-------------------------------- MODULE Logger --------------------------------
(***************************************************************************)
(* The rotating logger of log/.  Glogger (api.go) is made when somebody    *)
(* logs first, and made anew by InitLogger.  A RotateLogger                *)
(* (logrotate.go) has a goroutine, lorateLog, that hears of every line and *)
(* on each CheckEvery-th looks at the size of the file; when that is       *)
(* reached it replaces the Logger (logext.go) that writes the file by a    *)
(* new one with a new file.  A Logger is a buffered channel and the        *)
(* goroutine RealWrite that empties it into the file.                      *)
(*                                                                         *)
(* Lines are those that pass the levels.  The unit of size is a line.      *)
(* Taking a line from the channel and writing it is one step: a file that  *)
(* is one line behind is a file whose writer is slow.                      *)
(***************************************************************************)
EXTENDS Integers, Sequences, FiniteSets

CONSTANTS
    Procs,       \* goroutines that log
    MaxLines,    \* bound: calls that log
    MaxInits,    \* bound: calls of InitLogger by the service
    MaxGen,      \* bound: rotations of one RotateLogger
    CheckEvery,  \* lines between two looks at the size (100)
    BufferLen,   \* BUFFER_LEN (1000)
    Size,        \* size a file may reach
    OpenFails,   \* may a file fail to open?
    FailFiles,   \* bound: the files that a write may fail on
    Kinds        \* calls made: "log", "fatal"

ASSUME LoggerAssumption ==
    /\ MaxLines \in Nat /\ MaxInits \in Nat /\ MaxGen \in Nat
    /\ CheckEvery \in Nat \ {0} /\ BufferLen \in Nat \ {0} /\ Size \in Nat
    /\ OpenFails \in BOOLEAN /\ Kinds \subseteq {"log", "fatal"}
    /\ IsFiniteSet(Procs)

\* each goroutine that finds no logger makes one, and so does InitLogger
Rls     == 1 .. Cardinality(Procs) + MaxInits
None    == 0
Gens    == 0 .. MaxGen
Loggers == Rls \X Gens
Files   == 0 .. MaxLines + Cardinality(Rls)  \* one look at most for each line

VARIABLES
    died,       \* how the process has ended, "no" if it has not
    Glogger,
    made,       \* RotateLoggers made
    cnt, idx, gen,  \* of each: its counter, its file, its current Logger
    lorate,     \* where its goroutine is
    buf, writer, \* of each Logger: the channel, where RealWrite is; a line is
                 \* early if it was queued while RealWrite was in its loop
    file,       \* of each Logger: its file
    content,    \* of each file: what was written, and for whom
    pc, kind, line, \* of each goroutine: where it is, its call, its line
    using,      \* the RotateLogger it logs to, or closes
    ticket,     \* the number its line got
    to,         \* the Logger it sends to
    lines, inits    \* calls made

procVars == <<pc, kind, line, using, ticket, to>>
rotVars  == <<made, cnt, idx, gen, lorate>>
outVars  == <<buf, writer, file, content>>
vars == <<died, Glogger, rotVars, outVars, procVars, lines, inits>>

Current(r) == <<r, gen[r]>>

Init ==
    /\ died = "no" /\ Glogger = None /\ made = 0
    /\ cnt = [r \in Rls |-> 0] /\ idx = [r \in Rls |-> 0]
    /\ gen = [r \in Rls |-> 0]
    /\ lorate = [r \in Rls |-> "none"]
    /\ buf = [l \in Loggers |-> <<>>]
    /\ writer = [l \in Loggers |-> "none"]
    /\ file = [l \in Loggers |-> 0]
    /\ content = [f \in Files |-> <<>>]
    /\ pc = [p \in Procs |-> "idle"] /\ kind = [p \in Procs |-> "none"]
    /\ line = [p \in Procs |-> 0] /\ using = [p \in Procs |-> None]
    /\ ticket = [p \in Procs |-> 0]
    /\ to = [p \in Procs |-> <<1, 0>>]
    /\ lines = 0 /\ inits = 0

At(p, l)     == pc' = [pc EXCEPT ![p] = l]
Lorate(r, l) == lorate' = [lorate EXCEPT ![r] = l]

\* the call is over, and what it had taken is forgotten
Return(p) ==
    /\ At(p, "idle")
    /\ kind' = [kind EXCEPT ![p] = "none"]
    /\ line' = [line EXCEPT ![p] = 0]
    /\ using' = [using EXCEPT ![p] = None]
    /\ ticket' = [ticket EXCEPT ![p] = 0]
    /\ to' = [to EXCEPT ![p] = <<1, 0>>]

-----------------------------------------------------------------------------
\* Glogger.Infof and the others: take Glogger, then a number from its counter
Take(p, r) ==
    /\ using' = [using EXCEPT ![p] = r]
    /\ ticket' = [ticket EXCEPT ![p] = cnt[r] + 1]
    /\ cnt' = [cnt EXCEPT ![r] = @ + 1]
    /\ At(p, "announce")

\* INFOF and the others
LogCall(p, k) ==
    /\ pc[p] = "idle" /\ lines < MaxLines
    /\ lines' = lines + 1
    /\ line' = [line EXCEPT ![p] = lines + 1]
    /\ kind' = [kind EXCEPT ![p] = k]
    /\ IF Glogger = None
         THEN At(p, "init") /\ UNCHANGED <<using, ticket, cnt>>
         ELSE Take(p, Glogger)
    /\ UNCHANGED <<died, Glogger, made, idx, gen, lorate, outVars, to, inits>>

\* InitLogger, called by the service (framework.go)
InitCall(p) ==
    /\ pc[p] = "idle" /\ inits < MaxInits
    /\ inits' = inits + 1
    /\ kind' = [kind EXCEPT ![p] = "init"]
    /\ At(p, "init")
    /\ UNCHANGED <<died, Glogger, rotVars, outVars, line, using, ticket, to,
                   lines>>

\* a logger that is there is closed first
InitCheck(p) ==
    /\ pc[p] = "init"
    /\ using' = [using EXCEPT ![p] = Glogger]
    /\ At(p, IF Glogger = None THEN "make" ELSE "close")
    /\ UNCHANGED <<died, Glogger, rotVars, outVars, kind, line, ticket, to,
                   lines, inits>>

\* Close is over when lorateLog has received it
CloseReceived(p) ==
    LET r == using[p] IN
    /\ pc[p] = "close" /\ lorate[r] = "select"
    /\ Lorate(r, "end")
    /\ At(p, "make")
    /\ using' = [using EXCEPT ![p] = None]
    /\ UNCHANGED <<died, Glogger, made, cnt, idx, gen, outVars, kind, line,
                   ticket, to, lines, inits>>

\* a Logger and its goroutine (New)
NewLogger(l, f) ==
    /\ buf' = [buf EXCEPT ![l] = <<>>]
    /\ writer' = [writer EXCEPT ![l] = "select"]
    /\ file' = [file EXCEPT ![l] = f]

\* NewRotateLogger goes on with the newest of today's files, by the second
\* it was written in: any of them, as far as we can tell
Start(f) == IF Len(content[f]) > Size THEN f + 1 ELSE f
StartFiles ==
    LET used == {f \in Files : content[f] # <<>>}
    IN  IF used = {} THEN {0} ELSE {Start(f) : f \in used}

\* NewRotate and the assignment of Glogger
Make(p) ==
    LET r == made + 1 IN
    /\ pc[p] = "make"
    /\ \E f \in StartFiles :
          /\ idx' = [idx EXCEPT ![r] = f]
          /\ NewLogger(<<r, 0>>, f)
    /\ made' = r
    /\ Lorate(r, "select")
    /\ Glogger' = r
    /\ IF kind[p] = "init" THEN Return(p)
       ELSE At(p, "take") /\ UNCHANGED <<kind, line, using, ticket, to>>
    /\ UNCHANGED <<died, cnt, gen, content, lines, inits>>

\* no file: os.Exit(-1)
MakeFails(p) ==
    /\ pc[p] = "make" /\ OpenFails
    /\ died' = "exit"
    /\ UNCHANGED <<Glogger, rotVars, outVars, procVars, lines, inits>>

TakeMade(p) ==
    /\ pc[p] = "take"
    /\ Take(p, Glogger)
    /\ UNCHANGED <<died, Glogger, made, idx, gen, lorate, outVars, kind, line,
                   to, lines, inits>>

\* RotateLogger.Output: lorateLog receives the number
Announce(p) ==
    LET r == using[p] IN
    /\ pc[p] = "announce" /\ lorate[r] = "select"
    /\ Lorate(r, IF ticket[p] % CheckEvery = 0 THEN "stat" ELSE "select")
    /\ At(p, "output")
    /\ ticket' = [ticket EXCEPT ![p] = 0]
    /\ UNCHANGED <<died, Glogger, made, cnt, idx, gen, outVars, kind, line,
                   using, to, lines, inits>>

\* levelStats has six entries, and Lfatal is six
Counted(k) == k # "fatal"

\* ... then the Logger is looked up, and its Output counts the level
Output(p) ==
    /\ pc[p] = "output"
    /\ IF Counted(kind[p])
         THEN /\ to' = [to EXCEPT ![p] = Current(using[p])]
              /\ using' = [using EXCEPT ![p] = None]
              /\ At(p, "send")
              /\ UNCHANGED died
         ELSE died' = "index out of range" /\ UNCHANGED <<pc, to, using>>
    /\ UNCHANGED <<Glogger, rotVars, outVars, kind, line, ticket, lines, inits>>

Room(l) == Len(buf[l]) < BufferLen

\* after PANIC, which goes on from here, the caller or nobody recovers
Send(p) ==
    LET l == to[p] IN
    /\ pc[p] = "send" /\ Room(l)
    /\ buf' = [buf EXCEPT ![l] = Append(@,
                  [by |-> p, n |-> line[p], early |-> writer[l] = "select"])]
    /\ Return(p)
    /\ UNCHANGED <<died, Glogger, rotVars, writer, file, content, lines, inits>>

-----------------------------------------------------------------------------
\* lorateLog

Reached(r) == Len(content[file[Current(r)]]) >= Size /\ gen[r] < MaxGen

StatSmall(r) ==
    /\ lorate[r] = "stat" /\ ~Reached(r)
    /\ Lorate(r, "select")
    /\ UNCHANGED <<died, Glogger, made, cnt, idx, gen, outVars, procVars, lines,
                   inits>>

NextIdxSame(r) == idx[r]    \* mutant: rl.idx is not counted up
NextIdx(r) == idx[r] + 1

\* a file that cannot be opened costs its number, and the old one stays
StatReached(r) ==
    /\ lorate[r] = "stat" /\ Reached(r)
    /\ idx' = [idx EXCEPT ![r] = NextIdx(r)]
    /\ \/ Lorate(r, "swap")
       \/ OpenFails /\ Lorate(r, "select")
    /\ UNCHANGED <<died, Glogger, made, cnt, gen, outVars, procVars, lines,
                   inits>>

\* SetLogf: the old Logger's goroutine is told first
SwapTell(r) ==
    /\ lorate[r] = "swap" /\ writer[Current(r)] = "select"
    /\ writer' = [writer EXCEPT ![Current(r)] = "drain"]
    /\ Lorate(r, "new")
    /\ UNCHANGED <<died, Glogger, made, cnt, idx, gen, buf, file, content,
                   procVars, lines, inits>>

NextGenSame(r) == gen[r]    \* mutant: rl.Logger is not replaced
NextGen(r) == gen[r] + 1

SwapNew(r) ==
    /\ lorate[r] = "new"
    /\ NewLogger(<<r, gen[r] + 1>>, idx[r])
    /\ gen' = [gen EXCEPT ![r] = NextGen(r)]
    /\ Lorate(r, "select")
    /\ UNCHANGED <<died, Glogger, made, cnt, idx, content, procVars,
                   lines, inits>>

\* closed: the Logger's goroutine is told, and lorateLog returns
EndTell(r) ==
    /\ lorate[r] = "end" /\ writer[Current(r)] = "select"
    /\ writer' = [writer EXCEPT ![Current(r)] = "drain"]
    /\ Lorate(r, "gone")
    /\ UNCHANGED <<died, Glogger, made, cnt, idx, gen, buf, file, content,
                   procVars, lines, inits>>

-----------------------------------------------------------------------------
\* RealWrite

Write(l) ==
    /\ writer[l] \in {"select", "drain"} /\ buf[l] # <<>>
    /\ content' = [content EXCEPT ![file[l]] =
                       Append(@, [by |-> Head(buf[l]).by, n |-> Head(buf[l]).n,
                                 rl |-> l[1]])]
    /\ buf' = [buf EXCEPT ![l] = Tail(@)]
    /\ UNCHANGED <<died, Glogger, rotVars, writer, file, procVars, lines,
                   inits>>

\* its error is dropped, and the line with it
WriteFails(l) ==
    /\ writer[l] \in {"select", "drain"} /\ buf[l] # <<>>
    /\ file[l] \in FailFiles
    /\ buf' = [buf EXCEPT ![l] = Tail(@)]
    /\ UNCHANGED <<died, Glogger, rotVars, writer, file, content, procVars,
                   lines, inits>>

DrainedAlways(l) == TRUE    \* mutant: return at once
Drained(l) == buf[l] = <<>>

WriterEnd(l) ==
    /\ writer[l] = "drain" /\ Drained(l)
    /\ writer' = [writer EXCEPT ![l] = "gone"]
    /\ UNCHANGED <<died, Glogger, rotVars, buf, file, content, procVars,
                   lines, inits>>

-----------------------------------------------------------------------------
InCall(p) ==
    \/ InitCheck(p) \/ CloseReceived(p) \/ Make(p) \/ MakeFails(p)
    \/ TakeMade(p) \/ Announce(p) \/ Output(p) \/ Send(p)

LorateStep(r) ==
    StatSmall(r) \/ StatReached(r) \/ SwapTell(r) \/ SwapNew(r) \/ EndTell(r)

WriterStep(l) == Write(l) \/ WriteFails(l) \/ WriterEnd(l)

Next ==
    /\ died = "no"
    /\ \/ \E p \in Procs :
             \/ InitCall(p)
             \/ \E k \in Kinds : LogCall(p, k)
             \/ InCall(p)
       \/ \E r \in Rls : LorateStep(r)
       \/ \E l \in Loggers : WriterStep(l)

Spec == Init /\ [][Next]_vars

\* goroutines that are not blocked run, and writes end
FairSpec ==
    /\ Spec
    /\ \A p \in Procs : WF_vars(died = "no" /\ InCall(p))
    /\ \A r \in Rls : WF_vars(died = "no" /\ LorateStep(r))
    /\ \A l \in Loggers : WF_vars(died = "no" /\ WriterStep(l))

-----------------------------------------------------------------------------
TypeOK ==
    /\ died \in {"no", "exit", "index out of range"}
    /\ Glogger \in 0 .. made /\ made \in {None} \cup Rls
    /\ cnt \in [Rls -> Nat] /\ idx \in [Rls -> Files]
    /\ gen \in [Rls -> Gens]
    /\ lorate \in [Rls -> {"none", "select", "stat", "swap", "new", "end",
                           "gone"}]
    /\ \A l \in Loggers : Len(buf[l]) <= BufferLen
    /\ writer \in [Loggers -> {"none", "select", "drain", "gone"}]
    /\ file \in [Loggers -> Files]
    /\ pc \in [Procs -> {"idle", "init", "close", "make", "take", "announce",
                         "output", "send"}]
    /\ kind \in [Procs -> Kinds \cup {"none", "init"}]
    /\ line \in [Procs -> 0 .. MaxLines] /\ ticket \in [Procs -> Nat]
    /\ using \in [Procs -> {None} \cup Rls] /\ to \in [Procs -> Loggers]
    /\ lines \in 0 .. MaxLines /\ inits \in 0 .. MaxInits

(***************************************************************************)
(* A line is lost when it comes to a Logger that has been replaced, or     *)
(* closed, after it was looked up.  That costs a goroutine one line for    *)
(* each Logger at most: for the next one it looks up the new Logger.  What  *)
(* was queued while RealWrite was in its loop gets to its write; should    *)
(* that fail, nobody is told.                                              *)
(***************************************************************************)
Lost(p, l) == {i \in DOMAIN buf[l] : buf[l][i].by = p}
Late(p, l) == IF pc[p] = "send" /\ to[p] = l THEN 1 ELSE 0
QueuedIsWritten(l) == \A i \in DOMAIN buf[l] : ~buf[l][i].early

LossBound ==
    \A l \in Loggers :
        writer[l] = "gone" =>
            /\ QueuedIsWritten(l)
            /\ \A p \in Procs : Cardinality(Lost(p, l)) + Late(p, l) <= 1

(***************************************************************************)
(* Read in the order of their numbers, the files of a RotateLogger have    *)
(* the lines of each goroutine, those that were written, in the order in   *)
(* which it logged them, although the old Logger and the new one write at  *)
(* the same time.                                                          *)
(***************************************************************************)
Precedes(f, i, g, j) == f < g \/ (f = g /\ i < j)
ReadsInOrder ==
    \A f, g \in Files :
        \A i \in DOMAIN content[f], j \in DOMAIN content[g] :
            LET a == content[f][i]
                b == content[g][j]
            IN  /\ a.rl = b.rl /\ a.by = b.by
                /\ Precedes(f, i, g, j)
                => a.n < b.n

(***************************************************************************)
(* A call of the logger returns.  It waits for ever only where the logger  *)
(* it has taken is closed, so that nobody receives its number or its word  *)
(* to close, or where it fills the channel of a Logger that has ended.     *)
(***************************************************************************)
Forsaken(p) ==
    \/ pc[p] \in {"announce", "close"} /\ lorate[using[p]] = "gone"
    \/ pc[p] = "send" /\ writer[to[p]] = "gone" /\ ~Room(to[p])
CallsReturn ==
    \A p \in Procs :
        pc[p] # "idle" ~> pc[p] = "idle" \/ died # "no" \/ Forsaken(p)

(***************************************************************************)
(* Fatalf's comment: it is Printf followed by os.Exit(1), not a panic.     *)
(***************************************************************************)
FatalExits == died # "index out of range"
=============================================================================
