----------------------------- MODULE LoggerProofs -----------------------------
(***************************************************************************)
(* Proofs about Logger, for every number of goroutines, lines, rotations   *)
(* and rotate loggers, and every size of files and channels.               *)
(***************************************************************************)
EXTENDS Logger, FiniteSetTheorems, TLAPS

(***************************************************************************)
(* The inductive invariant.  Typed: what TypeOK does not say of the types. *)
(* Calls: what each call has taken, by the step it has come to.            *)
(* Rotators: which Loggers there are, and which of them rotation has told  *)
(* to end.  Enough: the bounds on rotate loggers and files are reached by  *)
(* no step.  Kept: what can still come to a Logger that has been told to   *)
(* end is one line of each goroutine.  Rising: the files of a rotate       *)
(* logger in the order of its Loggers.  Numbered and Placed: the lines of  *)
(* a goroutine, in files, in channels and on their way, are in the order   *)
(* of the Loggers they were sent to.                                       *)
(***************************************************************************)
Queued  == [by : Procs, n : Nat, early : BOOLEAN]
Written == [by : Procs, n : Nat, rl : Rls]

Typed ==
    /\ buf \in [Loggers -> Seq(Queued)] /\ content \in [Files -> Seq(Written)]

Calls ==
    /\ Glogger = made
    /\ \A p \in Procs :
          /\ pc[p] = "idle" <=> kind[p] = "none"
          /\ pc[p] \in {"take", "announce", "output", "send"} => kind[p] \in Kinds
          /\ kind[p] \in Kinds => line[p] \in 1 .. lines
          /\ pc[p] = "take" => made # None
          /\ pc[p] \in {"close", "announce", "output"} => using[p] \in 1 .. made
          /\ pc[p] = "send" => writer[to[p]] # "none"

Rotators ==
    \A r \in Rls :
       /\ lorate[r] = "none" <=> r > made
       /\ r > made => gen[r] = 0
       /\ \A g \in Gens : writer[<<r, g>>] = "none" <=> r > made \/ g > gen[r]
       /\ \A g \in Gens : writer[<<r, g>>] = "none" => buf[<<r, g>>] = <<>>
       /\ lorate[r] \in {"select", "stat", "swap", "end"} =>
             writer[Current(r)] = "select"
       /\ lorate[r] \in {"swap", "new"} => gen[r] < MaxGen

Making == {p \in Procs : pc[p] \in {"init", "close", "make"}}
Pending == {p \in Procs : /\ kind[p] \in Kinds
                          /\ pc[p] \in {"init", "close", "make", "take", "announce"}}
Looking == {r \in Rls : lorate[r] = "stat"}
Budget == lines + made - Cardinality(Pending) - Cardinality(Looking)

Enough ==
    /\ made + Cardinality(Making) <= inits + Cardinality(Procs)
    /\ \A r \in Rls : idx[r] <= Budget
    /\ \A l \in Loggers : file[l] <= Budget
    /\ \A f \in Files : content[f] # <<>> => f <= Budget

\* p has a line on its way to l, or has announced one that will look l up
Coming(p, l) ==
    \/ pc[p] = "send" /\ to[p] = l
    \/ pc[p] = "output" /\ using[p] = l[1] /\ l[2] = gen[l[1]]

KeptAt(l) ==
    /\ writer[l] = "select" => \A i \in DOMAIN buf[l] : buf[l][i].early
    /\ writer[l] = "gone" => \A i \in DOMAIN buf[l] : ~buf[l][i].early
    /\ writer[l] \in {"drain", "gone"} =>
          \A i \in DOMAIN buf[l] : ~buf[l][i].early =>
             /\ ~Coming(buf[l][i].by, l)
             /\ \A j \in DOMAIN buf[l] :
                   ~buf[l][j].early /\ buf[l][j].by = buf[l][i].by => i = j
Kept == \A l \in Loggers : KeptAt(l)

RisingAt(r) ==
    /\ \A g, h \in 0 .. gen[r] : g < h => file[<<r, g>>] < file[<<r, h>>]
    /\ file[Current(r)] <= idx[r]
    /\ lorate[r] \in {"swap", "new"} => file[Current(r)] < idx[r]
Rising == \A r \in Rls : RisingAt(r)

\* a line in f is of a Logger that has f; a line is older than what its
\* goroutine logs now
Known(a, f) == a.rl <= made /\ \E g \in 0 .. gen[a.rl] : file[<<a.rl, g>>] = f
Before(b)   == b.n <= lines /\ (kind[b.by] \in Kinds => b.n < line[b.by])
Numbered ==
    /\ \A f \in Files : \A i \in DOMAIN content[f] :
          Known(content[f][i], f) /\ Before(content[f][i])
    /\ \A l \in Loggers : \A i \in DOMAIN buf[l] : Before(buf[l][i])

\* where a line in a file is against one in a channel
FileChannel ==
    \A f \in Files, l \in Loggers :
       \A i \in DOMAIN content[f], j \in DOMAIN buf[l] :
          content[f][i].rl = l[1] /\ content[f][i].by = buf[l][j].by =>
             IF f <= file[l] THEN content[f][i].n < buf[l][j].n
             ELSE buf[l][j].n < content[f][i].n

Channels ==
    \A l, m \in Loggers : \A i \in DOMAIN buf[l], j \in DOMAIN buf[m] :
       /\ l[1] = m[1] /\ buf[l][i].by = buf[m][j].by
       /\ l[2] < m[2] \/ (l = m /\ i < j)
       => buf[l][i].n < buf[m][j].n

\* nothing of p is beyond the Logger it is about to send to
OnTheWay ==
    \A p \in Procs : pc[p] = "send" =>
       /\ \A m \in Loggers : m[1] = to[p][1] /\ m[2] > to[p][2] =>
             \A i \in DOMAIN buf[m] : buf[m][i].by # p
       /\ \A f \in Files : f > file[to[p]] =>
             \A i \in DOMAIN content[f] :
                content[f][i].by # p \/ content[f][i].rl # to[p][1]

Placed == FileChannel /\ Channels /\ OnTheWay /\ ReadsInOrder

IInv == /\ TypeOK /\ Typed /\ Calls /\ Rotators /\ Enough /\ Kept /\ Rising
        /\ Numbered /\ Placed

-----------------------------------------------------------------------------
(* Sequences, Loggers and the sets that are counted.                       *)

LEMMA QueueFacts ==
    ASSUME NEW S, NEW q \in Seq(S)
    PROVE  /\ Len(q) \in Nat /\ DOMAIN q = 1 .. Len(q)
           /\ \A i \in DOMAIN q : q[i] \in S
           /\ \A x \in S : /\ Append(q, x) \in Seq(S)
                           /\ DOMAIN Append(q, x) = 1 .. Len(q) + 1
                           /\ Len(Append(q, x)) = Len(q) + 1
                           /\ \A i \in DOMAIN q : Append(q, x)[i] = q[i]
                           /\ Append(q, x)[Len(q) + 1] = x
           /\ q # <<>> => /\ 1 \in DOMAIN q /\ Head(q) = q[1] /\ Tail(q) \in Seq(S)
                          /\ Len(Tail(q)) = Len(q) - 1
                          /\ DOMAIN Tail(q) = 1 .. Len(q) - 1
                          /\ \A i \in DOMAIN Tail(q) :
                                i + 1 \in DOMAIN q /\ Tail(q)[i] = q[i + 1]
    OBVIOUS

LEMMA LoggerFacts ==
    /\ \A r \in Rls, g \in Gens : <<r, g>> \in Loggers
    /\ \A l \in Loggers : l[1] \in Rls /\ l[2] \in Gens /\ l = <<l[1], l[2]>>
  BY DEF Loggers

LEMMA CountUp ==
    ASSUME NEW S, NEW c \in [S -> Nat], NEW x \in S
    PROVE  [c EXCEPT ![x] = c[x] + 1] \in [S -> Nat]
    OBVIOUS

LEMMA NatSets == Rls \subseteq Nat \ {0} /\ Gens \subseteq Nat /\ Files \subseteq Nat
  BY DEF Rls, Gens, Files

LEMMA Counts ==
    /\ Cardinality(Procs) \in Nat /\ MaxInits \in Nat
    /\ IsFiniteSet(Rls) /\ Cardinality(Rls) = Cardinality(Procs) + MaxInits
    /\ Rls \subseteq Nat \ {0} /\ Gens \subseteq Nat /\ Files \subseteq Nat
    /\ \A S \in SUBSET Procs : /\ IsFiniteSet(S) /\ Cardinality(S) \in Nat
                               /\ Cardinality(S) <= Cardinality(Procs)
    /\ \A S \in SUBSET Rls : IsFiniteSet(S) /\ Cardinality(S) \in Nat
<1>1. Cardinality(Procs) \in Nat /\ MaxInits \in Nat
  BY LoggerAssumption, FS_CardinalityType
<1>2. IsFiniteSet(Rls) /\ Cardinality(Rls) = Cardinality(Procs) + MaxInits
  <2>1. Cardinality(Procs) + MaxInits \in Nat
    BY <1>1
  <2>2. \A n \in Nat : IsFiniteSet(1 .. n) /\ Cardinality(1 .. n) = n
    <3>1. ASSUME NEW n \in Nat PROVE IsFiniteSet(1 .. n) /\ Cardinality(1 .. n) = n
      BY FS_Interval
    <3>. QED
      BY <3>1
  <2>. QED
    BY <2>1, <2>2 DEF Rls
<1>3. ASSUME NEW S \in SUBSET Procs
      PROVE  /\ IsFiniteSet(S) /\ Cardinality(S) \in Nat
             /\ Cardinality(S) <= Cardinality(Procs)
  BY LoggerAssumption, FS_Subset, FS_CardinalityType
<1>4. ASSUME NEW S \in SUBSET Rls PROVE IsFiniteSet(S) /\ Cardinality(S) \in Nat
  BY <1>2, FS_Subset, FS_CardinalityType
<1>5. Rls \subseteq Nat \ {0} /\ Gens \subseteq Nat /\ Files \subseteq Nat
  BY DEF Rls, Gens, Files
<1>. QED
  BY <1>1, <1>2, <1>3, <1>4, <1>5

LEMMA OneMore ==
    ASSUME NEW S, IsFiniteSet(S), NEW x
    PROVE  /\ x \notin S => Cardinality(S \cup {x}) = Cardinality(S) + 1
           /\ x \in S => /\ Cardinality(S \ {x}) = Cardinality(S) - 1
                         /\ Cardinality(S) >= 1
<1>1. x \notin S => Cardinality(S \cup {x}) = Cardinality(S) + 1
  BY FS_AddElement
<1>2. x \in S => Cardinality(S \ {x}) = Cardinality(S) - 1
  BY FS_RemoveElement
<1>3. x \in S => Cardinality(S) >= 1
  <2>1. Cardinality(S) \in Nat /\ (Cardinality(S) = 0 <=> S = {})
    BY FS_CardinalityType, FS_EmptySet
  <2>. QED
    BY <2>1
<1>. QED
  BY <1>1, <1>2, <1>3

(* The bounds on rotate loggers and files are never in the way.            *)

LEMMA CountTypes ==
    ASSUME TypeOK
    PROVE  /\ made \in Nat /\ made <= Cardinality(Rls) /\ lines \in Nat
           /\ lines <= MaxLines /\ inits \in Nat /\ inits <= MaxInits
           /\ MaxLines \in Nat /\ Cardinality(Rls) \in Nat
<1>1. made \in {0} \cup Rls /\ lines \in 0 .. MaxLines /\ inits \in 0 .. MaxInits
  BY DEF TypeOK, None
<1>2. Rls = 1 .. Cardinality(Rls) /\ Cardinality(Rls) \in Nat
  BY Counts DEF Rls
<1>. QED
  BY <1>1, <1>2, LoggerAssumption

LEMMA BudgetFacts ==
    ASSUME TypeOK
    PROVE  /\ Cardinality(Pending) \in Nat /\ IsFiniteSet(Pending)
           /\ Cardinality(Looking) \in Nat /\ IsFiniteSet(Looking)
           /\ Cardinality(Making) \in Nat /\ IsFiniteSet(Making)
           /\ made \in Nat /\ lines \in Nat /\ inits \in Nat /\ Budget \in Int
           /\ MaxLines \in Nat
<1>1. Pending \subseteq Procs /\ Making \subseteq Procs /\ Looking \subseteq Rls
  BY DEF Pending, Making, Looking
<1>2. made \in Nat /\ lines \in Nat /\ inits \in Nat
  BY CountTypes
<1>3. /\ Cardinality(Pending) \in Nat /\ IsFiniteSet(Pending)
      /\ Cardinality(Looking) \in Nat /\ IsFiniteSet(Looking)
      /\ Cardinality(Making) \in Nat /\ IsFiniteSet(Making)
  BY <1>1, Counts
<1>. QED
  BY <1>2, <1>3, LoggerAssumption DEF Budget

LEMMA MoreFiles ==
    ASSUME TypeOK, Enough, NEW r \in Rls, lorate[r] = "stat"
    PROVE  idx[r] + 1 \in Files
<1>1. Cardinality(Looking) >= 1
  BY BudgetFacts, OneMore DEF Looking
<1>2. idx[r] \in Nat /\ idx[r] <= Budget
  BY Counts DEF TypeOK, Enough
<1>3. made <= Cardinality(Rls) /\ lines <= MaxLines /\ Cardinality(Rls) \in Nat
  BY CountTypes
<1>4. idx[r] + 1 <= lines + made
  BY <1>1, <1>2, BudgetFacts DEF Budget
<1>. QED
  BY <1>2, <1>3, <1>4, BudgetFacts DEF Files

LEMMA MoreLoggers ==
    ASSUME TypeOK, Enough, NEW p \in Procs, pc[p] = "make"
    PROVE  made + 1 \in Rls
<1>1. Cardinality(Making) >= 1
  BY BudgetFacts, OneMore DEF Making
<1>2. inits <= MaxInits /\ inits \in Nat
  BY CountTypes
<1>. QED
  BY <1>1, <1>2, Counts, BudgetFacts DEF Enough, Rls

LEMMA StartsWithin ==
    ASSUME TypeOK, Typed, Enough, NEW p \in Procs, pc[p] = "make",
           NEW f \in StartFiles
    PROVE  f \in Files /\ f <= Budget + 1
<1>1. made + 1 \in Rls
  BY MoreLoggers
<1>2. 0 <= Budget
  <2>1. idx[made + 1] \in Nat /\ idx[made + 1] <= Budget
    BY <1>1, Counts DEF TypeOK, Enough
  <2>. QED
    BY <2>1, BudgetFacts
<1>3. PICK n \in Nat : n <= Budget /\ f \in {n, n + 1}
  <2>1. CASE \E g \in Files : content[g] # <<>>
    <3>1. PICK g \in Files : content[g] # <<>> /\ f = Start(g)
      BY <2>1 DEF StartFiles
    <3>. QED
      BY <3>1, Counts DEF Start, Enough
  <2>2. CASE ~\E g \in Files : content[g] # <<>>
    <3>1. f = 0
      BY <2>2 DEF StartFiles
    <3>. QED
      BY <1>2, <3>1
  <2>. QED
    BY <2>1, <2>2
<1>4. lines <= MaxLines /\ made + 1 <= Cardinality(Rls) /\ Cardinality(Rls) \in Nat
  BY <1>1, Counts, CountTypes DEF Rls
<1>5. Budget <= lines + made
  BY BudgetFacts DEF Budget
<1>. QED
  BY <1>3, <1>4, <1>5, BudgetFacts DEF Files


-----------------------------------------------------------------------------
(* The types, in parts that different steps change.                        *)

CallTypes ==
    /\ pc \in [Procs -> {"idle", "init", "close", "make", "take", "announce",
                         "output", "send"}]
    /\ kind \in [Procs -> Kinds \cup {"none", "init"}]
    /\ line \in [Procs -> 0 .. MaxLines] /\ ticket \in [Procs -> Nat]
    /\ using \in [Procs -> {None} \cup Rls] /\ to \in [Procs -> Loggers]
    /\ lines \in 0 .. MaxLines /\ inits \in 0 .. MaxInits

RotatorTypes ==
    /\ died \in {"no", "exit", "index out of range"}
    /\ Glogger \in 0 .. made /\ made \in {None} \cup Rls
    /\ cnt \in [Rls -> Nat] /\ idx \in [Rls -> Files]
    /\ gen \in [Rls -> Gens]
    /\ lorate \in [Rls -> {"none", "select", "stat", "swap", "new", "end",
                           "gone"}]

OutTypes ==
    /\ \A l \in Loggers : Len(buf[l]) <= BufferLen
    /\ writer \in [Loggers -> {"none", "select", "drain", "gone"}]
    /\ file \in [Loggers -> Files]
    /\ buf \in [Loggers -> Seq(Queued)] /\ content \in [Files -> Seq(Written)]

LEMMA TypeParts ==
    /\ TypeOK /\ Typed <=> CallTypes /\ RotatorTypes /\ OutTypes
    /\ TypeOK' /\ Typed' <=> CallTypes' /\ RotatorTypes' /\ OutTypes'
  BY Zenon DEF TypeOK, Typed, CallTypes, RotatorTypes, OutTypes

LEMMA Taken ==
    ASSUME TypeOK
    PROVE  \A r \in 1 .. made : r \in Rls
<1>1. made \in Nat /\ made <= Cardinality(Rls)
  BY CountTypes
<1>2. Rls = 1 .. Cardinality(Rls) /\ Cardinality(Rls) \in Nat
  BY Counts DEF Rls
<1>. QED
  BY <1>1, <1>2

LEMMA FirstLogger == \A p \in Procs : 1 \in Rls /\ <<1, 0>> \in Loggers
<1>. SUFFICES ASSUME NEW p \in Procs PROVE 1 \in Rls /\ <<1, 0>> \in Loggers
  OBVIOUS
<1>1. Cardinality(Procs) >= 1
  BY OneMore, Counts
<1>2. 1 \in Rls
  BY <1>1, Counts DEF Rls
<1>3. 0 \in Gens
  BY LoggerAssumption DEF Gens
<1>. QED
  BY <1>2, <1>3, LoggerFacts

LEMMA InitInv == Init => IInv
<1>. SUFFICES ASSUME Init PROVE IInv
  OBVIOUS
<1>. USE DEF Init
<1>0. /\ 0 \in Files /\ 0 \in Gens /\ 0 <= BufferLen /\ 0 \in 0 .. MaxLines
      /\ 0 \in 0 .. MaxInits
  BY LoggerAssumption, Counts DEF Files, Gens
<1>1. TypeOK /\ Typed
  <2>1. CallTypes
    BY <1>0, FirstLogger DEF CallTypes, None
  <2>2. RotatorTypes
    BY <1>0 DEF RotatorTypes, None
  <2>3. OutTypes
    <3>1. \A S : <<>> \in Seq(S)
      OBVIOUS
    <3>. QED
      BY <1>0, <3>1 DEF OutTypes
  <2>. QED
    BY <2>1, <2>2, <2>3, TypeParts
<1>2. Calls
  BY LoggerAssumption DEF Calls, None
<1>3. Rotators
  <2>1. \A r \in Rls : r > 0
    BY Counts
  <2>. QED
    BY <2>1, LoggerFacts DEF Rotators
<1>4. Kept /\ Numbered
  BY DEF Kept, KeptAt, Numbered
<1>5. Rising
  BY <1>0, LoggerFacts DEF Rising, RisingAt, Current
<1>6. Enough
  <2>1. Making = {} /\ Pending = {} /\ Looking = {}
    BY LoggerAssumption DEF Making, Pending, Looking
  <2>2. Budget = 0 /\ Cardinality(Making) = 0
    BY <2>1, FS_EmptySet DEF Budget
  <2>. QED
    BY <2>2, Counts DEF Enough
<1>7. Placed
  BY DEF Placed, FileChannel, Channels, OnTheWay, ReadsInOrder
<1>. QED
  BY <1>1, <1>2, <1>3, <1>4, <1>5, <1>6, <1>7 DEF IInv

-----------------------------------------------------------------------------
LEMMA CallTypesStep ==
    TypeOK /\ Typed /\ Calls /\ Rotators /\ Enough /\ [Next]_vars => CallTypes'
<1>. SUFFICES ASSUME TypeOK, Typed, Calls, Rotators, Enough, [Next]_vars
              PROVE CallTypes'
  OBVIOUS
<1>0. CallTypes /\ made \in {None} \cup Rls /\ made \in Nat /\ Glogger = made
      /\ cnt \in [Rls -> Nat] /\ 0 \in 0 .. MaxLines
  <2>1. RotatorTypes /\ CallTypes
    BY TypeParts
  <2>2. 0 \in 0 .. MaxLines
    BY CountTypes
  <2>3. Glogger = made
    BY DEF Calls
  <2>. QED
    BY <2>1, <2>2, <2>3, CountTypes DEF RotatorTypes
<1>. USE <1>0 DEF CallTypes, At
<1>1. ASSUME UNCHANGED <<procVars, lines, inits>> PROVE CallTypes'
  BY <1>1 DEF procVars
<1>2. ASSUME NEW p \in Procs, NEW k \in Kinds, LogCall(p, k) PROVE CallTypes'
  <2>1. lines + 1 \in 0 .. MaxLines
    BY <1>2, CountTypes DEF LogCall
  <2>. QED
    BY <1>2, <2>1 DEF LogCall, Take, None
<1>3. ASSUME NEW p \in Procs, InitCall(p) PROVE CallTypes'
  <2>1. inits + 1 \in 0 .. MaxInits
    BY <1>3, CountTypes, Counts DEF InitCall
  <2>. QED
    BY <1>3, <2>1 DEF InitCall
<1>4. ASSUME NEW p \in Procs, InitCheck(p) PROVE CallTypes'
  BY <1>4 DEF InitCheck
<1>5. ASSUME NEW p \in Procs, CloseReceived(p) PROVE CallTypes'
  BY <1>5 DEF CloseReceived
<1>6. ASSUME NEW p \in Procs, Make(p) PROVE CallTypes'
  BY <1>6, FirstLogger DEF Make, Return
<1>7. ASSUME NEW p \in Procs, TakeMade(p) PROVE CallTypes'
  BY <1>7 DEF TakeMade, Take, Calls, None
<1>8. ASSUME NEW p \in Procs, Announce(p) PROVE CallTypes'
  BY <1>8 DEF Announce
<1>9. ASSUME NEW p \in Procs, Output(p) PROVE CallTypes'
  <2>1. using[p] \in Rls
    BY <1>9, Taken DEF Output, Calls
  <2>3. gen \in [Rls -> Gens]
    BY TypeParts DEF RotatorTypes
  <2>2. Current(using[p]) \in Loggers
    BY <2>1, <2>3, LoggerFacts DEF Current
  <2>4. CASE /\ to' = [to EXCEPT ![p] = Current(using[p])]
             /\ using' = [using EXCEPT ![p] = None] /\ pc' = [pc EXCEPT ![p] = "send"]
    BY <1>9, <2>2, <2>4 DEF Output
  <2>5. CASE UNCHANGED <<pc, to, using>>
    BY <1>9, <2>5 DEF Output
  <2>. QED
    BY <1>9, <2>4, <2>5 DEF Output
<1>10. ASSUME NEW p \in Procs, Send(p) PROVE CallTypes'
  BY <1>10, FirstLogger DEF Send, Return
<1>11. ASSUME NEW p \in Procs, MakeFails(p) PROVE CallTypes'
  BY <1>1, <1>11 DEF MakeFails
<1>12. ASSUME NEW r \in Rls, LorateStep(r) PROVE CallTypes'
  BY <1>1, <1>12 DEF LorateStep, StatSmall, StatReached, SwapTell, SwapNew, EndTell
<1>13. ASSUME NEW l \in Loggers, WriterStep(l) PROVE CallTypes'
  BY <1>1, <1>13 DEF WriterStep, Write, WriteFails, WriterEnd
<1>. QED
  BY <1>1, <1>2, <1>3, <1>4, <1>5, <1>6, <1>7, <1>8, <1>9, <1>10, <1>11, <1>12,
     <1>13 DEF Next, InCall, vars

\* what the steps of the rotate loggers leave alone
LEMMA RotatorsAlone ==
    ASSUME [Next]_vars
    PROVE  \/ UNCHANGED <<died, Glogger, rotVars>>
           \/ \E p \in Procs : \/ \E k \in Kinds : LogCall(p, k)
                               \/ CloseReceived(p) \/ Make(p) \/ MakeFails(p)
                               \/ TakeMade(p) \/ Announce(p) \/ Output(p)
           \/ \E r \in Rls : LorateStep(r)
<1>1. ASSUME NEW p \in Procs, InitCall(p) \/ InitCheck(p) \/ Send(p)
      PROVE  UNCHANGED <<died, Glogger, rotVars>>
  BY <1>1 DEF InitCall, InitCheck, Send
<1>2. ASSUME NEW l \in Loggers, WriterStep(l)
      PROVE  UNCHANGED <<died, Glogger, rotVars>>
  BY <1>2 DEF WriterStep, Write, WriteFails, WriterEnd
<1>. QED
  BY <1>1, <1>2 DEF Next, InCall, vars

LEMMA RotatorTypesStep ==
    TypeOK /\ Typed /\ Calls /\ Rotators /\ Enough /\ [Next]_vars => RotatorTypes'
<1>. SUFFICES ASSUME TypeOK, Typed, Calls, Rotators, Enough, [Next]_vars
              PROVE RotatorTypes'
  OBVIOUS
<1>0. RotatorTypes /\ made \in Nat /\ Glogger = made
  BY TypeParts, CountTypes DEF Calls
<1>00. made # 0 => made \in Rls
  BY <1>0, Taken
<1>000. made + 1 \in 0 .. made + 1
  BY <1>0
<1>0000. \A r \in Rls : gen[r] \in Nat
  BY <1>0, NatSets DEF RotatorTypes
<1>. USE <1>0 DEF RotatorTypes, Lorate
<1>1. ASSUME UNCHANGED <<died, Glogger, rotVars>> PROVE RotatorTypes'
  BY <1>1 DEF rotVars
<1>2. ASSUME NEW p \in Procs, NEW k \in Kinds, LogCall(p, k) PROVE RotatorTypes'
  <2>1. UNCHANGED <<died, Glogger, made, idx, gen, lorate>>
    BY <1>2 DEF LogCall
  <2>2. cnt' = cnt \/ (made # 0 /\ cnt' = [cnt EXCEPT ![made] = cnt[made] + 1])
    BY <1>2 DEF LogCall, Take, None
  <2>3. cnt' \in [Rls -> Nat]
    <3>1. CASE cnt' = cnt
      BY <3>1
    <3>2. CASE made # 0 /\ cnt' = [cnt EXCEPT ![made] = cnt[made] + 1]
      BY <1>00, <3>2, CountUp
    <3>. QED
      BY <2>2, <3>1, <3>2
  <2>. QED
    BY <2>1, <2>3
<1>3. ASSUME NEW p \in Procs, CloseReceived(p) \/ Announce(p) PROVE RotatorTypes'
  BY <1>3 DEF CloseReceived, Announce
<1>4. ASSUME NEW p \in Procs, Make(p) PROVE RotatorTypes'
  <2>1. PICK f \in StartFiles : idx' = [idx EXCEPT ![made + 1] = f]
    BY <1>4 DEF Make
  <2>2. made + 1 \in Rls /\ f \in Files
    BY <1>4, <2>1, MoreLoggers, StartsWithin DEF Make
  <2>3. /\ died' = died /\ made' = made + 1 /\ Glogger' = made + 1
        /\ cnt' = cnt /\ gen' = gen
        /\ lorate' = [lorate EXCEPT ![made + 1] = "select"]
    BY <1>4 DEF Make
  <2>4. idx' \in [Rls -> Files]
    BY <2>1, <2>2
  <2>. QED
    BY <1>000, <2>2, <2>3, <2>4
<1>5. ASSUME NEW p \in Procs, MakeFails(p) \/ Output(p) PROVE RotatorTypes'
  <2>1. UNCHANGED <<Glogger, rotVars>>
    BY <1>5 DEF MakeFails, Output
  <2>2. died' \in {"no", "exit", "index out of range"}
    BY <1>5 DEF MakeFails, Output
  <2>. QED
    BY <2>1, <2>2 DEF rotVars
<1>6. ASSUME NEW p \in Procs, TakeMade(p) PROVE RotatorTypes'
  <2>1. made # 0
    BY <1>6 DEF TakeMade, Calls, None
  <2>2. /\ UNCHANGED <<died, Glogger, made, idx, gen, lorate>>
        /\ cnt' = [cnt EXCEPT ![made] = cnt[made] + 1]
    BY <1>6 DEF TakeMade, Take
  <2>3. cnt' \in [Rls -> Nat]
    BY <1>00, <2>1, <2>2, CountUp
  <2>. QED
    BY <2>2, <2>3
<1>7. ASSUME NEW r \in Rls, StatSmall(r) \/ SwapTell(r) \/ EndTell(r)
      PROVE  RotatorTypes'
  BY <1>7 DEF StatSmall, SwapTell, EndTell
<1>8. ASSUME NEW r \in Rls, StatReached(r) PROVE RotatorTypes'
  <2>1. idx[r] + 1 \in Files
    BY <1>8, MoreFiles DEF StatReached
  <2>. QED
    BY <1>8, <2>1 DEF StatReached, NextIdx
<1>9. ASSUME NEW r \in Rls, SwapNew(r) PROVE RotatorTypes'
  <2>1. gen[r] < MaxGen /\ gen[r] \in Nat /\ MaxGen \in Nat
    <3>1. lorate[r] = "new"
      BY <1>9 DEF SwapNew
    <3>2. gen[r] < MaxGen
      BY <3>1 DEF Rotators
    <3>. QED
      BY <1>0000, <3>2, LoggerAssumption
  <2>2. gen[r] + 1 \in Gens
    <3>. HIDE DEF RotatorTypes
    <3>. QED
      BY <2>1 DEF Gens
  <2>. QED
    BY <1>9, <2>2 DEF SwapNew, NextGen
<1>. QED
  BY RotatorsAlone, <1>1, <1>2, <1>3, <1>4, <1>5, <1>6, <1>7, <1>8, <1>9
     DEF LorateStep

(* The steps that change what is in channels and files.                    *)

LEMMA OutAlone ==
    ASSUME [Next]_vars
    PROVE  \/ UNCHANGED outVars
           \/ \E p \in Procs : Make(p) \/ Send(p)
           \/ \E r \in Rls : SwapTell(r) \/ SwapNew(r) \/ EndTell(r)
           \/ \E l \in Loggers : Write(l) \/ WriteFails(l) \/ WriterEnd(l)
<1>1. ASSUME NEW p \in Procs,
             \/ InitCall(p) \/ InitCheck(p) \/ CloseReceived(p) \/ MakeFails(p)
             \/ TakeMade(p) \/ Announce(p) \/ Output(p)
             \/ \E k \in Kinds : LogCall(p, k)
      PROVE  UNCHANGED outVars
  BY <1>1 DEF InitCall, InitCheck, CloseReceived, MakeFails, TakeMade, Announce,
              Output, LogCall
<1>2. ASSUME NEW r \in Rls, StatSmall(r) \/ StatReached(r)
      PROVE  UNCHANGED outVars
  BY <1>2 DEF StatSmall, StatReached
<1>. QED
  BY <1>1, <1>2 DEF Next, InCall, LorateStep, WriterStep, vars

Sent(p) == [by |-> p, n |-> line[p], early |-> writer[to[p]] = "select"]
Moved(l) == [by |-> buf[l][1].by, n |-> buf[l][1].n, rl |-> l[1]]

\* what a step makes of the channels and the files
LEMMA SendFacts ==
    ASSUME TypeOK, Typed, NEW p \in Procs, Send(p)
    PROVE  /\ to[p] \in Loggers /\ Sent(p) \in Queued
           /\ buf[to[p]] \in Seq(Queued)
           /\ buf' = [buf EXCEPT ![to[p]] = Append(buf[to[p]], Sent(p))]
           /\ Len(buf[to[p]]) < BufferLen /\ pc[p] = "send"
           /\ UNCHANGED <<died, Glogger, rotVars, writer, file, content, lines, inits>>
           /\ Return(p)
<1>1. CallTypes /\ OutTypes
  BY TypeParts
<1>2. line[p] \in Nat
  BY <1>1, CountTypes DEF CallTypes
<1>3. to[p] \in Loggers /\ buf[to[p]] \in Seq(Queued)
  BY <1>1 DEF CallTypes, OutTypes
<1>. QED
  BY <1>2, <1>3 DEF Send, Sent, Queued, Room

LEMMA WriteFacts ==
    ASSUME TypeOK, Typed, NEW l \in Loggers, Write(l)
    PROVE  /\ buf[l] \in Seq(Queued) /\ buf[l] # <<>> /\ Moved(l) \in Written
           /\ file[l] \in Files /\ content[file[l]] \in Seq(Written)
           /\ content' = [content EXCEPT ![file[l]] =
                                             Append(content[file[l]], Moved(l))]
           /\ buf' = [buf EXCEPT ![l] = Tail(buf[l])]
           /\ writer[l] \in {"select", "drain"}
           /\ UNCHANGED <<died, Glogger, rotVars, writer, file, procVars, lines,
                          inits>>
<1>1. OutTypes
  BY TypeParts
<1>2. /\ buf[l] \in Seq(Queued) /\ file[l] \in Files
      /\ content[file[l]] \in Seq(Written) /\ buf[l] # <<>>
  BY <1>1 DEF OutTypes, Write
<1>3. buf[l][1] \in Queued /\ Head(buf[l]) = buf[l][1]
  BY <1>2, QueueFacts
<1>4. Moved(l) \in Written
  BY <1>3, LoggerFacts DEF Queued, Written, Moved
<1>. QED
  BY <1>2, <1>3, <1>4 DEF Write, Moved

LEMMA WriteFailsFacts ==
    ASSUME TypeOK, Typed, NEW l \in Loggers, WriteFails(l)
    PROVE  /\ buf[l] \in Seq(Queued) /\ buf[l] # <<>>
           /\ buf' = [buf EXCEPT ![l] = Tail(buf[l])]
           /\ writer[l] \in {"select", "drain"}
           /\ UNCHANGED <<died, Glogger, rotVars, writer, file, content,
                          procVars, lines, inits>>
<1>1. OutTypes
  BY TypeParts
<1>. QED
  BY <1>1 DEF OutTypes, WriteFails

\* a new Logger, made by Make or by SwapNew
LEMMA NewFacts ==
    ASSUME TypeOK, Typed, Calls, Rotators, Enough,
           NEW p \in Procs, Make(p)
    PROVE  \E f \in Files :
              /\ f <= Budget + 1 /\ made + 1 \in Rls /\ 0 \in Gens
              /\ <<made + 1, 0>> \in Loggers
              /\ NewLogger(<<made + 1, 0>>, f)
              /\ idx' = [idx EXCEPT ![made + 1] = f]
              /\ writer[<<made + 1, 0>>] = "none" /\ buf[<<made + 1, 0>>] = <<>>
              /\ gen[made + 1] = 0
              /\ UNCHANGED <<content, gen>>
<1>1. PICK f \in StartFiles : /\ idx' = [idx EXCEPT ![made + 1] = f]
                              /\ NewLogger(<<made + 1, 0>>, f)
  BY DEF Make
<1>2. f \in Files /\ f <= Budget + 1 /\ made + 1 \in Rls
  BY <1>1, MoreLoggers, StartsWithin DEF Make
<1>3. 0 \in Gens
  BY LoggerAssumption DEF Gens
<1>4. <<made + 1, 0>> \in Loggers
  BY <1>2, <1>3, LoggerFacts
<1>5. /\ writer[<<made + 1, 0>>] = "none" /\ buf[<<made + 1, 0>>] = <<>>
      /\ gen[made + 1] = 0
  BY <1>2, <1>3, CountTypes DEF Rotators
<1>6. UNCHANGED <<content, gen>>
  BY DEF Make
<1>. QED
  BY <1>1, <1>2, <1>3, <1>4, <1>5, <1>6

LEMMA SwapFacts ==
    ASSUME TypeOK, Typed, Calls, Rotators,
           NEW r \in Rls, SwapNew(r)
    PROVE  /\ gen[r] + 1 \in Gens /\ <<r, gen[r] + 1>> \in Loggers
           /\ NewLogger(<<r, gen[r] + 1>>, idx[r]) /\ idx[r] \in Files
           /\ gen[r] \in Nat /\ r <= made
           /\ writer[<<r, gen[r] + 1>>] = "none" /\ buf[<<r, gen[r] + 1>>] = <<>>
           /\ gen' = [gen EXCEPT ![r] = gen[r] + 1]
           /\ UNCHANGED <<died, Glogger, made, cnt, idx, content, procVars,
                          lines, inits>>
           /\ lorate[r] = "new"
<1>0. lorate[r] = "new"
  BY DEF SwapNew
<1>1. gen[r] < MaxGen /\ gen[r] \in Gens /\ MaxGen \in Nat /\ idx[r] \in Files
  <2>1. gen[r] \in Gens /\ idx[r] \in Files
    BY TypeParts DEF RotatorTypes
  <2>. QED
    BY <1>0, <2>1, LoggerAssumption DEF Rotators
<1>2. gen[r] + 1 \in Gens /\ gen[r] \in Nat
  BY <1>1 DEF Gens
<1>3. r <= made
  BY <1>0, CountTypes, Counts DEF Rotators
<1>. QED
  BY <1>0, <1>1, <1>2, <1>3, LoggerFacts DEF SwapNew, NextGen, Rotators

LEMMA OutTypesStep ==
    TypeOK /\ Typed /\ Calls /\ Rotators /\ Enough /\ [Next]_vars => OutTypes'
<1>. SUFFICES ASSUME TypeOK, Typed, Calls, Rotators, Enough, [Next]_vars
              PROVE OutTypes'
  OBVIOUS
<1>0. OutTypes /\ BufferLen \in Nat
  BY TypeParts, LoggerAssumption
<1>00. <<>> \in Seq(Queued) /\ Len(<<>>) = 0
  OBVIOUS
<1>. USE <1>0 DEF OutTypes
<1>1. ASSUME UNCHANGED outVars PROVE OutTypes'
  BY <1>1 DEF outVars
<1>2. ASSUME NEW l \in Loggers, NEW f \in Files, NewLogger(l, f), UNCHANGED content
      PROVE  OutTypes'
  BY <1>2, <1>00 DEF NewLogger
<1>3. ASSUME NEW p \in Procs, Send(p) PROVE OutTypes'
  <2>1. /\ Append(buf[to[p]], Sent(p)) \in Seq(Queued)
        /\ Len(Append(buf[to[p]], Sent(p))) = Len(buf[to[p]]) + 1
        /\ Len(buf[to[p]]) \in Nat /\ Len(buf[to[p]]) < BufferLen
    <3>1. /\ buf[to[p]] \in Seq(Queued) /\ Sent(p) \in Queued
          /\ Len(buf[to[p]]) < BufferLen
      BY <1>3, SendFacts
    <3>. HIDE DEF OutTypes
    <3>. QED
      BY <3>1, QueueFacts
  <2>2. buf' = [buf EXCEPT ![to[p]] = Append(buf[to[p]], Sent(p))]
        /\ UNCHANGED <<writer, file, content>> /\ to[p] \in Loggers
    BY <1>3, SendFacts
  <2>. QED
    BY <2>1, <2>2
<1>4. ASSUME NEW r \in Rls, SwapTell(r) \/ EndTell(r) PROVE OutTypes'
  BY <1>4 DEF SwapTell, EndTell
<1>5. ASSUME NEW l \in Loggers, Write(l) PROVE OutTypes'
  <2>1. /\ Tail(buf[l]) \in Seq(Queued) /\ Len(Tail(buf[l])) = Len(buf[l]) - 1
        /\ Len(buf[l]) \in Nat /\ Len(buf[l]) <= BufferLen
        /\ Append(content[file[l]], Moved(l)) \in Seq(Written)
    <3>1. /\ buf[l] \in Seq(Queued) /\ buf[l] # <<>> /\ Moved(l) \in Written
          /\ content[file[l]] \in Seq(Written) /\ Len(buf[l]) <= BufferLen
      BY <1>5, WriteFacts
    <3>. HIDE DEF OutTypes
    <3>. QED
      BY <3>1, QueueFacts
  <2>2. /\ content' = [content EXCEPT ![file[l]] =
                                        Append(content[file[l]], Moved(l))]
        /\ buf' = [buf EXCEPT ![l] = Tail(buf[l])]
        /\ UNCHANGED <<writer, file>> /\ file[l] \in Files
    BY <1>5, WriteFacts
  <2>. QED
    BY <2>1, <2>2
<1>6. ASSUME NEW l \in Loggers, WriterEnd(l) PROVE OutTypes'
  BY <1>6 DEF WriterEnd
<1>7. ASSUME NEW p \in Procs, Make(p) PROVE OutTypes'
  BY <1>2, <1>7, NewFacts
<1>8. ASSUME NEW r \in Rls, SwapNew(r) PROVE OutTypes'
  BY <1>2, <1>8, SwapFacts
<1>9. ASSUME NEW l \in Loggers, WriteFails(l) PROVE OutTypes'
  <2>1. /\ Tail(buf[l]) \in Seq(Queued) /\ Len(Tail(buf[l])) = Len(buf[l]) - 1
        /\ Len(buf[l]) \in Nat /\ Len(buf[l]) <= BufferLen
    <3>1. buf[l] \in Seq(Queued) /\ buf[l] # <<>> /\ Len(buf[l]) <= BufferLen
      BY <1>9, WriteFailsFacts
    <3>. HIDE DEF OutTypes
    <3>. QED
      BY <3>1, QueueFacts
  <2>2. /\ buf' = [buf EXCEPT ![l] = Tail(buf[l])]
        /\ UNCHANGED <<writer, file, content>>
    BY <1>9, WriteFailsFacts
  <2>. QED
    BY <2>1, <2>2
<1>. QED
  BY OutAlone, <1>1, <1>3, <1>4, <1>5, <1>6, <1>7, <1>8, <1>9

-----------------------------------------------------------------------------
(* What each call has taken, and which Loggers there are.                  *)

LEMMA CallsStep == IInv /\ [Next]_vars => Calls'
<1>. SUFFICES ASSUME IInv, [Next]_vars PROVE Calls'
  OBVIOUS
<1>0. TypeOK /\ Typed /\ Calls /\ Rotators /\ Enough
  BY DEF IInv
<1>00. /\ CallTypes /\ made \in Nat /\ lines \in Nat /\ None = 0
       /\ "none" \notin Kinds /\ "init" \notin Kinds
  BY <1>0, TypeParts, CountTypes, LoggerAssumption DEF None
<1>. USE <1>0, <1>00 DEF Calls, CallTypes, At
<1>1. ASSUME UNCHANGED <<Glogger, made, procVars, lines, writer>> PROVE Calls'
  BY <1>1 DEF procVars
<1>2. ASSUME NEW p \in Procs, NEW k \in Kinds, LogCall(p, k) PROVE Calls'
  BY <1>2 DEF LogCall, Take, outVars
<1>3. ASSUME NEW p \in Procs, InitCall(p) PROVE Calls'
  BY <1>3 DEF InitCall, rotVars, outVars
<1>4. ASSUME NEW p \in Procs, InitCheck(p) PROVE Calls'
  BY <1>4 DEF InitCheck, rotVars, outVars
<1>5. ASSUME NEW p \in Procs, CloseReceived(p) PROVE Calls'
  BY <1>5 DEF CloseReceived, outVars
<1>6. ASSUME NEW p \in Procs, Make(p) PROVE Calls'
  <2>1. PICK f \in Files : NewLogger(<<made + 1, 0>>, f)
    BY <1>6, NewFacts
  <2>2. writer' = [writer EXCEPT ![<<made + 1, 0>>] = "select"]
    BY <2>1 DEF NewLogger
  <2>3. OutTypes
    BY TypeParts
  <2>4. \A q \in Procs : writer[to[q]] # "none" => writer'[to[q]] # "none"
    BY <2>2, <2>3 DEF OutTypes
  <2>. QED
    BY <1>6, <2>4 DEF Make, Return
<1>7. ASSUME NEW p \in Procs, TakeMade(p) PROVE Calls'
  BY <1>7 DEF TakeMade, Take, outVars
<1>8. ASSUME NEW p \in Procs, Announce(p) PROVE Calls'
  BY <1>8 DEF Announce, outVars
<1>9. ASSUME NEW p \in Procs, Output(p) PROVE Calls'
  <2>1. CASE pc' = pc
    BY <1>9, <2>1 DEF Output, rotVars, outVars
  <2>2. CASE /\ to' = [to EXCEPT ![p] = Current(using[p])]
             /\ pc' = [pc EXCEPT ![p] = "send"]
             /\ using' = [using EXCEPT ![p] = None]
    <3>0. using[p] \in 1 .. made
      BY <1>9 DEF Output
    <3>1. using[p] \in Rls /\ using[p] <= made /\ using[p] \in Nat
      BY <3>0, Taken
    <3>2. gen[using[p]] \in Gens /\ gen[using[p]] \in Nat
      BY <3>1, TypeParts, NatSets DEF RotatorTypes
    <3>3. writer[Current(using[p])] # "none"
      BY <3>1, <3>2 DEF Rotators, Current
    <3>4. /\ pc[p] = "output"
          /\ UNCHANGED <<Glogger, made, kind, line, lines, writer>>
      BY <1>9 DEF Output, rotVars, outVars
    <3>. QED
      BY <2>2, <3>3, <3>4
  <2>. QED
    BY <1>9, <2>1, <2>2 DEF Output
<1>10. ASSUME NEW p \in Procs, Send(p) PROVE Calls'
  BY <1>10 DEF Send, Return, rotVars
<1>11. ASSUME NEW p \in Procs, MakeFails(p) PROVE Calls'
  BY <1>1, <1>11 DEF MakeFails, rotVars, outVars
<1>12. ASSUME NEW r \in Rls, StatSmall(r) \/ StatReached(r) PROVE Calls'
  BY <1>1, <1>12 DEF StatSmall, StatReached, outVars
<1>13. ASSUME NEW l \in Loggers, NEW w \in {"select", "drain", "gone"},
              writer' = [writer EXCEPT ![l] = w],
              UNCHANGED <<Glogger, made, procVars, lines>>
       PROVE  Calls'
  <2>1. OutTypes
    BY TypeParts
  <2>2. \A q \in Procs : writer[to[q]] # "none" => writer'[to[q]] # "none"
    BY <1>13, <2>1 DEF OutTypes
  <2>. QED
    BY <1>13, <2>2 DEF procVars
<1>14. ASSUME NEW r \in Rls, SwapTell(r) \/ EndTell(r) PROVE Calls'
  <2>1. Current(r) \in Loggers
    BY TypeParts, LoggerFacts DEF Current, RotatorTypes
  <2>. QED
    BY <1>13, <1>14, <2>1 DEF SwapTell, EndTell
<1>15. ASSUME NEW r \in Rls, SwapNew(r) PROVE Calls'
  BY <1>13, <1>15, SwapFacts DEF NewLogger
<1>16. ASSUME NEW l \in Loggers, Write(l) PROVE Calls'
  BY <1>1, <1>16, WriteFacts DEF rotVars
<1>17. ASSUME NEW l \in Loggers, WriterEnd(l) PROVE Calls'
  BY <1>13, <1>17 DEF WriterEnd, rotVars
<1>18. ASSUME NEW l \in Loggers, WriteFails(l) PROVE Calls'
  BY <1>1, <1>18, WriteFailsFacts DEF rotVars
<1>. QED
  BY <1>1, <1>2, <1>3, <1>4, <1>5, <1>6, <1>7, <1>8, <1>9, <1>10, <1>11, <1>12,
     <1>14, <1>15, <1>16, <1>17, <1>18
     DEF Next, InCall, LorateStep, WriterStep, vars, rotVars, outVars

LEMMA RotatorsStep == IInv /\ [Next]_vars => Rotators'
<1>. SUFFICES ASSUME IInv, [Next]_vars PROVE Rotators'
  OBVIOUS
<1>0. /\ TypeOK /\ Typed /\ Calls /\ Rotators /\ Enough
      /\ RotatorTypes /\ OutTypes /\ made \in Nat
  BY TypeParts, CountTypes DEF IInv
<1>1. ASSUME UNCHANGED <<made, gen, lorate, writer, buf>> PROVE Rotators'
  BY <1>0, <1>1 DEF Rotators, Current
\* steps of a goroutine of a rotate logger that leave its Loggers alone
<1>2. ASSUME NEW r \in Rls, NEW w \in {"select", "stat", "end", "swap"},
             lorate[r] \in {"select", "stat"}, w = "swap" => gen[r] < MaxGen,
             lorate' = [lorate EXCEPT ![r] = w], UNCHANGED <<made, gen, writer, buf>>
      PROVE  Rotators'
  <2>1. \A s \in Rls : lorate'[s] = IF s = r THEN w ELSE lorate[s]
    BY <1>0, <1>2 DEF RotatorTypes
  <2>. QED
    BY <1>0, <1>2, <2>1 DEF Rotators, Current
<1>3. ASSUME NEW p \in Procs, CloseReceived(p) \/ Announce(p) PROVE Rotators'
  <2>1. using[p] \in Rls
    BY <1>0, <1>3, Taken DEF CloseReceived, Announce, Calls
  <2>. QED
    BY <1>2, <1>3, <2>1 DEF CloseReceived, Announce, Lorate, outVars
<1>4. ASSUME NEW p \in Procs, Make(p) PROVE Rotators'
  <2>. DEFINE n == made + 1
              l == <<n, 0>>
  <2>1. PICK f \in Files : NewLogger(l, f)
    BY <1>0, <1>4, NewFacts
  <2>2. n \in Rls /\ l \in Loggers /\ gen[n] = 0 /\ gen' = gen /\ 0 \in Gens
    BY <1>0, <1>4, NewFacts
  <2>3. made' = n /\ lorate' = [lorate EXCEPT ![n] = "select"]
    BY <1>4 DEF Make, Lorate
  <2>4. /\ writer' = [writer EXCEPT ![l] = "select"]
        /\ buf' = [buf EXCEPT ![l] = <<>>]
    BY <2>1 DEF NewLogger
  <2>5. ASSUME NEW r \in Rls, NEW g \in Gens
        PROVE  /\ writer'[<<r, g>>] =
                     IF r = n /\ g = 0 THEN "select" ELSE writer[<<r, g>>]
               /\ buf'[<<r, g>>] = IF r = n /\ g = 0 THEN <<>> ELSE buf[<<r, g>>]
    <3>1. <<r, g>> \in Loggers
      BY LoggerFacts
    <3>. QED
      BY <1>0, <2>4, <3>1 DEF OutTypes
  <2>6. \A r \in Rls : lorate'[r] = IF r = n THEN "select" ELSE lorate[r]
    BY <1>0, <2>3 DEF RotatorTypes
  <2>7. \A r \in Rls : r \in Nat
    BY NatSets
  <2>8. \A g \in Gens : g \in Nat
    BY NatSets
  <2>9. n > made /\ \A s \in Rls : s > n <=> s > made /\ s # n
    BY <1>0, <2>7
  <2>11. \A g \in Gens : g # 0 => writer[<<n, g>>] = "none" /\ buf[<<n, g>>] = <<>>
    BY <1>0, <2>2, <2>9 DEF Rotators
  <2>. HIDE DEF l, n
  <2>10. ASSUME NEW s \in Rls
         PROVE  /\ lorate'[s] = "none" <=> s > n
                /\ s > n => gen[s] = 0
                /\ \A g \in Gens : writer'[<<s, g>>] = "none" <=> s > n \/ g > gen[s]
                /\ \A g \in Gens : writer'[<<s, g>>] = "none" => buf'[<<s, g>>] = <<>>
                /\ lorate'[s] \in {"select", "stat", "swap", "end"} =>
                      writer'[<<s, gen[s]>>] = "select"
                /\ lorate'[s] \in {"swap", "new"} => gen[s] < MaxGen
    <3>0. gen[s] \in Gens
      BY <1>0 DEF RotatorTypes
    <3>1. CASE s = n
      BY <2>2, <2>5, <2>6, <2>8, <2>11, <3>1, <2>9
    <3>2. CASE s # n
      BY <1>0, <2>5, <2>6, <2>9, <3>0, <3>2 DEF Rotators, Current
    <3>. QED
      BY <3>1, <3>2
  <2>. QED
    BY <2>2, <2>3, <2>10 DEF Rotators, Current
<1>5. ASSUME NEW r \in Rls, StatSmall(r) PROVE Rotators'
  BY <1>2, <1>5 DEF StatSmall, Lorate, outVars
<1>6. ASSUME NEW r \in Rls, StatReached(r) PROVE Rotators'
  BY <1>2, <1>6 DEF StatReached, Lorate, Reached, outVars
\* a writer is told to end
<1>7. ASSUME NEW r \in Rls, SwapTell(r) \/ EndTell(r) PROVE Rotators'
  <2>1. /\ writer[Current(r)] = "select"
        /\ writer' = [writer EXCEPT ![Current(r)] = "drain"]
        /\ lorate[r] = "swap" \/ lorate[r] = "end"
        /\ \/ lorate' = [lorate EXCEPT ![r] = "gone"]
           \/ lorate[r] = "swap" /\ lorate' = [lorate EXCEPT ![r] = "new"]
        /\ UNCHANGED <<made, gen, buf>>
    BY <1>7 DEF SwapTell, EndTell, Lorate
  <2>2. \A l \in Loggers : writer'[l] # writer[l] => l = Current(r) /\ writer'[l] = "drain"
    BY <1>0, <2>1 DEF OutTypes
  <2>3. \A s \in Rls : Current(s) = Current(r) => s = r
    BY DEF Current
  <2>4. \A s \in Rls : Current(s) \in Loggers
    BY <1>0, LoggerFacts DEF Current, RotatorTypes
  <2>5. \A s \in Rls : lorate'[s] # lorate[s] =>
           /\ s = r /\ lorate[s] \in {"swap", "end"}
           /\ \/ lorate'[s] = "gone"
              \/ lorate[s] = "swap" /\ lorate'[s] = "new"
    BY <1>0, <2>1 DEF RotatorTypes
  <2>50. \A s \in Rls : lorate'[r] \in {"gone", "new"}
    BY <1>0, <2>1 DEF RotatorTypes
  <2>6. ASSUME NEW s \in Rls
        PROVE  /\ lorate'[s] = "none" <=> s > made
               /\ \A g \in Gens : writer'[<<s, g>>] = "none" <=> writer[<<s, g>>] = "none"
               /\ lorate'[s] \in {"select", "stat", "swap", "end"} =>
                     writer'[Current(s)] = "select"
               /\ lorate'[s] \in {"swap", "new"} => gen[s] < MaxGen
    <3>1. lorate'[s] = "none" <=> s > made
      BY <1>0, <2>5 DEF Rotators
    <3>2. \A g \in Gens : writer'[<<s, g>>] = "none" <=> writer[<<s, g>>] = "none"
      BY <1>0, <2>1, <2>2, LoggerFacts
    <3>3. lorate'[s] \in {"select", "stat", "swap", "end"} =>
             writer'[Current(s)] = "select"
      <4>1. CASE s = r
        BY <2>50, <4>1
      <4>2. CASE s # r
        BY <1>0, <2>2, <2>3, <2>4, <2>5, <4>2 DEF Rotators
      <4>. QED
        BY <4>1, <4>2
    <3>4. lorate'[s] \in {"swap", "new"} => gen[s] < MaxGen
      BY <1>0, <2>5 DEF Rotators
    <3>. QED
      BY <3>1, <3>2, <3>3, <3>4
  <2>. QED
    BY <1>0, <2>1, <2>6 DEF Rotators, Current
<1>8. ASSUME NEW r \in Rls, SwapNew(r) PROVE Rotators'
  <2>. DEFINE n == gen[r] + 1
              l == <<r, n>>
  <2>1. /\ n \in Gens /\ l \in Loggers /\ n \in Nat /\ gen[r] \in Nat /\ r <= made
        /\ gen' = [gen EXCEPT ![r] = n] /\ made' = made /\ lorate[r] = "new"
    BY <1>0, <1>8, SwapFacts
  <2>2. /\ writer' = [writer EXCEPT ![l] = "select"]
        /\ buf' = [buf EXCEPT ![l] = <<>>]
    BY <1>0, <1>8, SwapFacts DEF NewLogger
  <2>3. lorate' = [lorate EXCEPT ![r] = "select"]
    BY <1>8 DEF SwapNew, Lorate
  <2>4. ASSUME NEW s \in Rls, NEW g \in Gens
        PROVE  /\ writer'[<<s, g>>] =
                     IF s = r /\ g = n THEN "select" ELSE writer[<<s, g>>]
               /\ buf'[<<s, g>>] = IF s = r /\ g = n THEN <<>> ELSE buf[<<s, g>>]
    <3>1. <<s, g>> \in Loggers
      BY LoggerFacts
    <3>. QED
      BY <1>0, <2>2, <3>1 DEF OutTypes
  <2>5. \A s \in Rls : /\ lorate'[s] = IF s = r THEN "select" ELSE lorate[s]
                       /\ gen'[s] = IF s = r THEN n ELSE gen[s]
                       /\ gen[s] \in Gens
    BY <1>0, <2>1, <2>3 DEF RotatorTypes
  <2>6. \A s \in Rls : s \in Nat
    BY NatSets
  <2>7. \A g \in Gens : g \in Nat
    BY NatSets
  <2>8. gen[r] < MaxGen /\ MaxGen \in Nat
    BY <1>0, <2>1, LoggerAssumption DEF Rotators
  <2>. HIDE DEF l
  <2>9. ASSUME NEW s \in Rls
        PROVE  /\ lorate'[s] = "none" <=> s > made
               /\ s > made => gen'[s] = 0
               /\ \A g \in Gens : writer'[<<s, g>>] = "none" <=> s > made \/ g > gen'[s]
               /\ \A g \in Gens : writer'[<<s, g>>] = "none" => buf'[<<s, g>>] = <<>>
               /\ lorate'[s] \in {"select", "stat", "swap", "end"} =>
                     writer'[<<s, gen'[s]>>] = "select"
               /\ lorate'[s] \in {"swap", "new"} => gen'[s] < MaxGen
    <3>1. CASE s = r
      BY <1>0, <2>1, <2>4, <2>5, <2>6, <2>7, <2>8, <3>1 DEF Rotators
    <3>2. CASE s # r
      BY <1>0, <2>1, <2>4, <2>5, <2>6, <2>7, <3>2 DEF Rotators, Current
    <3>. QED
      BY <3>1, <3>2
  <2>. QED
    BY <2>1, <2>9 DEF Rotators, Current
<1>9. ASSUME NEW p \in Procs, Send(p) PROVE Rotators'
  <2>1. /\ to[p] \in Loggers /\ writer[to[p]] # "none"
        /\ buf' = [buf EXCEPT ![to[p]] = Append(buf[to[p]], Sent(p))]
        /\ UNCHANGED <<rotVars, writer>>
    BY <1>0, <1>9, SendFacts DEF Calls
  <2>2. \A l \in Loggers : writer[l] = "none" => buf'[l] = buf[l]
    BY <1>0, <2>1 DEF OutTypes
  <2>. QED
    BY <1>0, <2>1, <2>2, LoggerFacts DEF Rotators, Current, rotVars
<1>10. ASSUME NEW l \in Loggers, Write(l) \/ WriteFails(l) PROVE Rotators'
  <2>1. /\ writer[l] # "none" /\ buf' = [buf EXCEPT ![l] = Tail(buf[l])]
        /\ UNCHANGED <<rotVars, writer>>
    BY <1>0, <1>10, WriteFacts, WriteFailsFacts
  <2>2. \A m \in Loggers : writer[m] = "none" => buf'[m] = buf[m]
    BY <1>0, <2>1 DEF OutTypes
  <2>. QED
    BY <1>0, <2>1, <2>2, LoggerFacts DEF Rotators, Current, rotVars
<1>11. ASSUME NEW l \in Loggers, WriterEnd(l) PROVE Rotators'
  <2>1. /\ writer[l] = "drain" /\ writer' = [writer EXCEPT ![l] = "gone"]
        /\ UNCHANGED <<rotVars, buf>>
    BY <1>11 DEF WriterEnd
  <2>2. \A m \in Loggers : writer[m] # "drain" => writer'[m] = writer[m]
    BY <1>0, <2>1 DEF OutTypes
  <2>3. \A m \in Loggers : writer'[m] = "none" <=> writer[m] = "none"
    BY <1>0, <2>1, <2>2 DEF OutTypes
  <2>4. \A r \in Rls : Current(r) \in Loggers
    BY <1>0, LoggerFacts DEF Current, RotatorTypes
  <2>. QED
    BY <1>0, <2>1, <2>2, <2>3, <2>4, LoggerFacts DEF Rotators, Current, rotVars
<1>12. ASSUME NEW p \in Procs,
              \/ InitCall(p) \/ InitCheck(p) \/ MakeFails(p) \/ TakeMade(p)
              \/ Output(p) \/ \E k \in Kinds : LogCall(p, k)
       PROVE  Rotators'
  BY <1>1, <1>12 DEF InitCall, InitCheck, MakeFails, TakeMade, Output, LogCall,
                     rotVars, outVars
<1>. QED
  BY <1>1, <1>3, <1>4, <1>5, <1>6, <1>7, <1>8, <1>9, <1>10, <1>11, <1>12
     DEF Next, InCall, LorateStep, WriterStep, vars, rotVars, outVars


-----------------------------------------------------------------------------
(* The bounds: how the counted sets and Budget change.                     *)

LEMMA SetGrows ==
    ASSUME NEW S, IsFiniteSet(S), NEW x
    PROVE  Cardinality(S \cup {x}) <= Cardinality(S) + 1
<1>1. Cardinality(S) \in Nat
  BY FS_CardinalityType
<1>2. CASE x \in S
  <2>1. S \cup {x} = S
    BY <1>2
  <2>2. Cardinality(S) <= Cardinality(S) + 1
    BY <1>1
  <2>. QED
    BY <2>1, <2>2
<1>3. CASE x \notin S
  BY <1>1, <1>3, OneMore
<1>. QED
  BY <1>2, <1>3

LEMMA BudgetFactsNext ==
    ASSUME TypeOK'
    PROVE  /\ Cardinality(Pending)' \in Nat /\ Cardinality(Looking)' \in Nat
           /\ Cardinality(Making)' \in Nat
           /\ made' \in Nat /\ lines' \in Nat /\ inits' \in Nat /\ Budget' \in Int
<1>1. Pending' \subseteq Procs /\ Making' \subseteq Procs /\ Looking' \subseteq Rls
  BY DEF Pending, Making, Looking
<1>2. made' \in Nat /\ lines' \in Nat /\ inits' \in Nat
  <2>1. made' \in {0} \cup Rls /\ lines' \in 0 .. MaxLines /\ inits' \in 0 .. MaxInits
    BY DEF TypeOK, None
  <2>. QED
    BY <2>1, NatSets, LoggerAssumption
<1>3. /\ Cardinality(Pending') \in Nat /\ Cardinality(Looking') \in Nat
      /\ Cardinality(Making') \in Nat
  BY <1>1, Counts
<1>. QED
  BY <1>2, <1>3 DEF Budget

LEMMA BudgetTypes ==
    ASSUME TypeOK, TypeOK'
    PROVE  /\ Budget \in Int /\ Budget' \in Int
           /\ \A r \in Rls : idx[r] \in Nat
           /\ \A l \in Loggers : file[l] \in Nat
           /\ \A f \in Files : f \in Nat
<1>1. Budget \in Int
  BY BudgetFacts
<1>2. Budget' \in Int
  BY BudgetFactsNext
<1>. QED
  BY <1>1, <1>2, NatSets DEF TypeOK

\* nothing below the budget is beyond it when the budget grows
LEMMA BudgetKept ==
    ASSUME TypeOK, TypeOK', Enough, Budget <= Budget',
           UNCHANGED <<idx, file, content>>,
           made' + Cardinality(Making)' <= inits' + Cardinality(Procs)
    PROVE  Enough'
  BY BudgetTypes DEF Enough

\* the goroutines that wait for a logger, or for its goroutine, as p goes on
LEMMA CallSets ==
    ASSUME TypeOK, Calls, NEW p \in Procs,
           \A q \in Procs \ {p} : pc'[q] = pc[q] /\ kind'[q] = kind[q]
    PROVE  /\ Making' \ {p} = Making \ {p} /\ Pending' \ {p} = Pending \ {p}
           /\ p \in Making' <=> pc'[p] \in {"init", "close", "make"}
           /\ p \in Making <=> pc[p] \in {"init", "close", "make"}
           /\ p \in Pending' <=>
                 /\ kind'[p] \in Kinds
                 /\ pc'[p] \in {"init", "close", "make", "take", "announce"}
           /\ p \in Pending <=>
                 /\ kind[p] \in Kinds
                 /\ pc[p] \in {"init", "close", "make", "take", "announce"}
  BY DEF Making, Pending

LEMMA SameButOne ==
    ASSUME NEW S, NEW T, NEW x, S \ {x} = T \ {x}
    PROVE  /\ (x \in S <=> x \in T) => S = T
           /\ x \in S /\ x \notin T => S = T \cup {x}
           /\ x \notin S /\ x \in T => S = T \ {x}
  OBVIOUS

LEMMA EnoughCallStep ==
    ASSUME IInv, TypeOK', NEW p \in Procs,
           \/ InitCall(p) \/ InitCheck(p) \/ CloseReceived(p) \/ MakeFails(p)
           \/ TakeMade(p) \/ Announce(p) \/ Output(p) \/ Send(p)
           \/ \E k \in Kinds : LogCall(p, k)
    PROVE  Enough'
<1>0. /\ TypeOK /\ Calls /\ Enough /\ CallTypes /\ RotatorTypes /\ None = 0
      /\ "none" \notin Kinds /\ "init" \notin Kinds
      /\ Cardinality(Procs) \in Nat
  BY TypeParts, LoggerAssumption, Counts DEF IInv, None
<1>1. /\ Cardinality(Pending) \in Nat /\ IsFiniteSet(Pending)
      /\ Cardinality(Looking) \in Nat /\ IsFiniteSet(Looking)
      /\ Cardinality(Making) \in Nat /\ IsFiniteSet(Making)
      /\ made \in Nat /\ lines \in Nat /\ inits \in Nat
      /\ made + Cardinality(Making) <= inits + Cardinality(Procs)
  BY <1>0, BudgetFacts DEF Enough
<1>2. \A q \in Procs \ {p} : pc'[q] = pc[q] /\ kind'[q] = kind[q]
  <2>1. CASE InitCall(p) \/ InitCheck(p) \/ CloseReceived(p) \/ MakeFails(p)
    BY <1>0, <2>1 DEF InitCall, InitCheck, CloseReceived, MakeFails, At, procVars,
                      CallTypes
  <2>2. CASE TakeMade(p) \/ Announce(p) \/ Output(p)
    BY <1>0, <2>2 DEF TakeMade, Announce, Output, Take, At, CallTypes
  <2>3. CASE Send(p)
    BY <1>0, <2>3 DEF Send, Return, At, CallTypes
  <2>4. ASSUME NEW k \in Kinds, LogCall(p, k)
        PROVE  \A q \in Procs \ {p} : pc'[q] = pc[q] /\ kind'[q] = kind[q]
    BY <1>0, <2>4 DEF LogCall, Take, At, CallTypes
  <2>. QED
    BY <2>1, <2>2, <2>3, <2>4
<1>3. UNCHANGED <<idx, file, content>>
  BY DEF InitCall, InitCheck, CloseReceived, MakeFails, TakeMade, Announce,
     Output, Send, LogCall, rotVars, outVars
\* steps that leave the three sets alone
<1>4. ASSUME Pending' = Pending, Looking' = Looking, Making' = Making,
             UNCHANGED <<made, lines, inits>>
      PROVE  Enough'
  BY <1>0, <1>1, <1>3, <1>4, BudgetKept, BudgetTypes DEF Budget
<1>5. ASSUME NEW k \in Kinds, LogCall(p, k) PROVE Enough'
  <2>1. /\ kind[p] = "none" /\ kind'[p] = k /\ pc[p] = "idle"
        /\ pc'[p] = (IF made = 0 THEN "init" ELSE "announce")
        /\ lines' = lines + 1 /\ UNCHANGED <<made, lorate, inits>>
    BY <1>0, <1>5 DEF LogCall, Take, At, Calls, CallTypes
  <2>2. Pending' = Pending \cup {p}
    BY <1>0, <1>2, <2>1, CallSets, SameButOne
  <2>3. Looking' = Looking
    BY <2>1 DEF Looking
  <2>4. Cardinality(Pending') <= Cardinality(Pending) + 1 /\ Cardinality(Pending') \in Nat
    BY <1>1, <2>2, SetGrows, BudgetFactsNext
  <2>5. made + Cardinality(Making') <= inits + Cardinality(Procs)
    <3>1. CASE made = 0
      <4>1. Making' \subseteq Procs
        BY DEF Making
      <4>2. Cardinality(Making') <= Cardinality(Procs) /\ Cardinality(Making') \in Nat
        BY <4>1, Counts
      <4>. QED
        BY <1>0, <1>1, <3>1, <4>2
    <3>2. CASE made # 0
      <4>1. Making' = Making
        BY <1>0, <1>2, <2>1, <3>2, CallSets, SameButOne
      <4>. QED
        BY <1>1, <4>1
    <3>. QED
      BY <3>1, <3>2
  <2>6. Budget <= Budget'
    BY <1>1, <2>1, <2>3, <2>4 DEF Budget
  <2>. QED
    BY <1>0, <1>3, <2>1, <2>5, <2>6, BudgetKept
<1>6. ASSUME InitCall(p) PROVE Enough'
  <2>1. /\ pc[p] = "idle" /\ pc'[p] = "init" /\ kind[p] = "none" /\ kind'[p] = "init"
        /\ inits' = inits + 1 /\ UNCHANGED <<made, lorate, lines>>
    BY <1>0, <1>6 DEF InitCall, At, Calls, CallTypes, rotVars
  <2>2. Making' = Making \cup {p} /\ Pending' = Pending
    BY <1>0, <1>2, <2>1, CallSets, SameButOne
  <2>3. Looking' = Looking
    BY <2>1 DEF Looking
  <2>4. Cardinality(Making') <= Cardinality(Making) + 1 /\ Cardinality(Making') \in Nat
    BY <1>1, <2>2, SetGrows, BudgetFactsNext
  <2>5. made' + Cardinality(Making') <= inits' + Cardinality(Procs)
    BY <1>0, <1>1, <2>1, <2>4
  <2>6. Budget <= Budget'
    BY <1>1, <2>1, <2>2, <2>3 DEF Budget
  <2>. QED
    BY <1>0, <1>3, <2>5, <2>6, BudgetKept
<1>7. ASSUME InitCheck(p) PROVE Enough'
  <2>1. /\ pc[p] = "init" /\ pc'[p] \in {"close", "make"} /\ kind'[p] = kind[p]
        /\ UNCHANGED <<made, lorate, lines, inits>>
    BY <1>0, <1>7 DEF InitCheck, At, CallTypes, rotVars
  <2>2. Making' = Making /\ Pending' = Pending
    BY <1>0, <1>2, <2>1, CallSets, SameButOne
  <2>. QED
    BY <1>4, <2>1, <2>2 DEF Looking
<1>8. ASSUME CloseReceived(p) PROVE Enough'
  <2>1. /\ pc[p] = "close" /\ pc'[p] = "make" /\ kind'[p] = kind[p]
        /\ lorate[using[p]] = "select" /\ lorate' = [lorate EXCEPT ![using[p]] = "end"]
        /\ UNCHANGED <<made, lines, inits>>
    BY <1>0, <1>8 DEF CloseReceived, At, CallTypes, Lorate
  <2>2. Making' = Making /\ Pending' = Pending
    BY <1>0, <1>2, <2>1, CallSets, SameButOne
  <2>3. Looking' = Looking
    BY <1>0, <2>1 DEF Looking, RotatorTypes
  <2>. QED
    BY <1>4, <2>1, <2>2, <2>3
<1>9. ASSUME MakeFails(p) PROVE Enough'
  BY <1>4, <1>9 DEF MakeFails, procVars, rotVars, Making, Pending, Looking
<1>10. ASSUME TakeMade(p) PROVE Enough'
  <2>1. /\ pc[p] = "take" /\ pc'[p] = "announce" /\ kind'[p] = kind[p]
        /\ UNCHANGED <<made, lorate, lines, inits>>
    BY <1>0, <1>10 DEF TakeMade, Take, At, CallTypes
  <2>2. Making' = Making /\ Pending' = Pending
    BY <1>0, <1>2, <2>1, CallSets, SameButOne
  <2>. QED
    BY <1>4, <2>1, <2>2 DEF Looking
<1>11. ASSUME Announce(p) PROVE Enough'
  <2>1. /\ pc[p] = "announce" /\ pc'[p] = "output" /\ kind'[p] = kind[p]
        /\ kind[p] \in Kinds /\ UNCHANGED <<made, lines, inits>>
    BY <1>0, <1>11 DEF Announce, At, CallTypes, Calls
  <2>2. Making' = Making /\ Pending' = Pending \ {p} /\ p \in Pending
    BY <1>0, <1>2, <2>1, CallSets, SameButOne
  <2>3. Cardinality(Pending') = Cardinality(Pending) - 1
    BY <1>1, <2>2, OneMore
  <2>4. Looking' \subseteq Looking \cup {using[p]} /\ Looking \subseteq Looking'
    BY <1>0, <1>11 DEF Announce, Lorate, Looking, RotatorTypes
  <2>5. Looking' = Looking \/ Looking' = Looking \cup {using[p]}
    <3>1. CASE using[p] \in Looking'
      BY <2>4, <3>1, Zenon
    <3>2. CASE using[p] \notin Looking'
      BY <2>4, <3>2, Zenon
    <3>. QED
      BY <3>1, <3>2
  <2>6. Cardinality(Looking') <= Cardinality(Looking) + 1 /\ Cardinality(Looking') \in Nat
    <3>1. Cardinality(Looking \cup {using[p]}) <= Cardinality(Looking) + 1
      BY <1>1, SetGrows
    <3>2. Cardinality(Looking') <= Cardinality(Looking) + 1
      <4>1. CASE Looking' = Looking
        <5>1. Cardinality(Looking) <= Cardinality(Looking) + 1
          BY <1>1
        <5>. QED
          BY <4>1, <5>1, Zenon
      <4>2. CASE Looking' = Looking \cup {using[p]}
        BY <3>1, <4>2, Zenon
      <4>. QED
        BY <2>5, <4>1, <4>2
    <3>3. Cardinality(Looking') \in Nat
      BY BudgetFactsNext
    <3>. QED
      BY <3>2, <3>3
  <2>7. Budget <= Budget'
    BY <1>1, <2>1, <2>3, <2>6 DEF Budget
  <2>. QED
    BY <1>0, <1>1, <1>3, <2>1, <2>2, <2>7, BudgetKept
<1>12. ASSUME Output(p) PROVE Enough'
  <2>1. /\ pc[p] = "output" /\ pc'[p] \in {"output", "send"} /\ kind'[p] = kind[p]
        /\ UNCHANGED <<made, lorate, lines, inits>>
    BY <1>0, <1>12 DEF Output, At, CallTypes, rotVars
  <2>2. Making' = Making /\ Pending' = Pending
    BY <1>0, <1>2, <2>1, CallSets, SameButOne
  <2>. QED
    BY <1>4, <2>1, <2>2 DEF Looking
<1>13. ASSUME Send(p) PROVE Enough'
  <2>1. /\ pc[p] = "send" /\ pc'[p] = "idle"
        /\ UNCHANGED <<made, lorate, lines, inits>>
    BY <1>0, <1>13 DEF Send, Return, At, CallTypes, rotVars
  <2>2. Making' = Making /\ Pending' = Pending
    BY <1>0, <1>2, <2>1, CallSets, SameButOne
  <2>. QED
    BY <1>4, <2>1, <2>2 DEF Looking
<1>. QED
  BY <1>5, <1>6, <1>7, <1>8, <1>9, <1>10, <1>11, <1>12, <1>13

LEMMA EnoughMakeStep ==
    ASSUME IInv, TypeOK', NEW p \in Procs, Make(p)
    PROVE  Enough'
<1>0. /\ TypeOK /\ Typed /\ Calls /\ Rotators /\ Enough /\ CallTypes
      /\ RotatorTypes /\ OutTypes
      /\ "none" \notin Kinds /\ "init" \notin Kinds /\ Cardinality(Procs) \in Nat
  BY TypeParts, LoggerAssumption, Counts DEF IInv
<1>1. /\ Cardinality(Pending) \in Nat
      /\ Cardinality(Looking) \in Nat /\ Cardinality(Making) \in Nat
      /\ IsFiniteSet(Making)
      /\ made \in Nat /\ lines \in Nat /\ inits \in Nat
      /\ made + Cardinality(Making) <= inits + Cardinality(Procs)
  BY <1>0, BudgetFacts DEF Enough
<1>2. PICK f \in Files :
         /\ f <= Budget + 1 /\ made + 1 \in Rls
         /\ NewLogger(<<made + 1, 0>>, f) /\ idx' = [idx EXCEPT ![made + 1] = f]
         /\ UNCHANGED <<content, gen>>
  BY <1>0, NewFacts
<1>3. /\ pc[p] = "make" /\ pc'[p] \in {"idle", "take"}
      /\ kind'[p] = (IF kind[p] = "init" THEN "none" ELSE kind[p])
      /\ kind[p] = "init" \/ pc'[p] = "take"
      /\ made' = made + 1 /\ UNCHANGED <<lines, inits>>
      /\ lorate' = [lorate EXCEPT ![made + 1] = "select"]
  BY <1>0 DEF Make, Return, At, Lorate, CallTypes
<1>4. \A q \in Procs \ {p} : pc'[q] = pc[q] /\ kind'[q] = kind[q]
  BY <1>0 DEF Make, Return, At, CallTypes
<1>5. Making' = Making \ {p} /\ p \in Making /\ Pending' = Pending
  BY <1>0, <1>3, <1>4, CallSets, SameButOne
<1>6. lorate[made + 1] = "none"
  BY <1>0, <1>1, <1>2 DEF Rotators
<1>7. Looking' = Looking
  BY <1>0, <1>3, <1>6 DEF Looking, RotatorTypes
<1>8. Cardinality(Making') = Cardinality(Making) - 1
  BY <1>1, <1>5, OneMore
<1>9. Budget' = Budget + 1
  BY <1>1, <1>3, <1>5, <1>7 DEF Budget
<1>10. made' + Cardinality(Making') <= inits' + Cardinality(Procs)
  BY <1>0, <1>1, <1>3, <1>8
<1>11. Budget \in Int /\ f \in Nat
  BY <1>0, BudgetTypes
<1>12. \A r \in Rls : idx'[r] <= Budget'
  <2>1. ASSUME NEW r \in Rls PROVE idx'[r] <= Budget'
    <3>1. idx'[r] = f \/ idx'[r] = idx[r]
      BY <1>0, <1>2 DEF RotatorTypes
    <3>2. idx[r] \in Nat /\ idx[r] <= Budget
      BY <1>0, BudgetTypes DEF Enough
    <3>. QED
      BY <1>2, <1>9, <1>11, <3>1, <3>2
  <2>. QED
    BY <2>1
<1>13. \A l \in Loggers : file'[l] <= Budget'
  <2>1. ASSUME NEW l \in Loggers PROVE file'[l] <= Budget'
    <3>1. file'[l] = f \/ file'[l] = file[l]
      BY <1>0, <1>2 DEF OutTypes, NewLogger
    <3>2. file[l] \in Nat /\ file[l] <= Budget
      BY <1>0, BudgetTypes DEF Enough
    <3>. QED
      BY <1>2, <1>9, <1>11, <3>1, <3>2
  <2>. QED
    BY <2>1
<1>14. \A g \in Files : content'[g] # <<>> => g <= Budget'
  <2>1. ASSUME NEW g \in Files, content[g] # <<>> PROVE g <= Budget'
    <3>1. g \in Nat /\ g <= Budget
      BY <1>0, <2>1, BudgetTypes DEF Enough
    <3>. QED
      BY <1>9, <1>11, <3>1
  <2>. QED
    BY <1>2, <2>1
<1>. QED
  BY <1>10, <1>12, <1>13, <1>14 DEF Enough

LEMMA EnoughStep == IInv /\ TypeOK' /\ [Next]_vars => Enough'
<1>. SUFFICES ASSUME IInv, TypeOK', [Next]_vars PROVE Enough'
  OBVIOUS
<1>0. /\ TypeOK /\ Typed /\ Calls /\ Rotators /\ Enough
      /\ RotatorTypes /\ OutTypes
  BY TypeParts DEF IInv
<1>1. /\ Cardinality(Pending) \in Nat
      /\ Cardinality(Looking) \in Nat /\ IsFiniteSet(Looking)
      /\ Cardinality(Making) \in Nat
      /\ made \in Nat /\ lines \in Nat /\ inits \in Nat
      /\ made + Cardinality(Making) <= inits + Cardinality(Procs)
  BY <1>0, BudgetFacts DEF Enough
<1>2. ASSUME UNCHANGED <<procVars, made, lines, inits, idx>>, Looking' = Looking,
             \A l \in Loggers : file'[l] \in Nat /\ file'[l] <= Budget,
             \A f \in Files : content'[f] # <<>> => f <= Budget
      PROVE  Enough'
  <2>1. Making' = Making /\ Pending' = Pending
    BY <1>2 DEF Making, Pending, procVars
  <2>2. Budget' = Budget
    BY <1>2, <2>1 DEF Budget
  <2>. QED
    BY <1>0, <1>1, <1>2, <2>1, <2>2 DEF Enough
<1>3. ASSUME NEW r \in Rls, StatSmall(r) \/ StatReached(r) PROVE Enough'
  <2>1. /\ lorate[r] = "stat" /\ UNCHANGED <<procVars, made, lines, inits, outVars>>
        /\ lorate'[r] # "stat" /\ \A s \in Rls \ {r} : lorate'[s] = lorate[s]
        /\ \/ idx' = idx
           \/ idx' = [idx EXCEPT ![r] = idx[r] + 1]
    BY <1>0, <1>3 DEF StatSmall, StatReached, Lorate, NextIdx, RotatorTypes
  <2>2. Making' = Making /\ Pending' = Pending
    BY <2>1 DEF Making, Pending, procVars
  <2>3. Looking' = Looking \ {r} /\ r \in Looking
    BY <2>1 DEF Looking
  <2>4. Cardinality(Looking') = Cardinality(Looking) - 1
    BY <1>1, <2>3, OneMore
  <2>5. Budget' = Budget + 1
    BY <1>1, <2>1, <2>2, <2>4 DEF Budget
  <2>6. Budget \in Int
    BY <1>0, BudgetTypes
  <2>7. \A s \in Rls : idx'[s] <= Budget'
    <3>1. ASSUME NEW s \in Rls PROVE idx'[s] <= Budget'
      <4>1. idx[s] \in Nat /\ idx[s] <= Budget
        BY <1>0, BudgetTypes DEF Enough
      <4>2. idx'[s] \in {idx[s], idx[s] + 1}
        BY <1>0, <2>1 DEF RotatorTypes
      <4>. QED
        BY <2>5, <2>6, <4>1, <4>2
    <3>. QED
      BY <3>1
  <2>8. \A l \in Loggers : file'[l] <= Budget'
    BY <1>0, <2>1, <2>5, <2>6, BudgetTypes DEF Enough, outVars
  <2>9. \A g \in Files : content'[g] # <<>> => g <= Budget'
    BY <1>0, <2>1, <2>5, <2>6, BudgetTypes DEF Enough, outVars
  <2>10. made' + Cardinality(Making') <= inits' + Cardinality(Procs)
    BY <1>1, <2>1, <2>2
  <2>. QED
    BY <2>7, <2>8, <2>9, <2>10 DEF Enough
<1>4. /\ \A l \in Loggers : file[l] \in Nat /\ file[l] <= Budget
      /\ \A f \in Files : content[f] # <<>> => f <= Budget
  BY <1>0, BudgetTypes DEF Enough
<1>5. ASSUME NEW r \in Rls, SwapTell(r) \/ EndTell(r) PROVE Enough'
  <2>1. Looking' = Looking
    BY <1>0, <1>5 DEF SwapTell, EndTell, Lorate, Looking, RotatorTypes
  <2>2. UNCHANGED <<procVars, made, lines, inits, idx, file, content>>
    BY <1>5 DEF SwapTell, EndTell
  <2>. QED
    BY <1>2, <1>4, <2>1, <2>2
<1>6. ASSUME NEW r \in Rls, SwapNew(r) PROVE Enough'
  <2>1. Looking' = Looking
    BY <1>0, <1>6 DEF SwapNew, Lorate, Looking, RotatorTypes
  <2>2. /\ UNCHANGED <<procVars, made, lines, inits, idx, content>>
        /\ NewLogger(<<r, gen[r] + 1>>, idx[r])
    BY <1>0, <1>6, SwapFacts
  <2>3. idx[r] \in Nat /\ idx[r] <= Budget
    BY <1>0, BudgetTypes DEF Enough
  <2>4. \A l \in Loggers : file'[l] \in {file[l], idx[r]}
    BY <1>0, <2>2 DEF NewLogger, OutTypes
  <2>5. \A l \in Loggers : file'[l] \in Nat /\ file'[l] <= Budget
    BY <1>4, <2>3, <2>4
  <2>. QED
    BY <1>2, <1>4, <2>1, <2>2, <2>5
<1>7. ASSUME NEW l \in Loggers, Write(l) PROVE Enough'
  <2>1. /\ UNCHANGED <<procVars, made, lines, inits, idx, file, lorate>>
        /\ file[l] \in Files
        /\ content' = [content EXCEPT ![file[l]] =
                                        Append(content[file[l]], Moved(l))]
    BY <1>0, <1>7, WriteFacts DEF rotVars
  <2>2. \A f \in Files : content'[f] # <<>> => f <= Budget
    <3>1. \A f \in Files : f = file[l] \/ content'[f] = content[f]
      BY <1>0, <2>1 DEF OutTypes
    <3>. QED
      BY <1>4, <3>1
  <2>. QED
    BY <1>2, <1>4, <2>1, <2>2 DEF Looking
<1>8. ASSUME NEW l \in Loggers, WriteFails(l) \/ WriterEnd(l) PROVE Enough'
  BY <1>2, <1>4, <1>8 DEF WriteFails, WriterEnd, rotVars, Looking
<1>9. ASSUME UNCHANGED vars PROVE Enough'
  BY <1>2, <1>4, <1>9 DEF vars, rotVars, outVars, Looking
<1>10. ASSUME NEW p \in Procs, NEW k \in Kinds, LogCall(p, k) PROVE Enough'
  BY <1>10, EnoughCallStep
<1>11. ASSUME NEW p \in Procs, InitCall(p) \/ InCall(p) PROVE Enough'
  BY <1>11, EnoughCallStep, EnoughMakeStep DEF InCall
<1>. QED
  BY <1>3, <1>5, <1>6, <1>7, <1>8, <1>9, <1>10, <1>11
     DEF Next, LorateStep, WriterStep

-----------------------------------------------------------------------------
(* What can still come to a Logger that has been told to end.              *)

\* a Logger that a step leaves alone, and that nobody comes to anew
LEMMA KeptAlone ==
    ASSUME TypeOK, Typed, Kept, NEW l \in Loggers,
           writer'[l] = writer[l], buf'[l] = buf[l],
           \/ writer[l] \in {"none", "select"}
           \/ \A q \in Procs : Coming(q, l)' => Coming(q, l)
    PROVE  KeptAt(l)'
<1>1. buf[l] \in Seq(Queued)
  BY DEF Typed
<1>2. \A i \in DOMAIN buf[l] : buf[l][i].by \in Procs
  <2>1. \A i \in DOMAIN buf[l] : buf[l][i] \in Queued
    BY <1>1, QueueFacts
  <2>. QED
    BY <2>1 DEF Queued
<1>3. KeptAt(l)
  BY DEF Kept
<1>. QED
  BY <1>2, <1>3 DEF KeptAt

\* who comes to a Logger, when p goes on and no Logger is replaced
LEMMA ComingAlone ==
    ASSUME CallTypes, NEW p \in Procs, NEW l \in Loggers, gen' = gen,
           \A q \in Procs \ {p} : pc'[q] = pc[q] /\ using'[q] = using[q] /\ to'[q] = to[q],
           Coming(p, l)' => Coming(p, l)
    PROVE  \A q \in Procs : Coming(q, l)' => Coming(q, l)
  BY DEF Coming

LEMMA KeptCallStep ==
    ASSUME IInv, NEW p \in Procs,
           \/ InitCall(p) \/ InitCheck(p) \/ CloseReceived(p) \/ MakeFails(p)
           \/ TakeMade(p) \/ Announce(p) \/ Output(p)
           \/ \E k \in Kinds : LogCall(p, k)
    PROVE  Kept'
<1>0. /\ TypeOK /\ Typed /\ Calls /\ Rotators /\ Kept
      /\ CallTypes /\ RotatorTypes /\ OutTypes
  BY TypeParts DEF IInv
<1>1. UNCHANGED <<gen, writer, buf>>
  BY DEF InitCall, InitCheck, CloseReceived, MakeFails, TakeMade, Announce,
         Output, LogCall, rotVars, outVars
<1>2. \A q \in Procs \ {p} : pc'[q] = pc[q] /\ using'[q] = using[q] /\ to'[q] = to[q]
  <2>1. CASE InitCall(p) \/ InitCheck(p) \/ CloseReceived(p) \/ MakeFails(p)
    BY <1>0, <2>1 DEF InitCall, InitCheck, CloseReceived, MakeFails, At, procVars,
                      CallTypes
  <2>2. CASE TakeMade(p) \/ Announce(p) \/ Output(p)
    BY <1>0, <2>2 DEF TakeMade, Announce, Output, At, Take, CallTypes
  <2>3. ASSUME NEW k \in Kinds, LogCall(p, k)
        PROVE  \A q \in Procs \ {p} :
                  pc'[q] = pc[q] /\ using'[q] = using[q] /\ to'[q] = to[q]
    BY <1>0, <2>3 DEF LogCall, At, Take, CallTypes
  <2>. QED
    BY <2>1, <2>2, <2>3
<1>3. ASSUME NEW l \in Loggers PROVE KeptAt(l)'
  <2>1. CASE Coming(p, l)' => Coming(p, l)
    BY <1>0, <1>1, <1>2, <2>1, ComingAlone, KeptAlone
  <2>2. CASE Coming(p, l)' /\ ~Coming(p, l)
    <3>1. CASE Announce(p)
      <4>1. /\ pc'[p] = "output" /\ using' = using /\ lorate[using[p]] = "select"
            /\ using[p] \in Rls
        BY <1>0, <3>1, Taken DEF Announce, At, CallTypes, Calls
      <4>2. l[1] = using[p] /\ l[2] = gen[l[1]]
        BY <1>1, <2>2, <4>1 DEF Coming
      <4>3. l = Current(using[p])
        BY <4>2, LoggerFacts DEF Current
      <4>4. writer[l] = "select"
        BY <1>0, <4>1, <4>3 DEF Rotators
      <4>. QED
        BY <1>0, <1>1, <4>4, KeptAlone
    <3>2. CASE Output(p)
      <4>1. pc[p] = "output" /\ using[p] \in Rls
        BY <1>0, <3>2, Taken DEF Output, Calls
      <4>2. CASE UNCHANGED <<pc, to, using>>
        BY <1>1, <2>2, <4>2 DEF Coming
      <4>3. CASE /\ to' = [to EXCEPT ![p] = Current(using[p])]
                 /\ pc' = [pc EXCEPT ![p] = "send"]
        <5>1. l = Current(using[p])
          BY <1>0, <2>2, <4>3 DEF Coming, CallTypes
        <5>. QED
          BY <2>2, <4>1, <5>1 DEF Coming, Current
      <4>. QED
        BY <3>2, <4>2, <4>3 DEF Output, At
    <3>3. CASE ~Announce(p) /\ ~Output(p)
      <4>1. pc'[p] \notin {"output", "send"} \/ UNCHANGED <<pc, to, using>>
        BY <1>0, <3>3 DEF InitCall, InitCheck, CloseReceived, MakeFails, TakeMade,
                          LogCall, At, Take, CallTypes, procVars
      <4>. QED
        BY <1>1, <2>2, <4>1 DEF Coming
    <3>. QED
      BY <3>1, <3>2, <3>3
  <2>. QED
    BY <2>1, <2>2
<1>. QED
  BY <1>3 DEF Kept

LEMMA KeptSendStep ==
    ASSUME IInv, NEW p \in Procs, Send(p)
    PROVE  Kept'
<1>0. /\ TypeOK /\ Typed /\ Calls /\ Rotators /\ Kept
      /\ CallTypes /\ RotatorTypes /\ OutTypes
  BY TypeParts DEF IInv
<1>10. to[p] \in Loggers /\ Sent(p) \in Queued
  BY <1>0, SendFacts
<1>11. PICK m \in Loggers : m = to[p]
  BY <1>10
<1>12. PICK x \in Queued : x = Sent(p)
  BY <1>10
<1>1. /\ buf[m] \in Seq(Queued) /\ pc[p] = "send"
      /\ buf' = [buf EXCEPT ![m] = Append(buf[m], x)]
      /\ UNCHANGED <<gen, writer>>
      /\ pc' = [pc EXCEPT ![p] = "idle"]
      /\ using' = [using EXCEPT ![p] = None] /\ to' = [to EXCEPT ![p] = <<1, 0>>]
  BY <1>0, <1>11, <1>12, SendFacts DEF Return, At, rotVars
<1>2. /\ \A q \in Procs \ {p} : pc'[q] = pc[q] /\ using'[q] = using[q] /\ to'[q] = to[q]
      /\ pc'[p] = "idle"
  BY <1>0, <1>1 DEF CallTypes
<1>3. \A l \in Loggers : ~Coming(p, l)'
  BY <1>2 DEF Coming
<1>4. \A l \in Loggers : \A q \in Procs : Coming(q, l)' => Coming(q, l)
  BY <1>0, <1>1, <1>2, <1>3, ComingAlone
<1>5. x.by = p /\ x.early = (writer[m] = "select")
  BY <1>11, <1>12 DEF Sent
<1>6. Coming(p, m) /\ writer[m] # "none"
  BY <1>0, <1>1, <1>11 DEF Coming, Calls
<1>7. ASSUME NEW l \in Loggers, l # m PROVE KeptAt(l)'
  BY <1>0, <1>1, <1>4, <1>7, KeptAlone DEF OutTypes
<1>8. KeptAt(m)'
  <2>. DEFINE n == Len(buf[m])
  <2>1. /\ n \in Nat /\ DOMAIN buf[m] = 1 .. n /\ buf'[m] = Append(buf[m], x)
        /\ DOMAIN buf'[m] = 1 .. n + 1
        /\ \A i \in 1 .. n : buf'[m][i] = buf[m][i]
        /\ buf'[m][n + 1] = x
        /\ \A i \in 1 .. n : buf[m][i] \in Queued
    BY <1>0, <1>1, QueueFacts DEF OutTypes
  <2>2. \A i \in 1 .. n : buf[m][i].by \in Procs
    BY <2>1 DEF Queued
  <2>3. KeptAt(m)
    BY <1>0, <1>1 DEF Kept
  <2>. HIDE DEF n
  <2>4. \A i \in 1 .. n + 1 : i \in 1 .. n \/ i = n + 1
    BY <2>1
  <2>5. CASE writer[m] = "select"
    <3>1. \A i \in DOMAIN buf'[m] : buf'[m][i].early
      BY <1>5, <2>1, <2>3, <2>4, <2>5 DEF KeptAt
    <3>. QED
      BY <1>1, <2>5, <3>1 DEF KeptAt
  <2>6. CASE writer[m] \in {"drain", "gone"}
    <3>0. ~x.early /\ writer' = writer
      BY <1>1, <1>5, <2>6
    <3>1. \A i \in 1 .. n : ~buf[m][i].early => buf[m][i].by # p
      BY <1>6, <2>1, <2>3, <2>6 DEF KeptAt
    <3>2. ASSUME NEW i \in DOMAIN buf'[m], ~buf'[m][i].early
          PROVE  \E q \in Procs : q = buf'[m][i].by /\ ~Coming(q, m)'
      <4>1. CASE i \in 1 .. n
        <5>1. PICK q \in Procs : q = buf[m][i].by
          BY <2>2, <4>1
        <5>2. ~Coming(q, m)
          BY <2>1, <2>3, <2>6, <3>2, <4>1, <5>1 DEF KeptAt
        <5>. QED
          BY <1>4, <2>1, <4>1, <5>1, <5>2
      <4>2. CASE i = n + 1
        BY <1>3, <1>5, <2>1, <4>2
      <4>. QED
        BY <2>1, <2>4, <4>1, <4>2
    <3>5. (\A i \in DOMAIN buf[m] : ~buf[m][i].early => ~Coming(buf[m][i].by, m))'
      BY <3>2 DEF Coming
    <3>3. \A i, j \in DOMAIN buf'[m] :
             /\ ~buf'[m][i].early /\ ~buf'[m][j].early
             /\ buf'[m][j].by = buf'[m][i].by
             => i = j
      BY <1>5, <2>1, <2>3, <2>4, <2>6, <3>1 DEF KeptAt
    <3>4. writer[m] = "gone" => \A i \in DOMAIN buf'[m] : ~buf'[m][i].early
      BY <2>1, <2>3, <2>4, <3>0 DEF KeptAt
    <3>. QED
      BY <2>6, <3>0, <3>5, <3>3, <3>4 DEF KeptAt
  <2>. QED
    BY <1>0, <1>1, <1>6, <2>5, <2>6 DEF OutTypes
<1>. QED
  BY <1>7, <1>8 DEF Kept

\* a new Logger is empty
LEMMA KeptNew ==
    ASSUME TypeOK, Typed, Kept, NEW m \in Loggers, NEW f \in Files, NewLogger(m, f),
           \A l \in Loggers \ {m} : \A q \in Procs : Coming(q, l)' => Coming(q, l)
    PROVE  Kept'
<1>0. OutTypes
  BY TypeParts
<1>1. KeptAt(m)'
  BY <1>0 DEF KeptAt, NewLogger, OutTypes
<1>2. ASSUME NEW l \in Loggers, l # m PROVE KeptAt(l)'
  BY <1>0, <1>2, KeptAlone DEF NewLogger, OutTypes
<1>. QED
  BY <1>1, <1>2 DEF Kept

LEMMA KeptStep == IInv /\ [Next]_vars => Kept'
<1>. SUFFICES ASSUME IInv, [Next]_vars PROVE Kept'
  OBVIOUS
<1>0. /\ TypeOK /\ Typed /\ Calls /\ Rotators /\ Enough /\ Kept
      /\ CallTypes /\ RotatorTypes /\ OutTypes
  BY TypeParts DEF IInv
<1>1. ASSUME UNCHANGED <<pc, using, to, gen>> PROVE \A q, l : Coming(q, l)' <=> Coming(q, l)
  BY <1>1 DEF Coming
<1>2. ASSUME UNCHANGED <<pc, using, to, gen, writer, buf>> PROVE Kept'
  BY <1>0, <1>1, <1>2, KeptAlone DEF Kept
<1>3. ASSUME NEW p \in Procs, Make(p) PROVE Kept'
  <2>1. PICK f \in Files : /\ NewLogger(<<made + 1, 0>>, f) /\ gen' = gen
                           /\ <<made + 1, 0>> \in Loggers
    BY <1>0, <1>3, NewFacts
  <2>2. /\ \A q \in Procs \ {p} :
              pc'[q] = pc[q] /\ using'[q] = using[q] /\ to'[q] = to[q]
        /\ pc'[p] \in {"idle", "take"}
    BY <1>0, <1>3 DEF Make, Return, At, CallTypes
  <2>3. \A l \in Loggers : \A q \in Procs : Coming(q, l)' => Coming(q, l)
    <3>1. \A l : ~Coming(p, l)'
      BY <2>2 DEF Coming
    <3>. QED
      BY <1>0, <2>1, <2>2, <3>1, ComingAlone
  <2>. QED
    BY <1>0, <2>1, <2>3, KeptNew
<1>4. ASSUME NEW r \in Rls, SwapNew(r) PROVE Kept'
  <2>1. /\ NewLogger(<<r, gen[r] + 1>>, idx[r]) /\ idx[r] \in Files
        /\ <<r, gen[r] + 1>> \in Loggers
        /\ gen' = [gen EXCEPT ![r] = gen[r] + 1] /\ UNCHANGED <<pc, using, to>>
    BY <1>0, <1>4, SwapFacts DEF procVars
  <2>2. ASSUME NEW l \in Loggers, l # <<r, gen[r] + 1>>, NEW q \in Procs, Coming(q, l)'
        PROVE  Coming(q, l)
    <3>1. gen'[l[1]] = IF l[1] = r THEN gen[r] + 1 ELSE gen[l[1]]
      BY <1>0, <2>1, LoggerFacts DEF RotatorTypes
    <3>2. ~(l[1] = r /\ l[2] = gen[r] + 1)
      BY <2>2, LoggerFacts
    <3>. QED
      BY <2>1, <2>2, <3>1, <3>2 DEF Coming
  <2>. QED
    BY <1>0, <2>1, <2>2, KeptNew
<1>5. ASSUME NEW r \in Rls, SwapTell(r) \/ EndTell(r) PROVE Kept'
  <2>1. /\ writer[Current(r)] = "select" /\ Current(r) \in Loggers
        /\ writer' = [writer EXCEPT ![Current(r)] = "drain"]
        /\ UNCHANGED <<pc, using, to, gen, buf>>
    BY <1>0, <1>5, LoggerFacts DEF SwapTell, EndTell, procVars, Current, RotatorTypes
  <2>2. KeptAt(Current(r))
    BY <1>0, <2>1 DEF Kept
  <2>3. ASSUME NEW l \in Loggers PROVE KeptAt(l)'
    <3>1. CASE l = Current(r)
      <4>1. writer'[l] = "drain" /\ buf'[l] = buf[l] /\ \A i \in DOMAIN buf[l] : buf[l][i].early
        BY <1>0, <2>1, <2>2, <3>1 DEF KeptAt, OutTypes
      <4>. QED
        BY <4>1 DEF KeptAt
    <3>2. CASE l # Current(r)
      BY <1>0, <1>1, <2>1, <3>2, KeptAlone DEF OutTypes
    <3>. QED
      BY <3>1, <3>2
  <2>. QED
    BY <2>3 DEF Kept
<1>6. ASSUME NEW m \in Loggers, Write(m) \/ WriteFails(m) PROVE Kept'
  <2>1. /\ buf[m] \in Seq(Queued) /\ buf[m] # <<>>
        /\ buf' = [buf EXCEPT ![m] = Tail(buf[m])]
        /\ UNCHANGED <<pc, using, to, gen, writer>>
    BY <1>0, <1>6, WriteFacts, WriteFailsFacts DEF procVars, rotVars
  <2>2. ASSUME NEW l \in Loggers, l # m PROVE KeptAt(l)'
    BY <1>0, <1>1, <2>1, <2>2, KeptAlone DEF OutTypes
  <2>3. KeptAt(m)'
    <3>1. /\ \A i \in DOMAIN buf'[m] : i + 1 \in DOMAIN buf[m] /\ buf'[m][i] = buf[m][i + 1]
          /\ \A i \in DOMAIN buf'[m] : i \in Nat
      <4>1. buf'[m] = Tail(buf[m])
        BY <1>0, <2>1 DEF OutTypes
      <4>2. /\ DOMAIN Tail(buf[m]) = 1 .. Len(buf[m]) - 1
            /\ \A i \in DOMAIN Tail(buf[m]) :
                  i + 1 \in DOMAIN buf[m] /\ Tail(buf[m])[i] = buf[m][i + 1]
        BY <2>1, QueueFacts
      <4>. QED
        BY <4>1, <4>2
    <3>2. KeptAt(m)
      BY <1>0 DEF Kept
    <3>3. \A q : Coming(q, m)' <=> Coming(q, m)
      BY <1>1, <2>1
    <3>. QED
      BY <2>1, <3>1, <3>2, <3>3 DEF KeptAt
  <2>. QED
    BY <2>2, <2>3 DEF Kept
<1>7. ASSUME NEW m \in Loggers, WriterEnd(m) PROVE Kept'
  <2>1. /\ buf[m] = <<>> /\ writer' = [writer EXCEPT ![m] = "gone"]
        /\ UNCHANGED <<pc, using, to, gen, buf>>
    BY <1>7 DEF WriterEnd, Drained, procVars, rotVars
  <2>2. ASSUME NEW l \in Loggers, l # m PROVE KeptAt(l)'
    BY <1>0, <1>1, <2>1, <2>2, KeptAlone DEF OutTypes
  <2>3. KeptAt(m)'
    BY <2>1 DEF KeptAt
  <2>. QED
    BY <2>2, <2>3 DEF Kept
<1>8. ASSUME NEW r \in Rls, StatSmall(r) \/ StatReached(r) PROVE Kept'
  BY <1>2, <1>8 DEF StatSmall, StatReached, procVars, outVars
<1>9. ASSUME UNCHANGED vars PROVE Kept'
  BY <1>2, <1>9 DEF vars, procVars, outVars, rotVars
<1>. QED
  BY <1>3, <1>4, <1>5, <1>6, <1>7, <1>8, <1>9, KeptCallStep, KeptSendStep
     DEF Next, InCall, LorateStep, WriterStep

-----------------------------------------------------------------------------
(* The files of a rotate logger.                                           *)

LEMMA GensOf ==
    ASSUME TypeOK
    PROVE  \A r \in Rls : /\ gen[r] \in Nat /\ gen[r] \in Gens
                          /\ gen[r] \in 0 .. gen[r]
                          /\ \A g \in 0 .. gen[r] : g \in Gens /\ g \in Nat
                          /\ Current(r) \in Loggers
                          /\ \A g \in 0 .. gen[r] : <<r, g>> \in Loggers
<1>. SUFFICES ASSUME NEW r \in Rls
              PROVE  /\ gen[r] \in Nat /\ gen[r] \in Gens
                     /\ gen[r] \in 0 .. gen[r]
                     /\ \A g \in 0 .. gen[r] : g \in Gens /\ g \in Nat
                     /\ Current(r) \in Loggers
                     /\ \A g \in 0 .. gen[r] : <<r, g>> \in Loggers
  OBVIOUS
<1>1. gen[r] \in Gens
  BY DEF TypeOK
<1>2. gen[r] \in Nat /\ \A g \in 0 .. gen[r] : g \in Gens /\ g \in Nat
  BY <1>1, LoggerAssumption DEF Gens
<1>3. gen[r] \in 0 .. gen[r]
  BY <1>2
<1>. QED
  BY <1>1, <1>2, <1>3, LoggerFacts DEF Current

LEMMA RisingStep == IInv /\ [Next]_vars => Rising'
<1>. SUFFICES ASSUME IInv, [Next]_vars PROVE Rising'
  OBVIOUS
<1>0. /\ TypeOK /\ Typed /\ Calls /\ Rotators /\ Enough /\ Rising
      /\ CallTypes /\ RotatorTypes /\ OutTypes
  BY TypeParts DEF IInv
<1>00. /\ \A l \in Loggers : file[l] \in Nat
       /\ \A r \in Rls : idx[r] \in Nat
       /\ \A r \in Rls : file[Current(r)] \in Nat
  BY <1>0, NatSets, GensOf DEF OutTypes, RotatorTypes
\* a rotate logger that a step leaves alone
<1>1. ASSUME NEW r \in Rls, gen'[r] = gen[r], idx'[r] = idx[r],
             \A g \in 0 .. gen[r] : file'[<<r, g>>] = file[<<r, g>>],
             lorate'[r] \in {"swap", "new"} => lorate[r] \in {"swap", "new"}
      PROVE  RisingAt(r)'
  <2>1. gen[r] \in 0 .. gen[r] /\ RisingAt(r)
    BY <1>0, GensOf DEF Rising
  <2>. QED
    BY <1>1, <2>1 DEF RisingAt, Current
<1>2. ASSUME UNCHANGED <<gen, idx, file>>, \A r \in Rls :
                lorate'[r] \in {"swap", "new"} => lorate[r] \in {"swap", "new"}
      PROVE  Rising'
  BY <1>1, <1>2 DEF Rising
<1>3. ASSUME NEW p \in Procs, CloseReceived(p) \/ Announce(p) PROVE Rising'
  <2>1. /\ UNCHANGED <<gen, idx, file>>
        /\ \E w \in {"end", "stat", "select"} :
              lorate' = [lorate EXCEPT ![using[p]] = w]
    BY <1>3 DEF CloseReceived, Announce, Lorate, outVars
  <2>. QED
    BY <1>0, <1>2, <2>1 DEF RotatorTypes
<1>4. ASSUME NEW p \in Procs, Make(p) PROVE Rising'
  <2>1. PICK f \in Files :
           /\ made + 1 \in Rls /\ 0 \in Gens /\ <<made + 1, 0>> \in Loggers
           /\ NewLogger(<<made + 1, 0>>, f)
           /\ idx' = [idx EXCEPT ![made + 1] = f]
           /\ gen[made + 1] = 0 /\ UNCHANGED gen
    BY <1>0, <1>4, NewFacts
  <2>2. lorate' = [lorate EXCEPT ![made + 1] = "select"]
    BY <1>4 DEF Make, Lorate
  <2>3. PICK n \in Rls : n = made + 1
    BY <2>1
  <2>4. /\ \A r \in Rls : lorate'[r] = IF r = n THEN "select" ELSE lorate[r]
        /\ \A r \in Rls : idx'[r] = IF r = n THEN f ELSE idx[r]
        /\ \A l \in Loggers : file'[l] = IF l = <<n, 0>> THEN f ELSE file[l]
    BY <1>0, <2>1, <2>2, <2>3 DEF RotatorTypes, OutTypes, NewLogger
  <2>5. RisingAt(n)'
    <3>1. f \in Nat
      BY NatSets
    <3>2. \A g \in 0 .. 0 : g = 0
      OBVIOUS
    <3>. QED
      BY <2>1, <2>3, <2>4, <3>1, <3>2 DEF RisingAt, Current
  <2>6. ASSUME NEW r \in Rls, r # n PROVE RisingAt(r)'
    <3>1. \A g \in 0 .. gen[r] : file'[<<r, g>>] = file[<<r, g>>]
      BY <1>0, <2>4, <2>6, GensOf
    <3>. QED
      BY <1>1, <2>1, <2>4, <2>6, <3>1
  <2>. QED
    BY <2>5, <2>6 DEF Rising
<1>5. ASSUME NEW r \in Rls, StatReached(r) PROVE Rising'
  <2>1. /\ UNCHANGED <<gen, file>> /\ lorate[r] = "stat"
        /\ idx' = [idx EXCEPT ![r] = idx[r] + 1]
        /\ \E w \in {"swap", "select"} : lorate' = [lorate EXCEPT ![r] = w]
    BY <1>5 DEF StatReached, Lorate, NextIdx, outVars
  <2>2. ASSUME NEW s \in Rls, s # r PROVE RisingAt(s)'
    BY <1>0, <1>1, <2>1, <2>2 DEF RotatorTypes
  <2>3. RisingAt(r)'
    <3>1. RisingAt(r)
      BY <1>0 DEF Rising
    <3>2. file[Current(r)] < idx[r] + 1 /\ file[Current(r)] <= idx[r] + 1
      BY <1>00, <3>1 DEF RisingAt
    <3>3. idx'[r] = idx[r] + 1
      BY <1>0, <2>1 DEF RotatorTypes
    <3>. QED
      BY <2>1, <3>1, <3>2, <3>3 DEF RisingAt, Current
  <2>. QED
    BY <2>2, <2>3 DEF Rising
<1>6. ASSUME NEW r \in Rls, StatSmall(r) \/ SwapTell(r) \/ EndTell(r) PROVE Rising'
  <2>1. /\ UNCHANGED <<gen, idx, file>>
        /\ \/ \E w \in {"select", "gone"} : lorate' = [lorate EXCEPT ![r] = w]
           \/ lorate[r] = "swap" /\ lorate' = [lorate EXCEPT ![r] = "new"]
    BY <1>6 DEF StatSmall, SwapTell, EndTell, Lorate, outVars
  <2>. QED
    BY <1>0, <1>2, <2>1 DEF RotatorTypes
<1>7. ASSUME NEW r \in Rls, SwapNew(r) PROVE Rising'
  <2>1. /\ gen[r] + 1 \in Gens /\ <<r, gen[r] + 1>> \in Loggers
        /\ NewLogger(<<r, gen[r] + 1>>, idx[r]) /\ idx[r] \in Files
        /\ gen' = [gen EXCEPT ![r] = gen[r] + 1]
        /\ UNCHANGED idx /\ lorate[r] = "new"
    BY <1>0, <1>7, SwapFacts
  <2>2. lorate' = [lorate EXCEPT ![r] = "select"]
    BY <1>7 DEF SwapNew, Lorate
  <2>3. PICK n \in Gens : n = gen[r] + 1
    BY <2>1
  <2>4. gen[r] \in Nat /\ n \in Nat
    BY <1>0, <2>3, GensOf
  <2>5. /\ \A s \in Rls : lorate'[s] = IF s = r THEN "select" ELSE lorate[s]
        /\ \A s \in Rls : gen'[s] = IF s = r THEN n ELSE gen[s]
        /\ \A l \in Loggers : file'[l] = IF l = <<r, n>> THEN idx[r] ELSE file[l]
    BY <1>0, <2>1, <2>2, <2>3 DEF RotatorTypes, OutTypes, NewLogger
  <2>6. ASSUME NEW s \in Rls, s # r PROVE RisingAt(s)'
    <3>1. \A g \in 0 .. gen[s] : file'[<<s, g>>] = file[<<s, g>>]
      BY <1>0, <2>5, <2>6, GensOf
    <3>. QED
      BY <1>1, <2>1, <2>5, <2>6, <3>1
  <2>7. RisingAt(r)'
    <3>1. RisingAt(r)
      BY <1>0 DEF Rising
    <3>2. file'[<<r, n>>] = idx[r] /\ gen'[r] = n /\ idx'[r] = idx[r]
          /\ lorate'[r] = "select"
      BY <2>1, <2>3, <2>5
    <3>3. \A g \in 0 .. gen[r] : file'[<<r, g>>] = file[<<r, g>>] /\ file[<<r, g>>] \in Nat
      <4>1. ASSUME NEW g \in 0 .. gen[r]
            PROVE  file'[<<r, g>>] = file[<<r, g>>] /\ file[<<r, g>>] \in Nat
        <5>1. <<r, g>> \in Loggers /\ <<r, g>> # <<r, n>>
          BY <1>0, <2>3, <2>4, GensOf
        <5>. QED
          BY <1>00, <2>5, <5>1
      <4>. QED
        BY <4>1
    <3>4. file[<<r, gen[r]>>] < idx[r] /\ file[<<r, gen[r]>>] \in Nat /\ idx[r] \in Nat
      BY <1>00, <2>1, <3>1 DEF RisingAt, Current
    <3>5. ASSUME NEW g \in 0 .. gen[r]
          PROVE  file[<<r, g>>] < idx[r]
      <4>1. CASE g = gen[r]
        BY <3>4, <4>1
      <4>2. CASE g < gen[r]
        <5>1. file[<<r, g>>] < file[<<r, gen[r]>>]
          BY <2>4, <3>1, <4>2 DEF RisingAt
        <5>. QED
          BY <3>3, <3>4, <5>1
      <4>. QED
        BY <2>4, <4>1, <4>2
    <3>6. \A g \in 0 .. n : g = n \/ g \in 0 .. gen[r]
      BY <2>3, <2>4
    <3>7. \A g, h \in 0 .. n : g < h => file'[<<r, g>>] < file'[<<r, h>>]
      <4>1. ASSUME NEW g \in 0 .. n, NEW h \in 0 .. n, g < h
            PROVE  file'[<<r, g>>] < file'[<<r, h>>]
        <5>1. g \in 0 .. gen[r]
          BY <2>3, <2>4, <4>1
        <5>2. CASE h = n
          BY <3>2, <3>3, <3>5, <5>1, <5>2
        <5>3. CASE h \in 0 .. gen[r]
          BY <3>1, <3>3, <4>1, <5>1, <5>3 DEF RisingAt
        <5>. QED
          BY <3>6, <5>2, <5>3
      <4>. QED
        BY <4>1
    <3>8. idx[r] <= idx[r]
      BY <3>4
    <3>. QED
      BY <3>2, <3>7, <3>8 DEF RisingAt, Current
  <2>. QED
    BY <2>6, <2>7 DEF Rising
<1>8. ASSUME NEW p \in Procs,
             \/ InitCall(p) \/ InitCheck(p) \/ MakeFails(p) \/ TakeMade(p)
             \/ Output(p) \/ Send(p) \/ \E k \in Kinds : LogCall(p, k)
      PROVE  Rising'
  BY <1>2, <1>8 DEF InitCall, InitCheck, MakeFails, TakeMade, Output, Send, LogCall,
                    rotVars, outVars
<1>9. ASSUME NEW l \in Loggers, WriterStep(l) PROVE Rising'
  BY <1>2, <1>9 DEF WriterStep, Write, WriteFails, WriterEnd, rotVars
<1>10. ASSUME UNCHANGED vars PROVE Rising'
  BY <1>2, <1>10 DEF vars, rotVars, outVars
<1>. QED
  BY <1>3, <1>4, <1>5, <1>6, <1>7, <1>8, <1>9, <1>10
     DEF Next, InCall, LorateStep

-----------------------------------------------------------------------------
(* What a line in a file, or in a channel, goes on to be.                  *)

LEMMA BeforeKept ==
    ASSUME IInv, [Next]_vars, NEW b, b.by \in Procs, b.n \in Nat, Before(b)
    PROVE  Before(b)'
<1>0. /\ TypeOK /\ Calls /\ CallTypes /\ lines \in Nat
      /\ "none" \notin Kinds /\ "init" \notin Kinds
  BY TypeParts, CountTypes, LoggerAssumption DEF IInv
<1>. DEFINE q == b.by
<1>1. ASSUME lines' = lines,
             kind'[q] \in Kinds => kind[q] \in Kinds /\ line'[q] = line[q]
      PROVE  Before(b)'
  BY <1>1 DEF Before
<1>2. ASSUME NEW p \in Procs, NEW k \in Kinds, LogCall(p, k) PROVE Before(b)'
  <2>1. /\ lines' = lines + 1
        /\ line' = [line EXCEPT ![p] = lines + 1] /\ kind' = [kind EXCEPT ![p] = k]
    BY <1>2 DEF LogCall
  <2>2. CASE q = p
    <3>1. line'[q] = lines + 1
      BY <1>0, <2>1, <2>2 DEF CallTypes
    <3>. QED
      BY <1>0, <2>1, <3>1 DEF Before
  <2>3. CASE q # p
    <3>1. line'[q] = line[q] /\ kind'[q] = kind[q]
      BY <1>0, <2>1, <2>3 DEF CallTypes
    <3>. QED
      BY <1>0, <2>1, <3>1 DEF Before
  <2>. QED
    BY <2>2, <2>3
<1>3. ASSUME NEW p \in Procs, InitCall(p) PROVE Before(b)'
  BY <1>0, <1>1, <1>3 DEF InitCall, CallTypes
<1>4. ASSUME NEW p \in Procs, Make(p) \/ Send(p) PROVE Before(b)'
  BY <1>0, <1>1, <1>4 DEF Make, Send, Return, CallTypes
<1>5. ASSUME NEW p \in Procs,
             \/ InitCheck(p) \/ CloseReceived(p) \/ MakeFails(p) \/ TakeMade(p)
             \/ Announce(p) \/ Output(p)
      PROVE  Before(b)'
  BY <1>1, <1>5 DEF InitCheck, CloseReceived, MakeFails, TakeMade, Announce, Output,
                    procVars
<1>6. ASSUME NEW r \in Rls, LorateStep(r) PROVE Before(b)'
  BY <1>1, <1>6 DEF LorateStep, StatSmall, StatReached, SwapTell, SwapNew, EndTell,
                    procVars
<1>7. ASSUME NEW l \in Loggers, WriterStep(l) PROVE Before(b)'
  BY <1>1, <1>7 DEF WriterStep, Write, WriteFails, WriterEnd, procVars
<1>8. ASSUME UNCHANGED vars PROVE Before(b)'
  BY <1>1, <1>8 DEF vars, procVars
<1>. QED
  BY <1>2, <1>3, <1>4, <1>5, <1>6, <1>7, <1>8 DEF Next, InCall

LEMMA FilesAlone ==
    ASSUME [Next]_vars
    PROVE  \/ UNCHANGED <<made, gen, file>>
           \/ \E p \in Procs : Make(p)
           \/ \E r \in Rls : SwapNew(r)
<1>1. ASSUME NEW p \in Procs,
             \/ InitCall(p) \/ InitCheck(p) \/ CloseReceived(p) \/ MakeFails(p)
             \/ TakeMade(p) \/ Announce(p) \/ Output(p) \/ Send(p)
             \/ \E k \in Kinds : LogCall(p, k)
      PROVE  UNCHANGED <<made, gen, file>>
  BY <1>1 DEF InitCall, InitCheck, CloseReceived, MakeFails, TakeMade, Announce,
              Output, Send, LogCall, rotVars, outVars
<1>2. ASSUME NEW r \in Rls,
             StatSmall(r) \/ StatReached(r) \/ SwapTell(r) \/ EndTell(r)
      PROVE  UNCHANGED <<made, gen, file>>
  BY <1>2 DEF StatSmall, StatReached, SwapTell, EndTell, rotVars, outVars
<1>3. ASSUME NEW l \in Loggers, WriterStep(l)
      PROVE  UNCHANGED <<made, gen, file>>
  BY <1>3 DEF WriterStep, Write, WriteFails, WriterEnd, rotVars
<1>. QED
  BY <1>1, <1>2, <1>3 DEF Next, InCall, LorateStep, vars, rotVars, outVars

\* a Logger that has been made keeps its file
LEMMA MadeKept ==
    ASSUME IInv, [Next]_vars, NEW r \in Rls, r <= made
    PROVE  /\ r <= made' /\ gen'[r] \in Nat /\ gen[r] \in Nat /\ gen[r] <= gen'[r]
           /\ \A g \in 0 .. gen[r] : file'[<<r, g>>] = file[<<r, g>>]
<1>0. /\ TypeOK /\ Typed /\ Calls /\ Rotators /\ Enough
      /\ RotatorTypes /\ OutTypes /\ made \in Nat /\ r \in Nat
  BY TypeParts, CountTypes, NatSets DEF IInv
<1>1. gen[r] \in Nat
  BY <1>0, GensOf
<1>2. CASE UNCHANGED <<made, gen, file>>
  BY <1>1, <1>2
<1>3. ASSUME NEW p \in Procs, Make(p)
      PROVE  /\ r <= made' /\ gen'[r] = gen[r]
             /\ \A g \in 0 .. gen[r] : file'[<<r, g>>] = file[<<r, g>>]
  <2>1. PICK f \in Files : NewLogger(<<made + 1, 0>>, f) /\ gen' = gen
    BY <1>0, <1>3, NewFacts
  <2>2. made' = made + 1
    BY <1>3 DEF Make
  <2>3. r # made + 1 /\ r <= made + 1
    BY <1>0
  <2>4. ASSUME NEW g \in 0 .. gen[r] PROVE file'[<<r, g>>] = file[<<r, g>>]
    BY <1>0, <2>1, <2>3, GensOf DEF NewLogger, OutTypes
  <2>. QED
    BY <2>1, <2>2, <2>3, <2>4
<1>4. ASSUME NEW s \in Rls, SwapNew(s)
      PROVE  /\ r <= made' /\ gen'[r] \in {gen[r], gen[r] + 1}
             /\ \A g \in 0 .. gen[r] : file'[<<r, g>>] = file[<<r, g>>]
  <2>1. /\ NewLogger(<<s, gen[s] + 1>>, idx[s]) /\ made' = made
        /\ gen' = [gen EXCEPT ![s] = gen[s] + 1]
    BY <1>0, <1>4, SwapFacts
  <2>2. gen'[r] \in {gen[r], gen[r] + 1}
    BY <1>0, <2>1 DEF RotatorTypes
  <2>3. ASSUME NEW g \in 0 .. gen[r] PROVE file'[<<r, g>>] = file[<<r, g>>]
    <3>1. <<r, g>> \in Loggers /\ g \in Nat /\ g <= gen[r]
      BY <1>0, <1>1, GensOf
    <3>2. <<r, g>> # <<s, gen[s] + 1>>
      BY <1>1, <3>1
    <3>. QED
      BY <1>0, <2>1, <3>1, <3>2 DEF NewLogger, OutTypes
  <2>. QED
    BY <2>1, <2>2, <2>3
<1>. QED
  BY <1>1, <1>2, <1>3, <1>4, FilesAlone

LEMMA KnownKept ==
    ASSUME IInv, [Next]_vars, NEW a, NEW f, a.rl \in Rls, Known(a, f)
    PROVE  Known(a, f)'
<1>1. a.rl <= made
  BY DEF Known
<1>2. PICK g \in 0 .. gen[a.rl] : file[<<a.rl, g>>] = f
  BY DEF Known
<1>3. /\ a.rl <= made' /\ gen'[a.rl] \in Nat /\ gen[a.rl] \in Nat
      /\ gen[a.rl] <= gen'[a.rl] /\ file'[<<a.rl, g>>] = f
  BY <1>1, <1>2, MadeKept
<1>4. g \in 0 .. gen'[a.rl]
  BY <1>3
<1>. QED
  BY <1>3, <1>4 DEF Known

LEMMA EntryTypes ==
    ASSUME TypeOK, Typed
    PROVE  /\ \A l \in Loggers : \A i \in DOMAIN buf[l] :
                 buf[l][i] \in Queued /\ buf[l][i].by \in Procs /\ buf[l][i].n \in Nat
           /\ \A f \in Files : \A i \in DOMAIN content[f] :
                 /\ content[f][i] \in Written /\ content[f][i].by \in Procs
                 /\ content[f][i].n \in Nat /\ content[f][i].rl \in Rls
<1>1. \A l \in Loggers : \A i \in DOMAIN buf[l] : buf[l][i] \in Queued
  BY QueueFacts DEF Typed
<1>2. \A f \in Files : \A i \in DOMAIN content[f] : content[f][i] \in Written
  BY QueueFacts DEF Typed
<1>. QED
  BY <1>1, <1>2 DEF Queued, Written

\* the Loggers that exist are those whose goroutine has been started
LEMMA Started ==
    ASSUME TypeOK, Rotators, NEW l \in Loggers, writer[l] # "none"
    PROVE  /\ l[1] \in Rls /\ l[2] \in Nat /\ l[1] <= made /\ l[2] <= gen[l[1]]
           /\ l[2] \in 0 .. gen[l[1]] /\ l = <<l[1], l[2]>>
<1>1. l[1] \in Rls /\ l[2] \in Gens /\ l = <<l[1], l[2]>>
  BY LoggerFacts
<1>2. l[2] \in Nat /\ gen[l[1]] \in Nat /\ l[1] \in Nat /\ made \in Nat
  BY <1>1, NatSets, GensOf, CountTypes
<1>3. ~(l[1] > made \/ l[2] > gen[l[1]])
  BY <1>1 DEF Rotators
<1>. QED
  BY <1>1, <1>2, <1>3

LEMMA NotEmpty ==
    ASSUME TypeOK, Typed, Rotators, NEW l \in Loggers, NEW i \in DOMAIN buf[l]
    PROVE  writer[l] # "none"
<1>1. buf[l] # <<>>
  OBVIOUS
<1>. QED
  BY <1>1, LoggerFacts DEF Rotators

\* Rising, of Loggers
LEMMA FilesRise ==
    ASSUME TypeOK, Typed, Rotators, Rising, NEW l \in Loggers, NEW m \in Loggers,
           writer[l] # "none", writer[m] # "none", l[1] = m[1]
    PROVE  /\ file[l] \in Nat /\ file[m] \in Nat
           /\ l[2] \in Nat /\ m[2] \in Nat
           /\ l[2] < m[2] => file[l] < file[m]
           /\ l[2] = m[2] => l = m
<1>1. /\ l = <<l[1], l[2]>> /\ m = <<m[1], m[2]>> /\ l[1] \in Rls
      /\ l[2] \in 0 .. gen[l[1]] /\ m[2] \in 0 .. gen[l[1]]
      /\ l[2] \in Nat /\ m[2] \in Nat
  BY Started
<1>2. RisingAt(l[1])
  BY <1>1 DEF Rising
<1>3. file[l] \in Nat /\ file[m] \in Nat
  BY NatSets DEF TypeOK
<1>4. l[2] < m[2] => file[<<l[1], l[2]>>] < file[<<l[1], m[2]>>]
  BY <1>1, <1>2 DEF RisingAt
<1>. QED
  BY <1>1, <1>3, <1>4

\* the entries after each of the steps that move them
LEMMA SendEntries ==
    ASSUME IInv, NEW p \in Procs, Send(p)
    PROVE  \E m \in Loggers, x \in Queued, n \in Nat :
              /\ m = to[p] /\ x.by = p /\ x.n = line[p] /\ pc[p] = "send"
              /\ kind[p] \in Kinds /\ line[p] <= lines /\ writer[m] # "none"
              /\ DOMAIN buf[m] = 1 .. n /\ DOMAIN buf'[m] = 1 .. n + 1
              /\ \A i \in 1 .. n : buf'[m][i] = buf[m][i]
              /\ buf'[m][n + 1] = x
              /\ \A l \in Loggers : l # m => buf'[l] = buf[l]
              /\ pc' = [pc EXCEPT ![p] = "idle"] /\ to' = [to EXCEPT ![p] = <<1, 0>>]
              /\ kind'[p] \notin Kinds
              /\ UNCHANGED <<made, gen, file, content, lines>>
<1>0. /\ TypeOK /\ Typed /\ Calls /\ CallTypes /\ OutTypes /\ lines \in Nat
      /\ "none" \notin Kinds
  BY TypeParts, CountTypes, LoggerAssumption DEF IInv
<1>1. /\ to[p] \in Loggers /\ Sent(p) \in Queued
      /\ buf[to[p]] \in Seq(Queued)
      /\ buf' = [buf EXCEPT ![to[p]] = Append(buf[to[p]], Sent(p))]
      /\ pc[p] = "send" /\ UNCHANGED <<made, gen, file, content, lines>> /\ Return(p)
  BY <1>0, SendFacts DEF rotVars
<1>2. kind[p] \in Kinds /\ line[p] \in 1 .. lines /\ writer[to[p]] # "none"
  BY <1>0, <1>1 DEF Calls
<1>3. PICK m \in Loggers : m = to[p]
  BY <1>1
<1>4. PICK x \in Queued : x = Sent(p)
  BY <1>1
<1>5. PICK n \in Nat : n = Len(buf[m])
  BY <1>1, <1>3, QueueFacts
<1>6. /\ DOMAIN buf[m] = 1 .. n /\ DOMAIN Append(buf[m], x) = 1 .. n + 1
      /\ \A i \in 1 .. n : Append(buf[m], x)[i] = buf[m][i]
      /\ Append(buf[m], x)[n + 1] = x
  BY <1>1, <1>3, <1>5, QueueFacts
<1>7. /\ buf'[m] = Append(buf[m], x)
      /\ \A l \in Loggers : l # m => buf'[l] = buf[l]
  BY <1>0, <1>1, <1>3, <1>4 DEF OutTypes
<1>8. line[p] <= lines
  BY <1>0, <1>2
<1>9. /\ pc' = [pc EXCEPT ![p] = "idle"] /\ to' = [to EXCEPT ![p] = <<1, 0>>]
      /\ kind'[p] \notin Kinds
  BY <1>0, <1>1 DEF Return, At, CallTypes
<1>10. x.by = p /\ x.n = line[p]
  BY <1>4 DEF Sent
<1>. QED
  BY <1>1, <1>2, <1>3, <1>6, <1>7, <1>8, <1>9, <1>10

LEMMA WriteEntries ==
    ASSUME IInv, NEW l \in Loggers, Write(l)
    PROVE  \E f \in Files, x \in Written, n \in Nat :
              /\ f = file[l] /\ x.by = buf[l][1].by /\ x.n = buf[l][1].n /\ x.rl = l[1]
              /\ 1 \in DOMAIN buf[l] /\ writer[l] # "none"
              /\ \A i \in DOMAIN buf'[l] : /\ i \in Nat /\ i >= 1 /\ i + 1 \in DOMAIN buf[l]
                                           /\ buf'[l][i] = buf[l][i + 1]
              /\ \A m \in Loggers : m # l => buf'[m] = buf[m]
              /\ DOMAIN content[f] = 1 .. n /\ DOMAIN content'[f] = 1 .. n + 1
              /\ \A i \in 1 .. n : content'[f][i] = content[f][i]
              /\ content'[f][n + 1] = x
              /\ \A g \in Files : g # f => content'[g] = content[g]
              /\ UNCHANGED <<made, gen, file, lines, procVars>>
<1>0. /\ TypeOK /\ Typed /\ OutTypes
  BY TypeParts DEF IInv
<1>1. /\ buf[l] \in Seq(Queued) /\ buf[l] # <<>> /\ Moved(l) \in Written
      /\ file[l] \in Files /\ content[file[l]] \in Seq(Written)
      /\ content' = [content EXCEPT ![file[l]] =
                                        Append(content[file[l]], Moved(l))]
      /\ buf' = [buf EXCEPT ![l] = Tail(buf[l])]
      /\ writer[l] # "none"
      /\ UNCHANGED <<made, gen, file, lines, procVars>>
  BY <1>0, WriteFacts DEF rotVars
<1>2. PICK f \in Files : f = file[l]
  BY <1>1
<1>3. PICK x \in Written : x = Moved(l)
  BY <1>1
<1>4. PICK n \in Nat : n = Len(content[f])
  BY <1>1, <1>2, QueueFacts
<1>5. /\ DOMAIN content[f] = 1 .. n /\ DOMAIN Append(content[f], x) = 1 .. n + 1
      /\ \A i \in 1 .. n : Append(content[f], x)[i] = content[f][i]
      /\ Append(content[f], x)[n + 1] = x
  BY <1>1, <1>2, <1>4, QueueFacts
<1>6. /\ content'[f] = Append(content[f], x)
      /\ \A g \in Files : g # f => content'[g] = content[g]
      /\ buf'[l] = Tail(buf[l])
      /\ \A m \in Loggers : m # l => buf'[m] = buf[m]
  BY <1>0, <1>1, <1>2, <1>3 DEF OutTypes
<1>7. /\ 1 \in DOMAIN buf[l] /\ Len(buf[l]) \in Nat
      /\ DOMAIN Tail(buf[l]) = 1 .. Len(buf[l]) - 1
      /\ \A i \in DOMAIN Tail(buf[l]) :
            i + 1 \in DOMAIN buf[l] /\ Tail(buf[l])[i] = buf[l][i + 1]
  BY <1>1, QueueFacts
<1>8. x.by = buf[l][1].by /\ x.n = buf[l][1].n /\ x.rl = l[1]
  BY <1>3 DEF Moved
<1>9. \A i \in DOMAIN buf'[l] : /\ i \in Nat /\ i >= 1 /\ i + 1 \in DOMAIN buf[l]
                                /\ buf'[l][i] = buf[l][i + 1]
  BY <1>6, <1>7
<1>. WITNESS f \in Files, x \in Written, n \in Nat
<1>. QED
  BY <1>1, <1>2, <1>5, <1>6, <1>7, <1>8, <1>9

LEMMA WriteFailsEntries ==
    ASSUME IInv, NEW l \in Loggers, WriteFails(l)
    PROVE  /\ \A i \in DOMAIN buf'[l] : /\ i \in Nat /\ i + 1 \in DOMAIN buf[l]
                                        /\ buf'[l][i] = buf[l][i + 1]
           /\ \A m \in Loggers : m # l => buf'[m] = buf[m]
           /\ UNCHANGED <<file, content, procVars>>
<1>0. /\ TypeOK /\ Typed /\ OutTypes
  BY TypeParts DEF IInv
<1>1. /\ buf[l] \in Seq(Queued) /\ buf[l] # <<>>
      /\ buf' = [buf EXCEPT ![l] = Tail(buf[l])]
      /\ UNCHANGED <<file, content, procVars>>
  BY <1>0, WriteFailsFacts
<1>2. /\ buf'[l] = Tail(buf[l])
      /\ \A m \in Loggers : m # l => buf'[m] = buf[m]
  BY <1>0, <1>1 DEF OutTypes
<1>3. /\ Len(buf[l]) \in Nat
      /\ DOMAIN Tail(buf[l]) = 1 .. Len(buf[l]) - 1
      /\ \A i \in DOMAIN Tail(buf[l]) :
            i + 1 \in DOMAIN buf[l] /\ Tail(buf[l])[i] = buf[l][i + 1]
  BY <1>1, QueueFacts
<1>4. \A i \in DOMAIN buf'[l] : /\ i \in Nat /\ i + 1 \in DOMAIN buf[l]
                                /\ buf'[l][i] = buf[l][i + 1]
  BY <1>2, <1>3
<1>. QED
  BY <1>1, <1>2, <1>4

LEMMA NewEntries ==
    ASSUME IInv, (\E p \in Procs : Make(p)) \/ (\E r \in Rls : SwapNew(r))
    PROVE  \E m \in Loggers :
              /\ writer[m] = "none" /\ \A l \in Loggers : buf'[l] = buf[l]
              /\ \A l \in Loggers : l # m => file'[l] = file[l]
              /\ content' = content
              /\ \A q \in Procs : pc'[q] = "send" => pc[q] = "send" /\ to'[q] = to[q]
<1>0. /\ TypeOK /\ Typed /\ Calls /\ Rotators /\ Enough /\ OutTypes /\ CallTypes
  BY TypeParts DEF IInv
<1>1. ASSUME NEW m \in Loggers, NEW f, NewLogger(m, f), buf[m] = <<>>
      PROVE  /\ \A l \in Loggers : buf'[l] = buf[l]
             /\ \A l \in Loggers : l # m => file'[l] = file[l]
  BY <1>0, <1>1 DEF NewLogger, OutTypes
<1>2. ASSUME NEW p \in Procs, Make(p)
      PROVE  \E m \in Loggers :
                /\ writer[m] = "none" /\ \A l \in Loggers : buf'[l] = buf[l]
                /\ \A l \in Loggers : l # m => file'[l] = file[l]
                /\ content' = content
                /\ \A q \in Procs : pc'[q] = "send" => pc[q] = "send" /\ to'[q] = to[q]
  <2>1. PICK f \in Files : /\ <<made + 1, 0>> \in Loggers
                           /\ NewLogger(<<made + 1, 0>>, f)
                           /\ writer[<<made + 1, 0>>] = "none"
                           /\ buf[<<made + 1, 0>>] = <<>>
                           /\ content' = content
    BY <1>0, <1>2, NewFacts
  <2>2. \A q \in Procs : pc'[q] = "send" => pc[q] = "send" /\ to'[q] = to[q]
    BY <1>0, <1>2 DEF Make, Return, At, CallTypes
  <2>. QED
    BY <1>1, <2>1, <2>2
<1>3. ASSUME NEW r \in Rls, SwapNew(r)
      PROVE  \E m \in Loggers :
                /\ writer[m] = "none" /\ \A l \in Loggers : buf'[l] = buf[l]
                /\ \A l \in Loggers : l # m => file'[l] = file[l]
                /\ content' = content
                /\ \A q \in Procs : pc'[q] = "send" => pc[q] = "send" /\ to'[q] = to[q]
  <2>1. /\ <<r, gen[r] + 1>> \in Loggers
        /\ NewLogger(<<r, gen[r] + 1>>, idx[r])
        /\ writer[<<r, gen[r] + 1>>] = "none" /\ buf[<<r, gen[r] + 1>>] = <<>>
        /\ UNCHANGED <<content, procVars>>
    BY <1>0, <1>3, SwapFacts
  <2>. QED
    BY <1>1, <2>1 DEF procVars
<1>. QED
  BY <1>2, <1>3

\* the other steps move nothing
LEMMA NothingMoves ==
    ASSUME [Next]_vars
    PROVE  \/ UNCHANGED <<buf, file, content>>
           \/ \E p \in Procs : Send(p)
           \/ \E l \in Loggers : Write(l) \/ WriteFails(l)
           \/ (\E p \in Procs : Make(p)) \/ (\E r \in Rls : SwapNew(r))
<1>1. ASSUME NEW r \in Rls, SwapTell(r) \/ EndTell(r)
      PROVE  UNCHANGED <<buf, file, content>>
  BY <1>1 DEF SwapTell, EndTell
<1>2. ASSUME NEW l \in Loggers, WriterEnd(l) PROVE UNCHANGED <<buf, file, content>>
  BY <1>2 DEF WriterEnd
<1>. QED
  BY <1>1, <1>2, OutAlone DEF outVars

LEMMA NumberedStep == IInv /\ [Next]_vars => Numbered'
<1>. SUFFICES ASSUME IInv, [Next]_vars PROVE Numbered'
  OBVIOUS
<1>0. TypeOK /\ Typed /\ Calls /\ Rotators /\ Numbered
  BY DEF IInv
<1>1. \A b \in Queued : Before(b) => Before(b)'
  <2>1. ASSUME NEW b \in Queued, Before(b) PROVE Before(b)'
    BY <2>1, BeforeKept DEF Queued
  <2>. QED
    BY <2>1
<1>2. \A a \in Written : Before(a) => Before(a)'
  <2>1. ASSUME NEW a \in Written, Before(a) PROVE Before(a)'
    BY <2>1, BeforeKept DEF Written
  <2>. QED
    BY <2>1
<1>3. \A a \in Written, f \in Files : Known(a, f) => Known(a, f)'
  <2>1. ASSUME NEW a \in Written, NEW f \in Files, Known(a, f) PROVE Known(a, f)'
    BY <2>1, KnownKept DEF Written
  <2>. QED
    BY <2>1
\* a line that was there before
<1>4. ASSUME NEW l \in Loggers, NEW i \in DOMAIN buf[l]
      PROVE  \E b \in Queued : b = buf[l][i] /\ Before(b)'
  <2>1. PICK b \in Queued : b = buf[l][i]
    BY <1>0, EntryTypes
  <2>. QED
    BY <1>0, <1>1, <2>1 DEF Numbered
<1>5. ASSUME NEW f \in Files, NEW i \in DOMAIN content[f]
      PROVE  \E a \in Written : a = content[f][i] /\ Known(a, f)' /\ Before(a)'
  <2>1. PICK a \in Written : a = content[f][i]
    BY <1>0, EntryTypes
  <2>. QED
    BY <1>0, <1>2, <1>3, <2>1 DEF Numbered
<1>6. ASSUME \A l \in Loggers : \A i \in DOMAIN buf'[l] :
                \E b \in Queued : b = buf'[l][i] /\ Before(b)',
             \A f \in Files : \A i \in DOMAIN content'[f] :
                \E a \in Written : a = content'[f][i] /\ Known(a, f)' /\ Before(a)'
      PROVE  Numbered'
  BY <1>6 DEF Numbered, Known, Before
<1>7. CASE content' = content /\ \A l \in Loggers : buf'[l] = buf[l]
  BY <1>4, <1>5, <1>6, <1>7
<1>8. ASSUME NEW p \in Procs, Send(p) PROVE Numbered'
  <2>1. PICK m \in Loggers, x \in Queued, n \in Nat :
           /\ x.by = p /\ x.n = line[p] /\ line[p] <= lines /\ lines' = lines
           /\ DOMAIN buf[m] = 1 .. n /\ DOMAIN buf'[m] = 1 .. n + 1
           /\ \A i \in 1 .. n : buf'[m][i] = buf[m][i]
           /\ buf'[m][n + 1] = x
           /\ \A l \in Loggers : l # m => buf'[l] = buf[l]
           /\ kind'[p] \notin Kinds /\ content' = content
    BY <1>8, SendEntries
  <2>2. Before(x)'
    BY <2>1 DEF Before
  <2>3. ASSUME NEW l \in Loggers, NEW i \in DOMAIN buf'[l]
        PROVE  \E b \in Queued : b = buf'[l][i] /\ Before(b)'
    <3>1. CASE l # m
      BY <1>4, <2>1, <3>1
    <3>2. CASE l = m /\ i = n + 1
      BY <2>1, <2>2, <3>2
    <3>3. CASE l = m /\ i \in 1 .. n
      BY <1>4, <2>1, <3>3
    <3>. QED
      BY <2>1, <3>1, <3>2, <3>3
  <2>. QED
    BY <1>5, <1>6, <2>1, <2>3
<1>9. ASSUME NEW l \in Loggers, Write(l) PROVE Numbered'
  <2>1. PICK f \in Files, x \in Written, n \in Nat :
           /\ f = file[l] /\ x.by = buf[l][1].by /\ x.n = buf[l][1].n /\ x.rl = l[1]
           /\ 1 \in DOMAIN buf[l] /\ writer[l] # "none"
           /\ \A i \in DOMAIN buf'[l] : i + 1 \in DOMAIN buf[l] /\ buf'[l][i] = buf[l][i + 1]
           /\ \A m \in Loggers : m # l => buf'[m] = buf[m]
           /\ DOMAIN content[f] = 1 .. n /\ DOMAIN content'[f] = 1 .. n + 1
           /\ \A i \in 1 .. n : content'[f][i] = content[f][i]
           /\ content'[f][n + 1] = x
           /\ \A g \in Files : g # f => content'[g] = content[g]
    BY <1>9, WriteEntries
  <2>2. Before(x)
    <3>1. Before(buf[l][1])
      BY <1>0, <2>1 DEF Numbered
    <3>. QED
      BY <2>1, <3>1 DEF Before
  <2>3. Known(x, f)
    <3>1. l[1] <= made /\ l[2] \in 0 .. gen[l[1]] /\ file[<<l[1], l[2]>>] = f
      BY <1>0, <2>1, Started
    <3>. QED
      BY <2>1, <3>1 DEF Known
  <2>4. ASSUME NEW m \in Loggers, NEW i \in DOMAIN buf'[m]
        PROVE  \E b \in Queued : b = buf'[m][i] /\ Before(b)'
    BY <1>4, <2>1
  <2>5. ASSUME NEW g \in Files, NEW i \in DOMAIN content'[g]
        PROVE  \E a \in Written : a = content'[g][i] /\ Known(a, g)' /\ Before(a)'
    <3>1. CASE g # f
      BY <1>5, <2>1, <3>1
    <3>2. CASE g = f /\ i = n + 1
      BY <1>2, <1>3, <2>1, <2>2, <2>3, <3>2
    <3>3. CASE g = f /\ i \in 1 .. n
      BY <1>5, <2>1, <3>3
    <3>. QED
      BY <2>1, <3>1, <3>2, <3>3
  <2>. QED
    BY <1>6, <2>4, <2>5
<1>10. CASE (\E p \in Procs : Make(p)) \/ (\E r \in Rls : SwapNew(r))
  BY <1>7, <1>10, NewEntries
<1>11. ASSUME NEW l \in Loggers, WriteFails(l) PROVE Numbered'
  <2>1. /\ \A i \in DOMAIN buf'[l] : i + 1 \in DOMAIN buf[l] /\ buf'[l][i] = buf[l][i + 1]
        /\ \A m \in Loggers : m # l => buf'[m] = buf[m]
        /\ content' = content
    BY <1>11, WriteFailsEntries
  <2>2. ASSUME NEW m \in Loggers, NEW i \in DOMAIN buf'[m]
        PROVE  \E b \in Queued : b = buf'[m][i] /\ Before(b)'
    BY <1>4, <2>1
  <2>. QED
    BY <1>5, <1>6, <2>1, <2>2
<1>. QED
  BY <1>7, <1>8, <1>9, <1>10, <1>11, NothingMoves

-----------------------------------------------------------------------------
(* The lines of a goroutine are in the order of the Loggers they went to.  *)

LEMMA ChannelsStep == IInv /\ [Next]_vars => Channels'
<1>. SUFFICES ASSUME IInv, [Next]_vars PROVE Channels'
  OBVIOUS
<1>0. /\ TypeOK /\ Typed /\ Calls /\ Rotators /\ Numbered /\ Channels /\ OnTheWay
  BY DEF IInv, Placed
<1>1. CASE \A l \in Loggers : buf'[l] = buf[l]
  BY <1>0, <1>1 DEF Channels
<1>2. ASSUME NEW p \in Procs, Send(p) PROVE Channels'
  <2>1. PICK k \in Loggers, x \in Queued, n \in Nat :
           /\ k = to[p] /\ x.by = p /\ x.n = line[p] /\ pc[p] = "send" /\ kind[p] \in Kinds
           /\ DOMAIN buf[k] = 1 .. n /\ DOMAIN buf'[k] = 1 .. n + 1
           /\ \A i \in 1 .. n : buf'[k][i] = buf[k][i]
           /\ buf'[k][n + 1] = x
           /\ \A l \in Loggers : l # k => buf'[l] = buf[l]
    BY <1>2, SendEntries
  <2>2. ASSUME NEW l \in Loggers, NEW m \in Loggers,
               NEW i \in DOMAIN buf'[l], NEW j \in DOMAIN buf'[m],
               l[1] = m[1], buf'[l][i].by = buf'[m][j].by,
               l[2] < m[2] \/ (l = m /\ i < j)
        PROVE  buf'[l][i].n < buf'[m][j].n
    <3>1. CASE l = k /\ i = n + 1
      <4>1. l # m
        <5>1. ASSUME l = m PROVE FALSE
          <6>1. l[2] \in Nat
            BY LoggerFacts, NatSets
          <6>2. i < j /\ j \in 1 .. n + 1
            BY <2>1, <2>2, <3>1, <5>1, <6>1
          <6>. QED
            BY <3>1, <6>2
        <5>. QED
          BY <5>1
      <4>2. j \in DOMAIN buf[m] /\ buf[m][j].by = p /\ m[1] = k[1] /\ m[2] > k[2]
        <5>1. l[2] \in Nat /\ m[2] \in Nat
          BY LoggerFacts, NatSets
        <5>. QED
          BY <2>1, <2>2, <3>1, <4>1, <5>1
      <4>. QED
        BY <1>0, <2>1, <4>2 DEF OnTheWay
    <3>2. CASE m = k /\ j = n + 1 /\ ~(l = k /\ i = n + 1)
      <4>1. i \in DOMAIN buf[l] /\ buf'[l][i] = buf[l][i]
        BY <2>1, <3>2
      <4>2. Before(buf[l][i]) /\ buf[l][i].by = p
        BY <1>0, <2>1, <2>2, <3>2, <4>1 DEF Numbered
      <4>. QED
        BY <2>1, <3>2, <4>1, <4>2 DEF Before
    <3>3. CASE ~(m = k /\ j = n + 1) /\ ~(l = k /\ i = n + 1)
      <4>1. /\ i \in DOMAIN buf[l] /\ buf'[l][i] = buf[l][i]
            /\ j \in DOMAIN buf[m] /\ buf'[m][j] = buf[m][j]
        BY <2>1, <3>3
      <4>. QED
        BY <1>0, <2>2, <4>1 DEF Channels
    <3>. QED
      BY <3>1, <3>2, <3>3
  <2>. QED
    BY <2>2 DEF Channels
<1>3. ASSUME NEW k \in Loggers, Write(k) \/ WriteFails(k) PROVE Channels'
  <2>1. /\ \A i \in DOMAIN buf'[k] : /\ i \in Nat /\ i + 1 \in DOMAIN buf[k]
                                     /\ buf'[k][i] = buf[k][i + 1]
        /\ \A m \in Loggers : m # k => buf'[m] = buf[m]
    BY <1>3, WriteEntries, WriteFailsEntries
  <2>2. ASSUME NEW l \in Loggers, NEW i \in DOMAIN buf'[l]
        PROVE  LET s == IF l = k THEN i + 1 ELSE i
               IN  s \in DOMAIN buf[l] /\ buf'[l][i] = buf[l][s]
    BY <2>1
  <2>3. ASSUME NEW l \in Loggers, NEW m \in Loggers,
               NEW i \in DOMAIN buf'[l], NEW j \in DOMAIN buf'[m],
               l[1] = m[1], buf'[l][i].by = buf'[m][j].by,
               l[2] < m[2] \/ (l = m /\ i < j)
        PROVE  buf'[l][i].n < buf'[m][j].n
    <3>. DEFINE s == IF l = k THEN i + 1 ELSE i
                t == IF m = k THEN j + 1 ELSE j
    <3>1. /\ s \in DOMAIN buf[l] /\ buf'[l][i] = buf[l][s]
          /\ t \in DOMAIN buf[m] /\ buf'[m][j] = buf[m][t]
      BY <2>2
    <3>2. l = m => (i < j => s < t)
      BY <2>1
    <3>. HIDE DEF s, t
    <3>. QED
      BY <1>0, <2>3, <3>1, <3>2 DEF Channels
  <2>. QED
    BY <2>3 DEF Channels
<1>. QED
  BY <1>1, <1>2, <1>3, NothingMoves, NewEntries

LEMMA FileChannelStep == IInv /\ [Next]_vars => FileChannel'
<1>. SUFFICES ASSUME IInv, [Next]_vars PROVE FileChannel'
  OBVIOUS
<1>0. /\ TypeOK /\ Typed /\ Calls /\ Rotators /\ Rising /\ Numbered
      /\ FileChannel /\ Channels /\ OnTheWay
  BY DEF IInv, Placed
<1>1. ASSUME content' = content, \A l \in Loggers : buf'[l] = buf[l],
             \A l \in Loggers : buf[l] # <<>> => file'[l] = file[l]
      PROVE  FileChannel'
  <2>1. \A l \in Loggers : \A j \in DOMAIN buf[l] : file'[l] = file[l]
    BY <1>1
  <2>. QED
    BY <1>0, <1>1, <2>1 DEF FileChannel
<1>2. ASSUME NEW p \in Procs, Send(p) PROVE FileChannel'
  <2>1. PICK k \in Loggers, x \in Queued, n \in Nat :
           /\ k = to[p] /\ x.by = p /\ x.n = line[p] /\ pc[p] = "send" /\ kind[p] \in Kinds
           /\ DOMAIN buf[k] = 1 .. n /\ DOMAIN buf'[k] = 1 .. n + 1
           /\ \A i \in 1 .. n : buf'[k][i] = buf[k][i]
           /\ buf'[k][n + 1] = x
           /\ \A l \in Loggers : l # k => buf'[l] = buf[l]
           /\ UNCHANGED <<file, content>>
    BY <1>2, SendEntries
  <2>2. ASSUME NEW f \in Files, NEW l \in Loggers,
               NEW i \in DOMAIN content[f], NEW j \in DOMAIN buf'[l],
               content[f][i].rl = l[1], content[f][i].by = buf'[l][j].by
        PROVE  IF f <= file[l] THEN content[f][i].n < buf'[l][j].n
               ELSE buf'[l][j].n < content[f][i].n
    <3>1. CASE l = k /\ j = n + 1
      <4>1. f \in Nat /\ file[k] \in Nat
        BY <1>0, NatSets DEF TypeOK
      <4>2. content[f][i].by = p /\ content[f][i].rl = k[1]
        BY <2>1, <2>2, <3>1
      <4>3. ~(f > file[k])
        BY <1>0, <2>1, <4>2 DEF OnTheWay
      <4>4. Before(content[f][i])
        BY <1>0 DEF Numbered
      <4>5. content[f][i].n < line[p]
        BY <2>1, <4>2, <4>4 DEF Before
      <4>. QED
        BY <2>1, <3>1, <4>1, <4>3, <4>5
    <3>2. CASE ~(l = k /\ j = n + 1)
      <4>1. j \in DOMAIN buf[l] /\ buf'[l][j] = buf[l][j]
        BY <2>1, <3>2
      <4>. QED
        BY <1>0, <2>2, <4>1 DEF FileChannel
    <3>. QED
      BY <3>1, <3>2
  <2>. QED
    BY <2>1, <2>2 DEF FileChannel
<1>3. ASSUME NEW k \in Loggers, Write(k) PROVE FileChannel'
  <2>1. PICK h \in Files, x \in Written, n \in Nat :
           /\ h = file[k] /\ x.by = buf[k][1].by /\ x.n = buf[k][1].n /\ x.rl = k[1]
           /\ 1 \in DOMAIN buf[k] /\ writer[k] # "none"
           /\ \A i \in DOMAIN buf'[k] : /\ i \in Nat /\ i >= 1 /\ i + 1 \in DOMAIN buf[k]
                                        /\ buf'[k][i] = buf[k][i + 1]
           /\ \A m \in Loggers : m # k => buf'[m] = buf[m]
           /\ DOMAIN content[h] = 1 .. n /\ DOMAIN content'[h] = 1 .. n + 1
           /\ \A i \in 1 .. n : content'[h][i] = content[h][i]
           /\ content'[h][n + 1] = x
           /\ \A g \in Files : g # h => content'[g] = content[g]
           /\ UNCHANGED file
    BY <1>3, WriteEntries
  <2>2. ASSUME NEW l \in Loggers, NEW i \in DOMAIN buf'[l]
        PROVE  \E s \in DOMAIN buf[l] : buf'[l][i] = buf[l][s] /\ (l = k => 1 < s)
    BY <2>1
  <2>3. ASSUME NEW f \in Files, NEW l \in Loggers,
               NEW i \in DOMAIN content'[f], NEW j \in DOMAIN buf'[l],
               content'[f][i].rl = l[1], content'[f][i].by = buf'[l][j].by
        PROVE  IF f <= file[l] THEN content'[f][i].n < buf'[l][j].n
               ELSE buf'[l][j].n < content'[f][i].n
    <3>1. PICK s \in DOMAIN buf[l] : buf'[l][j] = buf[l][s] /\ (l = k => 1 < s)
      BY <2>2
    <3>2. CASE f = h /\ i = n + 1
      <4>1. k[1] = l[1] /\ buf[k][1].by = buf[l][s].by /\ content'[f][i] = x
        BY <2>1, <2>3, <3>1, <3>2
      <4>2. writer[l] # "none"
        BY <1>0, NotEmpty
      <4>3. /\ file[l] \in Nat /\ file[k] \in Nat /\ k[2] \in Nat /\ l[2] \in Nat
            /\ k[2] < l[2] => file[k] < file[l]
            /\ l[2] < k[2] => file[l] < file[k]
            /\ k[2] = l[2] => k = l
        BY <1>0, <2>1, <4>1, <4>2, FilesRise
      <4>4. CASE k[2] < l[2] \/ k = l
        <5>1. buf[k][1].n < buf[l][s].n
          BY <1>0, <2>1, <3>1, <4>1, <4>4 DEF Channels
        <5>2. f <= file[l]
          BY <2>1, <3>2, <4>3, <4>4
        <5>. QED
          BY <2>1, <3>1, <4>1, <5>1, <5>2
      <4>5. CASE l[2] < k[2]
        <5>1. buf[l][s].n < buf[k][1].n
          BY <1>0, <2>1, <3>1, <4>1, <4>5 DEF Channels
        <5>2. ~(f <= file[l])
          BY <2>1, <3>2, <4>3, <4>5
        <5>. QED
          BY <2>1, <3>1, <4>1, <5>1, <5>2
      <4>. QED
        BY <4>3, <4>4, <4>5
    <3>3. CASE ~(f = h /\ i = n + 1)
      <4>1. i \in DOMAIN content[f] /\ content'[f][i] = content[f][i]
        BY <2>1, <3>3
      <4>. QED
        BY <1>0, <2>3, <3>1, <4>1 DEF FileChannel
    <3>. QED
      BY <3>2, <3>3
  <2>. QED
    BY <2>1, <2>3 DEF FileChannel
<1>4. CASE UNCHANGED <<buf, file, content>>
  BY <1>1, <1>4
<1>5. CASE (\E p \in Procs : Make(p)) \/ (\E r \in Rls : SwapNew(r))
  <2>1. PICK m \in Loggers :
           /\ writer[m] = "none" /\ \A l \in Loggers : buf'[l] = buf[l]
           /\ \A l \in Loggers : l # m => file'[l] = file[l]
           /\ content' = content
    BY <1>5, NewEntries
  <2>2. buf[m] = <<>>
    BY <1>0, <2>1, LoggerFacts DEF Rotators
  <2>. QED
    BY <1>1, <2>1, <2>2
<1>6. ASSUME NEW k \in Loggers, WriteFails(k) PROVE FileChannel'
  <2>1. /\ \A i \in DOMAIN buf'[k] : i + 1 \in DOMAIN buf[k] /\ buf'[k][i] = buf[k][i + 1]
        /\ \A m \in Loggers : m # k => buf'[m] = buf[m]
        /\ UNCHANGED <<file, content>>
    BY <1>6, WriteFailsEntries
  <2>2. ASSUME NEW l \in Loggers, NEW i \in DOMAIN buf'[l]
        PROVE  \E s \in DOMAIN buf[l] : buf'[l][i] = buf[l][s]
    BY <2>1
  <2>3. ASSUME NEW f \in Files, NEW l \in Loggers,
               NEW i \in DOMAIN content[f], NEW j \in DOMAIN buf'[l],
               content[f][i].rl = l[1], content[f][i].by = buf'[l][j].by
        PROVE  IF f <= file[l] THEN content[f][i].n < buf'[l][j].n
               ELSE buf'[l][j].n < content[f][i].n
    <3>1. PICK s \in DOMAIN buf[l] : buf'[l][j] = buf[l][s]
      BY <2>2
    <3>. QED
      BY <1>0, <2>3, <3>1 DEF FileChannel
  <2>. QED
    BY <2>1, <2>3 DEF FileChannel
<1>. QED
  BY <1>2, <1>3, <1>4, <1>5, <1>6, NothingMoves

LEMMA ReadsInOrderStep == IInv /\ [Next]_vars => ReadsInOrder'
<1>. SUFFICES ASSUME IInv, [Next]_vars PROVE ReadsInOrder'
  OBVIOUS
<1>0. TypeOK /\ Typed /\ FileChannel /\ ReadsInOrder
  BY DEF IInv, Placed
<1>1. CASE content' = content
  BY <1>0, <1>1 DEF ReadsInOrder
<1>2. ASSUME NEW k \in Loggers, Write(k) PROVE ReadsInOrder'
  <2>1. PICK h \in Files, x \in Written, n \in Nat :
           /\ h = file[k] /\ x.by = buf[k][1].by /\ x.n = buf[k][1].n /\ x.rl = k[1]
           /\ 1 \in DOMAIN buf[k]
           /\ DOMAIN content[h] = 1 .. n /\ DOMAIN content'[h] = 1 .. n + 1
           /\ \A i \in 1 .. n : content'[h][i] = content[h][i]
           /\ content'[h][n + 1] = x
           /\ \A g \in Files : g # h => content'[g] = content[g]
    BY <1>2, WriteEntries
  <2>2. ASSUME NEW f \in Files, NEW g \in Files,
               NEW i \in DOMAIN content'[f], NEW j \in DOMAIN content'[g],
               content'[f][i].rl = content'[g][j].rl,
               content'[f][i].by = content'[g][j].by, Precedes(f, i, g, j)
        PROVE  content'[f][i].n < content'[g][j].n
    <3>0. f \in Nat /\ g \in Nat /\ h \in Nat
      BY NatSets
    <3>1. CASE f = h /\ i = n + 1
      <4>1. h < g /\ g # h
        BY <2>1, <2>2, <3>0, <3>1 DEF Precedes
      <4>2. /\ content'[g] = content[g] /\ j \in DOMAIN content[g]
            /\ content[g][j].rl = k[1] /\ content[g][j].by = buf[k][1].by
        BY <2>1, <2>2, <3>1, <4>1
      <4>3. ~(g <= file[k])
        BY <2>1, <3>0, <4>1
      <4>4. buf[k][1].n < content[g][j].n
        BY <1>0, <2>1, <4>2, <4>3 DEF FileChannel
      <4>. QED
        BY <2>1, <3>1, <4>2, <4>4
    <3>2. CASE g = h /\ j = n + 1 /\ ~(f = h /\ i = n + 1)
      <4>1. i \in DOMAIN content[f] /\ content'[f][i] = content[f][i]
        BY <2>1, <3>2
      <4>2. f <= file[k]
        BY <2>1, <2>2, <3>0, <3>2 DEF Precedes
      <4>3. content[f][i].n < buf[k][1].n
        BY <1>0, <2>1, <2>2, <3>2, <4>1, <4>2 DEF FileChannel
      <4>. QED
        BY <2>1, <3>2, <4>1, <4>3
    <3>3. CASE ~(g = h /\ j = n + 1) /\ ~(f = h /\ i = n + 1)
      <4>1. /\ i \in DOMAIN content[f] /\ content'[f][i] = content[f][i]
            /\ j \in DOMAIN content[g] /\ content'[g][j] = content[g][j]
        BY <2>1, <3>3
      <4>. QED
        BY <1>0, <2>2, <4>1 DEF ReadsInOrder
    <3>. QED
      BY <3>1, <3>2, <3>3
  <2>. QED
    BY <2>2 DEF ReadsInOrder, Precedes
<1>3. ASSUME NEW p \in Procs, Send(p) PROVE content' = content
  BY <1>3 DEF Send
<1>. QED
  BY <1>1, <1>2, <1>3, NothingMoves, NewEntries, WriteFailsEntries

LEMMA OnTheWayStep == IInv /\ [Next]_vars => OnTheWay'
<1>. SUFFICES ASSUME IInv, [Next]_vars PROVE OnTheWay'
  OBVIOUS
<1>0. /\ TypeOK /\ Typed /\ Calls /\ Rotators /\ Rising /\ Numbered /\ OnTheWay
      /\ CallTypes /\ RotatorTypes /\ OutTypes
  BY TypeParts DEF IInv, Placed
\* steps that leave channels and files alone
<1>1. ASSUME NEW q \in Procs, pc'[q] = "send" => pc[q] = "send" /\ to'[q] = to[q],
             pc'[q] = "send",
             \A l \in Loggers : buf'[l] = buf[l],
             \A l \in Loggers : writer[l] # "none" => file'[l] = file[l],
             content' = content
      PROVE  /\ \A m \in Loggers : m[1] = to'[q][1] /\ m[2] > to'[q][2] =>
                   \A i \in DOMAIN buf'[m] : buf'[m][i].by # q
             /\ \A f \in Files : f > file'[to'[q]] =>
                   \A i \in DOMAIN content'[f] :
                      content'[f][i].by # q \/ content'[f][i].rl # to'[q][1]
  <2>1. to[q] \in Loggers /\ writer[to[q]] # "none"
    BY <1>0, <1>1 DEF Calls, CallTypes
  <2>. QED
    BY <1>0, <1>1, <2>1 DEF OnTheWay
<1>2. ASSUME \A q \in Procs : pc'[q] = "send" => pc[q] = "send" /\ to'[q] = to[q],
             \A l \in Loggers : buf'[l] = buf[l],
             \A l \in Loggers : writer[l] # "none" => file'[l] = file[l],
             content' = content
      PROVE  OnTheWay'
  BY <1>1, <1>2 DEF OnTheWay
<1>3. ASSUME NEW p \in Procs, Output(p) PROVE OnTheWay'
  <2>1. UNCHANGED <<buf, file, content>> /\ pc[p] = "output" /\ using[p] \in Rls
    BY <1>0, <1>3, Taken DEF Output, Calls, outVars
  <2>2. CASE UNCHANGED <<pc, to>>
    BY <1>2, <2>1, <2>2
  <2>3. CASE /\ to' = [to EXCEPT ![p] = Current(using[p])]
             /\ pc' = [pc EXCEPT ![p] = "send"]
    <3>1. PICK r \in Rls : r = using[p]
      BY <2>1
    <3>2. PICK l \in Loggers : l = Current(r)
      BY <1>0, GensOf
    <3>3. \A q \in Procs : /\ to'[q] = IF q = p THEN l ELSE to[q]
                           /\ pc'[q] = IF q = p THEN "send" ELSE pc[q]
      BY <1>0, <2>3, <3>1, <3>2 DEF CallTypes
    <3>4. l[1] = r /\ l[2] = gen[r] /\ gen[r] \in Nat
      BY <1>0, <3>2, GensOf DEF Current
    <3>5. ASSUME NEW m \in Loggers, m[1] = r, m[2] > gen[r] PROVE buf[m] = <<>>
      BY <1>0, <3>5, LoggerFacts DEF Rotators
    <3>6. ASSUME NEW f \in Files, f > file[l], NEW i \in DOMAIN content[f],
                 content[f][i].rl = r
          PROVE  FALSE
      <4>1. Known(content[f][i], f)
        BY <1>0 DEF Numbered
      <4>2. PICK g \in 0 .. gen[r] : file[<<r, g>>] = f
        BY <3>6, <4>1 DEF Known
      <4>3. f \in Nat /\ file[l] \in Nat /\ g \in Nat
        <5>1. file[l] \in Files
          BY <1>0 DEF OutTypes
        <5>2. g \in Nat
          BY <3>4
        <5>. QED
          BY <5>1, <5>2, NatSets
      <4>4. CASE g = gen[r]
        BY <3>2, <3>6, <4>2, <4>3, <4>4 DEF Current
      <4>5. CASE g < gen[r]
        <5>1. file[<<r, g>>] < file[<<r, gen[r]>>]
          <6>1. gen[r] \in 0 .. gen[r] /\ RisingAt(r)
            BY <1>0, GensOf DEF Rising
          <6>. QED
            BY <4>5, <6>1 DEF RisingAt
        <5>. QED
          BY <3>2, <3>6, <4>2, <4>3, <5>1 DEF Current
      <4>. QED
        BY <3>4, <4>3, <4>4, <4>5
    <3>7. ASSUME NEW q \in Procs, pc'[q] = "send"
          PROVE  /\ \A m \in Loggers : m[1] = to'[q][1] /\ m[2] > to'[q][2] =>
                       \A i \in DOMAIN buf'[m] : buf'[m][i].by # q
                 /\ \A f \in Files : f > file'[to'[q]] =>
                       \A i \in DOMAIN content'[f] :
                          content'[f][i].by # q \/ content'[f][i].rl # to'[q][1]
      <4>1. CASE q # p
        BY <1>1, <2>1, <3>3, <3>7, <4>1
      <4>2. CASE q = p
        BY <2>1, <3>3, <3>4, <3>5, <3>6, <4>2
      <4>. QED
        BY <4>1, <4>2
    <3>. QED
      BY <3>7 DEF OnTheWay
  <2>. QED
    BY <1>3, <2>2, <2>3 DEF Output, At
<1>4. ASSUME NEW p \in Procs, Send(p) PROVE OnTheWay'
  <2>1. PICK k \in Loggers, x \in Queued, n \in Nat :
           /\ k = to[p] /\ x.by = p
           /\ DOMAIN buf[k] = 1 .. n /\ DOMAIN buf'[k] = 1 .. n + 1
           /\ \A i \in 1 .. n : buf'[k][i] = buf[k][i]
           /\ buf'[k][n + 1] = x
           /\ \A l \in Loggers : l # k => buf'[l] = buf[l]
           /\ pc' = [pc EXCEPT ![p] = "idle"] /\ to' = [to EXCEPT ![p] = <<1, 0>>]
           /\ UNCHANGED <<file, content>>
    BY <1>4, SendEntries
  <2>2. ASSUME NEW q \in Procs, pc'[q] = "send"
        PROVE  q # p /\ pc[q] = "send" /\ to'[q] = to[q]
    BY <1>0, <2>1, <2>2 DEF CallTypes
  <2>3. ASSUME NEW q \in Procs, q # p, NEW m \in Loggers, NEW i \in DOMAIN buf'[m],
               buf'[m][i].by = q
        PROVE  i \in DOMAIN buf[m] /\ buf[m][i].by = q
    BY <2>1, <2>3
  <2>. QED
    BY <1>0, <2>1, <2>2, <2>3 DEF OnTheWay
<1>5. ASSUME NEW k \in Loggers, Write(k) PROVE OnTheWay'
  <2>1. PICK h \in Files, x \in Written, n \in Nat :
           /\ h = file[k] /\ x.by = buf[k][1].by /\ x.rl = k[1]
           /\ 1 \in DOMAIN buf[k] /\ writer[k] # "none"
           /\ \A i \in DOMAIN buf'[k] : i + 1 \in DOMAIN buf[k] /\ buf'[k][i] = buf[k][i + 1]
           /\ \A m \in Loggers : m # k => buf'[m] = buf[m]
           /\ DOMAIN content[h] = 1 .. n /\ DOMAIN content'[h] = 1 .. n + 1
           /\ \A i \in 1 .. n : content'[h][i] = content[h][i]
           /\ content'[h][n + 1] = x
           /\ \A g \in Files : g # h => content'[g] = content[g]
           /\ UNCHANGED <<file, procVars>>
    BY <1>5, WriteEntries
  <2>2. UNCHANGED <<pc, to>>
    BY <2>1 DEF procVars
  <2>3. ASSUME NEW q \in Procs, pc[q] = "send",
               NEW m \in Loggers, m[1] = to[q][1], m[2] > to[q][2],
               NEW i \in DOMAIN buf'[m]
        PROVE  buf'[m][i].by # q
    <3>1. \E s \in DOMAIN buf[m] : buf'[m][i] = buf[m][s]
      BY <2>1
    <3>. QED
      BY <1>0, <2>3, <3>1 DEF OnTheWay
  <2>4. ASSUME NEW q \in Procs, pc[q] = "send", NEW f \in Files, f > file[to[q]],
               NEW i \in DOMAIN content'[f],
               content'[f][i].by = q, content'[f][i].rl = to[q][1]
        PROVE  FALSE
    <3>1. CASE f = h /\ i = n + 1
      <4>1. /\ to[q] \in Loggers /\ writer[to[q]] # "none"
            /\ k[1] = to[q][1] /\ buf[k][1].by = q
        BY <1>0, <2>1, <2>4, <3>1 DEF Calls, CallTypes
      <4>2. ~(k[2] > to[q][2])
        BY <1>0, <2>1, <2>4, <4>1 DEF OnTheWay
      <4>3. /\ file[k] \in Nat /\ file[to[q]] \in Nat
            /\ k[2] \in Nat /\ to[q][2] \in Nat
            /\ k[2] < to[q][2] => file[k] < file[to[q]]
            /\ k[2] = to[q][2] => k = to[q]
        BY <1>0, <2>1, <4>1, FilesRise
      <4>. QED
        BY <2>1, <2>4, <3>1, <4>2, <4>3
    <3>2. CASE ~(f = h /\ i = n + 1)
      <4>1. i \in DOMAIN content[f] /\ content'[f][i] = content[f][i]
        BY <2>1, <3>2
      <4>. QED
        BY <1>0, <2>4, <4>1 DEF OnTheWay
    <3>. QED
      BY <3>1, <3>2
  <2>. QED
    BY <2>1, <2>2, <2>3, <2>4 DEF OnTheWay
<1>6. CASE (\E p \in Procs : Make(p)) \/ (\E r \in Rls : SwapNew(r))
  <2>1. PICK m \in Loggers :
           /\ writer[m] = "none" /\ \A l \in Loggers : buf'[l] = buf[l]
           /\ \A l \in Loggers : l # m => file'[l] = file[l]
           /\ content' = content
           /\ \A q \in Procs : pc'[q] = "send" => pc[q] = "send" /\ to'[q] = to[q]
    BY <1>6, NewEntries
  <2>. QED
    BY <1>2, <2>1
<1>7. ASSUME NEW p \in Procs,
             InitCall(p) \/ InitCheck(p) \/ CloseReceived(p) \/ MakeFails(p)
      PROVE  OnTheWay'
  BY <1>0, <1>2, <1>7 DEF InitCall, InitCheck, CloseReceived, MakeFails, At,
     procVars, outVars, CallTypes
<1>8. ASSUME NEW p \in Procs, TakeMade(p) \/ Announce(p) PROVE OnTheWay'
  BY <1>0, <1>2, <1>8 DEF TakeMade, Announce, Take, At, outVars, CallTypes
<1>9. ASSUME NEW p \in Procs, NEW k \in Kinds, LogCall(p, k) PROVE OnTheWay'
  BY <1>0, <1>2, <1>9 DEF LogCall, Take, At, outVars, CallTypes
<1>10. ASSUME NEW r \in Rls,
              StatSmall(r) \/ StatReached(r) \/ SwapTell(r) \/ EndTell(r)
       PROVE  OnTheWay'
  BY <1>2, <1>10 DEF StatSmall, StatReached, SwapTell, EndTell, procVars, outVars
<1>11. ASSUME NEW l \in Loggers, WriterEnd(l) PROVE OnTheWay'
  BY <1>2, <1>11 DEF WriterEnd, procVars
<1>12. ASSUME UNCHANGED vars PROVE OnTheWay'
  BY <1>2, <1>12 DEF vars, procVars, outVars
<1>13. ASSUME NEW k \in Loggers, WriteFails(k) PROVE OnTheWay'
  <2>1. /\ \A i \in DOMAIN buf'[k] : i + 1 \in DOMAIN buf[k] /\ buf'[k][i] = buf[k][i + 1]
        /\ \A m \in Loggers : m # k => buf'[m] = buf[m]
        /\ UNCHANGED <<file, content, pc, to>>
    BY <1>13, WriteFailsEntries DEF procVars
  <2>2. ASSUME NEW q \in Procs, pc[q] = "send",
               NEW m \in Loggers, m[1] = to[q][1], m[2] > to[q][2],
               NEW i \in DOMAIN buf'[m]
        PROVE  buf'[m][i].by # q
    <3>1. \E s \in DOMAIN buf[m] : buf'[m][i] = buf[m][s]
      BY <2>1
    <3>. QED
      BY <1>0, <2>2, <3>1 DEF OnTheWay
  <2>. QED
    BY <1>0, <2>1, <2>2 DEF OnTheWay
<1>. QED
  BY <1>3, <1>4, <1>5, <1>6, <1>7, <1>8, <1>9, <1>10, <1>11, <1>12, <1>13
     DEF Next, InCall, LorateStep, WriterStep

-----------------------------------------------------------------------------
LEMMA InductiveInv == IInv /\ [Next]_vars => IInv'
<1>. SUFFICES ASSUME IInv, [Next]_vars PROVE IInv'
  OBVIOUS
<1>1. TypeOK /\ Typed /\ Calls /\ Rotators /\ Enough
  BY DEF IInv
<1>2. TypeOK' /\ Typed'
  BY <1>1, CallTypesStep, RotatorTypesStep, OutTypesStep, TypeParts
<1>3. Placed'
  BY ChannelsStep, FileChannelStep, ReadsInOrderStep, OnTheWayStep DEF Placed
<1>. QED
  BY <1>2, <1>3, CallsStep, RotatorsStep, EnoughStep, KeptStep, RisingStep,
     NumberedStep DEF IInv

LEMMA Invariant == Spec => []IInv
  BY InitInv, InductiveInv, PTL DEF Spec

(***************************************************************************)
(* The variables have their types: in particular no step ever needs more   *)
(* rotate loggers or files than the ranges of the model hold.              *)
(***************************************************************************)
THEOREM TypeCorrect == Spec => []TypeOK
<1>1. IInv => TypeOK
  BY DEF IInv
<1>. QED
  BY <1>1, Invariant, PTL

LEMMA AtMostOne ==
    ASSUME NEW n \in Nat, NEW S \in SUBSET (1 .. n), \A i, j \in S : i = j
    PROVE  Cardinality(S) \in Nat /\ Cardinality(S) <= 1 /\ (S = {} => Cardinality(S) = 0)
<1>1. CASE S = {}
  BY <1>1, FS_EmptySet
<1>2. CASE S # {}
  <2>1. PICK i \in S : TRUE
    BY <1>2
  <2>2. S = {i}
    BY <2>1
  <2>3. Cardinality({i}) = 1
    BY FS_Singleton
  <2>. QED
    BY <1>2, <2>2, <2>3
<1>. QED
  BY <1>1, <1>2

LEMMA LossBounded == IInv => LossBound
<1>. SUFFICES ASSUME IInv, NEW l \in Loggers, writer[l] = "gone"
              PROVE  /\ QueuedIsWritten(l)
                     /\ \A p \in Procs : Cardinality(Lost(p, l)) + Late(p, l) <= 1
  BY DEF LossBound
<1>1. KeptAt(l) /\ TypeOK /\ Typed
  BY DEF IInv, Kept
<1>2. \A i \in DOMAIN buf[l] : ~buf[l][i].early
  BY <1>1 DEF KeptAt
<1>3. PICK n \in Nat : DOMAIN buf[l] = 1 .. n
  BY <1>1, QueueFacts DEF Typed
<1>4. ASSUME NEW p \in Procs PROVE Cardinality(Lost(p, l)) + Late(p, l) <= 1
  <2>1. Lost(p, l) \in SUBSET (1 .. n) /\ \A i, j \in Lost(p, l) : i = j
    BY <1>1, <1>2, <1>3 DEF Lost, KeptAt
  <2>2. /\ Cardinality(Lost(p, l)) \in Nat /\ Cardinality(Lost(p, l)) <= 1
        /\ Lost(p, l) = {} => Cardinality(Lost(p, l)) = 0
    BY <2>1, AtMostOne
  <2>3. CASE pc[p] = "send" /\ to[p] = l
    <3>1. Lost(p, l) = {}
      BY <1>1, <1>2, <2>3 DEF Lost, KeptAt, Coming
    <3>. QED
      BY <2>2, <2>3, <3>1 DEF Late
  <2>4. CASE ~(pc[p] = "send" /\ to[p] = l)
    BY <2>2, <2>4 DEF Late
  <2>. QED
    BY <2>3, <2>4
<1>. QED
  BY <1>2, <1>4 DEF QueuedIsWritten

(***************************************************************************)
(* What rotation, or closing, costs: once the goroutine of a Logger has    *)
(* returned, all that is left in its channel, or on its way there, is one  *)
(* line of each goroutine, and none that was queued before it was told.    *)
(***************************************************************************)
THEOREM LossesBounded == Spec => []LossBound
  BY LossBounded, Invariant, PTL

(***************************************************************************)
(* The files of a rotate logger, read in the order of their numbers, have  *)
(* the lines of each goroutine in the order it logged them, although two   *)
(* Loggers write at a time.                                                *)
(***************************************************************************)
THEOREM ReadInOrder == Spec => []ReadsInOrder
<1>1. IInv => ReadsInOrder
  BY DEF IInv, Placed
<1>. QED
  BY <1>1, Invariant, PTL
=============================================================================
