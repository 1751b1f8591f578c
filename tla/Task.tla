--------------------------------- MODULE Task ---------------------------------
(***************************************************************************)
(* The request tasks of task/tcp_task.go, ws_task.go, http_task.go and     *)
(* api_task.go.  A caller makes a task, which enters the pool of its kind, *)
(* and runs it: the handler gets a goroutine of its own, and Run waits on  *)
(* an unbuffered channel for the handler's answer (tcp, ws: the handler    *)
(* sends it, or closes the channel) or for its end (http, api: the         *)
(* goroutine says so), at most timeOut if there is one.  Handlers log      *)
(* through T_DEBUGF and its kin (task/task_common.go), which look the task *)
(* up by goroutine id; panics are caught by common/safe.go where it is     *)
(* used.                                                                   *)
(*                                                                         *)
(* Taking an id and entering the pool is one step here: nobody can tell    *)
(* the two apart.                                                          *)
(***************************************************************************)
EXTENDS Integers, FiniteSets

CONSTANTS
    MaxTasks,   \* bound: tasks made
    Kinds,      \* kinds of task made: "tcp", "ws", "http", "api"
    IdModulus,  \* ids wrap at this (2^32)
    Protected,  \* panicProtection, as InitWrapPanic set it
    MayPanic    \* may handlers panic?

Tasks  == 1 .. MaxTasks
NoTask == 0
Ids    == 0 .. IdModulus - 1

ASSUME TaskAssumption ==
    /\ MaxTasks \in Nat /\ IdModulus \in Nat \ {0}
    /\ Kinds \subseteq {"tcp", "ws", "http", "api"}
    /\ Protected \in BOOLEAN /\ MayPanic \in BOOLEAN

VARIABLES
    up,             \* the process has not panicked
    made,           \* tasks made so far
    kind, timed,    \* of each task: its kind; has it a timeOut?
    isFunc,         \* of each task: is its handler a func, or of another type?
    pool,           \* tcpTaskPool, wsTaskPool, httpTaskPool, apiTaskPool
    run,            \* where the caller is
    err, answered,  \* what Run has got
    handler,        \* where the handler's goroutine is
    closed,         \* the handler closed msgChan
    \* history, read by the properties and by no guard:
    clash,          \* tasks whose entry another one with the same id may take
    untagged        \* tasks whose handler logged without a tag

taskVars == <<made, kind, timed, isFunc>>
vars == <<up, taskVars, pool, run, err, answered, handler, closed, clash,
          untagged>>

Answers(t) == kind[t] \in {"tcp", "ws"}     \* the handler has msgChan
Live(t)    == run[t] \in {"new", "select", "delete"}
Held(t)    == Live(t) \/ run[t] = "panicked"   \* nobody has deleted it

Id(t) == t % IdModulus

Init ==
    /\ up = TRUE /\ made = 0
    /\ kind = [t \in Tasks |-> "none"]
    /\ timed = [t \in Tasks |-> FALSE]
    /\ isFunc = [t \in Tasks |-> FALSE]
    /\ pool = [k \in Kinds |-> [i \in Ids |-> NoTask]]
    /\ run = [t \in Tasks |-> "none"]
    /\ err = [t \in Tasks |-> "nil"]
    /\ answered = [t \in Tasks |-> FALSE]
    /\ handler = [t \in Tasks |-> "none"]
    /\ closed = [t \in Tasks |-> FALSE]
    /\ clash = {} /\ untagged = {}

RunAt(t, l)     == run' = [run EXCEPT ![t] = l]
HandlerAt(t, l) == handler' = [handler EXCEPT ![t] = l]

-----------------------------------------------------------------------------
\* NewTCPTask and the others, for a registered handler
New(k, hasTimeOut, func) ==
    LET t == made + 1
        users == {u \in Tasks : Held(u) /\ kind[u] = k /\ Id(u) = Id(t)}
    IN
    /\ t \in Tasks
    /\ made' = t
    /\ kind' = [kind EXCEPT ![t] = k]
    /\ timed' = [timed EXCEPT ![t] = hasTimeOut]
    /\ isFunc' = [isFunc EXCEPT ![t] = func]
    /\ pool' = [pool EXCEPT ![k][Id(t)] = t]
    /\ clash' = clash \cup users \cup {v \in {t} : \E u \in users : Live(u)}
    /\ RunAt(t, "new")
    /\ UNCHANGED <<up, err, answered, handler, closed, untagged>>

\* Run: GetTaskFuncName, then the goroutine is started, then the select
Run(t) ==
    /\ run[t] = "new" /\ isFunc[t]
    /\ RunAt(t, "select")
    /\ HandlerAt(t, "start")
    /\ UNCHANGED <<up, taskVars, pool, err, answered, closed, clash, untagged>>

\* GetTaskFuncName panics in Run's own goroutine: it has no code pointer to
\* take from a handler of another type, or no name behind it.  Whoever called
\* Run recovers (net/http does), or the process ends.
RunPanics(t) ==
    /\ run[t] = "new" /\ ~isFunc[t]
    /\ \/ RunAt(t, "panicked") /\ UNCHANGED up
       \/ up' = FALSE /\ UNCHANGED run
    /\ UNCHANGED <<taskVars, pool, err, answered, handler, closed, clash,
                   untagged>>

\* select receives the answer, or the word that the handler has ended
RunReceive(t) ==
    /\ run[t] = "select" /\ handler[t] = "sending"
    /\ answered' = [answered EXCEPT ![t] = TRUE]
    /\ RunAt(t, "delete")
    /\ HandlerAt(t, IF Answers(t) THEN "serve" ELSE "ended")
    /\ UNCHANGED <<up, taskVars, pool, err, closed, clash, untagged>>

ErrOfClosed == "task fail, close"

RunClosed(t) ==
    /\ run[t] = "select" /\ closed[t]
    /\ err' = [err EXCEPT ![t] = ErrOfClosed]
    /\ RunAt(t, "delete")
    /\ UNCHANGED <<up, taskVars, pool, answered, handler, closed, clash,
                   untagged>>

TimesOutAlways(t) == TRUE   \* mutant: time.After(0) for a task without one
TimesOut(t) == timed[t]

RunTimeOut(t) ==
    /\ run[t] = "select" /\ TimesOut(t)
    /\ err' = [err EXCEPT ![t] = "task time out"]
    /\ RunAt(t, "delete")
    /\ UNCHANGED <<up, taskVars, pool, answered, handler, closed, clash,
                   untagged>>

DeletedNot(t) == UNCHANGED pool     \* mutant: the entry stays
Deleted(t) == pool' = [pool EXCEPT ![kind[t]][Id(t)] = NoTask]

RunReturn(t) ==
    /\ run[t] = "delete"
    /\ Deleted(t)
    /\ RunAt(t, "returned")
    /\ UNCHANGED <<up, taskVars, err, answered, handler, closed, clash,
                   untagged>>

-----------------------------------------------------------------------------
\* the handler's goroutine

\* it knows its id from here on
HandlerStart(t) ==
    /\ handler[t] = "start"
    /\ HandlerAt(t, "serve")
    /\ UNCHANGED <<up, taskVars, pool, run, err, answered, closed, clash,
                   untagged>>

\* a tcp or ws handler sends an answer, and is held until Run takes it
HandlerSend(t) ==
    /\ handler[t] = "serve" /\ Answers(t) /\ ~closed[t]
    /\ HandlerAt(t, "sending")
    /\ UNCHANGED <<up, taskVars, pool, run, err, answered, closed, clash,
                   untagged>>

HandlerClose(t) ==
    /\ handler[t] = "serve" /\ Answers(t) /\ ~closed[t]
    /\ closed' = [closed EXCEPT ![t] = TRUE]
    /\ UNCHANGED <<up, taskVars, pool, run, err, answered, handler, clash,
                   untagged>>

\* mutant: isFinished only when nothing was recovered
AfterQuiet(t, panicked) ==
    IF Answers(t) \/ panicked THEN "ended" ELSE "sending"
\* what the goroutine does when the handler is over, or its panic caught
After(t, panicked) == IF Answers(t) THEN "ended" ELSE "sending"

HandlerReturn(t) ==
    /\ handler[t] = "serve"
    /\ HandlerAt(t, After(t, FALSE))
    /\ UNCHANGED <<up, taskVars, pool, run, err, answered, closed, clash,
                   untagged>>

\* ws and api handlers are run bare
Caught(t) == Protected /\ kind[t] \in {"tcp", "http"}

HandlerPanic(t) ==
    /\ handler[t] = "serve" /\ MayPanic
    /\ IF Caught(t) THEN HandlerAt(t, After(t, TRUE)) /\ UNCHANGED up
                    ELSE up' = FALSE /\ UNCHANGED handler
    /\ UNCHANGED <<taskVars, pool, run, err, answered, closed, clash,
                   untagged>>

SearchedTcp == {"tcp"}      \* mutant: returns after the first pool
\* GetTaskByGid searches the pools of tcp, timer and http tasks
Searched == {"tcp", "http"}

\* taskLog: with no task found, the format and so the message is empty
Log(t) ==
    /\ handler[t] = "serve"
    /\ kind[t] \in Searched => \A i \in Ids : pool[kind[t]][i] # t
    /\ untagged' = untagged \cup {t}
    /\ UNCHANGED <<up, taskVars, pool, run, err, answered, handler, closed,
                   clash>>

-----------------------------------------------------------------------------
RunStep(t) == RunReceive(t) \/ RunClosed(t) \/ RunTimeOut(t) \/ RunReturn(t)

Next ==
    /\ up
    /\ \/ \E k \in Kinds, timeOut, func \in BOOLEAN : New(k, timeOut, func)
       \/ \E t \in Tasks :
             \/ Run(t) \/ RunPanics(t) \/ RunStep(t)
             \/ HandlerStart(t) \/ HandlerSend(t) \/ HandlerClose(t)
             \/ HandlerReturn(t) \/ HandlerPanic(t) \/ Log(t)

Spec == Init /\ [][Next]_vars

\* Run and the goroutine's start go on by themselves; what a handler does,
\* and whether it ever returns, is up to it
Fairness ==
    \A t \in Tasks : /\ WF_vars(up /\ RunStep(t))
                     /\ WF_vars(up /\ HandlerStart(t))

FairSpec == Spec /\ Fairness

-----------------------------------------------------------------------------
TypeOK ==
    /\ up \in BOOLEAN /\ made \in 0 .. MaxTasks
    /\ kind \in [Tasks -> Kinds \cup {"none"}]
    /\ timed \in [Tasks -> BOOLEAN] /\ isFunc \in [Tasks -> BOOLEAN]
    /\ pool \in [Kinds -> [Ids -> Tasks \cup {NoTask}]]
    /\ run \in [Tasks -> {"none", "new", "panicked", "select", "delete",
                         "returned"}]
    /\ err \in [Tasks -> {"nil", "task fail, close", "task time out"}]
    /\ \A t \in Tasks : err[t] = "task time out" => timed[t]
    /\ answered \in [Tasks -> BOOLEAN] /\ closed \in [Tasks -> BOOLEAN]
    /\ handler \in [Tasks -> {"none", "start", "serve", "sending", "ended"}]
    /\ clash \subseteq Tasks /\ untagged \subseteq Tasks

(***************************************************************************)
(* The pools hold the tasks in use, each in the pool of its kind under its *)
(* id, and besides them only those that Run left behind when it panicked   *)
(* over a handler that is not a func: these stay for ever.  A task is      *)
(* missing only if another one got the same id meanwhile, ids being 32     *)
(* bits: it takes the entry, and of two in use the Run of either removes   *)
(* the entry of both.                                                      *)
(***************************************************************************)
PoolSound ==
    /\ \A k \in Kinds, i \in Ids :
          pool[k][i] # NoTask =>
              LET t == pool[k][i] IN kind[t] = k /\ Id(t) = i /\ Held(t)
    /\ \A t \in Tasks : Held(t) /\ t \notin clash => pool[kind[t]][Id(t)] = t

(***************************************************************************)
(* A Run that returns without an error has an answer, and the other way    *)
(* round.  A handler outlives its Run only if Run timed out, or if it had  *)
(* answered (or closed the channel) and went on.  It then has nobody to    *)
(* answer to: a handler that still sends is held for ever.                 *)
(***************************************************************************)
AnswerOrError ==
    \A t \in Tasks :
        run[t] \in {"delete", "returned"} => (answered[t] <=> err[t] = "nil")

OrphanCauses ==
    \A t \in Tasks :
        run[t] = "returned" /\ handler[t] \in {"start", "serve", "sending"} =>
            \/ timed[t] /\ err[t] = "task time out"
            \/ Answers(t) /\ (answered[t] \/ closed[t])

RunOutcome == AnswerOrError /\ OrphanCauses

(***************************************************************************)
(* A log line loses its tag, and with it its text, only when the task is a *)
(* ws or api task, when its Run is over, or when its id was taken.         *)
(***************************************************************************)
UntaggedCauses ==
    \A t \in untagged :
        kind[t] \in {"ws", "api"} \/ run[t] = "returned" \/ t \in clash

(***************************************************************************)
(* What the comment in taskLog says of every line: it names its task.  It  *)
(* is not so, for the reasons above.                                       *)
(***************************************************************************)
LinesTagged == untagged = {}

(***************************************************************************)
(* Run returns by the task's timeOut; without one it waits for as long as  *)
(* the handler goes on, and for ever when a tcp or ws handler ends, or     *)
(* panics and is caught, without an answer.  An http or api handler's end  *)
(* always ends Run.                                                        *)
(***************************************************************************)
Silent(t) ==
    /\ ~timed[t] /\ ~closed[t]
    /\ handler[t] = "serve" \/ (handler[t] = "ended" /\ Answers(t))
RunReturns ==
    \A t \in Tasks :
        run[t] = "select" ~> run[t] = "returned" \/ ~up \/ []Silent(t)
=============================================================================
