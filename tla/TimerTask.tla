------------------------------ MODULE TimerTask ------------------------------
(***************************************************************************)
(* The timer tasks of task/timer_task.go and timer_task_handle.go.  Some   *)
(* goroutines call TimerTaskServe; the first call runs a task of every     *)
(* registered type at once and starts a loop for the type, which at each   *)
(* tick runs another one -- unless the type is a singleton with a task     *)
(* still in the pool.  A task is run by two goroutines: the handler's, and *)
(* the one that waits for it and takes the task out of the pool.           *)
(*                                                                         *)
(* Registering and taking a tick each hold a mutex for one step; serving   *)
(* holds timerHandlePoolMu from the first type to the last.                *)
(***************************************************************************)
EXTENDS Integers, FiniteSets

CONSTANTS
    Types,      \* the types of timer task
    Servers,    \* goroutines that call TimerTaskServe
    Slots,      \* bound: tasks of one type at a time
    TimersProtected \* panicProtection

ASSUME TimerAssumption == TimersProtected \in BOOLEAN /\ IsFiniteSet(Types)

Unset == "unset"
Handle == {"singleton", "shared"}   \* a timerTaskHandle

VARIABLES
    alive,      \* the process has not panicked
    handles,    \* timerHandlePool
    server,     \* where each caller of TimerTaskServe is
    once,       \* timerTaskServeOnce: "new", "running", "done"
    toServe,    \* types the range in timerTaskServe has still to come to
    loops,      \* the loops of each type: how many, with which handle
    ticked,     \* a tick waits in the Ticker's channel, which holds one
    loop,       \* where the loop of a type is
    timerPool,  \* timerTaskPool: the tasks in it, as <<type, slot>>
    task        \* where the handler of each task is

timerVars == <<alive, handles, server, once, toServe, loops, ticked, loop,
               timerPool, task>>
serveVars == <<server, once, toServe>>
loopVars  == <<loops, ticked, loop>>
timerTaskVars  == <<timerPool, task>>

TimerTasks == Types \X Slots
TypeOf(t) == t[1]
HandleOf(ty) == loops[ty].handle

TimerInit ==
    /\ alive = TRUE
    /\ handles = [ty \in Types |-> Unset]
    /\ server = [s \in Servers |-> "out"]
    /\ once = "new" /\ toServe = {}
    /\ loops = [ty \in Types |-> [count |-> 0, handle |-> Unset]]
    /\ ticked = [ty \in Types |-> FALSE]
    /\ loop = [ty \in Types |-> "wait"]
    /\ timerPool = {}
    /\ task = [t \in TimerTasks |-> "none"]

-----------------------------------------------------------------------------
\* RegisterTimerTaskHandle, before or after the loops are started
Register(ty, h) ==
    /\ once # "running"
    /\ handles[ty] # h
    /\ handles' = [handles EXCEPT ![ty] = h]
    /\ UNCHANGED <<alive, serveVars, loopVars, timerTaskVars>>

\* newTimerTask and go task.Run()
Start(ty) ==
    \E i \in Slots :
       /\ task[<<ty, i>>] = "none" /\ <<ty, i>> \notin timerPool
       /\ timerPool' = timerPool \cup {<<ty, i>>}
       /\ task' = [task EXCEPT ![<<ty, i>>] = "start"]

-----------------------------------------------------------------------------
Once == once = "new"

\* TimerTaskServe: a caller that is not the first waits for the first one
ServeCall(s) ==
    /\ server[s] = "out"
    /\ \/ /\ Once
          /\ once' = "running"
          /\ toServe' = {ty \in Types : handles[ty] # Unset}
          /\ server' = [server EXCEPT ![s] = "in"]
       \/ /\ once = "done"
          /\ server' = [server EXCEPT ![s] = "returned"]
          /\ UNCHANGED <<once, toServe>>
    /\ UNCHANGED <<alive, handles, loopVars, timerTaskVars>>

\* the body of the range in timerTaskServe, for one type
ServeType(s, ty) ==
    /\ server[s] = "in" /\ ty \in toServe
    /\ Start(ty)
    /\ loops' = [loops EXCEPT ![ty] = [count |-> @.count + 1,
                                       handle |-> handles[ty]]]
    /\ toServe' = toServe \ {ty}
    /\ UNCHANGED <<alive, handles, server, once, ticked, loop>>

ServeEnd(s) ==
    /\ server[s] = "in" /\ toServe = {}
    /\ once' = "done"
    /\ server' = [server EXCEPT ![s] = "returned"]
    /\ UNCHANGED <<alive, handles, toServe, loopVars, timerTaskVars>>

-----------------------------------------------------------------------------
Tick(ty) ==
    /\ loops[ty].count > 0 /\ ~ticked[ty]
    /\ ticked' = [ticked EXCEPT ![ty] = TRUE]
    /\ UNCHANGED <<alive, handles, serveVars, loops, loop, timerTaskVars>>

TicksTaken(ty) == ticked' = [ticked EXCEPT ![ty] = FALSE]

IsRunningFirst(ty) ==   \* mutant: gives up at the first task of another type
    HandleOf(ty) = "singleton" /\ \A t \in timerPool : TypeOf(t) = ty
\* a task of the type is in the pool and the type is a singleton
IsRunning(ty) ==
    HandleOf(ty) = "singleton" /\ \E t \in timerPool : TypeOf(t) = ty

\* runTimerTask takes a tick and looks into the pool under its mutex
LoopCheck(ty) ==
    /\ loop[ty] = "wait" /\ ticked[ty]
    /\ TicksTaken(ty)
    /\ loop' = [loop EXCEPT ![ty] = IF IsRunning(ty) THEN "wait" ELSE "create"]
    /\ UNCHANGED <<alive, handles, serveVars, loops, timerTaskVars>>

\* newTimerTask takes the mutex anew
LoopCreate(ty) ==
    /\ loop[ty] = "create"
    /\ Start(ty)
    /\ loop' = [loop EXCEPT ![ty] = "wait"]
    /\ UNCHANGED <<alive, handles, serveVars, loops, ticked>>

-----------------------------------------------------------------------------
TaskAt(t, l) == task' = [task EXCEPT ![t] = l]

\* GetTaskFuncName panics in the goroutine of task.Run, where nothing
\* recovers: the handler's type, which is open here, is not a func
TimerRunPanics(t) ==
    /\ task[t] = "start"
    /\ alive' = FALSE
    /\ UNCHANGED <<handles, serveVars, loopVars, timerTaskVars>>

TaskServe(t) ==
    /\ task[t] = "start"
    /\ TaskAt(t, "serve")
    /\ UNCHANGED <<alive, handles, serveVars, loopVars, timerPool>>

\* ServeTimer returns, and the goroutine goes to send isFinished
TaskEnd(t) ==
    /\ task[t] = "serve"
    /\ TaskAt(t, "finish")
    /\ UNCHANGED <<alive, handles, serveVars, loopVars, timerPool>>

AfterPanicNothing == "none"     \* mutant: the panic skips isFinished
AfterPanic == "finish"

TaskPanic(t) ==
    /\ task[t] = "serve"
    /\ IF TimersProtected THEN TaskAt(t, AfterPanic) /\ UNCHANGED alive
                    ELSE alive' = FALSE /\ UNCHANGED task
    /\ UNCHANGED <<handles, serveVars, loopVars, timerPool>>

\* Run has received isFinished
TaskFinish(t) ==
    /\ task[t] = "finish"
    /\ TaskAt(t, "done")
    /\ UNCHANGED <<alive, handles, serveVars, loopVars, timerPool>>

\* and takes the task out of the pool
TaskDelete(t) ==
    /\ task[t] = "done"
    /\ timerPool' = timerPool \ {t}
    /\ TaskAt(t, "none")
    /\ UNCHANGED <<alive, handles, serveVars, loopVars>>

-----------------------------------------------------------------------------
ServeStep(s) == ServeEnd(s) \/ \E ty \in Types : ServeType(s, ty)
LoopStep(ty) == LoopCheck(ty) \/ LoopCreate(ty)
TimerRunStep(t) == TaskServe(t) \/ TaskFinish(t) \/ TaskDelete(t)

TimerNext ==
    /\ alive
    /\ \/ \E ty \in Types, h \in Handle : Register(ty, h)
       \/ \E s \in Servers : ServeCall(s) \/ ServeStep(s)
       \/ \E ty \in Types : Tick(ty) \/ LoopStep(ty)
       \/ \E t \in TimerTasks : \/ TimerRunStep(t) \/ TimerRunPanics(t)
                                \/ TaskEnd(t) \/ TaskPanic(t)

TimerSpec == TimerInit /\ [][TimerNext]_timerVars

\* time passes and goroutines run; a handler need not return
TimerFairness ==
    /\ \A s \in Servers : WF_timerVars(alive /\ ServeStep(s))
    /\ \A ty \in Types : /\ WF_timerVars(alive /\ Tick(ty))
                        /\ WF_timerVars(alive /\ LoopStep(ty))
    /\ \A t \in TimerTasks : WF_timerVars(alive /\ TimerRunStep(t))

TimerFairSpec == TimerSpec /\ TimerFairness

-----------------------------------------------------------------------------
TimerTypeOK ==
    /\ alive \in BOOLEAN /\ once \in {"new", "running", "done"}
    /\ handles \in [Types -> Handle \cup {Unset}]
    /\ server \in [Servers -> {"out", "in", "returned"}]
    /\ toServe \subseteq Types
    /\ loops \in [Types -> [count : 0 .. 1, handle : Handle \cup {Unset}]]
    /\ ticked \in [Types -> BOOLEAN]
    /\ loop \in [Types -> {"wait", "create"}]
    /\ timerPool \subseteq TimerTasks
    /\ task \in [TimerTasks -> {"none", "start", "serve", "finish", "done"}]

(***************************************************************************)
(* Two tasks of a singleton type never overlap: not the one of a tick with *)
(* the one before it, nor with the one that serving starts at once, though *)
(* the pool is looked at and entered under two holds of the mutex: however *)
(* often serving is asked for, a type has one loop.  The pool holds the    *)
(* tasks that are running and no other.                                    *)
(***************************************************************************)
SingletonExclusive ==
    /\ timerPool = {t \in TimerTasks : task[t] # "none"}
    /\ \A ty \in Types : loops[ty].count <= 1
    /\ \A ty \in Types :
          HandleOf(ty) = "singleton" =>
              Cardinality({t \in timerPool : TypeOf(t) = ty}) <= 1

(***************************************************************************)
(* A timer does not die: a type that is served has a task in its handler   *)
(* again and again (or one for ever), unless the process panics.           *)
(***************************************************************************)
TimerAlive ==
    \A ty \in Types :
        loops[ty].count > 0 ~>
            ~alive \/ \E t \in TimerTasks : TypeOf(t) = ty /\ task[t] = "serve"
=============================================================================
