------------------------------ MODULE TaskProofs ------------------------------
(***************************************************************************)
(* Proofs about Task, for every number of tasks, every width of the ids    *)
(* and all kinds, and about TimerTask, for every number of types, of       *)
(* servers and of tasks at a time; with the protection on or off.          *)
(***************************************************************************)
EXTENDS Task, TimerTask, FiniteSetTheorems, TLAPS

(***************************************************************************)
(* Task's inductive invariant.  Fresh: a task that is not made has left no *)
(* trace.  ClashShared: a task that shares its pool entry with one in use  *)
(* has clashed, for the Run of that one may take the entry away.  Outcome: *)
(* a Run that waits has got nothing yet.  Orphans: OrphanCauses, from the    *)
(* moment Run has left its select.                                         *)
(***************************************************************************)
Fresh ==
    \A t \in Tasks :
        IF t > made
          THEN /\ kind[t] = "none" /\ run[t] = "none" /\ handler[t] = "none"
               /\ ~closed[t] /\ t \notin untagged /\ err[t] = "nil"
          ELSE /\ kind[t] \in Kinds /\ run[t] # "none"
               /\ run[t] \in {"new", "panicked"} => handler[t] = "none"

ClashShared ==
    \A t, u \in Tasks :
        Live(t) /\ Held(u) /\ kind[t] = kind[u] /\ Id(t) = Id(u) /\ t # u
            => u \in clash

Outcome ==
    \A t \in Tasks :
        /\ run[t] \in {"none", "new", "select"} => ~answered[t] /\ err[t] = "nil"
        /\ closed[t] => Answers(t)

Orphans ==
    \A t \in Tasks :
        run[t] \in {"delete", "returned"} =>
            \/ timed[t] /\ err[t] = "task time out"
            \/ Answers(t) /\ (answered[t] \/ closed[t])
            \/ handler[t] = "ended"

PoolInv == PoolSound /\ ClashShared

RunInv == Outcome /\ AnswerOrError /\ Orphans

IInv == TypeOK /\ Fresh /\ PoolInv /\ RunInv /\ UntaggedCauses

LEMMA IdType == \A t \in Tasks : Id(t) \in Ids
  BY TaskAssumption DEF Tasks, Id, Ids

LEMMA TaskNumbers ==
    /\ \A t \in Tasks : t \in Nat /\ t > 0 /\ t <= MaxTasks
    /\ NoTask = 0
    /\ "none" \notin Kinds /\ Kinds \subseteq {"tcp", "ws", "http", "api"}
  BY TaskAssumption DEF Tasks, NoTask

LEMMA InitInv == Init => IInv
<1>. SUFFICES ASSUME Init PROVE IInv
  OBVIOUS
<1>. USE TaskAssumption, TaskNumbers DEF Init
<1>1. TypeOK
  BY DEF TypeOK
<1>2. Fresh
  BY DEF Fresh
<1>3. PoolInv
  BY DEF PoolInv, PoolSound, ClashShared, Live, Held
<1>4. RunInv
  BY DEF RunInv, Outcome, AnswerOrError, Orphans
<1>5. UntaggedCauses
  BY DEF UntaggedCauses
<1>. QED
  BY <1>1, <1>2, <1>3, <1>4, <1>5 DEF IInv

-----------------------------------------------------------------------------
(* A step of a task: what each action changes, one disjunct for each.      *)

TaskStep(t) ==
    \/ Run(t) \/ RunPanics(t) \/ RunStep(t) \/ HandlerStart(t) \/ HandlerSend(t)
    \/ HandlerClose(t) \/ HandlerReturn(t) \/ HandlerPanic(t) \/ Log(t)

LEMMA StepCases ==
    [Next]_vars => \/ \E k \in Kinds, b, f \in BOOLEAN : New(k, b, f)
                   \/ \E t \in Tasks : TaskStep(t)
                   \/ UNCHANGED vars
  BY DEF Next, TaskStep

LEMMA TypeStep == TypeOK /\ Fresh /\ [Next]_vars => TypeOK'
<1>. SUFFICES ASSUME TypeOK, Fresh, [Next]_vars PROVE TypeOK'
  OBVIOUS
<1>. USE TaskAssumption, TaskNumbers, IdType
<1>1. ASSUME NEW k \in Kinds, NEW b \in BOOLEAN, NEW f \in BOOLEAN, New(k, b, f)
      PROVE  TypeOK'
  <2>. DEFINE t == made + 1
  <2>0. t \in Tasks /\ made \in 0 .. MaxTasks
    BY <1>1 DEF New, TypeOK
  <2>1. t \in Tasks /\ t \in 0 .. MaxTasks /\ t > made
    BY <2>0 DEF Tasks
  <2>2. err[t] = "nil" /\ err' = err /\ timed' = [timed EXCEPT ![t] = b]
        /\ isFunc' = [isFunc EXCEPT ![t] = f]
    BY <1>1, <2>1 DEF New, Fresh
  <2>3. made' = t /\ kind' = [kind EXCEPT ![t] = k]
        /\ pool' = [pool EXCEPT ![k][Id(t)] = t]
        /\ run' = [run EXCEPT ![t] = "new"]
        /\ UNCHANGED <<up, answered, handler, closed, untagged>>
    BY <1>1 DEF New, RunAt
  <2>4. clash' \subseteq Tasks
    BY <1>1, <2>1 DEF New, TypeOK
  <2>. HIDE DEF t
  <2>. QED
    BY <2>1, <2>2, <2>3, <2>4 DEF TypeOK
<1>2. ASSUME NEW t \in Tasks, Run(t) PROVE TypeOK'
  BY <1>2 DEF TypeOK, Run, RunAt, HandlerAt, taskVars
<1>3. ASSUME NEW t \in Tasks, RunReceive(t) PROVE TypeOK'
  BY <1>3 DEF TypeOK, RunReceive, RunAt, HandlerAt, taskVars
<1>4. ASSUME NEW t \in Tasks, RunClosed(t) PROVE TypeOK'
  BY <1>4 DEF TypeOK, RunClosed, RunAt, ErrOfClosed, taskVars
<1>5. ASSUME NEW t \in Tasks, RunTimeOut(t) PROVE TypeOK'
  BY <1>5 DEF TypeOK, RunTimeOut, RunAt, TimesOut, taskVars
<1>6. ASSUME NEW t \in Tasks, RunReturn(t) PROVE TypeOK'
  BY <1>6 DEF TypeOK, RunReturn, RunAt, Deleted, taskVars
<1>7. ASSUME NEW t \in Tasks, HandlerStart(t) PROVE TypeOK'
  BY <1>7 DEF TypeOK, HandlerStart, HandlerAt, taskVars
<1>8. ASSUME NEW t \in Tasks, HandlerSend(t) PROVE TypeOK'
  BY <1>8 DEF TypeOK, HandlerSend, HandlerAt, taskVars
<1>9. ASSUME NEW t \in Tasks, HandlerClose(t) PROVE TypeOK'
  BY <1>9 DEF TypeOK, HandlerClose, taskVars
<1>10. ASSUME NEW t \in Tasks, HandlerReturn(t) PROVE TypeOK'
  BY <1>10 DEF TypeOK, HandlerReturn, HandlerAt, After, taskVars
<1>11. ASSUME NEW t \in Tasks, HandlerPanic(t) PROVE TypeOK'
  <2>1. CASE Caught(t)
    <3>1. /\ handler' = [handler EXCEPT ![t] = After(t, TRUE)]
          /\ UNCHANGED <<up, taskVars, pool, run, err, answered, closed, clash,
                         untagged>>
      BY <1>11, <2>1 DEF HandlerPanic, HandlerAt
    <3>2. After(t, TRUE) \in {"sending", "ended"}
      BY DEF After
    <3>. QED
      BY <3>1, <3>2 DEF TypeOK, taskVars
  <2>2. CASE ~Caught(t)
    BY <1>11, <2>2 DEF TypeOK, HandlerPanic, taskVars
  <2>. QED
    BY <2>1, <2>2
<1>12. ASSUME NEW t \in Tasks, Log(t) PROVE TypeOK'
  BY <1>12 DEF TypeOK, Log, taskVars
<1>13. ASSUME NEW t \in Tasks, RunPanics(t) PROVE TypeOK'
  BY <1>13 DEF TypeOK, RunPanics, RunAt, taskVars
<1>14. CASE UNCHANGED vars
  BY <1>14 DEF TypeOK, vars, taskVars
<1>. QED
  BY <1>1, <1>2, <1>3, <1>4, <1>5, <1>6, <1>7, <1>8, <1>9, <1>10, <1>11,
     <1>12, <1>13, <1>14, StepCases
  DEF TaskStep, RunStep

LEMMA FreshStep == TypeOK /\ Fresh /\ [Next]_vars => Fresh'
<1>. SUFFICES ASSUME TypeOK, Fresh, [Next]_vars PROVE Fresh'
  OBVIOUS
<1>. USE TaskNumbers
<1>1. ASSUME NEW k \in Kinds, NEW b \in BOOLEAN, NEW f \in BOOLEAN, New(k, b, f)
      PROVE  Fresh'
  <2>. DEFINE t == made + 1
  <2>0. t \in Tasks /\ made' = t /\ made \in 0 .. MaxTasks
    BY <1>1 DEF New, TypeOK
  <2>1. t \in Tasks /\ made \in Nat /\ made' = t
    BY <2>0
  <2>2. kind' = [kind EXCEPT ![t] = k] /\ run' = [run EXCEPT ![t] = "new"]
        /\ UNCHANGED <<handler, closed, untagged, err>>
    BY <1>1 DEF New, RunAt
  <2>3. handler[t] = "none"
    BY <2>1 DEF Fresh
  <2>4. \A u \in Tasks : (u > t <=> u > made /\ u # t) /\ u \in Nat
    BY <2>1
  <2>. HIDE DEF t
  <2>. QED
    BY <2>1, <2>2, <2>3, <2>4 DEF TypeOK, Fresh
<1>2. ASSUME NEW t \in Tasks, Run(t) PROVE Fresh'
  BY <1>2 DEF TypeOK, Fresh, Run, RunAt, HandlerAt, taskVars
<1>3. ASSUME NEW t \in Tasks, RunReceive(t) PROVE Fresh'
  BY <1>3 DEF TypeOK, Fresh, RunReceive, RunAt, HandlerAt, taskVars
<1>4. ASSUME NEW t \in Tasks, RunClosed(t) PROVE Fresh'
  BY <1>4 DEF TypeOK, Fresh, RunClosed, RunAt, taskVars
<1>5. ASSUME NEW t \in Tasks, RunTimeOut(t) PROVE Fresh'
  BY <1>5 DEF TypeOK, Fresh, RunTimeOut, RunAt, taskVars
<1>6. ASSUME NEW t \in Tasks, RunReturn(t) PROVE Fresh'
  BY <1>6 DEF TypeOK, Fresh, RunReturn, RunAt, taskVars
<1>7. ASSUME NEW t \in Tasks, HandlerStart(t) PROVE Fresh'
  BY <1>7 DEF TypeOK, Fresh, HandlerStart, HandlerAt, taskVars
<1>8. ASSUME NEW t \in Tasks, HandlerSend(t) PROVE Fresh'
  BY <1>8 DEF TypeOK, Fresh, HandlerSend, HandlerAt, taskVars
<1>9. ASSUME NEW t \in Tasks, HandlerClose(t) PROVE Fresh'
  BY <1>9 DEF TypeOK, Fresh, HandlerClose, taskVars
<1>10. ASSUME NEW t \in Tasks, HandlerReturn(t) PROVE Fresh'
  BY <1>10 DEF TypeOK, Fresh, HandlerReturn, HandlerAt, taskVars
<1>11. ASSUME NEW t \in Tasks, HandlerPanic(t) PROVE Fresh'
  BY <1>11 DEF TypeOK, Fresh, HandlerPanic, HandlerAt, taskVars
<1>12. ASSUME NEW t \in Tasks, Log(t) PROVE Fresh'
  BY <1>12 DEF TypeOK, Fresh, Log, taskVars
<1>13. ASSUME NEW t \in Tasks, RunPanics(t) PROVE Fresh'
  BY <1>13 DEF TypeOK, Fresh, RunPanics, RunAt, taskVars
<1>14. CASE UNCHANGED vars
  BY <1>14 DEF Fresh, vars, taskVars
<1>. QED
  BY <1>1, <1>2, <1>3, <1>4, <1>5, <1>6, <1>7, <1>8, <1>9, <1>10, <1>11,
     <1>12, <1>13, <1>14, StepCases
  DEF TaskStep, RunStep

-----------------------------------------------------------------------------
(***************************************************************************)
(* The pools.  Only New and RunReturn touch them; every other step leaves  *)
(* them, and which tasks are in use, as they were.                         *)
(***************************************************************************)
LEMMA PoolEntry ==
    ASSUME TypeOK
    PROVE  \A l \in Kinds, i \in Ids : pool[l][i] # NoTask => pool[l][i] \in Tasks
<1>1. pool \in [Kinds -> [Ids -> Tasks \cup {NoTask}]]
  BY DEF TypeOK
<1>. QED
  BY <1>1

LiveNext(u) == run'[u] \in {"new", "select", "delete"}
HeldNext(u) == LiveNext(u) \/ run'[u] = "panicked"

LEMMA PoolFrame ==
    ASSUME TypeOK, NEW t \in Tasks, TaskStep(t), ~RunReturn(t)
    PROVE  /\ pool' = pool /\ kind' = kind /\ clash' = clash
           /\ \A u \in Tasks : HeldNext(u) = Held(u) /\ (LiveNext(u) => Live(u))
<1>1. pool' = pool /\ kind' = kind /\ clash' = clash
  BY DEF TaskStep, RunStep, Run, RunPanics, RunReceive, RunClosed, RunTimeOut,
         HandlerStart, HandlerSend, HandlerClose, HandlerReturn, HandlerPanic,
         Log, taskVars
<1>2. \/ run' = run
      \/ run[t] = "new" /\ run' = [run EXCEPT ![t] = "select"]
      \/ run[t] = "new" /\ run' = [run EXCEPT ![t] = "panicked"]
      \/ run[t] = "select" /\ run' = [run EXCEPT ![t] = "delete"]
  BY DEF TaskStep, RunStep, Run, RunPanics, RunReceive, RunClosed, RunTimeOut, RunAt,
         HandlerStart, HandlerSend, HandlerClose, HandlerReturn, HandlerPanic,
         Log
<1>3. \A u \in Tasks : HeldNext(u) = Held(u) /\ (LiveNext(u) => Live(u))
  <2>1. run \in [Tasks -> {"none", "new", "panicked", "select", "delete",
                         "returned"}]
    BY DEF TypeOK
  <2>2. \A u \in Tasks : /\ u # t => run'[u] = run[u]
                         /\ run'[t] = run[t] \/ (Live(t) /\ HeldNext(t))
    BY <1>2, <2>1 DEF Live, LiveNext, HeldNext
  <2>. QED
    BY <2>2 DEF Live, LiveNext, Held, HeldNext
<1>. QED
  BY <1>1, <1>3

LEMMA PoolNew ==
    ASSUME TypeOK, Fresh, PoolInv, NEW k \in Kinds, NEW b \in BOOLEAN,
           NEW f \in BOOLEAN, New(k, b, f)
    PROVE  PoolInv'
<1>. DEFINE t == made + 1
            users == {u \in Tasks : Held(u) /\ kind[u] = k /\ Id(u) = Id(t)}
<1>1. /\ t \in Tasks /\ Id(t) \in Ids /\ t # NoTask
      /\ kind' = [kind EXCEPT ![t] = k] /\ run' = [run EXCEPT ![t] = "new"]
      /\ pool' = [pool EXCEPT ![k][Id(t)] = t]
  BY IdType, TaskNumbers DEF New, RunAt
<1>2. clash' = clash \cup users \cup {v \in {t} : \E u \in users : Live(u)}
  BY DEF New
<1>3. t > made
  <2>1. made \in 0 .. MaxTasks
    BY DEF TypeOK
  <2>. QED
    BY <2>1, TaskAssumption
<1>4. run[t] = "none" /\ ~Live(t) /\ ~Held(t)
  BY <1>1, <1>3 DEF Fresh, Live, Held
<1>5. \A u \in Tasks : /\ u # t => /\ LiveNext(u) = Live(u)
                                     /\ HeldNext(u) = Held(u)
                                     /\ kind'[u] = kind[u]
                       /\ u = t => LiveNext(u) /\ HeldNext(u) /\ kind'[u] = k
  <2>1. /\ run \in [Tasks -> {"none", "new", "panicked", "select", "delete",
                         "returned"}]
        /\ kind \in [Tasks -> Kinds \cup {"none"}]
    BY DEF TypeOK
  <2>. HIDE DEF t
  <2>. QED
    BY <1>1, <2>1 DEF Live, LiveNext, Held, HeldNext
<1>6. users \subseteq clash' /\ clash \subseteq clash'
      /\ ((\E u \in users : Live(u)) => t \in clash')
  BY <1>2
<1>. HIDE DEF t
<1>7. \A l \in Kinds, i \in Ids :
          pool'[l][i] = IF l = k /\ i = Id(t) THEN t ELSE pool[l][i]
  <2>1. pool \in [Kinds -> [Ids -> Tasks \cup {NoTask}]]
    BY DEF TypeOK
  <2>. QED
    BY <1>1, <2>1
<1>8. PoolSound'
  <2>1. ASSUME NEW l \in Kinds, NEW i \in Ids, pool'[l][i] # NoTask
        PROVE  LET u == pool'[l][i]
               IN  kind'[u] = l /\ Id(u) = i /\ HeldNext(u)
    <3>1. CASE l = k /\ i = Id(t)
      BY <1>1, <1>5, <1>7, <3>1
    <3>2. CASE ~(l = k /\ i = Id(t))
      <4>1. pool'[l][i] = pool[l][i]
        BY <1>7, <3>2
      <4>2. LET u == pool[l][i] IN kind[u] = l /\ Id(u) = i /\ Held(u)
        BY <2>1, <4>1 DEF PoolInv, PoolSound
      <4>3. pool[l][i] \in Tasks
        BY <2>1, <4>1, PoolEntry
      <4>. QED
        BY <1>4, <1>5, <4>1, <4>2, <4>3
    <3>. QED
      BY <3>1, <3>2
  <2>2. ASSUME NEW u \in Tasks, HeldNext(u), u \notin clash'
        PROVE  pool'[kind'[u]][Id(u)] = u
    <3>1. CASE u = t
      BY <1>1, <1>5, <1>7, <3>1
    <3>2. CASE u # t
      <4>1. Held(u) /\ kind'[u] = kind[u] /\ u \notin clash /\ u \notin users
        BY <1>5, <1>6, <2>2, <3>2
      <4>2. kind[u] \in Kinds
        BY <4>1, TaskNumbers DEF Fresh, TypeOK, Live, Held
      <4>3. pool[kind[u]][Id(u)] = u
        BY <4>1 DEF PoolInv, PoolSound
      <4>4. ~(kind[u] = k /\ Id(u) = Id(t))
        BY <4>1
      <4>. QED
        BY <1>7, <4>1, <4>2, <4>3, <4>4, IdType
    <3>. QED
      BY <3>1, <3>2
  <2>. HIDE DEF users
  <2>. QED
    BY <2>1, <2>2 DEF PoolSound, Live, LiveNext, Held, HeldNext
<1>9. ClashShared'
  <2>. SUFFICES ASSUME NEW u \in Tasks, NEW v \in Tasks, LiveNext(u), HeldNext(v),
                       kind'[u] = kind'[v], Id(u) = Id(v), u # v
                PROVE  v \in clash'
    BY DEF ClashShared, Live, LiveNext, Held, HeldNext
  <2>1. CASE u = t
    <3>1. v \in users
      BY <1>5, <2>1
    <3>. QED
      BY <1>6, <2>1, <3>1
  <2>2. CASE v = t
    <3>1. u \in users /\ Live(u)
      BY <1>5, <2>2 DEF Held
    <3>. QED
      BY <1>6, <2>2, <3>1
  <2>3. CASE u # t /\ v # t
    <3>1. Live(u) /\ Held(v) /\ kind[u] = kind[v]
      BY <1>5, <2>3
    <3>2. v \in clash
      BY <3>1 DEF PoolInv, ClashShared
    <3>. QED
      BY <1>6, <3>2
  <2>. QED
    BY <2>1, <2>2, <2>3
<1>. QED
  BY <1>8, <1>9 DEF PoolInv

LEMMA PoolReturn ==
    ASSUME TypeOK, Fresh, PoolInv, NEW t \in Tasks, RunReturn(t)
    PROVE  PoolInv'
<1>1. /\ kind' = kind /\ clash' = clash /\ run[t] = "delete"
      /\ run' = [run EXCEPT ![t] = "returned"]
      /\ pool' = [pool EXCEPT ![kind[t]][Id(t)] = NoTask]
  BY DEF RunReturn, RunAt, Deleted, taskVars
<1>2. Live(t) /\ kind[t] \in Kinds
  BY <1>1, TaskNumbers DEF Fresh, TypeOK, Live, Held
<1>3. \A u \in Tasks : /\ LiveNext(u) <=> Live(u) /\ u # t
                       /\ HeldNext(u) <=> Held(u) /\ u # t
  BY <1>1, <1>2 DEF TypeOK, Live, LiveNext, Held, HeldNext
<1>4. \A l \in Kinds, i \in Ids :
          pool'[l][i] = IF l = kind[t] /\ i = Id(t) THEN NoTask ELSE pool[l][i]
  <2>1. pool \in [Kinds -> [Ids -> Tasks \cup {NoTask}]]
    BY DEF TypeOK
  <2>. QED
    BY <1>1, <1>2, <2>1, IdType
<1>5. PoolSound'
  <2>1. ASSUME NEW l \in Kinds, NEW i \in Ids, pool'[l][i] # NoTask
        PROVE  LET u == pool'[l][i]
               IN  kind'[u] = l /\ Id(u) = i /\ HeldNext(u)
    <3>1. ~(l = kind[t] /\ i = Id(t)) /\ pool'[l][i] = pool[l][i]
      BY <1>4, <2>1
    <3>2. LET u == pool[l][i] IN kind[u] = l /\ Id(u) = i /\ Held(u)
      BY <2>1, <3>1 DEF PoolInv, PoolSound
    <3>3. pool[l][i] \in Tasks
      BY <2>1, <3>1, PoolEntry
    <3>. QED
      BY <1>1, <1>3, <3>1, <3>2, <3>3
  <2>2. ASSUME NEW u \in Tasks, HeldNext(u), u \notin clash'
        PROVE  pool'[kind'[u]][Id(u)] = u
    <3>1. Held(u) /\ u # t /\ u \notin clash
      BY <1>1, <1>3, <2>2
    <3>2. ~(kind[u] = kind[t] /\ Id(u) = Id(t))
      BY <1>2, <3>1 DEF PoolInv, ClashShared
    <3>3. pool[kind[u]][Id(u)] = u
      BY <3>1 DEF PoolInv, PoolSound
    <3>4. kind[u] \in Kinds
      BY <3>1, TaskNumbers DEF Fresh, TypeOK, Live, Held
    <3>. QED
      BY <1>1, <1>4, <3>2, <3>3, <3>4, IdType
  <2>. QED
    BY <2>1, <2>2 DEF PoolSound, Live, LiveNext, Held, HeldNext
<1>6. ClashShared'
  BY <1>1, <1>3 DEF PoolInv, ClashShared, Live, LiveNext, Held, HeldNext
<1>. QED
  BY <1>5, <1>6 DEF PoolInv

LEMMA PoolStep == TypeOK /\ Fresh /\ PoolInv /\ [Next]_vars => PoolInv'
<1>. SUFFICES ASSUME TypeOK, Fresh, PoolInv, [Next]_vars PROVE PoolInv'
  OBVIOUS
<1>1. ASSUME NEW t \in Tasks, TaskStep(t), ~RunReturn(t) PROVE PoolInv'
  <2>1. /\ pool' = pool /\ kind' = kind /\ clash' = clash
        /\ \A u \in Tasks : HeldNext(u) = Held(u) /\ (LiveNext(u) => Live(u))
    BY <1>1, PoolFrame
  <2>2. \A l \in Kinds, i \in Ids : pool[l][i] # NoTask => pool[l][i] \in Tasks
    BY PoolEntry
  <2>3. PoolSound'
    BY <2>1, <2>2 DEF PoolInv, PoolSound, Live, LiveNext, Held, HeldNext
  <2>4. ClashShared'
    BY <2>1 DEF PoolInv, ClashShared, Live, LiveNext, Held, HeldNext
  <2>. QED
    BY <2>3, <2>4 DEF PoolInv
<1>2. CASE UNCHANGED vars
  BY <1>2 DEF PoolInv, PoolSound, ClashShared, Live, Held, vars, taskVars
<1>. QED
  BY <1>1, <1>2, StepCases, PoolNew, PoolReturn

-----------------------------------------------------------------------------
(* Answers, errors and orphans.                                            *)

LEMMA RunStepInv == TypeOK /\ Fresh /\ RunInv /\ [Next]_vars => RunInv'
<1>. SUFFICES ASSUME TypeOK, Fresh, RunInv, [Next]_vars PROVE RunInv'
  OBVIOUS
<1>1. ASSUME NEW k \in Kinds, NEW b \in BOOLEAN, NEW f \in BOOLEAN, New(k, b, f)
      PROVE  RunInv'
  <2>. DEFINE t == made + 1
  <2>1. /\ t \in Tasks /\ kind' = [kind EXCEPT ![t] = k]
        /\ timed' = [timed EXCEPT ![t] = b]
        /\ run' = [run EXCEPT ![t] = "new"]
        /\ UNCHANGED <<err, answered, handler, closed>>
    BY <1>1 DEF New, RunAt
  <2>2. made \in 0 .. MaxTasks
    BY DEF TypeOK
  <2>3. t > made
    BY <2>2, TaskAssumption
  <2>. HIDE DEF t
  <2>4. run[t] = "none" /\ ~closed[t]
    BY <2>1, <2>3 DEF Fresh
  <2>5. \A u \in Tasks : u # t => run'[u] = run[u] /\ kind'[u] = kind[u]
                                 /\ timed'[u] = timed[u]
    BY <2>1 DEF TypeOK
  <2>6. run'[t] = "new" /\ ~answered[t] /\ err[t] = "nil"
    BY <2>1, <2>4 DEF TypeOK, RunInv, Outcome
  <2>7. Outcome'
    BY <2>1, <2>4, <2>5, <2>6 DEF RunInv, Outcome, Answers
  <2>8. AnswerOrError'
    BY <2>1, <2>5, <2>6 DEF RunInv, AnswerOrError
  <2>9. Orphans'
    BY <2>1, <2>5, <2>6 DEF RunInv, Orphans, Answers
  <2>. QED
    BY <2>7, <2>8, <2>9 DEF RunInv
<1>. USE TaskNumbers DEF RunInv, Outcome, AnswerOrError, Orphans, Answers
<1>2. ASSUME NEW t \in Tasks, Run(t) PROVE RunInv'
  BY <1>2 DEF TypeOK, Run, RunAt, HandlerAt, taskVars
<1>3. ASSUME NEW t \in Tasks, RunReceive(t) PROVE RunInv'
  BY <1>3 DEF TypeOK, RunReceive, RunAt, HandlerAt, taskVars
<1>4. ASSUME NEW t \in Tasks, RunClosed(t) PROVE RunInv'
  BY <1>4 DEF TypeOK, RunClosed, RunAt, ErrOfClosed, taskVars
<1>5. ASSUME NEW t \in Tasks, RunTimeOut(t) PROVE RunInv'
  BY <1>5 DEF TypeOK, RunTimeOut, RunAt, TimesOut, taskVars
<1>6. ASSUME NEW t \in Tasks, RunReturn(t) PROVE RunInv'
  <2>1. /\ run[t] = "delete"
        /\ \A u \in Tasks : run'[u] = IF u = t THEN "returned" ELSE run[u]
    BY <1>6 DEF TypeOK, RunReturn, RunAt
  <2>2. UNCHANGED <<kind, timed, err, answered, handler, closed>>
    BY <1>6 DEF RunReturn, taskVars
  <2>. QED
    BY <2>1, <2>2
<1>7. ASSUME NEW t \in Tasks, HandlerStart(t) PROVE RunInv'
  BY <1>7 DEF TypeOK, HandlerStart, HandlerAt, taskVars
<1>8. ASSUME NEW t \in Tasks, HandlerSend(t) PROVE RunInv'
  BY <1>8 DEF TypeOK, HandlerSend, HandlerAt, taskVars
<1>9. ASSUME NEW t \in Tasks, HandlerClose(t) PROVE RunInv'
  BY <1>9 DEF TypeOK, HandlerClose, taskVars
<1>10. ASSUME NEW t \in Tasks, HandlerReturn(t) PROVE RunInv'
  BY <1>10 DEF TypeOK, HandlerReturn, HandlerAt, After, taskVars
<1>11. ASSUME NEW t \in Tasks, HandlerPanic(t) PROVE RunInv'
  BY <1>11 DEF TypeOK, HandlerPanic, HandlerAt, After, taskVars
<1>12. ASSUME NEW t \in Tasks, Log(t) PROVE RunInv'
  BY <1>12 DEF TypeOK, Log, taskVars
<1>13. ASSUME NEW t \in Tasks, RunPanics(t) PROVE RunInv'
  <2>1. \A u \in Tasks : run'[u] = run[u] \/ run'[u] = "panicked"
    BY <1>13 DEF TypeOK, RunPanics, RunAt
  <2>2. UNCHANGED <<kind, timed, err, answered, handler, closed>>
    BY <1>13 DEF RunPanics, taskVars
  <2>. QED
    BY <2>1, <2>2
<1>14. CASE UNCHANGED vars
  BY <1>14 DEF TypeOK, vars, taskVars
<1>. HIDE DEF RunInv
<1>. QED
  BY <1>1, <1>2, <1>3, <1>4, <1>5, <1>6, <1>7, <1>8, <1>9, <1>10, <1>11,
     <1>12, <1>13, <1>14, StepCases
  DEF TaskStep, RunStep

(* Lines without a tag.                                                    *)

LEMMA UntaggedStep ==
    TypeOK /\ Fresh /\ PoolInv /\ UntaggedCauses /\ [Next]_vars => UntaggedCauses'
<1>. SUFFICES ASSUME TypeOK, Fresh, PoolInv, UntaggedCauses, [Next]_vars
              PROVE  UntaggedCauses'
  OBVIOUS
<1>1. ASSUME NEW k \in Kinds, NEW b \in BOOLEAN, NEW f \in BOOLEAN, New(k, b, f)
      PROVE  UntaggedCauses'
  <2>. DEFINE t == made + 1
  <2>1. /\ t \in Tasks /\ kind' = [kind EXCEPT ![t] = k]
        /\ run' = [run EXCEPT ![t] = "new"] /\ untagged' = untagged
        /\ clash \subseteq clash'
    BY <1>1 DEF New, RunAt
  <2>2. made \in 0 .. MaxTasks /\ untagged \subseteq Tasks
    BY DEF TypeOK
  <2>3. t > made
    BY <2>2, TaskAssumption
  <2>. HIDE DEF t
  <2>4. t \notin untagged
    BY <2>1, <2>3 DEF Fresh
  <2>. QED
    BY <2>1, <2>2, <2>4 DEF TypeOK, UntaggedCauses
<1>2. ASSUME NEW t \in Tasks, Log(t) PROVE UntaggedCauses'
  <2>1. /\ handler[t] = "serve" /\ untagged' = untagged \cup {t}
        /\ UNCHANGED <<kind, run, clash>>
        /\ kind[t] \in Searched => \A i \in Ids : pool[kind[t]][i] # t
    BY <1>2 DEF Log, taskVars
  <2>2. kind[t] \in Kinds /\ run[t] \notin {"none", "new", "panicked"}
    BY <2>1 DEF Fresh
  <2>3. kind[t] \in {"ws", "api"} \/ run[t] = "returned" \/ t \in clash
    <3>1. CASE kind[t] \in Searched /\ Live(t)
      BY <2>1, <3>1, IdType DEF PoolInv, PoolSound, Held
    <3>2. CASE ~Live(t)
      BY <2>2, <3>2 DEF Live, TypeOK
    <3>3. CASE kind[t] \notin Searched
      BY <2>2, <3>3, TaskNumbers DEF Searched
    <3>. QED
      BY <3>1, <3>2, <3>3
  <2>. QED
    BY <2>1, <2>3 DEF UntaggedCauses
<1>3. ASSUME NEW t \in Tasks, TaskStep(t), ~Log(t) PROVE UntaggedCauses'
  <2>1. UNCHANGED <<kind, clash, untagged>>
    BY <1>3 DEF TaskStep, RunStep, Run, RunPanics, RunReceive, RunClosed, RunTimeOut,
       RunReturn, HandlerStart, HandlerSend, HandlerClose, HandlerReturn,
       HandlerPanic, taskVars
  <2>2. run' = run \/ (run[t] # "returned" /\ \E l : run' = [run EXCEPT ![t] = l])
    BY <1>3 DEF TaskStep, RunStep, Run, RunPanics, RunReceive, RunClosed, RunTimeOut,
       RunReturn, RunAt, HandlerStart, HandlerSend, HandlerClose,
       HandlerReturn, HandlerPanic
  <2>3. \A u \in Tasks : run[u] = "returned" => run'[u] = "returned"
    BY <2>2 DEF TypeOK
  <2>. QED
    BY <2>1, <2>3 DEF UntaggedCauses, TypeOK
<1>4. CASE UNCHANGED vars
  BY <1>4 DEF UntaggedCauses, vars, taskVars
<1>. QED
  BY <1>1, <1>2, <1>3, <1>4, StepCases

-----------------------------------------------------------------------------
LEMMA InductiveInv == Spec => []IInv
<1>1. IInv /\ [Next]_vars => IInv'
  BY TypeStep, FreshStep, PoolStep, RunStepInv, UntaggedStep DEF IInv
<1>. QED
  BY <1>1, InitInv, PTL DEF Spec

(***************************************************************************)
(* The state of the tasks has its type.                                    *)
(***************************************************************************)
THEOREM TypeCorrect == Spec => []TypeOK
<1>1. IInv => TypeOK
  BY DEF IInv
<1>. QED
  BY <1>1, InductiveInv, PTL

(***************************************************************************)
(* The pools hold the tasks in use and those a panicking Run left behind,  *)
(* except for those whose entry went to another task with the same id.     *)
(***************************************************************************)
THEOREM PoolsSound == Spec => []PoolSound
<1>1. IInv => PoolSound
  BY DEF IInv, PoolInv
<1>. QED
  BY <1>1, InductiveInv, PTL

(***************************************************************************)
(* A Run without an error has an answer, and the other way round; and a    *)
(* handler outlives its Run only by the timeout or its own early answer.   *)
(***************************************************************************)
THEOREM RunsExplained == Spec => []RunOutcome
<1>1. IInv => RunOutcome
  BY DEF IInv, RunInv, Orphans, RunOutcome, OrphanCauses
<1>. QED
  BY <1>1, InductiveInv, PTL

(***************************************************************************)
(* A log line goes without a tag for the reasons UntaggedCauses names.     *)
(***************************************************************************)
THEOREM UntaggedExplained == Spec => []UntaggedCauses
<1>1. IInv => UntaggedCauses
  BY DEF IInv
<1>. QED
  BY <1>1, InductiveInv, PTL

-----------------------------------------------------------------------------

(***************************************************************************)
(* TimerTask's inductive invariant.  PoolIsRunning: the pool holds what    *)
(* runs.  ServedOnce: serving comes to a type once, and nothing runs for   *)
(* the type before.  Alone: a singleton type has one task in the pool, and *)
(* none when its loop has found none and is about to make one.             *)
(***************************************************************************)
PoolIsRunning == timerPool = {t \in TimerTasks : task[t] # "none"}

Unserved(ty) ==
    /\ loops[ty].count = 0 /\ loop[ty] = "wait" /\ ticked[ty] = FALSE
    /\ \A t \in timerPool : TypeOf(t) # ty

ServedOnce ==
    /\ \A ty \in Types : loops[ty].count = 0 => Unserved(ty)
    /\ \A ty \in Types : ty \in toServe \/ once = "new" => Unserved(ty)
    /\ toServe # {} => once = "running"
    /\ \A s \in Servers : server[s] = "in" => once = "running"
    /\ \A r, s \in Servers : server[r] = "in" /\ server[s] = "in" => r = s

Alone ==
    \A ty \in Types : HandleOf(ty) = "singleton" =>
        /\ \A t, u \in timerPool : TypeOf(t) = ty /\ TypeOf(u) = ty => t = u
        /\ loop[ty] = "create" => \A t \in timerPool : TypeOf(t) # ty

TimerIInv == TimerTypeOK /\ PoolIsRunning /\ ServedOnce /\ Alone

LEMMA TimerInitInv == TimerInit => TimerIInv
  BY DEF TimerInit, TimerIInv, TimerTypeOK, PoolIsRunning, ServedOnce, Unserved,
         Alone,
         Unset, HandleOf

-----------------------------------------------------------------------------
(* What newTimerTask does to the pool, whoever calls it.                   *)

LEMMA TaskPairs ==
    \A ty \in Types, i \in Slots :
       <<ty, i>> \in TimerTasks /\ TypeOf(<<ty, i>>) = ty
  BY DEF TimerTasks, TypeOf

LEMMA StartPool ==
    ASSUME TimerTypeOK, PoolIsRunning, NEW ty \in Types, Start(ty)
    PROVE  /\ \E t \in TimerTasks : TypeOf(t) = ty /\ t \notin timerPool
                               /\ timerPool' = timerPool \cup {t}
           /\ task' \in [TimerTasks -> {"none", "start", "serve", "finish", "done"}]
           /\ PoolIsRunning' /\ (timerPool \subseteq TimerTasks)'
<1>1. PICK i \in Slots :
         /\ task[<<ty, i>>] = "none" /\ <<ty, i>> \notin timerPool
         /\ timerPool' = timerPool \cup {<<ty, i>>}
         /\ task' = [task EXCEPT ![<<ty, i>>] = "start"]
  BY DEF Start
<1>2. PICK t : t = <<ty, i>>
  OBVIOUS
<1>3. t \in TimerTasks /\ TypeOf(t) = ty
  BY <1>2, TaskPairs
<1>4. /\ task[t] = "none" /\ t \notin timerPool
      /\ timerPool' = timerPool \cup {t} /\ task' = [task EXCEPT ![t] = "start"]
  BY <1>1, <1>2
<1>5. task' \in [TimerTasks -> {"none", "start", "serve", "finish", "done"}]
  BY <1>3, <1>4 DEF TimerTypeOK
<1>. QED
  BY <1>1, <1>3, <1>4, <1>5 DEF TimerTypeOK, PoolIsRunning

(* A task that goes on, without one that is new.                           *)

LEMMA TaskPool ==
    ASSUME TimerIInv, NEW t \in TimerTasks,
           TimerRunStep(t) \/ TimerRunPanics(t) \/ TaskEnd(t) \/ TaskPanic(t)
    PROVE  /\ timerPool' \subseteq timerPool /\ PoolIsRunning' /\ alive' \in BOOLEAN
           /\ task' \in [TimerTasks -> {"none", "start", "serve", "finish", "done"}]
           /\ UNCHANGED <<handles, serveVars, loopVars>>
<1>. USE DEF TimerIInv, TimerTypeOK, PoolIsRunning, TaskAt
<1>1. CASE TaskServe(t)
  BY <1>1 DEF TaskServe
<1>2. CASE TaskFinish(t)
  BY <1>2 DEF TaskFinish
<1>3. CASE TaskDelete(t)
  BY <1>3 DEF TaskDelete
<1>4. CASE TaskEnd(t)
  BY <1>4 DEF TaskEnd
<1>5. CASE TaskPanic(t)
  BY <1>5 DEF TaskPanic, AfterPanic
<1>6. CASE TimerRunPanics(t)
  BY <1>6 DEF TimerRunPanics, timerTaskVars
<1>. QED
  BY <1>1, <1>2, <1>3, <1>4, <1>5, <1>6 DEF TimerRunStep

-----------------------------------------------------------------------------
(* The actions.                                                            *)

LEMMA RegisterInv ==
    ASSUME TimerIInv, NEW ty \in Types, NEW h \in Handle, Register(ty, h)
    PROVE  TimerIInv'
  BY DEF TimerIInv, TimerTypeOK, Register, PoolIsRunning, ServedOnce, Unserved,
         Alone,
         HandleOf, serveVars, loopVars, timerTaskVars

LEMMA ServeCallInv ==
    ASSUME TimerIInv, NEW s \in Servers, ServeCall(s)
    PROVE  TimerIInv'
<1>. USE DEF TimerIInv, ServeCall, Once
<1>1. TimerTypeOK'
  BY DEF TimerTypeOK, loopVars, timerTaskVars
<1>2. ServedOnce'
  BY DEF TimerTypeOK, ServedOnce, Unserved, loopVars, timerTaskVars
<1>. QED
  BY <1>1, <1>2 DEF PoolIsRunning, Alone, HandleOf, loopVars, timerTaskVars

LEMMA ServeTypeInv ==
    ASSUME TimerIInv, NEW s \in Servers, NEW ty \in Types, ServeType(s, ty)
    PROVE  TimerIInv'
<1>1. /\ Unserved(ty) /\ loops[ty].count = 0 /\ once = "running"
      /\ handles[ty] \in Handle \cup {Unset}
  BY DEF TimerIInv, ServedOnce, Unserved, ServeType, TimerTypeOK
<1>2. PICK t \in TimerTasks : /\ TypeOf(t) = ty /\ t \notin timerPool
                             /\ timerPool' = timerPool \cup {t}
  BY StartPool DEF TimerIInv, ServeType
<1>3. /\ loops' = [loops EXCEPT ![ty] = [count |-> 1, handle |-> handles[ty]]]
      /\ toServe' = toServe \ {ty}
      /\ UNCHANGED <<alive, handles, server, once, ticked, loop>>
  BY <1>1 DEF ServeType, TimerIInv, TimerTypeOK
<1>4. TimerTypeOK' /\ PoolIsRunning'
  <2>1. /\ task' \in [TimerTasks -> {"none", "start", "serve", "finish", "done"}]
        /\ PoolIsRunning' /\ (timerPool \subseteq TimerTasks)'
    BY StartPool DEF TimerIInv, ServeType
  <2>. QED
    BY <1>1, <1>3, <2>1 DEF TimerIInv, TimerTypeOK
<1>5. ServedOnce'
  BY <1>1, <1>2, <1>3 DEF TimerIInv, TimerTypeOK, ServedOnce, Unserved
<1>6. Alone'
  BY <1>1, <1>2, <1>3 DEF TimerIInv, TimerTypeOK, Alone, Unserved, HandleOf
<1>. QED
  BY <1>4, <1>5, <1>6 DEF TimerIInv

LEMMA ServeEndInv ==
    ASSUME TimerIInv, NEW s \in Servers, ServeEnd(s)
    PROVE  TimerIInv'
<1>. USE DEF TimerIInv, ServeEnd
<1>1. TimerTypeOK'
  BY DEF TimerTypeOK, loopVars, timerTaskVars
<1>2. ServedOnce'
  BY DEF TimerTypeOK, ServedOnce, Unserved, loopVars, timerTaskVars
<1>. QED
  BY <1>1, <1>2 DEF PoolIsRunning, Alone, HandleOf, loopVars, timerTaskVars

LEMMA TickInv ==
    ASSUME TimerIInv, NEW ty \in Types, Tick(ty)
    PROVE  TimerIInv'
<1>. USE DEF TimerIInv, Tick
<1>1. TimerTypeOK'
  BY DEF TimerTypeOK, serveVars, timerTaskVars
<1>2. ServedOnce'
  BY DEF TimerTypeOK, ServedOnce, Unserved, serveVars, timerTaskVars
<1>. QED
  BY <1>1, <1>2 DEF PoolIsRunning, Alone, HandleOf, timerTaskVars

(* The check of the pool: from here to LoopCreate no task of the type is   *)
(* made, for the type has been served and has no other loop.               *)

LEMMA LoopCheckInv ==
    ASSUME TimerIInv, NEW ty \in Types, LoopCheck(ty)
    PROVE  TimerIInv'
<1>1. /\ ticked' = [ticked EXCEPT ![ty] = FALSE]
      /\ loop' = [loop EXCEPT ![ty] = IF IsRunning(ty) THEN "wait" ELSE "create"]
      /\ UNCHANGED <<alive, handles, server, once, toServe, loops, timerPool, task>>
  BY DEF LoopCheck, TicksTaken, serveVars, timerTaskVars
<1>2. ~Unserved(ty)
  BY DEF LoopCheck, Unserved
<1>3. TimerTypeOK'
  BY <1>1 DEF TimerIInv, TimerTypeOK
<1>4. ServedOnce'
  BY <1>1, <1>2 DEF TimerIInv, TimerTypeOK, ServedOnce, Unserved
<1>5. Alone'
  BY <1>1 DEF TimerIInv, TimerTypeOK, Alone, HandleOf, IsRunning
<1>. QED
  BY <1>1, <1>3, <1>4, <1>5 DEF TimerIInv, PoolIsRunning

LEMMA LoopCreateInv ==
    ASSUME TimerIInv, NEW ty \in Types, LoopCreate(ty)
    PROVE  TimerIInv'
<1>1. /\ loop[ty] = "create" /\ loop' = [loop EXCEPT ![ty] = "wait"]
      /\ UNCHANGED <<alive, handles, server, once, toServe, loops, ticked>>
  BY DEF LoopCreate, serveVars
<1>2. ~Unserved(ty)
  BY <1>1 DEF Unserved
<1>3. PICK t \in TimerTasks : /\ TypeOf(t) = ty /\ t \notin timerPool
                             /\ timerPool' = timerPool \cup {t}
  BY StartPool DEF TimerIInv, LoopCreate
<1>4. TimerTypeOK' /\ PoolIsRunning'
  <2>1. /\ task' \in [TimerTasks -> {"none", "start", "serve", "finish", "done"}]
        /\ PoolIsRunning' /\ (timerPool \subseteq TimerTasks)'
    BY StartPool DEF TimerIInv, LoopCreate
  <2>. QED
    BY <1>1, <2>1 DEF TimerIInv, TimerTypeOK
<1>5. ServedOnce'
  BY <1>1, <1>2, <1>3 DEF TimerIInv, TimerTypeOK, ServedOnce, Unserved
<1>6. Alone'
  BY <1>1, <1>3 DEF TimerIInv, TimerTypeOK, Alone, HandleOf
<1>. QED
  BY <1>4, <1>5, <1>6 DEF TimerIInv

LEMMA TaskInv ==
    ASSUME TimerIInv, NEW t \in TimerTasks,
           TimerRunStep(t) \/ TimerRunPanics(t) \/ TaskEnd(t) \/ TaskPanic(t)
    PROVE  TimerIInv'
<1>1. /\ timerPool' \subseteq timerPool /\ PoolIsRunning' /\ alive' \in BOOLEAN
      /\ task' \in [TimerTasks -> {"none", "start", "serve", "finish", "done"}]
      /\ UNCHANGED <<handles, server, once, toServe, loops, ticked, loop>>
  BY TaskPool DEF serveVars, loopVars
<1>2. TimerTypeOK'
  BY <1>1 DEF TimerIInv, TimerTypeOK
<1>3. ServedOnce'
  BY <1>1 DEF TimerIInv, ServedOnce, Unserved
<1>4. Alone'
  BY <1>1 DEF TimerIInv, Alone, HandleOf
<1>. QED
  BY <1>1, <1>2, <1>3, <1>4 DEF TimerIInv

LEMMA TimerInductiveInv == TimerSpec => []TimerIInv
<1>1. TimerIInv /\ [TimerNext]_timerVars => TimerIInv'
  <2>. SUFFICES ASSUME TimerIInv, [TimerNext]_timerVars PROVE TimerIInv'
    OBVIOUS
  <2>1. CASE UNCHANGED timerVars
    BY <2>1 DEF timerVars, TimerIInv, TimerTypeOK, PoolIsRunning, ServedOnce,
                Unserved, Alone,
                HandleOf
  <2>2. CASE \E ty \in Types, h \in Handle : Register(ty, h)
    BY <2>2, RegisterInv
  <2>3. CASE \E s \in Servers : ServeCall(s) \/ ServeStep(s)
    BY <2>3, ServeCallInv, ServeTypeInv, ServeEndInv DEF ServeStep
  <2>4. CASE \E ty \in Types : Tick(ty) \/ LoopStep(ty)
    BY <2>4, TickInv, LoopCheckInv, LoopCreateInv DEF LoopStep
  <2>5. CASE \E t \in TimerTasks : TimerRunStep(t) \/ TimerRunPanics(t) \/ TaskEnd(t) \/ TaskPanic(t)
    BY <2>5, TaskInv
  <2>. QED
    BY <2>1, <2>2, <2>3, <2>4, <2>5 DEF TimerNext
<1>. QED
  BY <1>1, TimerInitInv, PTL DEF TimerSpec

-----------------------------------------------------------------------------
(***************************************************************************)
(* The timer's state keeps its types.                                      *)
(***************************************************************************)
THEOREM TimerTypeCorrect == TimerSpec => []TimerTypeOK
<1>1. TimerIInv => TimerTypeOK
  BY DEF TimerIInv
<1>. QED
  BY <1>1, TimerInductiveInv, PTL

(***************************************************************************)
(* Tasks of a singleton type never overlap, and a type has one loop.       *)
(***************************************************************************)
THEOREM SingletonNeverOverlaps == TimerSpec => []SingletonExclusive
<1>1. TimerIInv => SingletonExclusive
  <2>. SUFFICES ASSUME TimerIInv PROVE SingletonExclusive
    OBVIOUS
  <2>1. ASSUME NEW ty \in Types, HandleOf(ty) = "singleton"
        PROVE  Cardinality({t \in timerPool : TypeOf(t) = ty}) <= 1
    <3>. DEFINE S == {t \in timerPool : TypeOf(t) = ty}
    <3>1. S = {} \/ \E t : S = {t}
      BY <2>1 DEF TimerIInv, Alone
    <3>2. Cardinality(S) = 0 \/ Cardinality(S) = 1
      BY <3>1, FS_EmptySet, FS_Singleton
    <3>. QED
      BY <3>2
  <2>2. \A ty \in Types : loops[ty].count <= 1
    BY DEF TimerIInv, TimerTypeOK
  <2>. QED
    BY <2>1, <2>2 DEF TimerIInv, PoolIsRunning, SingletonExclusive
<1>. QED
  BY <1>1, TimerInductiveInv, PTL
=============================================================================
