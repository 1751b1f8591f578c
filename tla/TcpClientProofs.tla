--------------------------- MODULE TcpClientProofs ---------------------------
(***************************************************************************)
(* Proofs about TcpClient, for every number of callers, addresses, calls,  *)
(* connections and retries.                                                *)
(***************************************************************************)
EXTENDS TcpClient, FiniteSetTheorems, TLAPS

(***************************************************************************)
(* What taking the head of a pool and appending to it do to its slots.     *)
(***************************************************************************)
LEMMA ElementFacts ==
    ASSUME NEW S, NEW q \in Seq(S), NEW i \in DOMAIN q
    PROVE  q[i] \in S /\ i \in Nat /\ 1 <= i /\ i <= Len(q)
    OBVIOUS

LEMMA TailFacts ==
    ASSUME NEW S, NEW q \in Seq(S), q # <<>>
    PROVE  /\ Tail(q) \in Seq(S) /\ Head(q) \in S /\ Head(q) = q[1]
           /\ 1 \in DOMAIN q
           /\ \A i \in DOMAIN Tail(q) :
                 i + 1 \in DOMAIN q /\ Tail(q)[i] = q[i + 1]
    OBVIOUS

LEMMA AppendFacts ==
    ASSUME NEW S, NEW q \in Seq(S), NEW x \in S
    PROVE  /\ Append(q, x) \in Seq(S)
           /\ \A i \in DOMAIN Append(q, x) :
                 \/ i \in DOMAIN q /\ Append(q, x)[i] = q[i]
                 \/ i = Len(q) + 1 /\ Append(q, x)[i] = x
    OBVIOUS

-----------------------------------------------------------------------------
(* The steps that change each part of the state, one lemma per part.       *)

LEMMA PoolTypesStep == TypeOK /\ [Next]_vars => PoolTypes'
<1>. SUFFICES ASSUME TypeOK, [Next]_vars PROVE PoolTypes'
  OBVIOUS
<1>0. \/ \E p \in Clients : GetPooled(p) \/ Clear(p) \/ FreeToPool(p)
      \/ \E l \in Limits : SetLimit(l)
      \/ UNCHANGED poolVars
  <2>1. ASSUME NEW p \in Clients, ClientStep(p)
        PROVE  GetPooled(p) \/ Clear(p) \/ FreeToPool(p) \/ UNCHANGED poolVars
    BY <2>1 DEF ClientStep, poolVars, GetMiss, DialOk, DialFail, SetDeadlineOk,
       SetDeadlineFail, SendOk, SendFail, RecvOk, RecvFail, CloseHeld
  <2>. QED
    BY <2>1 DEF Next, ServerStep, vars, poolVars, Call, ServerRecv,
                ServerReply, ServerClose
<1>. USE DEF TypeOK, PoolTypes
<1>1. ASSUME NEW p \in Clients, GetPooled(p) PROVE PoolTypes'
  <2>1. Tail(pool[addr[p]]) \in Seq(ConnIds)
    BY <1>1, TailFacts DEF GetPooled, CallTypes
  <2>. QED
    BY <1>1, <2>1 DEF GetPooled, Remaining
<1>2. ASSUME NEW p \in Clients, Clear(p) PROVE PoolTypes'
  <2>1. <<>> \in Seq(ConnIds)
    OBVIOUS
  <2>. QED
    BY <1>2, <2>1 DEF Clear, Forget
<1>3. ASSUME NEW p \in Clients, FreeToPool(p) PROVE PoolTypes'
  <2>1. held[p] \in ConnIds
    BY <1>3 DEF FreeToPool, CallTypes, CallShape
  <2>2. Append(pool[addr[p]], held[p]) \in Seq(ConnIds)
    BY <1>3, <2>1, AppendFacts DEF CallTypes
  <2>. QED
    BY <1>3, <2>2 DEF FreeToPool
<1>4. ASSUME NEW l \in Limits, SetLimit(l) PROVE PoolTypes'
  BY <1>4 DEF SetLimit
<1>5. ASSUME UNCHANGED poolVars PROVE PoolTypes'
  BY <1>5 DEF poolVars
<1>. QED
  BY <1>0, <1>1, <1>2, <1>3, <1>4, <1>5

LEMMA SockTypesStep == TypeOK /\ [Next]_vars => SockTypes'
<1>. SUFFICES ASSUME TypeOK, [Next]_vars PROVE SockTypes'
  OBVIOUS
<1>. USE DEF TypeOK, SockTypes, CallTypes, CloseSocks
<1>1. ASSUME NEW p \in Clients, NEW b \in BOOLEAN, DialOk(p, b)
      PROVE  SockTypes'
  BY <1>1, ClientAssumption DEF DialOk, ConnIds
<1>2. ASSUME NEW p \in Clients,
             \/ Clear(p) \/ CloseHeld(p)
             \/ \E slow \in BOOLEAN : SendFail(p, slow) \/ RecvFail(p, slow)
      PROVE  SockTypes'
  BY <1>2 DEF Clear, CloseHeld, SendFail, RecvFail
<1>3. ASSUME NEW p \in Clients, FreeToPool(p) PROVE SockTypes'
  BY <1>3 DEF FreeToPool
<1>4. ASSUME UNCHANGED sockVars PROVE SockTypes'
  BY <1>4 DEF sockVars
<1>. QED
  BY <1>1, <1>2, <1>3, <1>4
  DEF Next, ClientStep, ServerStep, vars, sockVars, Call, GetPooled, GetMiss,
      DialFail, SetDeadlineOk, SetDeadlineFail, SendOk, RecvOk, SetLimit,
      ServerRecv, ServerReply, ServerClose

LEMMA PeerTypesStep == TypeOK /\ [Next]_vars => PeerTypes'
<1>. SUFFICES ASSUME TypeOK, [Next]_vars PROVE PeerTypes'
  OBVIOUS
<1>. USE DEF TypeOK, PeerTypes
<1>0. <<>> \in Seq(Requests)
  OBVIOUS
<1>1. ASSUME NEW p \in Clients, NEW b \in BOOLEAN, DialOk(p, b)
      PROVE  PeerTypes'
  BY <1>1 DEF DialOk
<1>2. ASSUME NEW p \in Clients, NEW slow \in BOOLEAN, SendOk(p, slow)
      PROVE  PeerTypes'
  <2>1. req[p] \in Requests
    BY <1>2 DEF SendOk, CallShape, CallTypes
  <2>. QED
    BY <1>2, <2>1 DEF SendOk
<1>3. ASSUME NEW p \in Clients,
             \/ Clear(p) \/ CloseHeld(p)
             \/ \E slow \in BOOLEAN : SendFail(p, slow) \/ RecvFail(p, slow)
      PROVE  PeerTypes'
  <2>1. UNCHANGED <<peerOpen, toServer, delivered>>
    BY <1>3 DEF Clear, CloseHeld, SendFail, RecvFail
  <2>2. PICK S : CloseSocks(S)
    BY <1>3 DEF Clear, CloseHeld, SendFail, RecvFail
  <2>. QED
    BY <1>0, <2>1, <2>2 DEF CloseSocks
<1>4. ASSUME NEW p \in Clients, RecvOk(p) PROVE PeerTypes'
  <2>1. held[p] \in ConnIds
    BY <1>4 DEF RecvOk, CallTypes, CallShape
  <2>2. Tail(toClient[held[p]]) \in Seq(Requests)
    BY <1>4, <2>1, TailFacts DEF RecvOk
  <2>. QED
    BY <1>4, <2>2 DEF RecvOk, peerVars
<1>5. ASSUME NEW c \in ConnIds, NEW r \in toServer[c], ServerRecv(c, r)
      PROVE  PeerTypes'
  BY <1>5 DEF ServerRecv
<1>6. ASSUME NEW c \in ConnIds, NEW r \in inHand[c], ServerReply(c, r)
      PROVE  PeerTypes'
  <2>1. Append(toClient[c], r) \in Seq(Requests)
    BY AppendFacts
  <2>. QED
    BY <1>6, <2>1 DEF ServerReply
<1>7. ASSUME NEW c \in ConnIds, ServerClose(c) PROVE PeerTypes'
  BY <1>7 DEF ServerClose
<1>8. ASSUME UNCHANGED <<peerVars, toClient>> PROVE PeerTypes'
  BY <1>8 DEF peerVars
<1>. QED
  BY <1>1, <1>2, <1>3, <1>4, <1>5, <1>6, <1>7, <1>8
  DEF Next, ClientStep, ServerStep, vars, peerVars, Call, GetPooled, GetMiss,
      DialFail, SetDeadlineOk, SetDeadlineFail, FreeToPool, SetLimit

LEMMA CallTypesStep == TypeOK /\ [Next]_vars => CallTypes'
<1>. SUFFICES ASSUME TypeOK, [Next]_vars PROVE CallTypes'
  OBVIOUS
<1>. USE ClientAssumption DEF TypeOK, CallTypes, Goto
<1>1. ASSUME NEW p \in Clients, NEW kind \in Kinds, NEW a \in Addrs,
             Call(p, kind, a)
      PROVE  CallTypes'
  BY <1>1 DEF Call
<1>2. ASSUME NEW p \in Clients, GetPooled(p) PROVE CallTypes'
  <2>1. Head(pool[addr[p]]) \in ConnIds
    BY <1>2, TailFacts DEF GetPooled, PoolTypes
  <2>. QED
    BY <1>2, <2>1 DEF GetPooled, callVars
<1>3. ASSUME NEW p \in Clients, NEW b \in BOOLEAN, DialOk(p, b), ~Return(p)
      PROVE  CallTypes'
  <2>1. /\ pc' = [pc EXCEPT ![p] = IF b THEN "finish" ELSE "deadline"]
        /\ held' = [held EXCEPT ![p] = lastId + 1]
        /\ failed' = [failed EXCEPT ![p] = b]
        /\ dials' = [dials EXCEPT ![p] = @ + 1]
        /\ UNCHANGED <<attempt, slowSend, calls, addr>>
        /\ lastId + 1 \in ConnIds
    BY <1>3 DEF DialOk
  <2>. QED
    BY <2>1
<1>4. ASSUME NEW p \in Clients, Clear(p) PROVE CallTypes'
  BY <1>4 DEF Clear, callVars, NextAttempt, LastAttempt
<1>5. ASSUME NEW p \in Clients, Return(p), UNCHANGED <<calls, addr>>
      PROVE  CallTypes'
  BY <1>5 DEF Return
<1>6. ASSUME NEW p \in Clients,
             \/ GetMiss(p) \/ RecvOk(p)
             \/ SetDeadlineOk(p) \/ SetDeadlineFail(p)
             \/ \E slow \in BOOLEAN :
                  SendOk(p, slow) \/ SendFail(p, slow) \/ RecvFail(p, slow)
      PROVE  CallTypes'
  BY <1>6
  DEF GetMiss, RecvOk, SetDeadlineOk, SetDeadlineFail, SendOk, SendFail,
      RecvFail, AfterError, callVars
<1>7. ASSUME UNCHANGED <<pc, held, attempt, failed, slowSend, callVars, dials>>
      PROVE  CallTypes'
  BY <1>7 DEF callVars
<1>. QED
  <2>1. ASSUME NEW p \in Clients, NEW b \in BOOLEAN, DialOk(p, b)
        PROVE  CallTypes'
    BY <2>1, <1>3, <1>5 DEF DialOk
  <2>2. ASSUME NEW p \in Clients, DialFail(p) \/ FreeToPool(p) \/ CloseHeld(p)
        PROVE  CallTypes'
    BY <2>2, <1>5 DEF DialFail, FreeToPool, CloseHeld
  <2>3. ASSUME NEW p \in Clients, ClientStep(p) PROVE CallTypes'
    BY <2>1, <2>2, <2>3, <1>2, <1>4, <1>6 DEF ClientStep
  <2>4. CASE ServerStep \/ UNCHANGED vars \/ \E l \in Limits : SetLimit(l)
    BY <2>4, <1>7
    DEF ServerStep, vars, callVars, SetLimit, ServerRecv, ServerReply, ServerClose
  <2>. QED
    BY <2>3, <2>4, <1>1 DEF Next

LEMMA RequestTypesStep == TypeOK /\ [Next]_vars => RequestTypes'
<1>. SUFFICES ASSUME TypeOK, [Next]_vars PROVE RequestTypes'
  OBVIOUS
<1>0. \/ \E p \in Clients : \E kind \in Kinds, a \in Addrs : Call(p, kind, a)
      \/ \E p \in Clients : RecvOk(p) \/ Return(p)
      \/ UNCHANGED <<req, res>>
  <2>1. ASSUME NEW p \in Clients, ClientStep(p)
        PROVE  RecvOk(p) \/ Return(p) \/ UNCHANGED <<req, res>>
    BY <2>1 DEF ClientStep, callVars, GetPooled, GetMiss, DialOk, DialFail,
       SetDeadlineOk, SetDeadlineFail, SendOk, SendFail, RecvFail, Clear,
       FreeToPool, CloseHeld
  <2>. QED
    BY <2>1 DEF Next, ServerStep, vars, callVars, SetLimit, ServerRecv,
                ServerReply, ServerClose
<1>. USE ClientAssumption DEF TypeOK, RequestTypes
<1>1. ASSUME NEW p \in Clients, NEW kind \in Kinds, NEW a \in Addrs,
             Call(p, kind, a)
      PROVE  RequestTypes'
  <2>1. <<p, calls + 1, kind>> \in Requests
    BY <1>1 DEF Call, CallTypes, Requests
  <2>. QED
    BY <1>1, <2>1 DEF Call
<1>2. ASSUME NEW p \in Clients, RecvOk(p) PROVE RequestTypes'
  <2>1. held[p] \in ConnIds
    BY <1>2 DEF RecvOk, CallTypes, CallShape
  <2>2. Head(toClient[held[p]]) \in Requests
    BY <1>2, <2>1, TailFacts DEF RecvOk, PeerTypes
  <2>. QED
    BY <1>2, <2>2 DEF RecvOk, callVars
<1>3. ASSUME NEW p \in Clients, Return(p) PROVE RequestTypes'
  BY <1>3 DEF Return
<1>4. ASSUME UNCHANGED <<req, res>> PROVE RequestTypes'
  BY <1>4
<1>. QED
  BY <1>0, <1>1, <1>2, <1>3, <1>4

LEMMA CallShapeStep == TypeOK /\ [Next]_vars => CallShape'
<1>. SUFFICES ASSUME TypeOK, [Next]_vars PROVE CallShape'
  OBVIOUS
<1>. USE ClientAssumption DEF TypeOK, CallShape, CallTypes, RequestTypes, Goto
<1>1. ASSUME NEW p \in Clients, NEW kind \in Kinds, NEW a \in Addrs,
             Call(p, kind, a)
      PROVE  CallShape'
  <2>1. <<p, calls + 1, kind>> \in Requests
    BY <1>1 DEF Call, Requests
  <2>. QED
    BY <1>1, <2>1 DEF Call
<1>2. ASSUME NEW p \in Clients, GetPooled(p) PROVE CallShape'
  <2>1. Head(pool[addr[p]]) \in ConnIds
    BY <1>2, TailFacts DEF GetPooled, PoolTypes
  <2>. QED
    BY <1>2, <2>1 DEF GetPooled, callVars, ConnIds, NoConn
<1>3. ASSUME NEW p \in Clients, NEW b \in BOOLEAN, DialOk(p, b)
      PROVE  CallShape'
  BY <1>3 DEF DialOk, Return, ConnIds, NoConn
<1>4. ASSUME NEW p \in Clients, Clear(p) PROVE CallShape'
  BY <1>4 DEF Clear, callVars
<1>5. ASSUME NEW p \in Clients, Return(p) PROVE CallShape'
  BY <1>5 DEF Return
<1>6. ASSUME NEW p \in Clients,
             \/ GetMiss(p) \/ RecvOk(p)
             \/ SetDeadlineOk(p) \/ SetDeadlineFail(p)
             \/ \E slow \in BOOLEAN :
                  SendOk(p, slow) \/ SendFail(p, slow) \/ RecvFail(p, slow)
      PROVE  CallShape'
  <2>1. /\ pc[p] \notin {"idle", "get", "dial"}
              <=> pc'[p] \notin {"idle", "get", "dial"}
        /\ pc[p] # "idle"
        /\ \A q \in Clients \ {p} : pc'[q] = pc[q]
        /\ UNCHANGED <<held, req>>
    <3>1. CASE GetMiss(p) \/ RecvOk(p)
      BY <3>1 DEF GetMiss, RecvOk, callVars
    <3>2. CASE SetDeadlineOk(p) \/ SetDeadlineFail(p)
      BY <3>2 DEF SetDeadlineOk, SetDeadlineFail, callVars
    <3>3. CASE \E slow \in BOOLEAN : SendOk(p, slow)
      BY <3>3 DEF SendOk, callVars
    <3>4. CASE \E slow \in BOOLEAN : SendFail(p, slow) \/ RecvFail(p, slow)
      BY <3>4 DEF SendFail, RecvFail, AfterError, callVars
    <3>. QED
      BY <1>6, <3>1, <3>2, <3>3, <3>4
  <2>. QED
    BY <2>1
<1>7. ASSUME UNCHANGED <<pc, held, req>> PROVE CallShape'
  BY <1>7
<1>. QED
  BY <1>1, <1>2, <1>3, <1>4, <1>5, <1>6, <1>7
  DEF Next, ClientStep, ServerStep, vars, callVars, DialFail, FreeToPool,
      CloseHeld, SetLimit, ServerRecv, ServerReply, ServerClose

LEMMA HistTypesStep == TypeOK /\ [Next]_vars => HistTypes'
<1>. SUFFICES ASSUME TypeOK, [Next]_vars PROVE HistTypes'
  OBVIOUS
<1>. USE DEF TypeOK, HistTypes, CallTypes, CallShape
<1>1. ASSUME NEW p \in Clients, NEW b \in BOOLEAN, DialOk(p, b)
      PROVE  HistTypes'
  BY <1>1 DEF DialOk
<1>2. ASSUME NEW p \in Clients, SetDeadlineFail(p) PROVE HistTypes'
  BY <1>2 DEF SetDeadlineFail
<1>3. ASSUME NEW p \in Clients, Clear(p) PROVE HistTypes'
  BY <1>3 DEF Clear
<1>4. ASSUME NEW p \in Clients, FreeToPool(p) PROVE HistTypes'
  BY <1>4 DEF FreeToPool
<1>5. ASSUME NEW c \in ConnIds, NEW r \in inHand[c], ServerReply(c, r)
      PROVE  HistTypes'
  BY <1>5 DEF ServerReply
<1>6. ASSUME UNCHANGED histVars PROVE HistTypes'
  BY <1>6 DEF histVars
<1>. QED
  BY <1>1, <1>2, <1>3, <1>4, <1>5, <1>6
  DEF Next, ClientStep, ServerStep, vars, histVars, Call, GetPooled, GetMiss,
      DialFail, SetDeadlineOk, SendOk, SendFail, RecvOk, RecvFail, CloseHeld,
      SetLimit, ServerRecv, ServerClose

(***************************************************************************)
(* Type correctness: every part of the client's state keeps its type, and  *)
(* a goroutine has a connection exactly between getting and returning one. *)
(***************************************************************************)
THEOREM TypeCorrect == Spec => []TypeOK
<1>1. Init => TypeOK
  <2>1. <<>> \in Seq(ConnIds) /\ <<>> \in Seq(Requests)
    OBVIOUS
  <2>2. (CHOOSE a \in Addrs : TRUE) \in Addrs
    BY ClientAssumption
  <2>. QED
    BY <2>1, <2>2, ClientAssumption
    DEF Init, TypeOK, PoolTypes, SockTypes, PeerTypes, CallTypes,
        RequestTypes, CallShape, HistTypes
<1>2. TypeOK /\ [Next]_vars => TypeOK'
  BY PoolTypesStep, SockTypesStep, PeerTypesStep, CallTypesStep,
     RequestTypesStep, CallShapeStep, HistTypesStep DEF TypeOK
<1>. QED
  BY <1>1, <1>2, PTL DEF Spec

-----------------------------------------------------------------------------
(***************************************************************************)
(* The inductive invariant.  ExclusiveOwnership and UsableConnections are  *)
(* not inductive alone: a freshly dialled connection must be one nobody    *)
(* has yet (Born), a connection handed back must belong to the pool it is  *)
(* put in (AtOwnAddress), and it must be open (Progress).                  *)
(***************************************************************************)
Born ==
    /\ \A p \in Clients : held[p] <= lastId
    /\ \A a \in Addrs : \A i \in DOMAIN pool[a] : pool[a][i] <= lastId

AtOwnAddress ==
    \A p \in Clients : held[p] # NoConn => connAddr[held[p]] = addr[p]

Progress ==
    \A p \in Clients :
       /\ pc[p] \in {"send", "recv"} => ~failed[p]
       /\ pc[p] = "clear" => failed[p]
       /\ pc[p] \in {"deadline", "send", "recv"} => sock[held[p]] = "open"
       /\ pc[p] = "finish" /\ ~failed[p] => sock[held[p]] = "open"

PoolOpen ==
    \A a \in Addrs : \A i \in DOMAIN pool[a] : sock[pool[a][i]] = "open"

OwnInv ==
    /\ TypeOK /\ PoolSlotsDistinct /\ PooledAtItsAddress
    /\ HeldByOne /\ HeldNotPooled
    /\ Born /\ AtOwnAddress /\ Progress /\ PoolOpen

LEMMA SlotFacts ==
    ASSUME TypeOK, NEW a \in Addrs, NEW i \in DOMAIN pool[a]
    PROVE  /\ pool[a][i] \in ConnIds /\ pool[a][i] # NoConn
           /\ i \in Nat /\ i <= Len(pool[a])
<1>1. pool[a] \in Seq(ConnIds)
  BY DEF TypeOK, PoolTypes
<1>2. pool[a][i] \in ConnIds /\ i \in Nat /\ i <= Len(pool[a])
  BY <1>1, ElementFacts
<1>. QED
  BY <1>2 DEF ConnIds, NoConn

\* what the steps that leave pool and connections alone may still change
LEMMA QuietStep ==
    ASSUME OwnInv, TypeOK', UNCHANGED <<pool, held, lastId, connAddr, sock>>,
           Progress', AtOwnAddress'
    PROVE  OwnInv'
BY DEF OwnInv, PoolSlotsDistinct, PooledAtItsAddress, HeldByOne,
       HeldNotPooled, Born, PoolOpen

LEMMA QuietActions ==
    ASSUME OwnInv, TypeOK', NEW p \in Clients,
           \/ \E kind \in Kinds, a \in Addrs : Call(p, kind, a)
           \/ GetMiss(p) \/ DialFail(p) \/ RecvOk(p)
           \/ SetDeadlineOk(p) \/ SetDeadlineFail(p)
           \/ \E slow \in BOOLEAN : SendOk(p, slow)
    PROVE  OwnInv'
<1>. USE DEF OwnInv, TypeOK, CallTypes, CallShape, Goto, sockVars, poolVars,
             callVars, Progress, AtOwnAddress
<1>1. ASSUME NEW kind \in Kinds, NEW a \in Addrs, Call(p, kind, a)
      PROVE  OwnInv'
  BY <1>1, QuietStep DEF Call
<1>2. CASE GetMiss(p)
  BY <1>2, QuietStep DEF GetMiss
<1>3. CASE DialFail(p)
  BY <1>3, QuietStep DEF DialFail, Return
<1>4. CASE RecvOk(p)
  BY <1>4, QuietStep DEF RecvOk
<1>5. CASE SetDeadlineOk(p)
  BY <1>5, QuietStep DEF SetDeadlineOk
<1>6. CASE SetDeadlineFail(p)
  BY <1>6, QuietStep DEF SetDeadlineFail
<1>7. ASSUME NEW slow \in BOOLEAN, SendOk(p, slow)
      PROVE  OwnInv'
  BY <1>7, QuietStep DEF SendOk
<1>. QED
  BY <1>1, <1>2, <1>3, <1>4, <1>5, <1>6, <1>7

LEMMA GetPooledKeeps ==
    ASSUME OwnInv, TypeOK', NEW p \in Clients, GetPooled(p)
    PROVE  OwnInv'
<1>. DEFINE a == addr[p]
            h == Head(pool[a])
<1>1. /\ a \in Addrs /\ 1 \in DOMAIN pool[a] /\ h = pool[a][1] /\ h \in ConnIds
      /\ \A b \in Addrs \ {a} : pool'[b] = pool[b]
      /\ \A i \in DOMAIN pool'[a] :
            i + 1 \in DOMAIN pool[a] /\ pool'[a][i] = pool[a][i + 1]
      /\ \A i \in DOMAIN pool'[a] : i \in Nat \ {0}
  BY TailFacts
  DEF GetPooled, Remaining, OwnInv, TypeOK, PoolTypes, CallTypes
<1>2. /\ held' = [held EXCEPT ![p] = h]
      /\ pc' = [pc EXCEPT ![p] = "deadline"]
      /\ held[p] = NoConn /\ h # NoConn
      /\ UNCHANGED <<lastId, connAddr, sock, addr, failed>>
  BY <1>1
  DEF GetPooled, Goto, sockVars, callVars, OwnInv, TypeOK, CallShape, ConnIds,
      NoConn
<1>. USE <1>1, <1>2 DEF OwnInv, TypeOK, CallTypes
<1>3. PoolSlotsDistinct'
  BY DEF PoolSlotsDistinct
<1>4. PooledAtItsAddress'
  BY DEF PooledAtItsAddress
<1>5. HeldByOne'
  BY DEF HeldByOne, HeldNotPooled
<1>6. HeldNotPooled'
  <2>. SUFFICES ASSUME NEW q \in Clients, NEW b \in Addrs,
                       NEW i \in DOMAIN pool'[b]
                PROVE  pool'[b][i] # held'[q]
    BY DEF HeldNotPooled
  <2>1. CASE q = p /\ b = a
    BY <2>1 DEF PoolSlotsDistinct
  <2>2. CASE q = p /\ b # a
    BY <2>2 DEF PooledAtItsAddress
  <2>3. CASE q # p
    BY <2>3 DEF HeldNotPooled
  <2>. QED
    BY <2>1, <2>2, <2>3
<1>7. Born'
  BY DEF Born
<1>8. AtOwnAddress'
  BY DEF AtOwnAddress, PooledAtItsAddress
<1>9. Progress'
  BY DEF Progress, PoolOpen
<1>10. PoolOpen'
  BY DEF PoolOpen
<1>. QED
  BY <1>3, <1>4, <1>5, <1>6, <1>7, <1>8, <1>9, <1>10

LEMMA DialKeeps ==
    ASSUME OwnInv, TypeOK', NEW p \in Clients, NEW b \in BOOLEAN, DialOk(p, b)
    PROVE  OwnInv'
<1>. DEFINE c == lastId + 1
<1>1. /\ c \in ConnIds /\ c # NoConn /\ lastId' = c /\ held[p] = NoConn
      /\ sock' = [sock EXCEPT ![c] = "open"]
      /\ connAddr' = [connAddr EXCEPT ![c] = addr[p]]
      /\ UNCHANGED <<pool, addr>>
      /\ \/ /\ pc' = [pc EXCEPT ![p] = IF b THEN "finish" ELSE "deadline"]
            /\ held' = [held EXCEPT ![p] = c]
            /\ failed' = [failed EXCEPT ![p] = b]
         \/ /\ pc' = [pc EXCEPT ![p] = "idle"]
            /\ held' = held
            /\ failed' = [failed EXCEPT ![p] = FALSE]
  BY DEF DialOk, Return, Goto, poolVars, OwnInv, TypeOK, SockTypes,
         CallTypes, CallShape, ConnIds, NoConn
\* the new connection is nobody's yet
<1>2. /\ \A q \in Clients : held[q] # c /\ held[q] < c
      /\ \A a \in Addrs : \A i \in DOMAIN pool[a] :
            pool[a][i] # c /\ pool[a][i] < c /\ pool[a][i] \in ConnIds
  <2>1. ASSUME NEW a \in Addrs, NEW i \in DOMAIN pool[a]
        PROVE  pool[a][i] # c /\ pool[a][i] < c /\ pool[a][i] \in ConnIds
    BY <2>1, SlotFacts DEF OwnInv, Born, TypeOK, SockTypes, ConnIds
  <2>2. \A q \in Clients : held[q] # c /\ held[q] < c
    BY DEF OwnInv, Born, TypeOK, SockTypes, CallTypes, ConnIds, NoConn
  <2>. QED
    BY <2>1, <2>2
<1>. USE <1>1, <1>2 DEF OwnInv, TypeOK, CallTypes, SockTypes
<1>3. PoolSlotsDistinct'
  BY DEF PoolSlotsDistinct
<1>4. PooledAtItsAddress'
  BY DEF PooledAtItsAddress
<1>5. HeldByOne'
  BY DEF HeldByOne
<1>6. HeldNotPooled'
  BY DEF HeldNotPooled
<1>7. Born'
  <2>1. \A q \in Clients : held'[q] <= lastId'
    <3>1. \A q \in Clients : held[q] \in Int
      BY DEF ConnIds, NoConn
    <3>. QED
      BY <3>1
  <2>2. \A a \in Addrs : \A i \in DOMAIN pool'[a] : pool'[a][i] <= lastId'
    <3>. SUFFICES ASSUME NEW a \in Addrs, NEW i \in DOMAIN pool[a]
                  PROVE  pool[a][i] <= lastId + 1
      OBVIOUS
    <3>1. pool[a][i] \in Int
      BY DEF ConnIds
    <3>. QED
      BY <3>1
  <2>. QED
    BY <2>1, <2>2 DEF Born
<1>8. AtOwnAddress'
  BY DEF AtOwnAddress
<1>9. Progress'
  BY DEF Progress, CallShape
<1>10. PoolOpen'
  BY DEF PoolOpen
<1>. QED
  BY <1>3, <1>4, <1>5, <1>6, <1>7, <1>8, <1>9, <1>10

\* a failed Send or Receive, or the clean-up, closes the caller's connection
LEMMA CloseOwnKeeps ==
    ASSUME OwnInv, TypeOK', NEW p \in Clients,
           \/ CloseHeld(p)
           \/ \E slow \in BOOLEAN : SendFail(p, slow) \/ RecvFail(p, slow)
    PROVE  OwnInv'
<1>1. /\ held[p] # NoConn /\ held[p] \in ConnIds
      /\ sock' = [c \in ConnIds |->
                     IF c = held[p] THEN "closed" ELSE sock[c]]
      /\ UNCHANGED <<pool, lastId, connAddr, addr>>
  BY DEF CloseHeld, SendFail, RecvFail, CloseSocks, Discarded, poolVars,
         callVars, OwnInv, TypeOK, CallTypes, CallShape
<1>2. \/ /\ pc' = [pc EXCEPT ![p] = "idle"]
         /\ held' = [held EXCEPT ![p] = NoConn]
         /\ failed' = [failed EXCEPT ![p] = FALSE]
      \/ /\ \E l \in {"clear", "finish"} : pc' = [pc EXCEPT ![p] = l]
         /\ failed' = [failed EXCEPT ![p] = TRUE]
         /\ held' = held
  BY DEF CloseHeld, SendFail, RecvFail, AfterError, Return, Goto
<1>. USE <1>1, <1>2 DEF OwnInv, TypeOK, CallTypes, SockTypes
<1>3. PoolSlotsDistinct'
  BY DEF PoolSlotsDistinct
<1>4. PooledAtItsAddress'
  BY DEF PooledAtItsAddress
<1>5. HeldByOne'
  BY DEF HeldByOne
<1>6. HeldNotPooled'
  <2>1. \A a \in Addrs : \A i \in DOMAIN pool[a] : pool[a][i] # NoConn
    BY SlotFacts
  <2>. QED
    BY <2>1 DEF HeldNotPooled
<1>7. Born'
  BY DEF Born, NoConn
<1>8. AtOwnAddress'
  BY DEF AtOwnAddress
<1>9. Progress'
  BY DEF Progress, HeldByOne, CallShape
<1>10. PoolOpen'
  BY DEF PoolOpen, HeldNotPooled, PoolTypes
<1>. QED
  BY <1>3, <1>4, <1>5, <1>6, <1>7, <1>8, <1>9, <1>10

LEMMA ClearKeeps ==
    ASSUME OwnInv, TypeOK', NEW p \in Clients, Clear(p)
    PROVE  OwnInv'
<1>. DEFINE a == addr[p]
<1>1. /\ a \in Addrs
      /\ \A b \in Addrs \ {a} : pool'[b] = pool[b]
      /\ DOMAIN pool'[a] = {}
      /\ UNCHANGED <<lastId, connAddr, addr, failed>>
      /\ failed[p]
  BY DEF Clear, Forget, callVars, OwnInv, TypeOK, PoolTypes, CallTypes,
         Progress
<1>2. \A c \in ConnIds :
         sock'[c] = sock[c] \/ \E i \in DOMAIN pool[a] : c = pool[a][i]
  BY DEF Clear, CloseSocks, Flushed, Pooled
<1>3. \/ /\ pc' = [pc EXCEPT ![p] = "get"]
         /\ held' = [held EXCEPT ![p] = NoConn]
      \/ /\ pc' = [pc EXCEPT ![p] = "finish"]
         /\ held' = held
  BY DEF Clear, Goto
<1>. USE <1>1, <1>2, <1>3 DEF OwnInv, TypeOK, CallTypes
<1>4. PoolSlotsDistinct'
  BY DEF PoolSlotsDistinct
<1>5. PooledAtItsAddress'
  BY DEF PooledAtItsAddress
<1>6. HeldByOne'
  BY DEF HeldByOne
<1>7. HeldNotPooled'
  <2>1. \A b \in Addrs : \A i \in DOMAIN pool[b] : pool[b][i] # NoConn
    BY SlotFacts
  <2>. QED
    BY <2>1 DEF HeldNotPooled
<1>8. Born'
  BY DEF Born, NoConn, SockTypes
<1>9. AtOwnAddress'
  BY DEF AtOwnAddress
<1>10. Progress'
  <2>. SUFFICES ASSUME NEW q \in Clients, q # p
                PROVE  held[q] = NoConn \/ sock'[held[q]] = sock[held[q]]
    BY DEF Progress, CallShape
  <2>. QED
    BY DEF HeldNotPooled
<1>11. PoolOpen'
  <2>. SUFFICES ASSUME NEW b \in Addrs, NEW i \in DOMAIN pool'[b]
                PROVE  sock'[pool'[b][i]] = "open"
    BY DEF PoolOpen
  <2>1. b # a /\ pool'[b] = pool[b] /\ pool[b][i] \in ConnIds
    BY SlotFacts
  <2>. QED
    BY <2>1 DEF PoolOpen, PooledAtItsAddress
<1>. QED
  BY <1>4, <1>5, <1>6, <1>7, <1>8, <1>9, <1>10, <1>11

LEMMA FreeKeeps ==
    ASSUME OwnInv, TypeOK', NEW p \in Clients, FreeToPool(p)
    PROVE  OwnInv'
<1>. DEFINE a == addr[p]
            c == held[p]
<1>1. /\ a \in Addrs /\ c \in ConnIds /\ c # NoConn
      /\ sock[c] = "open" /\ connAddr[c] = a
  <2>1. /\ a \in Addrs /\ pc[p] = "finish" /\ ~failed[p]
        /\ c \in ConnIds /\ c # NoConn
    BY DEF FreeToPool, MayPool, OwnInv, TypeOK, CallTypes, CallShape
  <2>. QED
    BY <2>1 DEF OwnInv, Progress, AtOwnAddress
<1>2. /\ held' = [held EXCEPT ![p] = NoConn]
      /\ pc' = [pc EXCEPT ![p] = "idle"]
      /\ failed' = [failed EXCEPT ![p] = FALSE]
      /\ UNCHANGED <<lastId, connAddr, sock, addr>>
  BY DEF FreeToPool, Return, Goto
<1>3. pool' = [pool EXCEPT ![a] = Append(@, c)]
  BY DEF FreeToPool
<1>4. \A b \in Addrs \ {a} : pool'[b] = pool[b]
  BY <1>1, <1>3 DEF OwnInv, TypeOK, PoolTypes
<1>5. PICK n : \A i \in DOMAIN pool'[a] :
            \/ i \in DOMAIN pool[a] /\ pool'[a][i] = pool[a][i]
            \/ i = n /\ pool'[a][i] = c
  <2>1. pool'[a] = Append(pool[a], c) /\ pool[a] \in Seq(ConnIds)
    BY <1>1, <1>3 DEF OwnInv, TypeOK, PoolTypes
  <2>2. \A i \in DOMAIN pool'[a] :
            \/ i \in DOMAIN pool[a] /\ pool'[a][i] = pool[a][i]
            \/ i = Len(pool[a]) + 1 /\ pool'[a][i] = c
    BY <1>1, <2>1, AppendFacts
  <2>. QED
    BY <2>2
<1>. HIDE DEF a, c
<1>. USE <1>1, <1>2, <1>4, <1>5 DEF OwnInv, TypeOK, CallTypes
<1>6. PoolSlotsDistinct'
  BY DEF PoolSlotsDistinct, HeldNotPooled, c
<1>7. PooledAtItsAddress'
  BY DEF PooledAtItsAddress
<1>8. HeldByOne'
  BY DEF HeldByOne
<1>9. HeldNotPooled'
  <2>1. \A b \in Addrs : \A i \in DOMAIN pool[b] : pool[b][i] # NoConn
    BY SlotFacts
  <2>. QED
    BY <2>1 DEF HeldNotPooled, HeldByOne, c
<1>10. Born'
  BY DEF Born, NoConn, SockTypes, c
<1>11. AtOwnAddress'
  BY DEF AtOwnAddress
<1>12. Progress'
  BY DEF Progress, CallShape
<1>13. PoolOpen'
  BY DEF PoolOpen
<1>. QED
  BY <1>6, <1>7, <1>8, <1>9, <1>10, <1>11, <1>12, <1>13

LEMMA OwnInvStep == OwnInv /\ TypeOK' /\ [Next]_vars => OwnInv'
<1>. SUFFICES ASSUME OwnInv, TypeOK', [Next]_vars PROVE OwnInv'
  OBVIOUS
<1>1. ASSUME NEW p \in Clients, ClientStep(p) PROVE OwnInv'
  BY <1>1, QuietActions, GetPooledKeeps, DialKeeps, CloseOwnKeeps,
     ClearKeeps, FreeKeeps DEF ClientStep
<1>2. ASSUME NEW p \in Clients, NEW kind \in Kinds, NEW a \in Addrs,
             Call(p, kind, a)
      PROVE  OwnInv'
  BY <1>2, QuietActions
<1>3. ASSUME UNCHANGED <<pool, held, lastId, connAddr, sock, pc, failed, addr>>
      PROVE  OwnInv'
  BY <1>3, QuietStep DEF OwnInv, Progress, AtOwnAddress
<1>. QED
  BY <1>1, <1>2, <1>3
  DEF Next, ServerStep, ServerRecv, ServerReply, ServerClose, SetLimit,
      sockVars, poolVars, callVars, vars

LEMMA OwnInvAlways == Spec => []OwnInv
<1>1. Init => OwnInv
  <2>1. Init => TypeOK
    <3>1. <<>> \in Seq(ConnIds) /\ <<>> \in Seq(Requests)
      OBVIOUS
    <3>2. (CHOOSE a \in Addrs : TRUE) \in Addrs
      BY ClientAssumption
    <3>. QED
      BY <3>1, <3>2, ClientAssumption
      DEF Init, TypeOK, PoolTypes, SockTypes, PeerTypes, CallTypes,
          RequestTypes, CallShape, HistTypes
  <2>. QED
    BY <2>1
    DEF Init, OwnInv, PoolSlotsDistinct, PooledAtItsAddress, HeldByOne,
        HeldNotPooled, Born, AtOwnAddress, Progress, PoolOpen, NoConn
<1>2. TypeOK /\ OwnInv /\ TypeOK' /\ [Next]_vars => OwnInv'
  BY OwnInvStep
<1>. QED
  BY <1>1, <1>2, TypeCorrect, PTL DEF Spec

(***************************************************************************)
(* A pooled connection sits in one slot of the pool of its own address or  *)
(* in the hands of one caller, whatever the callers, the retries and the   *)
(* flushes do: no two goroutines ever share a connection.                  *)
(***************************************************************************)
THEOREM OwnershipExclusive == Spec => []ExclusiveOwnership
<1>1. OwnInv => ExclusiveOwnership
  BY DEF OwnInv, ExclusiveOwnership
<1>. QED
  BY <1>1, OwnInvAlways, PTL

(***************************************************************************)
(* No caller is ever handed a connection that this process has closed, and *)
(* none has its connection closed under it before it is done with it.      *)
(***************************************************************************)
THEOREM ConnectionsUsable == Spec => []UsableConnections
<1>1. OwnInv => UsableConnections
  BY DEF OwnInv, UsableConnections, PoolOpen, Progress, AllPooled, Pooled,
         TypeOK, CallShape
<1>. QED
  BY <1>1, OwnInvAlways, PTL

-----------------------------------------------------------------------------
(***************************************************************************)
(* Where every connection is.  One that has not been dialled has no        *)
(* traffic; one that is open is held, pooled, or known to be broken; and   *)
(* a caller about to retry has a connection it may forget.                 *)
(***************************************************************************)
Unborn ==
    \A c \in ConnIds : c > lastId =>
       /\ sock[c] = "none" /\ c \notin broken /\ c \notin tainted
       /\ toServer[c] = {} /\ inHand[c] = {} /\ toClient[c] = <<>>

Held(c)     == \E p \in Clients : held[p] = c
Waiting(c)  == \E a \in Addrs : \E i \in DOMAIN pool[a] : pool[a][i] = c

Dialled == \A c \in ConnIds : c <= lastId => sock[c] # "none"

NotLost ==
    \A c \in ConnIds :
       sock[c] = "open" => c \in broken \/ Held(c) \/ Waiting(c)

ClearSettled ==
    \A p \in Clients :
       pc[p] = "clear" => sock[held[p]] = "closed" \/ held[p] \in broken

Placed == Unborn /\ Dialled /\ NotLost /\ ClearSettled

LEMMA HeldBorn ==
    ASSUME OwnInv
    PROVE  /\ lastId \in Int
           /\ \A p \in Clients : held[p] \in Int /\ held[p] <= lastId
           /\ \A a \in Addrs : \A i \in DOMAIN pool[a] :
                 pool[a][i] \in Int /\ pool[a][i] <= lastId
<1>1. lastId \in Int /\ \A p \in Clients : held[p] \in Int
  BY DEF OwnInv, TypeOK, SockTypes, CallTypes, ConnIds, NoConn
<1>2. \A a \in Addrs : \A i \in DOMAIN pool[a] : pool[a][i] \in Int
  BY SlotFacts DEF OwnInv, ConnIds
<1>. QED
  BY <1>1, <1>2 DEF OwnInv, Born

LEMMA UnbornStep == OwnInv /\ Unborn /\ [Next]_vars => Unborn'
<1>. SUFFICES ASSUME OwnInv, Unborn, [Next]_vars PROVE Unborn'
  OBVIOUS
<1>0. /\ lastId \in Int
      /\ \A p \in Clients : held[p] \in Int /\ held[p] <= lastId
      /\ \A a \in Addrs : \A i \in DOMAIN pool[a] :
            pool[a][i] \in Int /\ pool[a][i] <= lastId
      /\ \A c \in ConnIds : c \in Int
  BY HeldBorn DEF OwnInv, ConnIds
<1>. USE <1>0 DEF Unborn
<1>t. /\ sock \in [ConnIds -> {"none", "open", "closed"}]
      /\ addr \in [Clients -> Addrs]
      /\ toServer \in [ConnIds -> SUBSET Requests]
      /\ inHand \in [ConnIds -> SUBSET Requests]
      /\ toClient \in [ConnIds -> Seq(Requests)]
  BY DEF OwnInv, TypeOK, SockTypes, PeerTypes, CallTypes
<1>1. ASSUME UNCHANGED <<sock, broken, tainted, toServer, inHand, toClient>>,
             lastId' = lastId
      PROVE  Unborn'
  BY <1>1
<1>2. ASSUME NEW p \in Clients, NEW b \in BOOLEAN, DialOk(p, b)
      PROVE  Unborn'
  <2>1. /\ lastId' = lastId + 1
        /\ sock' = [sock EXCEPT ![lastId + 1] = "open"]
        /\ broken' = broken \/ broken' = broken \cup {lastId + 1}
        /\ UNCHANGED <<toServer, inHand, toClient, tainted>>
    BY <1>2 DEF DialOk
  <2>2. \A c \in ConnIds : c > lastId + 1 => c > lastId /\ c # lastId + 1
    BY <1>0
  <2>. QED
    BY <2>1, <2>2, <1>t
<1>3. ASSUME NEW p \in Clients, SetDeadlineFail(p) PROVE Unborn'
  <2>1. /\ broken' = broken \cup {held[p]}
        /\ UNCHANGED <<lastId, sock, tainted, toServer, inHand, toClient>>
    BY <1>3 DEF SetDeadlineFail, sockVars, peerVars
  <2>. QED
    BY <2>1
<1>4. ASSUME NEW p \in Clients, NEW slow \in BOOLEAN, SendOk(p, slow)
      PROVE  Unborn'
  BY <1>4, <1>t DEF SendOk, sockVars, histVars
<1>5. ASSUME NEW p \in Clients, NEW slow \in BOOLEAN,
             SendFail(p, slow) \/ RecvFail(p, slow) \/ CloseHeld(p)
      PROVE  Unborn'
  BY <1>5 DEF SendFail, RecvFail, CloseHeld, CloseSocks, Discarded, histVars
<1>6. ASSUME NEW p \in Clients, RecvOk(p) PROVE Unborn'
  BY <1>6, <1>t DEF RecvOk, sockVars, peerVars, histVars
<1>7. ASSUME NEW p \in Clients, Clear(p) PROVE Unborn'
  BY <1>7, <1>t DEF Clear, CloseSocks, Flushed, Pooled
<1>8. ASSUME NEW p \in Clients, FreeToPool(p) PROVE Unborn'
  BY <1>8 DEF FreeToPool, peerVars
<1>9. ASSUME NEW c \in ConnIds, NEW r \in toServer[c], ServerRecv(c, r)
      PROVE  Unborn'
  BY <1>9, <1>t DEF ServerRecv, sockVars, histVars
<1>10. ASSUME NEW c \in ConnIds, NEW r \in inHand[c], ServerReply(c, r)
      PROVE  Unborn'
  BY <1>10, <1>t DEF ServerReply, sockVars
<1>11. ASSUME NEW c \in ConnIds, ServerClose(c) PROVE Unborn'
  BY <1>11, <1>t DEF ServerClose, sockVars, histVars
<1>. QED
  BY <1>1, <1>2, <1>3, <1>4, <1>5, <1>6, <1>7, <1>8, <1>9, <1>10, <1>11
  DEF Next, ClientStep, ServerStep, vars, Call, GetPooled, GetMiss, DialFail,
      SetDeadlineOk, SetLimit, sockVars, peerVars, histVars

LEMMA DialledStep == OwnInv /\ Dialled /\ [Next]_vars => Dialled'
<1>. SUFFICES ASSUME OwnInv, Dialled, [Next]_vars PROVE Dialled'
  OBVIOUS
<1>0. \/ \E p \in Clients : \E b \in BOOLEAN : DialOk(p, b)
      \/ \E S : CloseSocks(S) /\ lastId' = lastId
      \/ UNCHANGED <<lastId, sock>>
  <2>1. ASSUME NEW p \in Clients, ClientStep(p)
        PROVE  \/ \E b \in BOOLEAN : DialOk(p, b)
               \/ \E S : CloseSocks(S) /\ lastId' = lastId
               \/ UNCHANGED <<lastId, sock>>
    BY <2>1 DEF ClientStep, GetPooled, GetMiss, DialFail, SetDeadlineOk,
       SetDeadlineFail, SendOk, SendFail, RecvOk, RecvFail, Clear, FreeToPool,
       CloseHeld, sockVars
  <2>. QED
    BY <2>1 DEF Next, ServerStep, vars, Call, SetLimit, ServerRecv,
                ServerReply, ServerClose, sockVars
<1>1. ASSUME UNCHANGED <<lastId, sock>> PROVE Dialled'
  BY <1>1 DEF Dialled
<1>2. ASSUME NEW p \in Clients, NEW b \in BOOLEAN, DialOk(p, b)
      PROVE  Dialled'
  <2>1. /\ lastId' = lastId + 1 /\ lastId \in Int
        /\ sock' = [sock EXCEPT ![lastId + 1] = "open"]
        /\ sock \in [ConnIds -> {"none", "open", "closed"}]
    BY <1>2, HeldBorn DEF DialOk, OwnInv, TypeOK, SockTypes
  <2>2. \A c \in ConnIds : c \in Int
    BY DEF ConnIds
  <2>. QED
    BY <2>1, <2>2 DEF Dialled
<1>3. ASSUME NEW S, CloseSocks(S), lastId' = lastId PROVE Dialled'
  BY <1>3 DEF Dialled, CloseSocks
<1>. QED
  BY <1>0, <1>1, <1>2, <1>3

LEMMA NotLostStep == OwnInv /\ NotLost /\ ClearSettled /\ [Next]_vars => NotLost'
<1>. SUFFICES ASSUME OwnInv, NotLost, ClearSettled, [Next]_vars PROVE NotLost'
  OBVIOUS
<1>0. /\ sock \in [ConnIds -> {"none", "open", "closed"}]
      /\ pool \in [Addrs -> Seq(ConnIds)] /\ addr \in [Clients -> Addrs]
      /\ held \in [Clients -> ConnIds \cup {NoConn}]
      /\ NoConn \notin ConnIds
      /\ \A p \in Clients : held[p] = NoConn <=> pc[p] \in {"idle", "get", "dial"}
  BY DEF OwnInv, TypeOK, SockTypes, PoolTypes, CallTypes, CallShape, ConnIds, NoConn
\* a step loses nothing if what stays open stays where it was
<1>1. ASSUME NEW p \in Clients,
             \A q \in Clients : q # p => held'[q] = held[q],
             \A c \in ConnIds : sock'[c] = "open" /\ c \notin broken' =>
                \/ Held(c)' \/ Waiting(c)'
                \/ /\ sock[c] = "open" /\ c \notin broken
                   /\ c # held[p] /\ (Waiting(c) => Waiting(c)')
      PROVE  NotLost'
  <2>. SUFFICES ASSUME NEW c \in ConnIds, sock'[c] = "open", c \notin broken'
                PROVE  Held(c)' \/ Waiting(c)'
    BY DEF NotLost
  <2>1. c # held[p] /\ Held(c) => Held(c)'
    BY <1>1 DEF Held
  <2>. QED
    BY <1>1, <2>1 DEF NotLost
<1>2. ASSUME UNCHANGED <<sock, held, pool>>, broken \subseteq broken'
      PROVE  NotLost'
  BY <1>2 DEF NotLost, Held, Waiting
<1>3. ASSUME NEW p \in Clients, NEW b \in BOOLEAN, DialOk(p, b)
      PROVE  NotLost'
  <2>0. PICK n : n = lastId + 1
    OBVIOUS
  <2>1. /\ held[p] = NoConn /\ pool' = pool
        /\ sock' = [sock EXCEPT ![n] = "open"]
        /\ \/ held' = [held EXCEPT ![p] = n]
           \/ /\ held' = [held EXCEPT ![p] = NoConn]
              /\ broken' = broken \cup {n}
        /\ broken \subseteq broken'
    BY <2>0, <1>3, <1>0 DEF DialOk, Return, poolVars
  <2>2. \A c \in ConnIds : Waiting(c) => Waiting(c)'
    BY <2>1 DEF Waiting
  <2>3. n \notin broken' => Held(n)'
    BY <2>1, <1>0 DEF Held
  <2>4. \A c \in ConnIds : c # held[p]
    BY <2>1, <1>0
  <2>5. \A c \in ConnIds : c # n => sock'[c] = sock[c]
    BY <2>1, <1>0
  <2>6. \A q \in Clients : q # p => held'[q] = held[q]
    BY <2>1, <1>0
  <2>7. ASSUME NEW c \in ConnIds, sock'[c] = "open", c \notin broken'
        PROVE  \/ Held(c)'
               \/ /\ sock[c] = "open" /\ c \notin broken
                  /\ c # held[p] /\ (Waiting(c) => Waiting(c)')
    <3>1. CASE c = n
      BY <3>1, <2>3, <2>7
    <3>2. CASE c # n
      BY <3>2, <2>1, <2>2, <2>4, <2>5, <2>7
    <3>. QED
      BY <3>1, <3>2
  <2>. QED
    BY <2>6, <2>7, <1>1
<1>4. ASSUME NEW p \in Clients,
             \/ CloseHeld(p)
             \/ \E slow \in BOOLEAN : SendFail(p, slow) \/ RecvFail(p, slow)
      PROVE  NotLost'
  <2>1. /\ pool' = pool /\ broken' = broken
        /\ \A q \in Clients : q # p => held'[q] = held[q]
        /\ sock' = [c \in ConnIds |-> IF c = held[p] THEN "closed" ELSE sock[c]]
    BY <1>4, <1>0 DEF CloseHeld, SendFail, RecvFail, CloseSocks, Discarded, Return,
                 poolVars, histVars
  <2>2. \A c \in ConnIds : Waiting(c) => Waiting(c)'
    BY <2>1 DEF Waiting
  <2>. QED
    BY <2>1, <2>2, <1>1
<1>5. ASSUME NEW p \in Clients, DialFail(p) PROVE NotLost'
  <2>1. held' = held
    BY <1>5, <1>0 DEF DialFail, Return
  <2>. QED
    BY <1>5, <2>1, <1>2 DEF DialFail, sockVars, histVars, poolVars
<1>6. ASSUME NEW p \in Clients, Clear(p) PROVE NotLost'
  <2>1. /\ sock' = [c \in ConnIds |-> IF c \in Pooled(addr[p]) THEN "closed" ELSE sock[c]]
        /\ \A b \in Addrs : b # addr[p] => pool'[b] = pool[b]
        /\ \A q \in Clients : q # p => held'[q] = held[q]
        /\ broken' = broken
        /\ sock[held[p]] = "closed" \/ held[p] \in broken
        /\ held[p] \in ConnIds
    BY <1>6, <1>0 DEF Clear, CloseSocks, Flushed, Forget, ClearSettled
  <2>2. \A c \in ConnIds : Waiting(c) => Waiting(c)' \/ c \in Pooled(addr[p])
    BY <2>1 DEF Waiting, Pooled
  <2>. QED
    BY <2>1, <2>2, <1>1
<1>7. ASSUME NEW p \in Clients, FreeToPool(p) PROVE NotLost'
  <2>0. PICK h, a : h = held[p] /\ a = addr[p]
    OBVIOUS
  <2>1. /\ held' = [held EXCEPT ![p] = NoConn]
        /\ pool' = [pool EXCEPT ![a] = Append(pool[a], h)]
        /\ UNCHANGED <<sock, broken>>
    BY <1>7, <2>0 DEF FreeToPool, Return
  <2>2. h \in ConnIds /\ a \in Addrs
    BY <1>7, <2>0, <1>0 DEF FreeToPool
  <2>3. /\ Waiting(h)'
        /\ \A i \in DOMAIN pool[a] : i \in DOMAIN pool'[a] /\ pool'[a][i] = pool[a][i]
    <3>1. pool'[a] = Append(pool[a], h) /\ pool[a] \in Seq(ConnIds)
      BY <2>1, <2>2, <1>0
    <3>2. /\ Len(pool[a]) + 1 \in DOMAIN pool'[a]
          /\ pool'[a][Len(pool[a]) + 1] = h
          /\ \A i \in DOMAIN pool[a] : /\ i \in DOMAIN pool'[a]
                                       /\ pool'[a][i] = pool[a][i]
      BY <2>2, <3>1
    <3>. QED
      BY <2>2, <3>2 DEF Waiting
  <2>4. ASSUME NEW b \in Addrs, NEW i \in DOMAIN pool[b]
        PROVE  i \in DOMAIN pool'[b] /\ pool'[b][i] = pool[b][i]
    BY <2>1, <2>3, <1>0
  <2>5. \A c \in ConnIds : Waiting(c) => Waiting(c)'
    BY <2>4 DEF Waiting
  <2>. QED
    BY <2>0, <2>1, <2>2, <2>3, <2>5, <1>1, <1>0
<1>8. ASSUME NEW p \in Clients, GetPooled(p) PROVE NotLost'
  <2>. DEFINE a == addr[p]
  <2>1. /\ held' = [held EXCEPT ![p] = Head(pool[a])]
        /\ pool' = [pool EXCEPT ![a] = Tail(pool[a])]
        /\ UNCHANGED <<sock, broken>>
        /\ held[p] = NoConn /\ a \in Addrs /\ pool[a] # <<>>
    BY <1>8, <1>0 DEF GetPooled, Remaining, sockVars, histVars
  <2>2. \A i \in DOMAIN pool[a] :
            \/ pool[a][i] = held'[p]
            \/ \E j \in DOMAIN pool'[a] : pool'[a][j] = pool[a][i]
    <3>1. pool'[a] = Tail(pool[a]) /\ pool[a] \in Seq(ConnIds)
      BY <2>1, <1>0
    <3>2. \A i \in DOMAIN pool[a] :
            \/ pool[a][i] = held'[p]
            \/ i - 1 \in DOMAIN pool'[a] /\ pool'[a][i - 1] = pool[a][i]
      BY <2>1, <3>1, <1>0
    <3>. QED
      BY <3>2
  <2>3. ASSUME NEW b \in Addrs, NEW i \in DOMAIN pool[b]
        PROVE  \/ pool[b][i] = held'[p]
               \/ \E j \in DOMAIN pool'[b] : pool'[b][j] = pool[b][i]
    BY <2>1, <2>2, <1>0
  <2>4. \A c \in ConnIds : Waiting(c) => Waiting(c)' \/ Held(c)'
    BY <2>3 DEF Waiting, Held
  <2>. QED
    BY <2>1, <2>4, <1>1, <1>0 DEF NotLost
<1>9. ASSUME NEW p \in Clients, SetDeadlineFail(p) PROVE NotLost'
  BY <1>9, <1>2 DEF SetDeadlineFail, sockVars, poolVars
<1>10. ASSUME UNCHANGED <<sock, held, pool, broken>> PROVE NotLost'
  BY <1>10, <1>2
<1>. QED
  BY <1>3, <1>4, <1>5, <1>6, <1>7, <1>8, <1>9, <1>10
  DEF Next, ClientStep, ServerStep, vars, Call, GetMiss, SendOk, RecvOk,
      SetDeadlineOk, SetLimit, ServerRecv, ServerReply, ServerClose,
      sockVars, histVars, poolVars

LEMMA ClearSettledStep == OwnInv /\ ClearSettled /\ [Next]_vars => ClearSettled'
<1>. SUFFICES ASSUME OwnInv, ClearSettled, [Next]_vars PROVE ClearSettled'
  OBVIOUS
<1>0. TypeOK
  BY DEF OwnInv
<1>. USE <1>0 DEF ClearSettled, TypeOK, SockTypes, HistTypes, CallTypes, Goto
<1>1. ASSUME UNCHANGED <<sock, broken, held, pc>> PROVE ClearSettled'
  BY <1>1
<1>2. ASSUME NEW p \in Clients, NEW l \in {"idle", "get", "dial", "deadline", "send", "recv", "finish"},
             pc' = [pc EXCEPT ![p] = l],
             \A q \in Clients \ {p} : held'[q] = held[q],
             \A c \in ConnIds : sock[c] = "closed" => sock'[c] = "closed",
             broken \subseteq broken'
      PROVE  ClearSettled'
  BY <1>2 DEF CallShape
<1>3. ASSUME NEW p \in Clients, NEW slow \in BOOLEAN,
             SendFail(p, slow) \/ RecvFail(p, slow)
      PROVE  ClearSettled'
  <2>1. /\ UNCHANGED <<held, broken>> /\ held[p] \in ConnIds
        /\ sock' = [c \in ConnIds |-> IF c = held[p] THEN "closed" ELSE sock[c]]
        /\ \A q \in Clients : q # p => pc'[q] = pc[q]
    BY <1>3 DEF SendFail, RecvFail, CloseSocks, AfterError, histVars, CallShape
  <2>2. \A q \in Clients : pc[q] = "clear" => held[q] \in ConnIds
    BY DEF CallShape
  <2>. QED
    BY <2>1, <2>2
<1>4. ASSUME NEW p \in Clients, SetDeadlineFail(p)
      PROVE  ClearSettled'
  BY <1>4 DEF SetDeadlineFail, sockVars, CallShape
<1>5. ASSUME NEW p \in Clients, NEW b \in BOOLEAN, DialOk(p, b)
      PROVE  ClearSettled'
  <2>1. lastId + 1 \in ConnIds /\ sock[lastId + 1] # "closed" => ClearSettled'
    BY <1>5, <1>2 DEF DialOk, Return
  <2>2. \A q \in Clients : held[q] # lastId + 1
    BY HeldBorn
  <2>. QED
    BY <1>5, <2>2 DEF DialOk, Return, CallShape
<1>6. ASSUME NEW p \in Clients, FreeToPool(p) \/ CloseHeld(p) \/ DialFail(p)
      PROVE  ClearSettled'
  <2>1. /\ pc' = [pc EXCEPT ![p] = "idle"] /\ broken' = broken
        /\ held' = [held EXCEPT ![p] = NoConn]
    BY <1>6 DEF FreeToPool, CloseHeld, DialFail, Return, histVars
  <2>2. \A c \in ConnIds : sock[c] = "closed" => sock'[c] = "closed"
    BY <1>6 DEF FreeToPool, CloseHeld, DialFail, CloseSocks, sockVars
  <2>. QED
    BY <2>1, <2>2, <1>2
<1>7. ASSUME NEW p \in Clients, Clear(p)
      PROVE  ClearSettled'
  BY <1>7, <1>2 DEF Clear, CloseSocks
<1>. QED
  <2>1. ASSUME NEW p \in Clients,
               \/ GetPooled(p) \/ GetMiss(p) \/ RecvOk(p) \/ SetDeadlineOk(p)
               \/ \E slow \in BOOLEAN : SendOk(p, slow)
               \/ \E kind \in Kinds, a \in Addrs : Call(p, kind, a)
        PROVE  ClearSettled'
    BY <2>1, <1>2
    DEF GetPooled, GetMiss, RecvOk, SetDeadlineOk, SendOk, Call, sockVars, histVars
  <2>2. ASSUME NEW p \in Clients, ClientStep(p) PROVE ClearSettled'
    BY <2>1, <2>2, <1>3, <1>4, <1>5, <1>6, <1>7 DEF ClientStep
  <2>3. CASE ServerStep \/ UNCHANGED vars \/ \E l \in Limits : SetLimit(l)
    BY <2>3, <1>1
    DEF ServerStep, vars, SetLimit, ServerRecv, ServerReply, ServerClose,
        sockVars, histVars
  <2>. QED
    BY <2>1, <2>2, <2>3 DEF Next

-----------------------------------------------------------------------------
(***************************************************************************)
(* The refinement: the function that gives every connection its abstract   *)
(* owner, what it is in each state, and what each step does to it.         *)
(***************************************************************************)
OwnerMap == [c \in ConnIds |-> Owner(c)]

OwnerFacts ==
    \A c \in ConnIds :
       /\ sock[c] = "none" => Owner(c) = "unborn"
       /\ sock[c] = "closed" => Owner(c) = "gone"
       /\ sock[c] = "open" =>
             /\ \A p \in Clients : held[p] = c => Owner(c) = p
             /\ ~Held(c) /\ Waiting(c) => Owner(c) = "idle"
             /\ ~Held(c) /\ ~Waiting(c) => Owner(c) = "gone"

LEMMA OwnerCharacterised == OwnInv /\ NotLost => OwnerFacts
<1>. SUFFICES ASSUME OwnInv, NotLost, NEW c \in ConnIds
              PROVE  /\ sock[c] = "none" => Owner(c) = "unborn"
                     /\ sock[c] = "closed" => Owner(c) = "gone"
                     /\ sock[c] = "open" =>
                           /\ \A p \in Clients : held[p] = c => Owner(c) = p
                           /\ ~Held(c) /\ Waiting(c) => Owner(c) = "idle"
                           /\ ~Held(c) /\ ~Waiting(c) => Owner(c) = "gone"
  BY DEF OwnerFacts
<1>1. c # NoConn
  BY DEF ConnIds, NoConn
<1>2. /\ c \in InUse <=> Held(c)
      /\ c \in AllPooled <=> Waiting(c)
  BY <1>1 DEF InUse, Held, AllPooled, Pooled, Waiting
<1>3. \A p \in Clients : held[p] = c =>
          (CHOOSE q \in Clients : held[q] = c) = p
  BY <1>1 DEF OwnInv, HeldByOne
<1>4. \A p \in Clients : held[p] = c => Held(c)
  BY DEF Held
<1>. QED
  BY <1>2, <1>3, <1>4 DEF Owner, NotLost

\* a connection's owner is a caller only if the caller has it
LEMMA OwnerIsCaller ==
    ASSUME OwnInv, OwnerFacts, NEW c \in ConnIds
    PROVE  /\ \A p \in Clients : Owner(c) = p => sock[c] = "open" /\ held[p] = c
           /\ Owner(c) = "idle" => sock[c] = "open" /\ ~Held(c) /\ Waiting(c)
<1>1. sock[c] \in {"none", "open", "closed"}
  BY DEF OwnInv, TypeOK, SockTypes
<1>2. \A p \in Clients : p # "unborn" /\ p # "gone" /\ p # "idle"
  BY ClientAssumption
<1>. QED
  BY <1>1, <1>2 DEF OwnerFacts, Held

LEMMA OwnerKept ==
    ASSUME OwnInv, OwnerFacts, OwnerFacts', NEW c \in ConnIds, sock'[c] = sock[c],
           \A p \in Clients : held'[p] = c <=> held[p] = c,
           Waiting(c)' <=> Waiting(c)
    PROVE  Owner(c)' = Owner(c)
<1>1. sock[c] \in {"none", "open", "closed"}
  BY DEF OwnInv, TypeOK, SockTypes
<1>2. Held(c)' <=> Held(c)
  BY DEF Held
<1>3. CASE sock[c] # "open"
  BY <1>1, <1>3 DEF OwnerFacts
<1>4. CASE sock[c] = "open" /\ Held(c)
  <2>1. PICK p \in Clients : held[p] = c
    BY <1>4 DEF Held
  <2>2. Owner(c) = p
    BY <1>4, <2>1 DEF OwnerFacts
  <2>3. Owner(c)' = p
    BY <1>4, <2>1 DEF OwnerFacts
  <2>. QED
    BY <2>2, <2>3
<1>5. CASE sock[c] = "open" /\ ~Held(c)
  BY <1>2, <1>5 DEF OwnerFacts
<1>. QED
  BY <1>3, <1>4, <1>5

LEMMA StutterRefines ==
    ASSUME OwnInv, OwnerFacts, OwnerFacts',
           UNCHANGED <<sock, held, pool, connAddr>>
    PROVE  UNCHANGED <<OwnerMap, connAddr>>
<1>1. ASSUME NEW c \in ConnIds PROVE Owner(c)' = Owner(c)
  <2>1. Waiting(c)' <=> Waiting(c)
    BY DEF Waiting
  <2>. QED
    BY <2>1, OwnerKept
<1>. QED
  BY <1>1 DEF OwnerMap

\* what a step that touches one connection does to the owners
LEMMA OwnerChanged ==
    ASSUME OwnInv, OwnerFacts, OwnerFacts', NEW c \in ConnIds,
           \A d \in ConnIds : d # c => /\ sock'[d] = sock[d]
                                       /\ Waiting(d)' <=> Waiting(d)
                                       /\ \A p \in Clients : held'[p] = d <=> held[p] = d
    PROVE  OwnerMap' = [OwnerMap EXCEPT ![c] = Owner(c)']
<1>1. ASSUME NEW d \in ConnIds, d # c PROVE Owner(d)' = Owner(d)
  BY <1>1, OwnerKept
<1>. QED
  BY <1>1 DEF OwnerMap

LEMMA DialRefines ==
    ASSUME OwnInv, Unborn, OwnerFacts, OwnerFacts',
           NEW p \in Clients, NEW b \in BOOLEAN, DialOk(p, b)
    PROVE  Ownership!ONext
<1>1. PICK c \in ConnIds : c = lastId + 1
  BY DEF DialOk
<1>2. /\ held[p] = NoConn /\ pool' = pool
      /\ sock' = [sock EXCEPT ![c] = "open"]
      /\ connAddr' = [connAddr EXCEPT ![c] = addr[p]]
      /\ \/ held' = [held EXCEPT ![p] = c]
         \/ held' = [held EXCEPT ![p] = NoConn]
      /\ addr[p] \in Addrs /\ c # NoConn
  BY <1>1 DEF DialOk, Return, poolVars, OwnInv, TypeOK, CallTypes, CallShape, ConnIds,
              NoConn
<1>3. held \in [Clients -> ConnIds \cup {NoConn}] /\ NoConn \notin ConnIds
      /\ sock \in [ConnIds -> {"none", "open", "closed"}]
  BY DEF OwnInv, TypeOK, CallTypes, SockTypes, ConnIds, NoConn
<1>4. /\ \A q \in Clients : held[q] # c
      /\ \A a \in Addrs : \A i \in DOMAIN pool[a] : pool[a][i] # c
      /\ sock[c] = "none"
  <2>1. /\ lastId \in Int
        /\ \A q \in Clients : held[q] \in Int /\ held[q] <= lastId
        /\ \A a \in Addrs : \A i \in DOMAIN pool[a] :
              pool[a][i] \in Int /\ pool[a][i] <= lastId
    BY HeldBorn
  <2>2. c > lastId
    BY <1>1, <2>1
  <2>. QED
    BY <1>1, <2>1, <2>2 DEF Unborn
<1>5. OwnerMap' = [OwnerMap EXCEPT ![c] = Owner(c)']
  <2>1. \A d \in ConnIds : Waiting(d)' <=> Waiting(d)
    BY <1>2 DEF Waiting
  <2>2. \A d \in ConnIds, q \in Clients : d # c => (held'[q] = d <=> held[q] = d)
    BY <1>2, <1>3
  <2>3. \A d \in ConnIds : d # c => sock'[d] = sock[d]
    BY <1>2
  <2>. QED
    BY <2>1, <2>2, <2>3, OwnerChanged
<1>6. Owner(c)' = p \/ Owner(c)' = "gone"
  <2>1. sock'[c] = "open" /\ ~Waiting(c)'
    BY <1>2, <1>3, <1>4 DEF Waiting
  <2>2. CASE held' = [held EXCEPT ![p] = c]
    BY <2>1, <2>2, <1>3 DEF OwnerFacts
  <2>3. CASE held' = [held EXCEPT ![p] = NoConn]
    BY <2>1, <2>3, <1>2, <1>3, <1>4 DEF OwnerFacts, Held
  <2>. QED
    BY <1>2, <2>2, <2>3
<1>7. OwnerMap[c] = "unborn" /\ \A d \in ConnIds : OwnerMap[d] # p
  BY <1>2, <1>3, <1>4, OwnerIsCaller DEF OwnerMap, OwnerFacts
<1>8. Ownership!Dial(p, c, addr[p])
  BY <1>2, <1>5, <1>6, <1>7 DEF Ownership!Dial, Ownership!Change, OwnerMap
<1>. QED
  BY <1>2, <1>8 DEF Ownership!ONext

LEMMA TakeRefines ==
    ASSUME OwnInv, OwnerFacts, OwnerFacts', NEW p \in Clients, GetPooled(p)
    PROVE  Ownership!ONext
<1>. DEFINE a == addr[p]
<1>1. /\ pool[a] \in Seq(ConnIds) /\ pool[a] # <<>> /\ a \in Addrs
      /\ held[p] = NoConn /\ NoConn \notin ConnIds
      /\ held \in [Clients -> ConnIds \cup {NoConn}]
      /\ pool \in [Addrs -> Seq(ConnIds)]
  BY DEF GetPooled, OwnInv, TypeOK, PoolTypes, CallTypes, CallShape, ConnIds, NoConn
<1>2. PICK c \in ConnIds : c = Head(pool[a])
  BY <1>1, TailFacts
<1>3. /\ held' = [held EXCEPT ![p] = c]
      /\ pool' = [pool EXCEPT ![a] = Tail(pool[a])]
      /\ UNCHANGED <<sock, connAddr>>
  BY <1>2 DEF GetPooled, Remaining, sockVars
<1>4. /\ Waiting(c) /\ ~Held(c)
      /\ sock[c] = "open" /\ held'[p] = c
  BY <1>1, <1>2, <1>3, TailFacts DEF Waiting, Held, OwnInv, PoolOpen, HeldNotPooled
<1>5. \A d \in ConnIds : d # c => (Waiting(d)' <=> Waiting(d))
  <2>1. /\ \A i \in DOMAIN pool'[a] : /\ i + 1 \in DOMAIN pool[a]
                                      /\ pool'[a][i] = pool[a][i + 1]
        /\ \A i \in DOMAIN pool[a] :
              \/ pool[a][i] = c
              \/ i - 1 \in DOMAIN pool'[a] /\ pool'[a][i - 1] = pool[a][i]
    <3>1. pool'[a] = Tail(pool[a])
      BY <1>1, <1>3
    <3>. QED
      BY <3>1, <1>1, <1>2
  <2>2. /\ \A i \in DOMAIN pool'[a] : \E j \in DOMAIN pool[a] : pool'[a][i] = pool[a][j]
        /\ \A i \in DOMAIN pool[a] : \/ pool[a][i] = c
              \/ \E j \in DOMAIN pool'[a] : pool'[a][j] = pool[a][i]
    BY <2>1
  <2>3. \A b \in Addrs : b # a => pool'[b] = pool[b]
    BY <1>1, <1>3
  <2>. QED
    BY <2>2, <2>3 DEF Waiting
<1>6. OwnerMap' = [OwnerMap EXCEPT ![c] = Owner(c)']
  <2>1. \A d \in ConnIds, q \in Clients : d # c => (held'[q] = d <=> held[q] = d)
    BY <1>1, <1>3
  <2>. QED
    BY <2>1, <1>3, <1>5, OwnerChanged
<1>7. Owner(c)' = p
  BY <1>3, <1>4 DEF OwnerFacts
<1>8. OwnerMap[c] = "idle" /\ \A d \in ConnIds : OwnerMap[d] # p
  BY <1>1, <1>4, OwnerIsCaller DEF OwnerMap, OwnerFacts
<1>9. Ownership!Take(p, c)
  BY <1>3, <1>6, <1>7, <1>8 DEF Ownership!Take, Ownership!Change, OwnerMap
<1>. QED
  BY <1>9 DEF Ownership!ONext

LEMMA CloseRefines ==
    ASSUME OwnInv, Dialled, OwnerFacts, OwnerFacts', NEW p \in Clients,
           \/ CloseHeld(p)
           \/ \E slow \in BOOLEAN : SendFail(p, slow) \/ RecvFail(p, slow)
    PROVE  Ownership!ONext \/ UNCHANGED <<OwnerMap, connAddr>>
<1>1. PICK c \in ConnIds : c = held[p]
  BY DEF CloseHeld, SendFail, RecvFail, OwnInv, TypeOK, CallTypes, CallShape
<1>2. /\ sock' = [d \in ConnIds |-> IF d = c THEN "closed" ELSE sock[d]]
      /\ held' = held \/ held' = [held EXCEPT ![p] = NoConn]
      /\ UNCHANGED <<pool, connAddr>>
  BY <1>1 DEF CloseHeld, SendFail, RecvFail, CloseSocks, Discarded, Return, poolVars
<1>3. /\ held \in [Clients -> ConnIds \cup {NoConn}] /\ NoConn \notin ConnIds
      /\ sock[c] \in {"none", "open", "closed"}
  <2>1. sock \in [ConnIds -> {"none", "open", "closed"}]
    BY DEF OwnInv, TypeOK, SockTypes
  <2>. QED
    BY <2>1, <1>1 DEF OwnInv, TypeOK, CallTypes, ConnIds, NoConn
<1>4. OwnerMap' = [OwnerMap EXCEPT ![c] = Owner(c)']
  <2>1. \A d \in ConnIds : Waiting(d)' <=> Waiting(d)
    BY <1>2 DEF Waiting
  <2>2. \A d \in ConnIds, q \in Clients : d # c => (held'[q] = d <=> held[q] = d)
    BY <1>1, <1>2, <1>3
  <2>. QED
    BY <2>1, <2>2, <1>2, OwnerChanged
<1>5. Owner(c)' = "gone"
  BY <1>2 DEF OwnerFacts
<1>6. CASE sock[c] = "open"
  <2>1. OwnerMap[c] = p
    BY <1>1, <1>6 DEF OwnerMap, OwnerFacts
  <2>2. Ownership!Give(p, c)
    BY <1>2, <1>4, <1>5, <2>1 DEF Ownership!Give, Ownership!Change, OwnerMap
  <2>. QED
    BY <2>2 DEF Ownership!ONext
<1>7. CASE sock[c] = "closed"
  <2>1. OwnerMap[c] = "gone"
    BY <1>7 DEF OwnerMap, OwnerFacts
  <2>. QED
    BY <1>2, <1>4, <1>5, <2>1 DEF OwnerMap
<1>8. sock[c] # "none"
  BY <1>1, HeldBorn DEF Dialled
<1>. QED
  BY <1>3, <1>6, <1>7, <1>8

LEMMA FreeRefines ==
    ASSUME OwnInv, OwnerFacts, OwnerFacts', NEW p \in Clients, FreeToPool(p)
    PROVE  Ownership!ONext
<1>1. PICK c \in ConnIds, a \in Addrs : c = held[p] /\ a = addr[p]
  BY DEF FreeToPool, OwnInv, TypeOK, CallTypes, CallShape
<1>2. /\ pool' = [pool EXCEPT ![a] = Append(pool[a], c)]
      /\ held' = [held EXCEPT ![p] = NoConn]
      /\ UNCHANGED <<sock, connAddr>>
  BY <1>1 DEF FreeToPool, Return
<1>3. /\ held \in [Clients -> ConnIds \cup {NoConn}] /\ NoConn \notin ConnIds
      /\ pool \in [Addrs -> Seq(ConnIds)]
      /\ sock[c] = "open"
  BY <1>1 DEF FreeToPool, MayPool, OwnInv, TypeOK, CallTypes, PoolTypes, Progress,
              ConnIds, NoConn
<1>4. /\ Waiting(c)'
      /\ \A d \in ConnIds : d # c => (Waiting(d)' <=> Waiting(d))
  <2>1. /\ Len(pool[a]) + 1 \in DOMAIN pool'[a]
        /\ pool'[a][Len(pool[a]) + 1] = c
        /\ \A i \in DOMAIN pool[a] : i \in DOMAIN pool'[a] /\ pool'[a][i] = pool[a][i]
        /\ \A i \in DOMAIN pool'[a] :
              pool'[a][i] = c \/ (i \in DOMAIN pool[a] /\ pool'[a][i] = pool[a][i])
    <3>1. pool'[a] = Append(pool[a], c) /\ pool[a] \in Seq(ConnIds)
      BY <1>2, <1>3
    <3>2. /\ Len(pool[a]) + 1 \in DOMAIN pool'[a]
          /\ pool'[a][Len(pool[a]) + 1] = c
          /\ \A i \in DOMAIN pool[a] : i \in DOMAIN pool'[a] /\ pool'[a][i] = pool[a][i]
      BY <3>1
    <3>3. \A i \in DOMAIN pool'[a] :
             \/ i \in DOMAIN pool[a] /\ pool'[a][i] = pool[a][i]
             \/ i = Len(pool[a]) + 1 /\ pool'[a][i] = c
      BY <3>1, AppendFacts
    <3>. QED
      BY <3>2, <3>3
  <2>2. \A b \in Addrs : b # a => pool'[b] = pool[b]
    BY <1>2, <1>3
  <2>. QED
    BY <2>1, <2>2 DEF Waiting
<1>5. OwnerMap' = [OwnerMap EXCEPT ![c] = Owner(c)']
  <2>1. \A d \in ConnIds, q \in Clients : d # c => (held'[q] = d <=> held[q] = d)
    BY <1>1, <1>2, <1>3
  <2>. QED
    BY <2>1, <1>2, <1>4, OwnerChanged
<1>6. ~Held(c)'
  BY <1>1, <1>2, <1>3 DEF Held, OwnInv, HeldByOne
<1>7. Owner(c)' = "idle"
  BY <1>2, <1>3, <1>4, <1>6 DEF OwnerFacts
<1>8. OwnerMap[c] = p
  BY <1>1, <1>3 DEF OwnerMap, OwnerFacts
<1>9. Ownership!Give(p, c)
  BY <1>2, <1>5, <1>7, <1>8 DEF Ownership!Give, Ownership!Change, OwnerMap
<1>. QED
  BY <1>9 DEF Ownership!ONext

LEMMA FlushRefines ==
    ASSUME OwnInv, OwnerFacts, OwnerFacts', NEW p \in Clients, Clear(p)
    PROVE  Ownership!ONext
<1>1. PICK h \in ConnIds, a \in Addrs : h = held[p] /\ a = addr[p]
  BY DEF Clear, OwnInv, TypeOK, CallTypes, CallShape
<1>2. /\ \A c \in ConnIds : sock'[c] = IF c \in Pooled(a) THEN "closed" ELSE sock[c]
      /\ \A b \in Addrs : b # a => pool'[b] = pool[b]
      /\ pool'[a] = <<>>
      /\ held' = held \/ held' = [held EXCEPT ![p] = NoConn]
      /\ UNCHANGED connAddr
  BY <1>1 DEF Clear, CloseSocks, Flushed, Forget, OwnInv, TypeOK, PoolTypes
<1>3. /\ held \in [Clients -> ConnIds \cup {NoConn}] /\ NoConn \notin ConnIds
      /\ \A c \in ConnIds : sock[c] \in {"none", "open", "closed"}
  <2>1. sock \in [ConnIds -> {"none", "open", "closed"}]
    BY DEF OwnInv, TypeOK, SockTypes
  <2>. QED
    BY <2>1 DEF OwnInv, TypeOK, CallTypes, ConnIds, NoConn
<1>. DEFINE own == {c \in ConnIds : OwnerMap[c] = p /\ held' # held}
<1>4. ASSUME NEW c \in ConnIds
      PROVE  Owner(c)' = IF c \in own \/ (Owner(c) = "idle" /\ connAddr[c] = a)
                         THEN "gone" ELSE Owner(c)
  <2>1. (Owner(c) = p <=> sock[c] = "open" /\ c = h)
    BY <1>1, OwnerIsCaller DEF OwnerFacts
  <2>2. Owner(c) = "idle" /\ connAddr[c] = a <=> c \in Pooled(a)
    <3>1. ASSUME c \in Pooled(a) PROVE Owner(c) = "idle" /\ connAddr[c] = a
      <4>1. Waiting(c) /\ ~Held(c) /\ sock[c] = "open" /\ connAddr[c] = a
        BY <3>1 DEF Pooled, Waiting, Held, OwnInv, HeldNotPooled, PoolOpen,
                    PooledAtItsAddress
      <4>. QED
        BY <4>1 DEF OwnerFacts
    <3>2. ASSUME Owner(c) = "idle", connAddr[c] = a PROVE c \in Pooled(a)
      BY <3>2, OwnerIsCaller DEF Waiting, OwnInv, PooledAtItsAddress, Pooled
    <3>. QED
      BY <3>1, <3>2
  <2>3. CASE c \in Pooled(a)
    BY <2>2, <2>3, <1>2 DEF OwnerFacts
  <2>4. CASE c \notin Pooled(a) /\ ~(sock[c] = "open" /\ c = h /\ held' # held)
    <3>1. Waiting(c)' <=> Waiting(c)
      BY <1>2, <2>4 DEF Waiting, Pooled
    <3>2. sock[c] = "open" => \A q \in Clients : held'[q] = c <=> held[q] = c
      BY <1>1, <1>2, <1>3, <2>4
    <3>3. c \notin own
      BY <2>1, <2>4 DEF OwnerMap
    <3>4. Owner(c)' = Owner(c)
      <4>1. CASE sock[c] = "open"
        BY <3>1, <3>2, <4>1, <1>2, <2>4, OwnerKept
      <4>2. CASE sock[c] # "open"
        BY <4>2, <1>2, <1>3, <2>4 DEF OwnerFacts
      <4>. QED
        BY <4>1, <4>2
    <3>. QED
      BY <3>3, <3>4, <2>2, <2>4
  <2>5. CASE c \notin Pooled(a) /\ sock[c] = "open" /\ c = h /\ held' # held
    <3>1. c \in own
      BY <2>1, <2>5 DEF OwnerMap
    <3>2. sock'[c] = "open" /\ held' = [held EXCEPT ![p] = NoConn]
      BY <1>2, <2>5
    <3>3. ~Held(c)' /\ ~Waiting(c)'
      BY <3>2, <1>1, <1>2, <1>3, <2>5
      DEF Held, Waiting, OwnInv, HeldByOne, HeldNotPooled
    <3>. QED
      BY <3>1, <3>2, <3>3 DEF OwnerFacts
  <2>. QED
    BY <2>3, <2>4, <2>5
<1>. HIDE DEF own
<1>5. own \in SUBSET {c \in ConnIds : OwnerMap[c] = p}
  BY DEF own
<1>6. OwnerMap' = [c \in ConnIds |->
          IF c \in own \/ (OwnerMap[c] = "idle" /\ connAddr[c] = a) THEN "gone"
          ELSE OwnerMap[c]]
  BY <1>4 DEF OwnerMap
<1>7. Ownership!Flush(p, a)
  BY <1>2, <1>5, <1>6 DEF Ownership!Flush, OwnerMap
<1>. QED
  BY <1>7 DEF Ownership!ONext

LEMMA OwnershipStep ==
    OwnInv /\ Placed /\ OwnerFacts /\ OwnerFacts' /\ [Next]_vars
       => Ownership!ONext \/ UNCHANGED <<OwnerMap, connAddr>>
<1>. SUFFICES ASSUME OwnInv, Placed, OwnerFacts, OwnerFacts', [Next]_vars
              PROVE  Ownership!ONext \/ UNCHANGED <<OwnerMap, connAddr>>
  OBVIOUS
<1>1. CASE UNCHANGED <<sock, held, pool, connAddr>>
  BY <1>1, StutterRefines
<1>2. ASSUME NEW p \in Clients, DialFail(p)
      PROVE UNCHANGED <<OwnerMap, connAddr>>
  <2>1. UNCHANGED <<sock, held, pool, connAddr>>
    BY <1>2 DEF DialFail, Return, sockVars, poolVars, OwnInv, TypeOK, CallTypes, CallShape
  <2>. QED
    BY <2>1, StutterRefines
<1>. QED
  BY <1>1, <1>2, DialRefines, TakeRefines, CloseRefines, FreeRefines, FlushRefines
  DEF Placed, Next, ClientStep, ServerStep, vars, Call, GetMiss, SetDeadlineOk,
      SetDeadlineFail, SendOk, RecvOk, SetLimit, ServerRecv, ServerReply, ServerClose,
      sockVars, poolVars

LEMMA PlacedAlways == Spec => []Placed
<1>1. Init => Placed
  BY DEF Init, Placed, Unborn, Dialled, NotLost, ClearSettled, ConnIds
<1>2. OwnInv /\ Placed /\ [Next]_vars => Placed'
  BY UnbornStep, DialledStep, NotLostStep, ClearSettledStep DEF Placed
<1>. QED
  BY <1>1, <1>2, OwnInvAlways, PTL DEF Spec

(***************************************************************************)
(* The pool implements exclusive ownership: every step of dialling,        *)
(* handing over, releasing, pooling, flushing and closing is, seen through *)
(* the owner of every connection, one step of ConnOwnership or none.       *)
(***************************************************************************)
THEOREM OwnershipImplemented == Spec => ImplementsOwnership
<1>1. Init /\ OwnInv /\ OwnerFacts => Ownership!OInit
  BY DEF Init, OwnerFacts, OwnInv, TypeOK, SockTypes, Ownership!OInit
<1>2. OwnInv /\ Placed /\ OwnerFacts /\ OwnerFacts' /\ [Next]_vars
         => [Ownership!ONext]_<<[c \in ConnIds |-> Owner(c)], connAddr>>
  BY OwnershipStep DEF OwnerMap
<1>3. Placed /\ OwnInv => OwnerFacts
  BY OwnerCharacterised DEF Placed
<1>. QED
  BY <1>1, <1>2, <1>3, OwnInvAlways, PlacedAlways, PTL
  DEF Spec, ImplementsOwnership, Ownership!OSpec

-----------------------------------------------------------------------------
(***************************************************************************)
(* The conversation on a connection that is not tainted: the only two-way  *)
(* request under way is that of the caller who waits for its response, and *)
(* the only response under way is the one to that request.                 *)
(***************************************************************************)
Waits(p, c) == pc[p] = "recv" /\ held[p] = c

Asked ==
    \A c \in ConnIds : sock[c] = "open" /\ c \notin tainted =>
       \A r \in Requests :
          Kind(r) = "twoWay" /\ (r \in toServer[c] \/ r \in inHand[c]) =>
             /\ \E p \in Clients : Waits(p, c) /\ req[p] = r
             /\ r \notin toServer[c] \/ r \notin inHand[c]

Answered ==
    \A c \in ConnIds : sock[c] = "open" /\ c \notin tainted =>
       /\ \A r \in inHand[c] : delivered[r] > 0
       /\ toClient[c] # <<>> =>
             \E p \in Clients :
                /\ Waits(p, c) /\ toClient[c] = <<req[p]>> /\ delivered[req[p]] > 0
                /\ req[p] \notin toServer[c] /\ req[p] \notin inHand[c]

\* the variables a step of one caller changes at that caller only
LEMMA CallVarTypes ==
    ASSUME OwnInv
    PROVE  /\ pc \in [Clients -> {"idle", "get", "dial", "deadline", "send", "recv",
                                  "clear", "finish"}]
           /\ held \in [Clients -> ConnIds \cup {NoConn}]
           /\ failed \in [Clients -> BOOLEAN]
           /\ req \in [Clients -> Requests \cup {NoReq}]
           /\ res \in [Clients -> Requests \cup {NoReq}]
           /\ sock \in [ConnIds -> {"none", "open", "closed"}]
  BY DEF OwnInv, TypeOK, CallTypes, RequestTypes, SockTypes

LEMMA KindOf == \A r \in Requests : Kind(r) = "twoWay" \/ Kind(r) = "oneWay"
  BY ClientAssumption DEF Requests, Kind

LEMMA QuietExchange ==
    ASSUME Asked, Answered, UNCHANGED <<toServer, delivered, tainted>>,
           \A c \in ConnIds : sock'[c] = "open" =>
              /\ inHand'[c] = inHand[c] /\ toClient'[c] = toClient[c]
              /\ \/ sock[c] = "open"
                 \/ toServer[c] = {} /\ inHand[c] = {} /\ toClient[c] = <<>>,
           \A p \in Clients, c \in ConnIds : Waits(p, c) /\ sock'[c] = "open" =>
              Waits(p, c)' /\ req'[p] = req[p]
    PROVE  Asked' /\ Answered'
<1>1. Asked'
  BY DEF Asked
<1>2. Answered'
  BY DEF Answered
<1>. QED
  BY <1>1, <1>2

LEMMA QuietResponse ==
    ASSUME OwnInv, OwnResponse, tainted \subseteq tainted',
           \A r \in Requests : delivered[r] > 0 => delivered'[r] > 0,
           \A p \in Clients : pc'[p] = "finish" /\ ~failed'[p] =>
              /\ pc[p] = "finish" /\ ~failed[p]
              /\ req'[p] = req[p] /\ res'[p] = res[p] /\ held'[p] = held[p]
    PROVE  OwnResponse'
<1>1. \A p \in Clients : pc[p] = "finish" => req[p] \in Requests
  BY DEF OwnInv, TypeOK, CallShape
<1>. QED
  BY <1>1 DEF OwnResponse

\* the steps that move no frame of an open connection
LEMMA QuietTalk ==
    ASSUME OwnInv, Placed, Asked, Answered, OwnResponse, NEW p \in Clients,
           \/ \E kind \in Kinds, a \in Addrs : Call(p, kind, a)
           \/ GetPooled(p) \/ GetMiss(p) \/ DialFail(p)
           \/ SetDeadlineOk(p) \/ SetDeadlineFail(p)
           \/ FreeToPool(p)
    PROVE  Asked' /\ Answered' /\ OwnResponse'
<1>1. /\ pc[p] # "recv" /\ \A q \in Clients : q # p => pc'[q] = pc[q]
      /\ \A q \in Clients : q # p => req'[q] = req[q] /\ held'[q] = held[q]
      /\ \A q \in Clients : q # p => res'[q] = res[q] /\ failed'[q] = failed[q]
      /\ UNCHANGED <<sock, toServer, inHand, toClient, delivered, tainted>>
  <2>1. CASE \E kind \in Kinds, a \in Addrs : Call(p, kind, a)
    BY <2>1, CallVarTypes DEF Call, Goto, sockVars, peerVars, histVars
  <2>2. CASE GetPooled(p) \/ GetMiss(p)
    BY <2>2, CallVarTypes DEF GetPooled, GetMiss, Goto, sockVars, peerVars, callVars, histVars
  <2>3. CASE SetDeadlineOk(p) \/ SetDeadlineFail(p)
    BY <2>3, CallVarTypes
    DEF SetDeadlineOk, SetDeadlineFail, Goto, sockVars, peerVars, callVars, histVars
  <2>4. CASE DialFail(p)
    BY <2>4, CallVarTypes DEF DialFail, Return, Goto, sockVars, peerVars, histVars
  <2>5. CASE FreeToPool(p)
    BY <2>5, CallVarTypes DEF FreeToPool, Return, Goto, peerVars
  <2>. QED
    BY <2>1, <2>2, <2>3, <2>4, <2>5
<1>2. pc'[p] = "finish" => failed'[p]
  BY DEF Call, GetPooled, GetMiss, DialFail, SetDeadlineOk, SetDeadlineFail, FreeToPool,
         Return, Goto, OwnInv, TypeOK, CallTypes
<1>3. Asked' /\ Answered'
  BY <1>1, QuietExchange DEF Waits
<1>4. OwnResponse'
  BY <1>1, <1>2, QuietResponse
<1>. QED
  BY <1>3, <1>4

LEMMA DialTalk ==
    ASSUME OwnInv, Placed, Asked, Answered, OwnResponse, NEW p \in Clients,
           NEW b \in BOOLEAN, DialOk(p, b)
    PROVE  Asked' /\ Answered' /\ OwnResponse'
<1>1. PICK c \in ConnIds : c = lastId + 1
  BY DEF DialOk
<1>2. toServer[c] = {} /\ inHand[c] = {} /\ toClient[c] = <<>>
  BY <1>1, HeldBorn DEF Placed, Unborn
<1>3. /\ pc[p] = "dial" /\ \A q \in Clients : q # p => pc'[q] = pc[q]
      /\ \A q \in Clients : q # p => req'[q] = req[q] /\ held'[q] = held[q]
      /\ \A q \in Clients : q # p => res'[q] = res[q] /\ failed'[q] = failed[q]
      /\ UNCHANGED <<toServer, inHand, toClient, delivered, tainted>>
      /\ \A d \in ConnIds : d # c => sock'[d] = sock[d]
  BY <1>1, CallVarTypes DEF DialOk, Return, Goto
<1>4. pc'[p] = "finish" => failed'[p]
  BY DEF DialOk, Return, Goto, OwnInv, TypeOK, CallTypes
<1>5. Asked' /\ Answered'
  BY <1>2, <1>3, QuietExchange DEF Waits
<1>6. OwnResponse'
  BY <1>3, <1>4, QuietResponse
<1>. QED
  BY <1>5, <1>6

\* the steps that close connections of nobody but the caller
LEMMA CloseTalk ==
    ASSUME OwnInv, Asked, Answered, OwnResponse, NEW p \in Clients,
           \/ CloseHeld(p) \/ Clear(p)
           \/ \E slow \in BOOLEAN : SendFail(p, slow) \/ RecvFail(p, slow)
    PROVE  Asked' /\ Answered' /\ OwnResponse'
<1>1. PICK S : /\ S = {held[p]} \/ S = Pooled(addr[p])
               /\ CloseSocks(S)
               /\ pc[p] = "recv" => held[p] \in S
  BY DEF CloseHeld, Clear, SendFail, RecvFail, Discarded, Flushed
<1>2. /\ \A q \in Clients : q # p => pc'[q] = pc[q]
      /\ \A q \in Clients : q # p => req'[q] = req[q] /\ held'[q] = held[q]
      /\ \A q \in Clients : q # p => res'[q] = res[q] /\ failed'[q] = failed[q]
      /\ UNCHANGED <<toServer, delivered, tainted>>
  <2>1. CASE CloseHeld(p)
    BY <2>1, CallVarTypes DEF CloseHeld, Return, Goto, histVars
  <2>2. CASE Clear(p)
    BY <2>2, CallVarTypes DEF Clear, Goto, callVars
  <2>3. CASE \E slow \in BOOLEAN : SendFail(p, slow) \/ RecvFail(p, slow)
    BY <2>3, CallVarTypes DEF SendFail, RecvFail, AfterError, Goto, callVars, histVars
  <2>. QED
    BY <2>1, <2>2, <2>3
<1>3. pc'[p] = "finish" => failed'[p]
  <2>1. pc[p] = "clear" => failed[p]
    BY DEF OwnInv, Progress
  <2>2. pc \in [Clients -> {"idle", "get", "dial", "deadline", "send", "recv",
                            "clear", "finish"}]
        /\ failed \in [Clients -> BOOLEAN]
    BY DEF OwnInv, TypeOK, CallTypes
  <2>. QED
    BY <2>1, <2>2 DEF CloseHeld, Clear, SendFail, RecvFail, AfterError, Return, Goto
<1>4. \A c \in ConnIds : sock'[c] = "open" =>
         /\ c \notin S /\ sock[c] = "open"
         /\ inHand'[c] = inHand[c] /\ toClient'[c] = toClient[c]
  BY <1>1 DEF CloseSocks
<1>5. Asked' /\ Answered'
  BY <1>1, <1>2, <1>4, QuietExchange DEF Waits
<1>6. OwnResponse'
  BY <1>2, <1>3, QuietResponse
<1>. QED
  BY <1>5, <1>6

LEMMA SendTalk ==
    ASSUME OwnInv, Asked, Answered, OwnResponse, NEW p \in Clients,
           NEW slow \in BOOLEAN, SendOk(p, slow)
    PROVE  Asked' /\ Answered' /\ OwnResponse'
<1>1. PICK c \in ConnIds, r \in Requests : c = held[p] /\ r = req[p]
  BY DEF SendOk, OwnInv, TypeOK, CallTypes, CallShape
<1>2. /\ pc[p] = "send" /\ ~failed[p]
      /\ toServer' = [toServer EXCEPT ![c] = IF peerOpen[c] THEN @ \cup {r} ELSE @]
      /\ UNCHANGED <<sock, inHand, toClient, delivered, tainted, held, req, res, failed>>
      /\ pc' = [pc EXCEPT ![p] = IF Kind(r) = "twoWay" THEN "recv" ELSE "finish"]
  BY <1>1 DEF SendOk, Goto, sockVars, callVars, histVars, OwnInv, Progress
<1>3. /\ \A q \in Clients : ~Waits(q, c)
      /\ pc \in [Clients -> {"idle", "get", "dial", "deadline", "send", "recv",
                            "clear", "finish"}]
      /\ toServer \in [ConnIds -> SUBSET Requests]
      /\ c # NoConn
  BY <1>1, <1>2 DEF Waits, OwnInv, HeldByOne, TypeOK, CallTypes, PeerTypes, ConnIds, NoConn
<1>4. \A q \in Clients, d \in ConnIds : Waits(q, d) => Waits(q, d)'
  BY <1>1, <1>2, <1>3 DEF Waits
<1>5. \A d \in ConnIds : toServer'[d] = toServer[d]
                         \/ (d = c /\ toServer'[d] = toServer[d] \cup {r})
  BY <1>2, <1>3
<1>6. Kind(r) = "twoWay" => Waits(p, c)'
  BY <1>1, <1>2, <1>3 DEF Waits
<1>7. Asked'
  <2>. SUFFICES ASSUME NEW d \in ConnIds, sock[d] = "open", d \notin tainted,
                       NEW s \in Requests, Kind(s) = "twoWay",
                       s \in toServer'[d] \/ s \in inHand[d]
                PROVE  /\ \E q \in Clients : Waits(q, d)' /\ req[q] = s
                       /\ s \notin toServer'[d] \/ s \notin inHand[d]
    BY <1>2 DEF Asked
  <2>1. CASE d = c /\ s = r
    BY <1>1, <1>3, <1>6, <2>1 DEF Asked
  <2>2. CASE d # c \/ s # r
    BY <1>4, <1>5, <2>2 DEF Asked
  <2>. QED
    BY <2>1, <2>2
<1>8. Answered'
  <2>. SUFFICES ASSUME NEW d \in ConnIds, sock[d] = "open", d \notin tainted
                PROVE  /\ \A s \in inHand[d] : delivered[s] > 0
                       /\ toClient[d] # <<>> =>
                            \E q \in Clients :
                               /\ Waits(q, d)' /\ toClient[d] = <<req[q]>>
                               /\ delivered[req[q]] > 0
                               /\ req[q] \notin toServer'[d] /\ req[q] \notin inHand[d]
    BY <1>2 DEF Answered
  <2>1. CASE d = c
    BY <1>3, <2>1 DEF Answered
  <2>2. CASE d # c
    BY <1>4, <1>5, <2>2 DEF Answered
  <2>. QED
    BY <2>1, <2>2
<1>9. OwnResponse'
  <2>. SUFFICES ASSUME NEW q \in Clients, pc'[q] = "finish", ~failed[q],
                       Kind(req[q]) = "twoWay"
                PROVE  \/ res[q] = req[q] /\ delivered[req[q]] > 0
                       \/ held[q] \in tainted
    BY <1>2 DEF OwnResponse
  <2>1. q # p
    BY <1>1, <1>2, <1>3
  <2>. QED
    BY <1>2, <2>1 DEF OwnResponse
<1>. QED
  BY <1>7, <1>8, <1>9

LEMMA RecvTalk ==
    ASSUME OwnInv, Asked, Answered, OwnResponse, NEW p \in Clients, RecvOk(p)
    PROVE  Asked' /\ Answered' /\ OwnResponse'
<1>1. PICK c \in ConnIds, r \in Requests : c = held[p] /\ r = req[p]
  BY DEF RecvOk, OwnInv, TypeOK, CallTypes, CallShape
<1>2. /\ pc[p] = "recv" /\ sock[c] = "open" /\ toClient[c] # <<>>
      /\ res' = [res EXCEPT ![p] = Head(toClient[c])]
      /\ toClient' = [toClient EXCEPT ![c] = Tail(@)]
      /\ pc' = [pc EXCEPT ![p] = "finish"]
      /\ UNCHANGED <<sock, toServer, inHand, delivered, tainted, held, req, failed>>
  BY <1>1 DEF RecvOk, Goto, sockVars, peerVars, callVars, histVars, OwnInv, Progress
<1>3. /\ pc \in [Clients -> {"idle", "get", "dial", "deadline", "send", "recv",
                            "clear", "finish"}]
      /\ res \in [Clients -> Requests \cup {NoReq}]
      /\ toClient \in [ConnIds -> Seq(Requests)]
      /\ c # NoConn
  BY DEF OwnInv, TypeOK, CallTypes, PeerTypes, RequestTypes, ConnIds, NoConn
<1>4. \A q \in Clients : Waits(q, c) => q = p
  BY <1>1, <1>3 DEF Waits, OwnInv, HeldByOne
<1>5. ASSUME c \notin tainted
      PROVE  /\ toClient[c] = <<r>> /\ delivered[r] > 0
             /\ r \notin toServer[c] /\ r \notin inHand[c]
  BY <1>1, <1>2, <1>4, <1>5 DEF Answered
<1>6. c \notin tainted => toClient'[c] = <<>> /\ res'[p] = r
  <2>1. toClient'[c] = Tail(toClient[c]) /\ res'[p] = Head(toClient[c])
    BY <1>2, <1>3
  <2>2. Tail(<<r>>) = <<>> /\ Head(<<r>>) = r
    OBVIOUS
  <2>. QED
    BY <1>5, <2>1, <2>2
<1>7. \A q \in Clients, d \in ConnIds : d # c => (Waits(q, d) => Waits(q, d)')
  BY <1>1, <1>2, <1>3 DEF Waits
<1>8. Asked'
  <2>. SUFFICES ASSUME NEW d \in ConnIds, sock[d] = "open", d \notin tainted,
                       NEW s \in Requests, Kind(s) = "twoWay",
                       s \in toServer[d] \/ s \in inHand[d]
                PROVE  /\ \E q \in Clients : Waits(q, d)' /\ req[q] = s
                       /\ s \notin toServer[d] \/ s \notin inHand[d]
    BY <1>2 DEF Asked
  <2>1. CASE d = c
    BY <1>1, <1>4, <1>5, <2>1 DEF Asked
  <2>2. CASE d # c
    BY <1>7, <2>2 DEF Asked
  <2>. QED
    BY <2>1, <2>2
<1>9. Answered'
  <2>. SUFFICES ASSUME NEW d \in ConnIds, sock[d] = "open", d \notin tainted
                PROVE  /\ \A s \in inHand[d] : delivered[s] > 0
                       /\ toClient'[d] # <<>> =>
                            \E q \in Clients :
                               /\ Waits(q, d)' /\ toClient'[d] = <<req[q]>>
                               /\ delivered[req[q]] > 0
                               /\ req[q] \notin toServer[d] /\ req[q] \notin inHand[d]
    BY <1>2 DEF Answered
  <2>1. CASE d = c
    BY <1>6, <2>1 DEF Answered
  <2>2. CASE d # c
    BY <1>2, <1>7, <2>2 DEF Answered
  <2>. QED
    BY <2>1, <2>2
<1>10. OwnResponse'
  <2>. SUFFICES ASSUME NEW q \in Clients, pc'[q] = "finish", ~failed[q],
                       Kind(req[q]) = "twoWay"
                PROVE  \/ res'[q] = req[q] /\ delivered[req[q]] > 0
                       \/ held[q] \in tainted
    BY <1>2 DEF OwnResponse
  <2>1. CASE q = p
    BY <1>1, <1>5, <1>6, <2>1
  <2>2. CASE q # p
    BY <1>2, <2>2 DEF OwnResponse
  <2>. QED
    BY <2>1, <2>2
<1>. QED
  BY <1>8, <1>9, <1>10

LEMMA ServerTalk ==
    ASSUME OwnInv, Asked, Answered, OwnResponse, NEW c \in ConnIds,
           \/ ServerClose(c)
           \/ \E r \in toServer[c] : ServerRecv(c, r)
           \/ \E r \in inHand[c] : ServerReply(c, r)
    PROVE  Asked' /\ Answered' /\ OwnResponse'
<1>1. /\ toServer \in [ConnIds -> SUBSET Requests]
      /\ inHand \in [ConnIds -> SUBSET Requests]
      /\ toClient \in [ConnIds -> Seq(Requests)]
      /\ delivered \in [Requests -> Nat]
  BY DEF OwnInv, TypeOK, PeerTypes
<1>2. /\ UNCHANGED <<sock, pc, held, req, res, failed>>
      /\ tainted \subseteq tainted'
  <2>1. CASE ServerClose(c)
    BY <2>1 DEF ServerClose, sockVars, callVars, histVars
  <2>2. CASE \E r \in toServer[c] : ServerRecv(c, r)
    BY <2>2 DEF ServerRecv, sockVars, callVars, histVars
  <2>3. CASE \E r \in inHand[c] : ServerReply(c, r)
    BY <2>3 DEF ServerReply, sockVars, callVars
  <2>. QED
    BY <2>1, <2>2, <2>3
<1>3. \A s \in Requests : delivered[s] > 0 => delivered'[s] > 0
  <2>1. CASE ServerClose(c) \/ \E r \in inHand[c] : ServerReply(c, r)
    BY <2>1 DEF ServerClose, ServerReply
  <2>2. ASSUME NEW r \in toServer[c], ServerRecv(c, r)
        PROVE  \A s \in Requests : delivered[s] > 0 => delivered'[s] > 0
    <3>1. r \in Requests /\ delivered' = [delivered EXCEPT ![r] = @ + 1]
      BY <1>1, <2>2 DEF ServerRecv
    <3>. QED
      BY <1>1, <3>1
  <2>. QED
    BY <2>1, <2>2
<1>4. OwnResponse'
  BY <1>2, <1>3, QuietResponse
<1>5. \A q \in Clients, d \in ConnIds : Waits(q, d)' <=> Waits(q, d)
  BY <1>2 DEF Waits
<1>6. CASE ServerClose(c)
  <2>1. /\ UNCHANGED <<toClient, delivered, tainted>>
        /\ \A d \in ConnIds : toServer'[d] \subseteq toServer[d] /\ inHand'[d] \subseteq inHand[d]
    BY <1>1, <1>6 DEF ServerClose, histVars
  <2>2. Asked'
    BY <1>2, <1>5, <2>1 DEF Asked
  <2>3. Answered'
    BY <1>2, <1>5, <2>1 DEF Answered
  <2>. QED
    BY <1>4, <2>2, <2>3
<1>7. ASSUME NEW r \in toServer[c], ServerRecv(c, r) PROVE Asked' /\ Answered'
  <2>1. /\ UNCHANGED <<toClient, tainted>> /\ r \in Requests
        /\ toServer' = [toServer EXCEPT ![c] = @ \ {r}]
        /\ delivered'[r] > 0
        /\ \A d \in ConnIds :
              inHand'[d] = inHand[d] \/ (d = c /\ inHand'[d] = inHand[d] \cup {r})
    BY <1>1, <1>7 DEF ServerRecv, histVars
  <2>2. Asked'
    <3>. SUFFICES ASSUME NEW d \in ConnIds, sock[d] = "open", d \notin tainted,
                         NEW s \in Requests, Kind(s) = "twoWay",
                         s \in toServer'[d] \/ s \in inHand'[d]
                  PROVE  /\ \E q \in Clients : Waits(q, d) /\ req[q] = s
                         /\ s \notin toServer'[d] \/ s \notin inHand'[d]
      BY <1>2, <1>5, <2>1 DEF Asked
    <3>1. CASE d = c /\ s = r
      BY <1>1, <2>1, <3>1 DEF Asked
    <3>2. CASE d # c \/ s # r
      <4>1. /\ s \in toServer'[d] <=> s \in toServer[d]
            /\ s \in inHand'[d] <=> s \in inHand[d]
        BY <1>1, <2>1, <3>2
      <4>. QED
        BY <4>1 DEF Asked
    <3>. QED
      BY <3>1, <3>2
  <2>3. Answered'
    <3>. SUFFICES ASSUME NEW d \in ConnIds, sock[d] = "open", d \notin tainted
                  PROVE  /\ \A s \in inHand'[d] : delivered'[s] > 0
                         /\ toClient[d] # <<>> =>
                              \E q \in Clients :
                                 /\ Waits(q, d) /\ toClient[d] = <<req[q]>>
                                 /\ delivered'[req[q]] > 0
                                 /\ req[q] \notin toServer'[d]
                                 /\ req[q] \notin inHand'[d]
      BY <1>2, <1>5, <2>1 DEF Answered
    <3>1. \A s \in inHand'[d] : delivered'[s] > 0
      BY <1>1, <1>3, <2>1 DEF Answered
    <3>2. ASSUME toClient[d] # <<>>
          PROVE  \E q \in Clients :
                    /\ Waits(q, d) /\ toClient[d] = <<req[q]>> /\ delivered'[req[q]] > 0
                    /\ req[q] \notin toServer'[d] /\ req[q] \notin inHand'[d]
      <4>1. PICK q \in Clients :
               /\ Waits(q, d) /\ toClient[d] = <<req[q]>> /\ delivered[req[q]] > 0
               /\ req[q] \notin toServer[d] /\ req[q] \notin inHand[d]
        BY <3>2 DEF Answered
      <4>2. req[q] \in Requests
        BY <4>1 DEF Waits, OwnInv, TypeOK, CallShape
      <4>3. req[q] \notin toServer'[d] /\ req[q] \notin inHand'[d]
        BY <1>1, <2>1, <4>1
      <4>. QED
        BY <1>3, <4>1, <4>2, <4>3
    <3>. QED
      BY <3>1, <3>2
  <2>. QED
    BY <2>2, <2>3
<1>8. ASSUME NEW r \in inHand[c], ServerReply(c, r) PROVE Asked' /\ Answered'
  <2>1. /\ UNCHANGED <<toServer, delivered>> /\ r \in Requests
        /\ inHand' = [inHand EXCEPT ![c] = @ \ {r}]
        /\ toClient' = [toClient EXCEPT ![c] = Append(@, r)]
        /\ c \notin tainted' => Kind(r) = "twoWay"
    <3>1. r \in Requests
      BY <1>1
    <3>. QED
      BY <1>8, <3>1, KindOf DEF ServerReply
  <2>2. Asked'
    <3>1. \A d \in ConnIds : inHand'[d] \subseteq inHand[d]
      BY <1>1, <2>1
    <3>. QED
      BY <1>2, <1>5, <2>1, <3>1 DEF Asked
  <2>3. ASSUME sock[c] = "open", c \notin tainted'
        PROVE  /\ toClient'[c] = <<r>> /\ delivered[r] > 0
               /\ \E q \in Clients : Waits(q, c) /\ req[q] = r
               /\ r \notin toServer[c] /\ r \notin inHand'[c]
    <3>1. c \notin tainted /\ Kind(r) = "twoWay"
      BY <1>2, <2>1, <2>3
    <3>2. PICK q \in Clients : Waits(q, c) /\ req[q] = r /\ r \notin toServer[c]
      BY <2>1, <2>3, <3>1 DEF Asked
    <3>3. toClient[c] = <<>>
      <4>1. \A o \in Clients : Waits(o, c) => o = q
        BY <3>2 DEF Waits, OwnInv, HeldByOne, ConnIds, NoConn
      <4>. QED
        BY <2>3, <3>1, <3>2, <4>1 DEF Answered
    <3>4. toClient'[c] = <<r>>
      BY <1>1, <2>1, <3>3
    <3>5. delivered[r] > 0
      BY <2>3, <3>1 DEF Answered
    <3>6. r \notin inHand'[c]
      BY <1>1, <2>1
    <3>. QED
      BY <3>2, <3>4, <3>5, <3>6
  <2>4. Answered'
    <3>. SUFFICES ASSUME NEW d \in ConnIds, sock[d] = "open", d \notin tainted'
                  PROVE  /\ \A s \in inHand'[d] : delivered[s] > 0
                         /\ toClient'[d] # <<>> =>
                              \E q \in Clients :
                                 /\ Waits(q, d) /\ toClient'[d] = <<req[q]>>
                                 /\ delivered[req[q]] > 0
                                 /\ req[q] \notin toServer[d]
                                 /\ req[q] \notin inHand'[d]
      BY <1>2, <1>5, <2>1 DEF Answered
    <3>1. d \notin tainted
      BY <1>2
    <3>2. \A s \in inHand'[d] : s \in inHand[d]
      BY <1>1, <2>1
    <3>3. \A s \in inHand'[d] : delivered[s] > 0
      BY <3>1, <3>2 DEF Answered
    <3>4. CASE d = c
      BY <2>3, <3>3, <3>4
    <3>5. CASE d # c
      <4>1. toClient'[d] = toClient[d]
        BY <1>1, <2>1, <3>5
      <4>. QED
        BY <3>1, <3>2, <3>3, <4>1 DEF Answered
    <3>. QED
      BY <3>4, <3>5
  <2>. QED
    BY <2>2, <2>4
<1>. QED
  BY <1>4, <1>6, <1>7, <1>8

LEMMA ExchangeStep ==
    OwnInv /\ Placed /\ Asked /\ Answered /\ OwnResponse /\ [Next]_vars
       => Asked' /\ Answered' /\ OwnResponse'
<1>. SUFFICES ASSUME OwnInv, Placed, Asked, Answered, OwnResponse, [Next]_vars
              PROVE  Asked' /\ Answered' /\ OwnResponse'
  OBVIOUS
<1>1. ASSUME UNCHANGED <<pc, sock, held, req, res, failed, toServer, inHand, toClient,
                         delivered, tainted>>
      PROVE  Asked' /\ Answered' /\ OwnResponse'
  BY <1>1 DEF Asked, Answered, OwnResponse, Waits
<1>. QED
  BY <1>1, QuietTalk, DialTalk, CloseTalk, SendTalk, RecvTalk, ServerTalk
  DEF Next, ClientStep, ServerStep, vars, SetLimit, sockVars, peerVars, callVars, histVars

(***************************************************************************)
(* A two-way call that succeeds got the response to its own request, which *)
(* the peer did receive, unless the peer answered a one-way request on the *)
(* connection before: pooling, retrying and flushing never hand a caller   *)
(* the answer to another's request.                                        *)
(***************************************************************************)
THEOREM ResponsesMatch == Spec => []OwnResponse
<1>1. Init => Asked /\ Answered /\ OwnResponse
  BY DEF Init, Asked, Answered, OwnResponse
<1>2. OwnInv /\ Placed /\ (Asked /\ Answered /\ OwnResponse) /\ [Next]_vars
         => (Asked /\ Answered /\ OwnResponse)'
  BY ExchangeStep
<1>. QED
  BY <1>1, <1>2, OwnInvAlways, PlacedAlways, PTL DEF Spec

-----------------------------------------------------------------------------
(***************************************************************************)
(* The requests.  A caller's request carries its name and a number that    *)
(* has been given out, so no two callers make the same one; one whose      *)
(* number has not been given out is nowhere.                               *)
(***************************************************************************)
Sent(r) == {c \in ConnIds : r \in toServer[c]}

Numbered ==
    \A p \in Clients :
       /\ pc[p] = "idle" => req[p] = NoReq /\ attempt[p] = 1
       /\ pc[p] # "idle" => req[p][1] = p /\ req[p][2] <= calls

Unused ==
    \A r \in Requests : r[2] > calls => delivered[r] = 0 /\ Sent(r) = {}

LEMMA RequestParts == \A r \in Requests : r[1] \in Clients /\ r[2] \in Nat /\ r[3] \in Kinds
  BY ClientAssumption DEF Requests

LEMMA CounterTypes ==
    ASSUME OwnInv
    PROVE  /\ attempt \in [Clients -> 1 .. MaxBadConnRetries]
           /\ dials \in [Clients -> Nat] /\ calls \in Nat
           /\ old \in [ConnIds -> BOOLEAN] /\ freed \in [Clients -> SUBSET ConnIds]
           /\ addr \in [Clients -> Addrs]
           /\ toServer \in [ConnIds -> SUBSET Requests]
           /\ delivered \in [Requests -> Nat]
           /\ pool \in [Addrs -> Seq(ConnIds)]
           /\ NoConn \notin ConnIds
  BY DEF OwnInv, TypeOK, CallTypes, SockTypes, HistTypes, PeerTypes, PoolTypes,
         ConnIds, NoConn

\* a step of p and what is left of its call: others are not concerned
OthersKept(p) ==
    \A q \in Clients : q # p =>
       /\ pc'[q] = pc[q] /\ req'[q] = req[q] /\ attempt'[q] = attempt[q]
       /\ held'[q] = held[q] /\ dials'[q] = dials[q]
Returned(p) == /\ pc'[p] = "idle" /\ req'[p] = NoReq /\ attempt'[p] = 1
               /\ held'[p] = NoConn /\ dials'[p] = 0
GoesOn(p)   == pc'[p] # "idle" /\ req'[p] = req[p]

LEMMA ReturnFacts ==
    ASSUME OwnInv, NEW p \in Clients, Return(p)
    PROVE  OthersKept(p) /\ Returned(p)
BY CallVarTypes, CounterTypes DEF Return, Goto, OthersKept, Returned

LEMMA CallerStep ==
    ASSUME OwnInv, NEW p \in Clients, ClientStep(p)
    PROVE  /\ pc[p] # "idle" /\ UNCHANGED <<calls, addr>>
           /\ OthersKept(p) /\ (Returned(p) \/ GoesOn(p))
<1>. USE CallVarTypes, CounterTypes
<1>1. CASE GetPooled(p) \/ GetMiss(p)
  BY <1>1 DEF GetPooled, GetMiss, Goto, callVars, OthersKept, GoesOn
<1>2. ASSUME NEW b \in BOOLEAN, DialOk(p, b)
      PROVE  /\ pc[p] # "idle" /\ UNCHANGED <<calls, addr>>
             /\ OthersKept(p) /\ (Returned(p) \/ GoesOn(p))
  <2>1. CASE Return(p)
    BY <1>2, <2>1, ReturnFacts DEF DialOk
  <2>2. CASE ~Return(p)
    BY <1>2, <2>2 DEF DialOk, Goto, OthersKept, GoesOn
  <2>. QED
    BY <2>1, <2>2
<1>3. CASE DialFail(p) \/ FreeToPool(p) \/ CloseHeld(p)
  BY <1>3, ReturnFacts DEF DialFail, FreeToPool, CloseHeld
<1>4. CASE SetDeadlineOk(p) \/ SetDeadlineFail(p) \/ RecvOk(p)
  BY <1>4 DEF SetDeadlineOk, SetDeadlineFail, RecvOk, Goto, callVars, OthersKept, GoesOn
<1>5. CASE \E slow \in BOOLEAN : SendOk(p, slow) \/ SendFail(p, slow) \/ RecvFail(p, slow)
  BY <1>5 DEF SendOk, SendFail, RecvFail, AfterError, Goto, callVars, OthersKept, GoesOn
<1>6. CASE Clear(p)
  BY <1>6 DEF Clear, Goto, callVars, OthersKept, GoesOn
<1>. QED
  BY <1>1, <1>2, <1>3, <1>4, <1>5, <1>6 DEF ClientStep

LEMMA CallFacts ==
    ASSUME OwnInv, NEW p \in Clients, NEW kind \in Kinds, NEW a \in Addrs, Call(p, kind, a)
    PROVE  /\ OthersKept(p) /\ pc[p] = "idle" /\ pc'[p] = "get" /\ calls' = calls + 1
           /\ req'[p] = <<p, calls + 1, kind>> /\ req'[p] \in Requests
           /\ UNCHANGED <<attempt, held, dials, pool, old, freed, delivered, toServer>>
           /\ \A q \in Clients : q # p => addr'[q] = addr[q]
<1>1. <<p, calls + 1, kind>> \in Requests
  <2>1. calls + 1 \in 1 .. MaxCalls
    BY ClientAssumption, CounterTypes DEF Call
  <2>. QED
    BY <2>1 DEF Requests
<1>. QED
  BY <1>1, CallVarTypes, CounterTypes
  DEF Call, Goto, OthersKept, poolVars, sockVars, peerVars, histVars

\* the steps that send, receive or lose a frame
LEMMA FrameFacts ==
    ASSUME OwnInv, [Next]_vars
    PROVE  \/ UNCHANGED <<toServer, delivered>>
           \/ \E p \in Clients, slow \in BOOLEAN : SendOk(p, slow)
           \/ \E c \in ConnIds : ServerClose(c) \/ \E r \in toServer[c] : ServerRecv(c, r)
<1>1. ASSUME NEW p \in Clients, ClientStep(p), \A slow \in BOOLEAN : ~SendOk(p, slow)
      PROVE  UNCHANGED <<toServer, delivered>>
  BY <1>1
  DEF ClientStep, peerVars, GetPooled, GetMiss, DialOk, DialFail, SetDeadlineOk,
      SetDeadlineFail, SendFail, RecvOk, RecvFail, Clear, FreeToPool, CloseHeld
<1>2. ASSUME NEW c \in ConnIds, NEW r \in inHand[c], ServerReply(c, r)
      PROVE  UNCHANGED <<toServer, delivered>>
  BY <1>2 DEF ServerReply
<1>3. ASSUME NEW p \in Clients, NEW kind \in Kinds, NEW a \in Addrs, Call(p, kind, a)
      PROVE  UNCHANGED <<toServer, delivered>>
  BY <1>3 DEF Call, peerVars
<1>4. ASSUME NEW l \in Limits, SetLimit(l) PROVE UNCHANGED <<toServer, delivered>>
  BY <1>4 DEF SetLimit, peerVars
<1>. QED
  BY <1>1, <1>2, <1>3, <1>4 DEF Next, ServerStep, vars

\* the peer's steps, and those of nobody
LEMMA PeerFacts ==
    ASSUME [Next]_vars
    PROVE  \/ \E p \in Clients : ClientStep(p)
           \/ \E p \in Clients, kind \in Kinds, a \in Addrs : Call(p, kind, a)
           \/ UNCHANGED <<calls, addr, pc, req, attempt, held, dials, pool, old, freed>>
BY DEF Next, ServerStep, vars, SetLimit, ServerRecv, ServerReply, ServerClose, poolVars,
       sockVars, callVars, histVars

LEMMA NumberedStep ==
    OwnInv /\ Numbered /\ [Next]_vars => Numbered' /\ calls' \in Nat /\ calls' >= calls
<1>. SUFFICES ASSUME OwnInv, Numbered, [Next]_vars
              PROVE  Numbered' /\ calls' \in Nat /\ calls' >= calls
  OBVIOUS
<1>1. ASSUME NEW p \in Clients, ClientStep(p)
      PROVE  Numbered' /\ calls' = calls
  BY <1>1, CallerStep DEF Numbered, OthersKept, Returned, GoesOn
<1>2. ASSUME NEW p \in Clients, NEW kind \in Kinds, NEW a \in Addrs, Call(p, kind, a)
      PROVE  Numbered' /\ calls' = calls + 1
  <2>1. \A q \in Clients : pc[q] # "idle" => req[q][2] \in Nat
    BY RequestParts DEF OwnInv, TypeOK, CallShape
  <2>2. /\ req'[p][1] = p /\ req'[p][2] = calls + 1 /\ pc'[p] = "get"
        /\ OthersKept(p) /\ calls' = calls + 1 /\ attempt' = attempt
    <3>1. req'[p] = <<p, calls + 1, kind>>
      BY <1>2, CallFacts
    <3>. QED
      BY <1>2, <3>1, CallFacts
  <2>3. ASSUME NEW q \in Clients, q # p, pc'[q] # "idle" PROVE req'[q][2] <= calls + 1
    <3>1. req[q][2] \in Nat /\ req[q][2] <= calls /\ req'[q] = req[q]
      BY <2>1, <2>2, <2>3 DEF Numbered, OthersKept
    <3>. QED
      BY <3>1, CounterTypes
  <2>4. ASSUME NEW q \in Clients, q # p
        PROVE  /\ pc'[q] = "idle" => req'[q] = NoReq /\ attempt'[q] = 1
               /\ pc'[q] # "idle" => req'[q][1] = q /\ req'[q][2] <= calls'
    BY <2>2, <2>3, <2>4 DEF Numbered, OthersKept
  <2>5. calls + 1 <= calls'
    BY <2>2, CounterTypes
  <2>. QED
    BY <2>2, <2>4, <2>5 DEF Numbered
<1>3. ASSUME UNCHANGED <<calls, pc, req, attempt>> PROVE Numbered'
  BY <1>3 DEF Numbered
<1>. QED
  BY <1>1, <1>2, <1>3, PeerFacts, CounterTypes

LEMMA SentTo ==
    ASSUME OwnInv, NEW p \in Clients, NEW slow \in BOOLEAN, SendOk(p, slow)
    PROVE  /\ delivered' = delivered /\ pc[p] = "send" /\ req[p] \in Requests
           /\ pc'[p] \in {"recv", "finish"} /\ attempt' = attempt
           /\ Sent(req[p])' \subseteq Sent(req[p]) \cup {held[p]}
           /\ \A s \in Requests : s # req[p] => Sent(s)' = Sent(s)
<1>1. PICK c \in ConnIds, r \in Requests : c = held[p] /\ r = req[p]
  BY DEF SendOk, OwnInv, TypeOK, CallTypes, CallShape
<1>2. /\ \A d \in ConnIds : d # c => toServer'[d] = toServer[d]
      /\ toServer'[c] = toServer[c] \/ toServer'[c] = toServer[c] \cup {r}
      /\ req' = req
  BY <1>1, CounterTypes DEF SendOk, callVars
<1>3. Sent(r)' \subseteq Sent(r) \cup {c} /\ \A s \in Requests : s # r => Sent(s)' = Sent(s)
  BY <1>2 DEF Sent
<1>4. Sent(req[p])' = Sent(r)'
  BY <1>1, <1>2 DEF Sent
<1>. QED
  BY <1>1, <1>3, <1>4, CallVarTypes DEF SendOk, Goto

LEMMA ReceivedFrom ==
    ASSUME OwnInv, NEW c \in ConnIds, NEW r \in toServer[c], ServerRecv(c, r)
    PROVE  /\ r \in Requests /\ c \in Sent(r) /\ Sent(r)' = Sent(r) \ {c}
           /\ delivered'[r] = delivered[r] + 1
           /\ \A s \in Requests : s # r => Sent(s)' = Sent(s) /\ delivered'[s] = delivered[s]
<1>1. r \in Requests
  BY CounterTypes
<1>2. /\ toServer' = [toServer EXCEPT ![c] = @ \ {r}]
      /\ delivered' = [delivered EXCEPT ![r] = @ + 1]
  BY DEF ServerRecv
<1>. QED
  BY <1>1, <1>2, CounterTypes DEF Sent

LEMMA LostOn ==
    ASSUME OwnInv, NEW c \in ConnIds, ServerClose(c)
    PROVE  /\ delivered' = delivered
           /\ \A s \in Requests : Sent(s)' \subseteq Sent(s)
BY CounterTypes DEF ServerClose, Sent

LEMMA UnusedStep ==
    OwnInv /\ Numbered /\ Unused /\ calls' \in Nat /\ calls' >= calls /\ [Next]_vars => Unused'
<1>. SUFFICES ASSUME OwnInv, Numbered, Unused, calls' \in Nat, calls' >= calls, [Next]_vars,
                     NEW s \in Requests, s[2] > calls'
              PROVE  delivered'[s] = 0 /\ Sent(s)' = {}
  BY DEF Unused
<1>1. s[2] > calls /\ delivered[s] = 0 /\ Sent(s) = {}
  <2>1. s[2] \in Nat
    BY RequestParts
  <2>. QED
    BY <2>1, CounterTypes DEF Unused
<1>2. CASE UNCHANGED <<toServer, delivered>>
  BY <1>1, <1>2 DEF Sent
<1>3. ASSUME NEW p \in Clients, NEW slow \in BOOLEAN, SendOk(p, slow)
      PROVE  delivered'[s] = 0 /\ Sent(s)' = {}
  <2>1. req[p][2] <= calls /\ req[p] \in Requests
    BY <1>3, SentTo DEF Numbered
  <2>2. s # req[p]
    BY <1>1, <2>1, CounterTypes, RequestParts
  <2>. QED
    BY <1>1, <1>3, <2>2, SentTo
<1>4. ASSUME NEW c \in ConnIds, NEW r \in toServer[c], ServerRecv(c, r)
      PROVE  delivered'[s] = 0 /\ Sent(s)' = {}
  BY <1>1, <1>4, ReceivedFrom
<1>5. ASSUME NEW c \in ConnIds, ServerClose(c)
      PROVE  delivered'[s] = 0 /\ Sent(s)' = {}
  BY <1>1, <1>5, LostOn
<1>. QED
  BY <1>2, <1>3, <1>4, <1>5, FrameFacts

-----------------------------------------------------------------------------
(***************************************************************************)
(* The times a request was received and may still be received: no more     *)
(* than the attempts of the call that have got as far as sending.          *)
(***************************************************************************)
Turns(p) == IF pc[p] \in {"get", "dial", "deadline", "send"} THEN attempt[p] - 1
            ELSE attempt[p]
Load(r)  == delivered[r] + Cardinality(Sent(r))

SendsCounted ==
    /\ \A r \in Requests : Load(r) <= MaxBadConnRetries
    /\ \A p \in Clients : pc[p] # "idle" => Load(req[p]) <= Turns(p)

LEMMA LoadTypes ==
    ASSUME OwnInv, NEW r \in Requests
    PROVE  /\ IsFiniteSet(Sent(r)) /\ Cardinality(Sent(r)) \in Nat
           /\ delivered[r] \in Nat
<1>1. IsFiniteSet(ConnIds)
  BY FS_Interval, ClientAssumption DEF ConnIds
<1>2. Sent(r) \in SUBSET ConnIds
  BY DEF Sent
<1>3. IsFiniteSet(Sent(r))
  BY <1>1, <1>2, FS_Subset
<1>. QED
  BY <1>3, FS_CardinalityType, CounterTypes

\* one connection more that may still deliver a request
LEMMA LoadOneMore ==
    ASSUME OwnInv, NEW r \in Requests, NEW c,
           delivered' = delivered, Sent(r)' \subseteq Sent(r) \cup {c}
    PROVE  Load(r)' \in Nat /\ Load(r) \in Nat /\ Load(r)' <= Load(r) + 1
<1>1. IsFiniteSet(Sent(r)) /\ Cardinality(Sent(r)) \in Nat /\ delivered[r] \in Nat
  BY LoadTypes
<1>2. /\ IsFiniteSet(Sent(r) \cup {c})
      /\ Cardinality(Sent(r) \cup {c}) = Cardinality(Sent(r))
         \/ Cardinality(Sent(r) \cup {c}) = Cardinality(Sent(r)) + 1
  BY <1>1, FS_AddElement
<1>3. /\ Cardinality(Sent(r)') \in Nat
      /\ Cardinality(Sent(r)') <= Cardinality(Sent(r) \cup {c})
  BY <1>2, FS_Subset, FS_CardinalityType
<1>. QED
  BY <1>1, <1>2, <1>3 DEF Load

\* a frame is received: what may still be delivered has been
LEMMA LoadMoved ==
    ASSUME OwnInv, NEW r \in Requests, NEW c \in Sent(r), Sent(r)' = Sent(r) \ {c},
           delivered'[r] = delivered[r] + 1
    PROVE  Load(r)' = Load(r)
<1>1. IsFiniteSet(Sent(r)) /\ Cardinality(Sent(r)) \in Nat /\ delivered[r] \in Nat
  BY LoadTypes
<1>2. Cardinality(Sent(r)') = Cardinality(Sent(r)) - 1
  BY <1>1, FS_RemoveElement
<1>. QED
  BY <1>1, <1>2 DEF Load

LEMMA LoadLess ==
    ASSUME OwnInv, NEW r \in Requests, delivered' = delivered, Sent(r)' \subseteq Sent(r)
    PROVE  Load(r)' \in Nat /\ Load(r)' <= Load(r)
<1>1. IsFiniteSet(Sent(r)) /\ Cardinality(Sent(r)) \in Nat /\ delivered[r] \in Nat
  BY LoadTypes
<1>2. Cardinality(Sent(r)') \in Nat /\ Cardinality(Sent(r)') <= Cardinality(Sent(r))
  BY <1>1, FS_Subset, FS_CardinalityType
<1>. QED
  BY <1>1, <1>2 DEF Load

LEMMA LoadSame ==
    ASSUME NEW r \in Requests, Sent(r)' = Sent(r), delivered'[r] = delivered[r]
    PROVE  Load(r)' = Load(r)
BY DEF Load

\* the request of a caller that goes on, and how far it got
LEMMA TurnsGrow ==
    ASSUME OwnInv, NEW p \in Clients, ClientStep(p),
           \A slow \in BOOLEAN : ~SendOk(p, slow), pc'[p] # "idle"
    PROVE  Turns(p)' >= Turns(p) /\ Turns(p)' \in Nat /\ Turns(p) \in Nat
<1>. USE CallVarTypes, CounterTypes, ClientAssumption DEF Turns, Goto
<1>1. CASE GetPooled(p) \/ GetMiss(p)
  BY <1>1 DEF GetPooled, GetMiss
<1>2. ASSUME NEW b \in BOOLEAN, DialOk(p, b), ~Return(p)
      PROVE  Turns(p)' >= Turns(p) /\ Turns(p)' \in Nat /\ Turns(p) \in Nat
  BY <1>2 DEF DialOk
<1>3. CASE SetDeadlineOk(p) \/ SetDeadlineFail(p) \/ RecvOk(p)
  BY <1>3 DEF SetDeadlineOk, SetDeadlineFail, RecvOk
<1>4. CASE \E slow \in BOOLEAN : SendFail(p, slow) \/ RecvFail(p, slow)
  BY <1>4 DEF SendFail, RecvFail, AfterError
<1>5. CASE Clear(p)
  BY <1>5 DEF Clear, NextAttempt
<1>6. ~Return(p)
  BY ReturnFacts DEF Returned
<1>. QED
  BY <1>1, <1>2, <1>3, <1>4, <1>5, <1>6 DEF ClientStep, DialFail, FreeToPool, CloseHeld

LEMMA CountStep ==
    OwnInv /\ Numbered /\ Unused /\ SendsCounted /\ [Next]_vars => SendsCounted'
<1>. SUFFICES ASSUME OwnInv, Numbered, Unused, SendsCounted, [Next]_vars
              PROVE  SendsCounted'
  OBVIOUS
<1>1. /\ \A q \in Clients : pc[q] # "idle" => req[q] \in Requests /\ req[q][1] = q
      /\ \A r \in Requests : Load(r) \in Nat
      /\ \A q \in Clients : attempt[q] \in Nat /\ Turns(q) \in Int
                            /\ Turns(q) <= MaxBadConnRetries
      /\ MaxBadConnRetries \in Nat
  <2>1. \A q \in Clients : attempt[q] \in Nat /\ attempt[q] <= MaxBadConnRetries
    BY CounterTypes, ClientAssumption
  <2>2. \A q \in Clients : Turns(q) = attempt[q] \/ Turns(q) = attempt[q] - 1
    BY DEF Turns
  <2>3. \A q \in Clients : pc[q] # "idle" => req[q] \in Requests /\ req[q][1] = q
    BY DEF OwnInv, TypeOK, CallShape, Numbered
  <2>4. \A r \in Requests : Load(r) \in Nat
    BY LoadTypes DEF Load
  <2>. QED
    BY <2>1, <2>2, <2>3, <2>4, ClientAssumption
\* no frame moves
<1>2. ASSUME UNCHANGED <<toServer, delivered>> PROVE SendsCounted'
  <2>1. \A r \in Requests : Load(r)' = Load(r)
    BY <1>2, LoadSame DEF Sent
  <2>2. ASSUME NEW q \in Clients, pc'[q] # "idle",
               pc[q] # "idle", req'[q] = req[q], Turns(q)' \in Int, Turns(q)' >= Turns(q)
        PROVE  Load(req[q])' <= Turns(q)'
    <3>1. PICK r \in Requests : r = req[q]
      BY <1>1, <2>2
    <3>2. Load(req[q])' = Load(r)'
      BY <2>2, <3>1 DEF Load, Sent
    <3>3. Load(r) <= Turns(q)
      BY <2>2, <3>1 DEF SendsCounted
    <3>. QED
      BY <1>1, <2>1, <2>2, <3>2, <3>3
  <2>3. ASSUME NEW p \in Clients, OthersKept(p),
               pc'[p] # "idle" => Load(req[p])' <= Turns(p)'
        PROVE  SendsCounted'
    <3>1. ASSUME NEW q \in Clients, q # p, pc'[q] # "idle"
          PROVE  Load(req[q])' <= Turns(q)'
      <4>1. pc[q] # "idle" /\ req'[q] = req[q] /\ Turns(q)' = Turns(q)
        BY <2>3, <3>1 DEF OthersKept, Turns
      <4>. QED
        BY <1>1, <2>2, <3>1, <4>1
    <3>. QED
      BY <2>1, <2>3, <3>1 DEF SendsCounted
  <2>4. ASSUME NEW p \in Clients, ClientStep(p), \A slow \in BOOLEAN : ~SendOk(p, slow)
        PROVE  SendsCounted'
    <3>1. OthersKept(p) /\ pc[p] # "idle" /\ (pc'[p] # "idle" => req'[p] = req[p])
      BY <2>4, CallerStep DEF Returned, GoesOn
    <3>2. pc'[p] # "idle" => Load(req[p])' <= Turns(p)'
      BY <2>2, <2>4, <3>1, TurnsGrow
    <3>. QED
      BY <2>3, <3>1, <3>2
  <2>5. ASSUME NEW p \in Clients, NEW slow \in BOOLEAN, SendOk(p, slow)
        PROVE  SendsCounted'
    <3>1. OthersKept(p) /\ pc[p] # "idle" /\ (pc'[p] # "idle" => req'[p] = req[p])
      BY <2>5, CallerStep DEF Returned, GoesOn, ClientStep
    <3>2. Turns(p)' \in Int /\ Turns(p)' >= Turns(p)
      BY <1>1, <2>5, SentTo DEF Turns
    <3>3. pc'[p] # "idle" => Load(req[p])' <= Turns(p)'
      BY <2>2, <3>1, <3>2
    <3>. QED
      BY <2>3, <3>1, <3>3
  <2>6. ASSUME NEW p \in Clients, NEW kind \in Kinds, NEW a \in Addrs, Call(p, kind, a)
        PROVE  SendsCounted'
    <3>1. PICK r \in Requests : r = <<p, calls + 1, kind>> /\ r = req'[p]
      BY <2>6, CallFacts
    <3>2. r[2] = calls + 1 /\ calls + 1 > calls
      BY <3>1, CounterTypes
    <3>3. delivered[r] = 0 /\ Sent(r) = {}
      BY <3>2 DEF Unused
    <3>4. Cardinality(Sent(r)) = 0
      BY <3>3, FS_EmptySet
    <3>5. Load(r) = 0
      BY <3>3, <3>4 DEF Load
    <3>6. Turns(p)' = 0
      BY <2>6, CallFacts DEF Turns, Numbered
    <3>7. Load(req[p])' = Load(r)'
      BY <3>1 DEF Load, Sent
    <3>. QED
      BY <2>1, <2>3, <2>6, <3>5, <3>6, <3>7, CallFacts
  <2>7. ASSUME UNCHANGED <<pc, req, attempt>> PROVE SendsCounted'
    <3>1. \A q \in Clients : Turns(q)' = Turns(q)
      BY <2>7 DEF Turns
    <3>2. ASSUME NEW q \in Clients, pc'[q] # "idle" PROVE Load(req[q])' <= Turns(q)'
      BY <1>1, <2>2, <2>7, <3>1, <3>2
    <3>. QED
      BY <2>1, <3>2 DEF SendsCounted
  <2>. QED
    BY <2>4, <2>5, <2>6, <2>7, PeerFacts
\* a request is sent
<1>3. ASSUME NEW p \in Clients, NEW slow \in BOOLEAN, SendOk(p, slow)
      PROVE  SendsCounted'
  <2>1. PICK r, c : r \in Requests /\ r = req[p] /\ c = held[p]
    BY <1>3, SentTo
  <2>2. /\ delivered' = delivered /\ Sent(r)' \subseteq Sent(r) \cup {c}
        /\ \A s \in Requests : s # r => Sent(s)' = Sent(s)
        /\ OthersKept(p) /\ req'[p] = r /\ pc[p] # "idle"
        /\ Turns(p) = attempt[p] - 1 /\ Turns(p)' = attempt[p]
    <3>1. Sent(req[p])' = Sent(r)'
      BY <1>3, <2>1 DEF SendOk, callVars, Sent
    <3>. QED
      BY <1>3, <2>1, <3>1, SentTo, CallerStep DEF ClientStep, Returned, GoesOn, Turns
  <2>3. \A s \in Requests : s # r => Load(s)' = Load(s)
    BY <2>2, LoadSame
  <2>4. Load(r)' \in Nat /\ Load(r)' <= attempt[p] /\ r \in Requests
    <3>1. r \in Requests /\ Load(r) <= attempt[p] - 1
      BY <1>1, <2>1, <2>2 DEF SendsCounted
    <3>2. Load(r)' \in Nat /\ Load(r) \in Nat /\ Load(r)' <= Load(r) + 1
      BY <2>2, <3>1, LoadOneMore
    <3>. QED
      BY <1>1, <3>1, <3>2
  <2>5. attempt[p] <= MaxBadConnRetries /\ attempt[p] \in Nat
    BY CounterTypes, ClientAssumption
  <2>6. \A s \in Requests : Load(s)' <= MaxBadConnRetries
    BY <1>1, <2>3, <2>4, <2>5 DEF SendsCounted
  <2>7. ASSUME NEW q \in Clients, pc'[q] # "idle" PROVE Load(req[q])' <= Turns(q)'
    <3>1. CASE q = p
      <4>1. Load(req[q])' = Load(r)'
        BY <2>2, <3>1 DEF Load, Sent
      <4>. QED
        BY <2>2, <2>4, <3>1, <4>1
    <3>2. CASE q # p
      <4>1. pc[q] # "idle" /\ req'[q] = req[q] /\ Turns(q)' = Turns(q)
        BY <2>2, <2>7, <3>2 DEF OthersKept, Turns
      <4>2. PICK s \in Requests : s = req[q] /\ s # r
        BY <1>1, <2>1, <2>2, <3>2, <4>1
      <4>3. Load(req[q])' = Load(s)'
        BY <4>1, <4>2 DEF Load, Sent
      <4>4. Load(s) <= Turns(q)
        BY <4>1, <4>2 DEF SendsCounted
      <4>. QED
        BY <2>3, <4>1, <4>2, <4>3, <4>4
    <3>. QED
      BY <3>1, <3>2
  <2>. QED
    BY <2>6, <2>7 DEF SendsCounted
\* frames are received or lost
<1>4. ASSUME NEW c \in ConnIds, ServerClose(c) \/ \E r \in toServer[c] : ServerRecv(c, r)
      PROVE  SendsCounted'
  <2>1. ASSUME NEW s \in Requests PROVE Load(s)' \in Nat /\ Load(s)' <= Load(s)
    <3>1. CASE ServerClose(c)
      BY <3>1, LostOn, LoadLess
    <3>2. ASSUME NEW r \in toServer[c], ServerRecv(c, r) PROVE Load(s)' = Load(s)
      <4>1. CASE s = r
        BY <3>2, <4>1, ReceivedFrom, LoadMoved
      <4>2. CASE s # r
        BY <3>2, <4>2, ReceivedFrom, LoadSame
      <4>. QED
        BY <4>1, <4>2
    <3>. QED
      BY <1>1, <1>4, <3>1, <3>2
  <2>2. UNCHANGED <<pc, req, attempt>>
    BY <1>4 DEF ServerClose, ServerRecv, callVars
  <2>3. \A s \in Requests : Load(s)' <= MaxBadConnRetries
    BY <1>1, <2>1 DEF SendsCounted
  <2>4. ASSUME NEW q \in Clients, pc'[q] # "idle" PROVE Load(req[q])' <= Turns(q)'
    <3>1. PICK s \in Requests : s = req[q]
      BY <1>1, <2>2, <2>4
    <3>2. Load(req[q])' = Load(s)' /\ Turns(q)' = Turns(q)
      BY <2>2, <3>1 DEF Load, Sent, Turns
    <3>3. Load(s) <= Turns(q)
      BY <2>2, <2>4, <3>1 DEF SendsCounted
    <3>. QED
      BY <1>1, <2>1, <3>2, <3>3
  <2>. QED
    BY <2>3, <2>4 DEF SendsCounted
<1>. QED
  BY <1>2, <1>3, <1>4, FrameFacts

-----------------------------------------------------------------------------
(***************************************************************************)
(* The connections of a call.  What it dialled is new, and what is not old *)
(* is never retried; the pool a retry takes from holds only what was       *)
(* handed back since the flush.                                            *)
(***************************************************************************)
DialsOnce ==
    \A p \in Clients :
       /\ dials[p] \in {0, 1}
       /\ pc[p] \in {"idle", "get", "dial", "clear"} => dials[p] = 0
       /\ dials[p] = 1 => ~old[held[p]]

FreedKnown ==
    \A p \in Clients : attempt[p] > 1 =>
       \A i \in DOMAIN pool[addr[p]] : pool[addr[p]][i] \in freed[p]

Avoids == \A p \in Clients : RetryAvoidsFlushed(p)

RetryInv == DialsOnce /\ FreedKnown /\ Avoids

\* the steps that change neither the pools nor what is old or freed
LEMMA QuietRetry ==
    ASSUME OwnInv, RetryInv, NEW p \in Clients, OthersKept(p),
           UNCHANGED <<pool, old, addr, freed>>,
           \/ Returned(p)
           \/ /\ attempt'[p] = attempt[p] /\ held'[p] = held[p] /\ dials'[p] = dials[p]
              /\ pc'[p] \in {"idle", "get", "dial", "clear"} => dials[p] = 0
    PROVE  RetryInv'
<1>1. DialsOnce'
  BY CallVarTypes DEF RetryInv, DialsOnce, OthersKept, Returned
<1>2. FreedKnown'
  BY DEF RetryInv, FreedKnown, OthersKept, Returned
<1>3. Avoids'
  BY DEF RetryInv, Avoids, RetryAvoidsFlushed, OthersKept, Returned
<1>. QED
  BY <1>1, <1>2, <1>3 DEF RetryInv

LEMMA QuietSteps ==
    ASSUME OwnInv, RetryInv, NEW p \in Clients,
           \/ GetMiss(p) \/ DialFail(p) \/ RecvOk(p) \/ CloseHeld(p)
           \/ SetDeadlineOk(p) \/ SetDeadlineFail(p)
           \/ \E slow \in BOOLEAN : SendOk(p, slow) \/ SendFail(p, slow) \/ RecvFail(p, slow)
    PROVE  RetryInv'
<1>1. OthersKept(p) /\ UNCHANGED addr
  BY CallerStep DEF ClientStep
<1>2. CASE DialFail(p) \/ CloseHeld(p)
  BY <1>1, <1>2, ReturnFacts, QuietRetry DEF DialFail, CloseHeld, sockVars, poolVars, histVars
<1>3. CASE GetMiss(p) \/ RecvOk(p) \/ SetDeadlineOk(p)
  <2>1. pc'[p] = "dial" => dials[p] = 0
    BY <1>3, CallVarTypes DEF GetMiss, RecvOk, SetDeadlineOk, Goto, RetryInv, DialsOnce
  <2>2. pc'[p] \in {"dial", "finish", "send"}
    BY <1>3, CallVarTypes DEF GetMiss, RecvOk, SetDeadlineOk, Goto
  <2>. QED
    BY <1>1, <1>3, <2>1, <2>2, QuietRetry
    DEF GetMiss, RecvOk, SetDeadlineOk, sockVars, poolVars, histVars
<1>4. CASE \/ SetDeadlineFail(p)
           \/ \E slow \in BOOLEAN : SendOk(p, slow) \/ SendFail(p, slow) \/ RecvFail(p, slow)
  <2>1. /\ pc'[p] = "clear" => old[held[p]]
        /\ pc'[p] \in {"clear", "finish", "recv"}
    BY <1>4, CallVarTypes DEF SetDeadlineFail, SendOk, SendFail, RecvFail, AfterError, Goto
  <2>2. pc'[p] = "clear" => dials[p] = 0
    BY <2>1 DEF RetryInv, DialsOnce
  <2>3. /\ UNCHANGED <<pool, old, freed>>
        /\ attempt'[p] = attempt[p] /\ held'[p] = held[p] /\ dials'[p] = dials[p]
    BY <1>4 DEF SetDeadlineFail, SendOk, SendFail, RecvFail, sockVars, poolVars, histVars
  <2>. QED
    BY <1>1, <2>1, <2>2, <2>3, QuietRetry
<1>. QED
  BY <1>2, <1>3, <1>4

LEMMA CallRetry ==
    ASSUME OwnInv, Numbered, RetryInv, NEW p \in Clients, NEW kind \in Kinds, NEW a \in Addrs,
           Call(p, kind, a)
    PROVE  RetryInv'
<1>1. /\ OthersKept(p) /\ pc[p] = "idle" /\ pc'[p] = "get" /\ attempt[p] = 1
      /\ UNCHANGED <<attempt, held, dials, pool, old, freed>>
      /\ \A q \in Clients : q # p => addr'[q] = addr[q]
  BY CallFacts DEF Numbered
<1>2. DialsOnce'
  BY <1>1 DEF RetryInv, DialsOnce, OthersKept
<1>3. FreedKnown'
  BY <1>1 DEF RetryInv, FreedKnown
<1>4. Avoids'
  BY <1>1 DEF RetryInv, Avoids, RetryAvoidsFlushed
<1>. QED
  BY <1>2, <1>3, <1>4 DEF RetryInv

LEMMA TakeRetry ==
    ASSUME OwnInv, RetryInv, NEW p \in Clients, GetPooled(p)
    PROVE  RetryInv'
<1>. DEFINE a == addr[p]
<1>1. /\ OthersKept(p) /\ UNCHANGED <<addr, attempt, dials, old, freed>>
      /\ pc[p] = "get" /\ pc'[p] = "deadline" /\ held'[p] = Head(pool[a])
      /\ pool' = [pool EXCEPT ![a] = Tail(@)] /\ pool[a] # <<>> /\ a \in Addrs
      /\ pool[a] \in Seq(ConnIds)
  BY CallerStep, CallVarTypes, CounterTypes
  DEF ClientStep, GetPooled, Remaining, Goto, sockVars, histVars, callVars
<1>2. /\ 1 \in DOMAIN pool[a] /\ held'[p] = pool[a][1]
      /\ \A i \in DOMAIN pool'[a] : i + 1 \in DOMAIN pool[a] /\ pool'[a][i] = pool[a][i + 1]
      /\ \A b \in Addrs : b # a => pool'[b] = pool[b]
  BY <1>1, CounterTypes, TailFacts
<1>3. DialsOnce'
  BY <1>1 DEF RetryInv, DialsOnce, OthersKept
<1>4. FreedKnown'
  <2>. SUFFICES ASSUME NEW q \in Clients, attempt[q] > 1, NEW i \in DOMAIN pool'[addr[q]]
                PROVE  pool'[addr[q]][i] \in freed[q]
    BY <1>1 DEF FreedKnown
  <2>1. CASE addr[q] = a
    BY <1>2, <2>1 DEF RetryInv, FreedKnown
  <2>2. CASE addr[q] # a
    BY <1>2, <2>2, CounterTypes DEF RetryInv, FreedKnown
  <2>. QED
    BY <2>1, <2>2
<1>5. Avoids'
  BY <1>1, <1>2 DEF RetryInv, Avoids, FreedKnown, RetryAvoidsFlushed, OthersKept
<1>. QED
  BY <1>3, <1>4, <1>5 DEF RetryInv

LEMMA DialRetry ==
    ASSUME OwnInv, RetryInv, NEW p \in Clients, NEW b \in BOOLEAN, DialOk(p, b)
    PROVE  RetryInv'
<1>1. PICK c \in ConnIds : c = lastId + 1
  BY DEF DialOk
<1>2. /\ OthersKept(p) /\ UNCHANGED <<addr, pool, freed>>
      /\ old' = [old EXCEPT ![c] = FALSE]
      /\ pc[p] = "dial" /\ dials[p] = 0
  BY <1>1, CallerStep DEF ClientStep, DialOk, poolVars, RetryInv, DialsOnce
<1>3. \/ Returned(p)
      \/ /\ attempt'[p] = attempt[p] /\ held'[p] = c /\ dials'[p] = 1
         /\ pc'[p] \in {"finish", "deadline"}
  <2>1. CASE Return(p)
    BY <2>1, ReturnFacts
  <2>2. CASE ~Return(p)
    BY <1>1, <1>2, <2>2, CallVarTypes, CounterTypes DEF DialOk, Goto
  <2>. QED
    BY <2>1, <2>2
<1>4. \A d \in ConnIds : ~old[d] => ~old'[d]
  BY <1>2, CounterTypes
<1>5. DialsOnce'
  <2>1. ASSUME NEW q \in Clients, q # p, dials[q] = 1 PROVE ~old'[held[q]]
    <3>1. held[q] \in ConnIds /\ ~old[held[q]]
      BY <2>1, CallVarTypes DEF RetryInv, DialsOnce, OwnInv, TypeOK, CallShape
    <3>. QED
      BY <3>1, <1>4
  <2>2. ~old'[c]
    BY <1>2, CounterTypes
  <2>. QED
    BY <1>2, <1>3, <2>1, <2>2 DEF RetryInv, DialsOnce, OthersKept, Returned
<1>6. FreedKnown'
  BY <1>2, <1>3 DEF RetryInv, FreedKnown, OthersKept, Returned
<1>7. Avoids'
  <2>. SUFFICES ASSUME NEW q \in Clients, attempt'[q] > 1, held'[q] # NoConn, old'[held'[q]]
                PROVE  held'[q] \in freed[q]
    BY <1>2 DEF Avoids, RetryAvoidsFlushed
  <2>1. q # p
    BY <1>2, <1>3, CounterTypes DEF Returned
  <2>2. held'[q] = held[q] /\ attempt'[q] = attempt[q] /\ held[q] \in ConnIds
    BY <1>2, <2>1, CallVarTypes DEF OthersKept
  <2>. QED
    BY <1>4, <2>2, CounterTypes DEF RetryInv, Avoids, RetryAvoidsFlushed
<1>. QED
  BY <1>5, <1>6, <1>7 DEF RetryInv

LEMMA ClearRetry ==
    ASSUME OwnInv, RetryInv, NEW p \in Clients, Clear(p)
    PROVE  RetryInv'
<1>1. PICK a \in Addrs : a = addr[p]
  BY CounterTypes
<1>2. /\ OthersKept(p) /\ UNCHANGED <<addr, old, dials>>
      /\ pool'[a] = <<>> /\ \A b \in Addrs : b # a => pool'[b] = pool[b]
      /\ \A q \in Clients : q # p => freed'[q] = freed[q]
      /\ pc[p] = "clear" /\ dials[p] = 0
  BY <1>1, CallerStep, CounterTypes
  DEF ClientStep, Clear, Forget, RetryInv, DialsOnce
<1>3. \/ held'[p] = NoConn
      \/ attempt'[p] = attempt[p] /\ held'[p] = held[p] /\ freed'[p] = freed[p]
  BY CallVarTypes DEF Clear
<1>4. DialsOnce'
  BY <1>2 DEF RetryInv, DialsOnce, OthersKept
<1>5. FreedKnown'
  <2>. SUFFICES ASSUME NEW q \in Clients, attempt'[q] > 1, NEW i \in DOMAIN pool'[addr[q]]
                PROVE  pool'[addr[q]][i] \in freed'[q]
    BY <1>2 DEF FreedKnown
  <2>1. addr[q] # a
    <3>1. DOMAIN <<>> = {}
      OBVIOUS
    <3>. QED
      BY <3>1, <1>2
  <2>2. q # p
    BY <1>1, <2>1
  <2>. QED
    BY <1>2, <2>1, <2>2, CounterTypes DEF RetryInv, FreedKnown, OthersKept
<1>6. Avoids'
  BY <1>2, <1>3 DEF RetryInv, Avoids, RetryAvoidsFlushed, OthersKept
<1>. QED
  BY <1>4, <1>5, <1>6 DEF RetryInv

LEMMA FreeRetry ==
    ASSUME OwnInv, RetryInv, NEW p \in Clients, FreeToPool(p)
    PROVE  RetryInv'
<1>1. PICK c \in ConnIds, a \in Addrs : c = held[p] /\ a = addr[p]
  BY DEF FreeToPool, OwnInv, TypeOK, CallTypes, CallShape
<1>2. /\ OthersKept(p) /\ Returned(p) /\ UNCHANGED addr
      /\ pool' = [pool EXCEPT ![a] = Append(@, c)]
      /\ old' = [old EXCEPT ![c] = TRUE]
      /\ \A q \in Clients : attempt[q] > 1 => freed'[q] = freed[q] \cup {c}
      /\ pool[a] \in Seq(ConnIds)
  BY <1>1, CallerStep, ReturnFacts, CounterTypes DEF ClientStep, FreeToPool
<1>3. /\ \A i \in DOMAIN pool'[a] :
            \/ i \in DOMAIN pool[a] /\ pool'[a][i] = pool[a][i]
            \/ pool'[a][i] = c
      /\ \A b \in Addrs : b # a => pool'[b] = pool[b]
  <2>1. pool'[a] = Append(pool[a], c) /\ \A b \in Addrs : b # a => pool'[b] = pool[b]
    BY <1>2, CounterTypes
  <2>2. \A i \in DOMAIN pool'[a] :
            \/ i \in DOMAIN pool[a] /\ pool'[a][i] = pool[a][i]
            \/ i = Len(pool[a]) + 1 /\ pool'[a][i] = c
    BY <1>1, <1>2, <2>1, AppendFacts
  <2>. QED
    BY <2>1, <2>2
<1>4. \A q \in Clients : q # p => held[q] # c /\ (old'[held[q]] <=> old[held[q]])
  <2>1. c # NoConn
    BY CounterTypes
  <2>2. \A q \in Clients : q # p => held[q] # c
    BY <1>1, <2>1 DEF OwnInv, HeldByOne
  <2>. QED
    BY <1>2, <2>2, CounterTypes
<1>5. DialsOnce'
  BY <1>2, <1>4 DEF RetryInv, DialsOnce, OthersKept, Returned
<1>6. FreedKnown'
  <2>. SUFFICES ASSUME NEW q \in Clients, attempt'[q] > 1, NEW i \in DOMAIN pool'[addr[q]]
                PROVE  pool'[addr[q]][i] \in freed'[q]
    BY <1>2 DEF FreedKnown
  <2>1. q # p /\ attempt[q] > 1 /\ freed'[q] = freed[q] \cup {c}
    BY <1>2 DEF OthersKept, Returned
  <2>2. CASE addr[q] = a
    BY <1>3, <2>1, <2>2 DEF RetryInv, FreedKnown
  <2>3. CASE addr[q] # a
    BY <1>3, <2>1, <2>3, CounterTypes DEF RetryInv, FreedKnown
  <2>. QED
    BY <2>2, <2>3
<1>7. Avoids'
  BY <1>2, <1>4 DEF RetryInv, Avoids, RetryAvoidsFlushed, OthersKept, Returned
<1>. QED
  BY <1>5, <1>6, <1>7 DEF RetryInv

LEMMA RetryStep == OwnInv /\ Numbered /\ RetryInv /\ [Next]_vars => RetryInv'
<1>. SUFFICES ASSUME OwnInv, Numbered, RetryInv, [Next]_vars PROVE RetryInv'
  OBVIOUS
<1>1. ASSUME UNCHANGED <<addr, pc, attempt, held, dials, pool, old, freed>>
      PROVE  RetryInv'
  BY <1>1 DEF RetryInv, DialsOnce, FreedKnown, Avoids, RetryAvoidsFlushed
<1>2. ASSUME NEW p \in Clients, ClientStep(p) PROVE RetryInv'
  BY <1>2, QuietSteps, TakeRetry, DialRetry, ClearRetry, FreeRetry DEF ClientStep
<1>. QED
  BY <1>1, <1>2, CallRetry, PeerFacts

(***************************************************************************)
(* No request reaches the peer more often than the call attempted it, and  *)
(* a call dials at most once and retries only what it took from the pool   *)
(* after the flush: the retry of a stale connection cannot multiply.       *)
(***************************************************************************)
THEOREM RetriesBounded == Spec => []RetryBound
<1>. DEFINE Requested == Numbered /\ Unused /\ SendsCounted
<1>1. Init => Requested /\ RetryInv
  <2>. SUFFICES ASSUME Init PROVE Requested /\ RetryInv
    OBVIOUS
  <2>1. \A r \in Requests : delivered[r] = 0 /\ Sent(r) = {}
    BY DEF Init, Sent
  <2>2. \A r \in Requests : Load(r) = 0
    BY <2>1, FS_EmptySet DEF Load
  <2>3. SendsCounted
    BY <2>2, ClientAssumption DEF Init, SendsCounted
  <2>4. Numbered /\ Unused
    BY <2>1 DEF Init, Numbered, Unused
  <2>5. RetryInv
    BY DEF Init, RetryInv, DialsOnce, FreedKnown, Avoids, RetryAvoidsFlushed
  <2>. QED
    BY <2>3, <2>4, <2>5
<1>2. OwnInv /\ Requested /\ RetryInv /\ [Next]_vars => Requested' /\ RetryInv'
  BY NumberedStep, UnusedStep, CountStep, RetryStep
<1>3. OwnInv /\ Requested /\ RetryInv => RetryBound
  <2>. SUFFICES ASSUME OwnInv, Requested, RetryInv PROVE RetryBound
    OBVIOUS
  <2>1. \A r \in Requests : delivered[r] \in Nat /\ Cardinality(Sent(r)) \in Nat
    BY LoadTypes
  <2>2. \A r \in Requests : delivered[r] <= Load(r)
    BY <2>1 DEF Load
  <2>3. \A r \in Requests : delivered[r] <= MaxBadConnRetries
    <3>1. MaxBadConnRetries \in Nat /\ \A r \in Requests : Load(r) \in Nat
      BY <2>1, ClientAssumption DEF Load
    <3>. QED
      BY <2>1, <2>2, <3>1 DEF SendsCounted
  <2>4. ASSUME NEW p \in Clients, req[p] # NoReq PROVE delivered[req[p]] <= attempt[p]
    <3>1. pc[p] # "idle" /\ req[p] \in Requests
      BY <2>4 DEF Numbered, OwnInv, TypeOK, CallShape
    <3>2. Load(req[p]) <= Turns(p) /\ Turns(p) <= attempt[p] /\ attempt[p] \in Nat
          /\ Turns(p) \in Int
      BY <3>1, CounterTypes DEF SendsCounted, Turns
    <3>3. Load(req[p]) \in Nat
      BY <2>1, <3>1 DEF Load
    <3>. QED
      BY <2>1, <2>2, <3>1, <3>2, <3>3
  <2>5. \A p \in Clients : dials[p] <= 1
    BY DEF RetryInv, DialsOnce
  <2>. QED
    BY <2>3, <2>4, <2>5 DEF RetryBound, RetryInv, Avoids
<1>. HIDE DEF Requested
<1>. QED
  BY <1>1, <1>2, <1>3, OwnInvAlways, PTL DEF Spec

-----------------------------------------------------------------------------
(***************************************************************************)
(* Who may open connections to an address: those that found its pool empty *)
(* and have not dialled yet.  Together with the connections open they      *)
(* never outnumber the callers, since whoever finds the pool empty finds   *)
(* every open connection in the hands of another caller.                   *)
(***************************************************************************)
Dialers(a) == {p \in Clients : pc[p] = "dial" /\ addr[p] = a}
Holders(a) == {p \in Clients : held[p] # NoConn /\ addr[p] = a}

Room ==
    \A a \in Addrs :
       Cardinality(OpenTo(a)) + Cardinality(Dialers(a)) <= Cardinality(Clients)

WithinLimit == \A a \in Addrs : Len(pool[a]) <= LargestLimit

LEMMA LimitFacts ==
    /\ LargestLimit \in Nat
    /\ \A k \in Limits : k \in Nat /\ k <= LargestLimit
<1>1. PICK l \in Limits : \A k \in Limits : k <= l
  BY ClientAssumption
<1>2. LargestLimit \in Limits /\ \A k \in Limits : k <= LargestLimit
  BY <1>1 DEF LargestLimit
<1>. QED
  BY <1>2, ClientAssumption

LEMMA WithinLimitStep == OwnInv /\ WithinLimit /\ [Next]_vars => WithinLimit'
<1>. SUFFICES ASSUME OwnInv, WithinLimit, [Next]_vars PROVE WithinLimit'
  OBVIOUS
<1>0. pool \in [Addrs -> Seq(ConnIds)]
  BY CounterTypes
<1>1. ASSUME pool' = pool PROVE WithinLimit'
  BY <1>1 DEF WithinLimit
<1>2. ASSUME NEW a \in Addrs, \A b \in Addrs : b # a => pool'[b] = pool[b],
             Len(pool'[a]) <= LargestLimit
      PROVE  WithinLimit'
  BY <1>2 DEF WithinLimit
<1>3. ASSUME NEW p \in Clients, GetPooled(p) PROVE WithinLimit'
  <2>1. PICK a \in Addrs : a = addr[p]
    BY CounterTypes
  <2>2. /\ pool[a] # <<>> /\ pool[a] \in Seq(ConnIds) /\ pool'[a] = Tail(pool[a])
        /\ \A b \in Addrs : b # a => pool'[b] = pool[b]
    BY <1>0, <1>3, <2>1 DEF GetPooled, Remaining
  <2>3. Len(pool'[a]) = Len(pool[a]) - 1 /\ Len(pool[a]) \in Nat
    BY <2>2
  <2>4. Len(pool[a]) <= LargestLimit
    BY DEF WithinLimit
  <2>5. Len(pool'[a]) <= LargestLimit
    BY <2>3, <2>4, LimitFacts
  <2>. QED
    BY <1>2, <2>2, <2>5
<1>4. ASSUME NEW p \in Clients, Clear(p) PROVE WithinLimit'
  <2>1. PICK a \in Addrs : a = addr[p]
    BY CounterTypes
  <2>2. pool'[a] = <<>> /\ \A b \in Addrs : b # a => pool'[b] = pool[b]
    BY <1>0, <1>4, <2>1 DEF Clear, Forget
  <2>3. Len(pool'[a]) = 0
    BY <2>2
  <2>. QED
    BY <1>2, <2>2, <2>3, LimitFacts
<1>5. ASSUME NEW p \in Clients, FreeToPool(p) PROVE WithinLimit'
  <2>1. PICK a \in Addrs : a = addr[p]
    BY CounterTypes
  <2>2. /\ pool[a] \in Seq(ConnIds) /\ pool'[a] = Append(pool[a], held[p])
        /\ \A b \in Addrs : b # a => pool'[b] = pool[b]
        /\ Len(pool[a]) < limit /\ limit \in Limits
    BY <1>0, <1>5, <2>1 DEF FreeToPool, MayPool, OwnInv, TypeOK, PoolTypes
  <2>3. Len(pool'[a]) = Len(pool[a]) + 1 /\ Len(pool[a]) \in Nat
    BY <2>2
  <2>. QED
    BY <1>2, <2>2, <2>3, LimitFacts
<1>. QED
  <2>1. CASE \E p \in Clients : ClientStep(p)
    BY <2>1, <1>1, <1>3, <1>4, <1>5
    DEF ClientStep, GetMiss, DialOk, DialFail, SetDeadlineOk, SetDeadlineFail,
        SendOk, SendFail, RecvOk, RecvFail, CloseHeld, poolVars
  <2>2. CASE ~\E p \in Clients : ClientStep(p)
    BY <2>2, <1>1
    DEF Next, ServerStep, vars, Call, SetLimit, ServerRecv, ServerReply,
        ServerClose, poolVars
  <2>. QED
    BY <2>1, <2>2

-----------------------------------------------------------------------------
LEMMA SetTypes ==
    ASSUME NEW a \in Addrs
    PROVE  /\ IsFiniteSet(OpenTo(a)) /\ Cardinality(OpenTo(a)) \in Nat
           /\ IsFiniteSet(Dialers(a)) /\ Cardinality(Dialers(a)) \in Nat
           /\ IsFiniteSet(Holders(a)) /\ Cardinality(Holders(a)) \in Nat
           /\ IsFiniteSet(Clients) /\ Cardinality(Clients) \in Nat
<1>1. IsFiniteSet(ConnIds)
  BY FS_Interval, ClientAssumption DEF ConnIds
<1>2. OpenTo(a) \in SUBSET ConnIds /\ Dialers(a) \in SUBSET Clients
      /\ Holders(a) \in SUBSET Clients
  BY DEF OpenTo, Dialers, Holders
<1>3. IsFiniteSet(OpenTo(a)) /\ IsFiniteSet(Dialers(a)) /\ IsFiniteSet(Holders(a))
      /\ IsFiniteSet(Clients)
  BY <1>1, <1>2, FS_Subset, ClientAssumption
<1>. QED
  BY <1>3, FS_CardinalityType

\* nothing is opened, nobody gets leave to dial
LEMMA RoomKept ==
    ASSUME Room, NEW a \in Addrs,
           OpenTo(a)' \subseteq OpenTo(a), Dialers(a)' \subseteq Dialers(a)
    PROVE  Cardinality(OpenTo(a)') + Cardinality(Dialers(a)') <= Cardinality(Clients)
<1>1. /\ Cardinality(OpenTo(a)') \in Nat
      /\ Cardinality(OpenTo(a)') <= Cardinality(OpenTo(a))
  BY SetTypes, FS_Subset, FS_CardinalityType
<1>2. /\ Cardinality(Dialers(a)') \in Nat
      /\ Cardinality(Dialers(a)') <= Cardinality(Dialers(a))
  BY SetTypes, FS_Subset, FS_CardinalityType
<1>3. Cardinality(OpenTo(a)) + Cardinality(Dialers(a)) <= Cardinality(Clients)
  BY DEF Room
<1>. QED
  BY <1>1, <1>2, <1>3, SetTypes

\* a dialler becomes the owner of a new connection
LEMMA RoomDialled ==
    ASSUME Room, NEW a \in Addrs, NEW c, NEW p \in Dialers(a),
           OpenTo(a)' \subseteq OpenTo(a) \cup {c}, Dialers(a)' \subseteq Dialers(a) \ {p}
    PROVE  Cardinality(OpenTo(a)') + Cardinality(Dialers(a)') <= Cardinality(Clients)
<1>1. /\ IsFiniteSet(OpenTo(a) \cup {c})
      /\ \/ Cardinality(OpenTo(a) \cup {c}) = Cardinality(OpenTo(a))
         \/ Cardinality(OpenTo(a) \cup {c}) = Cardinality(OpenTo(a)) + 1
  BY SetTypes, FS_AddElement
<1>2. /\ Cardinality(OpenTo(a)') \in Nat
      /\ Cardinality(OpenTo(a)') <= Cardinality(OpenTo(a) \cup {c})
  BY <1>1, FS_Subset, FS_CardinalityType
<1>3. /\ IsFiniteSet(Dialers(a) \ {p})
      /\ Cardinality(Dialers(a) \ {p}) = Cardinality(Dialers(a)) - 1
  BY SetTypes, FS_RemoveElement
<1>4. /\ Cardinality(Dialers(a)') \in Nat
      /\ Cardinality(Dialers(a)') <= Cardinality(Dialers(a) \ {p})
  BY <1>3, FS_Subset, FS_CardinalityType
<1>5. Cardinality(OpenTo(a)) + Cardinality(Dialers(a)) <= Cardinality(Clients)
  BY DEF Room
<1>. QED
  BY <1>1, <1>2, <1>3, <1>4, <1>5, SetTypes

\* whoever finds the pool empty finds every open connection held by another
LEMMA EmptyPoolHeld ==
    ASSUME OwnInv, NotLost, NEW a \in Addrs, pool[a] = <<>>
    PROVE  Cardinality(OpenTo(a)) <= Cardinality(Holders(a))
<1>. DEFINE f == [c \in OpenTo(a) |-> CHOOSE p \in Clients : held[p] = c]
<1>1. ASSUME NEW c \in OpenTo(a) PROVE \E p \in Holders(a) : held[p] = c
  <2>1. c \in ConnIds /\ c # NoConn /\ sock[c] = "open" /\ c \notin broken /\ connAddr[c] = a
    BY CounterTypes DEF OpenTo
  <2>2. ~Waiting(c)
    <3>1. DOMAIN <<>> = {}
      OBVIOUS
    <3>. QED
      BY <2>1, <3>1 DEF Waiting, OwnInv, PooledAtItsAddress
  <2>3. PICK p \in Clients : held[p] = c
    BY <2>1, <2>2 DEF NotLost, Held
  <2>. QED
    BY <2>1, <2>3 DEF Holders, OwnInv, AtOwnAddress
<1>2. ASSUME NEW c \in OpenTo(a) PROVE f[c] \in Holders(a) /\ held[f[c]] = c
  <2>1. PICK p \in Holders(a) : held[p] = c
    BY <1>1
  <2>2. \A q \in Clients : held[q] = c => q = p
    BY <2>1 DEF Holders, OwnInv, HeldByOne
  <2>3. p \in Clients
    BY DEF Holders
  <2>4. (CHOOSE q \in Clients : held[q] = c) = p
    BY <2>1, <2>2, <2>3
  <2>. QED
    BY <2>1, <2>4
<1>3. f \in Injection(OpenTo(a), Holders(a))
  <2>1. f \in [OpenTo(a) -> Holders(a)]
    BY <1>2
  <2>2. \A c, d \in OpenTo(a) : f[c] = f[d] => c = d
    BY <1>2
  <2>. QED
    BY <2>1, <2>2 DEF Injection, IsInjective
<1>. QED
  BY <1>3, SetTypes, FS_Injection

LEMMA MissRoom ==
    ASSUME OwnInv, NotLost, Room, NEW p \in Clients, GetMiss(p)
    PROVE  Room'
<1>1. PICK a \in Addrs : a = addr[p]
  BY CounterTypes
<1>2. /\ pool[a] = <<>> /\ pc[p] = "get"
      /\ UNCHANGED <<sock, connAddr, broken, addr, held>>
      /\ \A q \in Clients : q # p => pc'[q] = pc[q]
  BY <1>1, CallVarTypes DEF GetMiss, PoolEmpty, Goto, sockVars, histVars, callVars
<1>3. \A b \in Addrs : OpenTo(b)' = OpenTo(b)
  BY <1>2 DEF OpenTo
<1>4. ASSUME NEW b \in Addrs, b # a
      PROVE  Cardinality(OpenTo(b)') + Cardinality(Dialers(b)') <= Cardinality(Clients)
  <2>1. Dialers(b)' \subseteq Dialers(b)
    BY <1>1, <1>2, <1>4 DEF Dialers
  <2>. QED
    BY <1>3, <2>1, RoomKept
<1>5. Cardinality(OpenTo(a)') + Cardinality(Dialers(a)') <= Cardinality(Clients)
  <2>1. /\ Dialers(a)' \in SUBSET Clients /\ Holders(a) \in SUBSET Clients
        /\ Dialers(a)' \cap Holders(a) = {}
    <3>1. \A q \in Clients : pc'[q] = "dial" => held[q] = NoConn
      BY <1>2 DEF OwnInv, TypeOK, CallShape
    <3>. QED
      BY <3>1 DEF Dialers, Holders
  <2>2. /\ IsFiniteSet(Dialers(a)') /\ Cardinality(Dialers(a)') \in Nat
        /\ IsFiniteSet(Holders(a)) /\ Cardinality(Holders(a)) \in Nat
        /\ Cardinality(Clients) \in Nat /\ IsFiniteSet(Clients)
        /\ Cardinality(OpenTo(a)) \in Nat
    BY <2>1, SetTypes, FS_Subset, FS_CardinalityType
  <2>3. Cardinality(Dialers(a)' \cup Holders(a))
           = Cardinality(Dialers(a)') + Cardinality(Holders(a))
    <3>1. Cardinality(Dialers(a)' \cap Holders(a)) = 0
      BY <2>1, FS_EmptySet
    <3>2. Cardinality(Dialers(a)' \cup Holders(a))
             = Cardinality(Dialers(a)') + Cardinality(Holders(a))
               - Cardinality(Dialers(a)' \cap Holders(a))
      BY <2>2, FS_Union
    <3>. QED
      BY <2>2, <3>1, <3>2
  <2>4. Cardinality(Dialers(a)' \cup Holders(a)) <= Cardinality(Clients)
    <3>1. Dialers(a)' \cup Holders(a) \in SUBSET Clients
      BY <2>1
    <3>. QED
      BY <2>2, <3>1, FS_Subset
  <2>5. Cardinality(OpenTo(a)') = Cardinality(OpenTo(a))
    BY <1>3
  <2>6. Cardinality(OpenTo(a)) <= Cardinality(Holders(a))
    BY <1>2, EmptyPoolHeld
  <2>. QED
    BY <2>2, <2>3, <2>4, <2>5, <2>6
<1>. QED
  BY <1>4, <1>5 DEF Room

LEMMA DialRoom ==
    ASSUME OwnInv, Room, NEW p \in Clients, NEW k \in BOOLEAN, DialOk(p, k)
    PROVE  Room'
<1>1. PICK c \in ConnIds, a \in Addrs : c = lastId + 1 /\ a = addr[p]
  BY CounterTypes DEF DialOk
<1>2. /\ pc[p] = "dial" /\ pc'[p] # "dial" /\ UNCHANGED addr
      /\ \A q \in Clients : q # p => pc'[q] = pc[q]
      /\ \A d \in ConnIds : d # c => sock'[d] = sock[d] /\ connAddr'[d] = connAddr[d]
      /\ connAddr'[c] = a /\ broken \subseteq broken'
  <2>1. connAddr \in [ConnIds -> Addrs]
    BY DEF OwnInv, TypeOK, SockTypes
  <2>. QED
    BY <1>1, <2>1, CallVarTypes DEF DialOk, Return, Goto
<1>3. ASSUME NEW b \in Addrs
      PROVE  Cardinality(OpenTo(b)') + Cardinality(Dialers(b)') <= Cardinality(Clients)
  <2>1. CASE b = a
    <3>1. /\ p \in Dialers(a) /\ OpenTo(a)' \subseteq OpenTo(a) \cup {c}
          /\ Dialers(a)' \subseteq Dialers(a) \ {p}
      BY <1>1, <1>2 DEF OpenTo, Dialers
    <3>. QED
      BY <2>1, <3>1, RoomDialled
  <2>2. CASE b # a
    <3>1. OpenTo(b)' \subseteq OpenTo(b) /\ Dialers(b)' \subseteq Dialers(b)
      BY <1>1, <1>2, <2>2 DEF OpenTo, Dialers
    <3>. QED
      BY <3>1, RoomKept
  <2>. QED
    BY <2>1, <2>2
<1>. QED
  BY <1>3 DEF Room

\* every other step closes connections or breaks them, if it touches them
LEMMA RoomOtherwise ==
    ASSUME OwnInv, Room, connAddr' = connAddr, broken \subseteq broken',
           \A c \in ConnIds : sock'[c] = "open" => sock[c] = "open",
           \A q \in Clients : pc'[q] = "dial" => pc[q] = "dial" /\ addr'[q] = addr[q]
    PROVE  Room'
<1>1. ASSUME NEW b \in Addrs
      PROVE  Cardinality(OpenTo(b)') + Cardinality(Dialers(b)') <= Cardinality(Clients)
  <2>1. OpenTo(b)' \subseteq OpenTo(b) /\ Dialers(b)' \subseteq Dialers(b)
    BY DEF OpenTo, Dialers
  <2>. QED
    BY <2>1, RoomKept
<1>. QED
  BY <1>1 DEF Room

LEMMA RoomStep == OwnInv /\ NotLost /\ Room /\ [Next]_vars => Room'
<1>. SUFFICES ASSUME OwnInv, NotLost, Room, [Next]_vars PROVE Room'
  OBVIOUS
<1>. USE CallVarTypes
<1>1. ASSUME NEW p \in Clients, ClientStep(p), ~GetMiss(p),
             \A k \in BOOLEAN : ~DialOk(p, k)
      PROVE  Room'
  <2>1. pc'[p] # "dial" /\ addr' = addr /\ \A q \in Clients : q # p => pc'[q] = pc[q]
    <3>1. pc'[p] # "dial"
      BY <1>1
      DEF ClientStep, Goto, Return, GetPooled, DialFail, SetDeadlineOk, SetDeadlineFail,
          SendOk, SendFail, RecvOk, RecvFail, AfterError, Clear, FreeToPool, CloseHeld
    <3>. QED
      BY <1>1, <3>1, CallerStep DEF OthersKept
  <2>2. \A c \in ConnIds : sock'[c] = "open" => sock[c] = "open"
    BY <1>1
    DEF ClientStep, sockVars, CloseSocks, GetPooled, DialFail, SetDeadlineOk,
        SetDeadlineFail, SendOk, SendFail, RecvOk, RecvFail, Clear, FreeToPool, CloseHeld
  <2>3. connAddr' = connAddr /\ broken \subseteq broken'
    BY <1>1
    DEF ClientStep, sockVars, histVars, GetPooled, DialFail, SetDeadlineOk,
        SetDeadlineFail, SendOk, SendFail, RecvOk, RecvFail, Clear, FreeToPool, CloseHeld
  <2>. QED
    BY <2>1, <2>2, <2>3, RoomOtherwise
<1>2. ASSUME NEW p \in Clients, NEW kind \in Kinds, NEW a \in Addrs, Call(p, kind, a)
      PROVE  Room'
  BY <1>2, RoomOtherwise, CallFacts DEF Call, OthersKept, sockVars, histVars
<1>3. ASSUME UNCHANGED <<sock, connAddr, broken, pc, addr>> PROVE Room'
  BY <1>3, RoomOtherwise
<1>. QED
  BY <1>1, <1>2, <1>3, MissRoom, DialRoom
  DEF Next, ServerStep, vars, SetLimit, ServerRecv, ServerReply, ServerClose, sockVars,
      histVars, callVars

(***************************************************************************)
(* The idle connections of an address stay within the largest limit ever   *)
(* set, and the connections open to it never outnumber the callers.        *)
(***************************************************************************)
THEOREM ConnectionsBounded == Spec => []OpenBound
<1>1. Init => WithinLimit /\ Room
  <2>. SUFFICES ASSUME Init, NEW a \in Addrs
                PROVE  /\ Len(pool[a]) <= LargestLimit
                       /\ Cardinality(OpenTo(a)) + Cardinality(Dialers(a))
                             <= Cardinality(Clients)
    BY DEF WithinLimit, Room
  <2>1. OpenTo(a) = {} /\ Dialers(a) = {} /\ pool[a] = <<>>
    BY DEF Init, OpenTo, Dialers
  <2>2. Cardinality(OpenTo(a)) = 0 /\ Cardinality(Dialers(a)) = 0
    BY <2>1, FS_EmptySet
  <2>3. Cardinality(Clients) \in Nat
    BY SetTypes
  <2>4. Len(pool[a]) = 0
    BY <2>1
  <2>. QED
    BY <2>2, <2>3, <2>4, LimitFacts
<1>2. OwnInv /\ Placed /\ WithinLimit /\ Room /\ [Next]_vars => WithinLimit' /\ Room'
  BY WithinLimitStep, RoomStep DEF Placed
<1>3. WithinLimit /\ Room => OpenBound
  BY SetTypes DEF WithinLimit, Room, OpenBound
<1>. QED
  BY <1>1, <1>2, <1>3, OwnInvAlways, PlacedAlways, PTL DEF Spec
=============================================================================
