------------------------------ MODULE TcpClient ------------------------------
(***************************************************************************)
(* The pooled TCP client of net/tcp_client.go: goroutines call             *)
(* sendClientRequest (two-way) or sendClientRequestNoResponse (one-way),   *)
(* take a connection from the pool of the peer's address or dial one, send *)
(* the request, read the response, and hand the connection back.  A stale  *)
(* pooled connection that fails fast makes the call flush the pool of the  *)
(* address and try once more.                                              *)
(*                                                                         *)
(* The peer is a tcpServer (net/tcp_server.go) in another process: it      *)
(* receives frames, runs OnDataIn in a goroutine of its own for each one,  *)
(* and may close a connection at any moment.                               *)
(*                                                                         *)
(* Every call has a timeOut of at least a second (a call without one is    *)
(* the same call whose deadline never fires).                              *)
(***************************************************************************)
EXTENDS Integers, Sequences, FiniteSets

CONSTANTS
    Clients,            \* goroutines that send requests
    NoReq,              \* no request, no response
    Addrs,              \* peer addresses, the keys of the pool
    Kinds,              \* kinds of call made: "twoWay", "oneWay" or both
    MaxCalls,           \* bound: calls made in all
    MaxConns,           \* bound: connections ever dialled
    MaxBadConnRetries,  \* maxBadConnRetries
    Limits,             \* values connectionLimit may be set to
    OneWayReplies,      \* may the peer answer a one-way request?
    SocketOptionsFail   \* may SetKeepAlive and SetDeadline fail?

ASSUME ClientAssumption ==
    /\ Kinds \subseteq {"twoWay", "oneWay"}
    /\ MaxCalls \in Nat /\ MaxConns \in Nat
    /\ MaxBadConnRetries \in Nat \ {0}
    /\ Limits \subseteq Nat /\ \E l \in Limits : \A k \in Limits : k <= l
    /\ Addrs # {}
    /\ IsFiniteSet(Clients) /\ IsFiniteSet(Addrs)
    /\ OneWayReplies \in BOOLEAN /\ SocketOptionsFail \in BOOLEAN
    /\ Clients \cap {"unborn", "idle", "gone", "lost"} = {}    \* see Owner

ConnIds  == 1 .. MaxConns
NoConn   == 0
Requests == Clients \X (1 .. MaxCalls) \X Kinds

ASSUME NoReqAssumption == NoReq \notin Requests

VARIABLES
    pool,       \* [Addrs -> Seq(ConnIds)]: clientTcpConnectionPool
    limit,      \* connectionLimit
    lastId,     \* globalTcpConnectionId
    sock,       \* our end of a connection: "none", "open", "closed"
    connAddr,   \* the address a connection was dialled to
    old,        \* isOldConn
    peerOpen,   \* the peer's end is open
    toServer,   \* frames sent on a connection and not yet received
    inHand,     \* requests the peer's handlers may still answer
    toClient,   \* responses written by the peer and not yet read
    pc, held, attempt, failed, slowSend, req, calls, addr, res,
    \* history, read by the properties and by no guard:
    delivered,  \* how many times the peer received a request
    dials,      \* connections dialled by the current call
    broken,     \* connections on which a socket option failed
    tainted,    \* connections on which a one-way request was answered
    freed       \* connections handed back since a call flushed the pool

poolVars   == <<pool, limit>>
sockVars   == <<lastId, sock, connAddr, old>>
peerVars   == <<peerOpen, toServer, inHand, delivered>>
callVars   == <<req, calls, addr>>
histVars   == <<broken, tainted, freed>>
vars == <<pool, limit, lastId, sock, connAddr, old, peerOpen, toServer,
          inHand, toClient, pc, held, attempt, failed, slowSend, req, calls,
          addr, res, delivered, dials, broken, tainted, freed>>

Kind(r)       == r[3]
Pooled(a)     == {pool[a][i] : i \in DOMAIN pool[a]}
AllPooled     == UNION {Pooled(a) : a \in Addrs}
InUse         == {held[p] : p \in Clients} \ {NoConn}

Init ==
    /\ pool = [a \in Addrs |-> <<>>]
    /\ limit \in Limits
    /\ lastId = 0
    /\ sock = [c \in ConnIds |-> "none"]
    /\ connAddr = [c \in ConnIds |-> CHOOSE a \in Addrs : TRUE]
    /\ old = [c \in ConnIds |-> FALSE]
    /\ peerOpen = [c \in ConnIds |-> FALSE]
    /\ toServer = [c \in ConnIds |-> {}]
    /\ inHand = [c \in ConnIds |-> {}]
    /\ toClient = [c \in ConnIds |-> <<>>]
    /\ pc = [p \in Clients |-> "idle"]
    /\ held = [p \in Clients |-> NoConn]
    /\ attempt = [p \in Clients |-> 1]
    /\ failed = [p \in Clients |-> FALSE]
    /\ slowSend = [p \in Clients |-> FALSE]
    /\ req = [p \in Clients |-> NoReq]
    /\ calls = 0
    /\ addr = [p \in Clients |-> CHOOSE a \in Addrs : TRUE]
    /\ res = [p \in Clients |-> NoReq]
    /\ delivered = [r \in Requests |-> 0]
    /\ dials = [p \in Clients |-> 0]
    /\ broken = {}
    /\ tainted = {}
    /\ freed = [p \in Clients |-> {}]

Goto(p, l) == pc' = [pc EXCEPT ![p] = l]

\* the call returns and its local variables die; connection has been dealt with
Return(p) ==
    /\ Goto(p, "idle")
    /\ held' = [held EXCEPT ![p] = NoConn]
    /\ attempt' = [attempt EXCEPT ![p] = 1]
    /\ failed' = [failed EXCEPT ![p] = FALSE]
    /\ slowSend' = [slowSend EXCEPT ![p] = FALSE]
    /\ req' = [req EXCEPT ![p] = NoReq]
    /\ res' = [res EXCEPT ![p] = NoReq]
    /\ dials' = [dials EXCEPT ![p] = 0]

(***************************************************************************)
(* A call begins; err is nil and no connection has been taken.             *)
(***************************************************************************)
Call(p, kind, a) ==
    /\ pc[p] = "idle" /\ calls < MaxCalls
    /\ Goto(p, "get")
    /\ calls' = calls + 1
    /\ req' = [req EXCEPT ![p] = <<p, calls + 1, kind>>]
    /\ addr' = [addr EXCEPT ![p] = a]
    /\ UNCHANGED <<poolVars, sockVars, peerVars, toClient, held, attempt,
                   failed, slowSend, res, dials, histVars>>

(***************************************************************************)
(* newClientTcpConnection under the mutex: the oldest pooled connection of *)
(* the address, or a miss and then a dial outside the mutex.               *)
(***************************************************************************)
RemainingKeepsHead(q) == q      \* mutant: the slot is not given up
Remaining(q) == Tail(q)

PoolEmptyUnchecked(a) == TRUE   \* mutant: dials whatever the pool holds
PoolEmpty(a) == pool[a] = <<>>

GetPooled(p) ==
    /\ pc[p] = "get" /\ pool[addr[p]] # <<>>
    /\ held' = [held EXCEPT ![p] = Head(pool[addr[p]])]
    /\ pool' = [pool EXCEPT ![addr[p]] = Remaining(@)]
    /\ Goto(p, "deadline")
    /\ UNCHANGED <<limit, sockVars, peerVars, toClient, attempt, failed,
                   slowSend, callVars, res, dials, histVars>>

GetMiss(p) ==
    /\ pc[p] = "get" /\ PoolEmpty(addr[p])
    /\ Goto(p, "dial")
    /\ UNCHANGED <<poolVars, sockVars, peerVars, toClient, held, attempt,
                   failed, slowSend, callVars, res, dials, histVars>>

(***************************************************************************)
(* connectServer succeeded; keepAliveFails says whether SetKeepAlive then  *)
(* returned an error beside the connection.  sendClientRequest goes to its *)
(* clean-up with both; sendClientRequestNoResponse returns at once.        *)
(***************************************************************************)
DialOk(p, keepAliveFails) ==
    LET c == lastId + 1 IN
    /\ pc[p] = "dial" /\ c \in ConnIds
    /\ keepAliveFails => SocketOptionsFail
    /\ lastId' = c
    /\ sock' = [sock EXCEPT ![c] = "open"]
    /\ connAddr' = [connAddr EXCEPT ![c] = addr[p]]
    /\ old' = [old EXCEPT ![c] = FALSE]
    /\ peerOpen' = [peerOpen EXCEPT ![c] = TRUE]
    /\ broken' = IF keepAliveFails THEN broken \cup {c} ELSE broken
    /\ \/ /\ keepAliveFails => Kind(req[p]) = "twoWay"
          /\ Goto(p, IF keepAliveFails THEN "finish" ELSE "deadline")
          /\ held' = [held EXCEPT ![p] = c]
          /\ failed' = [failed EXCEPT ![p] = keepAliveFails]
          /\ dials' = [dials EXCEPT ![p] = @ + 1]
          /\ UNCHANGED <<attempt, slowSend, req, res>>
       \/ /\ keepAliveFails /\ Kind(req[p]) = "oneWay"
          /\ Return(p)
    /\ UNCHANGED <<poolVars, toServer, inHand, delivered, toClient, calls,
                   addr, tainted, freed>>

\* net.DialTimeout failed: the connection is nil, both callers return err
DialFail(p) ==
    /\ pc[p] = "dial"
    /\ Return(p)
    /\ UNCHANGED <<poolVars, sockVars, peerVars, toClient, calls, addr,
                   histVars>>

(***************************************************************************)
(* SetDeadline succeeds on a connection we have not closed, unless the     *)
(* system call itself fails.                                               *)
(***************************************************************************)
SetDeadlineOk(p) ==
    /\ pc[p] = "deadline" /\ sock[held[p]] = "open"
    /\ Goto(p, "send")
    /\ failed' = [failed EXCEPT ![p] = FALSE]
    /\ UNCHANGED <<poolVars, sockVars, peerVars, toClient, held, attempt,
                   slowSend, callVars, res, dials, histVars>>

SetDeadlineFail(p) ==
    /\ pc[p] = "deadline"
    /\ sock[held[p]] = "closed" \/ SocketOptionsFail
    /\ Goto(p, IF old[held[p]] THEN "clear" ELSE "finish")
    /\ failed' = [failed EXCEPT ![p] = TRUE]
    /\ broken' = broken \cup {held[p]}
    /\ UNCHANGED <<poolVars, sockVars, peerVars, toClient, held, attempt,
                   slowSend, callVars, res, dials, tainted, freed>>

(***************************************************************************)
(* The Send goroutine and the select that waits for it.  A write into a    *)
(* connection the peer has closed is lost, or fails; a write to an open    *)
(* peer fails only when the deadline passes, which is never within the     *)
(* 50 ms of the fast path.                                                 *)
(***************************************************************************)
SendOk(p, slow) ==
    /\ pc[p] = "send"
    /\ Goto(p, IF Kind(req[p]) = "twoWay" THEN "recv" ELSE "finish")
    /\ toServer' = [toServer EXCEPT ![held[p]] =
                        IF peerOpen[held[p]] THEN @ \cup {req[p]} ELSE @]
    /\ slowSend' = [slowSend EXCEPT ![p] = slow]
    /\ UNCHANGED <<poolVars, sockVars, peerOpen, inHand, delivered, toClient,
                   held, attempt, failed, callVars, res, dials, histVars>>

\* TcpConnection.Close: answers the peer has written or will write are lost
CloseSocks(S) ==
    /\ sock' = [c \in ConnIds |-> IF c \in S THEN "closed" ELSE sock[c]]
    /\ toClient' = [c \in ConnIds |-> IF c \in S THEN <<>> ELSE toClient[c]]
    /\ inHand' = [c \in ConnIds |-> IF c \in S THEN {} ELSE inHand[c]]

\* mutant: retries whatever connection failed
AfterErrorOfAny(p, slow) == Goto(p, IF ~slow THEN "clear" ELSE "finish")

\* where an error of Send or Receive leads: retry when fast and the
\* connection is an old one, else the clean-up after the loop
AfterError(p, slow) ==
    Goto(p, IF ~slow /\ old[held[p]] THEN "clear" ELSE "finish")

SendFail(p, slow) ==
    /\ pc[p] = "send"
    /\ slow \/ ~peerOpen[held[p]]
    /\ CloseSocks({held[p]})
    /\ AfterError(p, slow)
    /\ failed' = [failed EXCEPT ![p] = TRUE]
    /\ UNCHANGED <<poolVars, lastId, connAddr, old, peerOpen, toServer,
                   delivered, held, attempt, slowSend, callVars, res, dials,
                   histVars>>

(***************************************************************************)
(* The Receive goroutine and its select.  Receive fails when the peer has  *)
(* closed (end of stream, or a reset that discards unread responses) or    *)
(* when the deadline passes: within 50 ms only if the Send was slow.       *)
(***************************************************************************)
DeadlineNever(p, slow) == FALSE     \* mutant: SetDeadline(noDeadline)
DeadlinePassed(p, slow) == slow \/ slowSend[p]

RecvOk(p) ==
    /\ pc[p] = "recv" /\ toClient[held[p]] # <<>>
    /\ res' = [res EXCEPT ![p] = Head(toClient[held[p]])]
    /\ toClient' = [toClient EXCEPT ![held[p]] = Tail(@)]
    /\ Goto(p, "finish")
    /\ UNCHANGED <<poolVars, sockVars, peerVars, held, attempt, failed,
                   slowSend, callVars, dials, histVars>>

RecvFail(p, slow) ==
    /\ pc[p] = "recv"
    /\ ~peerOpen[held[p]] \/ DeadlinePassed(p, slow)
    /\ CloseSocks({held[p]})
    /\ AfterError(p, slow)
    /\ failed' = [failed EXCEPT ![p] = TRUE]
    /\ UNCHANGED <<poolVars, lastId, connAddr, old, peerOpen, toServer,
                   delivered, held, attempt, slowSend, callVars, res, dials,
                   histVars>>

(***************************************************************************)
(* closeClientTcpConnection: close and forget every pooled connection of   *)
(* the address; then the loop goes round again, or ends with its error.    *)
(***************************************************************************)
Flushed(a) == Pooled(a)

Forget(a) == pool' = [pool EXCEPT ![a] = <<>>]

NextAttempt(n) == n + 1

LastAttempt(n) == n >= MaxBadConnRetries

Clear(p) ==
    /\ pc[p] = "clear"
    /\ CloseSocks(Flushed(addr[p]))
    /\ Forget(addr[p])
    /\ \/ /\ ~LastAttempt(attempt[p])
          /\ freed' = [freed EXCEPT ![p] = {}]
          /\ attempt' = [attempt EXCEPT ![p] = NextAttempt(@)]
          /\ held' = [held EXCEPT ![p] = NoConn]
          /\ Goto(p, "get")
       \/ /\ LastAttempt(attempt[p])
          /\ Goto(p, "finish")
          /\ UNCHANGED <<attempt, held, freed>>
    /\ UNCHANGED <<limit, lastId, connAddr, old, peerOpen, toServer,
                   delivered, failed, slowSend, callVars, res, dials, broken,
                   tainted>>

(***************************************************************************)
(* After the loop: freeClientTcpConnection on success, Close on failure.   *)
(***************************************************************************)
MayPoolFailed(p) == Len(pool[addr[p]]) < limit  \* mutant: err not looked at
MayPool(p) == ~failed[p] /\ Len(pool[addr[p]]) < limit

\* mutant: a connection over the limit is dropped without Close
DiscardedFailed(p) == IF failed[p] THEN {held[p]} ELSE {}
Discarded(p) == {held[p]}

FreeToPool(p) ==
    /\ pc[p] = "finish" /\ MayPool(p)
    /\ pool' = [pool EXCEPT ![addr[p]] = Append(@, held[p])]
    /\ old' = [old EXCEPT ![held[p]] = TRUE]
    /\ freed' = [q \in Clients |-> IF attempt[q] > 1
                                    THEN freed[q] \cup {held[p]} ELSE {}]
    /\ Return(p)
    /\ UNCHANGED <<limit, lastId, sock, connAddr, peerVars, toClient, calls,
                   addr, broken, tainted>>

CloseHeld(p) ==
    /\ pc[p] = "finish" /\ ~MayPool(p)
    /\ CloseSocks(Discarded(p))
    /\ Return(p)
    /\ UNCHANGED <<poolVars, lastId, connAddr, old, peerOpen, toServer,
                   delivered, calls, addr, histVars>>

\* setClientConnectionLimit
SetLimit(l) ==
    /\ l # limit
    /\ limit' = l
    /\ UNCHANGED <<pool, sockVars, peerVars, toClient, pc, held, attempt,
                   failed, slowSend, callVars, res, dials, histVars>>

(***************************************************************************)
(* The peer.  serveConnection receives a frame and starts a goroutine for  *)
(* it, so the order in which handlers answer is not the order of arrival;  *)
(* a handler answers at most once, or never.  The connection may go away   *)
(* at any time, with the frames it had not received; what happens to the   *)
(* peer's end of a connection we closed matters only while it has frames   *)
(* to receive.                                                             *)
(***************************************************************************)
MayAnswer(r) == Kind(r) = "twoWay" \/ OneWayReplies

ServerRecv(c, r) ==
    /\ peerOpen[c] /\ r \in toServer[c]
    /\ toServer' = [toServer EXCEPT ![c] = @ \ {r}]
    /\ inHand' = [inHand EXCEPT ![c] = IF sock[c] = "open" /\ MayAnswer(r)
                                       THEN @ \cup {r} ELSE @]
    /\ delivered' = [delivered EXCEPT ![r] = @ + 1]
    /\ UNCHANGED <<poolVars, sockVars, peerOpen, toClient, pc, held, attempt,
                   failed, slowSend, callVars, res, dials, histVars>>

ServerReply(c, r) ==
    /\ r \in inHand[c]
    /\ inHand' = [inHand EXCEPT ![c] = @ \ {r}]
    /\ toClient' = [toClient EXCEPT ![c] = Append(@, r)]
    /\ tainted' = IF Kind(r) = "oneWay" THEN tainted \cup {c} ELSE tainted
    /\ UNCHANGED <<poolVars, sockVars, peerOpen, toServer, delivered, pc,
                   held, attempt, failed, slowSend, callVars, res, dials,
                   broken, freed>>

ServerClose(c) ==
    /\ peerOpen[c]
    /\ sock[c] = "open" \/ toServer[c] # {}
    /\ peerOpen' = [peerOpen EXCEPT ![c] = FALSE]
    /\ toServer' = [toServer EXCEPT ![c] = {}]
    /\ inHand' = [inHand EXCEPT ![c] = {}]
    /\ UNCHANGED <<poolVars, sockVars, delivered, toClient, pc, held, attempt,
                   failed, slowSend, callVars, res, dials, histVars>>

-----------------------------------------------------------------------------
ClientStep(p) ==
    \/ GetPooled(p) \/ GetMiss(p)
    \/ \E b \in BOOLEAN : DialOk(p, b)
    \/ DialFail(p)
    \/ SetDeadlineOk(p) \/ SetDeadlineFail(p)
    \/ \E slow \in BOOLEAN :
          SendOk(p, slow) \/ SendFail(p, slow) \/ RecvFail(p, slow)
    \/ RecvOk(p)
    \/ Clear(p) \/ FreeToPool(p) \/ CloseHeld(p)

ServerStep ==
    \E c \in ConnIds :
       \/ ServerClose(c)
       \/ \E r \in toServer[c] : ServerRecv(c, r)
       \/ \E r \in inHand[c] : ServerReply(c, r)

Next ==
    \/ \E p \in Clients :
          \/ ClientStep(p)
          \/ \E kind \in Kinds, a \in Addrs : Call(p, kind, a)
    \/ ServerStep
    \/ \E l \in Limits : SetLimit(l)

Spec == Init /\ [][Next]_vars

\* a goroutine inside a call keeps running: its waits end at the deadline
FairSpec == Spec /\ \A p \in Clients : WF_vars(ClientStep(p))
-----------------------------------------------------------------------------
PoolTypes ==
    /\ pool \in [Addrs -> Seq(ConnIds)]
    /\ limit \in Limits

SockTypes ==
    /\ lastId \in 0 .. MaxConns
    /\ sock \in [ConnIds -> {"none", "open", "closed"}]
    /\ connAddr \in [ConnIds -> Addrs]
    /\ old \in [ConnIds -> BOOLEAN]

PeerTypes ==
    /\ peerOpen \in [ConnIds -> BOOLEAN]
    /\ toServer \in [ConnIds -> SUBSET Requests]
    /\ inHand \in [ConnIds -> SUBSET Requests]
    /\ toClient \in [ConnIds -> Seq(Requests)]
    /\ delivered \in [Requests -> Nat]

CallTypes ==
    /\ pc \in [Clients -> {"idle", "get", "dial", "deadline", "send", "recv",
                           "clear", "finish"}]
    /\ held \in [Clients -> ConnIds \cup {NoConn}]
    /\ attempt \in [Clients -> 1 .. MaxBadConnRetries]
    /\ failed \in [Clients -> BOOLEAN]
    /\ slowSend \in [Clients -> BOOLEAN]
    /\ calls \in 0 .. MaxCalls
    /\ addr \in [Clients -> Addrs]
    /\ dials \in [Clients -> Nat]

RequestTypes ==
    /\ req \in [Clients -> Requests \cup {NoReq}]
    /\ res \in [Clients -> Requests \cup {NoReq}]

\* the parts of the state that go together when a call is under way
CallShape ==
    \A p \in Clients :
       /\ pc[p] # "idle" => req[p] \in Requests
       /\ held[p] = NoConn <=> pc[p] \in {"idle", "get", "dial"}

HistTypes ==
    /\ broken \in SUBSET ConnIds /\ tainted \in SUBSET ConnIds
    /\ freed \in [Clients -> SUBSET ConnIds]

TypeOK ==
    /\ PoolTypes /\ SockTypes /\ PeerTypes /\ CallTypes /\ RequestTypes
    /\ CallShape /\ HistTypes

(***************************************************************************)
(* A connection has one place: one slot of the pool of the address it was  *)
(* dialled to, or the hands of one caller.  Two goroutines never write     *)
(* requests into one connection, nor steal each other's responses.         *)
(***************************************************************************)
PoolSlotsDistinct ==
    \A a \in Addrs : \A i, j \in DOMAIN pool[a] :
        i # j => pool[a][i] # pool[a][j]
PooledAtItsAddress ==
    \A a \in Addrs : \A i \in DOMAIN pool[a] : connAddr[pool[a][i]] = a
HeldByOne ==
    \A p, q \in Clients : p # q /\ held[p] # NoConn => held[p] # held[q]
HeldNotPooled ==
    \A p \in Clients, a \in Addrs : \A i \in DOMAIN pool[a] :
        pool[a][i] # held[p]

ExclusiveOwnership ==
    /\ PoolSlotsDistinct /\ PooledAtItsAddress
    /\ HeldByOne /\ HeldNotPooled

(***************************************************************************)
(* A pooled connection is open on our side, and so is the connection of a  *)
(* caller about to use it: flushing the pool for one caller cannot close   *)
(* what another one is using or will be given.                             *)
(***************************************************************************)
UsableConnections ==
    /\ \A c \in AllPooled : sock[c] = "open"
    /\ \A p \in Clients :
          pc[p] \in {"deadline", "send", "recv"} =>
              held[p] # NoConn /\ sock[held[p]] = "open"

(***************************************************************************)
(* connectionLimit bounds the idle connections of an address; and since a  *)
(* caller dials only when it found the pool empty, the connections open to *)
(* an address never outnumber the callers.                                 *)
(***************************************************************************)
LargestLimit == CHOOSE l \in Limits : \A k \in Limits : k <= l
OpenTo(a) == {c \in ConnIds \ broken : sock[c] = "open" /\ connAddr[c] = a}

OpenBound ==
    \A a \in Addrs : /\ Len(pool[a]) <= LargestLimit
                     /\ Cardinality(OpenTo(a)) <= Cardinality(Clients)

(***************************************************************************)
(* A two-way call that succeeds got the response to its own request, and   *)
(* the peer did receive the request -- unless the peer once answered a     *)
(* one-way request on the connection, which shifts every later response.   *)
(***************************************************************************)
OwnResponse ==
    \A p \in Clients :
        pc[p] = "finish" /\ ~failed[p] /\ Kind(req[p]) = "twoWay" =>
            \/ res[p] = req[p] /\ delivered[req[p]] > 0
            \/ held[p] \in tainted

(***************************************************************************)
(* The retry is bounded: the peer receives a request at most once per      *)
(* attempt, so at most maxBadConnRetries times, and only once from a call  *)
(* that is still on its first attempt.  A call dials at most one           *)
(* connection, since what fails on a fresh connection is never retried.    *)
(* Nor does a retry fall for a second stale connection of the same batch:  *)
(* an old connection it gets was handed back by another call after the     *)
(* flush.                                                                  *)
(***************************************************************************)
RetryAvoidsFlushed(p) ==
    attempt[p] > 1 /\ held[p] # NoConn /\ old[held[p]] => held[p] \in freed[p]

RetryBound ==
    /\ \A r \in Requests : delivered[r] <= MaxBadConnRetries
    /\ \A p \in Clients :
          /\ req[p] # NoReq => delivered[req[p]] <= attempt[p]
          /\ dials[p] <= 1
          /\ RetryAvoidsFlushed(p)

(***************************************************************************)
(* Every call returns: the deadline ends each wait and the retries are     *)
(* bounded.                                                                *)
(***************************************************************************)
CallReturns == \A p \in Clients : pc[p] # "idle" ~> pc[p] = "idle"

(***************************************************************************)
(* The client implements ConnOwnership: a connection we have closed, or    *)
(* abandoned after a failed socket option, is gone; an open one belongs to *)
(* the caller that holds it or else to the pool, and would be "lost", a    *)
(* thing the abstract specification does not know, if it had neither.      *)
(***************************************************************************)
Owner(c) ==
    IF sock[c] = "none" THEN "unborn"
    ELSE IF sock[c] = "closed" THEN "gone"
    ELSE IF c \in InUse THEN CHOOSE p \in Clients : held[p] = c
    ELSE IF c \in AllPooled THEN "idle"
    ELSE IF c \in broken THEN "gone"
    ELSE "lost"

Ownership == INSTANCE ConnOwnership WITH
    Callers <- Clients, Conns <- ConnIds, Addresses <- Addrs,
    owner <- [c \in ConnIds |-> Owner(c)], at <- connAddr

ImplementsOwnership == Ownership!OSpec
=============================================================================
