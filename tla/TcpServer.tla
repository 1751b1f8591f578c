------------------------------ MODULE TcpServer ------------------------------
(***************************************************************************)
(* The TCP server of net/tcp_server.go with the connections it serves      *)
(* (net/tcp_connection.go): the accept loop, one serving goroutine for     *)
(* each connection, one handler goroutine for each request, goroutines     *)
(* that call stop, and the peers at the other ends.                        *)
(*                                                                         *)
(* TcpConnection.Close is three steps of the goroutine that wins the       *)
(* compare-and-swap: the flag, conn.Close, the OnDisconnect hook.  The     *)
(* losers go on at once.  stop ranges over the connection map without the  *)
(* mutex, which the Go runtime aborts when it meets a write in progress.   *)
(***************************************************************************)
EXTENDS Integers, FiniteSets

CONSTANTS
    MaxConns,       \* bound: connections accepted
    MaxRequests,    \* bound: requests a peer sends on a connection
    Stoppers,       \* goroutines that call stop
    KeepAliveFails  \* may SetKeepAlive fail on an accepted connection?

ASSUME ServerAssumption ==
    /\ MaxConns \in Nat /\ MaxRequests \in Nat
    /\ KeepAliveFails \in BOOLEAN
    /\ Stoppers \cap {"serve", "handler", "nobody"} = {}

ConnIds == 1 .. MaxConns

VARIABLES
    up,             \* the process has not panicked
    listening,      \* the listener is open
    accept, cur,    \* the accept loop and the id of its last connection
    connections,    \* keys of s.connections
    stopWait,       \* counter of the WaitGroup
    serve,          \* the serving goroutine of each connection
    closing,        \* how far Close of a connection has got ...
    closer,         \* ... and the goroutine that runs it
    handlers,       \* OnDataIn goroutines running for a connection
    peerOpen, inbox,\* the peer's end, and its requests not yet received
    stopFlag,
    stopping,       \* each stopper
    visited,        \* connections closeConnections has come to
    atStart,        \* the map when closeConnections began
    \* history, read by the properties and by no guard:
    connected,      \* connections OnConnect was called for
    disconnects,    \* calls of OnDisconnect
    unregistered,   \* served but never added
    late,           \* added after stop returned
    cause           \* what made the process panic

loopVars == <<listening, accept, cur>>
mapVars  == <<connections, stopWait>>
connVars == <<closing, closer, disconnects>>
peerVars == <<peerOpen, inbox>>
stopVars == <<stopFlag, stopping, visited, atStart>>
histVars == <<connected, unregistered, late>>
vars == <<up, loopVars, mapVars, serve, connVars, handlers, peerVars,
          stopVars, histVars, cause>>

Init ==
    /\ up = TRUE /\ listening = TRUE
    /\ accept = "accept" /\ cur = 0
    /\ connections = {} /\ stopWait = 0
    /\ serve = [c \in ConnIds |-> "none"]
    /\ closing = [c \in ConnIds |-> "open"]
    /\ closer = [c \in ConnIds |-> "nobody"]
    /\ handlers = [c \in ConnIds |-> 0]
    /\ peerOpen = [c \in ConnIds |-> FALSE]
    /\ inbox = [c \in ConnIds |-> 0]
    /\ stopFlag = FALSE
    /\ stopping = [s \in Stoppers |-> "idle"]
    /\ visited = {} /\ atStart = {}
    /\ connected = {} /\ unregistered = {} /\ late = {}
    /\ disconnects = [c \in ConnIds |-> 0]
    /\ cause = "none"

Panic(why) == up' = FALSE /\ cause' = why
Survive    == UNCHANGED <<up, cause>>

-----------------------------------------------------------------------------
\* the accept loop

\* Accept returns a connection, with requests its peer has written already
Accept ==
    /\ accept = "accept" /\ listening /\ cur < MaxConns
    /\ cur' = cur + 1
    /\ accept' = "new"
    /\ peerOpen' = [peerOpen EXCEPT ![cur + 1] = TRUE]
    /\ \E n \in 0 .. MaxRequests : inbox' = [inbox EXCEPT ![cur + 1] = n]
    /\ Survive
    /\ UNCHANGED <<listening, mapVars, serve, connVars, handlers, stopVars,
                   histVars>>

\* Accept fails: the listener is closed, or out of descriptors; serve returns
AcceptFail ==
    /\ accept = "accept"
    /\ accept' = "ended"
    /\ Survive
    /\ UNCHANGED <<listening, cur, mapVars, serve, connVars, handlers,
                   peerVars, stopVars, histVars>>

AddsUncounted == 0      \* mutant: no stopWait.Add
Adds == 1

\* newConnection: addConnection, unless SetKeepAlive fails; the error is
\* dropped by the loop
NewConnection ==
    /\ accept = "new"
    /\ accept' = "connect"
    /\ \/ /\ connections' = connections \cup {cur}
          /\ stopWait' = stopWait + Adds
          /\ late' = IF \E s \in Stoppers : stopping[s] = "true"
                     THEN late \cup {cur} ELSE late
          /\ UNCHANGED unregistered
       \/ /\ KeepAliveFails
          /\ unregistered' = unregistered \cup {cur}
          /\ UNCHANGED <<mapVars, late>>
    /\ Survive
    /\ UNCHANGED <<listening, cur, serve, connVars, handlers, peerVars,
                   stopVars, connected>>

Hooked(c) == connected' = connected \cup {c}

\* OnConnect, then go serveConnection
Connect ==
    /\ accept = "connect"
    /\ Hooked(cur)
    /\ serve' = [serve EXCEPT ![cur] = "recv"]
    /\ accept' = "accept"
    /\ Survive
    /\ UNCHANGED <<listening, cur, mapVars, connVars, handlers, peerVars,
                   stopVars, unregistered, late>>

-----------------------------------------------------------------------------
\* TcpConnection.Close, called by a goroutine `who`

MayCloseAlways(c, who) == closer[c] # who   \* mutant: no compare-and-swap
MayClose(c, who) == closing[c] = "open"

Flag(c, who) ==
    /\ closing' = [closing EXCEPT ![c] = "flagged"]
    /\ closer' = [closer EXCEPT ![c] = who]

\* conn.Close and then the hook, by the goroutine that won
CloseStep(c) ==
    /\ \/ /\ closing[c] = "flagged"
          /\ closing' = [closing EXCEPT ![c] = "closed"]
          /\ UNCHANGED disconnects
       \/ /\ closing[c] = "closed"
          /\ closing' = [closing EXCEPT ![c] = "hooked"]
          /\ disconnects' = [disconnects EXCEPT ![c] = @ + 1]
    /\ Survive
    /\ UNCHANGED <<loopVars, mapVars, serve, closer, handlers, peerVars,
                   stopVars, histVars>>

SockClosed(c) == closing[c] \in {"closed", "hooked"}

\* the call of Close made by `who` has returned
CloseReturned(c, who) ==
    closing[c] # "open" /\ (closer[c] = who => closing[c] = "hooked")

-----------------------------------------------------------------------------
\* serveConnection

Receive(c) ==
    /\ serve[c] = "recv" /\ ~SockClosed(c) /\ inbox[c] > 0
    /\ inbox' = [inbox EXCEPT ![c] = @ - 1]
    /\ handlers' = [handlers EXCEPT ![c] = @ + 1]
    /\ Survive
    /\ UNCHANGED <<loopVars, mapVars, serve, connVars, peerOpen, stopVars,
                   histVars>>

\* end of stream, a reset, or our own Close; Receive calls Close
ReceiveFail(c) ==
    /\ serve[c] = "recv" /\ (SockClosed(c) \/ ~peerOpen[c])
    /\ serve' = [serve EXCEPT ![c] = "closing"]
    /\ IF MayClose(c, "serve") THEN Flag(c, "serve")
                               ELSE UNCHANGED <<closing, closer>>
    /\ Survive
    /\ UNCHANGED <<loopVars, mapVars, disconnects, handlers, peerVars,
                   stopVars, histVars>>

ForgottenNever(c) == connections   \* mutant: the entry is not deleted
Forgotten(c) == connections \ {c}

\* the mutex protects delConnection: the entry goes, the WaitGroup counts
\* down, and stop is woken when it reaches zero
DelConnection(c) ==
    /\ serve[c] = "closing" /\ CloseReturned(c, "serve")
    /\ serve' = [serve EXCEPT ![c] = "done"]
    /\ connections' = Forgotten(c)
    /\ stopWait' = stopWait - 1
    /\ stopping' = [s \in Stoppers |->
            IF stopping[s] = "wait" /\ stopWait = 1 THEN "woken"
            ELSE stopping[s]]
    /\ IF stopWait = 0 THEN Panic("negative") ELSE Survive
    /\ UNCHANGED <<loopVars, connVars, handlers, peerVars, stopFlag, visited,
                   atStart, histVars>>

\* a handler answers, or finds the peer gone and closes the connection
HandlerEnds(c) ==
    /\ handlers[c] > 0
    /\ handlers' = [handlers EXCEPT ![c] = @ - 1]
    /\ \/ UNCHANGED <<closing, closer>>
       \/ /\ ~peerOpen[c] /\ MayClose(c, "handler")
          /\ Flag(c, "handler")
    /\ Survive
    /\ UNCHANGED <<loopVars, mapVars, serve, disconnects, peerVars, stopVars,
                   histVars>>

PeerCloses(c) ==
    /\ peerOpen[c]
    /\ peerOpen' = [peerOpen EXCEPT ![c] = FALSE]
    /\ Survive
    /\ UNCHANGED <<loopVars, mapVars, serve, connVars, handlers, inbox,
                   stopVars, histVars>>

-----------------------------------------------------------------------------
\* stop

GoOn(s, l) == stopping' = [stopping EXCEPT ![s] = l]

StopCall(s) ==
    /\ stopping[s] = "idle"
    /\ GoOn(s, IF stopFlag THEN "false" ELSE "listener")
    /\ stopFlag' = TRUE
    /\ Survive
    /\ UNCHANGED <<loopVars, mapVars, serve, connVars, handlers, peerVars,
                   visited, atStart, histVars>>

StopListener(s) ==
    /\ stopping[s] = "listener"
    /\ listening' = FALSE
    /\ GoOn(s, "range")
    /\ visited' = {} /\ atStart' = connections
    /\ Survive
    /\ UNCHANGED <<accept, cur, mapVars, serve, connVars, handlers, peerVars,
                   stopFlag, histVars>>

\* the entries Go's range must still come to; one added meanwhile it may
ToVisitNone == {}       \* mutant: closes the connections it happens to see
ToVisit == (connections \cap atStart) \ visited

\* one iteration: Close, of which the stopper waits for the end
StopVisit(s, c) ==
    /\ stopping[s] = "range" /\ c \in connections \ visited
    /\ \A d \in visited : CloseReturned(d, s)
    /\ visited' = visited \cup {c}
    /\ IF MayClose(c, s) THEN Flag(c, s) ELSE UNCHANGED <<closing, closer>>
    /\ Survive
    /\ UNCHANGED <<loopVars, mapVars, serve, disconnects, handlers, peerVars,
                   stopFlag, stopping, atStart, histVars>>

\* a goroutine is writing the map, under the mutex, as range looks at it
MapWriteRace(s) ==
    /\ stopping[s] = "range"
    /\ accept = "new" \/ \E c \in ConnIds : /\ serve[c] = "closing"
                                            /\ CloseReturned(c, "serve")
    /\ Panic("race")
    /\ UNCHANGED <<loopVars, mapVars, serve, connVars, handlers, peerVars,
                   stopVars, histVars>>

\* the range is over; Wait returns at once when the counter is zero
StopWait(s) ==
    /\ stopping[s] = "range" /\ ToVisit = {}
    /\ \A d \in visited : CloseReturned(d, s)
    /\ GoOn(s, IF stopWait = 0 THEN "true" ELSE "wait")
    /\ Survive
    /\ UNCHANGED <<loopVars, mapVars, serve, connVars, handlers, peerVars,
                   stopFlag, visited, atStart, histVars>>

\* a woken Wait panics when the counter has been raised again
StopWoken(s) ==
    /\ stopping[s] = "woken"
    /\ IF stopWait = 0 THEN GoOn(s, "true") /\ Survive
                       ELSE Panic("reused") /\ UNCHANGED stopping
    /\ UNCHANGED <<loopVars, mapVars, serve, connVars, handlers, peerVars,
                   stopFlag, visited, atStart, histVars>>

-----------------------------------------------------------------------------
LoopStep == accept # "accept" /\ (NewConnection \/ Connect)
ServeStep(c) == Receive(c) \/ ReceiveFail(c) \/ DelConnection(c)
StopStep(s) ==
    \/ StopListener(s) \/ StopWait(s) \/ StopWoken(s)
    \/ \E c \in ConnIds : StopVisit(s, c)

Next ==
    /\ up
    /\ \/ Accept \/ AcceptFail \/ LoopStep
       \/ \E c \in ConnIds : \/ CloseStep(c) \/ ServeStep(c)
                             \/ HandlerEnds(c) \/ PeerCloses(c)
       \/ \E s \in Stoppers : StopCall(s) \/ StopStep(s) \/ MapWriteRace(s)

Spec == Init /\ [][Next]_vars

\* goroutines that are not blocked run; nobody has to connect, to close, to
\* answer or to call stop
Fairness ==
    /\ WF_vars(up /\ LoopStep)
    /\ \A c \in ConnIds : /\ WF_vars(up /\ CloseStep(c))
                          /\ WF_vars(up /\ ServeStep(c))
    /\ \A s \in Stoppers : WF_vars(up /\ StopStep(s))

FairSpec == Spec /\ Fairness

-----------------------------------------------------------------------------
TypeOK ==
    /\ up \in BOOLEAN /\ listening \in BOOLEAN /\ stopFlag \in BOOLEAN
    /\ accept \in {"accept", "new", "connect", "ended"}
    /\ cur \in 0 .. MaxConns
    /\ stopWait \in -1 .. MaxConns
    /\ serve \in [ConnIds -> {"none", "recv", "closing", "done"}]
    /\ closing \in [ConnIds -> {"open", "flagged", "closed", "hooked"}]
    /\ closer \in [ConnIds -> Stoppers \cup {"serve", "handler", "nobody"}]
    /\ handlers \in [ConnIds -> 0 .. MaxRequests]
    /\ inbox \in [ConnIds -> 0 .. MaxRequests]
    /\ peerOpen \in [ConnIds -> BOOLEAN]
    /\ stopping \in [Stoppers -> {"idle", "listener", "range", "wait",
                                  "woken", "true", "false"}]
    /\ \A S \in {connections, visited, atStart, connected, unregistered,
                 late} : S \subseteq ConnIds
    /\ disconnects \in [ConnIds -> Nat]
    /\ cause \in {"none", "negative", "race", "reused"}

(***************************************************************************)
(* The hooks a service relies on: OnDataIn never before OnConnect,         *)
(* OnDisconnect once at most however many goroutines close the connection  *)
(* (the reader, a handler, stop), and before OnConnect only when stop      *)
(* closes a connection that the accept loop is still setting up.           *)
(***************************************************************************)
HookOrder ==
    \A c \in ConnIds :
       /\ disconnects[c] <= 1
       /\ serve[c] # "none" => c \in connected
       /\ disconnects[c] > 0 /\ c \notin connected => closer[c] \in Stoppers

\* The WaitGroup counts the connections of the map, less those that ended
\* without having been added.
WaitCounts ==
    stopWait = Cardinality(connections)
               - Cardinality({c \in unregistered : serve[c] = "done"})

(***************************************************************************)
(* When stop has returned true, every connection it knew of is closed and  *)
(* its goroutine gone; at most one connection, caught between Accept and   *)
(* addConnection, is served afterwards.  True while SetKeepAlive succeeds: *)
(* otherwise the counter may be short and stop returns early.              *)
(***************************************************************************)
StopDrains ==
    unregistered = {} /\ (\E s \in Stoppers : stopping[s] = "true") =>
        /\ connections \subseteq late
        /\ Cardinality(late) <= 1

(***************************************************************************)
(* The server panics only when SetKeepAlive failed on some connection, or  *)
(* when stop was called: by the map race, or by a connection added while   *)
(* stop was being woken, which then was on its way at the time of stop.    *)
(* For the WaitGroup counts what is in the map, but for such connections.  *)
(***************************************************************************)
PanicCauses ==
    /\ WaitCounts
    /\ cause = "negative" => unregistered # {}
    /\ cause = "race" => stopFlag
    /\ cause = "reused" => stopFlag /\ connections \ atStart # {}
    /\ ~stopFlag /\ unregistered = {} => up

(***************************************************************************)
(* stop returns, unless the server panics or is left waiting, for ever,    *)
(* for a connection that was added too late to be closed.                  *)
(***************************************************************************)
StopReturns ==
    \A s \in Stoppers :
        stopping[s] = "range" ~>
            \/ stopping[s] = "true" \/ ~up
            \/ [](connections \ (atStart \cup visited) # {})
=============================================================================
