---------------------------- MODULE TcpServerProofs ----------------------------
(***************************************************************************)
(* Proofs about TcpServer, for every number of connections, requests and   *)
(* callers of stop, whether or not SetKeepAlive may fail.                  *)
(***************************************************************************)
EXTENDS TcpServer, FiniteSetTheorems, TLAPS

(***************************************************************************)
(* The inductive invariant.  Fresh: a connection not yet accepted has left *)
(* no trace.  Setup: what the accept loop has done for the one it sets up, *)
(* and that a connection that is served is in the map or was refused.      *)
(* Hooks: the hooks against the steps of Close and who runs it.  Counted:  *)
(* WaitCounts, and the process panics when the counter passes zero.        *)
(* Stopped: stop has one winner, who closes the listener first; a woken    *)
(* Wait finds the counter raised only by what came after it began.         *)
(* Drained: what is in the map after stop is the one connection that was   *)
(* on its way.                                                             *)
(***************************************************************************)
Fresh ==
    \A c \in ConnIds : c > cur =>
        /\ serve[c] = "none" /\ c \notin connections \cup unregistered \cup atStart

Setup ==
    /\ accept \in {"new", "connect"} => cur \in ConnIds /\ serve[cur] = "none"
    /\ accept = "new" => cur \notin connections \cup unregistered \cup atStart
    /\ accept = "connect" => cur \in connections \cup unregistered
    /\ \A c \in ConnIds : serve[c] = "none" => handlers[c] = 0
    /\ \A c \in ConnIds : handlers[c] + inbox[c] <= MaxRequests
    /\ \A c \in ConnIds : serve[c] \in {"recv", "closing"} =>
                              c \in connections \cup unregistered
    /\ \A c \in connections : c \notin unregistered /\ serve[c] # "done"

Hooks ==
    \A c \in ConnIds :
        /\ serve[c] # "none" => c \in connected
        /\ disconnects[c] = IF closing[c] = "hooked" THEN 1 ELSE 0
        /\ closing[c] # "open" => closer[c] # "nobody"
        /\ closer[c] \in {"serve", "handler"} => c \in connected

Counted == WaitCounts /\ (up => stopWait >= 0)

Won(s) == stopping[s] \notin {"idle", "false"}

Stopped ==
    /\ \A s \in Stoppers : stopping[s] # "idle" => stopFlag
    /\ \A r, s \in Stoppers : Won(r) /\ Won(s) => r = s
    /\ \A s \in Stoppers :
          stopping[s] \in {"range", "wait", "woken", "true"} => ~listening
    /\ \A s \in Stoppers : stopping[s] = "woken" =>
          stopWait <= Cardinality(connections \ atStart)

Panicked ==
    /\ up <=> cause = "none"
    /\ cause = "negative" => unregistered # {}
    /\ cause = "race" => stopFlag
    /\ cause = "reused" => stopFlag /\ connections \ atStart # {}

Drained ==
    /\ late # {} => ~listening
    /\ late \subseteq {cur}
    /\ unregistered = {} /\ (\E s \in Stoppers : stopping[s] = "true") =>
          connections \subseteq late

IInv == /\ TypeOK /\ Fresh /\ Setup /\ Hooks /\ Counted /\ Stopped
        /\ Panicked /\ Drained

Ended == {c \in unregistered : serve[c] = "done"}

(* Connections are finitely many, and so are all sets of them.             *)

LEMMA ConnSets ==
    ASSUME NEW S \in SUBSET ConnIds
    PROVE  /\ IsFiniteSet(S) /\ Cardinality(S) \in Nat
           /\ Cardinality(S) <= MaxConns
           /\ Cardinality(S) = 0 <=> S = {}
<1>1. IsFiniteSet(ConnIds) /\ Cardinality(ConnIds) = MaxConns
  BY FS_Interval, ServerAssumption DEF ConnIds
<1>2. IsFiniteSet(S) /\ Cardinality(S) <= MaxConns
  BY <1>1, FS_Subset
<1>. QED
  BY <1>2, FS_CardinalityType, FS_EmptySet

LEMMA ConnSetGrows ==
    ASSUME NEW S \in SUBSET ConnIds, NEW c
    PROVE  /\ c \notin S => Cardinality(S \cup {c}) = Cardinality(S) + 1
           /\ c \in S => Cardinality(S \ {c}) = Cardinality(S) - 1
           /\ c \notin S => S \ {c} = S
<1>1. c \notin S => Cardinality(S \cup {c}) = Cardinality(S) + 1
  BY ConnSets, FS_AddElement
<1>2. c \in S => Cardinality(S \ {c}) = Cardinality(S) - 1
  BY ConnSets, FS_RemoveElement
<1>. QED
  BY <1>1, <1>2

LEMMA InitInv == Init => IInv
<1>. SUFFICES ASSUME Init PROVE IInv
  OBVIOUS
<1>. USE ServerAssumption DEF Init
<1>1. TypeOK
  <2>1. 0 \in 0 .. MaxRequests /\ 0 \in 0 .. MaxConns /\ 0 \in -1 .. MaxConns
    OBVIOUS
  <2>. QED
    BY <2>1 DEF TypeOK
<1>2. Fresh /\ Setup /\ Hooks /\ Stopped /\ Panicked /\ Drained
  BY DEF Fresh, Setup, Hooks, Stopped, Won, Panicked, Drained
<1>3. Counted
  <2>1. {c \in unregistered : serve[c] = "done"} = {}
    OBVIOUS
  <2>. QED
    BY <2>1, FS_EmptySet DEF Counted, WaitCounts
<1>. QED
  BY <1>1, <1>2, <1>3 DEF IInv

-----------------------------------------------------------------------------
(* The accept loop.                                                        *)

LEMMA AcceptInv == IInv /\ up /\ Accept => IInv'
<1>. SUFFICES ASSUME IInv, up, Accept PROVE IInv'
  OBVIOUS
<1>. USE ServerAssumption DEF IInv
<1>1. PICK n \in 0 .. MaxRequests : inbox' = [inbox EXCEPT ![cur + 1] = n]
  BY DEF Accept
<1>2. /\ accept = "accept" /\ listening /\ cur < MaxConns
      /\ cur' = cur + 1 /\ accept' = "new"
      /\ peerOpen' = [peerOpen EXCEPT ![cur + 1] = TRUE]
      /\ UNCHANGED <<up, cause, listening, connections, stopWait, serve, closing,
                     closer, disconnects, handlers, stopFlag, stopping, visited,
                     atStart, connected, unregistered, late>>
  BY DEF Accept, Survive, mapVars, connVars, stopVars, histVars
<1>3. cur + 1 \in ConnIds /\ serve[cur + 1] = "none"
  BY <1>2 DEF TypeOK, ConnIds, Fresh
<1>4. TypeOK'
  BY <1>1, <1>2, <1>3 DEF TypeOK
<1>5. Fresh' /\ Setup'
  BY <1>1, <1>2, <1>3 DEF TypeOK, Fresh, Setup, ConnIds
<1>6. Hooks' /\ Stopped' /\ Panicked' /\ Drained'
  BY <1>2 DEF Hooks, Stopped, Won, Panicked, Drained
<1>7. Counted'
  BY <1>2 DEF Counted, WaitCounts
<1>. QED
  BY <1>4, <1>5, <1>6, <1>7

LEMMA AcceptFailInv == IInv /\ up /\ AcceptFail => IInv'
<1>. SUFFICES ASSUME IInv, up, AcceptFail PROVE IInv'
  OBVIOUS
<1>. USE DEF AcceptFail, Survive, mapVars, connVars, peerVars, stopVars, histVars
<1>1. TypeOK' /\ Fresh' /\ Setup'
  BY DEF IInv, TypeOK, Fresh, Setup
<1>2. Hooks' /\ Stopped' /\ Panicked' /\ Drained' /\ Counted'
  BY DEF IInv, Hooks, Stopped, Won, Panicked, Drained, Counted, WaitCounts
<1>. QED
  BY <1>1, <1>2 DEF IInv

LEMMA NewConnectionInv == IInv /\ up /\ NewConnection => IInv'
<1>. SUFFICES ASSUME IInv, up, NewConnection PROVE IInv'
  OBVIOUS
<1>. USE ServerAssumption DEF IInv
<1>1. /\ accept = "new" /\ accept' = "connect"
      /\ UNCHANGED <<up, cause, listening, cur, serve, closing, closer,
                     disconnects, handlers, peerOpen, inbox, stopFlag, stopping,
                     visited, atStart, connected>>
  BY DEF NewConnection, Survive, connVars, peerVars, stopVars
<1>2. /\ cur \in ConnIds /\ serve[cur] = "none"
      /\ cur \notin connections \cup unregistered \cup atStart
  BY <1>1 DEF Setup
<1>3. /\ connections \subseteq ConnIds /\ connections \ atStart \subseteq ConnIds
      /\ Cardinality(connections) \in Nat
      /\ Cardinality(Ended) \in Nat /\ stopWait \in Int
      /\ Cardinality(connections \ atStart) \in Nat
  BY ConnSets DEF TypeOK, Ended
<1>4. CASE /\ connections' = connections \cup {cur}
           /\ stopWait' = stopWait + 1
           /\ late' = IF \E s \in Stoppers : stopping[s] = "true"
                      THEN late \cup {cur} ELSE late
           /\ unregistered' = unregistered
  <2>1. Cardinality(connections') = Cardinality(connections) + 1
    BY <1>2, <1>3, <1>4, ConnSetGrows
  <2>2. Cardinality(connections' \ atStart') = Cardinality(connections \ atStart) + 1
    <3>1. connections' \ atStart' = (connections \ atStart) \cup {cur}
      BY <1>1, <1>2, <1>4
    <3>2. Cardinality((connections \ atStart) \cup {cur})
            = Cardinality(connections \ atStart) + 1
      BY <1>2, <1>3, ConnSetGrows
    <3>. QED
      BY <3>1, <3>2, Zenon
  <2>3. Ended' = Ended
    BY <1>1, <1>4 DEF Ended
  <2>4. Counted'
    BY <1>1, <1>3, <1>4, <2>1, <2>3 DEF Counted, WaitCounts, Ended
  <2>5. connections' \subseteq ConnIds /\ Cardinality(connections') <= MaxConns
    BY <1>2, <1>3, <1>4, ConnSets
  <2>6. stopWait' \in -1 .. MaxConns
    <3>1. stopWait = Cardinality(connections) - Cardinality(Ended) /\ stopWait >= 0
      BY DEF Counted, WaitCounts, Ended
    <3>2. MaxConns \in Nat
      OBVIOUS
    <3>. QED
      BY <1>3, <1>4, <2>1, <2>5, <3>1, <3>2
  <2>7. TypeOK'
    BY <1>1, <1>2, <1>4, <2>5, <2>6 DEF TypeOK
  <2>8. Fresh' /\ Setup'
    BY <1>1, <1>2, <1>4 DEF TypeOK, Fresh, Setup, ConnIds
  <2>9. Hooks'
    BY <1>1 DEF Hooks
  <2>10. Stopped'
    BY <1>1, <1>3, <1>4, <2>2 DEF Stopped, Won
  <2>11. Panicked' /\ Drained'
    BY <1>1, <1>2, <1>4 DEF Panicked, Drained, Stopped
  <2>. QED
    BY <2>4, <2>7, <2>8, <2>9, <2>10, <2>11
<1>5. CASE /\ unregistered' = unregistered \cup {cur}
           /\ UNCHANGED <<connections, stopWait, late>>
  <2>1. Ended' = Ended
    BY <1>1, <1>2, <1>5 DEF Ended
  <2>2. Counted'
    BY <1>1, <1>5, <2>1 DEF Counted, WaitCounts, Ended
  <2>3. TypeOK'
    BY <1>1, <1>2, <1>5 DEF TypeOK
  <2>4. Fresh' /\ Setup' /\ Hooks'
    BY <1>1, <1>2, <1>5 DEF TypeOK, Fresh, Setup, Hooks, ConnIds
  <2>5. Stopped' /\ Panicked' /\ Drained'
    BY <1>1, <1>5 DEF Stopped, Won, Panicked, Drained
  <2>. QED
    BY <2>2, <2>3, <2>4, <2>5
<1>. QED
  BY <1>4, <1>5 DEF NewConnection, Adds, mapVars

LEMMA ConnectInv == IInv /\ up /\ Connect => IInv'
<1>. SUFFICES ASSUME IInv, up, Connect PROVE IInv'
  OBVIOUS
<1>. USE DEF IInv
<1>1. /\ accept = "connect" /\ accept' = "accept"
      /\ connected' = connected \cup {cur}
      /\ serve' = [serve EXCEPT ![cur] = "recv"]
      /\ UNCHANGED <<up, cause, listening, cur, connections, stopWait, closing,
                     closer, disconnects, handlers, peerOpen, inbox, stopFlag,
                     stopping, visited, atStart, unregistered, late>>
  BY DEF Connect, Survive, Hooked, mapVars, connVars, peerVars, stopVars
<1>2. /\ cur \in ConnIds /\ serve[cur] = "none"
      /\ cur \in connections \cup unregistered
  BY <1>1 DEF Setup
<1>3. TypeOK'
  BY <1>1, <1>2 DEF TypeOK
<1>7. Fresh' /\ Hooks'
  BY <1>1, <1>2, ServerAssumption DEF TypeOK, Fresh, Hooks, ConnIds
<1>8. Setup'
  <2>1. \A c \in ConnIds : serve'[c] = IF c = cur THEN "recv" ELSE serve[c]
    BY <1>1 DEF TypeOK
  <2>. QED
    BY <1>1, <1>2, <2>1 DEF TypeOK, Setup
<1>4. Ended' = Ended
  BY <1>1, <1>2 DEF TypeOK, Ended
<1>5. Counted'
  BY <1>1, <1>4 DEF Counted, WaitCounts, Ended
<1>6. Stopped' /\ Panicked' /\ Drained'
  BY <1>1 DEF Stopped, Won, Panicked, Drained
<1>. QED
  BY <1>3, <1>5, <1>6, <1>7, <1>8

-----------------------------------------------------------------------------
(* Close, and what happens on a connection.  The map and the counter stay  *)
(* as they are, and so does stop.                                          *)

LEMMA ConnStep ==
    ASSUME IInv, UNCHANGED <<up, cause, listening, accept, cur, connections,
                             stopWait, serve, stopFlag, stopping, atStart,
                             connected, unregistered, late>>
    PROVE  Fresh' /\ Counted' /\ Stopped' /\ Panicked' /\ Drained'
  BY DEF IInv, Fresh, Counted, WaitCounts, Stopped, Won, Panicked, Drained

LEMMA CloseStepInv == ASSUME IInv, NEW c \in ConnIds, CloseStep(c) PROVE IInv'
<1>. USE DEF IInv
<1>1. /\ \/ /\ closing[c] = "flagged"
            /\ closing' = [closing EXCEPT ![c] = "closed"]
            /\ UNCHANGED disconnects
         \/ /\ closing[c] = "closed"
            /\ closing' = [closing EXCEPT ![c] = "hooked"]
            /\ disconnects' = [disconnects EXCEPT ![c] = @ + 1]
      /\ UNCHANGED <<up, cause, listening, accept, cur, connections, stopWait,
                     serve, closer, handlers, peerOpen, inbox, stopFlag,
                     stopping, visited, atStart, connected, unregistered, late>>
  BY DEF CloseStep, Survive, loopVars, mapVars, peerVars, stopVars, histVars
<1>2. TypeOK'
  BY <1>1 DEF TypeOK
<1>3. Setup' /\ Hooks'
  BY <1>1 DEF TypeOK, Setup, Hooks
<1>. QED
  BY <1>1, <1>2, <1>3, ConnStep

(* Flag, by a goroutine that may call Close: the reader or a handler of a  *)
(* connection, both after OnConnect, or a stopper.                         *)

LEMMA FlagHooks ==
    ASSUME TypeOK, Hooks, NEW c \in ConnIds,
           NEW who \in Stoppers \cup {"serve", "handler"},
           who \in {"serve", "handler"} => c \in connected,
           MayClose(c, who), Flag(c, who), UNCHANGED disconnects
    PROVE  /\ closing' \in [ConnIds -> {"open", "flagged", "closed", "hooked"}]
           /\ closer' \in [ConnIds -> Stoppers \cup {"serve", "handler", "nobody"}]
           /\ \A d \in ConnIds :
                 /\ disconnects'[d] = IF closing'[d] = "hooked" THEN 1 ELSE 0
                 /\ closing'[d] # "open" => closer'[d] # "nobody"
                 /\ closer'[d] \in {"serve", "handler"} => d \in connected
  BY ServerAssumption DEF TypeOK, Hooks, MayClose, Flag

LEMMA ReceiveInv == ASSUME IInv, NEW c \in ConnIds, Receive(c) PROVE IInv'
<1>. USE DEF IInv
<1>1. /\ serve[c] = "recv" /\ inbox[c] > 0
      /\ inbox' = [inbox EXCEPT ![c] = @ - 1]
      /\ handlers' = [handlers EXCEPT ![c] = @ + 1]
      /\ UNCHANGED <<up, cause, listening, accept, cur, connections, stopWait,
                     serve, closing, closer, disconnects, peerOpen, stopFlag,
                     stopping, visited, atStart, connected, unregistered, late>>
  BY DEF Receive, Survive, loopVars, mapVars, connVars, stopVars, histVars
<1>2. inbox[c] - 1 \in 0 .. MaxRequests /\ handlers[c] + 1 \in 0 .. MaxRequests
  BY <1>1, ServerAssumption DEF TypeOK, Setup
<1>3. TypeOK'
  BY <1>1, <1>2 DEF TypeOK
<1>4. Setup'
  BY <1>1, ServerAssumption DEF TypeOK, Setup
<1>5. Hooks'
  BY <1>1 DEF Hooks
<1>. QED
  BY <1>1, <1>3, <1>4, <1>5, ConnStep

LEMMA HandlerEndsInv == ASSUME IInv, NEW c \in ConnIds, HandlerEnds(c) PROVE IInv'
<1>. USE DEF IInv
<1>1. /\ handlers[c] > 0
      /\ handlers' = [handlers EXCEPT ![c] = @ - 1]
      /\ UNCHANGED <<up, cause, listening, accept, cur, connections, stopWait,
                     serve, disconnects, peerOpen, inbox, stopFlag, stopping,
                     visited, atStart, connected, unregistered, late>>
      /\ \/ UNCHANGED <<closing, closer>>
         \/ MayClose(c, "handler") /\ Flag(c, "handler")
  BY DEF HandlerEnds, Survive, loopVars, mapVars, peerVars, stopVars, histVars
<1>2. handlers[c] - 1 \in 0 .. MaxRequests /\ c \in connected
  BY <1>1, ServerAssumption DEF TypeOK, Setup, Hooks
<1>3. Setup'
  BY <1>1, ServerAssumption DEF TypeOK, Setup
<1>4. CASE UNCHANGED <<closing, closer>>
  <2>1. TypeOK'
    BY <1>1, <1>2, <1>4 DEF TypeOK
  <2>2. Hooks'
    BY <1>1, <1>4 DEF Hooks
  <2>. QED
    BY <1>1, <1>3, <2>1, <2>2, ConnStep
<1>5. CASE MayClose(c, "handler") /\ Flag(c, "handler")
  <2>1. /\ closing' \in [ConnIds -> {"open", "flagged", "closed", "hooked"}]
        /\ closer' \in [ConnIds -> Stoppers \cup {"serve", "handler", "nobody"}]
        /\ \A d \in ConnIds :
              /\ disconnects'[d] = IF closing'[d] = "hooked" THEN 1 ELSE 0
              /\ closing'[d] # "open" => closer'[d] # "nobody"
              /\ closer'[d] \in {"serve", "handler"} => d \in connected
    BY <1>1, <1>2, <1>5, FlagHooks
  <2>2. TypeOK'
    BY <1>1, <1>2, <2>1 DEF TypeOK
  <2>3. Hooks'
    BY <1>1, <2>1 DEF Hooks
  <2>. QED
    BY <1>1, <1>3, <2>2, <2>3, ConnStep
<1>. QED
  BY <1>1, <1>4, <1>5

LEMMA PeerClosesInv == ASSUME IInv, NEW c \in ConnIds, PeerCloses(c) PROVE IInv'
<1>. USE DEF IInv
<1>1. /\ peerOpen' = [peerOpen EXCEPT ![c] = FALSE]
      /\ UNCHANGED <<up, cause, listening, accept, cur, connections, stopWait,
                     serve, closing, closer, disconnects, handlers, inbox,
                     stopFlag, stopping, visited, atStart, connected,
                     unregistered, late>>
  BY DEF PeerCloses, Survive, loopVars, mapVars, connVars, stopVars, histVars
<1>2. TypeOK'
  BY <1>1 DEF TypeOK
<1>3. Setup' /\ Hooks'
  BY <1>1 DEF Setup, Hooks
<1>. QED
  BY <1>1, <1>2, <1>3, ConnStep

(* The reader meets the end of the stream.                                 *)

LEMMA ReceiveFailInv == ASSUME IInv, NEW c \in ConnIds, ReceiveFail(c) PROVE IInv'
<1>. USE DEF IInv
<1>1. /\ serve[c] = "recv"
      /\ serve' = [serve EXCEPT ![c] = "closing"]
      /\ IF MayClose(c, "serve") THEN Flag(c, "serve")
                                 ELSE UNCHANGED <<closing, closer>>
      /\ UNCHANGED <<up, cause, listening, accept, cur, connections, stopWait,
                     disconnects, handlers, peerOpen, inbox, stopFlag, stopping,
                     visited, atStart, connected, unregistered, late>>
  BY DEF ReceiveFail, Survive, loopVars, mapVars, peerVars, stopVars, histVars
<1>2. c \in connected
  BY <1>1 DEF Hooks
<1>3. /\ closing' \in [ConnIds -> {"open", "flagged", "closed", "hooked"}]
      /\ closer' \in [ConnIds -> Stoppers \cup {"serve", "handler", "nobody"}]
      /\ \A d \in ConnIds :
            /\ disconnects'[d] = IF closing'[d] = "hooked" THEN 1 ELSE 0
            /\ closing'[d] # "open" => closer'[d] # "nobody"
            /\ closer'[d] \in {"serve", "handler"} => d \in connected
  <2>1. CASE MayClose(c, "serve")
    BY <1>1, <1>2, <2>1, FlagHooks
  <2>2. CASE ~MayClose(c, "serve")
    BY <1>1, <2>2 DEF TypeOK, Hooks
  <2>. QED
    BY <2>1, <2>2
<1>4. TypeOK'
  BY <1>1, <1>3 DEF TypeOK
<1>5. Fresh' /\ Setup' /\ Hooks'
  BY <1>1, <1>2, <1>3 DEF TypeOK, Fresh, Setup, Hooks
<1>6. Ended' = Ended
  BY <1>1 DEF TypeOK, Ended
<1>7. Counted'
  BY <1>1, <1>6 DEF Counted, WaitCounts, Ended
<1>8. Stopped' /\ Panicked' /\ Drained'
  BY <1>1 DEF Stopped, Won, Panicked, Drained
<1>. QED
  BY <1>4, <1>5, <1>7, <1>8

(* The connection ends: the counter follows the map, unless the connection *)
(* was never added.                                                        *)

LEMMA DelCounts ==
    ASSUME IInv, NEW c \in ConnIds, serve[c] = "closing",
           serve' = [serve EXCEPT ![c] = "done"], UNCHANGED unregistered
    PROVE  /\ Cardinality(connections \ {c}) - Cardinality(Ended') = stopWait - 1
           /\ stopWait = 0 => unregistered # {}
<1>. USE DEF IInv
<1>1. connections \in SUBSET ConnIds /\ Ended \in SUBSET ConnIds /\ c \notin Ended
  BY DEF TypeOK, Ended
<1>2. /\ Cardinality(connections) \in Nat /\ Cardinality(Ended) \in Nat
      /\ Cardinality(connections) = 0 <=> connections = {}
      /\ Cardinality(Ended) = 0 <=> Ended = {}
  BY <1>1, ConnSets
<1>3. stopWait = Cardinality(connections) - Cardinality(Ended)
  BY DEF Counted, WaitCounts, Ended
<1>4. CASE c \in connections
  <2>1. Ended' = Ended
    BY <1>4 DEF TypeOK, Ended, Setup
  <2>2. Cardinality(connections \ {c}) = Cardinality(connections) - 1
    BY <1>1, <1>4, ConnSetGrows
  <2>3. unregistered = {} => Ended = {}
    BY DEF Ended
  <2>. QED
    BY <1>2, <1>3, <1>4, <2>1, <2>2, <2>3
<1>5. CASE c \notin connections
  <2>1. c \in unregistered
    BY <1>5 DEF Setup
  <2>2. Ended' = Ended \cup {c}
    BY <2>1 DEF TypeOK, Ended
  <2>3. Cardinality(Ended \cup {c}) = Cardinality(Ended) + 1
    BY <1>1, ConnSetGrows
  <2>4. Cardinality(connections \ {c}) = Cardinality(connections)
    <3>1. connections \ {c} = connections
      BY <1>5
    <3>. QED
      BY <3>1, Zenon
  <2>5. Cardinality(Ended') = Cardinality(Ended \cup {c})
    BY <2>2, Zenon
  <2>6. stopWait = 0 => unregistered # {}
    BY <2>1
  <2>. HIDE DEF IInv
  <2>. QED
    BY <1>2, <1>3, <2>3, <2>4, <2>5, <2>6
<1>. QED
  BY <1>4, <1>5

LEMMA DelConnectionInv ==
    ASSUME IInv, up, NEW c \in ConnIds, DelConnection(c)
    PROVE  IInv'
<1>. USE DEF IInv
<1>1. /\ serve[c] = "closing" /\ serve' = [serve EXCEPT ![c] = "done"]
      /\ connections' = connections \ {c} /\ stopWait' = stopWait - 1
      /\ stopping' = [s \in Stoppers |->
            IF stopping[s] = "wait" /\ stopWait = 1 THEN "woken" ELSE stopping[s]]
      /\ IF stopWait = 0 THEN up' = FALSE /\ cause' = "negative"
                         ELSE UNCHANGED <<up, cause>>
      /\ UNCHANGED <<listening, accept, cur, closing, closer, disconnects,
                     handlers, peerOpen, inbox, stopFlag, visited, atStart,
                     connected, unregistered, late>>
  BY DEF DelConnection, Forgotten, Panic, Survive, loopVars, connVars, peerVars,
         histVars
<1>2. stopWait \in Nat /\ stopWait - 1 \in -1 .. MaxConns
  BY ServerAssumption DEF TypeOK, Counted
<1>3. /\ Cardinality(connections \ {c}) - Cardinality(Ended') = stopWait - 1
      /\ stopWait = 0 => unregistered # {}
  BY <1>1, DelCounts
<1>4. TypeOK'
  <2>1. stopping' \in [Stoppers -> {"idle", "listener", "range", "wait",
                                    "woken", "true", "false"}]
    BY <1>1 DEF TypeOK
  <2>2. cause' \in {"none", "negative", "race", "reused"} /\ up' \in BOOLEAN
    BY <1>1 DEF TypeOK
  <2>. QED
    BY <1>1, <1>2, <2>1, <2>2 DEF TypeOK
<1>5. Fresh' /\ Setup'
  BY <1>1 DEF TypeOK, Fresh, Setup
<1>6. Hooks'
  BY <1>1 DEF TypeOK, Hooks
<1>7. Counted'
  <2>1. up' => stopWait' >= 0
    BY <1>1, <1>2
  <2>2. Cardinality(connections') = Cardinality(connections \ {c})
    BY <1>1, Zenon
  <2>3. stopWait' = Cardinality(connections') - Cardinality(Ended')
    BY <1>1, <1>3, <2>2
  <2>4. WaitCounts'
    BY <2>3, Zenon DEF WaitCounts, Ended
  <2>. QED
    BY <2>1, <2>4 DEF Counted
<1>8. Stopped'
  <2>1. ASSUME NEW s \in Stoppers, stopping'[s] = "woken"
        PROVE  stopWait' <= Cardinality(connections' \ atStart')
    <3>. DEFINE C == connections \ atStart
                D == (connections \ {c}) \ atStart
    <3>1. /\ C \in SUBSET ConnIds /\ D \in SUBSET ConnIds
          /\ Cardinality(C) \in Nat /\ Cardinality(D) \in Nat
      BY ConnSets DEF TypeOK
    <3>2. Cardinality(C) - 1 <= Cardinality(D)
      <4>1. D = C \ {c}
        OBVIOUS
      <4>2. Cardinality(C \ {c}) \in {Cardinality(C), Cardinality(C) - 1}
        <5>. HIDE DEF C
        <5>. QED
          BY <3>1, ConnSetGrows
      <4>. HIDE DEF C, D
      <4>. QED
        BY <3>1, <4>1, <4>2
    <3>3. connections' \ atStart' = D
      BY <1>1
    <3>4. stopWait - 1 <= Cardinality(D)
      <4>1. CASE stopping[s] = "woken"
        <5>1. stopWait <= Cardinality(C)
          BY <4>1 DEF Stopped
        <5>. HIDE DEF C, D
        <5>. QED
          BY <1>2, <3>1, <3>2, <5>1
      <4>2. CASE stopping[s] # "woken"
        <5>1. stopWait = 1
          BY <1>1, <2>1, <4>2
        <5>. HIDE DEF C, D
        <5>. QED
          BY <3>1, <5>1
      <4>. QED
        BY <4>1, <4>2
    <3>. HIDE DEF D
    <3>. QED
      BY <1>1, <3>3, <3>4
  <2>. QED
    BY <1>1, <2>1 DEF TypeOK, Stopped, Won
<1>9. Panicked' /\ Drained'
  BY <1>1, <1>3 DEF TypeOK, Panicked, Drained
<1>. QED
  BY <1>4, <1>5, <1>6, <1>7, <1>8, <1>9

-----------------------------------------------------------------------------
(* stop.  What its steps leave alone.                                      *)

LEMMA StopStepKeeps ==
    ASSUME IInv, UNCHANGED <<accept, cur, connections, stopWait, serve, handlers,
                             inbox, connected, disconnects, unregistered>>,
           up' => up, atStart' = atStart \/ atStart' = connections
    PROVE  Setup' /\ Counted' /\ Fresh'
           /\ (UNCHANGED <<closing, closer>> => Hooks')
<1>. USE DEF IInv
<1>1. Fresh' /\ Setup'
  BY DEF Fresh, Setup
<1>. QED
  BY <1>1 DEF Hooks, Counted, WaitCounts

LEMMA StopCallInv == ASSUME IInv, NEW s \in Stoppers, StopCall(s) PROVE IInv'
<1>. USE DEF IInv
<1>1. /\ stopping[s] = "idle" /\ stopFlag' = TRUE
      /\ stopping' = [stopping EXCEPT ![s] = IF stopFlag THEN "false" ELSE "listener"]
      /\ UNCHANGED <<up, cause, listening, accept, cur, connections, stopWait,
                     serve, closing, closer, disconnects, handlers, peerOpen,
                     inbox, visited, atStart, connected, unregistered, late>>
  BY DEF StopCall, GoOn, Survive, loopVars, mapVars, connVars, peerVars, histVars
<1>2. TypeOK'
  BY <1>1 DEF TypeOK
<1>3. Stopped'
  BY <1>1 DEF TypeOK, Stopped, Won
<1>4. Panicked' /\ Drained'
  BY <1>1 DEF TypeOK, Panicked, Drained
<1>. QED
  BY <1>1, <1>2, <1>3, <1>4, StopStepKeeps

LEMMA StopListenerInv ==
    ASSUME IInv, up, NEW s \in Stoppers, StopListener(s)
    PROVE  IInv'
<1>. USE DEF IInv
<1>1. /\ stopping[s] = "listener" /\ listening' = FALSE
      /\ stopping' = [stopping EXCEPT ![s] = "range"]
      /\ visited' = {} /\ atStart' = connections
      /\ UNCHANGED <<up, cause, accept, cur, connections, stopWait, serve,
                     closing, closer, disconnects, handlers, peerOpen, inbox,
                     stopFlag, connected, unregistered, late>>
  BY DEF StopListener, GoOn, Survive, mapVars, connVars, peerVars, histVars
<1>2. TypeOK'
  BY <1>1 DEF TypeOK
<1>3. Stopped'
  BY <1>1 DEF TypeOK, Stopped, Won
<1>4. Panicked' /\ Drained'
  BY <1>1 DEF TypeOK, Panicked, Drained
<1>. QED
  BY <1>1, <1>2, <1>3, <1>4, StopStepKeeps

LEMMA StopVisitInv ==
    ASSUME IInv, NEW s \in Stoppers, NEW c \in ConnIds, StopVisit(s, c)
    PROVE  IInv'
<1>. USE DEF IInv
<1>1. /\ visited' = visited \cup {c}
      /\ IF MayClose(c, s) THEN Flag(c, s) ELSE UNCHANGED <<closing, closer>>
      /\ UNCHANGED <<up, cause, listening, accept, cur, connections, stopWait,
                     serve, disconnects, handlers, peerOpen, inbox, stopFlag,
                     stopping, atStart, connected, unregistered, late>>
  BY DEF StopVisit, Survive, loopVars, mapVars, peerVars, histVars
<1>2. s \notin {"serve", "handler"}
  BY ServerAssumption
<1>3. /\ closing' \in [ConnIds -> {"open", "flagged", "closed", "hooked"}]
      /\ closer' \in [ConnIds -> Stoppers \cup {"serve", "handler", "nobody"}]
      /\ \A d \in ConnIds :
            /\ disconnects'[d] = IF closing'[d] = "hooked" THEN 1 ELSE 0
            /\ closing'[d] # "open" => closer'[d] # "nobody"
            /\ closer'[d] \in {"serve", "handler"} => d \in connected
  <2>1. CASE MayClose(c, s)
    BY <1>1, <1>2, <2>1, FlagHooks
  <2>2. CASE ~MayClose(c, s)
    BY <1>1, <2>2 DEF TypeOK, Hooks
  <2>. QED
    BY <2>1, <2>2
<1>4. TypeOK'
  BY <1>1, <1>3 DEF TypeOK
<1>5. Setup' /\ Hooks'
  BY <1>1, <1>3 DEF Setup, Hooks
<1>. QED
  BY <1>1, <1>4, <1>5, ConnStep

LEMMA MapWriteRaceInv == ASSUME IInv, NEW s \in Stoppers, MapWriteRace(s) PROVE IInv'
<1>. USE DEF IInv
<1>1. /\ stopping[s] = "range" /\ up' = FALSE /\ cause' = "race"
      /\ UNCHANGED <<listening, accept, cur, connections, stopWait, serve,
                     closing, closer, disconnects, handlers, peerOpen, inbox,
                     stopFlag, stopping, visited, atStart, connected,
                     unregistered, late>>
  BY DEF MapWriteRace, Panic, loopVars, mapVars, connVars, peerVars, stopVars,
         histVars
<1>2. TypeOK'
  BY <1>1 DEF TypeOK
<1>3. Stopped' /\ Panicked' /\ Drained'
  BY <1>1 DEF TypeOK, Stopped, Won, Panicked, Drained
<1>. QED
  BY <1>1, <1>2, <1>3, StopStepKeeps

(* Wait returns when the counter is zero: then the map is empty, if every  *)
(* connection that was served had been added.                              *)

LEMMA EmptyAtZero ==
    ASSUME IInv, stopWait = 0, unregistered = {}
    PROVE  connections = {}
<1>1. Ended = {} /\ stopWait = Cardinality(connections) - Cardinality(Ended)
  BY DEF IInv, Counted, WaitCounts, Ended
<1>2. Cardinality({}) = 0
  BY FS_EmptySet
<1>3. /\ Cardinality(connections) \in Nat
      /\ Cardinality(connections) = 0 <=> connections = {}
  BY ConnSets DEF IInv, TypeOK
<1>. QED
  BY <1>1, <1>2, <1>3

LEMMA StopEndsInv ==
    ASSUME IInv, up, NEW s \in Stoppers, StopWait(s) \/ StopWoken(s)
    PROVE  IInv'
<1>. USE DEF IInv
<1>1. /\ stopping[s] \in {"range", "woken"}
      /\ \/ /\ \/ stopping' = [stopping EXCEPT ![s] = "true"] /\ stopWait = 0
               \/ stopping' = [stopping EXCEPT ![s] = "wait"]
            /\ UNCHANGED <<up, cause>>
         \/ /\ stopping[s] = "woken" /\ stopWait # 0
            /\ up' = FALSE /\ cause' = "reused" /\ UNCHANGED stopping
      /\ UNCHANGED <<listening, accept, cur, connections, stopWait, serve,
                     closing, closer, disconnects, handlers, peerOpen, inbox,
                     stopFlag, visited, atStart, connected, unregistered, late>>
  BY DEF StopWait, StopWoken, GoOn, Panic, Survive, loopVars, mapVars, connVars,
         peerVars, histVars
<1>2. TypeOK'
  <2>1. stopping' \in [Stoppers -> {"idle", "listener", "range", "wait",
                                    "woken", "true", "false"}]
    <3>1. /\ [stopping EXCEPT ![s] = "true"] \in [Stoppers -> {"idle", "listener",
                "range", "wait", "woken", "true", "false"}]
          /\ [stopping EXCEPT ![s] = "wait"] \in [Stoppers -> {"idle", "listener",
                "range", "wait", "woken", "true", "false"}]
      BY DEF TypeOK
    <3>. QED
      BY <1>1, <3>1 DEF TypeOK
  <2>2. cause' \in {"none", "negative", "race", "reused"} /\ up' \in BOOLEAN
    BY <1>1 DEF TypeOK
  <2>. QED
    BY <1>1, <2>1, <2>2 DEF TypeOK
<1>3. \A r \in Stoppers : stopping'[r] = IF r = s THEN stopping'[s] ELSE stopping[r]
  BY <1>1 DEF TypeOK
<1>4. stopping'[s] \in {"true", "wait", stopping[s]}
  BY <1>1 DEF TypeOK
<1>5. Stopped'
  BY <1>1, <1>3, <1>4 DEF Stopped, Won
<1>6. Panicked'
  <2>1. stopping[s] = "woken" /\ stopWait # 0 => connections \ atStart # {}
    <3>1. stopWait \in Nat
      BY DEF TypeOK, Counted
    <3>2. connections \ atStart = {} => Cardinality(connections \ atStart) = 0
      BY FS_EmptySet
    <3>. QED
      BY <3>1, <3>2 DEF Stopped
  <2>. QED
    BY <1>1, <2>1 DEF Panicked, Stopped
<1>7. Drained'
  BY <1>1, EmptyAtZero DEF TypeOK, Drained
<1>. QED
  BY <1>1, <1>2, <1>5, <1>6, <1>7, StopStepKeeps

-----------------------------------------------------------------------------
LEMMA NextInv == ASSUME IInv, Next PROVE IInv'
<1>1. up
  BY DEF Next
<1>2. CASE Accept \/ AcceptFail \/ LoopStep
  BY <1>1, <1>2, AcceptInv, AcceptFailInv, NewConnectionInv, ConnectInv DEF LoopStep
<1>3. ASSUME NEW c \in ConnIds,
             \/ CloseStep(c) \/ ServeStep(c) \/ HandlerEnds(c) \/ PeerCloses(c)
      PROVE  IInv'
  BY <1>1, <1>3, CloseStepInv, ReceiveInv, ReceiveFailInv, DelConnectionInv,
     HandlerEndsInv, PeerClosesInv DEF ServeStep
<1>4. ASSUME NEW s \in Stoppers, StopCall(s) \/ StopStep(s) \/ MapWriteRace(s)
      PROVE  IInv'
  BY <1>1, <1>4, StopCallInv, StopListenerInv, StopVisitInv, StopEndsInv,
     MapWriteRaceInv DEF StopStep
<1>. QED
  BY <1>2, <1>3, <1>4 DEF Next

LEMMA StutterInv == IInv /\ UNCHANGED vars => IInv'
<1>. SUFFICES ASSUME IInv, UNCHANGED vars PROVE IInv'
  OBVIOUS
<1>. USE DEF vars, loopVars, mapVars, connVars, peerVars, stopVars, histVars
<1>1. TypeOK' /\ Setup' /\ Hooks'
  BY DEF IInv, TypeOK, Setup, Hooks
<1>. QED
  BY <1>1, ConnStep DEF IInv

LEMMA InductiveInv == Spec => []IInv
<1>1. IInv /\ [Next]_vars => IInv'
  BY NextInv, StutterInv
<1>. QED
  BY InitInv, <1>1, PTL DEF Spec

(* Every variable keeps its type, however many connections come and go; in *)
(* particular the counter of the WaitGroup is never below -1.              *)
THEOREM TypeCorrect == Spec => []TypeOK
<1>1. IInv => TypeOK
  BY DEF IInv
<1>. QED
  BY <1>1, InductiveInv, PTL

(* OnDisconnect is called at most once for a connection, whichever of the  *)
(* reader, the handlers and stop close it; a connection is served after    *)
(* OnConnect, and only stop can have closed it before.                     *)
THEOREM HooksOrdered == Spec => []HookOrder
<1>1. IInv => HookOrder
  <2>. SUFFICES ASSUME IInv, NEW c \in ConnIds
                PROVE  /\ disconnects[c] <= 1
                       /\ serve[c] # "none" => c \in connected
                       /\ disconnects[c] > 0 /\ c \notin connected =>
                             closer[c] \in Stoppers
    BY DEF HookOrder
  <2>. QED
    BY DEF IInv, TypeOK, Hooks
<1>. QED
  BY <1>1, InductiveInv, PTL

(* When stop has returned true and every connection was added to the map,  *)
(* the map holds nothing but the one connection that was between Accept    *)
(* and addConnection.                                                      *)
THEOREM StopAlwaysDrains == Spec => []StopDrains
<1>1. IInv => StopDrains
  <2>1. ASSUME IInv PROVE Cardinality(late) <= 1
    <3>1. IsFiniteSet({cur}) /\ Cardinality({cur}) = 1 /\ late \subseteq {cur}
      BY <2>1, FS_Singleton DEF IInv, Drained
    <3>. QED
      BY <3>1, FS_Subset
  <2>. QED
    BY <2>1 DEF IInv, Drained, StopDrains
<1>. QED
  BY <1>1, InductiveInv, PTL

(* The WaitGroup counts what is in the map, and a panic of the server is   *)
(* always one of three: the counter passed zero because a connection had   *)
(* not been added, stop met a writer of the map, or stop was being woken   *)
(* while a connection that came after it began was added.                  *)
THEOREM PanicsExplained == Spec => []PanicCauses
<1>1. IInv => PanicCauses
  BY DEF IInv, TypeOK, Counted, Panicked, PanicCauses
<1>. QED
  BY <1>1, InductiveInv, PTL
=============================================================================
