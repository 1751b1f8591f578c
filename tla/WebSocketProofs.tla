---------------------------- MODULE WebSocketProofs ----------------------------
(***************************************************************************)
(* Proofs about WebSocketHandshake and WebSocket.                          *)
(***************************************************************************)
EXTENDS WebSocket, TLAPS

-----------------------------------------------------------------------------
(* The handshake *)

Asked ==
    hs.stage = "sent" =>
       hs.offered \in Seq(Protocols) /\ hs.defect \in DOMAIN Refusals

LEMMA StatusOf ==
    ASSUME NEW d \in DOMAIN Refusals, NEW answer,
           answer.protocol \in Seq(Protocols)
    PROVE  Status(Refusals[d], answer) = 101
           <=> d = "none" /\ answer.ok /\ Len(answer.protocol) <= 1
<1>1. Refusals[d] = 101 <=> d = "none"
  BY DEF Refusals
<1>2. Len(answer.protocol) \in Nat
  OBVIOUS
<1>. QED
  BY <1>1, <1>2 DEF Status, AcceptHandshake

LEMMA AnswerFacts ==
    ASSUME NEW s \in Servers, NEW origin, NEW P \in Seq(Protocols),
           NEW answer \in Handshake(s, origin, P)
    PROVE  /\ answer.protocol \in Seq(Protocols)
           /\ s # "chooser" /\ origin = "ok" => answer.ok /\ answer.protocol = P
<1>1. CASE s = "handler"
  <2>1. answer = [ok |-> origin = "ok", protocol |-> P]
    BY <1>1 DEF Handshake
  <2>2. answer.protocol = P /\ (answer.ok <=> origin = "ok")
    BY <2>1, Zenon
  <2>. QED
    BY <2>2
<1>2. CASE s = "bare"
  BY <1>2 DEF Handshake
<1>3. CASE s = "chooser"
  <2>1. answer.protocol \in {P, <<>>} \cup {<<p>> : p \in Protocols}
    BY <1>3 DEF Handshake
  <2>2. \A p \in Protocols : <<p>> \in Seq(Protocols)
    OBVIOUS
  <2>3. P \in Seq(Protocols) /\ <<>> \in Seq(Protocols)
    OBVIOUS
  <2>4. answer.protocol \in Seq(Protocols)
    BY <2>1, <2>2, <2>3, Zenon
  <2>. QED
    BY <1>3, <2>4
<1>. QED
  BY <1>1, <1>2, <1>3 DEF Servers

LEMMA NewServerConnStep ==
    ASSUME Asked, NewServerConn
    PROVE  HandshakeAgrees'
<1>1. hs.offered \in Seq(Protocols) /\ hs.defect \in DOMAIN Refusals
  BY DEF Asked, NewServerConn
<1>2. PICK s \in Servers, conf \in Configured :
        /\ s = "handler" => conf = <<>>
        /\ \E answer \in Handshake(s, hs.origin, ReadProtocol(conf, hs.offered)) :
              hs' = [stage |-> "answered", offered |-> hs.offered,
                     request |-> hs, server |-> s, configured |-> conf,
                     config |-> answer.protocol,
                     status |-> Status(Refusals[hs.defect], answer),
                     defect |-> "none", protocol |-> Named(answer.protocol)]
  BY DEF NewServerConn
<1>3. PICK answer \in Handshake(s, hs.origin, ReadProtocol(conf, hs.offered)) :
        hs' = [stage |-> "answered", offered |-> hs.offered,
               request |-> hs, server |-> s, configured |-> conf,
               config |-> answer.protocol,
               status |-> Status(Refusals[hs.defect], answer),
               defect |-> "none", protocol |-> Named(answer.protocol)]
  BY <1>2
<1>4. /\ conf \in Seq(Protocols) /\ ReadProtocol(conf, hs.offered) \in Seq(Protocols)
      /\ Len(ReadProtocol(conf, hs.offered)) = Len(conf) + Len(hs.offered)
  BY <1>1, HandshakeAssumption DEF ReadProtocol
<1>5. /\ answer.protocol \in Seq(Protocols)
      /\ s # "chooser" /\ hs.origin = "ok" =>
           answer.ok /\ answer.protocol = ReadProtocol(conf, hs.offered)
  BY <1>4, AnswerFacts
<1>6. Status(Refusals[hs.defect], answer) = 101
      <=> hs.defect = "none" /\ answer.ok /\ Len(answer.protocol) <= 1
  BY <1>1, <1>5, StatusOf
<1>7. /\ hs'.offered = hs.offered /\ hs'.config = answer.protocol
      /\ hs'.protocol = Named(answer.protocol) /\ hs'.defect = "none"
      /\ hs'.status = Status(Refusals[hs.defect], answer)
      /\ hs'.request = hs /\ hs'.configured = conf /\ hs'.server = s
  BY <1>3
<1>8. /\ hs'.status = 101 =>
           Accepted' \/ ~Contains(hs'.offered, Head(hs'.config))
      /\ Accepted' => hs'.status = 101
      /\ Accepted' /\ Len(hs'.config) <= 1 =>
           (ClientProtocol' = hs'.config <=> hs'.config # <<>> \/ hs'.offered = <<>>)
  <2>1. CASE hs'.config = <<>>
    BY <1>1, <1>7, <2>1 DEF Accepted, ClientProtocol, Named
  <2>2. CASE hs'.config # <<>>
    <3>1. hs'.protocol = Head(hs'.config) /\ Head(hs'.config) \in Protocols
      BY <1>5, <1>7, <2>2 DEF Named
    <3>2. hs'.protocol # NoProtocol
      BY <3>1, HandshakeAssumption
    <3>3. Len(hs'.config) <= 1 => hs'.config = <<Head(hs'.config)>>
      BY <1>5, <1>7, <2>2
    <3>. QED
      BY <1>7, <2>2, <3>1, <3>2, <3>3 DEF Accepted, ClientProtocol
  <2>. QED
    BY <2>1, <2>2
<1>9. hs'.status = 101 => Len(hs'.config) <= 1
  BY <1>6, <1>7
<1>10. hs'.request.defect = "none" /\ hs'.request.origin = "ok"
       /\ hs'.server # "chooser" =>
         (hs'.status = 101 <=> Len(hs'.configured) + Len(hs'.offered) <= 1)
  BY <1>4, <1>5, <1>6, <1>7
<1>. QED
  BY <1>8, <1>9, <1>10 DEF HandshakeAgrees

LEMMA HandshakeStep ==
    ASSUME Asked, HandshakeAgrees, [Next]_vars
    PROVE  Asked' /\ HandshakeAgrees'
<1>1. CASE DialConfig
  <2>1. CASE \E e \in DialErrors : hs' = [stage |-> "failed", why |-> e]
    BY <2>1 DEF Asked, HandshakeAgrees
  <2>2. CASE \E o \in Offers : hs' = [stage |-> "sent", offered |-> o,
                                    defect |-> "none", origin |-> "ok"]
    BY <2>2, HandshakeAssumption DEF Asked, HandshakeAgrees, Refusals
  <2>. QED
    BY <1>1, <2>1, <2>2 DEF DialConfig
<1>2. CASE Request
  BY <1>2, HandshakeAssumption DEF Request, Asked, HandshakeAgrees
<1>3. CASE NewServerConn
  <2>1. Asked'
    BY <1>3 DEF NewServerConn, Asked
  <2>. QED
    BY <1>3, <2>1, NewServerConnStep
<1>4. CASE Reply
  BY <1>4 DEF Reply, Asked, HandshakeAgrees
<1>5. CASE NewClient
  BY <1>5 DEF NewClient, Asked, HandshakeAgrees
<1>6. CASE UNCHANGED hs
  BY <1>6 DEF Asked, HandshakeAgrees, Accepted, ClientProtocol
<1>7. CASE AnswerFails
  BY <1>7 DEF AnswerFails, Asked, HandshakeAgrees
<1>. QED
  BY <1>1, <1>2, <1>3, <1>4, <1>5, <1>6, <1>7 DEF Next, HandshakeNext, vars

(***************************************************************************)
(* However a handshake goes, this server and its client agree on whether   *)
(* there is a connection and on its protocol, but for what HandshakeAgrees *)
(* excepts, for all sets of protocols, offers and configurations.          *)
(***************************************************************************)
THEOREM HandshakesAgree == Spec => []HandshakeAgrees
<1>1. Init => Asked /\ HandshakeAgrees
  BY DEF Init, HandshakeInit, Asked, HandshakeAgrees
<1>2. Asked /\ HandshakeAgrees /\ [Next]_vars => Asked' /\ HandshakeAgrees'
  BY HandshakeStep
<1>. QED
  BY <1>1, <1>2, PTL DEF Spec

-----------------------------------------------------------------------------
(***************************************************************************)
(* The inductive invariant of a connection.  Typed: what TypeOK does not   *)
(* say of the types.  Calls: where each goroutine can be, and who holds    *)
(* the mutexes.  Held: the frame that is being read, by the step its       *)
(* reader has come to.  Outbound: what has been written, and what the      *)
(* goroutine that holds wio is about to write.  The rest holds until a     *)
(* call gives up inside a frame.  Stream: what is still to be read starts  *)
(* where the frame being read goes on, or at a header.  Current: the frame *)
(* being read is what the peer sent.  Messages: every frame so far was     *)
(* delivered, begun by Read, or is one that is skipped.  Pongs: those that *)
(* answer the pings so far.                                                *)
(***************************************************************************)
Unit == Int \X Int
DataTypes == DataKinds \cup {"none"}

ReadTypes ==
    /\ eof \in BOOLEAN /\ kept \in BOOLEAN /\ lost \in BOOLEAN
    /\ frame \in [id : 0 .. Len(frames), kind : Kinds \cup {"none"}, left : Nat]
    /\ payloadType \in DataTypes
    /\ inbox \in Seq(Unit) /\ got \in Seq(Unit) /\ taken \in Seq(Unit)
    /\ frames \in Seq(Frames)
    /\ delivered \in Seq([id : Nat, kind : Kinds \cup {"none"}, data : Seq(Unit)])
    /\ \A i \in DOMAIN inbox : inbox[i][1] \in DOMAIN frames

WriteTypes ==
    /\ werr \in BOOLEAN
    /\ buffered \in Seq(Unit) /\ outbox \in Seq(Unit)
    /\ writes \in Seq([by : Threads, kind : {"pong", "refuse", "write", "close"},
                       of : Nat, data : Seq(Unit)])

Typed ==
    /\ server \in BOOLEAN
    /\ call \in [Threads -> {"none", "receive", "read", "refuse", "write", "close"}]
    /\ ReadTypes /\ WriteTypes

Writing == {"wlock", "wpayload"}

Calls ==
    /\ \A t \in Readers :
          /\ call[t] \in {"none", "receive", "read", "refuse"}
          /\ pc[t] # "rwc"
          /\ pc[t] = "idle" <=> call[t] = "none"
          /\ call[t] = "refuse" => pc[t] \in Writing
          /\ rio = t <=> pc[t] \notin {"idle", "rlock"}
    /\ \A t \in Threads \ Readers :
          /\ call[t] \in {"none", "write", "close"}
          /\ pc[t] \in Writing \cup {"idle", "rwc"}
          /\ pc[t] = "idle" <=> call[t] = "none"
    /\ \A t \in Threads : wio = t <=> pc[t] = "wpayload"

\* what the goroutine that holds rio is doing
Holds(t) ==
    /\ pc[t] = "header" => frame = NoFrame /\ ~kept /\ got = <<>>
    /\ pc[t] = "control" => frame.kind \in ControlKinds /\ ~kept
    /\ pc[t] = "discard" => kept
    /\ pc[t] = "payload" => (kept <=> call[t] = "read")
    /\ pc[t] \in Writing =>
         /\ ~kept
         /\ IF call[t] = "refuse" THEN frame = NoFrame /\ got = <<>>
            ELSE frame.kind = "ping"
    /\ kept /\ pc[t] # "discard" => got = <<>>

Held ==
    /\ rio = NoOne => got = <<>> /\ (kept \/ frame = NoFrame)
    /\ \A t \in Readers : rio = t => Holds(t)

LastWrite == writes[Len(writes)]

Size(w) == Len(writes[w].data)

\* the peer gets the units of one write after another
Framed ==
    \A i \in DOMAIN outbox :
       /\ outbox[i][1] \in DOMAIN writes /\ outbox[i][2] \in 0 .. Size(outbox[i][1])
       /\ IF outbox[i][2] = 0
          THEN i > 1 => outbox[i - 1][2] = Size(outbox[i - 1][1])
          ELSE i > 1 /\ outbox[i - 1] = <<outbox[i][1], outbox[i][2] - 1>>

Outbound ==
    /\ \A t \in Threads : pc[t] = "wpayload" =>
          writes # <<>> /\ LastWrite = WriteOf(t)
    /\ buffered = IF werr \/ wio = NoOne THEN <<>> ELSE <<<<Len(writes), 0>>>>
    /\ Framed
    /\ ~werr /\ outbox # <<>> =>
          outbox[Len(outbox)][2] = Size(outbox[Len(outbox)][1])

\* The rest is written with the frames sent F, the bytes q that are on their
\* way, whether they are the last (e), and which end reads (s).

\* q is the end of what was sent
Line(F, q, e) ==
    /\ \A i \in 1 .. Len(q) : q[i][1] \in 1 .. Len(F) /\ q[i][2] \in 0 .. F[q[i][1]].len
    /\ \A i \in 1 .. Len(q) - 1 :
          q[i][2] = F[q[i][1]].len => q[i + 1] = <<q[i][1] + 1, 0>>
    /\ \A i \in 1 .. Len(q) : \A j \in 1 .. F[q[i][1]].len - q[i][2] :
          i + j <= Len(q) => q[i + j] = <<q[i][1], q[i][2] + j>>
    /\ q # <<>> => /\ q[Len(q)][1] = Len(F)
                   /\ e \/ q[Len(q)][2] = F[Len(F)].len

\* q starts where a frame with so many bytes left goes on, or at a header
Here(F, q, e, id, left) ==
    /\ q # <<>> => IF left = 0 THEN q[1][2] = 0
                   ELSE q[1] = <<id, F[id].len - left + 1>>
    /\ q = <<>> /\ left > 0 => e /\ id = Len(F)

\* the frame whose header was read last
At(F, q) == IF q = <<>> THEN Len(F)
            ELSE IF q[1][2] = 0 THEN q[1][1] - 1 ELSE q[1][1]
Pos == At(frames, inbox)

Stream == Line(frames, inbox, eof) /\ Here(frames, inbox, eof, frame.id, frame.left)

Heard(F, s, f) == F[f].kind \in DataKinds /\ F[f].masked = s

\* k is the type of the last text or binary frame up to f
Meant(F, s, f, k) ==
    \/ k = "none" /\ \A g \in 1 .. f : ~Heard(F, s, g)
    \/ \E g \in 1 .. f : /\ Heard(F, s, g) /\ k = F[g].kind
                         /\ \A h \in 1 .. f : Heard(F, s, h) => h <= g

KindOk(F, s, f, k) == IF F[f].kind = "continuation" THEN Meant(F, s, f, k)
                      ELSE k = F[f].kind

\* d is what was to be read of n bytes of f
Whole(F, e, f, d, n) ==
    /\ Len(d) <= n /\ \A i \in 1 .. Len(d) : d[i] = <<f, i>>
    /\ Len(d) = n \/ (e /\ f = Len(F))

Fine(F, s, e, m) == Whole(F, e, m.id, m.data, F[m.id].len) /\ KindOk(F, s, m.id, m.kind)

Skipped(F, s, f) ==
    \/ F[f].len = 0 \/ F[f].kind \in ControlKinds \cup {"close"} \/ F[f].masked # s

Answered(F, s, e, w) ==
    /\ F[w.of].kind = "ping" /\ F[w.of].masked = s
    /\ Whole(F, e, w.of, w.data,
             IF F[w.of].len <= MaxControl THEN F[w.of].len ELSE MaxControl)

\* how many bytes of the frame were read before got
Before == frames[frame.id].len - frame.left - Len(got)

Current ==
    /\ kept => frame # NoFrame
    /\ frame # NoFrame =>
         /\ frame.id = Pos /\ frame.id \in 1 .. Len(frames)
         /\ frame.left <= frames[frame.id].len
         /\ frames[frame.id].masked = server
         /\ KindOk(frames, server, frame.id, frame.kind)
         /\ Before >= 0
         /\ \A i \in 1 .. Len(got) : got[i] = <<frame.id, Before + i>>
         /\ ~kept => Before = 0
         /\ kept => taken # <<>> /\ taken[Len(taken)] = <<frame.id, Before>>

\* there is a frame to return, and a ping has been read when it is answered
AtFrame ==
    \A t \in Readers :
       /\ pc[t] = "payload" => frame # NoFrame
       /\ pc[t] \in Writing /\ call[t] # "refuse" => frame # NoFrame /\ FrameEnds

Begun(T, f) == \E j \in 1 .. Len(T) : T[j][1] = f
Told(d, f) == \E i \in 1 .. Len(d) : d[i].id = f

\* Read goes on where it stopped
Joined(T) == \A j \in 1 .. Len(T) :
                T[j][2] > 0 => j > 1 /\ T[j - 1] = <<T[j][1], T[j][2] - 1>>

Messages ==
    /\ Meant(frames, server, Pos, payloadType)
    /\ \A i \in 1 .. Len(delivered) :
          /\ delivered[i].id \in 1 .. Pos
          /\ frame # NoFrame => delivered[i].id < Pos
          /\ Fine(frames, server, eof, delivered[i])
          /\ \A j \in 1 .. i - 1 : delivered[j].id < delivered[i].id
    /\ \A f \in 1 .. Pos : \/ f = frame.id /\ ~kept
                           \/ Begun(taken, f) \/ Told(delivered, f)
                           \/ Skipped(frames, server, f)
    /\ Joined(taken)

Pongs ==
    \A w \in 1 .. Len(writes) : writes[w].kind = "pong" =>
       /\ writes[w].of \in 1 .. Pos
       /\ frame # NoFrame /\ (\A t \in Readers : pc[t] # "wpayload") =>
             writes[w].of < Pos
       /\ Answered(frames, server, eof, writes[w])
       /\ \A v \in 1 .. w - 1 : writes[v].kind = "pong" => writes[v].of < writes[w].of

InStep == ~lost => Stream /\ Current /\ AtFrame /\ Messages /\ Pongs

IInv == TypeOK /\ Typed /\ Calls /\ Held /\ Outbound /\ InStep

-----------------------------------------------------------------------------
(* Sequences *)

LEMMA AppendFacts ==
    ASSUME NEW S, NEW q \in Seq(S), NEW e \in S
    PROVE  /\ Append(q, e) \in Seq(S) /\ Len(Append(q, e)) = Len(q) + 1
           /\ Len(q) \in Nat /\ DOMAIN q = 1 .. Len(q)
           /\ DOMAIN Append(q, e) = 1 .. Len(q) + 1
           /\ \A i \in 1 .. Len(q) : Append(q, e)[i] = q[i]
           /\ Append(q, e)[Len(q) + 1] = e
    OBVIOUS

LEMMA ConcatFacts ==
    ASSUME NEW S, NEW q \in Seq(S), NEW s \in Seq(S)
    PROVE  /\ q \o s \in Seq(S) /\ Len(q \o s) = Len(q) + Len(s)
           /\ Len(q) \in Nat /\ Len(s) \in Nat
           /\ DOMAIN (q \o s) = 1 .. Len(q) + Len(s)
           /\ \A i \in 1 .. Len(q) : (q \o s)[i] = q[i]
           /\ \A i \in 1 .. Len(s) : (q \o s)[Len(q) + i] = s[i]
    OBVIOUS

LEMMA SubSeqFacts ==
    ASSUME NEW S, NEW q \in Seq(S), NEW a \in 1 .. Len(q) + 1,
           NEW b \in a - 1 .. Len(q)
    PROVE  /\ SubSeq(q, a, b) \in Seq(S) /\ Len(SubSeq(q, a, b)) = b - a + 1
           /\ DOMAIN SubSeq(q, a, b) = 1 .. b - a + 1
           /\ \A i \in 1 .. b - a + 1 : SubSeq(q, a, b)[i] = q[a + i - 1]
    OBVIOUS

LEMMA TailFacts ==
    ASSUME NEW S, NEW q \in Seq(S), q # <<>>
    PROVE  /\ Tail(q) \in Seq(S) /\ Len(Tail(q)) = Len(q) - 1
           /\ Len(q) \in Nat \ {0} /\ Head(q) = q[1] /\ DOMAIN q = 1 .. Len(q)
           /\ DOMAIN Tail(q) = 1 .. Len(q) - 1
           /\ \A i \in 1 .. Len(q) - 1 : Tail(q)[i] = q[i + 1]
    OBVIOUS

LEMMA SeqFacts ==
    ASSUME NEW S, NEW q \in Seq(S)
    PROVE  /\ Len(q) \in Nat /\ DOMAIN q = 1 .. Len(q)
           /\ \A i \in 1 .. Len(q) : q[i] \in S
           /\ q = <<>> <=> Len(q) = 0
    OBVIOUS

LEMMA SameSeq ==
    ASSUME NEW S, NEW q \in Seq(S), NEW s \in Seq(S), Len(q) = Len(s),
           \A i \in 1 .. Len(q) : q[i] = s[i]
    PROVE  q = s
    OBVIOUS

-----------------------------------------------------------------------------
(* The steps *)

\* nothing that the invariant is about
Elsewhere == UNCHANGED <<rio, wio, callVars, inVars, readVars, outVars, server>>

FailedRead(t) == NeedsBytes(t) /\ FailRead(t) /\ UNCHANGED server
FailedWrite(t) == FailWrite(t) /\ UNCHANGED server

LEMMA Steps ==
    ASSUME [Next]_vars
    PROVE  \/ Elsewhere \/ PeerSends \/ PeerCloses
           \/ \E t \in Threads :
                 \/ Call(t) \/ RLock(t) \/ WLock(t) \/ CloseRwc(t)
                 \/ ReadHeader(t) \/ ReadControl(t) \/ Discard(t)
                 \/ Receive(t) \/ Read(t) \/ FailedRead(t)
                 \/ WritePayload(t) \/ FailedWrite(t)
<1>1. CASE HandshakeNext /\ UNCHANGED connVars
  BY <1>1 DEF connVars, envVars, Elsewhere
<1>2. CASE UNCHANGED vars
  BY <1>2 DEF vars, connVars, envVars, Elsewhere
<1>3. CASE PeerStopsReading \/ HandlerReturns
  BY <1>3 DEF PeerStopsReading, HandlerReturns, Elsewhere
<1>4. ASSUME NEW t \in Threads, ReadFails(t) \/ ReadTimesOut(t)
      PROVE  FailedRead(t)
  BY <1>4 DEF ReadFails, ReadTimesOut, envVars, FailedRead
<1>5. ASSUME NEW t \in Threads, WriteFails(t) \/ WriteTimesOut(t)
      PROVE  FailedWrite(t)
  BY <1>5 DEF WriteFails, WriteTimesOut, envVars, FailedWrite
<1>. QED
  BY <1>1, <1>2, <1>3, <1>4, <1>5
     DEF Next, ConnNext, ThreadStep, ReadStep, WriteStep

-----------------------------------------------------------------------------
(* Where the goroutines are *)

ReadSteps == {"header", "control", "discard", "payload"}

LEMMA Sides ==
    ASSUME NEW t \in Threads
    PROVE  /\ t # NoOne
           /\ t \in Readers => t \notin Writers /\ t \notin Closers
           /\ t \notin Readers => t \in Writers \cup Closers
  BY WebSocketAssumption DEF Threads

LEMMA Holder ==
    ASSUME TypeOK, Calls, NEW t \in Threads, pc[t] \in ReadSteps
    PROVE  /\ t \in Readers /\ rio = t /\ rio # NoOne /\ wio # t
           /\ call[t] \in {"receive", "read"}
           /\ \A u \in Readers : u # t => rio # u /\ pc[u] \in {"idle", "rlock"}
<1>1. t \in Readers
  BY DEF Calls, ReadSteps, Writing
<1>2. call[t] \in {"receive", "read"} /\ rio = t
  BY <1>1 DEF Calls, ReadSteps, Writing
<1>3. wio # t
  BY DEF Calls, ReadSteps
<1>. QED
  BY <1>1, <1>2, <1>3, Sides DEF Calls, TypeOK

\* one goroutine moves on
LEMMA MoveCalls ==
    ASSUME TypeOK, Typed, Calls, NEW t \in Threads, NEW l, NEW c,
           pc' = [pc EXCEPT ![t] = l], call' = [call EXCEPT ![t] = c],
           \A u \in Threads : u # t => (rio' = u <=> rio = u) /\ (wio' = u <=> wio = u),
           t \in Readers =>
              /\ c \in {"none", "receive", "read", "refuse"} /\ l # "rwc"
              /\ (l = "idle" <=> c = "none")
              /\ c = "refuse" => l \in Writing
              /\ rio' = t <=> l \notin {"idle", "rlock"},
           t \notin Readers =>
              /\ c \in {"none", "write", "close"}
              /\ l \in Writing \cup {"idle", "rwc"}
              /\ (l = "idle" <=> c = "none"),
           wio' = t <=> l = "wpayload"
    PROVE  Calls'
<1>1. \A u \in Threads : pc'[u] = (IF u = t THEN l ELSE pc[u])
                         /\ call'[u] = (IF u = t THEN c ELSE call[u])
  BY DEF TypeOK, Typed
<1>2. ASSUME NEW u \in Readers
      PROVE  /\ call'[u] \in {"none", "receive", "read", "refuse"}
             /\ pc'[u] # "rwc"
             /\ pc'[u] = "idle" <=> call'[u] = "none"
             /\ call'[u] = "refuse" => pc'[u] \in Writing
             /\ rio' = u <=> pc'[u] \notin {"idle", "rlock"}
  <2>1. u \in Threads
    BY DEF Threads
  <2>2. CASE u = t
    BY <1>1, <2>1, <2>2
  <2>3. CASE u # t
    BY <1>1, <2>1, <2>3 DEF Calls
  <2>. QED
    BY <2>2, <2>3
<1>3. ASSUME NEW u \in Threads \ Readers
      PROVE  /\ call'[u] \in {"none", "write", "close"}
             /\ pc'[u] \in Writing \cup {"idle", "rwc"}
             /\ pc'[u] = "idle" <=> call'[u] = "none"
  <2>2. CASE u = t
    BY <1>1, <2>2
  <2>3. CASE u # t
    BY <1>1, <2>3 DEF Calls
  <2>. QED
    BY <2>2, <2>3
<1>4. ASSUME NEW u \in Threads PROVE wio' = u <=> pc'[u] = "wpayload"
  <2>2. CASE u = t
    BY <1>1, <2>2
  <2>3. CASE u # t
    BY <1>1, <2>3 DEF Calls
  <2>. QED
    BY <2>2, <2>3
<1>. QED
  BY <1>2, <1>3, <1>4 DEF Calls, Writing

LEMMA SameCall ==
    ASSUME Typed, NEW t \in Threads, UNCHANGED call
    PROVE  call' = [call EXCEPT ![t] = call[t]]
  BY DEF Typed

LEMMA MovesCalls ==
    ASSUME TypeOK, Typed, Calls, NEW t \in Threads,
           Call(t) \/ RLock(t) \/ WLock(t) \/ CloseRwc(t)
    PROVE  Calls'
<1>1. CASE Call(t)
  <2>1. PICK c, l :
          /\ pc' = [pc EXCEPT ![t] = l] /\ call' = [call EXCEPT ![t] = c]
          /\ \/ t \in Readers /\ l = "rlock" /\ c \in {"receive", "read"}
             \/ t \in Writers \cup Closers /\ l = "wlock" /\ c \in {"write", "close"}
    BY <1>1 DEF Call, Goto
  <2>2. rio' = rio /\ wio' = wio /\ pc[t] = "idle"
    BY <1>1 DEF Call
  <2>3. rio # t \/ t \notin Readers
    BY <2>2 DEF Calls
  <2>4. wio # t
    BY <2>2 DEF Calls
  <2>5. /\ t \in Readers => l = "rlock" /\ c \in {"receive", "read"}
        /\ t \notin Readers => l = "wlock" /\ c \in {"write", "close"}
    BY <2>1, Sides
  <2>. QED
    BY <2>1, <2>2, <2>3, <2>4, <2>5, MoveCalls DEF Writing
<1>2. CASE RLock(t)
  <2>1. /\ pc' = [pc EXCEPT ![t] = FirstStep(t)] /\ UNCHANGED call
        /\ pc[t] = "rlock" /\ rio = NoOne /\ rio' = t /\ wio' = wio
    BY <1>2 DEF RLock, Goto
  <2>2. t \in Readers /\ wio # t
    BY <2>1 DEF Calls, Writing
  <2>3. call[t] \in {"receive", "read"}
    BY <2>1, <2>2 DEF Calls, Writing
  <2>4. FirstStep(t) \in {"header", "discard", "payload"}
    BY DEF FirstStep
  <2>5. \A u \in Threads : u # t => (rio' = u <=> rio = u) /\ (wio' = u <=> wio = u)
    BY <2>1, Sides
  <2>. QED
    BY <2>1, <2>2, <2>3, <2>4, <2>5, SameCall, MoveCalls
<1>3. CASE WLock(t)
  <2>1. /\ pc' = [pc EXCEPT ![t] = "wpayload"] /\ UNCHANGED call
        /\ pc[t] = "wlock" /\ wio = NoOne /\ wio' = t /\ rio' = rio
    BY <1>3 DEF WLock, Goto, MayWrite
  <2>2. \A u \in Threads : u # t => (rio' = u <=> rio = u) /\ (wio' = u <=> wio = u)
    BY <2>1, Sides
  <2>3. /\ t \in Readers => /\ call[t] \in {"receive", "read", "refuse"}
                            /\ rio = t
        /\ t \notin Readers => call[t] \in {"write", "close"}
    BY <2>1 DEF Calls
  <2>. QED
    BY <2>1, <2>2, <2>3, SameCall, MoveCalls DEF Writing
<1>4. CASE CloseRwc(t)
  <2>1. /\ pc' = [pc EXCEPT ![t] = "idle"] /\ call' = [call EXCEPT ![t] = "none"]
        /\ pc[t] = "rwc" /\ wio' = wio /\ rio' = rio
    BY <1>4 DEF CloseRwc, Goto
  <2>2. t \notin Readers /\ wio # t
    BY <2>1 DEF Calls
  <2>. QED
    BY <2>1, <2>2, MoveCalls
<1>. QED
  BY <1>1, <1>2, <1>3, <1>4

\* where a goroutine that reads goes
ReadMove(t) ==
    /\ pc[t] \in ReadSteps /\ wio' = wio
    /\ \/ UNCHANGED <<rio, pc, call>>
       \/ \E l \in ReadSteps \cup {"wlock"} : Goto(t, l) /\ UNCHANGED <<rio, call>>
       \/ Goto(t, "wlock") /\ call' = [call EXCEPT ![t] = "refuse"] /\ rio' = rio
       \/ /\ rio' = NoOne
          /\ Goto(t, "idle") /\ call' = [call EXCEPT ![t] = "none"]

LEMMA ReadMoves ==
    ASSUME NEW t \in Threads,
           ReadHeader(t) \/ ReadControl(t) \/ Discard(t) \/ Receive(t) \/ Read(t)
           \/ FailedRead(t)
    PROVE  ReadMove(t)
<1>1. CASE ReadHeader(t)
  <2>1. PICK h : HandleFrame(t, h[1], h[2]) /\ pc[t] = "header" /\ wio' = wio
    BY <1>1 DEF ReadHeader
  <2>. QED
    BY <2>1 DEF HandleFrame, Return, ReadMove, ReadSteps
<1>2. CASE ReadControl(t)
  BY <1>2 DEF ReadControl, Again, ReadMove, ReadSteps
<1>3. CASE Discard(t)
  BY <1>3 DEF Discard, Again, ReadMove, ReadSteps
<1>4. CASE Receive(t)
  BY <1>4 DEF Receive, Return, ReadMove, ReadSteps
<1>5. CASE Read(t)
  BY <1>5 DEF Read, Again, ReadMove, ReadSteps
<1>6. CASE FailedRead(t)
  BY <1>6 DEF FailedRead, FailRead, NeedsBytes, Reading, Return, Again, ReadMove, ReadSteps
<1>. QED
  BY <1>1, <1>2, <1>3, <1>4, <1>5, <1>6

LEMMA ReadMoveCalls ==
    ASSUME TypeOK, Typed, Calls, NEW t \in Threads, ReadMove(t)
    PROVE  Calls'
<1>1. /\ t \in Readers /\ rio = t /\ wio # t /\ wio' = wio /\ t # NoOne
      /\ call[t] \in {"receive", "read"}
  BY Holder, Sides DEF ReadMove
<1>2. CASE UNCHANGED <<rio, pc, call>>
  BY <1>1, <1>2 DEF Calls
<1>3. ASSUME NEW l \in ReadSteps \cup {"wlock"}, Goto(t, l), UNCHANGED <<rio, call>>
      PROVE  Calls'
  BY <1>1, <1>3, SameCall, MoveCalls DEF Goto, ReadSteps, Writing
<1>4. CASE Goto(t, "wlock") /\ call' = [call EXCEPT ![t] = "refuse"] /\ rio' = rio
  BY <1>1, <1>4, MoveCalls DEF Goto, Writing
<1>5. CASE /\ rio' = NoOne
           /\ Goto(t, "idle") /\ call' = [call EXCEPT ![t] = "none"]
  <2>1. \A u \in Threads : u # t => (rio' = u <=> rio = u)
    BY <1>1, <1>5, Sides
  <2>. QED
    BY <1>1, <1>5, <2>1, MoveCalls DEF Goto
<1>. QED
  BY <1>2, <1>3, <1>4, <1>5 DEF ReadMove

\* where a goroutine goes that has written
LEMMA WriteCalls ==
    ASSUME TypeOK, Typed, Calls, NEW t \in Threads, pc[t] = "wpayload",
           NEW failed \in BOOLEAN, AfterWrite(t, failed)
    PROVE  Calls'
<1>1. /\ wio = t /\ wio' = NoOne /\ t # NoOne
      /\ t \in Readers => rio = t /\ call[t] \in {"receive", "read", "refuse"}
      /\ t \notin Readers => call[t] \in {"write", "close"}
  BY Sides DEF Calls, AfterWrite, Unlocked
<1>2. \A u \in Threads : u # t => (wio' = u <=> wio = u)
  BY <1>1, Sides
<1>3. CASE call[t] = "close"
  <2>1. Goto(t, "rwc") /\ UNCHANGED <<rio, call>>
    BY <1>1, <1>3 DEF AfterWrite
  <2>. QED
    BY <1>1, <1>2, <1>3, <2>1, SameCall, MoveCalls DEF Goto
<1>4. CASE call[t] = "write"
  <2>1. Goto(t, "idle") /\ rio' = rio /\ call' = [call EXCEPT ![t] = "none"]
    BY <1>1, <1>4 DEF AfterWrite
  <2>. QED
    BY <1>1, <1>2, <1>4, <2>1, MoveCalls DEF Goto
<1>5. CASE Return(t, FALSE) /\ t \in Readers
  <2>1. \A u \in Threads : u # t => (rio' = u <=> rio = u)
    BY <1>1, <1>5, Sides DEF Return
  <2>. QED
    BY <1>1, <1>2, <1>5, <2>1, MoveCalls DEF Goto, Return
<1>6. CASE Again(t) /\ t \in Readers /\ call[t] # "refuse"
  BY <1>1, <1>2, <1>6, SameCall, MoveCalls DEF Goto, Again
<1>. QED
  BY <1>1, <1>3, <1>4, <1>5, <1>6 DEF AfterWrite

LEMMA CallsStep ==
    ASSUME TypeOK, Typed, Calls, [Next]_vars
    PROVE  Calls'
<1>1. CASE Elsewhere \/ PeerSends \/ PeerCloses
  BY <1>1 DEF Elsewhere, PeerSends, PeerCloses, callVars, Calls
<1>2. ASSUME NEW t \in Threads, WritePayload(t) \/ FailedWrite(t)
      PROVE  Calls'
  BY <1>2, WriteCalls DEF WritePayload, FailedWrite, FailWrite
<1>. QED
  BY <1>1, <1>2, MovesCalls, ReadMoves, ReadMoveCalls, Steps

-----------------------------------------------------------------------------
(* What the steps do to the frame that is being read *)

Same == UNCHANGED <<inVars, readVars>>

Sent ==
    /\ ~eof
    /\ \E fr \in Frames :
         /\ frames' = Append(frames, fr)
         /\ \E n \in 1 .. fr.len + 1 :
              /\ inbox' = inbox \o [i \in 1 .. n |-> <<Len(frames'), i - 1>>]
              /\ eof' = (n <= fr.len)
    /\ UNCHANGED readVars

Shut == eof' = TRUE /\ UNCHANGED <<inbox, frames, readVars>>

\* a header is read
AtHeader == inbox # <<>> /\ frame = NoFrame /\ ~kept /\ got = <<>>

Passed(fr) ==   \* its frame is refused, or a close
    /\ AtHeader /\ inbox' = Tail(inbox)
    /\ Misunderstood(fr) \/ fr.kind = "close"
    /\ lost' = (lost \/ fr.len > 0)
    /\ frame' = NoFrame /\ kept' = FALSE /\ got' = <<>>
    /\ UNCHANGED <<eof, frames, payloadType, delivered, taken>>

Began(id, fr) ==
    /\ AtHeader /\ inbox' = Tail(inbox)
    /\ ~Misunderstood(fr) /\ fr.kind # "close"
    /\ payloadType' = IF fr.kind \in DataKinds THEN fr.kind ELSE payloadType
    /\ frame' = [id |-> id, kind |-> TypeOf(fr.kind), left |-> fr.len]
    /\ kept' \in BOOLEAN /\ (kept' => fr.kind \notin ControlKinds)
    /\ taken' = IF kept' THEN Append(taken, <<id, 0>>) ELSE taken
    /\ got' = <<>>
    /\ UNCHANGED <<eof, frames, delivered, lost>>

Took ==
    /\ \E k \in 1 .. frame.left :
          /\ k <= Len(inbox)
          /\ frame' = [frame EXCEPT !.left = @ - k]
          /\ inbox' = SubSeq(inbox, k + 1, Len(inbox))
          /\ got' = got \o SubSeq(inbox, 1, k)
    /\ UNCHANGED <<eof, frames, kept, payloadType, delivered, taken, lost>>

ReadOn ==
    /\ kept /\ got = <<>>
    /\ frame.left > 0 /\ inbox # <<>>
    /\ taken' = Append(taken, Head(inbox))
    /\ inbox' = Tail(inbox)
    /\ frame' = [frame EXCEPT !.left = @ - 1]
    /\ UNCHANGED <<eof, frames, kept, got, payloadType, delivered, lost>>

Dropped ==
    /\ frame' = NoFrame /\ kept' = FALSE /\ got' = <<>> /\ lost' \in BOOLEAN
    /\ ~lost' => /\ ~lost
                 /\ \/ frame = NoFrame
                    \/ FrameEnds /\ (kept \/ frame.kind \in ControlKinds)
    /\ UNCHANGED <<inVars, payloadType, delivered, taken>>

Torn ==
    /\ inbox # <<>>
    /\ inbox' = <<<<Head(inbox)[1], -1>>>> \o Tail(inbox)
    /\ frame' = NoFrame /\ kept' = FALSE /\ got' = <<>> /\ lost' = TRUE
    /\ UNCHANGED <<eof, frames, payloadType, delivered, taken>>

Paused ==
    /\ kept /\ got' = <<>> /\ taken' = taken \o got
    /\ UNCHANGED <<inVars, frame, kept, payloadType, delivered, lost>>

Doomed ==   \* the rest of a ping has been lost, which is answered all the same
    /\ lost' = TRUE
    /\ UNCHANGED <<inVars, frame, kept, got, payloadType, delivered, taken>>

Handed ==
    /\ FrameEnds /\ ~kept
    /\ ~lost => frame # NoFrame
    /\ delivered' = Append(delivered, [id |-> frame.id, kind |-> frame.kind,
                                       data |-> got])
    /\ frame' = NoFrame /\ kept' = FALSE /\ got' = <<>>
    /\ UNCHANGED <<inVars, payloadType, taken, lost>>

Effect ==
    \/ Same \/ Sent \/ Shut \/ Took \/ ReadOn \/ Dropped \/ Torn \/ Paused \/ Doomed \/ Handed
    \/ \E h \in HeadersAt(Head(inbox)) : Passed(h[2]) \/ Began(h[1], h[2])

Known == TypeOK /\ Typed /\ Calls /\ Held /\ (~lost => AtFrame)

LEMMA TookAll ==
    ASSUME Known, NEW n \in Nat, Take(n),
           UNCHANGED <<kept, eof, frames, payloadType, delivered, taken, lost>>
    PROVE  Took
<1>1. frame.left \in Nat
  BY DEF Known, TypeOK
<1>2. PICK k \in 1 .. n :
        /\ k <= frame.left /\ k <= Len(inbox)
        /\ frame' = [frame EXCEPT !.left = @ - k]
        /\ inbox' = SubSeq(inbox, k + 1, Len(inbox))
        /\ got' = got \o SubSeq(inbox, 1, k)
  BY DEF Take
<1>3. k \in 1 .. frame.left
  BY <1>1, <1>2
<1>. QED
  BY <1>2, <1>3, Zenon DEF Took

LEMMA HeaderEffect ==
    ASSUME Known, NEW t \in Threads, ReadHeader(t)
    PROVE  Effect
<1>1. /\ pc[t] = "header" /\ inbox # <<>> /\ inbox' = Tail(inbox)
      /\ UNCHANGED <<eof, frames, delivered>>
  BY DEF ReadHeader
<1>2. t \in Readers /\ rio = t
  BY <1>1, Holder DEF Known, ReadSteps
<1>3. AtHeader
  BY <1>1, <1>2 DEF Known, Held, Holds, AtHeader
<1>4. PICK h \in HeadersAt(Head(inbox)) : HandleFrame(t, h[1], h[2])
  BY DEF ReadHeader
<1>5. CASE Misunderstood(h[2])
  <2>1. Passed(h[2])
    BY <1>1, <1>3, <1>4, <1>5 DEF HandleFrame, Passed, AtHeader
  <2>. QED
    BY <2>1 DEF Effect
<1>6. CASE ~Misunderstood(h[2]) /\ h[2].kind = "close"
  <2>1. Passed(h[2])
    BY <1>1, <1>3, <1>4, <1>6 DEF HandleFrame, Passed, AtHeader, Return, DataKinds
  <2>. QED
    BY <2>1 DEF Effect
<1>7. CASE ~Misunderstood(h[2]) /\ h[2].kind # "close"
  <2>1. Began(h[1], h[2])
    BY <1>1, <1>3, <1>4, <1>7 DEF HandleFrame, Began
  <2>. QED
    BY <2>1 DEF Effect
<1>. QED
  BY <1>5, <1>6, <1>7

LEMMA ReadEffect ==
    ASSUME Known, NEW t \in Threads,
           ReadControl(t) \/ Discard(t) \/ Receive(t) \/ Read(t)
    PROVE  Effect
<1>1. pc[t] \in ReadSteps
  BY DEF ReadControl, Discard, Receive, Read, ReadSteps
<1>2. t \in Readers /\ rio = t
  BY <1>1, Holder DEF Known
<1>3. frame.left \in Nat /\ Len(got) \in Nat /\ lost \in BOOLEAN
  BY DEF Known, TypeOK, Typed, ReadTypes
<1>4. /\ pc[t] = "control" => frame.kind \in ControlKinds /\ ~kept
      /\ pc[t] = "discard" => kept
      /\ pc[t] = "payload" => (kept <=> call[t] = "read")
      /\ kept /\ pc[t] # "discard" => got = <<>>
  BY <1>2 DEF Known, Held, Holds
<1>5. CASE ReadControl(t)
  <2>1. /\ pc[t] = "control"
        /\ UNCHANGED <<eof, frames, payloadType, delivered, taken, lost>>
    BY <1>5 DEF ReadControl
  <2>2. CASE Len(got) < MaxControl /\ Take(MaxControl - Len(got)) /\ UNCHANGED kept
    <3>1. MaxControl - Len(got) \in Nat
      BY <1>3, <2>2, WebSocketAssumption
    <3>. QED
      BY <2>1, <2>2, <3>1, TookAll DEF Effect
  <2>3. CASE Take(frame.left) /\ UNCHANGED kept
    BY <1>3, <2>1, <2>3, TookAll DEF Effect
  <2>4. CASE FrameEnds /\ UNCHANGED inbox /\ UNCHANGED <<frame, kept, got>>
    BY <2>1, <2>4 DEF Effect, Same, inVars, readVars
  <2>5. CASE FrameEnds /\ UNCHANGED inbox /\ Again(t)
    BY <1>3, <1>4, <2>1, <2>5 DEF Effect, Dropped, Again, inVars
  <2>. QED
    BY <1>5, <2>2, <2>3, <2>4, <2>5 DEF ReadControl
<1>6. CASE Discard(t)
  <2>1. /\ pc[t] = "discard"
        /\ UNCHANGED <<eof, frames, payloadType, delivered, taken, lost>>
    BY <1>6 DEF Discard
  <2>2. CASE Take(frame.left) /\ UNCHANGED kept
    BY <1>3, <2>1, <2>2, TookAll DEF Effect
  <2>3. CASE FrameEnds /\ UNCHANGED inbox /\ Again(t)
    BY <1>3, <1>4, <2>1, <2>3 DEF Effect, Dropped, Again, inVars
  <2>. QED
    BY <1>6, <2>2, <2>3 DEF Discard
<1>7. CASE Receive(t)
  <2>1. /\ pc[t] = "payload" /\ call[t] = "receive"
        /\ UNCHANGED <<eof, frames, payloadType, taken, lost>>
    BY <1>7 DEF Receive
  <2>2. CASE Take(frame.left) /\ UNCHANGED <<kept, delivered>>
    BY <1>3, <2>1, <2>2, TookAll DEF Effect
  <2>3. CASE /\ FrameEnds
             /\ delivered' = Append(delivered, [id |-> frame.id,
                                             kind |-> frame.kind, data |-> got])
             /\ Return(t, FALSE)
             /\ UNCHANGED inbox
    <3>1. ~lost => frame # NoFrame
      BY <1>2, <2>1 DEF Known, AtFrame
    <3>. QED
      BY <1>4, <2>1, <2>3, <3>1 DEF Effect, Handed, Return, inVars
  <2>. QED
    BY <1>7, <2>2, <2>3 DEF Receive
<1>8. CASE Read(t)
  <2>1. /\ pc[t] = "payload" /\ call[t] = "read"
        /\ UNCHANGED <<eof, frames, payloadType, delivered, lost>>
    BY <1>8 DEF Read
  <2>2. CASE /\ frame.left > 0 /\ inbox # <<>>
             /\ taken' = Append(taken, Head(inbox))
             /\ inbox' = Tail(inbox)
             /\ frame' = [frame EXCEPT !.left = @ - 1]
             /\ UNCHANGED <<kept, got>>
    BY <1>4, <2>1, <2>2 DEF Effect, ReadOn
  <2>3. CASE FrameEnds /\ Again(t) /\ UNCHANGED <<inbox, taken>>
    BY <1>3, <1>4, <2>1, <2>3 DEF Effect, Dropped, Again, inVars
  <2>. QED
    BY <1>8, <2>2, <2>3 DEF Read
<1>. QED
  BY <1>5, <1>6, <1>7, <1>8

LEMMA FailedEffect ==
    ASSUME Known, NEW t \in Threads, FailedRead(t)
    PROVE  Effect
<1>1. pc[t] \in ReadSteps /\ (pc[t] = "header" \/ frame.left > 0)
  BY DEF FailedRead, NeedsBytes, Reading, ReadSteps
<1>2. t \in Readers /\ rio = t
  BY <1>1, Holder DEF Known
<1>3. FailRead(t) /\ UNCHANGED <<eof, frames, payloadType, delivered>>
  BY DEF FailedRead, FailRead
<1>4. /\ pc[t] = "control" => ~kept
      /\ pc[t] = "header" => frame = NoFrame /\ ~kept /\ got = <<>>
  BY <1>2 DEF Known, Held, Holds
<1>5. lost \in BOOLEAN
  BY DEF Known, Typed, ReadTypes
<1>6. CASE pc[t] = "control" /\ Len(got) >= MaxControl
  <2>1. /\ lost' = TRUE /\ UNCHANGED <<inbox, taken>>
        /\ Again(t) \/ UNCHANGED <<frame, kept, got>>
    BY <1>1, <1>3, <1>6 DEF FailRead
  <2>2. CASE Again(t)
    BY <1>3, <2>1, <2>2 DEF Again, Effect, Dropped, inVars
  <2>3. CASE UNCHANGED <<frame, kept, got>>
    <3>1. frame' = frame /\ kept' = kept /\ got' = got
      BY <2>3
    <3>. QED
      BY <1>3, <2>1, <3>1 DEF Effect, Doomed, inVars
  <2>. QED
    BY <2>1, <2>2, <2>3
<1>7. CASE ~(pc[t] = "control" /\ Len(got) >= MaxControl)
  <2>1. /\ Return(t, kept)
        /\ taken' = IF kept THEN taken \o got ELSE taken
        /\ \/ ~kept /\ frame.left > 0 /\ lost' = TRUE /\ UNCHANGED inbox
           \/ (kept \/ frame.left = 0) /\ UNCHANGED <<inbox, lost>>
           \/ /\ pc[t] = "header" /\ inbox # <<>>
              /\ inbox' = <<<<Head(inbox)[1], -1>>>> \o Tail(inbox)
              /\ lost' = TRUE
    BY <1>3, <1>7 DEF FailRead
  <2>2. /\ kept' = kept /\ got' = <<>>
        /\ frame' = IF kept THEN frame ELSE NoFrame
    BY <2>1 DEF Return
  <2>3. CASE pc[t] = "header" /\ inbox # <<>>
             /\ inbox' = <<<<Head(inbox)[1], -1>>>> \o Tail(inbox)
             /\ lost' = TRUE
    BY <1>3, <1>4, <2>1, <2>2, <2>3 DEF Effect, Torn
  <2>4. CASE kept /\ UNCHANGED <<inbox, lost>>
    BY <1>3, <2>1, <2>2, <2>4 DEF Effect, Paused, inVars
  <2>5. CASE ~kept /\ lost' = TRUE /\ UNCHANGED inbox
    BY <1>3, <2>1, <2>2, <2>5 DEF Effect, Dropped, inVars
  <2>6. CASE ~kept /\ frame.left = 0 /\ UNCHANGED <<inbox, lost>>
    <3>1. frame = NoFrame
      BY <1>1, <1>4, <2>6
    <3>. QED
      BY <1>3, <1>5, <2>1, <2>2, <2>6, <3>1 DEF Effect, Dropped, inVars
  <2>. QED
    BY <2>1, <2>3, <2>4, <2>5, <2>6
<1>. QED
  BY <1>6, <1>7

LEMMA WriteEffect ==
    ASSUME Known, NEW t \in Threads, WritePayload(t) \/ FailedWrite(t)
    PROVE  Effect
<1>1. PICK failed \in BOOLEAN : AfterWrite(t, failed)
  BY DEF WritePayload, FailedWrite, FailWrite
<1>2. /\ UNCHANGED <<inVars, payloadType, delivered, taken, lost>>
      /\ \/ UNCHANGED <<frame, kept, got>>
         \/ t \in Readers /\ (Return(t, FALSE) \/ Again(t))
  <2>1. pc[t] = "wpayload"
    BY DEF WritePayload, FailedWrite, FailWrite
  <2>2. t \notin Readers => call[t] \in {"write", "close"}
    BY <2>1 DEF Known, Calls
  <2>. QED
    BY <1>1, <2>2 DEF AfterWrite
<1>3. CASE UNCHANGED <<frame, kept, got>>
  <2>1. frame' = frame /\ kept' = kept /\ got' = got
    BY <1>3
  <2>. QED
    BY <1>2, <2>1 DEF Effect, Same, readVars
<1>4. CASE t \in Readers /\ (Return(t, FALSE) \/ Again(t))
  <2>1. pc[t] \in Writing
    BY DEF WritePayload, FailedWrite, FailWrite, Writing
  <2>2. rio = t
    BY <1>4, <2>1 DEF Known, Calls, Writing
  <2>3. call[t] = "refuse" => frame = NoFrame
    BY <1>4, <2>1, <2>2 DEF Known, Held, Holds
  <2>4. call[t] # "refuse" => frame.kind \in ControlKinds
    BY <1>4, <2>1, <2>2 DEF Known, Held, Holds, ControlKinds
  <2>5. ~lost /\ call[t] # "refuse" => FrameEnds
    BY <1>4, <2>1 DEF Known, AtFrame
  <2>6. frame' = NoFrame /\ kept' = FALSE /\ got' = <<>>
    BY <1>4 DEF Return, Again
  <2>7. lost \in BOOLEAN
    BY DEF Known, Typed, ReadTypes
  <2>. QED
    BY <1>2, <2>3, <2>4, <2>5, <2>6, <2>7 DEF Effect, Dropped
<1>. QED
  BY <1>2, <1>3, <1>4

LEMMA Effects ==
    ASSUME Known, [Next]_vars
    PROVE  Effect /\ server' = server
<1>1. CASE Elsewhere
  BY <1>1 DEF Elsewhere, Effect, Same
<1>2. CASE PeerSends
  BY <1>2 DEF PeerSends, Effect, Sent
<1>3. CASE PeerCloses
  BY <1>3 DEF PeerCloses, Effect, Shut, envVars
<1>4. ASSUME NEW t \in Threads, Call(t) \/ RLock(t) \/ WLock(t) \/ CloseRwc(t)
      PROVE  Effect /\ server' = server
  BY <1>4 DEF Call, RLock, WLock, CloseRwc, Effect, Same, envVars
<1>5. ASSUME NEW t \in Threads,
             \/ ReadHeader(t) \/ ReadControl(t) \/ Discard(t) \/ Receive(t)
             \/ Read(t)
      PROVE  server' = server
  BY <1>5 DEF ReadHeader, ReadControl, Discard, Receive, Read, envVars
<1>6. ASSUME NEW t \in Threads,
             FailedRead(t) \/ WritePayload(t) \/ FailedWrite(t)
      PROVE  server' = server
  BY <1>6 DEF FailedRead, WritePayload, FailedWrite, envVars
<1>. QED
  BY <1>1, <1>2, <1>3, <1>4, <1>5, <1>6, HeaderEffect, ReadEffect,
     FailedEffect, WriteEffect, Steps

-----------------------------------------------------------------------------
(* Types *)

LEMMA FrameFacts ==
    ASSUME ReadTypes
    PROVE  /\ Len(frames) \in Nat /\ DOMAIN frames = 1 .. Len(frames)
           /\ \A f \in 1 .. Len(frames) :
                /\ frames[f] \in Frames /\ frames[f].len \in Nat
                /\ frames[f].kind \in Kinds
           /\ \A fr \in Frames : fr.len \in Nat /\ fr.kind \in Kinds
           /\ frame.left \in Nat /\ frame.id \in Nat /\ frame.id <= Len(frames)
           /\ frame.kind \in Kinds \cup {"none"}
           /\ NoFrame.id = 0 /\ NoFrame.left = 0
<1>1. \A fr \in Frames : fr.len \in Nat /\ fr.kind \in Kinds
  BY WebSocketAssumption
<1>. QED
  BY <1>1 DEF ReadTypes, NoFrame

LEMMA InboxFacts ==
    ASSUME ReadTypes
    PROVE  /\ Len(inbox) \in Nat /\ DOMAIN inbox = 1 .. Len(inbox)
           /\ \A i \in 1 .. Len(inbox) :
                /\ inbox[i] = <<inbox[i][1], inbox[i][2]>>
                /\ inbox[i] \in Unit
                /\ inbox[i][1] \in 1 .. Len(frames) /\ inbox[i][2] \in Int
           /\ inbox # <<>> => /\ 1 \in 1 .. Len(inbox) /\ Len(inbox) >= 1
                              /\ Head(inbox) = inbox[1]
           /\ inbox = <<>> => Len(inbox) = 0
<1>1. inbox \in Seq(Int \X Int) /\ DOMAIN frames = 1 .. Len(frames)
  BY DEF ReadTypes, Unit
<1>2. /\ Len(inbox) \in Nat /\ DOMAIN inbox = 1 .. Len(inbox)
      /\ \A i \in 1 .. Len(inbox) : inbox[i] \in Int \X Int
  BY <1>1
<1>. QED
  BY <1>1, <1>2 DEF ReadTypes, Unit

LEMMA HeaderFacts ==
    ASSUME ReadTypes, inbox # <<>>, NEW h \in HeadersAt(Head(inbox))
    PROVE  h[1] \in 0 .. Len(frames) /\ h[2] \in Frames
<1>1. Head(inbox)[1] \in 1 .. Len(frames)
  BY InboxFacts
<1>2. frames[Head(inbox)[1]] \in Frames
  BY <1>1, FrameFacts
<1>3. CASE Head(inbox)[2] = 0
  <2>1. h = <<Head(inbox)[1], frames[Head(inbox)[1]]>>
    BY <1>3 DEF HeadersAt
  <2>. QED
    BY <1>1, <1>2, <2>1, FrameFacts
<1>4. CASE Head(inbox)[2] # 0
  <2>1. h \in {0} \X Frames
    BY <1>4 DEF HeadersAt
  <2>. QED
    BY <2>1, FrameFacts
<1>. QED
  BY <1>3, <1>4

LEMMA TypeOfFacts ==
    ASSUME ReadTypes, NEW k \in Kinds
    PROVE  TypeOf(k) \in Kinds \cup {"none"}
  BY DEF ReadTypes, TypeOf, Kinds, DataTypes

LEMMA TailTypes ==
    ASSUME ReadTypes, inbox # <<>>, inbox' = Tail(inbox)
    PROVE  /\ inbox' \in Seq(Unit)
           /\ \A i \in DOMAIN inbox' : inbox'[i][1] \in DOMAIN frames
<1>1. /\ Tail(inbox) \in Seq(Unit) /\ DOMAIN Tail(inbox) = 1 .. Len(inbox) - 1
      /\ \A i \in 1 .. Len(inbox) - 1 : Tail(inbox)[i] = inbox[i + 1]
  BY TailFacts DEF ReadTypes
<1>2. Len(inbox) \in Nat /\ \A i \in 1 .. Len(inbox) - 1 : i + 1 \in 1 .. Len(inbox)
  BY InboxFacts
<1>. QED
  BY <1>1, <1>2, InboxFacts DEF ReadTypes

LEMMA SentFacts ==
    ASSUME ReadTypes, Sent
    PROVE  \E fr \in Frames : \E n \in 1 .. fr.len + 1 :
             /\ fr.len \in Nat /\ n \in Nat
             /\ frames' = Append(frames, fr)
             /\ frames' \in Seq(Frames) /\ Len(frames') = Len(frames) + 1
             /\ DOMAIN frames' = 1 .. Len(frames) + 1
             /\ \A f \in 1 .. Len(frames) : frames'[f] = frames[f]
             /\ frames'[Len(frames) + 1] = fr
             /\ inbox' \in Seq(Unit) /\ Len(inbox') = Len(inbox) + n
             /\ DOMAIN inbox' = 1 .. Len(inbox) + n
             /\ \A i \in 1 .. Len(inbox) : inbox'[i] = inbox[i]
             /\ \A i \in 1 .. n : inbox'[Len(inbox) + i] = <<Len(frames) + 1, i - 1>>
             /\ eof = FALSE /\ eof' = (n <= fr.len)
<1>0. PICK fr \in Frames :
        /\ frames' = Append(frames, fr)
        /\ \E n \in 1 .. fr.len + 1 :
              /\ inbox' = inbox \o [i \in 1 .. n |-> <<Len(frames'), i - 1>>]
              /\ eof' = (n <= fr.len)
  BY DEF Sent
<1>1. PICK n \in 1 .. fr.len + 1 :
        /\ frames' = Append(frames, fr)
        /\ inbox' = inbox \o [i \in 1 .. n |-> <<Len(frames'), i - 1>>]
        /\ eof' = (n <= fr.len)
  BY <1>0
<1>2. fr.len \in Nat /\ n \in Nat
  BY WebSocketAssumption
<1>3. /\ frames' \in Seq(Frames) /\ Len(frames') = Len(frames) + 1
      /\ DOMAIN frames' = 1 .. Len(frames) + 1
      /\ \A f \in 1 .. Len(frames) : frames'[f] = frames[f]
      /\ frames'[Len(frames) + 1] = fr
  BY <1>1, AppendFacts DEF ReadTypes
<1>4. PICK N : N = Len(frames) + 1
  OBVIOUS
<1>6. N \in Int /\ inbox \in Seq(Unit)
  BY <1>4, FrameFacts DEF ReadTypes
<1>7. PICK s : s = [i \in 1 .. n |-> <<N, i - 1>>]
  OBVIOUS
<1>10. s \in Seq(Int \X Int) /\ Len(s) = n /\ \A i \in 1 .. n : s[i] = <<N, i - 1>>
  BY <1>2, <1>6, <1>7
<1>11. s \in Seq(Unit)
  BY <1>10 DEF Unit
<1>8. inbox' = inbox \o s
  BY <1>1, <1>3, <1>4, <1>7
<1>9. /\ inbox' \in Seq(Unit) /\ Len(inbox') = Len(inbox) + n
      /\ DOMAIN inbox' = 1 .. Len(inbox) + n
      /\ \A i \in 1 .. Len(inbox) : inbox'[i] = inbox[i]
      /\ \A i \in 1 .. n : inbox'[Len(inbox) + i] = <<N, i - 1>>
  <2>1. inbox \in Seq(Unit) /\ s \in Seq(Unit)
    BY <1>6, <1>11
  <2>2. /\ inbox \o s \in Seq(Unit) /\ Len(inbox \o s) = Len(inbox) + Len(s)
        /\ DOMAIN (inbox \o s) = 1 .. Len(inbox) + Len(s)
        /\ \A i \in 1 .. Len(inbox) : (inbox \o s)[i] = inbox[i]
        /\ \A i \in 1 .. Len(s) : (inbox \o s)[Len(inbox) + i] = s[i]
    BY <2>1, ConcatFacts
  <2>. QED
    BY <1>8, <1>10, <2>2, Zenon
<1>12. eof = FALSE
  BY DEF Sent, ReadTypes
<1>. QED
  BY <1>1, <1>2, <1>3, <1>4, <1>9, <1>12, Zenon

LEMMA TookFacts ==
    ASSUME ReadTypes, Took
    PROVE  \E k \in Nat :
             /\ k >= 1 /\ k <= frame.left /\ k <= Len(inbox)
             /\ frame' = [frame EXCEPT !.left = @ - k]
             /\ inbox' \in Seq(Unit) /\ Len(inbox') = Len(inbox) - k
             /\ DOMAIN inbox' = 1 .. Len(inbox) - k
             /\ \A i \in 1 .. Len(inbox) - k : inbox'[i] = inbox[k + i]
             /\ got' \in Seq(Unit) /\ Len(got') = Len(got) + k
             /\ DOMAIN got' = 1 .. Len(got) + k
             /\ \A i \in 1 .. Len(got) : got'[i] = got[i]
             /\ \A i \in 1 .. k : got'[Len(got) + i] = inbox[i]
<1>1. PICK k \in 1 .. frame.left :
        /\ k <= Len(inbox)
        /\ frame' = [frame EXCEPT !.left = @ - k]
        /\ inbox' = SubSeq(inbox, k + 1, Len(inbox))
        /\ got' = got \o SubSeq(inbox, 1, k)
  BY DEF Took
<1>2. /\ k \in Nat /\ k >= 1 /\ k <= frame.left /\ k + 1 \in 1 .. Len(inbox) + 1
      /\ Len(inbox) \in (k + 1) - 1 .. Len(inbox) /\ k \in 1 - 1 .. Len(inbox)
      /\ 1 \in 1 .. Len(inbox) + 1
  <2>1. PICK u : u = Len(inbox)
    OBVIOUS
  <2>2. PICK v : v = frame.left
    OBVIOUS
  <2>3. u \in Nat /\ v \in Nat /\ k \in 1 .. v /\ k <= u
    BY <1>1, <2>1, <2>2, FrameFacts, InboxFacts
  <2>4. /\ k \in Nat /\ k >= 1 /\ k <= v /\ k + 1 \in 1 .. u + 1
        /\ u \in (k + 1) - 1 .. u /\ k \in 1 - 1 .. u /\ 1 \in 1 .. u + 1
    BY ONLY <2>3
  <2>. QED
    BY <2>1, <2>2, <2>4
<1>3. inbox \in Seq(Unit) /\ got \in Seq(Unit)
  BY DEF ReadTypes
<1>4. PICK m : m = Len(inbox)
  OBVIOUS
<1>5. PICK a : a = k + 1
  OBVIOUS
<1>6. PICK r : r = SubSeq(inbox, a, m)
  OBVIOUS
<1>7. a \in 1 .. Len(inbox) + 1 /\ m \in a - 1 .. Len(inbox)
  BY <1>2, <1>4, <1>5
<1>8. /\ r \in Seq(Unit) /\ Len(r) = m - a + 1 /\ DOMAIN r = 1 .. m - a + 1
      /\ \A i \in 1 .. m - a + 1 : r[i] = inbox[a + i - 1]
  BY <1>3, <1>6, <1>7, SubSeqFacts
<1>9. m - a + 1 = Len(inbox) - k /\ \A i \in Int : a + i - 1 = k + i
  BY <1>2, <1>4, <1>5, InboxFacts
<1>10. inbox' = r
  BY <1>1, <1>4, <1>5, <1>6
<1>11. /\ inbox' \in Seq(Unit) /\ Len(inbox') = Len(inbox) - k
       /\ DOMAIN inbox' = 1 .. Len(inbox) - k
       /\ \A i \in 1 .. Len(inbox) - k : inbox'[i] = inbox[k + i]
  BY <1>8, <1>9, <1>10
<1>12. PICK s : s = SubSeq(inbox, 1, k)
  OBVIOUS
<1>13. /\ s \in Seq(Unit) /\ Len(s) = k - 1 + 1
       /\ \A i \in 1 .. k - 1 + 1 : s[i] = inbox[1 + i - 1]
  BY <1>2, <1>3, <1>12, SubSeqFacts
<1>14. s \in Seq(Unit) /\ Len(s) = k /\ \A i \in 1 .. k : s[i] = inbox[i]
  BY <1>2, <1>13
<1>15. /\ got \o s \in Seq(Unit) /\ Len(got \o s) = Len(got) + Len(s)
       /\ DOMAIN (got \o s) = 1 .. Len(got) + Len(s)
       /\ \A i \in 1 .. Len(got) : (got \o s)[i] = got[i]
       /\ \A i \in 1 .. Len(s) : (got \o s)[Len(got) + i] = s[i]
  <2>1. s \in Seq(Unit)
    BY <1>14
  <2>. QED
    BY <1>3, <2>1, ConcatFacts
<1>16. got' = got \o s
  BY <1>1, <1>12
<1>17. /\ got' \in Seq(Unit) /\ Len(got') = Len(got) + k
       /\ DOMAIN got' = 1 .. Len(got) + k
       /\ \A i \in 1 .. Len(got) : got'[i] = got[i]
       /\ \A i \in 1 .. k : got'[Len(got) + i] = inbox[i]
  BY <1>14, <1>15, <1>16, Zenon
<1>. QED
  BY <1>1, <1>2, <1>11, <1>17

LEMMA ReadTypesStep ==
    ASSUME ReadTypes, Effect
    PROVE  ReadTypes'
<1>0. /\ NoFrame \in [id : 0 .. Len(frames), kind : Kinds \cup {"none"}, left : Nat]
      /\ <<>> \in Seq(Unit)
  BY FrameFacts DEF NoFrame
<1>1. CASE Same
  BY <1>1 DEF Same, inVars, readVars, ReadTypes
<1>2. CASE Sent
  <2>1. PICK fr \in Frames : \E n \in 1 .. fr.len + 1 :
             /\ fr.len \in Nat /\ n \in Nat
             /\ frames' \in Seq(Frames) /\ Len(frames') = Len(frames) + 1
             /\ DOMAIN frames' = 1 .. Len(frames) + 1
             /\ inbox' \in Seq(Unit)
             /\ DOMAIN inbox' = 1 .. Len(inbox) + n
             /\ \A i \in 1 .. Len(inbox) : inbox'[i] = inbox[i]
             /\ \A i \in 1 .. n : inbox'[Len(inbox) + i] = <<Len(frames) + 1, i - 1>>
             /\ eof' = (n <= fr.len)
    BY <1>2, SentFacts
  <2>2. PICK n \in 1 .. fr.len + 1 :
             /\ n \in Nat /\ fr.len \in Nat
             /\ DOMAIN inbox' = 1 .. Len(inbox) + n
             /\ \A i \in 1 .. Len(inbox) : inbox'[i] = inbox[i]
             /\ \A i \in 1 .. n : inbox'[Len(inbox) + i] = <<Len(frames) + 1, i - 1>>
             /\ eof' = (n <= fr.len)
    BY <2>1
  <2>3. ASSUME NEW i \in DOMAIN inbox' PROVE inbox'[i][1] \in DOMAIN frames'
    <3>1. CASE i <= Len(inbox)
      BY <2>1, <2>2, <2>3, <3>1, InboxFacts, FrameFacts
    <3>2. CASE i > Len(inbox)
      <4>1. PICK k \in 1 .. n : i = Len(inbox) + k
        <5>1. i - Len(inbox) \in 1 .. n
          BY <2>2, <2>3, <3>2, InboxFacts
        <5>2. i = Len(inbox) + (i - Len(inbox))
          BY <2>2, <2>3, InboxFacts
        <5>. QED
          BY <5>1, <5>2
      <4>2. inbox'[i] = <<Len(frames) + 1, k - 1>>
        BY <2>2, <4>1
      <4>. QED
        BY <2>1, <4>2, FrameFacts
    <3>. QED
      BY <2>2, <2>3, <3>1, <3>2, InboxFacts
  <2>4. eof' \in BOOLEAN
    BY <2>2
  <2>5. frame' = frame /\ kept' = kept /\ got' = got /\ payloadType' = payloadType
        /\ delivered' = delivered /\ taken' = taken /\ lost' = lost
    BY <1>2 DEF Sent, readVars
  <2>6. frame \in [id : 0 .. Len(frames'), kind : Kinds \cup {"none"}, left : Nat]
    <3>1. 0 .. Len(frames) \subseteq 0 .. Len(frames')
      BY <2>1, FrameFacts
    <3>. QED
      BY <3>1 DEF ReadTypes
  <2>. QED
    BY <2>1, <2>3, <2>4, <2>5, <2>6 DEF ReadTypes
<1>3. CASE Shut
  BY <1>3 DEF Shut, readVars, ReadTypes
<1>4. CASE Took
  <2>1. PICK k \in Nat :
          /\ k <= frame.left /\ k <= Len(inbox)
          /\ frame' = [frame EXCEPT !.left = @ - k]
          /\ inbox' \in Seq(Unit) /\ DOMAIN inbox' = 1 .. Len(inbox) - k
          /\ \A i \in 1 .. Len(inbox) - k : inbox'[i] = inbox[k + i]
          /\ got' \in Seq(Unit)
    BY <1>4, TookFacts
  <2>2. \A i \in DOMAIN inbox' : inbox'[i][1] \in DOMAIN frames
    <3>1. \A i \in DOMAIN inbox' : k + i \in 1 .. Len(inbox)
      BY <2>1, InboxFacts
    <3>. QED
      BY <2>1, <3>1, InboxFacts, FrameFacts
  <2>3. frame' \in [id : 0 .. Len(frames), kind : Kinds \cup {"none"}, left : Nat]
    <3>1. frame.left - k \in Nat
      BY <2>1, FrameFacts
    <3>. QED
      BY <2>1, <3>1 DEF ReadTypes
  <2>. QED
    BY <1>4, <2>1, <2>2, <2>3 DEF Took, ReadTypes
<1>5. CASE ReadOn
  <2>1. inbox # <<>> /\ inbox' = Tail(inbox) /\ taken' = Append(taken, inbox[1])
    BY <1>5, InboxFacts DEF ReadOn
  <2>2. inbox[1] \in Unit
    BY <2>1, InboxFacts
  <2>3. taken' \in Seq(Unit)
    BY <2>1, <2>2, AppendFacts DEF ReadTypes
  <2>4. frame' \in [id : 0 .. Len(frames), kind : Kinds \cup {"none"}, left : Nat]
    <3>1. frame.left - 1 \in Nat
      BY <1>5, FrameFacts DEF ReadOn
    <3>. QED
      BY <1>5, <3>1 DEF ReadOn, ReadTypes
  <2>. QED
    BY <1>5, <2>1, <2>3, <2>4, TailTypes DEF ReadOn, ReadTypes
<1>6. CASE Dropped
  BY <1>0, <1>6 DEF Dropped, inVars, ReadTypes
<1>7. CASE Torn
  <2>1. PICK r : r = Tail(inbox)
    OBVIOUS
  <2>2. /\ r \in Seq(Unit) /\ DOMAIN r = 1 .. Len(inbox) - 1 /\ Len(r) = Len(inbox) - 1
        /\ \A i \in 1 .. Len(inbox) - 1 : r[i] = inbox[i + 1]
    BY <1>7, <2>1, TailFacts DEF Torn, ReadTypes
  <2>3. PICK u : u = <<Head(inbox)[1], -1>>
    OBVIOUS
  <2>4. u \in Unit /\ u[1] \in DOMAIN frames
    BY <1>7, <2>3, InboxFacts, FrameFacts DEF Torn, Unit
  <2>5. <<u>> \in Seq(Unit) /\ Len(<<u>>) = 1 /\ <<u>>[1] = u
    BY <2>4
  <2>6. /\ <<u>> \o r \in Seq(Unit) /\ DOMAIN (<<u>> \o r) = 1 .. Len(<<u>>) + Len(r)
        /\ \A i \in 1 .. Len(<<u>>) : (<<u>> \o r)[i] = <<u>>[i]
        /\ \A i \in 1 .. Len(r) : (<<u>> \o r)[Len(<<u>>) + i] = r[i]
    BY <2>2, <2>5, ConcatFacts
  <2>7. inbox' = <<u>> \o r
    BY <1>7, <2>1, <2>3 DEF Torn
  <2>8. ASSUME NEW i \in DOMAIN inbox' PROVE inbox'[i][1] \in DOMAIN frames
    <3>1. CASE i = 1
      BY <2>4, <2>5, <2>6, <2>7, <3>1
    <3>2. CASE i # 1
      <4>1. i - 1 \in 1 .. Len(r) /\ i = 1 + (i - 1) /\ i - 1 + 1 = i /\ i \in 1 .. Len(inbox)
        BY <2>2, <2>5, <2>6, <2>7, <2>8, <3>2, InboxFacts
      <4>2. inbox'[i] = r[i - 1] /\ r[i - 1] = inbox[i]
        BY <2>2, <2>5, <2>6, <2>7, <4>1
      <4>. QED
        BY <4>1, <4>2, InboxFacts, FrameFacts
    <3>. QED
      BY <3>1, <3>2
  <2>. QED
    BY <1>0, <1>7, <2>6, <2>7, <2>8 DEF Torn, ReadTypes
<1>8. CASE Paused
  <2>1. taken' \in Seq(Unit)
    BY <1>8, ConcatFacts DEF Paused, ReadTypes
  <2>. QED
    BY <1>0, <1>8, <2>1 DEF Paused, inVars, ReadTypes
<1>9. CASE Doomed
  BY <1>9 DEF Doomed, inVars, ReadTypes
<1>10. CASE Handed
  <2>1. PICK m : m = [id |-> frame.id, kind |-> frame.kind, data |-> got]
    OBVIOUS
  <2>2. m \in [id : Nat, kind : Kinds \cup {"none"}, data : Seq(Unit)]
    BY <2>1, FrameFacts DEF ReadTypes
  <2>3. delivered' = Append(delivered, m)
    BY <1>10, <2>1 DEF Handed
  <2>4. delivered' \in Seq([id : Nat, kind : Kinds \cup {"none"}, data : Seq(Unit)])
    BY <2>2, <2>3, AppendFacts DEF ReadTypes
  <2>. QED
    BY <1>0, <1>10, <2>4 DEF Handed, inVars, ReadTypes
<1>11. ASSUME NEW h \in HeadersAt(Head(inbox)), Passed(h[2])
       PROVE  ReadTypes'
  <2>1. inbox # <<>> /\ inbox' = Tail(inbox)
    BY <1>11 DEF Passed, AtHeader
  <2>2. lost' \in BOOLEAN
    BY <1>11 DEF Passed
  <2>. QED
    BY <1>0, <1>11, <2>1, <2>2, TailTypes DEF Passed, ReadTypes
<1>12. ASSUME NEW h \in HeadersAt(Head(inbox)), Began(h[1], h[2])
       PROVE  ReadTypes'
  <2>1. inbox # <<>> /\ inbox' = Tail(inbox)
    BY <1>12 DEF Began, AtHeader
  <2>2. h[1] \in 0 .. Len(frames) /\ h[2] \in Frames
    BY <2>1, HeaderFacts
  <2>3. h[2].len \in Nat /\ h[2].kind \in Kinds
    BY <2>2, FrameFacts
  <2>4. frame' \in [id : 0 .. Len(frames), kind : Kinds \cup {"none"}, left : Nat]
    BY <1>12, <2>2, <2>3, TypeOfFacts DEF Began
  <2>5. payloadType' \in DataTypes
    BY <1>12 DEF Began, ReadTypes, DataTypes
  <2>6. <<h[1], 0>> \in Unit
    BY <2>2, FrameFacts DEF Unit
  <2>7. taken' \in Seq(Unit)
    BY <1>12, <2>6, AppendFacts DEF Began, ReadTypes
  <2>. QED
    BY <1>0, <1>12, <2>1, <2>4, <2>5, <2>7, TailTypes DEF Began, ReadTypes
<1>. QED
  BY <1>1, <1>2, <1>3, <1>4, <1>5, <1>6, <1>7, <1>8, <1>9, <1>10, <1>11, <1>12
     DEF Effect

-----------------------------------------------------------------------------
(* What is written *)

WriteRecord == [by : Threads, kind : {"pong", "refuse", "write", "close"},
                of : Nat, data : Seq(Unit)]

LEMMA WritesFacts ==
    ASSUME WriteTypes
    PROVE  /\ Len(writes) \in Nat /\ DOMAIN writes = 1 .. Len(writes)
           /\ \A w \in 1 .. Len(writes) :
                /\ writes[w].by \in Threads /\ writes[w].of \in Nat
                /\ writes[w].data \in Seq(Unit) /\ Size(w) \in Nat
           /\ writes # <<>> <=> Len(writes) > 0
<1>1. writes \in Seq(WriteRecord)
  BY DEF WriteTypes, WriteRecord
<1>2. /\ Len(writes) \in Nat /\ DOMAIN writes = 1 .. Len(writes)
      /\ \A w \in 1 .. Len(writes) : writes[w] \in WriteRecord
      /\ writes # <<>> <=> Len(writes) > 0
  BY <1>1
<1>. QED
  BY <1>2 DEF WriteRecord, Size

LEMMA WriteOfType ==
    ASSUME Typed, Calls, NEW t \in Threads, pc[t] \in Writing
    PROVE  /\ WriteOf(t) \in WriteRecord /\ WriteOf(t).by = t
           /\ WriteOf(t).kind = "pong" <=> t \in Readers /\ call[t] # "refuse"
<1>1. <<<<0, 1>>>> \in Seq(Unit)
  BY DEF Unit
<1>2. Echoed \in Seq(Unit)
  <2>1. got \in Seq(Unit) /\ Len(got) \in Nat
    BY DEF Typed, ReadTypes
  <2>2. CASE Len(got) > MaxControl
    <3>1. 1 \in 1 .. Len(got) + 1 /\ MaxControl \in 1 - 1 .. Len(got)
      BY <2>1, <2>2, WebSocketAssumption
    <3>. QED
      BY <2>1, <2>2, <3>1, SubSeqFacts DEF Echoed
  <2>. QED
    BY <2>1, <2>2 DEF Echoed
<1>3. frame.id \in Nat
  BY FrameFacts DEF Typed
<1>4. CASE t \in Readers /\ call[t] # "refuse"
  BY <1>2, <1>3, <1>4 DEF WriteOf, WriteRecord
<1>5. CASE ~(t \in Readers /\ call[t] # "refuse")
  <2>1. call[t] \in {"refuse", "write", "close"}
    BY <1>5 DEF Calls, Writing
  <2>. QED
    BY <1>1, <1>5, <2>1 DEF WriteOf, WriteRecord
<1>. QED
  BY <1>4, <1>5

LEMMA OwnFacts ==
    ASSUME Typed, Calls, Outbound, NEW t \in Threads, pc[t] = "wpayload"
    PROVE  /\ Len(writes) > 0 /\ Len(writes) \in DOMAIN writes
           /\ OwnWrite(t) = Len(writes)
           /\ WriteOf(t).data \in Seq(Unit)
           /\ WriteOf(t).data = writes[Len(writes)].data
<1>1. writes # <<>> /\ writes[Len(writes)] = WriteOf(t)
  BY DEF Outbound, LastWrite
<1>2. WriteOf(t) \in WriteRecord /\ WriteOf(t).by = t
  BY WriteOfType DEF Writing
<1>3. Len(writes) > 0 /\ Len(writes) \in DOMAIN writes
      /\ DOMAIN writes = 1 .. Len(writes) /\ Len(writes) \in Nat
  BY <1>1, WritesFacts DEF Typed
<1>4. OwnWrite(t) = Len(writes)
  <2>1. /\ writes[Len(writes)].by = t
        /\ \A v \in DOMAIN writes : writes[v].by = t => v <= Len(writes)
    BY <1>1, <1>2, <1>3
  <2>2. \A w \in DOMAIN writes :
           /\ writes[w].by = t
           /\ \A v \in DOMAIN writes : writes[v].by = t => v <= w
           => w = Len(writes)
    BY <1>3, <2>1
  <2>. QED
    BY <1>3, <2>1, <2>2 DEF OwnWrite
<1>. QED
  BY <1>1, <1>2, <1>3, <1>4 DEF WriteRecord

\* the units of the write that is in progress
LEMMA PayloadFacts ==
    ASSUME TypeOK, Typed, Calls, Outbound, NEW t \in Threads,
           pc[t] = "wpayload", ~werr
    PROVE  /\ WithPayload(t) \in Seq(Unit)
           /\ Len(WithPayload(t)) = Size(Len(writes)) + 1
           /\ \A i \in 1 .. Size(Len(writes)) + 1 :
                 WithPayload(t)[i] = <<Len(writes), i - 1>>
<1>1. PICK N : N = Len(writes)
  OBVIOUS
<1>2. PICK d : d = WriteOf(t).data
  OBVIOUS
<1>3. N \in Nat /\ OwnWrite(t) = N /\ d \in Seq(Unit) /\ Size(Len(writes)) = Len(d)
  BY <1>1, <1>2, OwnFacts, WritesFacts DEF Typed, Size
<1>4. buffered = <<<<N, 0>>>>
  <2>1. wio = t /\ t # NoOne
    BY Sides DEF Calls
  <2>. QED
    BY <1>1, <2>1 DEF Outbound
<1>5. DOMAIN d = 1 .. Len(d) /\ Len(d) \in Nat
  BY <1>3
<1>6. PICK s : s = [i \in DOMAIN d |-> <<N, i>>]
  OBVIOUS
<1>7. WithPayload(t) = <<<<N, 0>>>> \o s
  BY <1>2, <1>3, <1>4, <1>6 DEF WithPayload
<1>8. s \in Seq(Int \X Int) /\ Len(s) = Len(d) /\ \A i \in 1 .. Len(d) : s[i] = <<N, i>>
  BY <1>3, <1>5, <1>6
<1>9. PICK r : r = <<<<N, 0>>>>
  OBVIOUS
<1>10. r \in Seq(Unit) /\ Len(r) = 1 /\ r[1] = <<N, 0>> /\ s \in Seq(Unit)
  BY <1>3, <1>8, <1>9 DEF Unit
<1>11. /\ r \o s \in Seq(Unit) /\ Len(r \o s) = Len(r) + Len(s)
       /\ \A i \in 1 .. Len(r) : (r \o s)[i] = r[i]
       /\ \A i \in 1 .. Len(s) : (r \o s)[Len(r) + i] = s[i]
  <2>1. r \in Seq(Unit) /\ s \in Seq(Unit)
    BY <1>10
  <2>. QED
    BY <2>1, ConcatFacts
<1>12. ASSUME NEW i \in 1 .. Len(d) + 1 PROVE (r \o s)[i] = <<N, i - 1>>
  <2>1. CASE i = 1
    BY <1>10, <1>11, <2>1
  <2>2. CASE i # 1
    <3>1. i - 1 \in 1 .. Len(s) /\ i = Len(r) + (i - 1)
      BY <1>5, <1>8, <1>10, <1>12, <2>2
    <3>. QED
      BY <1>8, <1>11, <3>1
  <2>. QED
    BY <2>1, <2>2
<1>13. Len(r \o s) = Len(d) + 1
  BY <1>5, <1>8, <1>10, <1>11
<1>14. WithPayload(t) = r \o s
  BY <1>7, <1>9
<1>. QED
  BY <1>1, <1>3, <1>11, <1>12, <1>13, <1>14

OutQuiet ==
    /\ UNCHANGED <<buffered, outbox, werr, writes, wio>>
    /\ \A u \in Threads : pc[u] = "wpayload" => WriteOf(u)' = WriteOf(u)

LEMMA SameWrite ==
    ASSUME NEW u \in Threads, call'[u] = call[u],
           u \in Readers => frame' = frame /\ got' = got
    PROVE  WriteOf(u)' = WriteOf(u)
  BY DEF WriteOf, Echoed

LEMMA OutCases ==
    ASSUME TypeOK, Typed, Calls, [Next]_vars
    PROVE  OutQuiet \/ \E t \in Threads : WLock(t) \/ WritePayload(t) \/ FailedWrite(t)
<1>1. CASE Elsewhere
  <2>1. UNCHANGED <<buffered, outbox, werr, writes, wio>> /\ call' = call
        /\ frame' = frame /\ got' = got
    BY <1>1 DEF Elsewhere, outVars, callVars, readVars
  <2>. QED
    BY <2>1, SameWrite DEF OutQuiet
<1>2. CASE PeerSends \/ PeerCloses
  <2>1. UNCHANGED <<buffered, outbox, werr, writes, wio>> /\ call' = call
        /\ frame' = frame /\ got' = got
    BY <1>2 DEF PeerSends, PeerCloses, outVars, callVars, readVars
  <2>. QED
    BY <2>1, SameWrite DEF OutQuiet
<1>3. ASSUME NEW t \in Threads, Call(t) \/ RLock(t) \/ CloseRwc(t)
      PROVE  OutQuiet
  <2>1. UNCHANGED <<buffered, outbox, werr, writes, wio>> /\ frame' = frame /\ got' = got
    BY <1>3 DEF Call, RLock, CloseRwc, outVars, readVars
  <2>2. pc[t] # "wpayload" /\ \A u \in Threads : u # t => call'[u] = call[u]
    BY <1>3 DEF Call, RLock, CloseRwc, Typed
  <2>. QED
    BY <2>1, <2>2, SameWrite DEF OutQuiet
<1>4. ASSUME NEW t \in Threads,
             ReadHeader(t) \/ ReadControl(t) \/ Discard(t) \/ Receive(t) \/ Read(t)
             \/ FailedRead(t)
      PROVE  OutQuiet
  <2>1. UNCHANGED <<buffered, outbox, werr, writes, wio>>
    <3>1. UNCHANGED outVars
      BY <1>4 DEF ReadHeader, ReadControl, Discard, Receive, Read, FailedRead, FailRead
    <3>. QED
      BY <1>4, <3>1, ReadMoves DEF ReadMove, outVars
  <2>2. ReadMove(t)
    BY <1>4, ReadMoves
  <2>3. pc[t] # "wpayload" /\ \A u \in Threads : u # t => call'[u] = call[u]
    BY <2>2 DEF ReadMove, ReadSteps, Typed
  <2>4. \A u \in Readers : pc[u] # "wpayload"
    BY <2>2, <2>3, Holder DEF ReadMove
  <2>. QED
    BY <2>1, <2>3, <2>4, SameWrite DEF OutQuiet
<1>. QED
  BY <1>1, <1>2, <1>3, <1>4, Steps

LEMMA WLockFacts ==
    ASSUME TypeOK, Typed, Calls, NEW t \in Threads, WLock(t)
    PROVE  /\ pc[t] = "wlock" /\ wio = NoOne /\ wio' = t /\ t # NoOne
           /\ outbox' = outbox /\ werr' = werr
           /\ writes' = Append(writes, WriteOf(t))
           /\ writes' \in Seq(WriteRecord) /\ Len(writes') = Len(writes) + 1
           /\ DOMAIN writes' = 1 .. Len(writes) + 1
           /\ \A w \in 1 .. Len(writes) : writes'[w] = writes[w]
           /\ writes'[Len(writes) + 1] = WriteOf(t)
           /\ WriteOf(t)' = WriteOf(t)
           /\ buffered' = IF werr THEN buffered
                          ELSE Append(buffered, <<Len(writes) + 1, 0>>)
<1>1. /\ pc[t] = "wlock" /\ wio = NoOne /\ wio' = t /\ t # NoOne
      /\ outbox' = outbox /\ werr' = werr /\ call' = call
      /\ writes' = Append(writes, WriteOf(t)) /\ frame' = frame /\ got' = got
      /\ buffered' = IF werr THEN buffered
                     ELSE Append(buffered, <<Len(writes'), 0>>)
  BY Sides DEF WLock, MayWrite, readVars
<1>2. WriteOf(t) \in WriteRecord
  BY <1>1, WriteOfType DEF Writing
<1>3. /\ writes' \in Seq(WriteRecord) /\ Len(writes') = Len(writes) + 1
      /\ DOMAIN writes' = 1 .. Len(writes) + 1
      /\ \A w \in 1 .. Len(writes) : writes'[w] = writes[w]
      /\ writes'[Len(writes) + 1] = WriteOf(t)
  <2>1. writes \in Seq(WriteRecord)
    BY DEF Typed, WriteTypes, WriteRecord
  <2>. QED
    BY <1>1, <1>2, <2>1, AppendFacts
<1>4. WriteOf(t)' = WriteOf(t)
  BY <1>1, SameWrite
<1>. QED
  BY <1>1, <1>3, <1>4

\* what goes out: the first n units of what is buffered
LEMMA SentOut ==
    ASSUME TypeOK, Typed, Calls, Outbound, NEW t \in Threads,
           pc[t] = "wpayload", ~werr, NEW n \in 0 .. Len(WithPayload(t)),
           UNCHANGED writes, outbox' = outbox \o SubSeq(WithPayload(t), 1, n)
    PROVE  /\ outbox' \in Seq(Unit) /\ Framed'
           /\ n = Len(WithPayload(t)) =>
                (outbox[Len(outbox)][2] = Size(outbox[Len(outbox)][1]))'
<1>1. PICK N : N = Len(writes)
  OBVIOUS
<1>2. PICK P : P = WithPayload(t)
  OBVIOUS
<1>3. PICK z : z = Size(N)
  OBVIOUS
<1>4. /\ N \in 1 .. Len(writes) /\ N \in DOMAIN writes /\ z \in Nat
  BY <1>1, <1>3, OwnFacts, WritesFacts DEF Typed
<1>5. /\ P \in Seq(Unit) /\ Len(P) = z + 1 /\ n \in 0 .. z + 1
      /\ \A i \in 1 .. z + 1 : P[i] = <<N, i - 1>>
  BY <1>1, <1>2, <1>3, PayloadFacts
<1>6. PICK s : s = SubSeq(P, 1, n)
  OBVIOUS
<1>7. /\ s \in Seq(Unit) /\ Len(s) = n - 1 + 1
      /\ \A i \in 1 .. n - 1 + 1 : s[i] = P[1 + i - 1]
  <2>1. P \in Seq(Unit) /\ 1 \in 1 .. Len(P) + 1 /\ n \in 1 - 1 .. Len(P)
    BY <1>4, <1>5
  <2>. QED
    BY <1>6, <2>1, SubSeqFacts
<1>8. s \in Seq(Unit) /\ Len(s) = n /\ \A i \in 1 .. n : s[i] = <<N, i - 1>>
  <2>1. n - 1 + 1 = n /\ \A i \in 1 .. n : 1 + i - 1 = i /\ i \in 1 .. z + 1
    BY <1>4, <1>5
  <2>. QED
    BY <1>5, <1>7, <2>1
<1>9. PICK m : m = Len(outbox)
  OBVIOUS
<1>10. outbox \in Seq(Unit) /\ m \in Nat /\ DOMAIN outbox = 1 .. m
       /\ (outbox = <<>> <=> m = 0)
  BY <1>9 DEF Typed, WriteTypes
<1>11. /\ outbox \o s \in Seq(Unit) /\ Len(outbox \o s) = Len(outbox) + Len(s)
       /\ DOMAIN (outbox \o s) = 1 .. Len(outbox) + Len(s)
       /\ \A i \in 1 .. Len(outbox) : (outbox \o s)[i] = outbox[i]
       /\ \A i \in 1 .. Len(s) : (outbox \o s)[Len(outbox) + i] = s[i]
  <2>1. s \in Seq(Unit)
    BY <1>8
  <2>. QED
    BY <1>10, <2>1, ConcatFacts
<1>12. outbox' = outbox \o s
  BY <1>2, <1>6
<1>13. /\ outbox' \in Seq(Unit) /\ Len(outbox') = m + n /\ DOMAIN outbox' = 1 .. m + n
       /\ \A i \in 1 .. m : outbox'[i] = outbox[i]
       /\ \A i \in 1 .. n : outbox'[m + i] = <<N, i - 1>>
  BY <1>8, <1>9, <1>11, <1>12, Zenon
<1>14. \A w : Size(w)' = Size(w)
  BY DEF Size
<1>15. m > 0 => outbox[m][2] = Size(outbox[m][1])
  BY <1>9, <1>10 DEF Outbound
<1>16. ASSUME NEW i \in DOMAIN outbox'
       PROVE  /\ outbox'[i][1] \in DOMAIN writes
              /\ outbox'[i][2] \in 0 .. Size(outbox'[i][1])
              /\ IF outbox'[i][2] = 0
                 THEN i > 1 => outbox'[i - 1][2] = Size(outbox'[i - 1][1])
                 ELSE i > 1 /\ outbox'[i - 1] = <<outbox'[i][1], outbox'[i][2] - 1>>
  <2>1. CASE i <= m
    <3>1. i \in 1 .. m /\ (i > 1 => i - 1 \in 1 .. m)
      BY <1>10, <1>13, <1>16, <2>1
    <3>2. outbox'[i] = outbox[i] /\ (i > 1 => outbox'[i - 1] = outbox[i - 1])
      BY <1>13, <3>1
    <3>3. /\ outbox[i][1] \in DOMAIN writes
          /\ outbox[i][2] \in 0 .. Size(outbox[i][1])
          /\ IF outbox[i][2] = 0
             THEN i > 1 => outbox[i - 1][2] = Size(outbox[i - 1][1])
             ELSE i > 1 /\ outbox[i - 1] = <<outbox[i][1], outbox[i][2] - 1>>
      BY <1>10, <3>1 DEF Outbound, Framed
    <3>. QED
      BY <3>2, <3>3
  <2>2. CASE i = m + 1
    <3>1. 1 \in 1 .. n
      BY <1>5, <1>10, <1>13, <1>16, <2>2
    <3>2. outbox'[i] = <<N, 1 - 1>>
      BY <1>13, <2>2, <3>1
    <3>3. outbox'[i][1] = N /\ outbox'[i][2] = 0
      BY <3>2
    <3>4. i > 1 => m > 0 /\ i - 1 = m /\ outbox'[i - 1] = outbox[m]
      BY <1>10, <1>13, <2>2
    <3>5. i > 1 => outbox'[i - 1][2] = Size(outbox'[i - 1][1])
      BY <1>15, <3>4
    <3>6. outbox'[i][1] \in DOMAIN writes /\ outbox'[i][2] \in 0 .. Size(outbox'[i][1])
      <4>1. N \in DOMAIN writes /\ 0 \in 0 .. z
        BY <1>3, <1>4
      <4>. QED
        BY <1>3, <3>3, <4>1
    <3>. QED
      BY <3>3, <3>5, <3>6
  <2>3. CASE i > m + 1
    <3>1. /\ i \in Int /\ i >= m + 2 /\ i <= m + n /\ n <= z + 1
          /\ n \in Int /\ m \in Int /\ z \in Int /\ m >= 0
      BY <1>4, <1>5, <1>10, <1>13, <1>16, <2>3
    <3>2. i - m \in 1 .. n /\ i = m + (i - m)
      BY <3>1
    <3>10. PICK k \in 1 .. n : i = m + k
      BY <3>2
    <3>11. k \in Int /\ k >= 1 /\ k <= n
      BY <3>1, <3>10
    <3>12. k >= 2
      BY <3>1, <3>10, <3>11
    <3>13. k - 1 \in 1 .. n /\ k - 1 \in 0 .. z /\ k - 1 # 0
      BY <3>1, <3>11, <3>12
    <3>14. i - 1 = m + (k - 1) /\ i > 1
      BY <3>1, <3>10, <3>11
    <3>3. k \in 1 .. n /\ k - 1 \in 1 .. n /\ i = m + k /\ i - 1 = m + (k - 1) /\ i > 1
          /\ k - 1 \in 0 .. z /\ k - 1 # 0
      BY <3>10, <3>13, <3>14
    <3>4. outbox'[i] = <<N, k - 1>>
      BY <1>13, <3>3
    <3>5. outbox'[i - 1] = <<N, (k - 1) - 1>>
      BY <1>13, <3>3
    <3>6. outbox'[i][1] = N /\ outbox'[i][2] = k - 1
      BY <3>4
    <3>7. outbox'[i][1] \in DOMAIN writes /\ outbox'[i][2] \in 0 .. Size(outbox'[i][1])
      BY <1>3, <1>4, <3>3, <3>6
    <3>. QED
      BY <3>3, <3>5, <3>6, <3>7
  <2>4. i <= m \/ i = m + 1 \/ i > m + 1
    BY <1>5, <1>10, <1>13, <1>16
  <2>. QED
    BY <2>1, <2>2, <2>3, <2>4
<1>17. Framed'
  BY <1>14, <1>16 DEF Framed
<1>18. ASSUME n = Len(WithPayload(t))
       PROVE  outbox'[Len(outbox')][2] = Size(outbox'[Len(outbox')][1])
  <2>1. n = z + 1 /\ n \in 1 .. n
    BY <1>2, <1>4, <1>5, <1>18
  <2>2. outbox'[m + n] = <<N, n - 1>>
    BY <1>13, <2>1
  <2>3. n - 1 = z
    BY <1>4, <2>1
  <2>4. <<N, n - 1>>[1] = N /\ <<N, n - 1>>[2] = n - 1
    OBVIOUS
  <2>5. outbox'[m + n][1] = N /\ outbox'[m + n][2] = z
    BY <2>2, <2>3, <2>4, Zenon
  <2>. QED
    BY <1>3, <1>13, <2>5, Zenon
<1>. QED
  BY <1>13, <1>14, <1>17, <1>18
LEMMA OutFacts ==
    ASSUME Outbound, NEW i \in DOMAIN outbox
    PROVE  /\ outbox[i][1] \in DOMAIN writes
           /\ i > 1 /\ i - 1 \in DOMAIN outbox => outbox[i - 1][1] \in DOMAIN writes
  BY DEF Outbound, Framed

LEMMA OutboundStep ==
    ASSUME TypeOK, Typed, Calls, Outbound, Calls', [Next]_vars
    PROVE  WriteTypes' /\ Outbound'
<1>0. /\ werr \in BOOLEAN /\ outbox \in Seq(Unit) /\ buffered \in Seq(Unit)
      /\ writes \in Seq(WriteRecord)
  BY DEF Typed, WriteTypes, WriteRecord
<1>1. CASE OutQuiet
  <2>1. /\ buffered' = buffered /\ outbox' = outbox /\ werr' = werr
        /\ writes' = writes /\ wio' = wio
    BY <1>1 DEF OutQuiet
  <2>2. WriteTypes'
    BY <2>1 DEF Typed, WriteTypes
  <2>3. ASSUME NEW u \in Threads, pc'[u] = "wpayload"
        PROVE  writes' # <<>> /\ LastWrite' = WriteOf(u)'
    <3>1. wio' = u
      BY <2>3 DEF Calls
    <3>2. pc[u] = "wpayload"
      BY <2>1, <3>1 DEF Calls
    <3>3. writes # <<>> /\ LastWrite = WriteOf(u) /\ WriteOf(u)' = WriteOf(u)
      BY <1>1, <3>2 DEF Outbound, OutQuiet
    <3>. QED
      BY <2>1, <3>3 DEF LastWrite
  <2>4. Framed'
    BY <2>1 DEF Outbound, Framed, Size
  <2>. QED
    BY <2>1, <2>2, <2>3, <2>4 DEF Outbound, Size
<1>2. ASSUME NEW t \in Threads, WLock(t)
      PROVE  WriteTypes' /\ Outbound'
  <2>1. /\ wio = NoOne /\ wio' = t /\ t # NoOne /\ outbox' = outbox /\ werr' = werr
        /\ writes' \in Seq(WriteRecord) /\ Len(writes') = Len(writes) + 1
        /\ DOMAIN writes' = 1 .. Len(writes) + 1
        /\ \A w \in 1 .. Len(writes) : writes'[w] = writes[w]
        /\ writes'[Len(writes) + 1] = WriteOf(t) /\ WriteOf(t)' = WriteOf(t)
        /\ buffered' = IF werr THEN buffered
                       ELSE Append(buffered, <<Len(writes) + 1, 0>>)
    BY <1>2, WLockFacts
  <2>2. Len(writes) \in Nat /\ DOMAIN writes = 1 .. Len(writes)
    BY <1>0
  <2>3. ASSUME NEW u \in Threads, pc'[u] = "wpayload"
        PROVE  writes' # <<>> /\ LastWrite' = WriteOf(u)'
    <3>1. u = t
      BY <2>1, <2>3 DEF Calls
    <3>2. writes' # <<>>
      BY <2>1, <2>2
    <3>. QED
      BY <2>1, <3>1, <3>2 DEF LastWrite
  <2>4. buffered = <<>>
    BY <2>1 DEF Outbound
  <2>5. buffered' = IF werr' \/ wio' = NoOne THEN <<>> ELSE <<<<Len(writes'), 0>>>>
    <3>1. Append(<<>>, <<Len(writes) + 1, 0>>) = <<<<Len(writes) + 1, 0>>>>
      OBVIOUS
    <3>. QED
      BY <2>1, <2>4, <3>1
  <2>6. <<>> \in Seq(Unit) /\ <<<<Len(writes), 0>>>>' \in Seq(Unit)
    BY <2>1, <2>2 DEF Unit
  <2>7. WriteTypes'
    BY <1>0, <2>1, <2>5, <2>6 DEF WriteTypes, WriteRecord
  <2>8. \A w \in DOMAIN writes : Size(w)' = Size(w) /\ w \in DOMAIN writes'
    BY <2>1, <2>2 DEF Size
  <2>9. Framed'
    BY <2>1, <2>8, OutFacts DEF Outbound, Framed
  <2>10. werr' \/ outbox' = <<>>
         \/ (outbox[Len(outbox)][2] = Size(outbox[Len(outbox)][1]))'
    <3>1. CASE ~werr /\ outbox # <<>>
      <4>1. /\ Len(outbox) \in DOMAIN outbox
            /\ outbox[Len(outbox)][2] = Size(outbox[Len(outbox)][1])
        BY <1>0, <3>1 DEF Outbound
      <4>2. outbox[Len(outbox)][1] \in DOMAIN writes
        BY <4>1 DEF Outbound, Framed
      <4>. QED
        BY <2>1, <2>8, <4>1, <4>2
    <3>. QED
      BY <2>1, <3>1
  <2>. QED
    BY <2>3, <2>5, <2>7, <2>9, <2>10 DEF Outbound
<1>3. ASSUME NEW t \in Threads, WritePayload(t) \/ FailedWrite(t)
      PROVE  WriteTypes' /\ Outbound'
  <2>1. /\ pc[t] = "wpayload" /\ wio' = NoOne /\ writes' = writes
        /\ buffered' = IF werr THEN buffered ELSE <<>>
    BY <1>3 DEF WritePayload, FailedWrite, FailWrite, AfterWrite, Unlocked
  <2>2. ASSUME NEW u \in Threads PROVE pc'[u] # "wpayload"
    BY <2>1, Sides DEF Calls
  <2>3. buffered' = <<>>
    BY <2>1 DEF Outbound
  <2>4. CASE werr
    <3>1. werr' = TRUE /\ outbox' = outbox
      BY <1>3, <2>4 DEF WritePayload, FailedWrite, FailWrite
    <3>2. Framed'
      BY <2>1, <3>1 DEF Outbound, Framed, Size
    <3>3. WriteTypes'
      BY <1>0, <2>1, <2>3, <3>1 DEF WriteTypes, WriteRecord
    <3>. QED
      BY <2>1, <2>2, <2>3, <3>1, <3>2, <3>3 DEF Outbound
  <2>5. CASE ~werr
    <3>1. PICK n \in 0 .. Len(WithPayload(t)) :
            /\ outbox' = outbox \o SubSeq(WithPayload(t), 1, n)
            /\ werr' = TRUE \/ (werr' = FALSE /\ n = Len(WithPayload(t)))
      <4>1. PICK P : P = WithPayload(t)
        OBVIOUS
      <4>2. P \in Seq(Unit) /\ Len(P) \in Nat
        BY <2>1, <2>5, <4>1, PayloadFacts
      <4>3. CASE WritePayload(t)
        <5>1. outbox' = outbox \o P /\ werr' = FALSE
          BY <1>0, <2>5, <4>1, <4>3 DEF WritePayload
        <5>2. SubSeq(P, 1, Len(P)) = P
          BY <4>2
        <5>3. Len(P) \in 0 .. Len(P)
          BY <4>2
        <5>. QED
          BY <4>1, <5>1, <5>2, <5>3, Zenon
      <4>4. CASE FailedWrite(t)
        <5>1. PICK n \in 0 .. Len(P) - 1 : outbox' = outbox \o SubSeq(P, 1, n)
          BY <2>5, <4>1, <4>4 DEF FailedWrite, FailWrite
        <5>2. werr' = TRUE
          BY <2>5, <4>4 DEF FailedWrite, FailWrite, Sticks
        <5>3. n \in 0 .. Len(P)
          BY <4>2
        <5>. QED
          BY <4>1, <5>1, <5>2, <5>3
      <4>. QED
        BY <1>3, <4>3, <4>4
    <3>2. /\ outbox' \in Seq(Unit) /\ Framed'
          /\ n = Len(WithPayload(t)) =>
                (outbox[Len(outbox)][2] = Size(outbox[Len(outbox)][1]))'
      BY <2>1, <2>5, <3>1, SentOut
    <3>3. WriteTypes'
      <4>1. <<>> \in Seq(Unit)
        OBVIOUS
      <4>2. werr' \in BOOLEAN
        BY <3>1, Zenon
      <4>. QED
        BY <1>0, <2>1, <2>3, <3>2, <4>1, <4>2 DEF WriteTypes, WriteRecord
    <3>. QED
      BY <2>1, <2>2, <2>3, <3>1, <3>2, <3>3 DEF Outbound
  <2>. QED
    BY <2>4, <2>5
<1>. QED
  BY <1>1, <1>2, <1>3, OutCases
-----------------------------------------------------------------------------
(* Types, and what a reader holds *)

Places == {"idle", "rlock", "header", "control", "discard", "payload", "wlock",
           "wpayload", "rwc"}
CallKinds == {"none", "receive", "read", "refuse", "write", "close"}

LEMMA PlacesStep ==
    ASSUME TypeOK, Typed, Calls, [Next]_vars
    PROVE  /\ rio' \in Readers \cup {NoOne} /\ wio' \in Threads \cup {NoOne}
           /\ pc' \in [Threads -> Places] /\ call' \in [Threads -> CallKinds]
<1>0. /\ rio \in Readers \cup {NoOne} /\ wio \in Threads \cup {NoOne}
      /\ pc \in [Threads -> Places] /\ call \in [Threads -> CallKinds]
  BY DEF TypeOK, Typed, Places, CallKinds
<1>1. CASE Elsewhere \/ PeerSends \/ PeerCloses
  BY <1>0, <1>1 DEF Elsewhere, PeerSends, PeerCloses, callVars
<1>2. ASSUME NEW t \in Threads, Call(t)
      PROVE  /\ rio' \in Readers \cup {NoOne} /\ wio' \in Threads \cup {NoOne}
             /\ pc' \in [Threads -> Places] /\ call' \in [Threads -> CallKinds]
  BY <1>0, <1>2 DEF Call, Goto, Places, CallKinds
<1>3. ASSUME NEW t \in Threads, RLock(t) \/ WLock(t) \/ CloseRwc(t)
      PROVE  /\ rio' \in Readers \cup {NoOne} /\ wio' \in Threads \cup {NoOne}
             /\ pc' \in [Threads -> Places] /\ call' \in [Threads -> CallKinds]
  <2>1. pc[t] = "rlock" => t \in Readers
    BY DEF Calls, Writing
  <2>2. FirstStep(t) \in Places
    BY DEF FirstStep, Places
  <2>. QED
    BY <1>0, <1>3, <2>1, <2>2 DEF RLock, WLock, CloseRwc, Goto, Places, CallKinds
<1>4. ASSUME NEW t \in Threads, ReadMove(t)
      PROVE  /\ rio' \in Readers \cup {NoOne} /\ wio' \in Threads \cup {NoOne}
             /\ pc' \in [Threads -> Places] /\ call' \in [Threads -> CallKinds]
  BY <1>0, <1>4 DEF ReadMove, Goto, ReadSteps, Places, CallKinds
<1>5. ASSUME NEW t \in Threads, NEW failed, pc[t] = "wpayload", AfterWrite(t, failed)
      PROVE  /\ rio' \in Readers \cup {NoOne} /\ wio' \in Threads \cup {NoOne}
             /\ pc' \in [Threads -> Places] /\ call' \in [Threads -> CallKinds]
  <2>1. /\ wio' = NoOne
        /\ \E l \in Places : pc' = [pc EXCEPT ![t] = l]
        /\ UNCHANGED call \/ call' = [call EXCEPT ![t] = "none"]
        /\ rio' \in {rio, NoOne}
    <3>1. t \in Readers => call[t] \in {"receive", "read", "refuse"}
      BY <1>5 DEF Calls
    <3>2. t \notin Readers => call[t] \in {"write", "close"}
      BY <1>5 DEF Calls
    <3>3. CASE call[t] = "close"
      <4>1. wio' = NoOne /\ Goto(t, "rwc") /\ UNCHANGED <<rio, call>>
        BY <1>5, <3>1, <3>3 DEF AfterWrite, Unlocked
      <4>. QED
        BY <4>1 DEF Goto, Places
    <3>4. CASE call[t] = "write"
      <4>1. /\ wio' = NoOne /\ Goto(t, "idle") /\ rio' = rio
            /\ call' = [call EXCEPT ![t] = "none"]
        BY <1>5, <3>1, <3>4 DEF AfterWrite, Unlocked
      <4>. QED
        BY <4>1 DEF Goto, Places
    <3>5. CASE Return(t, FALSE) /\ t \in Readers
      BY <1>5, <3>5 DEF AfterWrite, Return, Goto, Places, Unlocked
    <3>6. CASE Again(t) /\ t \in Readers
      BY <1>5, <3>6 DEF AfterWrite, Again, Goto, Places, Unlocked
    <3>. QED
      BY <1>5, <3>1, <3>2, <3>3, <3>4, <3>5, <3>6 DEF AfterWrite
  <2>. QED
    BY <1>0, <2>1 DEF CallKinds
<1>. QED
  BY <1>1, <1>2, <1>3, <1>4, <1>5, ReadMoves, Steps
     DEF WritePayload, FailedWrite, FailWrite

LEMMA TypesStep ==
    ASSUME Known, Outbound, [Next]_vars
    PROVE  TypeOK' /\ Typed' /\ Calls' /\ Outbound'
<1>1. Calls'
  BY CallsStep DEF Known
<1>2. WriteTypes' /\ Outbound'
  BY <1>1, OutboundStep DEF Known
<1>3. Effect /\ server' = server
  BY Effects
<1>4. ReadTypes'
  BY <1>3, ReadTypesStep DEF Known, Typed
<1>5. Typed'
  BY <1>2, <1>3, <1>4, PlacesStep DEF Known, Typed, CallKinds
<1>6. \A t \in Readers : Reading(t)' => rio' = t
  BY <1>1 DEF Calls, Reading
<1>7. \A t \in Threads : pc'[t] = "wpayload" => wio' = t
  BY <1>1 DEF Calls
<1>8. buffered' # <<>> => wio' # NoOne
  BY <1>2 DEF Outbound
<1>9. frame'.left \in Nat /\ frame'.id \in 0 .. Len(frames')
  BY <1>4 DEF ReadTypes
<1>. QED
  BY <1>1, <1>2, <1>5, <1>6, <1>7, <1>8, <1>9, PlacesStep DEF Known, TypeOK, Places
LEMMA HeldOne ==
    ASSUME NEW t \in Readers, rio' = t, Holds(t)'
    PROVE  Held'
  BY Sides DEF Held, Threads

LEMMA HeldFree ==
    ASSUME rio' = NoOne, got' = <<>>, kept' \/ frame' = NoFrame
    PROVE  Held'
  BY Sides DEF Held, Threads

LEMMA HeldSame ==
    ASSUME Held, rio' = rio, UNCHANGED <<frame, kept, got>>,
           \A t \in Readers : rio = t => pc'[t] = pc[t] /\ call'[t] = call[t]
    PROVE  Held'
<1>1. frame' = frame /\ kept' = kept /\ got' = got
  OBVIOUS
<1>2. ASSUME NEW t \in Readers, rio' = t PROVE Holds(t)'
  <2>1. Holds(t) /\ pc'[t] = pc[t] /\ call'[t] = call[t]
    BY <1>2 DEF Held
  <2>. QED
    BY <1>1, <2>1 DEF Holds
<1>. QED
  BY <1>1, <1>2 DEF Held

LEMMA HeldRead ==
    ASSUME Known, NEW t \in Threads,
           ReadHeader(t) \/ ReadControl(t) \/ Discard(t) \/ Receive(t) \/ Read(t)
           \/ FailedRead(t)
    PROVE  Held'
<1>1. pc[t] \in ReadSteps
  BY ReadMoves DEF ReadMove
<1>2. t \in Readers /\ rio = t /\ call[t] \in {"receive", "read"} /\ Holds(t)
  BY <1>1, Holder DEF Known, Held
<1>3. pc \in [Threads -> Places] /\ call \in [Threads -> CallKinds]
  BY DEF Known, TypeOK, Typed, Places, CallKinds
<1>4. ASSUME Return(t, FALSE) \/ Return(t, kept)
      PROVE  Held'
  BY <1>4, HeldFree DEF Return
<1>5. ASSUME Again(t)
      PROVE  Held'
  <2>1. /\ rio' = t /\ frame' = NoFrame /\ ~kept' /\ got' = <<>>
        /\ pc'[t] = "header"
    BY <1>2, <1>3, <1>5 DEF Again, Goto
  <2>2. Holds(t)'
    BY <2>1 DEF Holds, Writing
  <2>. QED
    BY <1>2, <2>1, <2>2, HeldOne
<1>6. ASSUME NEW n, Take(n), UNCHANGED <<rio, pc, call, kept>>,
             pc[t] = "payload" => ~kept
      PROVE  Held'
  <2>1. frame'.kind = frame.kind /\ kept' = kept /\ pc'[t] = pc[t] /\ call'[t] = call[t]
        /\ rio' = t
    BY <1>2, <1>6 DEF Take, Known, Typed, ReadTypes
  <2>2. pc[t] # "header"
    <3>1. pc[t] = "header" => frame.left = 0
      BY <1>2 DEF Holds, NoFrame
    <3>2. frame.left # 0
      BY <1>6 DEF Take, Known, TypeOK
    <3>. QED
      BY <3>1, <3>2
  <2>3. Holds(t)'
    BY <1>1, <1>2, <1>6, <2>1, <2>2 DEF Holds, Writing, ReadSteps
  <2>. QED
    BY <1>2, <2>1, <2>3, HeldOne
<1>7. ASSUME frame.kind = "ping", pc[t] = "control", Goto(t, "wlock"),
             UNCHANGED <<rio, call, frame, kept, got>>
      PROVE  Held'
  <2>1. frame' = frame /\ kept' = kept /\ got' = got /\ pc'[t] = "wlock"
        /\ call'[t] = call[t] /\ rio' = t
    BY <1>2, <1>3, <1>7 DEF Goto
  <2>2. Holds(t)'
    BY <1>2, <1>7, <2>1 DEF Holds, Writing
  <2>. QED
    BY <1>2, <2>1, <2>2, HeldOne
<1>8. CASE ReadHeader(t)
  <2>1. PICK h \in HeadersAt(Head(inbox)) : HandleFrame(t, h[1], h[2])
    BY <1>8 DEF ReadHeader
  <2>2. pc[t] = "header"
    BY <1>8 DEF ReadHeader
  <2>3. frame = NoFrame /\ ~kept /\ got = <<>>
    BY <1>2, <2>2 DEF Holds
  <2>4. CASE Misunderstood(h[2])
    <3>1. /\ pc'[t] = "wlock" /\ call'[t] = "refuse" /\ rio' = t
          /\ frame' = NoFrame /\ ~kept' /\ got' = <<>>
      BY <1>2, <1>3, <2>1, <2>3, <2>4 DEF HandleFrame, Goto
    <3>2. Holds(t)'
      BY <3>1 DEF Holds
    <3>. QED
      BY <1>2, <3>1, <3>2, HeldOne
  <2>5. CASE ~Misunderstood(h[2]) /\ h[2].kind = "close"
    BY <1>4, <2>1, <2>5 DEF HandleFrame
  <2>6. CASE ~Misunderstood(h[2]) /\ h[2].kind # "close"
    <3>1. /\ frame' = [id |-> h[1], kind |-> TypeOf(h[2].kind), left |-> h[2].len]
          /\ kept' = (call[t] = "read" /\ h[2].kind \notin ControlKinds)
          /\ pc'[t] = IF h[2].kind \in ControlKinds THEN "control" ELSE "payload"
          /\ got' = <<>> /\ rio' = t /\ call'[t] = call[t]
      BY <1>2, <1>3, <2>1, <2>6 DEF HandleFrame, Goto
    <3>2. h[2].kind \in ControlKinds => frame'.kind = h[2].kind
      BY <3>1 DEF TypeOf, ControlKinds
    <3>3. Holds(t)'
      <4>1. CASE h[2].kind \in ControlKinds
        BY <3>1, <3>2, <4>1 DEF Holds, Writing
      <4>2. CASE h[2].kind \notin ControlKinds
        BY <3>1, <4>2 DEF Holds, Writing
      <4>. QED
        BY <4>1, <4>2
    <3>. QED
      BY <1>2, <3>1, <3>3, HeldOne
  <2>. QED
    BY <2>4, <2>5, <2>6
<1>9. CASE ReadControl(t)
  <2>1. pc[t] = "control"
    BY <1>9 DEF ReadControl
  <2>. QED
    BY <1>5, <1>6, <1>7, <1>9, <2>1 DEF ReadControl
<1>10. CASE Discard(t)
  <2>1. pc[t] = "discard"
    BY <1>10 DEF Discard
  <2>. QED
    BY <1>5, <1>6, <1>10, <2>1 DEF Discard
<1>11. CASE Receive(t)
  <2>1. pc[t] = "payload" /\ call[t] = "receive"
    BY <1>11 DEF Receive
  <2>2. ~kept
    BY <1>2, <2>1 DEF Holds
  <2>. QED
    BY <1>4, <1>6, <1>11, <2>1, <2>2 DEF Receive
<1>12. CASE Read(t)
  <2>1. pc[t] = "payload" /\ call[t] = "read"
    BY <1>12 DEF Read
  <2>2. kept /\ got = <<>>
    BY <1>2, <2>1 DEF Holds
  <2>3. CASE rio' = NoOne /\ UNCHANGED <<kept, got>>
    BY <2>2, <2>3, HeldFree
  <2>. QED
    BY <1>5, <1>12, <2>3 DEF Read
<1>13. CASE FailedRead(t)
  BY <1>4, <1>5, <1>7, <1>13 DEF FailedRead, FailRead
<1>. QED
  BY <1>8, <1>9, <1>10, <1>11, <1>12, <1>13

LEMMA HeldStep ==
    ASSUME Known, Outbound, [Next]_vars
    PROVE  Held'
<1>0. pc \in [Threads -> Places] /\ call \in [Threads -> CallKinds]
  BY DEF Known, TypeOK, Typed, Places, CallKinds
<1>1. CASE Elsewhere \/ PeerSends \/ PeerCloses
  <2>1. UNCHANGED <<rio, pc, call, frame, kept, got>>
    BY <1>1 DEF Elsewhere, PeerSends, PeerCloses, callVars, readVars
  <2>. QED
    BY <2>1, HeldSame DEF Known
<1>2. ASSUME NEW t \in Threads, Call(t) \/ CloseRwc(t)
      PROVE  Held'
  <2>1. rio' = rio /\ UNCHANGED <<frame, kept, got>> /\ pc[t] \in {"idle", "rwc"}
        /\ \A u \in Threads : u # t => pc'[u] = pc[u] /\ call'[u] = call[u]
    BY <1>0, <1>2 DEF Call, CloseRwc, Goto, readVars
  <2>2. \A u \in Readers : rio = u => u # t
    BY <2>1 DEF Known, Calls
  <2>. QED
    BY <2>1, <2>2, HeldSame DEF Known, Threads
<1>3. ASSUME NEW t \in Threads, WLock(t)
      PROVE  Held'
  <2>1. /\ rio' = rio /\ call' = call /\ pc[t] = "wlock" /\ pc'[t] = "wpayload"
        /\ frame' = frame /\ kept' = kept /\ got' = got
        /\ \A u \in Threads : u # t => pc'[u] = pc[u]
    BY <1>0, <1>3 DEF WLock, Goto, readVars
  <2>2. ASSUME NEW u \in Readers, rio' = u PROVE Holds(u)'
    <3>1. Holds(u) /\ u \in Threads
      BY <2>1, <2>2 DEF Known, Held, Threads
    <3>2. CASE u = t
      BY <2>1, <3>1, <3>2 DEF Holds, Writing
    <3>3. CASE u # t
      BY <2>1, <3>1, <3>3 DEF Holds
    <3>. QED
      BY <3>2, <3>3
  <2>3. rio' = NoOne => got' = <<>> /\ (kept' \/ frame' = NoFrame)
    BY <2>1 DEF Known, Held
  <2>. QED
    BY <2>2, <2>3 DEF Held
<1>4. ASSUME NEW t \in Threads, RLock(t)
      PROVE  Held'
  <2>1. /\ rio = NoOne /\ rio' = t /\ pc[t] = "rlock" /\ pc'[t] = FirstStep(t)
        /\ call' = call /\ frame' = frame /\ kept' = kept /\ got' = got
    BY <1>0, <1>4 DEF RLock, Goto, readVars
  <2>2. t \in Readers /\ call[t] \in {"receive", "read"}
    BY <2>1 DEF Known, Calls, Writing
  <2>3. got = <<>> /\ (kept \/ frame = NoFrame)
    BY <2>1 DEF Known, Held
  <2>4. /\ ~kept => pc'[t] = "header"
        /\ kept /\ call[t] = "receive" => pc'[t] = "discard"
        /\ kept /\ call[t] = "read" => pc'[t] = "payload"
    BY <2>1 DEF FirstStep
  <2>5. Holds(t)'
    BY <2>1, <2>2, <2>3, <2>4 DEF Holds, Writing
  <2>. QED
    BY <2>1, <2>2, <2>5, HeldOne
<1>5. ASSUME NEW t \in Threads, WritePayload(t) \/ FailedWrite(t)
      PROVE  Held'
  <2>1. PICK failed \in BOOLEAN : AfterWrite(t, failed)
    BY <1>5 DEF WritePayload, FailedWrite, FailWrite
  <2>2. pc[t] = "wpayload"
    BY <1>5 DEF WritePayload, FailedWrite, FailWrite
  <2>3. CASE t \in Readers
    <3>1. Return(t, FALSE) \/ Again(t)
      <4>1. call[t] \in {"none", "receive", "read", "refuse"}
        BY <2>3 DEF Known, Calls
      <4>. QED
        BY <2>1, <4>1 DEF AfterWrite
    <3>2. CASE Return(t, FALSE)
      BY <3>2, HeldFree DEF Return
    <3>3. CASE Again(t)
      <4>1. rio = t
        BY <2>2, <2>3 DEF Known, Calls
      <4>2. /\ rio' = t /\ frame' = NoFrame /\ ~kept' /\ got' = <<>>
            /\ pc'[t] = "header"
        BY <1>0, <3>3, <4>1 DEF Again, Goto
      <4>3. Holds(t)'
        BY <4>2 DEF Holds, Writing
      <4>. QED
        BY <2>3, <4>2, <4>3, HeldOne
    <3>. QED
      BY <3>1, <3>2, <3>3
  <2>4. CASE t \notin Readers
    <3>1. call[t] \in {"write", "close"}
      BY <2>2, <2>4 DEF Known, Calls
    <3>2. /\ rio' = rio /\ UNCHANGED <<frame, kept, got>>
          /\ \A u \in Threads : u # t => pc'[u] = pc[u] /\ call'[u] = call[u]
      BY <1>0, <2>1, <2>4, <3>1 DEF AfterWrite, Goto
    <3>. QED
      BY <2>4, <3>2, HeldSame DEF Known, Threads
  <2>. QED
    BY <2>3, <2>4
<1>. QED
  BY <1>1, <1>2, <1>3, <1>4, <1>5, HeldRead, Steps
-----------------------------------------------------------------------------
(* What is on its way *)

LEMMA UnitFacts ==
    ASSUME NEW q \in Seq(Unit)
    PROVE  /\ Len(q) \in Nat /\ (q = <<>> <=> Len(q) = 0)
           /\ \A i \in 1 .. Len(q) : /\ q[i] = <<q[i][1], q[i][2]>>
                                     /\ q[i][1] \in Int /\ q[i][2] \in Int
<1>1. q \in Seq(Int \X Int)
  BY DEF Unit
<1>. QED
  BY <1>1

LEMMA LenFacts ==
    ASSUME NEW F \in Seq(Frames)
    PROVE  /\ Len(F) \in Nat
           /\ \A f \in 1 .. Len(F) : /\ F[f] \in Frames /\ F[f].len \in Nat
                                     /\ F[f].kind \in Kinds /\ F[f].masked \in BOOLEAN
<1>1. \A fr \in Frames : fr.len \in Nat /\ fr.kind \in Kinds /\ fr.masked \in BOOLEAN
  BY WebSocketAssumption
<1>. QED
  BY <1>1

\* what is left once some of it has been read
LEMMA LineTail ==
    ASSUME NEW F \in Seq(Frames), NEW q \in Seq(Unit), NEW r \in Seq(Unit), NEW e,
           NEW k \in Nat, Line(F, q, e), Len(r) = Len(q) - k,
           \A i \in 1 .. Len(r) : r[i] = q[k + i]
    PROVE  Line(F, r, e)
<1>1. Len(q) \in Nat /\ Len(r) \in Nat /\ Len(F) \in Nat
      /\ (r = <<>> <=> Len(r) = 0) /\ (q = <<>> <=> Len(q) = 0)
  BY UnitFacts, LenFacts
<1>2. ASSUME NEW i \in 1 .. Len(r)
      PROVE  k + i \in 1 .. Len(q)
  BY <1>1, <1>2
<1>3. \A i \in 1 .. Len(r) : r[i][1] \in 1 .. Len(F) /\ r[i][2] \in 0 .. F[r[i][1]].len
  BY <1>2 DEF Line
<1>4. ASSUME NEW i \in 1 .. Len(r) - 1, r[i][2] = F[r[i][1]].len
      PROVE  r[i + 1] = <<r[i][1] + 1, 0>>
  <2>1. /\ i \in 1 .. Len(r) /\ i + 1 \in 1 .. Len(r)
        /\ k + i \in 1 .. Len(q) - 1 /\ k + (i + 1) = (k + i) + 1
    BY <1>1, <1>4
  <2>2. r[i] = q[k + i] /\ r[i + 1] = q[(k + i) + 1]
    BY <2>1
  <2>. QED
    BY <1>4, <2>1, <2>2 DEF Line
<1>5. ASSUME NEW i \in 1 .. Len(r), NEW j \in 1 .. F[r[i][1]].len - r[i][2],
             i + j <= Len(r)
      PROVE  r[i + j] = <<r[i][1], r[i][2] + j>>
  <2>1. F[r[i][1]].len \in Nat /\ r[i][2] \in Int
    BY <1>3, LenFacts, UnitFacts
  <2>4. j \in Int /\ j >= 1
    BY <1>5, <2>1
  <2>2. /\ i + j \in 1 .. Len(r) /\ k + i \in 1 .. Len(q)
        /\ k + (i + j) = (k + i) + j /\ (k + i) + j <= Len(q)
    BY <1>1, <1>5, <2>4
  <2>3. r[i] = q[k + i] /\ r[i + j] = q[(k + i) + j]
    BY <2>2
  <2>. QED
    BY <1>5, <2>2, <2>3 DEF Line
<1>6. ASSUME r # <<>>
      PROVE  r[Len(r)][1] = Len(F) /\ (e \/ r[Len(r)][2] = F[Len(F)].len)
  <2>1. Len(r) \in 1 .. Len(r) /\ k + Len(r) = Len(q) /\ q # <<>>
    BY <1>1, <1>6
  <2>2. r[Len(r)] = q[Len(q)]
    BY <2>1
  <2>. QED
    BY <2>1, <2>2 DEF Line
<1>. QED
  BY <1>3, <1>4, <1>5, <1>6 DEF Line

LEMMA LineShut ==
    ASSUME NEW F, NEW q, NEW e, Line(F, q, e)
    PROVE  Line(F, q, TRUE)
  BY DEF Line

\* a frame is sent, or the first n units of it
LEMMA LineSent ==
    ASSUME NEW F \in Seq(Frames), NEW G \in Seq(Frames), NEW q \in Seq(Unit),
           NEW r \in Seq(Unit), NEW n \in Nat, Line(F, q, FALSE),
           Len(G) = Len(F) + 1, \A f \in 1 .. Len(F) : G[f] = F[f],
           n >= 1, n <= G[Len(F) + 1].len + 1,
           Len(r) = Len(q) + n, \A i \in 1 .. Len(q) : r[i] = q[i],
           \A i \in 1 .. n : r[Len(q) + i] = <<Len(F) + 1, i - 1>>
    PROVE  Line(G, r, n <= G[Len(F) + 1].len)
<1>1. PICK L : L = Len(F) + 1
  OBVIOUS
<1>2. PICK m : m = Len(q)
  OBVIOUS
<1>3. PICK z : z = G[L].len
  OBVIOUS
<1>4. /\ L \in Nat /\ L >= 1 /\ L = Len(G) /\ z \in Nat /\ m \in Nat
      /\ (q = <<>> <=> m = 0) /\ n <= z + 1 /\ Len(r) = m + n
      /\ \A f \in 1 .. L - 1 : G[f] = F[f]
      /\ \A i \in 1 .. m : r[i] = q[i]
      /\ \A i \in 1 .. n : r[m + i] = <<L, i - 1>>
  <2>1. L \in Nat /\ L >= 1 /\ L = Len(G) /\ L - 1 = Len(F) /\ L \in 1 .. Len(G)
    BY <1>1, LenFacts
  <2>2. z \in Nat
    BY <1>3, <2>1, LenFacts
  <2>3. m \in Nat /\ (q = <<>> <=> m = 0)
    BY <1>2, UnitFacts
  <2>4. n <= z + 1
    BY <1>1, <1>3
  <2>5. \A i \in 1 .. m : r[i] = q[i]
    BY <1>2
  <2>6. Len(r) = m + n /\ \A i \in 1 .. n : r[m + i] = <<L, i - 1>>
    BY <1>1, <1>2
  <2>. QED
    BY <2>1, <2>2, <2>3, <2>4, <2>5, <2>6
<1>5. ASSUME NEW i \in 1 .. m
      PROVE  /\ r[i] = q[i] /\ q[i][1] \in 1 .. L - 1 /\ G[q[i][1]] = F[q[i][1]]
             /\ q[i][2] \in 0 .. F[q[i][1]].len /\ F[q[i][1]].len \in Nat
  <2>1. q[i][1] \in 1 .. Len(F) /\ q[i][2] \in 0 .. F[q[i][1]].len
    BY <1>2 DEF Line
  <2>. QED
    BY <1>1, <1>4, <2>1, LenFacts
<1>6. m > 0 => q[m][1] = L - 1 /\ q[m][2] = F[L - 1].len
  <2>1. L - 1 = Len(F)
    BY <1>1, LenFacts
  <2>. QED
    BY <1>2, <1>4, <2>1 DEF Line
<1>7. ASSUME NEW i \in 1 .. n
      PROVE  r[m + i] = <<L, i - 1>> /\ r[m + i][1] = L /\ r[m + i][2] = i - 1
             /\ G[r[m + i][1]].len = z
  <2>1. r[m + i] = <<L, i - 1>>
    BY <1>4
  <2>2. r[m + i][1] = L /\ r[m + i][2] = i - 1
    BY <2>1
  <2>. QED
    BY <1>3, <2>1, <2>2
<1>8. ASSUME NEW i \in 1 .. m + n, i > m
      PROVE  \E k \in 1 .. n : i = m + k
  <2>1. i - m \in 1 .. n /\ i = m + (i - m)
    BY <1>4, <1>8
  <2>. QED
    BY <2>1
<1>9. ASSUME NEW i \in 1 .. m + n
      PROVE  r[i][1] \in 1 .. L /\ r[i][2] \in 0 .. G[r[i][1]].len
  <2>1. CASE i <= m
    <3>1. i \in 1 .. m
      BY <1>4, <1>9, <2>1
    <3>2. \A f \in 1 .. L - 1 : f \in 1 .. L
      BY <1>4
    <3>. QED
      BY <1>5, <3>1, <3>2
  <2>2. CASE i > m
    <3>1. PICK k \in 1 .. n : i = m + k
      BY <1>8, <2>2
    <3>2. k - 1 \in 0 .. z /\ L \in 1 .. L
      BY <1>4
    <3>. QED
      BY <1>7, <3>1, <3>2
  <2>. QED
    BY <1>4, <1>9, <2>1, <2>2
<1>10. ASSUME NEW i \in 1 .. m + n - 1, r[i][2] = G[r[i][1]].len
       PROVE  r[i + 1] = <<r[i][1] + 1, 0>>
  <2>1. CASE i < m
    <3>1. i \in 1 .. m /\ i + 1 \in 1 .. m /\ i \in 1 .. Len(q) - 1
      BY <1>2, <1>4, <1>10, <2>1
    <3>2. r[i] = q[i] /\ r[i + 1] = q[i + 1] /\ q[i][2] = F[q[i][1]].len
      BY <1>4, <1>5, <1>10, <3>1
    <3>. QED
      BY <3>1, <3>2 DEF Line
  <2>2. CASE i = m
    <3>1. 1 \in 1 .. n /\ m \in 1 .. m /\ m > 0
      BY <1>4, <1>10, <2>2
    <3>2. r[m] = q[m] /\ r[m + 1] = <<L, 1 - 1>>
      BY <1>4, <3>1
    <3>3. (L - 1) + 1 = L
      BY <1>4
    <3>. QED
      BY <1>6, <2>2, <3>1, <3>2, <3>3
  <2>3. CASE i > m
    <3>1. i \in 1 .. m + n
      BY <1>4, <1>10
    <3>2. PICK k \in 1 .. n : i = m + k
      BY <1>8, <2>3, <3>1
    <3>3. k - 1 = z
      BY <1>7, <1>10, <3>2
    <3>4. k < n
      BY <1>4, <1>10, <3>2
    <3>. QED
      BY <1>4, <3>3, <3>4
  <2>. QED
    BY <1>4, <1>10, <2>1, <2>2, <2>3
<1>11. ASSUME NEW i \in 1 .. m + n, NEW j \in 1 .. G[r[i][1]].len - r[i][2],
              i + j <= m + n
       PROVE  r[i + j] = <<r[i][1], r[i][2] + j>>
  <2>0. G[r[i][1]].len \in Nat /\ r[i][2] \in Int
    <3>1. i \in 1 .. m + n
      BY <1>4, <1>11
    <3>2. r[i][1] \in 1 .. Len(G) /\ r[i][2] \in 0 .. G[r[i][1]].len
      BY <1>4, <1>9, <3>1
    <3>3. G[r[i][1]].len \in Nat
      BY <3>2, LenFacts
    <3>. QED
      BY <3>2, <3>3
  <2>1. CASE i <= m
    <3>1. i \in 1 .. m
      BY <1>4, <1>11, <2>1
    <3>2. r[i] = q[i] /\ G[r[i][1]] = F[q[i][1]]
      BY <1>5, <3>1
    <3>3. j \in 1 .. F[q[i][1]].len - q[i][2]
      BY <1>11, <3>2
    <3>4. CASE i + j <= m
      <4>1. i + j \in 1 .. m
        BY <1>4, <1>11, <2>0, <3>4
      <4>2. r[i + j] = q[i + j]
        BY <1>4, <4>1
      <4>3. q[i + j] = <<q[i][1], q[i][2] + j>>
        BY <1>2, <3>1, <3>3, <3>4 DEF Line
      <4>. QED
        BY <3>2, <4>2, <4>3
    <3>5. CASE i + j > m
      <4>1. CASE i = m
        <5>2. m > 0
          BY <1>4, <3>1, <4>1
        <5>1. q[i][2] = F[q[i][1]].len
          BY <1>6, <4>1, <5>2
        <5>3. F[q[i][1]].len \in Nat
          BY <1>5, <3>1
        <5>4. F[q[i][1]].len - q[i][2] = 0
          BY ONLY <5>1, <5>3
        <5>. QED
          BY <3>3, <5>4
      <4>2. CASE i < m
        <5>5. PICK a : a = q[i][2]
          OBVIOUS
        <5>6. PICK b : b = F[q[i][1]].len
          OBVIOUS
        <5>12. b \in Nat /\ a \in 0 .. b /\ j \in 1 .. b - a
          BY <1>5, <3>1, <3>3, <5>5, <5>6
        <5>7. a \in Int /\ b \in Int /\ j \in Int /\ j <= b - a
          BY <5>12
        <5>13. m \in Nat
          BY <1>4
        <5>8. i \in Int /\ i >= 1 /\ m - i <= j
          BY ONLY <3>1, <3>5, <5>7, <5>13
        <5>9. m > 0 /\ m - i \in 1 .. b - a /\ i + (m - i) = m
          BY ONLY <4>2, <5>7, <5>8, <5>13
        <5>1. m > 0 /\ m - i \in 1 .. F[q[i][1]].len - q[i][2] /\ i + (m - i) = m
          BY <5>5, <5>6, <5>9
        <5>2. q[i + (m - i)] = <<q[i][1], q[i][2] + (m - i)>>
          <6>1. i \in 1 .. Len(q) /\ i + (m - i) <= Len(q)
            BY <1>2, <3>1, <5>1
          <6>. QED
            BY <5>1, <6>1 DEF Line
        <5>3. q[m] = <<q[i][1], q[i][2] + (m - i)>>
          BY <5>1, <5>2
        <5>10. q[m][1] = q[i][1] /\ q[m][2] = a + (m - i)
          BY <5>3, <5>5
        <5>4. a + (m - i) = b
          BY <1>6, <5>1, <5>6, <5>10
        <5>11. m - i < j
          BY <1>4, <3>5, <5>7, <5>8
        <5>. QED
          BY <1>4, <5>4, <5>7, <5>8, <5>11
      <4>. QED
        BY <1>4, <3>1, <4>1, <4>2
    <3>. QED
      BY <1>4, <1>11, <2>0, <3>4, <3>5
  <2>2. CASE i > m
    <3>1. PICK k \in 1 .. n : i = m + k
      BY <1>8, <2>2
    <3>2. r[i] = <<L, k - 1>> /\ r[i][1] = L /\ r[i][2] = k - 1
      BY <1>7, <3>1
    <3>3. j \in Int /\ j >= 1 /\ k \in Int /\ k >= 1
      BY <1>4, <1>11, <2>0
    <3>4. k + j \in 1 .. n /\ i + j = m + (k + j) /\ (k + j) - 1 = (k - 1) + j
      BY <1>4, <1>11, <3>1, <3>3
    <3>5. r[m + (k + j)] = <<L, (k + j) - 1>>
      BY <1>4, <3>4
    <3>. QED
      BY <3>2, <3>4, <3>5
  <2>. QED
    BY <1>4, <1>11, <2>1, <2>2
<1>12. r # <<>> => /\ r[m + n][1] = L
                   /\ n <= z \/ r[m + n][2] = z
  <2>4. n \in Nat /\ z \in Nat /\ n >= 1 /\ n <= z + 1
    BY <1>4
  <2>1. n \in 1 .. n /\ (n <= z \/ n - 1 = z)
    BY ONLY <2>4
  <2>2. r[m + n][1] = L /\ r[m + n][2] = n - 1
    BY <1>7, <2>1
  <2>3. n <= z \/ r[m + n][2] = z
    BY <2>1, <2>2, Zenon
  <2>. QED
    BY <2>2, <2>3, Zenon
<1>14. Len(r) = m + n
  BY <1>4
<1>15. m \in Int /\ n \in Int /\ Len(r) \in Int
  BY <1>4
<1>13. m + n - 1 = Len(r) - 1
  BY ONLY <1>14, <1>15
<1>. QED
  BY <1>1, <1>3, <1>4, <1>9, <1>10, <1>11, <1>12, <1>13 DEF Line
LEMMA AtFacts ==
    ASSUME NEW F \in Seq(Frames), NEW q \in Seq(Unit), NEW e, Line(F, q, e)
    PROVE  At(F, q) \in 0 .. Len(F)
<1>1. Len(F) \in Nat /\ (q # <<>> => 1 \in 1 .. Len(q))
  BY LenFacts, UnitFacts
<1>2. q # <<>> => q[1][1] \in 1 .. Len(F)
  BY <1>1 DEF Line
<1>. QED
  BY <1>1, <1>2 DEF At

\* k bytes of the frame are read, and r is left
Advances(F, q, r, e, id, left, k) ==
    /\ F \in Seq(Frames) /\ q \in Seq(Unit) /\ r \in Seq(Unit)
    /\ id \in 1 .. Len(F) /\ left \in Nat /\ k \in Nat
    /\ Line(F, q, e) /\ Here(F, q, e, id, left) /\ left <= F[id].len
    /\ k >= 1 /\ k <= left /\ k <= Len(q) /\ Len(r) = Len(q) - k
    /\ \A i \in 1 .. Len(r) : r[i] = q[k + i]

LEMMA Advance ==
    ASSUME NEW F, NEW q, NEW r, NEW e, NEW id, NEW left, NEW k,
           Advances(F, q, r, e, id, left, k)
    PROVE  /\ \A i \in 1 .. k : q[i] = <<id, F[id].len - left + i>>
           /\ Here(F, r, e, id, left - k)
           /\ At(F, q) = id /\ At(F, r) = id
<1>0. /\ F \in Seq(Frames) /\ q \in Seq(Unit) /\ r \in Seq(Unit)
      /\ id \in 1 .. Len(F) /\ left \in Nat /\ k \in Nat
      /\ Line(F, q, e) /\ Here(F, q, e, id, left) /\ left <= F[id].len
      /\ k >= 1 /\ k <= left /\ k <= Len(q) /\ Len(r) = Len(q) - k
      /\ \A i \in 1 .. Len(r) : r[i] = q[k + i]
  BY DEF Advances
<1>1. PICK z : z = F[id].len
  OBVIOUS
<1>2. PICK m : m = Len(q)
  OBVIOUS
<1>3. /\ z \in Nat /\ m \in Nat /\ m >= 1 /\ q # <<>> /\ Len(F) \in Nat
      /\ left >= 1 /\ left <= z /\ k <= m /\ id \in Nat
      /\ (r = <<>> <=> k = m)
  BY <1>0, <1>1, <1>2, LenFacts, UnitFacts
<1>4. q[1] = <<id, z - left + 1>> /\ q[1][1] = id /\ q[1][2] = z - left + 1
  <2>1. q[1] = <<id, z - left + 1>>
    BY <1>0, <1>1, <1>3 DEF Here
  <2>. QED
    BY <1>0, <2>1
<1>5. \A j \in 1 .. F[q[1][1]].len - q[1][2] :
         1 + j <= Len(q) => q[1 + j] = <<q[1][1], q[1][2] + j>>
  <2>1. 1 \in 1 .. Len(q)
    BY <1>0, <1>2, <1>3
  <2>. QED
    BY <1>0, <2>1 DEF Line
<1>6. ASSUME NEW i \in 1 .. left, i <= m
      PROVE  q[i] = <<id, z - left + i>> /\ q[i][1] = id /\ q[i][2] = z - left + i
  <2>1. CASE i = 1
    BY <1>0, <1>4, <2>1
  <2>2. CASE i # 1
    <3>1. /\ i - 1 \in 1 .. z - (z - left + 1) /\ 1 + (i - 1) = i
          /\ z - left + 1 + (i - 1) = z - left + i
      BY <1>0, <1>3, <2>2
    <3>2. i - 1 \in 1 .. F[q[1][1]].len - q[1][2]
      BY <1>0, <1>1, <1>4, <3>1
    <3>3. q[1 + (i - 1)] = <<q[1][1], q[1][2] + (i - 1)>>
      BY <1>0, <1>2, <1>5, <1>6, <3>1, <3>2
    <3>4. q[i] = <<id, z - left + i>>
      BY <1>0, <1>4, <3>1, <3>3
    <3>. QED
      BY <1>0, <3>4
  <2>. QED
    BY <1>0, <2>1, <2>2
<1>7. \A i \in 1 .. k : q[i] = <<id, z - left + i>>
  <2>1. \A i \in 1 .. k : i \in 1 .. left /\ i <= m
    BY <1>0, <1>3
  <2>. QED
    BY <1>0, <1>6, <2>1
<1>8. k \in 1 .. left /\ k \in Int
  BY <1>0, <1>3
<1>9. q[k][1] = id /\ q[k][2] = z - left + k
  BY <1>0, <1>3, <1>6, <1>8
<1>10. ASSUME k < m
       PROVE  /\ r # <<>> /\ r[1] = q[k + 1]
              /\ k = left => r[1] = <<id + 1, 0>>
              /\ k < left => r[1] = <<id, z - left + k + 1>>
  <2>1. 1 \in 1 .. Len(r) /\ r # <<>> /\ k \in 1 .. Len(q) - 1
    BY <1>0, <1>2, <1>3, <1>8, <1>10
  <2>2. r[1] = q[k + 1]
    BY <1>0, <2>1
  <2>3. ASSUME k = left PROVE r[1] = <<id + 1, 0>>
    <3>1. z - left + k = z
      BY <1>0, <1>3, <1>8, <2>3
    <3>2. q[k][2] = F[q[k][1]].len
      BY <1>0, <1>1, <1>9, <3>1
    <3>. QED
      BY <1>0, <1>9, <2>1, <2>2, <3>2 DEF Line
  <2>4. ASSUME k < left PROVE r[1] = <<id, z - left + k + 1>>
    <3>1. k + 1 \in 1 .. left /\ k + 1 <= m /\ z - left + (k + 1) = z - left + k + 1
      BY <1>0, <1>3, <1>8, <1>10, <2>4
    <3>2. q[k + 1] = <<id, z - left + (k + 1)>>
      BY <1>0, <1>6, <3>1
    <3>. QED
      BY <1>0, <2>2, <3>1, <3>2
  <2>. QED
    BY <1>0, <2>1, <2>2, <2>3, <2>4
<1>11. k = m => id = Len(F) /\ (k < left => e)
  <2>1. ASSUME k = m PROVE q[k][1] = Len(F) /\ (e \/ q[k][2] = F[Len(F)].len)
    BY <1>0, <1>2, <1>3, <2>1 DEF Line
  <2>2. ASSUME k = m, k < left PROVE e
    <3>1. z - left + k # z
      BY <1>0, <1>3, <1>8, <2>2
    <3>. QED
      BY <1>0, <1>1, <1>9, <2>1, <2>2, <3>1
  <2>. QED
    BY <1>0, <1>9, <2>1, <2>2
<1>12. Here(F, r, e, id, left - k)
  <2>1. CASE k < m
    <3>1. r # <<>>
      BY <1>0, <1>10, <2>1
    <3>2. left - k = 0 => r[1][2] = 0
      BY <1>0, <1>3, <1>8, <1>10, <2>1
    <3>3. left - k # 0 => r[1] = <<id, F[id].len - (left - k) + 1>>
      <4>1. z - left + k + 1 = z - (left - k) + 1 /\ (left - k # 0 => k < left)
        BY <1>0, <1>3, <1>8
      <4>. QED
        BY <1>0, <1>1, <1>10, <2>1, <4>1
    <3>. QED
      BY <1>0, <3>1, <3>2, <3>3 DEF Here
  <2>2. CASE k = m
    <3>1. r = <<>>
      BY <1>0, <1>3, <2>2
    <3>2. left - k > 0 => k < left
      BY <1>0, <1>3, <1>8
    <3>. QED
      BY <1>0, <1>11, <2>2, <3>1, <3>2 DEF Here
  <2>. QED
    BY <1>0, <1>3, <1>8, <2>1, <2>2
<1>13. At(F, q) = id
  <2>1. q[1][2] # 0
    BY <1>0, <1>3, <1>4
  <2>. QED
    BY <1>0, <1>3, <1>4, <2>1 DEF At
<1>14. At(F, r) = id
  <2>1. CASE k = m
    BY <1>0, <1>3, <1>11, <2>1 DEF At
  <2>2. CASE k < m /\ k = left
    <3>1. r # <<>> /\ r[1][1] = id + 1 /\ r[1][2] = 0
      BY <1>0, <1>10, <2>2
    <3>2. id + 1 - 1 = id
      BY <1>0, <1>3
    <3>. QED
      BY <1>0, <3>1, <3>2 DEF At
  <2>3. CASE k < m /\ k < left
    <3>1. r # <<>> /\ r[1][1] = id /\ r[1][2] = z - left + k + 1
      BY <1>0, <1>10, <2>3
    <3>2. z - left + k + 1 # 0
      BY <1>0, <1>3, <1>8
    <3>. QED
      BY <1>0, <3>1, <3>2 DEF At
  <2>. QED
    BY <1>0, <1>3, <1>8, <2>1, <2>2, <2>3
<1>. QED
  BY <1>0, <1>1, <1>7, <1>12, <1>13, <1>14

\* a header is read
LEMMA HeaderRead ==
    ASSUME NEW F \in Seq(Frames), NEW q \in Seq(Unit), NEW r \in Seq(Unit), NEW e,
           Line(F, q, e), q # <<>>, q[1][2] = 0, Len(r) = Len(q) - 1,
           \A i \in 1 .. Len(r) : r[i] = q[1 + i]
    PROVE  /\ q[1][1] \in 1 .. Len(F)
           /\ Here(F, r, e, q[1][1], F[q[1][1]].len)
           /\ F[q[1][1]].len = 0 => \A id : Here(F, r, e, id, 0)
           /\ At(F, q) = q[1][1] - 1 /\ At(F, r) = q[1][1]
<1>0. PICK f : f = q[1][1]
  OBVIOUS
<1>1. PICK z : z = F[f].len
  OBVIOUS
<1>2. PICK m : m = Len(q)
  OBVIOUS
<1>3. m \in Nat /\ m >= 1 /\ (r = <<>> <=> m = 1) /\ 1 \in 1 .. Len(q)
  BY <1>2, UnitFacts
<1>4. f \in 1 .. Len(F) /\ z \in Nat /\ f \in Nat /\ q[1][2] = 0
  <2>1. f \in 1 .. Len(F)
    BY <1>0, <1>3 DEF Line
  <2>. QED
    BY <1>1, <2>1, LenFacts
<1>5. ASSUME m > 1
      PROVE  /\ r # <<>>
             /\ z = 0 => r[1] = <<f + 1, 0>>
             /\ z > 0 => r[1] = <<f, 1>>
  <2>1. 1 \in 1 .. Len(r) /\ r # <<>> /\ 1 \in 1 .. Len(q) - 1 /\ 1 + 1 <= Len(q)
    BY <1>2, <1>3, <1>5
  <2>2. r[1] = q[1 + 1]
    BY <2>1
  <2>3. z = 0 => r[1] = <<f + 1, 0>>
    BY <1>0, <1>1, <2>1, <2>2 DEF Line
  <2>4. ASSUME z > 0 PROVE r[1] = <<f, 1>>
    <3>1. 1 \in 1 .. z - 0 /\ 0 + 1 = 1
      BY <1>4, <2>4
    <3>2. 1 \in 1 .. F[q[1][1]].len - q[1][2]
      BY <1>0, <1>1, <1>4, <3>1
    <3>3. q[1 + 1] = <<q[1][1], q[1][2] + 1>>
      BY <1>3, <2>1, <3>2 DEF Line
    <3>. QED
      BY <1>0, <1>4, <2>2, <3>1, <3>3
  <2>. QED
    BY <2>1, <2>3, <2>4
<1>6. m = 1 => f = Len(F) /\ (z > 0 => e)
  <2>1. m = 1 => q[1][1] = Len(F) /\ (e \/ q[1][2] = F[Len(F)].len)
    BY <1>2 DEF Line
  <2>. QED
    BY <1>0, <1>1, <1>4, <2>1
<1>7. Here(F, r, e, f, z)
  <2>1. CASE m > 1
    <3>1. z # 0 => z > 0 /\ z - z + 1 = 1
      BY <1>4
    <3>2. z = 0 => r[1][2] = 0
      BY <1>5, <2>1
    <3>. QED
      BY <1>1, <1>5, <2>1, <3>1, <3>2 DEF Here
  <2>2. CASE m = 1
    BY <1>3, <1>6, <2>2 DEF Here
  <2>. QED
    BY <1>3, <2>1, <2>2
<1>8. z = 0 => \A id : Here(F, r, e, id, 0)
  <2>1. CASE m > 1
    <3>1. z = 0 => r[1][2] = 0
      BY <1>5, <2>1
    <3>. QED
      BY <1>5, <2>1, <3>1 DEF Here
  <2>2. CASE m = 1
    BY <1>3, <2>2 DEF Here
  <2>. QED
    BY <1>3, <2>1, <2>2
<1>9. At(F, q) = f - 1
  BY <1>0, <1>4 DEF At
<1>10. At(F, r) = f
  <2>1. CASE m = 1
    BY <1>3, <1>6, <2>1 DEF At
  <2>2. CASE m > 1 /\ z = 0
    <3>1. r # <<>> /\ r[1][1] = f + 1 /\ r[1][2] = 0
      BY <1>5, <2>2
    <3>3. r[1][1] = f + 1 /\ f \in Int
      BY <1>4, <3>1
    <3>2. r[1][1] - 1 = f
      BY ONLY <3>3
    <3>. QED
      BY <3>1, <3>2 DEF At
  <2>3. CASE m > 1 /\ z > 0
    <3>1. r # <<>> /\ r[1][1] = f /\ r[1][2] = 1
      BY <1>5, <2>3
    <3>. QED
      BY <3>1 DEF At
  <2>. QED
    BY <1>3, <1>4, <2>1, <2>2, <2>3
<1>. QED
  BY <1>0, <1>1, <1>4, <1>7, <1>8, <1>9, <1>10

LEMMA HereDrop ==
    ASSUME NEW F, NEW q, NEW e, NEW id, NEW left, Here(F, q, e, id, left),
           left = 0 \/ (e /\ q = <<>>)
    PROVE  Here(F, q, e, 0, 0)
  BY DEF Here

\* more is sent
LEMMA HereSent ==
    ASSUME NEW F \in Seq(Frames), NEW G \in Seq(Frames), NEW q \in Seq(Unit),
           NEW r \in Seq(Unit), NEW n \in Nat, NEW id, NEW left \in Nat, NEW d,
           Line(F, q, FALSE), Here(F, q, FALSE, id, left),
           \A f \in 1 .. Len(F) : G[f] = F[f],
           n >= 1, Len(r) = Len(q) + n, \A i \in 1 .. Len(q) : r[i] = q[i],
           \A i \in 1 .. n : r[Len(q) + i] = <<Len(F) + 1, i - 1>>
    PROVE  Here(G, r, d, id, left) /\ At(G, r) = At(F, q)
<1>1. Len(q) \in Nat /\ (q = <<>> <=> Len(q) = 0) /\ Len(F) \in Nat /\ r # <<>>
  BY LenFacts, UnitFacts
<1>2. CASE q # <<>>
  <2>1. 1 \in 1 .. Len(q) /\ r[1] = q[1]
    BY <1>1, <1>2
  <2>2. q[1][1] \in 1 .. Len(F)
    BY <2>1 DEF Line
  <2>3. left = 0 => q[1][2] = 0
    BY <1>2 DEF Here
  <2>4. left # 0 => q[1] = <<id, G[id].len - left + 1>>
    <3>1. left # 0 => q[1] = <<id, F[id].len - left + 1>>
      BY <1>2 DEF Here
    <3>2. left # 0 => q[1][1] = id
      BY <3>1
    <3>. QED
      BY <2>2, <3>1, <3>2
  <2>. QED
    BY <1>1, <1>2, <2>1, <2>3, <2>4 DEF Here, At
<1>3. CASE q = <<>>
  <2>1. left = 0
    BY <1>3 DEF Here
  <2>2. 1 \in 1 .. n /\ 0 + 1 = 1 /\ Len(q) = 0
    BY <1>1, <1>3
  <2>3. r[Len(q) + 1] = <<Len(F) + 1, 1 - 1>>
    BY <2>2
  <2>4. r[1][1] = Len(F) + 1 /\ r[1][2] = 0 /\ Len(F) + 1 - 1 = Len(F)
    BY <1>1, <2>2, <2>3
  <2>. QED
    BY <1>1, <1>3, <2>1, <2>4 DEF Here, At
<1>. QED
  BY <1>2, <1>3
-----------------------------------------------------------------------------
(* What stays true when more is sent: F becomes G, the end e becomes d *)

Grown(F, e, G, d) ==
    /\ Len(F) <= Len(G) /\ \A f \in 1 .. Len(F) : G[f] = F[f]
    /\ e => Len(G) = Len(F) /\ d

LEMMA MeantStable ==
    ASSUME NEW F, NEW G, NEW e, NEW d, NEW s, NEW f \in Nat, NEW k,
           Len(F) \in Nat, Grown(F, e, G, d), f <= Len(F), Meant(F, s, f, k)
    PROVE  Meant(G, s, f, k)
<1>1. \A g \in 1 .. f : G[g] = F[g]
  BY DEF Grown
<1>2. \A g \in 1 .. f : Heard(G, s, g) <=> Heard(F, s, g)
  BY <1>1 DEF Heard
<1>. QED
  BY <1>1, <1>2 DEF Meant

LEMMA KindStable ==
    ASSUME NEW F, NEW G, NEW e, NEW d, NEW s, NEW k, Len(F) \in Nat,
           NEW f \in 1 .. Len(F), Grown(F, e, G, d), KindOk(F, s, f, k)
    PROVE  KindOk(G, s, f, k)
<1>1. f \in Nat /\ f <= Len(F) /\ G[f] = F[f]
  BY DEF Grown
<1>. QED
  BY <1>1, MeantStable DEF KindOk

LEMMA WholeStable ==
    ASSUME NEW F, NEW G, NEW e, NEW d, NEW q, NEW n, NEW f,
           Grown(F, e, G, d), Whole(F, e, f, q, n)
    PROVE  Whole(G, d, f, q, n)
  BY DEF Grown, Whole

LEMMA FineStable ==
    ASSUME NEW F, NEW G, NEW e, NEW d, NEW s, NEW m, Len(F) \in Nat,
           m.id \in 1 .. Len(F), Grown(F, e, G, d), Fine(F, s, e, m)
    PROVE  Fine(G, s, d, m)
<1>1. G[m.id] = F[m.id]
  BY DEF Grown
<1>2. PICK f \in 1 .. Len(F) : f = m.id
  OBVIOUS
<1>3. Whole(F, e, f, m.data, F[f].len) /\ KindOk(F, s, f, m.kind)
  BY <1>2 DEF Fine
<1>4. Whole(G, d, f, m.data, F[f].len)
  BY <1>3, WholeStable
<1>5. KindOk(G, s, f, m.kind)
  BY <1>3, KindStable
<1>. QED
  BY <1>1, <1>2, <1>4, <1>5 DEF Fine

LEMMA AnsweredStable ==
    ASSUME NEW F, NEW G, NEW e, NEW d, NEW s, NEW w,
           w.of \in 1 .. Len(F), Grown(F, e, G, d), Answered(F, s, e, w)
    PROVE  Answered(G, s, d, w)
<1>1. G[w.of] = F[w.of]
  BY DEF Grown
<1>. QED
  BY <1>1, WholeStable DEF Answered

LEMMA MeantSkip ==
    ASSUME NEW F, NEW s, NEW f \in Nat, NEW k, ~Heard(F, s, f), Meant(F, s, f - 1, k)
    PROVE  Meant(F, s, f, k)
<1>1. \A g \in 1 .. f : g = f \/ g \in 1 .. f - 1
  OBVIOUS
<1>2. \A g \in 1 .. f - 1 : g \in 1 .. f
  OBVIOUS
<1>. QED
  BY <1>1, <1>2 DEF Meant

LEMMA MeantHeard ==
    ASSUME NEW F, NEW s, NEW f \in Nat, f >= 1, Heard(F, s, f)
    PROVE  Meant(F, s, f, F[f].kind)
<1>1. f \in 1 .. f /\ \A h \in 1 .. f : h <= f
  OBVIOUS
<1>. QED
  BY <1>1 DEF Meant

LEMMA ControlKind ==
    ASSUME NEW F, NEW s, NEW f, NEW k \in ControlKinds, KindOk(F, s, f, k)
    PROVE  F[f].kind = k
  BY DEF KindOk, Meant, Heard, DataKinds, ControlKinds

LEMMA EffectGrown ==
    ASSUME ReadTypes, Effect
    PROVE  /\ Grown(frames, eof, frames', eof')
           /\ lost => lost'
<1>1. CASE Sent
  <2>1. PICK fr \in Frames : \E n \in 1 .. fr.len + 1 :
          /\ Len(frames') = Len(frames) + 1
          /\ \A f \in 1 .. Len(frames) : frames'[f] = frames[f]
          /\ eof = FALSE
    BY <1>1, SentFacts
  <2>2. Len(frames) \in Nat /\ lost' = lost
    BY <1>1, FrameFacts DEF Sent, readVars
  <2>. QED
    BY <2>1, <2>2 DEF Grown
<1>2. CASE ~Sent
  <2>1. CASE Same \/ Shut
    BY <2>1, FrameFacts DEF Same, Shut, inVars, readVars, Grown
  <2>2. CASE Took \/ ReadOn \/ Torn \/ Handed
    <3>1. frames' = frames /\ eof' = eof /\ (lost' = lost \/ lost' = TRUE)
      BY <2>2 DEF Took, ReadOn, Torn, Handed, inVars
    <3>. QED
      BY <3>1, FrameFacts DEF Grown
  <2>3. CASE Dropped \/ Paused \/ Doomed
    <3>1. frames' = frames /\ eof' = eof /\ (lost => lost')
      BY <2>3 DEF Dropped, Paused, Doomed, inVars
    <3>. QED
      BY <3>1, FrameFacts DEF Grown
  <2>4. ASSUME NEW h \in HeadersAt(Head(inbox)), Passed(h[2]) \/ Began(h[1], h[2])
        PROVE  Grown(frames, eof, frames', eof') /\ (lost => lost')
    <3>1. frames' = frames /\ eof' = eof
      BY <2>4 DEF Passed, Began
    <3>2. ASSUME Passed(h[2]) PROVE lost => lost'
      BY <3>2, Zenon DEF Passed
    <3>3. ASSUME Began(h[1], h[2]) PROVE lost => lost'
      BY <3>3 DEF Began
    <3>4. lost => lost'
      BY <2>4, <3>2, <3>3
    <3>. QED
      BY <3>1, <3>4, FrameFacts DEF Grown
  <2>. QED
    BY <1>2, <2>1, <2>2, <2>3, <2>4 DEF Effect
<1>. QED
  BY <1>1, <1>2
-----------------------------------------------------------------------------
(* Stream, and the frame whose header was read last *)

NextHeader(f) ==
    /\ inbox # <<>> /\ inbox[1][2] = 0 /\ f = inbox[1][1] /\ f \in 1 .. Len(frames)
    /\ inbox' = Tail(inbox) /\ UNCHANGED <<frames, eof>>

LEMMA AtNext ==
    ASSUME ReadTypes, Stream, AtHeader, NEW h \in HeadersAt(Head(inbox)),
           Passed(h[2]) \/ Began(h[1], h[2])
    PROVE  NextHeader(h[1]) /\ h[2] = frames[h[1]]
<1>1. inbox # <<>> /\ frame.left = 0 /\ inbox' = Tail(inbox) /\ UNCHANGED <<frames, eof>>
  <2>1. inbox # <<>> /\ frame = NoFrame
    BY DEF AtHeader
  <2>. QED
    BY <2>1, FrameFacts DEF Passed, Began
<1>2. inbox[1][2] = 0 /\ Head(inbox) = inbox[1] /\ inbox[1][1] \in 1 .. Len(frames)
  BY <1>1, InboxFacts DEF Stream, Here
<1>3. h = <<inbox[1][1], frames[inbox[1][1]]>>
  BY <1>2 DEF HeadersAt
<1>4. h[1] = inbox[1][1] /\ h[2] = frames[inbox[1][1]]
  BY <1>3
<1>. QED
  BY <1>1, <1>2, <1>4 DEF NextHeader

LEMMA NextFacts ==
    ASSUME ReadTypes, Stream, NEW f, NextHeader(f)
    PROVE  /\ Line(frames', inbox', eof')
           /\ Here(frames', inbox', eof', f, frames[f].len)
           /\ frames[f].len = 0 => Here(frames', inbox', eof', 0, 0)
           /\ Pos = f - 1 /\ Pos' = f
<1>1. PICK F : F = frames
  OBVIOUS
<1>2. PICK q : q = inbox
  OBVIOUS
<1>3. PICK r : r = Tail(inbox)
  OBVIOUS
<1>4. PICK e : e = eof
  OBVIOUS
<1>5. /\ F \in Seq(Frames) /\ q \in Seq(Unit) /\ q # <<>> /\ q[1][2] = 0 /\ f = q[1][1]
      /\ Line(F, q, e)
  BY <1>1, <1>2, <1>4 DEF ReadTypes, Stream, NextHeader
<1>6. /\ r \in Seq(Unit) /\ Len(r) = Len(q) - 1
      /\ \A i \in 1 .. Len(q) - 1 : r[i] = q[i + 1]
  BY <1>2, <1>3, <1>5, TailFacts
<1>7. \A i \in 1 .. Len(r) : r[i] = q[1 + i]
  <2>1. Len(q) \in Nat /\ Len(q) - 1 = Len(r)
    BY <1>5, <1>6
  <2>2. \A i \in 1 .. Len(r) : i \in 1 .. Len(q) - 1 /\ i + 1 = 1 + i
    BY <2>1
  <2>. QED
    BY <1>6, <2>2
<1>8. Line(F, r, e)
  BY <1>5, <1>6, <1>7, LineTail
<1>9. /\ Here(F, r, e, f, F[f].len) /\ (F[f].len = 0 => Here(F, r, e, 0, 0))
      /\ At(F, q) = f - 1 /\ At(F, r) = f
  BY <1>5, <1>6, <1>7, HeaderRead
<1>10. frames' = F /\ inbox' = r /\ eof' = e
  BY <1>1, <1>3, <1>4 DEF NextHeader
<1>. QED
  BY <1>1, <1>2, <1>8, <1>9, <1>10 DEF Pos

LEMMA SentStream ==
    ASSUME ReadTypes, Stream, Sent
    PROVE  Stream' /\ Pos' = Pos
<1>1. PICK fr \in Frames : \E n \in 1 .. fr.len + 1 :
             /\ fr.len \in Nat /\ n \in Nat
             /\ frames' \in Seq(Frames) /\ Len(frames') = Len(frames) + 1
             /\ \A f \in 1 .. Len(frames) : frames'[f] = frames[f]
             /\ frames'[Len(frames) + 1] = fr
             /\ inbox' \in Seq(Unit) /\ Len(inbox') = Len(inbox) + n
             /\ \A i \in 1 .. Len(inbox) : inbox'[i] = inbox[i]
             /\ \A i \in 1 .. n : inbox'[Len(inbox) + i] = <<Len(frames) + 1, i - 1>>
             /\ eof = FALSE /\ eof' = (n <= fr.len)
  BY SentFacts
<1>2. PICK n \in 1 .. fr.len + 1 :
             /\ fr.len \in Nat /\ n \in Nat
             /\ frames' \in Seq(Frames) /\ Len(frames') = Len(frames) + 1
             /\ \A f \in 1 .. Len(frames) : frames'[f] = frames[f]
             /\ frames'[Len(frames) + 1] = fr
             /\ inbox' \in Seq(Unit) /\ Len(inbox') = Len(inbox) + n
             /\ \A i \in 1 .. Len(inbox) : inbox'[i] = inbox[i]
             /\ \A i \in 1 .. n : inbox'[Len(inbox) + i] = <<Len(frames) + 1, i - 1>>
             /\ eof = FALSE /\ eof' = (n <= fr.len)
  BY <1>1
<1>3. PICK F : F = frames
  OBVIOUS
<1>4. PICK q : q = inbox
  OBVIOUS
<1>5. PICK G : G = frames'
  OBVIOUS
<1>6. PICK r : r = inbox'
  OBVIOUS
<1>7. /\ F \in Seq(Frames) /\ q \in Seq(Unit) /\ G \in Seq(Frames) /\ r \in Seq(Unit)
      /\ Line(F, q, FALSE) /\ Here(F, q, FALSE, frame.id, frame.left)
      /\ frame.left \in Nat
  BY <1>2, <1>3, <1>4, <1>5, <1>6, FrameFacts DEF ReadTypes, Stream
<1>8. /\ n \in Nat /\ n >= 1 /\ n <= G[Len(F) + 1].len + 1
      /\ Len(G) = Len(F) + 1 /\ \A f \in 1 .. Len(F) : G[f] = F[f]
      /\ Len(r) = Len(q) + n /\ \A i \in 1 .. Len(q) : r[i] = q[i]
      /\ \A i \in 1 .. n : r[Len(q) + i] = <<Len(F) + 1, i - 1>>
  <2>1. n >= 1 /\ n <= fr.len + 1
    BY <1>2
  <2>. QED
    BY <1>2, <1>3, <1>4, <1>5, <1>6, <2>1
<1>9. Line(G, r, n <= G[Len(F) + 1].len)
  BY <1>7, <1>8, LineSent
<1>10. eof' = (n <= G[Len(F) + 1].len)
  BY <1>2, <1>3, <1>5
<1>11. Line(G, r, eof')
  BY <1>9, <1>10
<1>12. Here(G, r, eof', frame.id, frame.left) /\ At(G, r) = At(F, q)
  <2>1. n \in Nat /\ n >= 1 /\ Len(r) = Len(q) + n
    BY <1>8
  <2>2. \A f \in 1 .. Len(F) : G[f] = F[f]
    BY <1>8
  <2>3. \A i \in 1 .. Len(q) : r[i] = q[i]
    BY <1>8
  <2>4. \A i \in 1 .. n : r[Len(q) + i] = <<Len(F) + 1, i - 1>>
    BY <1>8
  <2>. QED
    BY ONLY <1>7, <2>1, <2>2, <2>3, <2>4, HereSent
<1>13. frame' = frame
  BY DEF Sent, readVars
<1>. QED
  BY <1>3, <1>4, <1>5, <1>6, <1>11, <1>12, <1>13 DEF Stream, Pos

\* k bytes of the frame are read: by Took or by ReadOn
Moved(k) ==
    /\ k \in Nat /\ k >= 1 /\ k <= frame.left /\ k <= Len(inbox)
    /\ frame' = [frame EXCEPT !.left = @ - k]
    /\ inbox' \in Seq(Unit) /\ Len(inbox') = Len(inbox) - k
    /\ \A i \in 1 .. Len(inbox') : inbox'[i] = inbox[k + i]
    /\ UNCHANGED <<frames, eof>>

LEMMA MovedStream ==
    ASSUME ReadTypes, Stream, Current, frame # NoFrame, NEW k, Moved(k)
    PROVE  /\ Stream' /\ Pos = frame.id /\ Pos' = frame.id
           /\ \A i \in 1 .. k :
                 inbox[i] = <<frame.id, frames[frame.id].len - frame.left + i>>
<1>1. PICK F : F = frames
  OBVIOUS
<1>2. PICK q : q = inbox
  OBVIOUS
<1>3. PICK r : r = inbox'
  OBVIOUS
<1>4. PICK e : e = eof
  OBVIOUS
<1>5. PICK id : id = frame.id
  OBVIOUS
<1>6. PICK left : left = frame.left
  OBVIOUS
<1>7. /\ F \in Seq(Frames) /\ q \in Seq(Unit) /\ r \in Seq(Unit) /\ k \in Nat
      /\ id \in 1 .. Len(F) /\ left \in Nat /\ Line(F, q, e) /\ Here(F, q, e, id, left)
      /\ left <= F[id].len /\ k >= 1 /\ k <= left /\ k <= Len(q) /\ Len(r) = Len(q) - k
      /\ \A i \in 1 .. Len(r) : r[i] = q[k + i]
  BY <1>1, <1>2, <1>3, <1>4, <1>5, <1>6, FrameFacts DEF ReadTypes, Stream, Current, Moved
<1>8. /\ \A i \in 1 .. k : q[i] = <<id, F[id].len - left + i>>
      /\ Here(F, r, e, id, left - k) /\ At(F, q) = id /\ At(F, r) = id
  <2>1. Advances(F, q, r, e, id, left, k)
    BY <1>7 DEF Advances
  <2>. QED
    BY <2>1, Advance
<1>9. Line(F, r, e)
  BY <1>7, LineTail
<1>10. frames' = F /\ eof' = e /\ frame'.id = id /\ frame'.left = left - k
  BY <1>1, <1>4, <1>5, <1>6 DEF Moved, ReadTypes
<1>. QED
  BY <1>1, <1>2, <1>3, <1>5, <1>6, <1>8, <1>9, <1>10 DEF Stream, Pos

LEMMA TookMoved ==
    ASSUME ReadTypes, Took
    PROVE  \E k : Moved(k)
<1>1. PICK k \in Nat :
        /\ k >= 1 /\ k <= frame.left /\ k <= Len(inbox)
        /\ frame' = [frame EXCEPT !.left = @ - k]
        /\ inbox' \in Seq(Unit) /\ Len(inbox') = Len(inbox) - k
        /\ \A i \in 1 .. Len(inbox) - k : inbox'[i] = inbox[k + i]
  BY TookFacts
<1>. QED
  BY <1>1 DEF Moved, Took

LEMMA ReadOnMoved ==
    ASSUME ReadTypes, ReadOn
    PROVE  Moved(1) /\ Head(inbox) = inbox[1]
<1>1. /\ Tail(inbox) \in Seq(Unit) /\ Len(Tail(inbox)) = Len(inbox) - 1
      /\ Len(inbox) \in Nat \ {0} /\ Head(inbox) = inbox[1]
      /\ \A i \in 1 .. Len(inbox) - 1 : Tail(inbox)[i] = inbox[i + 1]
  BY TailFacts DEF ReadTypes, ReadOn
<1>2. \A i \in 1 .. Len(inbox) - 1 : Tail(inbox)[i] = inbox[1 + i]
  <2>1. \A i \in 1 .. Len(inbox) - 1 : i + 1 = 1 + i
    OBVIOUS
  <2>. QED
    BY <1>1, <2>1
<1>3. frame.left \in Nat
  BY FrameFacts
<1>. QED
  BY <1>1, <1>2, <1>3 DEF Moved, ReadOn
Quiet == Same \/ Sent \/ Shut \/ Took \/ ReadOn \/ Dropped \/ Paused \/ Handed
Turn(f) == NextHeader(f) /\ (Passed(frames[f]) \/ Began(f, frames[f]))

LEMMA EffectCases ==
    ASSUME ReadTypes, Stream, Effect, ~lost'
    PROVE  Quiet \/ \E f \in 1 .. Len(frames) : Turn(f)
<1>1. CASE Torn \/ Doomed
  BY <1>1 DEF Torn, Doomed
<1>2. ASSUME NEW h \in HeadersAt(Head(inbox)), Passed(h[2]) \/ Began(h[1], h[2])
      PROVE  \E f \in 1 .. Len(frames) : Turn(f)
  <2>1. AtHeader
    BY <1>2 DEF Passed, Began
  <2>2. NextHeader(h[1]) /\ h[2] = frames[h[1]]
    BY <1>2, <2>1, AtNext
  <2>3. PICK f : f = h[1]
    OBVIOUS
  <2>4. NextHeader(f) /\ h[2] = frames[f]
    BY <2>2, <2>3
  <2>5. Turn(f)
    BY <1>2, <2>3, <2>4 DEF Turn
  <2>. QED
    BY <2>4, <2>5 DEF NextHeader
<1>. QED
  BY <1>1, <1>2 DEF Effect, Quiet

LEMMA QuietStream ==
    ASSUME ReadTypes, Stream, Current, Quiet, ~lost'
    PROVE  Stream' /\ Pos' = Pos
<1>1. CASE Same
  <2>1. inbox' = inbox /\ frames' = frames /\ eof' = eof /\ frame' = frame
    BY <1>1 DEF Same, inVars, readVars
  <2>. QED
    BY <2>1 DEF Stream, Pos
<1>2. CASE Shut
  <2>1. inbox' = inbox /\ frames' = frames /\ eof' = TRUE /\ frame' = frame
    BY <1>2 DEF Shut, readVars
  <2>2. Line(frames, inbox, TRUE)
    BY LineShut DEF Stream
  <2>3. Here(frames, inbox, TRUE, frame.id, frame.left)
    BY DEF Stream, Here
  <2>. QED
    BY <2>1, <2>2, <2>3 DEF Stream, Pos
<1>3. CASE Took
  <2>1. frame # NoFrame
    BY <1>3, FrameFacts DEF Took
  <2>. QED
    BY <1>3, <2>1, TookMoved, MovedStream
<1>4. CASE ReadOn
  <2>1. frame # NoFrame
    BY <1>4, FrameFacts DEF ReadOn
  <2>. QED
    BY <1>4, <2>1, ReadOnMoved, MovedStream
<1>5. CASE Dropped \/ Handed
  <2>1. /\ inbox' = inbox /\ frames' = frames /\ eof' = eof /\ frame' = NoFrame
        /\ frame = NoFrame \/ FrameEnds
    BY <1>5 DEF Dropped, Handed, inVars
  <2>2. frame.left = 0 \/ (eof /\ inbox = <<>>)
    BY <2>1, FrameFacts DEF FrameEnds
  <2>3. Here(frames, inbox, eof, 0, 0)
    BY <2>2, HereDrop DEF Stream
  <2>. QED
    BY <2>1, <2>3, FrameFacts DEF Stream, Pos
<1>6. CASE Paused
  <2>1. inbox' = inbox /\ frames' = frames /\ eof' = eof /\ frame' = frame
    BY <1>6 DEF Paused, inVars
  <2>. QED
    BY <2>1 DEF Stream, Pos
<1>. QED
  BY <1>1, <1>2, <1>3, <1>4, <1>5, <1>6, SentStream DEF Quiet

LEMMA TurnStream ==
    ASSUME ReadTypes, Stream, NEW f \in 1 .. Len(frames), Turn(f), ~lost'
    PROVE  Stream' /\ Pos = f - 1 /\ Pos' = f
<1>1. /\ Line(frames', inbox', eof')
      /\ Here(frames', inbox', eof', f, frames[f].len)
      /\ frames[f].len = 0 => Here(frames', inbox', eof', 0, 0)
      /\ Pos = f - 1 /\ Pos' = f
  BY NextFacts DEF Turn
<1>2. CASE Passed(frames[f])
  <2>1. frames[f].len \in Nat /\ frame' = NoFrame /\ NoFrame.id = 0 /\ NoFrame.left = 0
    BY <1>2, FrameFacts DEF Passed
  <2>2. ~(frames[f].len > 0)
    BY <1>2 DEF Passed
  <2>3. frames[f].len = 0
    BY <2>1, <2>2
  <2>. QED
    BY <1>1, <2>1, <2>3 DEF Stream
<1>3. CASE Began(f, frames[f])
  <2>1. frame'.id = f /\ frame'.left = frames[f].len
    BY <1>3 DEF Began
  <2>. QED
    BY <1>1, <2>1 DEF Stream
<1>. QED
  BY <1>2, <1>3 DEF Turn

-----------------------------------------------------------------------------
(* Current *)

LEMMA QuietCurrent ==
    ASSUME ReadTypes, Stream, Current, Quiet, ~lost', server' = server
    PROVE  Current'
<1>1. Stream' /\ Pos' = Pos
  BY QuietStream
<1>2. CASE Dropped \/ Handed
  BY <1>2 DEF Dropped, Handed, Current
<1>3. CASE frame = NoFrame /\ ~kept /\ (Same \/ Sent \/ Shut)
  BY <1>3 DEF Same, Sent, Shut, readVars, Current
<1>4. ASSUME frame # NoFrame, ~Dropped, ~Handed
      PROVE  Current'
  <2>1. PICK id : id = frame.id
    OBVIOUS
  <2>2. PICK z : z = frames[id].len
    OBVIOUS
  <2>3. PICK b : b = z - frame.left - Len(got)
    OBVIOUS
  <2>4. /\ id = Pos /\ id \in 1 .. Len(frames) /\ frame.left <= z
        /\ frames[id].masked = server /\ KindOk(frames, server, id, frame.kind)
        /\ b >= 0 /\ \A i \in 1 .. Len(got) : got[i] = <<id, b + i>>
        /\ ~kept => b = 0
        /\ kept => taken # <<>> /\ taken[Len(taken)] = <<id, b>>
    BY <1>4, <2>1, <2>2, <2>3 DEF Current, Before
  <2>5. /\ z \in Nat /\ frame.left \in Nat /\ Len(got) \in Nat /\ b \in Int
        /\ Len(frames) \in Nat
    BY <2>2, <2>3, <2>4, FrameFacts DEF ReadTypes
  <2>6. /\ Len(frames) <= Len(frames') /\ frames'[id] = frames[id]
        /\ KindOk(frames', server, id, frame.kind) /\ id \in 1 .. Len(frames')
    <3>1. Grown(frames, eof, frames', eof')
      BY EffectGrown DEF Effect, Quiet
    <3>2. Len(frames') \in Nat
      BY <2>5, ReadTypesStep, FrameFacts DEF Effect, Quiet, ReadTypes
    <3>. QED
      BY <2>4, <2>5, <3>1, <3>2, KindStable DEF Grown
  <2>7. ASSUME frame' # NoFrame, frame'.id = id, frame'.kind = frame.kind,
               frame'.left <= z, z - frame'.left - Len(got') >= 0,
               \A i \in 1 .. Len(got') : got'[i] = <<id, z - frame'.left - Len(got') + i>>,
               ~kept' => z - frame'.left - Len(got') = 0,
               kept' => /\ taken' # <<>>
                        /\ taken'[Len(taken')] = <<id, z - frame'.left - Len(got')>>
        PROVE  Current'
    BY <1>1, <2>1, <2>2, <2>4, <2>6, <2>7 DEF Current, Before
  <2>8. CASE Same \/ Sent \/ Shut
    <3>1. frame' = frame /\ kept' = kept /\ got' = got /\ taken' = taken
      BY <2>8 DEF Same, Sent, Shut, readVars
    <3>. QED
      BY <1>4, <2>1, <2>3, <2>4, <2>7, <3>1
  <2>9. CASE Took
    <3>1. PICK k \in Nat :
             /\ k >= 1 /\ k <= frame.left /\ k <= Len(inbox)
             /\ frame' = [frame EXCEPT !.left = @ - k]
             /\ inbox' \in Seq(Unit) /\ Len(inbox') = Len(inbox) - k
             /\ \A i \in 1 .. Len(inbox) - k : inbox'[i] = inbox[k + i]
             /\ got' \in Seq(Unit) /\ Len(got') = Len(got) + k
             /\ \A i \in 1 .. Len(got) : got'[i] = got[i]
             /\ \A i \in 1 .. k : got'[Len(got) + i] = inbox[i]
      BY <2>9, TookFacts
    <3>2. frames' = frames /\ eof' = eof /\ kept' = kept /\ taken' = taken
      BY <2>9 DEF Took
    <3>3. Moved(k)
      BY <3>1, <3>2 DEF Moved
    <3>4. \A i \in 1 .. k : inbox[i] = <<id, z - frame.left + i>>
      BY <1>4, <2>1, <2>2, <3>3, MovedStream
    <3>5. frame'.id = id /\ frame'.kind = frame.kind /\ frame'.left = frame.left - k
      BY <2>1, <3>1 DEF ReadTypes
    <3>6. frame' # NoFrame
      BY <2>4, <3>5, FrameFacts
    <3>9. PICK v : v = frame.left
      OBVIOUS
    <3>10. PICK u : u = Len(got)
      OBVIOUS
    <3>11. frame'.left = v - k /\ Len(got') = u + k
      BY <3>1, <3>5, <3>9, <3>10
    <3>7. z - frame'.left - Len(got') = b /\ frame'.left <= z
      <4>1. v \in Nat /\ u \in Nat /\ v <= z /\ z - v - u = b /\ z \in Int
        BY <2>3, <2>4, <2>5, <3>9, <3>10
      <4>2. z - (v - k) - (u + k) = b /\ v - k <= z
        BY ONLY <4>1, k \in Nat
      <4>. QED
        BY <3>11, <4>2
    <3>8. ASSUME NEW i \in 1 .. Len(got') PROVE got'[i] = <<id, b + i>>
      <4>1. CASE i <= Len(got)
        <5>1. i \in 1 .. Len(got)
          BY <2>5, <3>8, <4>1
        <5>. QED
          BY <2>4, <3>1, <5>1
      <4>2. CASE i > Len(got)
        <5>1. i - Len(got) \in 1 .. k /\ i = Len(got) + (i - Len(got))
          BY <2>5, <3>1, <3>8, <4>2
        <5>2. PICK j \in 1 .. k : i = Len(got) + j
          BY <5>1
        <5>3. got'[i] = <<id, z - frame.left + j>>
          BY <3>1, <3>4, <5>2
        <5>5. z - v = b + u /\ i = u + j
          BY <2>3, <2>5, <3>9, <3>10, <5>2
        <5>4. z - frame.left + j = b + i
          BY <2>5, <3>9, <3>10, <5>5
        <5>. QED
          BY <5>3, <5>4
      <4>. QED
        BY <2>5, <3>8, <4>1, <4>2
    <3>. QED
      BY <2>4, <2>7, <3>2, <3>5, <3>6, <3>7, <3>8
  <2>10. CASE ReadOn
    <3>1. Moved(1) /\ Head(inbox) = inbox[1]
      BY <2>10, ReadOnMoved
    <3>2. \A i \in 1 .. 1 : inbox[i] = <<id, z - frame.left + i>>
      BY <1>4, <2>1, <2>2, <3>1, MovedStream
    <3>3. /\ kept /\ kept' /\ got = <<>> /\ got' = <<>> /\ taken' = Append(taken, inbox[1])
          /\ frame' = [frame EXCEPT !.left = @ - 1]
      BY <2>10, <3>1 DEF ReadOn
    <3>4. inbox[1] = <<id, z - frame.left + 1>> /\ inbox[1] \in Unit
      BY <2>10, <3>2, InboxFacts DEF ReadOn
    <3>5. taken' # <<>> /\ taken'[Len(taken')] = inbox[1]
      <4>1. /\ Len(Append(taken, inbox[1])) = Len(taken) + 1 /\ Len(taken) \in Nat
            /\ Append(taken, inbox[1])[Len(taken) + 1] = inbox[1]
        BY <3>4, AppendFacts DEF ReadTypes
      <4>. QED
        BY <3>3, <4>1
    <3>6. frame'.id = id /\ frame'.kind = frame.kind /\ frame'.left = frame.left - 1
      BY <2>1, <3>3 DEF ReadTypes
    <3>7. frame' # NoFrame
      BY <2>4, <3>6, FrameFacts
    <3>8. Len(got') = 0 /\ Len(got) = 0
      BY <3>3
    <3>9. z - frame'.left - Len(got') = z - frame.left + 1 /\ frame'.left <= z
          /\ z - frame.left + 1 >= 0
      BY <2>4, <2>5, <3>6, <3>8
    <3>. QED
      BY <2>7, <3>3, <3>4, <3>5, <3>6, <3>7, <3>8, <3>9
  <2>11. CASE Paused
    <3>1. /\ frame' = frame /\ kept /\ kept' /\ got' = <<>> /\ taken' = taken \o got
      BY <2>11 DEF Paused
    <3>2. Len(got') = 0 /\ z - frame'.left - Len(got') = b + Len(got)
      BY <2>3, <2>5, <3>1
    <3>3. taken' # <<>> /\ taken'[Len(taken')] = <<id, b + Len(got)>>
      <4>1. /\ taken \o got \in Seq(Unit) /\ Len(taken \o got) = Len(taken) + Len(got)
            /\ Len(taken) \in Nat
            /\ \A i \in 1 .. Len(taken) : (taken \o got)[i] = taken[i]
            /\ \A i \in 1 .. Len(got) : (taken \o got)[Len(taken) + i] = got[i]
        <5>1. taken \in Seq(Unit) /\ got \in Seq(Unit)
          BY DEF ReadTypes
        <5>. QED
          BY <5>1, ConcatFacts
      <4>2. Len(taken) > 0 /\ taken[Len(taken)] = <<id, b>>
        BY <2>4, <3>1 DEF ReadTypes
      <4>3. taken' # <<>>
        BY <2>5, <3>1, <4>1, <4>2
      <4>4. CASE Len(got) = 0
        <5>1. Len(taken) + Len(got) = Len(taken) /\ Len(taken) \in 1 .. Len(taken)
              /\ b + Len(got) = b
          BY <2>5, <4>1, <4>2, <4>4
        <5>. QED
          BY <3>1, <4>1, <4>2, <4>3, <5>1
      <4>5. CASE Len(got) > 0
        <5>1. Len(got) \in 1 .. Len(got)
          BY <2>5, <4>5
        <5>2. (taken \o got)[Len(taken) + Len(got)] = <<id, b + Len(got)>>
          BY <2>4, <4>1, <5>1
        <5>. QED
          BY <3>1, <4>1, <4>3, <5>2
      <4>. QED
        BY <2>5, <4>4, <4>5
    <3>4. b + Len(got) >= 0
      BY <2>4, <2>5
    <3>5. \A i \in 1 .. Len(got') : FALSE
      BY <3>2
    <3>6. /\ z - frame'.left - Len(got') >= 0
          /\ taken' # <<>> /\ taken'[Len(taken')] = <<id, z - frame'.left - Len(got')>>
      BY <3>2, <3>3, <3>4, Zenon
    <3>7. frame' # NoFrame /\ frame'.id = id /\ frame'.kind = frame.kind /\ frame'.left <= z
      BY <1>4, <2>1, <2>4, <3>1
    <3>. QED
      BY <2>7, <3>1, <3>5, <3>6, <3>7
  <2>. QED
    BY <1>4, <2>8, <2>9, <2>10, <2>11 DEF Quiet
<1>5. CASE frame = NoFrame /\ (Took \/ ReadOn \/ Paused)
  BY <1>5, FrameFacts DEF Took, ReadOn, Paused, Current
<1>6. frame = NoFrame => ~kept
  BY DEF Current
<1>. QED
  BY <1>2, <1>3, <1>4, <1>5, <1>6 DEF Quiet
LEMMA TurnCurrent ==
    ASSUME ReadTypes, Stream, NEW f \in 1 .. Len(frames), Turn(f), ~lost',
           server' = server, server \in BOOLEAN, Meant(frames, server, Pos, payloadType)
    PROVE  Current'
<1>1. Pos = f - 1 /\ Pos' = f
  BY TurnStream
<1>2. CASE Passed(frames[f])
  BY <1>2 DEF Passed, Current
<1>3. CASE Began(f, frames[f])
  <2>1. /\ frames' = frames /\ ~Misunderstood(frames[f])
        /\ frame' = [id |-> f, kind |-> TypeOf(frames[f].kind), left |-> frames[f].len]
        /\ kept' \in BOOLEAN /\ got' = <<>>
        /\ taken' = IF kept' THEN Append(taken, <<f, 0>>) ELSE taken
    BY <1>3 DEF Began
  <2>2. PICK z : z = frames[f].len
    OBVIOUS
  <2>3. z \in Nat /\ f \in Nat /\ f >= 1 /\ f \in Int
    BY <2>2, FrameFacts
  <2>4. frames[f].masked = server
    BY <2>1 DEF Misunderstood
  <2>5. KindOk(frames, server, f, TypeOf(frames[f].kind))
    <3>1. CASE frames[f].kind = "continuation"
      <4>1. ~Heard(frames, server, f)
        BY <3>1 DEF Heard, DataKinds
      <4>2. Meant(frames, server, f - 1, payloadType)
        BY <1>1
      <4>3. Meant(frames, server, f, payloadType)
        BY <2>3, <4>1, <4>2, MeantSkip
      <4>. QED
        BY <3>1, <4>3 DEF KindOk, TypeOf
    <3>2. CASE frames[f].kind # "continuation"
      BY <3>2 DEF KindOk, TypeOf
    <3>. QED
      BY <3>1, <3>2
  <2>6. frame' # NoFrame /\ frame'.id = f /\ frame'.left = z
        /\ frame'.kind = TypeOf(frames[f].kind)
    BY <2>1, <2>2, <2>3, FrameFacts
  <2>7. Len(got') = 0 /\ z - z - 0 = 0 /\ z <= z /\ 0 >= 0
    BY <2>1, <2>3
  <2>8. \A i \in 1 .. Len(got') : FALSE
    BY <2>7
  <2>9. Before' = 0
    BY <2>1, <2>2, <2>6, <2>7 DEF Before
  <2>10. kept' => taken' # <<>> /\ taken'[Len(taken')] = <<f, 0>>
    <3>1. <<f, 0>> \in Unit
      BY <2>3 DEF Unit
    <3>2. /\ Len(Append(taken, <<f, 0>>)) = Len(taken) + 1 /\ Len(taken) \in Nat
          /\ Append(taken, <<f, 0>>)[Len(taken) + 1] = <<f, 0>>
      BY <3>1, AppendFacts DEF ReadTypes
    <3>. QED
      BY <2>1, <3>2
  <2>. QED
    BY <1>1, <2>1, <2>2, <2>4, <2>5, <2>6, <2>7, <2>8, <2>9, <2>10 DEF Current
<1>. QED
  BY <1>2, <1>3 DEF Turn
-----------------------------------------------------------------------------
(* Messages *)

Grows(T, U) == Len(T) <= Len(U) /\ \A j \in 1 .. Len(T) : U[j] = T[j]

LEMMA BegunStable ==
    ASSUME NEW T \in Seq(Unit), NEW U \in Seq(Unit), NEW f, Grows(T, U), Begun(T, f)
    PROVE  Begun(U, f)
<1>1. PICK j \in 1 .. Len(T) : T[j][1] = f
  BY DEF Begun
<1>2. j \in 1 .. Len(U) /\ U[j] = T[j]
  BY DEF Grows
<1>. QED
  BY <1>1, <1>2 DEF Begun

LEMMA JoinedNext ==
    ASSUME NEW T \in Seq(Unit), NEW u \in Unit, Joined(T),
           u[2] > 0 => T # <<>> /\ T[Len(T)] = <<u[1], u[2] - 1>>
    PROVE  /\ Append(T, u) \in Seq(Unit) /\ Joined(Append(T, u))
           /\ Grows(T, Append(T, u))
<1>1. /\ Append(T, u) \in Seq(Unit) /\ Len(Append(T, u)) = Len(T) + 1 /\ Len(T) \in Nat
      /\ \A i \in 1 .. Len(T) : Append(T, u)[i] = T[i]
      /\ Append(T, u)[Len(T) + 1] = u /\ (T # <<>> => Len(T) > 0)
  BY AppendFacts
<1>2. PICK U : U = Append(T, u)
  OBVIOUS
<1>3. PICK m : m = Len(T)
  OBVIOUS
<1>4. /\ Len(U) = m + 1 /\ m \in Nat /\ \A i \in 1 .. m : U[i] = T[i]
      /\ U[m + 1] = u
  BY <1>1, <1>2, <1>3
<1>5. ASSUME NEW j \in 1 .. Len(U), U[j][2] > 0
      PROVE  j > 1 /\ U[j - 1] = <<U[j][1], U[j][2] - 1>>
  <2>1. CASE j <= m
    <3>1. j \in 1 .. m /\ (j > 1 => j - 1 \in 1 .. m)
      BY <1>4, <1>5, <2>1
    <3>2. U[j] = T[j] /\ (j > 1 => U[j - 1] = T[j - 1])
      BY <1>4, <3>1
    <3>3. j > 1 /\ T[j - 1] = <<T[j][1], T[j][2] - 1>>
      BY <1>3, <1>5, <3>1, <3>2 DEF Joined
    <3>. QED
      BY <3>2, <3>3
  <2>2. CASE j = m + 1
    <3>1. U[j] = u /\ m > 0 /\ T[m] = <<u[1], u[2] - 1>>
      BY <1>1, <1>3, <1>4, <1>5, <2>2
    <3>2. m \in 1 .. m /\ j - 1 = m /\ j > 1
      BY <1>4, <2>2, <3>1
    <3>. QED
      BY <1>4, <3>1, <3>2
  <2>. QED
    BY <1>4, <1>5, <2>1, <2>2
<1>6. Joined(U)
  BY <1>5 DEF Joined
<1>7. Grows(T, U)
  BY <1>3, <1>4 DEF Grows
<1>. QED
  BY <1>1, <1>2, <1>6, <1>7

\* Read goes on after what has been dropped
LEMMA JoinedConcat ==
    ASSUME NEW T \in Seq(Unit), NEW q \in Seq(Unit), NEW id, NEW b \in Int,
           Joined(T), T # <<>>, T[Len(T)] = <<id, b>>,
           \A i \in 1 .. Len(q) : q[i] = <<id, b + i>>
    PROVE  Joined(T \o q) /\ Grows(T, T \o q)
<1>1. /\ Len(T \o q) = Len(T) + Len(q) /\ Len(T) \in Nat /\ Len(q) \in Nat
      /\ \A i \in 1 .. Len(T) : (T \o q)[i] = T[i]
      /\ \A i \in 1 .. Len(q) : (T \o q)[Len(T) + i] = q[i]
  <2>1. T \in Seq(Unit) /\ q \in Seq(Unit)
    OBVIOUS
  <2>. QED
    BY ONLY <2>1, ConcatFacts
<1>2. PICK U : U = T \o q
  OBVIOUS
<1>3. PICK m : m = Len(T)
  OBVIOUS
<1>4. PICK n : n = Len(q)
  OBVIOUS
<1>5. /\ Len(U) = m + n /\ m \in Nat /\ n \in Nat
      /\ \A i \in 1 .. m : U[i] = T[i]
      /\ \A i \in 1 .. n : U[m + i] = q[i]
  BY <1>1, <1>2, <1>3, <1>4, Zenon
<1>6. m > 0 /\ T[m] = <<id, b>> /\ \A i \in 1 .. n : q[i] = <<id, b + i>>
  BY <1>3, <1>4
<1>7. m \in Int /\ n \in Int /\ b \in Int
  BY <1>5
<1>8. ASSUME NEW j \in 1 .. Len(U), U[j][2] > 0
      PROVE  j > 1 /\ U[j - 1] = <<U[j][1], U[j][2] - 1>>
  <2>0. j \in 1 .. m + n
    BY <1>5, <1>8
  <2>1. CASE j <= m
    <3>1. j \in 1 .. m /\ (j > 1 => j - 1 \in 1 .. m)
      BY ONLY <1>7, <2>0, <2>1
    <3>2. U[j] = T[j] /\ (j > 1 => U[j - 1] = T[j - 1])
      BY <1>5, <3>1
    <3>3. j > 1 /\ T[j - 1] = <<T[j][1], T[j][2] - 1>>
      BY <1>3, <1>8, <3>1, <3>2 DEF Joined
    <3>. QED
      BY <3>2, <3>3
  <2>2. CASE j > m
    <3>1. j - m \in 1 .. n /\ j = m + (j - m)
      BY ONLY <1>7, <2>0, <2>2
    <3>2. PICK k \in 1 .. n : j = m + k
      BY <3>1
    <3>3. U[j] = <<id, b + k>>
      BY <1>5, <1>6, <3>2
    <3>4. k \in Int /\ k >= 1 /\ k <= n /\ b + k - 1 = b + (k - 1) /\ j > 1
      BY <1>6, <1>7, <3>2
    <3>5. U[j - 1] = <<id, b + (k - 1)>>
      <4>1. CASE k = 1
        <5>1. j - 1 = m /\ m \in 1 .. m /\ b + (k - 1) = b
          BY <1>6, <1>7, <3>2, <4>1
        <5>. QED
          BY <1>5, <1>6, <5>1
      <4>2. CASE k # 1
        <5>1. k - 1 \in 1 .. n /\ j - 1 = m + (k - 1)
          BY <1>7, <3>2, <3>4, <4>2
        <5>. QED
          BY <1>5, <1>6, <5>1
      <4>. QED
        BY <4>1, <4>2
    <3>6. U[j][1] = id /\ U[j][2] = b + k
      BY <3>3
    <3>. QED
      BY <3>4, <3>5, <3>6
  <2>. QED
    BY <1>7, <2>0, <2>1, <2>2
<1>9. Joined(U)
  BY <1>8 DEF Joined
<1>10. Grows(T, U)
  <2>1. m <= m + n
    BY <1>5
  <2>. QED
    BY <1>3, <1>5, <2>1 DEF Grows
<1>. QED
  BY <1>2, <1>9, <1>10

LEMMA QuietTaken ==
    ASSUME ReadTypes, Stream, Current, Joined(taken), Quiet
    PROVE  Joined(taken') /\ Grows(taken, taken')
<1>0. taken \in Seq(Unit) /\ got \in Seq(Unit) /\ Len(taken) \in Nat
  BY DEF ReadTypes
<1>1. CASE taken' = taken
  BY <1>0, <1>1 DEF Grows
<1>2. CASE ReadOn
  <2>1. frame # NoFrame /\ kept /\ got = <<>>
    BY <1>2, FrameFacts DEF ReadOn
  <2>2. Moved(1) /\ Head(inbox) = inbox[1]
    BY <1>2, ReadOnMoved
  <2>3. \A i \in 1 .. 1 : inbox[i] = <<frame.id, frames[frame.id].len - frame.left + i>>
    BY <2>1, <2>2, MovedStream
  <2>4. PICK a : a = frames[frame.id].len - frame.left
    OBVIOUS
  <2>5. inbox[1] = <<frame.id, a + 1>> /\ inbox[1] \in Unit
    BY <1>2, <2>3, <2>4, InboxFacts DEF ReadOn
  <2>6. a \in Int /\ Before = a /\ Len(got) = 0
    BY <2>1, <2>4, FrameFacts DEF Before, Current
  <2>7. taken # <<>> /\ taken[Len(taken)] = <<frame.id, a>>
    BY <2>1, <2>6 DEF Current
  <2>8. inbox[1][1] = frame.id /\ inbox[1][2] = a + 1 /\ a + 1 - 1 = a
    BY <2>5, <2>6
  <2>9. Joined(Append(taken, inbox[1])) /\ Grows(taken, Append(taken, inbox[1]))
    <3>1. PICK u : u = inbox[1]
      OBVIOUS
    <3>2. u \in Unit /\ <<u[1], u[2] - 1>> = <<frame.id, a>>
      <4>1. u \in Unit /\ u[1] = frame.id /\ u[2] = a + 1
        BY <2>5, <2>8, <3>1
      <4>2. PICK c : c = u[2]
        OBVIOUS
      <4>3. c = a + 1 /\ a \in Int
        BY <2>6, <4>1, <4>2
      <4>4. c - 1 = a
        BY ONLY <4>3
      <4>. QED
        BY <4>1, <4>2, <4>4
    <3>3. taken # <<>> /\ taken[Len(taken)] = <<u[1], u[2] - 1>>
      BY <2>7, <3>2
    <3>. QED
      BY <1>0, <3>1, <3>2, <3>3, JoinedNext
  <2>. QED
    BY <1>2, <2>2, <2>9 DEF ReadOn
<1>3. CASE Paused
  <2>1. kept /\ frame # NoFrame
    BY <1>3 DEF Paused, Current
  <2>2. PICK b : b = Before
    OBVIOUS
  <2>3. /\ taken # <<>> /\ taken[Len(taken)] = <<frame.id, b>>
        /\ \A i \in 1 .. Len(got) : got[i] = <<frame.id, b + i>>
    BY <2>1, <2>2 DEF Current
  <2>4. b \in Int
    <3>1. frames[frame.id].len \in Nat /\ frame.left \in Nat /\ Len(got) \in Nat
      BY <1>0, <2>1, FrameFacts DEF Current
    <3>. QED
      BY <2>2, <3>1 DEF Before
  <2>5. PICK id : id = frame.id
    OBVIOUS
  <2>6. /\ taken[Len(taken)] = <<id, b>>
        /\ \A i \in 1 .. Len(got) : got[i] = <<id, b + i>>
    BY <2>3, <2>5
  <2>7. Joined(taken \o got) /\ Grows(taken, taken \o got)
    BY <1>0, <2>3, <2>4, <2>6, JoinedConcat
  <2>. QED
    BY <1>3, <2>7 DEF Paused
<1>. QED
  BY <1>1, <1>2, <1>3 DEF Quiet, Same, Sent, Shut, Took, Dropped, Handed, readVars
LEMMA DeliveredFacts ==
    ASSUME ReadTypes
    PROVE  /\ Len(delivered) \in Nat
           /\ \A i \in 1 .. Len(delivered) : delivered[i].id \in Nat
<1>1. delivered \in Seq([id : Nat, kind : Kinds \cup {"none"}, data : Seq(Unit)])
  BY DEF ReadTypes
<1>2. PICK S : S = [id : Nat, kind : Kinds \cup {"none"}, data : Seq(Unit)]
  OBVIOUS
<1>3. /\ Len(delivered) \in Nat
      /\ \A i \in 1 .. Len(delivered) : delivered[i] \in S
  BY <1>1, <1>2, SeqFacts
<1>4. \A m \in S : m.id \in Nat
  BY <1>2
<1>. QED
  BY <1>3, <1>4

LEMMA QuietFrame ==
    ASSUME ReadTypes, Quiet
    PROVE  /\ payloadType' = payloadType
           /\ frame' # NoFrame => /\ frame # NoFrame /\ frame'.id = frame.id
                                  /\ kept' = kept /\ ~Dropped /\ ~Handed
           /\ ~Dropped /\ ~Handed => frame'.id = frame.id /\ kept' = kept
           /\ ~Handed => delivered' = delivered
<1>1. CASE Same \/ Sent \/ Shut \/ Paused
  BY <1>1 DEF Same, Sent, Shut, Paused, readVars, Dropped, Handed
<1>2. CASE Took \/ ReadOn
  <2>0. frame \in [id : 0 .. Len(frames), kind : Kinds \cup {"none"}, left : Nat]
    BY DEF ReadTypes
  <2>1. /\ frame # NoFrame /\ frame'.id = frame.id /\ kept' = kept
        /\ payloadType' = payloadType /\ delivered' = delivered
    <3>1. CASE Took
      <4>1. PICK n \in 1 .. frame.left : frame' = [frame EXCEPT !.left = @ - n]
        BY <3>1 DEF Took
      <4>2. frame'.id = frame.id
        BY <2>0, <4>1
      <4>. QED
        BY <3>1, <4>2, FrameFacts DEF Took
    <3>2. CASE ReadOn
      <4>1. frame'.id = frame.id
        BY <2>0, <3>2 DEF ReadOn
      <4>. QED
        BY <3>2, <4>1, FrameFacts DEF ReadOn
    <3>. QED
      BY <1>2, <3>1, <3>2
  <2>2. frame' # NoFrame => ~Dropped /\ ~Handed
    BY DEF Dropped, Handed
  <2>. QED
    BY <2>1, <2>2
<1>3. CASE Dropped
  BY <1>3 DEF Dropped
<1>4. CASE Handed
  BY <1>4 DEF Handed
<1>. QED
  BY <1>1, <1>2, <1>3, <1>4 DEF Quiet

\* a message is returned by Receive
LEMMA HandedFine ==
    ASSUME ReadTypes, Stream, Current, Handed, ~lost
    PROVE  /\ frame # NoFrame /\ frame.id \in 1 .. Len(frames) /\ frame.id = Pos
           /\ Fine(frames, server, eof, [id |-> frame.id, kind |-> frame.kind, data |-> got])
<1>1. frame # NoFrame /\ FrameEnds /\ ~kept
  BY DEF Handed
<1>2. PICK id : id = frame.id
  OBVIOUS
<1>3. PICK z : z = frames[id].len
  OBVIOUS
<1>4. /\ id = Pos /\ id \in 1 .. Len(frames) /\ frame.left <= z
      /\ KindOk(frames, server, id, frame.kind)
      /\ z - frame.left - Len(got) = 0
      /\ \A i \in 1 .. Len(got) : got[i] = <<id, 0 + i>>
  BY <1>1, <1>2, <1>3 DEF Current, Before
<1>5. z \in Nat /\ frame.left \in Nat /\ Len(got) \in Nat
  BY <1>3, <1>4, FrameFacts DEF ReadTypes
<1>6. \A i \in 1 .. Len(got) : got[i] = <<id, i>>
  <2>1. \A i \in 1 .. Len(got) : 0 + i = i
    BY <1>5
  <2>. QED
    BY <1>4, <2>1
<1>7. Len(got) <= z /\ (frame.left = 0 => Len(got) = z)
  BY <1>4, <1>5
<1>8. frame.left # 0 => eof /\ id = Len(frames)
  BY <1>1, <1>2, <1>5 DEF FrameEnds, Stream, Here
<1>9. Whole(frames, eof, id, got, z)
  BY <1>6, <1>7, <1>8 DEF Whole
<1>. QED
  BY <1>1, <1>2, <1>3, <1>4, <1>9 DEF Fine

LEMMA QuietMessages ==
    ASSUME ReadTypes, Stream, Current, Messages, Quiet, ~lost, ~lost', server' = server
    PROVE  Messages'
<1>1. Pos' = Pos /\ Pos \in 0 .. Len(frames) /\ Len(frames) \in Nat
  BY QuietStream, AtFacts, FrameFacts DEF Stream, Pos, ReadTypes
<1>2. PICK p : p = Pos
  OBVIOUS
<1>3. p \in Nat /\ p <= Len(frames) /\ Pos = p /\ Pos' = p
  BY <1>1, <1>2
<1>4. Grown(frames, eof, frames', eof')
  BY EffectGrown DEF Effect, Quiet
<1>5. Joined(taken') /\ Grows(taken, taken')
  BY QuietTaken DEF Messages
<1>6. taken \in Seq(Unit) /\ taken' \in Seq(Unit)
  BY ReadTypesStep DEF Effect, Quiet, ReadTypes
<1>7. Meant(frames', server', p, payloadType')
  <2>1. Meant(frames, server, p, payloadType)
    BY <1>3 DEF Messages
  <2>2. Meant(frames', server, p, payloadType)
    BY <1>1, <1>3, <1>4, <2>1, MeantStable
  <2>. QED
    BY <2>2, QuietFrame
<1>8. ASSUME NEW i \in 1 .. Len(delivered)
      PROVE  /\ delivered[i].id \in 1 .. p
             /\ frame' # NoFrame => delivered[i].id < p
             /\ Fine(frames', server', eof', delivered[i])
             /\ \A j \in 1 .. i - 1 : delivered[j].id < delivered[i].id
  <2>1. /\ delivered[i].id \in 1 .. p
        /\ frame # NoFrame => delivered[i].id < p
        /\ Fine(frames, server, eof, delivered[i])
        /\ \A j \in 1 .. i - 1 : delivered[j].id < delivered[i].id
    BY <1>3 DEF Messages
  <2>2. delivered[i].id \in 1 .. Len(frames)
    BY <1>1, <1>3, <2>1
  <2>3. PICK m : m = delivered[i]
    OBVIOUS
  <2>4. Fine(frames', server, eof', m)
    BY <1>1, <1>4, <2>1, <2>2, <2>3, FineStable
  <2>. QED
    BY <2>1, <2>3, <2>4, QuietFrame
<1>9. ASSUME NEW f \in 1 .. p
      PROVE  /\ Begun(taken, f) => Begun(taken', f)
             /\ Skipped(frames, server, f) => Skipped(frames', server', f)
  <2>1. frames'[f] = frames[f]
    BY <1>1, <1>3, <1>4 DEF Grown
  <2>. QED
    BY <1>5, <1>6, <2>1, BegunStable DEF Skipped
<1>10. CASE ~Handed
  <2>1. delivered' = delivered
    BY <1>10, QuietFrame
  <2>2. ASSUME NEW f \in 1 .. p
        PROVE  \/ f = frame'.id /\ ~kept'
               \/ Begun(taken', f) \/ Told(delivered', f)
               \/ Skipped(frames', server', f)
    <3>1. \/ f = frame.id /\ ~kept
          \/ Begun(taken, f) \/ Told(delivered, f)
          \/ Skipped(frames, server, f)
      BY <1>3 DEF Messages
    <3>2. CASE f = frame.id /\ ~kept /\ ~Dropped
      BY <1>10, <3>2, QuietFrame
    <3>3. CASE f = frame.id /\ ~kept /\ Dropped
      <4>1. frame # NoFrame
        BY <3>3, FrameFacts
      <4>2. frame.kind \in ControlKinds
        BY <3>3, <4>1 DEF Dropped
      <4>3. frames[f].kind \in ControlKinds
        <5>1. KindOk(frames, server, f, frame.kind)
          BY <3>3, <4>1 DEF Current
        <5>. QED
          BY <4>2, <5>1, ControlKind
      <4>. QED
        BY <1>9, <4>3 DEF Skipped
    <3>. QED
      BY <1>9, <2>1, <3>1, <3>2, <3>3
  <2>. QED
    BY <1>3, <1>5, <1>7, <1>8, <2>1, <2>2 DEF Messages
<1>11. CASE Handed
  <2>1. PICK m : m = [id |-> frame.id, kind |-> frame.kind, data |-> got]
    OBVIOUS
  <2>2. /\ frame # NoFrame /\ frame.id \in 1 .. Len(frames) /\ frame.id = p /\ m.id = p
        /\ Fine(frames, server, eof, m)
    BY <1>3, <1>11, <2>1, HandedFine
  <2>3. frames' = frames /\ eof' = eof /\ taken' = taken /\ frame' = NoFrame
        /\ delivered' = Append(delivered, m)
    BY <1>11, <2>1 DEF Handed, inVars
  <2>4. PICK n : n = Len(delivered)
    OBVIOUS
  <2>5. /\ n \in Nat /\ Len(delivered') = n + 1
        /\ \A i \in 1 .. n : delivered'[i] = delivered[i]
        /\ delivered'[n + 1] = m
    <3>1. m \in [id : Nat, kind : Kinds \cup {"none"}, data : Seq(Unit)]
      BY <2>1, FrameFacts DEF ReadTypes
    <3>2. delivered \in Seq([id : Nat, kind : Kinds \cup {"none"}, data : Seq(Unit)])
      BY DEF ReadTypes
    <3>. QED
      BY <2>3, <2>4, <3>1, <3>2, AppendFacts
  <2>6. \A i \in 1 .. n : delivered[i].id \in Nat /\ delivered[i].id < p
    BY <1>3, <2>2, <2>4, DeliveredFacts DEF Messages
  <2>7. ASSUME NEW i \in 1 .. Len(delivered')
        PROVE  /\ delivered'[i].id \in 1 .. p
               /\ Fine(frames', server', eof', delivered'[i])
               /\ \A j \in 1 .. i - 1 : delivered'[j].id < delivered'[i].id
    <3>1. CASE i <= n
      <4>1. i \in 1 .. n /\ \A j \in 1 .. i - 1 : j \in 1 .. n
        BY <2>5, <2>7, <3>1
      <4>2. delivered'[i] = delivered[i] /\ \A j \in 1 .. i - 1 : delivered'[j] = delivered[j]
        BY <2>5, <4>1
      <4>. QED
        BY <1>8, <2>4, <4>1, <4>2
    <3>2. CASE i = n + 1
      <4>1. \A j \in 1 .. i - 1 : j \in 1 .. n
        BY <2>5, <3>2
      <4>2. p \in 1 .. p
        BY <1>1, <1>3, <2>2
      <4>. QED
        BY <2>2, <2>3, <2>5, <2>6, <3>2, <4>1, <4>2
    <3>. QED
      BY <2>5, <2>7, <3>1, <3>2
  <2>8. ASSUME NEW f \in 1 .. p
        PROVE  Begun(taken', f) \/ Told(delivered', f) \/ Skipped(frames', server', f)
    <3>1. \/ f = p
          \/ Begun(taken, f) \/ Told(delivered, f)
          \/ Skipped(frames, server, f)
      BY <1>3, <2>2 DEF Messages
    <3>2. CASE f = p
      <4>1. n + 1 \in 1 .. Len(delivered')
        BY <2>5
      <4>. QED
        BY <2>2, <2>5, <3>2, <4>1 DEF Told
    <3>3. CASE Told(delivered, f)
      <4>1. PICK i \in 1 .. n : delivered[i].id = f
        BY <2>4, <3>3 DEF Told
      <4>2. i \in 1 .. Len(delivered') /\ delivered'[i].id = f
        BY <2>5, <4>1
      <4>. QED
        BY <4>2 DEF Told
    <3>. QED
      BY <1>9, <3>1, <3>2, <3>3
  <2>. QED
    BY <1>3, <1>5, <1>7, <2>3, <2>7, <2>8 DEF Messages
<1>. QED
  BY <1>10, <1>11

LEMMA TurnMessages ==
    ASSUME ReadTypes, Stream, Messages, NEW f \in 1 .. Len(frames), Turn(f), ~lost',
           server' = server, server \in BOOLEAN
    PROVE  Messages'
<1>1. Pos = f - 1 /\ Pos' = f /\ f \in Nat /\ f >= 1 /\ f \in Int
  BY TurnStream, FrameFacts
<1>2. /\ frames' = frames /\ eof' = eof /\ delivered' = delivered
      /\ frame = NoFrame
  BY DEF Turn, Passed, Began, AtHeader
<1>3. Meant(frames, server, f - 1, payloadType)
  BY <1>1 DEF Messages
<1>4. taken \in Seq(Unit) /\ Joined(taken)
  BY DEF ReadTypes, Messages
<1>5. Meant(frames, server, f, payloadType')
  <2>1. ASSUME ~Heard(frames, server, f), payloadType' = payloadType
        PROVE  Meant(frames, server, f, payloadType')
    BY <1>1, <1>3, <2>1, MeantSkip
  <2>2. CASE Passed(frames[f])
    <3>1. ~Heard(frames, server, f) /\ payloadType' = payloadType
      BY <2>2 DEF Passed, Heard, Misunderstood, DataKinds
    <3>. QED
      BY <2>1, <3>1
  <2>3. CASE Began(f, frames[f])
    <3>1. CASE frames[f].kind \in DataKinds
      <4>1. Heard(frames, server, f) /\ payloadType' = frames[f].kind
        BY <2>3, <3>1 DEF Began, Heard, Misunderstood
      <4>. QED
        BY <1>1, <4>1, MeantHeard
    <3>2. CASE frames[f].kind \notin DataKinds
      BY <2>1, <2>3, <3>2 DEF Began, Heard
    <3>. QED
      BY <3>1, <3>2
  <2>. QED
    BY <2>2, <2>3 DEF Turn
<1>6. /\ Joined(taken') /\ Grows(taken, taken') /\ taken' \in Seq(Unit)
      /\ kept' /\ Began(f, frames[f]) => Begun(taken', f)
  <2>1. CASE taken' = taken /\ ~(kept' /\ Began(f, frames[f]))
    <3>1. Grows(taken, taken)
      <4>1. Len(taken) \in Nat
        BY <1>4
      <4>. QED
        BY <4>1 DEF Grows
    <3>. QED
      BY <1>4, <2>1, <3>1
  <2>2. CASE taken' = Append(taken, <<f, 0>>)
    <3>1. PICK u : u = <<f, 0>>
      OBVIOUS
    <3>2. u \in Unit /\ u[1] = f /\ ~(u[2] > 0)
      BY <1>1, <3>1 DEF Unit
    <3>3. /\ Append(taken, u) \in Seq(Unit) /\ Joined(Append(taken, u))
          /\ Grows(taken, Append(taken, u))
      BY <1>4, <3>2, JoinedNext
    <3>4. Begun(Append(taken, u), f)
      <4>1. /\ Len(Append(taken, u)) = Len(taken) + 1 /\ Len(taken) \in Nat
            /\ Append(taken, u)[Len(taken) + 1] = u
        BY <1>4, <3>2, AppendFacts
      <4>2. Len(taken) + 1 \in 1 .. Len(Append(taken, u))
        BY <4>1
      <4>. QED
        BY <3>2, <4>1, <4>2 DEF Begun
    <3>. QED
      BY <2>2, <3>1, <3>3, <3>4
  <2>. QED
    BY <2>1, <2>2 DEF Turn, Passed, Began
<1>7. ASSUME NEW i \in 1 .. Len(delivered)
      PROVE  /\ delivered[i].id \in 1 .. f /\ delivered[i].id < f
             /\ Fine(frames, server, eof, delivered[i])
             /\ \A j \in 1 .. i - 1 : delivered[j].id < delivered[i].id
  <2>1. delivered[i].id \in 1 .. f - 1
    BY <1>1 DEF Messages
  <2>2. delivered[i].id \in 1 .. f /\ delivered[i].id < f
    BY <1>1, <2>1
  <2>. QED
    BY <2>2 DEF Messages
<1>8. ASSUME NEW g \in 1 .. f
      PROVE  \/ g = frame'.id /\ ~kept'
             \/ Begun(taken', g) \/ Told(delivered, g)
             \/ Skipped(frames, server, g)
  <2>1. CASE g = f
    <3>1. CASE Passed(frames[f])
      BY <2>1, <3>1 DEF Passed, Skipped, Misunderstood
    <3>2. CASE Began(f, frames[f])
      <4>1. frame'.id = f
        BY <3>2 DEF Began
      <4>. QED
        BY <1>6, <2>1, <3>2, <4>1
    <3>. QED
      BY <3>1, <3>2 DEF Turn
  <2>2. CASE g # f
    <3>1. g \in 1 .. f - 1 /\ g # 0
      BY <1>1, <2>2
    <3>2. \/ Begun(taken, g) \/ Told(delivered, g)
          \/ Skipped(frames, server, g)
      BY <1>1, <1>2, <3>1, FrameFacts DEF Messages
    <3>3. Begun(taken, g) => Begun(taken', g)
      BY <1>4, <1>6, BegunStable
    <3>. QED
      BY <3>2, <3>3
  <2>. QED
    BY <2>1, <2>2
<1>. QED
  BY <1>1, <1>2, <1>5, <1>6, <1>7, <1>8 DEF Messages
-----------------------------------------------------------------------------
(* AtFrame *)

AtOne(t) ==
    /\ pc[t] = "payload" => frame # NoFrame
    /\ pc[t] \in Writing /\ call[t] # "refuse" => frame # NoFrame /\ FrameEnds

LEMMA AtOneSame ==
    ASSUME AtFrame, NEW u \in Readers, pc'[u] = pc[u], call'[u] = call[u],
           frame' = frame, FrameEnds => FrameEnds'
    PROVE  AtOne(u)'
  BY DEF AtFrame, AtOne

LEMMA AtOneApart ==
    ASSUME NEW u \in Readers, pc'[u] \in {"idle", "rlock", "header", "control", "discard"}
    PROVE  AtOne(u)'
  BY DEF AtOne, Writing

\* where the goroutine that reads goes
LEMMA AtOneRead ==
    ASSUME Known, Stream, Current, ~lost', NEW t \in Threads,
           ReadHeader(t) \/ ReadControl(t) \/ Discard(t) \/ Receive(t) \/ Read(t)
           \/ FailedRead(t)
    PROVE  AtOne(t)'
<1>1. pc[t] \in ReadSteps
  BY ReadMoves DEF ReadMove
<1>2. t \in Readers /\ call[t] \in {"receive", "read"}
  BY <1>1, Holder DEF Known
<1>3. /\ pc \in [Threads -> Places] /\ call \in [Threads -> CallKinds]
      /\ ReadTypes
  BY DEF Known, TypeOK, Typed, Places, CallKinds
<1>4. ASSUME NEW keep, Return(t, keep) PROVE AtOne(t)'
  <2>1. pc'[t] = "idle"
    BY <1>3, <1>4 DEF Return, Goto
  <2>. QED
    BY <1>2, <2>1, AtOneApart
<1>5. ASSUME Again(t) PROVE AtOne(t)'
  <2>1. pc'[t] = "header"
    BY <1>3, <1>5 DEF Again, Goto
  <2>. QED
    BY <1>2, <2>1, AtOneApart
<1>6. ASSUME NEW n, Take(n), UNCHANGED pc, pc[t] = "payload" => frame # NoFrame
      PROVE  AtOne(t)'
  <2>1. frame \in [id : 0 .. Len(frames), kind : Kinds \cup {"none"}, left : Nat]
    BY <1>3 DEF ReadTypes
  <2>2. PICK k \in 1 .. n : frame' = [frame EXCEPT !.left = @ - k]
    BY <1>6 DEF Take
  <2>3. frame'.id = frame.id
    BY <2>1, <2>2
  <2>4. frame # NoFrame => frame.id \in 1 .. Len(frames)
    BY DEF Current
  <2>5. frame # NoFrame => frame' # NoFrame
    BY <1>3, <2>3, <2>4, FrameFacts
  <2>6. pc'[t] \notin Writing
    BY <1>1, <1>6 DEF ReadSteps, Writing
  <2>. QED
    BY <1>6, <2>5, <2>6 DEF AtOne
<1>7. ASSUME frame.kind = "ping", FrameEnds, Goto(t, "wlock"), frame' = frame,
             UNCHANGED <<inbox, eof>>
      PROVE  AtOne(t)'
  <2>1. frame # NoFrame
    BY <1>7 DEF NoFrame
  <2>2. pc'[t] = "wlock"
    BY <1>3, <1>7 DEF Goto
  <2>3. FrameEnds'
    BY <1>7 DEF FrameEnds
  <2>. QED
    BY <1>7, <2>1, <2>2, <2>3 DEF AtOne
<1>8. CASE ReadHeader(t)
  <2>1. PICK h \in HeadersAt(Head(inbox)) : HandleFrame(t, h[1], h[2])
    BY <1>8 DEF ReadHeader
  <2>2. CASE Misunderstood(h[2])
    <3>1. pc'[t] = "wlock" /\ call'[t] = "refuse"
      BY <1>3, <2>1, <2>2 DEF HandleFrame, Goto
    <3>. QED
      BY <3>1 DEF AtOne
  <2>3. CASE ~Misunderstood(h[2]) /\ h[2].kind = "close"
    BY <1>4, <2>1, <2>3 DEF HandleFrame
  <2>4. CASE ~Misunderstood(h[2]) /\ h[2].kind # "close"
    <3>1. /\ frame'.id = h[1] /\ pc'[t] \in {"control", "payload"}
      BY <1>3, <2>1, <2>4 DEF HandleFrame, Goto
    <3>2. h[1] \in 1 .. Len(frames)
      <4>1. inbox # <<>> /\ AtHeader
        <5>1. pc[t] = "header" /\ inbox # <<>>
          BY <1>8 DEF ReadHeader
        <5>2. rio = t
          BY <1>1, Holder DEF Known
        <5>. QED
          BY <1>2, <5>1, <5>2 DEF Known, Held, Holds, AtHeader
      <4>2. frame.left = 0
        BY <1>3, <4>1, FrameFacts DEF AtHeader
      <4>3. inbox[1][2] = 0 /\ Head(inbox) = inbox[1] /\ inbox[1][1] \in 1 .. Len(frames)
        BY <1>3, <4>1, <4>2, InboxFacts DEF Stream, Here
      <4>4. h = <<inbox[1][1], frames[inbox[1][1]]>>
        BY <4>3 DEF HeadersAt
      <4>. QED
        BY <4>3, <4>4
    <3>3. frame' # NoFrame
      BY <1>3, <3>1, <3>2, FrameFacts
    <3>. QED
      BY <3>1, <3>3 DEF AtOne, Writing
  <2>. QED
    BY <2>2, <2>3, <2>4
<1>9. CASE ReadControl(t)
  BY <1>5, <1>6, <1>7, <1>9 DEF ReadControl
<1>10. CASE Discard(t)
  BY <1>5, <1>6, <1>10 DEF Discard
<1>11. CASE Receive(t)
  <2>1. pc[t] = "payload" => frame # NoFrame
    <3>1. ~lost
      BY <1>11 DEF Receive
    <3>. QED
      BY <1>2, <3>1 DEF Known, AtFrame
  <2>. QED
    BY <1>4, <1>6, <1>11, <2>1 DEF Receive
<1>12. CASE Read(t)
  <2>1. ASSUME Goto(t, "idle") PROVE AtOne(t)'
    <3>1. pc'[t] = "idle"
      BY <1>3, <2>1 DEF Goto
    <3>. QED
      BY <1>2, <3>1, AtOneApart
  <2>. QED
    BY <1>5, <1>12, <2>1 DEF Read
<1>13. CASE FailedRead(t)
  <2>1. FailRead(t) /\ (pc[t] = "header" \/ frame.left > 0)
    BY <1>13 DEF FailedRead, NeedsBytes
  <2>2. ~(pc[t] = "control" /\ Len(got) >= MaxControl)
    BY <2>1 DEF FailRead
  <2>. QED
    BY <1>4, <2>1, <2>2 DEF FailRead
<1>. QED
  BY <1>8, <1>9, <1>10, <1>11, <1>12, <1>13

LEMMA AtFrameStep ==
    ASSUME Known, Stream, Current, AtFrame, ~lost', [Next]_vars
    PROVE  AtFrame'
<1>0. /\ pc \in [Threads -> Places] /\ call \in [Threads -> CallKinds]
      /\ ReadTypes
  BY DEF Known, TypeOK, Typed, Places, CallKinds
<1>1. ASSUME \A u \in Readers : AtOne(u)'
      PROVE  AtFrame'
  BY <1>1 DEF AtOne, AtFrame
<1>2. CASE Elsewhere \/ PeerSends \/ PeerCloses
  <2>1. UNCHANGED <<pc, call>> /\ frame' = frame
    BY <1>2 DEF Elsewhere, PeerSends, PeerCloses, callVars, readVars
  <2>2. FrameEnds => FrameEnds'
    <3>1. CASE Elsewhere
      BY <3>1 DEF Elsewhere, inVars, readVars, FrameEnds
    <3>2. CASE PeerSends
      BY <3>2 DEF PeerSends, readVars, FrameEnds
    <3>3. CASE PeerCloses
      BY <3>3 DEF PeerCloses, readVars, FrameEnds
    <3>. QED
      BY <1>2, <3>1, <3>2, <3>3
  <2>. QED
    BY <1>1, <2>1, <2>2, AtOneSame
<1>3. ASSUME NEW t \in Threads, Call(t) \/ CloseRwc(t) \/ RLock(t)
      PROVE  AtFrame'
  <2>1. /\ frame' = frame /\ inbox' = inbox /\ eof' = eof
        /\ \A u \in Threads : u # t => pc'[u] = pc[u] /\ call'[u] = call[u]
    BY <1>0, <1>3 DEF Call, CloseRwc, RLock, Goto, readVars, inVars
  <2>2. ASSUME NEW u \in Readers, u # t PROVE AtOne(u)'
    BY <2>1, <2>2, AtOneSame DEF Threads, FrameEnds
  <2>3. ASSUME t \in Readers PROVE AtOne(t)'
    <3>1. CASE Call(t)
      <4>1. pc'[t] = "rlock"
        BY <1>0, <2>3, <3>1, Sides DEF Call, Goto
      <4>. QED
        BY <2>3, <4>1, AtOneApart
    <3>2. CASE CloseRwc(t)
      BY <2>3, <3>2 DEF CloseRwc, Known, Calls
    <3>3. CASE RLock(t)
      <4>1. pc'[t] = FirstStep(t)
        BY <1>0, <3>3 DEF RLock, Goto
      <4>2. kept => frame # NoFrame
        BY DEF Current
      <4>3. CASE ~kept
        <5>1. pc'[t] = "header"
          BY <4>1, <4>3 DEF FirstStep
        <5>. QED
          BY <2>3, <5>1, AtOneApart
      <4>4. CASE kept
        <5>1. pc'[t] \in {"discard", "payload"}
          BY <4>1, <4>4 DEF FirstStep
        <5>. QED
          BY <2>1, <4>2, <4>4, <5>1 DEF AtOne, Writing
      <4>. QED
        BY <4>3, <4>4
    <3>. QED
      BY <1>3, <3>1, <3>2, <3>3
  <2>. QED
    BY <1>1, <2>2, <2>3
<1>4. ASSUME NEW t \in Threads, WLock(t)
      PROVE  AtFrame'
  <2>1. /\ frame' = frame /\ inbox' = inbox /\ eof' = eof /\ call' = call
        /\ pc[t] = "wlock" /\ pc'[t] = "wpayload"
        /\ \A u \in Threads : u # t => pc'[u] = pc[u]
    BY <1>0, <1>4 DEF WLock, Goto, readVars, inVars
  <2>2. ASSUME NEW u \in Readers, u # t PROVE AtOne(u)'
    BY <2>1, <2>2, AtOneSame DEF Threads, FrameEnds
  <2>3. ASSUME t \in Readers PROVE AtOne(t)'
    BY <2>1, <2>3 DEF AtFrame, AtOne, Writing, FrameEnds
  <2>. QED
    BY <1>1, <2>2, <2>3
<1>5. ASSUME NEW t \in Threads, WritePayload(t) \/ FailedWrite(t)
      PROVE  AtFrame'
  <2>1. PICK failed \in BOOLEAN : AfterWrite(t, failed)
    BY <1>5 DEF WritePayload, FailedWrite, FailWrite
  <2>2. pc[t] = "wpayload" /\ inbox' = inbox /\ eof' = eof
    BY <1>5, <2>1 DEF WritePayload, FailedWrite, FailWrite, AfterWrite, inVars
  <2>3. CASE t \in Readers
    <3>1. Return(t, FALSE) \/ Again(t)
      <4>1. call[t] \in {"none", "receive", "read", "refuse"}
        BY <2>3 DEF Known, Calls
      <4>. QED
        BY <2>1, <4>1 DEF AfterWrite
    <3>2. pc'[t] \in {"idle", "header"} /\ \A u \in Threads : u # t => pc'[u] = pc[u]
      BY <1>0, <3>1 DEF Return, Again, Goto
    <3>3. ASSUME NEW u \in Readers PROVE AtOne(u)'
      <4>1. CASE u = t
        BY <3>2, <4>1, AtOneApart
      <4>2. CASE u # t
        <5>1. rio = t
          BY <2>2, <2>3 DEF Known, Calls
        <5>2. pc[u] \in {"idle", "rlock"} /\ pc'[u] = pc[u]
          BY <3>2, <4>2, <5>1 DEF Known, Calls, Threads
        <5>. QED
          BY <5>2, AtOneApart
      <4>. QED
        BY <4>1, <4>2
    <3>. QED
      BY <1>1, <3>3
  <2>4. CASE t \notin Readers
    <3>1. call[t] \in {"write", "close"}
      BY <2>2, <2>4 DEF Known, Calls
    <3>2. /\ frame' = frame
          /\ \A u \in Threads : u # t => pc'[u] = pc[u] /\ call'[u] = call[u]
      BY <1>0, <2>1, <2>4, <3>1 DEF AfterWrite, Goto
    <3>. QED
      BY <1>1, <2>2, <2>4, <3>2, AtOneSame DEF Threads, FrameEnds
  <2>. QED
    BY <2>3, <2>4
<1>6. ASSUME NEW t \in Threads,
             ReadHeader(t) \/ ReadControl(t) \/ Discard(t) \/ Receive(t) \/ Read(t)
             \/ FailedRead(t)
      PROVE  AtFrame'
  <2>1. ReadMove(t) /\ AtOne(t)'
    BY <1>6, ReadMoves, AtOneRead
  <2>2. ASSUME NEW u \in Readers, u # t PROVE AtOne(u)'
    <3>1. pc[u] \in {"idle", "rlock"}
      BY <2>1, <2>2, Holder DEF ReadMove, Known
    <3>2. pc'[u] = pc[u]
      BY <1>0, <2>1, <2>2 DEF ReadMove, Goto, Threads
    <3>. QED
      BY <3>1, <3>2, AtOneApart
  <2>. QED
    BY <1>1, <2>1, <2>2
<1>. QED
  BY <1>2, <1>3, <1>4, <1>5, <1>6, Steps
-----------------------------------------------------------------------------
(* Pongs *)

LEMMA NoPongStays ==
    ASSUME Known, [Next]_vars, NEW u \in Readers, pc[u] = "wpayload",
           pc'[u] # "wpayload"
    PROVE  frame' = NoFrame
<1>0. pc \in [Threads -> Places] /\ u \in Threads
  BY DEF Known, TypeOK, Places, Threads
<1>1. CASE Elsewhere \/ PeerSends \/ PeerCloses
  BY <1>1 DEF Elsewhere, PeerSends, PeerCloses, callVars
<1>2. ASSUME NEW t \in Threads, Call(t) \/ CloseRwc(t) \/ RLock(t) \/ WLock(t)
      PROVE  FALSE
  BY <1>0, <1>2 DEF Call, CloseRwc, RLock, WLock, Goto
<1>3. ASSUME NEW t \in Threads,
             ReadHeader(t) \/ ReadControl(t) \/ Discard(t) \/ Receive(t) \/ Read(t)
             \/ FailedRead(t)
      PROVE  FALSE
  <2>1. ReadMove(t)
    BY <1>3, ReadMoves
  <2>. QED
    BY <1>0, <2>1 DEF ReadMove, ReadSteps, Goto
<1>4. ASSUME NEW t \in Threads, WritePayload(t) \/ FailedWrite(t)
      PROVE  frame' = NoFrame
  <2>1. PICK failed \in BOOLEAN : AfterWrite(t, failed)
    BY <1>4 DEF WritePayload, FailedWrite, FailWrite
  <2>2. pc[t] = "wpayload"
    BY <1>4 DEF WritePayload, FailedWrite, FailWrite
  <2>3. u = t
    BY <1>0, <2>2, Sides DEF Known, Calls
  <2>4. Return(t, FALSE) \/ Again(t)
    <3>1. call[t] \in {"none", "receive", "read", "refuse"}
      BY <2>3 DEF Known, Calls
    <3>. QED
      BY <2>1, <3>1 DEF AfterWrite
  <2>. QED
    BY <2>4 DEF Return, Again
<1>. QED
  BY <1>1, <1>2, <1>3, <1>4, Steps

\* what a ping is answered with
LEMMA EchoedWhole ==
    ASSUME ReadTypes, Stream, Current, frame # NoFrame, ~kept, FrameEnds,
           NEW n \in Nat,
           n = IF frames[frame.id].len <= MaxControl THEN frames[frame.id].len
               ELSE MaxControl
    PROVE  Whole(frames, eof, frame.id, Echoed, n)
<1>1. PICK id : id = frame.id
  OBVIOUS
<1>2. PICK z : z = frames[id].len
  OBVIOUS
<1>3. PICK l : l = Len(got)
  OBVIOUS
<1>4. /\ id \in 1 .. Len(frames) /\ frame.left <= z /\ z - frame.left - l = 0
      /\ \A i \in 1 .. l : got[i] = <<id, 0 + i>>
  BY <1>1, <1>2, <1>3 DEF Current, Before
<1>5. /\ z \in Nat /\ frame.left \in Nat /\ l \in Nat /\ MaxControl \in Nat
      /\ got \in Seq(Unit)
  BY <1>2, <1>3, <1>4, FrameFacts, WebSocketAssumption DEF ReadTypes
<1>6. \A i \in 1 .. l : got[i] = <<id, i>>
  <2>1. \A i \in 1 .. l : 0 + i = i
    BY <1>5
  <2>. QED
    BY <1>4, <2>1
<1>7. l <= z /\ (frame.left = 0 => l = z)
  BY <1>4, <1>5
<1>8. frame.left # 0 => eof /\ id = Len(frames)
  BY <1>1, <1>5 DEF FrameEnds, Stream, Here
<1>9. n = IF z <= MaxControl THEN z ELSE MaxControl
  BY <1>1, <1>2
<1>10. CASE l > MaxControl
  <2>1. n = MaxControl /\ MaxControl <= l
    BY <1>5, <1>7, <1>9, <1>10
  <2>2. 1 \in 1 .. l + 1 /\ MaxControl \in 1 - 1 .. l /\ MaxControl - 1 + 1 = MaxControl
        /\ \A i \in 1 .. MaxControl : 1 + i - 1 = i /\ i \in 1 .. l
    BY <1>5, <2>1
  <2>3. PICK q : q = got
    OBVIOUS
  <2>4. 1 \in 1 .. Len(q) + 1 /\ MaxControl \in 1 - 1 .. Len(q) /\ q \in Seq(Unit)
    BY <1>3, <1>5, <2>2, <2>3
  <2>5. /\ Len(SubSeq(q, 1, MaxControl)) = MaxControl - 1 + 1
        /\ \A i \in 1 .. MaxControl - 1 + 1 : SubSeq(q, 1, MaxControl)[i] = q[1 + i - 1]
    BY ONLY <2>4, SubSeqFacts
  <2>6. Echoed = SubSeq(q, 1, MaxControl)
    BY <1>3, <1>10, <2>3 DEF Echoed
  <2>7. Len(Echoed) = MaxControl /\ \A i \in 1 .. MaxControl : Echoed[i] = got[i]
    BY <2>2, <2>3, <2>5, <2>6
  <2>8. Len(Echoed) <= n /\ Len(Echoed) = n
    BY <1>5, <2>1, <2>7
  <2>9. \A i \in 1 .. Len(Echoed) : Echoed[i] = <<id, i>>
    BY <1>6, <2>2, <2>7
  <2>. QED
    BY <1>1, <2>8, <2>9 DEF Whole
<1>11. CASE ~(l > MaxControl)
  <2>1. Echoed = got
    BY <1>3, <1>11 DEF Echoed
  <2>2. l <= n /\ (frame.left = 0 => l = n)
    BY <1>5, <1>7, <1>9, <1>11
  <2>. QED
    BY <1>1, <1>3, <1>6, <1>8, <2>1, <2>2 DEF Whole
<1>. QED
  BY <1>10, <1>11

LEMMA PosFacts ==
    ASSUME ReadTypes, Stream
    PROVE  Pos \in Nat /\ Pos <= Len(frames) /\ Len(frames) \in Nat
<1>1. Pos \in 0 .. Len(frames) /\ Len(frames) \in Nat
  BY AtFacts, FrameFacts DEF Stream, Pos, ReadTypes
<1>. QED
  BY <1>1

\* a pong stays one when nothing is written
LEMMA PongStays ==
    ASSUME Known, Stream, Current, Pongs, ~lost, ~lost', [Next]_vars, writes' = writes
    PROVE  Pongs'
<1>0. ReadTypes /\ server' = server /\ Effect
  BY Effects DEF Known, Typed
<1>1. PICK p : p = Pos
  OBVIOUS
<1>2. p \in Nat /\ p <= Len(frames) /\ Len(frames) \in Nat /\ Pos = p
  BY <1>0, <1>1, PosFacts
<1>3. PICK r : r = Pos'
  OBVIOUS
<1>4. /\ r = p \/ r = p + 1
      /\ frame' # NoFrame /\ r = p => frame # NoFrame
  <2>1. CASE Quiet
    BY <1>0, <1>2, <1>3, <2>1, QuietStream, QuietFrame
  <2>2. ASSUME NEW f \in 1 .. Len(frames), Turn(f)
        PROVE  r = p + 1
    <3>1. Pos = f - 1 /\ Pos' = f /\ f \in Nat
      BY <1>0, <1>2, <2>2, TurnStream
    <3>. QED
      BY <1>2, <1>3, <3>1
  <2>3. p # p + 1
    BY <1>2
  <2>. QED
    BY <1>0, <2>1, <2>2, <2>3, EffectCases
<1>5. Grown(frames, eof, frames', eof')
  BY <1>0, EffectGrown
<1>6. ASSUME NEW w \in 1 .. Len(writes), writes[w].kind = "pong"
      PROVE  /\ writes[w].of \in 1 .. r
             /\ frame' # NoFrame /\ (\A t \in Readers : pc'[t] # "wpayload") =>
                   writes[w].of < r
             /\ Answered(frames', server, eof', writes[w])
             /\ \A v \in 1 .. w - 1 : writes[v].kind = "pong" =>
                   writes[v].of < writes[w].of
  <2>1. /\ writes[w].of \in 1 .. p
        /\ frame # NoFrame /\ (\A t \in Readers : pc[t] # "wpayload") =>
             writes[w].of < p
        /\ Answered(frames, server, eof, writes[w])
        /\ \A v \in 1 .. w - 1 : writes[v].kind = "pong" => writes[v].of < writes[w].of
    BY <1>2, <1>6 DEF Pongs
  <2>2. writes[w].of \in 1 .. r /\ (r = p + 1 => writes[w].of < r)
    BY <1>2, <1>4, <2>1
  <2>3. ASSUME frame' # NoFrame, \A t \in Readers : pc'[t] # "wpayload"
        PROVE  writes[w].of < r
    <3>1. CASE r = p
      <4>1. frame # NoFrame
        BY <1>4, <2>3, <3>1
      <4>2. \A t \in Readers : pc[t] # "wpayload"
        BY <2>3, NoPongStays
      <4>. QED
        BY <2>1, <3>1, <4>1, <4>2
    <3>. QED
      BY <1>4, <2>2, <3>1
  <2>4. Answered(frames', server, eof', writes[w])
    <3>1. writes[w].of \in 1 .. Len(frames)
      BY <1>2, <2>1
    <3>2. PICK x : x = writes[w]
      OBVIOUS
    <3>3. x.of \in 1 .. Len(frames) /\ Answered(frames, server, eof, x)
      BY <2>1, <3>1, <3>2
    <3>. QED
      BY <1>5, <3>2, <3>3, AnsweredStable
  <2>. QED
    BY <2>1, <2>2, <2>3, <2>4
<1>. QED
  BY <1>0, <1>3, <1>6 DEF Pongs

\* a ping is answered, or something else is written
LEMMA PongWritten ==
    ASSUME Known, Stream, Current, AtFrame, Pongs, ~lost, NEW t \in Threads, WLock(t),
           server' = server
    PROVE  Pongs'
<1>0. /\ ReadTypes /\ Typed /\ Calls /\ Held /\ TypeOK
      /\ pc \in [Threads -> Places]
  BY DEF Known, Typed, TypeOK, Places
<1>1. PICK p : p = Pos
  OBVIOUS
<1>2. p \in Nat /\ p <= Len(frames) /\ Len(frames) \in Nat /\ Pos = p
  BY <1>0, <1>1, PosFacts
<1>3. /\ frame' = frame /\ inbox' = inbox /\ eof' = eof /\ frames' = frames
      /\ pc' = [pc EXCEPT ![t] = "wpayload"] /\ pc[t] = "wlock"
  BY DEF WLock, Goto, readVars, inVars
<1>4. Pos' = p
  BY <1>2, <1>3 DEF Pos
<1>5. PICK n : n = Len(writes)
  OBVIOUS
<1>6. /\ n \in Nat /\ Len(writes') = n + 1 /\ wio = NoOne
      /\ \A w \in 1 .. n : writes'[w] = writes[w]
      /\ writes'[n + 1] = WriteOf(t)
  BY <1>0, <1>5, WLockFacts, WritesFacts DEF Typed
<1>7. \A u \in Readers : pc[u] # "wpayload"
  BY <1>0, <1>6, Sides DEF Calls, Threads
<1>8. ASSUME NEW w \in 1 .. n, writes[w].kind = "pong"
      PROVE  /\ writes[w].of \in 1 .. p /\ (frame # NoFrame => writes[w].of < p)
             /\ Answered(frames, server, eof, writes[w])
             /\ \A v \in 1 .. w - 1 : writes[v].kind = "pong" =>
                   writes[v].of < writes[w].of
  BY <1>2, <1>5, <1>7, <1>8 DEF Pongs
<1>9. /\ WriteOf(t) \in WriteRecord
      /\ WriteOf(t).kind = "pong" <=> t \in Readers /\ call[t] # "refuse"
  BY <1>0, <1>3, WriteOfType DEF Writing
<1>10. ASSUME t \in Readers, call[t] # "refuse"
       PROVE  /\ frame # NoFrame /\ WriteOf(t).of = p /\ p >= 1
              /\ Answered(frames, server, eof, WriteOf(t))
  <2>1. frame # NoFrame /\ FrameEnds
    BY <1>3, <1>10 DEF AtFrame, Writing
  <2>2. frame.kind = "ping" /\ ~kept
    <3>1. rio = t
      BY <1>0, <1>3, <1>10 DEF Calls
    <3>. QED
      BY <1>0, <1>3, <1>10, <3>1 DEF Held, Holds, Writing
  <2>3. /\ frame.id = p /\ frame.id \in 1 .. Len(frames)
        /\ frames[frame.id].masked = server
        /\ KindOk(frames, server, frame.id, frame.kind)
    BY <1>2, <2>1 DEF Current
  <2>4. frames[frame.id].kind = "ping"
    BY <2>2, <2>3, ControlKind DEF ControlKinds
  <2>5. PICK m : m = IF frames[frame.id].len <= MaxControl THEN frames[frame.id].len
                     ELSE MaxControl
    OBVIOUS
  <2>6. m \in Nat
    BY <1>0, <2>3, <2>5, FrameFacts, WebSocketAssumption
  <2>7. Whole(frames, eof, frame.id, Echoed, m)
    BY <1>0, <2>1, <2>2, <2>5, <2>6, EchoedWhole
  <2>8. WriteOf(t).of = frame.id /\ WriteOf(t).data = Echoed
    BY <1>10 DEF WriteOf
  <2>. QED
    BY <1>2, <2>1, <2>3, <2>4, <2>5, <2>7, <2>8 DEF Answered
<1>11. ASSUME NEW w \in 1 .. n + 1, writes'[w].kind = "pong"
       PROVE  /\ writes'[w].of \in 1 .. p
              /\ frame # NoFrame /\ (\A u \in Readers : pc'[u] # "wpayload") =>
                    writes'[w].of < p
              /\ Answered(frames, server, eof, writes'[w])
              /\ \A v \in 1 .. w - 1 : writes'[v].kind = "pong" =>
                    writes'[v].of < writes'[w].of
  <2>1. CASE w \in 1 .. n
    <3>1. \A v \in 1 .. w - 1 : v \in 1 .. n
      BY <1>6, <2>1
    <3>2. writes'[w] = writes[w] /\ \A v \in 1 .. w - 1 : writes'[v] = writes[v]
      BY <1>6, <2>1, <3>1
    <3>3. writes[w].kind = "pong"
      BY <1>11, <3>2
    <3>. QED
      BY <1>8, <2>1, <3>2, <3>3
  <2>2. CASE w = n + 1
    <3>1. t \in Readers /\ call[t] # "refuse"
      BY <1>6, <1>9, <1>11, <2>2
    <3>2. pc'[t] = "wpayload"
      BY <1>0, <1>3
    <3>3. /\ writes'[w].of = p /\ p \in 1 .. p /\ frame # NoFrame
          /\ Answered(frames, server, eof, writes'[w])
      BY <1>2, <1>6, <1>10, <2>2, <3>1
    <3>4. \A v \in 1 .. w - 1 : v \in 1 .. n /\ writes'[v] = writes[v]
      BY <1>6, <2>2
    <3>. QED
      BY <1>8, <3>1, <3>2, <3>3, <3>4
  <2>. QED
    BY <1>6, <2>1, <2>2
<1>. QED
  BY <1>3, <1>4, <1>6, <1>11 DEF Pongs

LEMMA PongsStep ==
    ASSUME Known, Stream, Current, AtFrame, Pongs, ~lost, ~lost', [Next]_vars
    PROVE  Pongs'
<1>1. CASE OutQuiet
  BY <1>1, PongStays DEF OutQuiet
<1>2. ASSUME NEW t \in Threads, WLock(t) PROVE Pongs'
  BY <1>2, PongWritten, Effects
<1>3. ASSUME NEW t \in Threads, WritePayload(t) \/ FailedWrite(t) PROVE Pongs'
  <2>1. writes' = writes
    BY <1>3 DEF WritePayload, FailedWrite, FailWrite, AfterWrite
  <2>. QED
    BY <2>1, PongStays
<1>. QED
  BY <1>1, <1>2, <1>3, OutCases DEF Known
-----------------------------------------------------------------------------
(* The invariant *)

LEMMA InitInv ==
    ASSUME Init
    PROVE  IInv
<1>1. /\ server \in BOOLEAN /\ rio = NoOne /\ wio = NoOne
      /\ pc = [t \in Threads |-> "idle"] /\ call = [t \in Threads |-> "none"]
      /\ inbox = <<>> /\ eof = FALSE
      /\ frame = NoFrame /\ kept = FALSE /\ got = <<>> /\ payloadType = "none"
      /\ buffered = <<>> /\ outbox = <<>> /\ werr = FALSE
      /\ frames = <<>> /\ writes = <<>> /\ delivered = <<>> /\ taken = <<>>
      /\ lost = FALSE
  BY DEF Init
<1>2. /\ Len(frames) = 0 /\ Len(inbox) = 0 /\ Len(delivered) = 0 /\ Len(taken) = 0
      /\ Len(writes) = 0 /\ Len(got) = 0 /\ DOMAIN outbox = {} /\ DOMAIN inbox = {}
  BY <1>1
<1>3. \A t \in Threads : pc[t] = "idle" /\ call[t] = "none" /\ t # NoOne
  BY <1>1, Sides
<1>4. Readers \subseteq Threads
  BY DEF Threads
<1>5. TypeOK
  <2>1. frame.left = 0 /\ frame.id = 0 /\ 0 \in 0 .. Len(frames)
    BY <1>1, <1>2 DEF NoFrame
  <2>2. \A t \in Threads : ~Reading(t) /\ pc[t] # "wpayload"
    BY <1>3 DEF Reading
  <2>. QED
    BY <1>1, <1>4, <2>1, <2>2 DEF TypeOK
<1>6. Typed
  <2>1. ReadTypes
    <3>1. frame \in [id : 0 .. Len(frames), kind : Kinds \cup {"none"}, left : Nat]
      <4>1. 0 \in 0 .. Len(frames)
        BY <1>2
      <4>. QED
        BY <1>1, <4>1 DEF NoFrame
    <3>2. \A i \in DOMAIN inbox : inbox[i][1] \in DOMAIN frames
      BY <1>2
    <3>3. /\ inbox \in Seq(Unit) /\ got \in Seq(Unit) /\ taken \in Seq(Unit)
          /\ frames \in Seq(Frames)
          /\ delivered \in Seq([id : Nat, kind : Kinds \cup {"none"}, data : Seq(Unit)])
      BY <1>1
    <3>. QED
      BY <1>1, <3>1, <3>2, <3>3 DEF ReadTypes, DataTypes
  <2>2. WriteTypes
    <3>1. buffered \in Seq(Unit) /\ outbox \in Seq(Unit) /\ writes \in Seq(WriteRecord)
      BY <1>1
    <3>. QED
      BY <1>1, <3>1 DEF WriteTypes, WriteRecord
  <2>. QED
    BY <1>1, <2>1, <2>2 DEF Typed
<1>7. Calls
  BY <1>1, <1>3, <1>4 DEF Calls, Writing
<1>8. Held
  BY <1>1, <1>3, <1>4 DEF Held
<1>9. Outbound
  BY <1>1, <1>2, <1>3 DEF Outbound, Framed
<1>10. Pos = 0 /\ \A i \in 1 .. 0 : FALSE
  BY <1>1, <1>2 DEF Pos, At
<1>11. Stream
  <2>1. \A i \in 1 .. 0 - 1 : FALSE
    OBVIOUS
  <2>. QED
    BY <1>1, <1>2, <1>10, <2>1 DEF Stream, Line, Here, NoFrame
<1>12. Current /\ AtFrame
  BY <1>1, <1>3, <1>4 DEF Current, AtFrame, Writing
<1>13. Messages
  BY <1>1, <1>2, <1>10 DEF Messages, Meant, Joined
<1>14. Pongs
  BY <1>2, <1>10 DEF Pongs
<1>. QED
  BY <1>5, <1>6, <1>7, <1>8, <1>9, <1>11, <1>12, <1>13, <1>14 DEF IInv, InStep

LEMMA InStepStep ==
    ASSUME Known, InStep, [Next]_vars
    PROVE  InStep'
<1>1. ReadTypes /\ server \in BOOLEAN
  BY DEF Known, Typed
<1>2. Effect /\ server' = server
  BY Effects
<1>3. lost => lost'
  BY <1>1, <1>2, EffectGrown
<1>4. ASSUME ~lost'
      PROVE  Stream' /\ Current' /\ AtFrame' /\ Messages' /\ Pongs'
  <2>1. ~lost /\ Stream /\ Current /\ AtFrame /\ Messages /\ Pongs
    BY <1>3, <1>4 DEF InStep
  <2>2. Stream' /\ Current' /\ Messages'
    <3>1. CASE Quiet
      BY <1>1, <1>2, <1>4, <2>1, <3>1, QuietStream, QuietCurrent, QuietMessages
    <3>2. ASSUME NEW f \in 1 .. Len(frames), Turn(f)
          PROVE  Stream' /\ Current' /\ Messages'
      <4>1. Meant(frames, server, Pos, payloadType)
        BY <2>1 DEF Messages
      <4>. QED
        BY <1>1, <1>2, <1>4, <2>1, <3>2, <4>1, TurnStream, TurnCurrent, TurnMessages
    <3>. QED
      BY <1>1, <1>2, <1>4, <2>1, <3>1, <3>2, EffectCases
  <2>3. AtFrame'
    BY <1>4, <2>1, AtFrameStep
  <2>4. Pongs'
    BY <1>4, <2>1, PongsStep
  <2>. QED
    BY <2>2, <2>3, <2>4
<1>. QED
  BY <1>4 DEF InStep

LEMMA InductiveInv ==
    ASSUME IInv, [Next]_vars
    PROVE  IInv'
<1>1. Known /\ Outbound /\ InStep
  BY DEF IInv, InStep, Known
<1>. QED
  BY <1>1, TypesStep, HeldStep, InStepStep DEF IInv

LEMMA Inductive == Spec => []IInv
<1>1. Init => IInv
  BY InitInv
<1>2. IInv /\ [Next]_vars => IInv'
  BY InductiveInv
<1>. QED
  BY <1>1, <1>2, PTL DEF Spec

(***************************************************************************)
(* The two mutexes, the steps of each goroutine and the frame that is read *)
(* keep their types; who reads holds rio and who writes holds wio.         *)
(***************************************************************************)
THEOREM TypeCorrect == Spec => []TypeOK
<1>1. IInv => TypeOK
  BY DEF IInv
<1>. QED
  BY <1>1, Inductive, PTL

-----------------------------------------------------------------------------
(* What the reader gets *)

Cut(F, e, f, d, n, p) ==
    /\ d \in Seq(Unit) /\ n \in Nat /\ p \in Seq(Unit) /\ Len(p) = n
    /\ \A i \in 1 .. n : p[i] = <<f, i>>
    /\ Whole(F, e, f, d, n)

LEMMA WholePrefix ==
    ASSUME NEW F, NEW e, NEW f, NEW d, NEW n, NEW p, Cut(F, e, f, d, n, p)
    PROVE  d = p \/ (f = Len(F) /\ e /\ IsPrefix(d, p))
<1>0. /\ d \in Seq(Unit) /\ n \in Nat /\ p \in Seq(Unit) /\ Len(p) = n
      /\ \A i \in 1 .. n : p[i] = <<f, i>>
  BY DEF Cut
<1>1. /\ Len(d) <= n /\ Len(d) \in Nat /\ \A i \in 1 .. Len(d) : d[i] = <<f, i>>
      /\ Len(d) = n \/ (e /\ f = Len(F))
  BY <1>0 DEF Cut, Whole
<1>2. \A i \in 1 .. Len(d) : i \in 1 .. n /\ d[i] = p[i]
  <2>1. PICK l : l = Len(d)
    OBVIOUS
  <2>2. l \in Nat /\ n \in Nat /\ l <= n
    BY <1>0, <1>1, <2>1
  <2>3. \A i \in 1 .. l : i \in 1 .. n
    BY ONLY <2>2
  <2>. QED
    BY <1>0, <1>1, <2>1, <2>3
<1>3. CASE Len(d) = n
  <2>1. d = p
    BY <1>0, <1>2, <1>3, SameSeq
  <2>. QED
    BY <2>1
<1>4. CASE e /\ f = Len(F)
  <2>1. PICK m : m = Len(d)
    OBVIOUS
  <2>2. /\ 1 \in 1 .. Len(d) + 1 /\ m \in 1 - 1 .. Len(d)
        /\ 1 \in 1 .. Len(p) + 1 /\ m \in 1 - 1 .. Len(p)
    BY <1>0, <1>1, <2>1
  <2>3. /\ SubSeq(d, 1, m) \in Seq(Unit) /\ Len(SubSeq(d, 1, m)) = m - 1 + 1
        /\ \A i \in 1 .. m - 1 + 1 : SubSeq(d, 1, m)[i] = d[1 + i - 1]
    BY <1>0, <2>2, SubSeqFacts
  <2>4. /\ SubSeq(p, 1, m) \in Seq(Unit) /\ Len(SubSeq(p, 1, m)) = m - 1 + 1
        /\ \A i \in 1 .. m - 1 + 1 : SubSeq(p, 1, m)[i] = p[1 + i - 1]
    BY <1>0, <2>2, SubSeqFacts
  <2>5. m - 1 + 1 = m /\ \A i \in 1 .. m : 1 + i - 1 = i
    BY <1>1, <2>1
  <2>6. \A i \in 1 .. m : SubSeq(d, 1, m)[i] = SubSeq(p, 1, m)[i]
    BY <1>2, <2>1, <2>3, <2>4, <2>5
  <2>7. SubSeq(d, 1, m) = SubSeq(p, 1, m)
    BY <2>3, <2>4, <2>5, <2>6, SameSeq
  <2>. QED
    BY <1>0, <1>1, <1>4, <2>1, <2>7 DEF IsPrefix
<1>. QED
  BY <1>1, <1>3, <1>4

LEMMA PayloadOf ==
    ASSUME ReadTypes, NEW f \in 1 .. Len(frames)
    PROVE  /\ Payload(f) \in Seq(Unit) /\ Len(Payload(f)) = frames[f].len
           /\ \A i \in 1 .. frames[f].len : Payload(f)[i] = <<f, i>>
<1>1. PICK z : z = frames[f].len
  OBVIOUS
<1>2. z \in Nat /\ f \in Int
  BY <1>1, FrameFacts
<1>3. Payload(f) = [i \in 1 .. z |-> <<f, i>>]
  BY <1>1 DEF Payload
<1>4. \A i \in 1 .. z : <<f, i>> \in Unit
  BY <1>2 DEF Unit
<1>. QED
  BY <1>1, <1>2, <1>3, <1>4

\* one message of Receive
LEMMA ReceivedIntact ==
    ASSUME ReadTypes, server \in BOOLEAN, Stream, Current, Messages,
           NEW i \in 1 .. Len(delivered), NEW f, f = delivered[i].id
    PROVE  /\ f \in DOMAIN frames /\ 0 < f
           /\ \A j \in 1 .. i - 1 : delivered[j].id < f
           /\ \/ delivered[i].data = Payload(f)
              \/ Truncated(f) /\ IsPrefix(delivered[i].data, Payload(f))
           /\ KindOk(frames, server, f, delivered[i].kind)
           /\ \A g \in 1 .. f - 1 :
                 \/ \E j \in 1 .. i - 1 : delivered[j].id = g
                 \/ \E j \in DOMAIN taken : taken[j][1] = g
                 \/ Skipped(frames, server, g)
<1>1. PICK p : p = Pos
  OBVIOUS
<1>2. p \in Nat /\ p <= Len(frames) /\ Len(frames) \in Nat /\ Pos = p
  BY <1>1, PosFacts
<1>3. /\ f \in 1 .. p /\ (frame # NoFrame => f < p)
      /\ Fine(frames, server, eof, delivered[i])
      /\ \A j \in 1 .. i - 1 : delivered[j].id < f
  BY <1>2 DEF Messages
<1>4. f \in 1 .. Len(frames) /\ f \in DOMAIN frames /\ 0 < f /\ f \in Nat
  BY <1>2, <1>3, FrameFacts
<1>5. PICK S : S = [id : Nat, kind : Kinds \cup {"none"}, data : Seq(Unit)]
  OBVIOUS
<1>6. delivered \in Seq(S)
  BY <1>5 DEF ReadTypes
<1>7. delivered[i] \in S /\ Len(delivered) \in Nat
  BY <1>6, SeqFacts
<1>8. delivered[i].data \in Seq(Unit)
  BY <1>5, <1>7
<1>9. PICK d : d = delivered[i].data
  OBVIOUS
<1>10. Whole(frames, eof, f, d, frames[f].len) /\ KindOk(frames, server, f, delivered[i].kind)
  BY <1>3, <1>9 DEF Fine
<1>11. d = Payload(f) \/ (Truncated(f) /\ IsPrefix(d, Payload(f)))
  <2>1. frames[f].len \in Nat /\ d \in Seq(Unit)
    BY <1>4, <1>8, <1>9, FrameFacts
  <2>2. PICK y : y = Payload(f)
    OBVIOUS
  <2>3. PICK n : n = frames[f].len
    OBVIOUS
  <2>4. /\ y \in Seq(Unit) /\ Len(y) = n /\ \A k \in 1 .. n : y[k] = <<f, k>>
    BY <1>4, <2>2, <2>3, PayloadOf
  <2>5. Cut(frames, eof, f, d, n, y)
    BY <1>10, <2>1, <2>3, <2>4 DEF Cut
  <2>6. d = y \/ (f = Len(frames) /\ eof /\ IsPrefix(d, y))
    BY <2>5, WholePrefix
  <2>. QED
    BY <2>2, <2>6 DEF Truncated
<1>12. ASSUME NEW g \in 1 .. f - 1
       PROVE  \/ \E j \in 1 .. i - 1 : delivered[j].id = g
              \/ \E j \in DOMAIN taken : taken[j][1] = g
              \/ Skipped(frames, server, g)
  <2>1. g \in 1 .. p /\ g < f /\ f <= p /\ g # 0 /\ g \in Nat
    BY <1>2, <1>3, <1>4
  <2>2. g # frame.id
    <3>1. CASE frame = NoFrame
      BY <2>1, <3>1, FrameFacts
    <3>2. CASE frame # NoFrame
      BY <1>2, <1>4, <2>1, <3>2 DEF Current
    <3>. QED
      BY <3>1, <3>2
  <2>3. Begun(taken, g) \/ Told(delivered, g) \/ Skipped(frames, server, g)
    BY <1>2, <2>1, <2>2 DEF Messages
  <2>4. CASE Told(delivered, g)
    <3>1. PICK j \in 1 .. Len(delivered) : delivered[j].id = g
      BY <2>4 DEF Told
    <3>2. j # i
      BY <1>4, <2>1, <3>1
    <3>3. CASE j > i
      <4>1. i \in 1 .. j - 1
        BY <1>7, <3>3
      <4>2. delivered[i].id < delivered[j].id
        BY <3>1, <4>1 DEF Messages
      <4>. QED
        BY <1>4, <2>1, <3>1, <4>2
    <3>4. CASE j < i
      <4>1. j \in 1 .. i - 1
        BY <1>7, <3>4
      <4>. QED
        BY <3>1, <4>1
    <3>. QED
      BY <1>7, <3>2, <3>3, <3>4
  <2>5. CASE Begun(taken, g)
    <3>1. DOMAIN taken = 1 .. Len(taken)
      BY DEF ReadTypes
    <3>. QED
      BY <2>5, <3>1 DEF Begun
  <2>. QED
    BY <2>3, <2>4, <2>5
<1>. QED
  BY <1>3, <1>4, <1>9, <1>10, <1>11, <1>12

\* what Intact says of a message m of frame f
Right(m, f, before, begun, earlier) ==
    /\ f \in DOMAIN frames /\ \A g \in before : g < f
    /\ m.data = Payload(f) \/ (Truncated(f) /\ IsPrefix(m.data, Payload(f)))
    /\ frames[f].kind \in DataKinds \cup {"reserved"} => m.kind = frames[f].kind
    /\ frames[f].kind = "continuation" =>
          \/ earlier = {} /\ m.kind = "none"
          \/ \E g \in earlier : /\ \A h \in earlier : h <= g
                                /\ m.kind = frames[g].kind
    /\ \A g \in 1 .. f - 1 :
          \/ g \in before \cup begun \/ frames[g].len = 0
          \/ frames[g].kind \in ControlKinds \cup {"close"}
          \/ Misunderstood(frames[g])

LEMMA InvIntact ==
    ASSUME IInv
    PROVE  Intact
<1>1. ReadTypes /\ server \in BOOLEAN
  BY DEF IInv, Typed
<1>2. ASSUME ~lost, NEW i \in DOMAIN delivered, NEW f, f = delivered[i].id,
             NEW before, before = {0} \cup {delivered[j].id : j \in 1 .. i - 1},
             NEW begun, begun = {taken[j][1] : j \in DOMAIN taken},
             NEW earlier, earlier = {g \in 1 .. f : /\ frames[g].kind \in DataKinds
                                                    /\ ~Misunderstood(frames[g])}
      PROVE  Right(delivered[i], f, before, begun, earlier)
  <2>1. Stream /\ Current /\ Messages
    BY <1>2 DEF IInv, InStep
  <2>2. i \in 1 .. Len(delivered)
    BY <1>1, <1>2 DEF ReadTypes
  <2>3. /\ f \in DOMAIN frames /\ 0 < f
        /\ \A j \in 1 .. i - 1 : delivered[j].id < f
        /\ \/ delivered[i].data = Payload(f)
           \/ Truncated(f) /\ IsPrefix(delivered[i].data, Payload(f))
        /\ KindOk(frames, server, f, delivered[i].kind)
        /\ \A g \in 1 .. f - 1 :
              \/ \E j \in 1 .. i - 1 : delivered[j].id = g
              \/ \E j \in DOMAIN taken : taken[j][1] = g
              \/ Skipped(frames, server, g)
    BY <1>1, <1>2, <2>1, <2>2, ReceivedIntact
  <2>4. \A g \in before : g < f
    BY <1>2, <2>3
  <2>5. frames[f].kind \in DataKinds \cup {"reserved"} =>
           delivered[i].kind = frames[f].kind
    BY <2>3 DEF KindOk, DataKinds
  <2>6. earlier = {g \in 1 .. f : Heard(frames, server, g)}
    BY <1>2 DEF Heard, Misunderstood
  <2>7. ASSUME frames[f].kind = "continuation"
        PROVE  \/ earlier = {} /\ delivered[i].kind = "none"
               \/ \E g \in earlier : /\ \A h \in earlier : h <= g
                                     /\ delivered[i].kind = frames[g].kind
    <3>1. Meant(frames, server, f, delivered[i].kind)
      BY <2>3, <2>7 DEF KindOk
    <3>. QED
      BY <2>6, <3>1 DEF Meant
  <2>8. ASSUME NEW g \in 1 .. f - 1
        PROVE  \/ g \in before \cup begun \/ frames[g].len = 0
               \/ frames[g].kind \in ControlKinds \cup {"close"}
               \/ Misunderstood(frames[g])
    BY <1>2, <2>3 DEF Skipped, Misunderstood
  <2>. QED
    BY <2>3, <2>4, <2>5, <2>7, <2>8 DEF Right
<1>3. ASSUME ~lost, NEW j \in DOMAIN taken, taken[j][2] > 0
      PROVE  j > 1 /\ taken[j - 1] = <<taken[j][1], taken[j][2] - 1>>
  <2>1. Joined(taken) /\ DOMAIN taken = 1 .. Len(taken)
    BY <1>1, <1>3 DEF IInv, InStep, Messages, ReadTypes
  <2>. QED
    BY <1>3, <2>1 DEF Joined
<1>4. ASSUME ~lost, NEW i \in DOMAIN delivered
      PROVE  Right(delivered[i], delivered[i].id,
                   {0} \cup {delivered[j].id : j \in 1 .. i - 1},
                   {taken[j][1] : j \in DOMAIN taken},
                   {g \in 1 .. delivered[i].id : /\ frames[g].kind \in DataKinds
                                                 /\ ~Misunderstood(frames[g])})
  BY <1>2, <1>4
<1>. QED
  BY <1>3, <1>4 DEF Intact, Right

(***************************************************************************)
(* Until a call gives up inside a frame, Receive returns whole messages in *)
(* order and with their type, none is skipped that Read has not begun, and *)
(* Read goes on where it stopped: whatever the peer sends, with any number *)
(* of goroutines, and at every interleaving, timeout and close.            *)
(***************************************************************************)
THEOREM IntactAlways == Spec => []Intact
<1>1. IInv => Intact
  BY InvIntact
<1>. QED
  BY <1>1, Inductive, PTL

-----------------------------------------------------------------------------
(* What the peer gets *)

\* what goes back of the payload of f
Cap(f) == IF frames[f].len <= MaxControl THEN Payload(f)
          ELSE SubSeq(Payload(f), 1, MaxControl)

\* what OutboundWhole says of write w, which is among the pongs
Pong(w, pongs) ==
    LET f == writes[w].of
    IN  /\ frames[f].kind = "ping" /\ ~Misunderstood(frames[f])
        /\ \/ writes[w].data = Cap(f)
           \/ Truncated(f) /\ IsPrefix(writes[w].data, Cap(f))
        /\ \A v \in pongs : v < w => writes[v].of < f

LEMMA PongWhole ==
    ASSUME ReadTypes, Typed, Stream, Pongs, NEW w \in 1 .. Len(writes),
           writes[w].kind = "pong", NEW pongs,
           \A v \in pongs : v \in 1 .. Len(writes) /\ writes[v].kind = "pong"
    PROVE  Pong(w, pongs)
<1>0. PICK f : f = writes[w].of
  OBVIOUS
<1>16. PICK whole : whole = Cap(f)
  OBVIOUS
<1>1. PICK p : p = Pos
  OBVIOUS
<1>2. p \in Nat /\ p <= Len(frames) /\ Len(frames) \in Nat /\ Pos = p
  BY <1>1, PosFacts
<1>3. /\ f \in 1 .. p /\ Answered(frames, server, eof, writes[w])
      /\ \A v \in 1 .. w - 1 : writes[v].kind = "pong" => writes[v].of < f
  BY <1>0, <1>2 DEF Pongs
<1>4. f \in 1 .. Len(frames)
  BY <1>2, <1>3
<1>5. PICK z : z = frames[f].len
  OBVIOUS
<1>6. z \in Nat /\ MaxControl \in Nat
  BY <1>4, <1>5, FrameFacts, WebSocketAssumption
<1>7. PICK n : n = IF z <= MaxControl THEN z ELSE MaxControl
  OBVIOUS
<1>8. n \in Nat /\ (z > MaxControl => n = MaxControl)
  BY <1>6, <1>7
<1>9. PICK d : d = writes[w].data
  OBVIOUS
<1>10. d \in Seq(Unit)
  BY <1>9, WritesFacts DEF Typed
<1>11. /\ frames[f].kind = "ping" /\ frames[f].masked = server
       /\ Whole(frames, eof, f, d, n)
  BY <1>0, <1>3, <1>5, <1>7, <1>9 DEF Answered
<1>12. PICK y : y = Payload(f)
  OBVIOUS
<1>13. y \in Seq(Unit) /\ Len(y) = z /\ \A i \in 1 .. z : y[i] = <<f, i>>
  BY <1>4, <1>5, <1>12, PayloadOf
<1>14. whole \in Seq(Unit) /\ Len(whole) = n /\ \A i \in 1 .. n : whole[i] = <<f, i>>
  <2>1. CASE z <= MaxControl
    BY <1>5, <1>7, <1>12, <1>13, <1>16, <2>1 DEF Cap
  <2>2. CASE ~(z <= MaxControl)
    <3>1. /\ 1 \in 1 .. Len(y) + 1 /\ MaxControl \in 1 - 1 .. Len(y)
          /\ MaxControl - 1 + 1 = MaxControl
          /\ \A i \in 1 .. MaxControl : 1 + i - 1 = i /\ i \in 1 .. z
      BY <1>6, <1>13, <2>2
    <3>2. /\ SubSeq(y, 1, MaxControl) \in Seq(Unit)
          /\ Len(SubSeq(y, 1, MaxControl)) = MaxControl - 1 + 1
          /\ \A i \in 1 .. MaxControl - 1 + 1 :
                SubSeq(y, 1, MaxControl)[i] = y[1 + i - 1]
      BY <1>13, <3>1, SubSeqFacts
    <3>3. whole = SubSeq(y, 1, MaxControl) /\ n = MaxControl
      BY <1>5, <1>7, <1>12, <1>16, <2>2 DEF Cap
    <3>4. \A i \in 1 .. MaxControl : SubSeq(y, 1, MaxControl)[i] = <<f, i>>
      BY <1>13, <3>1, <3>2
    <3>. QED
      BY <3>1, <3>2, <3>3, <3>4
  <2>. QED
    BY <2>1, <2>2
<1>15. d = whole \/ (f = Len(frames) /\ eof /\ IsPrefix(d, whole))
  <2>1. Cut(frames, eof, f, d, n, whole)
    BY <1>8, <1>10, <1>11, <1>14 DEF Cut
  <2>. QED
    BY <2>1, WholePrefix
<1>17. \A v \in pongs : v < w => writes[v].of < f
  <2>1. ASSUME NEW v \in pongs, v < w PROVE v \in 1 .. w - 1
    <3>1. v \in Nat /\ v >= 1 /\ w \in Nat
      OBVIOUS
    <3>. QED
      BY <2>1, <3>1
  <2>. QED
    BY <1>3, <2>1
<1>. QED
  BY <1>0, <1>9, <1>11, <1>15, <1>16, <1>17 DEF Pong, Truncated, Misunderstood

LEMMA InvOutboundWhole ==
    ASSUME IInv
    PROVE  OutboundWhole
<1>1. Typed /\ ReadTypes /\ WriteTypes /\ Framed /\ DOMAIN writes = 1 .. Len(writes)
      /\ Len(writes) \in Nat
  BY WritesFacts DEF IInv, Typed, Outbound
<1>2. PICK begins : begins = {i \in DOMAIN outbox : outbox[i][2] = 0}
  OBVIOUS
<1>3. PICK sent : sent = {outbox[i][1] : i \in begins}
  OBVIOUS
<1>4. PICK pongs : pongs = {w \in sent : writes[w].kind = "pong"}
  OBVIOUS
<1>5. \A w \in pongs : w \in 1 .. Len(writes) /\ writes[w].kind = "pong"
  BY <1>1, <1>2, <1>3, <1>4 DEF Framed
<1>6. ASSUME NEW i \in DOMAIN outbox
      PROVE  IF i \in begins
             THEN \/ i = 1
                  \/ outbox[i - 1][2] = Len(writes[outbox[i - 1][1]].data)
             ELSE i > 1 /\ outbox[i - 1] = <<outbox[i][1], outbox[i][2] - 1>>
  <2>1. i \in Nat /\ i >= 1
    BY <1>1 DEF WriteTypes
  <2>. QED
    BY <1>1, <1>2, <2>1 DEF Framed, Size
<1>7. ASSUME ~lost, NEW w \in pongs
      PROVE  Pong(w, pongs)
  <2>1. Stream /\ Pongs
    BY <1>7 DEF IInv, InStep
  <2>. QED
    BY <1>1, <1>5, <2>1, PongWhole
<1>. QED
  BY <1>2, <1>3, <1>4, <1>6, <1>7 DEF OutboundWhole, Pong, Cap

(***************************************************************************)
(* However many goroutines write and whatever the reader answers to pings  *)
(* meanwhile, the peer gets whole frames, nothing follows a write that     *)
(* failed, and a ping is answered once at most, in order, with what it     *)
(* carried.                                                                *)
(***************************************************************************)
THEOREM OutboundAlwaysWhole == Spec => []OutboundWhole
<1>1. IInv => OutboundWhole
  BY InvOutboundWhole
<1>. QED
  BY <1>1, Inductive, PTL
=============================================================================
