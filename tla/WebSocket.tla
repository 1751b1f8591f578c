------------------------------ MODULE WebSocket ------------------------------
(***************************************************************************)
(* One end of a WebSocket (net/websocket/websocket.go, hybi.go): a Conn    *)
(* made by a handshake, the goroutines that Receive, Read, Write and Close *)
(* it, and its peer.                                                       *)
(*                                                                         *)
(* What the peer sends is a sequence of <<f, 0>> for the header of frame f *)
(* (the header stands or falls as a unit) and <<f, i>> for byte i of its   *)
(* payload; what the Conn sends is the same over its writes.               *)
(***************************************************************************)
EXTENDS WebSocketHandshake, Integers

CONSTANTS
    Readers, Writers, Closers,  \* goroutines, by what they call
    NoOne,
    Frames,             \* frames the peer may send
    MaxControl,         \* maxControlFramePayloadLength
    MaxEvents   \* bound: frames sent, calls made, and failures of the environment

Threads == Readers \cup Writers \cup Closers
DataKinds == {"text", "binary"}
ControlKinds == {"ping", "pong"}
Kinds == DataKinds \cup ControlKinds \cup {"continuation", "close", "reserved"}

ASSUME WebSocketAssumption ==
    /\ NoOne \notin Threads
    /\ Readers \cap (Writers \cup Closers) = {}
    /\ Frames \subseteq [kind : Kinds, masked : BOOLEAN, len : Nat]
    /\ MaxControl \in Nat

VARIABLES
    server,             \* IsServerConn
    rio, wio,           \* holders of the two mutexes
    pc, call,           \* of each goroutine
    inbox, eof,         \* sent by the peer and not yet read; it has closed
    frame,              \* the frame being read: its number, kind, bytes left
    kept,               \* it is ws.frameReader, which outlives a call
    got,                \* what the call has read of the frame
    payloadType,        \* handler.payloadType
    buffered, outbox,   \* in the bufio.Writer; given to the network
    werr,               \* the error the bufio.Writer keeps
    peerReads, rwcClosed,
    events,             \* counted against the bound
    \* history, read by the properties and by no guard:
    frames,             \* what the peer has sent
    writes,             \* what was put in the bufio.Writer
    delivered,          \* messages returned by Receive
    taken,              \* frames Read has taken up, and the bytes it returned
                        \* or a Receive that gave up had dropped
    lost                \* a call has left the stream inside a frame

inVars == <<inbox, eof, frames>>
readVars == <<frame, kept, got, payloadType, delivered, taken, lost>>
outVars == <<buffered, outbox, werr, writes>>
envVars == <<server, peerReads, rwcClosed, events>>
callVars == <<pc, call>>
connVars == <<rio, wio, callVars, inVars, readVars, outVars, envVars>>
vars == <<hs, connVars>>

Event == events < MaxEvents /\ events' = events + 1

NoFrame == [id |-> 0, kind |-> "none", left |-> 0]

Init ==
    /\ HandshakeInit
    /\ server \in BOOLEAN
    /\ rio = NoOne /\ wio = NoOne
    /\ pc = [t \in Threads |-> "idle"] /\ call = [t \in Threads |-> "none"]
    /\ inbox = <<>> /\ eof = FALSE
    /\ frame = NoFrame /\ kept = FALSE /\ got = <<>> /\ payloadType = "none"
    /\ buffered = <<>> /\ outbox = <<>> /\ werr = FALSE
    /\ peerReads = TRUE /\ rwcClosed = FALSE /\ events = 0
    /\ frames = <<>> /\ writes = <<>> /\ delivered = <<>> /\ taken = <<>>
    /\ lost = FALSE

-----------------------------------------------------------------------------
(* The peer *)

Payload(f) == [i \in 1 .. frames[f].len |-> <<f, i>>]

\* a frame, or the first units of one and the end of the stream
PeerSends ==
    /\ Event /\ ~eof
    /\ \E fr \in Frames :
         /\ frames' = Append(frames, fr)
         /\ \E n \in 1 .. fr.len + 1 :
              /\ inbox' = inbox \o [i \in 1 .. n |-> <<Len(frames'), i - 1>>]
              /\ eof' = (n <= fr.len)
    /\ UNCHANGED <<rio, wio, callVars, readVars, outVars, server, peerReads,
                   rwcClosed>>

PeerCloses ==
    /\ ~eof /\ eof' = TRUE
    /\ UNCHANGED <<rio, wio, callVars, inbox, frames, readVars, outVars, envVars>>

PeerStopsReading ==
    /\ Event /\ peerReads
    /\ peerReads' = FALSE
    /\ UNCHANGED <<rio, wio, callVars, inVars, readVars, outVars, server,
                   rwcClosed>>

-----------------------------------------------------------------------------
(* Calls.  A Codec's Send and Write differ in the payload type alone. *)

Goto(t, l) == pc' = [pc EXCEPT ![t] = l]

Call(t) ==
    /\ Event /\ pc[t] = "idle"
    /\ \/ /\ t \in Readers
          /\ \E c \in {"receive", "read"} : call' = [call EXCEPT ![t] = c]
          /\ Goto(t, "rlock")
       \/ /\ t \in Writers \cup Closers
          /\ call' = [call EXCEPT ![t] = IF t \in Writers THEN "write" ELSE "close"]
          /\ Goto(t, "wlock")
    /\ UNCHANGED <<rio, wio, inVars, readVars, outVars, server, peerReads,
                   rwcClosed>>

ReadsOn(t) == "header"  \* mutant: Receive does not drop the frame half read
FirstStep(t) == CASE ~kept                        -> "header"
                  [] kept /\ call[t] = "receive"  -> "discard"
                  [] kept /\ call[t] # "receive"  -> "payload"

RLock(t) ==
    /\ pc[t] = "rlock" /\ rio = NoOne
    /\ rio' = t
    /\ Goto(t, FirstStep(t))
    /\ UNCHANGED <<wio, call, inVars, readVars, outVars, envVars>>

\* a call that reads returns: rio is unlocked and only ws.frameReader stays
Return(t, keep) ==
    /\ rio' = NoOne
    /\ Goto(t, "idle") /\ call' = [call EXCEPT ![t] = "none"]
    /\ kept' = keep
    /\ frame' = IF keep THEN frame ELSE NoFrame
    /\ got' = <<>>

\* the frame is read, or dropped: on to the next
Again(t) ==
    /\ Goto(t, "header")
    /\ frame' = NoFrame /\ kept' = FALSE /\ got' = <<>>
    /\ UNCHANGED <<rio, call>>

\* io.EOF from a frame: its LimitReader is at 0, or the stream has ended
FrameEnds == frame.left = 0 \/ (eof /\ inbox = <<>>)

\* io.ReadAll and the like take what has come, n bytes at most
Take(n) ==
    \E k \in 1 .. n :
       /\ k <= frame.left /\ k <= Len(inbox)
       /\ frame' = [frame EXCEPT !.left = @ - k]
       /\ inbox' = SubSeq(inbox, k + 1, Len(inbox))
       /\ got' = got \o SubSeq(inbox, 1, k)

-----------------------------------------------------------------------------
(* NewFrameReader and HandleFrame *)

\* a header is what the peer sent if the stream is at one; anything if not
HeadersAt(u) == IF u[2] = 0 THEN {<<u[1], frames[u[1]]>>}
                ELSE {0} \X Frames

Misunderstood(fr) == fr.masked # server

\* the type of a continuation is that of the last text or binary frame
TypeOf(kind) == IF kind = "continuation" THEN payloadType ELSE kind

HandleFrame(t, id, fr) ==
    /\ payloadType' = IF ~Misunderstood(fr) /\ fr.kind \in DataKinds
                      THEN fr.kind ELSE payloadType
    /\ CASE Misunderstood(fr) ->    \* WriteClose, then io.EOF
              /\ Goto(t, "wlock") /\ call' = [call EXCEPT ![t] = "refuse"]
              /\ lost' = (lost \/ fr.len > 0)
              /\ UNCHANGED <<rio, frame, kept, got, taken>>
         [] ~Misunderstood(fr) /\ fr.kind = "close" ->
              /\ Return(t, FALSE)
              /\ lost' = (lost \/ fr.len > 0)
              /\ UNCHANGED taken
         [] OTHER ->
              /\ frame' = [id |-> id, kind |-> TypeOf(fr.kind), left |-> fr.len]
              /\ kept' = (call[t] = "read" /\ fr.kind \notin ControlKinds)
              /\ taken' = IF kept' THEN Append(taken, <<id, 0>>) ELSE taken
              /\ Goto(t, IF fr.kind \in ControlKinds THEN "control"
                         ELSE "payload")
              /\ got' = <<>>
              /\ UNCHANGED <<rio, call, lost>>

ReadHeader(t) ==
    /\ pc[t] = "header" /\ inbox # <<>>
    /\ \E h \in HeadersAt(Head(inbox)) : HandleFrame(t, h[1], h[2])
    /\ inbox' = Tail(inbox)
    /\ UNCHANGED <<wio, eof, frames, delivered, outVars, envVars>>

\* a ping or a pong: up to MaxControl bytes are read and the rest is dropped
ReadControl(t) ==
    /\ pc[t] = "control"
    /\ \/ /\ Len(got) < MaxControl /\ Take(MaxControl - Len(got))
          /\ UNCHANGED <<rio, pc, call, kept>>
       \/ /\ Len(got) >= MaxControl /\ Take(frame.left)
          /\ UNCHANGED <<rio, pc, call, kept>>
       \/ /\ FrameEnds
          /\ IF frame.kind = "ping"
             THEN Goto(t, "wlock") /\ UNCHANGED <<rio, call, frame, kept, got>>
             ELSE Again(t)
          /\ UNCHANGED inbox
    /\ UNCHANGED <<wio, eof, frames, payloadType, delivered, taken, lost,
                   outVars, envVars>>

-----------------------------------------------------------------------------
(* The payload *)

Discard(t) ==
    /\ pc[t] = "discard"
    /\ \/ Take(frame.left) /\ UNCHANGED <<rio, pc, call, kept>>
       \/ FrameEnds /\ Again(t) /\ UNCHANGED inbox
    /\ UNCHANGED <<wio, eof, frames, payloadType, delivered, taken, lost,
                   outVars, envVars>>

\* Codec.Receive returns what ReadAll read
Receive(t) ==
    /\ pc[t] = "payload" /\ call[t] = "receive"
    /\ \/ Take(frame.left) /\ UNCHANGED <<rio, pc, call, kept, delivered>>
       \/ /\ FrameEnds
          /\ delivered' = Append(delivered, [id |-> frame.id,
                                             kind |-> frame.kind, data |-> got])
          /\ Return(t, FALSE)
          /\ UNCHANGED inbox
    /\ UNCHANGED <<wio, eof, frames, payloadType, taken, lost,
                   outVars, envVars>>

\* Read returns the next byte of the frame it keeps
Read(t) ==
    /\ pc[t] = "payload" /\ call[t] = "read"
    /\ \/ /\ frame.left > 0 /\ inbox # <<>>
          /\ taken' = Append(taken, Head(inbox))
          /\ inbox' = Tail(inbox)
          /\ frame' = [frame EXCEPT !.left = @ - 1]
          /\ rio' = NoOne /\ Goto(t, "idle")
          /\ call' = [call EXCEPT ![t] = "none"]
          /\ UNCHANGED <<kept, got>>
       \/ FrameEnds /\ Again(t) /\ UNCHANGED <<inbox, taken>>
    /\ UNCHANGED <<wio, eof, frames, payloadType, delivered, lost,
                   outVars, envVars>>

\* a read from the network fails.  A frame that is ws.frameReader can be read
\* on later, after what a Receive has dropped; any other is forgotten.  In the part of a ping or pong that is
\* dropped the error is ignored
FailRead(t) ==
    /\ IF pc[t] = "control" /\ Len(got) >= MaxControl
       THEN /\ IF frame.kind = "ping"
               THEN Goto(t, "wlock") /\ UNCHANGED <<rio, call, frame, kept, got>>
               ELSE Again(t)
            /\ lost' = (lost \/ frame.left > 0)
            /\ UNCHANGED <<inbox, taken>>
       ELSE /\ Return(t, kept)
            /\ taken' = IF kept THEN taken \o got ELSE taken
            /\ \/ ~kept /\ frame.left > 0 /\ lost' = TRUE /\ UNCHANGED inbox
               \/ (kept \/ frame.left = 0) /\ UNCHANGED <<inbox, lost>>
               \/ /\ pc[t] = "header" /\ inbox # <<>>   \* half a header read
                  /\ inbox' = <<<<Head(inbox)[1], -1>>>> \o Tail(inbox)
                  /\ lost' = TRUE
    /\ UNCHANGED <<wio, eof, frames, payloadType, delivered, outVars>>

Reading(t) == pc[t] \in {"header", "control", "discard", "payload"}
NeedsBytes(t) == pc[t] = "header" \/ (Reading(t) /\ frame.left > 0)

ReadFails(t) ==
    /\ NeedsBytes(t)
    /\ rwcClosed \/ (eof /\ inbox = <<>>)     \* in a frame: a reset
    /\ FailRead(t)
    /\ UNCHANGED envVars

ReadTimesOut(t) ==
    /\ NeedsBytes(t) /\ Event
    /\ FailRead(t)
    /\ UNCHANGED <<server, peerReads, rwcClosed>>

-----------------------------------------------------------------------------
(* A frame is written: by Write, WriteClose or WritePong *)

MayWriteAlways(t) == TRUE   \* mutant: no wio
MayWrite(t) == wio = NoOne

\* the bytes of a ping that go back in the pong; a close has a status
Echoed == IF Len(got) > MaxControl THEN SubSeq(got, 1, MaxControl) ELSE got

WriteOf(t) == IF t \in Readers /\ call[t] # "refuse"
              THEN [by |-> t, kind |-> "pong", of |-> frame.id, data |-> Echoed]
              ELSE [by |-> t, kind |-> call[t], of |-> 0, data |-> <<<<0, 1>>>>]

\* the mutex is locked and the header goes to the bufio.Writer
WLock(t) ==
    /\ pc[t] = "wlock" /\ MayWrite(t)
    /\ wio' = t
    /\ writes' = Append(writes, WriteOf(t))
    /\ buffered' = IF werr THEN buffered
                   ELSE Append(buffered, <<Len(writes'), 0>>)
    /\ Goto(t, "wpayload")
    /\ UNCHANGED <<rio, call, inVars, readVars, outbox, werr, envVars>>

OwnWrite(t) == CHOOSE w \in DOMAIN writes :
                  /\ writes[w].by = t
                  /\ \A v \in DOMAIN writes : writes[v].by = t => v <= w

WithPayload(t) == buffered \o [i \in DOMAIN WriteOf(t).data |-> <<OwnWrite(t), i>>]

UnlockedOnSuccess(failed) == IF failed THEN wio ELSE NoOne
                            \* mutant: no deferred Unlock
Unlocked(failed) == NoOne

\* wio is unlocked; on to the rest of the call
AfterWrite(t, failed) ==
    /\ wio' = Unlocked(failed)
    /\ CASE call[t] = "close" -> /\ Goto(t, "rwc")
                                 /\ UNCHANGED <<rio, call, frame, kept, got>>
         [] call[t] = "write" -> /\ Goto(t, "idle")
                                 /\ call' = [call EXCEPT ![t] = "none"]
                                 /\ UNCHANGED <<rio, frame, kept, got>>
         [] call[t] = "refuse" \/ (t \in Readers /\ failed) -> Return(t, FALSE)
         [] OTHER -> Again(t)
    /\ UNCHANGED <<inVars, payloadType, delivered, taken, lost, writes>>

WritePayload(t) ==
    /\ pc[t] = "wpayload" /\ ~werr /\ ~rwcClosed /\ peerReads
    /\ outbox' = outbox \o WithPayload(t)
    /\ buffered' = <<>>
    /\ AfterWrite(t, FALSE)
    /\ UNCHANGED <<werr, envVars>>

StaysUsable == FALSE    \* mutant: the writer is used again after an error
Sticks == TRUE

\* nothing, or the first part of what is buffered, has gone out
FailWrite(t) ==
    /\ pc[t] = "wpayload"
    /\ IF werr THEN UNCHANGED <<outbox, werr, buffered>>
       ELSE /\ \E n \in 0 .. Len(WithPayload(t)) - 1 :
                  /\ n > 0 => ~rwcClosed
                  /\ outbox' = outbox \o SubSeq(WithPayload(t), 1, n)
            /\ werr' = Sticks /\ buffered' = <<>>
    /\ AfterWrite(t, TRUE)

WriteFails(t) ==
    /\ werr \/ rwcClosed \/ eof
    /\ FailWrite(t)
    /\ UNCHANGED envVars

WriteTimesOut(t) ==
    /\ ~werr /\ Event
    /\ FailWrite(t)
    /\ UNCHANGED <<server, peerReads, rwcClosed>>

CloseRwc(t) ==
    /\ pc[t] = "rwc"
    /\ rwcClosed' = TRUE
    /\ Goto(t, "idle") /\ call' = [call EXCEPT ![t] = "none"]
    /\ UNCHANGED <<rio, wio, inVars, readVars, outVars, server,
                   peerReads, events>>

\* the Handler returns, and serveWebSocket closes the connection: no mutex
HandlerReturns ==
    /\ Event /\ server /\ ~rwcClosed
    /\ rwcClosed' = TRUE
    /\ UNCHANGED <<rio, wio, callVars, inVars, readVars, outVars, server,
                   peerReads>>

-----------------------------------------------------------------------------
ReadStep(t) == ReadHeader(t) \/ ReadControl(t) \/ Discard(t) \/ Receive(t)
               \/ Read(t) \/ ReadFails(t)
WriteStep(t) == WritePayload(t) \/ WriteFails(t) \/ CloseRwc(t)

ThreadStep(t) ==
    \/ Call(t) \/ RLock(t) \/ WLock(t) \/ ReadStep(t) \/ WriteStep(t)
    \/ ReadTimesOut(t) \/ WriteTimesOut(t)

ConnNext ==
    \/ PeerSends \/ PeerCloses \/ PeerStopsReading \/ HandlerReturns
    \/ \E t \in Threads : ThreadStep(t)

Next ==
    \/ HandshakeNext /\ UNCHANGED connVars
    \/ hs.stage = "open" /\ ConnNext /\ UNCHANGED hs

Spec == Init /\ [][Next]_vars

\* goroutines run, and sync.Mutex lets no waiter starve.  Nothing is assumed
\* of the peer, of callers, or of deadlines
FairSpec ==
    /\ Spec
    /\ \A t \in Threads : /\ SF_vars(WLock(t) /\ UNCHANGED hs)
                          /\ WF_vars(WriteStep(t) /\ UNCHANGED hs)
    /\ \A t \in Readers : /\ SF_vars(RLock(t) /\ UNCHANGED hs)
                          /\ WF_vars(ReadStep(t) /\ UNCHANGED hs)

-----------------------------------------------------------------------------
TypeOK ==
    /\ rio \in Readers \cup {NoOne} /\ wio \in Threads \cup {NoOne}
    /\ pc \in [Threads -> {"idle", "rlock", "header", "control", "discard",
                           "payload", "wlock", "wpayload", "rwc"}]
    /\ frame.left \in Nat /\ frame.id \in 0 .. Len(frames)
    /\ \A t \in Readers : Reading(t) => rio = t
    /\ \A t \in Threads : pc[t] = "wpayload" => wio = t
    /\ buffered # <<>> => wio # NoOne

Truncated(f) == f = Len(frames) /\ eof

(***************************************************************************)
(* What the reader gets is what the peer sent.  Until a call gives up      *)
(* inside a frame -- a deadline passes in a header or in a frame that is   *)
(* not Read's, or a frame with a payload is refused -- Receive returns     *)
(* whole messages in order, with their type, and skips none but those Read *)
(* has begun; Read's bytes go on where the last call stopped, a Receive    *)
(* that was dropping the frame included, past timeouts and pings.  One     *)
(* message may be cut short, without an error: the last one, of a peer     *)
(* that closed inside it.                                                  *)
(***************************************************************************)
Intact ==
    ~lost =>
      /\ \A i \in DOMAIN delivered :
           LET f == delivered[i].id
               before == {0} \cup {delivered[j].id : j \in 1 .. i - 1}
               begun == {taken[j][1] : j \in DOMAIN taken}
               earlier == {g \in 1 .. f : /\ frames[g].kind \in DataKinds
                                          /\ ~Misunderstood(frames[g])}
           IN  /\ f \in DOMAIN frames /\ \A g \in before : g < f
               /\ \/ delivered[i].data = Payload(f)
                  \/ Truncated(f) /\ IsPrefix(delivered[i].data, Payload(f))
               /\ frames[f].kind \in DataKinds \cup {"reserved"} =>
                     delivered[i].kind = frames[f].kind
               /\ frames[f].kind = "continuation" =>
                     \/ earlier = {} /\ delivered[i].kind = "none"
                     \/ \E g \in earlier : /\ \A h \in earlier : h <= g
                                           /\ delivered[i].kind = frames[g].kind
               /\ \A g \in 1 .. f - 1 :
                     \/ g \in before \cup begun \/ frames[g].len = 0
                     \/ frames[g].kind \in ControlKinds \cup {"close"}
                     \/ Misunderstood(frames[g])
      /\ \A j \in DOMAIN taken :
           taken[j][2] > 0 =>
              j > 1 /\ taken[j - 1] = <<taken[j][1], taken[j][2] - 1>>

(***************************************************************************)
(* However many goroutines write, and whatever the reader answers to pings *)
(* meanwhile, the peer gets whole frames: a frame is cut short only at the *)
(* end of the stream, for nothing follows a write that failed.  A ping is  *)
(* answered once at most, after the pings before it, with the first bytes  *)
(* of its payload.                                                         *)
(***************************************************************************)
OutboundWhole ==
    LET begins == {i \in DOMAIN outbox : outbox[i][2] = 0}
        sent == {outbox[i][1] : i \in begins}
        pongs == {w \in sent : writes[w].kind = "pong"}
    IN  /\ \A i \in DOMAIN outbox :
             IF i \in begins
             THEN \/ i = 1
                  \/ outbox[i - 1][2] = Len(writes[outbox[i - 1][1]].data)
             ELSE i > 1 /\ outbox[i - 1] = <<outbox[i][1], outbox[i][2] - 1>>
        /\ ~lost => \A w \in pongs :
             LET f == writes[w].of
                 whole == IF frames[f].len <= MaxControl THEN Payload(f)
                          ELSE SubSeq(Payload(f), 1, MaxControl)
             IN  /\ frames[f].kind = "ping" /\ ~Misunderstood(frames[f])
                 /\ \/ writes[w].data = whole
                    \/ Truncated(f) /\ IsPrefix(writes[w].data, whole)
                 /\ \A v \in pongs : v < w => writes[v].of < f

(***************************************************************************)
(* A call to write or to close returns unless the peer has stopped reading *)
(* -- Close does not interrupt a writer that is stuck, it waits behind it  *)
(* -- and a call to read returns once the peer has closed, unless it has a *)
(* ping to answer behind such a writer.  A Handler that returns, or a      *)
(* Close that got through, releases them all.                              *)
(***************************************************************************)
Stuck == ~peerReads /\ ~rwcClosed
CallsReturn ==
    \A t \in Threads :
       pc[t] # "idle" /\ (t \in Readers => eof \/ rwcClosed)
       ~> pc[t] = "idle" \/ Stuck
=============================================================================
