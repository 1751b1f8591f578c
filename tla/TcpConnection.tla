---------------------------- MODULE TcpConnection ----------------------------
(***************************************************************************)
(* One direction of a TcpConnection (net/tcp_connection.go) with the frame *)
(* writer and reader of its two ends (net/tcp_writer.go, tcp_reader.go).   *)
(* Goroutines call Send on one end: a frame is a head that holds the       *)
(* length and then the body, two writes under sendMutex.  The other end    *)
(* reads a head, waits for the rate limiter, and reads a body.             *)
(*                                                                         *)
(* The stream is a sequence of <<packet, 0>> for the head of a packet (its *)
(* four bytes stand or fall together) and <<packet, i>> for byte i of its  *)
(* body.                                                                   *)
(***************************************************************************)
EXTENDS Integers, Sequences

CONSTANTS
    Senders,            \* goroutines that send on the connection
    NoSender,
    MaxPackets,         \* bound: packets sent
    Sizes,              \* lengths of the packets
    DefaultPacketSize,  \* defaultPacketSize
    HeadModulus         \* the head holds a length modulo this (2^32)

ASSUME ConnectionAssumption ==
    /\ MaxPackets \in Nat /\ DefaultPacketSize \in Nat
    /\ HeadModulus \in Nat \ {0}
    /\ Sizes \subseteq 0 .. HeadModulus - 1 /\ Sizes # {}
    /\ NoSender \notin Senders

VARIABLES
    sendMutex,      \* the sender inside Send, or NoSender
    send, packet,   \* where each sender is, and the packet it sends
    size,           \* lengths of the packets sent so far
    sendErr,        \* err of the Send in progress
    stream,         \* written and not yet read
    closeFlag,      \* of the sending end; its connection is closed with it
    deadline,       \* has the sending end a write deadline?
    reading, need,  \* where the reader is, and the length it read
    bufLen,         \* length of the reader's buffer
    delivered,      \* bodies Receive has returned
    \* history, read by the properties and by no guard:
    order,          \* packets in the order their heads were written
    hooked,         \* packets OnDataOut was called for
    failures        \* packets whose Send failed

sendVars == <<sendMutex, send, packet, size, sendErr, closeFlag, deadline>>
readVars == <<reading, need, bufLen, delivered>>
frameHist == <<order, hooked, failures>>
frameVars == <<sendVars, stream, readVars, frameHist>>

Body(m) == [i \in 1 .. size[m] |-> <<m, i>>]

FrameInit ==
    /\ sendMutex = NoSender
    /\ send = [s \in Senders |-> "idle"]
    /\ packet = [s \in Senders |-> 0]
    /\ size = <<>> /\ sendErr = FALSE
    /\ stream = <<>> /\ closeFlag = FALSE
    /\ deadline \in BOOLEAN     \* a client's is timeOut's, a server's has none
    /\ reading = "head" /\ need = 0
    /\ bufLen = DefaultPacketSize
    /\ delivered = <<>> /\ order = <<>>
    /\ hooked = {} /\ failures = {}

-----------------------------------------------------------------------------
Goto(s, l) == send' = [send EXCEPT ![s] = l]

SendCall(s) ==
    /\ send[s] = "idle" /\ Len(size) < MaxPackets
    /\ \E n \in Sizes : size' = Append(size, n)
    /\ packet' = [packet EXCEPT ![s] = Len(size')]
    /\ Goto(s, "lock")
    /\ UNCHANGED <<sendMutex, sendErr, closeFlag, deadline, stream, readVars,
                   frameHist>>

MayLockAlways == TRUE   \* mutant: no sendMutex
MayLock == sendMutex = NoSender

Lock(s) ==
    /\ send[s] = "lock" /\ MayLock
    /\ sendMutex' = s /\ sendErr' = FALSE
    /\ Goto(s, "head")
    /\ UNCHANGED <<packet, size, closeFlag, deadline, stream, readVars,
                   frameHist>>

WriteHead(s) ==
    /\ send[s] = "head" /\ ~closeFlag
    /\ stream' = Append(stream, <<packet[s], 0>>)
    /\ order' = Append(order, packet[s])
    /\ Goto(s, "body")
    /\ UNCHANGED <<sendMutex, packet, size, sendErr, closeFlag, deadline,
                   readVars, hooked, failures>>

WriteBody(s) ==
    /\ send[s] = "body" /\ ~closeFlag
    /\ stream' = stream \o Body(packet[s])
    /\ Goto(s, "hook")
    /\ UNCHANGED <<sendMutex, packet, size, sendErr, closeFlag, deadline,
                   readVars, frameHist>>

\* a write fails -- closed, reset, past the deadline -- with a part of the
\* body written or none; Send closes the connection
WriteFail(s) ==
    /\ send[s] \in {"head", "body"}
    /\ \/ UNCHANGED stream
       \/ /\ send[s] = "body" /\ ~closeFlag
          /\ \E k \in 1 .. size[packet[s]] - 1 :
                stream' = stream \o SubSeq(Body(packet[s]), 1, k)
    /\ sendErr' = TRUE
    /\ closeFlag' = TRUE
    /\ failures' = failures \cup {packet[s]}
    /\ Goto(s, "hook")
    /\ UNCHANGED <<sendMutex, packet, size, deadline, readVars, order, hooked>>

UnlockedOnSuccess(s) == IF sendErr THEN s ELSE NoSender
                                \* mutant: no deferred Unlock
Unlocked(s) == NoSender

\* OnDataOut, whatever the outcome; then Send returns and unlocks
SendReturn(s) ==
    /\ send[s] = "hook"
    /\ hooked' = hooked \cup {packet[s]}
    /\ sendMutex' = Unlocked(s) /\ sendErr' = FALSE
    /\ packet' = [packet EXCEPT ![s] = 0]
    /\ Goto(s, "idle")
    /\ UNCHANGED <<size, closeFlag, deadline, stream, readVars, order,
                   failures>>

\* some other goroutine calls Close: a reader that failed, stop, the pool
Close ==
    /\ ~closeFlag
    /\ closeFlag' = TRUE
    /\ UNCHANGED <<sendMutex, send, packet, size, sendErr, deadline, stream,
                   readVars, frameHist>>

-----------------------------------------------------------------------------
\* the length a reader takes from the next four bytes: anything at all when
\* they are not a head
LengthsIn(u) ==
    IF u[2] = 0 THEN {size[u[1]] % HeadModulus} ELSE 0 .. HeadModulus - 1

ReadHead ==
    /\ reading = "head" /\ stream # <<>>
    /\ need' \in LengthsIn(Head(stream))
    /\ stream' = Tail(stream)
    /\ reading' = "body"
    /\ UNCHANGED <<sendVars, bufLen, delivered, frameHist>>

Grown(n) == IF n > DefaultPacketSize THEN n ELSE bufLen

Taken(n) == SubSeq(stream, n + 1, Len(stream))

\* readBody, which panics if the buffer is too short, and the copy
ReadBody ==
    /\ reading = "body"
    /\ bufLen' = Grown(need)
    /\ IF need > bufLen'
       THEN /\ reading' = "panicked"
            /\ UNCHANGED <<stream, delivered>>
       ELSE /\ Len(stream) >= need
            /\ delivered' = Append(delivered, SubSeq(stream, 1, need))
            /\ stream' = Taken(need)
            /\ reading' = "head"
    /\ UNCHANGED <<sendVars, need, frameHist>>

\* end of stream inside a frame or between two, a reset, or our own Close:
\* Receive closes this end and there are no more packets
ReceiveEnds ==
    /\ reading \in {"head", "body"} /\ closeFlag
    /\ reading' = "failed"
    /\ UNCHANGED <<sendVars, stream, need, bufLen, delivered, frameHist>>

-----------------------------------------------------------------------------
SendStep(s) == Lock(s) \/ WriteHead(s) \/ WriteBody(s) \/ WriteFail(s)
               \/ SendReturn(s)

FrameNext ==
    \/ \E s \in Senders : SendCall(s) \/ SendStep(s)
    \/ Close \/ ReadHead \/ ReadBody \/ ReceiveEnds

FrameSpec == FrameInit /\ [][FrameNext]_frameVars

\* The mutex serves a waiter (sync.Mutex is starvation-free), and the reader
\* reads what has come.  A write waits for room in buffers, which are not
\* modelled: it is sure to end only by a deadline or by Close.
FrameFairness ==
    /\ \A s \in Senders :
          /\ SF_frameVars(Lock(s))
          /\ WF_frameVars(SendReturn(s))
          /\ WF_frameVars(/\ deadline \/ closeFlag
                          /\ WriteHead(s) \/ WriteBody(s) \/ WriteFail(s))
    /\ WF_frameVars(ReadHead \/ ReadBody \/ ReceiveEnds)

FrameFairSpec == FrameSpec /\ FrameFairness

-----------------------------------------------------------------------------
FrameTypeOK ==
    /\ sendMutex \in Senders \cup {NoSender}
    /\ send \in [Senders -> {"idle", "lock", "head", "body", "hook"}]
    /\ packet \in [Senders -> 0 .. MaxPackets]
    /\ size \in Seq(Sizes) /\ Len(size) <= MaxPackets
    /\ sendErr \in BOOLEAN /\ closeFlag \in BOOLEAN /\ deadline \in BOOLEAN
    /\ reading \in {"head", "body", "failed"}
    /\ need \in 0 .. HeadModulus - 1
    /\ bufLen \in Nat /\ bufLen >= DefaultPacketSize
    /\ order \in Seq(DOMAIN size)
    /\ hooked \subseteq DOMAIN size /\ failures \subseteq DOMAIN size

(***************************************************************************)
(* However many goroutines send, and whenever a write fails half-way or    *)
(* the connection is closed, Receive returns whole packets, each once, in  *)
(* the order of the sends: the bodies it has returned are a prefix of what *)
(* was sent.  No frame follows one that was cut short: a Send that fails   *)
(* leaves the connection closed, and is the last.  A body never exceeds    *)
(* the reader's buffer.                                                    *)
(***************************************************************************)
WholePackets ==
    /\ reading # "panicked"
    /\ Len(delivered) <= Len(order)
    /\ \A i \in DOMAIN delivered : delivered[i] = Body(order[i])
    /\ \A i, j \in DOMAIN order : i # j => order[i] # order[j]
    /\ failures # {} => closeFlag
    /\ \A i \in DOMAIN order : order[i] \in failures => i = Len(order)

(***************************************************************************)
(* A goroutine in Send returns; and a packet that was sent without error   *)
(* is delivered, unless the connection is closed first.  The exception is  *)
(* a connection without a write deadline, as all of the server's are:      *)
(* there a write to a peer that does not read holds sendMutex for ever,    *)
(* and every later Send waits behind it.                                   *)
(***************************************************************************)
WriteStuck ==
    ~deadline /\ ~closeFlag /\ \E s \in Senders : send[s] \in {"head", "body"}

SendsComplete ==
    /\ \A s \in Senders : send[s] # "idle" ~> send[s] = "idle" \/ []WriteStuck
    /\ \A m \in 1 .. MaxPackets :
          m \in hooked ~>
              \/ \E i \in DOMAIN order : i <= Len(delivered) /\ order[i] = m
              \/ closeFlag
=============================================================================
