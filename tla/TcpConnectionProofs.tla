------------------------- MODULE TcpConnectionProofs -------------------------
(***************************************************************************)
(* Proofs about TcpConnection, for every number of senders, packets and    *)
(* lengths, and about the TokenBucket that a connection may have, for      *)
(* every capacity, increment and number of users.                          *)
(***************************************************************************)
EXTENDS TcpConnection, TokenBucket, TLAPS

(***************************************************************************)
(* What the operations on sequences do to their elements.                  *)
(***************************************************************************)
LEMMA AppendFacts ==
    ASSUME NEW S, NEW q \in Seq(S), NEW e \in S
    PROVE  /\ Append(q, e) \in Seq(S) /\ Len(Append(q, e)) = Len(q) + 1
           /\ Len(q) \in Nat /\ DOMAIN q = 1 .. Len(q)
           /\ DOMAIN Append(q, e) = 1 .. Len(q) + 1
           /\ \A i \in 1 .. Len(q) : Append(q, e)[i] = q[i]
           /\ Append(q, e)[Len(q) + 1] = e
    OBVIOUS

LEMMA ConcatFacts ==
    ASSUME NEW S, NEW q \in Seq(S), NEW r \in Seq(S)
    PROVE  /\ q \o r \in Seq(S) /\ Len(q \o r) = Len(q) + Len(r)
           /\ Len(q) \in Nat /\ Len(r) \in Nat
           /\ DOMAIN (q \o r) = 1 .. Len(q) + Len(r)
           /\ \A i \in 1 .. Len(q) : (q \o r)[i] = q[i]
           /\ \A i \in 1 .. Len(r) : (q \o r)[Len(q) + i] = r[i]
    OBVIOUS

LEMMA SubSeqFacts ==
    ASSUME NEW S, NEW q \in Seq(S), NEW a \in 1 .. Len(q) + 1,
           NEW b \in a - 1 .. Len(q)
    PROVE  /\ SubSeq(q, a, b) \in Seq(S) /\ Len(SubSeq(q, a, b)) = b - a + 1
           /\ DOMAIN SubSeq(q, a, b) = 1 .. b - a + 1
           /\ \A i \in 1 .. b - a + 1 : SubSeq(q, a, b)[i] = q[a + i - 1]
    OBVIOUS

LEMMA TailFacts ==
    ASSUME NEW S, NEW q \in Seq(S), q # <<>>
    PROVE  /\ Tail(q) \in Seq(S) /\ Len(Tail(q)) = Len(q) - 1
           /\ Len(q) \in Nat \ {0} /\ Head(q) = q[1] /\ DOMAIN q = 1 .. Len(q)
           /\ DOMAIN Tail(q) = 1 .. Len(q) - 1
           /\ \A i \in 1 .. Len(q) - 1 : Tail(q)[i] = q[i + 1]
    OBVIOUS

LEMMA SameSeq ==
    ASSUME NEW S, NEW q \in Seq(S), NEW r \in Seq(S), Len(q) = Len(r),
           \A i \in 1 .. Len(q) : q[i] = r[i]
    PROVE  q = r
    OBVIOUS

\* a length that fits the head comes out of it as it went in
LEMMA LengthFits ==
    ASSUME NEW m \in Nat \ {0}, NEW a \in Nat, a < m
    PROVE  a % m = a
<1>1. PICK q \in Int : q = a \div m
  OBVIOUS
<1>2. a = m * q + (a % m) /\ a % m \in 0 .. m - 1
  BY <1>1
<1>3. q >= 1 => m * q >= m
  OBVIOUS
<1>4. q <= -1 => m * q <= -m
  OBVIOUS
<1>5. m * q \in Int
  OBVIOUS
<1>6. q = 0
  BY <1>2, <1>3, <1>4, <1>5
<1>. QED
  BY <1>2, <1>6

-----------------------------------------------------------------------------
(***************************************************************************)
(* The two ends.  The sender that holds sendMutex is the one that writes,  *)
(* the packet it writes is its own, and is in order from its head on.  The *)
(* reader is in the packet after those it has delivered.                   *)
(***************************************************************************)
Pieces == (1 .. MaxPackets) \X Nat

Typed ==
    /\ FrameTypeOK
    /\ stream \in Seq(Pieces) /\ delivered \in Seq(Seq(Pieces))

Locked ==
    \A s \in Senders : send[s] \in {"head", "body", "hook"} <=> sendMutex = s

Numbered ==
    /\ \A s \in Senders : send[s] # "idle" => packet[s] \in DOMAIN size
    /\ \A s, t \in Senders :
          s # t /\ send[s] # "idle" /\ send[t] # "idle"
          => packet[s] # packet[t]
    /\ \A s \in Senders :
          send[s] \in {"lock", "head"} =>
             /\ \A i \in DOMAIN order : order[i] # packet[s]
             /\ packet[s] \notin failures
    /\ \A s \in Senders :
          send[s] = "body" => order # <<>> /\ packet[s] = order[Len(order)]

Reading ==
    /\ reading = "body" =>
          /\ Len(delivered) < Len(order)
          /\ need = size[order[Len(delivered) + 1]]
    /\ reading = "failed" => closeFlag

(***************************************************************************)
(* Where the frames lie: at[x] is the position in the stream of the head   *)
(* of the x-th packet written, counted from what is still to be read, so   *)
(* that it is 0 or less once the head has been read; the frame after the   *)
(* last will lie at at[Len(order) + 1].  What is in the stream is what the *)
(* frames say; and unless the connection is closed, the last frame is      *)
(* whole or its sender is about to write its body.                         *)
(***************************************************************************)
Halfway == \E s \in Senders : send[s] = "body"

Spaced(at) ==
    \A x \in DOMAIN order :
       /\ at[x + 1] = at[x] + size[order[x]] + 1
       /\ \A y \in x + 1 .. Len(order) + 1 : at[x] + size[order[x]] < at[y]

Filled(at) ==
    \A x \in DOMAIN order : \A k \in 0 .. size[order[x]] :
       at[x] + k \in DOMAIN stream => stream[at[x] + k] = <<order[x], k>>

Anchored(at) ==
    /\ reading = "head" => at[Len(delivered) + 1] = 1
    /\ reading = "body" => at[Len(delivered) + 1] = 0

Ended(at) ==
    /\ Len(stream) < at[Len(order) + 1]
    /\ ~closeFlag /\ Halfway => Len(stream) = at[Len(order)]
    /\ ~closeFlag /\ ~Halfway => Len(stream) = at[Len(order) + 1] - 1

Frames(at) ==
    /\ at \in [Nat -> Int]
    /\ Spaced(at) /\ Filled(at) /\ Anchored(at) /\ Ended(at)

Framed == \E at : Frames(at)

ConnInv ==
    Typed /\ Locked /\ Numbered /\ Reading /\ WholePackets /\ Framed

LEMMA SizeFacts ==
    ASSUME Typed
    PROVE  /\ Len(size) \in Nat /\ DOMAIN size = 1 .. Len(size)
           /\ DOMAIN size \subseteq 1 .. MaxPackets
           /\ \A m \in DOMAIN size : size[m] \in Nat /\ size[m] < HeadModulus
           /\ Len(order) \in Nat /\ DOMAIN order = 1 .. Len(order)
           /\ \A x \in DOMAIN order : order[x] \in DOMAIN size
           /\ Len(stream) \in Nat /\ DOMAIN stream = 1 .. Len(stream)
           /\ Len(delivered) \in Nat /\ DOMAIN delivered = 1 .. Len(delivered)
<1>1. size \in Seq(Sizes) /\ Sizes \subseteq 0 .. HeadModulus - 1
      /\ HeadModulus \in Nat
  BY ConnectionAssumption DEF Typed, FrameTypeOK
<1>2. Len(size) <= MaxPackets /\ order \in Seq(DOMAIN size)
  BY DEF Typed, FrameTypeOK
<1>3. /\ Len(size) \in Nat /\ DOMAIN size = 1 .. Len(size)
      /\ DOMAIN size \subseteq 1 .. MaxPackets
  BY <1>1, <1>2, ConnectionAssumption
<1>4. \A m \in DOMAIN size : size[m] \in Nat /\ size[m] < HeadModulus
  <2>1. \A m \in DOMAIN size : size[m] \in Sizes
    BY <1>1
  <2>2. \A n \in Sizes : n \in Nat /\ n < HeadModulus
    BY ConnectionAssumption
  <2>. QED
    BY <2>1, <2>2
<1>5. /\ Len(order) \in Nat /\ DOMAIN order = 1 .. Len(order)
      /\ \A x \in DOMAIN order : order[x] \in DOMAIN size
  BY <1>2
<1>6. /\ Len(stream) \in Nat /\ DOMAIN stream = 1 .. Len(stream)
      /\ Len(delivered) \in Nat /\ DOMAIN delivered = 1 .. Len(delivered)
  BY DEF Typed
<1>. QED
  BY <1>3, <1>4, <1>5, <1>6

\* the body of a packet is a sequence of pieces
LEMMA BodyFacts ==
    ASSUME Typed, NEW m \in DOMAIN size
    PROVE  /\ Body(m) \in Seq(Pieces) /\ Len(Body(m)) = size[m]
           /\ DOMAIN Body(m) = 1 .. size[m]
           /\ \A i \in 1 .. size[m] : Body(m)[i] = <<m, i>>
<1>1. size[m] \in Nat /\ m \in 1 .. MaxPackets
  BY SizeFacts
<1>2. \A i \in 1 .. size[m] : <<m, i>> \in Pieces
  BY <1>1 DEF Pieces
<1>. QED
  BY <1>1, <1>2 DEF Body

-----------------------------------------------------------------------------
(* Sending.                                                                *)

\* only the sender inside Send is halfway
LEMMA HalfwayHolder ==
    ASSUME Locked, NEW s \in Senders, send[s] \in {"head", "body", "hook"}
    PROVE  /\ sendMutex = s /\ (Halfway <=> send[s] = "body")
           /\ \A t \in Senders :
                 t # s => send[t] \notin {"head", "body", "hook"}
  BY DEF Locked, Halfway

LEMMA LockedStep == Typed /\ Locked /\ [FrameNext]_frameVars => Locked'
<1>. SUFFICES ASSUME Typed, Locked, [FrameNext]_frameVars PROVE Locked'
  OBVIOUS
<1>. USE DEF Locked, Goto, MayLock, Unlocked
<1>0. send \in [Senders -> {"idle", "lock", "head", "body", "hook"}]
      /\ NoSender \notin Senders
  BY ConnectionAssumption DEF Typed, FrameTypeOK
<1>1. ASSUME NEW s \in Senders, SendCall(s) PROVE Locked'
  BY <1>0, <1>1 DEF SendCall
<1>2. ASSUME NEW s \in Senders, Lock(s) PROVE Locked'
  BY <1>0, <1>2 DEF Lock
<1>3. ASSUME NEW s \in Senders, WriteHead(s) \/ WriteBody(s) \/ WriteFail(s)
      PROVE  Locked'
  BY <1>0, <1>3 DEF WriteHead, WriteBody, WriteFail
<1>4. ASSUME NEW s \in Senders, SendReturn(s) PROVE Locked'
  BY <1>0, <1>4 DEF SendReturn
<1>5. ASSUME UNCHANGED <<send, sendMutex>> PROVE Locked'
  BY <1>5
<1>. QED
  BY <1>1, <1>2, <1>3, <1>4, <1>5
  DEF FrameNext, SendStep, Close, ReadHead, ReadBody, ReceiveEnds, frameVars,
      sendVars

LEMMA NumberedStep ==
    Typed /\ Locked /\ Numbered /\ [FrameNext]_frameVars => Numbered'
<1>. SUFFICES ASSUME Typed, Locked, Numbered, [FrameNext]_frameVars
              PROVE  Numbered'
  OBVIOUS
<1>. USE DEF Numbered
<1>0. /\ send \in [Senders -> {"idle", "lock", "head", "body", "hook"}]
      /\ packet \in [Senders -> 0 .. MaxPackets]
      /\ \A i \in DOMAIN order : order[i] \in DOMAIN size
      /\ failures \subseteq DOMAIN size /\ size \in Seq(Sizes)
      /\ order \in Seq(DOMAIN size)
  BY SizeFacts DEF Typed, FrameTypeOK
<1>1. ASSUME NEW s \in Senders, SendCall(s) PROVE Numbered'
  <2>1. PICK n \in Sizes : size' = Append(size, n)
    BY <1>1 DEF SendCall
  <2>2. /\ DOMAIN size \subseteq DOMAIN size'
        /\ Len(size') \in DOMAIN size' /\ Len(size') \notin DOMAIN size
    BY <1>0, <2>1
  <2>3. /\ packet' = [packet EXCEPT ![s] = Len(size')]
        /\ send' = [send EXCEPT ![s] = "lock"]
        /\ UNCHANGED <<order, failures>> /\ send[s] = "idle"
    BY <1>1 DEF SendCall, Goto, frameHist
  <2>. QED
    BY <1>0, <2>2, <2>3
<1>2. ASSUME NEW s \in Senders, WriteHead(s) PROVE Numbered'
  <2>1. /\ send[s] = "head" /\ order' = Append(order, packet[s])
        /\ send' = [send EXCEPT ![s] = "body"]
        /\ UNCHANGED <<packet, size, failures>>
    BY <1>2 DEF WriteHead, Goto
  <2>2. packet[s] \in DOMAIN size
    BY <2>1
  <2>3. /\ Len(order') = Len(order) + 1 /\ DOMAIN order' = 1 .. Len(order) + 1
        /\ Len(order) \in Nat /\ DOMAIN order = 1 .. Len(order)
        /\ \A i \in 1 .. Len(order) : order'[i] = order[i]
        /\ order'[Len(order) + 1] = packet[s]
    BY <2>1, <2>2, <1>0, AppendFacts
  <2>4. \A t \in Senders : t # s => send[t] \in {"idle", "lock"}
    BY <2>1, <1>0, HalfwayHolder
  <2>5. ASSUME NEW t \in Senders, send'[t] \in {"lock", "head"}
        PROVE  /\ \A i \in DOMAIN order' : order'[i] # packet'[t]
               /\ packet'[t] \notin failures'
    <3>1. t # s /\ send[t] = "lock" /\ send[s] # "idle"
      BY <2>1, <2>4, <2>5, <1>0
    <3>2. packet[t] # packet[s]
      BY <3>1
    <3>. QED
      BY <2>1, <2>3, <3>1, <3>2
  <2>6. ASSUME NEW t \in Senders, send'[t] = "body"
        PROVE  order' # <<>> /\ packet'[t] = order'[Len(order')]
    <3>1. t = s
      BY <2>1, <2>4, <2>6, <1>0
    <3>. QED
      BY <2>1, <2>3, <3>1
  <2>7. \A t \in Senders : send'[t] # "idle" => send[t] # "idle"
    BY <2>1, <1>0
  <2>. QED
    BY <2>1, <2>5, <2>6, <2>7
<1>3. ASSUME NEW s \in Senders, WriteFail(s) PROVE Numbered'
  <2>1. /\ send[s] # "idle" /\ send' = [send EXCEPT ![s] = "hook"]
        /\ failures' = failures \cup {packet[s]}
        /\ UNCHANGED <<packet, size, order>>
    BY <1>3 DEF WriteFail, Goto
  <2>. QED
    BY <1>0, <2>1
<1>4. ASSUME NEW s \in Senders, SendReturn(s) PROVE Numbered'
  BY <1>0, <1>4 DEF SendReturn, Goto
<1>5. ASSUME NEW s \in Senders, Lock(s) \/ WriteBody(s) PROVE Numbered'
  BY <1>0, <1>5 DEF Lock, WriteBody, Goto, frameHist
<1>6. ASSUME UNCHANGED <<send, packet, size, order, failures>> PROVE Numbered'
  BY <1>6
<1>. QED
  BY <1>1, <1>2, <1>3, <1>4, <1>5, <1>6
  DEF FrameNext, SendStep, Close, ReadHead, ReadBody, ReceiveEnds, frameVars,
      sendVars, frameHist

-----------------------------------------------------------------------------
(* The frames, one lemma per action that writes or reads.                  *)

\* what the frames say of the packet the reader is at
LEMMA FrameFacts ==
    ASSUME Typed, Reading, NEW at, Frames(at)
    PROVE  /\ \A x \in 1 .. Len(order) + 1 : at[x] \in Int
           /\ reading = "head" /\ stream # <<>> =>
                 /\ Len(delivered) # Len(order)
                 /\ Len(delivered) < Len(order) =>
                       stream[1] = <<order[Len(delivered) + 1], 0>>
           /\ reading = "body" =>
                 LET m == order[Len(delivered) + 1] IN
                 /\ at[Len(delivered) + 2] = size[m] + 1
                 /\ \A k \in 1 .. size[m] :
                       k \in DOMAIN stream => stream[k] = <<m, k>>
<1>0. /\ Len(order) \in Nat /\ DOMAIN order = 1 .. Len(order)
      /\ Len(delivered) \in Nat
      /\ Len(stream) \in Nat /\ DOMAIN stream = 1 .. Len(stream)
      /\ \A x \in DOMAIN order : size[order[x]] \in Nat
  BY SizeFacts
<1>. USE <1>0
<1>1. /\ Spaced(at) /\ Filled(at) /\ Anchored(at) /\ Ended(at)
      /\ \A x \in 1 .. Len(order) + 1 : at[x] \in Int
  BY DEF Frames
<1>2. ASSUME reading = "head", stream # <<>>
      PROVE  Len(delivered) # Len(order)
  <2>1. at[Len(delivered) + 1] = 1 /\ Len(stream) < at[Len(order) + 1]
    BY <1>1, <1>2 DEF Anchored, Ended
  <2>2. Len(stream) >= 1
    BY <1>2 DEF Typed
  <2>3. Len(order) + 1 \in 1 .. Len(order) + 1
    OBVIOUS
  <2>. QED
    BY <2>1, <2>2, <2>3, <1>1
<1>3. ASSUME reading = "head", stream # <<>>, Len(delivered) < Len(order)
      PROVE  stream[1] = <<order[Len(delivered) + 1], 0>>
  <2>1. PICK x \in DOMAIN order : x = Len(delivered) + 1
    BY <1>3
  <2>2. at[x] = 1 /\ size[order[x]] \in Nat
    BY <1>1, <1>3, <2>1 DEF Anchored
  <2>3. 1 \in DOMAIN stream
    BY <1>3 DEF Typed
  <2>4. 0 \in 0 .. size[order[x]] /\ at[x] + 0 = 1
    BY <2>2
  <2>. QED
    BY <1>1, <2>1, <2>3, <2>4 DEF Filled
<1>4. ASSUME reading = "body", NEW m, m = order[Len(delivered) + 1]
      PROVE  /\ at[Len(delivered) + 2] = size[m] + 1
             /\ \A k \in 1 .. size[m] :
                   k \in DOMAIN stream => stream[k] = <<m, k>>
  <2>1. PICK x \in DOMAIN order : x = Len(delivered) + 1
    BY <1>4 DEF Reading
  <2>2. at[x] = 0 /\ size[m] \in Nat /\ m = order[x]
    BY <1>1, <1>4, <2>1 DEF Anchored
  <2>3. at[x + 1] = size[m] + 1
    BY <1>1, <2>2 DEF Spaced
  <2>4. \A k \in 1 .. size[m] : at[x] + k = k /\ k \in 0 .. size[m]
    BY <2>2
  <2>5. \A k \in 0 .. size[m] :
           at[x] + k \in DOMAIN stream => stream[at[x] + k] = <<m, k>>
    BY <1>1, <2>2 DEF Filled
  <2>6. \A k \in 1 .. size[m] :
           k \in DOMAIN stream => stream[k] = <<m, k>>
    BY <2>4, <2>5
  <2>7. at[Len(delivered) + 2] = size[m] + 1
    BY <2>1, <2>3
  <2>. QED
    BY <2>6, <2>7
<1>. QED
  BY <1>1, <1>2, <1>3, <1>4

\* a step that leaves the stream, the order and the sizes alone
LEMMA FramesStay ==
    ASSUME Typed, NEW at, Frames(at), UNCHANGED <<order, stream, delivered>>,
           \A x \in DOMAIN order : size'[order[x]] = size[order[x]],
           reading' \in {reading, "failed"},
           closeFlag' \/ (~closeFlag /\ (Halfway <=> Halfway'))
    PROVE  Frames(at)'
<1>1. Spaced(at)' /\ Filled(at)'
  BY DEF Frames, Spaced, Filled
<1>2. Anchored(at)' /\ Ended(at)'
  BY DEF Frames, Anchored, Ended
<1>. QED
  BY <1>1, <1>2 DEF Frames

\* the next frame begins where the frames said it would
LEMMA WriteHeadFrames ==
    ASSUME Typed, Locked, Numbered, Reading, Len(delivered) <= Len(order),
           Framed, NEW s \in Senders, WriteHead(s)
    PROVE  Framed'
<1>0. PICK at : Frames(at)
  BY DEF Framed
<1>1. PICK m \in DOMAIN size : m = packet[s]
  BY DEF WriteHead, Numbered
<1>2. PICK n \in Nat : n = Len(order)
  BY SizeFacts
<1>w. PICK w \in Nat : w = size[m]
  BY SizeFacts
<1>s. /\ DOMAIN order = 1 .. n
      /\ \A x \in 1 .. n : order[x] \in DOMAIN size /\ size[order[x]] \in Nat
  BY <1>2, SizeFacts
<1>3. /\ ~closeFlag /\ ~closeFlag' /\ size' = size /\ reading' = reading
      /\ delivered' = delivered
      /\ send[s] = "head" /\ send' = [send EXCEPT ![s] = "body"]
      /\ order' = Append(order, m) /\ stream' = Append(stream, <<m, 0>>)
  BY <1>1 DEF WriteHead, Goto, readVars
<1>4. ~Halfway /\ Halfway'
  <2>1. ~Halfway
    BY <1>3, HalfwayHolder
  <2>2. send'[s] = "body"
    BY <1>3 DEF Typed, FrameTypeOK
  <2>. QED
    BY <2>1, <2>2 DEF Halfway
<1>5. /\ Len(order') = n + 1 /\ DOMAIN order' = 1 .. n + 1
      /\ \A i \in 1 .. n : order'[i] = order[i]
      /\ order'[n + 1] = m
  BY <1>2, <1>3, AppendFacts DEF Typed, FrameTypeOK
<1>6. PICK l \in Nat : l = Len(stream)
  BY SizeFacts
<1>7. /\ Len(stream') = l + 1 /\ DOMAIN stream' = 1 .. l + 1
      /\ \A i \in 1 .. l : stream'[i] = stream[i]
      /\ stream'[l + 1] = <<m, 0>>
  <2>1. <<m, 0>> \in Pieces
    BY SizeFacts DEF Pieces
  <2>. QED
    BY <2>1, <1>3, <1>6, AppendFacts DEF Typed
<1>8. PICK to : to = [at EXCEPT ![n + 2] = l + w + 2]
  OBVIOUS
<1>9. /\ at \in [Nat -> Int] /\ at[n + 1] = l + 1
      /\ \A x \in 1 .. n + 1 : at[x] \in Int
  <2>1. at \in [Nat -> Int] /\ l = at[n + 1] - 1
    BY <1>0, <1>2, <1>3, <1>4, <1>6 DEF Frames, Ended
  <2>2. \A x \in 1 .. n + 1 : at[x] \in Int
    BY <2>1
  <2>3. n + 1 \in 1 .. n + 1
    OBVIOUS
  <2>. QED
    BY <2>1, <2>2, <2>3
<1>10. /\ to \in [Nat -> Int]
       /\ \A x \in 1 .. n + 1 : to[x] = at[x]
       /\ to[n + 1] = l + 1 /\ to[n + 2] = l + w + 2
  <2>1. /\ n + 2 \in Nat /\ n + 2 \notin 1 .. n + 1 /\ n + 1 \in 1 .. n + 1
        /\ l + w + 2 \in Int
        /\ \A x \in 1 .. n + 1 : x \in Nat
    OBVIOUS
  <2>. QED
    BY <2>1, <1>8, <1>9
<1>11. Spaced(to)'
  <2>1. ASSUME NEW x \in 1 .. n + 1
        PROVE  /\ to[x + 1] = to[x] + size[order'[x]] + 1
               /\ \A y \in x + 1 .. n + 2 : to[x] + size[order'[x]] < to[y]
    <3>1. CASE x = n + 1
      <4>1. x + 1 = n + 2 /\ \A y \in x + 1 .. n + 2 : y = n + 2
        BY <3>1
      <4>2. to[x] = l + 1 /\ size[order'[x]] = w
        BY <3>1, <1>w, <1>5, <1>10
      <4>3. to[x + 1] = to[x] + size[order'[x]] + 1
        <5>1. l + w + 2 = (l + 1) + w + 1
          OBVIOUS
        <5>. QED
          BY <4>1, <4>2, <5>1, <1>10
      <4>4. to[x] + size[order'[x]] < to[n + 2]
        <5>1. (l + 1) + w < l + w + 2
          OBVIOUS
        <5>. QED
          BY <4>2, <5>1, <1>10
      <4>. QED
        BY <4>1, <4>3, <4>4
    <3>2. CASE x \in 1 .. n
      <4>1. /\ x \in DOMAIN order /\ order'[x] = order[x]
            /\ size[order[x]] \in Nat
        BY <3>2, <1>s, <1>5
      <4>2. /\ at[x + 1] = at[x] + size[order[x]] + 1
            /\ \A y \in x + 1 .. n + 1 : at[x] + size[order[x]] < at[y]
        BY <4>1, <1>0, <1>2 DEF Frames, Spaced
      <4>3. at[x] + size[order[x]] < at[n + 1]
        <5>1. n + 1 \in x + 1 .. n + 1
          BY <3>2
        <5>. QED
          BY <4>2, <5>1
      <4>4. to[x] = at[x] /\ to[x + 1] = at[x + 1] /\ at[x] \in Int
        <5>1. x \in 1 .. n + 1 /\ x + 1 \in 1 .. n + 1
          BY <3>2
        <5>. QED
          BY <5>1, <1>9, <1>10
      <4>5. at[x] + size[order[x]] < to[n + 2]
        <5>1. PICK z \in Int : z = at[x] + size[order[x]]
          BY <4>1, <4>4
        <5>2. z < l + 1
          BY <4>3, <5>1, <1>9
        <5>3. z < l + w + 2
          BY <5>2
        <5>. QED
          BY <5>1, <5>3, <1>10
      <4>6. \A y \in x + 1 .. n + 2 : y = n + 2 \/ (y \in x + 1 .. n + 1 /\ to[y] = at[y])
        BY <3>2, <1>10
      <4>. QED
        BY <4>1, <4>2, <4>4, <4>5, <4>6
    <3>. QED
      BY <3>1, <3>2
  <2>. QED
    BY <2>1, <1>3, <1>5 DEF Spaced
<1>12. Filled(to)'
  <2>1. ASSUME NEW x \in 1 .. n + 1, NEW k \in 0 .. size[order'[x]],
               to[x] + k \in 1 .. l + 1
        PROVE  stream'[to[x] + k] = <<order'[x], k>>
    <3>1. CASE x = n + 1
      <4>1. to[x] = l + 1 /\ order'[x] = m /\ k \in Nat
        BY <3>1, <1>5, <1>10
      <4>2. k = 0 /\ to[x] + k = l + 1
        BY <4>1, <2>1
      <4>. QED
        BY <4>1, <4>2, <1>7
    <3>2. CASE x \in 1 .. n
      <4>1. /\ x \in DOMAIN order /\ order'[x] = order[x]
            /\ size[order[x]] \in Nat
        BY <3>2, <1>s, <1>5
      <4>t. to[x] = at[x] /\ at[x] \in Int
        <5>1. x \in 1 .. n + 1
          BY <3>2
        <5>. QED
          BY <5>1, <1>9, <1>10
      <4>2. at[x] + size[order[x]] < at[n + 1]
        <5>1. n + 1 \in x + 1 .. n + 1
          BY <3>2
        <5>. QED
          BY <4>1, <5>1, <1>0, <1>2 DEF Frames, Spaced
      <4>3. at[x] + k \in 1 .. l
        <5>1. PICK z \in Nat : z = size[order[x]]
          BY <4>1
        <5>2. PICK a \in Int : a = at[x]
          BY <4>t
        <5>3. k \in 0 .. z /\ a + k \in 1 .. l + 1 /\ a + z < l + 1
          BY <2>1, <4>1, <4>t, <4>2, <5>1, <5>2, <1>9
        <5>4. a + k \in 1 .. l
          BY <5>3
        <5>. QED
          BY <5>2, <5>4
      <4>4. stream[at[x] + k] = <<order[x], k>>
        <5>1. DOMAIN stream = 1 .. l
          BY <1>6, SizeFacts
        <5>. QED
          BY <4>1, <4>3, <5>1, <1>0 DEF Frames, Filled
      <4>. QED
        BY <4>1, <4>t, <4>3, <4>4, <1>7
    <3>. QED
      BY <3>1, <3>2
  <2>. QED
    BY <2>1, <1>3, <1>5, <1>7 DEF Filled
<1>13. Anchored(to)'
  <2>1. Len(delivered) + 1 \in 1 .. n + 1
    BY <1>2, SizeFacts
  <2>2. to[Len(delivered) + 1] = at[Len(delivered) + 1]
    BY <2>1, <1>10
  <2>. QED
    BY <2>2, <1>0, <1>3 DEF Frames, Anchored
<1>14. Ended(to)'
  <2>1. /\ Len(stream') = l + 1 /\ Len(order') = n + 1 /\ to[n + 1] = l + 1
        /\ l + 1 < to[n + 2] /\ n + 1 + 1 = n + 2
    BY <1>5, <1>7, <1>10
  <2>. QED
    BY <2>1, <1>3, <1>4 DEF Ended
<1>. QED
  BY <1>10, <1>11, <1>12, <1>13, <1>14 DEF Framed, Frames

\* what is written of a body belongs to the last frame
LEMMA WriteBodyFrames ==
    ASSUME Typed, Numbered, NEW at, Frames(at), ~closeFlag,
           NEW s \in Senders, send[s] = "body",
           NEW q \in Seq(Pieces), stream' = stream \o q,
           Len(q) <= size[packet[s]],
           \A i \in 1 .. Len(q) : q[i] = <<packet[s], i>>,
           UNCHANGED <<order, size, delivered, reading>>,
           closeFlag' \/ (Len(q) = size[packet[s]] /\ ~Halfway')
    PROVE  Frames(at)'
<1>1. PICK n \in Nat \ {0} : n = Len(order)
  BY SizeFacts DEF Numbered, Typed, FrameTypeOK
<1>2. /\ DOMAIN order = 1 .. n /\ packet[s] = order[n] /\ n \in DOMAIN order
      /\ \A x \in 1 .. n : order[x] \in DOMAIN size /\ size[order[x]] \in Nat
  <2>1. packet[s] = order[n]
    BY <1>1 DEF Numbered
  <2>2. /\ DOMAIN order = 1 .. n
        /\ \A x \in 1 .. n : order[x] \in DOMAIN size /\ size[order[x]] \in Nat
    BY <1>1, SizeFacts
  <2>3. n \in 1 .. n
    OBVIOUS
  <2>. QED
    BY <2>1, <2>2, <2>3
<1>3. PICK l \in Nat : l = Len(stream)
  BY SizeFacts
<1>4. PICK w \in Nat : w = size[order[n]]
  BY <1>1, <1>2
<1>5. PICK c \in 0 .. w : c = Len(q)
  BY <1>2, <1>4
<1>6. /\ Len(stream') = l + c /\ DOMAIN stream' = 1 .. l + c
      /\ DOMAIN stream = 1 .. l
      /\ \A i \in 1 .. l : stream'[i] = stream[i]
      /\ \A i \in 1 .. c : stream'[l + i] = <<order[n], i>>
  BY <1>2, <1>3, <1>5, ConcatFacts DEF Typed
<1>7. /\ at \in [Nat -> Int] /\ at[n] = l /\ at[n + 1] = l + w + 1
  <2>1. /\ at \in [Nat -> Int] /\ at[n] = l
    BY <1>1, <1>3 DEF Frames, Ended, Halfway
  <2>. QED
    BY <2>1, <1>2, <1>4 DEF Frames, Spaced
<1>8. Filled(at)'
  <2>1. ASSUME NEW x \in 1 .. n, NEW k \in 0 .. size[order[x]],
               at[x] + k \in 1 .. l + c
        PROVE  stream'[at[x] + k] = <<order[x], k>>
    <3>0. PICK z \in Nat : z = size[order[x]]
      BY <1>2
    <3>1. PICK a \in Int : a = at[x]
      BY <1>7
    <3>2. CASE a + k \in 1 .. l
      <4>1. stream[a + k] = <<order[x], k>>
        BY <3>1, <3>2, <1>2, <1>6 DEF Frames, Filled
      <4>. QED
        BY <4>1, <3>1, <3>2, <1>6
    <3>3. CASE a + k \notin 1 .. l
      <4>1. k \in 0 .. z /\ a + k \in 1 .. l + c /\ a + k > l
        BY <2>1, <3>0, <3>1, <3>3
      <4>2. x = n
        <5>1. SUFFICES ASSUME x # n PROVE FALSE
          OBVIOUS
        <5>2. n \in x + 1 .. n + 1
          BY <5>1
        <5>3. a + z < l
          BY <5>2, <3>0, <3>1, <1>1, <1>2, <1>7 DEF Frames, Spaced
        <5>. QED
          BY <4>1, <5>3
      <4>3. a = l /\ k \in 1 .. c
        <5>1. a = l
          BY <4>2, <3>1, <1>7
        <5>. QED
          BY <5>1, <4>1
      <4>. QED
        BY <4>2, <4>3, <3>1, <1>6
    <3>. QED
      BY <3>2, <3>3
  <2>2. DOMAIN order' = 1 .. n /\ DOMAIN stream' = 1 .. l + c
    BY <1>2, <1>6
  <2>. QED
    BY <2>1, <2>2 DEF Filled
<1>9. Spaced(at)' /\ Anchored(at)'
  BY DEF Frames, Spaced, Anchored
<1>10. Ended(at)'
  <2>1. Len(stream') = l + c /\ l + c < at[n + 1]
    BY <1>5, <1>6, <1>7
  <2>2. ~closeFlag' => ~Halfway' /\ l + c = at[n + 1] - 1
    <3>1. ~closeFlag' => ~Halfway' /\ c = w
      BY <1>2, <1>4, <1>5
    <3>2. c = w => l + c = at[n + 1] - 1
      BY <1>7
    <3>. QED
      BY <3>1, <3>2
  <2>. QED
    BY <2>1, <2>2, <1>1 DEF Ended
<1>. QED
  BY <1>7, <1>8, <1>9, <1>10 DEF Frames

\* the reader takes c pieces, and every frame comes nearer by as many
LEMMA TakeFrames ==
    ASSUME Typed, NEW at, Frames(at), NEW c \in 0 .. Len(stream),
           Len(stream') = Len(stream) - c,
           DOMAIN stream' = 1 .. Len(stream) - c,
           \A i \in 1 .. Len(stream) - c : stream'[i] = stream[i + c],
           UNCHANGED <<order, size, closeFlag, send>>,
           NEW to, to = [x \in Nat |-> at[x] - c], Anchored(to)'
    PROVE  Frames(to)'
<1>1. PICK n \in Nat : n = Len(order)
  BY SizeFacts
<1>2. /\ DOMAIN order = 1 .. n
      /\ \A x \in 1 .. n : order[x] \in DOMAIN size /\ size[order[x]] \in Nat
  BY <1>1, SizeFacts
<1>3. PICK l \in Nat : l = Len(stream)
  BY SizeFacts
<1>4. DOMAIN stream = 1 .. l /\ c \in 0 .. l
  BY <1>3, SizeFacts
<1>5. /\ at \in [Nat -> Int] /\ to \in [Nat -> Int]
      /\ \A x \in Nat : at[x] \in Int /\ to[x] = at[x] - c
  <2>1. at \in [Nat -> Int] /\ \A x \in Nat : at[x] \in Int
    BY DEF Frames
  <2>2. \A x \in Nat : at[x] - c \in Int
    BY <2>1, <1>4
  <2>. QED
    BY <2>1, <2>2
<1>6. Spaced(to)'
  <2>1. ASSUME NEW x \in 1 .. n
        PROVE  /\ to[x + 1] = to[x] + size[order[x]] + 1
               /\ \A y \in x + 1 .. n + 1 : to[x] + size[order[x]] < to[y]
    <3>1. PICK z \in Nat : z = size[order[x]]
      BY <1>2
    <3>2. /\ at[x + 1] = at[x] + z + 1
          /\ \A y \in x + 1 .. n + 1 : at[x] + z < at[y]
      BY <3>1, <1>1, <1>2 DEF Frames, Spaced
    <3>3. to[x + 1] = at[x + 1] - c /\ to[x] = at[x] - c /\ at[x] \in Int
      BY <1>5
    <3>4. to[x + 1] = to[x] + z + 1
      BY <3>2, <3>3, <1>4
    <3>5. ASSUME NEW y \in x + 1 .. n + 1 PROVE to[x] + z < to[y]
      <4>0. y \in Nat
        OBVIOUS
      <4>1. at[x] + z < at[y] /\ at[y] \in Int /\ to[y] = at[y] - c
        BY <4>0, <3>2, <1>5
      <4>. QED
        BY <4>1, <3>3, <1>4
    <3>. QED
      BY <3>1, <3>4, <3>5
  <2>. QED
    BY <2>1, <1>1, <1>2 DEF Spaced
<1>7. Filled(to)'
  <2>1. ASSUME NEW x \in 1 .. n, NEW k \in 0 .. size[order[x]],
               to[x] + k \in 1 .. l - c
        PROVE  stream'[to[x] + k] = <<order[x], k>>
    <3>0. x \in Nat
      OBVIOUS
    <3>1. PICK a \in Int : a = at[x] /\ to[x] = a - c
      BY <3>0, <1>5
    <3>2. to[x] + k = a + k - c /\ a + k - c \in 1 .. l - c /\ k \in Int
      <4>1. k \in Int /\ to[x] + k \in 1 .. l - c
        BY <2>1, <1>2
      <4>2. a - c + k = a + k - c
        BY <4>1, <1>4
      <4>. QED
        BY <4>1, <4>2, <3>1
    <3>3. a + k \in 1 .. l /\ (a + k - c) + c = a + k
      BY <3>2, <1>4
    <3>4. stream[a + k] = <<order[x], k>>
      BY <3>1, <3>3, <1>2, <1>4 DEF Frames, Filled
    <3>5. stream'[a + k - c] = stream[a + k]
      BY <3>2, <3>3, <1>3
    <3>. QED
      BY <3>2, <3>4, <3>5
  <2>. QED
    BY <2>1, <1>2, <1>3 DEF Filled
<1>8. Ended(to)'
  <2>1. /\ to[n + 1] = at[n + 1] - c /\ to[n] = at[n] - c
        /\ at[n + 1] \in Int /\ at[n] \in Int
    <3>1. n \in Nat /\ n + 1 \in Nat
      OBVIOUS
    <3>. QED
      BY <3>1, <1>5
  <2>2. /\ l < at[n + 1]
        /\ ~closeFlag /\ Halfway => l = at[n]
        /\ ~closeFlag /\ ~Halfway => l = at[n + 1] - 1
    BY <1>1, <1>3 DEF Frames, Ended
  <2>3. Halfway' <=> Halfway
    BY DEF Halfway
  <2>4. /\ l - c < to[n + 1]
        /\ ~closeFlag /\ Halfway => l - c = to[n]
        /\ ~closeFlag /\ ~Halfway => l - c = to[n + 1] - 1
    BY <2>1, <2>2, <1>4
  <2>. QED
    BY <2>3, <2>4, <1>1, <1>3 DEF Ended
<1>. QED
  BY <1>5, <1>6, <1>7, <1>8 DEF Frames

LEMMA WriteFramed ==
    ASSUME Typed, Locked, Numbered, Framed,
           NEW s \in Senders, WriteBody(s) \/ WriteFail(s)
    PROVE  Framed'
<1>0. PICK at : Frames(at)
  BY DEF Framed
<1>1. /\ UNCHANGED <<order, size, delivered, reading>>
      /\ send[s] \in {"head", "body"} /\ send' = [send EXCEPT ![s] = "hook"]
      /\ send \in [Senders -> {"idle", "lock", "head", "body", "hook"}]
  BY DEF WriteBody, WriteFail, Goto, readVars, frameHist, Typed, FrameTypeOK
<1>2. PICK m \in DOMAIN size : m = packet[s]
  BY <1>1 DEF Numbered
<1>3. /\ Body(m) \in Seq(Pieces) /\ Len(Body(m)) = size[m]
      /\ \A i \in 1 .. size[m] : Body(m)[i] = <<m, i>>
      /\ size[m] \in Nat
  BY BodyFacts, SizeFacts
<1>4. CASE WriteBody(s)
  <2>1. /\ ~closeFlag /\ send[s] = "body" /\ stream' = stream \o Body(m)
    BY <1>2, <1>4 DEF WriteBody
  <2>2. ~Halfway'
    BY <1>1, HalfwayHolder DEF Halfway
  <2>4. /\ Len(Body(m)) <= size[packet[s]] /\ Len(Body(m)) = size[packet[s]]
        /\ \A i \in 1 .. Len(Body(m)) : Body(m)[i] = <<packet[s], i>>
    BY <1>2, <1>3
  <2>5. PICK q \in Seq(Pieces) : q = Body(m)
    BY <1>3
  <2>3. Frames(at)'
    BY <2>1, <2>2, <2>4, <2>5, <1>0, <1>1, WriteBodyFrames
  <2>. QED
    BY <2>3 DEF Framed
<1>5. CASE WriteFail(s) /\ stream' = stream
  <2>1. closeFlag' /\ reading' \in {reading, "failed"}
        /\ \A x \in DOMAIN order : size'[order[x]] = size[order[x]]
    BY <1>1, <1>5 DEF WriteFail
  <2>2. Frames(at)'
    BY <2>1, <1>0, <1>1, <1>5, FramesStay
  <2>. QED
    BY <2>2 DEF Framed
<1>6. CASE WriteFail(s) /\ stream' # stream
  <2>1. /\ ~closeFlag /\ closeFlag' /\ send[s] = "body"
        /\ \E k \in 1 .. size[m] - 1 :
              stream' = stream \o SubSeq(Body(m), 1, k)
    BY <1>2, <1>6 DEF WriteFail
  <2>2. PICK k \in 1 .. size[m] - 1 : stream' = stream \o SubSeq(Body(m), 1, k)
    BY <2>1
  <2>3. PICK q : q = SubSeq(Body(m), 1, k)
    OBVIOUS
  <2>4. /\ q \in Seq(Pieces) /\ Len(q) = k
        /\ \A i \in 1 .. k : q[i] = Body(m)[i]
    BY <2>3, <1>3, SubSeqFacts
  <2>5. /\ Len(q) <= size[packet[s]]
        /\ \A i \in 1 .. Len(q) : q[i] = <<packet[s], i>>
    BY <2>4, <1>2, <1>3
  <2>6. Frames(at)'
    BY <2>1, <2>2, <2>3, <2>4, <2>5, <1>0, <1>1, WriteBodyFrames
  <2>. QED
    BY <2>6 DEF Framed
<1>. QED
  BY <1>4, <1>5, <1>6

LEMMA ReadFramed ==
    ASSUME Typed, Reading, Len(delivered) <= Len(order), Framed,
           ReadHead \/ (ReadBody /\ need <= bufLen')
    PROVE  Framed'
<1>0. PICK at : Frames(at)
  BY DEF Framed
<1>1. /\ UNCHANGED <<order, size, closeFlag, send>>
  BY DEF ReadHead, ReadBody, sendVars, frameHist
<1>2. /\ at \in [Nat -> Int] /\ Anchored(at)
      /\ Len(stream) \in Nat /\ Len(delivered) \in Nat
  BY <1>0, SizeFacts DEF Frames
<1>3. CASE ReadHead
  <2>1. PICK to : to = [x \in Nat |-> at[x] - 1]
    OBVIOUS
  <2>2. /\ reading = "head" /\ stream # <<>> /\ stream' = Tail(stream)
        /\ reading' = "body" /\ delivered' = delivered
    BY <1>3 DEF ReadHead
  <2>3. /\ 1 \in 0 .. Len(stream) /\ Len(stream') = Len(stream) - 1
        /\ DOMAIN stream' = 1 .. Len(stream) - 1
        /\ \A i \in 1 .. Len(stream) - 1 : stream'[i] = stream[i + 1]
    BY <2>2, TailFacts DEF Typed
  <2>4. Anchored(to)'
    <3>1. at[Len(delivered) + 1] = 1 /\ Len(delivered) + 1 \in Nat
      BY <2>2, <1>2 DEF Anchored
    <3>2. to[Len(delivered) + 1] = 0
      BY <3>1, <2>1
    <3>. QED
      BY <3>2, <2>2 DEF Anchored
  <2>5. Frames(to)'
    BY <2>1, <2>3, <2>4, <1>0, <1>1, TakeFrames
  <2>. QED
    BY <2>5 DEF Framed
<1>4. CASE ReadBody /\ need <= bufLen'
  <2>0. need \in Nat /\ bufLen \in Nat /\ bufLen' \in Nat
    BY <1>4, ConnectionAssumption DEF Typed, FrameTypeOK, ReadBody, Grown
  <2>1. PICK c \in Nat : c = need
    BY <2>0
  <2>2. /\ reading = "body" /\ reading' = "head" /\ Len(stream) >= c
        /\ stream' = SubSeq(stream, c + 1, Len(stream))
        /\ delivered' = Append(delivered, SubSeq(stream, 1, c))
    BY <1>4, <2>0, <2>1 DEF ReadBody, Taken
  <2>3. PICK to : to = [x \in Nat |-> at[x] - c]
    OBVIOUS
  <2>4. PICK l \in Nat : l = Len(stream)
    BY <1>2
  <2>5. /\ c \in 0 .. l /\ c + 1 \in 1 .. l + 1 /\ l \in (c + 1) - 1 .. l
        /\ l - (c + 1) + 1 = l - c
        /\ \A i \in 1 .. l - c : (c + 1) + i - 1 = i + c
    BY <2>2, <2>4
  <2>6. /\ Len(stream') = l - c
        /\ DOMAIN stream' = 1 .. l - c
        /\ \A i \in 1 .. l - c : stream'[i] = stream[i + c]
    BY <2>2, <2>4, <2>5, SubSeqFacts DEF Typed
  <2>7. Len(delivered') = Len(delivered) + 1
    <3>1. 1 \in 1 .. l + 1 /\ c \in 1 - 1 .. l
      BY <2>5
    <3>2. SubSeq(stream, 1, c) \in Seq(Pieces)
      BY <3>1, <2>4, SubSeqFacts DEF Typed
    <3>. QED
      BY <3>2, <2>2, AppendFacts DEF Typed
  <2>8. Anchored(to)'
    <3>1. at[Len(delivered) + 2] = c + 1
      BY <2>1, <2>2, <1>0, FrameFacts DEF Reading
    <3>2. /\ to[Len(delivered) + 2] = 1
          /\ (Len(delivered) + 1) + 1 = Len(delivered) + 2
      BY <3>1, <2>3, <1>2
    <3>. QED
      BY <3>2, <2>2, <2>7 DEF Anchored
  <2>9. Frames(to)'
    BY <2>3, <2>4, <2>5, <2>6, <2>8, <1>0, <1>1, TakeFrames
  <2>. QED
    BY <2>9 DEF Framed
<1>. QED
  BY <1>3, <1>4

\* the steps that write and read nothing
LEMMA OtherFramed ==
    ASSUME Typed, Locked, Framed,
           \/ \E s \in Senders : SendCall(s) \/ Lock(s) \/ SendReturn(s)
           \/ Close \/ ReceiveEnds \/ UNCHANGED frameVars
    PROVE  Framed'
<1>0. PICK at : Frames(at)
  BY DEF Framed
<1>1. /\ UNCHANGED <<order, stream, delivered>>
      /\ reading' \in {reading, "failed"}
      /\ closeFlag' = closeFlag \/ closeFlag'
  BY DEF SendCall, Lock, SendReturn, Close, ReceiveEnds, frameVars, sendVars,
         readVars, frameHist
<1>2. \A x \in DOMAIN order : size'[order[x]] = size[order[x]]
  <2>1. CASE size' = size
    BY <2>1
  <2>2. CASE \E s \in Senders : SendCall(s)
    <3>1. PICK n \in Sizes : size' = Append(size, n)
      BY <2>2 DEF SendCall
    <3>2. \A m \in 1 .. Len(size) : size'[m] = size[m]
      BY <3>1, AppendFacts DEF Typed, FrameTypeOK
    <3>. QED
      BY <3>2, SizeFacts
  <2>. QED
    BY <2>1, <2>2
    DEF Lock, SendReturn, Close, ReceiveEnds, frameVars, sendVars, readVars
<1>3. closeFlag' \/ (~closeFlag /\ (Halfway <=> Halfway'))
  <2>1. ASSUME NEW s \in Senders, SendCall(s) \/ Lock(s) \/ SendReturn(s)
        PROVE  closeFlag' = closeFlag /\ (Halfway <=> Halfway')
    <3>1. /\ closeFlag' = closeFlag
          /\ send[s] # "body" /\ send'[s] # "body"
          /\ \A t \in Senders : t # s => send'[t] = send[t]
      BY <2>1 DEF SendCall, Lock, SendReturn, Goto, Typed, FrameTypeOK
    <3>. QED
      BY <3>1 DEF Halfway
  <2>2. CASE ReceiveEnds \/ UNCHANGED frameVars
    BY <2>2 DEF ReceiveEnds, frameVars, sendVars, Halfway, Typed, FrameTypeOK
  <2>3. CASE Close
    BY <2>3 DEF Close
  <2>. QED
    BY <2>1, <2>2, <2>3 DEF Typed, FrameTypeOK
<1>4. Frames(at)'
  BY <1>0, <1>1, <1>2, <1>3, FramesStay
<1>. QED
  BY <1>4 DEF Framed

LEMMA FramedStep ==
    Typed /\ Locked /\ Numbered /\ Reading /\ WholePackets /\ Framed
    /\ FrameTypeOK' /\ [FrameNext]_frameVars => Framed'
<1>. SUFFICES ASSUME Typed, Locked, Numbered, Reading, WholePackets, Framed,
                     FrameTypeOK', [FrameNext]_frameVars
              PROVE  Framed'
  OBVIOUS
<1>1. Len(delivered) <= Len(order)
  BY DEF WholePackets
<1>2. ASSUME ReadBody PROVE need <= bufLen'
  <2>1. reading' # "panicked"
    BY DEF FrameTypeOK
  <2>2. need \in Nat /\ bufLen' \in Nat
    BY ConnectionAssumption DEF Typed, FrameTypeOK
  <2>. QED
    BY <1>2, <2>1, <2>2 DEF ReadBody
<1>. QED
  BY <1>1, <1>2, WriteHeadFrames, WriteFramed, ReadFramed, OtherFramed
  DEF FrameNext, SendStep

-----------------------------------------------------------------------------
(* The types, the reader and what it delivers.                             *)

LEMMA TypedStep ==
    Typed /\ Locked /\ Numbered /\ Reading /\ WholePackets /\ Framed
    /\ [FrameNext]_frameVars => Typed'
<1>. SUFFICES ASSUME Typed, Locked, Numbered, Reading, WholePackets, Framed,
                     [FrameNext]_frameVars
              PROVE  Typed'
  OBVIOUS
<1>. USE DEF Typed, FrameTypeOK, Goto
<1>0. /\ NoSender \notin Senders /\ MaxPackets \in Nat
      /\ DefaultPacketSize \in Nat /\ HeadModulus \in Nat \ {0}
  BY ConnectionAssumption
<1>s. \A s \in Senders : send[s] # "idle" =>
          packet[s] \in DOMAIN size /\ packet[s] \in 1 .. MaxPackets
  BY SizeFacts DEF Numbered
<1>1. ASSUME NEW s \in Senders, SendCall(s) PROVE Typed'
  <2>1. PICK n \in Sizes : size' = Append(size, n)
    BY <1>1 DEF SendCall
  <2>2. /\ size' \in Seq(Sizes) /\ Len(size') = Len(size) + 1
        /\ DOMAIN size \subseteq DOMAIN size' /\ Len(size) \in Nat
    BY <2>1, AppendFacts
  <2>3. Len(size') \in 0 .. MaxPackets
    BY <2>2, <1>0, <1>1 DEF SendCall
  <2>4. order \in Seq(DOMAIN size')
    BY <2>2, SizeFacts
  <2>5. /\ packet' = [packet EXCEPT ![s] = Len(size')]
        /\ send' = [send EXCEPT ![s] = "lock"]
        /\ UNCHANGED <<sendMutex, sendErr, closeFlag, deadline, stream, reading, need,
                       bufLen, delivered, order, hooked, failures>>
    BY <1>1 DEF SendCall, readVars, frameHist
  <2>. QED
    BY <2>2, <2>3, <2>4, <2>5
<1>2. ASSUME NEW s \in Senders, Lock(s) PROVE Typed'
  BY <1>2 DEF Lock, readVars, frameHist
<1>3. ASSUME NEW s \in Senders, WriteHead(s) PROVE Typed'
  <2>1. <<packet[s], 0>> \in Pieces /\ packet[s] \in DOMAIN size
    BY <1>s, <1>3 DEF WriteHead, Pieces
  <2>2. stream' \in Seq(Pieces) /\ order' \in Seq(DOMAIN size)
    BY <2>1, <1>3, AppendFacts DEF WriteHead
  <2>. QED
    BY <2>2, <1>3 DEF WriteHead, readVars
<1>4. ASSUME NEW s \in Senders, WriteBody(s) PROVE Typed'
  <2>1. stream' \in Seq(Pieces)
    BY <1>s, <1>4, BodyFacts, ConcatFacts DEF WriteBody
  <2>. QED
    BY <2>1, <1>4 DEF WriteBody, readVars, frameHist
<1>5. ASSUME NEW s \in Senders, WriteFail(s) PROVE Typed'
  <2>1. packet[s] \in DOMAIN size
    BY <1>s, <1>5 DEF WriteFail
  <2>2. Body(packet[s]) \in Seq(Pieces) /\ Len(Body(packet[s])) = size[packet[s]]
        /\ size[packet[s]] \in Nat
    BY <2>1, BodyFacts, SizeFacts
  <2>3. \A k \in 1 .. size[packet[s]] - 1 :
           stream \o SubSeq(Body(packet[s]), 1, k) \in Seq(Pieces)
    BY <2>2, SubSeqFacts, ConcatFacts
  <2>4. stream' \in Seq(Pieces)
    BY <2>3, <1>5 DEF WriteFail
  <2>. QED
    BY <2>1, <2>4, <1>5 DEF WriteFail, readVars
<1>6. ASSUME NEW s \in Senders, SendReturn(s) PROVE Typed'
  <2>1. packet[s] \in DOMAIN size
    BY <1>s, <1>6 DEF SendReturn
  <2>2. 0 \in 0 .. MaxPackets
    BY <1>0
  <2>3. /\ sendMutex' = NoSender /\ sendErr' = FALSE
        /\ hooked' = hooked \cup {packet[s]}
        /\ packet' = [packet EXCEPT ![s] = 0]
        /\ send' = [send EXCEPT ![s] = "idle"]
        /\ UNCHANGED <<size, closeFlag, deadline, stream, reading, need, bufLen,
                       delivered, order, failures>>
    BY <1>6 DEF SendReturn, Unlocked, readVars
  <2>. QED
    BY <2>1, <2>2, <2>3
<1>7. ASSUME Close \/ ReceiveEnds PROVE Typed'
  BY <1>7 DEF Close, ReceiveEnds, sendVars, readVars, frameHist
<1>8. ASSUME ReadHead PROVE Typed'
  <2>1. Head(stream) = <<order[Len(delivered) + 1], 0>>
        /\ Len(delivered) + 1 \in DOMAIN order
    <3>1. PICK at : Frames(at)
      BY DEF Framed
    <3>2. reading = "head" /\ stream # <<>> /\ Len(delivered) <= Len(order)
      BY <1>8 DEF ReadHead, WholePackets
    <3>3. Len(delivered) < Len(order)
      BY <3>1, <3>2, FrameFacts, SizeFacts
    <3>. QED
      BY <3>1, <3>2, <3>3, FrameFacts, SizeFacts, TailFacts
  <2>2. need' = size[order[Len(delivered) + 1]] /\ need' \in 0 .. HeadModulus - 1
    <3>1. need' = size[order[Len(delivered) + 1]] % HeadModulus
      BY <2>1, <1>8 DEF ReadHead, LengthsIn
    <3>2. PICK w \in Nat : w = size[order[Len(delivered) + 1]] /\ w < HeadModulus
      BY <2>1, SizeFacts
    <3>3. w % HeadModulus = w
      BY <1>0, <3>2, LengthFits
    <3>4. w \in 0 .. HeadModulus - 1
      BY <1>0, <3>2
    <3>. QED
      BY <3>1, <3>2, <3>3, <3>4
  <2>3. stream' \in Seq(Pieces)
    BY <1>8, TailFacts DEF ReadHead
  <2>. QED
    BY <2>2, <2>3, <1>8 DEF ReadHead, sendVars, frameHist
<1>9. ASSUME ReadBody PROVE Typed'
  <2>1. need \in Nat /\ need <= bufLen' /\ bufLen' \in Nat
        /\ bufLen' >= DefaultPacketSize
    BY <1>0, <1>9 DEF ReadBody, Grown
  <2>2. /\ Len(stream) >= need /\ reading' = "head"
        /\ delivered' = Append(delivered, SubSeq(stream, 1, need))
        /\ stream' = SubSeq(stream, need + 1, Len(stream))
        /\ UNCHANGED <<sendVars, need, frameHist>>
    BY <2>1, <1>9 DEF ReadBody, Taken
  <2>3. Len(stream) \in Nat
    OBVIOUS
  <2>4. /\ 1 \in 1 .. Len(stream) + 1 /\ need \in 1 - 1 .. Len(stream)
        /\ need + 1 \in 1 .. Len(stream) + 1
        /\ Len(stream) \in (need + 1) - 1 .. Len(stream)
    BY <2>1, <2>2, <2>3
  <2>5. SubSeq(stream, 1, need) \in Seq(Pieces) /\ stream' \in Seq(Pieces)
    BY <2>2, <2>4, SubSeqFacts
  <2>6. delivered' \in Seq(Seq(Pieces))
    BY <2>2, <2>5, AppendFacts
  <2>. QED
    BY <2>1, <2>2, <2>5, <2>6 DEF sendVars, frameHist
<1>10. ASSUME UNCHANGED frameVars PROVE Typed'
  BY <1>10 DEF frameVars, sendVars, readVars, frameHist
<1>. QED
  BY <1>1, <1>2, <1>3, <1>4, <1>5, <1>6, <1>7, <1>8, <1>9, <1>10
  DEF FrameNext, SendStep

LEMMA ReadingStep ==
    Typed /\ Reading /\ WholePackets /\ Framed /\ FrameTypeOK'
    /\ [FrameNext]_frameVars
    => Reading'
<1>. SUFFICES ASSUME Typed, Reading, WholePackets, Framed, FrameTypeOK',
                     [FrameNext]_frameVars
              PROVE  Reading'
  OBVIOUS
<1>0. Len(delivered) <= Len(order) /\ Len(order) \in Nat
      /\ Len(delivered) \in Nat /\ DOMAIN order = 1 .. Len(order)
  BY SizeFacts DEF WholePackets
<1>1. ASSUME ReadHead PROVE Reading'
  <2>1. PICK at : Frames(at)
    BY DEF Framed
  <2>2. /\ reading = "head" /\ stream # <<>> /\ reading' = "body"
        /\ need' \in LengthsIn(Head(stream))
        /\ UNCHANGED <<delivered, order, size>>
    BY <1>1 DEF ReadHead, sendVars, frameHist
  <2>3. Len(delivered) < Len(order)
    BY <1>0, <2>1, <2>2, FrameFacts
  <2>4. PICK m \in DOMAIN size : m = order[Len(delivered) + 1]
    BY <1>0, <2>3, SizeFacts
  <2>5. Head(stream) = <<m, 0>>
    BY <2>1, <2>2, <2>3, <2>4, FrameFacts, TailFacts DEF Typed
  <2>6. need' = size[m] % HeadModulus
    BY <2>2, <2>5 DEF LengthsIn
  <2>7. size[m] % HeadModulus = size[m]
    BY SizeFacts, LengthFits, ConnectionAssumption
  <2>. QED
    BY <2>2, <2>3, <2>4, <2>6, <2>7 DEF Reading
<1>2. ASSUME ReadBody PROVE Reading'
  <2>1. reading' # "panicked"
    BY DEF FrameTypeOK
  <2>2. reading' = "head"
    BY <1>2, <2>1 DEF ReadBody
  <2>. QED
    BY <2>2 DEF Reading
<1>3. ASSUME ReceiveEnds PROVE Reading'
  BY <1>3 DEF ReceiveEnds, Reading, sendVars
<1>4. ASSUME UNCHANGED <<reading, need, delivered>>,
             closeFlag => closeFlag',
             Len(order) <= Len(order'),
             \A x \in DOMAIN order : order'[x] = order[x],
             \A m \in DOMAIN size : size'[m] = size[m]
      PROVE  Reading'
  <2>1. ASSUME reading = "body"
        PROVE  /\ Len(delivered) < Len(order')
               /\ need = size'[order'[Len(delivered) + 1]]
    <3>1. /\ Len(delivered) < Len(order) /\ Len(order') \in Nat
          /\ need = size[order[Len(delivered) + 1]]
      BY <2>1 DEF Reading, FrameTypeOK
    <3>2. Len(delivered) + 1 \in DOMAIN order
      BY <1>0, <3>1
    <3>. QED
      BY <1>0, <1>4, <3>1, <3>2, SizeFacts
  <2>. QED
    BY <1>4, <2>1 DEF Reading
<1>5. ASSUME NEW s \in Senders, SendCall(s) PROVE Reading'
  <2>1. \E n \in Sizes : size' = Append(size, n)
    BY <1>5 DEF SendCall
  <2>2. \A m \in DOMAIN size : size'[m] = size[m]
    BY <2>1, SizeFacts, AppendFacts DEF Typed, FrameTypeOK
  <2>. QED
    BY <1>4, <1>0, <2>2, <1>5 DEF SendCall, readVars, frameHist
<1>6. ASSUME NEW s \in Senders, WriteHead(s) PROVE Reading'
  <2>1. packet[s] \in Nat /\ order' = Append(order, packet[s])
    BY <1>6 DEF WriteHead, Typed, FrameTypeOK
  <2>2. order \in Seq(Nat)
    BY SizeFacts DEF Typed, FrameTypeOK
  <2>3. /\ Len(order) <= Len(order')
        /\ \A x \in DOMAIN order : order'[x] = order[x]
    BY <2>1, <2>2, AppendFacts
  <2>. QED
    BY <1>4, <2>3, <1>6 DEF WriteHead, readVars
<1>7. ASSUME \/ \E s \in Senders :
                   Lock(s) \/ WriteBody(s) \/ WriteFail(s) \/ SendReturn(s)
             \/ Close \/ UNCHANGED frameVars
      PROVE  Reading'
  BY <1>7, <1>4, <1>0
  DEF Lock, WriteBody, WriteFail, SendReturn, Close, frameVars, sendVars,
      readVars, frameHist
<1>. QED
  BY <1>1, <1>2, <1>3, <1>5, <1>6, <1>7 DEF FrameNext, SendStep

LEMMA WholePacketsStep ==
    Typed /\ Locked /\ Numbered /\ Reading /\ WholePackets /\ Framed
    /\ FrameTypeOK' /\ [FrameNext]_frameVars => WholePackets'
<1>. SUFFICES ASSUME Typed, Locked, Numbered, Reading, WholePackets, Framed,
                     FrameTypeOK', [FrameNext]_frameVars
              PROVE  WholePackets'
  OBVIOUS
<1>0. /\ reading' # "panicked"
      /\ Len(delivered) <= Len(order) /\ Len(order) \in Nat
      /\ Len(delivered) \in Nat /\ DOMAIN order = 1 .. Len(order)
      /\ DOMAIN delivered = 1 .. Len(delivered)
      /\ \A i \in DOMAIN order : order[i] \in DOMAIN size
  BY SizeFacts DEF WholePackets, FrameTypeOK
<1>1. ASSUME NEW s \in Senders, SendCall(s) PROVE WholePackets'
  <2>1. \E n \in Sizes : size' = Append(size, n)
    BY <1>1 DEF SendCall
  <2>2. \A m \in DOMAIN size : Body(m)' = Body(m)
    <3>1. \A m \in DOMAIN size : size'[m] = size[m]
      <4>1. PICK n \in Sizes : size' = Append(size, n)
        BY <2>1
      <4>2. size \in Seq(Sizes)
        BY DEF Typed, FrameTypeOK
      <4>. QED
        BY <4>1, <4>2, AppendFacts
    <3>. QED
      BY <3>1 DEF Body
  <2>3. \A i \in DOMAIN delivered : delivered[i] = Body(order[i])'
    <3>1. UNCHANGED <<delivered, order>>
      BY <1>1 DEF SendCall, readVars, frameHist
    <3>2. ASSUME NEW i \in DOMAIN delivered
          PROVE  delivered[i] = Body(order[i])'
      <4>1. PICK m \in DOMAIN size : m = order[i]
        BY <1>0
      <4>2. Body(m)' = Body(m) /\ delivered[i] = Body(m)
        BY <2>2, <4>1 DEF WholePackets
      <4>. QED
        BY <3>1, <4>1, <4>2
    <3>. QED
      BY <3>2
  <2>. QED
    BY <1>0, <1>1, <2>3 DEF WholePackets, SendCall, readVars, frameHist
<1>2. ASSUME NEW s \in Senders, WriteHead(s) PROVE WholePackets'
  <2>1. /\ send[s] = "head" /\ ~closeFlag /\ order' = Append(order, packet[s])
        /\ UNCHANGED <<size, closeFlag, delivered, failures>>
    BY <1>2 DEF WriteHead, readVars
  <2>2. /\ Len(order') = Len(order) + 1 /\ DOMAIN order' = 1 .. Len(order) + 1
        /\ \A i \in 1 .. Len(order) : order'[i] = order[i]
        /\ order'[Len(order) + 1] = packet[s]
    <3>1. packet[s] \in DOMAIN size
      BY <2>1 DEF Numbered
    <3>. QED
      BY <3>1, <2>1, AppendFacts DEF Typed, FrameTypeOK
  <2>3. failures = {} /\ \A i \in DOMAIN order : order[i] # packet[s]
    BY <2>1 DEF Numbered, WholePackets
  <2>4. \A i, j \in DOMAIN order' : i # j => order'[i] # order'[j]
    BY <1>0, <2>2, <2>3 DEF WholePackets
  <2>5. \A i \in DOMAIN delivered : delivered[i] = Body(order[i])'
    BY <2>1 DEF WholePackets, Body
  <2>6. \A i \in DOMAIN delivered : order'[i] = order[i]
    BY <1>0, <2>2
  <2>7. \A i \in DOMAIN delivered' : delivered'[i] = Body(order[i])'
    <3>1. ASSUME NEW i \in DOMAIN delivered
          PROVE  delivered'[i] = Body(order[i])'
      BY <2>1, <2>5, <2>6
    <3>. QED
      BY <3>1, <2>1
  <2>. QED
    BY <1>0, <2>1, <2>2, <2>3, <2>4, <2>7 DEF WholePackets
<1>3. ASSUME NEW s \in Senders, WriteFail(s) PROVE WholePackets'
  <2>1. /\ send[s] \in {"head", "body"} /\ closeFlag'
        /\ failures' = failures \cup {packet[s]}
        /\ UNCHANGED <<size, delivered, order>>
    BY <1>3 DEF WriteFail, readVars
  <2>2. \A i \in DOMAIN order : order[i] = packet[s] => i = Len(order)
    BY <1>0, <2>1 DEF Numbered, WholePackets
  <2>. QED
    BY <1>0, <2>1, <2>2 DEF WholePackets, Body
<1>4. ASSUME ReadBody PROVE WholePackets'
  <2>1. PICK at : Frames(at)
    BY DEF Framed
  <2>2. /\ need \in Nat /\ bufLen' \in Nat
    BY ConnectionAssumption DEF Typed, FrameTypeOK
  <2>3. /\ reading = "body" /\ Len(stream) >= need
        /\ delivered' = Append(delivered, SubSeq(stream, 1, need))
        /\ UNCHANGED <<size, closeFlag, order, failures>>
    BY <1>0, <1>4, <2>2 DEF ReadBody, sendVars, frameHist
  <2>4. PICK m \in DOMAIN size : m = order[Len(delivered) + 1]
    BY <1>0, <2>3 DEF Reading
  <2>5. /\ Len(delivered) < Len(order) /\ need = size[m]
    BY <2>3, <2>4 DEF Reading
  <2>6. SubSeq(stream, 1, need) = Body(m)
    <3>1. \A k \in 1 .. need : stream[k] = <<m, k>>
      <4>1. DOMAIN stream = 1 .. Len(stream) /\ Len(stream) \in Nat
        BY SizeFacts
      <4>2. \A k \in 1 .. need : k \in DOMAIN stream
        BY <2>2, <2>3, <4>1
      <4>. QED
        BY <2>1, <2>3, <2>4, <2>5, <4>2, FrameFacts
    <3>2. /\ SubSeq(stream, 1, need) \in Seq(Pieces)
          /\ Len(SubSeq(stream, 1, need)) = need
          /\ \A i \in 1 .. need : SubSeq(stream, 1, need)[i] = stream[i]
      <4>1. Len(stream) \in Nat
        BY SizeFacts
      <4>2. 1 \in 1 .. Len(stream) + 1 /\ need \in 1 - 1 .. Len(stream)
            /\ need - 1 + 1 = need /\ \A i \in 1 .. need : 1 + i - 1 = i
        BY <2>2, <2>3, <4>1
      <4>. QED
        BY <4>2, SubSeqFacts DEF Typed
    <3>3. /\ Body(m) \in Seq(Pieces) /\ Len(Body(m)) = need
          /\ \A i \in 1 .. need : Body(m)[i] = <<m, i>>
      BY <2>5, BodyFacts
    <3>4. PICK q \in Seq(Pieces) : q = SubSeq(stream, 1, need)
      BY <3>2
    <3>5. PICK r \in Seq(Pieces) : r = Body(m)
      BY <3>3
    <3>. QED
      BY <3>1, <3>2, <3>3, <3>4, <3>5, SameSeq
  <2>7. /\ Len(delivered') = Len(delivered) + 1
        /\ DOMAIN delivered' = 1 .. Len(delivered) + 1
        /\ \A i \in 1 .. Len(delivered) : delivered'[i] = delivered[i]
        /\ delivered'[Len(delivered) + 1] = Body(m)
    <3>1. Body(m) \in Seq(Pieces)
      BY BodyFacts
    <3>. QED
      BY <3>1, <2>3, <2>6, AppendFacts DEF Typed
  <2>8. \A i \in DOMAIN delivered' : delivered'[i] = Body(order[i])
    BY <1>0, <2>4, <2>7 DEF WholePackets
  <2>9. \A i \in DOMAIN delivered' : delivered'[i] = Body(order[i])'
    BY <2>3, <2>8 DEF Body
  <2>. QED
    BY <1>0, <2>3, <2>5, <2>7, <2>9 DEF WholePackets
<1>5. ASSUME UNCHANGED <<size, delivered, order, failures>>,
             closeFlag => closeFlag'
      PROVE  WholePackets'
  BY <1>0, <1>5 DEF WholePackets, Body
<1>. QED
  BY <1>1, <1>2, <1>3, <1>4, <1>5
  DEF FrameNext, SendStep, Lock, WriteBody, SendReturn, Close, ReadHead,
      ReceiveEnds, frameVars, sendVars, readVars, frameHist

-----------------------------------------------------------------------------
LEMMA ConnInvAlways == FrameSpec => []ConnInv
<1>1. FrameInit => ConnInv
  <2>. SUFFICES ASSUME FrameInit PROVE ConnInv
    OBVIOUS
  <2>1. /\ Len(size) = 0 /\ DOMAIN size = {} /\ Len(order) = 0
        /\ DOMAIN order = {} /\ Len(stream) = 0 /\ DOMAIN stream = {}
        /\ Len(delivered) = 0 /\ DOMAIN delivered = {}
        /\ size = <<>> /\ order = <<>> /\ stream = <<>> /\ delivered = <<>>
    BY DEF FrameInit
  <2>2. Typed
    <3>1. /\ 0 \in 0 .. MaxPackets /\ 0 \in 0 .. HeadModulus - 1
          /\ DefaultPacketSize >= DefaultPacketSize /\ DefaultPacketSize \in Nat
          /\ 0 <= MaxPackets
      BY ConnectionAssumption
    <3>2. /\ stream \in Seq(Pieces) /\ delivered \in Seq(Seq(Pieces))
          /\ size \in Seq(Sizes) /\ order \in Seq(DOMAIN size)
      BY <2>1
    <3>. QED
      BY <2>1, <3>1, <3>2 DEF FrameInit, Typed, FrameTypeOK
  <2>3. Locked /\ Numbered /\ Reading
    BY <2>1, ConnectionAssumption DEF FrameInit, Locked, Numbered, Reading
  <2>4. WholePackets
    BY <2>1 DEF FrameInit, WholePackets
  <2>5. Frames([x \in Nat |-> 1])
    BY <2>1 DEF FrameInit, Frames, Spaced, Filled, Anchored, Ended, Halfway
  <2>. QED
    BY <2>2, <2>3, <2>4, <2>5 DEF ConnInv, Framed
<1>2. ConnInv /\ [FrameNext]_frameVars => ConnInv'
  <2>1. ConnInv /\ [FrameNext]_frameVars => Typed' /\ FrameTypeOK'
    BY TypedStep DEF ConnInv, Typed
  <2>. QED
    BY <2>1, LockedStep, NumberedStep, FramedStep, ReadingStep,
       WholePacketsStep
    DEF ConnInv
<1>. QED
  BY <1>1, <1>2, PTL DEF FrameSpec

(***************************************************************************)
(* Type correctness of one direction of a connection.                      *)
(***************************************************************************)
THEOREM TypeCorrect == FrameSpec => []FrameTypeOK
<1>1. ConnInv => FrameTypeOK
  BY DEF ConnInv, Typed
<1>. QED
  BY <1>1, ConnInvAlways, PTL

(***************************************************************************)
(* Whatever the goroutines that send, and wherever a write fails or the    *)
(* connection is closed, Receive returns a prefix of the packets sent,     *)
(* whole, each once and in order, and no frame follows one that was cut    *)
(* short: sendMutex, the close after a failed write and the two reads of a *)
(* frame suffice.                                                          *)
(***************************************************************************)
THEOREM PacketsWhole == FrameSpec => []WholePackets
<1>1. ConnInv => WholePackets
  BY DEF ConnInv
<1>. QED
  BY <1>1, ConnInvAlways, PTL

-----------------------------------------------------------------------------

(***************************************************************************)
(* What n ticks bring.  The proofs use this function through the lemmas    *)
(* below, so that the provers meet no product of two variables.            *)
(***************************************************************************)
Brought(n) == n * Increment

LEMMA BroughtType == \A n \in Int : Brought(n) \in Int
  BY BucketAssumption DEF Brought

LEMMA BroughtFrom ==
    \A m, n \in Int : Brought(n - m) + Brought(m) = Brought(n)
  BY BucketAssumption DEF Brought

LEMMA BroughtGrows == \A m, n \in Nat : m <= n => Brought(m) <= Brought(n)
<1>. SUFFICES ASSUME NEW m \in Nat, NEW n \in Nat, m <= n
              PROVE  Brought(m) <= Brought(n)
  OBVIOUS
<1>1. n - m \in Nat
  OBVIOUS
<1>2. Brought(n - m) >= 0
  BY <1>1, BucketAssumption DEF Brought
<1>. QED
  BY <1>2, BroughtFrom, BroughtType

\* a credit is paid back within the ticks waited for, but for a part of one
LEMMA CreditPaid ==
    ASSUME NEW k \in Nat
    PROVE  /\ k \div Increment \in Nat
           /\ Brought(k \div Increment) >= k - (Increment - 1)
<1>1. k \div Increment \in Nat
  BY BucketAssumption
<1>2. (k \div Increment) * Increment > k - Increment
  BY BucketAssumption, Z3
<1>. QED
  BY <1>1, <1>2, BucketAssumption DEF Brought

-----------------------------------------------------------------------------
(***************************************************************************)
(* TokenBucket's inductive invariant.  Ledger: what is left, or owed, and  *)
(* what was taken never exceed the capacity and what was filled in.        *)
(* Promises: a sleeping user is woken when enough has been filled in for   *)
(* it.  Fill: once filled in this tick, what is left and what has gone out *)
(* in this tick make one bucket, or two in the tick of the first call;     *)
(* what is left may be a credit that nobody waits for.                     *)
(***************************************************************************)
Left == Most(avail, -(Increment - 1))

Ledger ==
    /\ avail + given <= Capacity + Brought(availTick)
    /\ burst <= given

Enough(g, t) == g <= Capacity + Brought(t) + (Increment - 1)

Promises ==
    /\ \A u \in Users : wake[u] # Awake => Enough(upTo[u], wake[u])
    /\ Enough(served, now)

Fill ==
    /\ first = Awake => availTick = 0 /\ avail = Capacity /\ burst = 0
    /\ first # Awake => avail < Capacity
    /\ first # Awake /\ first # now =>
           IF availTick = now THEN burst + Left <= Capacity ELSE burst = 0
    /\ first = now =>
           IF availTick = now THEN burst + Left <= 2 * Capacity + (Increment - 1)
                              ELSE burst + Left <= Capacity

BucketIInv == BucketTypeOK /\ Ledger /\ Promises /\ Fill

LEMMA BucketInitInv == BucketInit => BucketIInv
<1>. SUFFICES ASSUME BucketInit PROVE BucketIInv
  OBVIOUS
<1>. USE BucketAssumption DEF BucketInit, Awake
<1>1. BucketTypeOK
  BY DEF BucketTypeOK
<1>2. Brought(0) = 0
  BY DEF Brought
<1>3. Ledger /\ Promises
  BY <1>2 DEF Ledger, Promises, Enough
<1>4. Fill
  BY DEF Fill, Left, Most
<1>. QED
  BY <1>1, <1>3, <1>4 DEF BucketIInv

\* how a call finds the bucket, and what it leaves
LEMMA FilledFacts ==
    ASSUME BucketIInv
    PROVE  /\ Refilled(avail) \in Int /\ Refilled(avail) <= Capacity
           /\ TickOf(avail) \in 0 .. now
           /\ Refilled(avail) + given <= Capacity + Brought(TickOf(avail))
           /\ avail < Capacity /\ availTick = now => Refilled(avail) = avail
<1>1. /\ now \in Nat /\ availTick \in 0 .. now /\ avail \in Int
      /\ given \in Nat /\ Capacity \in Nat /\ avail <= Capacity
  BY BucketAssumption DEF BucketIInv, BucketTypeOK
<1>2. avail + given <= Capacity + Brought(availTick)
  BY DEF BucketIInv, Ledger
<1>3. /\ Brought(now - availTick) \in Int /\ Brought(availTick) \in Int
      /\ Brought(now - availTick) + Brought(availTick) = Brought(now)
  BY <1>1, BroughtType, BroughtFrom
<1>4. availTick = now => Brought(now - availTick) = 0
  BY <1>1, BucketAssumption DEF Brought
<1>5. Refilled(avail) = IF avail >= Capacity THEN avail
                      ELSE IF avail + Brought(now - availTick) > Capacity
                           THEN Capacity ELSE avail + Brought(now - availTick)
  BY DEF Refilled, Brought
<1>. QED
  BY <1>1, <1>2, <1>3, <1>4, <1>5 DEF TickOf

LEMMA WaitInv ==
    ASSUME BucketIInv, NEW u \in Users, NEW n \in 0 .. MaxAsk, Wait(u, n)
    PROVE  BucketIInv'
<1>. DEFINE left == Refilled(avail) - n
<1>1. /\ now \in 0 .. MaxTick /\ availTick \in 0 .. now /\ avail \in Int
      /\ avail <= Capacity /\ Capacity \in Nat \ {0} /\ Increment \in Nat \ {0}
      /\ MaxGiven \in Nat /\ MaxTick \in Nat /\ n \in Nat \ {0}
      /\ given \in 0 .. MaxGiven /\ served \in 0 .. MaxGiven
      /\ burst \in 0 .. MaxGiven /\ first \in {Awake} \cup 0 .. now
      /\ wake \in [Users -> Nat \cup {Awake}] /\ upTo \in [Users -> 0 .. MaxGiven]
  BY BucketAssumption DEF BucketIInv, BucketTypeOK, Wait
<1>2. /\ Refilled(avail) \in Int /\ Refilled(avail) <= Capacity
      /\ TickOf(avail) \in 0 .. now
      /\ Refilled(avail) + given <= Capacity + Brought(TickOf(avail))
  BY FilledFacts
<1>3. /\ avail' = left /\ availTick' = TickOf(avail)
      /\ given' = given + n /\ given + n <= MaxGiven /\ now' = now
      /\ first' = IF first = Awake THEN now ELSE first
  BY DEF Wait
<1>4. left \in Int /\ left < Capacity /\ given' \in 0 .. MaxGiven
  BY <1>1, <1>2, <1>3
<1>5. /\ Brought(TickOf(avail)) \in Int /\ Brought(now) \in Int
      /\ Brought(TickOf(avail)) <= Brought(now)
  BY <1>1, <1>2, BroughtType, BroughtGrows
<1>6. burst <= given
  BY DEF BucketIInv, Ledger
<1>7. \/ /\ AtOnce(left) /\ served' = Most(served, given') /\ burst' = burst + n
         /\ wake' = wake /\ upTo' = upTo
      \/ /\ ~AtOnce(left) /\ wake' = [wake EXCEPT ![u] = EndTick(left)]
         /\ upTo' = [upTo EXCEPT ![u] = given'] /\ served' = served
         /\ burst' = burst
  BY DEF Wait
<1>8. /\ \A v \in Users : wake[v] # Awake => Enough(upTo[v], wake[v])
      /\ Enough(served, now)
  BY DEF BucketIInv, Promises
<1>9. left >= 0 => Enough(given', now)
  BY <1>1, <1>2, <1>3, <1>5 DEF Enough
<1>10. left < 0 => EndTick(left) \in Nat /\ Enough(given', EndTick(left))
  <2>. SUFFICES ASSUME left < 0
                PROVE  EndTick(left) \in Nat /\ Enough(given', EndTick(left))
    OBVIOUS
  <2>. DEFINE q == (-left) \div Increment
  <2>1. -left \in Nat
    BY <1>4
  <2>2. q \in Nat /\ Brought(q) >= -left - (Increment - 1)
    BY <2>1, CreditPaid
  <2>3. EndTick(left) = now + q
    BY DEF EndTick
  <2>. HIDE DEF q
  <2>4. EndTick(left) \in Nat /\ EndTick(left) - now = q
    BY <1>1, <2>2, <2>3
  <2>5. Brought(EndTick(left)) = Brought(q) + Brought(now)
    BY <1>1, <2>4, BroughtFrom
  <2>6. Brought(q) \in Int
    BY <2>2, BroughtType
  <2>. QED
    BY <1>1, <1>2, <1>3, <1>5, <2>2, <2>4, <2>5, <2>6 DEF Enough
<1>. HIDE DEF left
<1>a. AtOnce(left) => Enough(given', now)
  <2>1. ASSUME left < 0, EndTick(left) <= now PROVE Enough(given', now)
    <3>1. EndTick(left) \in Nat /\ Enough(given', EndTick(left))
      BY <1>10, <2>1
    <3>2. /\ Brought(EndTick(left)) <= Brought(now)
          /\ Brought(EndTick(left)) \in Int
      BY <1>1, <2>1, <3>1, BroughtGrows, BroughtType
    <3>. QED
      BY <1>1, <1>4, <1>5, <3>1, <3>2 DEF Enough
  <2>. QED
    BY <1>4, <1>9, <2>1 DEF AtOnce
<1>b. /\ ~AtOnce(left) => left < 0
      /\ AtOnce(left) => left >= -(Increment - 1)
  <2>1. ~AtOnce(left) => left < 0
    BY <1>4 DEF AtOnce
  <2>2. ASSUME left < 0, EndTick(left) <= now PROVE left >= -(Increment - 1)
    BY <1>1, <1>4, <2>2, Z3 DEF EndTick
  <2>. QED
    BY <1>1, <1>4, <2>1, <2>2 DEF AtOnce
<1>11. Ledger'
  <2>1. (avail + given <= Capacity + Brought(availTick))'
    BY <1>1, <1>2, <1>3, <1>5 DEF left, Brought
  <2>2. (burst <= given)'
    BY <1>1, <1>3, <1>6, <1>7
  <2>. QED
    BY <2>1, <2>2 DEF Ledger
<1>12. BucketTypeOK'
  BY <1>1, <1>2, <1>3, <1>4, <1>6, <1>7, <1>10, <1>b DEF BucketTypeOK, Most
<1>13. Promises'
  BY <1>1, <1>3, <1>4, <1>7, <1>8, <1>10, <1>a, <1>b DEF Promises, Most
<1>14. Fill'
  <2>1. Awake \notin Nat
    BY DEF Awake
  <2>2. CASE first = Awake
    <3>1. availTick = 0 /\ avail = Capacity /\ burst = 0
      BY <2>2 DEF BucketIInv, Fill
    <3>2. left = Capacity - n /\ availTick' = 0
      BY <1>1, <1>3, <3>1 DEF left, Refilled, TickOf
    <3>. QED
      BY <1>1, <1>3, <1>7, <1>b, <2>1, <2>2, <3>1, <3>2 DEF Fill, Left, Most
  <2>3. CASE first # Awake
    <3>1. avail < Capacity /\ first' = first /\ first \in 0 .. now
      BY <1>1, <1>3, <2>3 DEF BucketIInv, Fill
    <3>2. availTick' = now
      BY <1>1, <1>3, <3>1 DEF TickOf
    <3>3. left = Refilled(avail) - n /\ (availTick = now => Refilled(avail) = avail)
      BY <3>1, FilledFacts DEF left
    <3>4. CASE first = now
      <4>1. IF availTick = now THEN burst + Left <= 2 * Capacity + (Increment - 1)
                               ELSE burst + Left <= Capacity
        BY <3>4 DEF BucketIInv, Fill
      <4>2. burst' + Left' <= 2 * Capacity + (Increment - 1)
        BY <1>1, <1>2, <1>3, <1>4, <1>7, <1>b, <3>3, <4>1 DEF Left, Most
      <4>. QED
        BY <1>1, <1>3, <1>4, <2>1, <3>1, <3>2, <3>4, <4>2 DEF Fill
    <3>5. CASE first # now
      <4>1. IF availTick = now THEN burst + Left <= Capacity ELSE burst = 0
        BY <2>3, <3>5 DEF BucketIInv, Fill
      <4>2. burst' + Left' <= Capacity
        BY <1>1, <1>2, <1>3, <1>4, <1>7, <1>b, <3>3, <4>1 DEF Left, Most
      <4>. QED
        BY <1>1, <1>3, <1>4, <2>1, <3>1, <3>2, <3>5, <4>2 DEF Fill
    <3>. QED
      BY <3>4, <3>5
  <2>. QED
    BY <2>2, <2>3
<1>. QED
  BY <1>11, <1>12, <1>13, <1>14 DEF BucketIInv

LEMMA WakeInv ==
    ASSUME BucketIInv, NEW u \in Users, WakeUp(u)
    PROVE  BucketIInv'
<1>1. /\ wake[u] # Awake /\ wake[u] <= now /\ served' = Most(served, upTo[u])
      /\ wake' = [wake EXCEPT ![u] = Awake]
      /\ UNCHANGED <<now, avail, availTick, given, upTo, burst, first>>
  BY DEF WakeUp
<1>2. BucketTypeOK
  BY DEF BucketIInv
<1>3. now \in Nat /\ wake[u] \in Nat /\ upTo[u] \in 0 .. MaxGiven
      /\ served \in 0 .. MaxGiven
  BY <1>1, <1>2, BucketAssumption DEF BucketTypeOK
<1>4. BucketTypeOK'
  BY <1>1, <1>2, <1>3 DEF BucketTypeOK, Most
<1>5. /\ Brought(wake[u]) <= Brought(now)
      /\ Brought(wake[u]) \in Int /\ Brought(now) \in Int
  BY <1>1, <1>3, BroughtGrows, BroughtType
<1>6. Enough(upTo[u], wake[u]) /\ Enough(served, now)
  BY <1>1 DEF BucketIInv, Promises
<1>7. Enough(upTo[u], now)
  BY <1>3, <1>5, <1>6, BucketAssumption DEF Enough
<1>8. Enough(served', now')
  BY <1>1, <1>6, <1>7 DEF Most
<1>9. \A v \in Users : wake'[v] # Awake => Enough(upTo'[v], wake'[v])
  BY <1>1, <1>2 DEF BucketIInv, Promises, BucketTypeOK
<1>10. Promises'
  BY <1>1, <1>8, <1>9 DEF Promises, Enough
<1>11. Ledger' /\ Fill'
  BY <1>1 DEF BucketIInv, Ledger, Fill, Left, Brought
<1>. QED
  BY <1>4, <1>10, <1>11 DEF BucketIInv

LEMMA TickInv == BucketIInv /\ Tick => BucketIInv'
<1>. SUFFICES ASSUME BucketIInv, Tick PROVE BucketIInv'
  OBVIOUS
<1>1. /\ now < MaxTick /\ now' = now + 1 /\ burst' = 0
      /\ UNCHANGED <<avail, availTick, wake, given, upTo, served, first>>
  BY DEF Tick
<1>2. BucketTypeOK
  BY DEF BucketIInv
<1>3. /\ now \in Nat /\ availTick \in 0 .. now /\ first \in {Awake} \cup 0 .. now
      /\ given \in Nat /\ served \in Nat
  BY <1>2, BucketAssumption DEF BucketTypeOK
<1>4. BucketTypeOK'
  BY <1>1, <1>2, <1>3, BucketAssumption DEF BucketTypeOK
<1>5. Brought(now) <= Brought(now + 1) /\ Brought(now) \in Int
      /\ Brought(now + 1) \in Int
  BY <1>3, BroughtGrows, BroughtType
<1>6. Promises'
  <2>1. Enough(served, now) => Enough(served, now + 1)
    BY <1>3, <1>5, BucketAssumption DEF Enough
  <2>. QED
    BY <1>1, <2>1 DEF BucketIInv, Promises, Enough
<1>7. Ledger'
  BY <1>1, <1>3 DEF BucketIInv, Ledger, Brought
<1>8. Fill'
  BY <1>1, <1>3 DEF BucketIInv, Fill, Awake
<1>. QED
  BY <1>4, <1>6, <1>7, <1>8 DEF BucketIInv

LEMMA BucketInductiveInv == BucketSpec => []BucketIInv
<1>1. BucketIInv /\ [BucketNext]_bucketVars => BucketIInv'
  <2>. SUFFICES ASSUME BucketIInv, [BucketNext]_bucketVars PROVE BucketIInv'
    OBVIOUS
  <2>1. CASE UNCHANGED bucketVars
    BY <2>1 DEF bucketVars, BucketIInv, BucketTypeOK, Ledger, Promises, Enough,
                Fill, Left, Brought
  <2>. QED
    BY <2>1, WaitInv, WakeInv, TickInv DEF BucketNext
<1>. QED
  BY <1>1, BucketInitInv, PTL DEF BucketSpec

(***************************************************************************)
(* The bucket and its users keep their types.                              *)
(***************************************************************************)
THEOREM BucketTypeCorrect == BucketSpec => []BucketTypeOK
<1>1. BucketIInv => BucketTypeOK
  BY DEF BucketIInv
<1>. QED
  BY <1>1, BucketInductiveInv, PTL

(***************************************************************************)
(* The rate is kept, by RateKept, whatever the users ask for.              *)
(***************************************************************************)
THEOREM RateAlwaysKept == BucketSpec => []RateKept
<1>1. BucketIInv => RateKept
  <2>. SUFFICES ASSUME BucketIInv PROVE RateKept
    OBVIOUS
  <2>. QED
    BY DEF BucketIInv, Promises, Enough, Brought, RateKept
<1>. QED
  BY <1>1, BucketInductiveInv, PTL

(***************************************************************************)
(* A tick lets out, without a wait, one bucket and what is short of one    *)
(* more increment, or twice that if the first call was in it.              *)
(***************************************************************************)
THEOREM BurstsBounded == BucketSpec => []BurstBound
<1>1. BucketIInv => BurstBound
  <2>. SUFFICES ASSUME BucketIInv PROVE BurstBound
    OBVIOUS
  <2>1. /\ avail \in Int /\ burst \in Nat /\ Capacity \in Nat
        /\ Increment \in Nat /\ Left \in Int /\ Left >= -(Increment - 1)
    BY BucketAssumption DEF BucketIInv, BucketTypeOK, Left, Most
  <2>2. /\ first # now => burst + Left <= Capacity \/ burst = 0
        /\ burst + Left <= 2 * Capacity + (Increment - 1) \/ burst = 0
    BY <2>1, BucketAssumption DEF BucketIInv, Fill
  <2>. QED
    BY <2>1, <2>2, BucketAssumption DEF BurstBound, Bucketful
<1>. QED
  BY <1>1, BucketInductiveInv, PTL
=============================================================================
