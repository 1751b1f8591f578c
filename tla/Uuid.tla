--------------------------------- MODULE Uuid ---------------------------------
(***************************************************************************)
(* common/uuid.go: the UUIDs a process makes and the texts it parses.      *)
(*                                                                         *)
(* A version 1 UUID is the time of the system clock and a sequence number  *)
(* that is advanced when the clock has not moved on; both are kept in      *)
(* memory.  The lengths and the widths of the fields are constants, so     *)
(* that the numbers can wrap and texts be enumerated.                      *)
(***************************************************************************)
EXTENDS Integers, SequencesExt

CONSTANTS
    Times,          \* what the clock may say; it may go back
    SeqModulus,     \* clockSequence counts modulo this (2^16) ...
    KeptSeq,        \* ... and SetVariant keeps it modulo this (2^14)
    LowSpan,        \* time units in a step of the field time_mid (2^32)
    DomainSpan,     \* sequence numbers the domain byte of V2 hides (2^8)
    Domains, Randoms,
    ByteGroups,     \* digits between the dashes: byteGroups
    PrefixLen,      \* characters of urn:uuid: (9)
    Texts, Spares   \* what is parsed; what lies behind it in its array

Digits == FoldLeft(LAMBDA a, b : a + b, 0, ByteGroups)
BinaryLen == Digits \div 2

ASSUME UuidAssumption ==
    /\ Times \subseteq Nat \ {0}
    /\ KeptSeq \in Nat \ {0}
    /\ SeqModulus \in Nat \ {0} /\ SeqModulus % KeptSeq = 0
    /\ LowSpan \in Nat \ {0} /\ DomainSpan \in Nat \ {0}
    /\ \A i \in DOMAIN ByteGroups : ByteGroups[i] % 2 = 0
    /\ PrefixLen \in 1 .. Digits

VARIABLES
    storageInit, lastTime, clockSequence,
    issued,     \* the UUIDs made from the clock, with the number of the
                \* process and of the advances of the sequence before them
    restarts, advances,     \* history: processes and advances so far
    parsed      \* the last text parsed, and what came of it

storageVars == <<storageInit, lastTime, clockSequence, restarts, advances>>
uuidVars == <<storageVars, issued, parsed>>

NotParsed == [via |-> "none", res |-> "none"]

UuidInit ==
    /\ storageInit = FALSE /\ lastTime = 0 /\ clockSequence = 0
    /\ issued = <<>> /\ restarts = 0 /\ advances = 0
    /\ parsed = NotParsed

-----------------------------------------------------------------------------
(* Generators *)

V1(time, seq) == [version |-> 1, time |-> time, seq |-> seq % KeptSeq]
\* uid or gid, or nothing, in the place of time_low; domain of clock_seq_low
V2(domain, time, seq) == [version |-> 2, domain |-> domain,
                          time |-> time \div LowSpan,
                          seq |-> (seq % KeptSeq) \div DomainSpan]
V4 == [version : {4}, random : Randoms]

StrictlyBack(now) == now < lastTime     \* mutant: < for <=
NotAfter(now) == now <= lastTime

\* getStorage, all of it under storageMutex, and NewUUIDV1 or NewUUIDV2
NewFromClock ==
    \E now \in Times, seq \in 0 .. SeqModulus - 1 :
      /\ ~storageInit \/ seq = clockSequence    \* initStorage draws it
      /\ storageInit' = TRUE
      /\ lastTime' = now
      /\ LET adv == IF NotAfter(now) THEN 1 ELSE 0
         IN  /\ clockSequence' = (seq + adv) % SeqModulus
             /\ advances' = advances + adv
      /\ \E u \in {V1(now, clockSequence')}
                  \cup {V2(d, now, clockSequence') : d \in Domains} :
            issued' = Append(issued, [uuid |-> u, process |-> restarts,
                                      advances |-> advances'])
      /\ UNCHANGED <<restarts, parsed>>

\* the process ends and another starts: nothing was saved
Restart ==
    /\ storageInit
    /\ storageInit' = FALSE /\ lastTime' = 0 /\ clockSequence' = 0
    /\ restarts' = restarts + 1
    /\ UNCHANGED <<issued, advances, parsed>>

-----------------------------------------------------------------------------
(* UnmarshalText.  A text is a sequence of characters: "h" any hexadecimal *)
(* digit, "-", "{", "}", "u" the prefix urn:uuid: and "x" any other.       *)

IsDigit(c) == c[1] = "h"
Placed(text) == [i \in DOMAIN text |-> <<text[i], i>>]

Length(text) == Len(text) + (IF text # <<>> /\ Head(text) = "u"
                             THEN PrefixLen - 1 ELSE 0)

Unprefixed(text) ==
    IF text # <<>> /\ Head(text)[1] \in {"u", "{"} THEN Tail(text) ELSE text
DashKept(text) == text      \* mutant: dashes are not skipped
Undashed(text) == IF Head(text)[1] = "-" THEN Tail(text) ELSE text

\* hex.Decode stops at the first pair that is not digits
Decoded(cs) ==
    LET bad == {i \in DOMAIN cs : ~IsDigit(cs[i])}
    IN  IF bad = {} THEN cs
        ELSE SubSeq(cs, 1, 2 * (((CHOOSE i \in bad : \A j \in bad : i <= j) - 1)
                                \div 2))

\* one group: text[0], text[:n] -- which may reach behind the text, into its
\* array -- and text[n:], which may not
Group(s, n, spare) ==
    IF s.res # "ok" THEN s
    ELSE IF s.text = <<>> THEN [s EXCEPT !.res = "panic"]
    ELSE LET text == Undashed(s.text)
             there == text \o [i \in DOMAIN spare |-> <<spare[i], 0>>]
             digits == Decoded(SubSeq(there, 1, n))
         IN  IF n > Len(there) THEN [s EXCEPT !.res = "panic"]
             ELSE [res |-> CASE Len(digits) < n  -> "error"
                             [] n > Len(text)    -> "panic"
                             [] OTHER            -> "ok",
                   digits |-> s.digits \o digits,
                   text |-> SubSeq(text, n + 1, Len(text))]

UnmarshalText(text, spare) ==
    LET none == [res |-> "ok", digits |-> <<>>,
                 text |-> Unprefixed(Placed(text))]
    IN  IF Length(text) < Digits
        THEN [none EXCEPT !.res = "error"]
        ELSE FoldLeft(LAMBDA s, n : Group(s, n, spare), none, ByteGroups)

UnmarshalBinary(data) ==
    [res |-> IF Length(data) = BinaryLen THEN "ok" ELSE "error",
     digits |-> <<>>, text |-> <<>>]

\* Scan takes bytes of one length for the sixteen bytes themselves
Scan(kind, data, spare) ==
    CASE kind = "bytes" /\ Length(data) = BinaryLen -> UnmarshalBinary(data)
      [] kind \in {"bytes", "string"}            -> UnmarshalText(data, spare)
      [] OTHER -> [res |-> "error", digits |-> <<>>, text |-> <<>>]

\* a text, a value of a column, or bytes are parsed
Parse ==
    /\ \E text \in Texts, spare \in Spares :
         \E p \in {<<"text", UnmarshalText(text, spare)>>,
                   <<"binary", UnmarshalBinary(text)>>}
                  \cup {<<k, Scan(k, text, spare)>> :
                           k \in {"bytes", "string", "number"}} :
            parsed' = [via |-> p[1], in |-> text, res |-> p[2].res,
                       digits |-> p[2].digits]
    /\ UNCHANGED <<storageVars, issued>>

UuidNext == NewFromClock \/ Restart \/ Parse

-----------------------------------------------------------------------------
(* String, and the formats UnmarshalText's comment names *)
Canonical == FlattenSeq([i \in DOMAIN ByteGroups |->
                (IF i = 1 THEN <<>> ELSE <<"-">>)
                \o [j \in 1 .. ByteGroups[i] |-> "h"]])
Documented == {Canonical, <<"{">> \o Canonical \o <<"}">>, <<"u">> \o Canonical}

(***************************************************************************)
(* Two UUIDs of version 1 differ, even if they are made in the same tick   *)
(* of the clock or after it was set back -- until the part of the sequence *)
(* number that a UUID keeps has gone round, or in another process: neither *)
(* the time nor the sequence number outlives one.                          *)
(***************************************************************************)
UniqueV1 ==
    \A j \in DOMAIN issued : \A i \in 1 .. j - 1 :
       issued[i].uuid = issued[j].uuid /\ issued[j].uuid.version = 1 =>
          \/ issued[i].process # issued[j].process
          \/ issued[j].advances - issued[i].advances >= KeptSeq

(***************************************************************************)
(* What String writes, and the forms the comment of UnmarshalText names,   *)
(* are read back.  Any text that is accepted -- dashes may be missing, a   *)
(* brace may not be closed, anything may follow -- gives its own first     *)
(* digits, in order, and never what lies behind it in memory.  Parsing     *)
(* panics only on texts that are long enough for the check of the length   *)
(* but hold too few digits; Scan reads bytes of the one length raw.        *)
(***************************************************************************)
ParseOutcome ==
    parsed.via \in {"text", "bytes", "string"} =>
      LET at == SelectSeq(Placed(parsed.in), IsDigit)
          raw == parsed.via = "bytes" /\ Length(parsed.in) = BinaryLen
      IN  /\ parsed.in \in Documented => parsed.res = "ok"
          /\ parsed.res = "ok" =>
                \/ raw
                \/ Len(at) >= Digits /\ parsed.digits = SubSeq(at, 1, Digits)
          /\ parsed.res = "panic" =>
                Length(parsed.in) >= Digits /\ Len(at) < Digits
=============================================================================
