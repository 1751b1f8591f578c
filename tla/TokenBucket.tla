------------------------------ MODULE TokenBucket ------------------------------
(***************************************************************************)
(* The token bucket of net/ratelimiter/bucket.go.  Wait(n) takes n tokens, *)
(* on credit if need be, and sleeps until the tick at which the credit is  *)
(* paid back.  A tick is one fillInterval since startTime; a Bucket may    *)
(* have several users, each of which waits for its sleep to end.           *)
(*                                                                         *)
(* Arithmetic is that of int64 where nothing overflows.                    *)
(***************************************************************************)
EXTENDS Integers, FiniteSets

CONSTANTS
    Users,      \* goroutines that call Wait
    Capacity,   \* capacity
    Increment,  \* tokens a tick brings
    MaxAsk,     \* bound: tokens a call asks for
    MaxTick,    \* bound: ticks
    MaxGiven    \* bound: tokens asked for by all calls

ASSUME BucketAssumption ==
    /\ Capacity \in Nat \ {0} /\ Increment \in Nat \ {0}
    /\ MaxAsk \in Nat /\ MaxTick \in Nat /\ MaxGiven \in Nat

VARIABLES
    now,            \* time.Now, in ticks since startTime
    avail,          \* tokens left, or below zero those owed
    availTick,      \* the tick up to which avail has been filled
    wake,           \* of each user: the tick its sleep ends at, or Awake
    \* history, read by the properties and by no guard:
    given,          \* tokens taken by all calls so far
    upTo,           \* of each sleeping user: given, at its call
    served,         \* the largest upTo of the calls that have returned
    burst,          \* tokens taken without a wait in this tick
    first           \* the tick of the first call, or Awake

Awake == -1

bucketVars == <<now, avail, availTick, wake, given, upTo, served, burst, first>>

BucketInit ==
    /\ now = 0 /\ avail = Capacity /\ availTick = 0
    /\ wake = [u \in Users |-> Awake]
    /\ given = 0 /\ upTo = [u \in Users |-> 0] /\ served = 0
    /\ burst = 0 /\ first = Awake

\* adjust: a full bucket is left alone, and so is its availTick
Refilled(a) ==
    LET b == a + (now - availTick) * Increment
    IN  IF a >= Capacity THEN a
        ELSE IF b > Capacity THEN Capacity ELSE b

TickStays(a) == availTick   \* mutant: availTick is not set
TickOf(a) == IF a >= Capacity THEN availTick ELSE now

\* mutant: the tick that has begun is taken off
EndTickSoon(left) == now + (-left) \div Increment - 1
EndTick(left) == now + (-left) \div Increment

\* Cal gives no time to wait, or one that is over: time.Sleep returns
AtOnce(left) == left >= 0 \/ EndTick(left) <= now

Most(a, b) == IF a > b THEN a ELSE b

\* Wait and Cal, under the bucket's mutex.  A call for nothing returns.
Wait(u, n) ==
    LET left == Refilled(avail) - n IN
    /\ wake[u] = Awake /\ n > 0 /\ given + n <= MaxGiven
    /\ avail' = left
    /\ availTick' = TickOf(avail)
    /\ given' = given + n
    /\ first' = IF first = Awake THEN now ELSE first
    /\ \/ /\ AtOnce(left)
          /\ served' = Most(served, given')
          /\ burst' = burst + n
          /\ UNCHANGED <<wake, upTo>>
       \/ /\ ~AtOnce(left)
          /\ wake' = [wake EXCEPT ![u] = EndTick(left)]
          /\ upTo' = [upTo EXCEPT ![u] = given']
          /\ UNCHANGED <<served, burst>>
    /\ UNCHANGED now

\* time.Sleep is over; it may have taken longer
WakeUp(u) ==
    /\ wake[u] # Awake /\ wake[u] <= now
    /\ wake' = [wake EXCEPT ![u] = Awake]
    /\ served' = Most(served, upTo[u])
    /\ UNCHANGED <<now, avail, availTick, given, upTo, burst, first>>

Tick ==
    /\ now < MaxTick
    /\ now' = now + 1
    /\ burst' = 0
    /\ UNCHANGED <<avail, availTick, wake, given, upTo, served, first>>

BucketNext ==
    \/ \E u \in Users : \/ \E n \in 0 .. MaxAsk : Wait(u, n)
                        \/ WakeUp(u)
    \/ Tick

BucketSpec == BucketInit /\ [][BucketNext]_bucketVars

-----------------------------------------------------------------------------
BucketTypeOK ==
    /\ now \in 0 .. MaxTick /\ availTick \in 0 .. now
    /\ avail \in Int /\ avail <= Capacity
    /\ wake \in [Users -> Nat \cup {Awake}]
    /\ given \in 0 .. MaxGiven
    /\ upTo \in [Users -> 0 .. MaxGiven] /\ served \in 0 .. MaxGiven
    /\ burst \in 0 .. MaxGiven /\ first \in {Awake} \cup 0 .. now

(***************************************************************************)
(* When a call returns, the tokens it and all calls before it have taken   *)
(* are at most the capacity and what the ticks have brought since the      *)
(* start, but for a part of an increment: a credit is rounded down to      *)
(* whole ticks.                                                            *)
(***************************************************************************)
RateKept == served <= Capacity + now * Increment + (Increment - 1)

(***************************************************************************)
(* No more goes out at once than a bucket and what is short of one more    *)
(* increment: Wait rounds a credit down to whole ticks, and so does not    *)
(* wait for a credit of less than an increment.  The exception is the tick *)
(* of the first call: adjust leaves the availTick of the full bucket       *)
(* behind, so a second call is credited the time before the first, and as  *)
(* much again may go out.                                                  *)
(***************************************************************************)
Bucketful == Capacity + (Increment - 1)
BurstBound ==
    /\ first # now => burst <= Bucketful
    /\ burst <= 2 * Bucketful
=============================================================================
