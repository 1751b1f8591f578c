---------------------------- MODULE ConnOwnership ----------------------------
(***************************************************************************)
(* What the client's connection pool promises, without saying how: every   *)
(* connection has one owner at a time.  It is born owned by the caller who *)
(* dialled it, goes back and forth between callers and the pool ("idle"),  *)
(* and is then gone for good; a caller owns at most one connection.  Only  *)
(* its owner drops it, except that a caller may flush the idle connections *)
(* of one address, and then all of them.  TcpClient implements this.       *)
(***************************************************************************)
CONSTANTS Callers, Conns, Addresses

VARIABLES
    owner,      \* [Conns -> Callers \cup {"unborn", "idle", "gone"}]
    at          \* [Conns -> Addresses]: where a connection leads, once born

OInit == /\ owner = [c \in Conns |-> "unborn"]
         /\ at \in [Conns -> Addresses]

Change(c, o) == owner' = [owner EXCEPT ![c] = o]

\* net.DialTimeout: a new connection for the caller, or one that is given up
\* before the caller gets it because it could not be set up
Dial(p, c, a) ==
    /\ owner[c] = "unborn"
    /\ \A d \in Conns : owner[d] # p
    /\ Change(c, p) \/ Change(c, "gone")
    /\ at' = [at EXCEPT ![c] = a]

\* newClientTcpConnection found a pooled connection
Take(p, c) ==
    /\ owner[c] = "idle"
    /\ \A d \in Conns : owner[d] # p
    /\ Change(c, p)
    /\ UNCHANGED at

\* freeClientTcpConnection put the caller's connection back, or closed it
Give(p, c) ==
    /\ owner[c] = p
    /\ Change(c, "idle") \/ Change(c, "gone")
    /\ UNCHANGED at

\* closeClientTcpConnection, and the caller's own connection with the rest if
\* it goes on to a retry
Flush(p, a) ==
    \E own \in SUBSET {c \in Conns : owner[c] = p} :
       /\ owner' = [c \in Conns |->
              IF c \in own \/ (owner[c] = "idle" /\ at[c] = a) THEN "gone"
              ELSE owner[c]]
       /\ UNCHANGED at

ONext ==
    \E p \in Callers :
       \/ \E c \in Conns : Take(p, c) \/ Give(p, c)
       \/ \E a \in Addresses : Flush(p, a) \/ \E c \in Conns : Dial(p, c, a)

OSpec == OInit /\ [][ONext]_<<owner, at>>
=============================================================================
