----------------------------- MODULE MCTcpServer -----------------------------
(***************************************************************************)
(* TcpServer, TcpConnection and TokenBucket for TLC, each in behaviours of *)
(* its own: they share no state, for the server's life of a connection is  *)
(* apart from the frames on it, and the rate limiter only makes a reader   *)
(* wait.  In the initial states no action that is treated fairly is        *)
(* enabled, so the fairness of the parts that stand still asks for         *)
(* nothing.  The constants are given in the cfg files.                     *)
(***************************************************************************)
EXTENDS TcpServer, TcpConnection, TokenBucket

VARIABLE part   \* what runs: "server", "frames" or "bucket"

partVars == <<part, vars, frameVars, bucketVars>>

PartInit ==
    /\ part \in {"server", "frames", "bucket"}
    /\ Init /\ FrameInit /\ BucketInit
    /\ part # "frames" => ~deadline

PartNext ==
    /\ UNCHANGED part
    /\ \/ part = "server" /\ Next /\ UNCHANGED <<frameVars, bucketVars>>
       \/ part = "frames" /\ FrameNext /\ UNCHANGED <<vars, bucketVars>>
       \/ part = "bucket" /\ BucketNext /\ UNCHANGED <<vars, frameVars>>

PartSpec == PartInit /\ [][PartNext]_partVars /\ Fairness /\ FrameFairness
=============================================================================
