-------------------------------- MODULE MCTask --------------------------------
(***************************************************************************)
(* Task and TimerTask for TLC, each in behaviours of its own: they share   *)
(* neither a pool nor a goroutine.  In the initial states no action that   *)
(* is treated fairly is enabled, so the fairness of the part that stands   *)
(* still asks for nothing.  The constants are given in the cfg files.      *)
(***************************************************************************)
EXTENDS Task, TimerTask

VARIABLE part   \* the tasks that run: "request" or "timer"

partVars == <<part, vars, timerVars>>

PartInit == part \in {"request", "timer"} /\ Init /\ TimerInit

PartNext ==
    \/ part = "request" /\ Next /\ UNCHANGED <<part, timerVars>>
    \/ part = "timer" /\ TimerNext /\ UNCHANGED <<part, vars>>

PartSpec == PartInit /\ [][PartNext]_partVars /\ Fairness /\ TimerFairness
=============================================================================
