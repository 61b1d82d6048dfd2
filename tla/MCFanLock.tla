----------------------------- MODULE MCFanLock ------------------------------
(***************************************************************************)
(* FanLock on small instances: changes of the demand, drops of a session   *)
(* and deaths of processes are bounded in number.                          *)
(***************************************************************************)
EXTENDS FanLock, TLC

CONSTANT MaxDisturbances

VARIABLE disturbances

MCInit == Init /\ disturbances = 0

MCNext ==
  \/ (\E p \in Proc : Grant(p) \/ Start(p) \/ Step(p)) /\ UNCHANGED disturbances
  \/ /\ disturbances < MaxDisturbances
     /\ disturbances' = disturbances + 1
     /\ Environment

MCSpec == MCInit /\ [][MCNext]_<<vars, disturbances>>

MCFairSpec == MCSpec /\ Fairness

=============================================================================
