------------------------------ MODULE MCFanCli ------------------------------
(***************************************************************************)
(* FanCli on small instances: commands are bounded in number, and so are   *)
(* the steps of the other writers and the daemon's restarts; the daemon    *)
(* and the replies of the server are not.                                  *)
(***************************************************************************)
EXTENDS FanCli

CONSTANTS MaxCommands, MaxDisturbances

VARIABLES commands, disturbances   \* how many there have been

MCvars == <<allVars, commands, disturbances>>

MCInit == CliInit /\ commands = 0 /\ disturbances = 0

MCNext ==
  \/ /\ commands < MaxCommands
     /\ commands' = commands + 1
     /\ Command
     /\ UNCHANGED disturbances
  \/ /\ disturbances < MaxDisturbances
     /\ disturbances' = disturbances + 1
     /\ Others \/ (Restart /\ UNCHANGED cliVars)
     /\ UNCHANGED commands
  \/ /\ Replies \/ (Controller /\ UNCHANGED cliVars)
     /\ UNCHANGED <<commands, disturbances>>

MCSpec == MCInit /\ [][MCNext]_MCvars

(* The daemon stands still: nothing it does changes what the sessions see  *)
(* of the Subsystem table.                                                 *)
MCSessionsNext ==
  /\ MCNext
  /\ UNCHANGED <<controller, output>>

MCSessionsSpec == MCInit /\ [][MCSessionsNext]_MCvars

MCFairSpec == MCSpec /\ CliFairness

-----------------------------------------------------------------------------

ColdOrHot == {{"medium"}, {"max"}}
Medium    == {{"medium"}}

CONSTANTS s1, s2, c1, c2

OwnControl == [s \in Subsystem |-> IF s = s1 THEN {c1} ELSE {c2}]

NoControl == [s \in Subsystem |-> {}]

Sessions == Permutations(Session)

=============================================================================
