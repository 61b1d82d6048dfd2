------------------------------- MODULE MCFand -------------------------------
(***************************************************************************)
(* Fand on small instances.  What the daemon does not control (the other   *)
(* writers of the database, the hardware, crashes and restarts) is bounded *)
(* in number, never in when it happens; the daemon itself is not bounded.  *)
(***************************************************************************)
EXTENDS FandControl, FandDump, TLC

CONSTANT MaxDisturbances   \* bound on the steps that are not the daemon's own

VARIABLE disturbances      \* how many there have been

MCvars == <<vars, disturbances>>

MCInit == Init /\ disturbances = 0

MCNext ==
  \/ Daemon /\ UNCHANGED disturbances
  \/ /\ disturbances < MaxDisturbances
     /\ disturbances' = disturbances + 1
     /\ Environment \/ ops_fand_exit \/ Crash

MCSpec == MCInit /\ [][MCNext]_MCvars

MCFairSpec == MCSpec /\ Fairness

(* Were the fan speed written again and again, the writes would succeed at *)
(* last.                                                                   *)
WritesSucceedAtLast ==
  \A s \in Subsystem :
    SF_vars(/\ ReconfigureKnown(s)
            /\ \A c \in SpeedControls(s) :
                 fan_speed_control'[c] = subsystem_data'[s].speed)

MCFairWritesSpec == MCFairSpec /\ WritesSucceedAtLast

-----------------------------------------------------------------------------
(* The instances: each FRU and fan named after what it sits in. *)

ColdOrHot == {{}, {"max", "slow"}}
AnyHeat   == ColdOrHot \cup {{"medium"}}

(* One subsystem; each fan in a FRU of its own, or all in the same. *)
OneOwner == [u \in Fru |-> CHOOSE s \in Subsystem : TRUE]
OneFru   == [f \in Fan |-> CHOOSE u \in Fru : TRUE]

(* Two subsystems with a fan each, one controlled as a whole, the other    *)
(* fan by fan.                                                             *)
CONSTANTS s1, s2, u1, u2, f1, f2

PairedFru   == [f \in Fan |-> IF f = f1 THEN u1 ELSE u2]
PairedOwner == [u \in Fru |-> IF u = u1 THEN s1 ELSE s2]
MixedControl == [s \in Subsystem |-> IF s = s1 THEN "SINGLE" ELSE "PER_FAN"]

PerFru == [s \in Subsystem |-> "PER_FRU"]
Once   == [s \in Subsystem |-> 1]

AnyStatus == CachedStatus

Identities == Permutations(Uuid)

=============================================================================
