----------------------------- MODULE FanPolicy ------------------------------
(***************************************************************************)
(* How ops-fand decides the speed of a subsystem's fans: from the fan      *)
(* states its temperature sensors ask for (written by ops-tempd) and from  *)
(* the override an operator may have configured.                           *)
(*                                                                         *)
(* The first part is the code's computation; the second is what the        *)
(* comments of the code promise, defined without it.                       *)
(***************************************************************************)
EXTENDS FanTypes, FiniteSetsExt

(* Seeded mistake: the coolest sensor decides.                             *)
LowestFanState(readings) ==
  IF readings = {} THEN FAND_SPEED_SLOW
  ELSE Max({FAND_SPEED_SLOW, Min({fan_speed_string_to_enum(r) : r \in readings})})

(* The loop of fand_reconfigure over cfg->temp_sensors; readings is the    *)
(* set of fan_state strings of the sensors (the maximum does not depend on *)
(* their number or order).                                                 *)
HighestFanState(readings) ==
  Max({FAND_SPEED_SLOW} \cup {fan_speed_string_to_enum(r) : r \in readings})

(* Seeded mistake: an override beats an over-temperature.                  *)
OverrideAlwaysWins(fan_speed, fan_speed_override) ==
  IF fan_speed_override # FAND_SPEED_NONE THEN fan_speed_override
  ELSE IF fan_speed = FAND_SPEED_NONE THEN FAND_SPEED_NORMAL ELSE fan_speed

(* The choice at the head of fand_set_fanspeed. *)
CommandedSpeed(fan_speed, fan_speed_override) ==
  LET chosen == IF \/ fan_speed_override = FAND_SPEED_NONE
                   \/ fan_speed = FAND_SPEED_MAX
                THEN fan_speed
                ELSE fan_speed_override
  IN  IF chosen = FAND_SPEED_NONE THEN FAND_SPEED_NORMAL ELSE chosen

Speed(readings, override) ==
  CommandedSpeed(HighestFanState(readings), fan_speed_string_to_enum(override))

-----------------------------------------------------------------------------

(* The promised order of the speeds, and the policy: an over-temperature   *)
(* ("max") beats every override; otherwise a valid override decides, and   *)
(* without one the hottest sensor does.  A string that names no speed      *)
(* counts as absent, and fans never run below "slow".                      *)
Rank == [slow |-> 0, normal |-> 1, medium |-> 2, fast |-> 3, max |-> 4]

IsHottestRank(readings, k) ==
  /\ k = 0 \/ \E r \in readings \cap DOMAIN Rank : Rank[r] = k
  /\ \A r \in readings \cap DOMAIN Rank : Rank[r] <= k

ObeysPolicy(speed, readings, override) ==
  IF "max" \notin readings /\ override \in DOMAIN Rank
  THEN speed = Rank[override]
  ELSE speed \in 0 .. 4 /\ IsHottestRank(readings, speed)

=============================================================================
