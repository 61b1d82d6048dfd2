------------------------------ MODULE FandDump ------------------------------
(***************************************************************************)
(* What the unixctl command ops-fand/dump tells an operator of the daemon  *)
(* of Fand: it is served between two passes, from the dictionaries alone,  *)
(* whatever the pass before has come to.                                   *)
(***************************************************************************)
EXTENDS Fand

Dumped == pc = "unixctl"

DumpedFan(f) ==
  [rpm       |-> locl_fan[f].rpm,
   direction |-> locl_fan[f].direction,
   status    |-> fan_status_enum_to_string(locl_fan[f].status)]

(* Seeded mistake: the two speeds change places. *)
DumpSwapped ==
  [s \in Known |->
     [fan_speed_override |-> fan_speed_enum_to_string(subsystem_data[s].fan_speed),
      fan_speed          |-> fan_speed_enum_to_string(subsystem_data[s].fan_speed_override),
      fans               |-> [f \in subsystem_data[s].fans |-> DumpedFan(f)]]]

(* "Fan speed" is what the sensors ask for, and "no override" prints as    *)
(* "normal", the string for an enumerator out of the table.                *)
fand_unixctl_dump ==
  [s \in Known |->
     [fan_speed_override |-> fan_speed_enum_to_string(subsystem_data[s].fan_speed_override),
      fan_speed          |-> fan_speed_enum_to_string(subsystem_data[s].fan_speed),
      fans               |-> [f \in subsystem_data[s].fans |-> DumpedFan(f)]]]

-----------------------------------------------------------------------------

(* Where i2c writes succeed, the dump accounts for the speed of the fans:  *)
(* each register of a subsystem dumped with fans holds what the policy     *)
(* makes of the two strings printed, up to the ambiguity of "normal".      *)
(* This includes the passes that an addition, a freed row or a refresh     *)
(* left with a reconfiguration due, and those without the lock.            *)
DumpExplainsSpeeds ==
  Dumped => \A s \in Known : \A c \in SpeedControls(s) :
    LET d == fand_unixctl_dump[s]
    IN  DOMAIN d.fans # {} =>
          \/ ObeysPolicy(fan_speed_control[c], {d.fan_speed}, d.fan_speed_override)
          \/ /\ d.fan_speed_override = "normal"
             /\ ObeysPolicy(fan_speed_control[c], {d.fan_speed}, NULL)

(* The dump and the Fan table agree: of a fan whose row is in the          *)
(* database, a pass that ended with its commit carried out, or with        *)
(* nothing to commit, has left there what the dump prints.                 *)
DumpTellsWhatIsPublished ==
  [][(CommitStatus(TRUE) \/ WalkFanRows) /\ Dumped' =>
       \A s \in Known : \A f \in FanRows(db') \cap subsystem_data[s].fans :
         \A column \in {"rpm", "direction", "status"} :
           fand_unixctl_dump'[s].fans[f][column] = db'.fan[f][column]]_vars

=============================================================================
