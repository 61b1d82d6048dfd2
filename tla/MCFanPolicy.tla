---------------------------- MODULE MCFanPolicy -----------------------------
(***************************************************************************)
(* The speed decision over every set of sensor readings and every          *)
(* override, explored as a system in which one sensor or the override      *)
(* changes at a time.                                                      *)
(***************************************************************************)
EXTENDS FanPolicy

CONSTANT FanStates   \* strings a fan_state column or an override may hold

VARIABLES readings,  \* the fan_state strings of the subsystem's sensors
          override   \* other_config:fan_speed_override, or NULL

vars == <<readings, override>>

Init == readings = {} /\ override = NULL

SensorAdds(r) == readings' = readings \cup {r} /\ UNCHANGED override
SensorDrops(r) == readings' = readings \ {r} /\ UNCHANGED override
SetOverride(o) == override' = o /\ UNCHANGED readings

Next == \/ \E r \in FanStates \ readings : SensorAdds(r)
        \/ \E r \in readings : SensorDrops(r)
        \/ \E o \in FanStates \cup {NULL} : SetOverride(o)

Spec == Init /\ [][Next]_vars

-----------------------------------------------------------------------------

(* The computed speed is the one the policy promises, for every mix of     *)
(* readings and overrides, unknown strings included (fand_set_fanspeed's   *)
(* comment: "use override if it exists, unless the sensors think the speed *)
(* should be max").                                                        *)
PolicyIsComputed == ObeysPolicy(Speed(readings, override), readings, override)

(* Whatever the override, a further sensor reading never slows the fans:   *)
(* the override's precedence must not be undone by a cooler or unknown     *)
(* reading that arrives next to a hot one.                                 *)
HotterNeverSlower ==
  [][readings \subseteq readings' /\ override' = override
       => Speed(readings', override') >= Speed(readings, override)]_vars

(* What a reader of the database gets from the strings the daemon          *)
(* publishes: the name of the commanded speed is the policy's speed by     *)
(* Rank, whatever the order of the C table, and every status and direction *)
(* name is read back as the value it was written for.                      *)
PublishedNamesAreMeant ==
  /\ LET name == fan_speed_enum_to_string(Speed(readings, override))
     IN  ObeysPolicy(Rank[name], readings, override)
  /\ \A e \in {FAND_STATUS_UNINITIALIZED, FAND_STATUS_OK, FAND_STATUS_FAULT} :
       fan_status_string_to_enum(fan_status_enum_to_string(e)) = e
  /\ \A e \in {FAND_DIRECTION_F2B, FAND_DIRECTION_B2F} :
       fan_direction_string_to_enum(fan_direction_enum_to_string(e)) = e

=============================================================================
