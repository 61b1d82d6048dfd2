---------------------------- MODULE FandControl -----------------------------
(***************************************************************************)
(* The daemon of Fand as an implementation of FanControl: the refinement   *)
(* mapping.                                                                *)
(***************************************************************************)
EXTENDS FandInvariant

(* A Subsystem row demands what its sensors and its override say; it does  *)
(* not matter which row of that name it is.                                *)
DemandOf(row) ==
  IF row = NULL THEN NULL
  ELSE [temp_sensors |-> row.temp_sensors, fan_speed_override |-> row.fan_speed_override]

DemandsOf(d) == [s \in Subsystem |-> DemandOf(d.subsystem[s])]

(* A subsystem is adopted when its description has been loaded and the     *)
(* transaction that adds its fans is over: until then its struct holds the *)
(* zero of memset, which nothing is driven with.                           *)
Driven == {s \in Known : subsystem_data[s].valid /\ ~(pc = "adding" /\ cfg = s)}

DrivenSpeed ==
  [s \in Subsystem |-> IF s \in Driven THEN subsystem_data[s].speed ELSE NULL]

ControlledBy == [s \in Subsystem |-> SpeedControls(s)]

FC == INSTANCE FanControl WITH
        Control    <- HasSpeedControl,
        ControlsOf <- ControlledBy,
        WritesFail <- I2cErrors,
        demand     <- DemandsOf(db),
        seen       <- DemandsOf(idl),
        settled    <- Settled,
        adopting   <- cfg,
        speed      <- DrivenSpeed,
        output     <- fan_speed_control

ASSUME NullIsNoDemand == NULL \notin FC!Demand

(* Every step of the daemon, through additions, failures, replicas that    *)
(* move in mid-pass and restarts, is a step FanControl allows or none: no  *)
(* register moves but by a decision for its own subsystem, no decision     *)
(* but the initial and the blind one of an addition departs from the       *)
(* policy, and no pass ends settled on a speed that does.                  *)
ImplementsFanControl == FC!Spec

(* And the daemon gets there: a lasting demand is met by every register.   *)
DemandIsMet == FC!DemandIsMet

=============================================================================
