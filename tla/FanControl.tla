----------------------------- MODULE FanControl -----------------------------
(***************************************************************************)
(* What ops-fand promises about the speed of the fans, without dictionary, *)
(* database replica, transaction or description file.                      *)
(*                                                                         *)
(* Each subsystem may have a demand: what its sensors ask for, and the     *)
(* override configured.  The controller looks at the demands now and then, *)
(* decides a speed for the subsystems it has adopted, and drives their     *)
(* control registers with it.  It is settled when every speed it has       *)
(* decided obeys the policy for the demand last seen, and it falls out of  *)
(* that state by itself whenever it sees another demand.                   *)
(***************************************************************************)
EXTENDS FanPolicy

CONSTANTS
  Subsystem, Control,
  ControlsOf,       \* the control registers of a subsystem
  SensorReadings,   \* sets of fan_state strings that sensors may report
  Overrides,        \* values an override may have
  WritesFail        \* may a write to a register be lost?

ASSUME ControlAssumption ==
  /\ ControlsOf \in [Subsystem -> SUBSET Control]
  /\ WritesFail \in BOOLEAN

VARIABLES
  demand,     \* what is asked for, NULL where there is no such subsystem
  seen,       \* the demands as the controller last saw them
  settled,    \* has it nothing to reconsider?
  adopting,   \* the subsystem being adopted, NULL when there is none
  speed,      \* the speeds decided, NULL for a subsystem not adopted
  output      \* what each control register was last written with

demands    == <<demand>>
controller == <<seen, settled, adopting, speed>>
vars       == <<demands, controller, output>>

Demand == [temp_sensors : SensorReadings, fan_speed_override : Overrides \cup {NULL}]

Demands == [Subsystem -> Demand \cup {NULL}]

Nothing == [s \in Subsystem |-> NULL]

Adopted == {s \in Subsystem : speed[s] # NULL}

(* Does v obey the policy for the demand d?                                *)
Meets(v, d) ==
  d # NULL /\ ObeysPolicy(v, d.temp_sensors, d.fan_speed_override)

Init ==
  /\ demand \in Demands
  /\ seen = Nothing /\ settled = FALSE
  /\ adopting = NULL /\ speed = Nothing
  /\ output \in [Control -> FanSpeed]

-----------------------------------------------------------------------------

(* A subsystem appears or goes, its sensors report, its override changes.  *)
DemandChanges(s) ==
  /\ \E d \in Demand \cup {NULL} : demand' = [demand EXCEPT ![s] = d]
  /\ UNCHANGED <<controller, output>>

(* Of the registers of s some may miss a write; no other register changes. *)
Drive(s, v) ==
  \E reached \in IF WritesFail THEN SUBSET ControlsOf[s] ELSE {ControlsOf[s]} :
    output' = [c \in Control |-> IF c \in reached THEN v ELSE output[c]]

(* The controller may always have second thoughts, and must have them when *)
(* it sees anything new.                                                   *)
SeesDemands ==
  /\ seen' = demand
  /\ \/ settled' = FALSE
     \/ settled' = settled /\ seen = demand

Look ==
  /\ SeesDemands
  /\ UNCHANGED <<demands, adopting, speed, output>>

(* A subsystem is adopted in two steps, and first gets an initial speed    *)
(* that owes nothing to its demand; meanwhile the demands may move.        *)
BeginAdopting(s) ==
  /\ ~settled
  /\ adopting = NULL /\ s \notin Adopted
  /\ seen[s] # NULL
  /\ adopting' = s
  /\ UNCHANGED <<demands, seen, settled, speed, output>>

Adopt(s) ==
  /\ adopting = s /\ s \notin Adopted
  /\ \E v \in RealSpeed :
       /\ speed' = [speed EXCEPT ![s] = v]
       /\ Drive(s, v)
  /\ SeesDemands
  /\ UNCHANGED <<demands, adopting>>

DecideFor(s, v) ==
  /\ ~settled
  /\ s \in Adopted
  /\ speed' = [speed EXCEPT ![s] = v]
  /\ Drive(s, v)
  /\ UNCHANGED <<demands, seen, settled>>

Decide(s) ==
  /\ \E v \in RealSpeed : Meets(v, seen[s]) /\ DecideFor(s, v)
  /\ adopting' = IF adopting = s THEN NULL ELSE adopting

(* The demand that led to the adoption went away in the middle of it: the  *)
(* speed may be anything, until it is reconsidered.                        *)
DecideBlindly(s) ==
  /\ adopting = s /\ adopting' = NULL
  /\ \E v \in RealSpeed : DecideFor(s, v)

(* Some subsystems are let go, their registers as they are; with nothing   *)
(* left to reconsider the controller settles.                              *)
LetGo ==
  /\ ~settled
  /\ adopting = NULL
  /\ \E kept \in SUBSET Adopted :
       /\ speed' = [s \in Subsystem |-> IF s \in kept THEN speed[s] ELSE NULL]
       /\ settled' \in BOOLEAN
       /\ settled' => \A s \in kept : Meets(speed[s], seen[s])
  /\ UNCHANGED <<demands, seen, adopting, output>>

(* The controller's memory goes; the registers keep their values.          *)
Restart ==
  /\ seen' = Nothing /\ settled' = FALSE
  /\ adopting' = NULL /\ speed' = Nothing
  /\ UNCHANGED <<demands, output>>

Controller ==
  \/ Look
  \/ \E s \in Subsystem : BeginAdopting(s) \/ Adopt(s) \/ Decide(s) \/ DecideBlindly(s)
  \/ LetGo

Next ==
  \/ \E s \in Subsystem : DemandChanges(s)
  \/ Controller
  \/ Restart

Spec == Init /\ [][Next]_vars

-----------------------------------------------------------------------------

(* The demand of an adopted subsystem, once it lasts, is met by each of    *)
(* its registers and stays so.                                             *)
DemandIsMet ==
  \A s \in Subsystem : \A d \in Demand :
    <>[](demand[s] = d /\ s \in Adopted)
      => <>[](\A c \in ControlsOf[s] : Meets(output[c], d))

=============================================================================
