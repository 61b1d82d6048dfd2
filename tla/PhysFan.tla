------------------------------ MODULE PhysFan -------------------------------
(***************************************************************************)
(* The fan hardware of every subsystem and the routines of physfan.c that  *)
(* drive it over i2c.                                                      *)
(*                                                                         *)
(* The hardware description files (read through the config-yaml library)   *)
(* are the constants: which FRU a fan sits in and which subsystem a FRU    *)
(* belongs to, and which of them carry a speed control, a LED, a presence  *)
(* or a direction input.  An i2c operation that may fail is a choice over  *)
(* its outcomes, taken when I2cErrors is TRUE.                             *)
(***************************************************************************)
EXTENDS FanPolicy

CONSTANTS
  Subsystem, Fru, Fan,
  FruOf,                 \* the FRU that a fan sits in
  SubsystemOf,           \* the subsystem that a FRU belongs to
  FanSpeedControlType,   \* fan_speed_control_type of a subsystem
  HasSpeedControl,       \* owners of a non-NULL fan_speed_control
  HasLed,                \* owners of a non-NULL fan_led / fan_leds
  HasPresent,            \* FRUs with a fan_present input
  HasDirection,          \* FRUs with a fan_direction_detect input
  Tach,                  \* raw readings of a fan's speed registers
  Multiplier, Numerator, \* fan_speed_multiplier, fan_speed_numerator
  I2cErrors              \* may an i2c operation fail?

ASSUME HardwareDescription ==
  /\ FruOf \in [Fan -> Fru]
  /\ SubsystemOf \in [Fru -> Subsystem]
  /\ FanSpeedControlType \in [Subsystem -> STRING]
  /\ HasSpeedControl \subseteq Subsystem \cup Fru \cup Fan
  /\ HasLed \subseteq Subsystem \cup Fru
  /\ HasPresent \subseteq Fru
  /\ HasDirection \subseteq Fru
  /\ Subsystem \cap Fru = {} /\ Subsystem \cap Fan = {} /\ Fru \cap Fan = {}
  /\ Tach \subseteq Nat
  /\ Multiplier \in [Subsystem -> Nat]
  /\ Numerator \in [Subsystem -> Nat]
  /\ I2cErrors \in BOOLEAN

VARIABLES
  fan_speed_control,  \* speed each control register was last written with
  fan_led,            \* value each LED register was last written with
  fan_fault,          \* is the fault input of a fan asserted?
  fan_present         \* is the FRU plugged in?

hwOutputs == <<fan_speed_control, fan_led>>
hwInputs  == <<fan_fault, fan_present>>

FansIn(s)  == {f \in Fan : SubsystemOf[FruOf[f]] = s}
FrusIn(s)  == {u \in Fru : SubsystemOf[u] = s}
FansOf(u)  == {f \in Fan : FruOf[f] = u}

LedValue == {"off", "good", "fault"}

HardwareTypeOK ==
  /\ fan_speed_control \in [HasSpeedControl -> FanSpeed]
  /\ fan_led \in [HasLed -> LedValue]
  /\ fan_fault \in [Fan -> BOOLEAN]
  /\ fan_present \in [Fru -> BOOLEAN]

(* No register has been written yet; the NONE of a control stands for the  *)
(* power-on setting.                                                       *)
HardwareInit ==
  /\ fan_speed_control = [c \in HasSpeedControl |-> FAND_SPEED_NONE]
  /\ fan_led = [l \in HasLed |-> "off"]
  /\ fan_fault = [f \in Fan |-> FALSE]
  /\ fan_present = [u \in Fru |-> TRUE]

-----------------------------------------------------------------------------
(* Outputs.  The callers ignore the result of i2c_reg_write, so of the     *)
(* registers a routine addresses any subset may have been written.         *)

Written(registers) == IF I2cErrors THEN SUBSET registers ELSE {registers}

(* One control per subsystem, per FRU or per fan. *)
SpeedControls(s) ==
  HasSpeedControl \cap
    CASE FanSpeedControlType[s] = "SINGLE"  -> {s}
      [] FanSpeedControlType[s] = "PER_FRU" -> FrusIn(s)
      [] FanSpeedControlType[s] = "PER_FAN" -> FansIn(s)
      [] OTHER                              -> {}   \* invalid: a warning only

(* Seeded mistake: the switch has no case for MEDIUM.                      *)
HwSpeedValNoMedium(speed) ==
  IF speed \in {FAND_SPEED_SLOW, FAND_SPEED_FAST, FAND_SPEED_MAX}
  THEN speed
  ELSE FAND_SPEED_NORMAL

(* Which of fan_speed_settings the speed selects; the setting is named by  *)
(* the speed it stands for.                                                *)
HwSpeedVal(speed) ==
  IF speed \in {FAND_SPEED_SLOW, FAND_SPEED_MEDIUM, FAND_SPEED_FAST, FAND_SPEED_MAX}
  THEN speed
  ELSE FAND_SPEED_NORMAL

(* The register writes of fand_set_fanspeed(s), the speed having been      *)
(* decided.                                                                *)
WriteFanSpeed(s, speed) ==
  \E ok \in Written(SpeedControls(s)) :
    fan_speed_control' =
      [c \in HasSpeedControl |->
         IF c \in ok THEN HwSpeedVal(speed) ELSE fan_speed_control[c]]

Leds(s) == HasLed \cap ({s} \cup FrusIn(s))

WorstStatus(statuses) == Max({FAND_STATUS_UNINITIALIZED} \cup statuses)

FruStatus(u, status) == WorstStatus({status[f] : f \in FansOf(u)})

(* fand_set_led's translation of a status. *)
LedVal(status) ==
  CASE status = FAND_STATUS_UNINITIALIZED -> "off"
    [] status = FAND_STATUS_OK            -> "good"
    [] OTHER                              -> "fault"

(* Seeded mistake: the subsystem's LED shows the last FRU's status.        *)
LastFruStatus(l, status) ==
  IF l \in Fru THEN FruStatus(l, status)
               ELSE FruStatus(CHOOSE u \in FrusIn(l) : TRUE, status)

(* A FRU's LED shows the worst of its fans, the subsystem's LED the worst  *)
(* of its FRUs; status[f] is the cached status of fan f.                   *)
LedStatus(l, status) ==
  IF l \in Fru THEN FruStatus(l, status)
               ELSE WorstStatus({FruStatus(u, status) : u \in FrusIn(l)})

fand_set_fanleds(s, status) ==
  \E ok \in Written(Leds(s)) :
    fan_led' = [l \in HasLed |-> IF l \in ok THEN LedVal(LedStatus(l, status))
                                             ELSE fan_led[l]]

-----------------------------------------------------------------------------
(* Inputs: the set of values each routine may return.                      *)

(* A failed read of the two speed registers gives 0; the conversion        *)
(* follows in fand_read_fan_status.                                        *)
fand_read_rpm == Tach \cup (IF I2cErrors THEN {0} ELSE {})

Rpm(s, raw) ==
  IF Multiplier[s] # 0 THEN raw * Multiplier[s]
  ELSE IF Numerator[s] # 0 THEN (IF raw # 0 THEN Numerator[s] \div raw ELSE 0)
  ELSE raw

(* A failed read returns 0, the enumerator UNINITIALIZED. *)
fand_read_status(f) ==
  {IF fan_fault[f] THEN FAND_STATUS_FAULT ELSE FAND_STATUS_OK}
    \cup (IF I2cErrors THEN {FAND_STATUS_UNINITIALIZED} ELSE {})

(* Without an input the air flows front to back, as it does after a failed *)
(* read; with one, the bit may say either.                                 *)
fand_read_direction(f) ==
  {fan_direction_enum_to_string(d) :
     d \in IF FruOf[f] \in HasDirection
           THEN {FAND_DIRECTION_F2B, FAND_DIRECTION_B2F}
           ELSE {FAND_DIRECTION_F2B}}

(* A FRU without an input counts as present.  Only a negative result of    *)
(* i2c_reg_read is taken for a failure and makes the FRU absent; after a   *)
(* positive one the uninitialized variable decides.                        *)
fand_read_present(u) ==
  IF u \notin HasPresent THEN {TRUE}
  ELSE IF I2cErrors THEN BOOLEAN
  ELSE {fan_present[u]}

(* What fand_read_fan_status may leave in the struct of fan f. *)
fand_read_fan_status(f) ==
  LET s == SubsystemOf[FruOf[f]]
      Reading(present) ==
        [direction : fand_read_direction(f),
         rpm       : IF present THEN {Rpm(s, raw) : raw \in fand_read_rpm} ELSE {0},
         status    : IF present THEN fand_read_status(f) ELSE {FAND_STATUS_FAULT}]
  IN  UNION {Reading(present) : present \in fand_read_present(FruOf[f])}

-----------------------------------------------------------------------------
(* The physical world. *)

FanInputChanges(f) ==
  /\ fan_fault' = [fan_fault EXCEPT ![f] = ~@]
  /\ UNCHANGED <<hwOutputs, fan_present>>

FruPluggedOrPulled(u) ==
  /\ u \in HasPresent
  /\ fan_present' = [fan_present EXCEPT ![u] = ~@]
  /\ UNCHANGED <<hwOutputs, fan_fault>>

=============================================================================
