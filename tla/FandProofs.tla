----------------------------- MODULE FandProofs -----------------------------
(***************************************************************************)
(* The safety properties of Fand for every hardware description, every set *)
(* of rows and every pattern of failures: InductiveInvariant holds in      *)
(* every reachable state.                                                  *)
(***************************************************************************)
EXTENDS FandInvariant, FanPolicyProofs

-----------------------------------------------------------------------------
(* The conversions and decisions stay within their types. *)

(* A speed that fans can run at is an enumerator.                          *)
LEMMA RealIsSpeed == RealSpeed \subseteq FanSpeed
BY DEF RealSpeed, FanSpeed, FAND_SPEED_NONE, FAND_SPEED_SLOW, FAND_SPEED_MAX

(* fan_speed_string_to_enum returns an enumerator for every string.        *)
LEMMA EnumIsSpeed == \A name : fan_speed_string_to_enum(name) \in FanSpeed
<1> SUFFICES ASSUME NEW name
             PROVE  fan_speed_string_to_enum(name) \in FanSpeed
  OBVIOUS
<1>1. CASE name \in DOMAIN Rank
  BY <1>1, EnumOfName, RankIsSpeed DEF FanSpeed, FAND_SPEED_NONE, FAND_SPEED_MAX
<1>2. CASE name \notin DOMAIN Rank
  BY <1>2, EnumOfName DEF FanSpeed, FAND_SPEED_NONE, FAND_SPEED_MAX
<1> QED BY <1>1, <1>2

(* The loop over the sensors ends with a speed fans can run at.            *)
LEMMA HighestIsSpeed == \A readings : HighestFanState(readings) \in RealSpeed
BY HighestIsHottest DEF RealSpeed, FAND_SPEED_SLOW, FAND_SPEED_MAX

(* fand_set_fanspeed never decides for NONE.                               *)
LEMMA CommandedIsSpeed ==
  ASSUME NEW highest \in FanSpeed, NEW override \in FanSpeed
  PROVE  CommandedSpeed(highest, override) \in RealSpeed
BY DEF CommandedSpeed, RealSpeed, FanSpeed, FAND_SPEED_NONE, FAND_SPEED_SLOW,
       FAND_SPEED_NORMAL, FAND_SPEED_MAX

(* Every enumerator, and NONE, has a name in its table.                    *)
LEMMA EnumHasName ==
  /\ \A e \in 0 .. 2 : fan_status_enum_to_string(e) \in StatusName
  /\ \A e \in FanSpeed : fan_speed_enum_to_string(e) \in SpeedName
  /\ \A e \in 0 .. 1 : fan_direction_enum_to_string(e) \in DirectionName
<1>1. /\ Len(fanstatus_string) = 3 /\ fanstatus_string[1] \in StatusName
      /\ fanstatus_string[2] \in StatusName /\ fanstatus_string[3] \in StatusName
  BY DEF fanstatus_string, StatusName
<1>2. /\ Len(fanspeed_string) = 5 /\ fanspeed_string[1] \in SpeedName
      /\ fanspeed_string[2] \in SpeedName /\ fanspeed_string[3] \in SpeedName
      /\ fanspeed_string[4] \in SpeedName /\ fanspeed_string[5] \in SpeedName
  BY DEF fanspeed_string, SpeedName
<1>3. /\ Len(fandirection_string) = 2 /\ fandirection_string[1] \in DirectionName
      /\ fandirection_string[2] \in DirectionName
  BY DEF fandirection_string, DirectionName
<1>4. ASSUME NEW e \in 0 .. 2
      PROVE  fan_status_enum_to_string(e) \in StatusName
  <2>1. e = 0 \/ e = 1 \/ e = 2 OBVIOUS
  <2> QED BY <1>1, <2>1 DEF fan_status_enum_to_string, NameAtIndex, FAND_STATUS_UNINITIALIZED
<1>5. ASSUME NEW e \in FanSpeed
      PROVE  fan_speed_enum_to_string(e) \in SpeedName
  <2>1. e = -1 \/ e = 0 \/ e = 1 \/ e = 2 \/ e = 3 \/ e = 4
    BY DEF FanSpeed, FAND_SPEED_NONE, FAND_SPEED_MAX
  <2> QED BY <1>2, <2>1 DEF fan_speed_enum_to_string, NameAtIndex, FAND_SPEED_NORMAL
<1>6. ASSUME NEW e \in 0 .. 1
      PROVE  fan_direction_enum_to_string(e) \in DirectionName
  <2>1. e = 0 \/ e = 1 OBVIOUS
  <2> QED BY <1>3, <2>1 DEF fan_direction_enum_to_string, NameAtIndex, FAND_DIRECTION_F2B
<1> QED BY <1>4, <1>5, <1>6

-----------------------------------------------------------------------------
(* The hardware routines. *)

(* Only the controls of s are written, and with the speed itself.          *)
LEMMA WriteFanSpeedStep ==
  ASSUME NEW s \in Subsystem, NEW speed \in RealSpeed, HardwareTypeOK,
         WriteFanSpeed(s, speed)
  PROVE  /\ fan_speed_control' \in [HasSpeedControl -> FanSpeed]
         /\ \A c \in HasSpeedControl \ SpeedControls(s) :
              fan_speed_control'[c] = fan_speed_control[c]
         /\ ~I2cErrors => \A c \in SpeedControls(s) : fan_speed_control'[c] = speed
<1>1. HwSpeedVal(speed) = speed /\ speed \in FanSpeed
  BY DEF HwSpeedVal, RealSpeed, FanSpeed, FAND_SPEED_NONE, FAND_SPEED_SLOW,
         FAND_SPEED_NORMAL, FAND_SPEED_MEDIUM, FAND_SPEED_FAST, FAND_SPEED_MAX
<1>2. SpeedControls(s) \subseteq HasSpeedControl
  BY DEF SpeedControls
<1>3. PICK ok \in Written(SpeedControls(s)) :
        fan_speed_control' = [c \in HasSpeedControl |->
          IF c \in ok THEN HwSpeedVal(speed) ELSE fan_speed_control[c]]
  BY DEF WriteFanSpeed
<1>4. ok \subseteq SpeedControls(s) /\ (~I2cErrors => ok = SpeedControls(s))
  BY <1>3 DEF Written
<1> QED BY <1>1, <1>2, <1>3, <1>4 DEF HardwareTypeOK

(* fand_set_fanleds writes values of the description, whatever the         *)
(* statuses.                                                               *)
LEMMA SetFanLedsStep ==
  ASSUME NEW s \in Subsystem, NEW status, HardwareTypeOK, fand_set_fanleds(s, status)
  PROVE  fan_led' \in [HasLed -> LedValue]
<1>1. PICK ok : fan_led' =
        [l \in HasLed |-> IF l \in ok THEN LedVal(LedStatus(l, status)) ELSE fan_led[l]]
  BY DEF fand_set_fanleds
<1>2. \A x : LedVal(x) \in LedValue
  BY DEF LedVal, LedValue, FAND_STATUS_UNINITIALIZED, FAND_STATUS_OK
<1> QED BY <1>1, <1>2 DEF HardwareTypeOK

(* Neither conversion of a reading gives a negative rpm.                   *)
LEMMA RpmIsNat ==
  ASSUME NEW s \in Subsystem, NEW raw \in fand_read_rpm
  PROVE  Rpm(s, raw) \in Nat
<1>1. raw \in Nat /\ Multiplier[s] \in Nat /\ Numerator[s] \in Nat
  BY HardwareDescription DEF fand_read_rpm
<1>2. raw * Multiplier[s] \in Nat
  BY <1>1
<1>3. raw # 0 => Numerator[s] \div raw \in Nat
  BY <1>1
<1> QED BY <1>1, <1>2, <1>3 DEF Rpm

(* What one poll of a fan leaves in its struct can be published.           *)
LEMMA ReadingType ==
  ASSUME NEW f \in Fan, NEW reading \in fand_read_fan_status(f)
  PROVE  /\ reading.direction \in DirectionName
         /\ reading.rpm \in Nat
         /\ reading.status \in 0 .. 2
<1> DEFINE s == SubsystemOf[FruOf[f]]
<1>1. s \in Subsystem
  BY HardwareDescription
<1>2. PICK present \in BOOLEAN :
        reading \in [direction : fand_read_direction(f),
                     rpm       : IF present THEN {Rpm(s, raw) : raw \in fand_read_rpm} ELSE {0},
                     status    : IF present THEN fand_read_status(f) ELSE {FAND_STATUS_FAULT}]
  <2>1. fand_read_present(FruOf[f]) \subseteq {TRUE, FALSE, fan_present[FruOf[f]]}
    BY DEF fand_read_present
  <2> QED BY <2>1 DEF fand_read_fan_status
<1>3. fand_read_direction(f) \subseteq DirectionName
  BY EnumHasName DEF fand_read_direction, FAND_DIRECTION_F2B, FAND_DIRECTION_B2F
<1>4. fand_read_status(f) \subseteq 0 .. 2
  BY DEF fand_read_status, FAND_STATUS_FAULT, FAND_STATUS_OK, FAND_STATUS_UNINITIALIZED
<1> QED BY <1>1, <1>2, <1>3, <1>4, RpmIsNat DEF FAND_STATUS_FAULT

-----------------------------------------------------------------------------
(* The database. *)

(* An empty replica is well formed.                                        *)
LEMMA EmptyDatabaseType == EmptyDatabase \in Database
BY DEF EmptyDatabase, Database

(* The database before ops-fand first runs is well formed.                 *)
LEMMA FreshDatabaseType == FreshDatabase \subseteq Database
BY EmptyDatabaseType DEF FreshDatabase, Database, FreshRow, SubsystemRow, EmptyDatabase

(* So is a database after the server has dropped unreferenced Fan rows.    *)
LEMMA WithSubsystemsType ==
  ASSUME NEW d \in Database, NEW subs \in [Subsystem -> SubsystemRow \cup {NULL}]
  PROVE  WithSubsystems(d, subs) \in Database
BY DEF WithSubsystems, Database

(* The other writers and the physical world leave the daemon alone, and    *)
(* the database well formed.                                               *)
LEMMA EnvironmentStep ==
  ASSUME TypeOK, Environment
  PROVE  /\ db' \in Database
         /\ HardwareTypeOK'
         /\ UNCHANGED <<idl, idl_changed, pc, tables, flags, loops, fan_speed_control>>
<1>1. ASSUME NEW s \in Subsystem, NEW row \in SubsystemRow \cup {NULL},
             WriteSubsystem(s, row)
      PROVE  /\ db' \in Database
             /\ HardwareTypeOK'
             /\ UNCHANGED <<idl, idl_changed, pc, tables, flags, loops, fan_speed_control>>
  <2>1. [db.subsystem EXCEPT ![s] = row] \in [Subsystem -> SubsystemRow \cup {NULL}]
    BY DEF TypeOK, Database
  <2> QED BY <1>1, <2>1, WithSubsystemsType
          DEF WriteSubsystem, DaemonUnchanged, TypeOK, HardwareTypeOK, hwOutputs, hwInputs
<1>2. \A s \in Rows(db) : db.subsystem[s] \in SubsystemRow
  BY DEF Rows, TypeOK, Database
<1>3. ASSUME NEW s \in Subsystem,
             \/ SubsystemAppears(s) \/ SubsystemGoes(s) \/ HwDescDirIsSet(s)
             \/ SensorsReport(s) \/ vtysh_ovsdb_fan_speed_set(s)
      PROVE  \E row \in SubsystemRow \cup {NULL} : WriteSubsystem(s, row)
  <2>1. CASE SubsystemAppears(s)
    BY <2>1 DEF SubsystemAppears, SubsystemRow
  <2>2. CASE SubsystemGoes(s)
    BY <2>2 DEF SubsystemGoes
  <2>3. CASE HwDescDirIsSet(s)
    BY <2>3, <1>2 DEF HwDescDirIsSet, SubsystemRow
  <2>4. CASE SensorsReport(s)
    BY <2>4, <1>2 DEF SensorsReport, SubsystemRow
  <2>5. CASE vtysh_ovsdb_fan_speed_set(s)
    BY <2>5, <1>2 DEF vtysh_ovsdb_fan_speed_set, SubsystemRow
  <2> QED BY <1>3, <2>1, <2>2, <2>3, <2>4, <2>5
<1>4. CASE DaemonRowAppears
  BY <1>4 DEF DaemonRowAppears, DaemonUnchanged, TypeOK, Database, HardwareTypeOK,
              hwOutputs, hwInputs
<1>5. CASE /\ (\E f \in Fan : FanInputChanges(f)) \/ (\E u \in Fru : FruPluggedOrPulled(u))
           /\ DaemonUnchanged /\ UNCHANGED db
  BY <1>5 DEF FanInputChanges, FruPluggedOrPulled, DaemonUnchanged, TypeOK, HardwareTypeOK,
              hwOutputs
<1> QED BY <1>1, <1>3, <1>4, <1>5 DEF Environment

(* And one after the transaction of add_subsystem.                         *)
LEMMA WithFansAddedType ==
  ASSUME TypeOK, NEW s \in Subsystem
  PROVE  WithFansAdded(s) \in Database
<1> DEFINE subs  == [db.subsystem EXCEPT ![s] = [@ EXCEPT !.fans = FansIn(s)]]
           added == [db EXCEPT !.fan = [f \in Fan |-> IF f \in FansIn(s) THEN NewRow(f)
                                                                       ELSE @[f]]]
<1>1. CASE ~SameRow(s, db, idl)
  BY <1>1 DEF WithFansAdded, TypeOK
<1>2. CASE SameRow(s, db, idl)
  <2>1. db.subsystem[s] \in SubsystemRow
    BY <1>2 DEF SameRow, Rows, TypeOK, Database
  <2>2. FansIn(s) \subseteq Fan
    BY DEF FansIn
  <2>3. subs \in [Subsystem -> SubsystemRow \cup {NULL}]
    BY <2>1, <2>2 DEF SubsystemRow, TypeOK, Database
  <2>4. \A f \in Fan : NewRow(f) \in FanRow
    <3> TAKE f \in Fan
    <3>1. (IF f \in FanRows(idl) THEN idl.fan[f].rpm ELSE NULL) \in Nat \cup {NULL}
      BY DEF FanRows, TypeOK, Database, FanRow
    <3> QED BY <3>1, EnumHasName
            DEF NewRow, FanRow, FAND_STATUS_UNINITIALIZED, FAND_DIRECTION_F2B, FanSpeed,
                FAND_SPEED_NONE, FAND_SPEED_NORMAL, FAND_SPEED_MAX
  <2>5. added \in Database
    BY <2>4 DEF TypeOK, Database
  <2> QED BY <1>2, <2>3, <2>5, WithSubsystemsType DEF WithFansAdded
<1> QED BY <1>1, <1>2

-----------------------------------------------------------------------------
(* The inductive step, action by action.  DiesHolds is shared by the three *)
(* ways in which the process ends.                                         *)

(* The invariant holds initially.                                          *)
LEMMA InitHolds == Init => InductiveInvariant
<1> SUFFICES ASSUME Init PROVE InductiveInvariant
  OBVIOUS
<1> USE DEF Init
<1>1. TypeOK
  <2>1. FAND_SPEED_NONE \in FanSpeed
    BY DEF FanSpeed, FAND_SPEED_NONE, FAND_SPEED_MAX
  <2>2. HardwareTypeOK
    BY <2>1 DEF HardwareInit, HardwareTypeOK, LedValue
  <2> QED BY <2>2, EmptyDatabaseType, FreshDatabaseType DEF TypeOK, Locations
<1>2. Known = {} /\ Rows(idl) = {} /\ FanRows(idl) = {}
  BY DEF Known, Rows, FanRows, EmptyDatabase
<1>3. RegistryConsistent
  BY <1>2 DEF RegistryConsistent, FansOfSubsystems
<1>4. ControlOK /\ PolledOK
  BY <1>2 DEF ControlOK, PolledOK, Reconfiguring, StrayRows
<1>5. SpeedInv /\ FanRowsOK
  BY <1>2 DEF SpeedInv, MarksOK, SpeedsOK, RegistersOK, VisitedOK, FanRowsOK
<1>6. RowInv
  <2>1. /\ FanRows(db) = {}
        /\ \A s \in Rows(db) : db.subsystem[s].fans = {}
    BY DEF FanRows, Rows, FreshDatabase, FreshRow, EmptyDatabase
  <2> QED BY <1>2, <2>1
          DEF RowInv, ConfiguredOK, DescribedOK, RowsDescribed, SameRow, SweepOK
<1> QED BY <1>1, <1>3, <1>4, <1>5, <1>6 DEF InductiveInvariant, RegistryInv

(* The database is typed after the transaction of db_update_status, too.   *)
LEMMA WithStatusType ==
  ASSUME RegistryInv, pc = "commit"
  PROVE  WithStatusPublished \in Database
<1> USE DEF RegistryInv
<1>1. \A f \in FanRows(idl) : RowFromCache(f) \in FanRow
  <2> TAKE f \in FanRows(idl)
  <2>1. f \in fan_data
    BY DEF ControlOK, StrayRows
  <2>2. locl_fan[f] \in PolledFan
    BY <2>1 DEF PolledOK, Polled
  <2> QED BY <2>2, EnumHasName
          DEF PolledFan, RowFromCache, FanRow, FAND_STATUS_UNINITIALIZED, FAND_STATUS_FAULT
<1> QED BY <1>1 DEF WithStatusPublished, Database, TypeOK

(* All but DescribedOK holds after the end of the process, whatever the    *)
(* state before, with any database the process leaves behind.              *)
LEMMA DiesHolds ==
  ASSUME TypeOK, Dies, db' \in Database
  PROVE  (RegistryInv /\ SpeedInv /\ FanRowsOK /\ ConfiguredOK /\ SweepOK)'
<1> USE DEF Dies
<1>1. TypeOK'
  BY EmptyDatabaseType DEF TypeOK, Locations, hwOutputs, hwInputs, HardwareTypeOK
<1>2. Known' = {} /\ Rows(idl)' = {} /\ FanRows(idl)' = {}
  BY DEF Known, Rows, FanRows, EmptyDatabase
<1>3. RegistryConsistent'
  BY <1>2 DEF RegistryConsistent, FansOfSubsystems
<1>4. ControlOK' /\ PolledOK'
  BY <1>2 DEF ControlOK, PolledOK, Reconfiguring, StrayRows
<1>5. SpeedInv' /\ FanRowsOK' /\ ConfiguredOK' /\ SweepOK'
  BY <1>2 DEF SpeedInv, MarksOK, SpeedsOK, RegistersOK, VisitedOK, FanRowsOK,
              ConfiguredOK, SweepOK
<1> QED BY <1>1, <1>3, <1>4, <1>5 DEF RegistryInv

(* A crash leaves a typed database, whatever transaction was under way.    *)
LEMMA CrashHolds ==
  ASSUME RegistryInv, Crash
  PROVE  (RegistryInv /\ SpeedInv /\ FanRowsOK /\ ConfiguredOK /\ SweepOK)'
<1> USE DEF Crash, RegistryInv
<1>1. CASE UNCHANGED db
  BY <1>1, DiesHolds DEF TypeOK
<1>2. CASE pc = "adding" /\ db' = WithFansAdded(cfg)
  BY <1>2, DiesHolds, WithFansAddedType DEF ControlOK, Known
<1>3. CASE pc = "commit" /\ db' = WithStatusPublished
  BY <1>3, DiesHolds, WithStatusType
<1> QED BY <1>1, <1>2, <1>3

(* What the body of the loop of fand_reconfigure does for subsystem s: one *)
(* entry of the dictionary changes, and not in its fans.                   *)
LEMMA ConfigureStep ==
  ASSUME TypeOK, NEW s \in Known, NEW highest \in RealSpeed, NEW override \in FanSpeed,
         Configure(s, highest, override)
  PROVE  /\ subsystem_data' \in [Subsystem -> LoclSubsystem \cup {NULL}]
         /\ Known' = Known
         /\ \A t \in Known : /\ subsystem_data'[t].fans = subsystem_data[t].fans
                             /\ subsystem_data'[t].valid = subsystem_data[t].valid
         /\ \A t \in Known \ {s} : subsystem_data'[t] = subsystem_data[t]
         /\ subsystem_data'[s].marked
         /\ subsystem_data'[s].speed = CommandedSpeed(highest, override)
         /\ subsystem_data'[s].fan_speed = highest
         /\ subsystem_data'[s].fan_speed_override = override
         /\ fan_speed_control' \in [HasSpeedControl -> FanSpeed]
         /\ fan_led' \in [HasLed -> LedValue]
         /\ \A c \in HasSpeedControl \ SpeedControls(s) :
              fan_speed_control'[c] = fan_speed_control[c]
         /\ ~I2cErrors => \A c \in SpeedControls(s) :
              fan_speed_control'[c] = CommandedSpeed(highest, override)
<1> DEFINE speed == CommandedSpeed(highest, override)
<1>1. speed \in RealSpeed /\ RealSpeed \subseteq FanSpeed
  BY RealIsSpeed, CommandedIsSpeed
<1>2. subsystem_data' =
        [subsystem_data EXCEPT
           ![s] = [@ EXCEPT !.fan_speed = highest, !.fan_speed_override = override,
                            !.speed = speed, !.marked = TRUE]]
  BY DEF Configure
<1>3. s \in Subsystem /\ subsystem_data[s] \in LoclSubsystem
  BY DEF Known, TypeOK
<1>4. subsystem_data'[s] \in LoclSubsystem /\ subsystem_data'[s] # NULL
  BY <1>1, <1>2, <1>3, NullIsNoValue DEF LoclSubsystem, TypeOK
<1>5. /\ subsystem_data'[s].fans = subsystem_data[s].fans
      /\ subsystem_data'[s].valid = subsystem_data[s].valid
      /\ subsystem_data'[s].marked
      /\ subsystem_data'[s].speed = speed
      /\ subsystem_data'[s].fan_speed = highest
      /\ subsystem_data'[s].fan_speed_override = override
  BY <1>2, <1>3 DEF LoclSubsystem, TypeOK
<1>6. /\ subsystem_data' \in [Subsystem -> LoclSubsystem \cup {NULL}]
      /\ \A t \in Subsystem \ {s} : subsystem_data'[t] = subsystem_data[t]
  BY <1>2, <1>3, <1>4 DEF TypeOK
<1>7. Known' = Known
  BY <1>3, <1>4, <1>6 DEF Known
<1>8. HardwareTypeOK
  BY DEF TypeOK
<1>9. fan_led' \in [HasLed -> LedValue]
  BY <1>3, <1>8, SetFanLedsStep DEF Configure
<1>10. WriteFanSpeed(s, speed)
  BY DEF Configure
<1> HIDE DEF speed
<1>11. /\ fan_speed_control' \in [HasSpeedControl -> FanSpeed]
       /\ \A c \in HasSpeedControl \ SpeedControls(s) :
            fan_speed_control'[c] = fan_speed_control[c]
       /\ ~I2cErrors => \A c \in SpeedControls(s) : fan_speed_control'[c] = speed
  BY <1>1, <1>3, <1>8, <1>10, WriteFanSpeedStep
<1> QED BY <1>5, <1>6, <1>7, <1>9, <1>11 DEF Known, speed

(* The steps that leave the dictionaries alone.                            *)
LEMMA SameTables ==
  ASSUME RegistryConsistent, UNCHANGED tables
  PROVE  RegistryConsistent' /\ Known' = Known
BY DEF RegistryConsistent, FansOfSubsystems, Known, tables

(* The steps that touch neither the fans of a subsystem nor its validity.  *)
LEMMA SameFans ==
  ASSUME RegistryConsistent, Known' = Known,
         \A s \in Known : /\ subsystem_data'[s].fans = subsystem_data[s].fans
                          /\ subsystem_data'[s].valid = subsystem_data[s].valid,
         UNCHANGED <<locl_fan, fan_data>>
  PROVE  RegistryConsistent'
<1>1. FansOfSubsystems(Known)' = FansOfSubsystems(Known)
  BY DEF FansOfSubsystems
<1> QED BY <1>1 DEF RegistryConsistent

(* RegistryInv through the steps outside a reconfiguration.                *)
LEMMA RegistryRunSteps ==
  ASSUME RegistryInv,
         \/ Environment \/ Start \/ Wait
         \/ FandRunWithoutLock \/ FandRunUnchanged
         \/ WalkFanRows \/ \E ok \in CommitOutcomes : CommitStatus(ok)
  PROVE  RegistryInv'
<1> USE DEF RegistryInv
<1>1. UNCHANGED tables
  BY EnvironmentStep DEF Start, Wait, FandRunWithoutLock, FandRunUnchanged, WalkFanRows,
                         CommitStatus
<1>2. RegistryConsistent' /\ Known' = Known
  BY <1>1, SameTables
<1>3. \A f : Polled(f)' <=> Polled(f)
  BY <1>1 DEF Polled, tables
<1>4. CASE Environment
  <2>1. /\ db' \in Database /\ HardwareTypeOK'
        /\ UNCHANGED <<idl, idl_changed, pc, tables, flags, loops>>
    BY <1>4, EnvironmentStep
  <2>2. TypeOK'
    BY <2>1 DEF TypeOK, tables, flags, loops
  <2>3. ControlOK' /\ PolledOK'
    BY <2>1, <1>2, <1>3 DEF ControlOK, PolledOK, Reconfiguring, StrayRows, tables, loops
  <2> QED BY <1>2, <2>2, <2>3
<1>5. CASE Start \/ Wait
  <2>1. TypeOK'
    BY <1>5 DEF Start, Wait, TypeOK, Locations, tables, flags, loops, HardwareTypeOK,
                hwOutputs, hwInputs
  <2>2. ControlOK'
    BY <1>5, <1>2 DEF Start, Wait, ControlOK, Reconfiguring, StrayRows, tables, loops
  <2>3. PolledOK'
    BY <1>5, <1>2, <1>3 DEF Start, Wait, PolledOK, tables, loops
  <2> QED BY <1>2, <2>1, <2>2, <2>3
<1>6. CASE FandRunWithoutLock
  <2>1. TypeOK'
    BY <1>6 DEF FandRunWithoutLock, Refreshed, TypeOK, Locations, tables, flags, loops,
                HardwareTypeOK, hwOutputs, hwInputs
  <2>2. ControlOK'
    BY <1>6, <1>2 DEF FandRunWithoutLock, ControlOK, Reconfiguring, tables, loops
  <2>3. PolledOK'
    BY <1>6, <1>3 DEF FandRunWithoutLock, PolledOK, tables, loops
  <2> QED BY <1>2, <2>1, <2>2, <2>3
<1>7. CASE FandRunUnchanged
  <2>1. unread' = fan_data /\ pc' = "poll"
    BY <1>7 DEF FandRunUnchanged, StartPoll, RegistryConsistent
  <2>2. TypeOK'
    BY <1>7, <2>1 DEF FandRunUnchanged, TypeOK, Locations, tables, flags,
                      HardwareTypeOK, hwOutputs, hwInputs
  <2>3. ControlOK'
    BY <1>7, <1>2, <2>1 DEF FandRunUnchanged, ControlOK, Reconfiguring, tables
  <2>4. PolledOK'
    BY <1>7, <2>1 DEF FandRunUnchanged, PolledOK, tables
  <2> QED BY <1>2, <2>2, <2>3, <2>4
<1>8. CASE WalkFanRows
  <2>1. TypeOK'
    BY <1>8 DEF WalkFanRows, TypeOK, Locations, tables, loops,
                HardwareTypeOK, hwOutputs, hwInputs
  <2>2. ControlOK'
    BY <1>8, <1>2 DEF WalkFanRows, ControlOK, Reconfiguring, StrayRows, tables, loops
  <2>3. PolledOK'
    BY <1>8, <1>3 DEF WalkFanRows, PolledOK, tables, loops
  <2> QED BY <1>2, <2>1, <2>2, <2>3
<1>9. ASSUME NEW ok \in CommitOutcomes, CommitStatus(ok)
      PROVE  RegistryInv'
  <2> USE <1>9 DEF CommitStatus
  <2>1. WithStatusPublished \in Database
    BY WithStatusType
  <2>2. TypeOK'
    BY <2>1 DEF Refreshed, TypeOK, Locations, tables, loops,
                HardwareTypeOK, hwOutputs, hwInputs
  <2>3. ControlOK'
    BY <1>2 DEF ControlOK, Reconfiguring, tables, loops
  <2>4. PolledOK'
    BY <1>3 DEF PolledOK, tables, loops
  <2> QED BY <1>2, <2>2, <2>3, <2>4
<1> QED BY <1>4, <1>5, <1>6, <1>7, <1>8, <1>9

(* A new entry of the dictionary of subsystems.                            *)
LEMMA AddedEntry ==
  ASSUME TypeOK, NEW s \in Subsystem, NEW valid \in BOOLEAN, s \notin Known,
         subsystem_data' = [subsystem_data EXCEPT ![s] = NewSubsystem(s, valid)]
  PROVE  /\ subsystem_data' \in [Subsystem -> LoclSubsystem \cup {NULL}]
         /\ Known' = Known \cup {s}
         /\ \A t \in Known : subsystem_data'[t] = subsystem_data[t]
         /\ subsystem_data'[s] = NewSubsystem(s, valid)
         /\ FansOfSubsystems(Known)' = FansOfSubsystems(Known) \cup NewSubsystem(s, valid).fans
<1>1. NewSubsystem(s, valid) \in LoclSubsystem
  BY EnumIsSpeed DEF NewSubsystem, LoclSubsystem, FansIn, FanSpeed, FAND_SPEED_NONE,
                     FAND_SPEED_SLOW, FAND_SPEED_NORMAL, FAND_SPEED_MAX
<1>2. NewSubsystem(s, valid) # NULL
  BY <1>1, NullIsNoValue
<1>3. subsystem_data'[s] = NewSubsystem(s, valid)
  BY DEF TypeOK
<1>4. Known' = Known \cup {s} /\ \A t \in Known : subsystem_data'[t] = subsystem_data[t]
  BY <1>2 DEF TypeOK, Known
<1> QED BY <1>1, <1>3, <1>4 DEF TypeOK, FansOfSubsystems

(* RegistryInv through the loop of fand_reconfigure.                       *)
LEMMA RegistryReconfigureSteps ==
  ASSUME RegistryInv,
         \/ FandRunReconfigure
         \/ \E s \in Subsystem : ReconfigureKnown(s) \/ AddSubsystemFails(s) \/ AddSubsystem(s)
         \/ FinishAddSubsystem \/ ReconfigureAdded \/ ReconfigureFreed
  PROVE  RegistryInv'
<1> USE DEF RegistryInv
<1>1. CASE FandRunReconfigure
  <2> USE <1>1 DEF FandRunReconfigure
  <2>1. \A s \in Known : subsystem_data[s] \in LoclSubsystem
    BY DEF Known, TypeOK
  <2>2. \A s \in Subsystem : subsystem_data[s] \in LoclSubsystem =>
          [subsystem_data[s] EXCEPT !.marked = FALSE] \in LoclSubsystem
    BY DEF LoclSubsystem
  <2>3. subsystem_data' \in [Subsystem -> LoclSubsystem \cup {NULL}]
    BY <2>1, <2>2
  <2>4. Known' = Known
    BY <2>1, <2>2, NullIsNoValue DEF Known
  <2>5. \A s \in Known : /\ subsystem_data'[s].fans = subsystem_data[s].fans
                         /\ subsystem_data'[s].valid = subsystem_data[s].valid
    BY <2>1 DEF Known, LoclSubsystem
  <2>6. TypeOK'
    BY <2>3 DEF TypeOK, Locations, Rows, flags, HardwareTypeOK, hwOutputs, hwInputs
  <2>7. RegistryConsistent'
    BY <2>4, <2>5, SameFans
  <2>8. ControlOK'
    BY <2>4, <2>5 DEF ControlOK, Reconfiguring
  <2>9. PolledOK'
    BY DEF PolledOK
  <2> QED BY <2>6, <2>7, <2>8, <2>9
<1>2. ASSUME NEW s \in Subsystem, ReconfigureKnown(s)
      PROVE  RegistryInv'
  <2> USE <1>2 DEF ReconfigureKnown
  <2>1. CASE subsystem_data[s].valid
    <3>1. PICK highest \in RealSpeed, override \in FanSpeed : Configure(s, highest, override)
      BY <2>1, HighestIsSpeed, EnumIsSpeed DEF ConfigureFromRow
    <3>2. /\ subsystem_data' \in [Subsystem -> LoclSubsystem \cup {NULL}]
          /\ Known' = Known
          /\ \A t \in Known : /\ subsystem_data'[t].fans = subsystem_data[t].fans
                              /\ subsystem_data'[t].valid = subsystem_data[t].valid
          /\ fan_speed_control' \in [HasSpeedControl -> FanSpeed]
          /\ fan_led' \in [HasLed -> LedValue]
      BY <3>1, ConfigureStep
    <3>3. TypeOK'
      BY <3>2 DEF TypeOK, flags, HardwareTypeOK, hwInputs
    <3>4. RegistryConsistent'
      BY <3>2, SameFans
    <3>5. ControlOK'
      BY <3>2 DEF ControlOK, Reconfiguring
    <3> QED BY <3>3, <3>4, <3>5 DEF PolledOK
  <2>2. CASE ~subsystem_data[s].valid
    <3>1. UNCHANGED tables
      BY <2>2 DEF tables
    <3>2. TypeOK'
      BY <2>2 DEF TypeOK, flags, HardwareTypeOK, hwOutputs, hwInputs
    <3>3. ControlOK'
      BY <3>1, SameTables DEF ControlOK, Reconfiguring, tables
    <3> QED BY <3>1, <3>2, <3>3, SameTables DEF PolledOK
  <2> QED BY <2>1, <2>2
<1>3. ASSUME NEW s \in Subsystem, AddSubsystemFails(s)
      PROVE  RegistryInv'
  <2> USE <1>3 DEF AddSubsystemFails
  <2>1. NewSubsystem(s, FALSE).fans = {} /\ ~NewSubsystem(s, FALSE).valid
    BY DEF NewSubsystem
  <2>2. /\ subsystem_data' \in [Subsystem -> LoclSubsystem \cup {NULL}]
        /\ Known' = Known \cup {s}
        /\ \A t \in Known : subsystem_data'[t] = subsystem_data[t]
        /\ subsystem_data'[s] = NewSubsystem(s, FALSE)
        /\ FansOfSubsystems(Known)' = FansOfSubsystems(Known)
    BY <2>1, AddedEntry
  <2>3. TypeOK'
    BY <2>2 DEF TypeOK, flags, HardwareTypeOK, hwOutputs, hwInputs
  <2>4. RegistryConsistent'
    BY <2>1, <2>2 DEF RegistryConsistent
  <2>5. ControlOK'
    BY <2>2 DEF ControlOK, Reconfiguring
  <2> QED BY <2>3, <2>4, <2>5 DEF PolledOK
<1>4. ASSUME NEW s \in Subsystem, AddSubsystem(s)
      PROVE  RegistryInv'
  <2> USE <1>4 DEF AddSubsystem
  <2>1. NewSubsystem(s, TRUE).fans = FansIn(s) /\ NewSubsystem(s, TRUE).valid
    BY DEF NewSubsystem
  <2>2. /\ subsystem_data' \in [Subsystem -> LoclSubsystem \cup {NULL}]
        /\ Known' = Known \cup {s}
        /\ \A t \in Known : subsystem_data'[t] = subsystem_data[t]
        /\ subsystem_data'[s] = NewSubsystem(s, TRUE)
        /\ FansOfSubsystems(Known)' = FansOfSubsystems(Known) \cup FansIn(s)
    BY <2>1, AddedEntry
  <2>3. PICK status \in [FansIn(s) -> MallocStatus] :
          locl_fan' = [f \in Fan |-> IF f \in FansIn(s) THEN Malloced(status[f])
                                                        ELSE locl_fan[f]]
    OBVIOUS
  <2>4. \A f \in FansIn(s) : Malloced(status[f]) \in LoclFan /\ Malloced(status[f]) # NULL
    BY <2>3, FandAssumption, NullIsNoValue DEF LoclFan
  <2>5. FansIn(s) \subseteq Fan
    BY DEF FansIn
  <2>6. TypeOK'
    BY <2>2, <2>3, <2>4, <2>5 DEF TypeOK, Locations, flags, HardwareTypeOK, hwOutputs, hwInputs
  <2>7. RegistryConsistent'
    BY <2>1, <2>2, <2>3, <2>4 DEF RegistryConsistent
  <2>8. ControlOK'
    BY <2>1, <2>2, NullIsNoValue DEF ControlOK, Reconfiguring
  <2> QED BY <2>6, <2>7, <2>8 DEF PolledOK
<1>5. CASE FinishAddSubsystem
  <2> USE <1>5 DEF FinishAddSubsystem
  <2> DEFINE speed == CommandedSpeed(subsystem_data[cfg].fan_speed,
                                     subsystem_data[cfg].fan_speed_override)
  <2>1. cfg \in Known /\ cfg \in Subsystem /\ subsystem_data[cfg] \in LoclSubsystem
    BY DEF ControlOK, Known, TypeOK
  <2>2. speed \in RealSpeed /\ speed \in FanSpeed
    BY <2>1, CommandedIsSpeed, RealIsSpeed DEF LoclSubsystem
  <2> HIDE DEF speed
  <2>3. subsystem_data' = [subsystem_data EXCEPT ![cfg] = [@ EXCEPT !.speed = speed]]
    BY DEF speed
  <2>4. /\ subsystem_data'[cfg] \in LoclSubsystem
        /\ subsystem_data'[cfg] # NULL
        /\ subsystem_data'[cfg].fans = subsystem_data[cfg].fans
        /\ subsystem_data'[cfg].valid = subsystem_data[cfg].valid
    BY <2>1, <2>2, <2>3, NullIsNoValue DEF TypeOK, LoclSubsystem
  <2>5. \A t \in Subsystem \ {cfg} : subsystem_data'[t] = subsystem_data[t]
    BY <2>3 DEF TypeOK
  <2>6. Known' = Known
    BY <2>1, <2>4, <2>5 DEF Known
  <2>7. RegistryConsistent'
    <3>1. \A t \in Known : /\ subsystem_data'[t].fans = subsystem_data[t].fans
                          /\ subsystem_data'[t].valid = subsystem_data[t].valid
      BY <2>4, <2>5 DEF Known
    <3> QED BY <3>1, <2>6, SameFans
  <2>8. db' \in Database
    BY <2>1, WithFansAddedType DEF TypeOK
  <2>9. fan_speed_control' \in [HasSpeedControl -> FanSpeed]
    BY <2>1, <2>2, WriteFanSpeedStep DEF TypeOK, speed
  <2>10. todo' \subseteq Rows(idl')
    OBVIOUS
  <2>11. cfg \in Rows(idl) /\ ~SameRow(cfg, idl, idl') => idl_changed'
    <3> SUFFICES ASSUME cfg \in Rows(idl), ~SameRow(cfg, idl, idl')
                 PROVE  Alerts(idl, idl')
      BY DEF Refreshed, TypeOK
    <3>1. CASE cfg \notin Rows(idl')
      BY <3>1 DEF Alerts
    <3>2. CASE idl.subsystem[cfg].uuid # idl'.subsystem[cfg].uuid
      <4>1. idl.subsystem[cfg] \in SubsystemRow
        BY DEF Rows, TypeOK, Database
      <4>2. "uuid" \in AlertColumns
        BY DEF AlertColumns
      <4>3. \E column \in AlertColumns :
              idl.subsystem[cfg][column] # idl'.subsystem[cfg][column]
        BY <3>2, <4>2
      <4> QED BY <4>3 DEF Alerts
    <3> QED BY <3>1, <3>2 DEF SameRow
  <2>12. pc' \in {"added", "freed"}
         /\ (pc' = "added" => cfg \in Rows(idl')) /\ (pc' = "freed" => idl_changed')
    BY <2>11 DEF SameRow, ControlOK
  <2>13. TypeOK'
    <3>1. subsystem_data' \in [Subsystem -> LoclSubsystem \cup {NULL}]
      BY <2>1, <2>3, <2>4 DEF TypeOK
    <3>2. Rows(idl') \subseteq Subsystem
      BY DEF Rows
    <3>3. idl_changed' \in BOOLEAN
      BY DEF Refreshed, TypeOK
    <3> QED BY <3>1, <3>2, <3>3, <2>8, <2>9, <2>10, <2>12
            DEF TypeOK, Locations, flags, HardwareTypeOK, hwInputs
  <2>14. ControlOK'
    BY <2>4, <2>6, <2>10, <2>12 DEF ControlOK, Reconfiguring
  <2>15. PolledOK'
    BY <2>12 DEF PolledOK
  <2> QED BY <2>7, <2>13, <2>14, <2>15
<1>6. ASSUME NEW highest \in RealSpeed, NEW override \in FanSpeed,
             pc \in {"added", "freed"}, Configure(cfg, highest, override),
             pc' = "reconfigure", cfg' = NULL, todo' \subseteq Rows(idl),
             UNCHANGED <<db, idl, idl_changed, locl_fan, fan_data, flags, unread, hwInputs>>
      PROVE  RegistryInv'
  <2>1. cfg \in Known
    BY <1>6 DEF ControlOK
  <2>2. /\ subsystem_data' \in [Subsystem -> LoclSubsystem \cup {NULL}]
        /\ Known' = Known
        /\ \A t \in Known : /\ subsystem_data'[t].fans = subsystem_data[t].fans
                            /\ subsystem_data'[t].valid = subsystem_data[t].valid
        /\ fan_speed_control' \in [HasSpeedControl -> FanSpeed]
        /\ fan_led' \in [HasLed -> LedValue]
    BY <1>6, <2>1, ConfigureStep
  <2>3. TypeOK'
    BY <1>6, <2>2 DEF TypeOK, Locations, flags, HardwareTypeOK, hwInputs, Rows
  <2>4. RegistryConsistent'
    BY <1>6, <2>2, SameFans
  <2>5. ControlOK'
    BY <1>6, <2>2 DEF ControlOK, Reconfiguring
  <2>6. PolledOK'
    BY <1>6 DEF PolledOK
  <2> QED BY <2>3, <2>4, <2>5, <2>6
<1>7. CASE ReconfigureAdded
  BY <1>7, <1>6, HighestIsSpeed, EnumIsSpeed DEF ReconfigureAdded, ConfigureFromRow, ControlOK
<1>8. CASE ReconfigureFreed
  BY <1>8, <1>6 DEF ReconfigureFreed
<1> QED BY <1>1, <1>2, <1>3, <1>4, <1>5, <1>7, <1>8

(* RegistryInv through fand_remove_unmarked_subsystems: no fan belongs to  *)
(* two subsystems, so those that stay lose none.                           *)
LEMMA RegistryRemoveUnmarked ==
  ASSUME RegistryInv, RemoveUnmarked
  PROVE  RegistryInv'
<1> USE DEF RegistryInv, RemoveUnmarked, Freed
<1> DEFINE freed == Freed
           kept  == FansOfSubsystems(Known \ Unmarked)
<1>1. subsystem_data' = [s \in Subsystem |-> IF s \in Unmarked THEN NULL
                                             ELSE subsystem_data[s]]
      /\ Unmarked \subseteq Known
  BY DEF Unmarked
<1>2. /\ Known' = Known \ Unmarked
      /\ \A s \in Known' : subsystem_data'[s] = subsystem_data[s]
  BY <1>1 DEF Known
<1>3. FansOfSubsystems(Known)' = kept
  BY <1>2 DEF FansOfSubsystems
<1>4. \A s, t \in Known : s # t => subsystem_data[s].fans \cap subsystem_data[t].fans = {}
  BY DEF RegistryConsistent, FansIn
<1>5. fan_data \ freed = kept
  BY <1>1, <1>4 DEF RegistryConsistent, FansOfSubsystems
<1>6. /\ fan_data' = kept
      /\ locl_fan' = [f \in Fan |-> IF f \in freed THEN NULL ELSE locl_fan[f]]
      /\ pc' = "poll" /\ unread' = kept
  BY <1>5 DEF StartPoll
<1>7. \A f \in Fan : locl_fan'[f] # NULL <=> f \in fan_data'
  BY <1>5, <1>6 DEF RegistryConsistent
<1>8. RegistryConsistent'
  BY <1>2, <1>3, <1>6, <1>7 DEF RegistryConsistent
<1>9. TypeOK'
  <2>1. kept \subseteq fan_data
    BY <1>5
  <2>2. subsystem_data' \in [Subsystem -> LoclSubsystem \cup {NULL}]
    BY <1>1 DEF TypeOK
  <2> QED BY <1>6, <2>1, <2>2 DEF TypeOK, Locations, flags, HardwareTypeOK, hwOutputs, hwInputs
<1>10. ControlOK'
  BY <1>6 DEF ControlOK, Reconfiguring
<1>11. PolledOK'
  BY <1>6 DEF PolledOK
<1> QED BY <1>8, <1>9, <1>10, <1>11

(* RegistryInv through the poll of one fan.                                *)
LEMMA RegistryPollFan ==
  ASSUME RegistryInv, NEW f \in Fan, PollFan(f)
  PROVE  RegistryInv'
<1> USE DEF RegistryInv, PollFan
<1>1. PICK reading \in fand_read_fan_status(f) :
        locl_fan' = [locl_fan EXCEPT
                       ![f] = [speed     |-> subsystem_data[SubsystemOf[FruOf[f]]].speed,
                               direction |-> reading.direction,
                               rpm       |-> reading.rpm,
                               status    |-> reading.status]]
  OBVIOUS
<1>2. SubsystemOf[FruOf[f]] \in Known /\ f \in fan_data
  <2>1. f \in FansOfSubsystems(Known)
    BY DEF ControlOK, RegistryConsistent
  <2>2. PICK s \in Known : f \in subsystem_data[s].fans
    BY <2>1 DEF FansOfSubsystems
  <2>3. SubsystemOf[FruOf[f]] = s
    BY <2>2 DEF RegistryConsistent, FansIn
  <2> QED BY <2>1, <2>3 DEF RegistryConsistent
<1>3. subsystem_data[SubsystemOf[FruOf[f]]].speed \in FanSpeed
  BY <1>2 DEF Known, TypeOK, LoclSubsystem
<1>4. locl_fan'[f] \in PolledFan /\ locl_fan'[f] # NULL
  <2>1. locl_fan'[f] \in PolledFan
    BY <1>1, <1>3, ReadingType
       DEF TypeOK, PolledFan, FAND_STATUS_UNINITIALIZED, FAND_STATUS_FAULT
  <2> QED BY <2>1, NullIsNoValue DEF LoclFan
<1>5. /\ locl_fan' \in [Fan -> LoclFan \cup {NULL}]
      /\ \A g \in Fan \ {f} : locl_fan'[g] = locl_fan[g]
  BY <1>1, <1>4 DEF TypeOK, LoclFan
<1>6. TypeOK'
  BY <1>5 DEF TypeOK, flags, HardwareTypeOK, hwOutputs, hwInputs
<1>7. RegistryConsistent'
  <2>1. Known' = Known /\ FansOfSubsystems(Known)' = FansOfSubsystems(Known)
    BY DEF Known, FansOfSubsystems
  <2>2. \A g \in Fan : locl_fan'[g] # NULL <=> g \in fan_data'
    BY <1>2, <1>4, <1>5 DEF RegistryConsistent
  <2> QED BY <2>1, <2>2 DEF RegistryConsistent
<1>8. ControlOK'
  BY DEF ControlOK, Reconfiguring, Known, StrayRows
<1>9. PolledOK'
  BY <1>4, <1>5 DEF PolledOK, Polled, TypeOK
<1> QED BY <1>6, <1>7, <1>8, <1>9

(* RegistryInv is inductive by itself.                                     *)
LEMMA RegistryStep == RegistryInv /\ [Next]_vars => RegistryInv'
<1> SUFFICES ASSUME RegistryInv, [Next]_vars PROVE RegistryInv'
  OBVIOUS
<1>1. CASE UNCHANGED vars
  BY <1>1 DEF vars, tables, flags, loops, hwOutputs, hwInputs, RegistryInv, TypeOK,
              HardwareTypeOK, RegistryConsistent, FansOfSubsystems, Known, ControlOK,
              Reconfiguring, StrayRows, PolledOK, Polled
<1>2. CASE Environment
  BY <1>2, RegistryRunSteps
<1>3. CASE ops_fand_exit \/ Crash
  BY <1>3, DiesHolds, CrashHolds DEF ops_fand_exit, RegistryInv, InductiveInvariant, TypeOK
<1>4. CASE Daemon
  <2>1. CASE \/ Start \/ Wait \/ FandRunWithoutLock \/ FandRunUnchanged
             \/ WalkFanRows \/ \E ok \in CommitOutcomes : CommitStatus(ok)
    BY <2>1, RegistryRunSteps
  <2>2. CASE \/ FandRunReconfigure
             \/ \E s \in Subsystem : ReconfigureKnown(s) \/ AddSubsystemFails(s) \/ AddSubsystem(s)
             \/ FinishAddSubsystem \/ ReconfigureAdded \/ ReconfigureFreed
    BY <2>2, RegistryReconfigureSteps
  <2>3. CASE RemoveUnmarked
    BY <2>3, RegistryRemoveUnmarked
  <2>4. CASE \E f \in Fan : PollFan(f)
    BY <2>4, RegistryPollFan
  <2>5. CASE WalkStrayRow
    BY <2>5, DiesHolds DEF WalkStrayRow, RegistryInv, InductiveInvariant, TypeOK
  <2> QED BY <1>4, <2>1, <2>2, <2>3, <2>4, <2>5 DEF Daemon, FandRunWithLock
<1> QED BY <1>1, <1>2, <1>3, <1>4 DEF Next

-----------------------------------------------------------------------------
(* The speeds.  A mark is set by Configure, and until it is reset nothing  *)
(* but Configure touches the subsystem's speed or its registers; a change  *)
(* of the row raises idl_changed.                                          *)

(* No control register belongs to two subsystems.                          *)
LEMMA ControlsDisjoint ==
  ASSUME NEW s \in Subsystem, NEW t \in Subsystem, s # t
  PROVE  SpeedControls(s) \cap SpeedControls(t) = {}
<1>1. ASSUME NEW x \in Subsystem, NEW c \in SpeedControls(x)
      PROVE  \/ c \in Subsystem /\ c = x
             \/ c \in Fru /\ SubsystemOf[c] = x
             \/ c \in Fan /\ SubsystemOf[FruOf[c]] = x
  BY <1>1 DEF SpeedControls, FrusIn, FansIn
<1> QED BY <1>1, HardwareDescription

(* What fand_set_fanspeed writes are control registers.                    *)
LEMMA ControlsOwned == \A s \in Subsystem : SpeedControls(s) \subseteq HasSpeedControl
BY DEF SpeedControls

(* A refresh that raises no alert changes nothing the daemon computes from. *)
LEMMA QuietRefresh ==
  ASSUME NEW new, ~Alerts(idl, new)
  PROVE  /\ Rows(new) = Rows(idl)
         /\ \A s \in Rows(idl) :
              /\ new.subsystem[s].uuid = idl.subsystem[s].uuid
              /\ new.subsystem[s].hw_desc_dir = idl.subsystem[s].hw_desc_dir
              /\ new.subsystem[s].temp_sensors = idl.subsystem[s].temp_sensors
              /\ new.subsystem[s].fan_speed_override = idl.subsystem[s].fan_speed_override
<1>1. Rows(new) = Rows(idl)
  BY DEF Alerts
<1>2. \A s \in Rows(idl), column \in AlertColumns :
        idl.subsystem[s][column] = new.subsystem[s][column]
  BY DEF Alerts
<1>3. /\ "uuid" \in AlertColumns /\ "hw_desc_dir" \in AlertColumns
      /\ "temp_sensors" \in AlertColumns /\ "fan_speed_override" \in AlertColumns
  BY DEF AlertColumns
<1>4. ASSUME NEW s \in Rows(idl)
      PROVE  /\ new.subsystem[s].uuid = idl.subsystem[s].uuid
             /\ new.subsystem[s].hw_desc_dir = idl.subsystem[s].hw_desc_dir
             /\ new.subsystem[s].temp_sensors = idl.subsystem[s].temp_sensors
             /\ new.subsystem[s].fan_speed_override = idl.subsystem[s].fan_speed_override
  BY <1>2, <1>3
<1> QED BY <1>1, <1>4

(* SpeedInv through steps that change nothing it speaks of.                *)
LEMMA SpeedIdleSteps ==
  ASSUME SpeedInv, ~Reconfiguring' => ~Reconfiguring,
         UNCHANGED <<idl, idl_changed, subsystem_data, todo, cfg, fan_speed_control>>
  PROVE  SpeedInv'
BY DEF SpeedInv, MarksOK, SpeedsOK, RegistersOK, VisitedOK, Known, Rows, Describes

(* SpeedInv through a refresh: it raises idl_changed or is quiet.          *)
LEMMA SpeedRefreshSteps ==
  ASSUME SpeedInv, ~Reconfiguring' => ~Reconfiguring,
         ~idl_changed' => ~idl_changed /\ ~Alerts(idl, idl'),
         UNCHANGED <<subsystem_data, todo, cfg, fan_speed_control>>
  PROVE  SpeedInv'
<1>1. Known' = Known
  BY DEF Known
<1>2. MarksOK' /\ RegistersOK'
  BY <1>1 DEF SpeedInv, MarksOK, RegistersOK
<1>3. SpeedsOK' /\ VisitedOK'
  <2>1. CASE idl_changed'
    BY <2>1 DEF SpeedsOK, VisitedOK
  <2>2. CASE ~idl_changed'
    <3>1. /\ Rows(idl') = Rows(idl)
          /\ \A s \in Rows(idl) :
               /\ idl'.subsystem[s].hw_desc_dir = idl.subsystem[s].hw_desc_dir
               /\ idl'.subsystem[s].temp_sensors = idl.subsystem[s].temp_sensors
               /\ idl'.subsystem[s].fan_speed_override = idl.subsystem[s].fan_speed_override
      BY <2>2, QuietRefresh
    <3>2. SpeedsOK'
      BY <1>1, <2>2, <3>1 DEF SpeedInv, SpeedsOK
    <3>3. VisitedOK'
      BY <1>1, <2>2, <3>1 DEF SpeedInv, VisitedOK, Describes
    <3> QED BY <3>2, <3>3
  <2> QED BY <2>1, <2>2
<1> QED BY <1>2, <1>3 DEF SpeedInv

(* SpeedInv through the reset of the marks.                                *)
LEMMA SpeedRunReconfigure ==
  ASSUME RegistryInv, SpeedInv, FandRunReconfigure
  PROVE  SpeedInv'
<1> USE DEF FandRunReconfigure
<1>1. \A s \in Known : LET l == [subsystem_data[s] EXCEPT !.marked = FALSE]
                       IN  ~l.marked /\ l.valid = subsystem_data[s].valid
  BY DEF Known, RegistryInv, TypeOK, LoclSubsystem
<1>2. \A s \in Known' : /\ s \in Known
                        /\ subsystem_data'[s] = [subsystem_data[s] EXCEPT !.marked = FALSE]
  BY DEF FandRunReconfigure, Known
<1>3. \A s \in Known' : /\ ~subsystem_data'[s].marked
                        /\ subsystem_data'[s].valid = subsystem_data[s].valid
  BY <1>1, <1>2
<1>4. \A s \in Known : subsystem_data[s].valid
  BY DEF FandRunReconfigure, SpeedInv, MarksOK, Reconfiguring
<1>5. Rows(idl)' = todo' /\ pc' = "reconfigure"
  BY DEF FandRunReconfigure, Rows
<1>6. MarksOK' /\ SpeedsOK' /\ RegistersOK'
  BY <1>3, <1>5 DEF MarksOK, SpeedsOK, RegistersOK, Reconfiguring
<1>7. VisitedOK'
  BY <1>2, <1>3, <1>4, <1>5 DEF VisitedOK
<1> QED BY <1>6, <1>7 DEF SpeedInv

(* The body of the loop marks s; the columns it read are those of the row  *)
(* of s, unless a change is known to have come in between.                 *)
LEMMA SpeedConfigure ==
  ASSUME RegistryInv, SpeedInv,
         NEW s \in Known, NEW highest \in RealSpeed, NEW override \in FanSpeed,
         Configure(s, highest, override), subsystem_data[s].valid,
         ~idl_changed =>
           /\ s \in Rows(idl)
           /\ highest = HighestFanState(idl.subsystem[s].temp_sensors)
           /\ override = fan_speed_string_to_enum(idl.subsystem[s].fan_speed_override),
         ~idl_changed => todo' \subseteq todo /\ todo \subseteq todo' \cup {s},
         s # cfg', cfg' = cfg \/ (cfg = s /\ cfg' = NULL),
         Reconfiguring', UNCHANGED <<idl, idl_changed>>
  PROVE  SpeedInv'
<1> DEFINE speed == CommandedSpeed(highest, override)
<1>1. /\ Known' = Known
      /\ \A t \in Known : subsystem_data'[t].valid = subsystem_data[t].valid
      /\ \A t \in Known \ {s} : subsystem_data'[t] = subsystem_data[t]
      /\ subsystem_data'[s].marked
      /\ subsystem_data'[s].speed = speed
      /\ \A c \in HasSpeedControl \ SpeedControls(s) :
           fan_speed_control'[c] = fan_speed_control[c]
      /\ ~I2cErrors => \A c \in SpeedControls(s) : fan_speed_control'[c] = speed
  BY ConfigureStep DEF RegistryInv
<1>2. Known \subseteq Subsystem /\ NULL \notin Subsystem
  BY NullIsNoValue DEF Known
<1>3. ~idl_changed => ObeysPolicy(speed, idl.subsystem[s].temp_sensors,
                                  idl.subsystem[s].fan_speed_override)
  BY SpeedIsPolicy DEF Speed
<1> HIDE DEF speed
<1>4. MarksOK'
  BY <1>1, <1>2 DEF SpeedInv, MarksOK
<1>5. SpeedsOK'
  BY <1>1, <1>3 DEF SpeedInv, SpeedsOK
<1>6. RegistersOK'
  <2> SUFFICES ASSUME ~I2cErrors, NEW t \in Known, subsystem_data'[t].marked,
                      NEW c \in SpeedControls(t)
               PROVE  fan_speed_control'[c] = subsystem_data'[t].speed
    BY <1>1 DEF RegistersOK
  <2>1. CASE t = s
    BY <1>1, <2>1
  <2>2. CASE t # s
    <3>1. c \in HasSpeedControl \ SpeedControls(s)
      BY <1>2, <2>2, ControlsDisjoint, ControlsOwned
    <3> QED BY <1>1, <2>2, <3>1 DEF SpeedInv, RegistersOK
  <2> QED BY <2>1, <2>2
<1>7. VisitedOK'
  <2> SUFFICES ASSUME ~idl_changed
               PROVE  /\ \A t \in todo' \cap Known : subsystem_data'[t].valid
                      /\ ~YamlErrors => \A t \in Rows(idl) \ todo' :
                           Describes(idl.subsystem[t], t)
                             => t \in Known /\ (subsystem_data'[t].marked \/ t = cfg')
    BY <1>1 DEF VisitedOK, Rows, Describes
  <2>1. todo' \subseteq todo /\ todo \subseteq todo' \cup {s}
    OBVIOUS
  <2>2. \A t \in todo' \cap Known : subsystem_data'[t].valid
    BY <1>1, <2>1 DEF SpeedInv, VisitedOK
  <2>3. ASSUME ~YamlErrors, NEW t \in Rows(idl) \ todo', Describes(idl.subsystem[t], t)
        PROVE  t \in Known /\ (subsystem_data'[t].marked \/ t = cfg')
    <3>1. CASE t = s
      BY <1>1, <3>1
    <3>2. CASE t # s
      BY <1>1, <2>1, <2>3, <3>2 DEF SpeedInv, VisitedOK
    <3> QED BY <3>1, <3>2
  <2> QED BY <2>2, <2>3
<1> QED BY <1>4, <1>5, <1>6, <1>7 DEF SpeedInv

(* SpeedInv through the visits of the loop.                                *)
LEMMA SpeedReconfigureSteps ==
  ASSUME RegistryInv, SpeedInv,
         \/ \E s \in Subsystem : ReconfigureKnown(s)
         \/ ReconfigureAdded \/ ReconfigureFreed
  PROVE  SpeedInv'
<1>1. NULL \notin Subsystem
  BY NullIsNoValue
<1>2. ASSUME NEW s \in Subsystem, ReconfigureKnown(s)
      PROVE  SpeedInv'
  <2>1. /\ pc = "reconfigure" /\ cfg = NULL /\ s \in Known /\ s \in Rows(idl)
        /\ s \in todo /\ todo' = todo \ {s} /\ Reconfiguring'
        /\ UNCHANGED <<idl, idl_changed, cfg>>
    BY <1>2 DEF ReconfigureKnown, RegistryInv, ControlOK, Reconfiguring
  <2>2. CASE subsystem_data[s].valid
    <3>1. Configure(s, HighestFanState(idl.subsystem[s].temp_sensors),
                    fan_speed_string_to_enum(idl.subsystem[s].fan_speed_override))
      BY <1>2, <2>2 DEF ReconfigureKnown, ConfigureFromRow
    <3>2. /\ HighestFanState(idl.subsystem[s].temp_sensors) \in RealSpeed
          /\ fan_speed_string_to_enum(idl.subsystem[s].fan_speed_override) \in FanSpeed
      BY HighestIsSpeed, EnumIsSpeed
    <3> QED BY <1>1, <2>1, <2>2, <3>1, <3>2, SpeedConfigure
  <2>3. CASE ~subsystem_data[s].valid
    <3>1. idl_changed
      BY <2>1, <2>3 DEF SpeedInv, VisitedOK
    <3>2. UNCHANGED <<subsystem_data, fan_speed_control>>
      BY <1>2, <2>3 DEF ReconfigureKnown, hwOutputs
    <3>3. MarksOK' /\ RegistersOK'
      BY <2>1, <3>2 DEF SpeedInv, MarksOK, RegistersOK, Known
    <3> QED BY <2>1, <3>1, <3>3 DEF SpeedInv, SpeedsOK, VisitedOK
  <2> QED BY <2>2, <2>3
<1>3. CASE ReconfigureAdded
  <2>1. /\ cfg \in Known /\ subsystem_data[cfg].valid /\ cfg \in Rows(idl)
        /\ cfg' = NULL /\ cfg # cfg' /\ Reconfiguring'
        /\ UNCHANGED <<idl, idl_changed, todo>>
    BY <1>1, <1>3 DEF ReconfigureAdded, RegistryInv, ControlOK, Reconfiguring, Known
  <2>2. Configure(cfg, HighestFanState(idl.subsystem[cfg].temp_sensors),
                  fan_speed_string_to_enum(idl.subsystem[cfg].fan_speed_override))
    BY <1>3 DEF ReconfigureAdded, ConfigureFromRow
  <2>3. /\ HighestFanState(idl.subsystem[cfg].temp_sensors) \in RealSpeed
        /\ fan_speed_string_to_enum(idl.subsystem[cfg].fan_speed_override) \in FanSpeed
    BY HighestIsSpeed, EnumIsSpeed
  <2> QED BY <1>1, <2>1, <2>2, <2>3, SpeedConfigure
<1>4. CASE ReconfigureFreed
  <2>1. PICK highest \in RealSpeed, override \in FanSpeed : Configure(cfg, highest, override)
    BY <1>4 DEF ReconfigureFreed
  <2>2. /\ cfg \in Known /\ subsystem_data[cfg].valid /\ idl_changed
        /\ cfg' = NULL /\ cfg # cfg' /\ Reconfiguring'
        /\ UNCHANGED <<idl, idl_changed>>
    BY <1>1, <1>4 DEF ReconfigureFreed, RegistryInv, ControlOK, Reconfiguring, Known
  <2> QED BY <2>1, <2>2, SpeedConfigure
<1> QED BY <1>2, <1>3, <1>4

(* A subsystem enters the dictionary unmarked.                             *)
LEMMA SpeedAddSteps ==
  ASSUME RegistryInv, SpeedInv, NEW s \in Subsystem,
         AddSubsystemFails(s) \/ AddSubsystem(s)
  PROVE  SpeedInv'
<1>1. PICK valid \in BOOLEAN :
        /\ subsystem_data' = [subsystem_data EXCEPT ![s] = NewSubsystem(s, valid)]
        /\ valid \/ (Describes(idl.subsystem[s], s) => YamlErrors)
        /\ cfg' = IF valid THEN s ELSE cfg
  BY DEF AddSubsystemFails, AddSubsystem
<1>2. /\ s \in todo /\ s \notin Known /\ todo' = todo \ {s}
      /\ pc = "reconfigure" /\ cfg = NULL /\ Reconfiguring'
      /\ UNCHANGED <<idl, idl_changed, fan_speed_control>>
  BY DEF AddSubsystemFails, AddSubsystem, hwOutputs, RegistryInv, ControlOK, Reconfiguring
<1>3. /\ Known' = Known \cup {s}
      /\ \A t \in Known : subsystem_data'[t] = subsystem_data[t]
      /\ subsystem_data'[s] = NewSubsystem(s, valid)
  BY <1>1, <1>2, AddedEntry DEF RegistryInv
<1>4. ~subsystem_data'[s].marked
  BY <1>3 DEF NewSubsystem
<1>5. \A t \in Known : t # s
  BY <1>2
<1>6. MarksOK'
  BY <1>1, <1>2, <1>3, <1>4, <1>5 DEF SpeedInv, MarksOK
<1>7. SpeedsOK' /\ RegistersOK'
  BY <1>2, <1>3, <1>4 DEF SpeedInv, SpeedsOK, RegistersOK, Rows
<1>8. VisitedOK'
  <2> SUFFICES ASSUME ~idl_changed
               PROVE  /\ \A t \in todo' \cap Known' : subsystem_data'[t].valid
                      /\ ~YamlErrors => \A t \in Rows(idl) \ todo' :
                           Describes(idl.subsystem[t], t)
                             => t \in Known' /\ (subsystem_data'[t].marked \/ t = cfg')
    BY <1>2 DEF VisitedOK, Rows, Describes
  <2>1. \A t \in todo' \cap Known' : subsystem_data'[t].valid
    BY <1>2, <1>3 DEF SpeedInv, VisitedOK
  <2>2. ASSUME ~YamlErrors, NEW t \in Rows(idl) \ todo', Describes(idl.subsystem[t], t)
        PROVE  t \in Known' /\ (subsystem_data'[t].marked \/ t = cfg')
    <3>1. CASE t = s
      BY <1>1, <1>3, <2>2, <3>1
    <3>2. CASE t # s
      <4>1. t \in Known /\ (subsystem_data[t].marked \/ t = cfg)
        BY <1>2, <2>2, <3>2 DEF SpeedInv, VisitedOK
      <4>2. t # cfg
        BY <1>2, <4>1, NullIsNoValue DEF Known
      <4> QED BY <1>3, <4>1, <4>2
    <3> QED BY <3>1, <3>2
  <2> QED BY <2>1, <2>2
<1> QED BY <1>6, <1>7, <1>8 DEF SpeedInv

(* The initial speed goes to an unmarked subsystem, and a quiet commit     *)
(* leaves the loop with the rows it had still to visit.                    *)
LEMMA SpeedFinishAdd ==
  ASSUME RegistryInv, SpeedInv, FinishAddSubsystem
  PROVE  SpeedInv'
<1> DEFINE speed == CommandedSpeed(subsystem_data[cfg].fan_speed,
                                   subsystem_data[cfg].fan_speed_override)
<1>1. /\ cfg \in Known /\ cfg \in Subsystem /\ subsystem_data[cfg] \in LoclSubsystem
      /\ TypeOK /\ HardwareTypeOK
  BY DEF FinishAddSubsystem, RegistryInv, ControlOK, Known, TypeOK
<1>2. speed \in RealSpeed
  BY <1>1, CommandedIsSpeed DEF LoclSubsystem
<1>3. /\ subsystem_data' = [subsystem_data EXCEPT ![cfg] = [@ EXCEPT !.speed = speed]]
      /\ WriteFanSpeed(cfg, speed)
      /\ Reconfiguring' /\ UNCHANGED cfg
  BY DEF FinishAddSubsystem, Reconfiguring
<1> HIDE DEF speed
<1>4. /\ \A c \in HasSpeedControl \ SpeedControls(cfg) :
           fan_speed_control'[c] = fan_speed_control[c]
  BY <1>1, <1>2, <1>3, WriteFanSpeedStep
<1>5. /\ subsystem_data'[cfg] # NULL
      /\ subsystem_data'[cfg].valid = subsystem_data[cfg].valid
      /\ subsystem_data'[cfg].marked = subsystem_data[cfg].marked
  <2>1. subsystem_data'[cfg] \in LoclSubsystem
    BY <1>1, <1>2, <1>3, RealIsSpeed DEF TypeOK, LoclSubsystem
  <2> QED BY <1>1, <1>3, <2>1, NullIsNoValue DEF TypeOK, LoclSubsystem
<1>6. \A t \in Subsystem \ {cfg} : subsystem_data'[t] = subsystem_data[t]
  BY <1>1, <1>3 DEF TypeOK
<1>7. /\ Known' = Known
      /\ \A t \in Known : /\ subsystem_data'[t].valid = subsystem_data[t].valid
                          /\ subsystem_data'[t].marked = subsystem_data[t].marked
  BY <1>1, <1>5, <1>6 DEF Known
<1>8. \A t \in Known : subsystem_data[t].marked => t # cfg
  BY DEF SpeedInv, MarksOK
<1>9. MarksOK'
  BY <1>3, <1>7 DEF SpeedInv, MarksOK
<1>10. RegistersOK'
  <2> SUFFICES ASSUME ~I2cErrors, NEW t \in Known, subsystem_data[t].marked,
                      NEW c \in SpeedControls(t)
               PROVE  fan_speed_control'[c] = subsystem_data'[t].speed
    BY <1>7 DEF RegistersOK
  <2>1. t \in Subsystem /\ t # cfg
    BY <1>8 DEF Known
  <2>2. c \in HasSpeedControl \ SpeedControls(cfg)
    BY <1>1, <2>1, ControlsDisjoint, ControlsOwned
  <2> QED BY <1>4, <1>6, <2>1, <2>2 DEF SpeedInv, RegistersOK
<1>11. ASSUME ~idl_changed'
       PROVE  /\ ~idl_changed
              /\ Rows(idl') = Rows(idl)
              /\ \A t \in Rows(idl) :
                   /\ SameRow(t, idl, idl')
                   /\ idl'.subsystem[t].hw_desc_dir = idl.subsystem[t].hw_desc_dir
                   /\ idl'.subsystem[t].temp_sensors = idl.subsystem[t].temp_sensors
                   /\ idl'.subsystem[t].fan_speed_override
                        = idl.subsystem[t].fan_speed_override
  <2>1. ~idl_changed /\ ~Alerts(idl, idl')
    BY <1>11 DEF FinishAddSubsystem, Refreshed
  <2> QED BY <2>1, QuietRefresh DEF SameRow
<1>12. SpeedsOK'
  BY <1>6, <1>7, <1>8, <1>11 DEF SpeedInv, SpeedsOK, Known
<1>13. ASSUME ~idl_changed'
       PROVE  todo' = todo
  <2>1. {t \in Rows(idl') : ~SameRow(t, idl, idl')} = {} => todo' = todo \cap Rows(idl')
    BY DEF FinishAddSubsystem
  <2>2. todo \subseteq Rows(idl)
    BY DEF RegistryInv, ControlOK
  <2> QED BY <1>11, <1>13, <2>1, <2>2
<1>14. VisitedOK'
  BY <1>3, <1>7, <1>11, <1>13 DEF SpeedInv, VisitedOK, Describes
<1> QED BY <1>9, <1>10, <1>12, <1>14 DEF SpeedInv

(* SpeedInv through the sweep: only marked subsystems stay.                *)
LEMMA SpeedRemoveUnmarked ==
  ASSUME RegistryInv, SpeedInv, RemoveUnmarked
  PROVE  SpeedInv'
<1>1. /\ subsystem_data' = [s \in Subsystem |-> IF s \in Unmarked THEN NULL
                                                ELSE subsystem_data[s]]
      /\ todo = {} /\ cfg = NULL
      /\ UNCHANGED <<idl, idl_changed, todo, cfg, fan_speed_control>>
  BY DEF RemoveUnmarked, hwOutputs, RegistryInv, ControlOK
<1>2. /\ Known' = Known \ Unmarked
      /\ \A s \in Known' : subsystem_data'[s] = subsystem_data[s]
  BY <1>1 DEF Known, Unmarked
<1>3. \A s \in Known' : s \in Known /\ subsystem_data'[s] = subsystem_data[s]
                        /\ subsystem_data[s].marked
  BY <1>2 DEF Unmarked
<1>4. MarksOK' /\ SpeedsOK' /\ RegistersOK'
  BY <1>1, <1>3 DEF SpeedInv, MarksOK, SpeedsOK, RegistersOK
<1>5. NULL \notin Known
  BY NullIsNoValue DEF Known
<1>6. ASSUME ~idl_changed, ~YamlErrors, NEW t \in Rows(idl), Describes(idl.subsystem[t], t)
      PROVE  t \in Known' /\ subsystem_data'[t].marked
  BY <1>1, <1>2, <1>5, <1>6 DEF SpeedInv, VisitedOK, Unmarked
<1>7. VisitedOK'
  BY <1>1, <1>6 DEF VisitedOK, Rows, Describes
<1> QED BY <1>4, <1>7 DEF SpeedInv

(* SpeedInv is inductive relative to RegistryInv.                          *)
LEMMA SpeedStep == InductiveInvariant /\ [Next]_vars => SpeedInv'
<1> SUFFICES ASSUME RegistryInv, SpeedInv, [Next]_vars PROVE SpeedInv'
  BY DEF InductiveInvariant
<1>1. CASE UNCHANGED vars
  BY <1>1, SpeedIdleSteps DEF vars, tables, loops, hwOutputs, Reconfiguring
<1>2. CASE Environment
  <2>1. TypeOK
    BY DEF RegistryInv
  <2> QED BY <1>2, <2>1, EnvironmentStep, SpeedIdleSteps DEF tables, loops, Reconfiguring
<1>3. CASE ops_fand_exit \/ Crash
  BY <1>3, DiesHolds, CrashHolds DEF ops_fand_exit, RegistryInv, InductiveInvariant, TypeOK
<1>4. CASE Daemon
  <2>1. CASE Start
    BY <2>1, SpeedIdleSteps DEF Start, tables, loops, hwOutputs, Reconfiguring
  <2>2. CASE Wait
    BY <2>2, SpeedIdleSteps DEF Wait, tables, loops, hwOutputs, Reconfiguring
  <2>3. CASE \E f \in Fan : PollFan(f)
    BY <2>3, SpeedIdleSteps DEF PollFan, hwOutputs, Reconfiguring
  <2>4. CASE WalkFanRows
    BY <2>4, SpeedIdleSteps DEF WalkFanRows, tables, loops, hwOutputs, Reconfiguring
  <2>5. CASE WalkStrayRow
    BY <2>5, DiesHolds DEF WalkStrayRow, RegistryInv, InductiveInvariant, TypeOK
  <2>6. CASE FandRunWithoutLock
    BY <2>6, SpeedRefreshSteps
       DEF FandRunWithoutLock, Refreshed, tables, loops, hwOutputs, Reconfiguring
  <2>7. CASE FandRunUnchanged
    BY <2>7, SpeedRefreshSteps
       DEF FandRunUnchanged, StartPoll, Refreshed, tables, hwOutputs, Reconfiguring
  <2>8. CASE \E ok \in CommitOutcomes : CommitStatus(ok)
    BY <2>8, SpeedRefreshSteps
       DEF CommitStatus, Refreshed, tables, loops, hwOutputs, Reconfiguring
  <2>9. CASE FandRunReconfigure
    BY <2>9, SpeedRunReconfigure
  <2>10. CASE \E s \in Subsystem : AddSubsystemFails(s) \/ AddSubsystem(s)
    BY <2>10, SpeedAddSteps
  <2>11. CASE \/ \E s \in Subsystem : ReconfigureKnown(s)
              \/ ReconfigureAdded \/ ReconfigureFreed
    BY <2>11, SpeedReconfigureSteps
  <2>12. CASE FinishAddSubsystem
    BY <2>12, SpeedFinishAdd
  <2>13. CASE RemoveUnmarked
    BY <2>13, SpeedRemoveUnmarked
  <2> QED BY <1>4, <2>1, <2>2, <2>3, <2>4, <2>5, <2>6, <2>7, <2>8, <2>9, <2>10, <2>11,
             <2>12, <2>13 DEF Daemon, FandRunWithLock
<1> QED BY <1>1, <1>2, <1>3, <1>4 DEF Next

(* What the other writers do to the Fan rows and to cur_hw.                *)
LEMMA EnvironmentDeletes ==
  ASSUME TypeOK, Environment
  PROVE  /\ \A f \in Fan : db'.fan[f] \in {db.fan[f], NULL}
         /\ db'.cur_hw \in {db.cur_hw, 0}
<1>1. ASSUME NEW subs PROVE /\ \A f \in Fan : WithSubsystems(db, subs).fan[f] \in {db.fan[f], NULL}
                            /\ WithSubsystems(db, subs).cur_hw = db.cur_hw
  BY DEF WithSubsystems
<1>2. CASE \E s \in Subsystem : \E row : WriteSubsystem(s, row)
  BY <1>1, <1>2 DEF WriteSubsystem
<1>3. CASE DaemonRowAppears
  BY <1>3 DEF DaemonRowAppears, TypeOK, Database
<1>4. CASE UNCHANGED db
  BY <1>4
<1> QED
  BY <1>2, <1>3, <1>4
     DEF Environment, SubsystemAppears, SubsystemGoes, HwDescDirIsSet, SensorsReport,
         vtysh_ovsdb_fan_speed_set

(* FanRowsOK is inductive: between two refreshes others only delete Fan    *)
(* rows.                                                                   *)
LEMMA FanRowsStep ==
  ASSUME TypeOK, FanRowsOK, [Next]_vars
  PROVE  FanRowsOK'
<1>1. CASE Environment
  <2>1. \A f \in Fan : db'.fan[f] \in {db.fan[f], NULL}
    BY <1>1, EnvironmentDeletes
  <2>2. UNCHANGED <<idl, pc>>
    BY <1>1, EnvironmentStep
  <2> QED BY <2>1, <2>2 DEF FanRowsOK, FanRows
<1>2. CASE idl' = db' \/ pc' \in {"down", "run"}
  BY <1>2 DEF FanRowsOK, FanRows
<1>3. CASE UNCHANGED <<db, idl>> /\ (pc' \notin {"down", "run"} => pc \notin {"down", "run"})
  BY <1>3 DEF FanRowsOK, FanRows
<1>4. CASE Daemon
  <2>1. CASE Start \/ Wait \/ WalkStrayRow
    BY <2>1, <1>2 DEF Start, Wait, WalkStrayRow, Dies
  <2>2. CASE \/ FandRunWithoutLock \/ FandRunWithLock \/ FinishAddSubsystem
             \/ \E ok \in CommitOutcomes : CommitStatus(ok)
    BY <2>2, <1>2 DEF FandRunWithoutLock, FandRunWithLock, FandRunReconfigure,
                      FandRunUnchanged, FinishAddSubsystem, CommitStatus
  <2>3. CASE \/ \E s \in Subsystem : ReconfigureKnown(s) \/ AddSubsystemFails(s) \/ AddSubsystem(s)
             \/ ReconfigureAdded \/ ReconfigureFreed
    BY <2>3, <1>3 DEF ReconfigureKnown, AddSubsystemFails, AddSubsystem, ReconfigureAdded,
                      ReconfigureFreed
  <2>4. CASE RemoveUnmarked \/ (\E f \in Fan : PollFan(f)) \/ WalkFanRows
    BY <2>4, <1>3 DEF RemoveUnmarked, PollFan, WalkFanRows
  <2> QED BY <1>4, <2>1, <2>2, <2>3, <2>4 DEF Daemon
<1> QED BY <1>1, <1>2, <1>3, <1>4 DEF Next, vars, ops_fand_exit, Crash, Dies

(* ConfiguredOK and SweepOK through a step that configures s.              *)
LEMMA ConfiguredConfigure ==
  ASSUME TypeOK, ConfiguredOK,
         NEW s \in Known, NEW highest \in RealSpeed, NEW override \in FanSpeed,
         Configure(s, highest, override)
  PROVE  ConfiguredOK' /\ SweepOK'
<1>1. /\ Known' = Known
      /\ \A t \in Known \ {s} : subsystem_data'[t] = subsystem_data[t]
      /\ subsystem_data'[s].marked
      /\ subsystem_data'[s].speed = CommandedSpeed(highest, override)
      /\ subsystem_data'[s].fan_speed = highest
      /\ subsystem_data'[s].fan_speed_override = override
  BY ConfigureStep
<1> QED BY <1>1 DEF ConfiguredOK, SweepOK

(* ConfiguredOK and SweepOK are inductive relative to the rest: only       *)
(* Configure marks, and nothing writes a marked struct but Configure.      *)
LEMMA ConfiguredStep ==
  ASSUME InductiveInvariant, [Next]_vars
  PROVE  ConfiguredOK' /\ SweepOK'
<1>1. TypeOK /\ RegistryInv /\ ConfiguredOK /\ SweepOK /\ NULL \notin Subsystem
  BY NullIsNoValue DEF InductiveInvariant, RowInv, RegistryInv
<1>2. CASE /\ UNCHANGED subsystem_data
           /\ pc' = "reconfigure" /\ idl_changed' => pc = "reconfigure" /\ idl_changed
  BY <1>1, <1>2 DEF ConfiguredOK, SweepOK, Known
<1>3. CASE Environment
  BY <1>1, <1>2, <1>3, EnvironmentStep DEF tables
<1>4. CASE ops_fand_exit \/ Crash \/ WalkStrayRow
  BY <1>1, <1>4, DiesHolds, CrashHolds DEF ops_fand_exit, WalkStrayRow, TypeOK
<1>5. CASE \/ Start \/ Wait \/ FandRunWithoutLock \/ FandRunUnchanged \/ WalkFanRows
           \/ (\E f \in Fan : PollFan(f)) \/ \E ok \in CommitOutcomes : CommitStatus(ok)
  BY <1>2, <1>5 DEF Start, Wait, FandRunWithoutLock, FandRunUnchanged, StartPoll,
                    WalkFanRows, PollFan, CommitStatus, tables
<1>6. CASE FandRunReconfigure
  <2>1. \A s \in Known : ~[subsystem_data[s] EXCEPT !.marked = FALSE].marked
    BY <1>1 DEF Known, TypeOK, LoclSubsystem
  <2>2. \A s \in Known' : ~subsystem_data'[s].marked
    BY <1>6, <2>1 DEF FandRunReconfigure, Known
  <2> QED BY <1>6, <2>2 DEF FandRunReconfigure, ConfiguredOK, SweepOK
<1>7. ASSUME NEW s \in Subsystem, ReconfigureKnown(s)
      PROVE  ConfiguredOK' /\ SweepOK'
  <2>1. CASE subsystem_data[s].valid
    <3>1. Configure(s, HighestFanState(idl.subsystem[s].temp_sensors),
                    fan_speed_string_to_enum(idl.subsystem[s].fan_speed_override))
      BY <1>7, <2>1 DEF ReconfigureKnown, ConfigureFromRow
    <3>2. s \in Known
      BY <1>7 DEF ReconfigureKnown
    <3> QED BY <1>1, <3>1, <3>2, HighestIsSpeed, EnumIsSpeed, ConfiguredConfigure
  <2>2. CASE ~subsystem_data[s].valid
    BY <1>2, <1>7, <2>2 DEF ReconfigureKnown
  <2> QED BY <2>1, <2>2
<1>8. ASSUME NEW s \in Subsystem, AddSubsystemFails(s) \/ AddSubsystem(s)
      PROVE  ConfiguredOK' /\ SweepOK'
  <2>1. PICK valid \in BOOLEAN :
          subsystem_data' = [subsystem_data EXCEPT ![s] = NewSubsystem(s, valid)]
    BY <1>8 DEF AddSubsystemFails, AddSubsystem
  <2>2. s \notin Known /\ pc = "reconfigure" /\ UNCHANGED idl_changed
    BY <1>8 DEF AddSubsystemFails, AddSubsystem
  <2>3. /\ Known' = Known \cup {s}
        /\ \A t \in Known : subsystem_data'[t] = subsystem_data[t]
        /\ ~subsystem_data'[s].marked
    BY <1>1, <2>1, <2>2, AddedEntry DEF NewSubsystem
  <2> QED BY <1>1, <2>2, <2>3 DEF ConfiguredOK, SweepOK
<1>9. CASE FinishAddSubsystem
  <2>1. /\ cfg \in Known /\ cfg \in Subsystem /\ subsystem_data[cfg] \in LoclSubsystem
        /\ ~subsystem_data[cfg].marked
    BY <1>1, <1>9 DEF FinishAddSubsystem, InductiveInvariant, SpeedInv, MarksOK,
                      RegistryInv, ControlOK, Known, TypeOK
  <2>2. PICK speed : subsystem_data' = [subsystem_data EXCEPT
                       ![cfg] = [subsystem_data[cfg] EXCEPT !.speed = speed]]
    BY <1>1, <1>9 DEF FinishAddSubsystem
  <2>3. /\ ~subsystem_data'[cfg].marked
        /\ \A t \in Subsystem \ {cfg} : subsystem_data'[t] = subsystem_data[t]
    BY <1>1, <2>1, <2>2 DEF TypeOK, LoclSubsystem
  <2>4. ConfiguredOK'
    BY <1>1, <2>3 DEF ConfiguredOK, Known
  <2> QED BY <1>9, <2>4 DEF FinishAddSubsystem, SweepOK
<1>10. CASE ReconfigureAdded
  <2>1. cfg \in Known
    BY <1>1, <1>10 DEF ReconfigureAdded, RegistryInv, ControlOK
  <2>2. Configure(cfg, HighestFanState(idl.subsystem[cfg].temp_sensors),
                  fan_speed_string_to_enum(idl.subsystem[cfg].fan_speed_override))
    BY <1>10 DEF ReconfigureAdded, ConfigureFromRow
  <2> QED BY <1>1, <2>1, <2>2, HighestIsSpeed, EnumIsSpeed, ConfiguredConfigure
<1>11. CASE ReconfigureFreed
  <2>1. cfg \in Known
    BY <1>1, <1>11 DEF ReconfigureFreed, RegistryInv, ControlOK
  <2> QED BY <1>1, <1>11, <2>1, ConfiguredConfigure DEF ReconfigureFreed
<1>12. CASE RemoveUnmarked
  <2>1. \A s \in Known' : s \in Known /\ subsystem_data'[s] = subsystem_data[s]
    BY <1>12 DEF RemoveUnmarked, Known
  <2> QED BY <1>1, <1>12, <2>1 DEF RemoveUnmarked, StartPoll, ConfiguredOK, SweepOK
<1>13. CASE UNCHANGED vars
  BY <1>2, <1>13 DEF vars, tables
<1> QED BY <1>3, <1>4, <1>5, <1>6, <1>7, <1>8, <1>9, <1>10, <1>11, <1>12, <1>13
        DEF Next, Daemon, FandRunWithLock

(* The server drops the Fan rows that no Subsystem row refers to.          *)
LEMMA WithSubsystemsDescribed ==
  ASSUME NEW d, NEW subs \in [Subsystem -> SubsystemRow \cup {NULL}],
         \A s \in Subsystem : subs[s] # NULL =>
           subs[s].fans \subseteq FansIn(s) /\ (subs[s].fans # {} => subs[s].hw_desc_dir)
  PROVE  RowsDescribed(WithSubsystems(d, subs))
<1> DEFINE e == WithSubsystems(d, subs)
<1>1. Rows(e) = {s \in Subsystem : subs[s] # NULL} /\ e.subsystem = subs
  BY DEF WithSubsystems, Rows
<1>2. \A f \in FanRows(e) : f \in Referenced(subs)
  BY DEF WithSubsystems, FanRows
<1>3. \A f \in FanRows(e) : \E s \in Rows(e) : f \in e.subsystem[s].fans
  BY <1>1, <1>2 DEF Referenced
<1> HIDE DEF e
<1>4. \A s \in Rows(e) : /\ e.subsystem[s].fans \subseteq FansIn(s)
                         /\ e.subsystem[s].fans # {} => e.subsystem[s].hw_desc_dir
  BY <1>1
<1>5. RowsDescribed(e)
  BY <1>3, <1>4 DEF RowsDescribed
<1> QED BY <1>5 DEF e

(* The other writers keep the fans of a row and never unset its directory. *)
LEMMA DescribedEnvironment ==
  ASSUME InductiveInvariant, Environment
  PROVE  DescribedOK'
<1>1. TypeOK /\ DescribedOK
  BY DEF InductiveInvariant, RegistryInv, RowInv
<1>2. UNCHANGED <<idl, pc, cfg>>
  BY <1>1, EnvironmentStep DEF loops
<1>3. \A s \in Rows(db) : s \in Subsystem /\ db.subsystem[s] \in SubsystemRow
  BY <1>1 DEF Rows, TypeOK, Database
<1>4. ASSUME NEW s \in Subsystem, NEW row \in SubsystemRow \cup {NULL}, WriteSubsystem(s, row),
             row # NULL =>
               /\ row.fans \subseteq FansIn(s) /\ (row.fans # {} => row.hw_desc_dir)
               /\ s \in Rows(idl) /\ row.uuid = idl.subsystem[s].uuid
                    /\ idl.subsystem[s].hw_desc_dir => row.hw_desc_dir
      PROVE  DescribedOK'
  <2> DEFINE subs == [db.subsystem EXCEPT ![s] = row]
  <2>1. /\ subs \in [Subsystem -> SubsystemRow \cup {NULL}]
        /\ subs[s] = row /\ \A t \in Subsystem \ {s} : subs[t] = db.subsystem[t]
    BY <1>1 DEF TypeOK, Database
  <2>2. db' = WithSubsystems(db, subs)
    BY <1>4 DEF WriteSubsystem
  <2> HIDE DEF subs
  <2>3. \A t \in Subsystem : subs[t] # NULL =>
          subs[t].fans \subseteq FansIn(t) /\ (subs[t].fans # {} => subs[t].hw_desc_dir)
    BY <1>1, <1>4, <2>1 DEF DescribedOK, RowsDescribed, Rows
  <2>4. RowsDescribed(db')
    BY <2>1, <2>2, <2>3, WithSubsystemsDescribed
  <2>5. db'.subsystem = subs
    BY <2>2 DEF WithSubsystems
  <2>6. ASSUME NEW t \in Subsystem, SameRow(t, db', idl), idl.subsystem[t].hw_desc_dir
        PROVE  db'.subsystem[t].hw_desc_dir
    <3>1. CASE t = s
      BY <1>4, <2>1, <2>5, <2>6, <3>1 DEF SameRow, Rows
    <3>2. CASE t # s
      BY <1>1, <2>1, <2>5, <2>6, <3>2 DEF SameRow, Rows, DescribedOK
    <3> QED BY <3>1, <3>2
  <2> QED BY <1>1, <1>2, <2>4, <2>6 DEF DescribedOK
<1>5. ASSUME NEW s \in Subsystem, SubsystemAppears(s)
      PROVE  DescribedOK'
  <2>1. PICK u \in Uuid, dir \in BOOLEAN, readings \in SensorReadings :
          /\ s \in Rows(idl) => idl.subsystem[s].uuid # u
          /\ WriteSubsystem(s, [uuid |-> u, hw_desc_dir |-> dir, temp_sensors |-> readings,
                                fan_speed_override |-> NULL, fans |-> {}])
    BY <1>5 DEF SubsystemAppears
  <2> DEFINE row == [uuid |-> u, hw_desc_dir |-> dir, temp_sensors |-> readings,
                     fan_speed_override |-> NULL, fans |-> {}]
  <2>2. row \in SubsystemRow
    BY DEF SubsystemRow
  <2>3. row.fans = {} /\ row.uuid = u
    OBVIOUS
  <2>4. WriteSubsystem(s, row)
    BY <2>1
  <2> HIDE DEF row
  <2> QED BY <1>4, <2>1, <2>2, <2>3, <2>4
<1>6. ASSUME NEW s \in Subsystem, SubsystemGoes(s)
      PROVE  DescribedOK'
  BY <1>4, <1>6 DEF SubsystemGoes
<1>7. ASSUME NEW s \in Rows(db), NEW row \in SubsystemRow, WriteSubsystem(s, row),
             row.fans = db.subsystem[s].fans, row.uuid = db.subsystem[s].uuid,
             db.subsystem[s].hw_desc_dir => row.hw_desc_dir
      PROVE  DescribedOK'
  <2>1. /\ row.fans \subseteq FansIn(s) /\ (row.fans # {} => row.hw_desc_dir)
        /\ s \in Subsystem
    BY <1>1, <1>3, <1>7 DEF DescribedOK, RowsDescribed
  <2>2. s \in Rows(idl) /\ row.uuid = idl.subsystem[s].uuid
          /\ idl.subsystem[s].hw_desc_dir => row.hw_desc_dir
    BY <1>1, <1>7, <2>1 DEF DescribedOK, SameRow
  <2> QED BY <1>4, <1>7, <2>1, <2>2
<1>8. ASSUME NEW s \in Subsystem,
             HwDescDirIsSet(s) \/ SensorsReport(s) \/ vtysh_ovsdb_fan_speed_set(s)
      PROVE  DescribedOK'
  <2>1. s \in Rows(db) /\ db.subsystem[s] \in SubsystemRow
    BY <1>3, <1>8 DEF HwDescDirIsSet, SensorsReport, vtysh_ovsdb_fan_speed_set
  <2>2. CASE HwDescDirIsSet(s)
    <3>1. WriteSubsystem(s, [db.subsystem[s] EXCEPT !.hw_desc_dir = TRUE])
      BY <2>2 DEF HwDescDirIsSet
    <3> QED BY <1>7, <2>1, <3>1 DEF SubsystemRow
  <2>3. CASE SensorsReport(s)
    <3>1. PICK readings \in SensorReadings :
            WriteSubsystem(s, [db.subsystem[s] EXCEPT !.temp_sensors = readings])
      BY <2>3 DEF SensorsReport
    <3> QED BY <1>7, <2>1, <3>1 DEF SubsystemRow
  <2>4. CASE vtysh_ovsdb_fan_speed_set(s)
    <3>1. PICK override \in Overrides \cup {NULL} :
            WriteSubsystem(s, [db.subsystem[s] EXCEPT !.fan_speed_override = override])
      BY <2>4 DEF vtysh_ovsdb_fan_speed_set
    <3> QED BY <1>7, <2>1, <3>1 DEF SubsystemRow
  <2> QED BY <1>8, <2>2, <2>3, <2>4
<1>9. CASE DaemonRowAppears
  <2>1. db'.subsystem = db.subsystem /\ db'.fan = db.fan
    BY <1>1, <1>9 DEF DaemonRowAppears, TypeOK, Database
  <2> QED BY <1>1, <1>2, <2>1 DEF DescribedOK, RowsDescribed, SameRow, Rows, FanRows
<1>10. CASE UNCHANGED db
  BY <1>1, <1>2, <1>10 DEF DescribedOK
<1> QED BY <1>5, <1>6, <1>8, <1>9, <1>10 DEF Environment

(* What the daemon's own transactions write is described, and comes with   *)
(* the directory of the row.                                               *)
LEMMA DescribedWrites ==
  ASSUME InductiveInvariant,
         \/ UNCHANGED db
         \/ pc = "adding" /\ db' = WithFansAdded(cfg)
         \/ pc = "commit" /\ db' = WithStatusPublished
  PROVE  /\ RowsDescribed(db')
         /\ \A s \in Subsystem :
              SameRow(s, db', idl) /\ idl.subsystem[s].hw_desc_dir
                => db'.subsystem[s].hw_desc_dir
<1>1. TypeOK /\ DescribedOK
  BY DEF InductiveInvariant, RegistryInv, RowInv
<1>2. CASE UNCHANGED db
  BY <1>1, <1>2 DEF DescribedOK
<1>3. CASE pc = "commit" /\ db' = WithStatusPublished
  <2>1. db'.subsystem = db.subsystem /\ FanRows(db') \subseteq FanRows(db)
    BY <1>3 DEF WithStatusPublished, FanRows
  <2> QED BY <1>1, <2>1 DEF DescribedOK, RowsDescribed, SameRow, Rows
<1>4. CASE pc = "adding" /\ db' = WithFansAdded(cfg) /\ ~UNCHANGED db
  <2> DEFINE subs == [db.subsystem EXCEPT ![cfg] = [@ EXCEPT !.fans = FansIn(cfg)]]
             d    == [db EXCEPT !.fan = [f \in Fan |-> IF f \in FansIn(cfg) THEN NewRow(f)
                                                                            ELSE @[f]]]
  <2>1. cfg \in Subsystem /\ idl.subsystem[cfg].hw_desc_dir
    BY <1>1, <1>4 DEF InductiveInvariant, RegistryInv, ControlOK, Known, DescribedOK
  <2>2. SameRow(cfg, db, idl) /\ db' = WithSubsystems(d, subs)
    BY <1>4 DEF WithFansAdded
  <2>3. db.subsystem[cfg] \in SubsystemRow /\ db.subsystem[cfg].hw_desc_dir
    BY <1>1, <2>1, <2>2 DEF SameRow, Rows, DescribedOK, TypeOK, Database
  <2>4. /\ subs[cfg].fans = FansIn(cfg) /\ subs[cfg].hw_desc_dir
        /\ subs[cfg] \in SubsystemRow
        /\ \A t \in Subsystem \ {cfg} : subs[t] = db.subsystem[t]
        /\ subs \in [Subsystem -> SubsystemRow \cup {NULL}]
    BY <1>1, <2>1, <2>3 DEF SubsystemRow, TypeOK, Database, FansIn
  <2>5. db'.subsystem = subs
    BY <2>2 DEF WithSubsystems
  <2> HIDE DEF subs, d
  <2>6. \A t \in Subsystem : subs[t] # NULL =>
          subs[t].fans \subseteq FansIn(t) /\ (subs[t].fans # {} => subs[t].hw_desc_dir)
    BY <1>1, <2>4 DEF DescribedOK, RowsDescribed, Rows
  <2>7. RowsDescribed(db')
    BY <2>2, <2>4, <2>6, WithSubsystemsDescribed
  <2>8. ASSUME NEW s \in Subsystem, SameRow(s, db', idl), idl.subsystem[s].hw_desc_dir
        PROVE  db'.subsystem[s].hw_desc_dir
    BY <1>1, <2>4, <2>5, <2>8 DEF DescribedOK, SameRow, Rows
  <2> QED BY <2>7, <2>8
<1> QED BY <1>2, <1>3, <1>4

(* DescribedOK is inductive.                                               *)
LEMMA DescribedStep ==
  ASSUME InductiveInvariant, [Next]_vars
  PROVE  DescribedOK'
<1>1. TypeOK /\ DescribedOK
  BY DEF InductiveInvariant, RegistryInv, RowInv
<1>2. ASSUME \/ UNCHANGED db
             \/ pc = "adding" /\ db' = WithFansAdded(cfg)
             \/ pc = "commit" /\ db' = WithStatusPublished,
             idl' = db', pc' # "adding"
      PROVE  DescribedOK'
  BY <1>2, DescribedWrites DEF DescribedOK, SameRow
<1>3. CASE UNCHANGED <<db, idl>> /\ (pc' = "adding" => UNCHANGED <<pc, cfg>>)
  BY <1>1, <1>3 DEF DescribedOK
<1>4. CASE Environment
  BY <1>4, DescribedEnvironment
<1>5. CASE ops_fand_exit \/ Crash \/ WalkStrayRow
  <2>1. /\ \/ UNCHANGED db
           \/ pc = "adding" /\ db' = WithFansAdded(cfg)
           \/ pc = "commit" /\ db' = WithStatusPublished
        /\ idl' = EmptyDatabase /\ pc' = "down"
    BY <1>5 DEF ops_fand_exit, Crash, WalkStrayRow, Dies
  <2>2. RowsDescribed(db')
    BY <2>1, DescribedWrites
  <2>3. Rows(idl') = {} /\ FanRows(idl') = {}
    BY <2>1 DEF EmptyDatabase, Rows, FanRows
  <2> QED BY <2>1, <2>2, <2>3 DEF DescribedOK, RowsDescribed, SameRow
<1>6. CASE \/ FandRunWithoutLock \/ FandRunWithLock \/ FinishAddSubsystem
           \/ \E ok \in CommitOutcomes : CommitStatus(ok)
  BY <1>2, <1>6 DEF FandRunWithoutLock, FandRunWithLock, FandRunReconfigure,
                    FandRunUnchanged, StartPoll, FinishAddSubsystem, CommitStatus
<1>7. CASE \E s \in Subsystem : AddSubsystem(s)
  <2>1. PICK s \in Subsystem : AddSubsystem(s)
    BY <1>7
  <2> QED BY <1>1, <2>1 DEF AddSubsystem, Describes, DescribedOK
<1>8. CASE \/ Start \/ Wait \/ RemoveUnmarked \/ (\E f \in Fan : PollFan(f)) \/ WalkFanRows
           \/ ReconfigureAdded \/ ReconfigureFreed
           \/ \E s \in Subsystem : ReconfigureKnown(s) \/ AddSubsystemFails(s)
  BY <1>3, <1>8 DEF Start, Wait, RemoveUnmarked, StartPoll, PollFan, WalkFanRows,
                    ReconfigureAdded, ReconfigureFreed, ReconfigureKnown, AddSubsystemFails
<1>9. CASE UNCHANGED vars
  BY <1>3, <1>9 DEF vars, loops
<1> QED BY <1>4, <1>5, <1>6, <1>7, <1>8, <1>9 DEF Next, Daemon

-----------------------------------------------------------------------------
(* The theorems. *)

(* In every reachable state the registry, the control variables, the marks,*)
(* the recorded speeds and the registers fit together as InductiveInvariant*)
(* says; the safety properties below are its consequences.                 *)
THEOREM InvariantHolds == Spec => []InductiveInvariant
<1>1. Init => InductiveInvariant
  BY InitHolds
<1>2. InductiveInvariant /\ [Next]_vars => InductiveInvariant'
  <2>1. InductiveInvariant => TypeOK /\ FanRowsOK /\ RegistryInv
    BY DEF InductiveInvariant, RegistryInv
  <2> QED BY <2>1, RegistryStep, SpeedStep, FanRowsStep, ConfiguredStep, DescribedStep
          DEF InductiveInvariant, RowInv
<1> QED BY <1>1, <1>2, PTL DEF Spec

(* Every variable keeps its type, whatever fails: each string the daemon   *)
(* publishes is one of its tables, each rpm a number.                      *)
THEOREM TypeCorrect == Spec => []TypeOK
<1>1. InductiveInvariant => TypeOK
  BY DEF InductiveInvariant, RegistryInv
<1> QED BY <1>1, InvariantHolds, PTL

(* A struct locl_fan is allocated exactly while both dictionaries hold it, *)
(* through additions, removals, failures and crashes of the daemon.        *)
THEOREM RegistryIsConsistent == Spec => []RegistryConsistent
<1>1. InductiveInvariant => RegistryConsistent
  BY DEF InductiveInvariant, RegistryInv
<1> QED BY <1>1, InvariantHolds, PTL

(* Between reconfigurations the daemon drives the subsystems that its      *)
(* replica lists and the hardware description describes, and no others.    *)
THEOREM RegistryFollowsDatabase == Spec => []RegistryMatchesDatabase
<1>1. InductiveInvariant => RegistryMatchesDatabase
  <2> SUFFICES ASSUME InductiveInvariant, Settled, NEW s \in Subsystem
               PROVE  /\ s \in Known => s \in Rows(idl) /\ subsystem_data[s].valid
                      /\ s \in Rows(idl) /\ Describes(idl.subsystem[s], s)
                           => s \in Known \/ YamlErrors
    BY DEF RegistryMatchesDatabase
  <2>1. ~Reconfiguring /\ ~idl_changed
    BY DEF Settled, Reconfiguring
  <2>2. todo = {} /\ cfg = NULL
    BY <2>1 DEF InductiveInvariant, RegistryInv, ControlOK, Reconfiguring
  <2> QED BY <2>1, <2>2
          DEF InductiveInvariant, SpeedInv, MarksOK, SpeedsOK, VisitedOK
<1> QED BY <1>1, InvariantHolds, PTL

(* Every struct fresh from malloc is polled in the pass that adds it: the  *)
(* walk over the Fan rows, the unixctl dump and all later passes find no   *)
(* field as malloc left it, whatever additions and commits fail.           *)
THEOREM StructsArePolledInTheirPass == Spec => []FreshStructsArePolled
<1>1. InductiveInvariant => FreshStructsArePolled
  BY DEF InductiveInvariant, RegistryInv, PolledOK, FreshStructsArePolled
<1> QED BY <1>1, InvariantHolds, PTL

(* Between reconfigurations every recorded speed is the policy's for the   *)
(* sensors and the override in the replica.                                *)
THEOREM SpeedsObeyPolicy == Spec => []SpeedObeysPolicy
<1>1. InductiveInvariant => SpeedObeysPolicy
  BY DEF InductiveInvariant, SpeedInv, MarksOK, SpeedsOK, SpeedObeysPolicy, Settled,
         Reconfiguring
<1> QED BY <1>1, InvariantHolds, PTL

(* Where i2c writes succeed, so is what the control registers hold.        *)
THEOREM ControlsObeyPolicy == ~I2cErrors => (Spec => []RegistersObeyPolicy)
<1>1. ~I2cErrors /\ InductiveInvariant => RegistersObeyPolicy
  BY DEF InductiveInvariant, SpeedInv, MarksOK, SpeedsOK, RegistersOK,
         RegistersObeyPolicy, Settled, Reconfiguring
<1>2. ~I2cErrors => [](InductiveInvariant => RegistersObeyPolicy)
  <2> SUFFICES ASSUME ~I2cErrors PROVE [](InductiveInvariant => RegistersObeyPolicy)
    OBVIOUS
  <2>1. InductiveInvariant => RegistersObeyPolicy
    BY <1>1
  <2> QED BY <2>1, PTL
<1> QED BY <1>2, InvariantHolds, PTL

-----------------------------------------------------------------------------
(* The LEDs. *)

(* The worst of some statuses is one of them, or uninitialized, and none   *)
(* is worse.                                                               *)
LEMMA WorstIsUpperBound ==
  ASSUME NEW S \in SUBSET CachedStatus
  PROVE  /\ WorstStatus(S) \in CachedStatus
         /\ WorstStatus(S) \in S \/ WorstStatus(S) = FAND_STATUS_UNINITIALIZED
         /\ \A x \in S : x <= WorstStatus(S)
<1> DEFINE T == {FAND_STATUS_UNINITIALIZED} \cup S
<1>1. T \subseteq 0 .. 3 /\ 0 \in T
  BY DEF CachedStatus, FAND_STATUS_UNINITIALIZED
<1>2. \E m \in T : \A y \in T : m >= y
  <2>1. CASE 3 \in T BY <1>1, <2>1
  <2>2. CASE 3 \notin T /\ 2 \in T BY <1>1, <2>2
  <2>3. CASE 3 \notin T /\ 2 \notin T /\ 1 \in T BY <1>1, <2>3
  <2>4. CASE 3 \notin T /\ 2 \notin T /\ 1 \notin T BY <1>1, <2>4
  <2> QED BY <2>1, <2>2, <2>3, <2>4
<1>3. Max(T) \in T /\ \A y \in T : Max(T) >= y
  BY <1>2 DEF Max
<1>4. WorstStatus(S) = Max(T)
  BY DEF WorstStatus
<1>5. \A x \in S : x <= Max(T)
  BY <1>1, <1>3
<1> QED BY <1>1, <1>3, <1>4, <1>5 DEF CachedStatus, FAND_STATUS_UNINITIALIZED

(* The three values of a LED are told apart by the status alone.           *)
LEMMA LedValCases ==
  ASSUME NEW x \in CachedStatus
  PROVE  /\ LedVal(x) = "off" <=> x = 0
         /\ LedVal(x) = "good" <=> x = 1
         /\ LedVal(x) = "fault" <=> x \in {2, 3}
BY DEF LedVal, CachedStatus, FAND_STATUS_UNINITIALIZED, FAND_STATUS_OK

(* A LED that is set from the worst of some statuses shows what the LEDs   *)
(* of the single statuses add up to.                                       *)
LEMMA LedOfWorst ==
  ASSUME NEW S \in SUBSET CachedStatus
  PROVE  LedVal(WorstStatus(S)) = IF \E x \in S : LedVal(x) = "fault" THEN "fault"
                                  ELSE IF \E x \in S : LedVal(x) = "good" THEN "good"
                                  ELSE "off"
<1> DEFINE w == WorstStatus(S)
<1>1. /\ w \in CachedStatus
      /\ w \in S \/ w = 0
      /\ \A x \in S : x <= w
  BY WorstIsUpperBound DEF FAND_STATUS_UNINITIALIZED
<1> HIDE DEF w
<1>2. CachedStatus = {0, 1, 2, 3}
  BY DEF CachedStatus, FAND_STATUS_UNINITIALIZED
<1>3. CASE \E x \in S : LedVal(x) = "fault"
  <2>1. PICK x \in S : x \in {2, 3}
    BY <1>3, LedValCases
  <2>2. w \in {2, 3}
    BY <1>1, <1>2, <2>1
  <2> QED BY <1>1, <1>3, <2>2, LedValCases DEF w
<1>4. CASE (\A x \in S : LedVal(x) # "fault") /\ \E x \in S : LedVal(x) = "good"
  <2>1. 1 \in S /\ 2 \notin S /\ 3 \notin S
    BY <1>2, <1>4, LedValCases
  <2>2. w = 1
    BY <1>1, <1>2, <2>1
  <2> QED BY <1>1, <1>4, <2>2, LedValCases DEF w
<1>5. CASE \A x \in S : LedVal(x) # "fault" /\ LedVal(x) # "good"
  <2>1. S \subseteq {0}
    BY <1>2, <1>5, LedValCases
  <2>2. w = 0
    BY <1>1, <2>1
  <2> QED BY <1>1, <1>5, <2>2, LedValCases DEF w
<1> QED BY <1>3, <1>4, <1>5

(* Where the writes succeed, fand_set_fanleds sets all LEDs of s, and no   *)
(* other.                                                                  *)
LEMMA SetFanLedsKeepsWorst ==
  ASSUME ~I2cErrors, SystemLedIsWorst, NEW s \in Subsystem, NEW status,
         \A f \in FansIn(s) : status[f] \in CachedStatus,
         fand_set_fanleds(s, status)
  PROVE  SystemLedIsWorst'
<1>1. fan_led' = [l \in HasLed |-> IF l \in Leds(s) THEN LedVal(LedStatus(l, status))
                                                    ELSE fan_led[l]]
  BY DEF fand_set_fanleds, Written
<1> SUFFICES ASSUME NEW t \in Subsystem \cap HasLed, FrusIn(t) \subseteq HasLed
             PROVE  LET shown == {fan_led'[u] : u \in FrusIn(t)}
                    IN  fan_led'[t] = IF "fault" \in shown THEN "fault"
                                      ELSE IF "good" \in shown THEN "good" ELSE "off"
  BY DEF SystemLedIsWorst
<1>2. t \notin Fru /\ FrusIn(t) \subseteq Fru
  BY HardwareDescription DEF FrusIn
<1>3. CASE t = s
  <2> DEFINE S == {FruStatus(u, status) : u \in FrusIn(s)}
  <2>1. \A u \in FrusIn(s) : FruStatus(u, status) \in CachedStatus
    <3> TAKE u \in FrusIn(s)
    <3>1. FansOf(u) \subseteq FansIn(s)
      BY DEF FansOf, FansIn, FrusIn
    <3>2. {status[f] : f \in FansOf(u)} \in SUBSET CachedStatus
      BY <3>1
    <3> QED BY <3>2, WorstIsUpperBound DEF FruStatus
  <2>2. LedVal(WorstStatus(S)) = IF \E x \in S : LedVal(x) = "fault" THEN "fault"
                                 ELSE IF \E x \in S : LedVal(x) = "good" THEN "good"
                                 ELSE "off"
    BY <2>1, LedOfWorst
  <2>3. fan_led'[s] = LedVal(WorstStatus(S))
    BY <1>1, <1>2, <1>3 DEF Leds, LedStatus
  <2>4. \A u \in FrusIn(s) : fan_led'[u] = LedVal(FruStatus(u, status))
    BY <1>1, <1>2, <1>3 DEF Leds, LedStatus
  <2>5. \A v : v \in {fan_led'[u] : u \in FrusIn(s)} <=> \E x \in S : LedVal(x) = v
    BY <2>4
  <2> QED BY <1>3, <2>2, <2>3, <2>5
<1>4. CASE t # s
  <2>1. t \notin Leds(s) /\ \A u \in FrusIn(t) : u \notin Leds(s)
    BY <1>2, <1>4, HardwareDescription DEF Leds, FrusIn
  <2>2. fan_led'[t] = fan_led[t] /\ \A u \in FrusIn(t) : fan_led'[u] = fan_led[u]
    BY <1>1, <2>1
  <2>3. {fan_led'[u] : u \in FrusIn(t)} = {fan_led[u] : u \in FrusIn(t)}
    BY <2>2
  <2> QED BY <2>2, <2>3 DEF SystemLedIsWorst
<1> QED BY <1>3, <1>4

(* The LEDs are set from the statuses that the structs hold.               *)
LEMMA ConfigureKeepsWorst ==
  ASSUME ~I2cErrors, SystemLedIsWorst, RegistryInv, NEW s \in Known, subsystem_data[s].valid,
         NEW highest, NEW override, Configure(s, highest, override)
  PROVE  SystemLedIsWorst'
<1> DEFINE status == [f \in subsystem_data[s].fans |-> locl_fan[f].status]
<1>1. /\ s \in Subsystem /\ subsystem_data[s].fans = FansIn(s)
      /\ fand_set_fanleds(s, status)
  BY DEF RegistryInv, RegistryConsistent, Known, Configure
<1>2. ASSUME NEW f \in FansIn(s)
      PROVE  status[f] \in CachedStatus
  <2>1. f \in Fan /\ locl_fan[f] # NULL
    BY <1>1, <1>2 DEF RegistryInv, RegistryConsistent, FansOfSubsystems, FansIn
  <2>2. locl_fan[f] \in LoclFan
    BY <2>1 DEF RegistryInv, TypeOK
  <2>3. locl_fan[f].status \in CachedStatus
    BY <2>2 DEF LoclFan, PolledFan, Malloced, CachedStatus, FAND_STATUS_UNINITIALIZED,
                FAND_STATUS_FAULT
  <2> QED BY <1>1, <2>3
<1> HIDE DEF status
<1> QED BY <1>1, <1>2, SetFanLedsKeepsWorst

(* Where i2c writes succeed, a subsystem's LED shows the worst of its      *)
(* FRUs' LEDs, whatever garbage a struct fresh from malloc shows.          *)
THEOREM SystemLedsShowWorst == ~I2cErrors => (Spec => []SystemLedIsWorst)
<1> SUFFICES ASSUME ~I2cErrors PROVE Spec => []SystemLedIsWorst
  OBVIOUS
<1>1. Init => SystemLedIsWorst
  <2> SUFFICES ASSUME Init PROVE SystemLedIsWorst
    OBVIOUS
  <2>1. \A l \in HasLed : fan_led[l] = "off"
    BY DEF Init, HardwareInit
  <2> QED BY <2>1 DEF SystemLedIsWorst
<1>2. ASSUME ~I2cErrors, InductiveInvariant, SystemLedIsWorst, [Next]_vars
      PROVE  SystemLedIsWorst'
  <2>1. RegistryInv
    BY <1>2 DEF InductiveInvariant
  <2>2. CASE UNCHANGED fan_led
    BY <1>2, <2>2 DEF SystemLedIsWorst
  <2>3. ASSUME NEW s \in Subsystem, ReconfigureKnown(s)
        PROVE  SystemLedIsWorst'
    <3>1. CASE subsystem_data[s].valid
      BY <1>2, <2>1, <2>3, <3>1, ConfigureKeepsWorst DEF ReconfigureKnown, ConfigureFromRow
    <3>2. CASE ~subsystem_data[s].valid
      BY <2>2, <2>3, <3>2 DEF ReconfigureKnown, hwOutputs
    <3> QED BY <3>1, <3>2
  <2>4. CASE ReconfigureAdded \/ ReconfigureFreed
    <3>1. cfg \in Known /\ subsystem_data[cfg].valid
      BY <2>1, <2>4 DEF RegistryInv, ControlOK, ReconfigureAdded, ReconfigureFreed
    <3>2. PICK highest, override : Configure(cfg, highest, override)
      BY <2>4 DEF ReconfigureAdded, ReconfigureFreed, ConfigureFromRow
    <3> QED BY <1>2, <2>1, <3>1, <3>2, ConfigureKeepsWorst
  <2>5. CASE Environment
    BY <2>2, <2>5 DEF Environment, SubsystemAppears, SubsystemGoes, HwDescDirIsSet,
         SensorsReport, vtysh_ovsdb_fan_speed_set, WriteSubsystem, DaemonRowAppears,
         FanInputChanges, FruPluggedOrPulled, hwOutputs
  <2>6. CASE \/ Start \/ FandRunWithoutLock \/ FandRunWithLock
             \/ \E t \in Subsystem : AddSubsystemFails(t) \/ AddSubsystem(t)
             \/ FinishAddSubsystem \/ RemoveUnmarked \/ (\E f \in Fan : PollFan(f))
             \/ WalkFanRows \/ WalkStrayRow
             \/ (\E ok \in CommitOutcomes : CommitStatus(ok)) \/ Wait
             \/ ops_fand_exit \/ Crash \/ UNCHANGED vars
    BY <2>2, <2>6
       DEF Start, FandRunWithoutLock, FandRunWithLock, FandRunReconfigure, FandRunUnchanged,
           AddSubsystemFails, AddSubsystem, FinishAddSubsystem, RemoveUnmarked, PollFan,
           WalkFanRows, WalkStrayRow, CommitStatus, Wait, ops_fand_exit, Crash, Dies, vars,
           hwOutputs
  <2> QED BY <1>2, <2>3, <2>4, <2>5, <2>6 DEF Next, Daemon
<1>3. InductiveInvariant /\ SystemLedIsWorst /\ [Next]_vars => SystemLedIsWorst'
  BY <1>2
<1> QED BY <1>1, <1>3, InvariantHolds, PTL DEF Spec

-----------------------------------------------------------------------------
(* The walk over the Fan rows. *)

(* A Fan row of the replica belongs to a row that names a description with *)
(* that fan.                                                               *)
LEMMA FanRowHasOwner ==
  ASSUME InductiveInvariant, NEW f \in FanRows(idl)
  PROVE  \E s \in Rows(idl) : f \in FansIn(s) /\ Describes(idl.subsystem[s], s)
<1>1. PICK s \in Rows(idl) : f \in FansIn(s) /\ idl.subsystem[s].hw_desc_dir
  BY DEF InductiveInvariant, RowInv, DescribedOK, RowsDescribed
<1>2. FruOf[f] \in FrusIn(s)
  BY <1>1, HardwareDescription DEF FansIn, FrusIn
<1> QED BY <1>1, <1>2 DEF Describes

(* A marked subsystem holds all its fans.                                  *)
LEMMA MarkedHoldsFans ==
  ASSUME InductiveInvariant, NEW s \in Known, subsystem_data[s].marked
  PROVE  subsystem_data[s].fans = FansIn(s) /\ FansIn(s) \subseteq fan_data
BY DEF InductiveInvariant, SpeedInv, MarksOK, RegistryInv, RegistryConsistent,
       FansOfSubsystems

(* The walk after a sweep: the owner of the row has been marked in this    *)
(* pass.                                                                   *)
LEMMA SweepLeavesNoStray ==
  ASSUME \A s, t \in Subsystem : s = t, ~YamlErrors,
         InductiveInvariant, RemoveUnmarked, NEW f \in FanRows(idl)
  PROVE  f \in fan_data'
<1>1. PICK s \in Rows(idl) : f \in FansIn(s) /\ Describes(idl.subsystem[s], s)
  BY FanRowHasOwner
<1>2. s \in Subsystem /\ s # NULL /\ pc = "reconfigure" /\ todo = {} /\ cfg = NULL
  BY NullIsNoValue DEF RemoveUnmarked, Rows, InductiveInvariant, RegistryInv, ControlOK
<1>3. s \in Known /\ subsystem_data[s].marked
  <2>1. CASE idl_changed
    BY <1>2, <2>1 DEF InductiveInvariant, RowInv, SweepOK, Known
  <2>2. CASE ~idl_changed
    BY <1>1, <1>2, <2>2 DEF InductiveInvariant, SpeedInv, VisitedOK
  <2> QED BY <2>1, <2>2
<1>4. f \in fan_data
  BY <1>1, <1>3, MarkedHoldsFans
<1>5. Unmarked = {}
  BY <1>2, <1>3 DEF Unmarked, Known
<1> QED BY <1>4, <1>5 DEF RemoveUnmarked, Freed, FansOfSubsystems

(* The walk of a pass with nothing to reconfigure: the owner of the row    *)
(* was there in the pass before.                                           *)
LEMMA QuietPassLeavesNoStray ==
  ASSUME ~YamlErrors, InductiveInvariant, FandRunUnchanged, NEW f \in FanRows(idl')
  PROVE  f \in fan_data'
<1>1. ~idl_changed /\ ~Alerts(idl, db) /\ idl' = db /\ fan_data' = fan_data
  BY DEF FandRunUnchanged, Refreshed, tables
<1>2. f \in FanRows(idl)
  BY <1>1 DEF Alerts
<1>3. PICK s \in Rows(idl) : f \in FansIn(s) /\ Describes(idl.subsystem[s], s)
  BY <1>2, FanRowHasOwner
<1>4. s \in Subsystem /\ s # NULL /\ todo = {} /\ cfg = NULL
  BY NullIsNoValue DEF FandRunUnchanged, Rows, InductiveInvariant, RegistryInv, ControlOK,
                       Reconfiguring
<1>5. s \in Known /\ subsystem_data[s].marked
  BY <1>1, <1>3, <1>4 DEF InductiveInvariant, SpeedInv, VisitedOK
<1> QED BY <1>1, <1>3, <1>5, MarkedHoldsFans

(* Where descriptions load and there is one subsystem, every Fan row that  *)
(* the walk meets has its entry in fan_data: those that an earlier process *)
(* left, and those of a row that others replaced in mid-pass.              *)
THEOREM NoFanRowIsStray ==
  (\A s, t \in Subsystem : s = t) /\ ~YamlErrors => (Spec => []NoStrayFanRow)
<1> SUFFICES ASSUME \A s, t \in Subsystem : s = t, ~YamlErrors
             PROVE  Spec => []NoStrayFanRow
  OBVIOUS
<1>1. Init => NoStrayFanRow
  BY DEF Init, NoStrayFanRow
<1>2. ASSUME \A s, t \in Subsystem : s = t, ~YamlErrors,
             InductiveInvariant, NoStrayFanRow, [Next]_vars
      PROVE  NoStrayFanRow'
  <2>1. CASE RemoveUnmarked
    <3>1. idl' = idl
      BY <2>1 DEF RemoveUnmarked
    <3> QED BY <1>2, <2>1, <3>1, SweepLeavesNoStray DEF NoStrayFanRow, StrayRows
  <2>2. CASE FandRunUnchanged
    BY <1>2, <2>2, QuietPassLeavesNoStray DEF NoStrayFanRow, StrayRows
  <2>3. CASE UNCHANGED <<idl, pc, fan_data>>
    BY <1>2, <2>3 DEF NoStrayFanRow, StrayRows, FanRows
  <2>4. CASE Environment
    BY <1>2, <2>3, <2>4, EnvironmentStep DEF InductiveInvariant, RegistryInv, tables
  <2>5. CASE (\E f \in Fan : PollFan(f)) \/ UNCHANGED vars
    BY <2>3, <2>5 DEF PollFan, vars, tables
  <2>6. CASE \/ Start \/ Wait \/ FandRunWithoutLock \/ FandRunReconfigure
             \/ (\E s \in Subsystem : ReconfigureKnown(s) \/ AddSubsystemFails(s) \/ AddSubsystem(s))
             \/ FinishAddSubsystem \/ ReconfigureAdded \/ ReconfigureFreed
             \/ WalkFanRows \/ WalkStrayRow \/ (\E ok \in CommitOutcomes : CommitStatus(ok))
             \/ ops_fand_exit \/ Crash
    <3>1. pc' # "poll"
      BY <2>6 DEF Start, Wait, FandRunWithoutLock, FandRunReconfigure, ReconfigureKnown,
           AddSubsystemFails, AddSubsystem, FinishAddSubsystem, ReconfigureAdded,
           ReconfigureFreed, WalkFanRows, WalkStrayRow, CommitStatus, ops_fand_exit, Crash, Dies
    <3> QED BY <3>1 DEF NoStrayFanRow
  <2> QED BY <1>2, <2>1, <2>2, <2>4, <2>5, <2>6 DEF Next, Daemon, FandRunWithLock
<1>3. InductiveInvariant /\ NoStrayFanRow /\ [Next]_vars => NoStrayFanRow'
  BY <1>2
<1> QED BY <1>1, <1>3, InvariantHolds, PTL DEF Spec

=============================================================================
