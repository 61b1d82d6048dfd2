--------------------------- MODULE FandStepProofs ---------------------------
(***************************************************************************)
(* What a step of Fand may never do, what ops-fand/dump tells of it, and   *)
(* that each is a step that FanControl allows, for every hardware          *)
(* description, every set of rows and every pattern of failures.           *)
(***************************************************************************)
EXTENDS FandControl, FandDump, FandProofs

-----------------------------------------------------------------------------
(* The writes of the daemon to the database. *)

(* The server carries out the transaction of fand_read_status, or that of  *)
(* add_subsystem, in CommitStatus and FinishAddSubsystem, or before a      *)
(* Crash.                                                                  *)
Publishes == pc = "commit" /\ db' = WithStatusPublished
Adds      == pc = "adding" /\ db' = WithFansAdded(cfg)

(* Every transaction of fand_read_status sets measured values, in every    *)
(* Fan row there is, and adds no row.                                      *)
LEMMA PublishesMeasurements ==
  ASSUME InductiveInvariant, Publishes
  PROVE  \A f \in FanRows(db') : f \in FanRows(db) /\ db'.fan[f].rpm \in Nat
<1>1. \A f \in FanRows(db) : f \in FanRows(idl) /\ f \in Fan
  BY DEF Publishes, InductiveInvariant, FanRowsOK, FanRows
<1>2. \A f \in FanRows(idl) : locl_fan[f] \in PolledFan
  BY DEF Publishes, InductiveInvariant, RegistryInv, ControlOK, PolledOK, Polled, StrayRows
<1>3. \A f \in FanRows(db') : f \in FanRows(db)
  BY <1>1 DEF Publishes, WithStatusPublished, FanRows
<1>4. \A f \in FanRows(db') : db'.fan[f] = RowFromCache(f)
  BY <1>1, <1>3 DEF Publishes, WithStatusPublished
<1>5. \A f \in FanRows(db') : RowFromCache(f).rpm \in Nat
  BY <1>1, <1>2, <1>3 DEF RowFromCache, PolledFan
<1> QED BY <1>3, <1>4, <1>5

(* The transaction of add_subsystem leaves cur_hw alone and keeps the rpm  *)
(* of the Fan rows that stay.                                              *)
LEMMA AdditionKeepsRpm ==
  ASSUME InductiveInvariant, Adds
  PROVE  /\ db'.cur_hw = db.cur_hw
         /\ \A f \in FanRows(db) \cap FanRows(db') : db'.fan[f].rpm = db.fan[f].rpm
<1>1. db' = WithFansAdded(cfg)
  BY DEF Adds
<1>2. \A f \in FanRows(db) : f \in Fan /\ f \in FanRows(idl) /\ idl.fan[f] = db.fan[f]
  BY DEF Adds, InductiveInvariant, FanRowsOK, FanRows
<1>3. \A f \in FanRows(db) : NewRow(f).rpm = db.fan[f].rpm
  BY <1>2 DEF NewRow
<1>4. CASE db' = db
  BY <1>4
<1>5. CASE db' # db
  <2> DEFINE subs == [db.subsystem EXCEPT ![cfg] = [@ EXCEPT !.fans = FansIn(cfg)]]
             fan  == [f \in Fan |-> IF f \in FansIn(cfg) THEN NewRow(f) ELSE db.fan[f]]
             d    == [db EXCEPT !.fan = fan]
  <2>1. db \in Database
    BY DEF InductiveInvariant, RegistryInv, TypeOK
  <2>2. db' = WithSubsystems(d, subs)
    BY <1>1, <1>5 DEF WithFansAdded
  <2>3. d.cur_hw = db.cur_hw /\ d.fan = fan
    BY <2>1 DEF Database
  <2>4. db'.cur_hw = db.cur_hw
    BY <2>2, <2>3 DEF WithSubsystems
  <2>5. \A f \in Fan : db'.fan[f] \in {NULL, fan[f]}
    BY <2>2, <2>3 DEF WithSubsystems
  <2>6. \A f \in FanRows(db) \cap FanRows(db') : db'.fan[f] = fan[f] /\ f \in Fan
    BY <2>5 DEF FanRows
  <2> QED BY <1>3, <2>4, <2>6
<1> QED BY <1>4, <1>5

(* Every other step of the daemon, and every other crash, writes nothing   *)
(* to the database.                                                        *)
LEMMA OtherStepsWriteNothing ==
  ASSUME [Next]_vars, ~Environment, ~Publishes, ~Adds
  PROVE  UNCHANGED db
<1>1. CASE FinishAddSubsystem \/ \E ok \in CommitOutcomes : CommitStatus(ok)
  BY <1>1 DEF FinishAddSubsystem, CommitStatus, Publishes, Adds
<1>2. CASE Crash \/ ops_fand_exit \/ UNCHANGED vars
  BY <1>2 DEF Crash, Publishes, Adds, ops_fand_exit, vars
<1>3. CASE Daemon /\ ~FinishAddSubsystem /\ \A ok \in CommitOutcomes : ~CommitStatus(ok)
  BY <1>3 DEF Daemon, Start, FandRunWithoutLock, FandRunWithLock, FandRunReconfigure,
       FandRunUnchanged, ReconfigureKnown, AddSubsystemFails, AddSubsystem,
       ReconfigureAdded, ReconfigureFreed, RemoveUnmarked, PollFan, WalkFanRows,
       WalkStrayRow, Wait
<1> QED BY <1>1, <1>2, <1>3 DEF Next

(* A transaction of the daemon makes cur_hw 1 only when each Fan row has a *)
(* measured rpm by then, failed transactions and added rows included.      *)
THEOREM ReadinessFollowsPolling == Spec => ReadyImpliesPolled
<1>1. ASSUME InductiveInvariant, [Next]_vars, db'.cur_hw = 1, db.cur_hw # 1,
             NEW f \in FanRows(db')
      PROVE  db'.fan[f].rpm # NULL
  <2>1. CASE Environment
    BY <1>1, <2>1, EnvironmentDeletes DEF InductiveInvariant, RegistryInv
  <2>2. CASE Adds
    BY <1>1, <2>2, AdditionKeepsRpm
  <2>3. CASE Publishes
    BY <1>1, <2>3, PublishesMeasurements, NullIsNoValue
  <2> QED BY <1>1, <2>1, <2>2, <2>3, OtherStepsWriteNothing
<1>2. ASSUME InductiveInvariant, [Next]_vars
      PROVE  [db'.cur_hw = 1 /\ db.cur_hw # 1
                => \A f \in FanRows(db') : db'.fan[f].rpm # NULL]_vars
  BY <1>1, <1>2
<1> QED BY <1>2, InvariantHolds, PTL DEF Spec, ReadyImpliesPolled

(* A measured rpm stays in its Fan row as long as the row lives: the       *)
(* addition of a fan that has a row already takes over the row's rpm.      *)
THEOREM RpmStays == Spec => RpmIsNeverLost
<1>1. ASSUME InductiveInvariant, [Next]_vars, NEW f \in FanRows(db) \cap FanRows(db'),
             db.fan[f].rpm # NULL
      PROVE  db'.fan[f].rpm # NULL
  <2>1. CASE Environment
    BY <1>1, <2>1, EnvironmentDeletes DEF InductiveInvariant, RegistryInv, FanRows
  <2>2. CASE Adds
    BY <1>1, <2>2, AdditionKeepsRpm
  <2>3. CASE Publishes
    BY <1>1, <2>3, PublishesMeasurements, NullIsNoValue
  <2> QED BY <1>1, <2>1, <2>2, <2>3, OtherStepsWriteNothing
<1>2. ASSUME InductiveInvariant, [Next]_vars
      PROVE  [\A f \in FanRows(db) \cap FanRows(db') :
                db.fan[f].rpm # NULL => db'.fan[f].rpm # NULL]_vars
  BY <1>1, <1>2
<1> QED BY <1>2, InvariantHolds, PTL DEF Spec, RpmIsNeverLost

-----------------------------------------------------------------------------
(* The writes of the daemon to the control registers. *)

(* One sensor at the maximum suffices.                                     *)
LEMMA HottestIsMax ==
  ASSUME NEW readings, "max" \in readings
  PROVE  HighestFanState(readings) = FAND_SPEED_MAX
BY HighestIsHottest DEF IsHottestRank, Rank, FAND_SPEED_MAX

(* No override lowers the maximum.                                         *)
LEMMA MaxBeatsOverride ==
  ASSUME NEW override
  PROVE  CommandedSpeed(FAND_SPEED_MAX, override) = FAND_SPEED_MAX
BY DEF CommandedSpeed, FAND_SPEED_MAX, FAND_SPEED_NONE

(* A register keeps its setting unless the subsystem it belongs to is      *)
(* configured, or is the one being added.                                  *)
LEMMA ControlIsKept ==
  ASSUME InductiveInvariant, [Next]_vars,
         NEW s \in Subsystem, NEW c \in SpeedControls(s), s # cfg,
         ~ReconfigureKnown(s)
  PROVE  fan_speed_control'[c] = fan_speed_control[c]
<1>1. TypeOK /\ HardwareTypeOK
  BY DEF InductiveInvariant, RegistryInv, TypeOK
<1>2. ASSUME NEW t \in Subsystem, t # s, NEW speed \in RealSpeed, WriteFanSpeed(t, speed)
      PROVE  fan_speed_control'[c] = fan_speed_control[c]
  <2>1. c \in HasSpeedControl \ SpeedControls(t)
    BY <1>2, ControlsDisjoint, ControlsOwned
  <2> QED BY <1>1, <1>2, <2>1, WriteFanSpeedStep
<1>3. ASSUME NEW t \in Subsystem, t # s, NEW highest \in FanSpeed, NEW override \in FanSpeed,
             WriteFanSpeed(t, CommandedSpeed(highest, override))
      PROVE  fan_speed_control'[c] = fan_speed_control[c]
  BY <1>2, <1>3, CommandedIsSpeed
<1>4. ASSUME NEW t \in Subsystem, t # s, ConfigureFromRow(t)
      PROVE  fan_speed_control'[c] = fan_speed_control[c]
  BY <1>3, <1>4, HighestIsSpeed, EnumIsSpeed, RealIsSpeed DEF ConfigureFromRow, Configure
<1>5. pc \in {"adding", "added", "freed"} =>
        cfg \in Subsystem /\ subsystem_data[cfg] \in LoclSubsystem
  BY <1>1 DEF InductiveInvariant, RegistryInv, ControlOK, Known, TypeOK
<1>6. CASE UNCHANGED fan_speed_control
  BY <1>6
<1>7. CASE \E t \in Subsystem : ReconfigureKnown(t)
  <2>1. PICK t \in Subsystem : ReconfigureKnown(t)
    BY <1>7
  <2> QED BY <1>4, <2>1 DEF ReconfigureKnown, hwOutputs
<1>8. CASE FinishAddSubsystem
  <2>1. subsystem_data[cfg].fan_speed \in FanSpeed
        /\ subsystem_data[cfg].fan_speed_override \in FanSpeed
    BY <1>5, <1>8 DEF FinishAddSubsystem, LoclSubsystem
  <2> QED BY <1>3, <1>5, <1>8, <2>1 DEF FinishAddSubsystem
<1>9. CASE ReconfigureAdded
  BY <1>4, <1>5, <1>9 DEF ReconfigureAdded
<1>10. CASE ReconfigureFreed
  BY <1>3, <1>5, <1>10, RealIsSpeed DEF ReconfigureFreed, Configure
<1>11. CASE Environment
  BY <1>1, <1>6, <1>11, EnvironmentStep
<1>12. CASE \/ Start \/ FandRunWithoutLock \/ FandRunWithLock
            \/ \E t \in Subsystem : AddSubsystemFails(t) \/ AddSubsystem(t)
            \/ RemoveUnmarked \/ (\E f \in Fan : PollFan(f)) \/ WalkFanRows \/ WalkStrayRow
            \/ (\E ok \in CommitOutcomes : CommitStatus(ok)) \/ Wait
            \/ ops_fand_exit \/ Crash \/ UNCHANGED vars
  BY <1>6, <1>12
     DEF Start, FandRunWithoutLock, FandRunWithLock, FandRunReconfigure, FandRunUnchanged,
         AddSubsystemFails, AddSubsystem, RemoveUnmarked, PollFan, WalkFanRows, WalkStrayRow,
         CommitStatus, Wait, ops_fand_exit, Crash, Dies, vars, hwOutputs
<1> QED BY <1>7, <1>8, <1>9, <1>10, <1>11, <1>12 DEF Next, Daemon

(* Fans that run at the maximum are not slowed by a step that sees an      *)
(* over-temperature before and after, whatever the override, the other     *)
(* subsystems and the failed writes; an addition in progress excepted.     *)
THEOREM HotFansAreNotSlowed == Spec => NeverSlowsWhileHot
<1>1. ASSUME InductiveInvariant, [Next]_vars, NEW s \in Subsystem, NEW c \in SpeedControls(s),
             Overheated(s, idl), fan_speed_control[c] = FAND_SPEED_MAX, s # cfg
      PROVE  fan_speed_control'[c] = FAND_SPEED_MAX
  <2>1. CASE ReconfigureKnown(s)
    <3>1. CASE subsystem_data[s].valid
      <4>1. HighestFanState(idl.subsystem[s].temp_sensors) = FAND_SPEED_MAX
        BY <1>1, HottestIsMax DEF Overheated
      <4>2. WriteFanSpeed(s, FAND_SPEED_MAX)
        BY <2>1, <3>1, <4>1, MaxBeatsOverride
           DEF ReconfigureKnown, ConfigureFromRow, Configure
      <4>3. PICK ok : fan_speed_control' = [x \in HasSpeedControl |->
                        IF x \in ok THEN HwSpeedVal(FAND_SPEED_MAX) ELSE fan_speed_control[x]]
        BY <4>2 DEF WriteFanSpeed
      <4>4. HwSpeedVal(FAND_SPEED_MAX) = FAND_SPEED_MAX
        BY DEF HwSpeedVal
      <4> QED BY <1>1, <4>3, <4>4, ControlsOwned
    <3>2. CASE ~subsystem_data[s].valid
      BY <1>1, <2>1, <3>2 DEF ReconfigureKnown, hwOutputs
    <3> QED BY <3>1, <3>2
  <2>2. CASE ~ReconfigureKnown(s)
    BY <1>1, <2>2, ControlIsKept
  <2> QED BY <2>1, <2>2
<1>2. ASSUME InductiveInvariant, [Next]_vars
      PROVE  [\A s \in Subsystem : \A c \in SpeedControls(s) :
                /\ Overheated(s, idl) /\ Overheated(s, idl')
                /\ fan_speed_control[c] = FAND_SPEED_MAX
                /\ fan_speed_control'[c] # FAND_SPEED_MAX
                => cfg = s]_vars
  BY <1>1, <1>2
<1> QED BY <1>2, InvariantHolds, PTL DEF Spec, NeverSlowsWhileHot

-----------------------------------------------------------------------------
(* The dump. *)

(* The policy, applied to the two strings printed, makes the speed that is *)
(* recorded in a marked struct.                                            *)
LEMMA DumpExplainsRecord ==
  ASSUME InductiveInvariant, NEW s \in Known, subsystem_data[s].marked
  PROVE  LET d == fand_unixctl_dump[s]
         IN  \/ ObeysPolicy(subsystem_data[s].speed, {d.fan_speed}, d.fan_speed_override)
             \/ /\ d.fan_speed_override = "normal"
                /\ ObeysPolicy(subsystem_data[s].speed, {d.fan_speed}, NULL)
<1> DEFINE h == subsystem_data[s].fan_speed
           e == subsystem_data[s].fan_speed_override
           heat     == fan_speed_enum_to_string(h)
           override == fan_speed_enum_to_string(e)
<1>1. /\ fand_unixctl_dump[s].fan_speed = heat
      /\ fand_unixctl_dump[s].fan_speed_override = override
  BY DEF fand_unixctl_dump
<1>2. /\ h \in 0 .. 4 /\ e \in -1 .. 4
      /\ subsystem_data[s].speed = CommandedSpeed(h, e)
  BY DEF InductiveInvariant, RowInv, ConfiguredOK, RegistryInv, TypeOK, Known, LoclSubsystem,
         RealSpeed, FanSpeed, FAND_SPEED_NONE, FAND_SPEED_SLOW, FAND_SPEED_MAX
<1> HIDE DEF h, e
<1>3. NULL \notin DOMAIN Rank
  <2>1. DOMAIN Rank = SpeedName
    BY DEF Rank, SpeedName
  <2> QED BY <2>1, NullIsNoValue
<1>4. CASE e # FAND_SPEED_NONE
  <2>1. Speed({heat}, override) = subsystem_data[s].speed
    BY <1>2, <1>4, SpeedFromNames
  <2> HIDE DEF heat, override
  <2>2. ObeysPolicy(subsystem_data[s].speed, {heat}, override)
    BY <2>1, SpeedIsPolicy
  <2> QED BY <1>1, <2>2
<1>5. CASE e = FAND_SPEED_NONE
  <2>1. Speed({heat}, NULL) = subsystem_data[s].speed
    BY <1>2, <1>3, <1>5, SpeedFromNames
  <2>2. override = "normal"
    BY <1>5, NameOfSpeed
  <2> HIDE DEF heat, override
  <2>3. ObeysPolicy(subsystem_data[s].speed, {heat}, NULL)
    BY <2>1, SpeedIsPolicy
  <2> QED BY <1>1, <2>2, <2>3
<1> QED BY <1>4, <1>5

(* Where i2c writes succeed, each register of a subsystem dumped holds     *)
(* what the policy makes of the two strings printed, also between a change *)
(* of the replica and the reconfiguration it causes.                       *)
THEOREM DumpAccountsForSpeeds == ~I2cErrors => (Spec => []DumpExplainsSpeeds)
<1>1. ~I2cErrors /\ InductiveInvariant => DumpExplainsSpeeds
  <2> SUFFICES ASSUME ~I2cErrors, InductiveInvariant, Dumped,
                      NEW s \in Known, NEW c \in SpeedControls(s)
               PROVE  LET d == fand_unixctl_dump[s]
                      IN  \/ ObeysPolicy(fan_speed_control[c], {d.fan_speed},
                                         d.fan_speed_override)
                          \/ /\ d.fan_speed_override = "normal"
                             /\ ObeysPolicy(fan_speed_control[c], {d.fan_speed}, NULL)
    BY DEF DumpExplainsSpeeds
  <2>1. subsystem_data[s].marked
    BY DEF Dumped, InductiveInvariant, SpeedInv, MarksOK, Reconfiguring
  <2>2. fan_speed_control[c] = subsystem_data[s].speed
    BY <2>1 DEF InductiveInvariant, SpeedInv, RegistersOK
  <2> QED BY <2>1, <2>2, DumpExplainsRecord
<1>2. ~I2cErrors => [](InductiveInvariant => DumpExplainsSpeeds)
  <2> SUFFICES ASSUME ~I2cErrors PROVE [](InductiveInvariant => DumpExplainsSpeeds)
    OBVIOUS
  <2>1. InductiveInvariant => DumpExplainsSpeeds
    BY <1>1
  <2> QED BY <2>1, PTL
<1> QED BY <1>2, InvariantHolds, PTL

(* What the dump prints of a fan is what the walk over the Fan rows would  *)
(* write of it.                                                            *)
LEMMA DumpIsRow ==
  ASSUME NEW s \in Known, NEW f \in subsystem_data[s].fans,
         NEW column \in {"rpm", "direction", "status"}
  PROVE  fand_unixctl_dump[s].fans[f][column] = RowFromCache(f)[column]
<1>1. fand_unixctl_dump[s].fans[f] = DumpedFan(f)
  BY DEF fand_unixctl_dump
<1> QED BY <1>1 DEF DumpedFan, RowFromCache

(* When the walk or its commit is over, each row holds what the cache does.*)
LEMMA RowsAreCached ==
  ASSUME InductiveInvariant, CommitStatus(TRUE) \/ (WalkFanRows /\ pc' = "unixctl"),
         NEW f \in FanRows(db')
  PROVE  db'.fan[f] = RowFromCache(f)
<1>1. pc \notin {"down", "run"} /\ f \in Fan
  BY DEF CommitStatus, WalkFanRows, FanRows
<1>2. \A g \in FanRows(db) : idl.fan[g] = db.fan[g]
  BY <1>1 DEF InductiveInvariant, FanRowsOK
<1>3. CASE CommitStatus(TRUE)
  <2>1. db' = WithStatusPublished
    BY <1>3 DEF CommitStatus
  <2>2. f \in FanRows(db)
    BY <1>1, <2>1 DEF WithStatusPublished, FanRows
  <2>3. f \in FanRows(idl)
    BY <1>2, <2>2 DEF FanRows
  <2> QED BY <1>1, <2>1, <2>2, <2>3 DEF WithStatusPublished
<1>4. CASE WalkFanRows /\ pc' = "unixctl"
  <2>1. f \in FanRows(db) /\ db' = db
    BY <1>4 DEF WalkFanRows
  <2>2. f \in FanRows(idl) /\ idl.fan[f] = db.fan[f]
    BY <1>2, <2>1 DEF FanRows
  <2>3. ~RowDiffers(f)
    BY <1>4, <2>2 DEF WalkFanRows
  <2> QED BY <2>1, <2>2, <2>3 DEF RowDiffers
<1> QED BY <1>3, <1>4

(* After a pass whose commit was carried out, or that had nothing to       *)
(* commit, the dump and the Fan table tell the same of each fan.           *)
THEOREM DumpAgreesWithDatabase == Spec => DumpTellsWhatIsPublished
<1>1. ASSUME InductiveInvariant, CommitStatus(TRUE) \/ WalkFanRows, Dumped',
             NEW s \in Known, NEW f \in FanRows(db') \cap subsystem_data[s].fans,
             NEW column \in {"rpm", "direction", "status"}
      PROVE  fand_unixctl_dump'[s].fans[f][column] = db'.fan[f][column]
  <2>1. UNCHANGED <<subsystem_data, locl_fan>>
    BY <1>1 DEF CommitStatus, WalkFanRows, tables
  <2>2. fand_unixctl_dump' = fand_unixctl_dump
    BY <2>1 DEF fand_unixctl_dump, DumpedFan, Known
  <2>3. db'.fan[f] = RowFromCache(f)
    BY <1>1, RowsAreCached DEF Dumped
  <2> QED BY <1>1, <2>2, <2>3, DumpIsRow
<1>2. ASSUME InductiveInvariant, [Next]_vars
      PROVE  [(CommitStatus(TRUE) \/ WalkFanRows) /\ Dumped' =>
                \A s \in Known : \A f \in FanRows(db') \cap subsystem_data[s].fans :
                  \A column \in {"rpm", "direction", "status"} :
                    fand_unixctl_dump'[s].fans[f][column] = db'.fan[f][column]]_vars
  BY <1>1, <1>2
<1> QED BY <1>2, InvariantHolds, PTL DEF Spec, DumpTellsWhatIsPublished


-----------------------------------------------------------------------------
(* The refinement mapping. *)

(* FanControl speaks of the same policy and the same speeds.               *)
LEMMA SamePolicy ==
  /\ \A v, r, o : FC!ObeysPolicy(v, r, o) <=> ObeysPolicy(v, r, o)
  /\ FC!RealSpeed = RealSpeed
  /\ FC!FanSpeed = FanSpeed
<1>1. FC!Rank = Rank
  BY DEF FC!Rank, Rank
<1>2. \A v, r, o : FC!ObeysPolicy(v, r, o) <=> ObeysPolicy(v, r, o)
  BY <1>1 DEF FC!ObeysPolicy, ObeysPolicy, FC!IsHottestRank, IsHottestRank
<1> QED
  BY <1>2 DEF FC!RealSpeed, RealSpeed, FC!FanSpeed, FanSpeed, FC!FAND_SPEED_NONE,
       FAND_SPEED_NONE, FC!FAND_SPEED_SLOW, FAND_SPEED_SLOW, FC!FAND_SPEED_MAX, FAND_SPEED_MAX

(* Rows without a demand are absent rows.                                  *)
LEMMA DemandType ==
  ASSUME NEW d \in Database, NEW s \in Subsystem
  PROVE  /\ DemandsOf(d)[s] \in FC!Demand \cup {NULL}
         /\ DemandsOf(d)[s] = NULL <=> s \notin Rows(d)
<1>1. CASE s \in Rows(d)
  <2>1. d.subsystem[s] \in SubsystemRow /\ d.subsystem[s] # NULL
    BY <1>1 DEF Rows, Database
  <2>2. DemandOf(d.subsystem[s]) \in FC!Demand
    BY <2>1 DEF DemandOf, SubsystemRow, FC!Demand
  <2> QED BY <1>1, <2>2, NullIsNoDemand DEF DemandsOf
<1>2. CASE s \notin Rows(d)
  BY <1>2 DEF Rows, DemandsOf, DemandOf
<1> QED BY <1>1, <1>2

(* The policy for a row is the policy for its demand.                      *)
LEMMA MeetsIsObeys ==
  ASSUME NEW d \in Database, NEW s \in Rows(d), NEW v
  PROVE  FC!Meets(v, DemandsOf(d)[s])
           <=> ObeysPolicy(v, d.subsystem[s].temp_sensors, d.subsystem[s].fan_speed_override)
<1>1. s \in Subsystem /\ d.subsystem[s] # NULL
  BY DEF Rows
<1>2. DemandsOf(d)[s] # NULL
  BY <1>1, DemandType
<1> QED BY <1>1, <1>2, SamePolicy DEF FC!Meets, DemandsOf, DemandOf

(* A write of the fan speed is a drive of the subsystem's controls.        *)
LEMMA WriteDrives ==
  ASSUME NEW s \in Subsystem, NEW v \in RealSpeed, WriteFanSpeed(s, v)
  PROVE  FC!Drive(s, v)
<1>1. HwSpeedVal(v) = v
  BY DEF HwSpeedVal, RealSpeed, FAND_SPEED_SLOW,
         FAND_SPEED_NORMAL, FAND_SPEED_MEDIUM, FAND_SPEED_FAST, FAND_SPEED_MAX
<1>2. ControlledBy[s] = SpeedControls(s)
  BY DEF ControlledBy
<1> QED BY <1>1, <1>2 DEF WriteFanSpeed, Written, FC!Drive

(* A refresh of the replica is a look at the demands, even where it goes   *)
(* unnoticed.                                                              *)
LEMMA RefreshSees ==
  ASSUME TypeOK, idl' = db', db' \in Database, DemandsOf(db') = DemandsOf(db),
         Settled' => Settled /\ ~Alerts(idl, db')
  PROVE  FC!SeesDemands
<1>1. DemandsOf(idl)' = DemandsOf(db)
  BY DEF DemandsOf
<1>2. CASE Settled'
  <2>1. Settled' = Settled
    BY <1>2 DEF Settled
  <2>2. ~Alerts(idl, db')
    BY <1>2
  <2>3. \A s \in Subsystem : DemandOf(db'.subsystem[s]) = DemandOf(idl.subsystem[s])
    BY <2>2, QuietRefresh DEF DemandOf, Rows
  <2>4. DemandsOf(idl) = DemandsOf(db)
    BY <1>1, <2>3 DEF DemandsOf
  <2> QED BY <1>1, <2>1, <2>4 DEF FC!SeesDemands
<1>3. CASE ~Settled'
  BY <1>1, <1>3 DEF FC!SeesDemands, Settled
<1> QED BY <1>2, <1>3

(* Neither transaction of the daemon touches a demand.                     *)
LEMMA TransactionsKeepDemands ==
  ASSUME TypeOK
  PROVE  /\ \A s \in Subsystem : DemandsOf(WithFansAdded(s)) = DemandsOf(db)
         /\ DemandsOf(WithStatusPublished) = DemandsOf(db)
<1>1. ASSUME NEW s \in Subsystem
      PROVE  \A t \in Subsystem : DemandOf(WithFansAdded(s).subsystem[t])
                                    = DemandOf(db.subsystem[t])
  <2>1. CASE ~SameRow(s, db, idl)
    BY <2>1 DEF WithFansAdded
  <2>2. CASE SameRow(s, db, idl)
    <3> DEFINE subs == [db.subsystem EXCEPT ![s] = [@ EXCEPT !.fans = FansIn(s)]]
    <3>1. WithFansAdded(s).subsystem = subs
      BY <2>2 DEF WithFansAdded, WithSubsystems
    <3>2. db.subsystem[s] \in SubsystemRow /\ db.subsystem[s] # NULL
      BY <2>2 DEF SameRow, Rows, TypeOK, Database
    <3>3. subs[s] # NULL /\ DemandOf(subs[s]) = DemandOf(db.subsystem[s])
      <4>1. subs[s] = [db.subsystem[s] EXCEPT !.fans = FansIn(s)]
        BY DEF TypeOK, Database
      <4>2. subs[s] \in SubsystemRow
        BY <3>2, <4>1 DEF SubsystemRow, FansIn
      <4> QED BY <3>2, <4>1, <4>2, NullIsNoValue DEF DemandOf, SubsystemRow
    <3>4. \A t \in Subsystem \ {s} : subs[t] = db.subsystem[t]
      BY DEF TypeOK, Database
    <3> QED BY <3>1, <3>3, <3>4
  <2> QED BY <2>1, <2>2
<1> QED BY <1>1 DEF DemandsOf, WithStatusPublished

-----------------------------------------------------------------------------
(* The steps. *)

(* Only the other writers change a demand, one at a time.                  *)
LEMMA EnvironmentDemands ==
  ASSUME TypeOK, Environment
  PROVE  (\E s \in Subsystem : FC!DemandChanges(s)) \/ UNCHANGED FC!vars
<1>1. /\ db' \in Database
      /\ UNCHANGED <<idl, idl_changed, pc, tables, flags, loops, fan_speed_control>>
  BY EnvironmentStep
<1>2. /\ DemandsOf(idl)' = DemandsOf(idl) /\ Settled' = Settled
      /\ DrivenSpeed' = DrivenSpeed /\ UNCHANGED <<cfg, fan_speed_control>>
  BY <1>1 DEF DemandsOf, Settled, DrivenSpeed, Driven, Known, tables, loops
<1>3. ASSUME NEW s \in Subsystem, NEW row, WriteSubsystem(s, row)
      PROVE  FC!DemandChanges(s)
  <2>1. db'.subsystem = [db.subsystem EXCEPT ![s] = row]
    BY <1>3 DEF WriteSubsystem, WithSubsystems
  <2>2. DemandsOf(db)' = [DemandsOf(db) EXCEPT ![s] = DemandOf(row)]
    BY <2>1 DEF DemandsOf, TypeOK, Database
  <2>3. DemandsOf(db)'[s] \in FC!Demand \cup {NULL}
    BY <1>1, DemandType DEF DemandsOf
  <2>4. DemandsOf(db)'[s] = DemandOf(row)
    BY <2>2 DEF DemandsOf
  <2> QED BY <1>2, <2>2, <2>3, <2>4 DEF FC!DemandChanges, FC!controller
<1>4. CASE UNCHANGED db \/ DaemonRowAppears
  <2>1. DemandsOf(db)' = DemandsOf(db)
    BY <1>4 DEF DaemonRowAppears, DemandsOf, TypeOK, Database
  <2> QED BY <1>2, <2>1 DEF FC!vars, FC!controller, FC!demands
<1> QED
  BY <1>3, <1>4
     DEF Environment, SubsystemAppears, SubsystemGoes, HwDescDirIsSet, SensorsReport,
         vtysh_ovsdb_fan_speed_set

(* Whatever the database holds, the daemon starts with an empty memory.    *)
LEMMA InitMaps == Init => FC!Init
<1> SUFFICES ASSUME Init PROVE FC!Init
  OBVIOUS
<1>1. TypeOK
  BY InitHolds DEF InductiveInvariant, RegistryInv
<1>2. DemandsOf(db) \in FC!Demands
  BY <1>1, DemandType DEF TypeOK, DemandsOf, FC!Demands
<1>3. DemandsOf(idl) = FC!Nothing
  BY DEF Init, EmptyDatabase, DemandsOf, DemandOf, FC!Nothing
<1>4. DrivenSpeed = FC!Nothing
  BY DEF Init, DrivenSpeed, Driven, Known, FC!Nothing
<1>5. fan_speed_control \in [HasSpeedControl -> FC!FanSpeed]
  BY <1>1, SamePolicy DEF TypeOK, HardwareTypeOK
<1>6. ~Settled /\ cfg = NULL
  BY DEF Init, Settled
<1> QED BY <1>2, <1>3, <1>4, <1>5, <1>6 DEF FC!Init

(* The end of the process, by whatever cause.                              *)
LEMMA DeathRestarts ==
  ASSUME TypeOK, WalkStrayRow \/ ops_fand_exit \/ Crash
  PROVE  FC!Restart
<1>1. Dies
  BY DEF WalkStrayRow, ops_fand_exit, Crash
<1>2. DemandsOf(idl)' = FC!Nothing
  BY <1>1 DEF Dies, EmptyDatabase, DemandsOf, DemandOf, FC!Nothing
<1>3. DrivenSpeed' = FC!Nothing
  BY <1>1 DEF Dies, DrivenSpeed, Driven, Known, FC!Nothing
<1>4. Settled' = FALSE /\ cfg' = NULL /\ fan_speed_control' = fan_speed_control
  BY <1>1 DEF Dies, Settled, hwOutputs
<1>5. cfg # NULL => cfg \in Subsystem
  BY DEF TypeOK
<1>6. DemandsOf(db') = DemandsOf(db)
  <2>1. CASE UNCHANGED db
    BY <2>1
  <2>2. CASE pc = "adding" /\ db' = WithFansAdded(cfg)
    <3>1. CASE cfg \in Subsystem
      BY <2>2, <3>1, TransactionsKeepDemands
    <3>2. CASE cfg \notin Subsystem
      BY <2>2, <3>2 DEF WithFansAdded, SameRow, Rows
    <3> QED BY <3>1, <3>2
  <2>3. CASE pc = "commit" /\ db' = WithStatusPublished
    BY <2>3, TransactionsKeepDemands
  <2> QED BY <2>1, <2>2, <2>3 DEF WalkStrayRow, ops_fand_exit, Crash
<1>7. DemandsOf(db)' = DemandsOf(db)
  BY <1>6 DEF DemandsOf
<1> QED BY <1>2, <1>3, <1>4, <1>7 DEF FC!Restart, FC!demands

(* The steps that run the IDL and do no more for the fans.                 *)
LEMMA LookSteps ==
  ASSUME InductiveInvariant,
         \/ FandRunWithoutLock \/ FandRunWithLock
         \/ \E ok \in CommitOutcomes : CommitStatus(ok)
  PROVE  FC!Look
<1>1. TypeOK /\ db \in Database
  BY DEF InductiveInvariant, RegistryInv, TypeOK
<1>2. UNCHANGED <<cfg, fan_speed_control>>
  BY DEF FandRunWithoutLock, FandRunWithLock, FandRunReconfigure, FandRunUnchanged,
         CommitStatus, loops, hwOutputs
<1>3. DrivenSpeed' = DrivenSpeed
  <2>1. CASE FandRunReconfigure
    <3>1. Known' = Known /\ \A s \in Known : /\ subsystem_data'[s].valid = subsystem_data[s].valid
                                              /\ subsystem_data'[s].speed = subsystem_data[s].speed
      <4>1. \A s \in Known : subsystem_data[s] \in LoclSubsystem
        BY <1>1 DEF TypeOK, Known
      <4>2. \A s \in Known : subsystem_data'[s] = [subsystem_data[s] EXCEPT !.marked = FALSE]
        BY <2>1 DEF FandRunReconfigure, Known
      <4>3. \A s \in Known : subsystem_data'[s] \in LoclSubsystem
        BY <4>1, <4>2 DEF LoclSubsystem
      <4>4. \A s \in Subsystem \ Known : subsystem_data'[s] = NULL
        BY <2>1 DEF FandRunReconfigure
      <4>5. Known' = Known
        BY <4>3, <4>4, NullIsNoValue DEF Known
      <4> QED BY <4>1, <4>2, <4>5 DEF LoclSubsystem
    <3>2. pc # "adding" /\ pc' # "adding"
      BY <2>1 DEF FandRunReconfigure
    <3> QED BY <3>1, <3>2 DEF DrivenSpeed, Driven
  <2>2. CASE ~FandRunReconfigure
    <3>1. UNCHANGED subsystem_data /\ pc # "adding" /\ pc' # "adding"
      BY <2>2 DEF FandRunWithoutLock, FandRunWithLock, FandRunUnchanged, StartPoll,
                  CommitStatus, tables
    <3> QED BY <3>1 DEF DrivenSpeed, Driven, Known
  <2> QED BY <2>1, <2>2
<1>4. /\ idl' = db' /\ db' \in Database /\ DemandsOf(db') = DemandsOf(db)
      /\ Settled' => Settled /\ ~Alerts(idl, db')
  <2>1. CASE FandRunWithoutLock
    BY <1>1, <2>1 DEF FandRunWithoutLock, Refreshed, Settled
  <2>2. CASE FandRunReconfigure
    BY <1>1, <2>2 DEF FandRunReconfigure, Settled
  <2>3. CASE FandRunUnchanged
    BY <1>1, <2>3 DEF FandRunUnchanged, StartPoll, Refreshed, Settled
  <2>4. CASE \E ok \in CommitOutcomes : CommitStatus(ok)
    <3>1. DemandsOf(db') = DemandsOf(db)
      BY <1>1, <2>4, TransactionsKeepDemands DEF CommitStatus
    <3>2. db' \in Database
      BY <1>1, <2>4, WithStatusType DEF CommitStatus, InductiveInvariant, RegistryInv
    <3> QED BY <2>4, <3>1, <3>2 DEF CommitStatus, Refreshed, Settled
  <2> QED BY <2>1, <2>2, <2>3, <2>4 DEF FandRunWithLock
<1>5. FC!SeesDemands
  BY <1>1, <1>4, RefreshSees
<1>6. DemandsOf(db)' = DemandsOf(db)
  BY <1>4 DEF DemandsOf
<1> QED BY <1>2, <1>3, <1>5, <1>6 DEF FC!Look, FC!demands

(* The decision of fand_reconfigure for a subsystem it drives.             *)
LEMMA ConfigureDecides ==
  ASSUME InductiveInvariant, NEW s \in Driven, pc \in {"reconfigure", "added", "freed"},
         pc' = "reconfigure", UNCHANGED <<db, idl>>,
         NEW highest \in RealSpeed, NEW override \in FanSpeed,
         Configure(s, highest, override)
  PROVE  /\ CommandedSpeed(highest, override) \in FC!RealSpeed
         /\ FC!DecideFor(s, CommandedSpeed(highest, override))
<1> DEFINE v == CommandedSpeed(highest, override)
<1>1. TypeOK
  BY DEF InductiveInvariant, RegistryInv
<1>2. v \in RealSpeed
  BY CommandedIsSpeed, RealIsSpeed
<1>3. s \in Subsystem /\ s \in Known /\ subsystem_data[s].valid
  BY DEF Driven, Known
<1>4. /\ Known' = Known
      /\ \A t \in Known : subsystem_data'[t].valid = subsystem_data[t].valid
      /\ \A t \in Known \ {s} : subsystem_data'[t] = subsystem_data[t]
      /\ subsystem_data'[s].speed = v
  BY <1>1, <1>3, ConfigureStep
<1>5. Driven' = Driven /\ Driven = {t \in Known : subsystem_data[t].valid}
  BY <1>4 DEF Driven
<1>6. DrivenSpeed' = [DrivenSpeed EXCEPT ![s] = v]
  BY <1>3, <1>4, <1>5 DEF DrivenSpeed, Driven
<1>7. FC!Drive(s, v)
  BY <1>2, <1>3, WriteDrives DEF Configure
<1>8. s \in FC!Adopted
  <2>1. DrivenSpeed[s] \in FanSpeed
    BY <1>1, <1>3, <1>5 DEF DrivenSpeed, TypeOK, LoclSubsystem, Known
  <2>2. DrivenSpeed[s] # NULL
    BY <2>1, NullIsNoValue DEF FanSpeed, FAND_SPEED_NONE, FAND_SPEED_MAX
  <2> QED BY <1>3, <2>2 DEF FC!Adopted
<1>9. ~Settled /\ Settled' = Settled
  BY DEF Settled
<1>10. DemandsOf(db)' = DemandsOf(db) /\ DemandsOf(idl)' = DemandsOf(idl)
  BY DEF DemandsOf
<1>11. FC!DecideFor(s, v)
  BY <1>6, <1>7, <1>8, <1>9, <1>10 DEF FC!DecideFor, FC!demands
<1> QED BY <1>2, <1>11, SamePolicy

(* A subsystem found in the dictionary, or just added, is decided by what  *)
(* its row in the replica demands.                                         *)
LEMMA RowDecides ==
  ASSUME InductiveInvariant, NEW s \in Driven, s \in Rows(idl),
         pc \in {"reconfigure", "added"}, pc' = "reconfigure", UNCHANGED <<db, idl>>,
         ConfigureFromRow(s), cfg' = IF cfg = s THEN NULL ELSE cfg
  PROVE  FC!Decide(s)
<1> DEFINE r == idl.subsystem[s].temp_sensors
           o == idl.subsystem[s].fan_speed_override
           v == Speed(r, o)
<1>1. v = CommandedSpeed(HighestFanState(r), fan_speed_string_to_enum(o))
  BY DEF Speed
<1>2. HighestFanState(r) \in RealSpeed /\ fan_speed_string_to_enum(o) \in FanSpeed
  BY HighestIsSpeed, EnumIsSpeed
<1>3. v \in FC!RealSpeed /\ FC!DecideFor(s, v)
  BY <1>1, <1>2, ConfigureDecides DEF ConfigureFromRow
<1>4. idl \in Database
  BY DEF InductiveInvariant, RegistryInv, TypeOK
<1>5. ObeysPolicy(v, r, o)
  BY SpeedIsPolicy
<1>6. FC!Meets(v, DemandsOf(idl)[s])
  BY <1>4, <1>5, MeetsIsObeys
<1> QED BY <1>3, <1>6 DEF FC!Decide

LEMMA ReconfigureSteps ==
  ASSUME InductiveInvariant,
         (\E s \in Subsystem : ReconfigureKnown(s)) \/ ReconfigureAdded \/ ReconfigureFreed
  PROVE  (\E s \in Subsystem : FC!Decide(s) \/ FC!DecideBlindly(s)) \/ UNCHANGED FC!vars
<1>1. ControlOK
  BY DEF InductiveInvariant, RegistryInv
<1>2. ASSUME NEW s \in Subsystem, ReconfigureKnown(s), subsystem_data[s].valid
      PROVE  FC!Decide(s)
  <2>1. s \in Driven /\ s \in Rows(idl) /\ cfg = NULL /\ s # NULL
    BY <1>1, <1>2, NullIsNoValue DEF ReconfigureKnown, ControlOK, Driven
  <2> QED BY <1>2, <2>1, RowDecides DEF ReconfigureKnown
<1>3. ASSUME NEW s \in Subsystem, ReconfigureKnown(s), ~subsystem_data[s].valid
      PROVE  UNCHANGED FC!vars
  BY <1>3 DEF ReconfigureKnown, FC!vars, FC!controller, FC!demands, DemandsOf, Settled,
              DrivenSpeed, Driven, Known, hwOutputs
<1>4. CASE ReconfigureAdded
  <2>1. cfg \in Subsystem /\ cfg \in Driven /\ cfg \in Rows(idl)
    BY <1>1, <1>4 DEF ReconfigureAdded, ControlOK, Driven, Known
  <2> QED BY <1>4, <2>1, RowDecides DEF ReconfigureAdded
<1>5. CASE ReconfigureFreed
  <2>1. cfg \in Subsystem /\ cfg \in Driven
    BY <1>1, <1>5 DEF ReconfigureFreed, ControlOK, Driven, Known
  <2>2. PICK highest \in RealSpeed, override \in FanSpeed : Configure(cfg, highest, override)
    BY <1>5 DEF ReconfigureFreed
  <2>3. \E v \in FC!RealSpeed : FC!DecideFor(cfg, v)
    BY <1>5, <2>1, <2>2, ConfigureDecides DEF ReconfigureFreed
  <2> QED BY <1>5, <2>1, <2>3 DEF ReconfigureFreed, FC!DecideBlindly
<1> QED BY <1>2, <1>3, <1>4, <1>5

(* The start of an addition, and a failed one.                             *)
LEMMA AdditionSteps ==
  ASSUME InductiveInvariant, NEW s \in Subsystem, AddSubsystemFails(s) \/ AddSubsystem(s)
  PROVE  FC!BeginAdopting(s) \/ UNCHANGED FC!vars
<1>1. TypeOK /\ ControlOK
  BY DEF InductiveInvariant, RegistryInv
<1>2. /\ pc = "reconfigure" /\ s \notin Known /\ s \in Rows(idl) /\ cfg = NULL
      /\ UNCHANGED <<db, idl, fan_speed_control>>
  BY <1>1 DEF AddSubsystemFails, AddSubsystem, ControlOK, hwOutputs
<1>3. PICK valid \in BOOLEAN :
        /\ subsystem_data' = [subsystem_data EXCEPT ![s] = NewSubsystem(s, valid)]
        /\ valid => pc' = "adding" /\ cfg' = s
        /\ ~valid => pc' = pc /\ cfg' = cfg
  BY DEF AddSubsystemFails, AddSubsystem
<1>4. /\ subsystem_data' \in [Subsystem -> LoclSubsystem \cup {NULL}]
      /\ subsystem_data'[s].valid = valid
      /\ \A t \in Subsystem \ {s} : subsystem_data'[t] = subsystem_data[t]
  <2>1. NewSubsystem(s, valid).valid = valid
    BY DEF NewSubsystem
  <2>2. NewSubsystem(s, valid) \in LoclSubsystem
    BY EnumIsSpeed DEF NewSubsystem, LoclSubsystem, FansIn, FanSpeed, FAND_SPEED_NONE,
                       FAND_SPEED_SLOW, FAND_SPEED_NORMAL, FAND_SPEED_MAX
  <2> QED BY <1>1, <1>3, <2>1, <2>2 DEF TypeOK
<1>5. Driven = {t \in Known : subsystem_data[t].valid}
  BY <1>2 DEF Driven
<1>6. Driven' = Driven /\ s \notin Driven
  BY <1>2, <1>3, <1>4, <1>5 DEF Driven, Known
<1>7. DrivenSpeed' = DrivenSpeed /\ DrivenSpeed[s] = NULL
  BY <1>4, <1>6 DEF DrivenSpeed
<1>8. DemandsOf(db)' = DemandsOf(db) /\ DemandsOf(idl)' = DemandsOf(idl)
  BY <1>2 DEF DemandsOf
<1>9. ~Settled /\ Settled' = Settled
  BY <1>2, <1>3 DEF Settled
<1>10. CASE valid
  <2>1. DemandsOf(idl)[s] # NULL
    BY <1>1, <1>2, DemandType DEF TypeOK
  <2> QED BY <1>2, <1>3, <1>7, <1>8, <1>9, <1>10, <2>1
          DEF FC!BeginAdopting, FC!Adopted, FC!demands
<1>11. CASE ~valid
  BY <1>2, <1>3, <1>7, <1>8, <1>9, <1>11 DEF FC!vars, FC!controller, FC!demands
<1> QED BY <1>10, <1>11

(* The end of the transaction of add_subsystem, and the initial speed.     *)
LEMMA FinishAdopts ==
  ASSUME InductiveInvariant, FinishAddSubsystem
  PROVE  FC!Adopt(cfg) /\ cfg \in Subsystem
<1> DEFINE v == CommandedSpeed(subsystem_data[cfg].fan_speed,
                               subsystem_data[cfg].fan_speed_override)
<1>1. TypeOK /\ pc = "adding" /\ pc' \in {"added", "freed"} /\ cfg' = cfg
  BY DEF InductiveInvariant, RegistryInv, FinishAddSubsystem
<1>2. cfg \in Subsystem /\ cfg \in Known /\ subsystem_data[cfg] \in LoclSubsystem
      /\ subsystem_data[cfg].valid
  BY <1>1 DEF InductiveInvariant, RegistryInv, ControlOK, Known, TypeOK
<1>3. v \in RealSpeed
  BY <1>2, CommandedIsSpeed DEF LoclSubsystem
<1>4. /\ subsystem_data' = [subsystem_data EXCEPT ![cfg] = [@ EXCEPT !.speed = v]]
      /\ WriteFanSpeed(cfg, v)
  BY DEF FinishAddSubsystem
<1>5. /\ subsystem_data'[cfg].speed = v /\ subsystem_data'[cfg].valid
      /\ subsystem_data'[cfg] \in LoclSubsystem
      /\ \A t \in Subsystem \ {cfg} : subsystem_data'[t] = subsystem_data[t]
  BY <1>1, <1>2, <1>3, <1>4, RealIsSpeed DEF TypeOK, LoclSubsystem
<1>6. Driven' = Driven \cup {cfg} /\ cfg \notin Driven
  BY <1>1, <1>2, <1>5, NullIsNoValue DEF Driven, Known
<1>7. DrivenSpeed' = [DrivenSpeed EXCEPT ![cfg] = v] /\ DrivenSpeed[cfg] = NULL
  BY <1>2, <1>5, <1>6 DEF DrivenSpeed
<1>8. FC!Drive(cfg, v)
  BY <1>2, <1>3, <1>4, WriteDrives
<1>9. DemandsOf(db') = DemandsOf(db) /\ idl' = db' /\ db' \in Database
  BY <1>1, <1>2, TransactionsKeepDemands, WithFansAddedType DEF FinishAddSubsystem, TypeOK
<1>10. FC!SeesDemands
  BY <1>1, <1>9, RefreshSees DEF Settled
<1>11. DemandsOf(db)' = DemandsOf(db)
  BY <1>9 DEF DemandsOf
<1> QED BY <1>1, <1>2, <1>3, <1>7, <1>8, <1>10, <1>11, SamePolicy
        DEF FC!Adopt, FC!Adopted, FC!demands

(* The start of the loop, and the end of a reconfiguration: what stays     *)
(* bears a mark, which vouches for its speed unless the replica has moved. *)
LEMMA SettlingSteps ==
  ASSUME InductiveInvariant, Start \/ RemoveUnmarked
  PROVE  FC!LetGo
<1> DEFINE kept == {s \in Driven : subsystem_data[s].marked}
<1>1. TypeOK /\ ControlOK /\ MarksOK /\ SpeedsOK
  BY DEF InductiveInvariant, RegistryInv, SpeedInv
<1>2. /\ pc \in {"down", "reconfigure"} /\ pc' \in {"run", "poll"} /\ cfg = NULL
      /\ UNCHANGED <<db, idl, idl_changed, cfg, fan_speed_control>>
  BY <1>1 DEF Start, RemoveUnmarked, StartPoll, ControlOK, loops, hwOutputs
<1>3. /\ ~Settled /\ Settled' \in BOOLEAN /\ (Settled' => ~idl_changed)
      /\ DemandsOf(db)' = DemandsOf(db) /\ DemandsOf(idl)' = DemandsOf(idl)
  BY <1>2 DEF Settled, DemandsOf
<1>4. Driven = {s \in Known : subsystem_data[s].valid}
  BY <1>2 DEF Driven
<1>5. \A s \in Subsystem :
        subsystem_data'[s] = IF s \in Known /\ subsystem_data[s].marked
                             THEN subsystem_data[s] ELSE NULL
  <2>1. CASE Start
    <3>1. \A s \in Known : subsystem_data[s].marked
      BY <1>1, <2>1 DEF Start, MarksOK, Reconfiguring
    <3> QED BY <2>1, <3>1 DEF Start, tables, Known
  <2>2. CASE RemoveUnmarked
    BY <2>2 DEF RemoveUnmarked, Unmarked, Known
  <2> QED BY <2>1, <2>2
<1>6. Driven' = kept
  <2>1. Known' = {s \in Known : subsystem_data[s].marked}
    BY <1>5 DEF Known
  <2> QED BY <1>2, <1>4, <1>5, <2>1 DEF Driven, Known
<1>7. DrivenSpeed' = [s \in Subsystem |-> IF s \in kept THEN DrivenSpeed[s] ELSE NULL]
  BY <1>4, <1>5, <1>6 DEF DrivenSpeed, Known
<1>8. kept \subseteq FC!Adopted
  <2>1. \A s \in Driven : s \in Subsystem /\ DrivenSpeed[s] \in FanSpeed
    BY <1>1, <1>4 DEF DrivenSpeed, TypeOK, LoclSubsystem, Known
  <2> QED BY <2>1, NullIsNoValue DEF FC!Adopted, FanSpeed, FAND_SPEED_NONE, FAND_SPEED_MAX
<1>9. ASSUME Settled', NEW s \in kept
      PROVE  FC!Meets(DrivenSpeed[s], DemandsOf(idl)[s])
  <2>1. /\ s \in Rows(idl) /\ s \in Subsystem /\ idl \in Database
        /\ ObeysPolicy(subsystem_data[s].speed, idl.subsystem[s].temp_sensors,
                       idl.subsystem[s].fan_speed_override)
    BY <1>1, <1>3, <1>4, <1>9 DEF SpeedsOK, TypeOK, Rows
  <2>2. DrivenSpeed[s] = subsystem_data[s].speed
    BY <2>1 DEF DrivenSpeed
  <2> QED BY <2>1, <2>2, MeetsIsObeys
<1> HIDE DEF kept
<1> QED BY <1>2, <1>3, <1>7, <1>8, <1>9 DEF FC!LetGo, FC!demands

(* The steps of which FanControl sees nothing.                             *)
LEMMA HiddenSteps ==
  ASSUME (\E f \in Fan : PollFan(f)) \/ WalkFanRows \/ Wait \/ UNCHANGED vars
  PROVE  UNCHANGED FC!vars
<1>1. /\ UNCHANGED <<db, idl, idl_changed, subsystem_data, cfg, fan_speed_control>>
      /\ pc' = pc \/ {pc, pc'} \subseteq {"run", "poll", "commit", "unixctl"}
  BY DEF PollFan, WalkFanRows, Wait, vars, tables, loops, hwOutputs
<1>2. Settled' = Settled /\ DrivenSpeed' = DrivenSpeed
  BY <1>1 DEF Settled, DrivenSpeed, Driven, Known
<1>3. DemandsOf(db)' = DemandsOf(db) /\ DemandsOf(idl)' = DemandsOf(idl)
  BY <1>1 DEF DemandsOf
<1> QED BY <1>1, <1>2, <1>3 DEF FC!vars, FC!controller, FC!demands

LEMMA StepMaps == InductiveInvariant /\ [Next]_vars => [FC!Next]_(FC!vars)
<1> SUFFICES ASSUME InductiveInvariant, [Next]_vars PROVE FC!Next \/ UNCHANGED FC!vars
  OBVIOUS
<1>1. TypeOK
  BY DEF InductiveInvariant, RegistryInv
<1>2. CASE Environment
  BY <1>1, <1>2, EnvironmentDemands DEF FC!Next
<1>3. CASE WalkStrayRow \/ ops_fand_exit \/ Crash
  BY <1>1, <1>3, DeathRestarts DEF FC!Next
<1>4. CASE \/ FandRunWithoutLock \/ FandRunWithLock
           \/ \E ok \in CommitOutcomes : CommitStatus(ok)
  BY <1>4, LookSteps DEF FC!Next, FC!Controller
<1>5. CASE (\E s \in Subsystem : ReconfigureKnown(s)) \/ ReconfigureAdded \/ ReconfigureFreed
  BY <1>5, ReconfigureSteps DEF FC!Next, FC!Controller
<1>6. CASE \E s \in Subsystem : AddSubsystemFails(s) \/ AddSubsystem(s)
  BY <1>6, AdditionSteps DEF FC!Next, FC!Controller
<1>7. CASE FinishAddSubsystem
  BY <1>7, FinishAdopts DEF FC!Next, FC!Controller
<1>8. CASE Start \/ RemoveUnmarked
  BY <1>8, SettlingSteps DEF FC!Next, FC!Controller
<1>9. CASE (\E f \in Fan : PollFan(f)) \/ WalkFanRows \/ Wait \/ UNCHANGED vars
  BY <1>9, HiddenSteps
<1> QED BY <1>2, <1>3, <1>4, <1>5, <1>6, <1>7, <1>8, <1>9 DEF Next, Daemon

(* Whatever the description files, the rows, the failures and the crashes, *)
(* all that the daemon does to the registers, and all that it takes for    *)
(* settled, is what FanControl allows.                                     *)
THEOREM FandImplementsFanControl == Spec => ImplementsFanControl
<1>1. Init => FC!Init
  BY InitMaps
<1>2. InductiveInvariant /\ [Next]_vars => [FC!Next]_(FC!vars)
  BY StepMaps
<1> QED BY <1>1, <1>2, InvariantHolds, PTL DEF Spec, FC!Spec, ImplementsFanControl

=============================================================================
