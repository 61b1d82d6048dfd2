-------------------------------- MODULE Fand --------------------------------
(***************************************************************************)
(* The ops-fand daemon: the main loop of fand.c over its replica of the    *)
(* database, its table of subsystems and fans, and the fan hardware.       *)
(*                                                                         *)
(* The daemon has one thread, so the database and the hardware move        *)
(* between two of its steps, and its replica moves only where the code     *)
(* runs the IDL: at the head of fand_run, and inside the two calls of      *)
(* ovsdb_idl_txn_commit_block, which sit in the middle of a pass.          *)
(***************************************************************************)
EXTENDS PhysFan

CONSTANTS
  Uuid,             \* identities of Subsystem rows
  SensorReadings,   \* sets of fan_state strings that sensors may report
  Overrides,        \* values of other_config:fan_speed_override
  MallocStatus,     \* statuses that a struct fresh from malloc may show
  CommitErrors,     \* may a transaction fail?
  YamlErrors        \* may the hardware description fail to load?

ASSUME FandAssumption ==
  /\ SensorReadings \subseteq SUBSET STRING
  /\ Overrides \subseteq STRING
  /\ MallocStatus \subseteq CachedStatus
  /\ CommitErrors \in BOOLEAN
  /\ YamlErrors \in BOOLEAN

VARIABLES
  db,               \* the database, as ovsdb-server has it
  idl,              \* the daemon's replica of it
  idl_changed,      \* idl_seqno # ovsdb_idl_get_seqno(idl)
  pc,               \* where the daemon's thread is
  subsystem_data,   \* struct locl_subsystem by name
  locl_fan,         \* struct locl_fan of each fan, NULL when not allocated
  fan_data,         \* the fans in the global dictionary
  cur_hw_set,       \* static bool: cur_hw has been set (or so it believes)
  txn_cur_hw,       \* does the transaction under way set Daemon:cur_hw?
  todo,             \* rows the loop of fand_reconfigure has still to visit
  cfg,              \* the row being added
  unread            \* fans that fand_read_status has still to poll

tables == <<subsystem_data, locl_fan, fan_data>>
flags  == <<cur_hw_set, txn_cur_hw>>
loops  == <<todo, cfg, unread>>
vars   == <<db, idl, idl_changed, pc, tables, flags, loops, hwOutputs, hwInputs>>

-----------------------------------------------------------------------------
(* The database: Subsystem and Fan rows by name, and cur_hw of the row     *)
(* "ops-fand" of the Daemon table (NULL when there is no such row).  A fan *)
(* stands for its name "<subsystem>-<fan>"; names are taken to be unique.  *)

SubsystemRow ==
  [uuid : Uuid, hw_desc_dir : BOOLEAN,
   temp_sensors : SensorReadings, fan_speed_override : Overrides \cup {NULL},
   fans : SUBSET Fan]

FanRow == [status : StatusName, direction : DirectionName, speed : SpeedName,
           rpm : Nat \cup {NULL}]

Database ==
  [subsystem : [Subsystem -> SubsystemRow \cup {NULL}],
   fan       : [Fan -> FanRow \cup {NULL}],
   cur_hw    : {NULL, 0, 1}]

EmptyDatabase ==
  [subsystem |-> [s \in Subsystem |-> NULL],
   fan       |-> [f \in Fan |-> NULL],
   cur_hw    |-> NULL]

(* What the other daemons and the operator may have put in the database    *)
(* before ops-fand first runs.                                             *)
FreshRow ==
  [uuid : Uuid, hw_desc_dir : BOOLEAN,
   temp_sensors : SensorReadings, fan_speed_override : Overrides \cup {NULL},
   fans : {{}}]

FreshDatabase ==
  [subsystem : [Subsystem -> FreshRow \cup {NULL}],
   fan       : {EmptyDatabase.fan},
   cur_hw    : {NULL, 0}]

Rows(d)    == {s \in Subsystem : d.subsystem[s] # NULL}
FanRows(d) == {f \in Fan : d.fan[f] # NULL}

(* Is the row of s the same row in d and in e, and not a later one of the  *)
(* same name?                                                              *)
SameRow(s, d, e) ==
  s \in Rows(d) \cap Rows(e) /\ d.subsystem[s].uuid = e.subsystem[s].uuid

(* The Fan table is not a root table: ovsdb-server deletes, in the same    *)
(* transaction, the Fan rows that no Subsystem row references.             *)
Referenced(subs) == UNION {subs[s].fans : s \in {t \in Subsystem : subs[t] # NULL}}

WithSubsystems(d, subs) ==
  [subsystem |-> subs,
   fan       |-> [f \in Fan |-> IF f \in Referenced(subs) THEN d.fan[f] ELSE NULL],
   cur_hw    |-> d.cur_hw]

(* The columns whose changes move the IDL's sequence number: fand_init     *)
(* registers fan_state, other_config, hw_desc_dir and temp_sensors for     *)
(* alerts, and omits Subsystem:fans, every Fan column and cur_hw.  A row   *)
(* that appears or goes always counts.                                     *)
(* Seeded mistake: the sensors raise no alert.                             *)
AlertColumnsNoSensors == {"uuid", "hw_desc_dir", "fan_speed_override"}

AlertColumns == {"uuid", "hw_desc_dir", "temp_sensors", "fan_speed_override"}

(* Seeded mistake: a row that appears or goes raises no alert.             *)
AlertsOfColumns(d, e) ==
  \E s \in Rows(d) \cap Rows(e), column \in AlertColumns :
    d.subsystem[s][column] # e.subsystem[s][column]

Alerts(d, e) ==
  \/ Rows(d) # Rows(e)
  \/ \E s \in Rows(d), column \in AlertColumns :
       d.subsystem[s][column] # e.subsystem[s][column]
  \/ FanRows(d) # FanRows(e)
  \/ (d.cur_hw = NULL) # (e.cur_hw = NULL)

(* Running the IDL brings the replica up to date; a reconnection moves the *)
(* sequence number whatever has changed.                                   *)
Refreshed(new) == {TRUE, idl_changed \/ Alerts(idl, new)}

-----------------------------------------------------------------------------
(* The daemon's own data. *)

LoclSubsystem ==
  [marked : BOOLEAN, valid : BOOLEAN, fan_speed : FanSpeed,
   fan_speed_override : FanSpeed, speed : FanSpeed, fans : SUBSET Fan]

(* A struct as malloc returns it: the status is arbitrary, and the fields  *)
(* nothing may read before they are set are NULL.                          *)
Malloced(status) ==
  [status |-> status, speed |-> NULL, direction |-> NULL, rpm |-> NULL]

PolledFan ==
  [status : FAND_STATUS_UNINITIALIZED .. FAND_STATUS_FAULT, speed : FanSpeed,
   direction : DirectionName, rpm : Nat]

LoclFan == {Malloced(status) : status \in CachedStatus} \cup PolledFan

Polled(f) == locl_fan[f] \in PolledFan

ASSUME NullIsNoValue ==
  NULL \notin SubsystemRow \cup FanRow \cup LoclSubsystem \cup LoclFan
              \cup Subsystem \cup SpeedName \cup STRING \cup Int

Known == {s \in Subsystem : subsystem_data[s] # NULL}

FansOfSubsystems(subs) == UNION {subsystem_data[s].fans : s \in subs}

Locations == {"down", "run", "reconfigure", "adding", "added", "freed",
              "poll", "commit", "unixctl"}

TypeOK ==
  /\ db \in Database
  /\ idl \in Database
  /\ idl_changed \in BOOLEAN
  /\ pc \in Locations
  /\ subsystem_data \in [Subsystem -> LoclSubsystem \cup {NULL}]
  /\ locl_fan \in [Fan -> LoclFan \cup {NULL}]
  /\ fan_data \in SUBSET Fan
  /\ cur_hw_set \in BOOLEAN
  /\ txn_cur_hw \in BOOLEAN
  /\ todo \in SUBSET Subsystem
  /\ cfg \in Subsystem \cup {NULL}
  /\ unread \in SUBSET Fan
  /\ HardwareTypeOK

Init ==
  /\ db \in FreshDatabase
  /\ pc = "down"
  /\ idl = EmptyDatabase /\ idl_changed = FALSE
  /\ subsystem_data = [s \in Subsystem |-> NULL]
  /\ locl_fan = [f \in Fan |-> NULL] /\ fan_data = {}
  /\ cur_hw_set = FALSE /\ txn_cur_hw = FALSE
  /\ todo = {} /\ cfg = NULL /\ unread = {}
  /\ HardwareInit

-----------------------------------------------------------------------------
(* Process start and end. *)

(* main up to its loop, and fand_init. *)
Start ==
  /\ pc = "down"
  /\ pc' = "run"
  /\ UNCHANGED <<db, idl, idl_changed, tables, flags, loops, hwOutputs, hwInputs>>

(* The process ends and its memory with it; the hardware keeps what was    *)
(* last written to it.                                                     *)
Dies ==
  /\ pc' = "down"
  /\ idl' = EmptyDatabase /\ idl_changed' = FALSE
  /\ subsystem_data' = [s \in Subsystem |-> NULL]
  /\ locl_fan' = [f \in Fan |-> NULL] /\ fan_data' = {}
  /\ cur_hw_set' = FALSE /\ txn_cur_hw' = FALSE
  /\ todo' = {} /\ cfg' = NULL /\ unread' = {}
  /\ UNCHANGED <<hwOutputs, hwInputs>>

(* "exit" arrives over unixctl: the loop ends after this iteration. *)
ops_fand_exit == pc = "unixctl" /\ Dies /\ UNCHANGED db

-----------------------------------------------------------------------------
(* fand_run: run the IDL, return without the lock, else reconfigure if the *)
(* sequence number has moved and then read the fans' status.               *)

(* Seeded mistake: only the fans that the database shows are polled.       *)
StartPollOfRows(fans) == pc' = "poll" /\ unread' = fans \cap FanRows(idl)

StartPoll(fans) == pc' = "poll" /\ unread' = fans

(* Another process holds the lock, or the reply to the request for it has  *)
(* not come yet.                                                           *)
FandRunWithoutLock ==
  /\ pc = "run"
  /\ idl' = db
  /\ idl_changed' \in Refreshed(db)
  /\ pc' = "unixctl"
  /\ UNCHANGED <<db, tables, flags, loops, hwOutputs, hwInputs>>

FandRunReconfigure ==
  /\ pc = "run"
  /\ TRUE \in Refreshed(db)
  /\ idl' = db
  /\ idl_changed' = FALSE
  /\ subsystem_data' =
       [s \in Subsystem |-> IF s \in Known
                            THEN [subsystem_data[s] EXCEPT !.marked = FALSE]
                            ELSE NULL]
  /\ todo' = Rows(db)
  /\ pc' = "reconfigure"
  /\ UNCHANGED <<db, locl_fan, fan_data, flags, cfg, unread, hwOutputs, hwInputs>>

FandRunUnchanged ==
  /\ pc = "run"
  /\ FALSE \in Refreshed(db)
  /\ idl' = db
  /\ UNCHANGED idl_changed
  /\ StartPoll(FansOfSubsystems(Known))
  /\ UNCHANGED <<db, tables, flags, todo, cfg, hwOutputs, hwInputs>>

FandRunWithLock == FandRunReconfigure \/ FandRunUnchanged

-----------------------------------------------------------------------------
(* fand_reconfigure: the loop over the Subsystem rows of the replica, in   *)
(* any order.                                                              *)

(* The body of the loop once get_subsystem has returned a subsystem: the   *)
(* hottest sensor and the override are recorded, the speed is decided and  *)
(* written, the LEDs are set from the cached statuses.                     *)
Configure(s, highest, override) ==
  LET speed == CommandedSpeed(highest, override) IN
  /\ subsystem_data' =
       [subsystem_data EXCEPT
          ![s] = [@ EXCEPT !.fan_speed = highest,
                           !.fan_speed_override = override,
                           !.speed = speed,
                           !.marked = TRUE]]
  /\ WriteFanSpeed(s, speed)
  /\ fand_set_fanleds(s, [f \in subsystem_data[s].fans |-> locl_fan[f].status])

ConfigureFromRow(s) ==
  Configure(s, HighestFanState(idl.subsystem[s].temp_sensors),
               fan_speed_string_to_enum(idl.subsystem[s].fan_speed_override))

(* get_subsystem finds the subsystem; an invalid one is skipped. *)
ReconfigureKnown(s) ==
  /\ pc = "reconfigure"
  /\ s \in todo /\ s \in Known
  /\ todo' = todo \ {s}
  /\ IF subsystem_data[s].valid
     THEN ConfigureFromRow(s)
     ELSE UNCHANGED <<subsystem_data, hwOutputs>>
  /\ UNCHANGED <<db, idl, idl_changed, pc, locl_fan, fan_data, flags, cfg, unread, hwInputs>>

(* Seeded mistake: the struct is marked from the start.                    *)
NewSubsystemMarked(s, valid) ==
  [marked |-> TRUE, valid |-> valid, fan_speed |-> FAND_SPEED_NORMAL,
   fan_speed_override |->
     fan_speed_string_to_enum(idl.subsystem[s].fan_speed_override),
   speed |-> FAND_SPEED_SLOW,
   fans |-> IF valid THEN FansIn(s) ELSE {}]

(* The struct add_subsystem allocates, before and after the hardware       *)
(* description has been loaded.                                            *)
NewSubsystem(s, valid) ==
  [marked |-> FALSE, valid |-> valid, fan_speed |-> FAND_SPEED_NORMAL,
   fan_speed_override |->
     fan_speed_string_to_enum(idl.subsystem[s].fan_speed_override),
   speed |-> FAND_SPEED_SLOW,   \* 0, from memset
   fans |-> IF valid THEN FansIn(s) ELSE {}]

(* The row names a directory, and the files there name a FRU. *)
Describes(row, s) == row.hw_desc_dir /\ FrusIn(s) # {}

(* add_subsystem gives up: no description directory, a file that does not  *)
(* load, or no fan FRU.  The struct stays in the dictionary, invalid and   *)
(* unmarked.                                                               *)
AddSubsystemFails(s) ==
  /\ pc = "reconfigure"
  /\ s \in todo /\ s \notin Known
  /\ Describes(idl.subsystem[s], s) => YamlErrors
  /\ subsystem_data' = [subsystem_data EXCEPT ![s] = NewSubsystem(s, FALSE)]
  /\ todo' = todo \ {s}
  /\ UNCHANGED <<db, idl, idl_changed, pc, locl_fan, fan_data, flags, cfg, unread,
                 hwOutputs, hwInputs>>

(* add_subsystem up to the commit: every fan of the description gets a     *)
(* struct, entered in both dictionaries.                                   *)
AddSubsystem(s) ==
  /\ pc = "reconfigure"
  /\ s \in todo /\ s \notin Known
  /\ Describes(idl.subsystem[s], s)
  /\ subsystem_data' = [subsystem_data EXCEPT ![s] = NewSubsystem(s, TRUE)]
  /\ \E status \in [FansIn(s) -> MallocStatus] :
       locl_fan' = [f \in Fan |-> IF f \in FansIn(s) THEN Malloced(status[f])
                                                     ELSE locl_fan[f]]
  /\ fan_data' = fan_data \cup FansIn(s)
  /\ todo' = todo \ {s}
  /\ cfg' = s
  /\ pc' = "adding"
  /\ UNCHANGED <<db, idl, idl_changed, flags, unread, hwOutputs, hwInputs>>

(* Seeded mistake: a row found in the replica is reset like a new one.     *)
NewRowForgetsRpm(f) ==
  [status    |-> fan_status_enum_to_string(FAND_STATUS_UNINITIALIZED),
   direction |-> fan_direction_enum_to_string(FAND_DIRECTION_F2B),
   speed     |-> fan_speed_enum_to_string(FAND_SPEED_NORMAL),
   rpm       |-> NULL]

(* The transaction of add_subsystem: a Fan row for each fan, with default  *)
(* values but for the rpm of a row found in the replica, referenced by the *)
(* Subsystem row.  Where that row is gone the server drops the new rows.   *)
NewRow(f) ==
  [status    |-> fan_status_enum_to_string(FAND_STATUS_UNINITIALIZED),
   direction |-> fan_direction_enum_to_string(FAND_DIRECTION_F2B),
   speed     |-> fan_speed_enum_to_string(FAND_SPEED_NORMAL),
   rpm       |-> IF f \in FanRows(idl) THEN idl.fan[f].rpm ELSE NULL]

WithFansAdded(s) ==
  LET subs == [db.subsystem EXCEPT ![s] = [@ EXCEPT !.fans = FansIn(s)]]
  IN  IF ~SameRow(s, db, idl) THEN db
      ELSE WithSubsystems(
             [db EXCEPT !.fan = [f \in Fan |-> IF f \in FansIn(s) THEN NewRow(f) ELSE @[f]]],
             subs)

CommitOutcomes == IF CommitErrors THEN BOOLEAN ELSE {TRUE}

(* The commit of add_subsystem returns and its result is ignored.  The     *)
(* replica has moved meanwhile, and the row the loop stands on may have    *)
(* been freed.  Rows that have come may have made the hash table grow, and *)
(* then the loop may skip rows or meet them again.  fand_set_fanspeed      *)
(* applies the initial speed.                                              *)
FinishAddSubsystem ==
  /\ pc = "adding"
  /\ \E ok \in CommitOutcomes : db' = IF ok THEN WithFansAdded(cfg) ELSE db
  /\ idl' = db'
  /\ idl_changed' \in Refreshed(db')
  /\ LET came == {s \in Rows(idl') : ~SameRow(s, idl, idl')}
     IN  IF came = {} THEN todo' = todo \cap Rows(idl')
                      ELSE \E rest \in SUBSET (Rows(idl') \ {cfg}) : todo' = rest
  /\ LET added == subsystem_data[cfg]
         speed == CommandedSpeed(added.fan_speed, added.fan_speed_override)
     IN  /\ subsystem_data' = [subsystem_data EXCEPT ![cfg] = [@ EXCEPT !.speed = speed]]
         /\ WriteFanSpeed(cfg, speed)
  /\ pc' = IF SameRow(cfg, idl, idl') THEN "added" ELSE "freed"
  /\ UNCHANGED <<locl_fan, fan_data, flags, cfg, unread, fan_led, hwInputs>>

(* Back in the loop with the subsystem just added. *)
ReconfigureAdded ==
  /\ pc = "added"
  /\ ConfigureFromRow(cfg)
  /\ pc' = "reconfigure"
  /\ cfg' = NULL
  /\ UNCHANGED <<db, idl, idl_changed, locl_fan, fan_data, flags, todo, unread, hwInputs>>

(* The same with a freed row: its columns, and where the iteration goes    *)
(* from it, are whatever the memory holds.                                 *)
ReconfigureFreed ==
  /\ pc = "freed"
  /\ \E highest \in RealSpeed, override \in FanSpeed :
       Configure(cfg, highest, override)
  /\ \E rest \in SUBSET Rows(idl) : todo' = rest
  /\ pc' = "reconfigure"
  /\ cfg' = NULL
  /\ UNCHANGED <<db, idl, idl_changed, locl_fan, fan_data, flags, unread, hwInputs>>

(* The end of fand_reconfigure: subsystems not marked in this pass leave   *)
(* the dictionaries, with their fans, and fand_read_status begins.         *)
Unmarked == {s \in Known : ~subsystem_data[s].marked}

(* Seeded mistake: the fans of a removed subsystem are forgotten.          *)
FreedNone == {}

Freed == FansOfSubsystems(Unmarked)

RemoveUnmarked ==
  /\ pc = "reconfigure"
  /\ todo = {}
  /\ subsystem_data' =
       [s \in Subsystem |-> IF s \in Unmarked THEN NULL ELSE subsystem_data[s]]
  /\ fan_data' = fan_data \ Freed
  /\ locl_fan' = [f \in Fan |-> IF f \in Freed THEN NULL ELSE locl_fan[f]]
  /\ StartPoll(FansOfSubsystems(Known \ Unmarked))
  /\ UNCHANGED <<db, idl, idl_changed, flags, todo, cfg, hwOutputs, hwInputs>>

-----------------------------------------------------------------------------
(* fand_read_status: poll every fan, then bring the Fan rows of the        *)
(* replica in line in one transaction.                                     *)

PollFan(f) ==
  /\ pc = "poll"
  /\ f \in unread
  /\ unread' = unread \ {f}
  /\ \E reading \in fand_read_fan_status(f) :
       locl_fan' = [locl_fan EXCEPT
                      ![f] = [speed     |-> subsystem_data[SubsystemOf[FruOf[f]]].speed,
                              direction |-> reading.direction,
                              rpm       |-> reading.rpm,
                              status    |-> reading.status]]
  /\ UNCHANGED <<db, idl, idl_changed, pc, subsystem_data, fan_data, flags, todo, cfg,
                 hwOutputs, hwInputs>>

(* shash_find(&fan_data, name) finds no entry, and its result is           *)
(* dereferenced.                                                           *)
StrayRows == FanRows(idl) \ fan_data

(* What the walk over the Fan rows sets a row to.                          *)
RowFromCache(f) ==
  [status    |-> fan_status_enum_to_string(locl_fan[f].status),
   direction |-> locl_fan[f].direction,
   speed     |-> fan_speed_enum_to_string(locl_fan[f].speed),
   rpm       |-> locl_fan[f].rpm]

(* Seeded mistake: a change of the status alone goes unnoticed.            *)
RowDiffersInSpeed(f) ==
  \/ idl.fan[f].speed # RowFromCache(f).speed
  \/ idl.fan[f].rpm # RowFromCache(f).rpm

RowDiffers(f) == idl.fan[f] # RowFromCache(f)

WalkFanRows ==
  /\ pc = "poll"
  /\ unread = {}
  /\ StrayRows = {}
  /\ LET sets_cur_hw == ~cur_hw_set /\ idl.cur_hw # NULL
         change == sets_cur_hw \/ \E f \in FanRows(idl) : RowDiffers(f)
     IN  /\ cur_hw_set' = (cur_hw_set \/ sets_cur_hw)
         /\ txn_cur_hw' = sets_cur_hw
         /\ pc' = IF change THEN "commit" ELSE "unixctl"
  /\ UNCHANGED <<db, idl, idl_changed, tables, loops, hwOutputs, hwInputs>>

WalkStrayRow ==
  /\ pc = "poll"
  /\ unread = {}
  /\ StrayRows # {}
  /\ Dies
  /\ UNCHANGED db

(* Seeded mistake: readiness is published ahead of the statuses.           *)
WithReadinessPublished ==
  [subsystem |-> db.subsystem,
   fan |-> db.fan,
   cur_hw |-> IF txn_cur_hw /\ db.cur_hw # NULL THEN 1 ELSE db.cur_hw]

WithStatusPublished ==
  [subsystem |-> db.subsystem,
   fan |-> [f \in Fan |-> IF f \in FanRows(db) \cap FanRows(idl)
                          THEN RowFromCache(f) ELSE db.fan[f]],
   cur_hw |-> IF txn_cur_hw /\ db.cur_hw # NULL THEN 1 ELSE db.cur_hw]

(* The commit returns; a failed one is seen again as a difference in the   *)
(* next pass, except for cur_hw.                                           *)
CommitStatus(ok) ==
  /\ pc = "commit"
  /\ db' = IF ok THEN WithStatusPublished ELSE db
  /\ idl' = db'
  /\ idl_changed' \in Refreshed(db')
  /\ txn_cur_hw' = FALSE
  /\ pc' = "unixctl"
  /\ UNCHANGED <<tables, cur_hw_set, loops, hwOutputs, hwInputs>>

(* unixctl_server_run serves ops-fand/dump, which only reads; fand_wait    *)
(* and poll_block end at the latest after FAN_POLL_INTERVAL.               *)
Wait ==
  /\ pc = "unixctl"
  /\ pc' = "run"
  /\ UNCHANGED <<db, idl, idl_changed, tables, flags, loops, hwOutputs, hwInputs>>

(* The process is killed, perhaps after the server has carried out the     *)
(* transaction whose result the daemon is waiting for.                     *)
Crash ==
  /\ pc # "down"
  /\ \/ UNCHANGED db
     \/ pc = "adding" /\ db' = WithFansAdded(cfg)
     \/ pc = "commit" /\ db' = WithStatusPublished
  /\ Dies

-----------------------------------------------------------------------------
(* The other writers of the database. *)

DaemonUnchanged == UNCHANGED <<idl, idl_changed, pc, tables, flags, loops>>

WriteSubsystem(s, row) ==
  /\ db' = WithSubsystems(db, [db.subsystem EXCEPT ![s] = row])
  /\ DaemonUnchanged
  /\ UNCHANGED <<hwOutputs, hwInputs>>

(* A row is created for a subsystem, under an identity that neither the    *)
(* database nor the daemon's replica uses for it.                          *)
SubsystemAppears(s) ==
  /\ s \notin Rows(db)
  /\ \E u \in Uuid, dir \in BOOLEAN, readings \in SensorReadings :
       /\ s \in Rows(idl) => idl.subsystem[s].uuid # u
       /\ WriteSubsystem(s, [uuid |-> u, hw_desc_dir |-> dir, temp_sensors |-> readings,
                             fan_speed_override |-> NULL, fans |-> {}])

SubsystemGoes(s) == s \in Rows(db) /\ WriteSubsystem(s, NULL)

HwDescDirIsSet(s) ==
  /\ s \in Rows(db) /\ ~db.subsystem[s].hw_desc_dir
  /\ WriteSubsystem(s, [db.subsystem[s] EXCEPT !.hw_desc_dir = TRUE])

(* ops-tempd. *)
SensorsReport(s) ==
  /\ s \in Rows(db)
  /\ \E readings \in SensorReadings \ {db.subsystem[s].temp_sensors} :
       WriteSubsystem(s, [db.subsystem[s] EXCEPT !.temp_sensors = readings])

(* The CLI's "fan-speed <speed>" and "no fan-speed", for the row that its  *)
(* replica lists first.                                                    *)
vtysh_ovsdb_fan_speed_set(s) ==
  /\ s \in Rows(db)
  /\ \E override \in (Overrides \cup {NULL}) \ {db.subsystem[s].fan_speed_override} :
       WriteSubsystem(s, [db.subsystem[s] EXCEPT !.fan_speed_override = override])

DaemonRowAppears ==
  /\ db.cur_hw = NULL
  /\ db' = [db EXCEPT !.cur_hw = 0]
  /\ DaemonUnchanged
  /\ UNCHANGED <<hwOutputs, hwInputs>>

Environment ==
  \/ \E s \in Subsystem : \/ SubsystemAppears(s) \/ SubsystemGoes(s)
                          \/ HwDescDirIsSet(s) \/ SensorsReport(s)
                          \/ vtysh_ovsdb_fan_speed_set(s)
  \/ DaemonRowAppears
  \/ (\/ \E f \in Fan : FanInputChanges(f)
      \/ \E u \in Fru : FruPluggedOrPulled(u)) /\ DaemonUnchanged /\ UNCHANGED db

Daemon ==
  \/ Start
  \/ FandRunWithoutLock \/ FandRunWithLock
  \/ \E s \in Subsystem : ReconfigureKnown(s) \/ AddSubsystemFails(s) \/ AddSubsystem(s)
  \/ FinishAddSubsystem \/ ReconfigureAdded \/ ReconfigureFreed
  \/ RemoveUnmarked
  \/ \E f \in Fan : PollFan(f)
  \/ WalkFanRows \/ WalkStrayRow
  \/ \E ok \in CommitOutcomes : CommitStatus(ok)
  \/ Wait

Next == Environment \/ Daemon \/ ops_fand_exit \/ Crash

Spec == Init /\ [][Next]_vars

(* The thread does not stop, the lock is not withheld for ever, and a      *)
(* commit that is tried again and again succeeds at last.                  *)
Fairness ==
  /\ WF_vars(Daemon)
  /\ SF_vars(FandRunWithLock)
  /\ SF_vars(CommitStatus(TRUE))

-----------------------------------------------------------------------------
(* Safety. *)

(* Between two reconfigurations, with none due. *)
Settled == pc \in {"run", "poll", "commit", "unixctl"} /\ ~idl_changed

(* The three dictionaries of fand.c agree: a struct locl_fan is allocated  *)
(* exactly while fan_data holds it and exactly while a subsystem holds it, *)
(* through every addition, removal and failure (lines 249, 250, 331-341).  *)
RegistryConsistent ==
  /\ \A f \in Fan : locl_fan[f] # NULL <=> f \in fan_data
  /\ fan_data = FansOfSubsystems(Known)
  /\ \A s \in Known :
       subsystem_data[s].fans = IF subsystem_data[s].valid THEN FansIn(s) ELSE {}

(* Mark and sweep is exact although the replica moves in the middle of a   *)
(* pass: what the daemon drives is what the replica lists (but for rows    *)
(* whose description does not load), and nothing half-added survives.      *)
RegistryMatchesDatabase ==
  Settled => \A s \in Subsystem :
    /\ s \in Known => s \in Rows(idl) /\ subsystem_data[s].valid
    /\ s \in Rows(idl) /\ Describes(idl.subsystem[s], s) => s \in Known \/ YamlErrors

(* A struct locl_fan comes from malloc (line 244) and is polled in the     *)
(* pass that adds it: the walk over the Fan rows, the unixctl dump and     *)
(* every later pass, its LEDs included, find no field as malloc left it,   *)
(* however additions failed or rows were freed.  One reader comes before   *)
(* the poll: fand_set_fanleds in the pass of the addition (line 551;       *)
(* LedsShowPolledFans below states that and does not hold).                *)
FreshStructsArePolled ==
  pc \in {"run", "commit", "unixctl"} \/ (pc = "poll" /\ unread = {})
    => \A f \in fan_data : Polled(f)

(* Between reconfigurations the recorded speed is the one the policy wants *)
(* for the sensors and the override of the replica, after whatever mixture *)
(* of additions, changes in mid-pass and failures led there.               *)
SpeedObeysPolicy ==
  Settled => \A s \in Known :
    ObeysPolicy(subsystem_data[s].speed, idl.subsystem[s].temp_sensors,
                idl.subsystem[s].fan_speed_override)

(* The same of the control registers, where i2c writes succeed: none keeps *)
(* the initial speed of an addition, the setting of an earlier process or  *)
(* of a row since deleted.                                                 *)
RegistersObeyPolicy ==
  Settled => \A s \in Known : \A c \in SpeedControls(s) :
    ObeysPolicy(fan_speed_control[c], idl.subsystem[s].temp_sensors,
                idl.subsystem[s].fan_speed_override)

(* A subsystem's LED shows a fault or a good status whenever one of its    *)
(* FRUs' LEDs does, and the worse of the two: fand_set_fanleds accumulates *)
(* over the FRUs and must not keep only the last one's.                    *)
SystemLedIsWorst ==
  \A s \in Subsystem \cap HasLed :
    FrusIn(s) \subseteq HasLed =>
      LET shown == {fan_led[u] : u \in FrusIn(s)}
      IN  fan_led[s] = IF "fault" \in shown THEN "fault"
                       ELSE IF "good" \in shown THEN "good" ELSE "off"

(* fand_read_status finds an entry of fan_data for every Fan row (lines    *)
(* 449-453 dereference it untested), also for the rows that an earlier     *)
(* process has left.  Not so when a description loads no more (Yaml        *)
(* errors), or when a freed row ends the loop before other subsystems.     *)
NoStrayFanRow == pc = "poll" => StrayRows = {}

-----------------------------------------------------------------------------
(* What a step may never do. *)

(* The daemon reports itself ready (cur_hw = 1, lines 476-486) in no       *)
(* transaction that leaves a Fan row without a measured rpm.               *)
ReadyImpliesPolled ==
  [][db'.cur_hw = 1 /\ db.cur_hw # 1
       => \A f \in FanRows(db') : db'.fan[f].rpm # NULL]_vars

(* A Fan row keeps a measured rpm as long as it lives, through a restart   *)
(* that adds the fan again: lookup_fan finds the row, and only status,     *)
(* direction and speed are reset.                                          *)
RpmIsNeverLost ==
  [][\A f \in FanRows(db) \cap FanRows(db') :
       db.fan[f].rpm # NULL => db'.fan[f].rpm # NULL]_vars

Overheated(s, d) == s \in Rows(d) /\ "max" \in d.subsystem[s].temp_sensors

(* Fans that run at the maximum are not slowed by a step that sees an      *)
(* over-temperature before and after, but for the initial speed of an      *)
(* addition (line 276, before the sensors are read) and a freed row.       *)
NeverSlowsWhileHot ==
  [][\A s \in Subsystem : \A c \in SpeedControls(s) :
       /\ Overheated(s, idl) /\ Overheated(s, idl')
       /\ fan_speed_control[c] = FAND_SPEED_MAX
       /\ fan_speed_control'[c] # FAND_SPEED_MAX
       => cfg = s]_vars

-----------------------------------------------------------------------------
(* Liveness, under Fairness. *)

Failing(f) == fan_fault[f] \/ ~fan_present[FruOf[f]]

(* A fan that stays broken, or whose FRU stays pulled, is reported in its  *)
(* Fan row for good, whatever commits failed on the way and through any    *)
(* restart, where i2c reads succeed: a failed read of the fault input      *)
(* yields "uninitialized" until the next poll (physfan.c, line 295), and   *)
(* Fairness says nothing of reads.                                         *)
FaultReachesDatabase ==
  \A f \in Fan :
    <>[](f \in FanRows(db) /\ Failing(f)) =>
      <>[](f \in FanRows(db) => db.fan[f].status = "fault")

(* A lasting over-temperature brings every control of the subsystem to the *)
(* maximum, over any override and through any restart.                     *)
OverheatReachesFans ==
  \A s \in Subsystem : \A c \in SpeedControls(s) :
    <>[](Overheated(s, db) /\ db.subsystem[s].hw_desc_dir)
      => <>[](fan_speed_control[c] = FAND_SPEED_MAX)

-----------------------------------------------------------------------------
(* What the documents and comments say and the code does not do. *)

(* DESIGN.md's main loop sets the LEDs of each fan in every iteration: a   *)
(* lasting fault shows on the LED of its FRU.                              *)
FaultReachesLed ==
  \A f \in Fan :
    FruOf[f] \in HasLed =>
      (<>[](f \in FanRows(db) /\ Failing(f)) => <>[](fan_led[FruOf[f]] = "fault"))

(* The same loop updates the status of a fan before it sets its LED: a LED *)
(* changes only to show fans that have been polled.                        *)
LedsShowPolledFans ==
  [][\A u \in Fru \cap HasLed :
       fan_led'[u] # fan_led[u] => \A f \in Fan : FruOf[f] = u => Polled(f)]_vars

(* "As a side-effect, create all fans in the database" (add_subsystem).    *)
FansReachDatabase ==
  \A s \in Subsystem :
    <>[](s \in Known) => <>[](FansIn(s) \subseteq FanRows(db))

(* "Set cur_hw = 1 if this is first time through" (fand_read_status).      *)
DaemonBecomesReady == <>[](db.cur_hw # NULL) => <>[](db.cur_hw = 1)

(* "Use a default if the hw_desc_dir has not been populated"               *)
(* (add_subsystem).                                                        *)
UsesDefaultDirectory ==
  Settled => \A s \in Rows(idl) : FrusIn(s) # {} => s \in Known \/ YamlErrors

=============================================================================
