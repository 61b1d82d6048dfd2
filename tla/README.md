# ops-fand in TLA+

ops-fand is the fan daemon of OpenSwitch.  It follows the `Subsystem` rows of
the OVSDB database, creates a `Fan` row for every fan that a subsystem's
hardware description names, decides one speed per subsystem from the
temperature sensors' requests (written by ops-tempd) and an operator's
override, writes the speed and the status LEDs to the hardware over i2c, and
publishes what it reads back.  A small CLI plug-in (`src/src/cli`) sets the
override and shows the Fan table.

Paths below are relative to the repository (`src/` of this workspace).

## Inventory

| Part | Source | State | Operations |
|---|---|---|---|
| Enumerations, string tables | `src/fanspeed.c`, `fanstatus.c`, `fandirection.c` | none | six conversions |
| Speed policy | `src/fand.c:531-548`, `src/physfan.c:127-140` | none | hottest sensor; choice against the override |
| Hardware access | `src/physfan.c` | control, LED, tachometer, fault, presence and direction registers | `fand_set_fanspeed`, `fand_set_fanleds`, `fand_read_fan_status` |
| Registry | `src/fand.c:91-351` | `subsystem_data`, `fan_data`, `subsystem_fans`, the structs | `get_subsystem`, `add_subsystem`, unmark, remove unmarked |
| Main loop | `src/fand.c:423-590, 644-688` | the IDL's replica, `idl_seqno`, `cur_hw_set` | `fand_run`, `fand_reconfigure`, `fand_read_status`, `fand_wait` |
| unixctl | `src/fand.c:592-640, 791-798` | `exiting` | `ops-fand/dump`, `exit` |
| CLI | `src/cli/fan_vty.c` | its own replica | `fan-speed`, `no fan-speed`, `show system fan` |
| Running config | `src/cli/vtysh_ovsdb_fan_context.c` | none | prints the override |
| External | ovsdb-server, ovsdb-idl, config-yaml, i2c, ops-tempd | the database, descriptions, registers | transactions, alerts, transfers |

How they interact.  The daemon has one thread.  Its replica moves when
`ovsdb_idl_run` is called: at the head of `fand_run`, and inside
`ovsdb_idl_txn_commit_block`, which `add_subsystem` calls in the middle of the
loop over the Subsystem rows and `fand_read_status` after its walk over the Fan
rows.  The database moves at any time.  A change of a column registered for
alerts moves the IDL's sequence number, and only then does `fand_reconfigure`
do anything: it unmarks all subsystems, visits every row (adding the unknown
ones, setting speed and LEDs of the others, marking them) and frees what has no
mark.  Every iteration polls every fan and publishes the differences.

The CLI and the running-config callback work in another process, vtysh, on a
replica of its own; they meet the daemon only in the database.  A second
ops-fand process meets the first at the lock `ops_fand` of the database and at
the i2c registers.

What is hard: the replica moves in the middle of a pass, a row may be freed
under the loop, commits and i2c transfers fail and their results are mostly
ignored, structs come uninitialized from malloc, the process is killed and
restarted over the Fan rows and registers of its predecessor, and three
dictionaries must agree, two of them under names that may collide.  The lock is
tested once per pass; a poll is up to five transfers, between which the fan
moves; the CLI writes back whole columns that it read some time ago.  `PROJECT.json` lists each hazard at its line.

What makes each part correct:

- conversions: the name published is the name of the value meant;
- policy: an over-temperature beats any override, otherwise the override
  decides, otherwise the hottest sensor, and a hotter reading never slows a fan;
- hardware: a control register holds the policy's speed once a reconfiguration
  is over, and is not slowed during an over-temperature; the subsystem's LED is
  the worst of its FRUs;
- registry: a struct exists exactly while both dictionaries hold it; between
  reconfigurations the daemon drives the rows of the replica and nothing else;
- main loop: nothing uninitialized is published or outlasts the pass that added
  it, readiness follows measurement,
  a measured rpm is not lost, lasting faults and demands get through;
- a poll: what is reported is what the inputs were at some moment of it;
- lock: only its holder drives the fans, and a successor finishes what its
  predecessor left;
- CLI: a command that reports success has had its effect and no other, and the
  daemon carries it out; the running configuration shows what was commanded;
- dump: what it prints accounts for the registers and agrees with the Fan table.

## Modules

| Module | Models | Uses |
|---|---|---|
| `FanTypes` | the enumerations and conversions | |
| `FanPolicy` | the speed decision, and apart from it the promised policy (`Rank`, `ObeysPolicy`) | `FanTypes` |
| `PhysFan` | the registers and every routine of physfan.c | `FanPolicy` |
| `Fand` | the database, the replica, the registry, the passes of the main loop, restarts; all properties | `PhysFan` |
| `FandInvariant` | the inductive invariant of `Fand` | `Fand` |
| `FanControl` | the abstract specification: demands in, one speed per adopted subsystem out | `FanPolicy` |
| `FandControl` | the refinement mapping from `Fand` to `FanControl` | `FandInvariant`, instance of `FanControl` |
| `FandDump` | what `ops-fand/dump` prints in a state of `Fand` | `Fand` |
| `FanCli` | sessions of vtysh and other writers of `other_config`, composed with the controller as `FanControl` promises it | `FanControl` |
| `FanLock` | several daemon processes, their sessions and the lock | `FanTypes` |
| `FanTach` | one poll of one fan, transfer by transfer | `FanTypes` |
| `FanNames` | the dictionaries keyed by names, and the lookup for the LEDs | `FanTypes` |
| `MCFanPolicy`, `MCFand`, `MCFanCli`, `MCFanLock`, `MCFanTach`, `MCFanNames` | instances for TLC | |
| `FanPolicyProofs`, `MCFanPolicyProofs` | theorems of the speed decision and the conversions | `FanPolicy`, `MCFanPolicy` |
| `FandProofs` | theorems of `Fand`: the inductive invariant and what follows from it | `FandInvariant`, `FanPolicyProofs` |
| `FandStepProofs` | the steps of `Fand`: action properties, the dump, the refinement | `FandProofs`, `FandDump`, `FandControl` |
| `FanCliProofs`, `FanLockProofs`, `FanTachProofs`, `FanNamesProofs` | theorems of `FanCli`, `FanLock`, `FanTach`, `FanNames` | |

`Fand` is the daemon as a whole.  `FanTach`, `FanNames` and `FanLock` each take
up one thing that `Fand` abstracts from (that a poll takes time, that fans are
found by names, that there may be a second process) and leave out of the rest
what that question does not need.  `FanCli` needs no more of the daemon than
`FanControl` says, and `Fand` is shown to implement it; so what `FanCli` says of
the fans holds of the daemon.

### The daemon (`Fand`)

State.  `db` is the database and `idl` the replica; `idl_changed` stands for
"`idl_seqno` differs from the IDL's sequence number".  `subsystem_data` and
`locl_fan` are the structs (NULL when not allocated), `fan_data` the keys of the
global dictionary.  `pc` is the place of the thread, `todo`, `cfg` and `unread`
are the loop positions, `txn_cur_hw` is the part of the open transaction that the
rest of the state does not determine.  `fan_speed_control` and `fan_led` are the
output registers, `fan_fault` and `fan_present` the inputs.

Actions, in the order of a pass:

| Action | Code |
|---|---|
| `Start` | `main` up to the loop, `fand_init` |
| `FandRunWithoutLock`, `FandRunReconfigure`, `FandRunUnchanged` | `fand_run` up to the branch on lock and sequence number; the second includes `fand_unmark_subsystems` |
| `ReconfigureKnown` | a visit of a row whose subsystem is in the dictionary, valid or not |
| `AddSubsystemFails`, `AddSubsystem` | `add_subsystem` up to an early return, or up to the commit |
| `FinishAddSubsystem` | the commit returns, the replica has moved, the initial speed is written |
| `ReconfigureAdded`, `ReconfigureFreed` | the rest of the visit, `cfg` being alive or freed meanwhile |
| `RemoveUnmarked` | the sweep, and the beginning of `fand_read_status` |
| `PollFan` | one iteration of the polling loop |
| `WalkFanRows`, `WalkStrayRow` | the walk over the Fan rows; the second is the dereference of NULL |
| `CommitStatus` | the commit of the statuses returns |
| `Wait` | unixctl and `fand_wait`, up to the next iteration |
| `ops_fand_exit`, `Crash` | the process ends: between iterations, or anywhere, an open transaction carried out or not |
| `Environment` | the other clients of the database and the physical world |

A step is the code between two points at which the database can be seen or the
replica can move.  Within such a stretch the order of the code's assignments is
not visible and the whole stretch is one action.

Undefined behaviour is a choice: the status of a fresh struct is any value
(`MallocStatus`; all values above the enumerators are treated alike and written
3), the columns of a freed row and the rest of an iteration that stands on it are
arbitrary (`ReconfigureFreed`), and a NULL dereference ends the process.  Rows
that arrive in the middle of the loop (the commit inside `add_subsystem` runs the
IDL) may make the hash table of rows grow under the iterator, and `FinishAddSubsystem`
then lets the loop skip rows or meet them again.

### The abstract controller (`FanControl`, `FandControl`)

`FanControl` knows the demand of each subsystem (its sensors' requests and its
override), the demands as the controller last saw them, whether it is settled,
and the speeds and register values.  A subsystem is adopted in two steps with an
initial speed that owes nothing to its demand; the controller may settle only
when every speed it has decided obeys the policy for the demands seen, and it
cannot look at changed demands and stay settled.  The mapping: `demand` and
`seen` are the relevant columns of `db` and `idl`, `settled` is `Settled` of
`Fand`, `adopting` is `cfg`, a subsystem counts as adopted once `add_subsystem` has written its
first speed, `output` are the control registers.  A stale row under the loop
becomes `DecideBlindly`; a visit of a row, `Decide`; the sweep, `LetGo`; most
steps of the daemon stutter.

### The CLI (`FanCli`)

`idl[c]` is the replica of session c, `txn[c]` the transaction it waits for.
`vtysh_ovsdb_fan_speed_set` clones `other_config` of the first row of the
replica, changes one key and sends the column whole; a column that equals the
replica's is not sent (`TXN_UNCHANGED`, which counts as success).
`cli_do_config_finish` is the answer: the transaction may be carried out and
the answer lost.  `RowId` numbers rows in the order in which an IDL lists them.
`vtysh_ovsdb_fan_show` leaves its text in `screen`, reduced to the numbers; the
first key of an empty rpm is any number, or ends the session
(`ShowEndsSession`).  `last` is a history variable.

### The lock (`FanLock`)

A process has a belief `has_lock` and a replica, both brought up to date in
`RunIdl`.  `SessionDrops` frees the lock at the server while the process goes on
believing; `NoticesDrop` is the reconnection.  The speed that the policy gives a
subsystem is one value here, `demand`.  `CommitStatus` is refused by the server
unless the process holds the lock; nothing refuses the register writes of
`Reconfigure`.

### One poll (`FanTach`)

`pc` names the next transfer: direction, presence, the counter (whole, or its two
bytes one after the other where the description has a second register), the
fault input.  Between any two of them `InputMoves`.  A transfer returns zero,
a negative or a positive code, and `fand_read_present` takes only a negative one
for a failure: after a positive one an uninitialized variable decides.  `AsInt`
is the 32-bit assignment (the overflow of the product is undefined in C and
wraps in the build).  `during` collects the inputs of the poll, so that
properties can say "at some moment of the poll".

### Names (`FanNames`)

`naming` gives each fan a name, and says which names are longer than the 127
characters of `get_local_fan`'s buffer.  `fan_data` holds nodes as `shash` does,
several of a name if need be; `dangling` counts those whose struct has been
freed.  Which of several nodes `shash_find` gives is a choice.

## Runs

`tlc -config <cfg> <module>` in this directory.

| cfg | Question |
|---|---|
| `FanPolicy.cfg` | Do decision and conversions agree with the policy, for every set of six strings (one of them no speed) and every override? |
| `FandErrors.cfg` | One subsystem, every failure allowed: do registry, speeds and published rows stay right, and is every fresh struct polled in the pass that adds it?  Also checks `InductiveInvariant`. |
| `FandHardware.cfg` | Two FRUs, an override, three temperatures: what do the registers hold?  Does the walk over the Fan rows find each fan?  Is every step of the daemon one that `FanControl` allows? |
| `FandSubsystems.cfg` | Two subsystems that appear, go and reappear in mid-pass: is mark and sweep exact, does each follow its own sensors? |
| `FandLiveness.cfg` | With failing commits and i2c operations that succeed, do lasting faults and demands get through?  Does the dump account for the registers, and agree with the Fan rows? |
| `FanCliSessions.cfg` | Two sessions, two subsystems, another writer, transactions that fail or whose answers are lost: is success effective, are other keys kept, does the running configuration tell what was commanded last?  Also checks `CliInv`. |
| `FanCliLiveness.cfg` | Does the override of the last successful command reach the registers? |
| `FanLockFailover.cfg` | Processes die and sessions drop anywhere: who writes registers, does the survivor finish, is the late write of a deposed process repaired by the next change? |
| `FanTachPoll.cfg` | What may a poll report, whatever moves or fails meanwhile? |
| `FanNames.cfg` | Colliding and cut names: is every lookup answered, are the other fans unaffected? |
| `FandStaleLed.cfg` | DESIGN.md's loop sets the LEDs in every iteration: violated |
| `FandLostFans.cfg` | "as a side-effect, create all fans in the database": violated by a row that is replaced between two passes |

Further configurations each let TLC find what a comment, document or test says
and the code does not do.  They are not in `PROJECT.json`; TLC ends each with a
counterexample.

| cfg | Module | What it contradicts |
|---|---|---|
| `FandLostSpeed.cfg` | `MCFand` | `DESIGN.md:71-75` sets the speed in every iteration; one failed i2c write leaves hot fans slow, for it is not repeated |
| `FandFreshLed.cfg` | `MCFand` | `DESIGN.md:71-75` updates the status of a fan before it sets its LED; in the pass that adds a fan the LED shows what `malloc` left in the struct |
| `FandNoDirectory.cfg` | `MCFand` | "use a default if the hw_desc_dir has not been populated" (`fand.c:152`); the subsystem is not managed |
| `FandLostReady.cfg` | `MCFand` | "Set cur_hw = 1 if this is first time through" (`fand.c:476`); one failed commit, and it stays 0 |
| `FandStrayRow.cfg` | `MCFand` | "Skip if this subsystem is to be ignored" (`fand.c:526`); after a restart its Fan rows are looked up all the same and NULL is dereferenced |
| `FanCliShow.cfg` | `MCFanCli` | "Display fan table entries" (`fan_vty.c:130`); a row whose rpm is still empty is shown with some number |
| `FanCliRunningConfig.cfg` | `MCFanCli` | "verify if the fan-speed config is reflected in show running config" (`test_vtysh_ct_fan.py:124`); the override `normal` is left out |
| `FanCliGlobal.cfg` | `MCFanCli` | "Set fan speed globally" (`fan_vty.c:47`); only the first subsystem is set |
| `FanLockLateWrite.cfg` | `MCFanLock` | "disabling this process until it goes away" (`fand.c:569`); a session dropped in mid-pass, and the pass goes on writing |
| `FanLockLastWord.cfg` | `MCFanLock` | "sets the fan speed to an appropriate value" (`DESIGN.md:6`); the late write stays |
| `FanTachTorn.cfg` | `MCFanTach` | "so you can verify that the fans are operating properly" (`DESIGN.md:6`); a torn rpm that the fan never had |
| `FanNamesCollide.cfg` | `MCFanNames` | "hold the fans (by name)" (`fand.c:85`); an entry outlives its struct |

Bounds.  The daemon itself is never bounded.  `MaxDisturbances` bounds the
number of steps of everything else (other clients, hardware, crashes and
restarts): three in `FandErrors` and `FandSubsystems`, two in `FandHardware` and
`FandLiveness`.  Together with an arbitrary first database this covers, for
instance: a row deleted and re-created under another identity inside a commit,
followed by a crash; two crashes with a change between them; a temperature and
an override that change during an addition.  `Uuid` needs two values, one for a
row and one for its successor; the three databases that matter at a time
(server, replica, freed row) never need a third because an appearing row avoids
only the identity that the replica still knows.  One fan per FRU and one or two
FRUs are enough for the LED aggregation, two subsystems for interference.
`FandHardware` checks `NoStrayFanRow` for one subsystem whose description loads;
with more, a row freed under the loop can end it before the other subsystems are
visited, and their Fan rows are strays until the next pass.
`FandSubsystems` uses symmetry in `Uuid`, which no property mentions; it has no
temporal property.

The other instances.  `MCFanCli` bounds commands (three, two in the liveness
run) and the steps of others (two, one): enough for two sessions to write over
each other's and a third program's change, and for a row to go and come back in
between, whatever became of each transaction.  `FanCliSessions` holds the
controller still, whose steps no session can see; `FanCliLiveness` has one
subsystem and lets it run.  `Session` is a symmetry set in the former, whose properties range over sessions alike.
`MCFanLock` has two processes, two subsystems (so that a pass can be cut in the
middle), two speeds, and three disturbances: a dropped session, a change, and a
death or a takeover back.  `MCFanTach` takes counters on either side of a carry,
zero and the greatest; the word is scaled to 2^18 so that the greatest product just
overflows; at most two different inputs and one failed transfer in a poll.
`MCFanNames` has the smallest subsystems in which names collide across, within,
and both; one fan is faulty at a time.

Mutants.  The operators commented "Seeded mistake" are variants of the
definition that follows them; substituted for it, each makes one property of a
run fail, which shows that the property depends on that code.

### Fairness

`Fairness` says three things.  The daemon's thread keeps taking steps
(`WF(Daemon)`): its loops are finite, and `poll_block` returns after at most
`FAN_POLL_INTERVAL` seconds.  It is not refused the lock for ever
(`SF(FandRunWithLock)`): a lock is lost only to another daemon, which the
platform does not run.  And a commit that is repeated for ever succeeds at last
(`SF(CommitStatus(TRUE))`): `fand_read_status` tries again in every iteration.
Nothing is assumed of the other writers, of crashes, or of i2c: the liveness
properties are checked with `I2cErrors = FALSE` and claimed only there.  Where
transfers fail, a register write is not repeated (`FandLostSpeed.cfg`), and a
failed read of the fault input makes a broken fan "uninitialized" until the next
poll, so that its row would waver between the two.
`FandLostSpeed.cfg` adds the assumption that a speed written again and again
would be written at last, so that its counterexample is the missing retry and
not the fault of the bus.

`FanCli` assumes that the server answers each transaction, that the daemon looks
at a change, and that it does not reconsider for ever without deciding; the
last two are what `Fairness` gives for `Fand`.  `FanLock` assumes that no
process stops, that a free lock is given to somebody, that the holder hears of
it (`SF` of `FandRunWithLock` as the holder: the server's notice is in the same
stream as the updates), and that a lost session is noticed (the IDL probes its
connection).

## Proofs

`tlapm <module>.tla` checks every proof.  The constants are arbitrary within
the named assumptions of the modules (`HardwareDescription`, `FandAssumption`
and `NullIsNoValue` for the daemon): any number of subsystems, FRUs, fans,
processes and sessions, any identities, any failures.  `NullIsNoValue` says that
the null pointer is none of the values of the program, and names the speeds
beside `STRING` because the provers do not know that a given string is one.
`NamesAssumption` has finitely many fans.

- `FanPolicyProofs`: `SpeedIsPolicy` and `HotterIsNeverSlower`, for every set of
  strings.  The lemma `EnumOfName` turns the table search into `Rank`;
  `HighestIsHottest` shows that the maximum exists and is the hottest rank;
  `SpeedFromNames` recovers a speed from the names the dump prints.
- `MCFanPolicyProofs`: the three properties of `FanPolicy.cfg` for every set of
  strings (`PolicyHolds`, `HotterHolds`, `NamesHold`).
- `FandProofs`: `InvariantHolds`, that is `Spec => []InductiveInvariant`, and
  its consequences `TypeCorrect`, `RegistryIsConsistent`,
  `RegistryFollowsDatabase`, `StructsArePolledInTheirPass`, `SpeedsObeyPolicy`,
  and `ControlsObeyPolicy` (where i2c writes succeed).  Then two theorems with a
  hypothesis that the code needs: `SystemLedsShowWorst`, where i2c transfers do
  not fail (a lost write leaves an LED behind the others), and `NoFanRowIsStray`, where
  descriptions load and there is one subsystem (with two, a freed row ends the
  loop before the other is visited, whose Fan rows are then strays; where
  descriptions do not load, see `FandStrayRow.cfg`).
- `FandStepProofs`: the action properties `ReadinessFollowsPolling`, `RpmStays`
  and `HotFansAreNotSlowed`; `DumpAccountsForSpeeds` (where i2c writes succeed)
  and `DumpAgreesWithDatabase`; and `FandImplementsFanControl`, one lemma per
  action of the daemon, each mapped to a step of `FanControl` or a stutter.
- `FanCliProofs`: `CliInvariant`, `OtherKeysAreKept`, `SuccessMeansEffect`,
  `RunningConfigIsCommanded`, and `CliOnlyDemands`: the composition of the sessions
  and the other writers with the abstract controller implements `FanControl`.
- `FanLockProofs`: `HolderDrives`.  The strengthening is that a process whose
  session lives and that believes to have the lock holds it at the server, and
  that one past the test believes so; it is inductive because a grant needs a
  free lock, and only death or a drop of the holder's session frees it.
- `FanTachProofs`: type correctness and every property of the poll, for any
  counter, word size and description.  The strengthening `PollInv` says of each
  transfer carried out that its result is what some input of the poll shows.
- `FanNamesProofs`: `NamesTypeCorrect`, `NamesAreFound`, `UnsharedNames`,
  `RowsTellTheirFans` and `LedsTellTheirFans`.

Why the invariants are what they are.  The properties of `Fand` speak of the
times when no reconfiguration is due, which says nothing about the middle of a
pass.  `RegistryInv` (types, `RegistryConsistent`, the control variables, what
has been polled) is inductive by itself.  `SpeedInv` is inductive on top of it,
and its idea is the mark: a mark vouches that the recorded speed is the policy's
for the row in the replica (`SpeedsOK`) and that the registers hold it
(`RegistersOK`), as long as the replica has not changed unnoticed; `VisitedOK`
says that a row the loop has passed is marked or is being added, so that the
sweep keeps everything it should.  A refresh either raises `idl_changed`, which
frees these conjuncts from any obligation until the next pass resets the marks,
or is quiet, and then `QuietRefresh` shows that it changed nothing they mention.
The registers need that no register belongs to two subsystems
(`ControlsDisjoint`).  `FanRowsOK`, that only the daemon writes Fan rows, carries
the action properties.

`RowInv` is what the dump and the Fan rows need.  `ConfiguredOK`: the demand and
the override recorded in a marked struct make its speed, so that the two strings
printed explain the registers even while the replica has moved on.
`DescribedOK`: every Fan row belongs to a Subsystem row that names a description
with that fan, in the database and in the replica, so that the pass which sees
the row adds the fan.  `SweepOK`: where a change of the replica in mid-pass voids
`VisitedOK`, it came with the addition of a subsystem, which is marked; with one
subsystem that is the one whose rows the walk meets.  The LEDs need no invariant
of the daemon: `SetFanLedsKeepsWorst` shows that each call of `fand_set_fanleds`
leaves the subsystem's LED the worst of its FRUs', given that a struct's status
is an integer.

In `FanNames` the argument counts: additions and removals change the number of
nodes of a name and the number of live fans that bear it by as much (a removal
takes any node of the name, possibly another fan's, and counts the freed struct
that stays behind), which is `EveryNameIsFound`; an unshared name has one bearer,
so its node is that fan's and never dangles (`AloneClean`).

`CliInv` follows `other_config` from the database into the replica, from the
replica into the clone and back: the transaction under way was made from a row
that the replica still holds, because a session waits for its answer before it
catches up.  That the row of a command is a row at all (`FirstIsRow`) needs that
every set of row identities has a least one, by well-foundedness of the naturals.
`LastOK` ties the history to the database: after a success the row holds that
override until another command reports or the row goes, a later row being one of
another identity; with it a session that has caught up shows what was commanded.

Only model-checked: liveness (out of the prover's reach, as is ENABLED), and the
violations, which are counterexamples on an instance.  Every safety property that
a passing run checks is stated by a theorem.  `SystemLedIsWorst`,
`NoStrayFanRow`, `DumpExplainsSpeeds` and `RegistersObeyPolicy` are proved under the
hypotheses named above, which the constants of their runs satisfy.  There
is no recursive operator in the project.

## Abstractions, and what is not modelled

- In `Fand` a fan stands for its name `<subsystem>-<fan>`, taken to be unique
  and short; what happens otherwise is in `FanNames`, where in turn no operation
  fails and a pass is two steps.
- `fan_state` strings of a subsystem are a set: the loop computes a maximum.
- The replica is brought up to the database whenever the IDL runs; an update
  that arrives later is a write that happens later.  The moments of a start at
  which the lock is granted before the first contents arrive show the daemon an
  empty database, with which it does nothing.
- A transaction is applied when the daemon learns of it, or by a `Crash` that
  comes after the server has carried it out.
- In `Fand` a poll is one step, the raw reading one value, and `Rpm` does not
  wrap; `FanTach` has the rest.
- Failures of i2c are independent choices.
- In `Fand` there is one daemon process and the lock appears as
  `FandRunWithoutLock`; `FanLock` has several, with one speed per subsystem in
  place of sensors, override, additions and removals.
- The daemon alone writes Fan rows: `Environment` has no other client that does,
  though `ovs-vsctl` may insert one by hand (a row whose name the daemon does not
  know makes it dereference NULL, as in `FandStrayRow.cfg`).
- `FanLock`: whether there is anything to publish is judged by the database and
  not by the process's replica of the published speeds, which no property
  mentions; and gaining the lock and reconnecting move the IDL's sequence number,
  as they do in ovsdb-idl.
- `FanCli`: rows are listed in the order of their identities; that a growing hash
  table may reorder them is left out, as is the abort of a transaction that could
  not be created.
- `FanNames`: what freed or fresh memory holds is a value of `Garbage`; in the
  run, one above all enumerators.
- Not modelled: the wording of dump and CLI output; command-line options (parsed
  once, before there is any state); event log and vlog (text); the yaml parser,
  i2c driver and ovsdb libraries, which are outside the repository and appear by
  what their callers can see.

## Plan

Done: types, policy, hardware, the daemon with its inductive invariant, safety
and action theorems; the abstract controller with the refinement and its proof;
the CLI; the lock; the poll and its theorems; names; the dump.

Also done: theorems for every safety property that a passing run checks.

Next: type correctness of `FanLock`, and a theorem of `FanControl` itself (a
settled controller meets every demand it has seen), which the refinements hand
down to the daemon and to its composition with the CLI.
