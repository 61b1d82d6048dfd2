------------------------------- MODULE FanCli -------------------------------
(***************************************************************************)
(* The CLI of ops-fand (fan_vty.c, vtysh_ovsdb_fan_context.c): sessions of *)
(* vtysh, each with a replica of the database of its own, that configure   *)
(* the override and show the fans, while the daemon, as FanControl         *)
(* promises it, drives them.                                               *)
(*                                                                         *)
(* A command works on the session's replica and sends whole columns to     *)
(* the server without verifying what it has read; the replica may be       *)
(* behind the database, and the database may move before the server        *)
(* carries out the transaction.                                            *)
(***************************************************************************)
EXTENDS FanControl, Functions, TLC

CONSTANTS
  Session,          \* running instances of vtysh
  Fan,              \* names of Fan rows
  RowId,            \* identities of Subsystem rows, numbered in the order in
                    \* which the hash table of an IDL lists them
  OtherSettings,    \* what other programs write to other_config:foreign
  Rpm,              \* measured speeds
  CommitErrors      \* may a transaction fail?

ASSUME CliAssumption ==
  /\ RowId \subseteq Nat
  /\ Rpm \subseteq Nat
  /\ CommitErrors \in BOOLEAN
  /\ NULL \notin Demand

VARIABLES
  row_id,           \* identity of each Subsystem row
  foreign,          \* its other_config without the key of the override
  fan,              \* rpm by name of Fan row, NULL while there is none
  idl,              \* the replica of each session
  txn,              \* the transaction a session waits for, or NULL
  last,             \* the last command carried out by the server (history)
  screen            \* what "show system fan" last printed to a session

cliVars == <<row_id, foreign, fan, idl, txn, last, screen>>

allVars == <<vars, cliVars>>

-----------------------------------------------------------------------------
(* struct smap: a function from the keys present to their values. *)

smap_init == [key \in {} |-> NULL]

smap_get(config, key) == IF key \in DOMAIN config THEN config[key] ELSE NULL

(* Seeded mistake: an existing key is not replaced.                        *)
smap_add_once(config, key, value) == config @@ (key :> value)

smap_replace(config, key, value) ==
  [k \in DOMAIN config \cup {key} |-> IF k = key THEN value ELSE config[k]]

smap_remove(config, key) == Restrict(config, DOMAIN config \ {key})

(* Seeded mistake: the CLI's name for the key is not the daemon's.         *)
MISSPELT_OVERRIDE_STR == "fan_override"

FAN_SPEED_OVERRIDE_STR == "fan_speed_override"

-----------------------------------------------------------------------------
(* The database, and what a replica holds of it. *)

Rows == {s \in Subsystem : demand[s] # NULL}

OtherConfig(s) ==
  IF demand[s].fan_speed_override = NULL THEN foreign[s]
  ELSE smap_replace(foreign[s], "fan_speed_override", demand[s].fan_speed_override)

Database ==
  [subsystem |-> [s \in Rows |-> [row_id |-> row_id[s], other_config |-> OtherConfig(s)]],
   fan       |-> fan]

(* ovsrec_subsystem_first. *)
First(d) ==
  CHOOSE s \in DOMAIN d.subsystem :
    \A t \in DOMAIN d.subsystem : d.subsystem[s].row_id <= d.subsystem[t].row_id

(* The server sets the column other_config of the row with that identity;  *)
(* a row that is gone is no error.                                         *)
ColumnWritten(s, id, config) ==
  IF s \in Rows /\ row_id[s] = id
  THEN /\ demand' = [demand EXCEPT ![s].fan_speed_override =
                                     smap_get(config, "fan_speed_override")]
       /\ foreign' = [foreign EXCEPT ![s] = smap_remove(config, "fan_speed_override")]
  ELSE UNCHANGED <<demand, foreign>>

ForeignConfig == {smap_init} \cup [{"foreign"} -> OtherSettings]

CliTypeOK ==
  /\ demand \in Demands
  /\ row_id \in [Subsystem -> RowId]
  /\ foreign \in [Subsystem -> ForeignConfig]
  /\ \A s \in Subsystem \ Rows : foreign[s] = smap_init

(* A value that the column other_config may hold. *)
IsConfig(config) ==
  /\ smap_remove(config, "fan_speed_override") \in ForeignConfig
  /\ smap_get(config, "fan_speed_override") \in Overrides \cup {NULL}

ReplicasOK ==
  /\ DOMAIN idl = Session
  /\ \A c \in Session : \A s \in DOMAIN idl[c].subsystem :
       /\ idl[c].subsystem[s].row_id \in RowId
       /\ IsConfig(idl[c].subsystem[s].other_config)

(* A transaction under way was made from a row that the replica still      *)
(* holds: it carries the override commanded, and the other keys as the     *)
(* session has seen them.                                                  *)
TransactionsOK ==
  /\ DOMAIN txn = Session
  /\ \A c \in Session : txn[c] # NULL =>
       LET row == idl[c].subsystem[txn[c].subsystem]
       IN  /\ txn[c].subsystem \in DOMAIN idl[c].subsystem
           /\ txn[c].row_id = row.row_id
           /\ txn[c].override \in Overrides \cup {NULL}
           /\ smap_get(txn[c].config, "fan_speed_override") = txn[c].override
           /\ smap_remove(txn[c].config, "fan_speed_override")
                = smap_remove(row.other_config, "fan_speed_override")

(* The last command was answered with success, and its row is still there. *)
LastSucceeded ==
  IF last = NULL THEN FALSE
  ELSE /\ last.status = "TXN_SUCCESS"
       /\ last.subsystem \in Rows
       /\ row_id[last.subsystem] = last.row_id

(* Then it is still what the row holds: only commands set the key of the   *)
(* override, and a later row has another identity.                         *)
LastOK ==
  LastSucceeded => demand[last.subsystem].fan_speed_override = last.override

(* The column other_config is well formed wherever it is held: in the      *)
(* database, where the CLI writes it whole, in every replica, and in every *)
(* transaction, which keeps to the row, the override and the other keys of *)
(* the clone it was made from (vtysh_ovsdb_fan_speed_set, lines 76-86); no *)
(* write but the last command's is left in a row.                          *)
CliInv == CliTypeOK /\ ReplicasOK /\ TransactionsOK /\ LastOK

CliInit ==
  /\ Init
  /\ \A s \in Rows : demand[s].fan_speed_override = NULL
  /\ row_id \in Injection(Subsystem, RowId)
  /\ foreign = [s \in Subsystem |-> smap_init]
  /\ fan = smap_init
  /\ idl = [c \in Session |-> Database]
  /\ txn = [c \in Session |-> NULL]
  /\ last = NULL
  /\ screen = [c \in Session |-> NULL]

-----------------------------------------------------------------------------
(* The commands. *)

(* Seeded mistakes: the other keys are not cloned; "no fan-speed" stores a *)
(* word.                                                                   *)
OnlyOverride(config, override) ==
  IF override # NULL THEN FAN_SPEED_OVERRIDE_STR :> override ELSE smap_init

OverrideOrNone(config, override) ==
  smap_replace(config, FAN_SPEED_OVERRIDE_STR, IF override = NULL THEN "none" ELSE override)

(* The clone of other_config with the override set, or removed when        *)
(* override is NULL.                                                       *)
WithOverride(config, override) ==
  IF override # NULL
  THEN smap_replace(config, FAN_SPEED_OVERRIDE_STR, override)
  ELSE smap_remove(config, FAN_SPEED_OVERRIDE_STR)

(* "fan-speed <override>", or "no fan-speed" for NULL, up to the commit.   *)
(* Without a row the command fails; a column that would not change is not  *)
(* sent (TXN_UNCHANGED), and the command succeeds at once.                 *)
vtysh_ovsdb_fan_speed_set(c, override) ==
  /\ txn[c] = NULL
  /\ DOMAIN idl[c].subsystem # {}
  /\ LET s      == First(idl[c])
         row    == idl[c].subsystem[s]
         config == WithOverride(row.other_config, override)
     IN  IF config = row.other_config
         THEN /\ last' = [session |-> c, subsystem |-> s, row_id |-> row.row_id, override |-> override,
                          status |-> "TXN_UNCHANGED"]
              /\ UNCHANGED txn
         ELSE /\ txn' = [txn EXCEPT ![c] =
                           [subsystem |-> s, row_id |-> row.row_id, override |-> override,
                            config |-> config]]
              /\ UNCHANGED last
  /\ UNCHANGED <<vars, row_id, foreign, fan, idl, screen>>

(* cli_do_config_finish: the server carries out the transaction and the    *)
(* reply arrives, or neither happens, or only the first: then, as after    *)
(* any failure, the command reports CMD_OVSDB_FAILURE.  The replica moves. *)
cli_do_config_finish(c) ==
  /\ txn[c] # NULL
  /\ \E carried_out \in IF CommitErrors THEN BOOLEAN ELSE {TRUE},
        answered    \in IF CommitErrors THEN BOOLEAN ELSE {TRUE} :
       /\ answered => carried_out
       /\ IF carried_out
          THEN ColumnWritten(txn[c].subsystem, txn[c].row_id, txn[c].config)
          ELSE UNCHANGED <<demand, foreign>>
       /\ last' = [session |-> c, subsystem |-> txn[c].subsystem,
                   row_id |-> txn[c].row_id, override |-> txn[c].override,
                   status |-> IF answered THEN "TXN_SUCCESS" ELSE "TXN_TRY_AGAIN"]
  /\ txn' = [txn EXCEPT ![c] = NULL]
  /\ UNCHANGED <<controller, output, row_id, fan, screen>>
  /\ idl' = [idl EXCEPT ![c] = Database']

(* The session catches up with the database, between two commands.         *)
Refresh(c) ==
  /\ txn[c] = NULL
  /\ idl[c] # Database
  /\ idl' = [idl EXCEPT ![c] = Database]
  /\ UNCHANGED <<vars, row_id, foreign, fan, txn, last, screen>>

(* The first key of the rpm of a row, tested only for the datum's          *)
(* existence; of an empty one, whatever the memory holds.                  *)
FirstKey(rpm) == IF rpm = NULL THEN Rpm \cup {0} ELSE {rpm}

(* "show system fan", of the replica as it is. *)
vtysh_ovsdb_fan_show(c) ==
  /\ txn[c] = NULL
  /\ LET d == idl[c]
     IN  IF DOMAIN d.subsystem = {}
         THEN screen' = [screen EXCEPT ![c] = NULL]   \* no more than the heading
         ELSE \E rpm \in [DOMAIN d.fan -> Rpm \cup {0}] :
                /\ \A f \in DOMAIN d.fan : rpm[f] \in FirstKey(d.fan[f])
                /\ screen' = [screen EXCEPT ![c] =
                     [rpm      |-> rpm,
                      override |-> smap_get(d.subsystem[First(d)].other_config,
                                            "fan_speed_override")]]
  /\ UNCHANGED <<vars, row_id, foreign, fan, idl, txn, last>>

(* The same where the keys of an empty rpm are a null pointer: this vtysh  *)
(* ends, and the operator starts another.                                  *)
ShowEndsSession(c) ==
  /\ txn[c] = NULL
  /\ DOMAIN idl[c].subsystem # {}
  /\ \E f \in DOMAIN idl[c].fan : idl[c].fan[f] = NULL
  /\ idl' = [idl EXCEPT ![c] = Database]
  /\ screen' = [screen EXCEPT ![c] = NULL]
  /\ UNCHANGED <<vars, row_id, foreign, fan, txn, last>>

(* Seeded mistake: the default is printed, and nothing else.               *)
PrintsOnlyNormal(d) ==
  IF DOMAIN d.subsystem = {} THEN NULL
  ELSE LET data == smap_get(d.subsystem[First(d)].other_config, FAN_SPEED_OVERRIDE_STR)
       IN  IF data = "normal" THEN data ELSE NULL

(* The line that vtysh_config_context_fan_clientcallback contributes to    *)
(* "show running-config": a fan-speed command, or nothing (NULL).          *)
vtysh_config_context_fan_clientcallback(d) ==
  IF DOMAIN d.subsystem = {} THEN NULL
  ELSE LET data == smap_get(d.subsystem[First(d)].other_config, FAN_SPEED_OVERRIDE_STR)
       IN  IF data = "normal" THEN NULL ELSE data

-----------------------------------------------------------------------------
(* The other writers. *)

CliUnchanged == UNCHANGED <<controller, output, idl, txn, last, screen>>

(* A row is created, under an identity nobody remembers, or deleted.       *)
SubsystemAppears(s) ==
  /\ s \notin Rows
  /\ \E r \in SensorReadings, id \in RowId :
       /\ \A t \in Subsystem : row_id[t] # id
       /\ \A c \in Session : txn[c] # NULL => txn[c].row_id # id
       /\ last # NULL => last.row_id # id
       /\ \A c \in Session : \A t \in DOMAIN idl[c].subsystem : idl[c].subsystem[t].row_id # id
       /\ demand' = [demand EXCEPT ![s] = [temp_sensors |-> r, fan_speed_override |-> NULL]]
       /\ row_id' = [row_id EXCEPT ![s] = id]
  /\ UNCHANGED <<foreign, fan>> /\ CliUnchanged

SubsystemGoes(s) ==
  /\ s \in Rows
  /\ demand' = [demand EXCEPT ![s] = NULL]
  /\ foreign' = [foreign EXCEPT ![s] = smap_init]
  /\ UNCHANGED <<row_id, fan>> /\ CliUnchanged

(* ops-tempd. *)
SensorsReport(s) ==
  /\ s \in Rows
  /\ \E r \in SensorReadings \ {demand[s].temp_sensors} :
       demand' = [demand EXCEPT ![s].temp_sensors = r]
  /\ UNCHANGED <<row_id, foreign, fan>> /\ CliUnchanged

(* Some other program sets its own key of other_config.                    *)
ForeignKeyIsSet(s) ==
  /\ s \in Rows
  /\ \E v \in OtherSettings :
       /\ smap_get(foreign[s], "foreign") # v
       /\ foreign' = [foreign EXCEPT ![s] = smap_replace(@, "foreign", v)]
  /\ UNCHANGED <<demand, row_id, fan>> /\ CliUnchanged

(* ops-fand adds a Fan row, without an rpm, and publishes one when it has  *)
(* polled the fan.                                                         *)
FanRowAppears(f) ==
  /\ f \notin DOMAIN fan
  /\ fan' = (f :> NULL) @@ fan
  /\ UNCHANGED <<demand, row_id, foreign>> /\ CliUnchanged

RpmIsPublished(f) ==
  /\ f \in DOMAIN fan
  /\ \E rpm \in Rpm \ {fan[f]} : fan' = [fan EXCEPT ![f] = rpm]
  /\ UNCHANGED <<demand, row_id, foreign>> /\ CliUnchanged

Command ==
  \E c \in Session :
    \/ \E override \in Overrides \cup {NULL} : vtysh_ovsdb_fan_speed_set(c, override)
    \/ vtysh_ovsdb_fan_show(c) \/ ShowEndsSession(c)

Others ==
  \/ \E s \in Subsystem : \/ SubsystemAppears(s) \/ SubsystemGoes(s)
                          \/ SensorsReport(s) \/ ForeignKeyIsSet(s)
  \/ \E f \in Fan : FanRowAppears(f) \/ RpmIsPublished(f)

Replies == \E c \in Session : cli_do_config_finish(c) \/ Refresh(c)

ControllerSteps == (Controller \/ Restart) /\ UNCHANGED cliVars

CliNext == Command \/ Replies \/ Others \/ ControllerSteps

CliSpec == CliInit /\ [][CliNext]_allVars

(* Each transaction is answered; the daemon looks at what has changed, and *)
(* does not reconsider for ever without deciding.                          *)
CliFairness ==
  /\ \A c \in Session : WF_allVars(cli_do_config_finish(c))
  /\ WF_allVars(Look /\ seen # demand /\ UNCHANGED cliVars)
  /\ \A s \in Subsystem : SF_allVars(Decide(s) /\ UNCHANGED cliVars)

-----------------------------------------------------------------------------
(* What the commands do. *)

(* A command touches no other program's key, unless that key has changed   *)
(* since the session last caught up: other_config is written back whole,   *)
(* from the clone (lines 76-86), and the clone may be old.                 *)
OtherKeysKept ==
  [][\A c \in Session : \A s \in Subsystem :
       /\ cli_do_config_finish(c)
       /\ s \in DOMAIN idl[c].subsystem /\ s \in Rows
       /\ idl[c].subsystem[s].row_id = row_id[s]
       /\ smap_remove(idl[c].subsystem[s].other_config, "fan_speed_override") = foreign[s]
       => foreign'[s] = foreign[s]]_allVars

(* A command that reports success has had its effect, on the row it was    *)
(* given for, unless its session was behind the database when it cloned    *)
(* the row: TXN_UNCHANGED counts as success (line 90), and the server does *)
(* not say that the row it was to update is gone.                          *)
SuccessIsEffective ==
  [][\A s \in Rows :
       /\ last' # last /\ last'.subsystem = s /\ last'.row_id = row_id[s]
       /\ \/ last'.status = "TXN_SUCCESS"
          \/ last'.status = "TXN_UNCHANGED" /\ idl[last'.session] = Database
       => demand'[s].fan_speed_override = last'.override]_allVars

(* "show running-config", asked of a session that has caught up, prints    *)
(* the command that the operators' last successful one amounts to, in      *)
(* whichever session it was given, with whatever lost answers, foreign     *)
(* writes and replaced rows in between: the line of that override for      *)
(* "fan-speed", none for "no fan-speed" and for "normal", which the        *)
(* callback leaves out (fan_context.c, line 55).                           *)
RunningConfigTellsCommand ==
  \A c \in Session :
    idl[c] = Database /\ LastSucceeded /\ last.subsystem = First(idl[c])
      => vtysh_config_context_fan_clientcallback(idl[c])
           = IF last.override = "normal" THEN NULL ELSE last.override

(* The command with the last word: an override that the server has         *)
(* accepted, for a row that is still there, with no over-temperature.      *)
HasTheLastWord ==
  /\ LastSucceeded
  /\ last.override # NULL
  /\ last.subsystem \in Adopted
  /\ "max" \notin demand[last.subsystem].temp_sensors

RepeatsLastWord ==
  IF last = NULL \/ last' = NULL THEN FALSE
  ELSE last'.subsystem = last.subsystem /\ last'.override = last.override

FansObeyLastWord ==
  IF last = NULL \/ last.override = NULL THEN FALSE
  ELSE \A c \in ControlsOf[last.subsystem] : output[c] = Rank[last.override]

(* What the session that has the last word commands reaches the fans:      *)
(* every register of that subsystem is set to it in the end; other         *)
(* sessions, other keys, lagging replicas and the daemon's pace make no    *)
(* difference.                                                             *)
CommandReachesFans ==
  <>[]HasTheLastWord /\ <>[][RepeatsLastWord]_last => <>[]FansObeyLastWord

-----------------------------------------------------------------------------
(* What comments and tests say and the code does not do. *)

(* "Set fan speed globally" (vtysh_ovsdb_fan_speed_set).                   *)
SetsSpeedGlobally ==
  \A v \in Overrides :
    <>[](/\ last # NULL /\ last.status = "TXN_SUCCESS" /\ last.override = v
         /\ Rows = Subsystem /\ Adopted = Subsystem
         /\ \A s \in Subsystem : "max" \notin demand[s].temp_sensors)
      => <>[](\A s \in Subsystem : \A c \in ControlsOf[s] : output[c] = Rank[v])

(* Entered again at the next boot, the line of the running configuration   *)
(* gives the fans the speed they have now, whatever the sensors report.    *)
Restores(d) ==
  LET now  == smap_get(d.subsystem[First(d)].other_config, FAN_SPEED_OVERRIDE_STR)
      then == vtysh_config_context_fan_clientcallback(d)
  IN  \A r \in SensorReadings : Speed(r, then) = Speed(r, now)

(* "verify if the fan-speed config is reflected in show running config"    *)
(* (test_vtysh_ct_fan.py).                                                 *)
RunningConfigReflectsSpeed ==
  \A c \in Session : DOMAIN idl[c].subsystem # {} => Restores(idl[c])

(* "Display fan table entries" (vtysh_ovsdb_fan_show).                     *)
ShowsFanTable ==
  [][\A c \in Session :
       vtysh_ovsdb_fan_show(c) /\ DOMAIN idl[c].subsystem # {}
         => \A f \in DOMAIN idl[c].fan : screen'[c].rpm[f] = idl[c].fan[f]]_allVars

=============================================================================
