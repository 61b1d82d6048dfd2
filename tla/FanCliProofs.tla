---------------------------- MODULE FanCliProofs ----------------------------
(***************************************************************************)
(* The CLI, for any number of sessions and of other writers, and whatever  *)
(* transactions fail: what the server has accepted is what was commanded,  *)
(* and to the daemon the CLI is a source of demands like any other.        *)
(***************************************************************************)
EXTENDS FanCli, WellFoundedInduction, TLAPS

-----------------------------------------------------------------------------
(* struct smap. *)

(* An override is read back as set, and removing it leaves the rest.       *)
LEMMA ReplacedIsRead ==
  ASSUME NEW config, NEW value
  PROVE  LET new == smap_replace(config, "fan_speed_override", value)
         IN  /\ smap_get(new, "fan_speed_override") = value
             /\ smap_remove(new, "fan_speed_override")
                  = smap_remove(config, "fan_speed_override")
<1> DEFINE key == "fan_speed_override"
           new == smap_replace(config, key, value)
<1>1. /\ DOMAIN new = DOMAIN config \cup {key}
      /\ new[key] = value
      /\ \A k \in DOMAIN config \ {key} : new[k] = config[k]
  BY DEF smap_replace
<1> HIDE DEF new
<1>2. DOMAIN new \ {key} = DOMAIN config \ {key}
  BY <1>1
<1>3. smap_remove(new, key) = smap_remove(config, key)
  BY <1>1, <1>2 DEF smap_remove, Restrict
<1> QED BY <1>1, <1>3 DEF smap_get, new

(* A key removed is absent, and stays so when it is removed again.         *)
LEMMA RemovedIsAbsent ==
  ASSUME NEW config
  PROVE  LET new == smap_remove(config, "fan_speed_override")
         IN  /\ smap_get(new, "fan_speed_override") = NULL
             /\ smap_remove(new, "fan_speed_override") = new
<1> DEFINE key == "fan_speed_override"
           new == smap_remove(config, key)
<1>1. /\ DOMAIN new = DOMAIN config \ {key}
      /\ new = [k \in DOMAIN config \ {key} |-> config[k]]
  BY DEF smap_remove, Restrict
<1> HIDE DEF new
<1>2. smap_remove(new, key) = [k \in DOMAIN config \ {key} |-> new[k]]
  BY <1>1 DEF smap_remove, Restrict
<1>3. smap_remove(new, key) = new
  BY <1>1, <1>2
<1>4. smap_get(new, key) = NULL
  BY <1>1 DEF smap_get
<1> QED BY <1>3, <1>4 DEF new

(* The clone that a command sends has the override commanded, and all      *)
(* other keys as they were.                                                *)
LEMMA WithOverrideIsRead ==
  ASSUME NEW config, NEW override
  PROVE  /\ smap_get(WithOverride(config, override), "fan_speed_override") = override
         /\ smap_remove(WithOverride(config, override), "fan_speed_override")
              = smap_remove(config, "fan_speed_override")
BY ReplacedIsRead, RemovedIsAbsent DEF WithOverride, FAN_SPEED_OVERRIDE_STR

(* What other programs write lacks the key of the override.                *)
LEMMA ForeignIsConfig ==
  ASSUME NEW config \in ForeignConfig
  PROVE  /\ smap_get(config, "fan_speed_override") = NULL
         /\ smap_remove(config, "fan_speed_override") = config
<1>1. "foreign" # "fan_speed_override"
  OBVIOUS
<1>2. /\ DOMAIN config = {} \/ DOMAIN config = {"foreign"}
      /\ config = [k \in DOMAIN config |-> config[k]]
  BY DEF ForeignConfig, smap_init
<1>3. DOMAIN config \ {"fan_speed_override"} = DOMAIN config
  BY <1>1, <1>2
<1> QED BY <1>1, <1>2, <1>3 DEF smap_get, smap_remove, Restrict

(* Another program's key is set in a value it may have.                    *)
LEMMA ForeignIsSet ==
  ASSUME NEW config \in ForeignConfig, NEW v \in OtherSettings
  PROVE  smap_replace(config, "foreign", v) \in ForeignConfig
<1>1. DOMAIN config = {} \/ DOMAIN config = {"foreign"}
  BY DEF ForeignConfig, smap_init
<1>2. DOMAIN config \cup {"foreign"} = {"foreign"}
  BY <1>1
<1>3. smap_replace(config, "foreign", v) = [k \in {"foreign"} |-> v]
  BY <1>2 DEF smap_replace
<1> QED BY <1>3 DEF ForeignConfig

-----------------------------------------------------------------------------
(* The database and its replicas. *)

(* The column is the foreign keys and the override of the demand.          *)
LEMMA OtherConfigIsConfig ==
  ASSUME CliTypeOK, NEW s \in Rows
  PROVE  /\ IsConfig(OtherConfig(s))
         /\ smap_get(OtherConfig(s), "fan_speed_override") = demand[s].fan_speed_override
         /\ smap_remove(OtherConfig(s), "fan_speed_override") = foreign[s]
<1>1. demand[s] \in Demand /\ foreign[s] \in ForeignConfig
  BY DEF Rows, CliTypeOK, Demands
<1>2. demand[s].fan_speed_override \in Overrides \cup {NULL}
  BY <1>1 DEF Demand
<1>3. CASE demand[s].fan_speed_override = NULL
  BY <1>1, <1>3, ForeignIsConfig DEF OtherConfig, IsConfig
<1>4. CASE demand[s].fan_speed_override # NULL
  BY <1>1, <1>2, <1>4, ReplacedIsRead, ForeignIsConfig DEF OtherConfig, IsConfig
<1> QED BY <1>3, <1>4

DatabaseOK ==
  \A s \in DOMAIN Database.subsystem :
    /\ Database.subsystem[s].row_id \in RowId
    /\ IsConfig(Database.subsystem[s].other_config)

LEMMA DatabaseIsOK == CliTypeOK => DatabaseOK
<1> SUFFICES ASSUME CliTypeOK, NEW s \in Rows
             PROVE  row_id[s] \in RowId /\ IsConfig(OtherConfig(s))
  BY DEF DatabaseOK, Database
<1> QED BY OtherConfigIsConfig DEF CliTypeOK, Rows

(* Every nonempty set of row identities has a least one.                   *)
LEMMA LeastRowId ==
  ASSUME NEW T \in SUBSET Nat, T # {}
  PROVE  \E x \in T : \A y \in T : x <= y
<1> DEFINE R == {ss \in Nat \X Nat : ss[1] < ss[2]}
<1>1. IsWellFoundedOn(R, Nat)
  BY NatLessThanWellFounded DEF OpToRel
<1>2. \A x, y \in Nat : <<y, x>> \in R <=> y < x
  OBVIOUS
<1> HIDE DEF R
<1>3. PICK x \in T : \A y \in T : ~ (<<y, x>> \in R)
  BY <1>1, WFMin
<1>4. \A y \in T : x <= y
  <2> TAKE y \in T
  <2>1. x \in Nat /\ y \in Nat /\ ~ (y < x)
    BY <1>2, <1>3
  <2> QED BY <2>1
<1> QED BY <1>4

(* The row that a command is for is a row of its replica.                  *)
LEMMA FirstIsRow ==
  ASSUME ReplicasOK, NEW c \in Session, DOMAIN idl[c].subsystem # {}
  PROVE  First(idl[c]) \in DOMAIN idl[c].subsystem
<1> DEFINE d   == idl[c]
           ids == {d.subsystem[s].row_id : s \in DOMAIN d.subsystem}
<1>1. ids \in SUBSET Nat /\ ids # {}
  BY CliAssumption DEF ReplicasOK
<1>2. PICK x \in ids : \A y \in ids : x <= y
  <2> HIDE DEF ids
  <2> QED BY <1>1, LeastRowId
<1>3. \E s \in DOMAIN d.subsystem : \A t \in DOMAIN d.subsystem :
        d.subsystem[s].row_id <= d.subsystem[t].row_id
  BY <1>2
<1> HIDE DEF d
<1> QED BY <1>3 DEF First, d

-----------------------------------------------------------------------------
(* The invariant. *)

LEMMA CliInitHolds == CliInit => CliInv
<1> SUFFICES ASSUME CliInit PROVE CliInv
  OBVIOUS
<1>1. CliTypeOK
  BY DEF CliInit, Init, CliTypeOK, ForeignConfig, Injection
<1>2. ReplicasOK
  BY <1>1, DatabaseIsOK DEF CliInit, ReplicasOK, DatabaseOK
<1>3. TransactionsOK
  BY DEF CliInit, TransactionsOK
<1>4. LastOK
  BY DEF CliInit, LastOK, LastSucceeded
<1> QED BY <1>1, <1>2, <1>3, <1>4 DEF CliInv

(* The server's write of a well-formed column: the override goes to the    *)
(* demand, the rest to the other programs.                                 *)
LEMMA ColumnWrittenKeepsTypes ==
  ASSUME CliTypeOK, NEW s, NEW id, NEW config, IsConfig(config),
         ColumnWritten(s, id, config), UNCHANGED row_id
  PROVE  CliTypeOK'
<1>1. CASE s \in Rows /\ row_id[s] = id
  <2> DEFINE v == smap_get(config, "fan_speed_override")
             r == smap_remove(config, "fan_speed_override")
  <2>1. /\ demand' = [demand EXCEPT ![s].fan_speed_override = v]
        /\ foreign' = [foreign EXCEPT ![s] = r]
    BY <1>1 DEF ColumnWritten
  <2>2. s \in Subsystem /\ demand[s] \in Demand
    BY <1>1 DEF Rows, CliTypeOK, Demands
  <2>3. v \in Overrides \cup {NULL} /\ r \in ForeignConfig
    BY DEF IsConfig
  <2> HIDE DEF v, r
  <2>4. [demand[s] EXCEPT !.fan_speed_override = v] \in Demand
    BY <2>2, <2>3 DEF Demand
  <2>5. demand' = [demand EXCEPT ![s] = [demand[s] EXCEPT !.fan_speed_override = v]]
    BY <2>1
  <2>6. demand' \in Demands /\ Rows' = Rows
    BY <1>1, <2>2, <2>4, <2>5, CliAssumption DEF CliTypeOK, Demands, Rows
  <2>7. foreign' \in [Subsystem -> ForeignConfig]
    BY <2>1, <2>3 DEF CliTypeOK
  <2>8. \A t \in Subsystem \ Rows' : foreign'[t] = smap_init
    BY <1>1, <2>1, <2>6 DEF CliTypeOK
  <2> QED BY <2>6, <2>7, <2>8 DEF CliTypeOK
<1>2. CASE ~ (s \in Rows /\ row_id[s] = id)
  BY <1>2 DEF ColumnWritten, CliTypeOK, Rows
<1> QED BY <1>1, <1>2

(* A session that takes a replica of the database takes a well-formed one. *)
LEMMA ReplicaTaken ==
  ASSUME ReplicasOK, DatabaseOK', NEW c \in Session,
         idl' = [idl EXCEPT ![c] = Database']
  PROVE  ReplicasOK'
<1> SUFFICES ASSUME NEW b \in Session, NEW s \in DOMAIN idl'[b].subsystem
             PROVE  /\ idl'[b].subsystem[s].row_id \in RowId
                    /\ IsConfig(idl'[b].subsystem[s].other_config)
  BY DEF ReplicasOK, IsConfig
<1>1. CASE b = c
  <2>1. idl'[b] = Database'
    BY <1>1 DEF ReplicasOK
  <2> QED BY <2>1 DEF DatabaseOK, IsConfig
<1>2. CASE b # c
  <2>1. idl'[b] = idl[b]
    BY <1>2 DEF ReplicasOK
  <2> QED BY <2>1 DEF ReplicasOK, IsConfig
<1> QED BY <1>1, <1>2

(* Transactions are untouched by a step that leaves them and the replicas  *)
(* they were made from.                                                    *)
LEMMA TransactionsStay ==
  ASSUME TransactionsOK, DOMAIN txn' = Session,
         \A c \in Session : txn'[c] # NULL => txn'[c] = txn[c] /\ idl'[c] = idl[c]
  PROVE  TransactionsOK'
BY DEF TransactionsOK

(* "fan-speed" and "no fan-speed".                                         *)
LEMMA SpeedSetKeeps ==
  ASSUME CliInv, NEW c \in Session, NEW override \in Overrides \cup {NULL},
         vtysh_ovsdb_fan_speed_set(c, override)
  PROVE  CliInv'
<1> DEFINE s      == First(idl[c])
           row    == idl[c].subsystem[s]
           config == WithOverride(row.other_config, override)
<1>1. s \in DOMAIN idl[c].subsystem
  BY FirstIsRow DEF CliInv, vtysh_ovsdb_fan_speed_set
<1>2. /\ \/ UNCHANGED txn
         \/ txn' = [txn EXCEPT ![c] = [subsystem |-> s, row_id |-> row.row_id,
                                       override |-> override, config |-> config]]
      /\ UNCHANGED <<vars, row_id, foreign, idl>>
  BY DEF vtysh_ovsdb_fan_speed_set
<1>3. CliTypeOK' /\ ReplicasOK'
  BY <1>2 DEF CliInv, CliTypeOK, ReplicasOK, Rows, vars, demands
<1>4. LastOK'
  <2>1. CASE last' = last
    BY <1>2, <2>1 DEF CliInv, LastOK, LastSucceeded, Rows, vars, demands
  <2>2. CASE last'.status = "TXN_UNCHANGED"
    BY <2>2 DEF LastOK, LastSucceeded
  <2> QED BY <2>1, <2>2 DEF vtysh_ovsdb_fan_speed_set
<1>5. CASE UNCHANGED txn
  <2>1. TransactionsOK'
    BY <1>2, <1>5 DEF CliInv, TransactionsOK
  <2> QED BY <1>3, <1>4, <2>1 DEF CliInv
<1>6. CASE txn' = [txn EXCEPT ![c] = [subsystem |-> s, row_id |-> row.row_id,
                                      override |-> override, config |-> config]]
  <2>1. /\ smap_get(config, "fan_speed_override") = override
        /\ smap_remove(config, "fan_speed_override")
             = smap_remove(row.other_config, "fan_speed_override")
    BY WithOverrideIsRead
  <2> HIDE DEF s, config
  <2>2. TransactionsOK'
    BY <1>1, <1>2, <1>6, <2>1 DEF CliInv, TransactionsOK
  <2> QED BY <1>3, <1>4, <2>2 DEF CliInv
<1> QED BY <1>2, <1>5, <1>6

(* A command that is answered with success has reached its row, if the row *)
(* is still the one it was given for.                                      *)
LEMMA AnsweredIsEffective ==
  ASSUME CliInv, NEW c \in Session, NEW s \in Rows, cli_do_config_finish(c),
         last'.subsystem = s, last'.row_id = row_id[s], last'.status = "TXN_SUCCESS"
  PROVE  demand'[s].fan_speed_override = last'.override
<1>1. /\ txn[c] # NULL
      /\ ColumnWritten(txn[c].subsystem, txn[c].row_id, txn[c].config)
      /\ last'.subsystem = txn[c].subsystem /\ last'.row_id = txn[c].row_id
      /\ last'.override = txn[c].override
  BY DEF cli_do_config_finish
<1>2. smap_get(txn[c].config, "fan_speed_override") = txn[c].override
  BY <1>1 DEF CliInv, TransactionsOK
<1>3. s \in Subsystem /\ demand[s] \in Demand
  BY DEF CliInv, CliTypeOK, Demands, Rows
<1>4. demand' = [demand EXCEPT ![s].fan_speed_override = txn[c].override]
  BY <1>1, <1>2 DEF ColumnWritten
<1>5. demand'[s] = [demand[s] EXCEPT !.fan_speed_override = txn[c].override]
  BY <1>3, <1>4 DEF CliInv, CliTypeOK, Demands
<1> QED BY <1>1, <1>3, <1>5 DEF Demand

(* The last command stays what its row holds where a step leaves the row   *)
(* and its override as they are.                                           *)
LEMMA LastStays ==
  ASSUME LastOK, UNCHANGED last,
         \A s \in Rows' :
           \/ /\ s \in Rows /\ row_id'[s] = row_id[s]
              /\ demand'[s].fan_speed_override = demand[s].fan_speed_override
           \/ last # NULL => row_id'[s] # last.row_id
  PROVE  LastOK'
<1> SUFFICES ASSUME LastSucceeded'
             PROVE  demand'[last.subsystem].fan_speed_override = last.override
  BY DEF LastOK
<1>1. /\ last # NULL /\ last.status = "TXN_SUCCESS" /\ last.subsystem \in Rows'
      /\ row_id'[last.subsystem] = last.row_id
  BY DEF LastSucceeded
<1>2. /\ last.subsystem \in Rows /\ row_id'[last.subsystem] = row_id[last.subsystem]
      /\ demand'[last.subsystem].fan_speed_override
           = demand[last.subsystem].fan_speed_override
  BY <1>1
<1> QED BY <1>1, <1>2 DEF LastOK, LastSucceeded

(* The server's reply, whatever became of the transaction.                 *)
LEMMA FinishKeeps ==
  ASSUME CliInv, CliTypeOK' => DatabaseOK', NEW c \in Session, cli_do_config_finish(c)
  PROVE  CliInv'
<1> DEFINE t == txn[c]
<1>1. /\ \/ ColumnWritten(t.subsystem, t.row_id, t.config)
         \/ UNCHANGED <<demand, foreign>>
      /\ txn[c] # NULL
      /\ txn' = [txn EXCEPT ![c] = NULL]
      /\ idl' = [idl EXCEPT ![c] = Database']
      /\ UNCHANGED row_id
  BY DEF cli_do_config_finish
<1>2. IsConfig(t.config)
  <2> DEFINE row == idl[c].subsystem[t.subsystem]
  <2>1. IsConfig(row.other_config)
    BY <1>1 DEF CliInv, TransactionsOK, ReplicasOK
  <2> QED BY <1>1, <2>1 DEF CliInv, TransactionsOK, IsConfig
<1> HIDE DEF t
<1>3. CliTypeOK'
  <2>1. CASE ColumnWritten(t.subsystem, t.row_id, t.config)
    BY <1>1, <1>2, <2>1, ColumnWrittenKeepsTypes DEF CliInv
  <2>2. CASE UNCHANGED <<demand, foreign>>
    BY <1>1, <2>2 DEF CliInv, CliTypeOK, Rows
  <2> QED BY <1>1, <2>1, <2>2
<1>4. ReplicasOK'
  BY <1>1, <1>3, ReplicaTaken DEF CliInv
<1>5. TransactionsOK'
  <2>1. \A b \in Session \ {c} : txn'[b] = txn[b] /\ idl'[b] = idl[b]
    BY <1>1 DEF CliInv, TransactionsOK, ReplicasOK
  <2>2. DOMAIN txn' = Session /\ txn'[c] = NULL
    BY <1>1 DEF CliInv, TransactionsOK
  <2> QED BY <2>1, <2>2, TransactionsStay DEF CliInv
<1>6. LastOK'
  <2> SUFFICES ASSUME LastSucceeded'
               PROVE  demand'[last'.subsystem].fan_speed_override = last'.override
    BY DEF LastOK
  <2>1. /\ last'.status = "TXN_SUCCESS" /\ last'.subsystem \in Rows'
        /\ last'.row_id = row_id[last'.subsystem]
    BY <1>1 DEF LastSucceeded
  <2>2. Rows' \subseteq Rows
    BY <1>1, CliAssumption DEF ColumnWritten, CliInv, CliTypeOK, Demands, Rows
  <2> QED BY <2>1, <2>2, AnsweredIsEffective
<1> QED BY <1>3, <1>4, <1>5, <1>6 DEF CliInv

(* The steps of a session that move only its replica or its screen.        *)
LEMMA SessionKeeps ==
  ASSUME CliInv, CliTypeOK' => DatabaseOK', NEW c \in Session,
         Refresh(c) \/ vtysh_ovsdb_fan_show(c) \/ ShowEndsSession(c)
  PROVE  CliInv'
<1>1. /\ UNCHANGED <<demand, row_id, foreign, txn, last>> /\ txn[c] = NULL
      /\ idl' = [idl EXCEPT ![c] = Database'] \/ UNCHANGED idl
  <2>1. UNCHANGED <<vars, row_id, foreign, fan>> => Database' = Database
    BY DEF Database, Rows, OtherConfig, vars, demands
  <2>2. /\ UNCHANGED <<vars, row_id, foreign, fan, txn, last>> /\ txn[c] = NULL
        /\ idl' = [idl EXCEPT ![c] = Database] \/ UNCHANGED idl
    BY DEF Refresh, vtysh_ovsdb_fan_show, ShowEndsSession
  <2> QED BY <2>1, <2>2 DEF vars, demands
<1>2. CliTypeOK'
  BY <1>1 DEF CliInv, CliTypeOK, Rows
<1>3. ReplicasOK'
  <2>1. CASE idl' = [idl EXCEPT ![c] = Database']
    BY <1>2, <2>1, ReplicaTaken DEF CliInv
  <2>2. CASE UNCHANGED idl
    BY <2>2 DEF CliInv, ReplicasOK
  <2> QED BY <1>1, <2>1, <2>2
<1>4. \A b \in Session \ {c} : idl'[b] = idl[b]
  BY <1>1 DEF CliInv, ReplicasOK
<1>5. TransactionsOK'
  BY <1>1, <1>4, TransactionsStay DEF CliInv, TransactionsOK
<1>6. LastOK'
  BY <1>1 DEF CliInv, LastOK, LastSucceeded, Rows
<1> QED BY <1>2, <1>3, <1>5, <1>6 DEF CliInv

(* The other writers leave the override of every row that stays, and a row *)
(* that comes is not the one that the last command was for.                *)
LEMMA OthersKeepOverrides ==
  ASSUME CliInv, Others, NEW s \in Rows'
  PROVE  \/ /\ s \in Rows /\ row_id'[s] = row_id[s]
            /\ demand'[s].fan_speed_override = demand[s].fan_speed_override
         \/ last # NULL => row_id'[s] # last.row_id
<1>1. s \in Subsystem
  BY DEF Rows
<1>2. ASSUME NEW t \in Subsystem, SubsystemAppears(t)
      PROVE  \/ /\ s \in Rows /\ row_id'[s] = row_id[s] /\ demand'[s] = demand[s]
             \/ last # NULL => row_id'[s] # last.row_id
  <2>1. PICK r \in SensorReadings, id \in RowId :
          /\ last # NULL => last.row_id # id
          /\ demand' = [demand EXCEPT ![t] = [temp_sensors |-> r, fan_speed_override |-> NULL]]
          /\ row_id' = [row_id EXCEPT ![t] = id]
    BY <1>2 DEF SubsystemAppears
  <2>2. CASE s = t
    BY <1>1, <2>1, <2>2 DEF CliInv, CliTypeOK
  <2>3. CASE s # t
    BY <1>1, <2>1, <2>3 DEF CliInv, CliTypeOK, Demands, Rows
  <2> QED BY <2>2, <2>3
<1>3. ASSUME NEW t \in Subsystem, SubsystemGoes(t)
      PROVE  s \in Rows /\ row_id'[s] = row_id[s] /\ demand'[s] = demand[s]
  BY <1>1, <1>3 DEF SubsystemGoes, CliInv, CliTypeOK, Demands, Rows
<1>4. ASSUME NEW t \in Subsystem, SensorsReport(t)
      PROVE  /\ s \in Rows /\ row_id'[s] = row_id[s]
             /\ demand'[s].fan_speed_override = demand[s].fan_speed_override
  <2>1. PICK r \in SensorReadings : demand' = [demand EXCEPT ![t].temp_sensors = r]
    BY <1>4 DEF SensorsReport
  <2>2. t \in Rows /\ UNCHANGED row_id
    BY <1>4 DEF SensorsReport
  <2>3. demand[t] \in Demand
    BY <2>2 DEF CliInv, CliTypeOK, Demands, Rows
  <2>4. demand' = [demand EXCEPT ![t] = [demand[t] EXCEPT !.temp_sensors = r]]
    BY <2>1
  <2>5. [demand[t] EXCEPT !.temp_sensors = r].fan_speed_override
          = demand[t].fan_speed_override
    BY <2>3 DEF Demand
  <2>6. CASE s = t
    BY <1>1, <2>2, <2>4, <2>5, <2>6 DEF CliInv, CliTypeOK, Demands
  <2>7. CASE s # t
    BY <1>1, <2>2, <2>4, <2>7 DEF CliInv, CliTypeOK, Demands, Rows
  <2> QED BY <2>6, <2>7
<1>5. ASSUME NEW t \in Subsystem, ForeignKeyIsSet(t)
      PROVE  UNCHANGED <<demand, row_id>>
  BY <1>5 DEF ForeignKeyIsSet
<1>6. ASSUME NEW f \in Fan, FanRowAppears(f) \/ RpmIsPublished(f)
      PROVE  UNCHANGED <<demand, row_id>>
  BY <1>6 DEF FanRowAppears, RpmIsPublished
<1>7. UNCHANGED <<demand, row_id>> => s \in Rows
  BY DEF Rows
<1> QED BY <1>2, <1>3, <1>4, <1>5, <1>6, <1>7 DEF Others

(* The other writers.                                                      *)
LEMMA OthersKeep ==
  ASSUME CliInv, Others
  PROVE  CliInv'
<1>1. UNCHANGED <<idl, txn, last>>
  BY DEF Others, SubsystemAppears, SubsystemGoes, SensorsReport, ForeignKeyIsSet, FanRowAppears,
         RpmIsPublished, CliUnchanged
<1>2. ASSUME NEW s \in Subsystem, SubsystemAppears(s)
      PROVE  CliTypeOK'
  <2>1. PICK r \in SensorReadings, id \in RowId :
          /\ demand' = [demand EXCEPT ![s] = [temp_sensors |-> r, fan_speed_override |-> NULL]]
          /\ row_id' = [row_id EXCEPT ![s] = id]
          /\ UNCHANGED foreign
    BY <1>2 DEF SubsystemAppears
  <2>2. [temp_sensors |-> r, fan_speed_override |-> NULL] \in Demand
    BY DEF Demand
  <2>3. demand' \in Demands
    BY <2>1, <2>2 DEF CliInv, CliTypeOK, Demands
  <2>4. Subsystem \ Rows' \subseteq Subsystem \ Rows
    BY <2>1, <2>2, CliAssumption DEF CliInv, CliTypeOK, Demands, Rows
  <2> QED BY <2>1, <2>3, <2>4 DEF CliInv, CliTypeOK
<1>3. ASSUME NEW s \in Subsystem, SubsystemGoes(s)
      PROVE  CliTypeOK'
  BY <1>3 DEF SubsystemGoes, CliInv, CliTypeOK, Demands, Rows, ForeignConfig
<1>4. ASSUME NEW s \in Subsystem, SensorsReport(s)
      PROVE  CliTypeOK'
  <2>1. PICK r \in SensorReadings : demand' = [demand EXCEPT ![s].temp_sensors = r]
    BY <1>4 DEF SensorsReport
  <2>2. demand[s] \in Demand
    BY <1>4 DEF SensorsReport, CliInv, CliTypeOK, Demands, Rows
  <2>3. [demand[s] EXCEPT !.temp_sensors = r] \in Demand
    BY <2>2 DEF Demand
  <2>4. demand' = [demand EXCEPT ![s] = [demand[s] EXCEPT !.temp_sensors = r]]
    BY <2>1
  <2>5. demand' \in Demands /\ Rows' = Rows
    BY <2>2, <2>3, <2>4, CliAssumption DEF CliInv, CliTypeOK, Demands, Rows
  <2> QED BY <1>4, <2>5 DEF SensorsReport, CliInv, CliTypeOK
<1>5. ASSUME NEW s \in Subsystem, ForeignKeyIsSet(s)
      PROVE  CliTypeOK'
  <2>1. PICK v \in OtherSettings :
          /\ foreign' = [foreign EXCEPT ![s] = smap_replace(@, "foreign", v)]
          /\ UNCHANGED <<demand, row_id>> /\ s \in Rows
    BY <1>5 DEF ForeignKeyIsSet
  <2>2. smap_replace(foreign[s], "foreign", v) \in ForeignConfig
    BY ForeignIsSet DEF CliInv, CliTypeOK
  <2> QED BY <2>1, <2>2 DEF CliInv, CliTypeOK, Rows
<1>6. ASSUME NEW f \in Fan, FanRowAppears(f) \/ RpmIsPublished(f)
      PROVE  CliTypeOK'
  BY <1>6 DEF FanRowAppears, RpmIsPublished, CliInv, CliTypeOK, Rows
<1>7. CliTypeOK'
  BY <1>2, <1>3, <1>4, <1>5, <1>6 DEF Others
<1>8. ReplicasOK' /\ TransactionsOK'
  BY <1>1 DEF CliInv, ReplicasOK, TransactionsOK
<1>9. LastOK'
  BY <1>1, OthersKeepOverrides, LastStays DEF CliInv
<1> QED BY <1>7, <1>8, <1>9 DEF CliInv

(* The daemon writes nothing that the CLI reads or writes.                 *)
LEMMA ControllerStands ==
  (Controller \/ Restart) => UNCHANGED demand
BY DEF Controller, Restart, Look, BeginAdopting, Adopt, Decide, DecideBlindly, DecideFor, LetGo,
       demands

LEMMA CliInvStep == CliInv /\ (CliTypeOK' => DatabaseOK') /\ [CliNext]_allVars => CliInv'
<1> SUFFICES ASSUME CliInv, CliTypeOK' => DatabaseOK', [CliNext]_allVars
             PROVE  CliInv'
  OBVIOUS
<1>1. CASE UNCHANGED <<demand, cliVars>>
  BY <1>1 DEF cliVars, CliInv, CliTypeOK, ReplicasOK, TransactionsOK, Rows, LastOK,
              LastSucceeded
<1>2. CASE Command
  BY <1>2, SpeedSetKeeps, SessionKeeps DEF Command
<1>3. CASE Replies
  BY <1>3, FinishKeeps, SessionKeeps DEF Replies
<1>4. CASE Others
  BY <1>4, OthersKeep
<1>5. CASE ControllerSteps
  BY <1>1, <1>5, ControllerStands DEF ControllerSteps
<1> QED BY <1>1, <1>2, <1>3, <1>4, <1>5 DEF CliNext, allVars, vars, demands

(* In the database, in the replicas and in the transactions under way,     *)
(* other_config is well formed, whatever sessions, other writers and       *)
(* failures do to each other.                                              *)
THEOREM CliInvariant == CliSpec => []CliInv
<1>1. CliInit => CliInv
  BY CliInitHolds
<1>2. CliTypeOK => DatabaseOK
  BY DatabaseIsOK
<1>3. CliInv /\ (CliTypeOK' => DatabaseOK') /\ [CliNext]_allVars => CliInv'
  BY CliInvStep
<1> QED BY <1>1, <1>2, <1>3, PTL DEF CliSpec

-----------------------------------------------------------------------------
(* The commands. *)

(* Where the session has seen the other keys as they are, its transaction  *)
(* writes them back as they are.                                           *)
LEMMA FinishKeepsOtherKeys ==
  ASSUME CliInv, NEW c \in Session, NEW s \in Rows, cli_do_config_finish(c),
         s \in DOMAIN idl[c].subsystem,
         smap_remove(idl[c].subsystem[s].other_config, "fan_speed_override") = foreign[s]
  PROVE  foreign'[s] = foreign[s]
<1>1. /\ txn[c] # NULL
      /\ \/ ColumnWritten(txn[c].subsystem, txn[c].row_id, txn[c].config)
         \/ UNCHANGED foreign
  BY DEF cli_do_config_finish
<1>2. smap_remove(txn[c].config, "fan_speed_override")
        = smap_remove(idl[c].subsystem[txn[c].subsystem].other_config, "fan_speed_override")
  BY <1>1 DEF CliInv, TransactionsOK
<1>3. CASE foreign' = [foreign EXCEPT ![txn[c].subsystem] =
                          smap_remove(txn[c].config, "fan_speed_override")]
  <2>1. foreign \in [Subsystem -> ForeignConfig] /\ s \in Subsystem
    BY DEF CliInv, CliTypeOK, Rows
  <2>2. CASE txn[c].subsystem = s
    BY <1>2, <1>3, <2>1, <2>2
  <2>3. CASE txn[c].subsystem # s
    BY <1>3, <2>1, <2>3
  <2> QED BY <2>2, <2>3
<1> QED BY <1>1, <1>3 DEF ColumnWritten

(* A command touches no key that its session has seen as it is.            *)
THEOREM OtherKeysAreKept == CliSpec => OtherKeysKept
<1>1. CliInv /\ [CliNext]_allVars =>
        [\A c \in Session : \A s \in Subsystem :
           /\ cli_do_config_finish(c)
           /\ s \in DOMAIN idl[c].subsystem /\ s \in Rows
           /\ idl[c].subsystem[s].row_id = row_id[s]
           /\ smap_remove(idl[c].subsystem[s].other_config, "fan_speed_override") = foreign[s]
           => foreign'[s] = foreign[s]]_allVars
  BY FinishKeepsOtherKeys
<1> QED BY <1>1, CliInvariant, PTL DEF CliSpec, OtherKeysKept

(* A command that succeeds at once found its override in the row.          *)
LEMMA UnchangedIsEffective ==
  ASSUME CliInv, NEW c \in Session, NEW override, NEW s \in Rows,
         vtysh_ovsdb_fan_speed_set(c, override),
         last' # last, last'.subsystem = s, idl[last'.session] = Database
  PROVE  demand'[s].fan_speed_override = last'.override
<1>1. LET t   == First(idl[c])
          row == idl[c].subsystem[t]
      IN  /\ WithOverride(row.other_config, override) = row.other_config
          /\ last' = [session |-> c, subsystem |-> t, row_id |-> row.row_id,
                      override |-> override, status |-> "TXN_UNCHANGED"]
  BY DEF vtysh_ovsdb_fan_speed_set
<1>2. /\ last'.session = c /\ last'.override = override
      /\ WithOverride(idl[c].subsystem[s].other_config, override)
           = idl[c].subsystem[s].other_config
  BY <1>1
<1>3. Database.subsystem[s].other_config = OtherConfig(s)
  BY DEF Database
<1>4. smap_get(OtherConfig(s), "fan_speed_override") = override
  BY <1>2, <1>3, WithOverrideIsRead
<1>5. demand[s].fan_speed_override = override
  BY <1>4, OtherConfigIsConfig DEF CliInv
<1>6. UNCHANGED demand
  BY DEF vtysh_ovsdb_fan_speed_set, vars, demands
<1> QED BY <1>2, <1>5, <1>6

(* Only commands and replies report.                                       *)
LEMMA WhoReports ==
  ASSUME [CliNext]_allVars, last' # last
  PROVE  \E c \in Session :
           \/ \E override \in Overrides \cup {NULL} : vtysh_ovsdb_fan_speed_set(c, override)
           \/ cli_do_config_finish(c)
<1>1. last' = last \/ Command \/ Replies
  BY DEF CliNext, allVars, cliVars, ControllerSteps, Others, SubsystemAppears, SubsystemGoes,
         SensorsReport, ForeignKeyIsSet, FanRowAppears, RpmIsPublished, CliUnchanged
<1> QED BY <1>1 DEF Command, Replies, vtysh_ovsdb_fan_show, ShowEndsSession, Refresh

(* A command that reports success has had its effect, however commands of  *)
(* other sessions, lost answers and deleted rows came in between.          *)
THEOREM SuccessMeansEffect == CliSpec => SuccessIsEffective
<1>1. CliInv /\ [CliNext]_allVars =>
        [\A s \in Rows :
           /\ last' # last /\ last'.subsystem = s /\ last'.row_id = row_id[s]
           /\ \/ last'.status = "TXN_SUCCESS"
              \/ last'.status = "TXN_UNCHANGED" /\ idl[last'.session] = Database
           => demand'[s].fan_speed_override = last'.override]_allVars
  <2> SUFFICES ASSUME CliInv, [CliNext]_allVars, NEW s \in Rows,
                      last' # last, last'.subsystem = s, last'.row_id = row_id[s],
                      \/ last'.status = "TXN_SUCCESS"
                      \/ last'.status = "TXN_UNCHANGED" /\ idl[last'.session] = Database
               PROVE  demand'[s].fan_speed_override = last'.override
    OBVIOUS
  <2>1. PICK c \in Session :
          \/ \E override \in Overrides \cup {NULL} : vtysh_ovsdb_fan_speed_set(c, override)
          \/ cli_do_config_finish(c)
    BY WhoReports
  <2>2. "TXN_SUCCESS" # "TXN_UNCHANGED" /\ "TXN_TRY_AGAIN" # "TXN_UNCHANGED"
    OBVIOUS
  <2>3. ASSUME NEW override \in Overrides \cup {NULL}, vtysh_ovsdb_fan_speed_set(c, override)
        PROVE  demand'[s].fan_speed_override = last'.override
    <3>1. last'.status = "TXN_UNCHANGED"
      BY <2>3 DEF vtysh_ovsdb_fan_speed_set
    <3> QED BY <2>2, <2>3, <3>1, UnchangedIsEffective
  <2>4. ASSUME cli_do_config_finish(c)
        PROVE  demand'[s].fan_speed_override = last'.override
    <3>1. last'.status = "TXN_SUCCESS" \/ last'.status = "TXN_TRY_AGAIN"
      BY <2>4 DEF cli_do_config_finish
    <3> QED BY <2>2, <2>4, <3>1, AnsweredIsEffective
  <2> QED BY <2>1, <2>3, <2>4
<1> QED BY <1>1, CliInvariant, PTL DEF CliSpec, SuccessIsEffective

(* The running configuration of a session that has caught up is the last   *)
(* successful command, for any number of sessions and whatever writes and  *)
(* failures came before; "normal" is shown as no command.                  *)
THEOREM RunningConfigIsCommanded == CliSpec => []RunningConfigTellsCommand
<1>1. CliInv => RunningConfigTellsCommand
  <2> SUFFICES ASSUME CliInv, NEW c \in Session, idl[c] = Database, LastSucceeded,
                      last.subsystem = First(idl[c])
               PROVE  vtysh_config_context_fan_clientcallback(idl[c])
                        = IF last.override = "normal" THEN NULL ELSE last.override
    BY DEF RunningConfigTellsCommand
  <2> DEFINE s == last.subsystem
  <2>1. s \in Rows /\ demand[s].fan_speed_override = last.override
    BY DEF CliInv, LastOK, LastSucceeded
  <2>2. /\ DOMAIN Database.subsystem = Rows
        /\ Database.subsystem[s].other_config = OtherConfig(s)
    BY <2>1 DEF Database
  <2>3. smap_get(OtherConfig(s), FAN_SPEED_OVERRIDE_STR) = last.override
    BY <2>1, OtherConfigIsConfig DEF CliInv, FAN_SPEED_OVERRIDE_STR
  <2> QED BY <2>1, <2>2, <2>3 DEF vtysh_config_context_fan_clientcallback
<1> QED BY <1>1, CliInvariant, PTL

-----------------------------------------------------------------------------
(* Seen from the daemon. *)

(* A write of the column is a change of that subsystem's demand.           *)
LEMMA ColumnChangesDemand ==
  ASSUME CliTypeOK, NEW s, NEW id, NEW config, IsConfig(config),
         ColumnWritten(s, id, config), UNCHANGED <<controller, output>>
  PROVE  (\E t \in Subsystem : DemandChanges(t)) \/ UNCHANGED vars
<1> DEFINE v == smap_get(config, "fan_speed_override")
<1>1. CASE s \in Rows /\ row_id[s] = id
  <2>1. demand' = [demand EXCEPT ![s] = [demand[s] EXCEPT !.fan_speed_override = v]]
    BY <1>1 DEF ColumnWritten
  <2>2. s \in Subsystem /\ demand[s] \in Demand
    BY <1>1 DEF Rows, CliTypeOK, Demands
  <2>3. v \in Overrides \cup {NULL}
    BY DEF IsConfig
  <2> HIDE DEF v
  <2>4. [demand[s] EXCEPT !.fan_speed_override = v] \in Demand
    BY <2>2, <2>3 DEF Demand
  <2> QED BY <2>1, <2>2, <2>4 DEF DemandChanges
<1>2. CASE ~ (s \in Rows /\ row_id[s] = id)
  BY <1>2 DEF ColumnWritten, vars, demands
<1> QED BY <1>1, <1>2

LEMMA RepliesChangeDemand ==
  ASSUME CliInv, Replies
  PROVE  (\E s \in Subsystem : DemandChanges(s)) \/ UNCHANGED vars
<1>1. ASSUME NEW c \in Session, Refresh(c)
      PROVE  UNCHANGED vars
  BY <1>1 DEF Refresh
<1>2. ASSUME NEW c \in Session, cli_do_config_finish(c)
      PROVE  (\E s \in Subsystem : DemandChanges(s)) \/ UNCHANGED vars
  <2> DEFINE t == txn[c]
  <2>1. /\ txn[c] # NULL
        /\ \/ ColumnWritten(t.subsystem, t.row_id, t.config)
           \/ UNCHANGED demand
        /\ UNCHANGED <<controller, output>>
    BY <1>2 DEF cli_do_config_finish
  <2>2. IsConfig(t.config)
    BY <2>1 DEF CliInv, TransactionsOK, ReplicasOK, IsConfig
  <2> HIDE DEF t
  <2>3. CASE ColumnWritten(t.subsystem, t.row_id, t.config)
    BY <2>1, <2>2, <2>3, ColumnChangesDemand DEF CliInv
  <2>4. CASE UNCHANGED demand
    BY <2>1, <2>4 DEF vars, demands
  <2> QED BY <2>1, <2>3, <2>4
<1> QED BY <1>1, <1>2 DEF Replies

LEMMA OthersChangeDemand ==
  ASSUME CliInv, Others
  PROVE  (\E s \in Subsystem : DemandChanges(s)) \/ UNCHANGED vars
<1>1. ASSUME NEW s \in Subsystem, SubsystemAppears(s)
      PROVE  DemandChanges(s)
  <2>1. PICK r \in SensorReadings :
          demand' = [demand EXCEPT ![s] = [temp_sensors |-> r, fan_speed_override |-> NULL]]
    BY <1>1 DEF SubsystemAppears
  <2>2. [temp_sensors |-> r, fan_speed_override |-> NULL] \in Demand
    BY DEF Demand
  <2> QED BY <1>1, <2>1, <2>2 DEF SubsystemAppears, CliUnchanged, DemandChanges
<1>2. ASSUME NEW s \in Subsystem, SubsystemGoes(s)
      PROVE  DemandChanges(s)
  BY <1>2 DEF SubsystemGoes, CliUnchanged, DemandChanges
<1>3. ASSUME NEW s \in Subsystem, SensorsReport(s)
      PROVE  DemandChanges(s)
  <2>1. PICK r \in SensorReadings :
          demand' = [demand EXCEPT ![s] = [demand[s] EXCEPT !.temp_sensors = r]]
    BY <1>3 DEF SensorsReport
  <2>2. demand[s] \in Demand
    BY <1>3 DEF SensorsReport, CliInv, CliTypeOK, Demands, Rows
  <2>3. [demand[s] EXCEPT !.temp_sensors = r] \in Demand
    BY <2>2 DEF Demand
  <2> QED BY <1>3, <2>1, <2>3 DEF SensorsReport, CliUnchanged, DemandChanges
<1>4. ASSUME NEW s \in Subsystem, ForeignKeyIsSet(s)
      PROVE  UNCHANGED vars
  BY <1>4 DEF ForeignKeyIsSet, CliUnchanged, vars, demands
<1>5. ASSUME NEW f \in Fan, FanRowAppears(f) \/ RpmIsPublished(f)
      PROVE  UNCHANGED vars
  BY <1>5 DEF FanRowAppears, RpmIsPublished, CliUnchanged, vars, demands
<1> QED BY <1>1, <1>2, <1>3, <1>4, <1>5 DEF Others

(* All that the CLI and the other writers do to the daemon is to change    *)
(* demands, to ones it may meet: whatever FanControl promises of the       *)
(* speeds, and with it the daemon of Fand, it promises in their presence.  *)
THEOREM CliOnlyDemands == CliSpec => Spec
<1>1. CliInit => Init
  BY DEF CliInit
<1>2. CliInv /\ [CliNext]_allVars => [Next]_vars
  <2> SUFFICES ASSUME CliInv, [CliNext]_allVars
               PROVE  (\E s \in Subsystem : DemandChanges(s)) \/ Controller \/ Restart
                      \/ UNCHANGED vars
    BY DEF Next
  <2>1. CASE Command
    BY <2>1 DEF Command, vtysh_ovsdb_fan_speed_set, vtysh_ovsdb_fan_show, ShowEndsSession
  <2>2. CASE Replies
    BY <2>2, RepliesChangeDemand
  <2>3. CASE Others
    BY <2>3, OthersChangeDemand
  <2>4. CASE ControllerSteps
    BY <2>4 DEF ControllerSteps
  <2>5. CASE UNCHANGED allVars
    BY <2>5 DEF allVars
  <2> QED BY <2>1, <2>2, <2>3, <2>4, <2>5 DEF CliNext
<1> QED BY <1>1, <1>2, CliInvariant, PTL DEF CliSpec, Spec

=============================================================================
