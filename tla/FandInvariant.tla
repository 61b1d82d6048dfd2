--------------------------- MODULE FandInvariant ----------------------------
(***************************************************************************)
(* The inductive invariant behind the safety properties of Fand: what      *)
(* holds at every step of a pass, not only when it is over.                *)
(***************************************************************************)
EXTENDS Fand

Reconfiguring == pc \in {"reconfigure", "adding", "added", "freed"}

(* The loop variables of fand_reconfigure and fand_read_status fit the     *)
(* place where the thread is.                                              *)
ControlOK ==
  /\ pc \in {"adding", "added", "freed"} <=> cfg # NULL
  /\ cfg # NULL => cfg \in Known /\ subsystem_data[cfg].valid
  /\ pc \in {"adding", "added"} => cfg \in Rows(idl)
  /\ pc = "freed" => idl_changed
  /\ todo \subseteq Rows(idl)
  /\ todo # {} => Reconfiguring
  /\ unread \subseteq fan_data
  /\ pc = "commit" => StrayRows = {}

(* From the end of one polling loop to the next reconfiguration every fan  *)
(* has been polled; during the loop, those behind it have.                 *)
PolledOK ==
  /\ pc \in {"down", "run", "commit", "unixctl"} => \A f \in fan_data : Polled(f)
  /\ pc = "poll" => \A f \in fan_data \ unread : Polled(f)

(* Outside a reconfiguration every known subsystem bears the mark of the   *)
(* last one; only a valid subsystem is ever marked, and not before its     *)
(* addition is over.                                                       *)
MarksOK ==
  /\ ~Reconfiguring => \A s \in Known : subsystem_data[s].marked
  /\ \A s \in Known : subsystem_data[s].marked => subsystem_data[s].valid /\ s # cfg

(* A mark vouches for the speed, as long as no change of the replica has   *)
(* gone unnoticed.                                                         *)
SpeedsOK ==
  ~idl_changed => \A s \in Known :
    subsystem_data[s].marked =>
      /\ s \in Rows(idl)
      /\ ObeysPolicy(subsystem_data[s].speed, idl.subsystem[s].temp_sensors,
                     idl.subsystem[s].fan_speed_override)

(* It vouches for the registers even then.                                 *)
RegistersOK ==
  ~I2cErrors => \A s \in Known :
    subsystem_data[s].marked =>
      \A c \in SpeedControls(s) : fan_speed_control[c] = subsystem_data[s].speed

(* A row that the loop has passed and whose description loads is known,    *)
(* and what the loop has still to visit is not a failed addition.          *)
VisitedOK ==
  ~idl_changed =>
    /\ \A s \in todo \cap Known : subsystem_data[s].valid
    /\ ~YamlErrors => \A s \in Rows(idl) \ todo :
         Describes(idl.subsystem[s], s)
           => s \in Known /\ (subsystem_data[s].marked \/ s = cfg)

(* Only the daemon writes Fan rows: from the first run of the IDL on, a    *)
(* row that is still in the database is in the replica as it is.           *)
FanRowsOK ==
  pc \notin {"down", "run"} => \A f \in FanRows(db) : idl.fan[f] = db.fan[f]

(* A mark also vouches for what ops-fand/dump prints: the recorded demand  *)
(* of the sensors and the recorded override make the recorded speed.       *)
ConfiguredOK ==
  \A s \in Known : subsystem_data[s].marked =>
    /\ subsystem_data[s].fan_speed \in RealSpeed
    /\ subsystem_data[s].speed = CommandedSpeed(subsystem_data[s].fan_speed,
                                                subsystem_data[s].fan_speed_override)

(* A Fan row is one that add_subsystem wrote: a Subsystem row refers to    *)
(* it, one that names a description with that fan.                         *)
RowsDescribed(d) ==
  /\ \A f \in FanRows(d) : \E s \in Rows(d) : f \in d.subsystem[s].fans
  /\ \A s \in Rows(d) :
       /\ d.subsystem[s].fans \subseteq FansIn(s)
       /\ d.subsystem[s].fans # {} => d.subsystem[s].hw_desc_dir

DescribedOK ==
  /\ RowsDescribed(db) /\ RowsDescribed(idl)
  /\ \A s \in Subsystem :
       SameRow(s, db, idl) /\ idl.subsystem[s].hw_desc_dir => db.subsystem[s].hw_desc_dir
  /\ pc = "adding" => idl.subsystem[cfg].hw_desc_dir

(* A change of the replica in mid-pass comes with the addition of a        *)
(* subsystem, and the sweep spares that one.                               *)
SweepOK ==
  pc = "reconfigure" /\ idl_changed => \E s \in Known : subsystem_data[s].marked

RegistryInv == TypeOK /\ RegistryConsistent /\ ControlOK /\ PolledOK

SpeedInv == MarksOK /\ SpeedsOK /\ RegistersOK /\ VisitedOK

RowInv == ConfiguredOK /\ DescribedOK /\ SweepOK

InductiveInvariant == RegistryInv /\ SpeedInv /\ FanRowsOK /\ RowInv

=============================================================================
