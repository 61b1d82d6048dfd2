------------------------------ MODULE FanNames ------------------------------
(***************************************************************************)
(* The dictionaries of fans, which are keyed by names: "subsystem-fan".    *)
(* Fand takes a fan's name for its identity; here two fans may share a     *)
(* name ("a-b" + "c" is "a" + "b-c"), as the dictionaries allow, and a     *)
(* name may be too long for the buffer that get_local_fan builds it in.    *)
(*                                                                         *)
(* Kept of Fand: subsystems that come and go, and the order of             *)
(* fand_reconfigure and fand_read_status in a pass.  A pass is two steps   *)
(* and no operation fails.                                                 *)
(***************************************************************************)
EXTENDS FanTypes, FiniteSetsExt

CONSTANTS
  Subsystem, Fru, Fan, Name,
  FruOf,          \* the FRU that a fan sits in
  SubsystemOf,    \* the subsystem that a FRU belongs to
  Naming,         \* the hardware descriptions: the names that fans may bear
  Garbage         \* what freed or fresh memory may hold for a status

ASSUME NamesAssumption ==
  /\ IsFiniteSet(Fan)
  /\ FruOf \in [Fan -> Fru]
  /\ SubsystemOf \in [Fru -> Subsystem]
  /\ Naming \subseteq [of : [Fan -> Name], long : SUBSET Name]
  /\ Subsystem \cap Fru = {}
  /\ Garbage \subseteq CachedStatus

VARIABLES
  naming,          \* the description in use: the name of each fan, and the
                   \* names of more than 127 characters
  rows,            \* subsystems that have a row in the database
  fans,            \* those whose column fans refers to their Fan rows
  changed,         \* has the IDL's sequence number moved?
  polling,         \* has this pass done with fand_reconfigure?
  subsystem_data,  \* subsystems with a struct
  fan_data,        \* the dictionary of all fans: a node is called after the
                   \* fan whose struct it points to
  dangling,        \* its nodes of each name that point to freed structs
  status,          \* locl_fan.status of each fan
  fan_fault,       \* is the fault input of a fan asserted?
  fan_status,      \* Fan:status of the Fan row of a name
  fan_led          \* status that each LED was last written with

database == <<rows, fans, changed>>
structs  == <<subsystem_data, fan_data, dangling>>
vars     == <<naming, database, polling, structs, status, fan_fault,
              fan_status, fan_led>>

FansIn(ss) == {f \in Fan : SubsystemOf[FruOf[f]] \in ss}
Bearing(k, fs) == {f \in fs : naming.of[f] = k}

(* Fans with a struct on the heap. *)
Live == FansIn(subsystem_data)

(* Names with a Fan row: the server drops a row that nothing refers to.    *)
FanRow == {naming.of[f] : f \in FansIn(fans)}

Init ==
  /\ naming \in Naming
  /\ rows = {} /\ fans = {} /\ changed = TRUE
  /\ polling = FALSE
  /\ subsystem_data = {} /\ fan_data = {} /\ dangling = [k \in Name |-> 0]
  /\ status = [f \in Fan |-> FAND_STATUS_UNINITIALIZED]
  /\ fan_fault = [f \in Fan |-> FALSE]
  /\ fan_status = [k \in Name |-> FAND_STATUS_UNINITIALIZED]
  /\ fan_led = [l \in Subsystem \cup Fru |-> FAND_STATUS_UNINITIALIZED]

-----------------------------------------------------------------------------
(* fand_reconfigure. *)

Nodes(k, fs) == Cardinality(Bearing(k, fs))

(* Seeded mistake: a name that is there already is not added again.        *)
WithNodesOnce(added) ==
  fan_data \cup {f \in added : Nodes(naming.of[f], fan_data) = 0}

(* shash_add takes a further node of a name that is there already.         *)
WithNodes(added) == fan_data \cup added

(* Which nodes of live structs are deleted with the fans gone: shash_find  *)
(* gives a node of the name, no matter whose (it depends on the growth of  *)
(* the table), once for every fan; the others found are dangling ones.     *)
Deleted(gone, nodes) ==
  {d \in SUBSET nodes : \A k \in Name :
     Nodes(k, gone) - Nodes(k, d) \in 0 .. dangling[k]}

(* Seeded mistake: the removal forgets the dictionary of all fans.         *)
RemoveStructsOnly(gone, nodes) ==
  /\ fan_data' = nodes \ gone
  /\ dangling' = [k \in Name |-> dangling[k] + Nodes(k, gone)]

(* Seeded mistake: the removal forgets the fans of a subsystem.            *)
RemoveSubsystemOnly(gone, nodes) ==
  fan_data' = nodes /\ UNCHANGED dangling

(* fand_remove_unmarked_subsystems: what is left of a freed fan dangles.   *)
RemoveUnmarked(gone, nodes) ==
  \E d \in Deleted(gone, nodes) :
    /\ fan_data' = nodes \ (d \cup gone)
    /\ dangling' = [k \in Name |->
         dangling[k] - (Nodes(k, gone) - Nodes(k, d)) + Nodes(k, (gone \cap nodes) \ d)]

(* Seeded mistake: the first entry of the subsystem is taken.              *)
AnyLocalFan(f) == FansIn({SubsystemOf[FruOf[f]]})

(* The structs that get_local_fan may give for a fan: one of its name, or, *)
(* when the name built in the buffer has lost its end and matches none,    *)
(* the last one that the loop came by.                                     *)
get_local_fan(f) ==
  LET local == FansIn({SubsystemOf[FruOf[f]]})
  IN  IF naming.of[f] \in naming.long THEN local ELSE Bearing(naming.of[f], local)

Worst(values) == Max({FAND_STATUS_UNINITIALIZED} \cup values)

(* The LEDs of subsystems ss show the worst of what was found for each     *)
(* fan.                                                                    *)
LedStatus(l, found, stat) ==
  Worst({stat[found[f]] :
           f \in {g \in Fan : l \in {FruOf[g], SubsystemOf[FruOf[g]]}}})

fand_set_fanleds(ss, stat) ==
  \E found \in {g \in [Fan -> Fan] : \A f \in Fan : g[f] \in get_local_fan(f)} :
    fan_led' = [l \in Subsystem \cup Fru |->
                  IF l \in ss \/ (l \in Fru /\ SubsystemOf[l] \in ss)
                  THEN LedStatus(l, found, stat)
                  ELSE fan_led[l]]

(* A struct comes from malloc: its status may be anything.                 *)
Malloced(added) ==
  {[f \in Fan |-> IF f \in FansIn(added) THEN fresh[f] ELSE status[f]] :
     fresh \in [Fan -> Garbage]}

(* Rows without a struct are added, with a node for every fan and a Fan    *)
(* row for every name; structs without a row are removed.                  *)
fand_reconfigure ==
  LET added == rows \ subsystem_data
      gone  == subsystem_data \ rows
  IN  /\ changed /\ ~polling
      /\ changed' = FALSE /\ polling' = TRUE
      /\ subsystem_data' = rows
      /\ RemoveUnmarked(FansIn(gone), WithNodes(FansIn(added)))
      /\ \E stat \in Malloced(added) :
           /\ status' = stat
           /\ fand_set_fanleds(rows, stat)
      /\ fans' = fans \cup added
      /\ fan_status' =
           [k \in Name |-> IF \E f \in FansIn(added) : naming.of[f] = k
                           THEN FAND_STATUS_UNINITIALIZED ELSE fan_status[k]]
      /\ UNCHANGED <<naming, rows, fan_fault>>

(* The sequence number has not moved: fand_reconfigure returns at once.    *)
NothingChanged ==
  /\ ~changed /\ ~polling
  /\ polling' = TRUE
  /\ UNCHANGED <<naming, database, structs, status, fan_fault, fan_status, fan_led>>

-----------------------------------------------------------------------------
(* fand_read_status. *)

Polled(f) == IF fan_fault[f] THEN FAND_STATUS_FAULT ELSE FAND_STATUS_OK

(* Seeded mistake: a node is found by its bucket alone.                    *)
StatusOfAnyName(k) == {Polled(e) : e \in fan_data}

(* What shash_find and the node found may give for a name: the status in   *)
(* its struct, or anything when the struct has been freed.                 *)
StatusOfName(k) ==
  {Polled(e) : e \in Bearing(k, fan_data)}
    \cup (IF dangling[k] > 0 THEN Garbage ELSE {})

(* Every fan is polled, then every Fan row gets the status of a node that  *)
(* bears its name.                                                         *)
fand_read_status ==
  /\ polling
  /\ polling' = FALSE
  /\ status' = [f \in Fan |-> IF f \in Live THEN Polled(f) ELSE status[f]]
  /\ fan_status' \in
       {stat \in [Name -> CachedStatus] : \A k \in Name :
          IF k \in FanRow
          THEN stat[k] \in StatusOfName(k)
          ELSE stat[k] = fan_status[k]}
  /\ UNCHANGED <<naming, database, structs, fan_fault, fan_led>>

-----------------------------------------------------------------------------
(* The world. *)

SubsystemAppears(s) ==
  /\ s \notin rows
  /\ rows' = rows \cup {s} /\ changed' = TRUE
  /\ UNCHANGED <<naming, fans, polling, structs, status, fan_fault, fan_status,
                 fan_led>>

SubsystemGoes(s) ==
  /\ s \in rows
  /\ rows' = rows \ {s} /\ fans' = fans \ {s} /\ changed' = TRUE
  /\ UNCHANGED <<naming, polling, structs, status, fan_fault,
                 fan_status, fan_led>>

FanInputChanges(f) ==
  /\ fan_fault' = [fan_fault EXCEPT ![f] = ~@]
  /\ UNCHANGED <<naming, database, polling, structs, status, fan_status, fan_led>>

Next ==
  \/ fand_reconfigure \/ NothingChanged \/ fand_read_status
  \/ \E s \in Subsystem : SubsystemAppears(s) \/ SubsystemGoes(s)
  \/ \E f \in Fan : FanInputChanges(f)

Spec == Init /\ [][Next]_vars

-----------------------------------------------------------------------------
(* Properties. *)

TypeOK ==
  /\ naming \in Naming
  /\ rows \subseteq Subsystem /\ fans \subseteq rows
  /\ changed \in BOOLEAN /\ polling \in BOOLEAN
  /\ subsystem_data \subseteq Subsystem
  /\ fan_data \subseteq Live
  /\ dangling \in [Name -> Nat]
  /\ status \in [Fan -> CachedStatus]
  /\ fan_fault \in [Fan -> BOOLEAN]
  /\ fan_status \in [Name -> CachedStatus]
  /\ fan_led \in [Subsystem \cup Fru -> CachedStatus]

(* However names collide, there are as many nodes of a name as fans: no    *)
(* removal and no Fan row fails to find a node, whose address the code     *)
(* uses untested.                                                          *)
EveryNameIsFound ==
  \A k \in Name : Nodes(k, fan_data) + dangling[k] = Nodes(k, Live)

(* A name that no two fans share is found as its fan, whatever the others  *)
(* of the dictionary do.                                                   *)
Alone(f) == \A g \in Fan \ {f} : naming.of[g] # naming.of[f]

UnsharedNameIsItsFan ==
  \A f \in Fan : Alone(f) =>
    /\ dangling[naming.of[f]] = 0
    /\ f \in fan_data <=> f \in Live

(* In a Fan row of an unshared name stands what the poll read from that    *)
(* very fan, even after subsystems with colliding names came and went.     *)
RowTellsItsFan ==
  [][fand_read_status => \A f \in Live :
       Alone(f) /\ naming.of[f] \in FanRow => fan_status'[naming.of[f]] = Polled(f)]_vars

(* The LED of a FRU whose fans have short names, unshared in the           *)
(* subsystem, shows the worst of just these fans.                          *)
Recognized(f) ==
  /\ naming.of[f] \notin naming.long
  /\ \A g \in FansIn({SubsystemOf[FruOf[f]]}) \ {f} : naming.of[g] # naming.of[f]

LedTellsItsFans ==
  [][fand_reconfigure => \A u \in Fru :
       LET own == {f \in Fan : FruOf[f] = u}
       IN  SubsystemOf[u] \in rows /\ (\A f \in own : Recognized(f))
             => fan_led'[u] = Worst({status'[f] : f \in own})]_vars

(* The dictionary holds the fans by their names.                           *)
FansAreHeldByName == \A k \in Name : dangling[k] = 0

=============================================================================
