--------------------------- MODULE FanNamesProofs ---------------------------
(***************************************************************************)
(* The dictionary of fans, for every set of subsystems, FRUs and fans and  *)
(* however their names collide.                                            *)
(***************************************************************************)
EXTENDS FanNames, FiniteSetTheorems, TLAPS

-----------------------------------------------------------------------------
(* Counting nodes. *)

(* The names of a description are names, and so is that of every fan.      *)
LEMMA NamesAreNames ==
  ASSUME naming \in Naming
  PROVE  \A f \in Fan : naming.of[f] \in Name
BY NamesAssumption

(* A set of fans has finitely many fans of a name.                         *)
LEMMA NodesIsNat ==
  ASSUME NEW k, NEW S \in SUBSET Fan
  PROVE  /\ IsFiniteSet(Bearing(k, S))
         /\ Nodes(k, S) \in Nat
<1>1. Bearing(k, S) \subseteq Fan
  BY DEF Bearing
<1>2. IsFiniteSet(Bearing(k, S))
  BY <1>1, FS_Subset, NamesAssumption
<1> QED BY <1>2, FS_CardinalityType DEF Nodes

(* The fans of a name in two disjoint sets add up.                         *)
LEMMA NodesUnion ==
  ASSUME NEW k, NEW S \in SUBSET Fan, NEW T \in SUBSET Fan, S \cap T = {}
  PROVE  Nodes(k, S \cup T) = Nodes(k, S) + Nodes(k, T)
<1>1. /\ Bearing(k, S \cup T) = Bearing(k, S) \cup Bearing(k, T)
      /\ Bearing(k, S) \cap Bearing(k, T) = {}
  BY DEF Bearing
<1>2. IsFiniteSet(Bearing(k, S)) /\ IsFiniteSet(Bearing(k, T))
  BY NodesIsNat
<1>3. Cardinality(Bearing(k, S \cup T)) =
        Cardinality(Bearing(k, S)) + Cardinality(Bearing(k, T))
        - Cardinality(Bearing(k, S) \cap Bearing(k, T))
  BY <1>1, <1>2, FS_Union
<1>4. Cardinality(Bearing(k, S) \cap Bearing(k, T)) = 0
  BY <1>1, FS_EmptySet
<1> QED BY <1>3, <1>4, NodesIsNat DEF Nodes

(* Fewer fans have fewer fans of a name, by those taken away.              *)
LEMMA NodesDifference ==
  ASSUME NEW k, NEW S \in SUBSET Fan, NEW T \in SUBSET S
  PROVE  Nodes(k, S \ T) = Nodes(k, S) - Nodes(k, T)
<1>1. (S \ T) \cup T = S /\ (S \ T) \cap T = {}
  OBVIOUS
<1>2. Nodes(k, S) = Nodes(k, S \ T) + Nodes(k, T)
  BY <1>1, NodesUnion
<1> QED BY <1>2, NodesIsNat

(* A name that one fan alone bears has one node or none.                   *)
LEMMA NodesOfAlone ==
  ASSUME NEW f \in Fan, Alone(f), NEW S \in SUBSET Fan
  PROVE  /\ f \in S => Bearing(naming.of[f], S) = {f} /\ Nodes(naming.of[f], S) = 1
         /\ f \notin S => Nodes(naming.of[f], S) = 0
<1>1. f \in S => Bearing(naming.of[f], S) = {f}
  BY DEF Bearing, Alone
<1>2. f \notin S => Bearing(naming.of[f], S) = {}
  BY DEF Bearing, Alone
<1> QED BY <1>1, <1>2, FS_Singleton, FS_EmptySet DEF Nodes

-----------------------------------------------------------------------------
(* Types. *)

(* The worst of some statuses is one of them, or uninitialized.            *)
LEMMA WorstIsStatus ==
  ASSUME NEW S \in SUBSET CachedStatus
  PROVE  Worst(S) \in CachedStatus
<1> DEFINE T == {FAND_STATUS_UNINITIALIZED} \cup S
<1>1. T \subseteq 0 .. 3 /\ 0 \in T
  BY DEF CachedStatus, FAND_STATUS_UNINITIALIZED
<1>2. \E m \in T : \A y \in T : m >= y
  <2>1. CASE 3 \in T BY <1>1, <2>1
  <2>2. CASE 3 \notin T /\ 2 \in T BY <1>1, <2>2
  <2>3. CASE 3 \notin T /\ 2 \notin T /\ 1 \in T BY <1>1, <2>3
  <2>4. CASE 3 \notin T /\ 2 \notin T /\ 1 \notin T BY <1>1, <2>4
  <2> QED BY <2>1, <2>2, <2>3, <2>4
<1>3. Max(T) \in T
  BY <1>2 DEF Max
<1>4. Worst(S) = Max(T)
  BY DEF Worst
<1> QED BY <1>1, <1>3, <1>4 DEF CachedStatus, FAND_STATUS_UNINITIALIZED

(* Whatever struct get_local_fan gives, it is of a fan of the subsystem.   *)
LEMMA LedStatusIsStatus ==
  ASSUME NEW l, NEW found \in [Fan -> Fan], NEW stat \in [Fan -> CachedStatus]
  PROVE  LedStatus(l, found, stat) \in CachedStatus
<1> DEFINE S == {stat[found[f]] : f \in {g \in Fan : l \in {FruOf[g], SubsystemOf[FruOf[g]]}}}
<1>1. S \in SUBSET CachedStatus
  OBVIOUS
<1>2. Worst(S) \in CachedStatus
  BY <1>1, WorstIsStatus
<1> QED BY <1>2 DEF LedStatus

(* What fand_reconfigure makes of the fans: those gone had structs, those  *)
(* added had none, and the rows of the database have structs afterwards.   *)
LEMMA FansOfRows ==
  ASSUME TypeOK
  PROVE  /\ FansIn(rows \ subsystem_data) \in SUBSET Fan
         /\ FansIn(subsystem_data \ rows) \in SUBSET Live
         /\ Live \in SUBSET Fan
         /\ FansIn(rows \ subsystem_data) \cap Live = {}
         /\ FansIn(rows) = (Live \ FansIn(subsystem_data \ rows))
                             \cup FansIn(rows \ subsystem_data)
BY DEF FansIn, Live

(* The dictionary that RemoveUnmarked leaves: it holds fans of the rows    *)
(* only, and no name has lost or won a node against the fans of the rows.  *)
LEMMA RemovalKeepsCount ==
  ASSUME TypeOK, EveryNameIsFound,
         NEW d \in Deleted(FansIn(subsystem_data \ rows),
                           WithNodes(FansIn(rows \ subsystem_data))),
         NEW k \in Name
  PROVE  LET gone  == FansIn(subsystem_data \ rows)
             nodes == WithNodes(FansIn(rows \ subsystem_data))
             left  == dangling[k] - (Nodes(k, gone) - Nodes(k, d))
                        + Nodes(k, (gone \cap nodes) \ d)
         IN  /\ left \in Nat
             /\ nodes \ (d \cup gone) \subseteq FansIn(rows)
             /\ Nodes(k, nodes \ (d \cup gone)) + left = Nodes(k, FansIn(rows))
<1> DEFINE added == FansIn(rows \ subsystem_data)
           gone  == FansIn(subsystem_data \ rows)
           nodes == WithNodes(added)
           rest  == (gone \cap nodes) \ d
<1>1. /\ added \in SUBSET Fan /\ gone \in SUBSET Live /\ Live \in SUBSET Fan
      /\ added \cap Live = {}
      /\ FansIn(rows) = (Live \ gone) \cup added
  BY FansOfRows
<1>2. /\ fan_data \in SUBSET Live
      /\ dangling[k] \in Nat
      /\ nodes = fan_data \cup added
  BY DEF TypeOK, WithNodes
<1>3. /\ d \in SUBSET nodes
      /\ Nodes(k, gone) - Nodes(k, d) \in 0 .. dangling[k]
  BY DEF Deleted
<1> HIDE DEF added, gone, nodes, rest
<1>4. Nodes(k, fan_data) + dangling[k] = Nodes(k, Live)
  BY DEF EveryNameIsFound
<1>5. Nodes(k, nodes) = Nodes(k, fan_data) + Nodes(k, added)
  BY <1>1, <1>2, NodesUnion
<1>6. Nodes(k, FansIn(rows)) = Nodes(k, Live) - Nodes(k, gone) + Nodes(k, added)
  <2>1. Nodes(k, (Live \ gone) \cup added) = Nodes(k, Live \ gone) + Nodes(k, added)
    BY <1>1, NodesUnion
  <2>2. Nodes(k, Live \ gone) = Nodes(k, Live) - Nodes(k, gone)
    BY <1>1, NodesDifference
  <2> QED BY <1>1, <2>1, <2>2
<1>7. Nodes(k, nodes \ (d \cup gone)) = Nodes(k, nodes) - Nodes(k, d) - Nodes(k, rest)
  <2>1. /\ nodes \in SUBSET Fan /\ rest \in SUBSET Fan
        /\ d \cup rest \in SUBSET nodes /\ d \cap rest = {}
        /\ nodes \ (d \cup gone) = nodes \ (d \cup rest)
    BY <1>1, <1>2, <1>3 DEF rest
  <2>2. Nodes(k, nodes \ (d \cup rest)) = Nodes(k, nodes) - Nodes(k, d \cup rest)
    BY <2>1, NodesDifference
  <2>3. Nodes(k, d \cup rest) = Nodes(k, d) + Nodes(k, rest)
    BY <2>1, <1>3, NodesUnion
  <2>4. Nodes(k, nodes) \in Nat /\ Nodes(k, d) \in Nat /\ Nodes(k, rest) \in Nat
    BY <2>1, <1>3, NodesIsNat
  <2>5. Nodes(k, nodes \ (d \cup gone)) = Nodes(k, nodes \ (d \cup rest))
    BY <2>1
  <2> QED BY <2>2, <2>3, <2>4, <2>5
<1>8. /\ Nodes(k, gone) \in Nat /\ Nodes(k, d) \in Nat /\ Nodes(k, rest) \in Nat
      /\ Nodes(k, fan_data) \in Nat /\ Nodes(k, added) \in Nat /\ Nodes(k, Live) \in Nat
  BY <1>1, <1>2, <1>3, NodesIsNat DEF rest
<1>9. nodes \ (d \cup gone) \subseteq FansIn(rows)
  BY <1>1, <1>2
<1>10. /\ dangling[k] - (Nodes(k, gone) - Nodes(k, d)) + Nodes(k, rest) \in Nat
       /\ Nodes(k, nodes \ (d \cup gone))
            + (dangling[k] - (Nodes(k, gone) - Nodes(k, d)) + Nodes(k, rest))
          = Nodes(k, FansIn(rows))
  BY <1>2, <1>3, <1>4, <1>5, <1>6, <1>7, <1>8
<1> QED BY <1>9, <1>10 DEF added, gone, nodes, rest

-----------------------------------------------------------------------------
(* The inductive invariant: the types, the count of nodes, and no dangling *)
(* node of a name that one fan alone bears.                                *)

AloneClean == \A f \in Fan : Alone(f) => dangling[naming.of[f]] = 0

NamesInv == TypeOK /\ EveryNameIsFound /\ AloneClean

LEMMA NamesInvInit == Init => NamesInv
<1> SUFFICES ASSUME Init PROVE NamesInv
  OBVIOUS
<1>1. Live = {}
  BY DEF Init, Live, FansIn
<1>2. TypeOK
  <2>1. FAND_STATUS_UNINITIALIZED \in CachedStatus
    BY DEF CachedStatus, FAND_STATUS_UNINITIALIZED
  <2> QED BY <1>1, <2>1 DEF Init, TypeOK
<1>3. EveryNameIsFound
  <2> SUFFICES ASSUME NEW k \in Name
               PROVE  Nodes(k, fan_data) + dangling[k] = Nodes(k, Live)
    BY DEF EveryNameIsFound
  <2>1. fan_data = Live /\ dangling[k] = 0 /\ Nodes(k, Live) \in Nat
    BY <1>1, NodesIsNat DEF Init
  <2> QED BY <2>1
<1>4. AloneClean
  BY NamesAreNames DEF Init, AloneClean
<1> QED BY <1>2, <1>3, <1>4 DEF NamesInv

(* A step that leaves the description and the structs alone keeps the      *)
(* count and the names of fans that are alone.                             *)
LEMMA CountUnchanged ==
  ASSUME NamesInv, UNCHANGED <<naming, structs>>
  PROVE  /\ (EveryNameIsFound /\ AloneClean)'
         /\ Live' = Live
BY DEF NamesInv, EveryNameIsFound, AloneClean, Alone, Nodes, Bearing, Live,
       FansIn, structs

LEMMA ReconfigureKeepsInv ==
  ASSUME NamesInv, fand_reconfigure
  PROVE  NamesInv'
<1> DEFINE added == FansIn(rows \ subsystem_data)
           gone  == FansIn(subsystem_data \ rows)
           nodes == WithNodes(added)
<1>1. TypeOK /\ EveryNameIsFound /\ AloneClean
  BY DEF NamesInv
<1>2. PICK d \in Deleted(gone, nodes) :
        /\ fan_data' = nodes \ (d \cup gone)
        /\ dangling' = [k \in Name |->
             dangling[k] - (Nodes(k, gone) - Nodes(k, d)) + Nodes(k, (gone \cap nodes) \ d)]
  BY DEF fand_reconfigure, RemoveUnmarked
<1>3. /\ subsystem_data' = rows /\ rows' = rows /\ naming' = naming
      /\ fan_fault' = fan_fault
      /\ changed' = FALSE /\ polling' = TRUE
      /\ fans' = fans \cup (rows \ subsystem_data)
      /\ Live' = FansIn(rows)
  BY DEF fand_reconfigure, Live, FansIn
<1>4. /\ \A k \in Name : dangling'[k] \in Nat
      /\ \A k \in Name : Nodes(k, fan_data') + dangling'[k] = Nodes(k, FansIn(rows))
  BY <1>1, <1>2, RemovalKeepsCount
<1>5. fan_data' \subseteq FansIn(rows)
  BY <1>1, <1>2, FansOfRows DEF TypeOK, WithNodes
<1>6. status' \in [Fan -> CachedStatus] /\ fan_led' \in [Subsystem \cup Fru -> CachedStatus]
  <2>1. PICK stat \in Malloced(rows \ subsystem_data) :
          status' = stat /\ fand_set_fanleds(rows, stat)
    BY DEF fand_reconfigure
  <2>2. stat \in [Fan -> CachedStatus]
    BY <2>1, <1>1, NamesAssumption DEF Malloced, TypeOK
  <2>3. PICK found \in [Fan -> Fan] :
          fan_led' = [l \in Subsystem \cup Fru |->
                        IF l \in rows \/ (l \in Fru /\ SubsystemOf[l] \in rows)
                        THEN LedStatus(l, found, stat)
                        ELSE fan_led[l]]
    BY <2>1 DEF fand_set_fanleds
  <2>4. \A l : LedStatus(l, found, stat) \in CachedStatus
    BY <2>2, <2>3, LedStatusIsStatus
  <2> QED BY <2>1, <2>2, <2>3, <2>4, <1>1 DEF TypeOK
<1>7. fan_status' \in [Name -> CachedStatus]
  BY <1>1 DEF fand_reconfigure, TypeOK, CachedStatus, FAND_STATUS_UNINITIALIZED
<1>8. TypeOK'
  <2>1. rows' \subseteq Subsystem /\ fans' \subseteq rows' /\ subsystem_data' \subseteq Subsystem
    BY <1>1, <1>3 DEF TypeOK
  <2>2. dangling' \in [Name -> Nat]
    BY <1>2, <1>4
  <2> QED BY <2>1, <2>2, <1>1, <1>3, <1>5, <1>6, <1>7 DEF TypeOK
<1>9. EveryNameIsFound'
  <2>1. \A k \in Name : Nodes(k, fan_data)' = Nodes(k, fan_data')
    BY <1>3 DEF Nodes, Bearing
  <2>2. \A k \in Name : Nodes(k, Live)' = Nodes(k, FansIn(rows))
    BY <1>3 DEF Nodes, Bearing
  <2> QED BY <1>4, <2>1, <2>2 DEF EveryNameIsFound
<1>10. AloneClean'
  <2> SUFFICES ASSUME NEW f \in Fan, Alone(f)
               PROVE  dangling'[naming.of[f]] = 0
    BY <1>3 DEF AloneClean, Alone
  <2> DEFINE k == naming.of[f]
  <2>1. k \in Name /\ dangling[k] = 0
    BY <1>1, NamesAreNames DEF AloneClean, TypeOK
  <2>2. /\ gone \in SUBSET Fan /\ nodes \in SUBSET Fan
        /\ d \in SUBSET nodes
        /\ Nodes(k, gone) - Nodes(k, d) \in 0 .. 0
    BY <1>1, <1>2, <2>1, FansOfRows DEF Deleted, TypeOK, WithNodes
  <2>3. /\ Nodes(k, gone) \in Nat /\ Nodes(k, d) \in Nat
    BY <2>2, NodesIsNat
  <2>4. Nodes(k, gone) - Nodes(k, d) = 0
    BY <2>2
  <2>5. f \in gone => f \in d
    <3> HIDE DEF gone, nodes
    <3>1. f \in gone => Nodes(k, gone) = 1
      BY <2>2, NodesOfAlone
    <3>2. d \in SUBSET Fan
      BY <2>2
    <3>3. f \notin d => Nodes(k, d) = 0
      BY <3>2, NodesOfAlone
    <3> QED BY <2>4, <3>1, <3>3
  <2>6. Nodes(k, (gone \cap nodes) \ d) = 0
    <3>1. (gone \cap nodes) \ d \in SUBSET Fan /\ f \notin (gone \cap nodes) \ d
      BY <2>2, <2>5
    <3> HIDE DEF gone, nodes
    <3> QED BY <3>1, NodesOfAlone
  <2>7. dangling'[k] = dangling[k] - (Nodes(k, gone) - Nodes(k, d))
                         + Nodes(k, (gone \cap nodes) \ d)
    BY <1>2, <2>1
  <2> QED BY <2>1, <2>4, <2>6, <2>7
<1> QED BY <1>8, <1>9, <1>10 DEF NamesInv

LEMMA ReadStatusKeepsInv ==
  ASSUME NamesInv, fand_read_status
  PROVE  NamesInv'
<1>1. TypeOK
  BY DEF NamesInv
<1>2. UNCHANGED <<naming, database, structs, fan_fault, fan_led>>
  BY DEF fand_read_status
<1>3. \A f \in Fan : Polled(f) \in CachedStatus
  BY DEF Polled, CachedStatus, FAND_STATUS_UNINITIALIZED, FAND_STATUS_FAULT,
         FAND_STATUS_OK
<1>4. status' \in [Fan -> CachedStatus]
  BY <1>1, <1>3 DEF fand_read_status, TypeOK
<1>5. /\ polling' = FALSE /\ fan_status' \in [Name -> CachedStatus]
  BY DEF fand_read_status
<1>6. TypeOK'
  BY <1>1, <1>2, <1>4, <1>5, CountUnchanged DEF TypeOK, database, structs
<1> QED BY <1>2, <1>6, CountUnchanged DEF NamesInv

LEMMA NamesInvNext == NamesInv /\ [Next]_vars => NamesInv'
<1> SUFFICES ASSUME NamesInv, [Next]_vars PROVE NamesInv'
  OBVIOUS
<1>1. TypeOK
  BY DEF NamesInv
<1>2. CASE fand_reconfigure
  BY <1>2, ReconfigureKeepsInv
<1>3. CASE fand_read_status
  BY <1>3, ReadStatusKeepsInv
<1>4. CASE NothingChanged
  <2>1. TypeOK'
    BY <1>1, <1>4, CountUnchanged DEF NothingChanged, TypeOK, database, structs
  <2> QED BY <1>4, <2>1, CountUnchanged DEF NothingChanged, NamesInv
<1>5. ASSUME NEW s \in Subsystem, SubsystemAppears(s) \/ SubsystemGoes(s)
      PROVE  NamesInv'
  <2>1. UNCHANGED <<naming, polling, structs, status, fan_fault, fan_status, fan_led>>
    BY <1>5 DEF SubsystemAppears, SubsystemGoes
  <2>2. /\ rows' \subseteq Subsystem /\ fans' \subseteq rows' /\ changed' = TRUE
    BY <1>1, <1>5 DEF SubsystemAppears, SubsystemGoes, TypeOK
  <2>3. TypeOK'
    BY <1>1, <2>1, <2>2, CountUnchanged DEF TypeOK, structs
  <2> QED BY <2>1, <2>3, CountUnchanged DEF NamesInv
<1>6. ASSUME NEW f \in Fan, FanInputChanges(f) PROVE NamesInv'
  <2>1. TypeOK'
    BY <1>1, <1>6, CountUnchanged DEF FanInputChanges, TypeOK, database, structs
  <2> QED BY <1>6, <2>1, CountUnchanged DEF FanInputChanges, NamesInv
<1>7. CASE UNCHANGED vars
  <2>1. TypeOK'
    BY <1>1, <1>7, CountUnchanged DEF vars, TypeOK, database, structs
  <2> QED BY <1>7, <2>1, CountUnchanged DEF vars, NamesInv
<1> QED BY <1>2, <1>3, <1>4, <1>5, <1>6, <1>7 DEF Next

(* The invariant of the dictionary holds in every state.                   *)
THEOREM NamesInvariant == Spec => []NamesInv
<1> QED BY NamesInvInit, NamesInvNext, PTL DEF Spec

(* The dictionary holds structs of live fans, and every column a value it  *)
(* may hold.                                                               *)
THEOREM NamesTypeCorrect == Spec => []TypeOK
<1>1. NamesInv => TypeOK
  BY DEF NamesInv
<1> QED BY <1>1, NamesInvariant, PTL

(* However names collide and subsystems come and go, there are as many     *)
(* nodes of a name as fans with a struct: every shash_find that            *)
(* fand_read_status and fand_remove_subsystem dereference finds a node.    *)
THEOREM NamesAreFound == Spec => []EveryNameIsFound
<1>1. NamesInv => EveryNameIsFound
  BY DEF NamesInv
<1> QED BY <1>1, NamesInvariant, PTL

(* A name that one fan alone bears leads to that fan's struct or, when the *)
(* fan has none, nowhere.                                                  *)
LEMMA NamesInvUnshared == NamesInv => UnsharedNameIsItsFan
<1> SUFFICES ASSUME NamesInv, NEW f \in Fan, Alone(f)
             PROVE  /\ dangling[naming.of[f]] = 0
                    /\ f \in fan_data <=> f \in Live
  BY DEF UnsharedNameIsItsFan
<1> DEFINE k == naming.of[f]
<1>1. /\ k \in Name /\ dangling[k] = 0
      /\ fan_data \in SUBSET Fan /\ Live \in SUBSET Fan
      /\ fan_data \subseteq Live
  BY NamesAreNames DEF NamesInv, TypeOK, AloneClean, Live, FansIn
<1>2. Nodes(k, fan_data) + dangling[k] = Nodes(k, Live)
  BY <1>1 DEF NamesInv, EveryNameIsFound
<1>3. /\ f \in fan_data => Nodes(k, fan_data) = 1
      /\ f \notin fan_data => Nodes(k, fan_data) = 0
  BY <1>1, NodesOfAlone
<1>4. f \in Live => Nodes(k, Live) = 1
  BY <1>1, NodesOfAlone
<1> QED BY <1>1, <1>2, <1>3, <1>4

THEOREM UnsharedNames == Spec => []UnsharedNameIsItsFan
<1> QED BY NamesInvariant, NamesInvUnshared, PTL

-----------------------------------------------------------------------------
(* What Fan rows and LEDs tell. *)

(* fand_read_status looks the fan of an unshared name up by its name and   *)
(* finds its own struct only.                                              *)
LEMMA ReadStatusTells ==
  ASSUME NamesInv, fand_read_status, NEW f \in Live, Alone(f),
         naming.of[f] \in FanRow
  PROVE  fan_status'[naming.of[f]] = Polled(f)
<1> DEFINE k == naming.of[f]
<1>1. f \in Fan /\ fan_data \in SUBSET Fan
  BY DEF Live, FansIn, NamesInv, TypeOK
<1>2. k \in Name /\ dangling[k] = 0 /\ f \in fan_data
  BY <1>1, NamesInvUnshared, NamesAreNames DEF NamesInv, TypeOK, UnsharedNameIsItsFan
<1>3. Bearing(k, fan_data) = {f}
  BY <1>1, <1>2, NodesOfAlone
<1>4. StatusOfName(k) = {Polled(f)}
  BY <1>2, <1>3 DEF StatusOfName
<1>5. fan_status'[k] \in StatusOfName(k)
  BY <1>2 DEF fand_read_status
<1> QED BY <1>4, <1>5

(* A Fan row of an unshared name tells what this pass read from that fan.  *)
THEOREM RowsTellTheirFans == Spec => RowTellsItsFan
<1>1. NamesInv /\ [Next]_vars =>
        [fand_read_status => \A f \in Live :
           Alone(f) /\ naming.of[f] \in FanRow
             => fan_status'[naming.of[f]] = Polled(f)]_vars
  BY ReadStatusTells
<1> QED BY <1>1, NamesInvariant, PTL DEF Spec, RowTellsItsFan

(* get_local_fan finds the struct of each fan of the FRU, so that the LED  *)
(* of the FRU shows the worst of their statuses.                           *)
LEMMA ReconfigureTells ==
  ASSUME NamesInv, fand_reconfigure, NEW u \in Fru, SubsystemOf[u] \in rows,
         \A f \in {g \in Fan : FruOf[g] = u} : Recognized(f)
  PROVE  fan_led'[u] = Worst({status'[f] : f \in {g \in Fan : FruOf[g] = u}})
<1> DEFINE own == {f \in Fan : FruOf[f] = u}
<1>1. PICK stat \in Malloced(rows \ subsystem_data) :
        status' = stat /\ fand_set_fanleds(rows, stat)
  BY DEF fand_reconfigure
<1>2. PICK found \in [Fan -> Fan] :
        /\ \A f \in Fan : found[f] \in get_local_fan(f)
        /\ fan_led' = [l \in Subsystem \cup Fru |->
                        IF l \in rows \/ (l \in Fru /\ SubsystemOf[l] \in rows)
                        THEN LedStatus(l, found, stat)
                        ELSE fan_led[l]]
  BY <1>1 DEF fand_set_fanleds
<1>3. fan_led'[u] = LedStatus(u, found, stat)
  BY <1>2
<1>4. \A f \in own : found[f] = f
  <2> SUFFICES ASSUME NEW f \in own PROVE get_local_fan(f) = {f}
    BY <1>2
  <2>1. f \in FansIn({SubsystemOf[FruOf[f]]})
    BY DEF FansIn
  <2>2. Bearing(naming.of[f], FansIn({SubsystemOf[FruOf[f]]})) = {f}
    BY <2>1 DEF Bearing, Recognized, FansIn
  <2> QED BY <2>2 DEF get_local_fan, Recognized
<1>5. {g \in Fan : u \in {FruOf[g], SubsystemOf[FruOf[g]]}} = own
  BY NamesAssumption
<1>6. {stat[found[f]] : f \in own} = {stat[f] : f \in own}
  BY <1>4
<1>7. LedStatus(u, found, stat) = Worst({stat[f] : f \in own})
  BY <1>5, <1>6 DEF LedStatus
<1> QED BY <1>1, <1>3, <1>7

(* An LED shows the worst of its own fans when their names are short and   *)
(* unshared within the subsystem.                                          *)
THEOREM LedsTellTheirFans == Spec => LedTellsItsFans
<1>1. NamesInv /\ [Next]_vars =>
        [fand_reconfigure => \A u \in Fru :
           LET own == {f \in Fan : FruOf[f] = u}
           IN  SubsystemOf[u] \in rows /\ (\A f \in own : Recognized(f))
                 => fan_led'[u] = Worst({status'[f] : f \in own})]_vars
  BY ReconfigureTells
<1> QED BY <1>1, NamesInvariant, PTL DEF Spec, LedTellsItsFans

=============================================================================
