--------------------------- MODULE FanLockProofs ----------------------------
(***************************************************************************)
(* For any number of processes, subsystems and speeds: only the holder of  *)
(* the lock writes registers, or a process that does not know that its     *)
(* session is gone.                                                        *)
(***************************************************************************)
EXTENDS FanLock, TLAPS

(* What the changes of the IDL keep of the types. *)
LEMMA RunIdlTypes ==
  ASSUME TypeOK, NEW p \in Proc, NEW moved \in BOOLEAN, RunIdl(p, moved)
  PROVE  /\ dropped' \in SUBSET Proc
         /\ has_lock' \in [Proc -> BOOLEAN]
         /\ idl' \in [Proc -> [Subsystem -> Wanted \cup {FAND_SPEED_NONE}]]
<1> USE DEF TypeOK
<1>1. CASE NoticesDrop(p, moved)
  BY <1>1 DEF NoticesDrop
<1>2. CASE ReceivesUpdates(p, moved)
  BY <1>2 DEF ReceivesUpdates
<1>3. CASE HearsNothing(p, moved)
  BY <1>3 DEF HearsNothing
<1> QED BY <1>1, <1>2, <1>3 DEF RunIdl

(* Every variable keeps its type. *)
THEOREM TypeCorrect == Spec => []TypeOK
<1>1. Init => TypeOK
  BY DEF Init, TypeOK, Unset
<1>2. TypeOK /\ [Next]_vars => TypeOK'
  <2> SUFFICES ASSUME TypeOK, [Next]_vars PROVE TypeOK'
    OBVIOUS
  <2> USE DEF TypeOK, server, process
  <2>1. ASSUME NEW s \in Subsystem, DemandChanges(s) PROVE TypeOK'
    BY <2>1 DEF DemandChanges
  <2>2. ASSUME NEW p \in Proc, SessionDrops(p) PROVE TypeOK'
    BY <2>2 DEF SessionDrops
  <2>3. ASSUME NEW p \in Proc, Crash(p) PROVE TypeOK'
    BY <2>3 DEF Crash, Unset
  <2>4. ASSUME NEW p \in Proc, Grant(p) PROVE TypeOK'
    BY <2>4 DEF Grant
  <2>5. ASSUME NEW p \in Proc, Start(p) PROVE TypeOK'
    BY <2>5 DEF Start
  <2>6. ASSUME NEW p \in Proc, FandRunWithoutLock(p) PROVE TypeOK'
    <3> PICK moved \in BOOLEAN :
          /\ RunIdl(p, moved)
          /\ idl_changed' = [idl_changed EXCEPT ![p] = ChangePending(moved)]
      BY <2>6 DEF FandRunWithoutLock
    <3> QED BY <2>6, RunIdlTypes DEF FandRunWithoutLock, ChangePending
  <2>7. ASSUME NEW p \in Proc, FandRunWithLock(p) PROVE TypeOK'
    <3> PICK moved \in BOOLEAN :
          /\ RunIdl(p, moved)
          /\ pc' = [pc EXCEPT ![p] = IF moved THEN "reconfigure" ELSE "commit"]
          /\ todo' = [todo EXCEPT ![p] = IF moved THEN Subsystem ELSE {}]
      BY <2>7 DEF FandRunWithLock
    <3> QED BY <2>7, RunIdlTypes DEF FandRunWithLock
  <2>8. ASSUME NEW p \in Proc, NEW s \in Subsystem, Reconfigure(p, s) PROVE TypeOK'
    BY <2>8 DEF Reconfigure
  <2>9. ASSUME NEW p \in Proc, EndReconfigure(p) PROVE TypeOK'
    BY <2>9 DEF EndReconfigure
  <2>10. ASSUME NEW p \in Proc, CommitStatus(p) PROVE TypeOK'
    <3> PICK moved \in BOOLEAN :
          /\ NoticesDrop(p, moved) \/ ReceivesUpdates(p, moved)
          /\ idl_changed' = [idl_changed EXCEPT ![p] = ChangePending(moved)]
      BY <2>10 DEF CommitStatus
    <3> QED BY <2>10, RunIdlTypes DEF CommitStatus, RunIdl, ChangePending
  <2>11. ASSUME NEW p \in Proc, NothingToPublish(p) PROVE TypeOK'
    BY <2>11 DEF NothingToPublish
  <2>12. CASE UNCHANGED vars
    BY <2>12 DEF vars
  <2> QED BY <2>1, <2>2, <2>3, <2>4, <2>5, <2>6, <2>7, <2>8, <2>9, <2>10, <2>11,
             <2>12 DEF Next, Environment, Step
<1> QED BY <1>1, <1>2, PTL DEF Spec

-----------------------------------------------------------------------------

(* A process that believes that it has the lock has it, unless its session *)
(* is gone, and one in the middle of a reconfiguration believes so.        *)
BeliefIsTrue ==
  /\ \A p \in Proc \ dropped : has_lock[p] => holder = p
  /\ \A p \in Proc : pc[p] = "reconfigure" => has_lock[p]

LEMMA BeliefStaysTrue ==
  ASSUME TypeOK, BeliefIsTrue, [Next]_vars
  PROVE  BeliefIsTrue'
<1> USE DEF TypeOK, BeliefIsTrue, server, process
<1>1. ASSUME NEW s \in Subsystem, DemandChanges(s) PROVE BeliefIsTrue'
  BY <1>1 DEF DemandChanges
<1>2. ASSUME NEW p \in Proc, SessionDrops(p) PROVE BeliefIsTrue'
  BY <1>2 DEF SessionDrops
<1>3. ASSUME NEW p \in Proc, Crash(p) PROVE BeliefIsTrue'
  BY <1>3 DEF Crash
<1>4. ASSUME NEW p \in Proc, Grant(p) PROVE BeliefIsTrue'
  BY <1>4, LockAssumption DEF Grant, LockAssumption
<1>5. ASSUME NEW p \in Proc, Start(p) PROVE BeliefIsTrue'
  BY <1>5 DEF Start
<1>6. ASSUME NEW p \in Proc, FandRunWithoutLock(p) PROVE BeliefIsTrue'
  BY <1>6 DEF FandRunWithoutLock, RunIdl, NoticesDrop, ReceivesUpdates, HearsNothing
<1>7. ASSUME NEW p \in Proc, FandRunWithLock(p) PROVE BeliefIsTrue'
  BY <1>7 DEF FandRunWithLock, RunIdl, NoticesDrop, ReceivesUpdates, HearsNothing,
     LockTested
<1>8. ASSUME NEW p \in Proc, NEW s \in Subsystem, Reconfigure(p, s)
      PROVE BeliefIsTrue'
  BY <1>8 DEF Reconfigure
<1>9. ASSUME NEW p \in Proc, EndReconfigure(p) PROVE BeliefIsTrue'
  BY <1>9 DEF EndReconfigure
<1>10. ASSUME NEW p \in Proc, CommitStatus(p) PROVE BeliefIsTrue'
  BY <1>10 DEF CommitStatus, NoticesDrop, ReceivesUpdates
<1>11. ASSUME NEW p \in Proc, NothingToPublish(p) PROVE BeliefIsTrue'
  BY <1>11 DEF NothingToPublish
<1>12. CASE UNCHANGED vars
  BY <1>12 DEF vars
<1> QED BY <1>1, <1>2, <1>3, <1>4, <1>5, <1>6, <1>7, <1>8, <1>9, <1>10, <1>11,
           <1>12 DEF Next, Environment, Step

(* No process whose session lives writes a register without the lock.      *)
THEOREM HolderDrives == Spec => HolderDrivesFans
<1>1. Init => BeliefIsTrue
  BY DEF Init, BeliefIsTrue
<1>2. TypeOK /\ BeliefIsTrue /\ [Next]_vars => BeliefIsTrue'
  BY BeliefStaysTrue
<1>3. BeliefIsTrue =>
        [\A p \in Proc : \A s \in Subsystem :
           Reconfigure(p, s) => holder = p \/ p \in dropped]_vars
  BY DEF BeliefIsTrue, Reconfigure
<1> QED BY <1>1, <1>2, <1>3, TypeCorrect, PTL DEF Spec, HolderDrivesFans

=============================================================================
