------------------------------ MODULE FanLock -------------------------------
(***************************************************************************)
(* Several ops-fand processes on one switch: the lock "ops_fand" of the    *)
(* database decides which of them drives the fans (fand_run, fand_init).   *)
(*                                                                         *)
(* Every process has a replica of the database and a belief about the      *)
(* lock, both brought up to date only where it runs the IDL.  The lock     *)
(* guards the transactions, which the server refuses to a process that     *)
(* does not hold it; nothing guards the i2c registers.                     *)
(***************************************************************************)
EXTENDS FanTypes, FiniteSets

CONSTANTS
  Proc,           \* ops-fand processes
  Subsystem,
  Wanted,         \* the speeds that the policy may give
  SessionsDrop    \* may a live process lose its connection to the server?

ASSUME LockAssumption ==
  /\ Wanted \subseteq RealSpeed
  /\ SessionsDrop \in BOOLEAN
  /\ NULL \notin Proc

VARIABLES
  demand,         \* the speed the policy gives each subsystem, in the database
  register,       \* the control register of each subsystem
  fan_speed,      \* Fan:speed of each subsystem's fans in the database
  holder,         \* the process whose session holds the lock, or NULL
  dropped,        \* processes whose session is gone, unnoticed by them
  pc,             \* where each process is
  has_lock,       \* does the process's IDL say that it has the lock?
  idl,            \* the replica of demand of each process
  idl_changed,    \* has the IDL's sequence number moved?
  todo,           \* subsystems that fand_reconfigure has still to visit
  speed           \* struct locl_subsystem.speed of each process

server  == <<fan_speed, holder, dropped>>
process == <<pc, has_lock, idl, idl_changed, todo, speed>>
vars    == <<demand, register, server, process>>

Unset == [s \in Subsystem |-> FAND_SPEED_NONE]

Up == {p \in Proc : pc[p] # "down"}

TypeOK ==
  /\ demand \in [Subsystem -> Wanted]
  /\ register \in [Subsystem -> Wanted \cup {FAND_SPEED_NONE}]
  /\ fan_speed \in [Subsystem -> Wanted \cup {FAND_SPEED_NONE}]
  /\ holder \in Proc \cup {NULL}
  /\ dropped \in SUBSET Proc
  /\ pc \in [Proc -> {"down", "run", "reconfigure", "commit"}]
  /\ has_lock \in [Proc -> BOOLEAN]
  /\ idl \in [Proc -> [Subsystem -> Wanted \cup {FAND_SPEED_NONE}]]
  /\ idl_changed \in [Proc -> BOOLEAN]
  /\ todo \in [Proc -> SUBSET Subsystem]
  /\ speed \in [Proc -> [Subsystem -> Wanted \cup {FAND_SPEED_NONE}]]

Init ==
  /\ demand \in [Subsystem -> Wanted]
  /\ register = Unset /\ fan_speed = Unset
  /\ holder = NULL /\ dropped = {}
  /\ pc = [p \in Proc |-> "down"]
  /\ has_lock = [p \in Proc |-> FALSE]
  /\ idl = [p \in Proc |-> Unset]
  /\ idl_changed = [p \in Proc |-> FALSE]
  /\ todo = [p \in Proc |-> {}]
  /\ speed = [p \in Proc |-> Unset]

-----------------------------------------------------------------------------
(* The server and the connections. *)

(* Sensors or overrides change. *)
DemandChanges(s) ==
  /\ \E v \in Wanted \ {demand[s]} : demand' = [demand EXCEPT ![s] = v]
  /\ UNCHANGED <<register, server, process>>

(* Every connected process has asked for the lock. *)
Grant(p) ==
  /\ holder = NULL
  /\ p \in Up \ dropped
  /\ holder' = p
  /\ UNCHANGED <<demand, register, fan_speed, dropped, process>>

(* A probe is missed, or the server restarts: the lock is free again, and  *)
(* the process learns of it the next time its IDL runs.                    *)
SessionDrops(p) ==
  /\ SessionsDrop
  /\ p \in Up \ dropped
  /\ dropped' = dropped \cup {p}
  /\ holder' = IF holder = p THEN NULL ELSE holder
  /\ UNCHANGED <<demand, register, fan_speed, process>>

-----------------------------------------------------------------------------
(* A process. *)

(* main up to its loop, and fand_init, which asks for the lock. *)
Start(p) ==
  /\ pc[p] = "down"
  /\ pc' = [pc EXCEPT ![p] = "run"]
  /\ UNCHANGED <<demand, register, server, has_lock, idl, idl_changed, todo, speed>>

(* The process ends, at any point, and its session with it. *)
Crash(p) ==
  /\ p \in Up
  /\ pc' = [pc EXCEPT ![p] = "down"]
  /\ has_lock' = [has_lock EXCEPT ![p] = FALSE]
  /\ idl' = [idl EXCEPT ![p] = Unset]
  /\ idl_changed' = [idl_changed EXCEPT ![p] = FALSE]
  /\ todo' = [todo EXCEPT ![p] = {}]
  /\ speed' = [speed EXCEPT ![p] = Unset]
  /\ holder' = IF holder = p THEN NULL ELSE holder
  /\ dropped' = dropped \ {p}
  /\ UNCHANGED <<demand, register, fan_speed>>

(* One run of the IDL; moved says whether it leaves the sequence number    *)
(* ahead of idl_seqno.  A session known to be lost is set up anew, without *)
(* the lock, and that moves the number, whatever has changed.  A live one  *)
(* brings the replica up to date, and the news of the lock when it has     *)
(* arrived; gaining the lock moves the number too.                         *)
NoticesDrop(p, moved) ==
  /\ p \in dropped
  /\ dropped' = dropped \ {p}
  /\ has_lock' = [has_lock EXCEPT ![p] = FALSE]
  /\ idl' = [idl EXCEPT ![p] = demand]
  /\ moved = TRUE

ReceivesUpdates(p, moved) ==
  /\ p \notin dropped
  /\ \E lock \in {has_lock[p], holder = p} :
       /\ has_lock' = [has_lock EXCEPT ![p] = lock]
       /\ moved = (idl_changed[p] \/ idl[p] # demand \/ lock # has_lock[p])
  /\ idl' = [idl EXCEPT ![p] = demand]
  /\ UNCHANGED dropped

HearsNothing(p, moved) ==
  /\ p \in dropped
  /\ moved = idl_changed[p]
  /\ UNCHANGED <<dropped, has_lock, idl>>

RunIdl(p, moved) ==
  NoticesDrop(p, moved) \/ ReceivesUpdates(p, moved) \/ HearsNothing(p, moved)

(* Seeded mistake: a change is taken for handled although no pass followed.*)
ChangeForgotten(moved) == FALSE

(* Only a reconfiguration sets idl_seqno: a change that arrives without    *)
(* the lock, or with the outcome of a transaction, is still there when     *)
(* the next pass asks.                                                     *)
ChangePending(moved) == moved

(* Seeded mistake: the lock is not tested.                                 *)
LockUntested(p) == TRUE

LockTested(p) == has_lock'[p]

(* fand_run without the lock, and with it: then it reconfigures if         *)
(* anything has changed, and publishes the fans' status.                   *)
FandRunWithoutLock(p) ==
  /\ pc[p] = "run"
  /\ \E moved \in BOOLEAN :
       /\ RunIdl(p, moved)
       /\ ~has_lock'[p]
       /\ idl_changed' = [idl_changed EXCEPT ![p] = ChangePending(moved)]
  /\ UNCHANGED <<demand, register, fan_speed, holder, pc, todo, speed>>

FandRunWithLock(p) ==
  /\ pc[p] = "run"
  /\ \E moved \in BOOLEAN :
       /\ RunIdl(p, moved)
       /\ LockTested(p)
       /\ pc' = [pc EXCEPT ![p] = IF moved THEN "reconfigure" ELSE "commit"]
       /\ todo' = [todo EXCEPT ![p] = IF moved THEN Subsystem ELSE {}]
  /\ idl_changed' = [idl_changed EXCEPT ![p] = FALSE]
  /\ UNCHANGED <<demand, register, fan_speed, holder, speed>>

(* One subsystem of the loop of fand_reconfigure: its speed is decided and *)
(* written.                                                                *)
Reconfigure(p, s) ==
  /\ pc[p] = "reconfigure"
  /\ s \in todo[p]
  /\ todo' = [todo EXCEPT ![p] = @ \ {s}]
  /\ speed' = [speed EXCEPT ![p][s] = idl[p][s]]
  /\ register' = [register EXCEPT ![s] = idl[p][s]]
  /\ UNCHANGED <<demand, server, pc, has_lock, idl, idl_changed>>

EndReconfigure(p) ==
  /\ pc[p] = "reconfigure"
  /\ todo[p] = {}
  /\ pc' = [pc EXCEPT ![p] = "commit"]
  /\ UNCHANGED <<demand, register, server, has_lock, idl, idl_changed, todo, speed>>

(* The transaction of fand_read_status: the server carries it out only for *)
(* the holder of the lock, and the IDL runs until the outcome is known,    *)
(* which it is at the latest when a lost session is set up anew.           *)
CommitStatus(p) ==
  /\ pc[p] = "commit"
  /\ fan_speed' = IF holder = p THEN speed[p] ELSE fan_speed
  /\ \E moved \in BOOLEAN :
       /\ NoticesDrop(p, moved) \/ ReceivesUpdates(p, moved)
       /\ idl_changed' = [idl_changed EXCEPT ![p] = ChangePending(moved)]
  /\ pc' = [pc EXCEPT ![p] = "run"]
  /\ UNCHANGED <<demand, register, holder, todo, speed>>

(* No row differs from the fans' status: no transaction.                   *)
NothingToPublish(p) ==
  /\ pc[p] = "commit"
  /\ fan_speed = speed[p]
  /\ pc' = [pc EXCEPT ![p] = "run"]
  /\ UNCHANGED <<demand, register, server, has_lock, idl, idl_changed, todo, speed>>

Step(p) ==
  \/ FandRunWithoutLock(p) \/ FandRunWithLock(p)
  \/ \E s \in Subsystem : Reconfigure(p, s)
  \/ EndReconfigure(p)
  \/ CommitStatus(p) \/ NothingToPublish(p)

Environment ==
  \/ \E s \in Subsystem : DemandChanges(s)
  \/ \E p \in Proc : SessionDrops(p) \/ Crash(p)

Next ==
  \/ Environment
  \/ \E p \in Proc : Grant(p) \/ Start(p) \/ Step(p)

Spec == Init /\ [][Next]_vars

(* No process stops, the server gives a free lock to somebody, the holder  *)
(* hears of it, and a lost session is noticed.                             *)
Fairness ==
  /\ WF_vars(\E p \in Proc : Grant(p))
  /\ \A p \in Proc : /\ WF_vars(Step(p))
                     /\ SF_vars(holder = p /\ FandRunWithLock(p))
                     /\ SF_vars(/\ p \in dropped /\ FandRunWithoutLock(p)
                             /\ p \notin dropped')

-----------------------------------------------------------------------------

(* No register is written but by the process that holds the lock at that   *)
(* moment, although the lock is tested only at the head of a pass; the one *)
(* exception is a process whose session has gone without its knowledge.    *)
HolderDrivesFans ==
  [][\A p \in Proc : \A s \in Subsystem :
       Reconfigure(p, s) => holder = p \/ p \in dropped]_vars

(* Whichever processes die, and wherever in a pass, the one that is left   *)
(* brings each register to its demand, and the database with it: also      *)
(* those that its predecessor left half written, and those whose demand    *)
(* changed while nobody had the lock.  Only death may end a session here.  *)
DemandReachesRegisters ==
  [](dropped = {}) =>
    \A p \in Proc : \A s \in Subsystem : \A v \in Wanted :
      <>[](p \in Up /\ demand[s] = v) => <>[](register[s] = v /\ fan_speed[s] = v)

(* Sessions may drop.  A deposed process can then overwrite what its       *)
(* successor wrote, and nobody notices; but the first change that the      *)
(* holder has still to see when every other process knows that it is       *)
(* without the lock puts this right: whatever the register holds then, it  *)
(* ends with the demand, if holder and demand stay as they are.            *)
Undisputed(p) ==
  /\ holder = p
  /\ \A q \in Proc \ {p} : ~has_lock[q] /\ pc[q] \in {"down", "run"}

LateWriteIsRepaired ==
  \A p \in Proc : \A s \in Subsystem : \A v \in Wanted :
    <>(idl[p][s] # v /\ [](Undisputed(p) /\ demand[s] = v))
      => <>[](register[s] = v /\ fan_speed[s] = v)

-----------------------------------------------------------------------------
(* What a message and a document say and the code does not do. *)

(* "Another ops-fand process is running, disabling this process until it   *)
(* goes away" (fand_run).                                                  *)
OnlyHolderDrivesFans ==
  [][\A p \in Proc : \A s \in Subsystem : Reconfigure(p, s) => holder = p]_vars

(* The daemon "sets the fan speed to an appropriate value" (DESIGN.md).    *)
DemandReachesRegistersAnyway ==
  \A p \in Proc : \A d \in [Subsystem -> Wanted] :
    <>[](p \in Up /\ demand = d) => <>[](register = d)

=============================================================================
