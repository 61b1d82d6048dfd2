----------------------------- MODULE MCFanNames -----------------------------
(***************************************************************************)
(* FanNames with two subsystems, the first of two FRUs: f1 and f2 sit in   *)
(* u1 and u2 of s, g in v of t.  Names are distinct, shared across         *)
(* subsystems or within one, or one of them is too long; at most one fan   *)
(* is faulty at a time.                                                    *)
(***************************************************************************)
EXTENDS FanNames, TLC

MCFan       == {"f1", "f2", "g"}
MCFruOf     == [f1 |-> "u1", f2 |-> "u2", g |-> "v"]
MCSubsystemOf == [u1 |-> "s", u2 |-> "s", v |-> "t"]

Named(a, b, c, long) == [of |-> [f1 |-> a, f2 |-> b, g |-> c], long |-> long]

MCNaming ==
  {Named("k1", "k2", "k1", {}), Named("k1", "k1", "k1", {}),
   Named("k1", "k1", "k3", {}), Named("k1", "k2", "k3", {"k1"})}

OneFaultAtATime == Cardinality({f \in Fan : fan_fault'[f]}) <= 1

MCSpec == Init /\ [][Next /\ OneFaultAtATime]_vars

=============================================================================
