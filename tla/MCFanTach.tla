----------------------------- MODULE MCFanTach ------------------------------
(***************************************************************************)
(* FanTach on a few fans: with the second byte and without, with and       *)
(* without the inputs, of either polarity, converted in each of the three  *)
(* ways.  The word is scaled down so that a product may just overflow.     *)
(* In a poll the fan has at most MaxInputs inputs, and at most MaxErrors   *)
(* transfers fail.                                                         *)
(***************************************************************************)
EXTENDS FanTach, FiniteSets, TLC

CONSTANTS MaxInputs, MaxErrors

Described(msb, direction_detect, present, f2b, multiplier, numerator) ==
  [speed_msb |-> msb, direction_detect |-> direction_detect, present |-> present,
   f2b |-> f2b, multiplier |-> multiplier, numerator |-> numerator]

MCDescription ==
  {Described(TRUE, TRUE, TRUE, 1, 0, 0), Described(TRUE, TRUE, TRUE, 0, 3, 0),
   Described(TRUE, TRUE, TRUE, 1, 0, 1000), Described(TRUE, FALSE, FALSE, 0, 0, 1000),
   Described(FALSE, FALSE, TRUE, 0, 2, 0)}

(* Either side of a carry into the high byte, nothing, and the maximum,    *)
(* which times three overflows the word.                                   *)
MCCount == {0, 255, 256, 65535}

MCWord == 262144

Failures == {t \in Transfer : rc[t] # 0}

MCNext ==
  \/ Poll /\ Cardinality(Failures') <= MaxErrors
  \/ InputMoves /\ Cardinality(during') <= MaxInputs

MCSpec == Init /\ [][MCNext]_vars

=============================================================================
