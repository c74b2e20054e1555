------------------------------ MODULE MCBooking ------------------------------
(***************************************************************************)
(* Instances of Booking for TLC: a salon with a half-hour and a one-hour   *)
(* service, whose spoken names may match one of them, both or none.        *)
(***************************************************************************)
EXTENDS Booking, FiniteSets, TLC

CONSTANTS cut, colour, k1, k2, q1, c1, u1, u2, b1, b2, p1, p2, x1, x2

MCDuration == [s \in Service |-> IF s = cut THEN 30 ELSE 60]

(* Opening hours around the UTC midnight of 05:30: from 05:00 to 06:40, or  *)
(* from 05:30.                                                             *)
EarlyOpening == {[open |-> 300, close |-> 400]}
TwoOpenings == EarlyOpening \cup {[open |-> 330, close |-> 360]}

(* "hair" is contained in the names of both services.                      *)
MCMatching ==
  [b \in Business |-> [text \in ServiceText |->
     CASE text = "cut" -> {cut}
       [] text = "colour" -> {colour}
       [] text = "hair" -> {cut, colour}
       [] text = "massage" -> {}]]

Symmetry == Permutations(Booker) \cup Permutations(Updater) \cup Permutations(Phone)
              \cup Permutations(Reference) \cup Permutations(Business)
=============================================================================
