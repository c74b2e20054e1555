----------------------------- MODULE MCVoiceCall -----------------------------
(***************************************************************************)
(* Instances of VoiceCall for TLC: two runs of one call to a business with *)
(* one half-hour service.                                                  *)
(***************************************************************************)
EXTENDS VoiceCall, FiniteSets, TLC

CONSTANTS r1, r2, a1, t1, q1, w1, i1, p1, b1, x1, x2, cut

MCDuration == [s \in Service |-> 30]
MCMatching == [b \in Business |-> [text \in ServiceText |-> {cut}]]
EarlyOpening == {[open |-> 300, close |-> 400]}

MCCallOf == [r \in Run |-> a1]
MCPhoneOf == [c \in Call |-> p1]
MCBooker == BookTool \X (1 .. MaxAttempts)
MCChecker == CheckTool \X (1 .. MaxAttempts)
MCCanceller == CancelTool \X (1 .. MaxAttempts)

(* The first run books or checks, the second cancels or asks.              *)
MCMayCall ==
  [r \in Run |-> IF r = r1 THEN {t1, q1} \cap Tool ELSE {w1, i1} \cap Tool]

Symmetry == Permutations(Reference)
=============================================================================
