---------------------------- MODULE MCOnboarding ----------------------------
(* A small instance of Onboarding for TLC. *)
EXTENDS Onboarding, TLC

Symmetry == Permutations(Tabs) \cup Permutations(Slots)
=============================================================================
