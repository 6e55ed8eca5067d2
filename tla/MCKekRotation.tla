--------------------------- MODULE MCKekRotation ---------------------------
(* Small instances of KekRotation for TLC. *)
EXTENDS KekRotation, TLC

Symmetry ==
  Permutations(Host) \cup Permutations(Proc) \cup Permutations(Officer)

LiveSpec == Spec /\ Fairness

=============================================================================
