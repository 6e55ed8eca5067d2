---------------------------- MODULE MCKeyKeeper ----------------------------
(* Small instances of KeyKeeper for TLC. *)
EXTENDS KeyKeeper, TLC

Symmetry == Permutations(Node) \cup Permutations(Id)

LiveSpec == Spec /\ Fairness

=============================================================================
