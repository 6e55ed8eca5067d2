------------------------------ MODULE MCTokens ------------------------------
(* Small instances of Tokens for TLC. *)
EXTENDS Tokens

LiveSpec == Spec /\ Fairness

=============================================================================
