------------------------------ MODULE MCVault ------------------------------
(* Small instances of Vault for TLC: blocks of two bytes. *)
EXTENDS Vault

\* A text that fills its block.
MCText == {<<7, 2>>}

\* A wrong component of the KEK of the first HMAC key, for a time.
PreviousWrong == [AllRight EXCEPT !["previous"] = "wrong"]
MCParts == {AllRight, PreviousWrong}

LiveSpec == Spec /\ Fairness

=============================================================================
