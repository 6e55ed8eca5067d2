----------------------------- MODULE DekBudget -----------------------------
(***************************************************************************)
(* The abstract pool: what the users of the data encryption keys rely on.  *)
(* Each DEK has a limited number of encryptions.  One step of the system   *)
(* may store several ciphertexts, under several DEKs; the counter recorded *)
(* in t_dek accounts for all of them, and no DEK exceeds its limit.        *)
(***************************************************************************)
EXTENDS Integers

CONSTANTS Dek, Limit

VARIABLES
  recorded,   \* the counter of each DEK
  issued      \* the ciphertexts stored under each DEK, ever

vars == <<recorded, issued>>

Init ==
  /\ recorded \in [Dek -> 0 .. Limit]
  /\ issued = recorded

\* Some encryptions are stored.
Issue ==
  /\ recorded' \in [Dek -> 0 .. Limit]
  /\ issued' = recorded'
  /\ \A d \in Dek : issued'[d] >= issued[d]

Next == Issue

Spec == Init /\ [][Next]_vars

=============================================================================
