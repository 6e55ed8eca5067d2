----------------------------- MODULE MCDekPool -----------------------------
(* Small instances of DekPool for TLC. *)
EXTENDS DekPool, TLC

Symmetry == Permutations(Dek) \cup Permutations(Session)

\* Two DEKs with one use left each, for requests that need two uses each: the
\* requests wait for each other, deadlock, exhaust the DEKs and make new ones.
TwoWornDeks ==
  /\ Init
  /\ \E d, e \in Dek : d # e /\ {x \in Dek : state[x] # "absent"} = {d, e}
  /\ \A d \in Dek : state[d] # "absent" =>
        state[d] = "current" /\ counter[d] = UseCount - 1

\* No DEK reaches its finish_ts while requests run.
LiveSpec == TwoWornDeks /\ [][RequestsNext]_vars /\ Fairness

\* DEKs may reach their finish_ts at any time.
LiveSpecWithExpiry == TwoWornDeks /\ [][Next]_vars /\ Fairness

=============================================================================
