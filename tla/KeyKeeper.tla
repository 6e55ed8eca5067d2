----------------------------- MODULE KeyKeeper -----------------------------
(***************************************************************************)
(* The key keepers (keykeeper2): daemons, one per node, that keep part 1   *)
(* of the KEKs in memory only.  A keeper that changes an item pushes its   *)
(* whole storage to its peers, which take it instead of their own; and     *)
(* from time to time, on a ping or a get, a keeper reads the storages of   *)
(* its peers and adds what it finds to its own.  A restarted keeper starts *)
(* empty and recovers the same way.                                        *)
(***************************************************************************)
EXTENDS Integers, FiniteSets

CONSTANTS
  Node,          \* keepers
  Id,            \* ids of items: KEK_VERv_PART1
  MaxSets,       \* bound: calls of set
  MaxRestarts,   \* bound: restarts of keepers
  MaxFailures,   \* bound: calls between keepers that fail
  Rewrites,      \* may an id that was set be set again?
  Careful        \* are keepers left alone until they have recovered?

ASSUME KeyKeeperAssumption ==
  /\ IsFiniteSet(Node)
  /\ MaxSets \in Nat /\ MaxRestarts \in Nat /\ MaxFailures \in Nat
  /\ Rewrites \in BOOLEAN /\ Careful \in BOOLEAN

VARIABLES
  storage,    \* storage_: the create_ts of the item of each id, Absent if none
  peers,      \* peer_uris_
  fetch,      \* fetch_data: peers to read; the last answer; is one of them itself?
  net,        \* "write" requests under way
  clock,      \* get_time(): one tick per set, the data set is new each time
  latest,     \* history: the create_ts of the last set of each id
  removed,    \* history: the ids unset or cleaned up since
  restarts,   \* bound
  failures    \* bound

vars == <<storage, peers, fetch, net, clock, latest, removed, restarts, failures>>

Absent == 0
Empty == [i \in Id |-> Absent]
Storages == [Id -> 0 .. MaxSets]
NoFetch == [todo |-> {}, read |-> FALSE, items |-> Empty, self |-> FALSE]

\* The state is well typed; and a keeper never drops a peer that it has yet to
\* read, nor does it read what it dropped.
TypeOK ==
  /\ storage \in [Node -> Storages]
  /\ peers \in [Node -> SUBSET Node]
  /\ fetch \in [Node -> [todo : SUBSET Node, read : BOOLEAN,
                         items : Storages, self : BOOLEAN]]
  /\ \A n \in Node : fetch[n].todo \subseteq peers[n]
  /\ net \subseteq [to : Node, items : Storages]
  /\ clock \in 0 .. MaxSets
  /\ latest \in Storages
  /\ removed \subseteq Id
  /\ restarts \in 0 .. MaxRestarts
  /\ failures \in 0 .. MaxFailures

Init ==
  /\ storage = [n \in Node |-> Empty]
  /\ peers = [n \in Node |-> Node]
  /\ fetch = [n \in Node |-> NoFetch]
  /\ net = {}
  /\ clock = 0
  /\ latest = Empty
  /\ removed = {}
  /\ restarts = MaxRestarts
  /\ failures = MaxFailures

-----------------------------------------------------------------------------
(* Requests of KeyAPI to keeper n.                                         *)

Live(id) == latest[id] # Absent /\ id \notin removed
Holds(n, id) == storage[n][id] = latest[id]
Recovered(n) == \A id \in Id : Live(id) => Holds(n, id)

\* KeyAPI waits for the answer, which comes after the pushes; and it is not
\* sent to a keeper that has yet to recover.
Ready(n) == Careful => net = {} /\ Recovered(n)

\* push_to_peers
Pushes(n, items) == {[to |-> p, items |-> items] : p \in peers[n]}

ChangeTo(n, items) ==
  /\ storage' = [storage EXCEPT ![n] = items]
  /\ net' = net \cup Pushes(n, items)
  /\ UNCHANGED <<peers, fetch, restarts, failures>>

\* Mutant of Set: the storage is replaced, as by write.
SetAlone(n, id) ==
  /\ Ready(n)
  /\ clock < MaxSets
  /\ Rewrites \/ latest[id] = Absent
  /\ clock' = clock + 1
  /\ latest' = [latest EXCEPT ![id] = clock + 1]
  /\ removed' = removed \ {id}
  /\ ChangeTo(n, [Empty EXCEPT ![id] = clock + 1])

\* set: do_write with update.
Set(n, id) ==
  /\ Ready(n)
  /\ clock < MaxSets
  /\ Rewrites \/ latest[id] = Absent
  /\ clock' = clock + 1
  /\ latest' = [latest EXCEPT ![id] = clock + 1]
  /\ removed' = removed \ {id}
  /\ ChangeTo(n, [storage[n] EXCEPT ![id] = clock + 1])

\* unset, refused if the keeper has no such item.
Unset(n, id) ==
  /\ Ready(n)
  /\ storage[n][id] # Absent
  /\ removed' = removed \cup {id}
  /\ ChangeTo(n, [storage[n] EXCEPT ![id] = Absent])
  /\ UNCHANGED <<clock, latest>>

\* cleanup: only the item named stays; refused if there is none.
Cleanup(n, id) ==
  /\ Ready(n)
  /\ storage[n][id] # Absent
  /\ removed' = removed \cup {i \in Id \ {id} : latest[i] # Absent}
  /\ ChangeTo(n, [Empty EXCEPT ![id] = storage[n][id]])
  /\ UNCHANGED <<clock, latest>>

-----------------------------------------------------------------------------
(* Between keepers.                                                        *)

\* write: do_write without update.
Write(m) ==
  /\ storage' = [storage EXCEPT ![m.to] = m.items]
  /\ net' = net \ {m}
  /\ UNCHANGED <<peers, fetch, clock, latest, removed, restarts, failures>>

\* call_peer fails: push_to_peers logs it and goes on to the next peer.
WriteFails(m) ==
  /\ failures > 0
  /\ failures' = failures - 1
  /\ net' = net \ {m}
  /\ UNCHANGED <<storage, peers, fetch, clock, latest, removed, restarts>>

\* update_data_if_needed, on a get or a ping; refresh_interval_ has passed.
StartFetch(n) ==
  /\ fetch[n].todo = {}
  /\ ~fetch[n].read
  /\ fetch' = [fetch EXCEPT ![n].todo = peers[n]]
  /\ UNCHANGED <<storage, peers, net, clock, latest, removed, restarts, failures>>

\* read_peer; what it reads of itself is not used.
ReadPeer(n, p) ==
  /\ ~fetch[n].read
  /\ p \in fetch[n].todo
  /\ fetch' = [fetch EXCEPT ![n].todo = @ \ {p}, ![n].read = TRUE,
                            ![n].items = IF p = n THEN Empty ELSE storage[p],
                            ![n].self = @ \/ p = n]
  /\ UNCHANGED <<storage, peers, net, clock, latest, removed, restarts, failures>>

\* call_peer fails: the data of the peer stays empty.
ReadFails(n, p) ==
  /\ failures > 0
  /\ failures' = failures - 1
  /\ ~fetch[n].read
  /\ p \in fetch[n].todo
  /\ fetch' = [fetch EXCEPT ![n].todo = @ \ {p}, ![n].read = TRUE,
                            ![n].items = Empty]
  /\ UNCHANGED <<storage, peers, net, clock, latest, removed, restarts>>

\* Mutant of Updated: an answer replaces the storage.
ReplacedBy(items, update) == update

\* apply_update: peer_uris_ is searched for the id of the item, which it never
\* has, and so every item is taken, whatever its create_ts.
Updated(items, update) ==
  [i \in Id |-> IF update[i] # Absent THEN update[i] ELSE items[i]]

\* Mutant of ApplyUpdate: a keeper drops its own URI before the last answer.
ApplyUpdateEarly(n) ==
  LET done == fetch[n].todo = {}
  IN  /\ fetch[n].read
      /\ storage' = [storage EXCEPT ![n] = Updated(@, fetch[n].items)]
      /\ fetch' = [fetch EXCEPT ![n] =
                     IF done THEN NoFetch
                             ELSE [@ EXCEPT !.read = FALSE, !.items = Empty]]
      /\ peers' = [peers EXCEPT ![n] = @ \ {n}]
      /\ UNCHANGED <<net, clock, latest, removed, restarts, failures>>

\* The answer is applied.  After the last one, the URI that turned out to be
\* the keeper's own is dropped.
ApplyUpdate(n) ==
  LET done == fetch[n].todo = {}
  IN  /\ fetch[n].read
      /\ storage' = [storage EXCEPT ![n] = Updated(@, fetch[n].items)]
      /\ fetch' = [fetch EXCEPT ![n] =
                     IF done THEN NoFetch
                             ELSE [@ EXCEPT !.read = FALSE, !.items = Empty]]
      /\ peers' = [peers EXCEPT ![n] =
                     IF done /\ fetch[n].self THEN @ \ {n} ELSE @]
      /\ UNCHANGED <<net, clock, latest, removed, restarts, failures>>

\* The process is started anew.
Restart(n) ==
  /\ restarts > 0
  /\ Careful => net = {} /\ \A m \in Node \ {n} : Recovered(m)
  /\ restarts' = restarts - 1
  /\ storage' = [storage EXCEPT ![n] = Empty]
  /\ peers' = [peers EXCEPT ![n] = Node]
  /\ fetch' = [fetch EXCEPT ![n] = NoFetch]
  /\ UNCHANGED <<net, clock, latest, removed, failures>>

Fetching(n) ==
  \/ StartFetch(n)
  \/ \E p \in Node : ReadPeer(n, p) \/ ReadFails(n, p)
  \/ ApplyUpdate(n)

Next ==
  \/ \E n \in Node, id \in Id : Set(n, id) \/ Unset(n, id) \/ Cleanup(n, id)
  \/ \E m \in net : Write(m) \/ WriteFails(m)
  \/ \E n \in Node : Fetching(n) \/ Restart(n)

Spec == Init /\ [][Next]_vars

-----------------------------------------------------------------------------
(* Safety.                                                                 *)

Coming(id) == \E m \in net : m.items[id] = latest[id]

\* A part that was set and not removed is never lost: some keeper has it or is
\* about to be given it, though nothing is on disk, keepers restart empty and
\* every push replaces a storage.
NeverLost ==
  \A id \in Id : Live(id) => Coming(id) \/ \E n \in Node : Holds(n, id)

\* "automatically sharing the information between the specified peers": once a set
\* is answered, all keepers have the part that was set, whatever they read from
\* each other meanwhile, if none was restarted and no call failed.
SetDistributes ==
  restarts = MaxRestarts /\ failures = MaxFailures /\ net = {} =>
     \A id \in Id, n \in Node : Live(id) => Holds(n, id)

-----------------------------------------------------------------------------
(* Liveness.                                                               *)

\* The daemons are pinged every ten seconds, and the requests arrive.
Fairness ==
  /\ \A n \in Node : WF_vars(Fetching(n))
  /\ WF_vars(\E m \in net : Write(m))

\* When officers and restarts pause, every keeper comes to hold every part.
AllRecover ==
  \A id \in Id : \A n \in Node :
     <>[](Live(id) => Holds(n, id))

=============================================================================
