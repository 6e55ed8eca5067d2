-------------------------- MODULE KeyKeeperProofs --------------------------
(***************************************************************************)
(* No part of a KEK is lost over restarts, and a set reaches all keepers,  *)
(* for any number of keepers and ids.  The reason: KeyAPI waits for its    *)
(* answer and asks recovered keepers only, so that a storage that is       *)
(* pushed has all parts, and replaces nothing it should not.               *)
(***************************************************************************)
EXTENDS KeyKeeper, TLAPS

\* How the keepers are operated: there are several, they are left alone until they
\* have recovered, and generate_kek sets each id once in a series of versions.
Operating ==
  /\ Careful
  /\ ~Rewrites
  /\ \A n \in Node : \E m \in Node : m # n

\* Of each id only one item is ever about.
OneItem ==
  /\ \A n \in Node, id \in Id :
        /\ storage[n][id] \in {Absent, latest[id]}
        /\ fetch[n].items[id] \in {Absent, latest[id]}
  /\ \A m \in net, id \in Id : m.items[id] \in {Absent, latest[id]}

\* A storage that is pushed has all parts.
PushesComplete == \A m \in net, id \in Id : Live(id) => m.items[id] = latest[id]

SomeoneHolds == \A id \in Id : Live(id) => \E n \in Node : Holds(n, id)

\* A keeper drops no URI but its own.
PeersKept == \A n \in Node : Node \ {n} \subseteq peers[n]

\* Who has not got a part is about to be given it, as long as nothing failed.
ReachesAll ==
  restarts = MaxRestarts /\ failures = MaxFailures =>
     \A n \in Node, id \in Id : Live(id) => Holds(n, id) \/ \E m \in net : m.to = n

KeeperInv ==
  /\ TypeOK
  /\ OneItem
  /\ PushesComplete
  /\ SomeoneHolds
  /\ PeersKept
  /\ ReachesAll

-----------------------------------------------------------------------------
(* Types, however the keepers are operated.                                *)

LEMMA InitType == Init => TypeOK
BY KeyKeeperAssumption DEF KeyKeeperAssumption, Init, TypeOK, Storages, NoFetch, Empty, Absent

LEMMA ChangeType ==
  ASSUME TypeOK, NEW n \in Node, NEW items \in Storages, ChangeTo(n, items),
         clock' \in 0 .. MaxSets, latest' \in Storages, removed' \subseteq Id
  PROVE  TypeOK'
<1>1. storage' \in [Node -> Storages]
  BY DEF TypeOK, ChangeTo
<1>2. net' \subseteq [to : Node, items : Storages]
  <2>1. Pushes(n, items) \subseteq [to : Node, items : Storages]
    BY DEF Pushes, TypeOK
  <2> QED
    BY <2>1 DEF TypeOK, ChangeTo
<1> QED
  BY <1>1, <1>2 DEF TypeOK, ChangeTo

LEMMA RequestType ==
  ASSUME TypeOK, NEW n \in Node, NEW id \in Id,
         Set(n, id) \/ Unset(n, id) \/ Cleanup(n, id)
  PROVE  TypeOK'
<1>1. storage[n] \in Storages
  BY DEF TypeOK
<1>2. CASE Set(n, id)
  <2>1. clock + 1 \in 0 .. MaxSets
    BY <1>2, KeyKeeperAssumption DEF KeyKeeperAssumption, Set, TypeOK
  <2>2. [storage[n] EXCEPT ![id] = clock + 1] \in Storages
    BY <1>1, <2>1 DEF Storages
  <2>3. latest' \in Storages
    BY <1>2, <2>1 DEF Set, TypeOK, Storages
  <2> QED
    BY <1>2, <2>1, <2>2, <2>3, ChangeType DEF Set, TypeOK
<1>3. CASE Unset(n, id)
  <2>1. [storage[n] EXCEPT ![id] = Absent] \in Storages
    BY <1>1, KeyKeeperAssumption DEF KeyKeeperAssumption, Storages, Absent
  <2> QED
    BY <1>3, <2>1, ChangeType DEF Unset, TypeOK
<1>4. CASE Cleanup(n, id)
  <2>1. [Empty EXCEPT ![id] = storage[n][id]] \in Storages
    BY <1>1, KeyKeeperAssumption DEF KeyKeeperAssumption, Storages, Empty, Absent
  <2> QED
    BY <1>4, <2>1, ChangeType DEF Cleanup, TypeOK
<1> QED
  BY <1>2, <1>3, <1>4

LEMMA WriteType ==
  ASSUME TypeOK, NEW m \in net, Write(m) \/ WriteFails(m)
  PROVE  TypeOK'
<1>1. m \in [to : Node, items : Storages]
  BY DEF TypeOK
<1>2. CASE Write(m)
  BY <1>1, <1>2 DEF Write, TypeOK
<1>3. CASE WriteFails(m)
  <2>1. failures' \in 0 .. MaxFailures
    BY <1>3, KeyKeeperAssumption DEF KeyKeeperAssumption, WriteFails, TypeOK
  <2> QED
    BY <1>3, <2>1 DEF WriteFails, TypeOK
<1> QED
  BY <1>2, <1>3

LEMMA FetchType ==
  ASSUME TypeOK, NEW n \in Node, Fetching(n)
  PROVE  TypeOK'
<1> DEFINE Fetch == [todo : SUBSET Node, read : BOOLEAN, items : Storages, self : BOOLEAN]
<1>1. Empty \in Storages
  BY KeyKeeperAssumption DEF KeyKeeperAssumption, Storages, Empty, Absent
<1>2. fetch[n] \in Fetch /\ fetch[n].todo \subseteq peers[n]
  BY DEF TypeOK
<1>3. CASE StartFetch(n)
  BY <1>3, <1>2 DEF StartFetch, TypeOK
<1>4. ASSUME NEW p \in Node, ReadPeer(n, p)
      PROVE  TypeOK'
  <2>1. fetch' = [fetch EXCEPT ![n] = fetch'[n]] /\ fetch'[n].todo \subseteq fetch[n].todo
    BY <1>4, <1>2 DEF ReadPeer, TypeOK
  <2>2. fetch'[n] \in Fetch
    BY <1>4, <1>1, <1>2 DEF ReadPeer, TypeOK
  <2> QED
    BY <1>4, <1>2, <2>1, <2>2 DEF ReadPeer, TypeOK
<1>5. ASSUME NEW p \in Node, ReadFails(n, p)
      PROVE  TypeOK'
  <2>1. fetch' = [fetch EXCEPT ![n] = fetch'[n]] /\ fetch'[n].todo \subseteq fetch[n].todo
    BY <1>5, <1>2 DEF ReadFails, TypeOK
  <2>2. fetch'[n] \in Fetch
    BY <1>5, <1>1, <1>2 DEF ReadFails, TypeOK
  <2>3. failures' \in 0 .. MaxFailures
    BY <1>5, KeyKeeperAssumption DEF KeyKeeperAssumption, ReadFails, TypeOK
  <2> QED
    BY <1>5, <1>2, <2>1, <2>2, <2>3 DEF ReadFails, TypeOK
<1>6. CASE ApplyUpdate(n)
  <2>1. storage' \in [Node -> Storages]
    <3>1. Updated(storage[n], fetch[n].items) \in Storages
      BY <1>2 DEF Updated, Storages, TypeOK
    <3> QED
      BY <1>6, <3>1 DEF ApplyUpdate, TypeOK
  <2>2. fetch' \in [Node -> Fetch]
    BY <1>6, <1>1, <1>2 DEF ApplyUpdate, TypeOK, NoFetch
  <2>3. peers' \in [Node -> SUBSET Node]
    BY <1>6 DEF ApplyUpdate, TypeOK
  <2>4. \A m \in Node : fetch'[m].todo \subseteq peers'[m]
    BY <1>6, <1>2 DEF ApplyUpdate, TypeOK, NoFetch
  <2> QED
    BY <1>6, <2>1, <2>2, <2>3, <2>4 DEF ApplyUpdate, TypeOK
<1> QED
  BY <1>3, <1>4, <1>5, <1>6 DEF Fetching

LEMMA RestartType ==
  ASSUME TypeOK, NEW n \in Node, Restart(n)
  PROVE  TypeOK'
<1>1. Empty \in Storages
  BY KeyKeeperAssumption DEF KeyKeeperAssumption, Storages, Empty, Absent
<1>2. restarts' \in 0 .. MaxRestarts
  BY KeyKeeperAssumption DEF KeyKeeperAssumption, Restart, TypeOK
<1>3. fetch' \in [Node -> [todo : SUBSET Node, read : BOOLEAN, items : Storages, self : BOOLEAN]]
  BY <1>1 DEF Restart, TypeOK, NoFetch
<1>4. \A m \in Node : fetch'[m].todo \subseteq peers'[m]
  BY DEF Restart, TypeOK, NoFetch
<1> QED
  BY <1>1, <1>2, <1>3, <1>4 DEF Restart, TypeOK

LEMMA NextType == TypeOK /\ [Next]_vars => TypeOK'
<1> SUFFICES ASSUME TypeOK, [Next]_vars PROVE TypeOK'
  OBVIOUS
<1>1. CASE Next
  BY <1>1, RequestType, WriteType, FetchType, RestartType DEF Next
<1>2. CASE UNCHANGED vars
  BY <1>2 DEF vars, TypeOK
<1> QED
  BY <1>1, <1>2

\* Whatever is called, fails or is restarted, and however the pushes, the answers and
\* the own URI that a keeper drops interleave, the state is well typed, and no keeper
\* drops a peer it has yet to read.
THEOREM TypeCorrect == Spec => []TypeOK
<1>1. Init => TypeOK
  BY InitType
<1>2. TypeOK /\ [Next]_vars => TypeOK'
  BY NextType
<1> QED
  BY <1>1, <1>2, PTL DEF Spec

-----------------------------------------------------------------------------
(* The invariant, of keepers that are operated so.                         *)

LEMMA InitInv == Init => KeeperInv
<1> SUFFICES ASSUME Init PROVE KeeperInv
  OBVIOUS
<1>1. OneItem
  BY DEF Init, OneItem, NoFetch, Empty
<1>2. \A id \in Id : ~Live(id)
  BY DEF Init, Live, Empty
<1> QED
  BY <1>1, <1>2, InitType
     DEF KeeperInv, Init, PushesComplete, SomeoneHolds, PeersKept, ReachesAll

\* What the requests have in common: a recovered keeper, when nothing is under way,
\* changes its storage to one that has every part that is live afterwards.
LEMMA ChangeInv ==
  ASSUME KeeperInv, TypeOK', NEW n \in Node, NEW items \in Storages,
         net = {}, ChangeTo(n, items),
         \A i \in Id : latest'[i] = latest[i] \/ latest[i] = Absent,
         \A i \in Id : items[i] \in {Absent, latest'[i]},
         \A i \in Id : Live(i)' => items[i] = latest'[i]
  PROVE  KeeperInv'
<1>1. /\ storage' = [storage EXCEPT ![n] = items]
      /\ net' = Pushes(n, items)
      /\ UNCHANGED <<peers, fetch, restarts, failures>>
  BY DEF ChangeTo
<1>2. storage \in [Node -> Storages]
  BY DEF KeeperInv, TypeOK
<1>3. storage'[n] = items /\ \A m \in Node \ {n} : storage'[m] = storage[m]
  BY <1>1, <1>2
<1>4. \A m \in net' : m.items = items
  BY <1>1 DEF Pushes
<1>5. OneItem'
  <2>1. \A m \in Node, i \in Id : storage'[m][i] \in {Absent, latest'[i]}
    BY <1>3 DEF KeeperInv, OneItem
  <2>2. \A m \in Node, i \in Id : fetch'[m].items[i] \in {Absent, latest'[i]}
    BY <1>1 DEF KeeperInv, OneItem
  <2> QED
    BY <1>4, <2>1, <2>2 DEF OneItem
<1>6. PushesComplete'
  BY <1>4 DEF PushesComplete
<1>7. SomeoneHolds'
  BY <1>3 DEF SomeoneHolds, Holds
<1>8. PeersKept'
  BY <1>1 DEF KeeperInv, PeersKept
<1>9. ReachesAll'
  <2>1. \A m \in Node \ {n} : \E push \in net' : push.to = m
    <3> SUFFICES ASSUME NEW m \in Node \ {n} PROVE \E push \in net' : push.to = m
      OBVIOUS
    <3>1. m \in peers[n]
      BY DEF KeeperInv, PeersKept
    <3>2. [to |-> m, items |-> items] \in net'
      BY <1>1, <3>1 DEF Pushes
    <3> QED
      BY <3>2
  <2> QED
    BY <1>3, <2>1 DEF ReachesAll, Holds
<1> QED
  BY <1>5, <1>6, <1>7, <1>8, <1>9 DEF KeeperInv

LEMMA SetInv ==
  ASSUME Operating, KeeperInv, TypeOK', NEW n \in Node, NEW id \in Id, Set(n, id)
  PROVE  KeeperInv'
<1> DEFINE items == [storage[n] EXCEPT ![id] = clock + 1]
<1>1. net = {} /\ Recovered(n) /\ latest[id] = Absent
  BY DEF Operating, Set, Ready
<1>2. storage[n] \in Storages /\ latest \in Storages
  BY DEF KeeperInv, TypeOK
<1>3. latest'[id] = clock + 1 /\ \A i \in Id \ {id} : latest'[i] = latest[i]
  BY <1>2 DEF Set, Storages
<1>4. items[id] = clock + 1 /\ \A i \in Id \ {id} : items[i] = storage[n][i]
  BY <1>2 DEF Storages
<1>5. items \in Storages
  <2>1. clock + 1 \in 0 .. MaxSets
    BY KeyKeeperAssumption DEF KeyKeeperAssumption, Set, KeeperInv, TypeOK
  <2> QED
    BY <1>2, <2>1 DEF Storages
<1>6. \A i \in Id : items[i] \in {Absent, latest'[i]}
  BY <1>3, <1>4 DEF KeeperInv, OneItem
<1>7. \A i \in Id : Live(i)' => items[i] = latest'[i]
  BY <1>1, <1>3, <1>4 DEF Set, Live, Recovered, Holds
<1>8. \A i \in Id : latest'[i] = latest[i] \/ latest[i] = Absent
  BY <1>1, <1>3
<1>9. ChangeTo(n, items)
  BY DEF Set
<1> HIDE DEF items
<1> QED
  BY <1>1, <1>5, <1>6, <1>7, <1>8, <1>9, ChangeInv

LEMMA UnsetInv ==
  ASSUME Operating, KeeperInv, TypeOK', NEW n \in Node, NEW id \in Id, Unset(n, id)
  PROVE  KeeperInv'
<1> DEFINE items == [storage[n] EXCEPT ![id] = Absent]
<1>1. net = {} /\ Recovered(n) /\ latest' = latest
  BY DEF Operating, Unset, Ready
<1>2. storage[n] \in Storages
  BY DEF KeeperInv, TypeOK
<1>3. items[id] = Absent /\ \A i \in Id \ {id} : items[i] = storage[n][i]
  BY <1>2 DEF Storages
<1>4. items \in Storages
  BY <1>2, KeyKeeperAssumption DEF KeyKeeperAssumption, Storages, Absent
<1>5. \A i \in Id : items[i] \in {Absent, latest'[i]}
  BY <1>1, <1>3 DEF KeeperInv, OneItem
<1>6. \A i \in Id : Live(i)' => items[i] = latest'[i]
  BY <1>1, <1>3 DEF Unset, Live, Recovered, Holds
<1>7. ChangeTo(n, items)
  BY DEF Unset
<1> HIDE DEF items
<1> QED
  BY <1>1, <1>4, <1>5, <1>6, <1>7, ChangeInv

LEMMA CleanupInv ==
  ASSUME Operating, KeeperInv, TypeOK', NEW n \in Node, NEW id \in Id, Cleanup(n, id)
  PROVE  KeeperInv'
<1> DEFINE items == [Empty EXCEPT ![id] = storage[n][id]]
<1>1. net = {} /\ Recovered(n) /\ latest' = latest
  BY DEF Operating, Cleanup, Ready
<1>2. storage[n] \in Storages
  BY DEF KeeperInv, TypeOK
<1>3. items[id] = storage[n][id] /\ \A i \in Id \ {id} : items[i] = Absent
  BY DEF Empty
<1>4. items \in Storages
  BY <1>2, KeyKeeperAssumption DEF KeyKeeperAssumption, Storages, Empty, Absent
<1>5. \A i \in Id : items[i] \in {Absent, latest'[i]}
  BY <1>1, <1>3 DEF KeeperInv, OneItem
<1>6. \A i \in Id : Live(i)' => items[i] = latest'[i]
  BY <1>1, <1>3 DEF Cleanup, Live, Recovered, Holds
<1>7. ChangeTo(n, items)
  BY DEF Cleanup
<1> HIDE DEF items
<1> QED
  BY <1>1, <1>4, <1>5, <1>6, <1>7, ChangeInv

LEMMA WriteInv ==
  ASSUME KeeperInv, TypeOK', NEW m \in net, Write(m)
  PROVE  KeeperInv'
<1>1. m \in [to : Node, items : Storages] /\ storage \in [Node -> Storages]
  BY DEF KeeperInv, TypeOK
<1>2. storage'[m.to] = m.items /\ \A n \in Node \ {m.to} : storage'[n] = storage[n]
  BY <1>1 DEF Write
<1>3. \A id \in Id : Live(id)' <=> Live(id)
  BY DEF Write, Live
<1>4. \A id \in Id : Live(id) => Holds(m.to, id)'
  BY <1>2 DEF KeeperInv, PushesComplete, Holds, Write
<1>5. OneItem'
  BY <1>2 DEF KeeperInv, OneItem, Write
<1>6. PushesComplete'
  BY <1>3 DEF KeeperInv, PushesComplete, Write
<1>7. SomeoneHolds'
  BY <1>1, <1>3, <1>4 DEF SomeoneHolds
<1>8. PeersKept'
  BY DEF KeeperInv, PeersKept, Write
<1>9. ReachesAll'
  <2> SUFFICES ASSUME restarts = MaxRestarts, failures = MaxFailures,
                      NEW n \in Node, NEW id \in Id, Live(id)
               PROVE  Holds(n, id)' \/ \E u \in net' : u.to = n
    BY <1>3 DEF ReachesAll, Write
  <2>1. CASE n = m.to
    BY <2>1, <1>4
  <2>2. CASE n # m.to
    <3>1. Holds(n, id) \/ \E u \in net : u.to = n
      BY DEF KeeperInv, ReachesAll
    <3> QED
      BY <2>2, <3>1, <1>2 DEF Holds, Write
  <2> QED
    BY <2>1, <2>2
<1> QED
  BY <1>5, <1>6, <1>7, <1>8, <1>9 DEF KeeperInv

LEMMA WriteFailsInv ==
  ASSUME KeeperInv, TypeOK', NEW m \in net, WriteFails(m)
  PROVE  KeeperInv'
<1>1. \A id \in Id : Live(id)' <=> Live(id)
  BY DEF WriteFails, Live
<1>2. failures' # MaxFailures
  BY KeyKeeperAssumption DEF KeyKeeperAssumption, WriteFails, KeeperInv, TypeOK
<1>3. OneItem' /\ PeersKept'
  BY DEF KeeperInv, OneItem, PeersKept, WriteFails
<1>4. PushesComplete'
  BY <1>1 DEF KeeperInv, PushesComplete, WriteFails
<1>5. SomeoneHolds'
  BY <1>1 DEF KeeperInv, SomeoneHolds, Holds, WriteFails
<1> QED
  BY <1>2, <1>3, <1>4, <1>5 DEF KeeperInv, ReachesAll

\* A step of a fetch that leaves the storages alone, and what is read is an item there is.
LEMMA ReadInv ==
  ASSUME KeeperInv, TypeOK', UNCHANGED <<storage, peers, net, latest, removed, restarts>>,
         failures' \in {failures, failures - 1},
         \A n \in Node, id \in Id : fetch'[n].items[id] \in {Absent, latest[id]}
  PROVE  KeeperInv'
<1>1. \A id \in Id : Live(id)' <=> Live(id)
  BY DEF Live
<1>2. \A n \in Node, id \in Id : Holds(n, id)' <=> Holds(n, id)
  BY DEF Holds
<1>3. failures' = MaxFailures => failures = MaxFailures
  BY KeyKeeperAssumption DEF KeyKeeperAssumption, KeeperInv, TypeOK
<1>4. OneItem' /\ PeersKept'
  BY DEF KeeperInv, OneItem, PeersKept
<1>5. PushesComplete' /\ SomeoneHolds'
  BY <1>1, <1>2 DEF KeeperInv, PushesComplete, SomeoneHolds
<1>6. ReachesAll'
  BY <1>1, <1>2, <1>3 DEF KeeperInv, ReachesAll
<1> QED
  BY <1>4, <1>5, <1>6 DEF KeeperInv

LEMMA ApplyUpdateInv ==
  ASSUME KeeperInv, TypeOK', NEW n \in Node, ApplyUpdate(n)
  PROVE  KeeperInv'
<1>1. /\ storage \in [Node -> Storages] /\ peers \in [Node -> SUBSET Node]
      /\ fetch \in [Node -> [todo : SUBSET Node, read : BOOLEAN,
                             items : Storages, self : BOOLEAN]]
  BY DEF KeeperInv, TypeOK
<1>2. /\ storage'[n] = Updated(storage[n], fetch[n].items)
      /\ \A p \in Node \ {n} : storage'[p] = storage[p]
  BY <1>1 DEF ApplyUpdate
<1>3. \A id \in Id : Live(id)' <=> Live(id)
  BY DEF ApplyUpdate, Live
<1>4. \A p \in Node, id \in Id : Live(id) /\ Holds(p, id) => Holds(p, id)'
  BY <1>2 DEF KeeperInv, OneItem, Updated, Live, Holds, ApplyUpdate
<1>5. OneItem'
  <2>1. \A p \in Node, id \in Id : storage'[p][id] \in {Absent, latest[id]}
    BY <1>2 DEF KeeperInv, OneItem, Updated
  <2>2. \A p \in Node, id \in Id : fetch'[p].items[id] \in {Absent, latest[id]}
    <3>1. fetch'[n].items = Empty /\ \A p \in Node \ {n} : fetch'[p] = fetch[p]
      BY <1>1 DEF ApplyUpdate, NoFetch
    <3> QED
      BY <3>1 DEF KeeperInv, OneItem, Empty
  <2> QED
    BY <2>1, <2>2 DEF KeeperInv, OneItem, ApplyUpdate
<1>6. PushesComplete'
  BY <1>3 DEF KeeperInv, PushesComplete, ApplyUpdate
<1>7. SomeoneHolds'
  BY <1>3, <1>4 DEF KeeperInv, SomeoneHolds
<1>8. PeersKept'
  BY <1>1 DEF KeeperInv, PeersKept, ApplyUpdate
<1>9. ReachesAll'
  BY <1>3, <1>4 DEF KeeperInv, ReachesAll, ApplyUpdate
<1> QED
  BY <1>5, <1>6, <1>7, <1>8, <1>9 DEF KeeperInv

LEMMA FetchInv ==
  ASSUME KeeperInv, TypeOK', NEW n \in Node, Fetching(n)
  PROVE  KeeperInv'
<1>1. fetch \in [Node -> [todo : SUBSET Node, read : BOOLEAN,
                          items : Storages, self : BOOLEAN]]
  BY DEF KeeperInv, TypeOK
<1>2. \A m \in Node, id \in Id : fetch[m].items[id] \in {Absent, latest[id]}
  BY DEF KeeperInv, OneItem
<1>3. CASE StartFetch(n)
  BY <1>3, <1>1, <1>2, ReadInv DEF StartFetch
<1>4. ASSUME NEW p \in Node, ReadPeer(n, p)
      PROVE  KeeperInv'
  <2>1. fetch'[n].items = Empty \/ fetch'[n].items = storage[p]
    BY <1>4, <1>1 DEF ReadPeer
  <2>2. \A m \in Node \ {n} : fetch'[m] = fetch[m]
    BY <1>4, <1>1 DEF ReadPeer
  <2>3. \A m \in Node, id \in Id : fetch'[m].items[id] \in {Absent, latest[id]}
    BY <1>2, <2>1, <2>2 DEF KeeperInv, OneItem, Empty
  <2> QED
    BY <1>4, <2>3, ReadInv DEF ReadPeer
<1>5. ASSUME NEW p \in Node, ReadFails(n, p)
      PROVE  KeeperInv'
  <2>1. fetch'[n].items = Empty /\ \A m \in Node \ {n} : fetch'[m] = fetch[m]
    BY <1>5, <1>1 DEF ReadFails
  <2>2. \A m \in Node, id \in Id : fetch'[m].items[id] \in {Absent, latest[id]}
    BY <1>2, <2>1 DEF Empty
  <2> QED
    BY <1>5, <2>2, ReadInv DEF ReadFails
<1>6. CASE ApplyUpdate(n)
  BY <1>6, ApplyUpdateInv
<1> QED
  BY <1>3, <1>4, <1>5, <1>6 DEF Fetching

\* The storage of a keeper is lost, and another one has all parts.
LEMMA RestartInv ==
  ASSUME Operating, KeeperInv, TypeOK', NEW n \in Node, Restart(n)
  PROVE  KeeperInv'
<1>1. net = {} /\ net' = {} /\ \A m \in Node \ {n} : Recovered(m)
  BY DEF Operating, Restart
<1>2. storage'[n] = Empty /\ \A m \in Node \ {n} : storage'[m] = storage[m]
  BY DEF Restart, KeeperInv, TypeOK
<1>3. restarts' # MaxRestarts
  BY KeyKeeperAssumption DEF KeyKeeperAssumption, Restart, KeeperInv, TypeOK
<1>4. OneItem'
  <2>1. \A m \in Node, id \in Id : storage'[m][id] \in {Absent, latest[id]}
    BY <1>2 DEF KeeperInv, OneItem, Empty
  <2>2. \A m \in Node, id \in Id : fetch'[m].items[id] \in {Absent, latest[id]}
    <3>1. fetch'[n].items = Empty /\ \A m \in Node \ {n} : fetch'[m] = fetch[m]
      BY DEF Restart, KeeperInv, TypeOK, NoFetch
    <3> QED
      BY <3>1 DEF KeeperInv, OneItem, Empty
  <2> QED
    BY <1>1, <2>1, <2>2 DEF OneItem, Restart
<1>5. SomeoneHolds'
  <2>1. PICK m \in Node : m # n
    BY DEF Operating
  <2> QED
    BY <1>1, <1>2, <2>1 DEF SomeoneHolds, Recovered, Holds, Live, Restart
<1>6. PeersKept'
  BY DEF KeeperInv, TypeOK, PeersKept, Restart
<1> QED
  BY <1>1, <1>3, <1>4, <1>5, <1>6 DEF KeeperInv, PushesComplete, ReachesAll

LEMMA NextInv ==
  ASSUME Operating
  PROVE  KeeperInv /\ [Next]_vars => KeeperInv'
<1> SUFFICES ASSUME KeeperInv, [Next]_vars PROVE KeeperInv'
  OBVIOUS
<1>1. TypeOK'
  BY NextType DEF KeeperInv
<1>2. CASE Next
  BY <1>1, <1>2, SetInv, UnsetInv, CleanupInv, WriteInv, WriteFailsInv, FetchInv, RestartInv
     DEF Next
<1>3. CASE UNCHANGED vars
  BY <1>1, <1>3 DEF vars, KeeperInv, OneItem, PushesComplete, SomeoneHolds, PeersKept,
                    ReachesAll, Live, Holds
<1> QED
  BY <1>2, <1>3

\* Every part that was set and not removed stays in the memory of some keeper, over
\* any number of restarts and failed calls.
THEOREM NothingLost ==
  ASSUME Operating
  PROVE  Spec => []NeverLost
<1>1. Init => KeeperInv
  BY InitInv
<1>2. KeeperInv /\ [Next]_vars => KeeperInv'
  BY NextInv
<1>3. KeeperInv => NeverLost
  BY DEF KeeperInv, SomeoneHolds, NeverLost
<1> QED
  BY <1>1, <1>2, <1>3, PTL DEF Spec

\* A set that is answered has reached all keepers, if none was restarted and no call
\* failed.
THEOREM SetReachesAll ==
  ASSUME Operating
  PROVE  Spec => []SetDistributes
<1>1. Init => KeeperInv
  BY InitInv
<1>2. KeeperInv /\ [Next]_vars => KeeperInv'
  BY NextInv
<1>3. KeeperInv => SetDistributes
  BY DEF KeeperInv, ReachesAll, SetDistributes
<1> QED
  BY <1>1, <1>2, <1>3, PTL DEF Spec

=============================================================================
