------------------------------ MODULE DekPool ------------------------------
(***************************************************************************)
(* The pool of data encryption keys (xxcommon/dek_pool.cpp) as the         *)
(* Tokenizer uses it (Tokenizer::use_dek).                                 *)
(*                                                                         *)
(* Every HTTP request is a database transaction of its own: it owns a      *)
(* Yb::Session, a Tokenizer and therefore a DEKPool with a private list    *)
(* active_deks_.  Several requests run at once, in the threads of one      *)
(* process and in the processes of several hosts; t_dek is all they share. *)
(* A request makes one or two encryptions (CardCrypter::get_token: the CVN *)
(* and then the PAN), each under a DEK picked at random from its own list  *)
(* and locked with SELECT ... FOR UPDATE until the transaction ends.       *)
(***************************************************************************)
EXTENDS Integers, FiniteSets, FiniteSetsExt

CONSTANTS
  Dek,          \* ids of rows of t_dek
  Session,      \* concurrent requests
  NoSession,    \* "nobody": the holder of a row lock that is free
  NoDek,        \* "nothing": the DEK of a request that has picked none
  UseCount,     \* Dek/UseCount, the max_counter of every new DEK
  MinActive,    \* Dek/MinActiveLimit
  MaxUses,      \* encryptions per request
  MaxRequests   \* bound: requests started in a behaviour

ASSUME DekPoolAssumption ==
  /\ UseCount \in Nat \ {0}
  /\ MinActive \in Nat \ {0}
  /\ MaxUses \in Nat \ {0}
  /\ MaxRequests \in Nat
  /\ NoSession \notin Session
  /\ NoDek \notin Dek

VARIABLES
  \* the database, committed state
  counter,      \* t_dek.counter
  state,        \* absent: no such row; current: finish_ts > now; finished
  issued,       \* history: ciphertexts stored under each DEK, ever
  \* row locks of the database
  lock,
  \* one transaction per session
  pc,
  req,          \* encryptions the request makes, those left, may be restarted
  cache,        \* DEKPool::active_deks_
  seen,         \* the counters of the row objects in the session
  want,         \* active_deks_[choice]
  made,         \* rows inserted, not committed
  spent,        \* ciphertexts made under each DEK, not committed
  \* bound
  budget

database == <<counter, state, issued>>
txn == <<pc, req, cache, seen, want, made, spent>>
vars == <<counter, state, issued, lock, pc, req, cache, seen, want, made,
          spent, budget>>

Zero == [d \in Dek |-> 0]
NoRequest == [size |-> 0, left |-> 0, again |-> FALSE]
PCs == {"idle", "enough", "choose", "lock", "commit"}

\* The state is well typed: no request makes more encryptions than it was asked for.
TypeOK ==
  /\ counter \in [Dek -> Nat]
  /\ state \in [Dek -> {"absent", "current", "finished"}]
  /\ issued \in [Dek -> Nat]
  /\ lock \in [Dek -> Session \cup {NoSession}]
  /\ pc \in [Session -> PCs]
  /\ req \in [Session -> [size : 0 .. MaxUses, left : 0 .. MaxUses,
                          again : BOOLEAN]]
  /\ cache \in [Session -> SUBSET Dek]
  /\ seen \in [Session -> [Dek -> Nat]]
  /\ want \in [Session -> Dek \cup {NoDek}]
  /\ made \in [Session -> SUBSET Dek]
  /\ spent \in [Session -> [Dek -> Nat]]
  /\ budget \in 0 .. MaxRequests

-----------------------------------------------------------------------------
(* What a session reads: the committed rows and its own inserts.           *)

\* Mutant of ReadCounter: the lock is taken, but the row object is not refreshed.
StaleCounter(s, d) ==
  IF spent[s][d] > 0 \/ d \in made[s] \/ d \in cache[s]
  THEN seen[s][d] ELSE counter[d]

\* The counter of d as a read in session s returns it.
ReadCounter(s, d) ==
  IF spent[s][d] > 0 \/ d \in made[s] THEN seen[s][d] ELSE counter[d]

\* "finish_ts > now" as a read in session s evaluates it.
Unexpired(s, d) == d \in made[s] \/ state[d] = "current"

\* query_active_deks
ActiveDeks(s) ==
  {d \in Dek : Unexpired(s, d) /\ ReadCounter(s, d) < UseCount}

\* fill_active_deks: the list and the counters of its row objects.
ReadAll(s, deks) ==
  [d \in Dek |-> IF d \in deks THEN ReadCounter(s, d) ELSE seen[s][d]]

\* Mutant of Usable: the counter is not looked at again under the lock.
UsableIfUnexpired(s, d) == Unexpired(s, d)

\* The test of get_active_data_key on the locked and refreshed row.
Usable(s, d) == Unexpired(s, d) /\ ReadCounter(s, d) < UseCount

\* Auto-increment ids nobody has used.
FreshIds == {d \in Dek : state[d] = "absent" /\ \A s \in Session : d \notin made[s]}

Written(s) == {d \in Dek : spent[s][d] > 0} \cup made[s]

-----------------------------------------------------------------------------
(* Any state earlier requests may have left in t_dek.                      *)

Init ==
  /\ state \in [Dek -> {"absent", "current", "finished"}]
  /\ counter \in [Dek -> 0 .. UseCount]
  /\ \A d \in Dek :
        /\ state[d] = "absent" => counter[d] = 0
        /\ state[d] = "current" => counter[d] < UseCount
  /\ issued = counter
  /\ lock = [d \in Dek |-> NoSession]
  /\ pc = [s \in Session |-> "idle"]
  /\ req = [s \in Session |-> NoRequest]
  /\ cache = [s \in Session |-> {}]
  /\ seen = [s \in Session |-> Zero]
  /\ want = [s \in Session |-> NoDek]
  /\ made = [s \in Session |-> {}]
  /\ spent = [s \in Session |-> Zero]
  /\ budget = MaxRequests

Goto(s, label) == pc' = [pc EXCEPT ![s] = label]

\* The end of the transaction of s: its objects and its row locks are gone.
EndTransaction(s) ==
  /\ lock' = [d \in Dek |-> IF lock[d] = s THEN NoSession ELSE lock[d]]
  /\ cache' = [cache EXCEPT ![s] = {}]
  /\ seen' = [seen EXCEPT ![s] = Zero]
  /\ want' = [want EXCEPT ![s] = NoDek]
  /\ made' = [made EXCEPT ![s] = {}]
  /\ spent' = [spent EXCEPT ![s] = Zero]

-----------------------------------------------------------------------------
(* A request.                                                              *)

\* A request arrives.  XML methods may be restarted once, plain ones not.
Begin(s) ==
  /\ pc[s] = "idle"
  /\ budget > 0
  /\ budget' = budget - 1
  /\ \E n \in 1 .. MaxUses, again \in BOOLEAN :
        req' = [req EXCEPT ![s] = [size |-> n, left |-> n, again |-> again]]
  /\ Goto(s, "enough")
  /\ UNCHANGED <<database, lock, cache, seen, want, made, spent>>

\* The list generate_enough_deks tests: the old one, or a new one if that is empty.
Candidates(s) == IF cache[s] = {} THEN ActiveDeks(s) ELSE cache[s]
CandidateCounters(s) ==
  IF cache[s] = {} THEN ReadAll(s, ActiveDeks(s)) ELSE seen[s]

\* get_unused_count: what the row objects of the list say is left.
UnusedCount(s) ==
  MapThenSumSet(LAMBDA d : UseCount - CandidateCounters(s)[d], Candidates(s))

\* Mutant of EnoughDeks: an off-by-one in the comparison with the limit.
EnoughDeksOffByOne(s) ==
  /\ pc[s] = "enough"
  /\ UnusedCount(s) >= MinActive - 1
  /\ cache' = [cache EXCEPT ![s] = Candidates(s)]
  /\ seen' = [seen EXCEPT ![s] = CandidateCounters(s)]
  /\ Goto(s, "choose")
  /\ UNCHANGED <<database, lock, req, want, made, spent, budget>>

\* generate_enough_deks, when the list promises enough uses.
EnoughDeks(s) ==
  /\ pc[s] = "enough"
  /\ UnusedCount(s) >= MinActive
  /\ cache' = [cache EXCEPT ![s] = Candidates(s)]
  /\ seen' = [seen EXCEPT ![s] = CandidateCounters(s)]
  /\ Goto(s, "choose")
  /\ UNCHANGED <<database, lock, req, want, made, spent, budget>>

\* generate_enough_deks, when it does not: two inserts, a flush and a new list.
GenerateNewDeks(s) ==
  /\ pc[s] = "enough"
  /\ UnusedCount(s) < MinActive
  /\ \E d1, d2 \in FreshIds :
        /\ d1 # d2
        /\ lock' = [lock EXCEPT ![d1] = s, ![d2] = s]
        /\ made' = [made EXCEPT ![s] = @ \cup {d1, d2}]
        /\ cache' = [cache EXCEPT ![s] = ActiveDeks(s) \cup {d1, d2}]
        /\ seen' = [seen EXCEPT ![s] =
                      [ReadAll(s, ActiveDeks(s)) EXCEPT ![d1] = 0, ![d2] = 0]]
  /\ Goto(s, "choose")
  /\ UNCHANGED <<database, req, want, spent, budget>>

\* rnd % active_deks_.size()
Choose(s, d) ==
  /\ pc[s] = "choose"
  /\ d \in cache[s]
  /\ want' = [want EXCEPT ![s] = d]
  /\ Goto(s, "lock")
  /\ UNCHANGED <<database, lock, req, cache, seen, made, spent, budget>>

\* lock_and_refresh: waits for the row lock, then reads the latest row.
LockRow(s) ==
  /\ pc[s] = "lock"
  /\ lock[want[s]] \in {NoSession, s}
  /\ lock' = [lock EXCEPT ![want[s]] = s]
  /\ want' = [want EXCEPT ![s] = NoDek]

\* Mutant of RetryChoice: the row object keeps its old counter.
RetryBlindly(s) ==
  /\ LockRow(s)
  /\ ~Usable(s, want[s])
  /\ Goto(s, "enough")
  /\ UNCHANGED <<database, req, cache, seen, made, spent, budget>>

\* "race condition detected": the row has become unusable since the list was
\* read; the request tries again and still holds the lock.
RetryChoice(s) ==
  /\ LockRow(s)
  /\ ~Usable(s, want[s])
  /\ seen' = [seen EXCEPT ![s][want[s]] = ReadCounter(s, want[s])]
  /\ Goto(s, "enough")
  /\ UNCHANGED <<database, req, cache, made, spent, budget>>

\* Mutant of UseDek: the request does not notice its last encryption.
UseDekEndlessly(s) ==
  /\ LockRow(s)
  /\ Usable(s, want[s])
  /\ seen' = [seen EXCEPT ![s][want[s]] = ReadCounter(s, want[s]) + 1]
  /\ spent' = [spent EXCEPT ![s][want[s]] = @ + 1]
  /\ req' = [req EXCEPT ![s].left = @ - 1]
  /\ Goto(s, "enough")
  /\ UNCHANGED <<database, cache, made, budget>>

\* use_dek: encrypts under the locked DEK and counts the use in the row object.
UseDek(s) ==
  /\ LockRow(s)
  /\ Usable(s, want[s])
  /\ seen' = [seen EXCEPT ![s][want[s]] = ReadCounter(s, want[s]) + 1]
  /\ spent' = [spent EXCEPT ![s][want[s]] = @ + 1]
  /\ req' = [req EXCEPT ![s].left = @ - 1]
  /\ Goto(s, IF req[s].left = 1 THEN "commit" ELSE "enough")
  /\ UNCHANGED <<database, cache, made, budget>>

\* The handler is done: the session writes its objects back and commits.
Commit(s) ==
  /\ pc[s] = "commit"
  /\ counter' = [d \in Dek |->
                   IF d \in Written(s) THEN seen[s][d] ELSE counter[d]]
  /\ state' = [d \in Dek |->
                 IF d \notin Written(s) THEN state[d]
                 ELSE IF seen[s][d] >= UseCount THEN "finished"
                 ELSE IF d \in made[s] THEN "current" ELSE state[d]]
  /\ issued' = [d \in Dek |-> issued[d] + spent[s][d]]
  /\ EndTransaction(s)
  /\ req' = [req EXCEPT ![s] = NoRequest]
  /\ Goto(s, "idle")
  /\ UNCHANGED budget

\* The first database error of an XML method: the transaction is rolled back
\* and the handler called again, with a new session.
Restart(s) ==
  /\ req[s].again
  /\ EndTransaction(s)
  /\ req' = [req EXCEPT ![s].left = req[s].size, ![s].again = FALSE]
  /\ Goto(s, "enough")
  /\ UNCHANGED <<database, budget>>

\* Any other exception: rolled back, and the client gets an error.
GiveUp(s) ==
  /\ EndTransaction(s)
  /\ req' = [req EXCEPT ![s] = NoRequest]
  /\ Goto(s, "idle")
  /\ UNCHANGED <<database, budget>>

Fail(s) == pc[s] # "idle" /\ (Restart(s) \/ GiveUp(s))

\* Sessions that wait for each other's row locks in a cycle.
Deadlocked(s) ==
  \E C \in SUBSET Session :
     /\ s \in C
     /\ \A x \in C :
           /\ pc[x] = "lock"
           /\ lock[want[x]] \in C \ {x}
           /\ \E y \in C : pc[y] = "lock" /\ lock[want[y]] = x

\* The database detects the cycle and rolls one of the transactions back.
DeadlockVictim(s) ==
  /\ Deadlocked(s)
  /\ Restart(s) \/ (~req[s].again /\ GiveUp(s))

\* Time: finish_ts passes.
Expire(d) ==
  /\ state[d] = "current"
  /\ state' = [state EXCEPT ![d] = "finished"]
  /\ UNCHANGED <<counter, issued, lock, txn, budget>>

\* Every request has been answered and no new one comes.
Done ==
  /\ budget = 0
  /\ \A s \in Session : pc[s] = "idle"
  /\ UNCHANGED vars

Proceed(s) ==
  \/ EnoughDeks(s)
  \/ GenerateNewDeks(s)
  \/ \E d \in Dek : Choose(s, d)
  \/ RetryChoice(s)
  \/ UseDek(s)
  \/ Commit(s)

SessionNext(s) == Begin(s) \/ Proceed(s) \/ Fail(s) \/ DeadlockVictim(s)

RequestsNext == (\E s \in Session : SessionNext(s)) \/ Done

Next == RequestsNext \/ \E d \in Dek : Expire(d)

Spec == Init /\ [][Next]_vars

-----------------------------------------------------------------------------
(* Safety.                                                                 *)

\* "A DEK can be used for encryption only few times": however many requests
\* race for a DEK, no more than UseCount ciphertexts ever exist under it.
UseBound == \A d \in Dek : issued[d] <= UseCount

\* rnd % active_deks_.size() never divides by zero: whatever the other requests
\* and the clock did since the list was read, it is not empty when a DEK is picked.
NeverChooseFromNothing ==
  \A s \in Session : pc[s] = "choose" => cache[s] # {}

\* The inductive invariant behind UseBound.  The recorded counter is exact; what
\* a transaction has written is locked by it, and the counter in its row object
\* is the committed one plus its own uncommitted ciphertexts.
Accounted ==
  \A d \in Dek :
     /\ issued[d] = counter[d]
     /\ counter[d] <= UseCount
     /\ state[d] = "absent" => counter[d] = 0

WritesLocked ==
  \A s \in Session, d \in Dek :
     /\ spent[s][d] > 0 => lock[d] = s /\ (d \in made[s] \/ state[d] # "absent")
     /\ d \in made[s] => lock[d] = s /\ state[d] = "absent"

WritesExact ==
  \A s \in Session, d \in Dek :
     d \in Written(s) => /\ seen[s][d] = counter[d] + spent[s][d]
                         /\ seen[s][d] <= UseCount

RequestsWellFormed ==
  \A s \in Session :
     /\ pc[s] = "lock" => want[s] \in Dek
     /\ pc[s] # "idle" => req[s].size >= 1
     /\ pc[s] \in {"enough", "choose", "lock"} => req[s].left >= 1

PoolInv ==
  TypeOK /\ Accounted /\ WritesLocked /\ WritesExact /\ RequestsWellFormed

\* What the pool promises to the rest of the system: the recorded counter and
\* the number of ciphertexts move together, forward only, up to the limit.
Budget == INSTANCE DekBudget WITH Limit <- UseCount, recorded <- counter

PoolKeepsBudget == Budget!Spec

-----------------------------------------------------------------------------
(* Liveness.                                                               *)

\* The threads run; the database detects deadlocks; and a random choice that is
\* made again and again from a list hits each DEK of it.
Fairness ==
  \A s \in Session :
     /\ WF_vars(Proceed(s))
     /\ WF_vars(DeadlockVictim(s))
     /\ \A d \in Dek : SF_vars(Choose(s, d))

\* Every request is answered: the retry loop of get_active_data_key, the waits
\* for row locks and the deadlocks between two-encryption requests all end.
EveryRequestEnds == \A s \in Session : pc[s] # "idle" ~> pc[s] = "idle"

=============================================================================
