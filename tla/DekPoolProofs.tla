--------------------------- MODULE DekPoolProofs ---------------------------
(***************************************************************************)
(* Proofs about DekPool, for any number of DEKs and concurrent requests,   *)
(* any UseCount, MinActive and number of encryptions per request.          *)
(***************************************************************************)
EXTENDS DekPool, TLAPS

LEMMA InitInv == Init => PoolInv
  BY DekPoolAssumption
  DEF Init, PoolInv, TypeOK, Accounted, WritesLocked, WritesExact,
      RequestsWellFormed, Zero, NoRequest, PCs, Written

-----------------------------------------------------------------------------
(* Steps that write nothing to the database: they keep what is accounted.  *)

LEMMA BeginInv ==
  ASSUME PoolInv, NEW s \in Session, Begin(s)
  PROVE  PoolInv'
<1> USE DekPoolAssumption DEF PoolInv, Begin, database, Goto
<1>1. TypeOK'
  BY DEF TypeOK, PCs
<1>2. Accounted' /\ WritesLocked' /\ WritesExact'
  BY DEF TypeOK, Accounted, WritesLocked, WritesExact, Written
<1>3. RequestsWellFormed'
  BY DEF TypeOK, RequestsWellFormed
<1> QED BY <1>1, <1>2, <1>3

LEMMA EnoughDeksInv ==
  ASSUME PoolInv, NEW s \in Session, EnoughDeks(s)
  PROVE  PoolInv'
<1> USE DEF PoolInv, EnoughDeks, database, Goto
<1> DEFINE new == CandidateCounters(s)
<1>1. new \in [Dek -> Nat] /\ Candidates(s) \in SUBSET Dek
  BY DEF TypeOK, CandidateCounters, Candidates, ReadAll, ReadCounter, ActiveDeks
<1>2. \A d \in Written(s) : new[d] = seen[s][d]
  BY DEF TypeOK, Written, CandidateCounters, ReadAll, ReadCounter
<1>3. TypeOK'
  BY <1>1 DEF TypeOK, PCs
<1>4. Accounted' /\ WritesLocked'
  BY DEF TypeOK, Accounted, WritesLocked
<1>5. WritesExact'
  BY <1>2 DEF TypeOK, WritesExact, Written
<1>6. RequestsWellFormed'
  BY DEF TypeOK, RequestsWellFormed
<1> QED BY <1>3, <1>4, <1>5, <1>6

LEMMA GenerateNewDeksInv ==
  ASSUME PoolInv, NEW s \in Session, GenerateNewDeks(s)
  PROVE  PoolInv'
<1> USE DEF PoolInv, database, Goto
<1> PICK d1 \in FreshIds, d2 \in FreshIds :
      /\ d1 # d2
      /\ lock' = [lock EXCEPT ![d1] = s, ![d2] = s]
      /\ made' = [made EXCEPT ![s] = @ \cup {d1, d2}]
      /\ cache' = [cache EXCEPT ![s] = ActiveDeks(s) \cup {d1, d2}]
      /\ seen' = [seen EXCEPT ![s] =
                    [ReadAll(s, ActiveDeks(s)) EXCEPT ![d1] = 0, ![d2] = 0]]
  BY DEF GenerateNewDeks
<1>1. /\ pc[s] = "enough"
      /\ pc' = [pc EXCEPT ![s] = "choose"]
      /\ UNCHANGED <<counter, state, issued, req, want, spent, budget>>
  BY DEF GenerateNewDeks
<1>2. /\ d1 \in Dek /\ state[d1] = "absent" /\ \A x \in Session : d1 \notin made[x]
      /\ d2 \in Dek /\ state[d2] = "absent" /\ \A x \in Session : d2 \notin made[x]
  BY DEF FreshIds
<1>3. /\ counter[d1] = 0 /\ \A x \in Session : spent[x][d1] = 0
      /\ counter[d2] = 0 /\ \A x \in Session : spent[x][d2] = 0
  BY <1>2 DEF TypeOK, Accounted, WritesLocked
<1> DEFINE new == ReadAll(s, ActiveDeks(s))
<1>4. new \in [Dek -> Nat] /\ ActiveDeks(s) \in SUBSET Dek
  BY DEF TypeOK, ReadAll, ReadCounter, ActiveDeks
<1>5. \A d \in Written(s) : new[d] = seen[s][d]
  BY DEF TypeOK, Written, ReadAll, ReadCounter
<1>6. TypeOK'
  BY <1>1, <1>2, <1>4 DEF TypeOK, PCs
<1>7. Accounted'
  BY <1>1 DEF Accounted
<1>8. WritesLocked'
  BY <1>1, <1>2, <1>3 DEF TypeOK, WritesLocked
<1>9. WritesExact'
  <2> SUFFICES ASSUME NEW x \in Session, NEW d \in Dek, d \in Written(x)'
               PROVE  /\ seen'[x][d] = counter[d] + spent[x][d]
                      /\ seen'[x][d] <= UseCount
    BY <1>1 DEF WritesExact
  <2>1. CASE x = s /\ d \in {d1, d2}
    <3>1. seen'[s][d] = 0
      BY <2>1, <1>2, <1>4 DEF TypeOK
    <3>2. counter[d] = 0 /\ spent[s][d] = 0
      BY <2>1, <1>3
    <3> QED BY <2>1, <3>1, <3>2, DekPoolAssumption
  <2>2. CASE x = s /\ d \notin {d1, d2}
    <3>1. d \in Written(s)
      BY <2>2, <1>1, <1>2 DEF TypeOK, Written
    <3>2. seen'[s][d] = new[d]
      BY <2>2, <1>2, <1>4 DEF TypeOK
    <3> QED BY <2>2, <3>1, <3>2, <1>5 DEF WritesExact
  <2>3. CASE x # s
    BY <2>3, <1>1, <1>2 DEF TypeOK, WritesExact, Written
  <2> QED BY <2>1, <2>2, <2>3
<1>10. RequestsWellFormed'
  BY <1>1 DEF TypeOK, RequestsWellFormed
<1> QED BY <1>6, <1>7, <1>8, <1>9, <1>10

LEMMA ChooseInv ==
  ASSUME PoolInv, NEW s \in Session, NEW d \in Dek, Choose(s, d)
  PROVE  PoolInv'
<1> USE DEF PoolInv, Choose, database, Goto
<1>1. TypeOK'
  BY DEF TypeOK, PCs
<1>2. Accounted' /\ WritesLocked' /\ WritesExact'
  BY DEF TypeOK, Accounted, WritesLocked, WritesExact, Written
<1>3. RequestsWellFormed'
  BY DEF TypeOK, RequestsWellFormed
<1> QED BY <1>1, <1>2, <1>3

LEMMA RetryChoiceInv ==
  ASSUME PoolInv, NEW s \in Session, RetryChoice(s)
  PROVE  PoolInv'
<1> USE DekPoolAssumption DEF PoolInv, RetryChoice, LockRow, database, Goto
<1> DEFINE d == want[s]
<1>1. d \in Dek /\ lock[d] \in {NoSession, s} /\ lock' = [lock EXCEPT ![d] = s]
  BY DEF RequestsWellFormed
<1>2. ReadCounter(s, d) \in Nat
  BY <1>1 DEF TypeOK, ReadCounter
<1>3. TypeOK'
  BY <1>1, <1>2 DEF TypeOK, PCs
<1>4. Accounted'
  BY DEF Accounted
<1>5. WritesLocked'
  BY <1>1 DEF TypeOK, WritesLocked
<1>6. WritesExact'
  BY <1>1 DEF TypeOK, WritesExact, Written, ReadCounter
<1>7. RequestsWellFormed'
  BY DEF TypeOK, RequestsWellFormed
<1> QED BY <1>3, <1>4, <1>5, <1>6, <1>7

LEMMA UseDekInv ==
  ASSUME PoolInv, NEW s \in Session, UseDek(s)
  PROVE  PoolInv'
<1> USE DekPoolAssumption DEF PoolInv, UseDek, LockRow, database, Goto
<1> DEFINE d == want[s]
           c == ReadCounter(s, d)
<1>1. d \in Dek /\ lock[d] \in {NoSession, s} /\ lock' = [lock EXCEPT ![d] = s]
  BY DEF RequestsWellFormed
<1>2. /\ c \in Nat /\ c < UseCount
      /\ d \in made[s] \/ state[d] = "current"
  BY <1>1 DEF TypeOK, ReadCounter, Usable, Unexpired
<1>3. c = counter[d] + spent[s][d]
  BY <1>1 DEF TypeOK, ReadCounter, WritesExact, Written
<1>4. /\ seen' = [seen EXCEPT ![s][d] = c + 1]
      /\ spent' = [spent EXCEPT ![s][d] = @ + 1]
  OBVIOUS
<1>5. TypeOK'
  <2>1. req' \in [Session -> [size : 0 .. MaxUses, left : 0 .. MaxUses,
                             again : BOOLEAN]]
    <3>1. req[s].left \in 0 .. MaxUses /\ req[s].left >= 1
      BY DEF TypeOK, RequestsWellFormed
    <3>2. req[s].left - 1 \in 0 .. MaxUses
      BY <3>1
    <3>3. req[s] \in [size : 0 .. MaxUses, left : 0 .. MaxUses, again : BOOLEAN]
      BY DEF TypeOK
    <3> DEFINE l == req[s].left - 1
    <3>4. l \in 0 .. MaxUses
      BY <3>2
    <3>5. req' = [req EXCEPT ![s] = [req[s] EXCEPT !.left = l]]
      OBVIOUS
    <3> HIDE DEF l
    <3>6. [req[s] EXCEPT !.left = l]
             \in [size : 0 .. MaxUses, left : 0 .. MaxUses, again : BOOLEAN]
      BY <3>3, <3>4
    <3> QED BY <3>5, <3>6 DEF TypeOK
  <2>2. seen' \in [Session -> [Dek -> Nat]] /\ spent' \in [Session -> [Dek -> Nat]]
    BY <1>1, <1>2, <1>4 DEF TypeOK
  <2>3. want' \in [Session -> Dek \cup {NoDek}] /\ pc' \in [Session -> PCs]
    BY DEF TypeOK, PCs
  <2>4. lock' \in [Dek -> Session \cup {NoSession}]
    BY <1>1 DEF TypeOK
  <2> QED BY <2>1, <2>2, <2>3, <2>4 DEF TypeOK
<1>6. Accounted'
  BY DEF Accounted
<1>7. WritesLocked'
  BY <1>1, <1>2 DEF TypeOK, WritesLocked
<1>8. WritesExact'
  <2> SUFFICES ASSUME NEW x \in Session, NEW e \in Dek, e \in Written(x)'
               PROVE  /\ seen'[x][e] = counter[e] + spent'[x][e]
                      /\ seen'[x][e] <= UseCount
    BY DEF WritesExact
  <2>1. CASE x = s /\ e = d
    BY <2>1, <1>1, <1>2, <1>3, <1>4 DEF TypeOK
  <2>2. CASE x # s \/ e # d
    BY <2>2, <1>1, <1>4 DEF TypeOK, WritesExact, Written
  <2> QED BY <2>1, <2>2
<1>9. RequestsWellFormed'
  BY DEF TypeOK, RequestsWellFormed
<1> QED BY <1>5, <1>6, <1>7, <1>8, <1>9

-----------------------------------------------------------------------------
(* The ends of a transaction.                                              *)

LEMMA CommitInv ==
  ASSUME PoolInv, NEW s \in Session, Commit(s)
  PROVE  PoolInv'
<1> USE DekPoolAssumption DEF PoolInv, Commit, EndTransaction, Goto
<1>1. \A d \in Written(s) :
         /\ d \in Dek /\ lock[d] = s
         /\ counter'[d] = counter[d] + spent[s][d]
         /\ counter'[d] <= UseCount
         /\ state'[d] # "absent"
  BY DEF TypeOK, Written, WritesLocked, WritesExact
<1>2. \A d \in Dek \ Written(s) :
         spent[s][d] = 0 /\ counter'[d] = counter[d] /\ state'[d] = state[d]
  BY DEF TypeOK, Written
<1>3. \A x \in Session \ {s}, d \in Dek : d \in Written(x) => d \notin Written(s)
  BY DEF TypeOK, Written, WritesLocked
<1>4. TypeOK'
  BY DEF TypeOK, PCs, Zero, NoRequest
<1>5. Accounted'
  <2> SUFFICES ASSUME NEW d \in Dek
               PROVE  /\ issued'[d] = counter'[d] /\ counter'[d] <= UseCount
                      /\ state'[d] = "absent" => counter'[d] = 0
    BY DEF Accounted
  <2>1. issued'[d] = issued[d] + spent[s][d]
    OBVIOUS
  <2>2. CASE d \in Written(s)
    BY <2>1, <2>2, <1>1 DEF Accounted
  <2>3. CASE d \notin Written(s)
    BY <2>1, <2>3, <1>2 DEF TypeOK, Accounted
  <2> QED BY <2>2, <2>3
<1>6. WritesLocked'
  <2> SUFFICES ASSUME NEW x \in Session, NEW d \in Dek
               PROVE  /\ spent'[x][d] > 0 =>
                           lock'[d] = x /\ (d \in made'[x] \/ state'[d] # "absent")
                      /\ d \in made'[x] => lock'[d] = x /\ state'[d] = "absent"
    BY DEF WritesLocked
  <2>1. CASE x = s
    BY <2>1 DEF TypeOK, Zero
  <2>2. CASE x # s
    BY <2>2, <1>2, <1>3 DEF TypeOK, WritesLocked, Written
  <2> QED BY <2>1, <2>2
<1>7. WritesExact'
  <2> SUFFICES ASSUME NEW x \in Session, NEW d \in Dek, d \in Written(x)'
               PROVE  /\ seen'[x][d] = counter'[d] + spent'[x][d]
                      /\ seen'[x][d] <= UseCount
    BY DEF WritesExact
  <2>1. x # s
    BY DEF TypeOK, Written, Zero
  <2>2. d \in Written(x) /\ d \notin Written(s)
    BY <2>1, <1>3 DEF TypeOK, Written
  <2> QED BY <2>1, <2>2, <1>2 DEF TypeOK, WritesExact
<1>8. RequestsWellFormed'
  BY DEF TypeOK, RequestsWellFormed
<1> QED BY <1>4, <1>5, <1>6, <1>7, <1>8

\* A rollback of s, whatever becomes of the request.
LEMMA RollbackInv ==
  ASSUME PoolInv, NEW s \in Session, EndTransaction(s), UNCHANGED database
  PROVE  Accounted' /\ WritesLocked' /\ WritesExact'
<1> USE DEF PoolInv, EndTransaction, database
<1>1. Accounted'
  BY DEF Accounted
<1>2. WritesLocked'
  BY DEF TypeOK, WritesLocked, Zero
<1>3. WritesExact'
  <2> SUFFICES ASSUME NEW x \in Session, NEW d \in Dek, d \in Written(x)'
               PROVE  /\ seen'[x][d] = counter[d] + spent'[x][d]
                      /\ seen'[x][d] <= UseCount
    BY DEF WritesExact
  <2>1. x # s
    BY DEF TypeOK, Written, Zero
  <2> QED BY <2>1 DEF TypeOK, WritesExact, Written
<1> QED BY <1>1, <1>2, <1>3

LEMMA RestartInv ==
  ASSUME PoolInv, NEW s \in Session, pc[s] # "idle", Restart(s)
  PROVE  PoolInv'
<1>1. Accounted' /\ WritesLocked' /\ WritesExact'
  BY RollbackInv DEF Restart
<1>2. TypeOK'
  BY DEF PoolInv, Restart, EndTransaction, database, Goto, TypeOK, PCs, Zero
<1>3. RequestsWellFormed'
  BY DEF PoolInv, Restart, Goto, TypeOK, EndTransaction, RequestsWellFormed
<1> QED BY <1>1, <1>2, <1>3 DEF PoolInv

LEMMA GiveUpInv ==
  ASSUME PoolInv, NEW s \in Session, GiveUp(s)
  PROVE  PoolInv'
<1> USE DekPoolAssumption
<1>1. Accounted' /\ WritesLocked' /\ WritesExact'
  BY RollbackInv DEF GiveUp
<1>2. TypeOK'
  BY DEF PoolInv, GiveUp, EndTransaction, database, Goto, TypeOK, PCs, Zero,
         NoRequest
<1>3. RequestsWellFormed'
  BY DEF PoolInv, GiveUp, Goto, TypeOK, EndTransaction, RequestsWellFormed
<1> QED BY <1>1, <1>2, <1>3 DEF PoolInv

LEMMA ExpireInv ==
  ASSUME PoolInv, NEW d \in Dek, Expire(d)
  PROVE  PoolInv'
<1> USE DEF PoolInv, Expire, txn
<1>1. TypeOK'
  BY DEF TypeOK
<1>2. Accounted' /\ WritesLocked' /\ WritesExact'
  BY DEF TypeOK, Accounted, WritesLocked, WritesExact, Written
<1>3. RequestsWellFormed'
  BY DEF RequestsWellFormed
<1> QED BY <1>1, <1>2, <1>3

-----------------------------------------------------------------------------

LEMMA NextInv == PoolInv /\ [Next]_vars => PoolInv'
<1> SUFFICES ASSUME PoolInv, [Next]_vars PROVE PoolInv'
  OBVIOUS
<1>1. ASSUME NEW s \in Session, SessionNext(s) PROVE PoolInv'
  <2>1. CASE Begin(s)
    BY <2>1, BeginInv
  <2>2. CASE Proceed(s)
    BY <2>2, EnoughDeksInv, GenerateNewDeksInv, ChooseInv, RetryChoiceInv,
       UseDekInv, CommitInv DEF Proceed
  <2>3. CASE Fail(s)
    BY <2>3, RestartInv, GiveUpInv DEF Fail
  <2>4. CASE DeadlockVictim(s)
    <3>1. pc[s] # "idle"
      BY <2>4 DEF DeadlockVictim, Deadlocked
    <3> QED BY <2>4, <3>1, RestartInv, GiveUpInv DEF DeadlockVictim
  <2> QED BY <1>1, <2>1, <2>2, <2>3, <2>4 DEF SessionNext
<1>2. ASSUME NEW d \in Dek, Expire(d) PROVE PoolInv'
  BY <1>2, ExpireInv
<1>3. CASE UNCHANGED vars
  BY <1>3 DEF vars, PoolInv, TypeOK, Accounted, WritesLocked, WritesExact,
              RequestsWellFormed, Written
<1> QED BY <1>1, <1>2, <1>3 DEF Next, RequestsNext, Done

\* The accounting of DEK uses is inductive: in every reachable state of any
\* number of racing requests, counters, row locks and row objects agree.
THEOREM Accounting == Spec => []PoolInv
<1>1. PoolInv /\ [Next]_vars => PoolInv'
  BY NextInv
<1> QED BY InitInv, <1>1, PTL DEF Spec

\* Every reachable state of the DEK pool is well typed.
THEOREM TypeCorrect == Spec => []TypeOK
<1>1. PoolInv => TypeOK
  BY DEF PoolInv
<1> QED BY Accounting, <1>1, PTL

\* No DEK ever encrypts more than UseCount texts, whatever requests race for it
\* and whichever of them fail and are restarted.
THEOREM UseBounded == Spec => []UseBound
<1>1. PoolInv => UseBound
  BY DekPoolAssumption DEF PoolInv, Accounted, UseBound, TypeOK
<1> QED BY Accounting, <1>1, PTL

\* A list without DEKs promises nothing.
LEMMA NoneUnused ==
  ASSUME NEW s \in Session, Candidates(s) = {}
  PROVE  UnusedCount(s) = 0
<1> DEFINE Body(f) ==
      [S \in SUBSET {} |->
         IF S = {} THEN 0
         ELSE LET x == CHOOSE x \in S : TRUE
              IN  (UseCount - CandidateCounters(s)[x]) + f[S \ {x}]]
    sum == CHOOSE f : f = Body(f)
<1>1. UnusedCount(s) = sum[{}]
  BY DEF UnusedCount, MapThenSumSet, MapThenFoldSet
<1>2. \E f : f = Body(f)
  <2>1. [S \in SUBSET {} |-> 0] = Body([S \in SUBSET {} |-> 0])
    OBVIOUS
  <2> QED
    BY <2>1
<1>3. sum = Body(sum)
  BY <1>2
<1>4. {} \in SUBSET {}
  OBVIOUS
<1> HIDE DEF sum
<1> QED
  BY <1>1, <1>3, <1>4

\* The list is tested before each choice, and nobody else has it.
THEOREM ListNotEmpty == Spec => []NeverChooseFromNothing
<1>1. Init => NeverChooseFromNothing
  BY DEF Init, NeverChooseFromNothing
<1>2. ASSUME TypeOK, NeverChooseFromNothing, [Next]_vars
      PROVE  NeverChooseFromNothing'
  <2>1. ASSUME NEW s \in Session, EnoughDeks(s) PROVE NeverChooseFromNothing'
    <3>1. Candidates(s) # {}
      BY <2>1, NoneUnused, DekPoolAssumption DEF EnoughDeks, DekPoolAssumption
    <3> QED
      BY <1>2, <2>1, <3>1 DEF EnoughDeks, NeverChooseFromNothing, TypeOK, Goto
  <2>2. ASSUME NEW s \in Session, GenerateNewDeks(s) PROVE NeverChooseFromNothing'
    BY <1>2, <2>2 DEF GenerateNewDeks, NeverChooseFromNothing, TypeOK, Goto
  <2>3. ASSUME NEW s \in Session, NEW d \in Dek, Choose(s, d)
        PROVE  NeverChooseFromNothing'
    BY <1>2, <2>3 DEF Choose, NeverChooseFromNothing, TypeOK, Goto
  <2>4. ASSUME NEW s \in Session, RetryChoice(s) \/ UseDek(s)
        PROVE  NeverChooseFromNothing'
    BY <1>2, <2>4 DEF RetryChoice, UseDek, NeverChooseFromNothing, TypeOK, Goto
  <2>5. ASSUME NEW s \in Session, Commit(s) \/ Restart(s) \/ GiveUp(s)
        PROVE  NeverChooseFromNothing'
    BY <1>2, <2>5
    DEF Commit, Restart, GiveUp, EndTransaction, NeverChooseFromNothing, TypeOK, Goto
  <2>6. ASSUME NEW s \in Session, Begin(s) PROVE NeverChooseFromNothing'
    BY <1>2, <2>6 DEF Begin, NeverChooseFromNothing, TypeOK, Goto
  <2>7. ASSUME UNCHANGED <<pc, cache>> PROVE NeverChooseFromNothing'
    BY <1>2, <2>7 DEF NeverChooseFromNothing
  <2>8. ASSUME NEW s \in Session, SessionNext(s) PROVE NeverChooseFromNothing'
    BY <2>1, <2>2, <2>3, <2>4, <2>5, <2>6, <2>8 DEF SessionNext, Proceed, Fail, DeadlockVictim
  <2>9. ASSUME NEW d \in Dek, Expire(d) PROVE NeverChooseFromNothing'
    BY <2>7, <2>9 DEF Expire, txn
  <2> QED
    BY <1>2, <2>7, <2>8, <2>9 DEF Next, RequestsNext, Done, vars
<1> QED
  BY <1>1, <1>2, TypeCorrect, PTL DEF Spec

-----------------------------------------------------------------------------
(* The pool implements the abstract budget.                                *)

LEMMA InitBudget == Init => Budget!Init
  BY DekPoolAssumption DEF Init, Budget!Init

\* What a step other than a commit does to the database, as the budget sees it.
LEMMA StepBudget ==
  ASSUME PoolInv, PoolInv', [Next]_vars
  PROVE  [Budget!Next]_(Budget!vars)
<1>1. ASSUME NEW s \in Session, Commit(s) PROVE Budget!Issue
  <2>1. counter' \in [Dek -> 0 .. UseCount]
    BY DekPoolAssumption DEF PoolInv, TypeOK, Accounted
  <2>2. issued' = counter'
    BY DEF PoolInv, TypeOK, Accounted
  <2>3. \A d \in Dek : issued'[d] >= issued[d]
    BY <1>1 DEF Commit, PoolInv, TypeOK
  <2> QED BY <2>1, <2>2, <2>3 DEF Budget!Issue
<1>2. ASSUME NEW s \in Session, SessionNext(s), ~Commit(s)
      PROVE  UNCHANGED <<counter, issued>>
  BY <1>2 DEF SessionNext, Begin, Proceed, EnoughDeks, GenerateNewDeks, Choose,
     RetryChoice, UseDek, Fail, DeadlockVictim, Restart, GiveUp, database
<1>3. ASSUME NEW d \in Dek, Expire(d) PROVE UNCHANGED <<counter, issued>>
  BY <1>3 DEF Expire
<1>4. CASE UNCHANGED vars
  BY <1>4 DEF vars, Budget!vars
<1> QED
  BY <1>1, <1>2, <1>3, <1>4
  DEF Next, RequestsNext, Done, SessionNext, Budget!Next, Budget!vars

\* The pool of racing transactions implements the abstract budget: recorded and
\* real uses move together, forward only, up to the limit.
THEOREM PoolImplementsBudget == Spec => PoolKeepsBudget
<1>1. PoolInv /\ PoolInv' /\ [Next]_vars => [Budget!Next]_(Budget!vars)
  BY StepBudget
<1> QED BY InitBudget, Accounting, <1>1, PTL DEF Spec, PoolKeepsBudget, Budget!Spec

=============================================================================
