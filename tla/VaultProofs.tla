---------------------------- MODULE VaultProofs ----------------------------
(***************************************************************************)
(* Proofs about Vault, for any numbers of threads, texts, domains, rows    *)
(* and versions.                                                           *)
(*                                                                         *)
(* The argument.  A row never changes between its commit and its removal,  *)
(* and no id is drawn twice: so what a thread knows of a row is true as    *)
(* long as the row is there.  A search has yet to try the version of each  *)
(* row that it could have found all the time; a configuration that is      *)
(* replaced meanwhile takes away only the rows that it cannot find.        *)
(***************************************************************************)
EXTENDS Vault, CodecsProofs

\* What is stored under token i.
RowOf(i, row) ==
  /\ row.text \in Text /\ row.domain \in Domain /\ row.ver \in Ver
  /\ row.digest \in {Random, Genuine(row.ver), Garbage(row.ver)}
  /\ row.data = Crypted[i][row.text]

\* A thread at each of its points, when n rows have been made.
Formed(q, n) ==
  /\ q \in [pc : {"idle", "refresh", "swap", "ready", "search", "new", "insert", "commit",
                  "answer"},
            op : {"tokenize", "search", None}, text : Text \cup {NoText},
            domain : Domain \cup {None}, first : Ver \cup {NoVer}, todo : SUBSET Ver,
            had : SUBSET (1 .. n), ver : Ver \cup {NoVer}, id : 0 .. n, row : {q.row},
            snap : Conf]
  /\ q.pc \in {"search", "new", "insert"} => q.text \in Text /\ q.domain \in Domain
  /\ q.pc = "search" => q.todo # {}
  /\ q.pc = "insert" => q.ver \in Ver
  /\ q.pc = "commit" => q.id # 0 /\ q.row # NoRow /\ RowOf(q.id, q.row)
  /\ q.pc = "answer" => q.id # 0

Tables ==
  /\ active \in vers /\ vers \subseteq Ver /\ parts \in Parts
  /\ lastId \in 0 .. MaxRow
  /\ rows = [i \in Row |-> rows[i]]
  /\ \A i \in Row : Stored(i) => i <= lastId /\ RowOf(i, rows[i])
  /\ conf \in Conf /\ due \in BOOLEAN

Threads ==
  /\ thr = [t \in Thread |-> thr[t]]
  /\ \A t \in Thread : Formed(thr[t], lastId)

\* A row about to be committed is nobody else's.
Drawn(t, u) ==
  At(t, "commit") =>
     /\ ~Stored(thr[t].id)
     /\ thr[t].id \notin thr[u].had
     /\ u # t /\ thr[u].pc \in {"commit", "answer"} => thr[u].id # thr[t].id

Answered(t) ==
  At(t, "answer") /\ Stored(thr[t].id) =>
     /\ rows[thr[t].id].domain = thr[t].domain
     /\ rows[thr[t].id].text = thr[t].text

\* A search has not ended while one of its rows is there, and comes to its version.
Sought(q) ==
  \A i \in q.had : Stored(i) =>
     q.pc = "search" /\ rows[i].text = q.text /\ Findable(i, conf) /\ rows[i].ver \in q.todo

\* The inductive invariant.
VaultInv ==
  /\ Tables
  /\ Threads
  /\ \A t, u \in Thread : Drawn(t, u)
  /\ \A t \in Thread : Answered(t)
  /\ \A t \in Thread : Sought(thr[t])

-----------------------------------------------------------------------------

LEMMA ConfOf ==
  ASSUME NEW c \in Conf
  PROVE  /\ c.active \in Ver /\ c.kek \in BOOLEAN /\ c.valid \in BOOLEAN
         /\ \A v \in Ver : c.hmac[v] \in {NoKey, Genuine(v), Garbage(v)}
BY DEF Conf

\* A digest is not the missing key.
LEMMA KeysOf ==
  ASSUME NEW v \in Ver
  PROVE  Random # NoKey /\ Genuine(v) # NoKey /\ Garbage(v) # NoKey
BY VaultAssumption DEF VaultAssumption, Ver, Random, Genuine, Garbage, NoKey

LEMMA NoConfIs == NoConf \in Conf
<1>1. 0 \in Ver /\ MaxVersion \in Nat
  BY VaultAssumption DEF VaultAssumption, Ver
<1>2. NoConf.hmac \in [Ver -> -(MaxVersion + 1) .. MaxVersion + 1]
  BY <1>1 DEF NoConf, NoKey
<1>3. \A v \in Ver : NoConf.hmac[v] \in {NoKey, Genuine(v), Garbage(v)}
  BY DEF NoConf
<1> QED
  BY <1>1, <1>2, <1>3 DEF NoConf, Conf

LEMMA LoadedFrom ==
  ASSUME active \in Ver
  PROVE  Loaded \in Conf
<1> DEFINE hmac == [v \in Ver |->
                CASE v \notin vers \/ parts[KekOf(v)] = "missing" -> NoKey
                  [] parts[KekOf(v)] = "right" -> Genuine(v)
                  [] OTHER -> Garbage(v)]
<1>1. MaxVersion \in Nat
  BY VaultAssumption DEF VaultAssumption
<1>2. \A v \in Ver : hmac[v] \in {NoKey, Genuine(v), Garbage(v)}
  OBVIOUS
<1>3. \A v \in Ver :
        {NoKey, Genuine(v), Garbage(v)} \subseteq -(MaxVersion + 1) .. MaxVersion + 1
  BY <1>1 DEF Ver, NoKey, Genuine, Garbage
<1> HIDE DEF hmac
<1>4. hmac = [v \in Ver |-> hmac[v]]
  BY DEF hmac
<1>5. hmac \in [Ver -> -(MaxVersion + 1) .. MaxVersion + 1]
  BY <1>2, <1>3, <1>4
<1>6. Loaded = [active |-> active, hmac |-> hmac, kek |-> parts["active"] = "right",
                valid |-> \E k \in Kek : parts[k] = "right"]
  BY DEF Loaded, hmac
<1> QED
  BY <1>1, <1>2, <1>5, <1>6 DEF Conf

LEMMA IdleIs ==
  ASSUME NEW n \in Nat
  PROVE  /\ Idle \in [pc : {"idle"}, op : {None}, text : {NoText}, domain : {None},
                      first : {NoVer}, todo : {{}}, had : {{}}, ver : {NoVer}, id : {0},
                      row : {NoRow}, snap : Conf]
         /\ Formed(Idle, n)
<1>1. Idle \in [pc : {"idle"}, op : {None}, text : {NoText}, domain : {None},
                first : {NoVer}, todo : {{}}, had : {{}}, ver : {NoVer}, id : {0},
                row : {NoRow}, snap : Conf]
  BY NoConfIs DEF Idle, NoRequest
<1> QED
  BY <1>1 DEF Formed

\* A text of the vault returns.
LEMMA CryptedReturns ==
  ASSUME NEW i \in Row, NEW text \in Text
  PROVE  /\ CheckBase64(Crypted[i][text])
         /\ Decrypted[i][Crypted[i][text]] = text
<1>1. text \in Seq(Byte) /\ Dek(i) \in Int
  BY VaultAssumption DEF VaultAssumption, Row, Dek
<1>2. Crypted[i][text] = EncodeBase64(Encrypt("cbc", Dek(i), Pkcs7Encode(text)))
  BY DEF Crypted
<1>3. Decrypted[i][Crypted[i][text]]
        = Pkcs7Decode(Decrypt("cbc", Dek(i), DecodeBase64(Crypted[i][text])))
  BY DEF Decrypted
<1> QED
  BY <1>1, <1>2, <1>3, TextsReturn

-----------------------------------------------------------------------------
(* Steps of one thread that leave the tables and the configuration alone.  *)

LEMMA LocalInv ==
  ASSUME VaultInv, NEW t \in Thread, NEW q, Becomes(t, q), UNCHANGED <<keys, table, conf>>,
         due' \in BOOLEAN, Formed(q, lastId), q.pc # "commit",
         \A i \in q.had : i \in thr[t].had \/ Stored(i),
         q.pc = "answer" =>
           Stored(q.id) /\ rows[q.id].domain = q.domain /\ rows[q.id].text = q.text,
         Sought(q)
  PROVE  VaultInv'
<1>1. /\ thr' = [u \in Thread |-> thr'[u]]
      /\ thr'[t] = q /\ \A u \in Thread : u # t => thr'[u] = thr[u]
  BY DEF VaultInv, Threads, Becomes
<1>2. /\ active' = active /\ vers' = vers /\ parts' = parts /\ rows' = rows
      /\ lastId' = lastId /\ conf' = conf
  BY DEF keys, table
<1>3. \A i : Stored(i)' = Stored(i)
  BY <1>2 DEF Stored
<1>4. Tables'
  BY <1>2, <1>3 DEF VaultInv, Tables
<1>5. Threads'
  BY <1>1, <1>2 DEF VaultInv, Threads
<1>6. ASSUME NEW s \in Thread, NEW u \in Thread PROVE Drawn(s, u)'
  <2>1. CASE s = t
    BY <1>1, <2>1 DEF Drawn, At
  <2>2. CASE s # t /\ u # t
    BY <1>1, <1>3, <2>2 DEF VaultInv, Drawn, At
  <2>3. CASE s # t /\ u = t
    BY <1>1, <1>3, <2>3 DEF VaultInv, Drawn, At
  <2> QED
    BY <2>1, <2>2, <2>3
<1>7. ASSUME NEW u \in Thread PROVE Answered(u)'
  BY <1>1, <1>2, <1>3 DEF VaultInv, Answered, At
<1>8. ASSUME NEW u \in Thread PROVE Sought(thr[u])'
  <2>1. CASE u = t
    BY <1>1, <1>2, <1>3, <2>1 DEF Sought, Findable
  <2>2. CASE u # t
    BY <1>1, <1>2, <1>3, <2>2 DEF VaultInv, Sought, Findable
  <2> QED
    BY <2>1, <2>2
<1> QED
  BY <1>4, <1>5, <1>6, <1>7, <1>8 DEF VaultInv

\* What holds of every thread.
LEMMA Of ==
  ASSUME VaultInv, NEW t \in Thread
  PROVE  /\ Tables /\ Formed(thr[t], lastId) /\ lastId \in Nat /\ conf \in Conf
         /\ Sought(thr[t]) /\ due \in BOOLEAN
BY VaultAssumption DEF VaultAssumption, VaultInv, Tables, Threads

LEMMA ToIdleInv ==
  ASSUME VaultInv, NEW t \in Thread, Becomes(t, Idle), UNCHANGED <<keys, table, conf>>,
         due' \in BOOLEAN
  PROVE  VaultInv'
<1>1. /\ Formed(Idle, lastId) /\ Idle.pc = "idle" /\ Idle.had = {}
  BY Of, IdleIs
<1> QED
  BY <1>1, LocalInv DEF Sought

LEMMA BeginInv ==
  ASSUME VaultInv, NEW t \in Thread, Begin(t)
  PROVE  VaultInv'
<1> DEFINE q == [Idle EXCEPT !.pc = IF due THEN "refresh" ELSE "ready"]
<1>1. q.pc \in {"refresh", "ready"} /\ q.had = {} /\ Formed(q, lastId)
  BY Of, IdleIs DEF Formed
<1>2. Becomes(t, q) /\ UNCHANGED <<keys, table, conf>> /\ due' \in BOOLEAN
  BY Of DEF Begin
<1> HIDE DEF q
<1> QED
  BY <1>1, <1>2, LocalInv DEF Sought

LEMMA RefreshInv ==
  ASSUME VaultInv, NEW t \in Thread, Refresh(t)
  PROVE  VaultInv'
<1> DEFINE q == [thr[t] EXCEPT !.pc = "swap", !.snap = Loaded]
<1>1. At(t, "refresh") /\ Formed(thr[t], lastId) /\ Loaded \in Conf /\ Sought(thr[t])
  BY Of, LoadedFrom DEF Refresh, Tables
<1>2. q.pc = "swap" /\ q.had = thr[t].had /\ Formed(q, lastId)
  BY <1>1 DEF Formed
<1>3. Becomes(t, q) /\ UNCHANGED <<keys, table, conf>> /\ due' \in BOOLEAN
  BY DEF Refresh
<1>4. \A i \in thr[t].had : ~Stored(i)
  BY <1>1 DEF Sought, At
<1> HIDE DEF q
<1> QED
  BY <1>2, <1>3, <1>4, LocalInv DEF Sought

LEMMA EndsInv ==
  ASSUME VaultInv, NEW t \in Thread,
         RefreshFails(t) \/ CheckKek(t) \/ Answer(t) \/ Fails(t)
  PROVE  VaultInv'
<1>1. Becomes(t, Idle) /\ UNCHANGED <<keys, table, conf>> /\ due' \in BOOLEAN
  BY Of DEF RefreshFails, CheckKek, Answer, Fails
<1> QED
  BY <1>1, ToIdleInv

LEMMA DetokenizeInv ==
  ASSUME VaultInv, NEW t \in Thread, NEW i \in Row, NEW domain \in Domain,
         Detokenize(t, i, domain)
  PROVE  VaultInv'
<1> DEFINE text == Decrypted[i][rows[i].data]
           q == [Idle EXCEPT !.pc = "answer", !.domain = domain, !.id = i, !.text = text]
<1>1. Stored(i) /\ rows[i].domain = domain /\ Tables
  BY Of DEF Detokenize, InDomain
<1>2. i <= lastId /\ RowOf(i, rows[i]) /\ lastId \in Nat /\ i \in Nat /\ i # 0
  BY <1>1, Of DEF Tables, Row
<1>3. text = rows[i].text /\ text \in Text
  BY <1>2, CryptedReturns DEF RowOf
<1> HIDE DEF text
<1>4. /\ q.pc = "answer" /\ q.had = {} /\ q.domain = domain /\ q.id = i /\ q.text = text
      /\ i \in 0 .. lastId
  BY <1>2, IdleIs
<1>5. Formed(q, lastId)
  BY <1>2, <1>3, <1>4, IdleIs DEF Formed
<1>6. Becomes(t, q) /\ UNCHANGED <<keys, table, conf>> /\ due' \in BOOLEAN
  BY Of DEF Detokenize, text
<1> HIDE DEF q
<1> QED
  BY <1>1, <1>3, <1>4, <1>5, <1>6, LocalInv DEF Sought

LEMMA StartTokenizeInv ==
  ASSUME VaultInv, NEW t \in Thread, NEW text \in Text, NEW domain \in Domain,
         StartTokenize(t, text, domain)
  PROVE  VaultInv'
<1> DEFINE q == [Idle EXCEPT !.pc = "new", !.op = "tokenize", !.text = text,
                             !.domain = domain]
<1>1. q.pc = "new" /\ q.had = {} /\ q.text = text /\ q.domain = domain
  BY Of, IdleIs
<1>2. Formed(q, lastId)
  BY <1>1, Of, IdleIs DEF Formed
<1>3. Becomes(t, q) /\ UNCHANGED <<keys, table, conf>> /\ due' \in BOOLEAN
  BY Of DEF StartTokenize
<1> HIDE DEF q
<1> QED
  BY <1>1, <1>2, <1>3, LocalInv DEF Sought

LEMMA StartSearchInv ==
  ASSUME VaultInv, NEW t \in Thread, NEW op \in {"tokenize", "search"},
         NEW text \in Text, NEW domain \in Domain, StartSearch(t, op, text, domain)
  PROVE  VaultInv'
<1> DEFINE had == {i \in Row : /\ op = "tokenize"
                               /\ rows[i].text = text
                               /\ rows[i].domain = domain
                               /\ Findable(i, conf)}
           first == conf.active
           todo == Versions
           q == [Idle EXCEPT !.pc = "search", !.op = op, !.text = text, !.domain = domain,
                             !.first = first, !.todo = todo, !.had = had]
<1>1. first \in Ver /\ todo \in SUBSET Ver /\ todo # {} /\ Tables /\ lastId \in Nat
  BY Of, ConfOf DEF Versions
<1>2. \A i \in had : /\ Stored(i) /\ rows[i].text = text /\ Findable(i, conf)
                     /\ i \in Row /\ i <= lastId
  BY <1>1 DEF Findable, Tables
<1>3. had \subseteq 1 .. lastId
  BY <1>1, <1>2 DEF Row
<1>4. ASSUME NEW i \in had PROVE rows[i].ver \in todo
  <2>1. rows[i].ver \in Ver /\ rows[i].digest # NoKey
    BY <1>1, <1>2, KeysOf DEF Tables, RowOf
  <2>2. conf.hmac[rows[i].ver] # NoKey
    BY <1>2, <2>1 DEF Findable
  <2> QED
    BY <2>1, <2>2 DEF Versions
<1>5. Becomes(t, q) /\ UNCHANGED <<keys, table, conf>> /\ due' \in BOOLEAN
  BY Of DEF StartSearch
<1> HIDE DEF had, first, todo
<1>6. /\ q.pc = "search" /\ q.had = had /\ q.text = text /\ q.domain = domain
      /\ q.todo = todo
  BY <1>1, IdleIs
<1>7. Formed(q, lastId)
  BY <1>1, <1>3, <1>6, IdleIs DEF Formed
<1> HIDE DEF q
<1> QED
  BY <1>2, <1>4, <1>5, <1>6, <1>7, LocalInv DEF Sought

\* A search tries one of the versions it has left.
LEMMA SearchIs ==
  ASSUME VaultInv, NEW t \in Thread, Searching(t)
  PROVE  /\ SearchVersion(t) \in thr[t].todo /\ SearchVersion(t) \in Ver
         /\ thr[t].todo \subseteq Ver
<1>1. thr[t].todo \in SUBSET Ver /\ thr[t].todo # {}
  BY Of DEF Searching, At, Formed
<1>2. thr[t].todo \in SUBSET Nat
  BY <1>1, VaultAssumption DEF VaultAssumption, Ver
<1>3. Least(thr[t].todo) \in thr[t].todo
  BY <1>1, <1>2, HasLeast DEF Least
<1> QED
  BY <1>1, <1>3 DEF SearchVersion

LEMMA FoundInv ==
  ASSUME VaultInv, NEW t \in Thread, Found(t)
  PROVE  VaultInv'
<1> DEFINE i == Least(Matches(t))
           q == [Idle EXCEPT !.pc = "answer", !.text = thr[t].text,
                             !.domain = thr[t].domain, !.id = i]
<1>1. Matches(t) \in SUBSET Nat /\ Matches(t) # {}
  BY DEF Found, Matches, Row
<1>2. i \in Matches(t)
  BY <1>1, HasLeast DEF Least
<1>3. /\ i \in Row /\ rows[i].text = thr[t].text
      /\ Stored(i) /\ rows[i].domain = thr[t].domain
  BY <1>2 DEF Found, InDomain, Matches
<1>4. Becomes(t, q) /\ UNCHANGED <<keys, table, conf>> /\ due' \in BOOLEAN
  BY Of DEF Found
<1> HIDE DEF i
<1>5. i \in 0 .. lastId /\ i # 0 /\ lastId \in Nat
  BY <1>3, Of DEF Tables, Row
<1>6. thr[t].text \in Text /\ thr[t].domain \in Domain
  BY Of DEF Found, Searching, At, Formed
<1>7. /\ q.pc = "answer" /\ q.had = {} /\ q.id = i /\ q.text = thr[t].text
      /\ q.domain = thr[t].domain
  BY <1>5, IdleIs
<1>8. Formed(q, lastId)
  BY <1>5, <1>6, <1>7, IdleIs DEF Formed
<1> HIDE DEF q
<1> QED
  BY <1>3, <1>4, <1>7, <1>8, LocalInv DEF Sought

\* The end of a search, with what it did not find.
LEMMA EndsFormed ==
  ASSUME VaultInv, NEW t \in Thread, Searching(t), NEW had \in SUBSET thr[t].had
  PROVE  /\ Formed(Ends(t, had), lastId) /\ Ends(t, had).pc \in {"idle", "new"}
         /\ Ends(t, had).had \subseteq had
<1>1. At(t, "search") /\ Formed(thr[t], lastId) /\ lastId \in Nat
  BY Of DEF Searching
<1>2. CASE thr[t].op = "tokenize"
  <2> DEFINE q == [thr[t] EXCEPT !.pc = "new", !.first = NoVer, !.todo = {}, !.had = had]
  <2>1. Ends(t, had) = q
    BY <1>2 DEF Ends
  <2>2. /\ q.pc = "new" /\ q.had = had /\ q.text = thr[t].text
        /\ q.domain = thr[t].domain
    BY <1>1 DEF Formed
  <2>3. Formed(q, lastId)
    BY <1>1, <2>2 DEF Formed, At
  <2> HIDE DEF q
  <2> QED
    BY <2>1, <2>2, <2>3
<1>3. CASE thr[t].op # "tokenize"
  <2>1. Ends(t, had) = Idle
    BY <1>3 DEF Ends
  <2> QED
    BY <1>1, <2>1, IdleIs
<1> QED
  BY <1>2, <1>3

LEMMA FoundElsewhereInv ==
  ASSUME VaultInv, NEW t \in Thread, FoundElsewhere(t)
  PROVE  VaultInv'
<1> DEFINE q == Ends(t, {})
<1>1. Formed(q, lastId) /\ q.pc \in {"idle", "new"} /\ q.had = {}
  BY EndsFormed DEF FoundElsewhere
<1>2. Becomes(t, q) /\ UNCHANGED <<keys, table, conf>> /\ due' \in BOOLEAN
  BY Of DEF FoundElsewhere
<1> HIDE DEF q
<1> QED
  BY <1>1, <1>2, LocalInv DEF Sought

LEMMA NotFoundInv ==
  ASSUME VaultInv, NEW t \in Thread, NotFound(t)
  PROVE  VaultInv'
<1> DEFINE v == SearchVersion(t)
           left == thr[t].todo \ {v}
<1>1. /\ Searching(t) /\ At(t, "search") /\ Formed(thr[t], lastId) /\ Sought(thr[t])
      /\ Tables /\ lastId \in Nat /\ Matches(t) = {}
  BY Of DEF NotFound, Searching
<1>2. /\ UNCHANGED <<keys, table, conf>> /\ due' \in BOOLEAN
      /\ Becomes(t, IF left = {} THEN Ends(t, thr[t].had) ELSE [thr[t] EXCEPT !.todo = left])
  BY Of DEF NotFound
<1>3. ASSUME NEW i \in thr[t].had, Stored(i)
      PROVE  /\ rows[i].text = thr[t].text /\ Findable(i, conf)
             /\ rows[i].ver \in left
  <2>1. rows[i].text = thr[t].text /\ Findable(i, conf) /\ rows[i].ver \in thr[t].todo
    BY <1>1, <1>3 DEF Sought
  <2>2. i \in Row
    <3>1. i \in 1 .. lastId /\ lastId \in 0 .. MaxRow
      BY <1>1 DEF Formed, Tables
    <3> QED
      BY <3>1, VaultAssumption DEF Row, VaultAssumption
  <2>3. rows[i].ver # v
    BY <1>1, <2>1, <2>2 DEF Matches, SearchKey, Findable
  <2> QED
    BY <2>1, <2>3
<1>4. left \subseteq Ver
  BY <1>1, SearchIs
<1>5. CASE left = {}
  <2> DEFINE q == Ends(t, thr[t].had)
  <2>1. /\ Formed(q, lastId) /\ q.pc \in {"idle", "new"} /\ q.had \subseteq thr[t].had
    BY <1>1, EndsFormed
  <2>2. \A i \in q.had : ~Stored(i)
    BY <1>3, <1>5, <2>1
  <2>3. Becomes(t, q)
    BY <1>2, <1>5
  <2> HIDE DEF q
  <2> QED
    BY <1>2, <2>1, <2>2, <2>3, LocalInv DEF Sought
<1>6. CASE left # {}
  <2> DEFINE q == [thr[t] EXCEPT !.todo = left]
  <2>1. Becomes(t, q)
    BY <1>2, <1>6
  <2> HIDE DEF left
  <2>2. /\ q.pc = "search" /\ q.had = thr[t].had /\ q.text = thr[t].text
        /\ q.domain = thr[t].domain /\ q.todo = left
    BY <1>1 DEF Formed, At
  <2>3. Formed(q, lastId)
    BY <1>1, <1>4, <1>6, <2>2 DEF Formed, At
  <2>4. Sought(q)
    BY <1>3, <2>2 DEF Sought
  <2> HIDE DEF q
  <2> QED
    BY <1>2, <2>1, <2>2, <2>3, <2>4, LocalInv
<1> QED
  BY <1>5, <1>6

LEMMA VersionInv ==
  ASSUME VaultInv, NEW t \in Thread, Version(t)
  PROVE  VaultInv'
<1> DEFINE v == conf.active
           q == [thr[t] EXCEPT !.pc = "insert", !.ver = v]
<1>1. At(t, "new") /\ Formed(thr[t], lastId) /\ Sought(thr[t]) /\ v \in Ver
  BY Of, ConfOf DEF Version
<1>2. Becomes(t, q) /\ UNCHANGED <<keys, table, conf>> /\ due' \in BOOLEAN
  BY Of DEF Version
<1> HIDE DEF v
<1>3. /\ q.pc = "insert" /\ q.had = thr[t].had /\ q.text = thr[t].text
      /\ q.domain = thr[t].domain /\ q.ver = v
  BY <1>1 DEF Formed
<1>4. Formed(q, lastId)
  BY <1>1, <1>3 DEF Formed, At
<1>5. Sought(q)
  BY <1>1, <1>3 DEF Sought, At
<1> HIDE DEF q
<1> QED
  BY <1>2, <1>3, <1>4, <1>5, LocalInv

-----------------------------------------------------------------------------
(* Steps that change the tables or the configuration.                      *)

\* A new id is drawn, which no thread and no row has yet.
LEMMA InsertInv ==
  ASSUME VaultInv, NEW t \in Thread, Insert(t)
  PROVE  VaultInv'
<1> DEFINE n == lastId + 1
           r == thr[t]
           hashed == Len(r.text) >= MinHashed
           digest == IF hashed THEN KeyOf(r.ver) ELSE Random
           row == [text |-> r.text, domain |-> r.domain, ver |-> r.ver,
                   digest |-> digest, data |-> Crypted[n][r.text]]
           q == [r EXCEPT !.pc = "commit", !.id = n, !.ver = NoVer, !.row = row]
<1>1. /\ At(t, "insert") /\ Formed(thr[t], lastId) /\ Tables /\ Sought(thr[t])
      /\ lastId \in Nat /\ MaxRow \in Nat /\ lastId < MaxRow
  BY Of, VaultAssumption DEF VaultAssumption, Insert
<1>2. r.text \in Text /\ r.domain \in Domain /\ r.ver \in Ver
  BY <1>1 DEF Formed, At
<1>3. digest \in {Random, Genuine(r.ver), Garbage(r.ver)}
  BY <1>2, Of, ConfOf DEF Insert, KeyOf
<1>4. /\ thr' = [thr EXCEPT ![t] = q] /\ lastId' = n /\ active' = active /\ vers' = vers
      /\ parts' = parts /\ rows' = rows /\ conf' = conf /\ due' = due
  BY DEF Insert, Becomes, keys
<1>5. n \in Nat /\ n \in Row /\ n # 0 /\ n \notin 0 .. lastId /\ n \in 0 .. MaxRow
      /\ lastId < n
  BY <1>1 DEF Row
<1>6. ~Stored(n)
  BY <1>1, <1>5 DEF Tables
<1> HIDE DEF n, digest
<1>7. RowOf(n, row) /\ row # NoRow
  <2>1. row.text # NoText
    BY <1>2, VaultAssumption DEF VaultAssumption
  <2>2. NoRow.text = NoText
    BY DEF NoRow
  <2> QED
    BY <1>2, <1>3, <2>1, <2>2 DEF RowOf
<1> HIDE DEF row
<1>8. /\ q.pc = "commit" /\ q.id = n /\ q.row = row /\ q.had = r.had
      /\ q \in [pc : {"commit"}, op : {"tokenize", "search", None}, text : Text \cup {NoText},
                domain : Domain \cup {None}, first : Ver \cup {NoVer}, todo : SUBSET Ver,
                had : SUBSET (1 .. lastId), ver : {NoVer}, id : {n}, row : {row},
                snap : Conf]
  BY <1>1 DEF Formed
<1> HIDE DEF q
<1>9. 1 .. lastId \subseteq 1 .. n /\ 0 .. lastId \subseteq 0 .. n
  BY <1>1, <1>5
<1>10. Formed(q, n)
  BY <1>5, <1>7, <1>8, <1>9 DEF Formed
<1>11. /\ thr' = [u \in Thread |-> thr'[u]] /\ thr'[t] = q
       /\ \A u \in Thread : u # t => thr'[u] = thr[u]
  BY <1>4 DEF VaultInv, Threads
<1>12. \A i : Stored(i)' = Stored(i)
  BY <1>4 DEF Stored
<1>13. Tables'
  <2>1. \A i \in Row : Stored(i) => i <= n /\ RowOf(i, rows[i])
    BY <1>1, <1>5 DEF Tables, Row
  <2> QED
    BY <1>1, <1>4, <1>5, <1>12, <2>1 DEF Tables
<1>14. Threads'
  <2>1. ASSUME NEW u \in Thread, u # t PROVE Formed(thr[u], n)
    <3>1. Formed(thr[u], lastId)
      BY Of
    <3> QED
      BY <1>9, <3>1 DEF Formed
  <2> QED
    BY <1>4, <1>10, <1>11, <2>1 DEF Threads
<1>15. ASSUME NEW u \in Thread PROVE n \notin thr[u].had /\ thr[u].id # n
  <2>1. Formed(thr[u], lastId)
    BY Of
  <2>2. thr[u].had \subseteq 1 .. lastId /\ thr[u].id \in 0 .. lastId
    BY <2>1 DEF Formed
  <2> QED
    BY <1>5, <1>9, <1>1, <2>2
<1>16. ASSUME NEW s \in Thread, NEW u \in Thread PROVE Drawn(s, u)'
  <2>1. CASE s = t
    BY <1>6, <1>8, <1>11, <1>12, <1>15, <2>1 DEF Drawn, At
  <2>2. CASE s # t /\ u # t
    BY <1>11, <1>12, <2>2 DEF VaultInv, Drawn, At
  <2>3. CASE s # t /\ u = t
    BY <1>8, <1>11, <1>12, <1>15, <2>3 DEF VaultInv, Drawn, At
  <2> QED
    BY <2>1, <2>2, <2>3
<1>17. ASSUME NEW u \in Thread PROVE Answered(u)'
  BY <1>4, <1>8, <1>11, <1>12 DEF VaultInv, Answered, At
<1>18. ASSUME NEW u \in Thread PROVE Sought(thr[u])'
  <2>1. CASE u = t
    BY <1>1, <1>4, <1>8, <1>11, <1>12, <2>1 DEF Sought, Findable, At
  <2>2. CASE u # t
    BY <1>4, <1>11, <1>12, <2>2 DEF VaultInv, Sought, Findable
  <2> QED
    BY <2>1, <2>2
<1> QED
  BY <1>13, <1>14, <1>16, <1>17, <1>18 DEF VaultInv


LEMMA CommitInv ==
  ASSUME VaultInv, NEW t \in Thread, Commit(t)
  PROVE  VaultInv'
<1> DEFINE n == thr[t].id
           row == thr[t].row
<1>1. At(t, "commit") /\ Formed(thr[t], lastId) /\ Tables /\ lastId \in Nat
  BY Of DEF Commit
<1>2. n \in Row /\ n <= lastId /\ row # NoRow /\ RowOf(n, row)
  <2>1. n \in 0 .. lastId /\ n # 0 /\ lastId \in 0 .. MaxRow
    BY <1>1 DEF Formed, At, Tables
  <2> QED
    BY <1>1, <2>1, VaultAssumption DEF VaultAssumption, Row, Formed, At
<1>3. /\ rows' = [rows EXCEPT ![n] = row] /\ thr' = [thr EXCEPT ![t] = Idle]
      /\ lastId' = lastId /\ active' = active /\ vers' = vers /\ parts' = parts
      /\ conf' = conf /\ due' = due
  BY DEF Commit, Becomes, keys
<1>4. \A u \in Thread : Drawn(t, u)
  BY DEF VaultInv
<1>5. ~Stored(n) /\ \A u \in Thread : n \notin thr[u].had
  BY <1>1, <1>4 DEF Drawn
<1>6. \A u \in Thread : u # t /\ thr[u].pc \in {"commit", "answer"} => thr[u].id # n
  BY <1>1, <1>4 DEF Drawn
<1> HIDE DEF n, row
<1>7. rows'[n] = row /\ \A i : i # n => rows'[i] = rows[i]
  BY <1>1, <1>2, <1>3 DEF Tables
<1>8. \A i : i # n => Stored(i)' = Stored(i)
  BY <1>7 DEF Stored
<1>9. /\ thr' = [u \in Thread |-> thr'[u]] /\ thr'[t] = Idle
      /\ \A u \in Thread : u # t => thr'[u] = thr[u]
  BY <1>3 DEF VaultInv, Threads
<1>10. Formed(Idle, lastId) /\ Idle.pc = "idle" /\ Idle.had = {}
  BY <1>1, IdleIs
<1>11. Tables'
  <2>1. ASSUME NEW i \in Row, Stored(i)'
        PROVE  i <= lastId /\ RowOf(i, rows'[i])
    BY <1>1, <1>2, <1>7, <1>8, <2>1 DEF Tables
  <2>2. rows' = [i \in Row |-> rows'[i]]
    BY <1>1, <1>3 DEF Tables
  <2> QED
    BY <1>1, <1>3, <2>1, <2>2 DEF Tables
<1>12. Threads'
  BY <1>3, <1>9, <1>10, Of DEF Threads
<1>13. ASSUME NEW s \in Thread, NEW u \in Thread PROVE Drawn(s, u)'
  <2>1. CASE s = t
    BY <1>9, <1>10, <2>1 DEF Drawn, At
  <2>2. CASE s # t /\ thr[s].pc = "commit"
    <3>1. thr[s].id # n /\ Drawn(s, u)
      BY <1>6, <2>2 DEF VaultInv
    <3>2. CASE u = t
      BY <1>8, <1>9, <1>10, <2>2, <3>1, <3>2 DEF Drawn, At
    <3>3. CASE u # t
      BY <1>8, <1>9, <2>2, <3>1, <3>3 DEF Drawn, At
    <3> QED
      BY <3>2, <3>3
  <2>3. CASE s # t /\ thr[s].pc # "commit"
    BY <1>9, <2>3 DEF Drawn, At
  <2> QED
    BY <2>1, <2>2, <2>3
<1>14. ASSUME NEW u \in Thread PROVE Answered(u)'
  <2>1. CASE u # t /\ thr[u].pc = "answer"
    BY <1>6, <1>7, <1>8, <1>9, <2>1 DEF VaultInv, Answered, At
  <2>2. CASE u = t \/ thr[u].pc # "answer"
    BY <1>9, <1>10, <2>2 DEF Answered, At
  <2> QED
    BY <2>1, <2>2
<1>15. ASSUME NEW u \in Thread PROVE Sought(thr[u])'
  <2>1. CASE u = t
    BY <1>9, <1>10, <2>1 DEF Sought
  <2>2. CASE u # t
    <3>1. \A i \in thr[u].had : i # n
      BY <1>5
    <3> QED
      BY <1>3, <1>7, <1>8, <1>9, <2>2, <3>1 DEF VaultInv, Sought, Findable
  <2> QED
    BY <2>1, <2>2
<1> QED
  BY <1>11, <1>12, <1>13, <1>14, <1>15 DEF VaultInv

LEMMA RemoveTokenInv ==
  ASSUME VaultInv, NEW i \in Row, NEW domain \in Domain, RemoveToken(i, domain)
  PROVE  VaultInv'
<1>1. /\ rows' = [rows EXCEPT ![i] = NoRow] /\ thr' = thr /\ lastId' = lastId
      /\ active' = active /\ vers' = vers /\ parts' = parts
      /\ conf' = conf /\ due' = due
  BY DEF RemoveToken, keys
<1>2. /\ rows' = [j \in Row |-> rows'[j]] /\ rows'[i] = NoRow
      /\ \A j : j # i => rows'[j] = rows[j]
  BY <1>1 DEF VaultInv, Tables
<1>3. \A j : Stored(j)' => Stored(j) /\ rows'[j] = rows[j]
  BY <1>2 DEF Stored
<1>4. Tables'
  BY <1>1, <1>2, <1>3 DEF VaultInv, Tables
<1>5. Threads'
  BY <1>1 DEF VaultInv, Threads
<1>6. \A s, u \in Thread : Drawn(s, u)'
  BY <1>1, <1>3 DEF VaultInv, Drawn, At
<1>7. \A u \in Thread : Answered(u)'
  BY <1>1, <1>3 DEF VaultInv, Answered, At
<1>8. \A u \in Thread : Sought(thr[u])'
  BY <1>1, <1>3 DEF VaultInv, Sought, Findable
<1> QED
  BY <1>4, <1>5, <1>6, <1>7, <1>8 DEF VaultInv

\* The rows that the new configuration cannot find are given up in all searches.
LEMMA SwapInv ==
  ASSUME VaultInv, NEW t \in Thread, Swap(t)
  PROVE  VaultInv'
<1> DEFINE c == thr[t].snap
           q == [Idle EXCEPT !.pc = "ready"]
           Kept(u) == [thr[u] EXCEPT !.had = {i \in @ : Findable(i, c)}]
<1>1. Formed(thr[t], lastId) /\ Tables /\ lastId \in Nat /\ c \in Conf /\ due' \in BOOLEAN
  BY Of, ConfOf DEF Swap, Formed
<1>2. /\ conf' = c /\ thr' = [u \in Thread |-> IF u = t THEN q ELSE Kept(u)]
      /\ rows' = rows /\ lastId' = lastId /\ active' = active /\ vers' = vers
      /\ parts' = parts
  BY DEF Swap, Put, keys, table
<1>3. Formed(q, lastId) /\ q.pc = "ready" /\ q.had = {}
  BY <1>1, IdleIs DEF Formed
<1> HIDE DEF c, q
<1>4. ASSUME NEW u \in Thread
      PROVE  /\ Formed(Kept(u), lastId) /\ Kept(u).pc = thr[u].pc /\ Kept(u).id = thr[u].id
             /\ Kept(u).text = thr[u].text /\ Kept(u).domain = thr[u].domain
             /\ Kept(u).todo = thr[u].todo
             /\ Kept(u).had = {i \in thr[u].had : Findable(i, c)}
  <2> DEFINE had == {i \in thr[u].had : Findable(i, c)}
             k == [thr[u] EXCEPT !.had = had]
  <2>1. Formed(thr[u], lastId)
    BY Of
  <2>2. had \subseteq thr[u].had
    OBVIOUS
  <2>3. Kept(u) = k
    OBVIOUS
  <2> HIDE DEF had
  <2>4. /\ k.pc = thr[u].pc /\ k.id = thr[u].id /\ k.text = thr[u].text
        /\ k.domain = thr[u].domain /\ k.todo = thr[u].todo /\ k.had = had
        /\ k.ver = thr[u].ver /\ k.row = thr[u].row
    BY <2>1 DEF Formed
  <2>5. Formed(k, lastId)
    BY <2>1, <2>2, <2>4 DEF Formed
  <2> QED
    BY <2>3, <2>4, <2>5 DEF had
<1>5. /\ thr' = [u \in Thread |-> thr'[u]] /\ thr'[t] = q
      /\ \A u \in Thread : u # t => thr'[u] = Kept(u)
  BY <1>2
<1> HIDE DEF Kept
<1>6. \A i : Stored(i)' = Stored(i)
  BY <1>2 DEF Stored
<1>7. Tables'
  BY <1>1, <1>2, <1>6 DEF Tables
<1>8. Threads'
  BY <1>2, <1>3, <1>4, <1>5 DEF Threads
<1>9. ASSUME NEW s \in Thread, NEW u \in Thread PROVE Drawn(s, u)'
  <2>1. CASE s = t
    BY <1>3, <1>5, <2>1 DEF Drawn, At
  <2>2. CASE s # t /\ u # t
    BY <1>4, <1>5, <1>6, <2>2 DEF VaultInv, Drawn, At
  <2>3. CASE s # t /\ u = t
    BY <1>3, <1>4, <1>5, <1>6, <2>3 DEF VaultInv, Drawn, At
  <2> QED
    BY <2>1, <2>2, <2>3
<1>10. ASSUME NEW u \in Thread PROVE Answered(u)'
  BY <1>2, <1>3, <1>4, <1>5, <1>6 DEF VaultInv, Answered, At
<1>11. ASSUME NEW u \in Thread PROVE Sought(thr[u])'
  <2>1. CASE u = t
    BY <1>3, <1>5, <2>1 DEF Sought
  <2>2. CASE u # t
    BY <1>2, <1>4, <1>5, <1>6, <2>2 DEF VaultInv, Sought, Findable
  <2> QED
    BY <2>1, <2>2
<1> QED
  BY <1>7, <1>8, <1>9, <1>10, <1>11 DEF VaultInv

\* The clock, officers and outages change what the next load finds, and nothing else.
LEMMA OthersInv ==
  ASSUME VaultInv,
         Due \/ NewVersion \/ (\E v \in Ver : Cleanup(v)) \/ (\E p \in Parts : PartsChange(p))
  PROVE  VaultInv'
<1>1. rows' = rows /\ lastId' = lastId /\ conf' = conf /\ thr' = thr /\ due' \in BOOLEAN
  BY DEF VaultInv, Tables, Due, NewVersion, Cleanup, PartsChange, keys, table
<1>2. active' \in vers' /\ vers' \subseteq Ver /\ parts' \in Parts
  BY DEF VaultInv, Tables, Due, NewVersion, Cleanup, PartsChange, keys
<1>3. Tables'
  BY <1>1, <1>2 DEF VaultInv, Tables, Stored
<1>4. Threads'
  BY <1>1 DEF VaultInv, Threads
<1>5. \A s, u \in Thread : Drawn(s, u)'
  BY <1>1 DEF VaultInv, Drawn, At, Stored
<1>6. \A u \in Thread : Answered(u)'
  BY <1>1 DEF VaultInv, Answered, At, Stored
<1>7. \A u \in Thread : Sought(thr[u])'
  BY <1>1 DEF VaultInv, Sought, Findable, Stored
<1> QED
  BY <1>3, <1>4, <1>5, <1>6, <1>7 DEF VaultInv

-----------------------------------------------------------------------------

LEMMA InitInv == Init => VaultInv
<1> SUFFICES ASSUME Init PROVE VaultInv
  OBVIOUS
<1>1. MaxVersion \in Nat /\ MaxRow \in Nat /\ AllRight \in Parts
  BY VaultAssumption DEF VaultAssumption
<1>2. \A i \in Row : ~Stored(i)
  BY DEF Init, Stored
<1>3. /\ active \in vers /\ vers \subseteq Ver /\ parts \in Parts
      /\ lastId \in 0 .. MaxRow /\ lastId = 0
      /\ rows = [i \in Row |-> rows[i]] /\ due \in BOOLEAN
  <2>1. rows = [i \in Row |-> rows[i]]
    BY DEF Init
  <2>2. 0 \in Ver
    BY <1>1 DEF Ver
  <2>3. /\ active \in vers /\ vers \subseteq Ver
        /\ lastId = 0 /\ due \in BOOLEAN
    BY <2>2 DEF Init
  <2>4. parts \in Parts
    BY <1>1 DEF Init
  <2> QED
    BY <1>1, <2>1, <2>3, <2>4
<1>4. conf \in Conf
  BY <1>3, LoadedFrom DEF Init
<1>5. Tables
  BY <1>2, <1>3, <1>4 DEF Tables
<1>6. thr = [t \in Thread |-> thr[t]] /\ \A t \in Thread : thr[t] = Idle
  BY DEF Init
<1>7. Formed(Idle, lastId) /\ Idle.pc = "idle" /\ Idle.had = {}
  BY <1>3, IdleIs
<1>8. Threads
  BY <1>6, <1>7 DEF Threads
<1> QED
  BY <1>5, <1>6, <1>7, <1>8 DEF VaultInv, Drawn, Answered, Sought, At

LEMMA NextInv == VaultInv /\ [Next]_vars => VaultInv'
<1> SUFFICES ASSUME VaultInv, [Next]_vars PROVE VaultInv'
  OBVIOUS
<1>1. CASE UNCHANGED vars
  BY <1>1 DEF vars, keys, table, VaultInv, Tables, Threads, Drawn, Answered, Sought, Findable,
              At, Stored
<1>2. ASSUME NEW t \in Thread, Proceeds(t) PROVE VaultInv'
  BY <1>2, SwapInv, EndsInv, DetokenizeInv, StartSearchInv, StartTokenizeInv, FoundInv,
     FoundElsewhereInv, NotFoundInv, VersionInv, InsertInv, CommitInv DEF Proceeds
<1>3. CASE Next
  BY <1>2, <1>3, BeginInv, RefreshInv, EndsInv, RemoveTokenInv, OthersInv DEF Next
<1> QED
  BY <1>1, <1>3

\* At every moment a token is one text of one domain, whatever threads know of it, and
\* a search has before it what it could have found all the time.
THEOREM InvariantHolds == Spec => []VaultInv
BY InitInv, NextInv, PTL DEF Spec

\* The state stays well typed: a row's digest is made with the key of the version it
\* names, or at random, though the configuration changes between the two reads.
THEOREM TypeCorrect == Spec => []TypeOK
<1>1. VaultInv => TypeOK
  <2> SUFFICES ASSUME VaultInv PROVE TypeOK
    OBVIOUS
  <2>1. Tables /\ \A t \in Thread : Formed(thr[t], lastId)
    BY DEF VaultInv, Threads
  <2>2. ASSUME NEW i \in Row, Stored(i)
        PROVE  /\ i <= lastId
               /\ rows[i].text \in Text /\ rows[i].domain \in Domain /\ rows[i].ver \in Ver
               /\ rows[i].digest \in {Random, Genuine(rows[i].ver), Garbage(rows[i].ver)}
               /\ CheckBase64(rows[i].data)
    BY <2>1, <2>2, CryptedReturns DEF Tables, RowOf
  <2>3. ASSUME NEW t \in Thread
        PROVE  /\ thr[t].pc \in {"idle", "refresh", "swap", "ready", "search", "new",
                                 "insert", "commit", "answer"}
               /\ thr[t].id \in 0 .. lastId /\ thr[t].had \subseteq 1 .. lastId
               /\ thr[t].snap \in Conf
    BY <2>1 DEF Formed
  <2> QED
    BY <2>1, <2>2, <2>3 DEF TypeOK, Tables
<1> QED
  BY InvariantHolds, <1>1, PTL

\* A domain is answered its own tokens and the texts it stored, of any length, though
\* tokens go while they are looked for.
THEOREM OwnDomainAnswered == Spec => []AnswersOwnDomain
<1>1. VaultInv => AnswersOwnDomain
  BY DEF VaultInv, Answered, AnswersOwnDomain
<1> QED
  BY InvariantHolds, <1>1, PTL

\* Dedup misses no row of the domain that it could have found all the time, however
\* often the configuration is replaced.
THEOREM DedupFinds == Spec => []FoundAgainInDomain
<1>1. VaultInv => FoundAgainInDomain
  BY DEF VaultInv, Sought, FoundAgainInDomain, At
<1> QED
  BY InvariantHolds, <1>1, PTL

=============================================================================
