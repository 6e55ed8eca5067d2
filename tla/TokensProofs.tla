---------------------------- MODULE TokensProofs ----------------------------
(***************************************************************************)
(* Proofs about Tokens, for any numbers of nodes, requests, HmacProc       *)
(* processes, rows, versions and keys.                                     *)
(*                                                                         *)
(* The argument.  A version under which a card can be found has the same   *)
(* key in the database and in every cached configuration, up to date or    *)
(* not: officers switch to a version when all nodes have it, purge it when *)
(* no row is under it and none can come, and its number is used again only *)
(* afterwards.  So a search that begins has every such version before it,  *)
(* and tries each with the key the digest was made with, whatever is       *)
(* reloaded meanwhile.                                                     *)
(***************************************************************************)
EXTENDS Tokens, TLAPS, WellFoundedInduction

\* The key of v is the same in the database and on every node.
Known(v) == v \in Ver /\ keys[v] # NoKey /\ KnownEverywhere(v)

\* The digest was computed from the text.
Findable(row) == row.digest # Other
\* Its key is known, and no cleanup is about to take it away.
Lasting(row) ==
  Findable(row) => Known(row.ver) /\ row.digest = keys[row.ver] /\ row.ver \notin purge

\* Active versions, also those of configurations that are not up to date.
ActivesKnown ==
  /\ Known(active) /\ active \notin purge
  /\ \A h \in Host : Known(conf[h].active) /\ conf[h].active \notin purge

\* Rows, and rows about to be committed.
RowsLasting ==
  /\ \A i \in Row : Lasting(rows[i])
  /\ \A r \in Request : Lasting(req[r].row)

\* An id is drawn once.
IdsDrawn ==
  /\ \A i \in Row : i > lastId => rows[i] = NoRow
  /\ \A r \in Request : \A i \in req[r].had : i <= lastId
  /\ \A r \in Request : req[r].pc = "commit" =>
        /\ req[r].id \in Row /\ req[r].id <= lastId /\ rows[req[r].id] = NoRow
        /\ \A q \in Request : /\ req[r].id \notin req[q].had
                              /\ q # r /\ req[q].pc = "commit" => req[q].id # req[r].id

\* What a request that is at work is about.
RequestForm ==
  \A r \in Request :
     /\ req[r].pc # "idle" => req[r].host \in Host /\ req[r].text \in Text
     /\ Findable(req[r].row) => req[r].pc = "commit"
     /\ \A i \in req[r].had : Stored(i) => rows[i].text = req[r].text

\* A search has still to try the versions under which the card can be found, and
\* ends when there is none left.
Searching ==
  \A r \in Request : req[r].text \in Pan =>
     \A i \in req[r].had : Findable(rows[i]) =>
        req[r].pc = "search" /\ rows[i].ver \in req[r].todo

\* An HmacProc at work has a version to write.
ProcForm == \A p \in Proc : proc[p].pc = "convert" => proc[p].ver \in Ver

\* The inductive invariant.
TokensInv ==
  /\ TypeOK
  /\ ProcForm
  /\ ActivesKnown
  /\ RowsLasting
  /\ IdsDrawn
  /\ RequestForm
  /\ Searching

-----------------------------------------------------------------------------

\* The types of TypeOK.
Keyrings == [Ver -> KeyOrNone]
Stores == [text : Text, ver : Ver, digest : Key \cup {Other}]
Rows == Stores \cup {NoRow}
Confs == [active : Ver, keys : Keyrings]
Requests == [pc : {"idle", "search", "insert", "commit"},
             host : Host \cup {None}, text : Text \cup {None},
             first : Ver \cup {NoVer}, todo : SUBSET Ver, id : Row \cup {0},
             row : Rows, had : SUBSET Row]
Works == [pc : {"idle", "batch", "convert", "check"},
          target0 : Ver \cup {NoVer}, todo : SUBSET Row,
          batch : Row \cup {0}, ver : Ver \cup {NoVer}]

\* TypeOK in terms of the named types.
LEMMA Types ==
  TypeOK <=> /\ active \in Ver
             /\ keys \in Keyrings
             /\ rows \in [Row -> Rows]
             /\ lastId \in 0 .. MaxRow
             /\ drawn \in Key
             /\ purge \subseteq Ver \ {active}
             /\ conf \in [Host -> Confs]
             /\ req \in [Request -> Requests]
             /\ proc \in [Proc -> Works]
BY DEF TypeOK, Keyrings, Stores, Rows, Confs, Requests, Works

\* The null values and where they belong.
LEMMA Constants ==
  /\ MaxRow \in Nat /\ MaxVersion \in Nat /\ MaxKey \in Nat
  /\ 0 \in Ver /\ 1 \in Key /\ NoKey \notin Key /\ Other \notin Key
  /\ None \notin Text /\ None \notin Host
  /\ NoRow \in Rows /\ NoRequest \in Requests /\ NoWork \in Works
BY TokensAssumption
   DEF TokensAssumption, Ver, Key, NoKey, Other, NoRow, Rows, NoRequest, Requests, NoWork, Works

\* A set of naturals with a bound has a greatest element.
LEMMA HasMax ==
  ASSUME NEW N \in Nat, NEW S \in SUBSET (0 .. N), S # {}
  PROVE  \E m \in S : \A v \in S : v <= m
<1> DEFINE T == {n \in Nat : N - n \in S}
           R == OpToRel(<, Nat)
<1>1. IsWellFoundedOn(R, Nat)
  BY NatLessThanWellFounded
<1>2. \A x, y \in Nat : x < y => <<x, y>> \in R
  BY DEF OpToRel
<1>3. T # {}
  <2>1. PICK v \in S : TRUE
    OBVIOUS
  <2>2. N - v \in Nat /\ N - (N - v) = v
    OBVIOUS
  <2> QED
    BY <2>1, <2>2
<1> HIDE DEF R
<1>4. PICK n \in T : \A k \in T : <<k, n>> \notin R
  BY <1>1, <1>3, WFMin
<1>5. \A v \in S : v <= N - n
  <2> SUFFICES ASSUME NEW v \in S, ~(v <= N - n) PROVE FALSE
    OBVIOUS
  <2>1. N - v \in T /\ N - v < n
    OBVIOUS
  <2> QED
    BY <1>2, <1>4, <2>1
<1> QED
  BY <1>5

\* generate_hmac takes a version that has no key.
LEMMA LastVersionIsLast ==
  ASSUME TypeOK, Known(active)
  PROVE  /\ LastVersion \in Ver /\ keys[LastVersion] # NoKey
         /\ LastVersion + 1 \in Ver => keys[LastVersion + 1] = NoKey
<1>1. Versions \in SUBSET (0 .. MaxVersion) /\ active \in Versions
  BY DEF TypeOK, Known, Versions, Ver
<1>2. PICK m \in Versions : \A v \in Versions : v <= m
  BY <1>1, HasMax, Constants
<1>3. LastVersion \in Versions /\ \A v \in Versions : v <= LastVersion
  BY <1>2 DEF LastVersion
<1>4. LastVersion + 1 \notin Versions
  BY <1>1, <1>3
<1> QED
  BY <1>3, <1>4 DEF Versions

\* The bootstrap: one key, known everywhere, no rows.
LEMMA InitInv == Init => TokensInv
<1> SUFFICES ASSUME Init PROVE TokensInv
  OBVIOUS
<1>1. keys \in Keyrings /\ conf \in [Host -> Confs]
  BY Constants DEF Init, Keyrings, Confs, KeyOrNone
<1>2. TypeOK
  BY <1>1, Types, Constants DEF Init
<1>3. ActivesKnown
  BY Constants DEF Init, ActivesKnown, Known, KnownEverywhere, Key, NoKey
<1>4. RowsLasting
  BY DEF Init, RowsLasting, Lasting, Findable, NoRow, NoRequest
<1>5. IdsDrawn
  BY DEF Init, IdsDrawn, NoRequest
<1>6. RequestForm /\ Searching /\ ProcForm
  BY DEF Init, RequestForm, Searching, NoRequest, Findable, NoRow, ProcForm, NoWork
<1> QED
  BY <1>2, <1>3, <1>4, <1>5, <1>6 DEF TokensInv

\* The invariant's parts and the types of the variables.
LEMMA Unpacked ==
  ASSUME TokensInv
  PROVE  /\ TypeOK /\ ActivesKnown /\ RowsLasting /\ IdsDrawn /\ RequestForm /\ Searching
         /\ ProcForm
         /\ active \in Ver /\ keys \in Keyrings /\ rows \in [Row -> Rows]
         /\ lastId \in 0 .. MaxRow /\ drawn \in Key /\ purge \subseteq Ver \ {active}
         /\ conf \in [Host -> Confs] /\ req \in [Request -> Requests] /\ proc \in [Proc -> Works]
BY Types DEF TokensInv

\* A step of a request that does not touch the rows.
LEMMA RequestKeeps ==
  ASSUME TokensInv, NEW r \in Request, NEW n \in Requests,
         req' = [req EXCEPT ![r] = n],
         UNCHANGED <<config, rows, conf, proc>>,
         lastId' \in 0 .. MaxRow, lastId' >= lastId,
         Lasting(n.row), Findable(n.row) => n.pc = "commit",
         \A i \in n.had : /\ i <= lastId'
                          /\ Stored(i) => rows[i].text = n.text
                          /\ \A q \in Request \ {r} : req[q].pc = "commit" => req[q].id # i,
         n.pc = "commit" =>
            /\ n.id \in Row /\ n.id <= lastId' /\ rows[n.id] = NoRow
            /\ n.id \notin n.had
            /\ \A q \in Request \ {r} : /\ n.id \notin req[q].had
                                        /\ req[q].pc = "commit" => req[q].id # n.id,
         n.pc # "idle" => n.host \in Host /\ n.text \in Text,
         n.text \in Pan => \A i \in n.had : Findable(rows[i]) =>
            n.pc = "search" /\ rows[i].ver \in n.todo
  PROVE  TokensInv'
<1> USE Unpacked
<1>0. req'[r] = n /\ \A q \in Request : q # r => req'[q] = req[q]
  OBVIOUS
<1>1. UNCHANGED <<active, keys, drawn, purge, rows, conf, proc>>
  BY DEF config
<1>2. TypeOK'
  <2>1. req' \in [Request -> Requests]
    OBVIOUS
  <2> QED
    BY <1>1, <2>1 DEF TypeOK, Requests, Rows, Stores
<1>3. ActivesKnown'
  BY <1>1 DEF ActivesKnown, Known, KnownEverywhere
<1>4. RowsLasting'
  BY <1>0, <1>1 DEF RowsLasting, Lasting, Findable, Known, KnownEverywhere
<1>5. IdsDrawn'
  <2>1. \A i \in Row : i > lastId' => rows'[i] = NoRow
    BY <1>1, Constants DEF IdsDrawn, Row
  <2>2. \A q \in Request : \A i \in req'[q].had : i <= lastId'
    BY <1>0, Constants DEF IdsDrawn, Requests, Row
  <2>3. ASSUME NEW q \in Request, req'[q].pc = "commit"
        PROVE  req'[q].id \in Row /\ req'[q].id <= lastId' /\ rows'[req'[q].id] = NoRow
    <3>1. CASE q = r
      BY <1>0, <1>1, <2>3, <3>1
    <3>2. CASE q # r
      BY <1>0, <1>1, <2>3, <3>2, Constants DEF IdsDrawn, Row
    <3> QED
      BY <3>1, <3>2
  <2>4. ASSUME NEW q \in Request, req'[q].pc = "commit", NEW p \in Request
        PROVE  /\ req'[q].id \notin req'[p].had
               /\ p # q /\ req'[p].pc = "commit" => req'[p].id # req'[q].id
    BY <1>0, <2>4 DEF IdsDrawn
  <2> QED
    BY <2>1, <2>2, <2>3, <2>4 DEF IdsDrawn
<1>6. RequestForm'
  BY <1>0, <1>1 DEF RequestForm, Stored, Findable
<1>7. Searching' /\ ProcForm'
  BY <1>0, <1>1 DEF Searching, Findable, ProcForm
<1> QED
  BY <1>2, <1>3, <1>4, <1>5, <1>6, <1>7 DEF TokensInv

\* A request that has ended promises nothing.
LEMMA RequestEnds ==
  ASSUME TokensInv, NEW r \in Request, req' = [req EXCEPT ![r] = NoRequest],
         UNCHANGED <<config, table, conf, proc>>
  PROVE  TokensInv'
<1>1. /\ NoRequest.pc = "idle" /\ NoRequest.had = {}
      /\ Lasting(NoRequest.row) /\ ~Findable(NoRequest.row)
  BY DEF NoRequest, Lasting, Findable, NoRow
<1>2. UNCHANGED <<config, rows, conf, proc>> /\ lastId' \in 0 .. MaxRow /\ lastId' >= lastId
  BY Unpacked, Constants DEF table
<1>3. NoRequest \in Requests
  BY Constants
<1> QED
  BY <1>1, <1>2, <1>3, RequestKeeps

\* What was stored when the request began is stored under known versions, all of
\* which the search is going to try.
LEMMA BeginInv ==
  ASSUME TokensInv, NEW r \in Request, NEW h \in Host, NEW text \in Text, Begin(r, h, text)
  PROVE  TokensInv'
<1> USE Unpacked
<1> DEFINE n == [NoRequest EXCEPT
                   !.pc = IF text \in Pan THEN "search" ELSE "insert",
                   !.host = h, !.text = text,
                   !.first = conf[h].active,
                   !.todo = IF text \in Pan THEN HmacVersions(h) ELSE {},
                   !.had = {i \in Row : rows[i].text = text}]
<1>1. conf[h].active \in Ver /\ HmacVersions(h) \subseteq Ver
  BY DEF HmacVersions, Confs
<1>2. n.pc = IF text \in Pan THEN "search" ELSE "insert"
  BY DEF NoRequest
<1>3. /\ n.host = h /\ n.text = text /\ n.row = NoRow
      /\ n.todo = IF text \in Pan THEN HmacVersions(h) ELSE {}
      /\ n.had = {i \in Row : rows[i].text = text}
  BY DEF NoRequest
<1>4. n \in Requests
  BY <1>1, Constants DEF Requests, NoRequest
<1>5. req' = [req EXCEPT ![r] = n]
  BY DEF Begin
<1> HIDE DEF n
<1>6. \A i \in n.had : i \in Row /\ rows[i].text = text /\ Stored(i)
  BY <1>3, Constants DEF Stored, NoRow
<1>7. \A i \in n.had : /\ i <= lastId
                       /\ \A q \in Request \ {r} : req[q].pc = "commit" => req[q].id # i
  BY <1>6, Constants DEF IdsDrawn, Stored, Row
<1>8. text \in Pan => \A i \in n.had : Findable(rows[i]) => rows[i].ver \in n.todo
  <2> SUFFICES ASSUME text \in Pan, NEW i \in n.had, Findable(rows[i])
               PROVE  rows[i].ver \in HmacVersions(h)
    BY <1>3
  <2>1. Known(rows[i].ver)
    BY <1>6 DEF RowsLasting, Lasting
  <2> QED
    BY <2>1 DEF Known, KnownEverywhere, HmacVersions
<1>9. Lasting(n.row) /\ ~Findable(n.row)
  BY <1>3 DEF Lasting, Findable, NoRow
<1>10. UNCHANGED <<config, rows, conf, proc>> /\ lastId' \in 0 .. MaxRow /\ lastId' = lastId
       /\ lastId' >= lastId
  BY Constants DEF Begin, table
<1>11. n.pc # "commit" /\ (text \in Pan => n.pc = "search")
  BY <1>2
<1> QED
  BY <1>3, <1>4, <1>5, <1>6, <1>7, <1>8, <1>9, <1>10, <1>11, RequestKeeps

\* A version under which the card could be found is not passed over.
LEMMA NotFoundInv ==
  ASSUME TokensInv, NEW r \in Request, NotFound(r)
  PROVE  TokensInv'
<1> USE Unpacked
<1> DEFINE v == SearchVersion(r)
           left == req[r].todo \ {v}
           n == [req[r] EXCEPT !.todo = left,
                               !.pc = IF left = {} THEN "insert" ELSE "search"]
<1>1. /\ n \in Requests /\ n.host = req[r].host /\ n.text = req[r].text /\ n.row = req[r].row
      /\ n.todo = left /\ n.had = req[r].had /\ n.pc = IF left = {} THEN "insert" ELSE "search"
  BY DEF Requests
<1>2. req' = [req EXCEPT ![r] = n]
  BY DEF NotFound
<1> HIDE DEF n
<1>3. n.text \in Pan => \A i \in n.had : Findable(rows[i]) => rows[i].ver \in left
  <2> SUFFICES ASSUME n.text \in Pan, NEW i \in n.had, Findable(rows[i]), rows[i].ver \notin left
               PROVE  FALSE
    OBVIOUS
  <2>1. i \in Row /\ i \in req[r].had
    BY <1>1 DEF Requests
  <2>2. rows[i].ver = v
    BY <1>1, <2>1 DEF Searching
  <2>3. Known(v) /\ rows[i].digest = keys[v]
    BY <2>1, <2>2 DEF RowsLasting, Lasting
  <2>4. req[r].host \in Host
    BY DEF NotFound, RequestForm
  <2>5. rows[i].digest = SearchKey(r)
    BY <2>3, <2>4 DEF Known, KnownEverywhere, SearchKey
  <2>6. rows[i].text = req[r].text
    <3>1. Stored(i)
      BY DEF Stored, Findable, NoRow
    <3> QED
      BY <2>1, <3>1 DEF RequestForm
  <2>7. i \in Matches(r)
    BY <2>1, <2>5, <2>6 DEF Matches
  <2> QED
    BY <2>7 DEF NotFound
<1>4. \A i \in n.had : /\ i <= lastId
                       /\ Stored(i) => rows[i].text = n.text
                       /\ \A q \in Request \ {r} : req[q].pc = "commit" => req[q].id # i
  BY <1>1 DEF IdsDrawn, RequestForm
<1>5. Lasting(n.row) /\ ~Findable(n.row)
  BY <1>1 DEF RowsLasting, RequestForm, NotFound
<1>6. n.host \in Host /\ n.text \in Text
  BY <1>1 DEF NotFound, RequestForm
<1>7. UNCHANGED <<config, rows, conf, proc>> /\ lastId' \in 0 .. MaxRow /\ lastId' = lastId
      /\ lastId' >= lastId
  BY Constants DEF NotFound, table
<1>8. n.pc # "commit" /\ (left # {} => n.pc = "search")
  BY <1>1
<1>9. n.text \in Pan => \A i \in n.had : Findable(rows[i]) => n.pc = "search" /\ rows[i].ver \in n.todo
  BY <1>1, <1>3, <1>8
<1> QED
  BY <1>1, <1>2, <1>4, <1>5, <1>6, <1>7, <1>8, <1>9, RequestKeeps

\* The new row is under the key the configuration has now, which is known.
LEMMA InsertInv ==
  ASSUME TokensInv, NEW r \in Request, Insert(r)
  PROVE  TokensInv'
<1> USE Unpacked
<1> DEFINE c == conf[req[r].host]
           row == [text |-> req[r].text, ver |-> c.active,
                   digest |-> IF req[r].text \in Pan THEN c.keys[c.active] ELSE Other]
           n == [req[r] EXCEPT !.pc = "commit", !.id = lastId + 1, !.row = row]
<1>1. req[r].host \in Host /\ req[r].text \in Text /\ c \in Confs
  BY DEF Insert, RequestForm
<1>2. c.active \in Ver /\ c.active \notin purge /\ Known(c.active)
  BY <1>1 DEF ActivesKnown, Confs
<1>3. c.keys[c.active] = keys[c.active] /\ c.keys[c.active] \in Key
  BY <1>1, <1>2 DEF Known, KnownEverywhere, Keyrings, KeyOrNone
<1>4. row \in Stores /\ Lasting(row)
  BY <1>1, <1>2, <1>3 DEF Stores, Lasting, Findable
<1>5. lastId < MaxRow /\ lastId' = lastId + 1
  BY DEF Insert
<1>6. lastId \in Nat /\ lastId + 1 \in Row
  BY <1>5, Constants DEF Row
<1>7. /\ n \in Requests /\ n.host = req[r].host /\ n.text = req[r].text /\ n.row = row
      /\ n.had = req[r].had /\ n.pc = "commit" /\ n.id = lastId + 1
  BY <1>4, <1>6 DEF Requests, Rows
<1>8. req' = [req EXCEPT ![r] = n]
  BY DEF Insert
<1> HIDE DEF n, row
<1>9. n.text \in Pan => \A i \in n.had : ~Findable(rows[i])
  BY <1>7 DEF Searching, Insert
<1>10. \A i \in n.had : /\ i <= lastId /\ i \in Row
                        /\ Stored(i) => rows[i].text = n.text
                        /\ \A q \in Request \ {r} : req[q].pc = "commit" => req[q].id # i
  BY <1>7 DEF IdsDrawn, RequestForm, Requests
<1>11. /\ rows[n.id] = NoRow /\ n.id \notin n.had
       /\ \A q \in Request \ {r} : /\ n.id \notin req[q].had
                                   /\ req[q].pc = "commit" => req[q].id # n.id
  BY <1>6, <1>7 DEF IdsDrawn, Row
<1>12. UNCHANGED <<config, rows, conf, proc>> /\ lastId' \in 0 .. MaxRow /\ lastId' >= lastId
       /\ n.id <= lastId' /\ \A i \in n.had : i <= lastId'
  BY <1>5, <1>6, <1>7, <1>10, Constants DEF Insert, Row
<1>13. Lasting(n.row) /\ n.id \in Row /\ n.host \in Host /\ n.text \in Text
  BY <1>1, <1>4, <1>6, <1>7
<1> QED
  BY <1>7, <1>8, <1>9, <1>10, <1>11, <1>12, <1>13, RequestKeeps

\* The row of a request comes into sight; no running search has missed it.
LEMMA CommitInv ==
  ASSUME TokensInv, NEW r \in Request, Commit(r)
  PROVE  TokensInv'
<1> USE Unpacked
<1> DEFINE i == req[r].id
           row == req[r].row
<1>1. /\ i \in Row /\ i <= lastId /\ rows[i] = NoRow
      /\ \A q \in Request : /\ i \notin req[q].had
                            /\ q # r /\ req[q].pc = "commit" => req[q].id # i
  BY DEF IdsDrawn, Commit
<1>2. row \in Rows /\ Lasting(row)
  BY DEF RowsLasting, Requests
<1>3. rows' = [rows EXCEPT ![i] = row] /\ req' = [req EXCEPT ![r] = NoRequest]
  BY DEF Commit
<1> HIDE DEF row
<1>4. /\ rows'[i] = row /\ \A j \in Row : j # i => rows'[j] = rows[j]
      /\ req'[r] = NoRequest /\ \A q \in Request : q # r => req'[q] = req[q]
  BY <1>1, <1>3
<1>5. UNCHANGED <<active, keys, drawn, purge, lastId, conf, proc>>
  BY DEF Commit, config
<1>6. /\ NoRequest.pc = "idle" /\ NoRequest.had = {}
      /\ Lasting(NoRequest.row) /\ ~Findable(NoRequest.row)
  BY DEF NoRequest, Lasting, Findable, NoRow
<1>7. TypeOK'
  <2>1. rows' \in [Row -> Rows] /\ req' \in [Request -> Requests]
    BY <1>2, <1>3, Constants
  <2> QED
    BY <1>5, <2>1 DEF TypeOK, Requests, Rows, Stores
<1>8. ActivesKnown'
  BY <1>5 DEF ActivesKnown, Known, KnownEverywhere
<1>9. RowsLasting'
  BY <1>2, <1>4, <1>5, <1>6 DEF RowsLasting, Lasting, Findable, Known, KnownEverywhere
<1>10. IdsDrawn'
  <2>1. \A j \in Row : j > lastId => rows'[j] = NoRow
    BY <1>1, <1>4, Constants DEF IdsDrawn, Row
  <2> QED
    BY <1>1, <1>4, <1>5, <1>6, <2>1 DEF IdsDrawn, Requests
<1>11. \A q \in Request : \A j \in req'[q].had : j \in req[q].had /\ rows'[j] = rows[j] /\ q # r
  BY <1>1, <1>4, <1>6 DEF Requests
<1>12. RequestForm'
  BY <1>4, <1>6, <1>11 DEF RequestForm, Stored, Findable
<1>13. Searching' /\ ProcForm'
  BY <1>4, <1>5, <1>11 DEF Searching, Findable, ProcForm
<1> QED
  BY <1>7, <1>8, <1>9, <1>10, <1>12, <1>13 DEF TokensInv

\* All steps of a request keep the invariant.
LEMMA RequestInv ==
  ASSUME TokensInv, NEW r \in Request, RequestNext(r)
  PROVE  TokensInv'
<1>1. ASSUME Found(r) \/ RequestFails(r) PROVE TokensInv'
  BY <1>1, RequestEnds DEF Found, RequestFails
<1> QED
  BY <1>1, BeginInv, NotFoundInv, InsertInv, CommitInv DEF RequestNext

\* A row that is gone or has lost its digest is looked for by nobody.
LEMMA RowFades ==
  ASSUME TokensInv, NEW i \in Row, NEW row \in Rows, ~Findable(row),
         rows' = [rows EXCEPT ![i] = row],
         row = NoRow \/ (Stored(i) /\ row.text = rows[i].text),
         proc' \in [Proc -> Works], ProcForm',
         UNCHANGED <<config, lastId, conf, req>>
  PROVE  TokensInv'
<1> USE Unpacked
<1>1. rows'[i] = row /\ \A j \in Row : j # i => rows'[j] = rows[j]
  OBVIOUS
<1>2. UNCHANGED <<active, keys, drawn, purge, lastId, conf, req>>
  BY DEF config
<1>3. TypeOK'
  <2>1. rows' \in [Row -> Rows]
    OBVIOUS
  <2> QED
    BY <1>2, <2>1 DEF TypeOK, Works, Rows, Stores
<1>4. ActivesKnown'
  BY <1>2 DEF ActivesKnown, Known, KnownEverywhere
<1>5. RowsLasting'
  BY <1>1, <1>2 DEF RowsLasting, Lasting, Findable, Known, KnownEverywhere
<1>6. IdsDrawn'
  <2>1. \A j \in Row : rows[j] = NoRow => rows'[j] = NoRow
    BY <1>1 DEF Stored
  <2> QED
    BY <1>2, <2>1 DEF IdsDrawn
<1>7. RequestForm'
  BY <1>1, <1>2 DEF RequestForm, Stored, Requests, Findable
<1>8. Searching'
  BY <1>1, <1>2 DEF Searching, Findable, Requests
<1> QED
  BY <1>3, <1>4, <1>5, <1>6, <1>7, <1>8 DEF TokensInv

\* A token is removed.
LEMMA DeleteInv ==
  ASSUME TokensInv, NEW i \in Row, Delete(i)
  PROVE  TokensInv'
<1>1. ~Findable(NoRow)
  BY DEF Findable, NoRow
<1>2. proc' \in [Proc -> Works] /\ ProcForm'
  BY Unpacked DEF Delete, ProcForm
<1> QED
  BY <1>1, <1>2, Constants, RowFades DEF Delete

\* A step after which the same versions, or more, are known.
LEMMA KnownKeeps ==
  ASSUME TokensInv, TypeOK', ActivesKnown',
         \A v \in Ver \ purge : Known(v) => Known(v)' /\ keys'[v] = keys[v] /\ v \notin purge',
         UNCHANGED <<table, req, proc>>
  PROVE  TokensInv'
<1> USE Unpacked
<1>1. UNCHANGED <<rows, lastId, req>>
  BY DEF table
<1>2. \A row \in Rows : Lasting(row) => Lasting(row)'
  <2> SUFFICES ASSUME NEW row \in Rows, Lasting(row), Findable(row)
               PROVE  Known(row.ver)' /\ row.digest = keys'[row.ver] /\ row.ver \notin purge'
    BY DEF Lasting, Findable
  <2>1. Known(row.ver) /\ row.ver \in Ver \ purge
    BY DEF Lasting, Known
  <2> QED
    BY <2>1 DEF Lasting
<1>3. \A r \in Request : req[r].row \in Rows
  BY DEF Requests
<1>4. RowsLasting'
  <2>1. ASSUME NEW i \in Row PROVE Lasting(rows[i])'
    <3>1. Lasting(rows[i]) /\ rows[i] \in Rows /\ rows'[i] = rows[i]
      BY <1>1 DEF RowsLasting
    <3> QED
      BY <1>2, <3>1 DEF Lasting, Findable
  <2>2. ASSUME NEW r \in Request PROVE Lasting(req[r].row)'
    <3>1. Lasting(req[r].row) /\ req[r].row \in Rows /\ req'[r] = req[r]
      BY <1>1, <1>3 DEF RowsLasting
    <3> QED
      BY <1>2, <3>1 DEF Lasting, Findable
  <2> QED
    BY <2>1, <2>2 DEF RowsLasting
<1>5. IdsDrawn' /\ RequestForm' /\ Searching' /\ ProcForm'
  BY <1>1 DEF IdsDrawn, RequestForm, Searching, Stored, Findable, ProcForm
<1> QED
  BY <1>4, <1>5 DEF TokensInv

\* A refresh brings a node up to date: what is known stays known.
LEMMA RefreshInv ==
  ASSUME TokensInv, NEW h \in Host, Refresh(h)
  PROVE  TokensInv'
<1> USE Unpacked
<1>1. UNCHANGED <<active, keys, drawn, purge, table, req, proc>>
  BY DEF Refresh, config
<1>2. /\ conf'[h].active = active /\ conf'[h].keys = keys
      /\ \A g \in Host : g # h => conf'[g] = conf[g]
  BY DEF Refresh
<1>3. TypeOK'
  <2>1. [active |-> active, keys |-> keys] \in Confs
    BY DEF Confs
  <2>2. conf' \in [Host -> Confs]
    BY <2>1 DEF Refresh
  <2> QED
    BY <1>1, <2>2 DEF TypeOK, Confs, Keyrings, table
<1>4. \A v : Known(v) => Known(v)'
  BY <1>1, <1>2 DEF Known, KnownEverywhere
<1>5. ActivesKnown'
  <2>1. Known(active)'
    BY <1>1, <1>4 DEF ActivesKnown, Known, KnownEverywhere
  <2>2. ASSUME NEW g \in Host PROVE Known(conf[g].active)' /\ conf'[g].active \notin purge
    <3>1. conf'[g].active \in {active, conf[g].active}
      BY <1>2
    <3>2. Known(conf[g].active) /\ conf[g].active \notin purge
      BY DEF ActivesKnown
    <3>3. Known(conf[g].active) => \A f \in Host : conf'[f].keys[conf[g].active] = keys[conf[g].active]
      BY <1>1, <1>4 DEF Known, KnownEverywhere
    <3> QED
      BY <1>1, <1>2, <2>1, <3>1, <3>2, <3>3 DEF ActivesKnown, Known, KnownEverywhere
  <2> QED
    BY <1>1, <2>1, <2>2 DEF ActivesKnown
<1> QED
  BY <1>1, <1>3, <1>4, <1>5, KnownKeeps

\* A new key takes a free version; a switch is to a known one; a purge spares what
\* is in use or may come into use.
LEMMA OfficersInv == ASSUME TokensInv, OfficersNext PROVE TokensInv'
<1> USE Unpacked
<1>0. UNCHANGED <<table, conf, req, proc>>
  BY DEF OfficersNext, GenerateHmac, SwitchHmac, CleanupCount, CleanupCommit, CleanupFails
<1>1. CASE GenerateHmac
  <2> DEFINE v == LastVersion + 1
  <2>1. v \in Ver /\ keys[v] = NoKey
    BY <1>1, LastVersionIsLast DEF GenerateHmac, ActivesKnown
  <2>2. drawn + 1 \in Key /\ keys' = [keys EXCEPT ![v] = drawn + 1] /\ drawn' = drawn + 1
    BY <1>1, Constants DEF GenerateHmac, Key
  <2> HIDE DEF v
  <2>3. active' = active /\ purge' = purge
    BY <1>1 DEF GenerateHmac
  <2>4. TypeOK'
    <3>1. keys' \in Keyrings
      BY <2>2 DEF Keyrings, KeyOrNone
    <3> QED
      BY <1>0, <2>2, <2>3, <3>1 DEF TypeOK, Keyrings, table
  <2>5. \A w : Known(w) => w # v /\ keys'[w] = keys[w] /\ Known(w)'
    BY <1>0, <2>1, <2>2 DEF Known, KnownEverywhere, Keyrings
  <2>6. ActivesKnown'
    BY <1>0, <2>3, <2>5 DEF ActivesKnown, Known, KnownEverywhere
  <2> QED
    BY <1>0, <2>3, <2>4, <2>5, <2>6, KnownKeeps
<1>2. CASE SwitchHmac
  <2>1. LastVersion \in Ver /\ keys[LastVersion] # NoKey
    BY LastVersionIsLast DEF ActivesKnown
  <2>2. active' = LastVersion /\ UNCHANGED <<keys, drawn, purge>> /\ purge = {}
    BY <1>2 DEF SwitchHmac
  <2>3. Known(LastVersion)
    BY <1>2, <2>1 DEF SwitchHmac, Known
  <2>4. TypeOK'
    BY <1>0, <2>1, <2>2 DEF TypeOK, table
  <2>5. \A w : Known(w) => Known(w)'
    BY <1>0, <2>2 DEF Known, KnownEverywhere
  <2>6. ActivesKnown'
    BY <1>0, <2>2, <2>3 DEF ActivesKnown, Known, KnownEverywhere
  <2> QED
    BY <1>0, <2>2, <2>4, <2>5, <2>6, KnownKeeps
<1>3. CASE CleanupCount
  <2>1. UNCHANGED <<active, keys, drawn>> /\ purge' = Unused /\ purge = {}
    BY <1>3 DEF CleanupCount
  <2>2. /\ \A h \in Host : conf[h].active = active
        /\ \A r \in Request : req[r].pc = "commit" => req[r].row.ver = active
    BY <1>3 DEF CleanupCount, Quiet
  <2>3. TypeOK'
    BY <1>0, <2>1 DEF TypeOK, table, Unused, Versions
  <2>4. \A w : Known(w) => Known(w)'
    BY <1>0, <2>1 DEF Known, KnownEverywhere
  <2>5. ActivesKnown'
    BY <1>0, <2>1, <2>2 DEF ActivesKnown, Known, KnownEverywhere, Unused
  <2>6. RowsLasting'
    <3>1. ASSUME NEW i \in Row PROVE Lasting(rows[i])'
      BY <1>0, <2>1, <2>4 DEF RowsLasting, Lasting, Findable, Known, KnownEverywhere, table, Unused
    <3>2. ASSUME NEW r \in Request PROVE Lasting(req[r].row)'
      <4>1. Findable(req[r].row) => req[r].row.ver \notin Unused
        BY <2>2 DEF RequestForm, Unused
      <4> QED
        BY <1>0, <2>1, <4>1 DEF RowsLasting, Lasting, Findable, Known, KnownEverywhere
    <3> QED
      BY <3>1, <3>2 DEF RowsLasting
  <2>7. IdsDrawn' /\ RequestForm' /\ Searching' /\ ProcForm'
    BY <1>0 DEF table, IdsDrawn, RequestForm, Searching, Stored, Findable, ProcForm
  <2> QED
    BY <2>3, <2>5, <2>6, <2>7 DEF TokensInv
<1>4. CASE CleanupCommit
  <2>1. /\ keys' = [v \in Ver |-> IF v \in purge THEN NoKey ELSE keys[v]]
        /\ purge' = {} /\ active' = active /\ drawn' = drawn
    BY <1>4 DEF CleanupCommit
  <2>2. TypeOK'
    <3>1. keys' \in Keyrings
      BY <2>1 DEF Keyrings, KeyOrNone
    <3> QED
      BY <1>0, <2>1, <3>1 DEF TypeOK, Keyrings, table
  <2>3. \A v \in Ver \ purge : Known(v) => Known(v)' /\ keys'[v] = keys[v]
    BY <1>0, <2>1 DEF Known, KnownEverywhere
  <2>4. ActivesKnown'
    BY <1>0, <2>1, <2>3 DEF ActivesKnown, Known, KnownEverywhere
  <2> QED
    BY <1>0, <2>1, <2>2, <2>3, <2>4, KnownKeeps
<1>5. CASE CleanupFails
  <2>1. UNCHANGED <<active, keys, drawn>> /\ purge' = {}
    BY <1>5 DEF CleanupFails
  <2>2. TypeOK'
    BY <1>0, <2>1 DEF TypeOK, table
  <2>3. \A w : Known(w) => Known(w)'
    BY <1>0, <2>1 DEF Known, KnownEverywhere
  <2>4. ActivesKnown'
    BY <1>0, <2>1 DEF ActivesKnown, Known, KnownEverywhere
  <2> QED
    BY <1>0, <2>1, <2>2, <2>3, <2>4, KnownKeeps
<1> QED
  BY <1>1, <1>2, <1>3, <1>4, <1>5 DEF OfficersNext

\* A step of an HmacProc that writes no row.
LEMMA ProcKeeps ==
  ASSUME TokensInv, proc' \in [Proc -> Works], ProcForm',
         UNCHANGED <<config, table, conf, req>>
  PROVE  TokensInv'
<1> USE Unpacked
<1>1. UNCHANGED <<active, keys, drawn, purge, rows, lastId, conf, req>>
  BY DEF config, table
<1>2. TypeOK'
  BY <1>1 DEF TypeOK, Works
<1>3. ActivesKnown' /\ RowsLasting'
  BY <1>1 DEF ActivesKnown, RowsLasting, Lasting, Findable, Known, KnownEverywhere
<1>4. IdsDrawn' /\ RequestForm' /\ Searching'
  BY <1>1 DEF IdsDrawn, RequestForm, Searching, Stored, Findable
<1> QED
  BY <1>2, <1>3, <1>4 DEF TokensInv

\* All steps of an HmacProc keep the invariant.
LEMMA HmacProcInv ==
  ASSUME TokensInv, NEW p \in Proc, HmacProcProceeds(p) \/ HmacProcFails(p)
  PROVE  TokensInv'
<1> USE Unpacked
<1>1. CASE HmacProcTask(p)
  <2> DEFINE w == [NoWork EXCEPT !.pc = "batch", !.target0 = active, !.todo = Span(Foreign(active))]
  <2>1. w \in Works
    BY Constants DEF Works, NoWork, Span
  <2>2. proc' = [proc EXCEPT ![p] = w]
    BY <1>1 DEF HmacProcTask
  <2>3. w.pc # "convert"
    BY DEF NoWork
  <2> HIDE DEF w
  <2> QED
    BY <1>1, <2>1, <2>2, <2>3, ProcKeeps DEF HmacProcTask, ProcForm
<1>2. ASSUME NEW i \in Row, RehashStart(p, i) PROVE TokensInv'
  <2> DEFINE w == [proc[p] EXCEPT !.pc = "convert", !.todo = @ \ {i}, !.batch = i, !.ver = active]
  <2>1. w \in Works
    BY DEF Works
  <2>2. proc' = [proc EXCEPT ![p] = w]
    BY <1>2 DEF RehashStart
  <2>3. w.ver \in Ver
    BY DEF Works
  <2> HIDE DEF w
  <2> QED
    <3>1. proc' \in [Proc -> Works]
      BY <2>1, <2>2
    <3>2. ProcForm'
      BY <2>2, <2>3 DEF ProcForm
    <3> QED
      BY <1>2, <3>1, <3>2, ProcKeeps DEF RehashStart
<1>3. CASE Rehash(p)
  <2> DEFINE w == [proc[p] EXCEPT !.pc = "check", !.batch = 0, !.ver = NoVer]
             i == proc[p].batch
             v == proc[p].ver
             row == Rehashed(rows[i], v)
  <2>1. w \in Works
    BY DEF Works
  <2>2. proc' = [proc EXCEPT ![p] = w]
    BY <1>3 DEF Rehash
  <2>0. w.pc # "convert"
    BY DEF Works
  <2> HIDE DEF w
  <2>3. proc' \in [Proc -> Works] /\ ProcForm'
    BY <2>0, <2>1, <2>2 DEF ProcForm
  <2>4. CASE i \in Foreign(v)
    <3>1. i \in Row /\ Stored(i) /\ rows[i] \in Stores
      BY <2>4 DEF Foreign, Stored, Rows
    <3>2. v \in Ver
      BY <1>3 DEF Rehash, ProcForm
    <3>3. row \in Rows /\ ~Findable(row) /\ row.text = rows[i].text
      BY <3>1, <3>2 DEF Rehashed, Rows, Stores, Findable
    <3>4. rows' = [rows EXCEPT ![i] = row]
      BY <1>3, <2>4 DEF Rehash
    <3> HIDE DEF row
    <3> QED
      BY <1>3, <2>3, <3>1, <3>3, <3>4, RowFades DEF Rehash
  <2>5. CASE i \notin Foreign(v)
    <3>1. rows' = rows
      BY <1>3, <2>5 DEF Rehash
    <3> QED
      BY <1>3, <2>3, <3>1, ProcKeeps DEF Rehash, table
  <2> QED
    BY <2>4, <2>5
<1>4. CASE NextBatch(p)
  <2> DEFINE w == [proc[p] EXCEPT !.pc = "batch"]
  <2>1. w \in Works
    BY DEF Works
  <2>2. proc' = [proc EXCEPT ![p] = w]
    BY <1>4 DEF NextBatch
  <2>3. w.pc # "convert"
    BY DEF Works
  <2> HIDE DEF w
  <2> QED
    BY <1>4, <2>1, <2>2, <2>3, ProcKeeps DEF NextBatch, ProcForm
<1>5. CASE HmacProcEnds(p) \/ HmacProcFails(p)
  <2>1. proc' = [proc EXCEPT ![p] = NoWork] /\ UNCHANGED <<config, table, conf, req>>
    BY <1>5 DEF HmacProcEnds, HmacProcFails
  <2>2. NoWork \in Works /\ NoWork.pc # "convert"
    BY Constants DEF NoWork
  <2>3. proc' \in [Proc -> Works] /\ ProcForm'
    BY <2>1, <2>2 DEF ProcForm
  <2> QED
    BY <2>1, <2>3, ProcKeeps
<1> QED
  BY <1>1, <1>2, <1>3, <1>4, <1>5 DEF HmacProcProceeds

\* TokensInv is inductive.
LEMMA NextInv == TokensInv /\ [Next]_vars => TokensInv'
<1> SUFFICES ASSUME TokensInv, [Next]_vars PROVE TokensInv'
  OBVIOUS
<1>1. CASE UNCHANGED vars
  BY <1>1, Unpacked, ProcKeeps DEF vars, config, table, ProcForm
<1> QED
  BY <1>1, RefreshInv, RequestInv, DeleteInv, OfficersInv, HmacProcInv DEF Next

\* At every moment each digest in t_data_token, and each about to get there, is one
\* that all nodes can compute.
THEOREM InvariantHolds == Spec => []TokensInv
BY InitInv, NextInv, PTL DEF Spec

\* The state stays well typed, and cleanup never takes the active HMAC key away.
THEOREM TypeCorrect == Spec => []TypeOK
<1>1. TokensInv => TypeOK
  BY DEF TokensInv
<1> QED
  BY InvariantHolds, <1>1, PTL

\* A card gets a new token only where the tokens it had are gone or were rehashed:
\* no new key, switch, purge or stale configuration makes a search miss another.
THEOREM CardsFoundAgain == Spec => []FoundAgain
<1>1. TokensInv => FoundAgain
  BY DEF TokensInv, Searching, Findable, FoundAgain, TypeOK
<1> QED
  BY InvariantHolds, <1>1, PTL

=============================================================================
