-------------------------------- MODULE Vault --------------------------------
(***************************************************************************)
(* The secure vault (secvault/) and the configuration that the threads of  *)
(* a servant share (TokenizerConfig).  A thread that finds it older than   *)
(* 15 seconds loads it anew, from the database and the key keeper, while   *)
(* the others use the old one, and then replaces it under their hands.     *)
(*                                                                         *)
(* A text belongs to a domain.  With dedup it is first looked for, by its  *)
(* digest under each HMAC key, in the rows of all domains.                 *)
(***************************************************************************)
EXTENDS Codecs

CONSTANTS
  Thread,      \* threads of the servant
  Checker,     \* those that only serve check_kek
  Text,        \* strings of bytes
  Domain,
  MinHashed,   \* 10: shorter texts get a random digest
  Parts,       \* what may be found as the components of the KEKs
  MaxRow,      \* bound: the last id of t_secure_vault
  MaxVersion   \* bound: the last HMAC version

Row == 1 .. MaxRow
Ver == 0 .. MaxVersion
NoVer == -1
None == "none"
NoText == <<>>

\* HMAC key v, and what its ciphertext is decrypted to with a wrong KEK.
Genuine(v) == v + 1
Garbage(v) == -(v + 1)
NoKey == 0
Random == MaxVersion + 2    \* a digest of random bytes

\* The first HMAC key is still encrypted with the KEK before the active one; the later
\* ones and the DEKs are not.
Kek == {"previous", "active"}
KekOf(v) == IF v = 0 THEN "previous" ELSE "active"
AllRight == [k \in Kek |-> "right"]

ASSUME VaultAssumption ==
  /\ MaxRow \in Nat /\ MaxVersion \in Nat /\ MinHashed \in Nat
  /\ Parts \subseteq [Kek -> {"right", "wrong", "missing"}]
  /\ AllRight \in Parts /\ Checker \subseteq Thread
  /\ \A text \in Text : text \in Seq(Byte) /\ text # NoText
  /\ None \notin Domain

VARIABLES
  active,   \* HMAC_VERSION
  vers,     \* the versions with an HMAC_VERv_ID
  parts,    \* the components of the KEKs, in the key keeper and elsewhere
  rows,     \* t_secure_vault, committed: the text and the domain of each token,
            \* hmac_version, the key of hmac_digest, and data_crypted
  lastId,   \* its AUTO_INCREMENT
  conf,     \* theTokenizerConfig
  due,      \* is ts_ more than 15 seconds ago?
  thr       \* the threads and their requests

keys == <<active, vers, parts>>
table == <<rows, lastId>>
vars == <<keys, table, conf, due, thr>>

NoRow == [text |-> NoText, domain |-> None, ver |-> NoVer, digest |-> Random, data |-> <<>>]
Stored(i) == rows[i] # NoRow

\* had: the rows that dedup has to find, those of the same text and domain that could be
\* found ever since it began; none when a row of another domain came first.
NoRequest(c) == [pc |-> "idle", op |-> None, text |-> NoText, domain |-> None,
                 first |-> NoVer, todo |-> {}, had |-> {}, ver |-> NoVer, id |-> 0,
                 row |-> NoRow, snap |-> c]

\* What one load finds.  A KEK of wrong components is put together all the same, and
\* used for the HMAC keys; only a valid one is used for DEKs.
Loaded ==
  [active |-> active,
   hmac |-> [v \in Ver |->
               CASE v \notin vers \/ parts[KekOf(v)] = "missing" -> NoKey
                 [] parts[KekOf(v)] = "right" -> Genuine(v)
                 [] OTHER -> Garbage(v)],
   kek |-> parts["active"] = "right",
   valid |-> \E k \in Kek : parts[k] = "right"]

Conf == [active : Ver, kek : BOOLEAN, valid : BOOLEAN,
         hmac : {h \in [Ver -> -(MaxVersion + 1) .. MaxVersion + 1] :
                   \A v \in Ver : h[v] \in {NoKey, Genuine(v), Garbage(v)}}]

\* The state is well typed.  A row names the key of its digest, genuine or not, or the
\* digest is random: never one of another version, whenever the configuration changes.
TypeOK ==
  /\ active \in vers /\ vers \subseteq Ver /\ parts \in Parts
  /\ lastId \in 0 .. MaxRow
  /\ \A i \in Row : Stored(i) =>
        /\ i <= lastId
        /\ rows[i].text \in Text /\ rows[i].domain \in Domain /\ rows[i].ver \in Ver
        /\ rows[i].digest \in {Random, Genuine(rows[i].ver), Garbage(rows[i].ver)}
        /\ CheckBase64(rows[i].data)
  /\ conf \in Conf /\ due \in BOOLEAN
  /\ \A t \in Thread :
        /\ thr[t].pc \in {"idle", "refresh", "swap", "ready", "search", "new",
                          "insert", "commit", "answer"}
        /\ thr[t].id \in 0 .. lastId /\ thr[t].had \subseteq 1 .. lastId
        /\ thr[t].snap \in Conf

NoConf == [active |-> 0, hmac |-> [v \in Ver |-> NoKey], kek |-> FALSE, valid |-> FALSE]
Idle == NoRequest(NoConf)

Init ==
  /\ active = 0 /\ vers = {0} /\ parts = AllRight
  /\ rows = [i \in Row |-> NoRow] /\ lastId = 0
  /\ conf = Loaded /\ due = FALSE
  /\ thr = [t \in Thread |-> Idle]

-----------------------------------------------------------------------------
(* TokenizerConfig::refresh, at the start of each request.                 *)

Becomes(t, r) == thr' = [thr EXCEPT ![t] = r]
At(t, label) == thr[t].pc = label

\* ts_ is read without a lock: several threads may load at once.
Begin(t) ==
  /\ At(t, "idle")
  /\ Becomes(t, [Idle EXCEPT !.pc = IF due THEN "refresh" ELSE "ready"])
  /\ UNCHANGED <<keys, table, conf, due>>

\* ts_ is set before the load.
Refresh(t) ==
  /\ At(t, "refresh")
  /\ due' = FALSE
  /\ Becomes(t, [thr[t] EXCEPT !.pc = "swap", !.snap = Loaded])
  /\ UNCHANGED <<keys, table, conf>>

\* The file or the database cannot be read: the old configuration stays, until ts_ is
\* 15 seconds ago.
RefreshFails(t) ==
  /\ At(t, "refresh")
  /\ due' = FALSE
  /\ Becomes(t, Idle)
  /\ UNCHANGED <<keys, table, conf>>

Findable(i, c) == Stored(i) /\ rows[i].digest = c.hmac[rows[i].ver]

\* Mutant of Put: the keys are inserted into the old map, where they replace nothing.
PutMissing(c) ==
  conf' = [c EXCEPT !.hmac =
             [v \in Ver |-> IF conf.hmac[v] = NoKey THEN c.hmac[v] ELSE conf.hmac[v]]]

Put(c) == conf' = c

\* The new configuration replaces the old one even if nothing in it is valid.
Swap(t) ==
  /\ At(t, "swap")
  /\ Put(thr[t].snap)
  /\ due' = (due /\ ~thr[t].snap.valid)
  /\ thr' = [u \in Thread |->
               IF u = t THEN [Idle EXCEPT !.pc = "ready"]
               ELSE [thr[u] EXCEPT !.had = {i \in @ : Findable(i, thr[t].snap)}]]
  /\ UNCHANGED <<keys, table>>

\* 15 seconds pass.
Due ==
  /\ ~due
  /\ due' = TRUE
  /\ UNCHANGED <<keys, table, conf, thr>>

-----------------------------------------------------------------------------
(* Requests.  Each reads the configuration of the moment.                  *)

Dek(i) == i    \* the DEKs are DekPool's

\* data_crypted of a text under a DEK, and what it is decrypted to.
Crypted ==
  [i \in Row |->
     [text \in Text |-> EncodeBase64(Encrypt("cbc", Dek(i), Pkcs7Encode(text)))]]
Decrypted ==
  [i \in Row |->
     [data \in {Crypted[i][text] : text \in Text} |->
        Pkcs7Decode(Decrypt("cbc", Dek(i), DecodeBase64(data)))]]

\* Mutant of InDomain: the domain is not looked at.
InAnyDomain(i, domain) == Stored(i)

\* check_token_against_domain
InDomain(i, domain) == Stored(i) /\ rows[i].domain = domain

Detokenize(t, i, domain) ==
  /\ At(t, "ready") /\ t \notin Checker
  /\ InDomain(i, domain)
  /\ conf.kek
  /\ Becomes(t, [Idle EXCEPT !.pc = "answer", !.domain = domain, !.id = i,
                             !.text = Decrypted[i][rows[i].data]])
  /\ UNCHANGED <<keys, table, conf, due>>

\* check_kek only reads.
CheckKek(t) ==
  /\ At(t, "ready") /\ t \in Checker
  /\ Becomes(t, Idle)
  /\ UNCHANGED <<keys, table, conf, due>>

\* remove_token, here or in another servant.
RemoveToken(i, domain) ==
  /\ InDomain(i, domain)
  /\ rows' = [rows EXCEPT ![i] = NoRow]
  /\ UNCHANGED <<keys, lastId, conf, due, thr>>

\* Mutant of Versions: only the active key is used.
ActiveOnly == {conf.active}

\* get_hmac_versions.  They are tried in its order: SearchVersion.
Versions == {conf.active} \cup {v \in Ver : conf.hmac[v] # NoKey}

\* search_token, or tokenize with dedup = true.
StartSearch(t, op, text, domain) ==
  /\ At(t, "ready") /\ t \notin Checker
  /\ Becomes(t, [Idle EXCEPT !.pc = "search", !.op = op, !.text = text, !.domain = domain,
                             !.first = conf.active, !.todo = Versions,
                             !.had = {i \in Row : /\ op = "tokenize"
                                                  /\ rows[i].text = text
                                                  /\ rows[i].domain = domain
                                                  /\ Findable(i, conf)}])
  /\ UNCHANGED <<keys, table, conf, due>>

\* tokenize without dedup.
StartTokenize(t, text, domain) ==
  /\ At(t, "ready") /\ t \notin Checker
  /\ Becomes(t, [Idle EXCEPT !.pc = "new", !.op = "tokenize",
                             !.text = text, !.domain = domain])
  /\ UNCHANGED <<keys, table, conf, due>>

\* The active version is tried first, the others in ascending order.
SearchVersion(t) ==
  IF thr[t].first \in thr[t].todo THEN thr[t].first ELSE Least(thr[t].todo)

SearchKey(t) == conf.hmac[SearchVersion(t)]

\* do_search: the rows with the digest of the text under the next key.
Matches(t) == {i \in Row : rows[i].text = thr[t].text /\ rows[i].digest = SearchKey(t)}

Searching(t) == At(t, "search") /\ SearchKey(t) # NoKey

\* No version is left: tokenize makes a new token, search_token fails.
Ends(t, had) ==
  IF thr[t].op = "tokenize"
  THEN [thr[t] EXCEPT !.pc = "new", !.first = NoVer, !.todo = {}, !.had = had] ELSE Idle

Found(t) ==
  /\ Searching(t)
  /\ Matches(t) # {}
  /\ InDomain(Least(Matches(t)), thr[t].domain)
  /\ Becomes(t, [Idle EXCEPT !.pc = "answer", !.text = thr[t].text,
                             !.domain = thr[t].domain, !.id = Least(Matches(t))])
  /\ UNCHANGED <<keys, table, conf, due>>

\* TokenNotFound: tokenize makes a new token.
FoundElsewhere(t) ==
  /\ Searching(t)
  /\ Matches(t) # {}
  /\ ~InDomain(Least(Matches(t)), thr[t].domain)
  /\ Becomes(t, Ends(t, {}))
  /\ UNCHANGED <<keys, table, conf, due>>

NotFound(t) ==
  LET left == thr[t].todo \ {SearchVersion(t)}
  IN  /\ Searching(t)
      /\ Matches(t) = {}
      /\ Becomes(t, IF left = {} THEN Ends(t, thr[t].had) ELSE [thr[t] EXCEPT !.todo = left])
      /\ UNCHANGED <<keys, table, conf, due>>

Version(t) ==
  /\ At(t, "new")
  /\ Becomes(t, [thr[t] EXCEPT !.pc = "insert", !.ver = conf.active])
  /\ UNCHANGED <<keys, table, conf, due>>

\* Mutant of KeyOf: the key is that of the version active by now.
KeyOfActive(v) == conf.hmac[conf.active]

\* get_hmac_key
KeyOf(v) == conf.hmac[v]

\* The rest of Tokenizer::tokenize, session.flush(), and the domain.
Insert(t) ==
  LET r == thr[t]
      hashed == Len(r.text) >= MinHashed
  IN  /\ At(t, "insert")
      /\ lastId < MaxRow
      /\ hashed => KeyOf(r.ver) # NoKey
      /\ conf.kek
      /\ lastId' = lastId + 1
      /\ Becomes(t, [r EXCEPT
           !.pc = "commit", !.id = lastId + 1, !.ver = NoVer,
           !.row = [text |-> r.text, domain |-> r.domain, ver |-> r.ver,
                    digest |-> IF hashed THEN KeyOf(r.ver) ELSE Random,
                    data |-> Crypted[lastId + 1][r.text]]])
      /\ UNCHANGED <<keys, rows, conf, due>>

Commit(t) ==
  /\ At(t, "commit")
  /\ rows' = [rows EXCEPT ![thr[t].id] = thr[t].row]
  /\ Becomes(t, Idle)
  /\ UNCHANGED <<keys, lastId, conf, due>>

Answer(t) ==
  /\ At(t, "answer")
  /\ Becomes(t, Idle)
  /\ UNCHANGED <<keys, table, conf, due>>

\* The user has no role, the token is not found, a key is missing, the database fails.
Fails(t) ==
  /\ thr[t].pc \in {"ready", "search", "new", "insert", "commit"}
  /\ Becomes(t, Idle)
  /\ UNCHANGED <<keys, table, conf, due>>

-----------------------------------------------------------------------------
(* The others.                                                             *)

\* generate_hmac and, when the tokenizers know it, switch_hmac.
NewVersion ==
  /\ active + 1 \in Ver
  /\ active' = active + 1
  /\ vers' = vers \cup {active + 1}
  /\ UNCHANGED <<parts, table, conf, due, thr>>

\* cleanup: get_hmac_use_counts does not look into t_secure_vault.
Cleanup(v) ==
  /\ v \in vers \ {active}
  /\ vers' = vers \ {v}
  /\ UNCHANGED <<active, parts, table, conf, due, thr>>

PartsChange(p) ==
  /\ p # parts
  /\ parts' = p
  /\ UNCHANGED <<active, vers, table, conf, due, thr>>

Proceeds(t) ==
  \/ Swap(t)
  \/ CheckKek(t)
  \/ \E domain \in Domain :
        \/ \E i \in Row : Detokenize(t, i, domain)
        \/ \E text \in Text :
              \/ \E op \in {"tokenize", "search"} : StartSearch(t, op, text, domain)
              \/ StartTokenize(t, text, domain)
  \/ Found(t)
  \/ FoundElsewhere(t)
  \/ NotFound(t)
  \/ Version(t)
  \/ Insert(t)
  \/ Commit(t)
  \/ Answer(t)
  \/ Fails(t)

Next ==
  \/ \E t \in Thread : Begin(t) \/ Refresh(t) \/ RefreshFails(t) \/ Proceeds(t)
  \/ \E i \in Row, domain \in Domain : RemoveToken(i, domain)
  \/ Due
  \/ NewVersion
  \/ \E v \in Ver : Cleanup(v)
  \/ \E p \in Parts : PartsChange(p)

Spec == Init /\ [][Next]_vars

-----------------------------------------------------------------------------
(* Safety.                                                                 *)

\* A token is answered, and its text is told, only to the domain it was made for, and
\* the text is the one that was stored, of whatever length.
AnswersOwnDomain ==
  \A t \in Thread : At(t, "answer") /\ Stored(thr[t].id) =>
     /\ rows[thr[t].id].domain = thr[t].domain
     /\ rows[thr[t].id].text = thr[t].text

\* With dedup a text gets a second token in its domain only if a row of another domain
\* came first in the search, or its old token is gone, or could for a while not be
\* found with the keys of the configuration.
FoundAgainInDomain ==
  \A t \in Thread : At(t, "commit") => \A i \in thr[t].had : ~Stored(i)

-----------------------------------------------------------------------------
(* Liveness.                                                               *)

\* The clock runs, requests keep coming, threads run, and not every load fails.
Fairness ==
  /\ WF_vars(Due)
  /\ \A t \in Thread : WF_vars(Begin(t)) /\ SF_vars(Refresh(t)) /\ WF_vars(Proceeds(t))

\* After an outage of the key keeper or a wrong component the servant comes back by
\* itself: once the components are right for good, it ends with the present version
\* and all genuine keys, though a slow thread may put an older configuration back.
KeysReturn ==
  <>[](parts = AllRight) => <>[](conf = Loaded)

=============================================================================
