------------------------------- MODULE Tokens -------------------------------
(***************************************************************************)
(* Tokens and the HMAC keys by which they are found again.                 *)
(*                                                                         *)
(* A card number is tokenized once: before it stores a new token, a        *)
(* request looks for the digest of the number under every HMAC key that    *)
(* its tokenizer knows.  Key officers make new HMAC keys, switch to them   *)
(* and purge the old ones; HmacProc, started by cron on every node,        *)
(* computes the digests of the stored tokens anew under the active key;    *)
(* the cleaner and the clients remove tokens.                              *)
(***************************************************************************)
EXTENDS Integers, FiniteSets, FiniteSetsExt

CONSTANTS
  Pan,          \* card numbers, which are found again
  Cvn,          \* texts shorter than 10 characters, which are not
  Host,         \* nodes: each has a tokenizer with a cached configuration
  Request,      \* concurrent requests
  Proc,         \* HmacProc processes
  Faults,       \* may the requests of HmacProc fail and its processes die?
  MaxRow,       \* bound: the last id of t_data_token
  MaxVersion,   \* bound: the highest HMAC version
  MaxKey        \* bound: the HMAC keys that are drawn

Row == 1 .. MaxRow
Ver == 0 .. MaxVersion
Key == 1 .. MaxKey
NoKey == 0           \* no HMAC_VERv_ID
NoVer == -1
Other == MaxKey + 1  \* a digest of something else than the text
None == "none"       \* no text, no host
KeyOrNone == Key \cup {NoKey}
Text == Pan \cup Cvn

ASSUME TokensAssumption ==
  /\ MaxRow \in Nat /\ MaxVersion \in Nat /\ MaxKey \in Nat \ {0}
  /\ IsFiniteSet(Host) /\ IsFiniteSet(Request) /\ IsFiniteSet(Proc)
  /\ Faults \in BOOLEAN
  /\ Pan \cap Cvn = {} /\ None \notin Text \cup Host

VARIABLES
  \* t_config, committed
  active,    \* HMAC_VERSION
  keys,      \* the key that HMAC_VERv_ID names
  \* t_data_token, committed: the text behind each token, hmac_version, and the
  \* key with which hmac_digest was computed from the text
  rows,
  lastId,    \* AUTO_INCREMENT of t_data_token
  drawn,     \* how many HMAC keys have been drawn
  purge,     \* the versions a running cleanup has found unused
  conf,      \* theTokenizerConfig of each tokenizer
  req,       \* requests: the search, then the new row; and the rows of the same
             \* text that were there when the request began
  proc       \* the HmacProc processes and their KeyAPI requests

config == <<active, keys, drawn, purge>>
table == <<rows, lastId>>
vars == <<active, keys, rows, lastId, drawn, purge, conf, req, proc>>

NoRow == [text |-> None, ver |-> NoVer, digest |-> Other]
NoRequest == [pc |-> "idle", host |-> None, text |-> None,
              first |-> NoVer, todo |-> {}, id |-> 0, row |-> NoRow, had |-> {}]
NoWork == [pc |-> "idle", target0 |-> NoVer, todo |-> {}, batch |-> 0, ver |-> NoVer]

\* The state is well typed; and cleanup never takes the active HMAC key away.
TypeOK ==
  /\ active \in Ver
  /\ keys \in [Ver -> KeyOrNone]
  /\ rows \in [Row -> [text : Text, ver : Ver, digest : Key \cup {Other}] \cup {NoRow}]
  /\ lastId \in 0 .. MaxRow
  /\ drawn \in Key
  /\ purge \subseteq Ver \ {active}
  /\ conf \in [Host -> [active : Ver, keys : [Ver -> KeyOrNone]]]
  /\ req \in [Request -> [pc : {"idle", "search", "insert", "commit"},
                          host : Host \cup {None}, text : Text \cup {None},
                          first : Ver \cup {NoVer}, todo : SUBSET Ver, id : Row \cup {0},
                          row : [text : Text, ver : Ver, digest : Key \cup {Other}]
                                \cup {NoRow},
                          had : SUBSET Row]]
  /\ proc \in [Proc -> [pc : {"idle", "batch", "convert", "check"},
                        target0 : Ver \cup {NoVer}, todo : SUBSET Row,
                        batch : Row \cup {0}, ver : Ver \cup {NoVer}]]

\* The bootstrap of sql/card_proxy_data.sql: version 0.
Init ==
  /\ active = 0
  /\ keys = [v \in Ver |-> IF v = 0 THEN 1 ELSE NoKey]
  /\ rows = [i \in Row |-> NoRow]
  /\ lastId = 0
  /\ drawn = 1
  /\ purge = {}
  /\ conf = [h \in Host |-> [active |-> active, keys |-> keys]]
  /\ req = [r \in Request |-> NoRequest]
  /\ proc = [p \in Proc |-> NoWork]

Stored(i) == rows[i] # NoRow

-----------------------------------------------------------------------------
(* A request to tokenize a text, at the tokenizer of one host.  The        *)
(* configuration is that of the process: another request may replace it at *)
(* any time.                                                               *)

\* The start of the process, and then refresh and reload: at most once in 15
\* seconds, so conf may be stale.
Refresh(h) ==
  /\ conf' = [conf EXCEPT ![h] = [active |-> active, keys |-> keys]]
  /\ UNCHANGED <<config, table, req, proc>>

\* Mutant of HmacVersions: only the active key is used.
ActiveVersionOnly(h) == {conf[h].active}

\* get_hmac_versions.  They are tried in its order: SearchVersion.
HmacVersions(h) == {conf[h].active} \cup {v \in Ver : conf[h].keys[v] # NoKey}

\* tokenize: card numbers are deduplicated, CVNs are not.
Begin(r, h, text) ==
  /\ req[r].pc = "idle"
  /\ req' = [req EXCEPT ![r] =
               [NoRequest EXCEPT
                  !.pc = IF text \in Pan THEN "search" ELSE "insert",
                  !.host = h, !.text = text,
                  !.first = conf[h].active,
                  !.todo = IF text \in Pan THEN HmacVersions(h) ELSE {},
                  !.had = {i \in Row : rows[i].text = text}]]
  /\ UNCHANGED <<config, table, conf, proc>>

\* The version that is tried next: the active one is the first, the others are in
\* ascending order.
SearchVersion(r) ==
  IF req[r].first \in req[r].todo THEN req[r].first ELSE Min(req[r].todo)

SearchKey(r) == conf[req[r].host].keys[SearchVersion(r)]

\* do_search: the rows with this digest.
Matches(r) ==
  {i \in Row : rows[i].text = req[r].text /\ rows[i].digest = SearchKey(r)}

\* The first of them is the answer.
Found(r) ==
  /\ req[r].pc = "search"
  /\ SearchKey(r) # NoKey
  /\ Matches(r) # {}
  /\ req' = [req EXCEPT ![r] = NoRequest]
  /\ UNCHANGED <<config, table, conf, proc>>

\* NoDataFound: the next version, if there is one.
NotFound(r) ==
  LET left == req[r].todo \ {SearchVersion(r)}
  IN  /\ req[r].pc = "search"
      /\ SearchKey(r) # NoKey
      /\ Matches(r) = {}
      /\ req' = [req EXCEPT ![r].todo = left,
                            ![r].pc = IF left = {} THEN "insert" ELSE "search"]
      /\ UNCHANGED <<config, table, conf, proc>>

\* The rest of tokenize, with the configuration of this moment: the digest of a
\* short text is that of a random string.
Insert(r) ==
  LET c == conf[req[r].host]
      key == c.keys[c.active]
  IN  /\ req[r].pc = "insert"
      /\ lastId < MaxRow
      /\ req[r].text \in Pan => key # NoKey
      /\ lastId' = lastId + 1
      /\ req' = [req EXCEPT
                   ![r].pc = "commit", ![r].id = lastId + 1,
                   ![r].row = [text |-> req[r].text, ver |-> c.active,
                               digest |-> IF req[r].text \in Pan THEN key ELSE Other]]
      /\ UNCHANGED <<config, rows, conf, proc>>

Commit(r) ==
  /\ req[r].pc = "commit"
  /\ rows' = [rows EXCEPT ![req[r].id] = req[r].row]
  /\ req' = [req EXCEPT ![r] = NoRequest]
  /\ UNCHANGED <<config, lastId, conf, proc>>

\* get_hmac_key throws, the DEK pool fails, the database fails: rolled back.
RequestFails(r) ==
  /\ req[r].pc # "idle"
  /\ req' = [req EXCEPT ![r] = NoRequest]
  /\ UNCHANGED <<config, table, conf, proc>>

\* remove_data_token, or delete_stale_tokens when finish_ts has passed.
Delete(i) ==
  /\ Stored(i)
  /\ rows' = [rows EXCEPT ![i] = NoRow]
  /\ UNCHANGED <<config, lastId, conf, req, proc>>

-----------------------------------------------------------------------------
(* KeyAPI, requests of the key officers, one at a time.                    *)

Versions == {v \in Ver : keys[v] # NoKey}
LastVersion == CHOOSE v \in Versions : \A w \in Versions : w <= v

\* generate_hmac
GenerateHmac ==
  /\ purge = {}
  /\ drawn < MaxKey
  /\ LastVersion + 1 \in Ver
  /\ drawn' = drawn + 1
  /\ keys' = [keys EXCEPT ![LastVersion + 1] = drawn + 1]
  /\ UNCHANGED <<active, purge, table, conf, req, proc>>

\* Officers wait until all tokenizers have loaded the new key ...
KnownEverywhere(v) ==
  \A h \in Host : conf[h].keys[v] = keys[v]

\* ... and, before cleanup, until nothing is stored under an old key.
Quiet ==
  /\ \A h \in Host : conf[h].active = active
  /\ \A r \in Request : req[r].pc = "commit" => req[r].row.ver = active

\* switch_hmac
SwitchHmac ==
  /\ purge = {}
  /\ LastVersion # active
  /\ KnownEverywhere(LastVersion)
  /\ active' = LastVersion
  /\ UNCHANGED <<keys, drawn, purge, table, conf, req, proc>>

\* Mutant of Unused: the active version may go.
UnusedOrActive == {v \in Versions : \A i \in Row : rows[i].ver # v}

\* get_hmac_use_counts: versions but the active one that no committed row has.
Unused == {v \in Versions \ {active} : \A i \in Row : rows[i].ver # v}

\* cleanup
CleanupCount ==
  /\ purge = {}
  /\ Quiet
  /\ purge' = Unused
  /\ UNCHANGED <<active, keys, drawn, table, conf, req, proc>>

CleanupCommit ==
  /\ purge # {}
  /\ keys' = [v \in Ver |-> IF v \in purge THEN NoKey ELSE keys[v]]
  /\ purge' = {}
  /\ UNCHANGED <<active, drawn, table, conf, req, proc>>

CleanupFails ==
  /\ purge # {}
  /\ purge' = {}
  /\ UNCHANGED <<active, keys, drawn, table, conf, req, proc>>

OfficersNext ==
  \/ GenerateHmac
  \/ SwitchHmac
  \/ CleanupCount
  \/ CleanupCommit
  \/ CleanupFails

-----------------------------------------------------------------------------
(* HmacProc p.                                                             *)

\* Rows under another version, and the range of ids that spans them.
Foreign(v) == {i \in Row : Stored(i) /\ rows[i].ver # v}
Span(S) == {i \in Row : (\E j \in S : j <= i) /\ (\E j \in S : i <= j)}

\* get_rehashing_task; the batches have one row each, in random order.
HmacProcTask(p) ==
  /\ proc[p].pc = "idle"
  /\ active \in Versions
  /\ Foreign(active) # {}
  /\ proc' = [proc EXCEPT ![p] = [NoWork EXCEPT !.pc = "batch", !.target0 = active,
                                                !.todo = Span(Foreign(active))]]
  /\ UNCHANGED <<config, table, conf, req>>

\* rehash_tokens loads its configuration, which may become stale at once.
RehashStart(p, i) ==
  /\ proc[p].pc = "batch"
  /\ i \in proc[p].todo
  /\ proc' = [proc EXCEPT ![p].pc = "convert", ![p].todo = @ \ {i},
                          ![p].batch = i, ![p].ver = active]
  /\ UNCHANGED <<config, table, conf, req>>

\* Mutant of Rehashed: the version is not written.
RehashedDigestOnly(row, v) == [row EXCEPT !.digest = Other]

\* rehash_token: the digest is that of the decrypted block, padding included, and
\* not of the text that tokenize and search compute it of.
Rehashed(row, v) == [row EXCEPT !.ver = v, !.digest = Other]

\* The rest of rehash_tokens: SELECT ... FOR UPDATE, convert, commit.
Rehash(p) ==
  LET i == proc[p].batch
      v == proc[p].ver
  IN  /\ proc[p].pc = "convert"
      /\ rows' = IF i \in Foreign(v)
                 THEN [rows EXCEPT ![i] = Rehashed(rows[i], v)] ELSE rows
      /\ proc' = [proc EXCEPT ![p].pc = "check", ![p].batch = 0, ![p].ver = NoVer]
      /\ UNCHANGED <<config, lastId, conf, req>>

\* check_target_version
NextBatch(p) ==
  /\ proc[p].pc = "check"
  /\ proc[p].todo # {}
  /\ proc[p].target0 = active
  /\ proc' = [proc EXCEPT ![p].pc = "batch"]
  /\ UNCHANGED <<config, table, conf, req>>

\* All batches done, the target changed or the time limit reached.
HmacProcEnds(p) ==
  /\ proc[p].pc = "check"
  /\ proc' = [proc EXCEPT ![p] = NoWork]
  /\ UNCHANGED <<config, table, conf, req>>

\* A failed or unanswered call, a crash: the batch is rolled back, if it is not
\* committed yet, and the rest is left for the next start.
HmacProcFails(p) ==
  /\ Faults
  /\ proc[p].pc # "idle"
  /\ proc' = [proc EXCEPT ![p] = NoWork]
  /\ UNCHANGED <<config, table, conf, req>>

HmacProcProceeds(p) ==
  \/ HmacProcTask(p)
  \/ \E i \in Row : RehashStart(p, i)
  \/ Rehash(p)
  \/ NextBatch(p)
  \/ HmacProcEnds(p)

RequestNext(r) ==
  \/ \E h \in Host, text \in Text : Begin(r, h, text)
  \/ Found(r)
  \/ NotFound(r)
  \/ Insert(r)
  \/ Commit(r)
  \/ RequestFails(r)

Next ==
  \/ \E h \in Host : Refresh(h)
  \/ \E r \in Request : RequestNext(r)
  \/ \E i \in Row : Delete(i)
  \/ OfficersNext
  \/ \E p \in Proc : HmacProcProceeds(p) \/ HmacProcFails(p)

Spec == Init /\ [][Next]_vars

-----------------------------------------------------------------------------
(* Safety.                                                                 *)

\* A request gives a card a new token only if it had none when the request began,
\* or those it had are gone or were rehashed: whatever keys are made, switched
\* to and purged meanwhile, every other token is found.
FoundAgain ==
  \A r \in Request : req[r].pc = "commit" /\ req[r].text \in Pan =>
     \A i \in req[r].had : Stored(i) => rows[i].digest = Other

\* tests/web_api_tests.py: assertEqual(orig_card_token, dup_card_token).  A card
\* that has a token is given no other.
SameToken ==
  \A r \in Request : req[r].pc = "commit" /\ req[r].text \in Pan =>
     \A i \in req[r].had : ~Stored(i)

-----------------------------------------------------------------------------
(* Liveness.                                                               *)

\* Cron starts HmacProc again and again; batches in random order with a time limit
\* all get their turn, and none of them fails every time.
Fairness ==
  \A p \in Proc :
     /\ WF_vars(HmacProcProceeds(p))
     /\ \A i \in Row :
           SF_vars(RehashStart(p, i)) /\ SF_vars(proc[p].batch = i /\ Rehash(p))

\* card_proxy_keyman.py: 'don't forget "cleanup" after rehashing': rehashing ends,
\* though its requests fail and its processes die.  When officers stop switching,
\* all tokens come under the active version, those stored meanwhile under an old
\* one included, so that cleanup finds the old versions unused.
AllRehashed ==
  \A v \in Ver :
     <>[](active = v) => <>[](Foreign(v) = {})

=============================================================================
