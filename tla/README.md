# Formal models of card-proxy

TLA+ models of the tokenizing proxy in `src/`: TLC checks them on small
instances, TLAPS proves theorems about them for every instance.
References are to files of the repository; line numbers are in
`PROJECT.json` (`map`).

## 1. The system

A client sends a request with a card number (PAN) or a CVN to the proxy, which
replaces it by a token and forwards the rest, or the other way round. The card
data is stored in `t_data_token`, encrypted under a data encryption key (DEK) of
`t_dek`, which is encrypted under a key encryption key (KEK). A KEK exists
nowhere as a whole: three random parts of it, combined by XOR, are in the memory of
the key keeper, in an XML file of each host and in `t_config`. Three officers
rotate KEKs, and HMAC keys, through KeyAPI; cron jobs on every node
re-encrypt the DEKs, rehash and clean the tokens.

| Component | State | Operations | Talks to |
|---|---|---|---|
| Proxy servant (`tokenizer/`) | none of its own | incoming and outgoing tokenize / detokenize / forward, service and debug methods | Tokenizer, upstream |
| Tokenizer (`xxcommon/tokenizer.cpp`, `card_crypter.cpp`) | rows of `t_data_token`, in a session of the request | search, tokenize, detokenize, remove | DEK pool, TokenizerConfig |
| DEK pool (`xxcommon/dek_pool.cpp`) | rows of `t_dek`; a list and row objects private to the request | get_active_data_key, generate_enough_deks, get_stat | database row locks |
| TokenizerConfig (`xxcommon/tokenizer.cpp`) | singleton of the process, reloaded after 15 s: KEKs, HMAC keys, versions, checks | refresh, reload, get_master_key, is_kek_valid, ... | key keeper, XML file, `t_config` |
| KeyAPI (`keyapi/`) | rows of `t_config`, `t_dek`, `t_data_token` | generate_kek, generate_hmac, get_component, confirm_component, reset_target_version, switch_kek, switch_hmac, cleanup, reencrypt_deks, rehash_tokens, status | key keeper, ConfPatch of each host |
| Key keeper (`keykeeper2/`) | items in memory, peer URIs, time of the last refresh | get, set, unset, cleanup, read, write, ping | its peers |
| ConfPatch (`confpatch/`) | the XML file of the host | get, set, unset, cleanup, each followed by a restart of the servants | sudo helper |
| KeyProc, HmacProc, Cleaner (`service/`) | a list of batches, for one run of at most 40 s, started by cron each minute on each node, without a lock between them | reencrypt_deks / rehash_tokens / remove_token | KeyAPI, tokenizer |
| keyman (`service/card_proxy_keyman.py`) | none | the officers' dialogue | KeyAPI |
| SecVault (`secvault/`) | `t_secure_vault`, `t_vault_user` | store, search, remove tokens of domains, behind users | Tokenizer code |
| Request wrapper (`xxutils/servant_utils.cpp`) | one session and transaction per request | authenticate, call, commit, restart once after a database error | every servant |
| HTTP server and client, sockets | threads of the server | parse, dispatch, collect dead threads | - |
| Ciphers, encodings, configuration, logging | none that requests share, start-up | AES, padding, BCD, Base64, hex, Luhn | libraries |

Behaviours that are hard to test, the reason for the choice of models:

* requests of several processes race for the rows of `t_dek` with lists that are
  stale, wait for each other, deadlock, are rolled back and restarted;
* a KEK rotation has steps in four places and no transaction over them: a call may
  fail after the key keeper was told, and before the rows are committed;
* version numbers return after a purge, while caches, files and running requests
  have keys of the first KEK of that number;
* several KeyProcs run at once and decide on a target loaded before they lock rows;
* key keepers keep everything in memory, replace each other's storage by pushes, and
  merge answers read before those pushes;
* 15 second caches over the officers' decisions, shared by the threads of a servant and replaced while
  they work with them;
* clients that send a part of a request, stall or go away; threads that cannot be started; a database whose
  answer to a commit is lost, and a wrapper that restarts the request after it;
* handlers that commit themselves before the wrapper does, or tell other servants what is then rolled back;
* upstreams that break off in their answer, and tokens that expire while requests hold them.

What makes each component correct:

* *DEK pool*: no DEK is used beyond its limit; a request always ends; no division
  by the length of an empty list.
* *Rotation* (KeyAPI, KeyProc, ConfPatch, TokenizerConfig): every DEK is decryptable on
  every host and under a confirmed KEK; the active KEK is intact; no cache has
  a wrong key; re-encryption ends.
* *Key keeper*: no part is lost over restarts; all keepers come to hold all parts.
* *Tokens*: a card number has one token, the token leads to the card number and to
  nothing else, over rehashing, key changes and cleaning.
* *Proxy*: card data goes to the upstream as tokens only; a token expands to what was sent for it, and stays until
  the card expires; the client is told what the upstream decided.
* *SecVault*: a token is answered to its domain only; with dedup a text is found again in its domain; after an outage
  of the keys the servant comes back by itself.
* *HTTP server, wrapper*: handlers run on whole requests only; the answer tells what was committed, as far as the kind
  of method allows; connections end, and threads are collected.
* *Encodings*: decoding undoes encoding, for texts of every length around the size of a block.

## 2. Modules

| Module | Models |
|---|---|
| `DekBudget` | abstract: counters and ciphertexts of DEKs move together, up to a limit |
| `DekPool` | `dek_pool.cpp` under `Tokenizer::use_dek`, with transactions, row locks, deadlocks, restarts and expiry; refines `DekBudget` |
| `DekPoolProofs` | TLAPS proofs about `DekPool` |
| `MCDekPool` | instances of `DekPool` |
| `KekRotation` | the life of KEKs: officers' requests of KeyAPI, ConfPatch, KeyProc, the cached configuration and the new DEKs of the tokenizers |
| `KekRotationProofs` | TLAPS proofs about `KekRotation` |
| `MCKekRotation` | instances of `KekRotation` |
| `KeyKeeper` | `key_keeper_logic.cpp`: requests, pushes, fetches, restarts |
| `KeyKeeperProofs` | TLAPS proofs about `KeyKeeper` |
| `MCKeyKeeper` | instances of `KeyKeeper` |
| `Tokens` | `tokenizer.cpp` with the HMAC keys: search and deduplication, the HMAC operations of KeyAPI, HmacProc, removal |
| `TokensProofs` | TLAPS proofs about `Tokens` |
| `MCTokens` | instances of `Tokens` |
| `Codecs` | pure: padding, BCD, ECB and CBC, hex, Base64, the normal form of card numbers; used by `Proxy` and `Vault` |
| `CodecsProofs` | TLAPS proofs about `Codecs` |
| `Proxy` | the proxy methods: from the parameters of a request to the answer of the upstream, removal, the cleaner |
| `ProxyProofs` | TLAPS proofs about `Proxy` |
| `MCProxy` | instances of `Proxy` |
| `Vault` | `secvault/`, over a configuration that the threads of the servant share and replace |
| `VaultProofs` | TLAPS proofs about `Vault` |
| `MCVault` | instances of `Vault` |
| `Servant` | `micro_http.cpp` and `servant_utils.cpp`: connections, threads, reading, dispatch, transaction, restart, answer |
| `ServantProofs` | TLAPS proofs about `Servant` |
| `MCServant` | instances of `Servant` |

The modules divide the system by the state that is shared: the rows of `t_dek` (`DekPool`), the keys
(`KekRotation`, `KeyKeeper`), the tokens and their digests (`Tokens`), the life of one token (`Proxy`), the cache of a
process (`Vault`), the connections of a process (`Servant`). Each takes what the others promise as an
assumption, named below.

### DekPool

*State.* `counter`, `state`, `issued` are committed rows (`issued` is a history
variable: the ciphertexts stored); `lock` the row locks; `cache` is `active_deks_`;
`seen` the counters of the row objects in the identity map of the session; `made` and
`spent` what the transaction has inserted and encrypted. `state` is *current* while
`finish_ts > now` and *finished* afterwards (use_dek sets finish_ts when the
counter reaches its limit).

*Actions.* `Begin`; `EnoughDeks` and `GenerateNewDeks` are the two outcomes of
generate_enough_deks; `Choose` the random pick; `UseDek` and `RetryChoice` are
lock_and_refresh followed by the two outcomes of the test, with use_dek in the
same step (the row is locked, no other session sees anything between);
`Commit`, `Restart`, `GiveUp` the ends of the request in the wrapper;
`DeadlockVictim` is the database; `Expire` the clock.

*Assumptions.* A read in a session returns the row object if that object is dirty or
new, and otherwise reads the row (`ReadCounter`; the identity map of Yb::Session).
Row locks and deadlock detection are InnoDB's. Dek/UseCount and Dek/MinActiveLimit are at
least 1. Ids are auto-increment and never reused (`FreshIds`).

### KekRotation

*State.* `active`, `target`, `part3`, `checked` are rows of `t_config`; `dek` those of
`t_dek`, where `gen` is the KEK `dek_crypted` was really made with; `part1`, `part2`
the other places; `job` the officer's request in progress; `proc` each KeyProc with its
request; `conf` the cached configuration of each tokenizer and `draft` its uncommitted
DEK. A run of generate_kek draws three parts; its number, the *generation*, stands for
them, so parts combine if they are of one generation and the control code of
`t_config` tells whether they do.

*Actions.* One `...Start` per officer's request: the checks it makes on the configuration
it loads and the decision. Then the calls in the code's order (`CallKeeper`, `PatchHost`
for each host) and the commit. `JobFails` may end it between any two of them.
`KeyProcTask`, `ReencryptStart`, `Reencrypt`, `NextBatch`, ... are the loop of
`card_proxy_keyproc.py` and the two halves of reencrypt_deks: the configuration is
loaded before the rows are locked.

*Assumptions.*
* One officer's request at a time: keyman is used by hand.
* `Patient`: officers run cleanup when KeyProc, the tokenizers' caches and their open
  transactions are done with the old KEK (`Quiet`), and generate_kek when no
  reencrypt_deks request is running. With `Patient = FALSE` a DEK is committed under a purged
  KEK (section 5). The second matters because of the returning version numbers: a request
  that loaded its keys before a purge and runs after the next KEK was confirmed would
  write with the wrong key.
* A load reads the database at once; with `Faults` it may miss any of the keys.
* One logical key keeper (`KeyKeeper` is about the several).
* Writing the XML file and restarting the servants of that host is one step; the
  failing restart is another outcome of it. Other servants of the host share the file
  and are not told apart from the tokenizer.
* A handler of a callee that runs on after the caller gave up is not modelled.
* An XML method that is restarted is a failed one and a new one.
* A batch has one row. (Batch size is 1000; larger ones are planned.)
* get_versions includes incomplete versions, as its default argument says.
* The tokenizer is built with TOKENIZER_CONFIG_SINGLETON.

### KeyKeeper

*State.* `storage` maps ids to the create_ts of their items; a set draws new data, so the
create_ts identifies them. `peers` is `peer_uris_`, from which a keeper drops its own
URI once it has recognised itself. `fetch` is the update in progress: `todo`, and the answer
that has been read and not yet applied, so that anything may happen in between. `net` has
the writes pushed to peers.

*Actions.* `Set`, `Unset`, `Cleanup`, each with its pushes; `Write`, `WriteFails`;
`StartFetch`, `ReadPeer`, `ReadFails`, `ApplyUpdate`; `Restart`.

*Assumptions.* `Careful`: KeyAPI waits for the answer before it sends the next request, sends it
to a keeper that has recovered, and a keeper is restarted only when the others have recovered.
`Rewrites = FALSE`: an id is set once, as generate_kek does within one series of versions.
One fetch at a time per keeper, and pushes in any order (the code has them in
sequence: a subset).

### Tokens

*State.* `active`, `keys`, `purge` are the HMAC rows of `t_config` and a cleanup in progress;
`rows` is `t_data_token`, where `digest` is the key with which the digest of the text was
computed, or `Other` for a digest of something else. `conf` is the cached
configuration of each tokenizer, `req` each request with the search it is in, `proc` each
HmacProc with its rehash_tokens request. `had` is a history variable: the rows of the
same card when the request began.

*Actions.* `Begin`, `Found`, `NotFound`, `Insert`, `Commit`, `RequestFails` are tokenize; every step of the
search reads the configuration of the process again, as get_hmac_key does. What it has still to try is the set
`todo`, from which `SearchVersion` takes the next one: the active version first, then the others upwards. `GenerateHmac`, `SwitchHmac`,
`CleanupCount`, `CleanupCommit` are the officers'. `HmacProcTask`, `RehashStart`, `Rehash`, `NextBatch`,
`HmacProcEnds` are the loop of `card_proxy_hmacproc.py` with the two halves of rehash_tokens. `Delete` is remove_data_token
or the cleaner, whose window of ten days is left out.

*Assumptions.*
* Officers switch to a key when every tokenizer has it in its cache (`KnownEverywhere`), and clean up when the caches
  know of the switch and no transaction holds a row under an old version (`Quiet`). Without either `FoundAgain` fails.
* generate_hmac and switch_hmac are one step each, because officers work one at a time; only the gap between the
  counts and the commit of cleanup matters to the others.
* All HMAC keys can be decrypted when they are loaded (whether the DEK and KEK are there is `KekRotation`).
* A request stores one text. get_token makes a CVN token and then a PAN token in one transaction: two rows that
  do not depend on each other.
* Reads see the latest committed rows. In one session of the database a plain read may be as old as the first one of the
  transaction; locking reads, which the counters and rehashing use, are not.
* With `Faults` a request of HmacProc fails, or the process dies, at any point.
* The id of a row is allocated when it is inserted and is not reused. A batch has one row.

### Codecs

Operators on sequences of bytes, from `aes_crypter.cpp`, `utils.cpp`, `card_crypter.cpp` and `tokenizer.cpp`:
`Pkcs7Encode`, `BcdEncode` (a set: the padding is random digits), `Encrypt` and `Decrypt` in both modes, `EncodeBase64`,
`DecodeBase64`, `NormalizePan`. Each says what the bytes of its result are, not the loop that appends them; CBC, where a
block depends on the one before, is a recursive function of the number of the block. The block cipher is a permutation of the blocks that depends on the key.
`Proxy` and `Vault` store the encoded and decode the stored text, so their invariants compare the two
conversions: `ExpandsToOriginal` for BCD and ECB, `AnswersOwnDomain` for PKCS7 and CBC.

### Proxy

*State.* `rows` is `t_data_token` with data_crypted, the text of the digest and finish_ts; `req` each request: the
parameters that came, those that go on, and what comes back. `given` (what the upstream knows
of a token), `removed` and `late` are history variables.

*Actions.* `Begin`; `PassOn`, `TokenizeCvn`, `FoundCard`, `TokenizeCard` are incoming__fix_params with get_token,
`Expand` authorize__fix_params with get_card; `Commit`, `CommitUnanswered`, `Fails` the wrapper; `Forward`,
`Completes`, `TransferFails`, `SendReply` http_post and convert_response; `RemoveCard`; `Clean`, `Tick` the cleaner and
the clock.

*Assumptions.*
* A tick is longer than a request, and longer than the 16 minutes of a CVN's token.
* A search may miss a row, as the digest may be of a key this host does not know (`Tokens`).
* Each token has a DEK of its own; KEKs and DEKs are found (`KekRotation`, `DekPool`).
* Cron starts the cleaner every minute, so it is never down for the ten days of its window.
* Texts of messages are whatever passes the HTTP parser; their other parameters go on unchanged.
* An answer has at least one status line, and before the last one only interim ones (100 Continue).

### Vault

*State.* `active`, `vers` are the HMAC rows of `t_config`, `parts` what the components of the KEKs are
like in the places they are loaded from. `rows`, `lastId` are `t_secure_vault`; `conf` is theTokenizerConfig, `due`
whether its ts_ is 15 seconds ago; `thr` the threads with their requests. `had` is a history variable: the
rows of the text and domain that could be found ever since the search began.

*Actions.* `Begin`, `Refresh`, `RefreshFails`, `Swap` are TokenizerConfig::refresh and reload in one thread while the others
go on; `StartSearch`, `StartTokenize`, `Found`, `FoundElsewhere`, `NotFound`, `Version`, `Insert`, `Commit`
are search_token and tokenize with and without dedup (`todo` is the set of versions still to try, in the order of
`SearchVersion`); `Detokenize`, `RemoveToken`, `CheckKek`, `Answer`, `Fails` the
rest of the methods; `NewVersion`, `Cleanup`, `PartsChange` are the surroundings.

*Assumptions.*
* One servant. Others share only the table, and act on it as `RemoveToken` and the threads of this one do.
* A number of an HMAC version is not drawn again (`Tokens` has that). The DEK of each row is its own.
* There are two KEKs: the first HMAC key is still encrypted with the previous one. A component is right, wrong or
  missing. A KEK put together from wrong components is used for HMAC keys all the same, as in the code; only a
  valid one is used for DEKs.
* `RemoveToken` needs no thread: it may be in this servant or in another.
* Who has which role is left out: any request may be refused (`Fails`).
* The threads of `Checker` only serve check_kek: enough to replace the configuration at any time.

### Servant

*State.* `thread` is the thread of each client: where it is, its message, how much it has read, the attempt, the
code of its answer, and `done`, what no rollback undoes: how often work was committed for it (`effects`), how often
other servants were told of it (`told`), and whether the answer to a commit was lost (`unsure`).
`socket` is the server's side of the connection, `server` the thread of serve(), `dead` and `unstarted` the objects of
`workers` that have finished or never began, `due` whether five seconds have passed since prev_clean_ts.

*Actions.* `Connect` is the client's; `Accept`, `AcceptFails`, `StartWorker`, `StartFails`, `CleanupWorkers` are serve();
`ReadRequestLine`, `ReadHeader`, `ReadBlankLine`, `ReadByte`, `ShortRead`, `Timeout`, `Dispatch`, `SendResponse` are
process_client_request, item by item; `CheckAuth`, `HandlerReturns`, `WithoutDatabase`, `HandlerThrows`, `PlainMethod`,
`Commit`, `CommitFails` are the wrapper.

*Methods* differ in what of their work the wrapper's transaction covers (`Path`):

| Kind | Methods | What a failure may leave |
|---|---|---|
| `xml` | SecVault, the debug methods of the proxy servant, KeyAPI but for the next two rows | nothing, if the answer to the commit is not lost |
| `batch` | rehash_tokens, reencrypt_deks | they commit themselves: when the wrapper's own commit fails, the batch that is committed is run again |
| `remote` | generate_kek, cleanup | what key keeper and hosts were told before a later call, or the commit, failed |
| `secured` | the key keeper | nothing: the work is the last that can fail |
| `patch` | ConfPatch | its answer is 200 whether it did its work or not, and the body says which |
| `plain` | the proxy | they commit themselves and are not restarted: all that was committed before the failure |

*Assumptions.*
* Yb::Thread is not in the repository. The object of a thread that was never started counts as running, so it stays
  in the list: the worse of the possible cases.
* A line is well formed or one of the kinds of malformed ones; a body is a number of bytes.
* The number of header lines is up to the client; `select` guards reads only, so a write may block, for which
  the fairness of `Work` assumes that a client takes its answer or closes.
* The work of a handler is one commit and one round of calls to others; a remote handler that throws may have told all of
  them, some or none. What the client reads in the body of a 200 is left out.

## 3. Runs

| Run | Instance | Shows |
|---|---|---|
| `dek_pool` | 3 DEKs in any state, 2 sessions, 3 requests of 1 or 2 encryptions, limit 2 | TypeOK, UseBound, NeverChooseFromNothing, refinement of DekBudget |
| `dek_pool_live` | 2 worn DEKs and 2 new ones, 2 requests | every request ends |
| `dek_pool_expiry` | as above, 1 request, with expiry | **violated**: endless retry |
| `kek_rotation` | 2 hosts, 2 versions, 3 generations, 2 KeyProcs, faults | TypeOK, Decryptable, OnlyConfirmed, CacheGenuine, ActiveIntact |
| `kek_live` | 2 DEKs, no faults | TargetReached, GenerateDistributes |
| `key_keeper` | 2 keepers, 2 ids, 1 restart, 1 failed call | TypeOK, NeverLost, SetDistributes, AllRecover |
| `key_keeper_rewrite` | an id is set twice | **violated**: SetDistributes |
| `tokens` | 1 card, 1 CVN, 2 hosts, 1 request at a time, 1 HmacProc with faults, 2 rows, 2 versions, 3 keys | TypeOK, FoundAgain, AllRehashed |
| `tokens_rehash` | 1 card, 1 request, 1 HmacProc | **violated**: SameToken |
| `proxy` | 2 requests, 2 tokens, 6 messages, 5 answers, blocks of 2 bytes, card numbers of 2 to 4 digits, a window of 2 ticks | TypeOK, OpaqueUpstream, KeptUntilExpiry, ExpandsToOriginal, AnswerIsUpstreams, StaleAreCleaned |
| `vault` | 2 threads, one of which only serves check_kek, 2 domains, 2 rows, 2 versions, components right or wrong for the previous KEK | TypeOK, AnswersOwnDomain, FoundAgainInDomain, KeysReturn |
| `servant` | 2 clients, 13 kinds of requests of the one and 3 of the other, each cut anywhere, 2 finished threads, 1 failed start | TypeOK, OnlyWholeRequests, AnswerTellsEffect, OpenIsServed, EveryConnectionEnds, DeadAreCollected |

Bounds, and why the cases happen within them:

* `DekPool`: with a limit of 2, two requests with two encryptions each over the same DEKs pass through all the
  relations between counter, stale list and limit; three DEKs suffice for two to be exhausted or expired and two
  new ones made; two sessions are the smallest deadlock. The initial states are all those an earlier history of
  the table can leave.
* `KekRotation`: two versions and three generations let a version number be used, purged and used again; two hosts let a
  request fail between them; two KeyProcs let one go on with keys and a target the other has moved past. The confirmations are
  independent, so two officers stand for the code's three in the largest run. One DEK suffices for the invariants, which
  speak of one DEK each; two for progress over batches.
* `KeyKeeper`: two keepers and two ids let a push, a fetch and a restart interleave over two items.
* `Tokens`: three keys in two versions let a version number be purged and come back with another key; two hosts let one lag
  behind a switch while the other stores; two rows let a second token appear beside the first. One request at a time, on
  either host: concurrent requests meet only in the rows and caches, which the other host, HmacProc and removals change
  under a request in all ways another one could, and `FoundAgain` compares with the rows that were there when the
  request began. One card, as cards do not meet each other; the CVN is there because it is rehashed and never found.
* `Proxy`: two requests and two tokens let one request make a token, or remove the row, while another uses it. Blocks of two
  bytes are enough for a card number that does not fill its block and has to be padded, as in the code. The messages are a card
  with its CVN, the same card with white space and a later date, a fake card, a malformed one, a CVN alone and a request
  without card data; the answers have one or two status lines, with and without a reason phrase.
  With a window of two ticks and three ticks of time a token passes from valid to stale to missed by the cleaner.
* `Vault`: two threads suffice for one to replace the configuration in the middle of the other's request, and to put an older
  one back. Two versions let the active one change between two reads of a request; two domains meet in the search. The text
  fills its block, so that the padding needs another. A wrong component is the case that differs from a missing one: a key is
  there, and is not the genuine one.
* `Servant`: clients share the server's thread and its list only, which two are enough to show. One
  sends a request for each kind of method and for each place where one is refused, two of them with a continued header line
  and a body, and any may be cut after each item. What the other does is seen by the first in serve() only: it sends a
  request with every part to wait for, one that can be restarted, and one that is refused. Two finished threads let one
  be collected while another ends.

Fairness, and why the code justifies it:

* `DekPool`: weak for the steps of a thread and for the database's deadlock detection; strong for each choice of a
  DEK, because rnd picks uniformly from the list. No fairness on new requests or on failures.
* `KekRotation`: weak for KeyProc, started by cron every minute; strong for each row's batch: the batches are
  shuffled, so each has its turn although runs end at their time limit. None for officers or tokenizers: what they do
  is up to them.
* `KeyKeeper`: weak for fetches (cron pings every keeper, and a ping updates when refresh_interval_ has passed) and for the
  delivery of writes. Failures are bounded, so that a call succeeds sometime.

* `Tokens`: weak for HmacProc, started by cron every minute; strong for each row's batch, for the same reason as KeyProc, and
  for the second half of its request: not every attempt at a batch fails. None for officers, requests or removals.
* `Vault`: weak for the clock, for new requests and for the steps of threads; strong for each thread's load: not every load
  fails. `KeysReturn` assumes besides that the components are right from some time on. None for officers.
* `Servant`: weak for serve(), for the clock and for the work of each thread, of which the timeout of select() is a part; none
  for what clients send. That clients keep connecting is assumed for `DeadAreCollected`: serve() looks for finished threads
  only after it has accepted another connection.
* `Proxy`: none; its properties are safety properties.

## 4. What is proved

### The DEK pool

`DekPoolProofs`, for any set of DEKs and sessions, any limits and any number of requests, from
`DekPoolAssumption` only:

* `Accounting`: `Spec => []PoolInv`,
* `TypeCorrect`: `Spec => []TypeOK`,
* `UseBounded`: `Spec => []UseBound`,
* `ListNotEmpty`: `Spec => []NeverChooseFromNothing`,
* `PoolImplementsBudget`: `Spec => Budget!Spec`.

`UseBound` is not inductive: a commit writes the counter of a row object, which is right only if nobody
else has committed to that row since it was read. `PoolInv` says why that is so:

* `Accounted`: the committed counter equals the ciphertexts stored and is within the limit;
* `WritesLocked`: whatever a transaction has used or inserted it has locked, so no two have written the same row;
* `WritesExact`: for those rows the counter of the row object is the committed one plus its own uses, within the limit;
* `RequestsWellFormed`: a request that waits for a row has picked one, and has encryptions left to make.

There is one lemma per action, and `NextInv` puts them together. `NeverChooseFromNothing` is inductive by itself: the
sum over an empty list is 0 (`NoneUnused`), which is below the limit. The refinement adds
`StepBudget`: a commit is a step of `DekBudget`, everything else a stutter.

### The servant

`ServantProofs`, for any set of clients and messages with any number of header lines and bytes, and any bounds, from
`ServantAssumption` only:

* `TypeCorrect`: `Spec => []TypeOK`,
* `HandledWhole`: `Spec => []OnlyWholeRequests`,
* `AnswersTrue`: `Spec => []AnswerTellsEffect`,
* `NoLeak`: `Spec => []OpenIsServed`.

None of the last three is inductive. That a handler has a whole request follows only from what every reading step
has left behind; what an answer of a second attempt says, only from what the first attempt can have left behind for that kind
of method; that an open connection has a thread, only from serve() having a connection in its hands exactly
while it starts one. `ServantInv` adds:

* `WellRead`: how much of the message each point of the reading stands for, and that what was read is well formed;
* `WellCounted`: what may have been done at each point of the wrapper. When a handler is called (`Callable`), a first attempt has
  done nothing, and a second has something of the first in the database only if the answer to a commit was lost or
  it is a batch; when one has returned (`Returned`), a batch is committed and a remote one has told the others once more often
  than it was committed; at the answer (`Honest`) this is what the client may conclude;
* `OpenRuns`: a connection is open exactly when its thread is there;
* `StartsAccepted`: what serve() starts is the connection it has accepted, and no other thread is new.

There is one lemma per action, put together by `ThreadStep`, `ConnectionStep` and `ServerStep`.

### The key keepers

`KeyKeeperProofs`, for any finite set of keepers, any ids and any bounds:

* `TypeCorrect`: `Spec => []TypeOK`, from `KeyKeeperAssumption` only,
* `NothingLost`: `Spec => []NeverLost`,
* `SetReachesAll`: `Spec => []SetDistributes`.

The last two assume `Operating`: each keeper has another one, `Careful` holds, and `Rewrites` does not (with it `SetDistributes`
fails, see `key_keeper_rewrite`). Neither property is inductive, as a push replaces a whole storage and an answer read
before it is applied after it. `KeeperInv` adds:

* `OneItem`: of each id only one item is ever about, so that no answer can bring back an older one;
* `PushesComplete`: a storage that is pushed has all parts, because its keeper had recovered;
* `SomeoneHolds`: each part is in a memory, not only under way;
* `PeersKept`: a keeper drops no URI but its own;
* `ReachesAll`: who has not got a part is about to be given it, as long as nothing failed.

`ChangeInv` is what set, unset and cleanup have in common, `ReadInv` the steps of a fetch before an answer is applied.

### The KEKs

`KekRotationProofs`, for any numbers of hosts, KeyProcs, DEKs, officers, versions and generations, from the assumptions of
`KekRotation`:

* `TypeCorrect`: `Spec => []TypeOK`,
* `InvariantHolds`: `Spec => []KekInv`, if officers are `Patient`, and from it
* `AllDecryptable`, `AllConfirmed`, `CachesGenuine`, `ActiveStays`: `Spec => []Decryptable` and the same for `OnlyConfirmed`,
  `CacheGenuine`, `ActiveIntact`,
* `GenerateSucceeds`: `Spec => GenerateDistributes`, if nothing fails (`~Faults`) and no secret is set (`~Secret`), patient
  or not.

Without `Patient`, `Decryptable` is false (section 5). The theorems allow `Faults`, and all but
the last `Secret`: a request may then fail between any two of its steps, and a load may miss any key.

Four properties of committed data follow from what uncommitted data may refer to. A version is *settled* when its three
parts are of one generation on every host, and *confirmed* when all officers said so. `KekInv` is `TypeInv` and

* `RowsConfirmed`, `TokenizersConfirmed`, `ProcsConfirmed`: the active version, every row of `t_dek`, every open transaction, the
  active version of every cache and of every conversion that is under way are confirmed, and all keys held
  anywhere are the genuine ones, or missing;
* `Distributed`, `Distributing`: generate_kek tells the key keeper first, then the hosts, then the database; so once the
  parts 1 and 3 agree, no host lags behind;
* `Generating`: until it commits nobody has the version it makes, although the number may be that of a purged KEK which caches
  and requests once had;
* `Cleaning`: from the counting on, whatever can still become a row refers to the active version, and the versions to be purged
  are other ones;
* `Deciding`: what a request found on the configuration it loaded still holds when it commits.

The hard step is that cleanup and generate_kek meet caches and conversions that began before them: `Cleaning` and `Generating`
say that those which could harm are over (that is what patience is for) and that those which begin later cannot.

### The tokens

`TokensProofs`, for any texts, hosts, requests, HmacProcs, rows, versions and keys, from the assumptions of `Tokens`:

* `InvariantHolds`: `Spec => []TokensInv`,
* `TypeCorrect`: `Spec => []TypeOK`,
* `CardsFoundAgain`: `Spec => []FoundAgain`.

`FoundAgain` looks at a request that is about to store a second token. That it does not follows from what every step of the search
has left to try, under a configuration that may be replaced between two of them. `TokensInv` adds:

* `ActivesKnown`, `RowsLasting`: every digest, stored or about to be, is one of a version that all nodes have the same key
  for, and that the cleanup in progress does not purge; so are the versions that nodes take for the active one;
* `Searching`: while a row that was there when the search began can be found, the search has not ended, and the version of the
  row is among those to try;
* `IdsDrawn`, `RequestForm`, `ProcForm`: an id is drawn once, so a row that appears during a search is not one of those that
  were there; a row does not change its text.

### The encodings

`CodecsProofs`, for texts of every length, blocks of any size and any key:

* `NormalForm`: what normalize_pan accepts becomes a card number, of digits only;
* `NumbersReturn`: BCD with its random padding, ECB and BASE64, and back, give the number; any text that is not empty gives digits, and valid BASE64;
* `TextsReturn`: PKCS7, CBC and BASE64, and back, give the text.

The library's induction theorems take a predicate as a parameter, which the provers cannot give them. `Induction` is the same
for a set of numbers, from the fact that a set of numbers that is not empty has a least element (`HasLeast`), and `Recursion` is
what it gives for recursive functions, of which there are two: the digits of normalize_pan, and the chain of CBC. The rest is the arithmetic of the bits:
four sextets and three bytes (`Base64RoundTrip`), two digits and a byte (`BcdRoundTrip`), XOR twice (`XorBack`).

### The proxy

`ProxyProofs`, for any requests, messages, answers, tokens and bounds, from the assumptions of `Proxy` and the theorems above:

* `OnlyTokensLeave`: `Spec => []OpaqueUpstream`,
* `TypeCorrect`: `Spec => []TypeOK`,
* `TokensKept`: `Spec => []KeptUntilExpiry`,
* `TokensExpand`: `Spec => []ExpandsToOriginal`,
* `AnswersTrue`: `Spec => []AnswerIsUpstreams`,
* `StaleGo`: `Spec => []StaleAreCleaned`.

The invariant has four parts.

* `ProxyInv`: what is sent was prepared several steps before. How much has been replaced at each of them (`Replaced`):
  nothing before the first, the CVN between the two, both texts at the commit; the parameters are those of a message (`Fields`).
* `WellFormed`: the tables hold rows that can be decoded (`GoodRow`), and a request has at each point the tokens, the
  parameters and the answer that belong there (`Formed`).
* `TimeInv`: a request takes no longer than a tick (`Timely`), and the cleaner's window covers what expired since it ran
  (`Expiring`); a token that a request has made is its own until it commits (`Fresh`); a token that a request is about to give
  away (`Promised`), and one that an upstream has (`Kept`), is stored until the card expires, unless it was removed or the
  card was renewed (`Held`). The promise begins when the row is found or made, steps before the upstream gets it, and
  has to outlast the cleaner, removals and commits of others.
* `TextInv`: there is a function from tokens to texts that agrees with every row, every row to be committed, every request on its
  way in or out, and everything the upstreams were told. A new token changes it for that token only, of which nothing else is
  known.

### The vault

`VaultProofs`, for any threads, texts, domains, rows, versions and components of the KEKs, from the assumptions of `Vault` and the
theorem `TextsReturn`:

* `InvariantHolds`: `Spec => []VaultInv`,
* `TypeCorrect`: `Spec => []TypeOK`,
* `OwnDomainAnswered`: `Spec => []AnswersOwnDomain`,
* `DedupFinds`: `Spec => []FoundAgainInDomain`.

`VaultInv` says why a thread may rely on what it found some steps ago:

* `Tables`, `Threads`: what is stored is the text, encrypted, and a digest of the version the row names; a thread has at each point
  what belongs there (`RowOf`, `Formed`);
* `Drawn`: a row about to be committed is not stored, and no search or answer is about its id; so a row that a thread knows
  is the same row until it is removed;
* `Sought`: as long as one of the rows is stored that could be found all the time, the search goes on and has yet to
  try the version of that row, with a key that is the one of its digest.

`LocalInv` is what all steps of one thread have in common that leave the tables alone. The hard step is `SwapInv`, where one thread
replaces the configuration under the searches of all others.

### Only model-checked

Every safety property of the runs is proved. Liveness is outside the prover's reach, as is ENABLED: `EveryRequestEnds`,
`TargetReached`, `AllRecover`, `AllRehashed`, `KeysReturn`, `EveryConnectionEnds`, `DeadAreCollected` are model-checked only.

## 5. Findings

* `dek_pool_expiry`: if a DEK of the list expires while its row object still promises uses, get_active_data_key
  picks it and rejects it without end: the list is refilled only when empty or promising too little.
* `key_keeper_rewrite`: apply_update looks the item's id up among the peer URIs, so an older item replaces a newer one.
* `tokens_rehash`: rehash_token computes the digest of the padded block, so a card whose token was rehashed is given a second one.

Met on the way, without a run:

* confirm_component with an explicit version passes through the branch of kek_auth that replaces it by the target version.
* cleanup counts the committed rows only: with officers who do not wait (`Patient = FALSE`) a transaction that is open, or
  starts with a cached configuration, commits a DEK under the purged KEK, and its data is lost.
* generate_kek and cleanup do not send the key keeper's secret: with KK2Secret set they are refused (`Secret = TRUE`).
* One DEK that cannot be decrypted makes its whole batch of reencrypt_deks fail, every time.
* cleanup counts the HMAC versions of `t_data_token` only: those that only `t_secure_vault` uses are purged, and dedup
  then gives a second token (action `Cleanup` of `Vault`).
* Two requests with the same new card at once store a token each; `FoundAgain` is about cards that had one before.
* A request with a CVN and no card also asks for a card's token; the missing expiration date makes it fail with 500, so that the
  CVN does not go on. An outgoing request with a CVN token only fails likewise.
* A CVN is not checked: letters among a to f are taken for padding, and what is decoded is cut there; other
  letters fail with 500. `ExpandsToOriginal` is about CVNs of digits.
* A card that comes with a later date keeps the finish_ts of its old one, and its token goes 100 days after the old month
  (`renewed` in `KeptUntilExpiry`).
* A token that is stale by more than the cleaner's window when it is made is never removed (`late` in `StaleAreCleaned`); and
  rows that expire while the cleaner is down for more than ten days stay for ever.
* A status line of the upstream without a reason phrase is taken for no status line: the client gets 500, or the 100 that came
  before (`AnswerIsUpstreams`).
* When the database commits and its answer is lost, a request is answered 500 though its tokens stay (`CommitUnanswered`),
  or is run twice (`unsure` in `AnswerTellsEffect`).
* rehash_tokens and reencrypt_deks commit before the wrapper does. If its commit, of an empty transaction, fails, they are
  run again, and may answer 500 for a batch that is converted. The second run looks at what is left only, so nothing is
  lost.
* generate_kek and cleanup that answer 400 or 500 may have told the key keeper and the hosts of what is then rolled back
  (`remote` in `AnswerTellsEffect`): never the other way round. That the keys survive it is `ActiveIntact` and
  `Decryptable` of `KekRotation`.
* ConfPatch answers 200 when it has failed; KeyAPI looks at the status in the body.

The quotes are in `PROJECT.json` (`findings`), and the hazards with the properties that cover each in `hazards`.

## 6. Plan

1. `Batches`: the partition of id ranges into batches (every id in exactly one), with a proof; larger batches in `KekRotation`,
   so that one DEK makes the others of its batch wait.
2. Composition of `KeyKeeper` with `KekRotation`: the officers' requests over several keepers, with a caller that times out
   before the pushes end.
3. Users and roles of the vault; the batches of `Vault`'s rows over HMAC versions that return.

## 7. Not modelled

* AES, random numbers and hashes: library code. The cipher is a permutation, a digest equals another or not.
* The Luhn check, the masking of card numbers and the log filters: functions of one text, tested in the repository, on which no
  state depends.
* HTTP as text: the reader is modelled by kinds of lines (`Servant`), the client by status lines (`Proxy`); XML and JSON only
  carry parameters. Handles and options of libcurl, SSL and the waiting loop are code around libraries.
* User roles of the vault: they can only refuse a request, which `Fails` does.
* Methods that only read: status, get_component, ping and the debug methods.
* Start-up, reading of configuration files, logging, SQL grants and indices, packaging, service scripts, tests: nothing that
  requests share depends on them.
