---------------------------- MODULE KekRotation ----------------------------
(***************************************************************************)
(* The life of the key encryption keys (KEKs).                             *)
(*                                                                         *)
(* A KEK has a version and is the combination of three random parts, kept  *)
(* in three places: part 1 in the memory of the key keeper, part 2 in the  *)
(* XML file of each host, part 3 in the table t_config, with a control     *)
(* code that tells whether three parts belong together.  KeyAPI creates,   *)
(* confirms, activates and purges versions on the orders of the key        *)
(* officers (keyman); KeyProc, started by cron on every node, re-encrypts  *)
(* the DEKs of t_dek under the target version; the tokenizers make DEKs    *)
(* under the active version they have in their cached configuration.       *)
(*                                                                         *)
(* A run of generate_kek has a number, its generation, which stands for    *)
(* the three parts it draws; parts combine into a KEK when they are of the *)
(* same generation.                                                        *)
(***************************************************************************)
EXTENDS Integers, FiniteSets, FiniteSetsExt

CONSTANTS
  MaxVersion,   \* bound: the highest KEK version
  MaxGen,       \* bound: the last generation
  Host,         \* nodes: each has an XML file, a KeyAPI, a tokenizer
  Proc,         \* KeyProc processes
  Dek,          \* ids of t_dek
  Officer,      \* the three key officers: each holds, and confirms, one part
  NoOfficer,    \* "nobody"
  Secret,       \* is KK2Secret, the secret of the key keeper, set?
  Patient,      \* do officers wait until what is under way has ended?
  Faults        \* may calls fail and processes die?

Ver == 0 .. MaxVersion
Gen == 1 .. MaxGen
Nothing == 0         \* no such part
NoVer == -1          \* no such key of t_config; no such row of t_dek
GenOrNothing == Gen \cup {Nothing}
VerOrNone == Ver \cup {NoVer}

ASSUME KekRotationAssumption ==
  /\ MaxVersion \in Nat
  /\ MaxGen \in Nat \ {0}
  /\ Dek \subseteq Nat \ {0}
  /\ IsFiniteSet(Dek)
  /\ NoOfficer \notin Officer
  /\ {Secret, Patient, Faults} \subseteq BOOLEAN

VARIABLES
  \* t_config, committed
  active,       \* KEK_VERSION
  target,       \* KEK_TARGET_VERSION
  part3,        \* KEK_VERv_PART3 and KEK_VERv_CONTROL_CODE
  checked,      \* KEK_VERv_PARTp_CHECK: the officers p who confirmed v
  \* t_dek, committed: the KEK version of each row, and the generation of the
  \* KEK its dek_crypted was really made with
  dek,
  part1,        \* storage_ of the key keeper
  part2,        \* the items of key_settings.cfg.xml, for each host
  generations,  \* how many KEKs have been drawn
  job,          \* the KeyAPI request of a key officer
  proc,         \* the KeyProc processes and their KeyAPI requests
  conf,         \* theTokenizerConfig of each tokenizer
  draft         \* a DEK inserted by the tokenizer, not committed

config == <<active, target, part3, checked>>
parts == <<part1, part2>>
tokenizers == <<conf, draft>>
vars == <<active, target, part3, checked, dek, part1, part2, generations, job,
          proc, conf, draft>>

NoRow == [ver |-> NoVer, gen |-> Nothing]
NoJob == [op |-> "none", pc |-> "idle", ver |-> NoVer, gen |-> Nothing,
          officer |-> NoOfficer, hosts |-> {}, purge |-> {}]
NoKeys == [v \in Ver |-> Nothing]
NoWork == [pc |-> "idle", target0 |-> NoVer, todo |-> {}, batch |-> 0,
           ver |-> NoVer, keys |-> NoKeys]
NoConf == [active |-> NoVer, keys |-> NoKeys]
NoDraft == [id |-> 0, ver |-> NoVer, gen |-> Nothing]

\* The state is well typed: a DEK that is being stored has a version and a key.
TypeOK ==
  /\ active \in Ver
  /\ target \in VerOrNone
  /\ part3 \in [Ver -> GenOrNothing]
  /\ checked \in [Ver -> SUBSET Officer]
  /\ dek \in [Dek -> [ver : Ver, gen : GenOrNothing] \cup {NoRow}]
  /\ part1 \in [Ver -> GenOrNothing]
  /\ part2 \in [Host -> [Ver -> GenOrNothing]]
  /\ generations \in Gen
  /\ job \in [op : {"none", "generate", "confirm", "reset", "switch", "cleanup",
                    "hmac"},
              pc : {"idle", "count", "keeper", "patch", "write"},
              ver : VerOrNone, gen : GenOrNothing, officer : Officer \cup {NoOfficer},
              hosts : SUBSET Host, purge : SUBSET Ver]
  /\ proc \in [Proc -> [pc : {"idle", "batch", "convert", "check"},
                        target0 : VerOrNone, todo : SUBSET Dek,
                        batch : Dek \cup {0}, ver : VerOrNone,
                        keys : [Ver -> GenOrNothing]]]
  /\ conf \in [Host -> [active : VerOrNone, keys : [Ver -> GenOrNothing]]]
  /\ draft \in [Host -> [id : Dek, ver : Ver, gen : Gen] \cup {NoDraft}]

-----------------------------------------------------------------------------
(* What a TokenizerConfig loaded now, on host h, would say.                *)

\* get_versions, incomplete ones included.
Versions == {v \in Ver : part3[v] # Nothing}

\* Mutant of LastVersion: versions are counted from the active one.
LastIsActive == active

\* get_last_version
LastVersion == Max(Versions)

\* All three parts are found.
Assembled(h, v) ==
  part3[v] # Nothing /\ part1[v] # Nothing /\ part2[h][v] # Nothing

\* is_kek_valid: and the control code says that they belong together.
Valid(h, v) ==
  Assembled(h, v) /\ part1[v] = part3[v] /\ part2[h][v] = part3[v]

\* is_version_checked
VersionChecked(v) == v \in Ver /\ checked[v] = Officer

\* The keys a load gets.  One that fails to reach the key keeper misses some.
LoadedKeys(h) ==
  LET valid == {v \in Ver : Valid(h, v)}
  IN  {[v \in Ver |-> IF v \in got THEN part3[v] ELSE Nothing] :
         got \in IF Faults THEN SUBSET valid ELSE {valid}}

\* get_switch_version
SwitchVersion == IF target = NoVer THEN active ELSE target

\* kek_auth in mode CURRENT: the officer types a component of the active KEK.
Authorized(h) == Assembled(h, active)

FreshIds ==
  {d \in Dek : dek[d] = NoRow /\ \A h \in Host : draft[h].id # d}

-----------------------------------------------------------------------------
(* The bootstrap of sql/card_proxy_data.sql: version 0.                    *)

Bootstrap == [v \in Ver |-> IF v = 0 THEN 1 ELSE Nothing]

Init ==
  /\ active = 0
  /\ target = NoVer
  /\ part3 = Bootstrap
  /\ checked = [v \in Ver |-> IF v = 0 THEN Officer ELSE {}]
  /\ dek = [d \in Dek |-> NoRow]
  /\ part1 = Bootstrap
  /\ part2 = [h \in Host |-> Bootstrap]
  /\ generations = 1
  /\ job = NoJob
  /\ proc = [p \in Proc |-> NoWork]
  /\ conf = [h \in Host |-> NoConf]
  /\ draft = [h \in Host |-> NoDraft]

-----------------------------------------------------------------------------
(* KeyAPI, requests of the officers.  A request begins by loading its own  *)
(* TokenizerConfig and decides from that; what it decided is in job.  The  *)
(* rows it writes are invisible until it commits.                          *)

Start(j) == job.op = "none" /\ job' = j

\* No reencrypt_deks request is running.
NoReencryption == \A p \in Proc : proc[p].pc # "convert"

\* generate_kek: the version follows the last one; the row inserts are flushed.
GenerateStart(h) ==
  /\ Patient => NoReencryption
  /\ Authorized(h)
  /\ generations < MaxGen
  /\ LastVersion + 1 \in Ver
  /\ generations' = generations + 1
  /\ Start([NoJob EXCEPT !.op = "generate", !.pc = "keeper",
              !.ver = LastVersion + 1, !.gen = generations + 1, !.hosts = Host])
  /\ UNCHANGED <<config, dek, parts, proc, tokenizers>>

\* confirm_component: whatever version is asked for, it is the target version
\* whose component the password is compared with and whose check is set.
ConfirmStart(h, officer) ==
  /\ target # NoVer
  /\ Assembled(h, target)
  /\ Start([NoJob EXCEPT !.op = "confirm", !.pc = "write", !.ver = target,
              !.officer = officer])
  /\ UNCHANGED <<config, dek, parts, generations, proc, tokenizers>>

\* reset_target_version
ResetStart(h, v) ==
  /\ Authorized(h)
  /\ Valid(h, v)
  /\ VersionChecked(v)
  /\ Start([NoJob EXCEPT !.op = "reset", !.pc = "write", !.ver = v])
  /\ UNCHANGED <<config, dek, parts, generations, proc, tokenizers>>

\* Mutant of SwitchStart: a valid KEK is enough.
SwitchUnchecked(h) ==
  /\ target \notin {NoVer, active}
  /\ Valid(h, target)
  /\ Start([NoJob EXCEPT !.op = "switch", !.pc = "write", !.ver = target])
  /\ UNCHANGED <<config, dek, parts, generations, proc, tokenizers>>

\* switch_kek
SwitchStart(h) ==
  /\ target \notin {NoVer, active}
  /\ Valid(h, target)
  /\ VersionChecked(target)
  /\ Start([NoJob EXCEPT !.op = "switch", !.pc = "write", !.ver = target])
  /\ UNCHANGED <<config, dek, parts, generations, proc, tokenizers>>

\* The new HMAC key of generate_hmac is a row of t_dek like any DEK.
HmacStart(h) ==
  /\ Authorized(h)
  /\ Valid(h, active)
  /\ Start([NoJob EXCEPT !.op = "hmac", !.pc = "write", !.ver = active,
              !.gen = part3[active]])
  /\ UNCHANGED <<config, dek, parts, generations, proc, tokenizers>>

\* No KeyProc at work, no cached configuration with an old active version and
\* no new DEK about to be committed.
Quiet ==
  /\ \A p \in Proc : proc[p] = NoWork
  /\ \A h \in Host : draft[h] = NoDraft /\ conf[h].active \in {NoVer, active}

\* cleanup: all versions the snapshot knows are to go, except the active one.
CleanupStart(h) ==
  /\ Patient => Quiet
  /\ Authorized(h)
  /\ target \in {NoVer, active}
  /\ Start([NoJob EXCEPT !.op = "cleanup", !.pc = "count", !.ver = active,
              !.hosts = Host, !.purge = Versions \ {active}])
  /\ UNCHANGED <<config, dek, parts, generations, proc, tokenizers>>

\* Mutant of CleanupCount: the use counts are not looked at.
CleanupUncounted ==
  /\ job.pc = "count"
  /\ job' = [job EXCEPT !.pc = "keeper"]
  /\ UNCHANGED <<config, dek, parts, generations, proc, tokenizers>>

\* get_kek_use_counts and YB_ASSERT(0 == use_count): committed rows are counted.
CleanupCount ==
  /\ job.pc = "count"
  /\ job' = IF \E d \in Dek : dek[d].ver \in job.purge
            THEN NoJob ELSE [job EXCEPT !.pc = "keeper"]
  /\ UNCHANGED <<config, dek, parts, generations, proc, tokenizers>>

\* The requests carry no X-AUTH, which a key keeper with a secret refuses; and
\* cleanup names an item it must have.
KeeperRefuses ==
  Secret \/ (job.op = "cleanup" /\ part1[job.ver] = Nothing)

\* send_key_to_server and cleanup, to the key keeper.  cleanup drops the whole
\* storage but the item named.
CallKeeper ==
  /\ job.pc = "keeper"
  /\ IF KeeperRefuses
     THEN job' = NoJob /\ UNCHANGED part1
     ELSE /\ part1' = IF job.op = "generate"
                      THEN [part1 EXCEPT ![job.ver] = job.gen]
                      ELSE [NoKeys EXCEPT ![job.ver] = part1[job.ver]]
          /\ job' = [job EXCEPT !.pc = "patch"]
  /\ UNCHANGED <<config, dek, part2, generations, proc, tokenizers>>

\* Mutant of PatchedItems: only an item that is there is set.
PatchedItemsKnown(h) ==
  IF job.op = "generate"
  THEN [part2[h] EXCEPT ![job.ver] = IF @ = Nothing THEN @ ELSE job.gen]
  ELSE [NoKeys EXCEPT ![job.ver] = part2[h][job.ver]]

\* Mutant of PatchedItems: cleanup looks the item up when the list is empty already.
PatchedItemsEmptied(h) ==
  IF job.op = "generate"
  THEN [part2[h] EXCEPT ![job.ver] = job.gen]
  ELSE NoKeys

\* The items of the XML file of h after the request of job.
PatchedItems(h) ==
  IF job.op = "generate"
  THEN [part2[h] EXCEPT ![job.ver] = job.gen]
  ELSE [NoKeys EXCEPT ![job.ver] = part2[h][job.ver]]

\* Mutant of PatchHost: the tokenizer is not restarted.
PatchWithoutRestart(h) ==
  /\ job.pc = "patch"
  /\ h \in job.hosts
  /\ part2' = [part2 EXCEPT ![h] = PatchedItems(h)]
  /\ job' = [job EXCEPT !.hosts = @ \ {h}]
  /\ UNCHANGED <<config, dek, part1, generations, proc, tokenizers>>

\* ConfPatch rewrites the XML file of h and restarts its tokenizer.
PatchHost(h) ==
  /\ job.pc = "patch"
  /\ h \in job.hosts
  /\ part2' = [part2 EXCEPT ![h] = PatchedItems(h)]
  /\ conf' = [conf EXCEPT ![h] = NoConf]
  /\ draft' = [draft EXCEPT ![h] = NoDraft]
  /\ job' = [job EXCEPT !.hosts = @ \ {h}]
  /\ UNCHANGED <<config, dek, part1, generations, proc>>

\* The XML file is rewritten but the restart fails: the request fails.
RestartFails(h) ==
  /\ Faults
  /\ job.pc = "patch"
  /\ h \in job.hosts
  /\ part2' = [part2 EXCEPT ![h] = PatchedItems(h)]
  /\ job' = NoJob
  /\ UNCHANGED <<config, dek, part1, generations, proc, tokenizers>>

CommitGenerate ==
  /\ job.op = "generate" /\ job.pc = "patch" /\ job.hosts = {}
  /\ part3' = [part3 EXCEPT ![job.ver] = job.gen]
  /\ checked' = [checked EXCEPT ![job.ver] = {}]
  /\ target' = job.ver
  /\ job' = NoJob
  /\ UNCHANGED <<active, dek, parts, generations, proc, tokenizers>>

CommitCleanup ==
  /\ job.op = "cleanup" /\ job.pc = "patch" /\ job.hosts = {}
  /\ part3' = [v \in Ver |-> IF v \in job.purge THEN Nothing ELSE part3[v]]
  /\ checked' = [v \in Ver |-> IF v \in job.purge THEN {} ELSE checked[v]]
  /\ job' = NoJob
  /\ UNCHANGED <<active, target, dek, parts, generations, proc, tokenizers>>

\* The requests that only write rows.
CommitWrite ==
  /\ job.pc = "write"
  /\ CASE job.op = "confirm" ->
            /\ checked' = [checked EXCEPT ![job.ver] = @ \cup {job.officer}]
            /\ UNCHANGED <<active, target, dek>>
       [] job.op = "reset" ->
            target' = job.ver /\ UNCHANGED <<active, checked, dek>>
       [] job.op = "switch" ->
            active' = job.ver /\ UNCHANGED <<target, checked, dek>>
       [] job.op = "hmac" ->
            /\ \E d \in FreshIds :
                  dek' = [dek EXCEPT ![d] = [ver |-> job.ver, gen |-> job.gen]]
            /\ UNCHANGED <<active, target, checked>>
  /\ job' = NoJob
  /\ UNCHANGED <<part3, parts, generations, proc, tokenizers>>

\* An exception, a failed or unanswered call, a crash: the transaction is
\* rolled back; what the other servants were told stays.
JobFails ==
  /\ Faults
  /\ job.op # "none"
  /\ job' = NoJob
  /\ UNCHANGED <<config, dek, parts, generations, proc, tokenizers>>

OfficerStarts(h) ==
  \/ GenerateStart(h)
  \/ \E officer \in Officer : ConfirmStart(h, officer)
  \/ \E v \in Ver : ResetStart(h, v)
  \/ SwitchStart(h)
  \/ HmacStart(h)
  \/ CleanupStart(h)

JobProceeds ==
  \/ CleanupCount
  \/ CallKeeper
  \/ \E h \in Host : PatchHost(h) \/ RestartFails(h)
  \/ CommitGenerate
  \/ CommitCleanup
  \/ CommitWrite

-----------------------------------------------------------------------------
(* KeyProc p, which calls the KeyAPI of host h.                            *)

\* Mutant of TargetOrZero: KeyProc works towards the active version.
ActiveAsTarget == active

\* get_reencryption_task: int(self.db_config.get('KEK_TARGET_VERSION') or 0)
TargetOrZero == IF target = NoVer THEN 0 ELSE target

\* Rows under another KEK, and the range of ids that spans them.
Foreign(v) == {d \in Dek : dek[d].ver \notin {NoVer, v}}
Span(S) == {d \in Dek : Min(S) <= d /\ d <= Max(S)}

\* The target is valid and checked, and there are rows to re-encrypt.  The
\* batches, of one row each, are processed in random order.
KeyProcTask(p, h) ==
  /\ proc[p].pc = "idle"
  /\ Valid(h, TargetOrZero)
  /\ VersionChecked(TargetOrZero)
  /\ Foreign(TargetOrZero) # {}
  /\ proc' = [proc EXCEPT ![p] =
                [NoWork EXCEPT !.pc = "batch", !.target0 = TargetOrZero,
                               !.todo = Span(Foreign(TargetOrZero))]]
  /\ UNCHANGED <<config, dek, parts, generations, job, tokenizers>>

\* reencrypt_deks loads its configuration: the target may have moved on since
\* the task was set, and must be confirmed.
ReencryptStart(p, h, d) ==
  /\ proc[p].pc = "batch"
  /\ d \in proc[p].todo
  /\ \E keys \in LoadedKeys(h) :
        proc' = [proc EXCEPT ![p] =
                   IF VersionChecked(SwitchVersion)
                   THEN [proc[p] EXCEPT !.pc = "convert", !.todo = @ \ {d}, !.batch = d,
                                        !.ver = SwitchVersion, !.keys = keys]
                   ELSE NoWork]
  /\ UNCHANGED <<config, dek, parts, generations, job, tokenizers>>

\* The DEK of row d re-encrypted with the keys of p.  Decrypting with a key other
\* than the one it was encrypted with yields garbage.
Reencrypted(p, d) ==
  [ver |-> proc[p].ver,
   gen |-> IF proc[p].keys[dek[d].ver] = dek[d].gen
           THEN proc[p].keys[proc[p].ver] ELSE Nothing]

Mismatched(p) == dek[proc[p].batch].ver \notin {NoVer, proc[p].ver}

HasKeys(p) ==
  /\ proc[p].keys[dek[proc[p].batch].ver] # Nothing
  /\ proc[p].keys[proc[p].ver] # Nothing

\* The rest of reencrypt_deks: SELECT ... FOR UPDATE, convert, commit.
Reencrypt(p) ==
  /\ proc[p].pc = "convert"
  /\ Mismatched(p) => HasKeys(p)
  /\ dek' = IF Mismatched(p)
            THEN [dek EXCEPT ![proc[p].batch] = Reencrypted(p, proc[p].batch)]
            ELSE dek
  /\ proc' = [proc EXCEPT ![p] = [NoWork EXCEPT !.pc = "check",
                                    !.target0 = proc[p].target0,
                                    !.todo = proc[p].todo]]
  /\ UNCHANGED <<config, parts, generations, job, tokenizers>>

\* get_master_key throws; the answer is an error and KeyProc gives up.
ReencryptFails(p) ==
  /\ proc[p].pc = "convert"
  /\ Mismatched(p) /\ ~HasKeys(p)
  /\ proc' = [proc EXCEPT ![p] = NoWork]
  /\ UNCHANGED <<config, dek, parts, generations, job, tokenizers>>

\* check_target_version
NextBatch(p) ==
  /\ proc[p].pc = "check"
  /\ proc[p].todo # {}
  /\ TargetOrZero = proc[p].target0
  /\ proc' = [proc EXCEPT ![p].pc = "batch"]
  /\ UNCHANGED <<config, dek, parts, generations, job, tokenizers>>

\* All batches done, the target changed or the time limit reached.
KeyProcEnds(p) ==
  /\ proc[p].pc = "check"
  /\ proc' = [proc EXCEPT ![p] = NoWork]
  /\ UNCHANGED <<config, dek, parts, generations, job, tokenizers>>

KeyProcFails(p) ==
  /\ Faults
  /\ proc[p] # NoWork
  /\ proc' = [proc EXCEPT ![p] = NoWork]
  /\ UNCHANGED <<config, dek, parts, generations, job, tokenizers>>

KeyProcProceeds(p) ==
  \/ \E h \in Host : KeyProcTask(p, h)
  \/ \E h \in Host, d \in Dek : ReencryptStart(p, h, d)
  \/ Reencrypt(p)
  \/ ReencryptFails(p)
  \/ NextBatch(p)
  \/ KeyProcEnds(p)

-----------------------------------------------------------------------------
(* The tokenizer of host h.                                                *)

\* refresh and reload: at most once in 15 seconds, so conf may be stale.
Refresh(h) ==
  /\ \E keys \in LoadedKeys(h) :
        conf' = [conf EXCEPT ![h] = [active |-> active, keys |-> keys]]
  /\ UNCHANGED <<config, dek, parts, generations, job, proc, draft>>

\* Mutant of InsertDek: a missing KEK is not noticed.
InsertDekUnderNothing(h, d) ==
  /\ draft[h] = NoDraft
  /\ conf[h].active # NoVer
  /\ d \in FreshIds
  /\ draft' = [draft EXCEPT ![h] = [id |-> d, ver |-> conf[h].active,
                                    gen |-> conf[h].keys[conf[h].active]]]
  /\ UNCHANGED <<config, dek, parts, generations, job, proc, conf>>

\* dek_pool() and generate_new_data_key: a DEK under the active KEK of conf.
InsertDek(h, d) ==
  /\ draft[h] = NoDraft
  /\ conf[h].active # NoVer
  /\ conf[h].keys[conf[h].active] # Nothing
  /\ d \in FreshIds
  /\ draft' = [draft EXCEPT ![h] = [id |-> d, ver |-> conf[h].active,
                                    gen |-> conf[h].keys[conf[h].active]]]
  /\ UNCHANGED <<config, dek, parts, generations, job, proc, conf>>

CommitDek(h) ==
  /\ draft[h] # NoDraft
  /\ dek' = [dek EXCEPT ![draft[h].id] = [ver |-> draft[h].ver, gen |-> draft[h].gen]]
  /\ draft' = [draft EXCEPT ![h] = NoDraft]
  /\ UNCHANGED <<config, parts, generations, job, proc, conf>>

RollBackDek(h) ==
  /\ Faults
  /\ draft[h] # NoDraft
  /\ draft' = [draft EXCEPT ![h] = NoDraft]
  /\ UNCHANGED <<config, dek, parts, generations, job, proc, conf>>

TokenizerNext(h) ==
  \/ Refresh(h)
  \/ \E d \in Dek : InsertDek(h, d)
  \/ CommitDek(h)
  \/ RollBackDek(h)

Next ==
  \/ \E h \in Host : OfficerStarts(h) \/ TokenizerNext(h)
  \/ JobProceeds
  \/ JobFails
  \/ \E p \in Proc : KeyProcProceeds(p) \/ KeyProcFails(p)

Spec == Init /\ [][Next]_vars

-----------------------------------------------------------------------------
(* Safety.                                                                 *)

Stored(d) == dek[d] # NoRow

\* No data is ever lost: whatever requests and calls failed half way, the KEK of
\* every DEK in the database can be put together on every host, and it is the
\* KEK the DEK was encrypted with.
Decryptable ==
  \A d \in Dek : Stored(d) =>
     \A h \in Host : Valid(h, dek[d].ver) /\ part3[dek[d].ver] = dek[d].gen

\* Nothing takes the active KEK away, on any host.
ActiveIntact == \A h \in Host : Valid(h, active)

\* No DEK is under a KEK that its three officers have not confirmed.
OnlyConfirmed == \A d \in Dek : Stored(d) => VersionChecked(dek[d].ver)

\* No cached configuration of a tokenizer has a KEK of the same version as, but
\* other than, the one a DEK is encrypted with: decrypting would yield garbage.
CacheGenuine ==
  \A h \in Host, d \in Dek : Stored(d) =>
     conf[h].keys[dek[d].ver] \in {Nothing, dek[d].gen}

\* keyman: "A new KEK was just created and distributed".  Where nothing fails, a
\* generate_kek ends with the KEK in place on all hosts.
GenerateDistributes ==
  [][(job.op = "generate" /\ job'.op = "none") =>
       /\ part3'[job.ver] = job.gen /\ part1'[job.ver] = job.gen
       /\ \A h \in Host : part2'[h][job.ver] = job.gen]_vars

-----------------------------------------------------------------------------
(* Liveness.                                                               *)

\* Cron starts KeyProc again and again, the database and KeyAPI answer, and
\* batches in random order with a time limit all get their turn.
Fairness ==
  \A p \in Proc :
     /\ WF_vars(KeyProcProceeds(p))
     /\ \A d \in Dek : SF_vars(\E h \in Host : ReencryptStart(p, h, d))

\* "reencryption will start automatically": a confirmed target that stays gets
\* all the DEKs, those that tokenizers go on making under the old KEK included.
TargetReached ==
  \A v \in Ver :
     <>[](target = v /\ VersionChecked(v) /\ job = NoJob)
       => <>[](\A d \in Dek : Stored(d) => dek[d].ver = v)

=============================================================================
