------------------------- MODULE KekRotationProofs -------------------------
(***************************************************************************)
(* Proofs about KekRotation, for any numbers of hosts, KeyProc processes,  *)
(* DEKs, officers and versions.                                            *)
(*                                                                         *)
(* The argument.  Whoever refers to a KEK version - the active and the     *)
(* target version, a row of t_dek, a DEK about to be committed, the active *)
(* version of a cached configuration, a KeyProc at work - refers to one    *)
(* that is settled: its parts 1, 2 and 3 are of one generation, on every   *)
(* host; and, but for the target, to one that is confirmed.  generate_kek  *)
(* writes parts only of a version nobody refers to, because no row of      *)
(* t_config has it; cleanup takes away only versions nobody refers to,     *)
(* because officers waited until old references were gone (Patient) and    *)
(* every reference made since is to the active version.  A request that    *)
(* fails half way leaves such a state too.                                 *)
(***************************************************************************)
EXTENDS KekRotation, TLAPS, WellFoundedInduction

\* The three parts of v are in place and belong together, on every host.
Settled(v) ==
  /\ part3[v] # Nothing
  /\ part1[v] = part3[v]
  /\ \A h \in Host : part2[h][v] = part3[v]

\* And the officers have said so.
Confirmed(v) == Settled(v) /\ checked[v] = Officer

\* No key is other than the one that the database and the parts make now.
Genuine(keys) ==
  \A v \in Ver : part3[v] # Nothing => keys[v] \in {Nothing, part3[v]}

\* p has a reencrypt_deks request under way.
Converting(p) == proc[p].pc = "convert"

\* The steps each request can be at.
JobForm ==
  \/ job = NoJob
  \/ job.op = "generate" /\ job.pc \in {"keeper", "patch"} /\ job.ver \in Ver /\ job.gen \in Gen
  \/ job.op = "cleanup" /\ job.pc \in {"count", "keeper", "patch"} /\ job.ver \in Ver
  \/ job.op = "confirm" /\ job.pc = "write" /\ job.ver \in Ver /\ job.officer \in Officer
  \/ job.op \in {"reset", "switch", "hmac"} /\ job.pc = "write" /\ job.ver \in Ver

\* TypeOK, and what the steps below rely on besides: the form of the job and
\* the row and version of a conversion.
TypeInv ==
  /\ TypeOK
  /\ JobForm
  /\ \A p \in Proc : Converting(p) => proc[p].ver \in Ver /\ proc[p].batch \in Dek

\* The key keeper is told before the hosts, and the database after them: once
\* parts 1 and 3 agree, no host lags behind.
Distributed ==
  \A v \in Ver : part3[v] # Nothing /\ part1[v] = part3[v]
     => \A h \in Host : part2[h][v] = part3[v]

\* What the committed rows refer to.
RowsConfirmed ==
  /\ Confirmed(active)
  /\ target # NoVer => Settled(target)
  /\ \A d \in Dek : Stored(d) => Confirmed(dek[d].ver) /\ dek[d].gen = part3[dek[d].ver]

\* What cached configurations and DEKs about to be committed refer to.
TokenizersConfirmed ==
  \A h \in Host :
     /\ Genuine(conf[h].keys)
     /\ conf[h].active # NoVer => Confirmed(conf[h].active)
     /\ draft[h] # NoDraft => Confirmed(draft[h].ver) /\ draft[h].gen = part3[draft[h].ver]

\* What a KeyProc at work refers to.
ProcsConfirmed ==
  \A p \in Proc : Converting(p) => Confirmed(proc[p].ver) /\ Genuine(proc[p].keys)

\* The hosts that generate_kek has done have the new part.
Distributing ==
  job.op = "generate" =>
    /\ job.pc = "keeper" => job.hosts = Host
    /\ job.pc = "patch" =>
         /\ part1[job.ver] = job.gen
         /\ \A h \in Host \ job.hosts : part2[h][job.ver] = job.gen

\* Until it commits nobody has the version generate_kek makes: the number may
\* be one that was purged, but the restarts empty the caches.
Generating ==
  job.op = "generate" =>
    /\ part3[job.ver] = Nothing
    /\ \A p \in Proc : Converting(p) => proc[p].keys[job.ver] = Nothing
    /\ job.pc = "patch" => \A h \in Host \ job.hosts : conf[h].keys[job.ver] = Nothing

\* While cleanup runs every reference that can still become a row is to the
\* active version, which stays; the other versions are to go.
Cleaning ==
  job.op = "cleanup" =>
    /\ job.ver = active /\ active \notin job.purge
    /\ target \in {NoVer, active}
    /\ \A v \in Ver : v \in job.purge \/ v = active \/ part3[v] = Nothing
    /\ \A p \in Proc : Converting(p) => proc[p].ver = active
    /\ \A h \in Host :
          conf[h].active \in {NoVer, active} /\ draft[h].ver \in {NoVer, active}
    /\ job.pc # "count" => \A d \in Dek : dek[d].ver \in {NoVer, active}
    /\ job.pc = "patch" => \A v \in Ver : v = active \/ part1[v] = Nothing

\* What a request found when it started still holds when it commits.
Deciding ==
  /\ job.op = "reset" => Settled(job.ver)
  /\ job.op = "switch" => Confirmed(job.ver)
  /\ job.op = "hmac" => job.ver = active /\ job.gen = part3[active]

\* The inductive invariant.
KekInv ==
  /\ TypeInv
  /\ Distributing
  /\ Distributed
  /\ RowsConfirmed
  /\ TokenizersConfirmed
  /\ ProcsConfirmed
  /\ Generating
  /\ Cleaning
  /\ Deciding

-----------------------------------------------------------------------------

\* The record types of TypeOK, and the facts about constants.
Jobs == [op : {"none", "generate", "confirm", "reset", "switch", "cleanup", "hmac"},
         pc : {"idle", "count", "keeper", "patch", "write"},
         ver : VerOrNone, gen : GenOrNothing, officer : Officer \cup {NoOfficer},
         hosts : SUBSET Host, purge : SUBSET Ver]
Keys == [Ver -> GenOrNothing]
Procs == [pc : {"idle", "batch", "convert", "check"}, target0 : VerOrNone,
          todo : SUBSET Dek, batch : Dek \cup {0}, ver : VerOrNone, keys : Keys]
DekRow == [ver : Ver, gen : GenOrNothing]
Drafts == [id : Dek, ver : Ver, gen : Gen]

ConstType ==
  /\ MaxVersion \in Nat /\ MaxGen \in Nat \ {0}
  /\ Nothing \in GenOrNothing /\ NoVer \notin Ver /\ NoVer \in VerOrNone
  /\ 0 \in Ver /\ 1 \in Gen /\ Nothing \notin Gen /\ Dek \subseteq Nat \ {0}

\* The sets of versions and generations have their null values outside.
LEMMA Constants == ConstType
BY KekRotationAssumption
   DEF ConstType, KekRotationAssumption, GenOrNothing, Gen, Nothing, VerOrNone, Ver, NoVer

\* The null records are well typed.
LEMMA NullTypes ==
  /\ NoKeys \in Keys
  /\ NoJob \in Jobs
  /\ NoWork \in Procs
  /\ NoConf \in [active : VerOrNone, keys : Keys]
BY Constants DEF ConstType, NoKeys, Keys, NoJob, Jobs, NoWork, Procs, NoConf, Nothing

\* The bootstrap state is well typed.
LEMMA InitType == Init => TypeInv
<1> SUFFICES ASSUME Init PROVE TypeInv
  OBVIOUS
<1>1. Bootstrap \in Keys
  BY Constants DEF ConstType, Bootstrap, Keys, GenOrNothing
<1>2. TypeOK
  BY <1>1, Constants, NullTypes
     DEF ConstType, Init, TypeOK, Keys, Jobs, Procs
<1>3. \A p \in Proc : ~Converting(p)
  BY DEF Init, Converting, NoWork
<1> QED
  BY <1>2, <1>3 DEF TypeInv, JobForm, Init

\* TypeOK in terms of the named types.
LEMMA Types ==
  TypeOK <=> /\ active \in Ver
             /\ target \in VerOrNone
             /\ part3 \in Keys
             /\ checked \in [Ver -> SUBSET Officer]
             /\ dek \in [Dek -> DekRow \cup {NoRow}]
             /\ part1 \in Keys
             /\ part2 \in [Host -> Keys]
             /\ generations \in Gen
             /\ job \in Jobs
             /\ proc \in [Proc -> Procs]
             /\ conf \in [Host -> [active : VerOrNone, keys : Keys]]
             /\ draft \in [Host -> Drafts \cup {NoDraft}]
BY DEF TypeOK, Keys, Jobs, Procs, DekRow, Drafts

\* A request that starts changes the job alone.
LEMMA StartType ==
  ASSUME TypeInv, NEW j \in Jobs, Start(j), JobForm',
         UNCHANGED <<config, dek, parts, proc, tokenizers>>, generations' \in Gen
  PROVE  TypeInv'
<1>1. job' \in Jobs
  BY DEF Start
<1>2. TypeOK'
  BY <1>1 DEF TypeInv, config, parts, tokenizers, TypeOK, Jobs
<1> QED
  BY <1>2 DEF TypeInv, Converting

\* Each request starts with a well formed job.
LEMMA OfficerStartsType ==
  ASSUME TypeInv, NEW h \in Host, OfficerStarts(h)
  PROVE  TypeInv'
<1>1. TypeOK
  BY DEF TypeInv
<1>2. CASE GenerateStart(h)
  <2> DEFINE j == [NoJob EXCEPT !.op = "generate", !.pc = "keeper",
                      !.ver = LastVersion + 1, !.gen = generations + 1, !.hosts = Host]
  <2>1. LastVersion + 1 \in Ver /\ generations + 1 \in Gen
    BY <1>1, <1>2, Constants DEF ConstType, GenerateStart, TypeOK, Gen
  <2>2. j \in Jobs /\ j.op = "generate" /\ j.pc = "keeper" /\ j.ver \in Ver /\ j.gen \in Gen
    BY <2>1, NullTypes DEF Jobs, NoJob, VerOrNone, GenOrNothing
  <2>3. Start(j)
    BY <1>2 DEF GenerateStart
  <2> HIDE DEF j
  <2>4. JobForm'
    BY <2>2, <2>3 DEF JobForm, Start
  <2> QED
    BY <1>2, <2>1, <2>2, <2>3, <2>4, StartType DEF GenerateStart
<1>3. ASSUME NEW officer \in Officer, ConfirmStart(h, officer)
      PROVE  TypeInv'
  <2> DEFINE j == [NoJob EXCEPT !.op = "confirm", !.pc = "write", !.ver = target,
                      !.officer = officer]
  <2>1. target \in Ver
    BY <1>1, <1>3 DEF ConfirmStart, TypeOK, VerOrNone
  <2>2. j \in Jobs /\ j.op = "confirm" /\ j.pc = "write" /\ j.ver \in Ver /\ j.officer \in Officer
    BY <2>1, NullTypes DEF Jobs, NoJob, VerOrNone
  <2>3. Start(j)
    BY <1>3 DEF ConfirmStart
  <2> HIDE DEF j
  <2>4. JobForm'
    BY <2>2, <2>3 DEF JobForm, Start
  <2> QED
    BY <1>1, <1>3, <2>2, <2>3, <2>4, StartType DEF ConfirmStart, TypeOK
<1>4. ASSUME NEW v \in Ver, ResetStart(h, v)
      PROVE  TypeInv'
  <2> DEFINE j == [NoJob EXCEPT !.op = "reset", !.pc = "write", !.ver = v]
  <2>2. j \in Jobs /\ j.op = "reset" /\ j.pc = "write" /\ j.ver \in Ver
    BY NullTypes DEF Jobs, NoJob, VerOrNone
  <2>3. Start(j)
    BY <1>4 DEF ResetStart
  <2> HIDE DEF j
  <2>4. JobForm'
    BY <2>2, <2>3 DEF JobForm, Start
  <2> QED
    BY <1>1, <1>4, <2>2, <2>3, <2>4, StartType DEF ResetStart, TypeOK
<1>5. CASE SwitchStart(h)
  <2> DEFINE j == [NoJob EXCEPT !.op = "switch", !.pc = "write", !.ver = target]
  <2>1. target \in Ver
    BY <1>1, <1>5 DEF SwitchStart, TypeOK, VerOrNone
  <2>2. j \in Jobs /\ j.op = "switch" /\ j.pc = "write" /\ j.ver \in Ver
    BY <2>1, NullTypes DEF Jobs, NoJob, VerOrNone
  <2>3. Start(j)
    BY <1>5 DEF SwitchStart
  <2> HIDE DEF j
  <2>4. JobForm'
    BY <2>2, <2>3 DEF JobForm, Start
  <2> QED
    BY <1>1, <1>5, <2>2, <2>3, <2>4, StartType DEF SwitchStart, TypeOK
<1>6. CASE HmacStart(h)
  <2> DEFINE j == [NoJob EXCEPT !.op = "hmac", !.pc = "write", !.ver = active,
                      !.gen = part3[active]]
  <2>1. active \in Ver /\ part3[active] \in GenOrNothing
    BY <1>1 DEF TypeOK
  <2>2. j \in Jobs /\ j.op = "hmac" /\ j.pc = "write" /\ j.ver \in Ver
    BY <2>1, NullTypes DEF Jobs, NoJob, VerOrNone
  <2>3. Start(j)
    BY <1>6 DEF HmacStart
  <2> HIDE DEF j
  <2>4. JobForm'
    BY <2>2, <2>3 DEF JobForm, Start
  <2> QED
    BY <1>1, <1>6, <2>2, <2>3, <2>4, StartType DEF HmacStart, TypeOK
<1>7. CASE CleanupStart(h)
  <2> DEFINE j == [NoJob EXCEPT !.op = "cleanup", !.pc = "count", !.ver = active,
                      !.hosts = Host, !.purge = Versions \ {active}]
  <2>1. active \in Ver /\ Versions \ {active} \subseteq Ver
    BY <1>1 DEF TypeOK, Versions
  <2>2. j \in Jobs /\ j.op = "cleanup" /\ j.pc = "count" /\ j.ver \in Ver
    BY <2>1, NullTypes DEF Jobs, NoJob, VerOrNone
  <2>3. Start(j)
    BY <1>7 DEF CleanupStart
  <2> HIDE DEF j
  <2>4. JobForm'
    BY <2>2, <2>3 DEF JobForm, Start
  <2> QED
    BY <1>1, <1>7, <2>2, <2>3, <2>4, StartType DEF CleanupStart, TypeOK
<1> QED
  BY <1>2, <1>3, <1>4, <1>5, <1>6, <1>7 DEF OfficerStarts

\* What TypeInv says of a job at each of its steps.
LEMMA JobTypes ==
  ASSUME TypeInv
  PROVE  /\ job \in Jobs
         /\ part1 \in Keys /\ part3 \in Keys /\ part2 \in [Host -> Keys]
         /\ job.pc = "count" => job.op = "cleanup" /\ job.ver \in Ver
         /\ job.pc = "keeper" => job.op \in {"generate", "cleanup"} /\ job.ver \in Ver
         /\ job.pc = "patch" => job.op \in {"generate", "cleanup"} /\ job.ver \in Ver
         /\ job.pc = "write" => job.op \in {"confirm", "reset", "switch", "hmac"}
                                /\ job.ver \in Ver
         /\ job.op = "generate" => job.gen \in Gen /\ job.ver \in Ver
BY DEF TypeInv, TypeOK, JobForm, Jobs, Keys, NoJob

\* CleanupCount keeps the types.
LEMMA CleanupCountType == ASSUME TypeInv, CleanupCount PROVE TypeInv'
<1> DEFINE j == [job EXCEPT !.pc = "keeper"]
<1>1. j \in Jobs /\ j.op = "cleanup" /\ j.pc = "keeper" /\ j.ver \in Ver
  BY JobTypes DEF CleanupCount, Jobs
<1>2. job' \in {j, NoJob}
  BY DEF CleanupCount
<1> HIDE DEF j
<1>3. job' \in Jobs /\ JobForm'
  BY <1>1, <1>2, NullTypes DEF JobForm
<1>4. TypeOK'
  BY <1>3 DEF CleanupCount, TypeInv, TypeOK, Jobs, config, parts, tokenizers
<1> QED
  BY <1>3, <1>4 DEF TypeInv, Converting, CleanupCount

\* CallKeeper keeps the types.
LEMMA CallKeeperType == ASSUME TypeInv, CallKeeper PROVE TypeInv'
<1> DEFINE j == [job EXCEPT !.pc = "patch"]
<1>1. j \in Jobs /\ j.op = job.op /\ j.pc = "patch" /\ j.ver = job.ver /\ j.gen = job.gen
  BY JobTypes DEF Jobs
<1>2. job' \in {j, NoJob}
  BY DEF CallKeeper
<1> HIDE DEF j
<1>3. job' \in Jobs /\ JobForm'
  <2>1. JobForm'
    BY <1>1, <1>2, JobTypes DEF JobForm, CallKeeper
  <2> QED
    BY <2>1, <1>1, <1>2, NullTypes
<1>4. part1' \in Keys
  <2>1. [part1 EXCEPT ![job.ver] = job.gen] \in Keys \/ job.op # "generate"
    BY JobTypes DEF Keys, GenOrNothing
  <2>2. job.pc = "keeper" => [NoKeys EXCEPT ![job.ver] = part1[job.ver]] \in Keys
    BY JobTypes, NullTypes DEF Keys
  <2> QED
    BY <2>1, <2>2, JobTypes DEF CallKeeper
<1>5. TypeOK'
  BY <1>3, <1>4 DEF CallKeeper, TypeInv, TypeOK, Jobs, Keys, config, tokenizers
<1> QED
  BY <1>3, <1>5 DEF TypeInv, Converting, CallKeeper

\* A rewritten XML file is well typed.
LEMMA PatchedType ==
  ASSUME TypeInv, job.pc = "patch", NEW h \in Host
  PROVE  PatchedItems(h) \in Keys
BY JobTypes, NullTypes DEF PatchedItems, Keys, GenOrNothing

\* PatchHost keeps the types.
LEMMA PatchHostType ==
  ASSUME TypeInv, NEW h \in Host, PatchHost(h)
  PROVE  TypeInv'
<1> DEFINE j == [job EXCEPT !.hosts = @ \ {h}]
<1>1. j \in Jobs /\ j.op = job.op /\ j.pc = job.pc /\ j.ver = job.ver /\ j.gen = job.gen
      /\ j.officer = job.officer
  BY JobTypes DEF Jobs
<1>2. job' = j
  BY DEF PatchHost
<1> HIDE DEF j
<1>3. JobForm'
  BY <1>1, <1>2, JobTypes DEF JobForm, PatchHost
<1>4. part2' \in [Host -> Keys]
  BY JobTypes, PatchedType DEF PatchHost
<1>5. conf' \in [Host -> [active : VerOrNone, keys : Keys]]
  BY NullTypes DEF PatchHost, TypeInv, TypeOK, Keys
<1>6. draft' \in [Host -> Drafts \cup {NoDraft}]
  BY DEF PatchHost, TypeInv, TypeOK, Drafts
<1>7. TypeOK'
  BY <1>1, <1>2, <1>4, <1>5, <1>6
     DEF PatchHost, TypeInv, TypeOK, Jobs, Keys, Drafts, config
<1> QED
  BY <1>3, <1>7 DEF TypeInv, Converting, PatchHost

\* A request that has ended is well formed.
LEMMA NoJobForm == job' = NoJob => JobForm' /\ job' \in Jobs
BY NullTypes DEF JobForm

\* RestartFails keeps the types.
LEMMA RestartFailsType ==
  ASSUME TypeInv, NEW h \in Host, RestartFails(h)
  PROVE  TypeInv'
<1>1. part2' \in [Host -> Keys]
  BY JobTypes, PatchedType DEF RestartFails
<1>2. TypeOK'
  BY <1>1, NoJobForm DEF RestartFails, TypeInv, TypeOK, Jobs, Keys, config, tokenizers
<1> QED
  BY <1>2, NoJobForm DEF TypeInv, Converting, RestartFails

\* CommitGenerate keeps the types.
LEMMA CommitGenerateType == ASSUME TypeInv, CommitGenerate PROVE TypeInv'
<1>1. part3' \in Keys
  BY JobTypes DEF CommitGenerate, Keys, GenOrNothing
<1>2. checked' \in [Ver -> SUBSET Officer] /\ target' \in VerOrNone
  BY JobTypes DEF CommitGenerate, TypeInv, TypeOK
<1>3. TypeOK'
  BY <1>1, <1>2, NoJobForm DEF CommitGenerate, TypeInv, TypeOK, Jobs, Keys, parts, tokenizers
<1> QED
  BY <1>3, NoJobForm DEF TypeInv, Converting, CommitGenerate

\* CommitCleanup keeps the types.
LEMMA CommitCleanupType == ASSUME TypeInv, CommitCleanup PROVE TypeInv'
<1>1. part3' \in Keys
  BY JobTypes, Constants DEF ConstType, CommitCleanup, Keys
<1>2. checked' \in [Ver -> SUBSET Officer]
  BY DEF CommitCleanup, TypeInv, TypeOK
<1>3. TypeOK'
  BY <1>1, <1>2, NoJobForm DEF CommitCleanup, TypeInv, TypeOK, Jobs, Keys, parts, tokenizers
<1> QED
  BY <1>3, NoJobForm DEF TypeInv, Converting, CommitCleanup

\* CommitWrite keeps the types.
LEMMA CommitWriteType == ASSUME TypeInv, CommitWrite PROVE TypeInv'
<1> USE DEF CommitWrite
<1>0. job.ver \in Ver /\ job.gen \in GenOrNothing /\ job.pc = "write" /\ job.op \in {"confirm", "reset", "switch", "hmac"}
  BY JobTypes DEF Jobs
<1>1. active' \in Ver
  BY <1>0 DEF TypeInv, TypeOK
<1>2. target' \in VerOrNone
  BY <1>0 DEF TypeInv, TypeOK, VerOrNone
<1>3. checked' \in [Ver -> SUBSET Officer]
  <2>1. CASE job.op = "confirm"
    <3>1. job.officer \in Officer
      BY <2>1 DEF TypeInv, JobForm, NoJob
    <3> QED
      BY <2>1, <3>1 DEF TypeInv, TypeOK
  <2> QED
    BY <1>0, <2>1 DEF TypeInv, TypeOK
<1>4. dek' \in [Dek -> DekRow \cup {NoRow}]
  <2>1. CASE job.op = "hmac"
    <3>1. [ver |-> job.ver, gen |-> job.gen] \in DekRow
      BY <1>0 DEF DekRow
    <3>2. PICK d \in FreshIds : dek' = [dek EXCEPT ![d] = [ver |-> job.ver, gen |-> job.gen]]
      BY <2>1
    <3> QED
      BY <3>1, <3>2 DEF TypeInv, TypeOK, DekRow
  <2> QED
    BY <1>0, <2>1 DEF TypeInv, TypeOK, DekRow
<1>5. TypeOK'
  BY <1>1, <1>2, <1>3, <1>4, NoJobForm DEF TypeInv, TypeOK, Jobs, DekRow, parts, tokenizers
<1> QED
  BY <1>5, NoJobForm DEF TypeInv, Converting

\* A step of a KeyProc changes processes and rows alone.
LEMMA OthersType ==
  ASSUME TypeInv, proc' \in [Proc -> Procs],
         \A p \in Proc : Converting(p)' => proc'[p].ver \in Ver /\ proc'[p].batch \in Dek,
         dek' \in [Dek -> DekRow \cup {NoRow}],
         UNCHANGED <<config, parts, generations, job, tokenizers>>
  PROVE  TypeInv'
BY DEF TypeInv, TypeOK, JobForm, Jobs, Keys, Procs, DekRow, config, parts, tokenizers

\* Loaded keys are well typed.
LEMMA LoadedType ==
  ASSUME TypeInv, NEW h \in Host, NEW keys \in LoadedKeys(h)
  PROVE  keys \in Keys
<1>1. PICK got \in SUBSET Ver : keys = [v \in Ver |-> IF v \in got THEN part3[v] ELSE Nothing]
  BY DEF LoadedKeys
<1> QED
  BY <1>1, JobTypes, Constants DEF Keys, ConstType

\* Where a KeyProc gives up.
LEMMA IdleType ==
  ASSUME TypeInv, NEW p \in Proc, NEW w \in Procs, w.pc # "convert",
         proc' = [proc EXCEPT ![p] = w],
         UNCHANGED <<config, dek, parts, generations, job, tokenizers>>
  PROVE  TypeInv'
<1>1. proc' \in [Proc -> Procs]
  BY DEF TypeInv, TypeOK, Procs, Keys
<1>2. \A q \in Proc : Converting(q)' => proc'[q].ver \in Ver /\ proc'[q].batch \in Dek
  BY DEF TypeInv, Converting, TypeOK
<1>3. dek' \in [Dek -> DekRow \cup {NoRow}]
  BY DEF TypeInv, TypeOK, DekRow
<1> QED
  BY <1>1, <1>2, <1>3, OthersType

\* What TypeInv says of a KeyProc and what it reads.
LEMMA ProcTypes ==
  ASSUME TypeInv, NEW p \in Proc
  PROVE  /\ proc \in [Proc -> Procs]
         /\ proc[p] \in Procs
         /\ dek \in [Dek -> DekRow \cup {NoRow}]
         /\ active \in Ver /\ target \in VerOrNone
BY DEF TypeInv, TypeOK, Procs, Keys, DekRow

\* The steps of a KeyProc keep the types.
LEMMA KeyProcType ==
  ASSUME TypeInv, NEW p \in Proc, KeyProcProceeds(p) \/ KeyProcFails(p)
  PROVE  TypeInv'
<1>1. ASSUME NEW h \in Host, KeyProcTask(p, h) PROVE TypeInv'
  <2> DEFINE w == [NoWork EXCEPT !.pc = "batch", !.target0 = TargetOrZero,
                                 !.todo = Span(Foreign(TargetOrZero))]
  <2>1. TargetOrZero \in VerOrNone
    BY ProcTypes, Constants DEF TargetOrZero, ConstType, VerOrNone
  <2>2. w \in Procs /\ w.pc = "batch"
    BY <2>1, NullTypes DEF Procs, NoWork, Span
  <2>3. proc' = [proc EXCEPT ![p] = w]
    BY <1>1 DEF KeyProcTask
  <2> HIDE DEF w
  <2> QED
    BY <1>1, <2>2, <2>3, IdleType DEF KeyProcTask
<1>2. ASSUME NEW h \in Host, NEW d \in Dek, ReencryptStart(p, h, d) PROVE TypeInv'
  <2>1. PICK keys \in LoadedKeys(h) :
           proc' = [proc EXCEPT ![p] =
                      IF VersionChecked(SwitchVersion)
                      THEN [proc[p] EXCEPT !.pc = "convert", !.todo = @ \ {d}, !.batch = d,
                                     !.ver = SwitchVersion, !.keys = keys]
                      ELSE NoWork]
    BY <1>2 DEF ReencryptStart
  <2>2. CASE ~VersionChecked(SwitchVersion)
    BY <1>2, <2>1, <2>2, NullTypes, IdleType DEF ReencryptStart, NoWork
  <2>3. CASE VersionChecked(SwitchVersion)
    <3> DEFINE w == [proc[p] EXCEPT !.pc = "convert", !.todo = @ \ {d}, !.batch = d,
                                    !.ver = SwitchVersion, !.keys = keys]
    <3>1. SwitchVersion \in Ver
      BY <2>3 DEF VersionChecked
    <3>2. keys \in Keys
      BY LoadedType
    <3>3. w \in Procs /\ w.ver \in Ver /\ w.batch \in Dek
      BY <3>1, <3>2, ProcTypes DEF Procs, VerOrNone
    <3>4. proc' = [proc EXCEPT ![p] = IF VersionChecked(SwitchVersion) THEN w ELSE NoWork]
      BY <2>1
    <3> HIDE DEF w
    <3>5. proc' \in [Proc -> Procs]
      BY <2>3, <3>3, <3>4, ProcTypes
    <3>6. \A q \in Proc : Converting(q)' => proc'[q].ver \in Ver /\ proc'[q].batch \in Dek
      BY <2>3, <3>3, <3>4, ProcTypes DEF TypeInv, Converting
    <3>7. dek' = dek
      BY <1>2 DEF ReencryptStart
    <3> QED
      BY <1>2, <3>5, <3>6, <3>7, ProcTypes, OthersType DEF ReencryptStart
  <2> QED
    BY <2>2, <2>3
<1>3. CASE Reencrypt(p)
  <2> DEFINE w == [NoWork EXCEPT !.pc = "check", !.target0 = proc[p].target0,
                                 !.todo = proc[p].todo]
             d == proc[p].batch
             r == Reencrypted(p, d)
  <2>1. w \in Procs /\ w.pc = "check"
    BY ProcTypes, NullTypes DEF Procs, NoWork
  <2>2. proc' = [proc EXCEPT ![p] = w]
    BY <1>3 DEF Reencrypt
  <2>3. d \in Dek /\ proc[p].ver \in Ver
    BY <1>3 DEF Reencrypt, TypeInv, Converting
  <2>4. r \in DekRow
    BY <2>3, ProcTypes, Constants DEF Reencrypted, DekRow, Procs, Keys, ConstType
  <2>5. dek' \in {dek, [dek EXCEPT ![d] = r]}
    BY <1>3 DEF Reencrypt
  <2> HIDE DEF w, r
  <2>6. dek' \in [Dek -> DekRow \cup {NoRow}]
    BY <2>4, <2>5, ProcTypes
  <2>7. proc' \in [Proc -> Procs]
    BY <2>1, <2>2, ProcTypes
  <2>8. \A q \in Proc : Converting(q)' => proc'[q].ver \in Ver /\ proc'[q].batch \in Dek
    BY <2>1, <2>2, ProcTypes DEF TypeInv, Converting
  <2> QED
    BY <1>3, <2>6, <2>7, <2>8, OthersType DEF Reencrypt
<1>4. CASE ReencryptFails(p)
  BY <1>4, NullTypes, IdleType DEF ReencryptFails, NoWork
<1>5. CASE NextBatch(p)
  <2> DEFINE w == [proc[p] EXCEPT !.pc = "batch"]
  <2>1. w \in Procs /\ w.pc = "batch"
    BY ProcTypes DEF Procs
  <2>2. proc' = [proc EXCEPT ![p] = w]
    BY <1>5, ProcTypes DEF NextBatch
  <2> HIDE DEF w
  <2> QED
    BY <1>5, <2>1, <2>2, IdleType DEF NextBatch
<1>6. CASE KeyProcEnds(p)
  BY <1>6, NullTypes, IdleType DEF KeyProcEnds, NoWork
<1>7. CASE KeyProcFails(p)
  BY <1>7, NullTypes, IdleType DEF KeyProcFails, NoWork
<1> QED
  BY <1>1, <1>2, <1>3, <1>4, <1>5, <1>6, <1>7 DEF KeyProcProceeds

\* The steps of a tokenizer keep the types.
LEMMA TokenizerType ==
  ASSUME TypeInv, NEW h \in Host, TokenizerNext(h)
  PROVE  TypeInv'
<1>0. /\ conf \in [Host -> [active : VerOrNone, keys : Keys]]
      /\ draft \in [Host -> Drafts \cup {NoDraft}]
      /\ dek \in [Dek -> DekRow \cup {NoRow}]
      /\ active \in VerOrNone
  BY DEF TypeInv, TypeOK, Keys, Drafts, DekRow, VerOrNone
<1>1. SUFFICES ASSUME config' = config, parts' = parts, generations' = generations,
                      job' = job, proc' = proc
               PROVE  /\ conf' \in [Host -> [active : VerOrNone, keys : Keys]]
                      /\ draft' \in [Host -> Drafts \cup {NoDraft}]
                      /\ dek' \in [Dek -> DekRow \cup {NoRow}]
  <2>1. config' = config /\ parts' = parts /\ generations' = generations
        /\ job' = job /\ proc' = proc
    BY DEF TokenizerNext, Refresh, InsertDek, CommitDek, RollBackDek
  <2>2. TypeOK'
    BY <1>1, <2>1 DEF TypeInv, TypeOK, Jobs, Keys, Drafts, DekRow, config, parts
  <2> QED
    BY <2>1, <2>2 DEF TypeInv, JobForm, Converting
<1>2. CASE Refresh(h)
  <2>1. PICK keys \in LoadedKeys(h) :
           conf' = [conf EXCEPT ![h] = [active |-> active, keys |-> keys]]
    BY <1>2 DEF Refresh
  <2>2. [active |-> active, keys |-> keys] \in [active : VerOrNone, keys : Keys]
    BY <1>0, LoadedType
  <2> QED
    BY <1>0, <1>2, <2>1, <2>2 DEF Refresh
<1>3. ASSUME NEW d \in Dek, InsertDek(h, d)
      PROVE  /\ conf' \in [Host -> [active : VerOrNone, keys : Keys]]
             /\ draft' \in [Host -> Drafts \cup {NoDraft}]
             /\ dek' \in [Dek -> DekRow \cup {NoRow}]
  <2>1. [id |-> d, ver |-> conf[h].active, gen |-> conf[h].keys[conf[h].active]] \in Drafts
    BY <1>0, <1>3 DEF InsertDek, Drafts, Keys, VerOrNone, GenOrNothing
  <2> QED
    BY <1>0, <1>3, <2>1 DEF InsertDek
<1>4. CASE CommitDek(h)
  <2>1. draft[h] \in Drafts
    BY <1>0, <1>4 DEF CommitDek
  <2>2. draft[h].id \in Dek /\ [ver |-> draft[h].ver, gen |-> draft[h].gen] \in DekRow
    BY <2>1 DEF Drafts, DekRow, GenOrNothing
  <2> QED
    BY <1>0, <1>4, <2>2 DEF CommitDek
<1>5. CASE RollBackDek(h)
  BY <1>0, <1>5 DEF RollBackDek
<1> QED
  BY <1>2, <1>3, <1>4, <1>5 DEF TokenizerNext

\* So does a step that changes nothing.
LEMMA StutterType == TypeInv /\ UNCHANGED vars => TypeInv'
BY DEF TypeInv, TypeOK, JobForm, Converting, vars

\* TypeInv is inductive.
LEMMA NextType == TypeInv /\ [Next]_vars => TypeInv'
<1> SUFFICES ASSUME TypeInv, [Next]_vars PROVE TypeInv'
  OBVIOUS
<1>1. ASSUME NEW h \in Host, OfficerStarts(h) \/ TokenizerNext(h) PROVE TypeInv'
  BY <1>1, OfficerStartsType, TokenizerType
<1>2. CASE JobProceeds
  BY <1>2, CleanupCountType, CallKeeperType, PatchHostType, RestartFailsType,
     CommitGenerateType, CommitCleanupType, CommitWriteType DEF JobProceeds
<1>3. CASE JobFails
  <2>1. TypeOK'
    BY <1>3, NoJobForm DEF JobFails, TypeInv, TypeOK, Jobs, config, parts, tokenizers
  <2> QED
    BY <1>3, <2>1, NoJobForm DEF JobFails, TypeInv, Converting
<1>4. ASSUME NEW p \in Proc, KeyProcProceeds(p) \/ KeyProcFails(p) PROVE TypeInv'
  BY <1>4, KeyProcType
<1> QED
  BY <1>1, <1>2, <1>3, <1>4, StutterType DEF Next

\* Whatever officers, processes and tokenizers do and whatever fails, the state
\* stays well typed: a DEK about to be stored has a version and a key, and no
\* request or process gets out of its steps.
THEOREM TypeCorrect == Spec => []TypeOK
<1>1. TypeInv => TypeOK
  BY DEF TypeInv
<1> QED
  BY InitType, NextType, <1>1, PTL DEF Spec

-----------------------------------------------------------------------------

\* The invariant's parts and the types of the variables, for citing.
LEMMA Unpacked ==
  ASSUME KekInv
  PROVE  /\ TypeInv /\ Distributing /\ Distributed /\ RowsConfirmed
         /\ TokenizersConfirmed /\ ProcsConfirmed /\ Generating /\ Cleaning /\ Deciding
         /\ active \in Ver /\ target \in VerOrNone /\ part1 \in Keys /\ part3 \in Keys
         /\ part2 \in [Host -> Keys] /\ checked \in [Ver -> SUBSET Officer]
         /\ dek \in [Dek -> DekRow \cup {NoRow}]
         /\ job \in Jobs /\ proc \in [Proc -> Procs]
         /\ conf \in [Host -> [active : VerOrNone, keys : Keys]]
         /\ draft \in [Host -> Drafts \cup {NoDraft}]
BY Types DEF KekInv, TypeInv

\* The bootstrap: version 0 is in place, confirmed and active.
LEMMA InitKekInv == Init => KekInv
<1> SUFFICES ASSUME Init PROVE KekInv
  OBVIOUS
<1>1. TypeInv
  BY InitType
<1>2. Distributing /\ Generating /\ Cleaning /\ Deciding
  BY DEF Init, NoJob, Distributing, Generating, Cleaning, Deciding
<1>3. Distributed
  BY DEF Init, Distributed
<1>4. RowsConfirmed
  BY Constants DEF ConstType, Init, RowsConfirmed, Confirmed, Settled, Stored, Bootstrap, Nothing
<1>5. TokenizersConfirmed
  BY Constants DEF ConstType, Init, TokenizersConfirmed, NoConf, NoKeys, NoDraft, Genuine
<1>6. ProcsConfirmed
  BY DEF Init, ProcsConfirmed, Converting, NoWork
<1> QED
  BY <1>1, <1>2, <1>3, <1>4, <1>5, <1>6 DEF KekInv

\* Loaded keys are those of the database, and every one of them is in place.
LEMMA LoadedGenuine ==
  ASSUME NEW h \in Host, NEW keys \in LoadedKeys(h)
  PROVE  \A v \in Ver : /\ keys[v] \in {Nothing, part3[v]}
                        /\ part3[v] = Nothing => keys[v] = Nothing
<1>1. PICK got \in SUBSET {v \in Ver : Valid(h, v)} :
             keys = [v \in Ver |-> IF v \in got THEN part3[v] ELSE Nothing]
  BY DEF LoadedKeys
<1> QED
  BY <1>1 DEF Valid, Assembled

\* What a step of a tokenizer leaves alone, and the part of the invariant
\* that follows.
LEMMA TokenizerKeeps ==
  ASSUME KekInv, TypeInv',
         UNCHANGED <<config, parts, generations, job, proc>>,
         TokenizersConfirmed',
         \A d \in Dek : Stored(d)' => \/ dek'[d] = dek[d]
                                      \/ /\ Confirmed(dek'[d].ver)
                                         /\ dek'[d].gen = part3[dek'[d].ver]
                                         /\ job.op = "cleanup" => dek'[d].ver = active,
         job.op = "cleanup" =>
            \A h \in Host : conf'[h].active \in {NoVer, active} /\ draft'[h].ver \in {NoVer, active},
         job.op = "generate" =>
            \A h \in Host : conf'[h].keys[job.ver] \in {conf[h].keys[job.ver], Nothing}
  PROVE  KekInv'
<1> USE Unpacked DEF config, parts
<1>1. Distributing' /\ Distributed'
  BY DEF Distributing, Distributed
<1>2. RowsConfirmed'
  BY DEF RowsConfirmed, Confirmed, Settled, Stored
<1>3. ProcsConfirmed'
  BY DEF ProcsConfirmed, Confirmed, Settled, Genuine, Converting
<1>4. Generating'
  BY DEF Generating, Converting
<1>5. Cleaning'
  BY DEF Cleaning, Converting, Stored, NoRow
<1>6. Deciding'
  BY DEF Deciding, Confirmed, Settled
<1> QED
  BY <1>1, <1>2, <1>3, <1>4, <1>5, <1>6 DEF KekInv

\* Refreshing, inserting, committing and rolling back keep the invariant.
LEMMA TokenizerInv ==
  ASSUME KekInv, TypeInv', NEW h \in Host, TokenizerNext(h)
  PROVE  KekInv'
<1> USE Unpacked
<1>1. CASE Refresh(h)
  <2>1. PICK keys \in LoadedKeys(h) :
           conf' = [conf EXCEPT ![h] = [active |-> active, keys |-> keys]]
    BY <1>1 DEF Refresh
  <2>2. /\ conf'[h].active = active /\ conf'[h].keys = keys
        /\ \A i \in Host : i # h => conf'[i] = conf[i]
    BY <2>1
  <2>3. \A v \in Ver : keys[v] \in {Nothing, part3[v]} /\ (part3[v] = Nothing => keys[v] = Nothing)
    BY LoadedGenuine
  <2>4. TokenizersConfirmed'
    BY <1>1, <2>2, <2>3
       DEF Refresh, TokenizersConfirmed, RowsConfirmed, Genuine, Confirmed, Settled, config, parts
  <2>5. job.op = "cleanup" =>
          \A i \in Host : conf'[i].active \in {NoVer, active} /\ draft'[i].ver \in {NoVer, active}
    BY <1>1, <2>2 DEF Refresh, Cleaning
  <2>6. job.op = "generate" =>
          \A i \in Host : conf'[i].keys[job.ver] \in {conf[i].keys[job.ver], Nothing}
    BY <1>1, <2>2, <2>3, JobTypes DEF Generating
  <2> QED
    BY <1>1, <2>4, <2>5, <2>6, TokenizerKeeps DEF Refresh
<1>2. ASSUME NEW d \in Dek, InsertDek(h, d)
      PROVE  KekInv'
  <2> DEFINE n == [id |-> d, ver |-> conf[h].active, gen |-> conf[h].keys[conf[h].active]]
  <2>1. draft'[h] = n /\ \A i \in Host : i # h => draft'[i] = draft[i]
    BY <1>2 DEF InsertDek
  <2>2. Confirmed(n.ver) /\ n.gen = part3[n.ver]
    BY <1>2 DEF InsertDek, TokenizersConfirmed, Genuine, Confirmed, Settled, VerOrNone
  <2>3. job.op = "cleanup" => n.ver = active
    BY <1>2 DEF Cleaning, InsertDek
  <2> HIDE DEF n
  <2>4. TokenizersConfirmed'
    BY <1>2, <2>1, <2>2
       DEF InsertDek, TokenizersConfirmed, Genuine, Confirmed, Settled, config, parts
  <2>5. job.op = "cleanup" =>
          \A i \in Host : conf'[i].active \in {NoVer, active} /\ draft'[i].ver \in {NoVer, active}
    BY <1>2, <2>1, <2>3 DEF InsertDek, Cleaning
  <2> QED
    BY <1>2, <2>4, <2>5, TokenizerKeeps DEF InsertDek, Stored
<1>3. CASE CommitDek(h)
  <2> DEFINE n == [ver |-> draft[h].ver, gen |-> draft[h].gen]
  <2>1. draft'[h] = NoDraft /\ \A i \in Host : i # h => draft'[i] = draft[i]
    BY <1>3 DEF CommitDek
  <2>2. Confirmed(n.ver) /\ n.gen = part3[n.ver]
    BY <1>3 DEF CommitDek, TokenizersConfirmed
  <2>3. job.op = "cleanup" => n.ver = active
    <3>1. draft[h].ver \in Ver
      BY <1>3 DEF CommitDek, Drafts
    <3> QED
      BY <3>1, Constants DEF ConstType, Cleaning
  <2>4. dek' = [dek EXCEPT ![draft[h].id] = n]
    BY <1>3 DEF CommitDek
  <2> HIDE DEF n
  <2>5. TokenizersConfirmed'
    BY <1>3, <2>1
       DEF CommitDek, TokenizersConfirmed, Genuine, Confirmed, Settled, config, parts
  <2>6. job.op = "cleanup" =>
          \A i \in Host : conf'[i].active \in {NoVer, active} /\ draft'[i].ver \in {NoVer, active}
    BY <1>3, <2>1 DEF CommitDek, Cleaning, NoDraft
  <2>7. \A d \in Dek : dek'[d] \in {dek[d], n}
    BY <2>4
  <2>8. \A d \in Dek : Stored(d)' => \/ dek'[d] = dek[d]
                                      \/ /\ Confirmed(dek'[d].ver)
                                         /\ dek'[d].gen = part3[dek'[d].ver]
                                         /\ job.op = "cleanup" => dek'[d].ver = active
    BY <2>2, <2>3, <2>7
  <2> QED
    BY <1>3, <2>5, <2>6, <2>8, TokenizerKeeps DEF CommitDek
<1>4. CASE RollBackDek(h)
  <2>1. draft'[h] = NoDraft /\ \A i \in Host : i # h => draft'[i] = draft[i]
    BY <1>4 DEF RollBackDek
  <2>2. TokenizersConfirmed'
    BY <1>4, <2>1
       DEF RollBackDek, TokenizersConfirmed, Genuine, Confirmed, Settled, config, parts
  <2>3. job.op = "cleanup" =>
          \A i \in Host : conf'[i].active \in {NoVer, active} /\ draft'[i].ver \in {NoVer, active}
    BY <1>4, <2>1 DEF RollBackDek, Cleaning, NoDraft
  <2> QED
    BY <1>4, <2>2, <2>3, TokenizerKeeps DEF RollBackDek, Stored
<1> QED
  BY <1>1, <1>2, <1>3, <1>4 DEF TokenizerNext

\* A step of a KeyProc that leaves it doing no request.
LEMMA IdleProcKeeps ==
  ASSUME KekInv, TypeInv', NEW p \in Proc, NEW w \in Procs, w.pc # "convert",
         proc' = [proc EXCEPT ![p] = w],
         \A d \in Dek : Stored(d)' => \/ dek'[d] = dek[d]
                                      \/ /\ Confirmed(dek'[d].ver)
                                         /\ dek'[d].gen = part3[dek'[d].ver]
                                         /\ job.op = "cleanup" => dek'[d].ver = active,
         UNCHANGED <<config, parts, generations, job, tokenizers>>
  PROVE  KekInv'
<1> USE Unpacked DEF config, parts, tokenizers
<1>0. proc'[p] = w /\ \A q \in Proc : q # p => proc'[q] = proc[q]
  OBVIOUS
<1>1. Distributing' /\ Distributed'
  BY DEF Distributing, Distributed
<1>2. RowsConfirmed'
  BY DEF RowsConfirmed, Confirmed, Settled, Stored
<1>3. TokenizersConfirmed'
  BY DEF TokenizersConfirmed, Confirmed, Settled, Genuine
<1>4. ProcsConfirmed'
  BY <1>0 DEF ProcsConfirmed, Confirmed, Settled, Genuine, Converting
<1>5. Generating'
  BY <1>0 DEF Generating, Converting
<1>6. Cleaning'
  BY <1>0 DEF Cleaning, Converting, Stored, NoRow
<1>7. Deciding'
  BY DEF Deciding, Confirmed, Settled
<1> QED
  BY <1>1, <1>2, <1>3, <1>4, <1>5, <1>6, <1>7 DEF KekInv

\* A request goes on only when the switch version is confirmed.
LEMMA ReencryptStartInv ==
  ASSUME KekInv, TypeInv', NEW p \in Proc, NEW h \in Host, NEW d \in Dek,
         ReencryptStart(p, h, d)
  PROVE  KekInv'
<1> USE Unpacked
<1>1. PICK keys \in LoadedKeys(h) :
         proc' = [proc EXCEPT ![p] =
                    IF VersionChecked(SwitchVersion)
                    THEN [proc[p] EXCEPT !.pc = "convert", !.todo = @ \ {d}, !.batch = d,
                                         !.ver = SwitchVersion, !.keys = keys]
                    ELSE NoWork]
  BY DEF ReencryptStart
<1>2. CASE ~VersionChecked(SwitchVersion)
  BY <1>1, <1>2, NullTypes, IdleProcKeeps DEF ReencryptStart, NoWork, Stored
<1>3. CASE VersionChecked(SwitchVersion)
  <2> DEFINE w == [proc[p] EXCEPT !.pc = "convert", !.todo = @ \ {d}, !.batch = d,
                                  !.ver = SwitchVersion, !.keys = keys]
  <2>1. w.ver = SwitchVersion /\ w.keys = keys
    BY DEF Procs
  <2>2. proc' = [proc EXCEPT ![p] = IF VersionChecked(SwitchVersion) THEN w ELSE NoWork]
    BY <1>1
  <2> HIDE DEF w
  <2>3. proc'[p] = w /\ \A q \in Proc : q # p => proc'[q] = proc[q]
    BY <1>3, <2>2
  <2>4. \A v \in Ver : keys[v] \in {Nothing, part3[v]} /\ (part3[v] = Nothing => keys[v] = Nothing)
    BY LoadedGenuine
  <2>5. Confirmed(SwitchVersion)
    BY <1>3 DEF VersionChecked, SwitchVersion, RowsConfirmed, Confirmed
  <2>6. UNCHANGED <<active, target, part3, checked, part1, part2, dek, job, conf, draft>>
    BY DEF ReencryptStart, config, parts, tokenizers
  <2>7. SwitchVersion \in Ver /\ (job.op = "cleanup" => SwitchVersion = active)
    BY <1>3 DEF VersionChecked, SwitchVersion, Cleaning
  <2>8. Distributing' /\ Distributed'
    BY <2>6 DEF Distributing, Distributed
  <2>9. RowsConfirmed'
    BY <2>6 DEF RowsConfirmed, Confirmed, Settled, Stored
  <2>10. TokenizersConfirmed'
    BY <2>6 DEF TokenizersConfirmed, Confirmed, Settled, Genuine
  <2>11. ProcsConfirmed'
    <3> SUFFICES ASSUME NEW q \in Proc, Converting(q)'
                 PROVE  (Confirmed(proc[q].ver) /\ Genuine(proc[q].keys))'
      BY DEF ProcsConfirmed
    <3>1. CASE q = p
      BY <3>1, <2>1, <2>3, <2>4, <2>5, <2>6 DEF Confirmed, Settled, Genuine
    <3>2. CASE q # p
      BY <3>2, <2>3, <2>6 DEF ProcsConfirmed, Confirmed, Settled, Genuine, Converting
    <3> QED
      BY <3>1, <3>2
  <2>12. Generating'
    <3>1. job.op = "generate" => job.ver \in Ver
      BY JobTypes
    <3> QED
      BY <3>1, <2>1, <2>3, <2>4, <2>6 DEF Generating, Converting
  <2>13. Cleaning'
    BY <2>1, <2>3, <2>6, <2>7 DEF Cleaning, Converting
  <2>14. Deciding'
    BY <2>6 DEF Deciding, Confirmed, Settled
  <2> QED
    BY <2>8, <2>9, <2>10, <2>11, <2>12, <2>13, <2>14 DEF KekInv
<1> QED
  BY <1>2, <1>3

\* A conversion decrypts with the right key and encrypts under the right one.
LEMMA ReencryptInv ==
  ASSUME KekInv, TypeInv', NEW p \in Proc, Reencrypt(p)
  PROVE  KekInv'
<1> USE Unpacked
<1> DEFINE w == [NoWork EXCEPT !.pc = "check", !.target0 = proc[p].target0,
                               !.todo = proc[p].todo]
           d == proc[p].batch
           r == Reencrypted(p, d)
<1>1. w \in Procs /\ w.pc = "check"
  BY NullTypes DEF Procs, NoWork
<1>2. proc' = [proc EXCEPT ![p] = w]
  BY DEF Reencrypt
<1>3. Converting(p) /\ d \in Dek /\ proc[p].ver \in Ver /\ Confirmed(proc[p].ver) /\ Genuine(proc[p].keys)
  BY DEF Reencrypt, TypeInv, Converting, ProcsConfirmed
<1>4. CASE Mismatched(p)
  <2>1. Stored(d) /\ dek[d].ver \in Ver /\ HasKeys(p)
    BY <1>3, <1>4 DEF Mismatched, Stored, NoRow, Reencrypt, DekRow
  <2>2. proc[p].keys[dek[d].ver] = dek[d].gen
    BY <1>3, <2>1 DEF RowsConfirmed, Confirmed, Settled, Genuine, HasKeys
  <2>3. proc[p].keys[proc[p].ver] = part3[proc[p].ver]
    BY <1>3, <2>1 DEF Confirmed, Settled, Genuine, HasKeys
  <2>4. r.ver = proc[p].ver /\ r.gen = part3[r.ver]
    BY <2>2, <2>3 DEF Reencrypted
  <2>5. job.op = "cleanup" => r.ver = active
    BY <1>3, <2>4 DEF Cleaning
  <2>6. dek' = [dek EXCEPT ![d] = r]
    BY <1>4 DEF Reencrypt
  <2> HIDE DEF w, r
  <2>7. \A e \in Dek : dek'[e] \in {dek[e], r}
    BY <2>6
  <2>8. \A e \in Dek : Stored(e)' => \/ dek'[e] = dek[e]
                                     \/ /\ Confirmed(dek'[e].ver)
                                        /\ dek'[e].gen = part3[dek'[e].ver]
                                        /\ job.op = "cleanup" => dek'[e].ver = active
    BY <1>3, <2>4, <2>5, <2>7
  <2> QED
    BY <1>1, <1>2, <2>8, IdleProcKeeps DEF Reencrypt
<1>5. CASE ~Mismatched(p)
  <2>1. dek' = dek
    BY <1>5 DEF Reencrypt
  <2> HIDE DEF w
  <2> QED
    BY <1>1, <1>2, <2>1, IdleProcKeeps DEF Reencrypt
<1> QED
  BY <1>4, <1>5

\* All steps of a KeyProc keep the invariant.
LEMMA KeyProcInv ==
  ASSUME KekInv, TypeInv', NEW p \in Proc, KeyProcProceeds(p) \/ KeyProcFails(p)
  PROVE  KekInv'
<1> USE Unpacked
<1>1. ASSUME NEW h \in Host, KeyProcTask(p, h) PROVE KekInv'
  <2> DEFINE w == [NoWork EXCEPT !.pc = "batch", !.target0 = TargetOrZero,
                                 !.todo = Span(Foreign(TargetOrZero))]
  <2>1. TargetOrZero \in VerOrNone
    BY Constants DEF TargetOrZero, ConstType, VerOrNone
  <2>2. w \in Procs /\ w.pc = "batch"
    BY <2>1, NullTypes DEF Procs, NoWork, Span
  <2>3. proc' = [proc EXCEPT ![p] = w]
    BY <1>1 DEF KeyProcTask
  <2> HIDE DEF w
  <2> QED
    BY <1>1, <2>2, <2>3, IdleProcKeeps DEF KeyProcTask
<1>2. CASE NextBatch(p)
  <2> DEFINE w == [proc[p] EXCEPT !.pc = "batch"]
  <2>1. w \in Procs /\ w.pc = "batch"
    BY DEF Procs
  <2>2. proc' = [proc EXCEPT ![p] = w]
    BY <1>2 DEF NextBatch
  <2> HIDE DEF w
  <2> QED
    BY <1>2, <2>1, <2>2, IdleProcKeeps DEF NextBatch
<1>3. CASE ReencryptFails(p) \/ KeyProcEnds(p) \/ KeyProcFails(p)
  <2>1. /\ proc' = [proc EXCEPT ![p] = NoWork]
        /\ UNCHANGED <<config, dek, parts, generations, job, tokenizers>>
    BY <1>3 DEF ReencryptFails, KeyProcEnds, KeyProcFails
  <2>2. NoWork \in Procs /\ NoWork.pc # "convert"
    BY NullTypes DEF NoWork
  <2> QED
    BY <2>1, <2>2, IdleProcKeeps
<1> QED
  BY <1>1, <1>2, <1>3, ReencryptStartInv, ReencryptInv DEF KeyProcProceeds

\* A step that only changes the job.
LEMMA JobKeeps ==
  ASSUME KekInv, TypeInv', UNCHANGED <<config, dek, parts, proc, tokenizers>>,
         Distributing', Generating', Cleaning', Deciding'
  PROVE  KekInv'
<1> USE Unpacked DEF config, parts, tokenizers
<1>1. Distributed'
  BY DEF Distributed
<1>2. RowsConfirmed'
  BY DEF RowsConfirmed, Confirmed, Settled, Stored
<1>3. TokenizersConfirmed'
  BY DEF TokenizersConfirmed, Confirmed, Settled, Genuine
<1>4. ProcsConfirmed'
  BY DEF ProcsConfirmed, Confirmed, Settled, Genuine, Converting
<1> QED
  BY <1>1, <1>2, <1>3, <1>4 DEF KekInv

\* The invariant says nothing of a request that has ended.
LEMMA NoJobKeeps ==
  job' = NoJob => Distributing' /\ Generating' /\ Cleaning' /\ Deciding'
BY DEF NoJob, Distributing, Generating, Cleaning, Deciding

\* A set of naturals with a bound has a greatest element.
LEMMA HasMax ==
  ASSUME NEW N \in Nat, NEW S \in SUBSET (0 .. N), S # {}
  PROVE  \E m \in S : \A v \in S : v <= m
<1> DEFINE T == {n \in Nat : N - n \in S}
           R == OpToRel(<, Nat)
<1>1. IsWellFoundedOn(R, Nat)
  BY NatLessThanWellFounded
<1>2. \A x, y \in Nat : x < y => <<x, y>> \in R
  BY DEF OpToRel
<1>3. T # {}
  <2>1. PICK v \in S : TRUE
    OBVIOUS
  <2>2. N - v \in Nat /\ N - (N - v) = v
    OBVIOUS
  <2> QED
    BY <2>1, <2>2
<1> HIDE DEF R
<1>4. PICK n \in T : \A k \in T : <<k, n>> \notin R
  BY <1>1, <1>3, WFMin
<1>5. \A v \in S : v <= N - n
  <2> SUFFICES ASSUME NEW v \in S, ~(v <= N - n) PROVE FALSE
    OBVIOUS
  <2>1. N - v \in T /\ N - v < n
    OBVIOUS
  <2> QED
    BY <1>2, <1>4, <2>1
<1> QED
  BY <1>5

\* The version that generate_kek takes is one that no row of t_config has.
LEMMA NextVersionIsNew ==
  ASSUME TypeInv, part3[active] # Nothing, LastVersion + 1 \in Ver
  PROVE  part3[LastVersion + 1] = Nothing
<1>1. Versions \in SUBSET (0 .. MaxVersion) /\ active \in Versions
  BY DEF TypeInv, TypeOK, Versions, Ver
<1>2. PICK m \in Versions : \A v \in Versions : v <= m
  BY <1>1, HasMax, Constants DEF ConstType
<1>3. \A v \in Versions : v <= LastVersion
  <2>1. \A v \in Versions : m >= v
    BY <1>1, <1>2
  <2>2. \E x \in Versions : \A v \in Versions : x >= v
    BY <2>1
  <2>3. LastVersion \in Versions /\ \A v \in Versions : LastVersion >= v
    BY <2>2 DEF LastVersion, Max
  <2> QED
    BY <1>1, <2>3
<1>4. LastVersion + 1 \notin Versions
  <2>1. LastVersion \in Versions
    BY <1>1, <1>2 DEF LastVersion, Max
  <2> QED
    BY <1>1, <1>3, <2>1
<1> QED
  BY <1>4 DEF Versions

\* What a request decides from the snapshot it loads.
LEMMA OfficerStartsInv ==
  ASSUME KekInv, TypeInv', Patient, NEW h \in Host, OfficerStarts(h)
  PROVE  KekInv'
<1> USE Unpacked
<1>0. job.op = "none" /\ UNCHANGED <<config, dek, parts, proc, tokenizers>>
  BY DEF OfficerStarts, GenerateStart, ConfirmStart, ResetStart, SwitchStart, HmacStart,
         CleanupStart, Start
<1>1. CASE GenerateStart(h)
  <2>1. /\ job'.op = "generate" /\ job'.pc = "keeper" /\ job'.hosts = Host
        /\ job'.ver = LastVersion + 1 /\ job'.ver \in Ver
    BY <1>1 DEF GenerateStart, Start, NoJob
  <2>2. part3[LastVersion + 1] = Nothing
    BY <2>1, NextVersionIsNew DEF RowsConfirmed, Confirmed, Settled
  <2>3. Distributing' /\ Cleaning' /\ Deciding'
    BY <2>1 DEF Distributing, Cleaning, Deciding
  <2>4. Generating'
    BY <1>0, <1>1, <2>1, <2>2 DEF Generating, GenerateStart, NoReencryption, Converting, config
  <2> QED
    BY <1>0, <2>3, <2>4, JobKeeps
<1>2. ASSUME NEW officer \in Officer, ConfirmStart(h, officer) PROVE KekInv'
  <2>1. job'.op = "confirm"
    BY <1>2 DEF ConfirmStart, Start, NoJob
  <2>2. Distributing' /\ Generating' /\ Cleaning' /\ Deciding'
    BY <2>1 DEF Distributing, Generating, Cleaning, Deciding
  <2> QED
    BY <1>0, <2>2, JobKeeps
<1>3. ASSUME NEW v \in Ver, ResetStart(h, v) PROVE KekInv'
  <2>1. job'.op = "reset" /\ job'.ver = v
    BY <1>3 DEF ResetStart, Start, NoJob
  <2>2. Settled(v)
    BY <1>3 DEF ResetStart, Valid, Assembled, Distributed, Settled
  <2>3. Distributing' /\ Generating' /\ Cleaning' /\ Deciding'
    BY <1>0, <2>1, <2>2
       DEF Distributing, Generating, Cleaning, Deciding, Settled, config, parts
  <2> QED
    BY <1>0, <2>3, JobKeeps
<1>4. CASE SwitchStart(h)
  <2>1. job'.op = "switch" /\ job'.ver = target
    BY <1>4 DEF SwitchStart, Start, NoJob
  <2>2. Confirmed(target)
    BY <1>4 DEF SwitchStart, VersionChecked, RowsConfirmed, Confirmed
  <2>3. Distributing' /\ Generating' /\ Cleaning' /\ Deciding'
    BY <1>0, <2>1, <2>2
       DEF Distributing, Generating, Cleaning, Deciding, Confirmed, Settled, config, parts
  <2> QED
    BY <1>0, <2>3, JobKeeps
<1>5. CASE HmacStart(h)
  <2>1. job'.op = "hmac" /\ job'.ver = active /\ job'.gen = part3[active]
    BY <1>5 DEF HmacStart, Start, NoJob
  <2>2. Distributing' /\ Generating' /\ Cleaning' /\ Deciding'
    BY <1>0, <2>1 DEF Distributing, Generating, Cleaning, Deciding, config
  <2> QED
    BY <1>0, <2>2, JobKeeps
<1>6. CASE CleanupStart(h)
  <2>1. /\ job'.op = "cleanup" /\ job'.pc = "count" /\ job'.ver = active
        /\ job'.purge = Versions \ {active}
    BY <1>6 DEF CleanupStart, Start, NoJob
  <2>2. Distributing' /\ Generating' /\ Deciding'
    BY <2>1 DEF Distributing, Generating, Deciding
  <2>3. /\ \A p \in Proc : ~Converting(p)
        /\ \A i \in Host : conf[i].active \in {NoVer, active} /\ draft[i].ver = NoVer
    BY <1>6 DEF CleanupStart, Quiet, Converting, NoWork, NoDraft
  <2>4. target \in {NoVer, active}
    BY <1>6 DEF CleanupStart
  <2>5. Cleaning'
    BY <1>0, <2>1, <2>3, <2>4 DEF Cleaning, Converting, Versions, config, tokenizers
  <2> QED
    BY <1>0, <2>2, <2>5, JobKeeps
<1> QED
  BY <1>1, <1>2, <1>3, <1>4, <1>5, <1>6 DEF OfficerStarts

\* Past the count no row is under a version that is to go.
LEMMA CleanupCountInv ==
  ASSUME KekInv, TypeInv', CleanupCount
  PROVE  KekInv'
<1> USE Unpacked
<1>1. CASE \E d \in Dek : dek[d].ver \in job.purge
  BY <1>1, NoJobKeeps, JobKeeps DEF CleanupCount
<1>2. CASE ~\E d \in Dek : dek[d].ver \in job.purge
  <2>0. job.op = "cleanup"
    BY JobTypes DEF CleanupCount
  <2>1. /\ job'.op = "cleanup" /\ job'.pc = "keeper"
        /\ job'.ver = job.ver /\ job'.purge = job.purge
    BY <1>2, <2>0 DEF CleanupCount, Jobs
  <2>2. \A d \in Dek : dek[d].ver \in {NoVer, active}
    <3> SUFFICES ASSUME NEW d \in Dek, dek[d].ver \notin {NoVer, active} PROVE FALSE
      OBVIOUS
    <3>1. Stored(d) /\ dek[d].ver \in Ver
      BY DEF Stored, NoRow, DekRow
    <3> QED
      BY <1>2, <2>0, <3>1 DEF RowsConfirmed, Confirmed, Settled, Cleaning
  <2>3. Distributing' /\ Generating' /\ Deciding'
    BY <2>1 DEF Distributing, Generating, Deciding
  <2>4. Cleaning'
    BY <2>0, <2>1, <2>2 DEF CleanupCount, Cleaning, Converting, config, tokenizers
  <2> QED
    BY <2>3, <2>4, JobKeeps DEF CleanupCount
<1> QED
  BY <1>1, <1>2

\* A request may fail anywhere.
LEMMA JobFailsInv == ASSUME KekInv, TypeInv', JobFails PROVE KekInv'
BY NoJobKeeps, JobKeeps DEF JobFails

\* The storage of the key keeper changes at the version that is being made, or
\* of everything but the active version.
LEMMA CallKeeperInv ==
  ASSUME KekInv, TypeInv', CallKeeper
  PROVE  KekInv'
<1> USE Unpacked
<1>1. CASE KeeperRefuses
  <2>1. job' = NoJob /\ UNCHANGED <<config, dek, parts, proc, tokenizers>>
    BY <1>1 DEF CallKeeper, parts
  <2> QED
    BY <2>1, NoJobKeeps, JobKeeps
<1>2. CASE ~KeeperRefuses
  <2>0. UNCHANGED <<active, target, part3, checked, part2, dek, proc, conf, draft>>
    BY DEF CallKeeper, config, tokenizers
  <2>1. /\ job'.op = job.op /\ job'.pc = "patch" /\ job'.ver = job.ver /\ job'.gen = job.gen
        /\ job'.hosts = job.hosts /\ job'.purge = job.purge
    BY <1>2 DEF CallKeeper, Jobs
  <2>2. job.op \in {"generate", "cleanup"} /\ job.ver \in Ver
    BY JobTypes DEF CallKeeper
  <2>3. /\ job.op = "generate" => part3[job.ver] = Nothing /\ part1'[job.ver] = job.gen
        /\ job.op = "cleanup" => job.ver = active /\ part1'[active] = part1[active]
                                 /\ \A v \in Ver : v # active => part1'[v] = Nothing
    <3>1. CASE job.op = "generate"
      BY <1>2, <2>2, <3>1 DEF CallKeeper, Generating, Keys
    <3>2. CASE job.op = "cleanup"
      BY <1>2, <2>2, <3>2, NullTypes DEF CallKeeper, Cleaning, NoKeys, Keys
    <3> QED
      BY <2>2, <3>1, <3>2
  <2>4. \A v \in Ver : \/ part1'[v] = part1[v]
                       \/ part3[v] = Nothing
                       \/ part1'[v] = Nothing /\ job.op = "cleanup" /\ v # active
    <3>1. job.op = "generate" => \A v \in Ver : v # job.ver => part1'[v] = part1[v]
      BY <1>2 DEF CallKeeper, Keys
    <3> QED
      BY <2>2, <2>3, <3>1
  <2>5. \A v \in Ver : Confirmed(v) /\ (job.op = "cleanup" => v = active) => Confirmed(v)'
    BY <2>0, <2>4 DEF Confirmed, Settled
  <2>6. \A v \in Ver : Settled(v) /\ (job.op = "cleanup" => v = active) => Settled(v)'
    BY <2>0, <2>4 DEF Settled
  <2>7. \A d \in Dek : Stored(d) => dek[d].ver \in Ver /\ (job.op = "cleanup" => dek[d].ver = active)
    <3> SUFFICES ASSUME NEW d \in Dek, Stored(d)
                 PROVE  dek[d].ver \in Ver /\ (job.op = "cleanup" => dek[d].ver = active)
      OBVIOUS
    <3>1. dek[d].ver \in Ver
      BY DEF Stored, DekRow
    <3> QED
      BY <3>1, Constants DEF ConstType, Cleaning, CallKeeper
  <2>8. \A h \in Host : draft[h] # NoDraft =>
           draft[h].ver \in Ver /\ (job.op = "cleanup" => draft[h].ver = active)
    <3> SUFFICES ASSUME NEW h \in Host, draft[h] # NoDraft
                 PROVE  draft[h].ver \in Ver /\ (job.op = "cleanup" => draft[h].ver = active)
      OBVIOUS
    <3>1. draft[h].ver \in Ver
      BY DEF Drafts
    <3> QED
      BY <3>1, Constants DEF ConstType, Cleaning
  <2>9. Distributed'
    BY <2>0, <2>4 DEF Distributed
  <2>10. RowsConfirmed'
    <3>1. target # NoVer => target \in Ver /\ (job.op = "cleanup" => target = active)
      BY DEF VerOrNone, Cleaning
    <3> QED
      BY <2>0, <2>5, <2>6, <2>7, <3>1 DEF RowsConfirmed, Confirmed, Settled, Stored
  <2>11. TokenizersConfirmed'
    <3>1. \A h \in Host : conf[h].active # NoVer =>
             conf[h].active \in Ver /\ (job.op = "cleanup" => conf[h].active = active)
      BY DEF VerOrNone, Cleaning
    <3> QED
      BY <2>0, <2>5, <2>8, <3>1 DEF TokenizersConfirmed, Confirmed, Settled, Genuine
  <2>12. ProcsConfirmed'
    <3>1. \A p \in Proc : Converting(p) =>
             proc[p].ver \in Ver /\ (job.op = "cleanup" => proc[p].ver = active)
      BY DEF TypeInv, Cleaning
    <3> QED
      BY <2>0, <2>5, <3>1 DEF ProcsConfirmed, Confirmed, Settled, Genuine, Converting
  <2>13. Distributing'
    BY <2>0, <2>1, <2>3 DEF Distributing, CallKeeper
  <2>14. Generating'
    BY <2>0, <2>1 DEF Distributing, Generating, Converting, CallKeeper
  <2>15. Cleaning'
    BY <2>0, <2>1, <2>3 DEF Cleaning, Converting, CallKeeper
  <2>16. Deciding'
    BY <2>1, <2>2 DEF Deciding
  <2> QED
    BY <2>9, <2>10, <2>11, <2>12, <2>13, <2>14, <2>15, <2>16 DEF KekInv
<1> QED
  BY <1>1, <1>2

\* Rewriting the XML file of a host takes no version away that is in place.
LEMMA PatchKeeps ==
  ASSUME KekInv, NEW h \in Host, job.pc = "patch",
         part2' = [part2 EXCEPT ![h] = PatchedItems(h)],
         UNCHANGED <<config, part1>>
  PROVE  /\ \A v \in Ver : Settled(v) => Settled(v)'
         /\ Distributed'
         /\ \A i \in Host : i # h => part2'[i] = part2[i]
         /\ job.op = "generate" => part2'[h][job.ver] = job.gen
<1> USE Unpacked
<1>1. PatchedItems(h) \in Keys
  BY PatchedType
<1>2. part2'[h] = PatchedItems(h) /\ \A i \in Host : i # h => part2'[i] = part2[i]
  OBVIOUS
<1>3. job.op \in {"generate", "cleanup"} /\ job.ver \in Ver
  BY JobTypes
<1>4. part1' = part1 /\ part3' = part3
  BY DEF config
<1>5. CASE job.op = "generate"
  <2>1. part3[job.ver] = Nothing
    BY <1>5 DEF Generating
  <2>2. PatchedItems(h)[job.ver] = job.gen
        /\ \A v \in Ver : v # job.ver => PatchedItems(h)[v] = part2[h][v]
    BY <1>3, <1>5 DEF PatchedItems, Keys
  <2>3. \A v \in Ver : Settled(v) => Settled(v)'
    BY <1>2, <1>4, <2>1, <2>2 DEF Settled
  <2>4. Distributed'
    BY <1>2, <1>4, <2>1, <2>2 DEF Distributed
  <2> QED
    BY <1>2, <2>2, <2>3, <2>4
<1>6. CASE job.op = "cleanup"
  <2>1. \A v \in Ver : v = active \/ part1[v] = Nothing
    BY <1>6 DEF Cleaning
  <2>2. PatchedItems(h)[active] = part2[h][active]
    BY <1>3, <1>6, NullTypes DEF PatchedItems, Keys, Cleaning
  <2>3. \A v \in Ver : Settled(v) => Settled(v)'
    BY <1>2, <1>4, <2>1, <2>2 DEF Settled
  <2>4. Distributed'
    BY <1>2, <1>4, <2>1, <2>2 DEF Distributed
  <2> QED
    BY <1>2, <1>6, <2>3, <2>4
<1> QED
  BY <1>3, <1>5, <1>6

\* The references of the rows and of the KeyProcs stay good while what is in
\* place stays in place and they do not change.
LEMMA ReferencesKeep ==
  ASSUME KekInv, \A v \in Ver : Settled(v) => Settled(v)',
         UNCHANGED <<config, dek, proc>>
  PROVE  RowsConfirmed' /\ ProcsConfirmed'
<1> USE Unpacked
<1>1. UNCHANGED <<active, target, part3, checked>>
  BY DEF config
<1>2. RowsConfirmed'
  <2>1. \A d \in Dek : Stored(d) => dek[d].ver \in Ver
    BY DEF Stored, DekRow
  <2>2. target # NoVer => target \in Ver
    BY DEF VerOrNone
  <2> QED
    BY <1>1, <2>1, <2>2 DEF RowsConfirmed, Confirmed, Settled, Stored
<1>3. ProcsConfirmed'
  <2>1. \A p \in Proc : Converting(p) => proc[p].ver \in Ver
    BY DEF TypeInv
  <2> QED
    BY <1>1, <2>1 DEF ProcsConfirmed, Confirmed, Settled, Genuine, Converting
<1> QED
  BY <1>2, <1>3

\* A host is patched, its tokenizer keeps its old configuration.
LEMMA RestartFailsInv ==
  ASSUME KekInv, TypeInv', NEW h \in Host, RestartFails(h)
  PROVE  KekInv'
<1> USE Unpacked
<1>1. (\A v \in Ver : Settled(v) => Settled(v)') /\ Distributed'
  BY PatchKeeps DEF RestartFails
<1>2. RowsConfirmed' /\ ProcsConfirmed'
  BY <1>1, ReferencesKeep DEF RestartFails
<1>3. TokenizersConfirmed'
  <2>1. \A i \in Host : conf[i].active # NoVer => conf[i].active \in Ver
    BY DEF VerOrNone
  <2>2. \A i \in Host : draft[i] # NoDraft => draft[i].ver \in Ver
    BY DEF Drafts
  <2>3. UNCHANGED <<part3, checked, conf, draft>>
    BY DEF RestartFails, config, tokenizers
  <2> QED
    BY <1>1, <2>1, <2>2, <2>3 DEF TokenizersConfirmed, Confirmed, Settled, Genuine
<1>4. job' = NoJob
  BY DEF RestartFails
<1> QED
  BY <1>1, <1>2, <1>3, <1>4, NoJobKeeps DEF KekInv

\* A host is patched and its tokenizer restarted.
LEMMA PatchHostInv ==
  ASSUME KekInv, TypeInv', NEW h \in Host, PatchHost(h)
  PROVE  KekInv'
<1> USE Unpacked
<1>1. /\ \A v \in Ver : Settled(v) => Settled(v)'
      /\ Distributed'
      /\ \A i \in Host : i # h => part2'[i] = part2[i]
      /\ job.op = "generate" => part2'[h][job.ver] = job.gen
  BY PatchKeeps DEF PatchHost
<1>2. RowsConfirmed' /\ ProcsConfirmed'
  BY <1>1, ReferencesKeep DEF PatchHost
<1>3. UNCHANGED <<active, target, part3, checked, dek, part1, proc>>
  BY DEF PatchHost, config
<1>4. /\ conf'[h] = NoConf /\ draft'[h] = NoDraft
      /\ \A i \in Host : i # h => conf'[i] = conf[i] /\ draft'[i] = draft[i]
  BY DEF PatchHost
<1>5. /\ job'.op = job.op /\ job'.pc = "patch" /\ job'.ver = job.ver /\ job'.gen = job.gen
      /\ job'.purge = job.purge /\ job'.hosts = job.hosts \ {h}
  BY DEF PatchHost, Jobs
<1>6. job.op \in {"generate", "cleanup"} /\ job.ver \in Ver
  BY JobTypes DEF PatchHost
<1>7. NoConf.active = NoVer /\ \A v \in Ver : NoConf.keys[v] = Nothing
  BY DEF NoConf, NoKeys
<1>8. TokenizersConfirmed'
  <2>1. \A i \in Host : conf[i].active # NoVer => conf[i].active \in Ver
    BY DEF VerOrNone
  <2>2. \A i \in Host : draft[i] # NoDraft => draft[i].ver \in Ver
    BY DEF Drafts
  <2> SUFFICES ASSUME NEW i \in Host
               PROVE  /\ Genuine(conf[i].keys)'
                      /\ conf'[i].active # NoVer => Confirmed(conf[i].active)'
                      /\ draft'[i] # NoDraft => Confirmed(draft[i].ver)'
                                                /\ draft'[i].gen = part3'[draft'[i].ver]
    BY DEF TokenizersConfirmed
  <2>3. CASE i = h
    BY <1>4, <1>7, <2>3 DEF Genuine
  <2>4. CASE i # h
    <3>1. conf'[i] = conf[i] /\ draft'[i] = draft[i]
      BY <1>4, <2>4
    <3>2. Genuine(conf[i].keys)'
      BY <1>3, <3>1 DEF TokenizersConfirmed, Genuine
    <3>3. \A v \in Ver : Confirmed(v) => Confirmed(v)'
      BY <1>1, <1>3 DEF Confirmed
    <3>4. conf'[i].active # NoVer => Confirmed(conf[i].active)'
      BY <2>1, <3>1, <3>3 DEF TokenizersConfirmed, Confirmed, Settled
    <3>5. draft'[i] # NoDraft => Confirmed(draft[i].ver)'
      BY <2>2, <3>1, <3>3 DEF TokenizersConfirmed, Confirmed, Settled
    <3> QED
      BY <1>3, <3>1, <3>2, <3>4, <3>5 DEF TokenizersConfirmed
  <2> QED
    BY <2>3, <2>4
<1>9. Distributing'
  BY <1>1, <1>3, <1>5 DEF Distributing, PatchHost
<1>10. Generating'
  BY <1>3, <1>4, <1>5, <1>6, <1>7 DEF Generating, Converting, PatchHost
<1>11. Cleaning'
  BY <1>3, <1>4, <1>5, <1>7 DEF Cleaning, Converting, PatchHost, NoDraft
<1>12. Deciding'
  BY <1>5, <1>6 DEF Deciding
<1> QED
  BY <1>1, <1>2, <1>8, <1>9, <1>10, <1>11, <1>12 DEF KekInv

\* The new version is in place when the database learns of it.
LEMMA CommitGenerateInv ==
  ASSUME KekInv, TypeInv', CommitGenerate
  PROVE  KekInv'
<1> USE Unpacked
<1>1. UNCHANGED <<active, dek, part1, part2, proc, conf, draft>>
  BY DEF CommitGenerate, parts, tokenizers
<1>2. job.ver \in Ver /\ job.gen \in Gen /\ part3[job.ver] = Nothing
  BY JobTypes DEF CommitGenerate, Generating
<1>3. /\ part1[job.ver] = job.gen /\ \A h \in Host : part2[h][job.ver] = job.gen
      /\ \A h \in Host : conf[h].keys[job.ver] = Nothing
      /\ \A p \in Proc : Converting(p) => proc[p].keys[job.ver] = Nothing
  BY DEF CommitGenerate, Distributing, Generating
<1>4. /\ part3'[job.ver] = job.gen /\ job.gen # Nothing /\ target' = job.ver
      /\ \A v \in Ver : v # job.ver => part3'[v] = part3[v] /\ checked'[v] = checked[v]
  BY <1>2, Constants DEF ConstType, CommitGenerate, Keys
<1>5. \A v \in Ver : /\ Settled(v) => Settled(v)' /\ part3'[v] = part3[v]
                     /\ Confirmed(v) => Confirmed(v)'
  BY <1>1, <1>2, <1>4 DEF Confirmed, Settled
<1>6. Distributed'
  BY <1>1, <1>3, <1>4 DEF Distributed
<1>7. RowsConfirmed'
  <2>1. \A d \in Dek : Stored(d) => dek[d].ver \in Ver
    BY DEF Stored, DekRow
  <2>2. Settled(target)'
    BY <1>1, <1>3, <1>4 DEF Settled
  <2> QED
    BY <1>1, <1>5, <2>1, <2>2 DEF RowsConfirmed, Confirmed, Settled, Stored
<1>8. TokenizersConfirmed'
  <2>1. \A h \in Host : conf[h].active # NoVer => conf[h].active \in Ver
    BY DEF VerOrNone
  <2>2. \A h \in Host : draft[h] # NoDraft => draft[h].ver \in Ver
    BY DEF Drafts
  <2> SUFFICES ASSUME NEW h \in Host
               PROVE  /\ Genuine(conf[h].keys)'
                      /\ conf'[h].active # NoVer => Confirmed(conf[h].active)'
                      /\ draft'[h] # NoDraft => Confirmed(draft[h].ver)'
                                                /\ draft'[h].gen = part3'[draft'[h].ver]
    BY DEF TokenizersConfirmed
  <2>3. Genuine(conf[h].keys)'
    BY <1>1, <1>3, <1>4 DEF TokenizersConfirmed, Genuine
  <2>4. conf'[h].active # NoVer => Confirmed(conf[h].active)'
    BY <1>1, <1>5, <2>1 DEF TokenizersConfirmed, Confirmed, Settled
  <2>5. draft'[h] # NoDraft => Confirmed(draft[h].ver)' /\ draft'[h].gen = part3'[draft'[h].ver]
    BY <1>1, <1>5, <2>2 DEF TokenizersConfirmed, Confirmed, Settled
  <2> QED
    BY <2>3, <2>4, <2>5
<1>9. ProcsConfirmed'
  <2>1. \A p \in Proc : Converting(p) => proc[p].ver \in Ver
    BY DEF TypeInv
  <2> QED
    BY <1>1, <1>3, <1>4, <1>5, <2>1 DEF ProcsConfirmed, Confirmed, Settled, Genuine, Converting
<1>10. job' = NoJob
  BY DEF CommitGenerate
<1> QED
  BY <1>6, <1>7, <1>8, <1>9, <1>10, NoJobKeeps DEF KekInv

\* The rows of the purged versions go; no reference is to them.
LEMMA CommitCleanupInv ==
  ASSUME KekInv, TypeInv', CommitCleanup
  PROVE  KekInv'
<1> USE Unpacked
<1>1. UNCHANGED <<active, target, dek, part1, part2, proc, conf, draft>>
  BY DEF CommitCleanup, parts, tokenizers
<1>2. \A v \in Ver : part3'[v] \in {Nothing, part3[v]}
  BY DEF CommitCleanup
<1>3. part3'[active] = part3[active] /\ checked'[active] = checked[active]
  BY DEF CommitCleanup, Cleaning
<1>4. Settled(active)' /\ Confirmed(active)'
  BY <1>1, <1>3 DEF RowsConfirmed, Confirmed, Settled
<1>5. Distributed'
  BY <1>1, <1>2 DEF Distributed
<1>6. RowsConfirmed'
  <2>1. \A d \in Dek : Stored(d) => dek[d].ver = active /\ dek[d].gen = part3[active]
    <3> SUFFICES ASSUME NEW d \in Dek, Stored(d)
                 PROVE  dek[d].ver = active /\ dek[d].gen = part3[active]
      OBVIOUS
    <3>1. dek[d].ver \in Ver
      BY DEF Stored, DekRow
    <3>2. dek[d].ver = active
      BY <3>1, Constants DEF ConstType, CommitCleanup, Cleaning
    <3> QED
      BY <3>2 DEF RowsConfirmed
  <2>2. target \in {NoVer, active}
    BY DEF CommitCleanup, Cleaning
  <2> QED
    BY <1>1, <1>3, <1>4, <2>1, <2>2 DEF RowsConfirmed, Stored, Confirmed, Settled
<1>7. TokenizersConfirmed'
  <2> SUFFICES ASSUME NEW h \in Host
               PROVE  /\ Genuine(conf[h].keys)'
                      /\ conf'[h].active # NoVer => Confirmed(conf[h].active)'
                      /\ draft'[h] # NoDraft => Confirmed(draft[h].ver)'
                                                /\ draft'[h].gen = part3'[draft'[h].ver]
    BY DEF TokenizersConfirmed
  <2>1. Genuine(conf[h].keys)'
    BY <1>1, <1>2 DEF TokenizersConfirmed, Genuine
  <2>2. conf'[h].active # NoVer => conf'[h].active = active
    BY <1>1 DEF CommitCleanup, Cleaning
  <2>3. draft'[h] # NoDraft => draft'[h].ver = active
    <3> SUFFICES ASSUME draft[h] # NoDraft PROVE draft[h].ver = active
      BY <1>1
    <3>1. draft[h].ver \in Ver
      BY DEF Drafts
    <3> QED
      BY <3>1, Constants DEF ConstType, CommitCleanup, Cleaning
  <2>4. draft'[h] # NoDraft => draft'[h].gen = part3'[draft'[h].ver]
    BY <1>1, <1>3, <2>3 DEF TokenizersConfirmed
  <2> QED
    BY <1>1, <1>4, <2>1, <2>2, <2>3, <2>4 DEF Confirmed, Settled
<1>8. ProcsConfirmed'
  <2> SUFFICES ASSUME NEW p \in Proc, Converting(p)'
               PROVE  Confirmed(proc[p].ver)' /\ Genuine(proc[p].keys)'
    BY DEF ProcsConfirmed
  <2>1. Converting(p) /\ proc'[p] = proc[p]
    BY <1>1 DEF Converting
  <2>2. proc'[p].ver = active
    BY <2>1 DEF CommitCleanup, Cleaning
  <2>3. Genuine(proc[p].keys)'
    BY <1>2, <2>1 DEF ProcsConfirmed, Genuine
  <2> QED
    BY <1>1, <1>4, <2>2, <2>3 DEF Confirmed, Settled
<1>9. job' = NoJob
  BY DEF CommitCleanup
<1> QED
  BY <1>5, <1>6, <1>7, <1>8, <1>9, NoJobKeeps DEF KekInv

\* A confirmation, a new target or active version, a new HMAC key.
LEMMA CommitWriteInv ==
  ASSUME KekInv, TypeInv', CommitWrite
  PROVE  KekInv'
<1> USE Unpacked
<1>1. UNCHANGED <<part3, part1, part2, proc, conf, draft>> /\ job' = NoJob
  BY DEF CommitWrite, parts, tokenizers
<1>2. job.op \in {"confirm", "reset", "switch", "hmac"} /\ job.ver \in Ver
  BY JobTypes DEF CommitWrite
<1>3. \A v \in Ver : checked[v] = Officer => checked'[v] = Officer
  <2>1. CASE job.op = "confirm"
    <3>1. checked' = [checked EXCEPT ![job.ver] = @ \cup {job.officer}]
      BY <2>1 DEF CommitWrite
    <3>2. job.officer \in Officer
      BY <2>1 DEF TypeInv, JobForm, NoJob
    <3> QED
      BY <3>1, <3>2
  <2>2. CASE job.op # "confirm"
    BY <1>2, <2>2 DEF CommitWrite
  <2> QED
    BY <2>1, <2>2
<1>4. \A v \in Ver : (Settled(v) => Settled(v)') /\ (Confirmed(v) => Confirmed(v)')
  BY <1>1, <1>3 DEF Settled, Confirmed
<1>5. Distributed'
  BY <1>1 DEF Distributed
<1>6. RowsConfirmed'
  <2>1. Confirmed(active)'
    <3>1. active' = active \/ (job.op = "switch" /\ active' = job.ver)
      BY <1>2 DEF CommitWrite
    <3>2. Confirmed(active) /\ (job.op = "switch" => Confirmed(job.ver))
      BY DEF RowsConfirmed, Deciding
    <3> QED
      BY <1>2, <1>4, <3>1, <3>2 DEF Confirmed, Settled
  <2>2. target' # NoVer => Settled(target)'
    <3>1. target' = target \/ (job.op = "reset" /\ target' = job.ver)
      BY <1>2 DEF CommitWrite
    <3>2. (target # NoVer => target \in Ver /\ Settled(target)) /\ (job.op = "reset" => Settled(job.ver))
      BY DEF RowsConfirmed, Deciding, VerOrNone
    <3> QED
      BY <1>2, <1>4, <3>1, <3>2 DEF Settled
  <2>3. ASSUME NEW d \in Dek, Stored(d)'
        PROVE  Confirmed(dek[d].ver)' /\ dek'[d].gen = part3'[dek'[d].ver]
    <3>1. CASE dek'[d] = dek[d]
      <4>1. Stored(d)
        BY <2>3, <3>1 DEF Stored
      <4>2. dek[d].ver \in Ver
        BY <4>1 DEF Stored, DekRow
      <4> QED
        BY <1>1, <1>4, <3>1, <4>1, <4>2 DEF RowsConfirmed, Confirmed, Settled
    <3>2. CASE dek'[d] # dek[d]
      <4>1. job.op = "hmac"
        BY <1>2, <3>2 DEF CommitWrite
      <4>2. dek'[d] = [ver |-> job.ver, gen |-> job.gen]
        BY <3>2, <4>1 DEF CommitWrite
      <4>3. dek'[d].ver = active /\ dek'[d].gen = part3[active]
        BY <4>1, <4>2 DEF Deciding
      <4>4. Confirmed(active)'
        BY <2>1
      <4>5. active' = active
        BY <4>1 DEF CommitWrite
      <4> QED
        BY <1>1, <4>3, <4>4, <4>5 DEF Confirmed, Settled
    <3> QED
      BY <3>1, <3>2
  <2> QED
    BY <2>1, <2>2, <2>3 DEF RowsConfirmed
<1>7. TokenizersConfirmed'
  <2> SUFFICES ASSUME NEW h \in Host
               PROVE  /\ Genuine(conf[h].keys)'
                      /\ conf'[h].active # NoVer => Confirmed(conf[h].active)'
                      /\ draft'[h] # NoDraft => Confirmed(draft[h].ver)'
                                                /\ draft'[h].gen = part3'[draft'[h].ver]
    BY DEF TokenizersConfirmed
  <2>1. Genuine(conf[h].keys)'
    BY <1>1 DEF TokenizersConfirmed, Genuine
  <2>2. conf[h].active # NoVer => conf[h].active \in Ver
    BY DEF VerOrNone
  <2>3. draft[h] # NoDraft => draft[h].ver \in Ver
    BY DEF Drafts
  <2> QED
    BY <1>1, <1>4, <2>1, <2>2, <2>3 DEF TokenizersConfirmed, Confirmed, Settled
<1>8. ProcsConfirmed'
  <2> SUFFICES ASSUME NEW p \in Proc, Converting(p)'
               PROVE  Confirmed(proc[p].ver)' /\ Genuine(proc[p].keys)'
    BY DEF ProcsConfirmed
  <2>1. Converting(p) /\ proc'[p] = proc[p] /\ proc[p].ver \in Ver
    BY <1>1 DEF Converting, TypeInv
  <2> QED
    BY <1>1, <1>4, <2>1 DEF ProcsConfirmed, Confirmed, Settled, Genuine
<1> QED
  BY <1>1, <1>5, <1>6, <1>7, <1>8, NoJobKeeps DEF KekInv

\* A step that changes nothing.
LEMMA StutterInv == KekInv /\ UNCHANGED vars /\ TypeInv' => KekInv'
<1> SUFFICES ASSUME KekInv, UNCHANGED vars, TypeInv' PROVE KekInv'
  OBVIOUS
<1>1. UNCHANGED <<config, dek, parts, proc, tokenizers, job>>
  BY DEF vars, config, parts, tokenizers
<1>2. Distributing' /\ Generating' /\ Cleaning' /\ Deciding'
  BY Unpacked DEF vars, Distributing, Generating, Cleaning, Deciding, Converting, Confirmed, Settled
<1> QED
  BY <1>1, <1>2, JobKeeps

\* KekInv is inductive, where officers are patient.
LEMMA NextKekInv == Patient => (KekInv /\ [Next]_vars => KekInv')
<1> SUFFICES ASSUME Patient, KekInv, [Next]_vars PROVE KekInv'
  OBVIOUS
<1>1. TypeInv'
  BY NextType DEF KekInv
<1>2. ASSUME NEW h \in Host, OfficerStarts(h) \/ TokenizerNext(h) PROVE KekInv'
  BY <1>1, <1>2, OfficerStartsInv, TokenizerInv
<1>3. CASE JobProceeds
  BY <1>1, <1>3, CleanupCountInv, CallKeeperInv, PatchHostInv, RestartFailsInv,
     CommitGenerateInv, CommitCleanupInv, CommitWriteInv DEF JobProceeds
<1>4. CASE JobFails
  BY <1>1, <1>4, JobFailsInv
<1>5. ASSUME NEW p \in Proc, KeyProcProceeds(p) \/ KeyProcFails(p) PROVE KekInv'
  BY <1>1, <1>5, KeyProcInv
<1>6. CASE UNCHANGED vars
  BY <1>1, <1>6, StutterInv
<1> QED
  BY <1>2, <1>3, <1>4, <1>5, <1>6 DEF Next

\* A version in place can be put together on every host.
LEMMA SettledValid ==
  \A v : Settled(v) => \A h \in Host : Valid(h, v)
BY DEF Settled, Valid, Assembled

\* Where officers wait for what is under way, every reference to a KEK version
\* is to one that is in place on all hosts and confirmed, at every step of every
\* request, failed ones included.
THEOREM InvariantHolds == ASSUME Patient PROVE Spec => []KekInv
BY InitKekInv, NextKekInv, PTL DEF Spec

\* No data is lost: on every host the KEK of every DEK can be put together, and
\* it is the one the DEK was encrypted with.
THEOREM AllDecryptable == ASSUME Patient PROVE Spec => []Decryptable
<1>1. KekInv => Decryptable
  BY SettledValid DEF KekInv, RowsConfirmed, Confirmed, Decryptable
<1> QED
  BY InvariantHolds, <1>1, PTL

\* No DEK is under a KEK the officers have not confirmed.
THEOREM AllConfirmed == ASSUME Patient PROVE Spec => []OnlyConfirmed
<1>1. KekInv => OnlyConfirmed
  <2> SUFFICES ASSUME KekInv, NEW d \in Dek, Stored(d) PROVE VersionChecked(dek[d].ver)
    BY DEF OnlyConfirmed
  <2>1. dek[d].ver \in Ver
    BY Unpacked DEF Stored, DekRow
  <2> QED
    BY <2>1 DEF KekInv, RowsConfirmed, Confirmed, VersionChecked
<1> QED
  BY InvariantHolds, <1>1, PTL

\* No tokenizer has in its cache another key under the version of a stored DEK,
\* even where the number of a purged version is used again.
THEOREM CachesGenuine == ASSUME Patient PROVE Spec => []CacheGenuine
<1>1. KekInv => CacheGenuine
  <2> SUFFICES ASSUME KekInv, NEW h \in Host, NEW d \in Dek, Stored(d)
               PROVE  conf[h].keys[dek[d].ver] \in {Nothing, dek[d].gen}
    BY DEF CacheGenuine
  <2>1. dek[d].ver \in Ver
    BY Unpacked DEF Stored, DekRow
  <2> QED
    BY <2>1 DEF KekInv, RowsConfirmed, Confirmed, Settled, TokenizersConfirmed, Genuine
<1> QED
  BY InvariantHolds, <1>1, PTL

\* No generate_kek, cleanup or failure takes the active KEK from any host.
THEOREM ActiveStays == ASSUME Patient PROVE Spec => []ActiveIntact
<1>1. KekInv => ActiveIntact
  BY SettledValid DEF KekInv, RowsConfirmed, Confirmed, ActiveIntact
<1> QED
  BY InvariantHolds, <1>1, PTL

-----------------------------------------------------------------------------

\* Distributing is inductive by itself, whatever officers do.
LEMMA NextDistributing ==
  ASSUME TypeInv, Distributing, [Next]_vars
  PROVE  Distributing'
<1>1. ASSUME UNCHANGED <<job, parts>> PROVE Distributing'
  BY <1>1 DEF Distributing, parts
<1>2. ASSUME job'.op # "generate" PROVE Distributing'
  BY <1>2 DEF Distributing
<1>3. ASSUME NEW h \in Host, OfficerStarts(h) PROVE Distributing'
  <2>1. job'.op = "generate" => job'.pc = "keeper" /\ job'.hosts = Host
    BY <1>3 DEF OfficerStarts, GenerateStart, ConfirmStart, ResetStart, SwitchStart, HmacStart,
                CleanupStart, Start, NoJob
  <2> QED
    BY <2>1 DEF Distributing
<1>4. CASE JobProceeds
  <2>1. CASE CleanupCount
    <3>1. job'.op # "generate"
      BY <2>1, JobTypes DEF CleanupCount, Jobs, NoJob
    <3> QED
      BY <1>2, <3>1
  <2>2. CASE CallKeeper
    <3>1. CASE job' = NoJob
      BY <1>2, <3>1 DEF NoJob
    <3>2. CASE job' # NoJob
      <4>1. ~KeeperRefuses
        BY <2>2, <3>2 DEF CallKeeper
      <4>2. /\ job'.op = job.op /\ job'.pc = "patch" /\ job'.ver = job.ver
            /\ job'.gen = job.gen /\ job'.hosts = job.hosts /\ job.ver \in Ver
        BY <2>2, <4>1, JobTypes DEF CallKeeper, Jobs
      <4>3. job.op = "generate" => part1'[job.ver] = job.gen /\ job.hosts = Host
        BY <2>2, <4>1, <4>2, JobTypes DEF CallKeeper, Distributing, Keys
      <4> QED
        BY <4>2, <4>3 DEF Distributing
    <3> QED
      BY <3>1, <3>2
  <2>3. ASSUME NEW h \in Host, PatchHost(h) PROVE Distributing'
    <3>1. /\ job'.op = job.op /\ job'.pc = "patch" /\ job'.ver = job.ver
          /\ job'.gen = job.gen /\ job'.hosts = job.hosts \ {h}
      BY <2>3, JobTypes DEF PatchHost, Jobs
    <3>2. /\ part1' = part1 /\ part2'[h] = PatchedItems(h)
          /\ \A i \in Host : i # h => part2'[i] = part2[i]
      BY <2>3, JobTypes DEF PatchHost
    <3>3. job.op = "generate" => PatchedItems(h)[job.ver] = job.gen
      BY JobTypes DEF PatchedItems, Keys
    <3> QED
      BY <2>3, <3>1, <3>2, <3>3 DEF Distributing, PatchHost
  <2>4. ASSUME NEW h \in Host, RestartFails(h) PROVE Distributing'
    BY <1>2, <2>4 DEF RestartFails, NoJob
  <2>5. CASE CommitGenerate \/ CommitCleanup \/ CommitWrite
    <3>1. job' = NoJob
      BY <2>5 DEF CommitGenerate, CommitCleanup, CommitWrite
    <3> QED
      BY <1>2, <3>1 DEF NoJob
  <2> QED
    BY <1>4, <2>1, <2>2, <2>3, <2>4, <2>5 DEF JobProceeds
<1>5. CASE JobFails
  BY <1>2, <1>5 DEF JobFails, NoJob
<1>6. ASSUME NEW h \in Host, TokenizerNext(h) PROVE Distributing'
  BY <1>1, <1>6 DEF TokenizerNext, Refresh, InsertDek, CommitDek, RollBackDek
<1>7. ASSUME NEW p \in Proc, KeyProcProceeds(p) \/ KeyProcFails(p) PROVE Distributing'
  BY <1>1, <1>7 DEF KeyProcProceeds, KeyProcTask, ReencryptStart, Reencrypt, ReencryptFails,
                    NextBatch, KeyProcEnds, KeyProcFails
<1>8. CASE UNCHANGED vars
  BY <1>1, <1>8 DEF vars, parts
<1> QED
  BY <1>3, <1>4, <1>5, <1>6, <1>7, <1>8 DEF Next

\* Where nothing fails and the key keeper accepts the call, generate_kek ends
\* only by its commit.
LEMMA GenerateEnds ==
  ASSUME ~Faults, ~Secret, TypeInv, Distributing, Next,
         job.op = "generate", job'.op = "none"
  PROVE  /\ part3'[job.ver] = job.gen /\ part1'[job.ver] = job.gen
         /\ \A h \in Host : part2'[h][job.ver] = job.gen
<1>1. CommitGenerate
  <2>1. \A h \in Host : ~OfficerStarts(h)
    BY DEF OfficerStarts, GenerateStart, ConfirmStart, ResetStart, SwitchStart, HmacStart,
           CleanupStart, Start
  <2>2. \A h \in Host : ~TokenizerNext(h)
    BY DEF TokenizerNext, Refresh, InsertDek, CommitDek, RollBackDek
  <2>3. \A p \in Proc : ~KeyProcProceeds(p) /\ ~KeyProcFails(p)
    BY DEF KeyProcProceeds, KeyProcTask, ReencryptStart, Reencrypt, ReencryptFails,
           NextBatch, KeyProcEnds, KeyProcFails
  <2>4. ~CleanupCount /\ ~CommitCleanup /\ ~CommitWrite
    BY JobTypes DEF CleanupCount, CommitCleanup, CommitWrite
  <2>5. ~CallKeeper
    BY JobTypes DEF CallKeeper, KeeperRefuses, Jobs
  <2>6. \A h \in Host : ~PatchHost(h) /\ ~RestartFails(h)
    BY JobTypes DEF PatchHost, RestartFails, Jobs
  <2>7. ~JobFails
    BY DEF JobFails
  <2> QED
    BY <2>1, <2>2, <2>3, <2>4, <2>5, <2>6, <2>7 DEF Next, JobProceeds
<1>2. part1' = part1 /\ part2' = part2
  BY <1>1 DEF CommitGenerate, parts
<1>3. part3'[job.ver] = job.gen
  BY <1>1, JobTypes DEF CommitGenerate, Keys
<1>4. part1[job.ver] = job.gen /\ \A h \in Host : part2[h][job.ver] = job.gen
  BY <1>1 DEF CommitGenerate, Distributing
<1> QED
  BY <1>2, <1>3, <1>4

\* Then keyman's "A new KEK was just created and distributed" is true: no
\* patience is needed for that.
THEOREM GenerateSucceeds ==
  ASSUME ~Faults, ~Secret
  PROVE  Spec => GenerateDistributes
<1>1. Init => TypeInv /\ Distributing
  BY InitType DEF Init, NoJob, Distributing
<1>2. TypeInv /\ Distributing /\ [Next]_vars => TypeInv' /\ Distributing'
  BY NextType, NextDistributing
<1>3. TypeInv /\ Distributing /\ [Next]_vars
        => [(job.op = "generate" /\ job'.op = "none") =>
              /\ part3'[job.ver] = job.gen /\ part1'[job.ver] = job.gen
              /\ \A h \in Host : part2'[h][job.ver] = job.gen]_vars
  BY GenerateEnds
<1> QED
  BY <1>1, <1>2, <1>3, PTL DEF Spec, GenerateDistributes

=============================================================================
