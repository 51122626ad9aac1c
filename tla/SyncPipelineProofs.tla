-------------------------- MODULE SyncPipelineProofs --------------------------
(* What the tree, the index and the project's row say of one another, for     *)
(* every number of slots, commits, jobs, deliveries and faults.               *)
EXTENDS SyncPipeline, TLAPS

-----------------------------------------------------------------------------
(* Bags of jobs.                                                             *)

LEMMA PutJobs ==
  ASSUME NEW bag, NEW job
  PROVE  BagToSet(Put(bag, job)) = BagToSet(bag) \cup {job}
BY DEF BagToSet, Put, SetToBag, (+)

LEMMA TakeJobs ==
  ASSUME NEW bag, NEW job
  PROVE  BagToSet(Take(bag, job)) \subseteq BagToSet(bag)
BY DEF BagToSet, Take, SetToBag, (-)

LEMMA NoJobs == BagToSet(EmptyBag) = {}
BY DEF BagToSet, EmptyBag, SetToBag

Redelivered == {h \in SyncSlots : sync[h].at # "idle" /\ sync[h].tries < RetryLimit}
Reindexed == {i \in IndexSlots : indexer[i].at # "idle" /\ indexer[i].tries < RetryLimit}

LEMMA CrashQueues ==
  ASSUME Crash
  PROVE  /\ BagToSet(syncQ') = BagToSet(syncQ)
              \cup {[sha |-> sync[h].sha, tries |-> sync[h].tries + 1] : h \in Redelivered}
         /\ BagToSet(indexQ') = BagToSet(indexQ)
              \cup {[changed |-> indexer[i].changed, tries |-> indexer[i].tries + 1] : i \in Reindexed}
BY DEF Crash, BagToSet, BagOfAll, SetToBag, (+), Redelivered, Reindexed

\* A crash leaves a job behind for every handler that may have another delivery.
LEMMA CrashSends ==
  ASSUME Crash
  PROVE  /\ BagToSet(syncQ') = {} => BagToSet(syncQ) = {} /\ Redelivered = {}
         /\ BagToSet(indexQ') = {} => BagToSet(indexQ) = {} /\ Reindexed = {}
<1>. DEFINE S == {[sha |-> sync[h].sha, tries |-> sync[h].tries + 1] : h \in Redelivered}
            I == {[changed |-> indexer[i].changed, tries |-> indexer[i].tries + 1] : i \in Reindexed}
<1>1. BagToSet(syncQ') = BagToSet(syncQ) \cup S /\ BagToSet(indexQ') = BagToSet(indexQ) \cup I
  BY CrashQueues, Zenon
<1>2. S = {} => Redelivered = {}
  <2>1. \A h \in Redelivered : [sha |-> sync[h].sha, tries |-> sync[h].tries + 1] \in S
    OBVIOUS
  <2> QED BY <2>1
<1>3. I = {} => Reindexed = {}
  <2>1. \A i \in Reindexed : [changed |-> indexer[i].changed, tries |-> indexer[i].tries + 1] \in I
    OBVIOUS
  <2> QED BY <2>1
<1>. HIDE DEF S, I
<1> QED BY <1>1, <1>2, <1>3

-----------------------------------------------------------------------------
(* Types.                                                                    *)

SyncAt == {"idle", "fetch", "resolve", "wipe", "checkout", "writing", "publish", "send"}
SyncType ==
  [at : SyncAt, sha : 0..MaxCommit, tries : 0..RetryLimit, base : 0..MaxCommit, target : 0..MaxCommit,
   cut : BOOLEAN]
IndexerAt == {"idle", "open", "scan", "store", "record", "label"}
IndexerType ==
  [at : IndexerAt, changed : BOOLEAN, tries : 0..RetryLimit, base : 0..MaxCommit, sync : BOOLEAN,
   own : BOOLEAN, view : Contents]
IndexType == [exists : BOOLEAN, has : Contents, label : 0..MaxCommit]
ProjectType == [commit : 0..MaxCommit, indexed : BOOLEAN, status : {"initializing", "active", "error"}]
HistoryType == [overlap : BOOLEAN, lost : BOOLEAN, swallowed : BOOLEAN]

\* A sync has a target once it has resolved it.
Targeted(handlers) ==
  \A h \in SyncSlots : handlers[h].target = 0 => handlers[h].at \in {"idle", "fetch", "resolve"}

LEMMA Numbers ==
  /\ MaxCommit \in Nat \ {0} /\ RetryLimit \in Nat /\ MaxJobs \in Nat /\ MaxFaults \in Nat
  /\ 0 \in 0..MaxCommit /\ 0 \in 0..RetryLimit
  /\ Nothing \in Contents /\ \A c \in Commits : Part(c) \in Contents /\ Whole(c) \in Contents
  /\ Nothing.commit = 0 /\ Nothing.whole = FALSE
BY PipelineAssumption DEF Contents, Nothing, Commits

LEMMA ContentFields ==
  ASSUME NEW c \in Contents
  PROVE  /\ c.commit \in 0..MaxCommit /\ c.whole \in BOOLEAN
         /\ c = Nothing <=> c.commit = 0
         /\ c.commit # 0 /\ c.whole => c = Whole(c.commit)
<1>1. CASE c = Nothing
  BY <1>1, Numbers
<1>2. CASE \E n \in Commits : c = Part(n)
  BY <1>2, Numbers DEF Part, Commits, Nothing
<1>3. CASE \E n \in Commits : c = Whole(n)
  BY <1>3, Numbers DEF Whole, Commits, Nothing
<1> QED BY <1>1, <1>2, <1>3 DEF Contents

LEMMA IdleTypes ==
  IdleSync \in SyncType /\ IdleIndexer \in IndexerType /\ NoIndex \in IndexType /\ EmptyIndex \in IndexType
BY Numbers DEF IdleSync, SyncType, SyncAt, IdleIndexer, IndexerType, IndexerAt, NoIndex, EmptyIndex, IndexType

Typed ==
  /\ head \in Commits /\ mirror \in 0..head /\ known \in BOOLEAN /\ tree \in Contents
  /\ index \in IndexType /\ project \in ProjectType
  /\ BagToSet(syncQ) \subseteq SyncJobs /\ BagToSet(indexQ) \subseteq IndexJobs
  /\ sync \in [SyncSlots -> SyncType] /\ Targeted(sync)
  /\ indexer \in [IndexSlots -> IndexerType]
  /\ sent \in 0..MaxJobs /\ faults \in 0..MaxFaults /\ history \in HistoryType

LEMMA TypedIsTypeOK == Typed <=> TypeOK
BY DEF Typed, TypeOK, SyncType, SyncAt, IndexerType, IndexerAt, IndexType, ProjectType, HistoryType, Targeted

\* What a step of one handler leaves of the others.
LEMMA OneSync ==
  ASSUME sync \in [SyncSlots -> SyncType], Targeted(sync), NEW h \in SyncSlots, NEW r \in SyncType,
         r.target = 0 => r.at \in {"idle", "fetch", "resolve"}, sync' = [sync EXCEPT ![h] = r]
  PROVE  /\ sync' \in [SyncSlots -> SyncType] /\ Targeted(sync') /\ sync'[h] = r
         /\ \A g \in SyncSlots : g # h => sync'[g] = sync[g]
BY DEF Targeted

LEMMA OneIndexer ==
  ASSUME indexer \in [IndexSlots -> IndexerType], NEW i \in IndexSlots, NEW r \in IndexerType,
         indexer' = [indexer EXCEPT ![i] = r]
  PROVE  /\ indexer' \in [IndexSlots -> IndexerType] /\ indexer'[i] = r
         /\ \A j \in IndexSlots : j # i => indexer'[j] = indexer[j]
OBVIOUS

LEMMA SyncTos ==
  ASSUME sync \in [SyncSlots -> SyncType], Targeted(sync), NEW h \in SyncSlots, NEW at \in SyncAt,
         SyncTo(h, at), sync[h].target = 0 => at \in {"idle", "fetch", "resolve"}
  PROVE  /\ sync' \in [SyncSlots -> SyncType] /\ Targeted(sync')
         /\ sync'[h].at = at /\ sync'[h].target = sync[h].target /\ sync'[h].cut = sync[h].cut
         /\ \A g \in SyncSlots : g # h => sync'[g] = sync[g]
<1>. DEFINE r == [sync[h] EXCEPT !.at = at]
<1>1. r \in SyncType /\ r.at = at /\ r.target = sync[h].target /\ r.cut = sync[h].cut
  BY DEF SyncType
<1>2. sync' = [sync EXCEPT ![h] = r]
  BY DEF SyncTo
<1>. HIDE DEF r
<1>3. /\ sync' \in [SyncSlots -> SyncType] /\ Targeted(sync') /\ sync'[h] = r
      /\ \A g \in SyncSlots : g # h => sync'[g] = sync[g]
  BY <1>1, <1>2, OneSync
<1> QED BY <1>1, <1>3

LEMMA IndexerTos ==
  ASSUME indexer \in [IndexSlots -> IndexerType], NEW i \in IndexSlots, NEW at \in IndexerAt, IndexerTo(i, at)
  PROVE  /\ indexer' \in [IndexSlots -> IndexerType]
         /\ indexer'[i].at = at /\ indexer'[i].own = indexer[i].own /\ indexer'[i].view = indexer[i].view
         /\ \A j \in IndexSlots : j # i => indexer'[j] = indexer[j]
BY DEF IndexerTo, IndexerType

LEMMA SyncStepTypes ==
  ASSUME Typed, NEW h \in SyncSlots, SyncStep(h)
  PROVE  Typed'
<1>0. /\ head \in Commits /\ mirror \in 0..head /\ head \in Nat /\ head <= MaxCommit
      /\ known \in BOOLEAN /\ tree \in Contents
      /\ index \in IndexType /\ project \in ProjectType
      /\ BagToSet(syncQ) \subseteq SyncJobs /\ BagToSet(indexQ) \subseteq IndexJobs
      /\ sync \in [SyncSlots -> SyncType] /\ Targeted(sync) /\ sync[h] \in SyncType
      /\ indexer \in [IndexSlots -> IndexerType]
      /\ sent \in 0..MaxJobs /\ faults \in 0..MaxFaults /\ history \in HistoryType
  BY Numbers DEF Commits, Typed
<1>a. /\ sync[h].sha \in 0..MaxCommit /\ sync[h].tries \in 0..RetryLimit
      /\ sync[h].base \in 0..MaxCommit /\ sync[h].target \in 0..MaxCommit
      /\ sync[h].target = 0 => sync[h].at \in {"idle", "fetch", "resolve"}
  BY <1>0 DEF SyncType, Targeted
<1>1. CASE SyncBegin(h)
  <2>1. PICK job \in BagToSet(syncQ) :
          /\ syncQ' = Take(syncQ, job)
          /\ sync' = [sync EXCEPT ![h] = [IdleSync EXCEPT
               !.at = "fetch", !.sha = job.sha, !.tries = job.tries, !.base = project.commit]]
    BY <1>1 DEF SyncBegin
  <2>2. job.sha \in 0..MaxCommit /\ job.tries \in 0..RetryLimit /\ project.commit \in 0..MaxCommit
    BY <1>0 DEF SyncJobs, ProjectType
  <2>. DEFINE r == [IdleSync EXCEPT
               !.at = "fetch", !.sha = job.sha, !.tries = job.tries, !.base = project.commit]
  <2>3. r \in SyncType /\ r.at = "fetch"
    BY <2>2, IdleTypes DEF SyncType, SyncAt, IdleSync
  <2>. HIDE DEF r
  <2>4. sync' \in [SyncSlots -> SyncType] /\ Targeted(sync')
    BY <1>0, <2>1, <2>3, OneSync DEF r
  <2>5. BagToSet(syncQ') \subseteq SyncJobs
    BY <1>0, <2>1, TakeJobs
  <2>6. history' \in HistoryType
    BY <1>0, <1>1, Zenon DEF SyncBegin, HistoryType
  <2> QED BY <1>0, <1>1, <2>4, <2>5, <2>6 DEF Typed, SyncBegin, syncOnly, env
<1>2. CASE SyncFetch(h)
  <2>1. sync' \in [SyncSlots -> SyncType] /\ Targeted(sync')
    BY <1>0, <1>2, <1>a, SyncTos DEF SyncFetch, SyncAt, SyncType
  <2> QED BY <1>0, <1>2, <2>1 DEF Typed, SyncFetch, env, Commits
<1>3. CASE SyncResolve(h)
  <2>. DEFINE r == [sync[h] EXCEPT !.at = "wipe", !.target = IF sync[h].sha = 0 THEN head ELSE sync[h].sha]
  <2>0. PICK t \in 0..MaxCommit : t = (IF sync[h].sha = 0 THEN head ELSE sync[h].sha) /\ t # 0
    BY <1>0, <1>a DEF Commits
  <2>1. r \in SyncType /\ r.target # 0
    BY <1>0, <2>0 DEF SyncType, SyncAt
  <2>. HIDE DEF r
  <2>2. sync' \in [SyncSlots -> SyncType] /\ Targeted(sync')
    BY <1>0, <1>3, <2>1, OneSync DEF r, SyncResolve
  <2> QED BY <1>0, <1>3, <2>2 DEF Typed, SyncResolve, syncOnly, env
<1>4. CASE SyncWipe(h)
  <2>1. sync' \in [SyncSlots -> SyncType]
    BY <1>0, <1>4 DEF SyncWipe, Removed, SyncType, SyncAt
  <2>2. Targeted(sync')
    BY <1>0, <1>4 DEF SyncWipe, Removed, SyncType, SyncAt, Targeted
  <2>3. indexer' \in [IndexSlots -> IndexerType]
    BY <1>0, <1>4 DEF SyncWipe, Removed, IndexerType
  <2> QED BY <1>0, <1>4, <2>1, <2>2, <2>3, Numbers, IdleTypes DEF Typed, SyncWipe, Removed, env
<1>5. CASE SyncCheckout(h)
  <2>1. sync' \in [SyncSlots -> SyncType] /\ Targeted(sync')
    BY <1>0, <1>a, <1>5, SyncTos DEF SyncCheckout, SyncAt, SyncType
  <2>2. tree' \in Contents
    BY <1>0, <1>a, <1>5, Numbers DEF SyncCheckout, Commits
  <2>3. known' \in BOOLEAN
    BY <1>5, PipelineAssumption DEF SyncCheckout
  <2> QED BY <1>0, <1>5, <2>1, <2>2, <2>3 DEF Typed, SyncCheckout, env
<1>6. CASE SyncWritten(h)
  <2>1. sync' \in [SyncSlots -> SyncType] /\ Targeted(sync')
    BY <1>0, <1>a, <1>6, SyncTos DEF SyncWritten, SyncAt, SyncType
  <2>2. tree' \in Contents
    BY <1>0, <1>a, <1>6, Numbers DEF SyncWritten, Commits
  <2> QED BY <1>0, <1>6, <2>1, <2>2 DEF Typed, SyncWritten, env
<1>7. CASE SyncPublish(h)
  <2>1. sync' \in [SyncSlots -> SyncType] /\ Targeted(sync')
    BY <1>0, <1>a, <1>7, SyncTos DEF SyncPublish, SyncAt, SyncType
  <2>2. project' \in ProjectType
    BY <1>0, <1>a, <1>7 DEF SyncPublish, ProjectType
  <2> QED BY <1>0, <1>7, <2>1, <2>2 DEF Typed, SyncPublish, env
<1>8. CASE SyncSend(h)
  <2>1. sync' \in [SyncSlots -> SyncType] /\ Targeted(sync')
    BY <1>0, <1>8, IdleTypes, OneSync DEF SyncSend, IdleSync
  <2>2. [changed |-> Changed(h), tries |-> 0] \in IndexJobs
    BY Numbers DEF IndexJobs, Changed
  <2>3. BagToSet(indexQ') \subseteq IndexJobs
    BY <1>0, <1>8, <2>2, PutJobs DEF SyncSend
  <2> QED BY <1>0, <1>8, <2>1, <2>3 DEF Typed, SyncSend, env
<1>9. CASE SyncFail(h)
  <2>1. sync' \in [SyncSlots -> SyncType] /\ Targeted(sync')
    BY <1>0, <1>9, IdleTypes, OneSync DEF SyncFail, IdleSync
  <2>2. BagToSet(syncQ') \subseteq SyncJobs
    <3>1. CASE sync[h].tries < RetryLimit
      <4>1. [JobOf(h) EXCEPT !.tries = @ + 1] \in SyncJobs
        BY <1>a, <3>1, Numbers DEF JobOf, SyncJobs
      <4>2. syncQ' = Put(syncQ, [JobOf(h) EXCEPT !.tries = @ + 1])
        BY <1>9, <3>1 DEF SyncFail, Again, JobOf
      <4> QED BY <1>0, <4>1, <4>2, PutJobs
    <3>2. CASE ~(sync[h].tries < RetryLimit)
      BY <1>0, <1>9, <3>2 DEF SyncFail, Again, JobOf
    <3> QED BY <3>1, <3>2
  <2>3. history' \in HistoryType
    BY <1>0, <1>9, Zenon DEF SyncFail, GivenUp, HistoryType
  <2>4. project' \in ProjectType
    BY <1>0, <1>9 DEF SyncFail, ProjectType
  <2>5. known' \in BOOLEAN
    BY <1>0, <1>9 DEF SyncFail
  <2>6. faults' \in 0..MaxFaults
    BY <1>0, <1>9, Numbers DEF SyncFail, Fault
  <2> QED BY <1>0, <1>9, <2>1, <2>2, <2>3, <2>4, <2>5, <2>6 DEF Typed, SyncFail, env
<1> QED BY <1>1, <1>2, <1>3, <1>4, <1>5, <1>6, <1>7, <1>8, <1>9 DEF SyncStep

LEMMA IndexStepTypes ==
  ASSUME Typed, NEW i \in IndexSlots, IndexStep(i)
  PROVE  Typed'
<1>0. /\ tree \in Contents /\ index \in IndexType /\ project \in ProjectType
      /\ BagToSet(indexQ) \subseteq IndexJobs /\ sync \in [SyncSlots -> SyncType] /\ Targeted(sync)
      /\ indexer \in [IndexSlots -> IndexerType] /\ indexer[i] \in IndexerType
      /\ faults \in 0..MaxFaults /\ history \in HistoryType
  BY DEF Typed
<1>a. /\ indexer[i].changed \in BOOLEAN /\ indexer[i].tries \in 0..RetryLimit
      /\ indexer[i].base \in 0..MaxCommit /\ indexer[i].view \in Contents
      /\ index.has \in Contents /\ project.commit \in 0..MaxCommit /\ project.indexed \in BOOLEAN
  BY <1>0 DEF IndexerType, IndexType, ProjectType
<1>1. CASE IndexBegin(i)
  <2>1. PICK job \in BagToSet(indexQ) :
          /\ indexQ' = Take(indexQ, job)
          /\ indexer' = [indexer EXCEPT ![i] = [IdleIndexer EXCEPT
               !.at = "open", !.changed = job.changed, !.tries = job.tries,
               !.base = project.commit, !.sync = job.changed /\ project.indexed]]
    BY <1>1 DEF IndexBegin
  <2>2. job.changed \in BOOLEAN /\ job.tries \in 0..RetryLimit
    BY <1>0 DEF IndexJobs
  <2>. DEFINE r == [IdleIndexer EXCEPT
               !.at = "open", !.changed = job.changed, !.tries = job.tries,
               !.base = project.commit, !.sync = job.changed /\ project.indexed]
  <2>3. r \in IndexerType
    <3>1. PICK b \in BOOLEAN : b = (job.changed /\ project.indexed)
      BY <1>a, <2>2
    <3>2. r = [IdleIndexer EXCEPT !.at = "open", !.changed = job.changed, !.tries = job.tries,
                                  !.base = project.commit, !.sync = b]
      BY <3>1
    <3>. HIDE DEF r
    <3> QED BY <1>a, <2>2, <3>2, IdleTypes DEF IndexerType, IndexerAt
  <2>. HIDE DEF r
  <2>4. indexer' \in [IndexSlots -> IndexerType]
    BY <1>0, <2>1, <2>3, OneIndexer DEF r
  <2>5. BagToSet(indexQ') \subseteq IndexJobs
    BY <1>0, <2>1, TakeJobs
  <2> QED BY <1>0, <1>1, <2>4, <2>5 DEF Typed, IndexBegin, env
<1>2. CASE IndexOpen(i)
  <2>1. indexer' \in [IndexSlots -> IndexerType]
    BY <1>0, <1>2 DEF IndexOpen, IndexerType, IndexerAt
  <2> QED BY <1>0, <1>2, <2>1, IdleTypes DEF Typed, IndexOpen, env
<1>3. CASE IndexScan(i)
  <2>1. indexer' \in [IndexSlots -> IndexerType]
    BY <1>0, <1>3 DEF IndexScan, IndexerType, IndexerAt
  <2> QED BY <1>0, <1>3, <2>1 DEF Typed, IndexScan, env
<1>4. CASE IndexStore(i)
  <2>1. indexer' \in [IndexSlots -> IndexerType]
    BY <1>0, <1>4, IndexerTos DEF IndexStore, IndexerAt
  <2>2. Stored(indexer[i].view) \in Contents
    BY <1>a DEF Stored
  <2>3. index' \in IndexType
    BY <1>0, <1>4, <2>2 DEF IndexStore, IndexType
  <2> QED BY <1>0, <1>4, <2>1, <2>3 DEF Typed, IndexStore, env
<1>5. CASE IndexSwallow(i)
  <2>1. indexer' \in [IndexSlots -> IndexerType]
    BY <1>0, <1>5, IndexerTos DEF IndexSwallow, IndexerAt
  <2>2. indexer[i].view # Nothing => Part(indexer[i].view.commit) \in Contents
    BY <1>a, ContentFields, Numbers DEF Commits
  <2>3. index' \in IndexType
    BY <1>0, <1>5, <2>2 DEF IndexSwallow, IndexType
  <2>4. faults' \in 0..MaxFaults
    BY <1>0, <1>5, Numbers DEF IndexSwallow, Fault
  <2>5. history' \in HistoryType
    BY <1>0, <1>5, Zenon DEF IndexSwallow, HistoryType
  <2> QED BY <1>0, <1>5, <2>1, <2>3, <2>4, <2>5 DEF Typed, IndexSwallow, env
<1>6. CASE IndexRecord(i)
  <2>1. indexer' \in [IndexSlots -> IndexerType]
    BY <1>0, <1>6, IndexerTos DEF IndexRecord, IndexerAt
  <2>2. project' \in ProjectType
    BY <1>0, <1>6, Zenon DEF IndexRecord, ProjectType
  <2> QED BY <1>0, <1>6, <2>1, <2>2 DEF Typed, IndexRecord, env
<1>7. CASE IndexLabel(i)
  <2>1. indexer' \in [IndexSlots -> IndexerType]
    BY <1>0, <1>7, IdleTypes, OneIndexer DEF IndexLabel
  <2>2. Label(i) \in 0..MaxCommit
    BY <1>a DEF Label
  <2>3. index' \in IndexType
    BY <1>0, <1>7, <2>2 DEF IndexLabel, IndexType
  <2> QED BY <1>0, <1>7, <2>1, <2>3 DEF Typed, IndexLabel, env
<1>8. CASE IndexFail(i)
  <2>1. indexer' \in [IndexSlots -> IndexerType]
    BY <1>0, <1>8, IdleTypes, OneIndexer DEF IndexFail
  <2>2. BagToSet(indexQ') \subseteq IndexJobs
    <3>. DEFINE job == [changed |-> indexer[i].changed, tries |-> indexer[i].tries]
    <3>1. CASE indexer[i].tries < RetryLimit
      <4>1. [job EXCEPT !.tries = @ + 1] \in IndexJobs
        BY <1>a, <3>1, Numbers DEF IndexJobs
      <4>2. indexQ' = Put(indexQ, [job EXCEPT !.tries = @ + 1])
        BY <1>8, <3>1 DEF IndexFail, Again
      <4> QED BY <1>0, <4>1, <4>2, PutJobs
    <3>2. CASE ~(indexer[i].tries < RetryLimit)
      BY <1>0, <1>8, <3>2 DEF IndexFail, Again
    <3> QED BY <3>1, <3>2
  <2>3. history' \in HistoryType
    BY <1>0, <1>8, Zenon DEF IndexFail, GivenUp, HistoryType
  <2>4. faults' \in 0..MaxFaults
    BY <1>0, <1>8, Numbers DEF IndexFail, Fault
  <2> QED BY <1>0, <1>8, <2>1, <2>2, <2>3, <2>4 DEF Typed, IndexFail, env
<1> QED BY <1>1, <1>2, <1>3, <1>4, <1>5, <1>6, <1>7, <1>8 DEF IndexStep

LEMMA OtherTypes ==
  ASSUME Typed, Push \/ Trigger \/ QueryOpens \/ Crash
  PROVE  Typed'
<1>0. /\ head \in Commits /\ mirror \in 0..head /\ head \in Nat /\ mirror \in Nat
      /\ BagToSet(syncQ) \subseteq SyncJobs /\ BagToSet(indexQ) \subseteq IndexJobs
      /\ sync \in [SyncSlots -> SyncType] /\ indexer \in [IndexSlots -> IndexerType]
      /\ sent \in 0..MaxJobs /\ faults \in 0..MaxFaults /\ history \in HistoryType
  BY Numbers DEF Typed, Commits
<1>s. ASSUME NEW n \in 0..MaxCommit, Send(n)
      PROVE  sent' \in 0..MaxJobs /\ BagToSet(syncQ') \subseteq SyncJobs
  <2>1. [sha |-> n, tries |-> 0] \in SyncJobs
    BY Numbers DEF SyncJobs
  <2>2. BagToSet(syncQ') = BagToSet(syncQ) \cup {[sha |-> n, tries |-> 0]}
    BY <1>s, PutJobs DEF Send
  <2> QED BY <1>0, <1>s, <2>1, <2>2, Numbers DEF Send
<1>1. CASE Push
  <2>1. head' \in Commits /\ mirror' \in 0..head' /\ head' \in 0..MaxCommit
    BY <1>0, <1>1, Numbers DEF Push, Commits
  <2>2. sent' \in 0..MaxJobs /\ BagToSet(syncQ') \subseteq SyncJobs
    <3>1. CASE UNCHANGED <<sent, syncQ>>
      BY <1>0, <3>1
    <3>2. CASE Send(head')
      <4>1. PICK n \in 0..MaxCommit : n = head'
        BY <2>1
      <4>2. Send(n)
        BY <3>2, <4>1 DEF Send
      <4> QED BY <1>s, <4>2
    <3> QED BY <1>1, <3>1, <3>2 DEF Push
  <2> QED BY <1>1, <2>1, <2>2 DEF Typed, Push
<1>2. CASE Trigger
  BY <1>2, <1>s, Numbers DEF Typed, Trigger
<1>3. CASE QueryOpens
  <2>1. faults' \in 0..MaxFaults
    BY <1>0, <1>3, Numbers DEF QueryOpens, Fault
  <2> QED BY <1>3, <2>1, IdleTypes DEF Typed, QueryOpens, env
<1>4. CASE Crash
  <2>1. sync' \in [SyncSlots -> SyncType] /\ Targeted(sync') /\ indexer' \in [IndexSlots -> IndexerType]
    BY <1>4, IdleTypes DEF Crash, Targeted, IdleSync
  <2>2. BagToSet(syncQ') \subseteq SyncJobs
    <3>1. \A h \in Redelivered : [sha |-> sync[h].sha, tries |-> sync[h].tries + 1] \in SyncJobs
      BY <1>0, Numbers DEF Redelivered, SyncJobs, SyncType
    <3> QED BY <1>0, <1>4, <3>1, CrashQueues
  <2>3. BagToSet(indexQ') \subseteq IndexJobs
    <3>1. \A i \in Reindexed : [changed |-> indexer[i].changed, tries |-> indexer[i].tries + 1] \in IndexJobs
      BY <1>0, Numbers DEF Reindexed, IndexJobs, IndexerType
    <3> QED BY <1>0, <1>4, <3>1, CrashQueues
  <2>4. history' \in HistoryType
    BY <1>0, <1>4, Zenon DEF Crash, HistoryType
  <2>f. Fault
    BY <1>4, Zenon DEF Crash
  <2>5. faults' \in 0..MaxFaults
    BY <1>0, <2>f, Numbers DEF Fault
  <2> QED BY <1>4, <2>1, <2>2, <2>3, <2>4, <2>5 DEF Typed, Crash, env
<1> QED BY <1>1, <1>2, <1>3, <1>4

-----------------------------------------------------------------------------
(* The index and the tree.                                                   *)

Matches(contents) == contents # Nothing => contents.commit = tree.commit /\ (contents.whole => tree.whole)

\* What the index beside the tree holds, and what a run that owns it has read, is
\* in the tree; a checkout nobody cut is in the tree too.
Owned ==
  /\ Matches(index.has)
  /\ ~index.exists => index.has = Nothing
  /\ \A i \in IndexSlots :
       /\ indexer[i].own => index.exists /\ Matches(indexer[i].view)
       /\ indexer[i].at \in {"idle", "open", "scan"} => indexer[i].view = Nothing
  /\ \A h \in SyncSlots : sync[h].at = "writing" /\ ~sync[h].cut => tree.commit = sync[h].target

LEMMA OwnedSync ==
  ASSUME Typed, Owned, NEW h \in SyncSlots, SyncStep(h)
  PROVE  Owned'
<1>0. /\ tree \in Contents /\ index \in IndexType /\ index.has \in Contents
      /\ sync \in [SyncSlots -> SyncType] /\ Targeted(sync) /\ sync[h] \in SyncType
      /\ indexer \in [IndexSlots -> IndexerType]
      /\ \A i \in IndexSlots : indexer[i] \in IndexerType /\ indexer[i].view \in Contents
  BY DEF Typed, IndexType, IndexerType
<1>t. sync[h].target = 0 => sync[h].at \in {"idle", "fetch", "resolve"}
  BY <1>0 DEF Targeted
<1>w. \A g \in SyncSlots : sync[g].at = "writing" /\ ~sync[g].cut => tree # Nothing
  BY <1>0, Numbers DEF Owned, Targeted
<1>n. ASSUME UNCHANGED <<tree, index, indexer>>,
             \A g \in SyncSlots : g # h => sync'[g] = sync[g], sync'[h].at # "writing"
      PROVE  Owned'
  BY <1>n DEF Owned, Matches
<1>1. CASE SyncBegin(h)
  BY <1>0, <1>1, <1>n DEF SyncBegin, syncOnly, IdleSync
<1>2. CASE SyncFetch(h)
  BY <1>0, <1>2, <1>n, <1>t, SyncTos DEF SyncFetch, SyncAt
<1>3. CASE SyncResolve(h)
  <2>1. sync'[h].at = "wipe" /\ \A g \in SyncSlots : g # h => sync'[g] = sync[g]
    BY <1>0, <1>3 DEF SyncResolve, SyncType
  <2> QED BY <1>3, <1>n, <2>1 DEF SyncResolve, syncOnly
<1>4. CASE SyncWipe(h)
  <2>1. tree' = Nothing /\ index'.has = Nothing
    BY <1>4 DEF SyncWipe, Removed, NoIndex
  <2>2. \A i \in IndexSlots :
          ~indexer'[i].own /\ indexer'[i].at = indexer[i].at /\ indexer'[i].view = indexer[i].view
    BY <1>0, <1>4 DEF SyncWipe, Removed, IndexerType
  <2>3. \A g \in SyncSlots : ~(sync'[g].at = "writing" /\ ~sync'[g].cut)
    BY <1>0, <1>4 DEF SyncWipe, Removed, SyncType
  <2> QED BY <2>1, <2>2, <2>3 DEF Owned, Matches
<1>5. CASE SyncCheckout(h)
  <2>1. tree = Nothing /\ ~index.exists /\ tree' = Part(sync[h].target) /\ UNCHANGED <<index, indexer>>
    BY <1>5 DEF SyncCheckout, CanCheckout
  <2>2. sync'[h].target = sync[h].target /\ \A g \in SyncSlots : g # h => sync'[g] = sync[g]
    BY <1>0, <1>5, <1>t, SyncTos DEF SyncCheckout, SyncAt
  <2>3. \A g \in SyncSlots : sync'[g].at = "writing" /\ ~sync'[g].cut => tree'.commit = sync'[g].target
    BY <1>w, <2>1, <2>2 DEF Part
  <2>4. \A i \in IndexSlots : ~indexer[i].own
    BY <2>1 DEF Owned
  <2> QED BY <2>1, <2>3, <2>4 DEF Owned, Matches
<1>6. CASE SyncWritten(h)
  <2>1. UNCHANGED <<index, indexer>> /\ sync[h].at = "writing"
    BY <1>6 DEF SyncWritten
  <2>2. sync'[h].at = "publish" /\ \A g \in SyncSlots : g # h => sync'[g] = sync[g]
    BY <1>0, <1>6, <1>t, SyncTos DEF SyncWritten, SyncAt
  <2>3. tree # Nothing => tree'.commit = tree.commit /\ (tree.whole => tree'.whole)
    BY <1>0, <1>6, <2>1 DEF SyncWritten, Owned, Whole
  <2>4. \A c \in Contents : Matches(c) => (c # Nothing => tree # Nothing)
    BY <1>0, ContentFields DEF Matches
  <2>5. \A c \in Contents : Matches(c) => (c # Nothing => c.commit = tree'.commit /\ (c.whole => tree'.whole))
    BY <2>3, <2>4 DEF Matches
  <2>6. \A g \in SyncSlots : sync'[g].at = "writing" /\ ~sync'[g].cut => tree'.commit = sync'[g].target
    BY <1>w, <2>2, <2>3 DEF Owned
  <2> QED BY <1>0, <2>1, <2>5, <2>6 DEF Owned, Matches
<1>7. CASE SyncPublish(h)
  BY <1>0, <1>7, <1>n, <1>t, SyncTos DEF SyncPublish, SyncAt
<1>8. CASE SyncSend(h)
  BY <1>0, <1>8, <1>n DEF SyncSend, IdleSync
<1>9. CASE SyncFail(h)
  BY <1>0, <1>9, <1>n DEF SyncFail, IdleSync
<1> QED BY <1>1, <1>2, <1>3, <1>4, <1>5, <1>6, <1>7, <1>8, <1>9 DEF SyncStep

LEMMA OwnedIndex ==
  ASSUME Typed, Owned, NEW i \in IndexSlots, IndexStep(i)
  PROVE  Owned'
<1>0. /\ tree \in Contents /\ index \in IndexType /\ index.has \in Contents
      /\ indexer \in [IndexSlots -> IndexerType] /\ indexer[i] \in IndexerType
      /\ indexer[i].view \in Contents
  BY DEF Typed, IndexType, IndexerType
<1>n. Matches(Nothing)
  BY DEF Matches
<1>q. ASSUME UNCHANGED <<tree, sync>>, Matches(index'.has), index'.exists \/ index'.has = Nothing,
             index.exists => index'.exists,
             \A j \in IndexSlots : j # i => indexer'[j] = indexer[j],
             indexer'[i].own => index'.exists /\ Matches(indexer'[i].view),
             indexer'[i].at \in {"idle", "open", "scan"} => indexer'[i].view = Nothing
      PROVE  Owned'
  BY <1>q DEF Owned, Matches
<1>1. CASE IndexBegin(i)
  <2>1. ~indexer'[i].own /\ indexer'[i].view = Nothing
    BY <1>0, <1>1, Zenon DEF IndexBegin, IdleIndexer
  <2>2. \A j \in IndexSlots : j # i => indexer'[j] = indexer[j]
    BY <1>0, <1>1 DEF IndexBegin
  <2> QED BY <1>1, <1>q, <2>1, <2>2 DEF IndexBegin, Owned
<1>2. CASE IndexOpen(i)
  <2>1. indexer'[i].view = Nothing /\ \A j \in IndexSlots : j # i => indexer'[j] = indexer[j]
    BY <1>0, <1>2 DEF IndexOpen, IndexerType, Owned
  <2>2. Matches(index'.has) /\ index'.exists
    BY <1>2, <1>n DEF IndexOpen, Owned, EmptyIndex, NoIndex
  <2> QED BY <1>2, <1>n, <1>q, <2>1, <2>2 DEF IndexOpen
<1>3. CASE IndexScan(i)
  <2>1. /\ indexer'[i].view = tree /\ indexer'[i].own = indexer[i].own /\ indexer'[i].at = "store"
        /\ \A j \in IndexSlots : j # i => indexer'[j] = indexer[j]
    BY <1>0, <1>3 DEF IndexScan, IndexerType
  <2>2. Matches(tree)
    BY DEF Matches
  <2> QED BY <1>3, <1>q, <2>1, <2>2 DEF IndexScan, Owned
<1>4. CASE IndexStore(i)
  <2>1. /\ indexer'[i].view = indexer[i].view /\ indexer'[i].own = indexer[i].own /\ indexer'[i].at = "record"
        /\ \A j \in IndexSlots : j # i => indexer'[j] = indexer[j]
    BY <1>0, <1>4, IndexerTos DEF IndexStore, IndexerAt
  <2>2. indexer[i].own => Matches(Stored(indexer[i].view)) /\ index.exists
    BY DEF Owned, Stored
  <2>3. Matches(index'.has) /\ index'.exists = index.exists
    BY <1>0, <1>4, <2>2 DEF IndexStore, IndexType, Owned
  <2> QED BY <1>0, <1>4, <1>q, <2>1, <2>2, <2>3 DEF IndexStore, Owned, IndexType
<1>5. CASE IndexSwallow(i)
  <2>1. /\ indexer'[i].view = indexer[i].view /\ indexer'[i].own = indexer[i].own /\ indexer'[i].at = "record"
        /\ \A j \in IndexSlots : j # i => indexer'[j] = indexer[j]
    BY <1>0, <1>5, IndexerTos DEF IndexSwallow, IndexerAt
  <2>2. Matches(index'.has) /\ index'.exists = index.exists
    BY <1>0, <1>5 DEF IndexSwallow, IndexType, Owned, Matches, Part
  <2>3. index'.exists \/ index'.has = Nothing
    BY <1>0, <1>5 DEF IndexSwallow, IndexType, Owned
  <2> QED BY <1>5, <1>q, <2>1, <2>2, <2>3 DEF IndexSwallow, Owned
<1>6. CASE IndexRecord(i)
  <2>1. /\ indexer'[i].view = indexer[i].view /\ indexer'[i].own = indexer[i].own /\ indexer'[i].at = "label"
        /\ \A j \in IndexSlots : j # i => indexer'[j] = indexer[j]
    BY <1>0, <1>6, IndexerTos DEF IndexRecord, IndexerAt
  <2> QED BY <1>6, <1>q, <2>1 DEF IndexRecord, Owned
<1>7. CASE IndexLabel(i)
  <2>1. /\ indexer'[i] = IdleIndexer
        /\ \A j \in IndexSlots : j # i => indexer'[j] = indexer[j]
    BY <1>0, <1>7 DEF IndexLabel
  <2>2. index'.has = index.has /\ index'.exists = index.exists
    BY <1>0, <1>7 DEF IndexLabel, IndexType
  <2> QED BY <1>7, <1>q, <2>1, <2>2 DEF IndexLabel, Owned, IdleIndexer
<1>8. CASE IndexFail(i)
  <2>1. /\ indexer'[i] = IdleIndexer
        /\ \A j \in IndexSlots : j # i => indexer'[j] = indexer[j]
    BY <1>0, <1>8 DEF IndexFail
  <2> QED BY <1>8, <1>q, <2>1 DEF IndexFail, Owned, IdleIndexer
<1> QED BY <1>1, <1>2, <1>3, <1>4, <1>5, <1>6, <1>7, <1>8 DEF IndexStep

LEMMA OwnedOther ==
  ASSUME Typed, Owned, Push \/ Trigger \/ QueryOpens \/ Crash
  PROVE  Owned'
<1>1. CASE Push \/ Trigger
  BY <1>1 DEF Push, Trigger, Owned, Matches
<1>2. CASE QueryOpens
  BY <1>2 DEF QueryOpens, EmptyIndex, NoIndex, Owned, Matches
<1>3. CASE Crash
  <2>1. UNCHANGED <<tree, index>>
    BY <1>3 DEF Crash
  <2>2. (\A h \in SyncSlots : sync'[h] = IdleSync) /\ (\A i \in IndexSlots : indexer'[i] = IdleIndexer)
    BY <1>3 DEF Crash
  <2> QED BY <2>1, <2>2 DEF Owned, Matches, IdleSync, IdleIndexer
<1> QED BY <1>1, <1>2, <1>3

-----------------------------------------------------------------------------
(* One sync at a time.                                                       *)

\* As long as no two syncs overlapped, the one that is busy has the directory to
\* itself.
Alone ==
  ~history.overlap =>
    \A h \in SyncSlots :
      /\ \A g \in SyncSlots : sync[h].at # "idle" /\ sync[g].at # "idle" => g = h
      /\ ~sync[h].cut
      /\ sync[h].at \in {"publish", "send"} => tree = Whole(sync[h].target)
      /\ sync[h].at = "send" => project.commit = sync[h].target /\ project.status = "active"

\* What excused an inconsistency goes on doing so.
LEMMA HistoryGrows ==
  ASSUME Typed, Next
  PROVE  /\ ~history'.overlap => ~history.overlap
         /\ ~history'.lost => ~history.lost
         /\ ~history'.swallowed => ~history.swallowed
<1>0. history \in HistoryType
  BY DEF Typed
<1>1. \/ history' = history
      \/ history' = [history EXCEPT !.overlap = TRUE]
      \/ history' = [history EXCEPT !.lost = TRUE]
      \/ history' = [history EXCEPT !.swallowed = TRUE]
  <2>1. CASE Push \/ Trigger \/ QueryOpens
    BY <2>1, Zenon DEF Push, Trigger, QueryOpens
  <2>2. CASE Crash
    BY <2>2, Zenon DEF Crash
  <2>3. ASSUME NEW h \in SyncSlots, SyncStep(h) PROVE <1>1!:
    BY <2>3, Zenon DEF SyncStep, SyncBegin, SyncFetch, SyncResolve, SyncWipe, SyncCheckout,
                       SyncWritten, SyncPublish, SyncSend, SyncFail, GivenUp
  <2>4. ASSUME NEW i \in IndexSlots, IndexStep(i) PROVE <1>1!:
    BY <2>4, Zenon DEF IndexStep, IndexBegin, IndexOpen, IndexScan, IndexStore, IndexSwallow,
                       IndexRecord, IndexLabel, IndexFail, GivenUp
  <2> QED BY <2>1, <2>2, <2>3, <2>4 DEF Next
<1> QED BY <1>0, <1>1 DEF HistoryType

LEMMA AloneSync ==
  ASSUME Typed, Owned, Alone, NEW h \in SyncSlots, SyncStep(h)
  PROVE  Alone'
<1>0. /\ tree \in Contents /\ project \in ProjectType
      /\ sync \in [SyncSlots -> SyncType] /\ Targeted(sync) /\ sync[h] \in SyncType
      /\ history \in HistoryType
  BY DEF Typed
<1>t. sync[h].target = 0 => sync[h].at \in {"idle", "fetch", "resolve"}
  BY <1>0 DEF Targeted
<1>g. ~history'.overlap => ~history.overlap
  BY HistoryGrows DEF Next
<1>a. SUFFICES ASSUME ~history'.overlap
               PROVE  \A k \in SyncSlots :
                 /\ \A g \in SyncSlots : sync'[k].at # "idle" /\ sync'[g].at # "idle" => g = k
                 /\ ~sync'[k].cut
                 /\ sync'[k].at \in {"publish", "send"} => tree' = Whole(sync'[k].target)
                 /\ sync'[k].at = "send" => project'.commit = sync'[k].target /\ project'.status = "active"
  BY DEF Alone
<1>b. \A k \in SyncSlots :
        /\ \A g \in SyncSlots : sync[k].at # "idle" /\ sync[g].at # "idle" => g = k
        /\ ~sync[k].cut
        /\ sync[k].at \in {"publish", "send"} => tree = Whole(sync[k].target)
        /\ sync[k].at = "send" => project.commit = sync[k].target /\ project.status = "active"
  BY <1>a, <1>g DEF Alone
\* The others are idle and stay so.
<1>q. ASSUME \A g \in SyncSlots : g # h => sync[g].at = "idle",
             \A g \in SyncSlots : g # h => sync'[g] = sync[g],
             ~sync'[h].cut,
             sync'[h].at \in {"publish", "send"} => tree' = Whole(sync'[h].target),
             sync'[h].at = "send" => project'.commit = sync'[h].target /\ project'.status = "active"
      PROVE  \A k \in SyncSlots :
                 /\ \A g \in SyncSlots : sync'[k].at # "idle" /\ sync'[g].at # "idle" => g = k
                 /\ ~sync'[k].cut
                 /\ sync'[k].at \in {"publish", "send"} => tree' = Whole(sync'[k].target)
                 /\ sync'[k].at = "send" => project'.commit = sync'[k].target /\ project'.status = "active"
  BY <1>q, <1>b
<1>1. CASE SyncBegin(h)
  <2>1. \A g \in SyncSlots : sync[g].at = "idle"
    BY <1>0, <1>1, <1>a DEF SyncBegin, Busy, HistoryType
  <2>2. sync'[h].at = "fetch" /\ ~sync'[h].cut /\ \A g \in SyncSlots : g # h => sync'[g] = sync[g]
    BY <1>0, <1>1 DEF SyncBegin, IdleSync
  <2> QED BY <1>q, <2>1, <2>2
<1>i. ~SyncBegin(h) => \A g \in SyncSlots : g # h => sync[g].at = "idle"
  BY <1>b DEF SyncStep, SyncFetch, SyncResolve, SyncWipe, SyncCheckout, SyncWritten, SyncPublish, SyncSend, SyncFail
<1>2. CASE SyncFetch(h) /\ ~SyncBegin(h)
  BY <1>0, <1>b, <1>i, <1>q, <1>2, <1>t, SyncTos DEF SyncFetch, SyncAt
<1>3. CASE SyncResolve(h) /\ ~SyncBegin(h)
  <2>1. sync'[h].at = "wipe" /\ sync'[h].cut = sync[h].cut /\ \A g \in SyncSlots : g # h => sync'[g] = sync[g]
    BY <1>0, <1>3 DEF SyncResolve, SyncType
  <2> QED BY <1>b, <1>i, <1>q, <1>3, <2>1
<1>4. CASE SyncWipe(h) /\ ~SyncBegin(h)
  <2>1. /\ sync'[h].at = "checkout" /\ sync'[h].cut = sync[h].cut
        /\ \A g \in SyncSlots : g # h => sync'[g] = sync[g]
    BY <1>0, <1>i, <1>4 DEF SyncWipe, Removed, SyncType
  <2> QED BY <1>b, <1>i, <1>q, <1>4, <2>1
<1>5. CASE SyncCheckout(h) /\ ~SyncBegin(h)
  BY <1>0, <1>b, <1>i, <1>q, <1>5, <1>t, SyncTos DEF SyncCheckout, SyncAt
<1>6. CASE SyncWritten(h) /\ ~SyncBegin(h)
  <2>1. /\ sync'[h].at = "publish" /\ sync'[h].cut = sync[h].cut /\ sync'[h].target = sync[h].target
        /\ \A g \in SyncSlots : g # h => sync'[g] = sync[g]
    BY <1>0, <1>6, <1>t, SyncTos DEF SyncWritten, SyncAt
  <2>2. tree' = Whole(sync'[h].target)
    BY <1>b, <1>6, <2>1 DEF SyncWritten
  <2> QED BY <1>b, <1>i, <1>q, <1>6, <2>1, <2>2
<1>7. CASE SyncPublish(h) /\ ~SyncBegin(h)
  <2>1. /\ sync'[h].at = "send" /\ sync'[h].cut = sync[h].cut /\ sync'[h].target = sync[h].target
        /\ \A g \in SyncSlots : g # h => sync'[g] = sync[g]
    BY <1>0, <1>7, <1>t, SyncTos DEF SyncPublish, SyncAt
  <2>2. tree' = Whole(sync'[h].target)
    BY <1>b, <1>7, <2>1 DEF SyncPublish
  <2>3. project'.commit = sync'[h].target /\ project'.status = "active"
    BY <1>0, <1>7, <2>1 DEF SyncPublish, ProjectType
  <2> QED BY <1>b, <1>i, <1>q, <1>7, <2>1, <2>2, <2>3
<1>8. CASE SyncSend(h) /\ ~SyncBegin(h)
  <2>1. sync'[h] = IdleSync /\ \A g \in SyncSlots : g # h => sync'[g] = sync[g]
    BY <1>0, <1>8 DEF SyncSend
  <2> QED BY <1>i, <1>q, <1>8, <2>1 DEF IdleSync
<1>9. CASE SyncFail(h) /\ ~SyncBegin(h)
  <2>1. sync'[h] = IdleSync /\ \A g \in SyncSlots : g # h => sync'[g] = sync[g]
    BY <1>0, <1>9 DEF SyncFail
  <2> QED BY <1>i, <1>q, <1>9, <2>1 DEF IdleSync
<1> QED BY <1>1, <1>2, <1>3, <1>4, <1>5, <1>6, <1>7, <1>8, <1>9 DEF SyncStep

LEMMA AloneIndex ==
  ASSUME Typed, Alone, NEW i \in IndexSlots, IndexStep(i)
  PROVE  Alone'
<1>1. UNCHANGED <<sync, tree>> /\ project'.commit = project.commit /\ project'.status = project.status
  BY DEF Typed, ProjectType, IndexStep, IndexBegin, IndexOpen, IndexScan, IndexStore, IndexSwallow, IndexRecord, IndexLabel,
         IndexFail
<1>2. ~history'.overlap => ~history.overlap
  BY HistoryGrows DEF Next
<1> QED BY <1>1, <1>2 DEF Alone

LEMMA AloneOther ==
  ASSUME Typed, Alone, Push \/ Trigger \/ QueryOpens \/ Crash
  PROVE  Alone'
<1>1. ~history'.overlap => ~history.overlap
  BY HistoryGrows DEF Next
<1>2. CASE Push \/ Trigger \/ QueryOpens
  BY <1>2 DEF Push, Trigger, QueryOpens, Alone
<1>3. CASE Crash
  <2>1. \A h \in SyncSlots : sync'[h] = IdleSync
    BY <1>3 DEF Crash
  <2> QED BY <2>1 DEF Alone, IdleSync
<1> QED BY <1>2, <1>3

-----------------------------------------------------------------------------
(* At rest.                                                                  *)

Clear == ~history.overlap /\ ~history.lost /\ ~history.swallowed

\* No sync is at work or waits.
Calm == (\A h \in SyncSlots : sync[h].at = "idle") /\ BagToSet(syncQ) = {}

\* The index is that of the tree, and says so.
Good == index.has = tree /\ index.label = project.commit /\ project.indexed

\* Indexer i is on its way to make it so.
Carries(i) ==
  \/ indexer[i].at = "open"
  \/ /\ indexer[i].own
     /\ \/ indexer[i].at = "scan"
        \/ indexer[i].at = "store" /\ indexer[i].view = tree
        \/ indexer[i].at = "record" /\ index.has = tree
        \/ indexer[i].at = "label" /\ index.has = tree /\ project.indexed

Pending == BagToSet(indexQ) # {} \/ \E i \in IndexSlots : Carries(i)

Synced == tree = Whole(project.commit) /\ project.status = "active"

\* Once the syncs are done the tree is the recorded commit, and the index is or
\* somebody is left to make it so.
Fed == Clear /\ Calm /\ project.commit # 0 => Synced /\ (Good \/ Pending)

LEMMA Putting ==
  ASSUME NEW bag, NEW job
  PROVE  BagToSet(Put(bag, job)) # {}
BY PutJobs

LEMMA FedSync ==
  ASSUME Typed, Owned, Alone, Fed, NEW h \in SyncSlots, SyncStep(h)
  PROVE  Fed'
<1>0. /\ tree \in Contents /\ project \in ProjectType
      /\ sync \in [SyncSlots -> SyncType] /\ Targeted(sync) /\ sync[h] \in SyncType
      /\ history \in HistoryType /\ sync[h].tries \in Nat
  BY Numbers DEF Typed, SyncType
<1>t. sync[h].target = 0 => sync[h].at \in {"idle", "fetch", "resolve"}
  BY <1>0 DEF Targeted
<1>g. Clear' => Clear
  BY HistoryGrows DEF Next, Clear
<1>b. ASSUME sync'[h].at # "idle" PROVE Fed'
  BY <1>b DEF Fed, Calm
<1>1. CASE SyncBegin(h)
  BY <1>0, <1>1, <1>b DEF SyncBegin
<1>2. CASE SyncFetch(h)
  BY <1>0, <1>2, <1>b, <1>t, SyncTos DEF SyncFetch, SyncAt
<1>3. CASE SyncResolve(h)
  <2>1. sync'[h].at = "wipe"
    BY <1>0, <1>3 DEF SyncResolve, SyncType
  <2> QED BY <1>b, <2>1
<1>4. CASE SyncWipe(h)
  <2>1. sync'[h].at = "checkout"
    BY <1>0, <1>4 DEF SyncWipe, Removed, SyncType
  <2> QED BY <1>b, <2>1
<1>5. CASE SyncCheckout(h)
  BY <1>0, <1>5, <1>b, <1>t, SyncTos DEF SyncCheckout, SyncAt
<1>6. CASE SyncWritten(h)
  BY <1>0, <1>6, <1>b, <1>t, SyncTos DEF SyncWritten, SyncAt
<1>7. CASE SyncPublish(h)
  BY <1>0, <1>7, <1>b, <1>t, SyncTos DEF SyncPublish, SyncAt
<1>8. CASE SyncSend(h)
  <2>1. BagToSet(indexQ') # {} /\ UNCHANGED <<tree, project>>
    BY <1>8, Putting DEF SyncSend
  <2>2. ~history.overlap => Synced
    BY <1>8 DEF SyncSend, Alone, Synced
  <2>3. Clear' => Synced'
    BY <1>g, <2>1, <2>2 DEF Clear, Synced
  <2> QED BY <2>1, <2>3 DEF Fed, Pending
<1>9. CASE SyncFail(h)
  <2>1. CASE sync[h].tries < RetryLimit
    <3>1. syncQ' = Put(syncQ, [JobOf(h) EXCEPT !.tries = @ + 1])
      BY <1>9, <2>1 DEF SyncFail, Again, JobOf
    <3> QED BY <3>1, Putting DEF Fed, Calm
  <2>2. CASE ~(sync[h].tries < RetryLimit)
    <3>1. history'.lost
      BY <1>0, <1>9, <2>2 DEF SyncFail, GivenUp, HistoryType
    <3> QED BY <3>1 DEF Fed, Clear
  <2> QED BY <2>1, <2>2
<1> QED BY <1>1, <1>2, <1>3, <1>4, <1>5, <1>6, <1>7, <1>8, <1>9 DEF SyncStep

LEMMA FedIndex ==
  ASSUME Typed, Owned, Fed, NEW i \in IndexSlots, IndexStep(i)
  PROVE  Fed'
<1>0. /\ tree \in Contents /\ index \in IndexType /\ index.has \in Contents /\ project \in ProjectType
      /\ indexer \in [IndexSlots -> IndexerType] /\ indexer[i] \in IndexerType
      /\ history \in HistoryType /\ project.commit \in 0..MaxCommit
  BY DEF Typed, IndexType, ProjectType
<1>1. /\ UNCHANGED <<sync, syncQ, tree>>
      /\ project'.commit = project.commit /\ project'.status = project.status
      /\ project.indexed => project'.indexed
  BY <1>0 DEF ProjectType, IndexStep, IndexBegin, IndexOpen, IndexScan, IndexStore, IndexSwallow, IndexRecord,
              IndexLabel, IndexFail
<1>2. Clear' => Clear
  BY HistoryGrows DEF Next, Clear
<1>3. SUFFICES ASSUME Clear', Calm', project'.commit # 0
               PROVE  Synced' /\ (Good' \/ Pending')
  BY DEF Fed
<1>4. Synced /\ (Good \/ Pending) /\ project.commit # 0
  BY <1>1, <1>2, <1>3 DEF Fed, Calm
<1>5. Synced'
  BY <1>1, <1>4 DEF Synced
<1>6. /\ tree = Whole(project.commit) /\ tree # Nothing /\ tree.whole
      /\ index.has.whole => index.has = tree
  <2>1. tree = Whole(project.commit) /\ tree # Nothing /\ tree.whole /\ tree.commit = project.commit
    BY <1>4 DEF Synced, Whole, Nothing
  <2>2. ASSUME index.has.whole PROVE index.has = tree
    <3>1. index.has # Nothing
      BY <2>2 DEF Nothing
    <3>2. index.has.commit = project.commit
      BY <2>1, <3>1 DEF Owned, Matches
    <3> QED BY <1>0, <1>4, <2>1, <2>2, <3>2, ContentFields
  <2> QED BY <2>1, <2>2
\* The others carry on what they carry.
<1>7. ASSUME \A j \in IndexSlots : j # i => indexer'[j] = indexer[j],
             index.has = tree => index'.has = tree,
             NEW j \in IndexSlots, j # i, Carries(j)
      PROVE  Pending'
  <2>1. Carries(j)'
    BY <1>1, <1>7 DEF Carries
  <2> QED BY <2>1 DEF Pending
<1>8. ASSUME NEW k \in IndexSlots, Carries(k)'
      PROVE  Pending'
  BY <1>8 DEF Pending
<1>9. CASE IndexBegin(i)
  <2>1. indexer'[i].at = "open"
    BY <1>0, <1>9, Zenon DEF IndexBegin, IdleIndexer
  <2> QED BY <1>5, <1>8, <2>1 DEF Carries
<1>10. CASE IndexOpen(i)
  <2>1. indexer'[i].at = "scan" /\ indexer'[i].own
    BY <1>0, <1>10 DEF IndexOpen, IndexerType
  <2> QED BY <1>5, <1>8, <2>1 DEF Carries
<1>11. CASE IndexScan(i)
  <2>1. /\ indexer'[i].at = "store" /\ indexer'[i].own = indexer[i].own /\ indexer'[i].view = tree
        /\ \A j \in IndexSlots : j # i => indexer'[j] = indexer[j]
    BY <1>0, <1>11 DEF IndexScan, IndexerType
  <2>2. UNCHANGED <<index, project, indexQ, tree>> /\ indexer[i].at = "scan"
    BY <1>11 DEF IndexScan
  <2>3. Carries(i) => Carries(i)'
    BY <2>1, <2>2 DEF Carries
  <2>4. Good => Good'
    BY <2>2 DEF Good
  <2> QED BY <1>4, <1>5, <1>7, <1>8, <2>1, <2>2, <2>3, <2>4 DEF Pending
<1>12. CASE IndexStore(i)
  <2>1. /\ indexer'[i].at = "record" /\ indexer'[i].own = indexer[i].own
        /\ \A j \in IndexSlots : j # i => indexer'[j] = indexer[j]
    BY <1>0, <1>12, IndexerTos DEF IndexStore, IndexerAt
  <2>2. UNCHANGED <<project, indexQ, tree>> /\ indexer[i].at = "store"
    BY <1>12 DEF IndexStore
  <2>3. index'.label = index.label /\ (index.has = tree => index'.has = tree)
    BY <1>0, <1>6, <1>12 DEF IndexStore, IndexType, Stored
  <2>4. ASSUME Carries(i) PROVE Carries(i)'
    <3>1. indexer[i].own /\ indexer[i].view = tree
      BY <2>2, <2>4 DEF Carries
    <3>2. index'.has = tree
      BY <1>0, <1>6, <1>12, <3>1 DEF IndexStore, IndexType, Stored
    <3> QED BY <2>1, <2>2, <3>1, <3>2 DEF Carries
  <2>5. Good => Good'
    BY <2>2, <2>3 DEF Good
  <2> QED BY <1>4, <1>5, <1>7, <1>8, <2>1, <2>2, <2>3, <2>4, <2>5 DEF Pending
<1>13. CASE IndexSwallow(i)
  <2>1. history'.swallowed
    BY <1>0, <1>13 DEF IndexSwallow, HistoryType
  <2> QED BY <1>3, <2>1 DEF Clear
<1>14. CASE IndexRecord(i)
  <2>1. /\ indexer'[i].at = "label" /\ indexer'[i].own = indexer[i].own
        /\ \A j \in IndexSlots : j # i => indexer'[j] = indexer[j]
    BY <1>0, <1>14, IndexerTos DEF IndexRecord, IndexerAt
  <2>2. UNCHANGED <<index, indexQ, tree>> /\ indexer[i].at = "record"
    BY <1>14 DEF IndexRecord
  <2>3. project'.indexed
    BY <1>0, <1>14 DEF IndexRecord, ProjectType
  <2>4. Carries(i) => Carries(i)'
    BY <2>1, <2>2, <2>3 DEF Carries
  <2>5. Good => Good'
    BY <1>1, <2>2, <2>3 DEF Good
  <2> QED BY <1>4, <1>5, <1>7, <1>8, <2>1, <2>2, <2>4, <2>5 DEF Pending
<1>15. CASE IndexLabel(i)
  <2>1. \A j \in IndexSlots : j # i => indexer'[j] = indexer[j]
    BY <1>0, <1>15 DEF IndexLabel
  <2>2. UNCHANGED <<project, indexQ, tree>> /\ indexer[i].at = "label" /\ Label(i) = project.commit
    BY <1>4, <1>15 DEF IndexLabel, Label
  <2>3. index'.has = index.has /\ (index'.label = index.label \/ index'.label = project.commit)
    BY <1>0, <1>15, <2>2 DEF IndexLabel, IndexType
  <2>4. ASSUME Carries(i) PROVE Good'
    <3>1. indexer[i].own /\ index.has = tree /\ project.indexed
      BY <2>2, <2>4 DEF Carries
    <3>2. index'.label = project.commit
      BY <1>0, <1>4, <1>15, <2>2, <3>1 DEF IndexLabel, IndexType
    <3> QED BY <2>2, <2>3, <3>1, <3>2 DEF Good
  <2>5. Good => Good'
    BY <2>2, <2>3 DEF Good
  <2> QED BY <1>4, <1>5, <1>7, <2>1, <2>2, <2>3, <2>4, <2>5 DEF Pending
<1>16. CASE IndexFail(i)
  <2>1. CASE indexer[i].tries < RetryLimit
    <3>1. indexQ' = Put(indexQ, [[changed |-> indexer[i].changed, tries |-> indexer[i].tries] EXCEPT !.tries = @ + 1])
      BY <1>16, <2>1 DEF IndexFail, Again
    <3> QED BY <1>5, <3>1, Putting DEF Pending
  <2>2. CASE ~(indexer[i].tries < RetryLimit)
    <3>1. history'.lost
      BY <1>0, <1>16, <2>2 DEF IndexFail, GivenUp, HistoryType
    <3> QED BY <1>3, <3>1 DEF Clear
  <2> QED BY <2>1, <2>2
<1> QED BY <1>9, <1>10, <1>11, <1>12, <1>13, <1>14, <1>15, <1>16 DEF IndexStep

LEMMA FedOther ==
  ASSUME Typed, Owned, Fed, Push \/ Trigger \/ QueryOpens \/ Crash
  PROVE  Fed'
<1>g. Clear' => Clear
  BY HistoryGrows DEF Next, Clear
<1>s. ASSUME NEW n, Send(n) PROVE Fed'
  BY <1>s, Putting DEF Send, Fed, Calm
<1>n. ASSUME UNCHANGED <<tree, index, project, syncQ, indexQ, sync, indexer>> PROVE Fed'
  <2>1. Calm' => Calm
    BY <1>n DEF Calm
  <2>2. Synced => Synced'
    BY <1>n DEF Synced
  <2>3. Good \/ Pending => Good' \/ Pending'
    BY <1>n DEF Good, Pending, Carries
  <2> QED BY <1>g, <1>n, <2>1, <2>2, <2>3 DEF Fed
<1>1. CASE Push
  <2>1. CASE Send(head')
    <3>1. PICK n : n = head'
      OBVIOUS
    <3>2. Send(n)
      BY <2>1, <3>1 DEF Send
    <3> QED BY <1>s, <3>2
  <2>2. CASE UNCHANGED <<sent, syncQ>>
    BY <1>1, <1>n, <2>2 DEF Push
  <2> QED BY <1>1, <2>1, <2>2 DEF Push
<1>2. CASE Trigger
  BY <1>2, <1>s DEF Trigger
<1>3. CASE QueryOpens
  <2>1. UNCHANGED <<tree, project, syncQ, indexQ, sync, indexer>> /\ ~index.exists
    BY <1>3 DEF QueryOpens, env
  <2>2. SUFFICES ASSUME Clear', Calm', project'.commit # 0
                 PROVE  Synced' /\ Pending'
    BY DEF Fed
  <2>3. Synced /\ (Good \/ Pending)
    BY <1>g, <2>1, <2>2 DEF Fed, Calm
  <2>4. index.has # tree
    BY <2>1, <2>2, <2>3 DEF Synced, Owned, Whole, Nothing
  <2>5. Pending
    BY <2>3, <2>4 DEF Good
  <2>6. \A i \in IndexSlots : Carries(i) => Carries(i)'
    BY <2>1, <2>4 DEF Carries
  <2> QED BY <2>1, <2>3, <2>5, <2>6 DEF Pending, Synced
<1>4. CASE Crash
  <2>1. UNCHANGED <<tree, index, project>> /\ history \in HistoryType
    <3>1. UNCHANGED <<tree, index, project>>
      BY <1>4, Zenon DEF Crash
    <3>2. history \in HistoryType
      BY DEF Typed
    <3> QED BY <3>1, <3>2
  <2>2. SUFFICES ASSUME Clear', Calm', project'.commit # 0
                 PROVE  Synced' /\ Pending'
    BY DEF Fed
  <2>3. Redelivered = Busy(sync) /\ Reindexed = Busy(indexer)
    <3>1. ~history'.lost
      BY <2>2 DEF Clear
    <3>2. history' = IF Redelivered = Busy(sync) /\ Reindexed = Busy(indexer)
                     THEN history ELSE [history EXCEPT !.lost = TRUE]
      BY <1>4, Zenon DEF Crash, Redelivered, Reindexed
    <3>3. ~(Redelivered = Busy(sync) /\ Reindexed = Busy(indexer)) => history' = [history EXCEPT !.lost = TRUE]
      BY <3>2
    <3>4. [history EXCEPT !.lost = TRUE].lost
      BY <2>1 DEF HistoryType
    <3> QED BY <3>1, <3>3, <3>4
  <2>4. Busy(sync) = {} /\ BagToSet(syncQ) = {}
    <3>1. BagToSet(syncQ') = {}
      BY <2>2 DEF Calm
    <3> QED BY <1>4, <2>3, <3>1, CrashSends
  <2>5. Busy(indexer) # {}
    BY <1>4, <2>4, Zenon DEF Crash
  <2>6. BagToSet(indexQ') # {}
    BY <1>4, <2>3, <2>5, CrashSends
  <2>7. Calm
    BY <2>4 DEF Calm, Busy, Typed
  <2> QED BY <1>g, <2>1, <2>2, <2>6, <2>7 DEF Fed, Pending, Synced
<1> QED BY <1>1, <1>2, <1>3, <1>4

-----------------------------------------------------------------------------
(* The theorems.                                                             *)

IInv == Typed /\ Owned /\ Alone /\ Fed

LEMMA InitIInv == Init => IInv
<1>. SUFFICES ASSUME Init PROVE IInv
  OBVIOUS
<1>1. Typed
  <2>1. project \in ProjectType /\ history \in HistoryType
    BY Numbers DEF Init, ProjectType, HistoryType
  <2>2. Targeted(sync)
    BY DEF Init, Targeted, IdleSync
  <2>3. BagToSet(syncQ) = {} /\ BagToSet(indexQ) = {}
    BY NoJobs DEF Init
  <2>4. head \in Commits /\ mirror \in 0..head /\ sent \in 0..MaxJobs /\ faults \in 0..MaxFaults
    BY Numbers DEF Init, Commits
  <2>5. sync \in [SyncSlots -> SyncType] /\ indexer \in [IndexSlots -> IndexerType]
    BY IdleTypes DEF Init
  <2>6. known \in BOOLEAN /\ tree \in Contents /\ index \in IndexType
    BY Numbers, IdleTypes DEF Init
  <2> QED BY <2>1, <2>2, <2>3, <2>4, <2>5, <2>6 DEF Typed
<1>2. Owned
  BY DEF Init, Owned, Matches, NoIndex, IdleIndexer, IdleSync
<1>3. Alone
  BY DEF Init, Alone, IdleSync
<1>4. Fed
  BY DEF Init, Fed
<1> QED BY <1>1, <1>2, <1>3, <1>4 DEF IInv

LEMMA StepIInv == IInv /\ [Next]_vars => IInv'
<1>1. ASSUME IInv, Push \/ Trigger \/ QueryOpens \/ Crash PROVE IInv'
  BY <1>1, OtherTypes, OwnedOther, AloneOther, FedOther DEF IInv
<1>2. ASSUME IInv, NEW h \in SyncSlots, SyncStep(h) PROVE IInv'
  BY <1>2, SyncStepTypes, OwnedSync, AloneSync, FedSync DEF IInv
<1>3. ASSUME IInv, NEW i \in IndexSlots, IndexStep(i) PROVE IInv'
  BY <1>3, IndexStepTypes, OwnedIndex, AloneIndex, FedIndex DEF IInv
<1>4. ASSUME IInv, UNCHANGED vars PROVE IInv'
  <2>1. Typed'
    BY <1>4 DEF IInv, Typed, vars, Targeted
  <2>2. Owned'
    BY <1>4 DEF IInv, Owned, Matches, vars
  <2>3. Alone'
    BY <1>4 DEF IInv, Alone, vars
  <2>4. Fed'
    <3>1. UNCHANGED <<history, sync, syncQ, tree, project, index, indexQ, indexer>>
      BY <1>4 DEF vars
    <3>2. (Clear' => Clear) /\ (Calm' => Calm) /\ (Synced => Synced')
      BY <3>1 DEF Clear, Calm, Synced
    <3>3. Good \/ Pending => Good' \/ Pending'
      BY <3>1 DEF Good, Pending, Carries
    <3> QED BY <1>4, <3>1, <3>2, <3>3 DEF IInv, Fed
  <2> QED BY <2>1, <2>2, <2>3, <2>4 DEF IInv
<1> QED BY <1>1, <1>2, <1>3, <1>4 DEF Next

LEMMA AlwaysIInv == Spec => []IInv
BY InitIInv, StepIInv, PTL DEF Spec

\* Every row, queue and handler keeps its type: a sync that has resolved its
\* target has one, and no job carries more deliveries than the limit.
THEOREM TypeCorrect == Spec => []TypeOK
<1>1. IInv => TypeOK
  BY TypedIsTypeOK DEF IInv
<1> QED BY <1>1, AlwaysIInv, PTL

\* The index beside the tree never holds files of another commit, nor more than
\* the tree does, however many syncs and index runs overlap, fail or crash.
THEOREM MatchesCorrect == Spec => []IndexMatchesTree
<1>1. IInv => IndexMatchesTree
  BY DEF IInv, Owned, Matches, IndexMatchesTree
<1> QED BY <1>1, AlwaysIInv, PTL

\* At rest, tree, index, label and row agree, unless two syncs overlapped, a job
\* was given up or the engine swallowed an error.
THEOREM SettledCorrect == Spec => []SettledIsConsistent
<1>1. ASSUME IInv, Quiet, project.commit # 0,
             history = [overlap |-> FALSE, lost |-> FALSE, swallowed |-> FALSE]
      PROVE  /\ tree = Whole(project.commit)
             /\ index.has = tree /\ index.label = project.commit
             /\ project.indexed /\ project.status = "active"
  <2>1. Clear
    BY <1>1 DEF Clear
  <2>2. \A h \in SyncSlots : sync[h].at = "idle"
    BY <1>1 DEF IInv, Typed, Quiet, Busy
  <2>3. \A i \in IndexSlots : indexer[i].at = "idle"
    BY <1>1 DEF IInv, Typed, Quiet, Busy
  <2>4. BagToSet(syncQ) = {} /\ BagToSet(indexQ) = {}
    BY <1>1, NoJobs DEF Quiet
  <2>5. ~Pending
    BY <2>3, <2>4 DEF Pending, Carries
  <2>6. Synced /\ Good
    BY <1>1, <2>1, <2>2, <2>4, <2>5 DEF IInv, Fed, Calm
  <2> QED BY <2>6 DEF Synced, Good
<1>2. IInv => SettledIsConsistent
  BY <1>1 DEF SettledIsConsistent
<1> QED BY <1>2, AlwaysIInv, PTL

=============================================================================
