---------------------------- MODULE SyncPipeline ----------------------------
(***************************************************************************)
(* The way of a commit into the index: handleSyncRepo (jobs/sync-repo.ts)  *)
(* and handleIndexProject (jobs/index-project.ts) of apps/worker, for one  *)
(* project; projects share nothing but the slots of the queues.            *)
(*                                                                         *)
(* Handlers share the project's row, its bare mirror and its work          *)
(* directory, which holds the checked-out tree and, in .codegraph, the     *)
(* index.  A sync removes the whole directory (rmSync) under whoever has   *)
(* the index open: an open index lives on, unlinked, and what is written   *)
(* to it is lost ("own").  Every await of a handler ends a step here.      *)
(*                                                                         *)
(* pg-boss is external: it delivers a job to one free slot, again when the *)
(* handler threw or its process died, RetryLimit times in all.             *)
(*                                                                         *)
(* git is external too.  It keeps a registration of every worktree in the   *)
(* mirror and refuses a path that has one until it is pruned, which no code *)
(* here asks for; with Prunes it lets the path be used again, as the code   *)
(* expects of it.                                                          *)
(*                                                                         *)
(* The rows of sync_jobs and index_jobs, which no handler reads, and the   *)
(* copy of the index in S3 are left out.                                   *)
(***************************************************************************)
EXTENDS Naturals, FiniteSets, Bags

CONSTANTS
  SyncSlots,   \* teamSize of the queue sync-repo
  IndexSlots,  \* teamSize of the queue index-project
  RetryLimit,  \* deliveries of a job after its first
  Prunes,      \* git forgets a worktree whose directory is gone
  MaxCommit,   \* bound: commits on the default branch
  MaxJobs,     \* bound: sync jobs the API sends
  MaxFaults    \* bound: failed calls, crashes and untimely queries

ASSUME PipelineAssumption ==
  /\ SyncSlots \cap IndexSlots = {}
  /\ Prunes \in BOOLEAN
  /\ RetryLimit \in Nat /\ MaxCommit \in Nat \ {0}
  /\ MaxJobs \in Nat /\ MaxFaults \in Nat

VARIABLES
  head,     \* the remote's commit of the default branch
  mirror,   \* the last commit of the bare mirror
  known,    \* the mirror has the work directory registered as a worktree
  tree,     \* the checked-out files of the work directory
  index,    \* .codegraph/codegraph.db of the work directory
  project,  \* the project's row: lastSyncedCommit, lastIndexedAt set?, status
  syncQ,    \* the bag of waiting sync jobs
  indexQ,   \* the bag of waiting index jobs
  sync,     \* the handler in each sync slot
  indexer,  \* the handler in each index slot
  sent,     \* sync jobs sent so far
  faults,   \* faults so far
  history   \* what excuses an inconsistency: see below

vars == <<head, mirror, known, tree, index, project, syncQ, indexQ, sync, indexer,
          sent, faults, history>>

env == <<head, sent>>

-----------------------------------------------------------------------------

Commits == 1..MaxCommit

\* Commit 0 is none. A tree or an index holds a part of a commit, or all of it.
Nothing == [commit |-> 0, whole |-> FALSE]

Part(c) == [commit |-> c, whole |-> FALSE]

Whole(c) == [commit |-> c, whole |-> TRUE]

Contents == {Nothing} \cup {Part(c) : c \in Commits} \cup {Whole(c) : c \in Commits}

NoIndex == [exists |-> FALSE, has |-> Nothing, label |-> 0]

EmptyIndex == [NoIndex EXCEPT !.exists = TRUE]

IdleSync == [at |-> "idle", sha |-> 0, tries |-> 0, base |-> 0, target |-> 0,
             cut |-> FALSE]

IdleIndexer == [at |-> "idle", changed |-> FALSE, tries |-> 0, base |-> 0,
                sync |-> FALSE, own |-> FALSE, view |-> Nothing]

Busy(handlers) == {h \in DOMAIN handlers : handlers[h].at # "idle"}

Put(bag, job) == bag (+) SetToBag({job})

Take(bag, job) == bag (-) SetToBag({job})

Changed(h) == sync[h].base # 0 /\ sync[h].base # sync[h].target

\* One more fault, within the bound.
Fault == faults < MaxFaults /\ faults' = faults + 1

-----------------------------------------------------------------------------
(* The API and the remote.                                                 *)

Send(sha) ==
  /\ sent < MaxJobs
  /\ sent' = sent + 1
  /\ syncQ' = Put(syncQ, [sha |-> sha, tries |-> 0])

\* A push, whose webhook may be lost.
Push ==
  /\ head < MaxCommit
  /\ head' = head + 1
  /\ Send(head') \/ UNCHANGED <<sent, syncQ>>
  /\ UNCHANGED <<mirror, known, tree, index, project, indexQ, sync, indexer, faults, history>>

\* A manual sync names no commit.
Trigger ==
  /\ Send(0)
  /\ UNCHANGED <<head, mirror, known, tree, index, project, indexQ, sync, indexer, faults, history>>

\* A query after a removal of the directory: opening the engine creates it,
\* with an empty index.
QueryOpens ==
  /\ project.indexed /\ ~index.exists
  /\ Fault
  /\ index' = EmptyIndex
  /\ UNCHANGED <<env, mirror, known, tree, project, syncQ, indexQ, sync, indexer, history>>

-----------------------------------------------------------------------------
(* The sync handler in slot h.                                             *)

syncOnly == <<env, mirror, known, tree, index, project, indexQ, indexer, faults>>

SyncTo(h, at) == sync' = [sync EXCEPT ![h].at = at]

\* Take a job, insert the row, read the project.
SyncBegin(h) ==
  /\ sync[h].at = "idle"
  /\ \E job \in BagToSet(syncQ) :
       /\ syncQ' = Take(syncQ, job)
       /\ sync' = [sync EXCEPT ![h] = [IdleSync EXCEPT
            !.at = "fetch", !.sha = job.sha, !.tries = job.tries, !.base = project.commit]]
  /\ history' = IF Busy(sync) # {} THEN [history EXCEPT !.overlap = TRUE] ELSE history
  /\ UNCHANGED syncOnly

\* Clone the mirror, or fetch into it.
SyncFetch(h) ==
  /\ sync[h].at = "fetch"
  /\ mirror' = head
  /\ SyncTo(h, "resolve")
  /\ UNCHANGED <<env, known, tree, index, project, syncQ, indexQ, indexer, faults, history>>

\* The target: the job's commit, or the remote's head as it is now.
SyncResolve(h) ==
  /\ sync[h].at = "resolve"
  /\ sync' = [sync EXCEPT ![h] = [sync[h] EXCEPT
       !.at = "wipe", !.target = IF sync[h].sha = 0 THEN head ELSE sync[h].sha]]
  /\ UNCHANGED <<syncOnly, syncQ, history>>

\* empties the tree and spares the index
BadRemoved(h) ==
  /\ tree' = Nothing /\ UNCHANGED <<index, indexer>>
  /\ sync' = [g \in SyncSlots |->
       IF g = h THEN [sync[h] EXCEPT !.at = "checkout"]
       ELSE IF sync[g].at = "writing" THEN [sync[g] EXCEPT !.cut = TRUE] ELSE sync[g]]

\* The directory goes, under the open indexes and under a checkout that is
\* writing.
Removed(h) ==
  /\ tree' = Nothing /\ index' = NoIndex
  /\ indexer' = [i \in IndexSlots |-> [indexer[i] EXCEPT !.own = FALSE]]
  /\ sync' = [g \in SyncSlots |->
       IF g = h THEN [sync[h] EXCEPT !.at = "checkout"]
       ELSE IF sync[g].at = "writing" THEN [sync[g] EXCEPT !.cut = TRUE] ELSE sync[g]]

\* The diff needs both commits in the mirror; the removal follows it at once.
SyncWipe(h) ==
  /\ sync[h].at = "wipe"
  /\ Changed(h) => sync[h].target <= mirror
  /\ Removed(h)
  /\ UNCHANGED <<env, mirror, known, project, syncQ, indexQ, faults, history>>

\* git worktree add: the commit must be there, the directory empty, the path not
\* registered.
CanCheckout(h) == sync[h].target <= mirror /\ tree = Nothing /\ ~index.exists /\ ~known

SyncCheckout(h) ==
  /\ sync[h].at = "checkout" /\ CanCheckout(h)
  /\ tree' = Part(sync[h].target)
  /\ known' = ~Prunes
  /\ SyncTo(h, "writing")
  /\ UNCHANGED <<env, mirror, index, project, syncQ, indexQ, indexer, faults, history>>

\* The checkout is done. One whose files were removed meanwhile may not notice.
\* git has changed into the directory it fills, so what it goes on to write is
\* lost with it and never lands in a directory that another sync has made at the
\* path since; what it wrote as the removal ran may be left.
SyncWritten(h) ==
  /\ sync[h].at = "writing"
  /\ tree' = IF ~sync[h].cut THEN Whole(sync[h].target)
             ELSE IF tree = Nothing THEN Part(sync[h].target) ELSE tree
  /\ SyncTo(h, "publish")
  /\ UNCHANGED <<env, mirror, known, index, project, syncQ, indexQ, indexer, faults, history>>

\* The project's row: lastSyncedCommit and status.
SyncPublish(h) ==
  /\ sync[h].at = "publish"
  /\ project' = [project EXCEPT !.commit = sync[h].target, !.status = "active"]
  /\ SyncTo(h, "send")
  /\ UNCHANGED <<env, mirror, known, tree, index, syncQ, indexQ, indexer, faults, history>>

\* sends no index job when nothing has changed
BadSyncSend(h) ==
  /\ sync[h].at = "send"
  /\ indexQ' = IF Changed(h) THEN Put(indexQ, [changed |-> TRUE, tries |-> 0]) ELSE indexQ
  /\ sync' = [sync EXCEPT ![h] = IdleSync]
  /\ UNCHANGED <<env, mirror, known, tree, index, project, syncQ, indexer, faults, history>>

SyncSend(h) ==
  /\ sync[h].at = "send"
  /\ indexQ' = Put(indexQ, [changed |-> Changed(h), tries |-> 0])
  /\ sync' = [sync EXCEPT ![h] = IdleSync]
  /\ UNCHANGED <<env, mirror, known, tree, index, project, syncQ, indexer, faults, history>>

\* pg-boss delivers a failed job once more, or gives it up.
Again(bag, job) == IF job.tries < RetryLimit THEN Put(bag, [job EXCEPT !.tries = @ + 1]) ELSE bag

JobOf(h) == [sha |-> sync[h].sha, tries |-> sync[h].tries]

GivenUp(tries) ==
  history' = IF tries < RetryLimit THEN history ELSE [history EXCEPT !.lost = TRUE]

\* waits for ever when the checkout is refused
BadSyncStuck(h) ==
  \/ sync[h].at = "wipe" /\ Changed(h) /\ sync[h].target > mirror
  \/ sync[h].at = "writing" /\ sync[h].cut

\* The steps that fail, or may fail, as things are.
SyncStuck(h) ==
  \/ sync[h].at = "wipe" /\ Changed(h) /\ sync[h].target > mirror
  \/ sync[h].at = "checkout" /\ ~CanCheckout(h)
  \/ sync[h].at = "writing" /\ sync[h].cut

\* Whatever throws ends in the catch: status error, and the job is rethrown. git
\* may take back the registration of a checkout it gives up.
SyncFail(h) ==
  /\ sync[h].at # "idle"
  /\ \/ SyncStuck(h) /\ UNCHANGED faults
     \/ Fault
  /\ project' = [project EXCEPT !.status = "error"]
  /\ syncQ' = Again(syncQ, JobOf(h))
  /\ GivenUp(sync[h].tries)
  /\ sync' = [sync EXCEPT ![h] = IdleSync]
  /\ known' \in (IF sync[h].at = "writing" THEN {known, FALSE} ELSE {known})
  /\ UNCHANGED <<env, mirror, tree, index, indexQ, indexer>>

-----------------------------------------------------------------------------
(* The index handler in slot i.                                            *)

IndexerTo(i, at) == indexer' = [indexer EXCEPT ![i].at = at]

\* Take a job, insert the row, read the project: which kind of run it will be.
IndexBegin(i) ==
  /\ indexer[i].at = "idle"
  /\ \E job \in BagToSet(indexQ) :
       /\ indexQ' = Take(indexQ, job)
       /\ indexer' = [indexer EXCEPT ![i] = [IdleIndexer EXCEPT
            !.at = "open", !.changed = job.changed, !.tries = job.tries,
            !.base = project.commit, !.sync = job.changed /\ project.indexed]]
  /\ UNCHANGED <<env, mirror, known, tree, index, project, syncQ, sync, faults, history>>

\* CodeGraphEngine.open: creates the directory and an index if there is none.
IndexOpen(i) ==
  /\ indexer[i].at = "open"
  /\ index' = IF index.exists THEN index ELSE EmptyIndex
  /\ indexer' = [indexer EXCEPT ![i] = [indexer[i] EXCEPT !.at = "scan", !.own = TRUE]]
  /\ UNCHANGED <<env, mirror, known, tree, project, syncQ, indexQ, sync, faults, history>>

\* The run finds and reads the files that are there.
IndexScan(i) ==
  /\ indexer[i].at = "scan"
  /\ indexer' = [indexer EXCEPT ![i] = [indexer[i] EXCEPT !.at = "store", !.view = tree]]
  /\ UNCHANGED <<env, mirror, known, tree, index, project, syncQ, indexQ, sync, faults, history>>

\* Both kinds of run store the files they saw; none that another run stored
\* after the scan is touched.
Stored(view) == IF view = Nothing \/ index.has.whole THEN index.has ELSE view

IndexStore(i) ==
  /\ indexer[i].at = "store"
  /\ index' = IF indexer[i].own THEN [index EXCEPT !.has = Stored(indexer[i].view)] ELSE index
  /\ IndexerTo(i, "record")
  /\ UNCHANGED <<env, mirror, known, tree, project, syncQ, indexQ, sync, faults, history>>

\* The run throws inside the engine, which reports it to nobody.
IndexSwallow(i) ==
  /\ indexer[i].at \in {"scan", "store"} /\ Fault
  /\ index' = IF indexer[i].own /\ ~index.has.whole /\ indexer[i].view # Nothing
              THEN [index EXCEPT !.has = Part(indexer[i].view.commit)] ELSE index
  /\ IndexerTo(i, "record")
  /\ history' = [history EXCEPT !.swallowed = TRUE]
  /\ UNCHANGED <<env, mirror, known, tree, project, syncQ, indexQ, sync>>

\* lastIndexedAt.
IndexRecord(i) ==
  /\ indexer[i].at = "record"
  /\ project' = [project EXCEPT !.indexed = TRUE]
  /\ IndexerTo(i, "label")
  /\ UNCHANGED <<env, mirror, known, tree, index, syncQ, indexQ, sync, faults, history>>

\* Read the project again and label the index with its lastSyncedCommit (no
\* await between the two), then close.
Label(i) == IF project.commit # 0 THEN project.commit ELSE indexer[i].base

IndexLabel(i) ==
  /\ indexer[i].at = "label"
  /\ index' = IF indexer[i].own /\ Label(i) # 0 THEN [index EXCEPT !.label = Label(i)] ELSE index
  /\ indexer' = [indexer EXCEPT ![i] = IdleIndexer]
  /\ UNCHANGED <<env, mirror, known, tree, project, syncQ, indexQ, sync, faults, history>>

\* The catch leaves the project's row alone and rethrows.
IndexFail(i) ==
  /\ indexer[i].at # "idle" /\ Fault
  /\ indexQ' = Again(indexQ, [changed |-> indexer[i].changed, tries |-> indexer[i].tries])
  /\ GivenUp(indexer[i].tries)
  /\ indexer' = [indexer EXCEPT ![i] = IdleIndexer]
  /\ UNCHANGED <<env, mirror, known, tree, index, project, syncQ, sync>>

-----------------------------------------------------------------------------

\* The worker process dies; pg-boss delivers the jobs of its handlers again.
Crash ==
  LET Living(slots, h) == {s \in slots : h[s].at # "idle" /\ h[s].tries < RetryLimit}
      Sync(h) == [sha |-> sync[h].sha, tries |-> sync[h].tries + 1]
      Index(i) == [changed |-> indexer[i].changed, tries |-> indexer[i].tries + 1]
  IN
  /\ Busy(sync) \cup Busy(indexer) # {} /\ Fault
  /\ syncQ' = syncQ (+) BagOfAll(Sync, SetToBag(Living(SyncSlots, sync)))
  /\ indexQ' = indexQ (+) BagOfAll(Index, SetToBag(Living(IndexSlots, indexer)))
  /\ history' = IF /\ Living(SyncSlots, sync) = Busy(sync)
                   /\ Living(IndexSlots, indexer) = Busy(indexer)
                THEN history ELSE [history EXCEPT !.lost = TRUE]
  /\ sync' = [h \in SyncSlots |-> IdleSync]
  /\ indexer' = [i \in IndexSlots |-> IdleIndexer]
  /\ UNCHANGED <<env, mirror, known, tree, index, project>>

Init ==
  /\ head = 1 /\ mirror = 0 /\ known = FALSE /\ tree = Nothing /\ index = NoIndex
  /\ project = [commit |-> 0, indexed |-> FALSE, status |-> "initializing"]
  /\ syncQ = EmptyBag /\ indexQ = EmptyBag
  /\ sync = [h \in SyncSlots |-> IdleSync]
  /\ indexer = [i \in IndexSlots |-> IdleIndexer]
  /\ sent = 0 /\ faults = 0
  /\ history = [overlap |-> FALSE, lost |-> FALSE, swallowed |-> FALSE]

SyncStep(h) ==
  \/ SyncBegin(h) \/ SyncFetch(h) \/ SyncResolve(h) \/ SyncWipe(h) \/ SyncCheckout(h)
  \/ SyncWritten(h) \/ SyncPublish(h) \/ SyncSend(h) \/ SyncFail(h)

IndexStep(i) ==
  \/ IndexBegin(i) \/ IndexOpen(i) \/ IndexScan(i) \/ IndexStore(i) \/ IndexSwallow(i)
  \/ IndexRecord(i) \/ IndexLabel(i) \/ IndexFail(i)

Next ==
  \/ Push \/ Trigger \/ QueryOpens \/ Crash
  \/ \E h \in SyncSlots : SyncStep(h)
  \/ \E i \in IndexSlots : IndexStep(i)

Spec == Init /\ [][Next]_vars

(***************************************************************************)
(* Fairness: pg-boss polls for every free slot, and the calls a handler    *)
(* awaits return. Nobody need push, ask, or crash.                         *)
(***************************************************************************)
FairSpec ==
  /\ Spec
  /\ \A h \in SyncSlots : WF_vars(SyncStep(h))
  /\ \A i \in IndexSlots : WF_vars(IndexStep(i))

-----------------------------------------------------------------------------
(* Properties.                                                             *)

SyncJobs == [sha : 0..MaxCommit, tries : 0..RetryLimit]

IndexJobs == [changed : BOOLEAN, tries : 0..RetryLimit]

\* The type invariant; a sync that has resolved its target has one, and no job
\* carries more deliveries than the limit.
TypeOK ==
  /\ head \in Commits /\ mirror \in 0..head
  /\ known \in BOOLEAN /\ tree \in Contents
  /\ index \in [exists : BOOLEAN, has : Contents, label : 0..MaxCommit]
  /\ project \in [commit : 0..MaxCommit, indexed : BOOLEAN,
                 status : {"initializing", "active", "error"}]
  /\ BagToSet(syncQ) \subseteq SyncJobs /\ BagToSet(indexQ) \subseteq IndexJobs
  /\ sync \in [SyncSlots -> [
       at : {"idle", "fetch", "resolve", "wipe", "checkout", "writing", "publish", "send"},
       sha : 0..MaxCommit, tries : 0..RetryLimit, base : 0..MaxCommit, target : 0..MaxCommit,
       cut : BOOLEAN]]
  /\ \A h \in SyncSlots : sync[h].target = 0 => sync[h].at \in {"idle", "fetch", "resolve"}
  /\ indexer \in [IndexSlots -> [
       at : {"idle", "open", "scan", "store", "record", "label"}, changed : BOOLEAN,
       tries : 0..RetryLimit, base : 0..MaxCommit, sync : BOOLEAN, own : BOOLEAN,
       view : Contents]]
  /\ sent \in 0..MaxJobs /\ faults \in 0..MaxFaults
  /\ history \in [overlap : BOOLEAN, lost : BOOLEAN, swallowed : BOOLEAN]

\* The index beside the tree never holds files of another commit, nor more than
\* the tree does, whatever syncs and index runs overlap, fail or crash: a run
\* that began before a removal writes to an unlinked file.
IndexMatchesTree ==
  index.has # Nothing =>
    index.has.commit = tree.commit /\ (index.has.whole => tree.whole)

Quiet ==
  /\ Busy(sync) = {} /\ Busy(indexer) = {}
  /\ syncQ = EmptyBag /\ indexQ = EmptyBag

\* At rest, the work directory is at lastSyncedCommit and the index holds all
\* of it and says so, through failures, crashes and redeliveries at any step,
\* commits out of order and a head that moves: unless two syncs of the project
\* overlapped, a job was given up, or the engine swallowed an error.
SettledIsConsistent ==
  Quiet /\ project.commit # 0 /\ history = [overlap |-> FALSE, lost |-> FALSE, swallowed |-> FALSE]
    => /\ tree = Whole(project.commit)
       /\ index.has = tree /\ index.label = project.commit
       /\ project.indexed /\ project.status = "active"

\* The jobs run dry: redeliveries end, and syncs that overlap do not go on
\* removing each other's checkout for ever.
Settles == <>[]Quiet

\* "Remove existing worktree if exists": once it is removed, nothing is in the
\* way of the checkout of a commit the mirror has, when no other sync and no
\* query meddles.
ResyncChecksOut ==
  \A h \in SyncSlots :
    sync[h].at = "checkout" /\ sync[h].target <= mirror /\ ~history.overlap /\ faults = 0
      => CanCheckout(h)

=============================================================================
