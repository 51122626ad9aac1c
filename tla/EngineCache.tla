----------------------------- MODULE EngineCache -----------------------------
(***************************************************************************)
(* The cache of open engines in front of the queries of one project: the   *)
(* class QueryHandler of apps/worker/src/query/handler.ts and, the same    *)
(* code again, getEngine and invalidateEngine of apps/mcp-server/src/      *)
(* index.ts.  An entry is valid while it carries the project's             *)
(* lastIndexedAt.                                                          *)
(*                                                                         *)
(* The index comes from the jobs of SyncPipeline, here one at a time: the  *)
(* sync removes the work directory, the run fills the index, records       *)
(* lastIndexedAt, uploads the file and invalidates.  A deployment has S3   *)
(* or not, and its cache reads the worker's directory or, with ownDisk, a  *)
(* directory of its own, where the index comes from S3 only                *)
(* (packages/shared/src/index-storage.ts).                                 *)
(*                                                                         *)
(* A request runs between two awaits at a time: the query of the project's *)
(* row, the object of S3, CodeGraphEngine.open, and the tool's call.       *)
(***************************************************************************)
EXTENDS Naturals, FiniteSets, Sequences

CONSTANTS
  Requests,  \* the queries in flight at a time
  MaxRuns,   \* bound: index runs
  MaxOpens   \* bound: engines opened

ASSUME CacheAssumption == MaxRuns \in Nat /\ MaxOpens \in Nat

VARIABLES
  ownDisk,    \* the deployment: the cache's host has its own disk
  hasS3,      \* the deployment: S3 is configured
  job,        \* where the sync and index jobs are
  run,        \* the last index run begun; its number stands for its content
  indexedAt,  \* the project's lastIndexedAt: the last run recorded, or 0
  file,       \* the index in the worker's directory, an inode
  content,    \* content[f]: the run whose symbols inode f holds
  s3,         \* the run of the object in S3, or 0
  local,      \* the index on the disk of the cache's own, an inode
  engines,    \* every engine opened here: its inode, and whether it is open
  cache,      \* the entry of the project: an engine and its indexedAt
  request,    \* the request in each slot
  overlapped, \* two requests were opening an engine at once
  makeshift,  \* the inodes last written by a query, not by a run
  clobbered   \* a query has written over the index in the worker's directory

deployment == <<ownDisk, hasS3>>

vars == <<deployment, job, run, indexedAt, file, content, s3, local, engines, cache,
          request, overlapped, makeshift, clobbered>>

-----------------------------------------------------------------------------

None == 0

NoEntry == [engine |-> None, indexedAt |-> 0]

Idle == [at |-> "idle", seen |-> 0, engine |-> None, object |-> 0]

Opening == {r \in Requests : request[r].at \in {"open", "fetched"}}

\* The index at the path the cache opens.
Here == IF ownDisk THEN local ELSE file

files == <<file, content, local, makeshift, clobbered>>

jobOnly == <<deployment, s3, local, engines, cache, request, overlapped, clobbered>>

requestOnly == <<deployment, job, run, indexedAt, s3>>

-----------------------------------------------------------------------------
(* The jobs: one sync and one index run at a time.                         *)

\* rmSync of the work directory, by a new sync or by the retry of one whose
\* checkout found the directory in use.
JobWipe ==
  /\ \/ job \in {"idle", "broken"} /\ run < MaxRuns /\ run' = run + 1
     \/ job = "wiped" /\ file # None /\ UNCHANGED run
  /\ job' = "wiped"
  /\ file' = None
  /\ UNCHANGED <<indexedAt, content, makeshift, jobOnly>>

JobCheckout ==
  /\ job = "wiped" /\ file = None
  /\ job' = "checked out"
  /\ UNCHANGED <<run, indexedAt, file, content, makeshift, jobOnly>>

\* An index job without a sync: pg-boss delivers one again that failed, or whose
\* end it never heard of.
JobAgain ==
  /\ job \in {"idle", "broken"} /\ run < MaxRuns
  /\ run' = run + 1
  /\ job' = "checked out"
  /\ UNCHANGED <<indexedAt, file, content, makeshift, jobOnly>>

\* The run opens the index, or creates it, and fills it.
JobIndex ==
  /\ job = "checked out"
  /\ job' = "indexed"
  /\ IF file = None
     THEN file' = Len(content) + 1 /\ content' = Append(content, run)
     ELSE content' = [content EXCEPT ![file] = run] /\ UNCHANGED file
  /\ makeshift' = makeshift \ {file}
  /\ UNCHANGED <<run, indexedAt, jobOnly>>

\* lastIndexedAt.
JobRecord ==
  /\ job = "indexed"
  /\ job' = "recorded"
  /\ indexedAt' = run
  /\ UNCHANGED <<run, file, content, makeshift, jobOnly>>

JobUpload ==
  /\ job = "recorded"
  /\ job' = "uploaded"
  /\ s3' = IF hasS3 THEN content[file] ELSE s3
  /\ UNCHANGED <<deployment, run, indexedAt, files, engines, cache, request, overlapped>>

\* Any of these steps may throw: nobody is told.
JobBreaks ==
  /\ job \in {"wiped", "checked out", "indexed"}
  /\ job' = "broken"
  /\ UNCHANGED <<run, indexedAt, file, content, makeshift, jobOnly>>

\* The upload may throw: no cache is invalidated.
UploadThrows ==
  /\ job = "recorded" /\ hasS3
  /\ job' = "idle"
  /\ UNCHANGED <<run, indexedAt, file, content, makeshift, jobOnly>>

\* closes the engine and leaves it in the map
BadInvalidate ==
  /\ engines' = [e \in DOMAIN engines |->
       [engines[e] EXCEPT !.open = @ /\ e # cache.engine]]
  /\ UNCHANGED cache

\* Close the cached engine, whoever uses it, and forget it.
Invalidate ==
  /\ engines' = [e \in DOMAIN engines |->
       [engines[e] EXCEPT !.open = @ /\ e # cache.engine]]
  /\ cache' = NoEntry

\* The call that invalidates the cache after the run; the one to another
\* process may be lost.
JobDone ==
  /\ job = "uploaded"
  /\ job' = "idle"
  /\ Invalidate \/ UNCHANGED <<engines, cache>>
  /\ UNCHANGED <<deployment, run, indexedAt, s3, files, request, overlapped>>

-----------------------------------------------------------------------------
(* A request.                                                              *)

\* The project's row as the query finds it.
Ask(r) ==
  /\ request[r].at = "idle"
  /\ request' = [request EXCEPT ![r] = [Idle EXCEPT !.at = "asked", !.seen = indexedAt]]
  /\ UNCHANGED <<requestOnly, files, engines, cache, overlapped>>

\* takes whatever engine is cached
BadIsHit(r) == cache.engine # None

\* cached && cached.indexedAt === projectIndexedAt
IsHit(r) == cache.engine # None /\ cache.indexedAt = request[r].seen

\* The tool of r is called on the engine.
Serving(r, engine) ==
  [at |-> "serve", seen |-> request[r].seen, engine |-> engine, object |-> 0]

Hit(r) ==
  /\ request[r].at = "asked" /\ IsHit(r)
  /\ request' = [request EXCEPT ![r] = Serving(r, cache.engine)]
  /\ UNCHANGED <<requestOnly, files, engines, cache, overlapped>>

\* leaves the stale engine to the garbage collector
BadMiss(r) ==
  /\ request[r].at = "asked" /\ ~IsHit(r)
  /\ cache' = NoEntry /\ UNCHANGED engines
  /\ IF request[r].seen = 0
     THEN request' = [request EXCEPT ![r] = Idle] /\ UNCHANGED overlapped
     ELSE /\ request' = [request EXCEPT ![r].at = "open"]
          /\ overlapped' = (overlapped \/ Opening # {})
  /\ UNCHANGED <<requestOnly, files>>

\* A stale entry goes at once. A project never indexed has no engine.
Miss(r) ==
  /\ request[r].at = "asked" /\ ~IsHit(r)
  /\ Invalidate
  /\ IF request[r].seen = 0
     THEN request' = [request EXCEPT ![r] = Idle] /\ UNCHANGED overlapped
     ELSE /\ request' = [request EXCEPT ![r].at = "open"]
          /\ overlapped' = (overlapped \/ Opening # {})
  /\ UNCHANGED <<requestOnly, files>>

\* ensureLocalIndexDb: a file that is there is never fetched again.
Fetch(r) ==
  /\ request[r].at = "open" /\ Here = None /\ hasS3 /\ s3 # 0
  /\ request' = [request EXCEPT ![r] = [@ EXCEPT !.at = "fetched", !.object = s3]]
  /\ UNCHANGED <<requestOnly, files, engines, cache, overlapped>>

\* A new inode at the path.
Create(symbols) ==
  /\ content' = Append(content, symbols)
  /\ makeshift' = makeshift \cup {Len(content')}
  /\ IF ownDisk THEN local' = Len(content') /\ UNCHANGED file
     ELSE file' = Len(content') /\ UNCHANGED local
  /\ UNCHANGED clobbered

\* writeFileSync of the object: over the file another has made since existsSync.
Download(object) ==
  IF Here = None THEN Create(object)
  ELSE /\ content' = [content EXCEPT ![Here] = object]
       /\ makeshift' = makeshift \cup {Here}
       /\ clobbered' = (clobbered \/ ~ownDisk)
       /\ UNCHANGED <<file, local>>

\* Open the engine and put it into the cache, over an entry that another
\* request has put there meanwhile. Without an index, also after a download
\* that failed, CodeGraphEngine.open creates an empty one.
Open(r) ==
  /\ Len(engines) < MaxOpens /\ UNCHANGED <<requestOnly, overlapped>>
  /\ \/ request[r].at = "open" /\ Here # None /\ UNCHANGED files
     \/ request[r].at = "open" /\ Here = None /\ Create(0)
     \/ request[r].at = "fetched" /\ Download(request[r].object)
  /\ engines' = Append(engines, [file |-> Here', open |-> TRUE])
  /\ cache' = [engine |-> Len(engines'), indexedAt |-> request[r].seen]
  /\ request' = [request EXCEPT ![r] = Serving(r, Len(engines'))]

OpenFails(r) ==
  /\ r \in Opening
  /\ request' = [request EXCEPT ![r] = Idle]
  /\ UNCHANGED <<requestOnly, files, engines, cache, overlapped>>

\* The tool's call has its answer.
Serve(r) ==
  /\ request[r].at = "serve"
  /\ request' = [request EXCEPT ![r] = Idle]
  /\ UNCHANGED <<requestOnly, files, engines, cache, overlapped>>

\* The process of the cache ends and starts again; its disk stays.
Restart ==
  /\ engines # <<>>
  /\ engines' = [e \in DOMAIN engines |-> [engines[e] EXCEPT !.open = FALSE]]
  /\ cache' = NoEntry
  /\ request' = [r \in Requests |-> Idle]
  /\ UNCHANGED <<requestOnly, files, overlapped>>

-----------------------------------------------------------------------------

Init ==
  /\ ownDisk \in BOOLEAN /\ hasS3 \in BOOLEAN
  /\ job = "idle" /\ run = 0 /\ indexedAt = 0
  /\ file = None /\ content = <<>> /\ s3 = 0 /\ local = None
  /\ engines = <<>> /\ cache = NoEntry
  /\ request = [r \in Requests |-> Idle]
  /\ overlapped = FALSE /\ makeshift = {} /\ clobbered = FALSE

Next ==
  \/ JobWipe \/ JobAgain \/ JobCheckout \/ JobIndex \/ JobRecord \/ JobUpload \/ JobBreaks
  \/ UploadThrows \/ JobDone \/ Restart
  \/ \E r \in Requests :
       Ask(r) \/ Hit(r) \/ Miss(r) \/ Fetch(r) \/ Open(r) \/ OpenFails(r) \/ Serve(r)

Spec == Init /\ [][Next]_vars

-----------------------------------------------------------------------------
(* Properties.                                                             *)

Jobs == {"idle", "wiped", "checked out", "indexed", "recorded", "uploaded", "broken"}

\* The type invariant.
TypeOK ==
  /\ ownDisk \in BOOLEAN /\ hasS3 \in BOOLEAN
  /\ job \in Jobs /\ run \in 0..MaxRuns /\ indexedAt \in 0..run /\ s3 \in 0..run
  /\ content \in Seq(0..run) /\ {file, local} \subseteq 0..Len(content)
  /\ engines \in Seq([file : 1..Len(content), open : BOOLEAN]) /\ Len(engines) <= MaxOpens
  /\ cache \in [engine : 0..Len(engines), indexedAt : 0..run]
  /\ request \in [Requests -> [at : {"idle", "asked", "open", "fetched", "serve"}, seen : 0..run,
                               engine : 0..Len(engines), object : 0..run]]
  /\ overlapped \in BOOLEAN /\ makeshift \subseteq 1..Len(content) /\ clobbered \in BOOLEAN

\* An engine found in the cache has not been closed, whatever invalidations,
\* misses and opens of other requests come between the awaits of one: getEngine
\* returns a hit at once.
CachedIsOpen == cache.engine # None => engines[cache.engine].open

\* The file a request is answered from, and the run whose symbols it shows.
Answering(r) == engines[request[r].engine].file
Answer(r) == content[Answering(r)]

\* A request is answered from no older index than the lastIndexedAt it read
\* stands for, in whatever state the jobs are, unless the file is makeshift: one
\* that a query created empty, or from S3, since it found none at the path (a
\* sync has removed the directory, or the disk is the cache's own, where the
\* copy is never fetched again). In the worker's directory that excuse does not
\* reach a request that read the time of the last run begun: it is answered from
\* that very run, though invalidations are lost, slow opens of older requests
\* overwrite the entry and removals unlink what is open, unless a download that
\* began before the run made its index has been written over it. From a disk of
\* its own nobody is answered with a run that is not recorded yet.
FreshAnswer ==
  \A r \in Requests : request[r].at = "serve" =>
    /\ Answer(r) >= request[r].seen \/ Answering(r) \in makeshift
    /\ ~ownDisk /\ ~clobbered /\ request[r].seen = run => Answer(r) = run
    /\ ownDisk => Answer(r) <= indexedAt

\* One engine is open at a time, unless two requests were opening one at once:
\* then one of the two stays open with nobody to close it.
NoLeak ==
  ~overlapped => Cardinality({e \in DOMAIN engines : engines[e].open}) <= 1

=============================================================================
