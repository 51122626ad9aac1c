# Verification of codegraph-cloud

TLA+ models of codegraph-cloud, the TLC runs that check them on small
instances, and proofs that TLAPS checks for instances of any size.

codegraph-cloud keeps a code graph of git repositories. A push or a request
starts a *sync* (fetch the repository, check it out), the sync starts an
*index run* (parse all files, store nodes and edges in an SQLite file,
resolve references), and queries of agents read that file through cached
engines. `PROJECT.json` maps every definition of a module to the lines it was
translated from and lists the hazards each property is for.

## 1. Inventory

| component | source | state | operations | talks to |
|---|---|---|---|---|
| parse worker pool | `packages/core/extraction/parse-pool.ts`, `parse-worker.ts` | idle, queue, inflight, workers, pending, parseCounts, totalCrashes, destroyed; one thread per worker | requestParse, recycleAll, destroy; handlers of message, error, exit, timer | its caller by promises, worker threads by messages |
| full index run | `packages/core/extraction/index.ts`, `indexAll` | window cursor, in-flight set, completed buffer, counters, error list | the loop over the files, the continuation of every parse, retry passes | pool, store, caller's AbortSignal |
| index store, sync, indexFile(s) | `extraction/index.ts`, `packages/core/db/` | tables files, nodes, edges, unresolved_refs | storeExtractionResult, deleteFile, sync, getChangedFiles | index runs, queries |
| reference resolution | `packages/core/resolution/` | caches, the unresolved references | resolveAndPersistBatched, import and name matching, edge synthesis | store |
| graph queries | `packages/core/graph/` | none | callers, callees, impact radius, paths | store |
| search, context | `packages/core/search/`, `context/` | none | ranking, selection, formatting | graph, store |
| engine facade | `packages/core/index.ts` | the open database | open, indexAll, sync, queries, close | all of core |
| sync job | `apps/worker/src/jobs/sync-repo.ts`, `git/` | bare mirror, work directory, project row | handleSyncRepo | pg-boss, git, PostgreSQL |
| index job | `apps/worker/src/jobs/index-project.ts` | index in the work directory, project row | handleIndexProject | engine, S3, caches |
| query service | `apps/worker/src/query/handler.ts`, `apps/mcp-server/src/index.ts`, `packages/shared/src/index-storage.ts` | cached engines, local copies of the index | getEngine, invalidate, executeQuery | PostgreSQL, S3, engine |
| webhook receiver | `apps/api/src/routes/webhooks.ts` | webhook_events | verify, deduplicate, schedule | pg-boss |
| REST API, scheduler | `apps/api/src/` | projects, api_keys, polling schedules | create, update, delete, sync, keys | PostgreSQL, pg-boss |
| HTTP lifecycle | `packages/shared/src/http-server-lifecycle.ts` | the bound server | bind, release, retry | - |
| extractors, framework resolvers | `packages/core/extraction/languages/`, `resolution/frameworks/` | none | text or tree in, nodes and edges out | - |
| admin UI | `apps/admin` | none of the system's | calls the REST API | API |

What is hard, and what makes each component correct:

* **Pool.** Everything is asynchronous: deaths fire one or two events,
  timers race answers, late messages of dead workers arrive. Correct: each
  request is answered once and always; no worker is lost or used twice; a
  broken platform stops respawning; destroy is final.
* **Index run.** Parses finish in any order, commits throw in continuations
  nobody may be awaiting, the caller aborts. Correct: commits in file order,
  bounded buffer, tallies that account for every file, no write after the end.
* **Jobs.** Two queues with several slots, at-least-once delivery, crashes
  between any two awaits, one shared directory that every sync removes.
  Correct: the index never shows what is not in the tree; at rest the tree,
  the index, its label and the project's row agree.
* **Query service.** Check-then-act over awaits, invalidations that are lost.
  Correct: a cached engine is open; a request is answered from the index run
  whose time it read; no engine leaks.
* **Store.** Many statements per file without a transaction, cascades, a
  snapshot of the file table under a tree that goes on changing, crashes
  between any two statements. Correct: a file's row answers for its nodes, a
  link survives the new parse of its target, and a quiet tree is indexed in
  the end.
* **Resolution.** Some forty strategies answer one reference in turn, most of
  them by a search of the whole project for a name. Correct: what an edge may
  join does not depend on which strategy answered, nor on the order of the
  rows.
* **Synthesis.** Thirty-six passes over the whole graph, merged at the end;
  later ones read what earlier ones insert, and a job may end at any of them.
  Correct: every channel is bridged once a job ends well, none is guessed.
* **Graph queries, context.** Walks with a depth, a limit and a visited set that
  meet the same node over many ways, in the order in which the rows happen to
  come. Correct, on any graph: nobody is reported twice and nothing that is out of
  reach; what is cut off by a limit is no nearer than what is kept; a path is a
  shortest one; and what no bound cuts off is there. A context is cut by budgets
  after its edges are chosen. Correct: it is closed and misses no edge between
  what is left.
* **Webhooks, API.** Record-then-schedule with failures in between,
  concurrent duplicates, a server that stops under its requests. Correct: one
  job per push, a schedule per polled project, no request cut off.

The hazards are listed in `PROJECT.json` at their lines, each with the
properties that cover it or the reason why none does.

## 2. Modules

Jobs and processes:

| module | models | correspondence |
|---|---|---|
| `ParsePool` | the pool object (`pool`, its private fields under their names) and the worker threads (`thread`) | one action per handler: `RequestParse`, `GrammarsLoaded`, `ParseResult`, `WorkerError`, `WorkerExit`, `OnTimeout`, `RecycleAll`, `Destroy`; `Drain` (grow, dispatch, fail the stranded) is part of each |
| `ParseRequests` | what the pool promises its caller, without workers | the abstract specification `ParsePool` implements (`AnswersEveryRequest`) |
| `IndexWindow` | `indexAll`: main loop (`pc`) and the continuation of every parse (`Settle`) | uses the pool as `ParseRequests` promises: every request answered once, in any order |
| `IndexStore` | the tables files, nodes, edges, unresolved_refs; one pass of `indexAll` or `sync` at a time and the resolution that ends it | one action per statement or transaction that commits and per look at the file system (`pass.at` is where the pass stands); `Edit` and `Crash` may come between any two |
| `SyncPipeline` | `handleSyncRepo` and `handleIndexProject` in their slots, the API's triggers, pg-boss, crashes | one action between two awaits |
| `EngineCache` | `getEngine`, `invalidate`, the restart of the process, the local file and its download, over one index job at a time | twin code in the worker and the MCP server; the variables `ownDisk` and `hasS3`, which nothing changes, are the deployment, every one of them; one action between two awaits (`Ask`, `Hit`, `Miss`, `Fetch`, `Open`, `Serve`) |
| `Api` | the routes of webhooks, projects and keys, the polling schedules, the HTTP server's start and stop | a request is the list of awaited calls its handler has left (`reqs[h].todo`); one action per call; the stop is `Stop`, `Release` (the close of the server) and `Exit` (the stop of the queue) |

The graph and what is computed from it:

| module | models | correspondence |
|---|---|---|
| `GraphTable` | the tables the walks go over and the question they are asked (`table`, `start`, `opts`) | `getOutgoingEdges`, `getIncomingEdges`; the rows of a node are a set: a walk may meet them in any order |
| `Traversal` | `traverseBFS`, with its loops opened: `nodes`, `edges`, `visited`, `enqueued`, `queue` under their names, `step` the iteration of the outer loop, `left` the rows the inner one has yet to see | one action per iteration: `Dequeue` of the outer loop; `PassOver`, `Record`, `Enqueue` of the inner one, for its three ways through |
| `PathSearch` | `findPath`: the queue of paths, the visited set | `Arrive` and `Expand` for the outer loop, `Leave` and `Extend` for the inner one |
| `CallWalk` | `getCallers`, `getCallees`: the recursion as a stack `calls` of nodes with the rows not yet come to | `Meet`, `MeetAgain` for a row, `Return` |
| `ImpactWalk` | `getImpactRadius`, a stack `expanding` with the rows of both loops | `Member`, `MemberAgain`, `User`, `UserAgain`, `ImpactReturn` |
| `CycleWalk` | `findCircularDependencies`: the path of files | `Begin`, `Go`, `Ignore`, `Close`, `Finish` |
| `GraphQueries` | the edges table with its unique index, and what else `graph/` and the engine facade answer from it: hierarchy, ancestors, usages, dead code, metrics, dependents | one operator per method; results are sequences in the order of the code |
| `ContextBuilder` | `findRelevantContext` from the hits of the search on | the steps of the method in their order, each an operator on the pair of nodes and edges |
| `ImportMappings`, `NameMatcher`, `ImportResolver` | `import-resolver.ts`, `name-matcher.ts`, path aliases, workspace packages | one operator per strategy, which answers with a sequence of at most one match: a ladder of strategies is a concatenation, its answer the head |
| `WebFrameworks`, `ServerFrameworks`, `NativeFrameworks` | `resolution/frameworks/` | per framework: detection, resolution, the routes it extracts |
| `Resolver` | `resolution/index.ts`: the pre-filter, the language gates, the order of all the above, edges made from answers | actions `ExtractFile`, `ResolveNext`, `NextPass` over the files of a project; the edges of a batch are made when it ends |
| `SynthGraph`, `SynthChannels`, `SynthDispatch`, `SynthTables` | the thirty-six passes of `callback-synthesizer.ts`, `c-fnptr-synthesizer.ts`, `goframe-synthesizer.ts` | one operator per pass: graph and text in, edges out |
| `Synthesizer` | the rounds of synthesis over files that change and are stored again, with a pass that throws and a crash | one action per transaction and per pass (the code yields after each); `disk` and `stored` are the lines added to a file and the symbols taken out of it, now and when it was last stored |

`MC...` modules give TLC its instances (small graphs and projects); `...Proofs`
modules hold theorems.

How they fit together. `IndexWindow` stands on what `ParsePool` is checked to
promise; `IndexStore` opens the single step in which `IndexWindow` and
`SyncPipeline` store; `Synthesizer` opens what `IndexStore`'s pass ends with;
`EngineCache` takes the jobs of `SyncPipeline` one at a time and adds the
inode of the index file, S3 and the readers; `Api` is where the sync jobs of
`SyncPipeline` come from. `Resolver` extends the matchers and the frameworks it
calls, `ContextBuilder` the queries it asks. The context builder calls
`traverseBFS` many times for one answer, so there it is an operator
(`TraverseBFS` of `GraphQueries`) over rows in the order of their insertion; in
`Traversal`, and in the other walks, the rows come in any order the sort by kind
allows, because the statements that fetch them have no ORDER BY. The five walk
modules share `GraphTable` and can be asked in one instance (`MCWalks`).

How code becomes state and actions:

* JavaScript runs a handler to its next `await` without a break, so a step is
  what lies between two awaits. The handlers of the pool have none: each is
  one action with all the calls it makes (`removeWorker`, `settle`,
  `spawnOne`, `drain`).
* The pool pops the most recently idle worker; the model lets any idle worker
  take the job. Loops of `drain` and `recycleAll` are stated by their results
  (which workers and failures of `createWorker` a growth can end with), so
  that no recursion stands in the way of proofs.
* A stale message is a thread the pool has dropped and that has posted
  already; `Terminated` may come before or after.
* A commit that throws rejects the tracked promise of the parse whose
  continuation ran it: `raced` remembers which promises some race or all has
  observed; a rejected promise nobody observed ends the process (`died`).
* `SyncPipeline` keeps contents as a commit number and whether all of it is
  there. An index that was unlinked while open is marked `own = FALSE`: its
  writes go nowhere.
* `IndexStore` reduces a content to the names it declares, their line, and the
  names it calls; ids contain the line, as `generateNodeId` makes them, so a
  shifted file has new ids. A stamp stands for size and mtime. The comparison
  of content hashes, the snapshot of the file table, the delete with its
  cascades, the edges that are remembered and relinked, and the batches of the
  resolution are steps of their own, in the order of the code.
* A name is the sequence of its words, a path the sequence of its segments, so
  that suffixes, prefixes and capitals that the strategies look at are there
  and letters are not. What a regular expression finds in source text is a
  *mark*: a record of its form, line and operands, and whether a comment holds
  it.
* Orders are kept wherever the code depends on one: tables are sequences in
  insertion order, a file stored again moves to the end.
* Definitions named `Bad...` are plausible mistakes. No specification uses
  them; a property is worth keeping only if putting one in the place of the
  definition below it makes TLC find the property violated.

## 3. Runs

| run | configuration | distinct states | shows |
|---|---|---|---|
| `pool` | 2 requests, 2 workers at most (3 thread identities), recycle after 2 parses, budget 2, 1 cold start, fairness | 149,930 | `WorkersAccounted`, `JobsOwned`, `RespawnBounded`, `DestroyedIsEmpty`; `AnswersEveryRequest`: `ParsePool` implements `ParseRequests`, liveness included |
| `window` | 4 files, batches and window of 2, 1 commit that throws | 861,073 | `TypeOK`, `CommitOrder`, `NoLateWrite`, `Terminates` |
| `retry` | 2 files | violated | a retry that is counted as a repair and stores nothing |
| `pipeline` | 2 sync and 2 index slots, 1 redelivery, 2 commits, 2 jobs, 2 faults | 642,302 | `IndexMatchesTree`, `SettledIsConsistent`, `Settles` |
| `resync` | 1 slot each, no faults, `Prunes = FALSE` | violated | the second sync of a project cannot check out |
| `cache` | 2 requests, 3 runs, 3 opens, in each of the four deployments | 3,307,777 | `CachedIsOpen`, `FreshAnswer`, `NoLeak` |
| `store` | 2 files, 2 names (one called as a chain), batches of 1, 2 edits after the first tree, 1 crash | 586,623 | `NodesMatchRows`, `LinksKept`, `SyncFindsAll`, `CatchesUp` |
| `api` | 1 project, 2 deliveries, 2 requests at once, 2 bind attempts | 268,692 | `OneJobPerDelivery`, `RecordedIsSent`, `SchedulesMatchRows`, `StopsGracefully` |
| `graph` | 6 nodes in 3 files, up to 4 of 12 edges, in every order; contexts of 3 nodes, for up to 2 hits | 493,765 | `BfsExact`, `ContextClosed` |
| `walks` | 6 nodes, tables of up to 5 of 10 edges, every start and goal, several ways to ask, rows in any order | 487,088 | `Bounded`, `Exact`, `Nearest`, `PathShortest`, `CallersOnce`, `ImpactSound`, `CyclesReal` |
| `resolve` | mini projects of many languages and frameworks, 3 passes: all files in scan order, then any one, and then any other one, stored again | 31,883 | `LanguagesKept`, `MembersCalled`, `OwnFileFirst`, `ModulesScoped` |
| `synth` | mini projects with a channel for each pass, each file shifted once, symbols taken out and put back, at any time, any pass throwing, crashes anywhere | 943,678 | `Complete`, `GoDispatch`, `NoGuess`, `SitesInside` |

Type invariants: every state machine with a proof has one, and it is proved:
`TypeOK` of `ParsePool`, `IndexWindow`, `SyncPipeline`, `EngineCache` and
`Traversal`, `Typed` of `ApiProofs`, and of `IndexStoreProofs`, where it joins the
foreign keys, and those of the other walks in `WalkProofs`, as a part of their
invariants. A run repeats one of them, for what else it says: that the buffer of
`IndexWindow` is bounded.

What the newer runs say of the system:

* `store` finds no way to leave a file half stored behind a row that vouches
  for it except one, which the property names: a crash between the insertion of
  nodes and that of the row leaves nodes that no row knows of (`torn`) until
  the file is deleted. `SyncFindsAll` and `CatchesUp` except one more
  (`Raced`): a full pass reads a file's content and then its stamp, and a write
  between the two is not seen again until the file changes.
* `cache` looks at a request while it is served, whatever the job is doing: the
  directory wiped, the run under way, broken or not yet recorded. An answer older
  than the `lastIndexedAt` the request has read is one from a file that a query
  made itself: the empty index that `CodeGraphEngine.open` creates in a directory
  without one, or a copy of the object in S3. The property names
  this case, which the code has (`makeshift`), and says that invalidations
  that are lost, slow opens that overwrite a newer entry, directories removed
  under an open index and broken runs add no other. The converse is not promised:
  in the worker's directory a request may be served by a run not yet recorded.
* `api`: a delivery has at most one job even when it arrives twice at once,
  because the unique index stands behind the lookup. It may have none, since
  every later delivery of a recorded event is answered as a duplicate. `lost`
  names the events to which this happens, one by one: their own request failed or
  crashed at the send, or the send came back without a job because no worker has
  created the queue yet. That these two are the only ways is what
  `RecordedIsSent` says; the code has no remedy for either. `StopsGracefully` says
  that the stop waits for the last request before it stops the queue, and that it
  ends if they do.
* `graph` builds the context of any hits over graphs with parallel edges, cycles,
  containment and a dangling target: whatever the budgets cut, its edges join its
  nodes and none between two of them is missing. A hit in it is a root, and one
  that is missing was cut off by the cap on its file, filled by other hits, or
  on tests. The code takes the node of the first kind out and leaves it among the
  roots (`context/index.ts` 1090-1092), so that a root without its node is
  possible, and is possible in this case only. `BfsExact` holds the operator it
  asks for each hit's neighbourhood to what `Traversal` is proved to promise.
* `walks` asks one of five walks. Three statements are about `traverseBFS`, with
  the limit reached or not: `Bounded` is what issue 1087 was about, `Exact` what
  issue 1090 was (parallel edges). `Exact` does not promise the edges between two
  nodes of the last level: the code does not expand it, so such an edge is in the
  answer only when it is met from further in. `Nearest` holds for any order of
  rows, since the sort by kind rearranges one node's rows only. `PathShortest`
  says of `findPath` that a path is a shortest one and that null means that there
  is none. `CallersOnce` (issue 1086) and `ImpactSound` (issues 536, 1089) are about walks
  that go depth first with a depth: a node first met at the end of the depth is
  marked, and not expanded when a shorter way comes to it. So they promise that
  what is reported is within the depth, that the direct callers or dependents are
  all there, and all the rest only when fewer nodes are met than the depth has
  steps, which no node at the end of the depth allows. `CyclesReal`: each cycle
  reported is one, and every file in a cycle shares one with a cycle reported.
* `resolve` states what must hold whichever strategy answers. A reference or an
  import crosses language families through two strategies only, which answer by
  a full name before the gates (`ByFullName`: the import of a Java or Kotlin class,
  a name in a namespace a Razor file uses); a mini project has such a case for
  each. A receiver's own file comes first. A Terraform reference stays in the
  directory it is written in, the argument of a module call in the directory its
  source names; the variables of a `.tfvars` file and providers are looked for
  in the directories above as well.
* `synth` compares a graph that went through shifts, removals, restorations,
  crashes and throwing passes with what one undisturbed job makes of the same
  files. `Complete` says that it has all these edges, but for those that
  depend on a reference the code has deleted: one that found its target absent
  when it was resolved, or whose target's file was stored without it since
  (`unasked`). An unchanged caller is never asked again. `Complete` bounds the graph
  from below only: it may have more, as the synthesized edges of an unchanged
  file outlive what they were derived from elsewhere (a Go struct goes on
  implementing an interface after a method in another file is gone).
  `GoDispatch` holds while the fan-out of the pass is below its cap. `NoGuess` asks
  seven passes for the same answer under the order of rows and its reverse; that
  Sidekiq takes the first of several classes of one qualified name is not among
  its cases.

**The bounds.** Two workers, two requests and one cold start at a time give a
request queued behind a worker that loads, a death while another loads, and the
budget running out with requests queued; that more
requests than workers change nothing for safety is proved (section 4). `Workers`
is one larger than the pool, so that a terminated thread can still be alive beside
a full pool; a worker can be created only when an identity is free, and TLC's
instance is the only place where that bound is felt (the proofs hold for any
finite set). Four files in batches of two with a window of two: a full window in
the middle of a batch, a slow file at the cursor with results behind it, an abort
between and inside batches. Two commits and two jobs: a job that names a commit,
one that takes the head, in either order and overlapping; two faults: a failure
and a crash, or a crash during the recovery from one. Three index runs and three
opens: an engine that outlives two runs, one overwritten by an older request, and
a download that began two runs before it ends. The requests are interchangeable
(symmetry, all properties are invariants).
Two files, two names and two edits: a callee that moves, vanishes or comes back
while its caller stays, a file that stops parsing, an edit during the pass and one
after; one crash at any statement, and the process never needs a second one to
reach a state the first cannot leave. One project, two deliveries and two
requests: the same delivery twice at once, and every pair of routes on one project
(projects share nothing but the queue). Four edges: the smallest number with a
cycle beside a branch, or two parallel calls inside a cycle. Six nodes and five
edges in `walks`: a start between two branches of length two and three with a
limit that holds one of them, the smallest graph on which a traversal that takes
the newest node first reports a node farther out than one it cuts off; and the
same five edges hold two paths of different length to a goal, two calls from one
caller or two ways to one, and two cycles of files that share one. Callers who
name no limit get 1000, and no depth means infinity: bounds no small graph
reaches, so an instance without a bound has a large one. In `resolve` and `synth`
a project is as small as the ambiguity it is for: two candidates, one of them
wrong. Files are first stored in scan order, as the ordered commit makes sure
(`CommitOrder`); three passes of `resolve` bring any two files to the end of the
table, in either order. The detail of the frameworks' detection and extraction
serves the references they answer; not all of it bears on one of the four
properties.

**Deadlock** is not checked where a system may rest: a pool without work, a
finished run, a pipeline whose bounded pushes are used up, a graph that is
complete, an answer that is given, a server that is down. `store` checks it.

**Fairness.** Pool: weak fairness of every handler whose event has happened
(the event loop delivers it), of armed timers, of `terminate`, and of loading
grammars (it ends in success or a crash; the code arms no timer for it). None
for parsing: a parse may hang, the timer is what ends it. Index run: the event
loop runs ready continuations, and the pool answers (`AnswersEveryRequest`).
Pipeline: pg-boss polls for its slots and awaited calls return; nobody need
push. Store: a pass goes on while its process lives (weak), and a sync is
begun again and again (strong, because other passes may take the idle engine
in between): polling and webhooks ask for ever. Api: an awaited call ends, well
or badly (`Step`), the close of the server ends once the last request has
(`Release`), and so does the stop of the queue (`Exit`). The first of these is an
assumption about databases and clients, not about the code: `releaseHttpServer`
waits without a limit, and a request that never ended would keep it waiting.
Nothing is assumed of callers, of edits, of crashes or of faults.

**What excuses an inconsistency** in `SettledIsConsistent`: two syncs of one
project overlapped (teamSize is 3 and nothing serialises a project: TLC finds a
tree at the older commit under a row that names the newer one), a job was given
up, or the engine swallowed an error (`packages/core/index.ts` 193-201). These
are the cases in which the code really settles inconsistently; `history` keeps
whether one happened, and that no other cause exists is proved (section 4).
The other excuses are history variables too, each as narrow as the code allows.
`NoLeak` is excused by `overlapped` (two opens at a time), one clause of
`FreshAnswer` by `makeshift` (this very file was last written by a query), another
by `clobbered` (a download was written over the index of a run). `torn` excuses in
`IndexStore` the files a crash cut in two, in `Api` the projects whose creation,
change or deletion failed halfway or overlapped another; `lost` in `Api` and
`unasked` in `Synthesizer` are single events and single references, see above;
`ByFullName` in `Resolver` is no history but the two strategies themselves.

**External.** pg-boss is modelled as the code uses it: one job per call of the
handler, `teamSize` slots, a failed job delivered again up to a limit. (The major
version `package.json` asks for is not in the repository; where its interface
differs from that use, the models follow the code.) git is
modelled by what `worktree add` needs of its path and commit. A checkout goes on
in the directory it was started in (git changes into the new worktree before it
writes), so one whose directory a sync removes writes into the unlinked
directory and not into the next sync's. With
`Prunes = TRUE` git lets the path of a removed worktree be used again, as
the code expects: `pipeline` asks what the system does when its syncs can
succeed at all; `resync` has git as it is. SQLite's part is the statements with
their cascades and unique indexes, each atomic.

**Findings** (`PROJECT.json`, each with the run that shows it): the retry that
repairs nothing and the second checkout that git refuses.

### Disagreements found without a run of their own

Met while translating, each between code and a comment, a document or a twin
of it; the models do what the code does.

* Results of parses are not "stored as they arrive, in whatever order they finish"
  (`parse-pool.ts` 11-12): they are committed in file order
  (`extraction/index.ts` 1570-1579), which is what `CommitOrder` says.
* Respawns after a timeout, a crash or a recycle pass over the limit on cold
  starts (`parse-pool.ts` 294, against 65-68 and 299-301).
* A sync removes the directory the index lives in (`sync-repo.ts` 97), so that an
  "incremental" run starts from an empty index (against `README.md` 54).
* A local copy of the index is never refreshed from S3 (`index-storage.ts` 98,
  against `docs/plans/codegraph_cloud_架构_43cb1aee.plan.md` 391).
* `downloadIndexDb` looks whether there is a local file before it awaits the object
  (`index-storage.ts` 66) and writes after it (83): an index that a run has made in
  between is overwritten with an older one (`clobbered`), and nothing fetches or
  makes it again before the next run.
* A webhook whose event was recorded and whose send came back without a job id is
  answered "Duplicate event ignored" (`webhooks.ts` 108-110), and so are all its
  redeliveries; no job was sent.
* "A `references`/`imports` edge between two known families is always a coincidental
  name collision" (`resolution/index.ts` 1689-1690), but the import of a Java or
  Kotlin class (803-804, `import-resolver.ts` 1142-1174) and a Razor `@using`
  (810-813, 1405-1418) answer before any gate, with a node of any language.
* References without a target are deleted (`resolution/index.ts` 1161-1170), so a
  symbol that is added or restored later gets no edge from an unchanged file: an
  incremental index has fewer edges than a fresh one (`unasked`).
* `indexAll` reads a file's content before its stamp (`extraction/index.ts`
  1700-1701), `indexFile` after it (1968-1969), against the comment at 2256-2262.
* The edges into a re-indexed file are matched by kind and name: of several new
  nodes with the same ones, the last gets the edges of all (`extraction/index.ts`
  2139-2148, against 2095-2099).
* `getTypeDescendants` shares `visited` with the ascent before it, which has
  marked the focal node, and returns at once (`graph/traversal.ts` 412-431). So
  neither subclasses of a hit nor, in the second pass, siblings are found by the
  expansion that is there to find them (`context/index.ts` 940-943, 967-971).
* The impact radius is walked depth first with one `visited` set: a node first
  met at the depth limit is not expanded when a shorter way reaches it, so not
  "all nodes that could be affected" are in it (`graph/traversal.ts` 543-601,
  against 514). `ImpactSound` therefore asks for soundness only.
* `resolution/index.ts` 206-216 describes passes over deferred references that
  nothing calls; the fuzzy match of `name-matcher.ts` 1729 is out of reach
  (`resolution/index.ts` 770-777).
* One pass of the synthesis that throws loses the edges of all of them, silently
  (`resolution/index.ts` 1208-1215); synthesized edges outlive the registration
  they were found by when only the registering file changed
  (`callback-synthesizer.ts` 188-192).
* CICS is detected by the COBOL nodes in the index when the engine opens, so not
  in the run that first indexes them (`frameworks/cics.ts` 60-63,
  `resolution/index.ts` 279-281).
* Kotlin imports are read only with a `;` (`import-resolver.ts` 918, against
  898-905). The search for a re-exported symbol marks files, not names, as
  visited: a chain that passes one barrel twice under two names ends there
  (1977-1978, against 1953-1956).
* The "same directory" of several frameworks is a common prefix of the path, and
  the first of several candidates in it is taken (`react.ts` 260-262,
  `svelte.ts` 219-221, `astro.ts` 161-163, `vue.ts` 301-303), against their own
  rule that only an unambiguous name resolves (issue #764).
* The search cuts to its limit (`db/queries.ts` 1034) before the filters that its
  comment (1039-1042) wants to choose from plenty.

## 4. Proofs

Every theorem holds for all values of the constants their assumptions allow:
any number of workers, requests, slots, files, names, commits, deliveries,
crashes and faults, any finite graph.

`ParsePoolProofs` proves, for every finite set of workers, every set of requests
and every positive size, interval, budget and limit (`PoolAssumption`), that
each invariant of run `pool` is one of `Spec`: `WorkersAlwaysAccounted`,
`NoRequestLost`, `CrashesBounded`, `DestroyIsFinal`; and three that no run
repeats: `TypeCorrect`, `NeverStalls` (`NoStall`: while work is queued no worker
is idle and one is alive) and `PoolKnowsItsThreads` (`InflightHonest`: what the
pool believes of a worker is what its thread is doing). The
inductive invariant is
`IInv == TypeOK /\ Sound(pool) /\ Drained /\ InflightHonest /\ EmptyWhenDestroyed`,
where `Sound(p)` joins the type of the fields, `Accounted`, `Owned`, the fact
that a worker not busy has no more parses behind it than the interval allows,
and the crash bound. No property is inductive alone: that a request is owned
once needs that a dispatched worker was idle and therefore had no job
(`Accounted`); the crash bound needs that a handler which charges a crash
removed a worker first; `InflightHonest` needs both, and that a free thread
identity is in no field of the pool. The argument has two layers: each
operator (`RemoveWorker`, `Settle`, `GrownBy`, `SpawnOne`, `Dispatched`,
`FailStranded`, ...) maps a sound pool to a sound pool, or to one sound but for
a worker between two places, stated once as a lemma; then `Next` is taken action
by action, with `Drain` always last, and what the messages it posts do to the
threads.

It also proves `KeepsContract`: `Spec => Contract!SafeSpec`, that
every behaviour of the pool, seen as the answers and whether it is destroyed, is
one of `ParseRequests` without its fairness. `IInv` is what makes the steps
map. `RequestParse` is a request, and one that is refused at
once when the pool is destroyed or broken; a result is an answer to the one
request its thread has in hand (`Owned`, and `InflightHonest` for the thread); a
death or a timer is an answer to one open request, or to all those
`FailStranded` gives up, or nothing; `Destroy` closes and answers all that is
open; all else stutters. The lemmas follow the parts of the handlers:
`AnswerStep` for answers, `EvolvedStep` for what `Drain` does, `ReleasedStep`
for a worker that gives up its job before that.

`IndexWindowProofs` proves the invariants and the action property of run
`window`: `TypeCorrect`, `CommitsInOrder`, `WritesStop`, for any number of
files, any size of batch and window and any number of commits that throw.
`IInv == TypeOK /\ Dispatched /\ Windowed /\ Awaited /\ Ordered /\ Tallied`:
- `Dispatched`: sequence numbers are given out in the order of the scan;
- `Windowed`: from the cursor on everything dispatched is in flight or buffered
  and nothing before it is, and the loop feeds only when the window has room;
- `Awaited`: the last wait is for all that is in flight, and retries begin when
  nothing is;
- `Ordered`: `CommitOrder`, and before the retries the rows are of files before
  the cursor;
- `Tallied`: a file counts at most once, and the retries move it from one count
  to another at most once, which bounds the counters that `TypeOK` types.

`CommitOrder` is inductive only with these: a flush commits the run of buffered
numbers at the cursor, which are new (`Windowed`) and of later files
(`Dispatched`), and no flush comes once the retries append theirs (`Awaited`).
That a run of consecutive numbers has an end and that a finite set of numbers can
be listed in ascending order are proved by a least counterexample (`WFMin`), not
by induction.

`TraversalProofs` proves the type invariant and the three invariants of
`traverseBFS` for every finite graph, start, depth, positive limit, direction and
choice of kinds (`GraphAssumption`): `TypeCorrect`, `BoundedCorrect`,
`ExactCorrect`, `NearestCorrect`. `Within(m, k)` says that a path of at most `k`
edges leads from the start to `m`. The inductive invariant is `IInv == TypeOK /\
Queued /\ Levelled /\ Measured /\ Complete /\ Apart /\ Limited`:
- `Queued`: what was enqueued is visited or in the queue, never both, nobody
  twice, and the nodes found are just these (less a start that is not included);
- `Levelled`: depths rise along the queue and are at most one above that of the
  node in hand;
- `Measured`: the depth of a queued node is its distance from the start, not only
  the length of some path;
- `Complete`: while there is room, every node as near as the one in hand is
  queued, and a visited node has its neighbours queued and their edges recorded,
  but for the rows still to be seen;
- `Apart`: no node left out is nearer than one queued;
- `Limited`: the limit, and edges without repetition whose ends are queued.

`Measured` needs `Complete`: a node that is queued at depth `d + 1` has no shorter
path, or it would be queued already. `Apart` needs both; once the limit is
reached nothing is queued any more, so `Apart` stands although `Complete` no
longer says anything. That an empty queue means that all within the depth is
found (`NoneLeft`) is shown by the least `k` at which a node within `k` edges is
missing; how paths grow and end is stated in lemmas (`WithinStep`, `WithinMore`,
`WithinBack`). The distances and the rows of the question asked are written as
the sets `Reach` and `Rows`, which a step does not change.

`WalkProofs` proves the other four of run `walks`: `PathCorrect`
(`PathShortest`), `CallersCorrect` (`CallersOnce`), `ImpactCorrect`
(`ImpactSound`), `CyclesCorrect` (`CyclesReal`), for every finite graph, every
question and every order of the rows (`GraphAssumption`). Each has its
inductive invariant.
- `PathInv == PathTypeOK /\ Led /\ Shortest /\ Explored`. `Led`: what is queued are
  paths from the start, in the order of their lengths and at most one row longer
  than the one in hand. `Explored`: a row of an expanded node leads to an
  expanded node, or to one queued over a path one row longer than the distance.
  The two give `Shortest`: had the node in hand a shorter path, the first node on
  it that is not expanded would be queued over a shorter path than the one in hand (lemma
  `Frontier`, by the least such `k`). An empty queue leaves `passed`, which no row
  leads out of.
- `CallInv == CallTypeOK /\ Nested /\ Reported /\ Followed`. `Nested`: the calls in
  progress are of marked nodes, a step further each, and no more than are marked.
  So a node the depth cuts off has as many nodes marked before it as the depth
  has steps, and itself: `Followed` says that every other has its rows followed,
  but for those to come. A node is on the stack at most once because it is marked
  before the call (`Reported`: marked is what was reported, and the start).
- `ImpactInv == ImpactTypeOK /\ start \in seen /\ Spread /\ Recorded /\ Reached`.
  Members cost no depth, so the stack may be deeper than the depth; `Spread`
  bounds the depth of a call by its place, the places by the nodes seen, and every
  estimate (a function that is zero at the start, no larger at members and at most
  one larger at dependents) by the depth. A row is recorded once because each
  node's rows are in one call and a row has one target (`Recorded`).
- `CycleInv == CycleTypeOK /\ Winding /\ Unwound`. `Winding`: the path is of
  different files, each a dependency of the one before, so that a slice of it is a
  cycle. `Unwound`: the files the walk is done with have an order in which every
  dependency that goes back closes a cycle found. It says so without an order:
  any set of them has a member all of whose dependencies in the set close
  cycles. At the end, the files that a file depends on and that depend on it
  are such a set; its member has a dependency in the set, on which a cycle was
  closed, and all of that cycle is in the set (`RoundTheCycle`).

`SyncPipelineProofs` proves the type invariant `TypeCorrect` and both invariants
of run `pipeline`: `MatchesCorrect` (`IndexMatchesTree`) and `SettledCorrect`
(`SettledIsConsistent`). `IInv == Typed /\ Owned /\ Alone /\ Fed`. `Owned`: what
the index holds and what a run that owns it has read are in the tree, and a
checkout that nobody cut is the tree. It is inductive because `SyncWipe` takes
index, tree and every ownership away in one step and `SyncCheckout` refuses a
path that is not empty. `Alone`: while no two syncs overlapped, the busy one has
the directory to itself and the tree is its target from the end of the checkout
on. `Fed`: while nothing excuses an inconsistency and no sync is at work or
waits, the tree is the recorded commit, and the index agrees with it or somebody
is left who will make it so: a job in the queue, an indexer that has yet to
open, or one that owns the index and carries the tree to it. At rest nobody is
left, so it agrees. That a crash cannot lose the last carrier is lemma
`CrashSends`: a handler whose job is not given up leaves it in the queue.

`EngineCacheProofs`: `TypeCorrect`, `CachedIsOpenCorrect`, `FreshAnswerCorrect` and
`NoLeakCorrect`, in every deployment and every state of the job, for any number
of requests, runs and opens. `IInv == TypeOK /\ CachedIsOpen /\ Recorded /\
Remembered /\ Fresh /\ Apart /\ Closed`. `Recorded`: between runs the recorded run
is the last one and its file holds it, unless a download was written over it; in
between the file holds a run that was recorded, or a later one, or is makeshift.
`Remembered`: what a request, the entry and S3 remember was recorded once. `Fresh`:
the engines in use and in the cache hold what the time they stand for asks for;
it needs `Recorded` when an engine is opened, and that a run writes only into
the file at the path, with a number larger than all before it. `Apart`: a disk of
the cache's own has copies of recorded runs only. `Closed`: unless two opens
overlapped, the open engine is the cached one.

`ApiProofs`: `TypeCorrect`, `OneJobCorrect`, `RecordedIsSentCorrect`,
`SchedulesCorrect`, and `NoneCutOffCorrect`, the invariant half of
`StopsGracefully` (a request in progress has a server that is up or closing).
`IInv == Typed /\ Inserted /\ Sent /\ Recorded /\ Scheduled`: a request's remaining calls are the end of its route's list; an event once
recorded (even if its project is gone since) is with exactly one request that
will send, or its job is sent, or it is itself one of those lost; a request
between the row and the schedule is the only one changing its project, and the
row already says what it will schedule.

`IndexStoreProofs`: `TypeCorrect` (types and foreign keys), `NodesCorrect`,
`LinksCorrect`, `SyncCorrect`. `IInv` joins `Typed`, `KeysHold` and
- `InOrder`: which file is in hand in which phase, and that it has no row while
  its nodes are being stored;
- `Matched`: the nodes of a file no crash cut are those of the content being
  stored, or of its row;
- `Kept`: a link is an edge of the graph, or waits in the hands of the pass
  between the delete of its target and the relink;
- `Stamps`: what was read under the stamp a file has now is its content, and
  nothing was read later than it was written;
- `TurnsCome`: while no file changed since the sync began, each file agrees with
  its row, or its turn is still to come in one of the lists the sync works
  through;
- `SettledRight`: after it, each file agrees.

`SyncFindsAll` needs all of the last three: the snapshot is compared with files
that may change under it, and only the stamps say that a file whose row was not
stale was rightly left alone.

**Only model-checked**: liveness (`AnswersEveryRequest`, `Terminates`, `Settles`,
`CatchesUp`, `StopsGracefully`), which needs fairness and ENABLED, with it the
fairness half of `ParseRequests`; and the invariants of runs `graph`, `resolve`
and `synth`. Their modules compute an answer in one step by recursion and folds
over data (the trims of a context, ladders of strategies over sequences of rows,
passes over a whole graph): a proof for every input would be an induction over it.
The walks over the graph could be proved about because they are opened into state
machines.

## 5. Not modelled

* **Within the modelled components**: lengths of timeouts, ids, logging and
  progress; the rows of `sync_jobs` and `index_jobs` (written, never read by a
  handler); deletion of a project under a running job; credentials; the `include`
  and `exclude` configuration and the ignore rules of the scan; listings and
  pages, which only read; the cron expression of a polling interval (the queue
  reads it). A relative `GIT_WORKSPACE_DIR` (the default), which
  git resolves against the mirror and the handlers against the process, is
  taken to be absolute. A SIGTERM while the API is still starting ends the process
  as a crash does. A parse that settles while the main loop is between two
  awaits is allowed a little more freedom than the event loop gives it.
* **SQLite**: the WAL, search indexes, statistics and migrations.
* **Resolution**: the text of imports and the letters of names; the caches of the
  resolver, which hold what the tables hold between two passes.
* **Language extractors**: sequential walks over the syntax trees of an external
  parser, without state between files; what a parse can end with is the set
  `Outcomes`, its rows are those of `IndexStore` and of the mini projects. They
  are about a third of the implementation, which is why the mapped share stays
  where it is.
* **Ranking and wording**: scores of the search, formatting of contexts, MCP
  answers.
* **Admin UI, MCP transport**: no state of the system.

## 6. Plan left

1. `indexFile` and `indexFiles` as further writers of `IndexStore`, with the
   search index that triggers keep beside the nodes.
2. `IndexStore` as a refinement of a two-line specification (a map from files to
   contents that a pass brings up to date), and `SyncPipeline`'s index run as a
   use of it.
3. The context builder as a state machine over the answers of `Traversal`, with a
   proof that every trim leaves it closed.
4. Larger projects for `resolve`: monorepos with aliases and workspace packages
   that shadow each other.
