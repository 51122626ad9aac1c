------------------------------ MODULE ParsePool ------------------------------
(***************************************************************************)
(* The parse worker pool of packages/core/extraction/parse-pool.ts.        *)
(*                                                                         *)
(* The main thread keeps a queue of parse jobs and a set of worker         *)
(* threads.  Every handler of the pool runs to its end without yielding,   *)
(* so every handler is one action; between two handlers the worker threads *)
(* load grammars, parse, post messages, crash and exit on their own.       *)
(*                                                                         *)
(* "pool" holds the private fields of the pool object under their names in *)
(* the source.  A worker that is in no field of the pool any more may      *)
(* still deliver a message it had already posted: such a stale message     *)
(* reaches the handlers, whose guards must ignore it.                      *)
(***************************************************************************)
EXTENDS Naturals, Sequences, FiniteSets

CONSTANTS
  Jobs,               \* the calls of requestParse, one job each
  Workers,            \* identities of worker threads (see Fresh)
  NoJob,              \* "no job": what Map.get answers for an absent key
  MaxSize,            \* maxSize: the size of the pool after clamping
  RecycleInterval,    \* parses a worker performs before it is recycled
  CrashBudget,        \* CRASH_BUDGET
  MaxConcurrentSpawn, \* MAX_CONCURRENT_SPAWN
  MaxRecycleAll       \* bound: calls of recycleAll (the orchestrator makes two)

ASSUME PoolAssumption ==
  /\ NoJob \notin Jobs
  /\ IsFiniteSet(Workers)
  /\ MaxSize \in Nat \ {0}
  /\ RecycleInterval \in Nat \ {0}
  /\ CrashBudget \in Nat \ {0}
  /\ MaxConcurrentSpawn \in Nat \ {0}
  /\ MaxRecycleAll \in Nat

VARIABLES
  pool,       \* the fields of the ParseWorkerPool object
  thread,     \* thread[w]: what worker thread w is doing, and for which job
  recycleAlls \* number of calls of recycleAll so far

vars == <<pool, thread, recycleAlls>>

-----------------------------------------------------------------------------
(* The pool object. "jobs" is the state of the promise of every job:       *)
(* settled in the code is "resolved" or "rejected" here.                   *)

PoolFields ==
  [workers      : SUBSET Workers,
   pending      : SUBSET Workers,
   idle         : SUBSET Workers,
   inflight     : [Workers -> Jobs \cup {NoJob}],
   parseCounts  : [Workers -> 0..RecycleInterval],
   queue        : Seq(Jobs),
   jobs         : [Jobs -> {"none", "open", "resolved", "rejected"}],
   totalCrashes : 0..(CrashBudget + MaxSize),
   destroyed    : BOOLEAN]

\* Faulty variants, named Bad..., stand before the definition they vary: each is
\* a plausible mistake that one of the properties below must detect.
BadHealthy(p) == ~p.destroyed /\ p.totalCrashes <= CrashBudget

Healthy(p) == ~p.destroyed /\ p.totalCrashes < CrashBudget

\* A worker object the constructor of Worker may return: no thread of that
\* identity exists and the pool knows none.
Fresh(p) == {w \in Workers \ p.workers : thread[w].phase = "unborn"}

\* The pool after "new" workers were created and k calls of createWorker threw.
GrownBy(p, new, k) ==
  [p EXCEPT !.workers = @ \cup new,
            !.pending = @ \cup new,
            !.parseCounts = [w \in Workers |-> IF w \in new THEN 0 ELSE @[w]],
            !.totalCrashes = @ + k]

SpawnOne(p) ==
  IF Cardinality(p.workers) >= MaxSize \/ ~Healthy(p)
  THEN {p}
  ELSE {GrownBy(p, {}, 1)} \cup {GrownBy(p, {w}, 0) : w \in Fresh(p)}

SpawnIfHealthy(p) == IF Healthy(p) THEN SpawnOne(p) ELSE {p}

\* forgets this.idle = this.idle.filter(...)
BadRemoveWorker(p, w) ==
  [p EXCEPT !.workers = @ \ {w},
            !.pending = @ \ {w},
            !.parseCounts = [@ EXCEPT ![w] = 0]]

RemoveWorker(p, w) ==
  [p EXCEPT !.workers = @ \ {w},
            !.pending = @ \ {w},
            !.parseCounts = [@ EXCEPT ![w] = 0],
            !.idle = @ \ {w}]

Settle(p, j, outcome) ==
  IF j \in Jobs /\ p.jobs[j] = "open"
  THEN [p EXCEPT !.jobs = [@ EXCEPT ![j] = outcome]]
  ELSE p

Unassign(p, w) == [p EXCEPT !.inflight = [@ EXCEPT ![w] = NoJob]]

-----------------------------------------------------------------------------
(* drain(): grow, dispatch, and fail what can never run.                   *)

MayGrow(p) ==
  /\ Len(p.queue) > Cardinality(p.idle) + Cardinality(p.pending)
  /\ Cardinality(p.workers) < MaxSize
  /\ Cardinality(p.pending) < MaxConcurrentSpawn
  /\ Healthy(p)

\* The growth loop: it stops when its condition fails, and the condition held
\* before its last turn, which created a worker or threw.
GrowthStops(p, new, k) ==
  /\ ~MayGrow(GrownBy(p, new, k))
  /\ \/ new = {} /\ k = 0
     \/ \E w \in new : MayGrow(GrownBy(p, new \ {w}, k))
     \/ k > 0 /\ MayGrow(GrownBy(p, new, k - 1))

\* Worker w gets the take[w]-th queued job, for the workers of "taken".
Dispatched(p, taken, take, n) ==
  [p EXCEPT !.idle = @ \ taken,
            !.queue = SubSeq(@, n + 1, Len(@)),
            !.inflight = [w \in Workers |-> IF w \in taken THEN p.queue[take[w]] ELSE @[w]],
            !.parseCounts = [w \in Workers |-> IF w \in taken THEN @[w] + 1 ELSE @[w]]]

IsAssignment(take, taken, n) ==
  /\ \A v, w \in taken : take[v] = take[w] => v = w
  /\ \A i \in 1..n : \E w \in taken : take[w] = i

QueuedJobs(p) == {p.queue[i] : i \in DOMAIN p.queue}

\* empties the queue without settling its jobs
BadFailStrandedSilently(p) ==
  IF p.idle = {} /\ p.pending = {} /\ p.workers = {} THEN [p EXCEPT !.queue = <<>>] ELSE p

\* Hang prevention: queued work that no worker will ever take is rejected.
FailStranded(p) ==
  IF p.queue # <<>> /\ p.idle = {} /\ p.pending = {} /\ p.workers = {}
  THEN [p EXCEPT !.queue = <<>>,
                 !.jobs = [j \in Jobs |-> IF j \in QueuedJobs(p) /\ @[j] = "open"
                                          THEN "rejected" ELSE @[j]]]
  ELSE p

\* The dispatch loop ends with no idle worker or no queued job left: the
\* oldest n jobs have gone out, in queue order, to the workers of "taken".
\* (The code pops the most recently idle worker; here any idle worker may take
\* a job.)
DispatchAndFail(p) ==
  \E taken \in SUBSET p.idle, n \in 0..Len(p.queue) :
    /\ taken = p.idle \/ n = Len(p.queue)
    /\ \E take \in [taken -> 1..n] :
         /\ IsAssignment(take, taken, n)
         /\ pool' = FailStranded(Dispatched(p, taken, take, n))

Drain(p) ==
  \E new \in SUBSET Fresh(p), k \in 0..CrashBudget :
    /\ GrowthStops(p, new, k)
    /\ DispatchAndFail(GrownBy(p, new, k))

-----------------------------------------------------------------------------
(* Worker threads.  A new worker is sent load-grammars, a dispatched one a *)
(* parse message; terminate() lets a thread exit at any later time.        *)

Phases == {"unborn", "loading", "loaded", "waiting", "parsing", "parsed", "crashed", "exiting"}

ThreadStates == [phase : Phases, job : Jobs \cup {NoJob}]

At(phase, j) == [phase |-> phase, job |-> j]

Handed(w) == pool'.inflight[w] \in Jobs /\ pool'.inflight[w] # pool.inflight[w]

\* The messages the step to the next pool posts, over the threads in "now".
\* A parse message to a thread that has died is lost.
PostMessages(now) ==
  thread' = [w \in Workers |->
    IF w \in pool'.workers \ pool.workers THEN At("loading", NoJob)
    ELSE IF Handed(w) /\ now[w].phase = "waiting" THEN At("parsing", pool'.inflight[w])
    ELSE now[w]]

MoveThread(w, from, phase) ==
  /\ thread[w].phase \in from
  /\ thread' = [thread EXCEPT ![w] = At(phase, thread[w].job)]
  /\ UNCHANGED <<pool, recycleAlls>>

LoadGrammars(w) == MoveThread(w, {"loading"}, "loaded")

Parse(w) == MoveThread(w, {"parsing"}, "parsed")

\* An uncaught error ('error', then 'exit'), or process.exit(1) ('exit' only).
Crash(w) ==
  \E phase \in {"crashed", "exiting"} :
    MoveThread(w, {"loading", "waiting", "parsing"}, phase)

\* terminate() takes effect on a worker the pool has dropped.
Terminated(w) ==
  /\ w \notin pool.workers
  /\ MoveThread(w, {"loading", "loaded", "waiting", "parsing", "parsed"}, "exiting")

-----------------------------------------------------------------------------
(* The handlers of the pool.                                               *)

RequestParse(j) ==
  /\ pool.jobs[j] = "none"
  /\ IF pool.destroyed
     THEN pool' = [pool EXCEPT !.jobs = [@ EXCEPT ![j] = "rejected"]]
     ELSE Drain([pool EXCEPT !.queue = Append(@, j),
                                       !.jobs = [@ EXCEPT ![j] = "open"]])
  /\ PostMessages(thread)
  /\ UNCHANGED recycleAlls

\* onMessage, 'grammars-loaded'
GrammarsLoaded(w) ==
  /\ thread[w].phase = "loaded"
  /\ IF w \in pool.workers
     THEN Drain([pool EXCEPT !.pending = @ \ {w}, !.idle = @ \cup {w}])
     ELSE pool' = pool
  /\ PostMessages([thread EXCEPT ![w] = At("waiting", NoJob)])
  /\ UNCHANGED recycleAlls

Recycle(p, w) == SpawnIfHealthy(RemoveWorker(p, w))

\* Where the worker goes after a result: recycled, or idle again.
AfterResult(p, w) ==
  IF p.parseCounts[w] >= RecycleInterval
  THEN Recycle(p, w)
  ELSE {[p EXCEPT !.idle = @ \cup {w}]}

\* onMessage, 'parse-result'. (The code settles after it has decided where the
\* worker goes; nobody runs in between, so the order of the two is immaterial.)
ParseResult(w) ==
  LET job == pool.inflight[w] IN
  /\ thread[w].phase = "parsed"
  /\ IF job \in Jobs /\ thread[w].job = job
     THEN \E p \in AfterResult(Settle(Unassign(pool, w), job, "resolved"), w) :
            Drain(p)
     ELSE pool' = pool
  /\ PostMessages([thread EXCEPT ![w] = At("waiting", NoJob)])
  /\ UNCHANGED recycleAlls

\* a death that is not charged to the crash budget
BadOnWorkerGone(w) ==
  IF w \in pool.workers
  THEN \E p \in SpawnIfHealthy(Settle(Unassign(RemoveWorker(pool, w), w),
                                     pool.inflight[w], "rejected")) : Drain(p)
  ELSE pool' = pool

\* The worker w is dead: reject its job, keep capacity, drain.
OnWorkerGone(w) ==
  LET gone == [RemoveWorker(pool, w) EXCEPT !.totalCrashes = @ + 1] IN
  IF w \in pool.workers
  THEN \E p \in SpawnIfHealthy(Settle(Unassign(gone, w), pool.inflight[w], "rejected")) :
         Drain(p)
  ELSE pool' = pool

WorkerError(w) ==
  /\ thread[w].phase = "crashed"
  /\ OnWorkerGone(w)
  /\ PostMessages([thread EXCEPT ![w] = At("exiting", thread[w].job)])
  /\ UNCHANGED recycleAlls

\* The worker script ends by process.exit(1), by an uncaught error or by
\* terminate(), which all give 1: it listens to its port and never runs out.
ExitCode(w) == 1

WorkerExit(w) ==
  /\ thread[w].phase = "exiting"
  /\ IF ExitCode(w) # 0 THEN OnWorkerGone(w) ELSE pool' = pool
  /\ PostMessages([thread EXCEPT ![w] = At("unborn", NoJob)])
  /\ UNCHANGED recycleAlls

\* The timer of the job worker w is parsing fires (settle clears it).
OnTimeout(w) ==
  LET job == pool.inflight[w] IN
  /\ job \in Jobs
  /\ pool.jobs[job] = "open"
  /\ w \in pool.workers
  /\ \E p \in SpawnIfHealthy(Settle(Unassign(RemoveWorker(pool, w), w), job, "rejected")) :
       Drain(p)
  /\ PostMessages(thread)
  /\ UNCHANGED recycleAlls

\* n recycled workers are replaced as long as the pool stays healthy.
Replacements(p, n) ==
  IF ~Healthy(p) THEN {p}
  ELSE {GrownBy(p, g[1], g[2]) :
          g \in {x \in (SUBSET Fresh(p)) \X (0..n) :
                   /\ Cardinality(x[1]) + x[2] <= n
                   /\ p.totalCrashes + x[2] <= CrashBudget
                   /\ \/ Cardinality(x[1]) + x[2] = n
                      \/ p.totalCrashes + x[2] = CrashBudget}}

WithoutIdle(p) ==
  [p EXCEPT !.workers = @ \ p.idle,
            !.parseCounts = [w \in Workers |-> IF w \in p.idle THEN 0 ELSE @[w]],
            !.idle = {}]

RecycleAll ==
  /\ recycleAlls < MaxRecycleAll
  /\ pool' \in Replacements(WithoutIdle(pool), Cardinality(pool.idle))
  /\ PostMessages(thread)
  /\ recycleAlls' = recycleAlls + 1

\* rejects what is queued and forgets what is in flight
BadDestroy ==
  /\ ~pool.destroyed
  /\ pool' = [pool EXCEPT
       !.destroyed = TRUE,
       !.workers = {}, !.pending = {}, !.idle = {}, !.queue = <<>>,
       !.parseCounts = [w \in Workers |-> 0],
       !.inflight = [w \in Workers |-> NoJob],
       !.jobs = [j \in Jobs |-> IF j \in QueuedJobs(pool) THEN "rejected" ELSE @[j]]]
  /\ PostMessages(thread)
  /\ UNCHANGED recycleAlls

Destroy ==
  /\ ~pool.destroyed
  /\ pool' = [pool EXCEPT
       !.destroyed = TRUE,
       !.workers = {}, !.pending = {}, !.idle = {}, !.queue = <<>>,
       !.parseCounts = [w \in Workers |-> 0],
       !.inflight = [w \in Workers |-> NoJob],
       !.jobs = [j \in Jobs |-> IF @[j] = "open" THEN "rejected" ELSE @[j]]]
  /\ PostMessages(thread)
  /\ UNCHANGED recycleAlls

-----------------------------------------------------------------------------

EmptyPool ==
  [workers |-> {}, pending |-> {}, idle |-> {},
   inflight |-> [w \in Workers |-> NoJob],
   parseCounts |-> [w \in Workers |-> 0],
   queue |-> <<>>,
   jobs |-> [j \in Jobs |-> "none"],
   totalCrashes |-> 0,
   destroyed |-> FALSE]

\* The constructor spawns one eager worker, whose creation may throw.
Init ==
  /\ recycleAlls = 0
  /\ \/ /\ pool = GrownBy(EmptyPool, {}, 1)
        /\ thread = [w \in Workers |-> At("unborn", NoJob)]
     \/ \E e \in Workers :
          /\ pool = GrownBy(EmptyPool, {e}, 0)
          /\ thread = [w \in Workers |->
                         At(IF w = e THEN "loading" ELSE "unborn", NoJob)]

ThreadStep(w) == LoadGrammars(w) \/ Parse(w) \/ Crash(w) \/ Terminated(w)

HandlerStep(w) ==
  \/ GrammarsLoaded(w) \/ ParseResult(w)
  \/ WorkerError(w) \/ WorkerExit(w) \/ OnTimeout(w)

Next ==
  \/ \E j \in Jobs : RequestParse(j)
  \/ \E w \in Workers : ThreadStep(w) \/ HandlerStep(w)
  \/ RecycleAll
  \/ Destroy

(***************************************************************************)
(* Fairness.  The event loop delivers every message and every exit; a      *)
(* timer that is armed fires; terminate() ends a thread; a thread that     *)
(* loads grammars ends (loaded or crashed: the code arms no timer for it). *)
(* A parse may hang, a worker need not crash, and nobody must call         *)
(* requestParse, recycleAll or destroy: no fairness for those.             *)
(***************************************************************************)
Fairness ==
  \A w \in Workers :
    /\ WF_vars(LoadGrammars(w) \/ (thread[w].phase = "loading" /\ Crash(w)))
    /\ WF_vars(Terminated(w))
    /\ WF_vars(GrammarsLoaded(w))
    /\ WF_vars(ParseResult(w))
    /\ WF_vars(WorkerError(w))
    /\ WF_vars(WorkerExit(w))
    /\ WF_vars(OnTimeout(w))

Spec == Init /\ [][Next]_vars

FairSpec == Spec /\ Fairness

-----------------------------------------------------------------------------
(* Properties.                                                             *)

\* Every field of the pool and every thread has its type.
TypeOK ==
  /\ pool \in PoolFields
  /\ thread \in [Workers -> ThreadStates]
  /\ recycleAlls \in 0..MaxRecycleAll

Busy(p) == {w \in Workers : p.inflight[w] \in Jobs}

\* No worker is lost or counted twice: a live worker is either starting, or
\* idle, or busy with one job (removeWorker and the recycle, crash, timeout
\* and result handlers each touch a different subset of these fields).
Accounted(p) ==
  /\ p.workers = p.pending \cup p.idle \cup Busy(p)
  /\ p.pending \cap p.idle = {}
  /\ p.pending \cap Busy(p) = {}
  /\ p.idle \cap Busy(p) = {}

WorkersAccounted == Accounted(pool)

\* No request is lost or run twice: an unsettled job waits at exactly one
\* place of the queue or is in flight on exactly one worker, whatever
\* crashes, timeouts and recycles happened since requestParse.
Owned(p) ==
  /\ \A i, k \in DOMAIN p.queue : p.queue[i] = p.queue[k] => i = k
  /\ \A v, w \in Workers : p.inflight[v] \in Jobs /\ p.inflight[v] = p.inflight[w] => v = w
  /\ \A i \in DOMAIN p.queue : p.queue[i] \notin {p.inflight[w] : w \in Workers}
  /\ \A j \in Jobs :
       p.jobs[j] = "open" <=> j \in QueuedJobs(p) \cup {p.inflight[w] : w \in Workers}

JobsOwned == Owned(pool)

\* After every handler: queued work implies that no worker is idle and that
\* some worker is left whose next event will drain the queue again.
NoStall == pool.queue # <<>> => pool.idle = {} /\ pool.workers # {}

\* The circuit breaker: crashes plus the workers that can still crash never
\* exceed what the crash budget and the pool size allow, so a broken platform
\* stops respawning (createWorker that throws is counted too).
RespawnBounded ==
  pool.totalCrashes + Cardinality(pool.workers) <= CrashBudget + MaxSize - 1

\* A worker the pool counts as busy with a job really holds that job: it was
\* sent it and parses it, has posted its result, or is dying with it.  A
\* terminated worker never gets a job.
InflightHonest ==
  \A w \in Workers :
    /\ pool.inflight[w] \in Jobs =>
         \/ thread[w].phase \in {"crashed", "exiting"}
         \/ thread[w] \in {At("parsing", pool.inflight[w]), At("parsed", pool.inflight[w])}
    /\ w \in pool.idle => thread[w].phase \in {"waiting", "crashed", "exiting"}
    /\ w \in pool.pending => thread[w].phase \in {"loading", "loaded", "crashed", "exiting"}

\* A destroyed pool is empty and stays so: no late message, exit or timer
\* brings a worker back, and no promise is left open.
DestroyedIsEmpty ==
  pool.destroyed =>
    /\ pool.workers = {} /\ pool.queue = <<>>
    /\ \A j \in Jobs : pool.jobs[j] # "open"

\* The pool implements the contract of its callers: a request is answered once
\* and never again, at most one result per event, nothing is left open by
\* destroy, and (fairness of the contract) every request is answered even if
\* its parse hangs, its worker crashes, or the crash budget runs out.
Contract == INSTANCE ParseRequests WITH promise <- pool.jobs, closed <- pool.destroyed

AnswersEveryRequest == Contract!Spec

=============================================================================
