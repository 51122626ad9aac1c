----------------------------- MODULE IndexWindow -----------------------------
(***************************************************************************)
(* One full index run: ExtractionOrchestrator.indexAll of                  *)
(* packages/core/extraction/index.ts on the parse pool.                    *)
(*                                                                         *)
(* The main loop reads files in batches and feeds them to the pool inside  *)
(* a bounded window; every parse settles in its own continuation, which    *)
(* buffers the result and commits what is contiguous, in file order.  The  *)
(* main loop runs between two awaits only, so a continuation interleaves   *)
(* with it at the awaits: "reading", "racing", "draining", "retrying" and  *)
(* after every feed (pc).  The pool is here what ParseRequests promises:   *)
(* it answers every request once, in any order.                            *)
(*                                                                         *)
(* A commit may throw (the store is SQLite).  The continuation of the      *)
(* parse that triggered the commit then rejects, and what becomes of the   *)
(* rejection depends on who awaits that promise: the current race or all   *)
(* (indexAll throws), an earlier race (nobody notices), or nobody ever (an *)
(* unhandled rejection, which ends the process).                           *)
(***************************************************************************)
EXTENDS Integers, FiniteSets, Sequences

CONSTANTS
  N,               \* files the scan discovered, in scan order 1..N
  BatchSize,       \* FILE_IO_BATCH_SIZE
  WindowSize,      \* windowSize
  MaxStoreFailures \* bound: commits that throw

ASSUME WindowAssumption ==
  /\ N \in Nat
  /\ BatchSize \in Nat \ {0}
  /\ WindowSize \in Nat \ {0}
  /\ MaxStoreFailures \in Nat

VARIABLES
  pc,       \* where indexAll awaits, or how it ended
  next,     \* the next file of the scan to dispatch
  fileOf,   \* fileOf[s]: the file dispatched with sequence number s
  cursor,   \* nextToStore
  inFlight, \* sequence numbers whose tracked promise is unsettled
  completed,\* the buffer of settled, uncommitted results
  wait,     \* the promises of the current race or all, and its outcome
  raced,    \* sequence numbers some race or all has observed
  stored,   \* the files of the database in order of insertion, whole or partial
  tally,    \* filesIndexed, filesSkipped, filesErrored
  errors,   \* the entry of each file in the errors list
  retry,    \* the retry passes: files left, files that failed again, which pass
  signal,   \* the caller's AbortSignal
  failures  \* commits that threw so far

vars == <<pc, next, fileOf, cursor, inFlight, completed, wait, raced, stored,
          tally, errors, retry, signal, failures>>

window == <<fileOf, cursor, inFlight, completed, wait, raced>>

-----------------------------------------------------------------------------

Files == 1..N

Seqs == 1..Len(fileOf)

\* What a parse ends with: symbols, an empty result, symbols and the error of a
\* WASM heap that broke half way (the extractors of Svelte and its like keep the
\* component node and report "memory access out of bounds"), a result that is
\* only errors (or a timeout), or the exit of its worker.
Outcomes == {"symbols", "nothing", "partial", "broken", "exit"}

Stores(outcome) == outcome \in {"symbols", "nothing", "partial"}

Fails(outcome) == outcome \in {"partial", "broken", "exit"}

NoWait == [on |-> {}, state |-> "none"]

Awaiting(promises) == [on |-> promises, state |-> "pending"]

\* nextSeq - nextToStore >= windowSize, with something left to race on
MustWait(fed, cur, flying) == fed - (cur - 1) >= WindowSize /\ flying # {}

Ended == {"returned", "aborted", "threw", "died"}

\* The files of the database.
FilesOf(rows) == {rows[i].file : i \in DOMAIN rows}

Row(file, outcome) == [file |-> file, whole |-> outcome # "partial"]

\* The counters after the results of the sequence numbers in "done".
Counted(done, buffer) ==
  LET Of(kinds) == Cardinality({s \in done : buffer[s] \in kinds}) IN
  [indexed |-> tally.indexed + Of({"symbols", "partial"}),
   skipped |-> tally.skipped + Of({"nothing"}),
   errored |-> tally.errored + Of({"broken", "exit"})]

-----------------------------------------------------------------------------
(* flushOrdered: commit the contiguous results at the cursor.              *)

\* The members of a set of numbers in ascending order.
Ascending(S) ==
  CHOOSE q \in [1..Cardinality(S) -> S] : \A i, k \in DOMAIN q : i < k => q[i] < q[k]

\* The first sequence number past the contiguous results in the buffer.
RunEnd(buffer) ==
  CHOOSE e \in cursor..(Len(fileOf) + 1) :
    /\ \A s \in cursor..(e - 1) : s \in DOMAIN buffer
    /\ e \notin DOMAIN buffer

\* The rows of what was committed, one for each result that is stored.
Rows(good, buffer) ==
  LET kept == Ascending({s \in good : Stores(buffer[s])}) IN
  [i \in DOMAIN kept |-> Row(fileOf[kept[i]], buffer[kept[i]])]

\* The errors list after the results of "good".
Complaints(good, buffer) ==
  [f \in Files |->
     LET failed == {s \in good : fileOf[s] = f /\ Fails(buffer[s])} IN
     IF failed = {} THEN errors[f] ELSE buffer[CHOOSE s \in failed : TRUE]]

\* Commit the results of "good", in order; those of "thrown" are off the buffer
\* and behind the cursor when their commit throws, and are counted nowhere.
Commit(buffer, good, thrown) ==
  /\ cursor' = cursor + Cardinality(good \cup thrown)
  /\ completed' = [s \in DOMAIN buffer \ (good \cup thrown) |-> buffer[s]]
  /\ stored' = stored \o Rows(good, buffer)
  /\ tally' = Counted(good, buffer)
  /\ errors' = Complaints(good, buffer)
  /\ failures' = failures + Cardinality(thrown)

\* commits whatever has come, in the order of completion
BadFlush(buffer) == Commit(buffer, DOMAIN buffer, {})

Flush(buffer) == Commit(buffer, cursor..(RunEnd(buffer) - 1), {})

\* storeResult throws at sequence number s, and the flush ends there.
FlushThrows(buffer) ==
  /\ failures < MaxStoreFailures
  /\ \E s \in cursor..(RunEnd(buffer) - 1) :
       Stores(buffer[s]) /\ Commit(buffer, cursor..(s - 1), {s})

\* commits whatever has become of the run
BadBuffer(buffer) == Flush(buffer)

\* An aborted run commits nothing any more.
Buffer(buffer) ==
  /\ completed' = buffer
  /\ UNCHANGED <<cursor, stored, tally, errors, failures>>

-----------------------------------------------------------------------------
(* The continuation of the parse with sequence number s.                   *)

\* The tracked promise is fulfilled or rejected: its waiters learn it.
Tell(s, how) ==
  wait' = IF wait.state = "pending" /\ s \in wait.on
          THEN [on |-> IF pc = "draining" THEN wait.on \ {s} ELSE wait.on,
                state |-> IF how = "rejected" THEN "rejected"
                          ELSE IF pc = "draining" /\ wait.on # {s} THEN "pending"
                          ELSE "fulfilled"]
          ELSE wait

Settle(s) ==
  /\ pc # "died"
  /\ inFlight' = inFlight \ {s}
  /\ \E outcome \in Outcomes :
       LET buffer == [t \in DOMAIN completed \cup {s} |->
                        IF t = s THEN outcome ELSE completed[t]]
       IN \/ /\ IF pc = "aborted" THEN Buffer(buffer) ELSE Flush(buffer)
             /\ Tell(s, "fulfilled")
             /\ UNCHANGED pc
          \/ /\ pc # "aborted"
             /\ FlushThrows(buffer)
             /\ Tell(s, "rejected")
             /\ pc' = IF s \in raced THEN pc ELSE "died"
  /\ UNCHANGED <<next, fileOf, raced, retry, signal>>

-----------------------------------------------------------------------------
(* The main loop.                                                          *)

\* The head of the outer loop: the signal is looked at before the reads.
StartBatch ==
  /\ pc = "batch" /\ ~signal
  /\ pc' = "reading"
  /\ UNCHANGED <<next, window, stored, tally, errors, retry, signal, failures>>

\* The reads of the next batch are in: the inner loop begins.
ReadBatch ==
  /\ pc = "reading"
  /\ pc' = "feeding"
  /\ UNCHANGED <<next, window, stored, tally, errors, retry, signal, failures>>

\* one file too many
BadAfterFile(n) == IF n > N + 1 THEN "drain" ELSE IF (n - 1) % BatchSize = 0 THEN "batch" ELSE "feeding"

\* Where the loop goes after it has handled a file.
AfterFile(n) == IF n > N THEN "drain" ELSE IF (n - 1) % BatchSize = 0 THEN "batch" ELSE "feeding"

Counting(kind) == tally' = [tally EXCEPT ![kind] = @ + 1]

\* A file that could not be read, or is larger than MAX_FILE_SIZE.
SkipFile ==
  /\ pc = "feeding" /\ ~signal
  /\ \/ Counting("errored") /\ errors' = [errors EXCEPT ![next] = "read"]
     \/ Counting("skipped") /\ errors' = [errors EXCEPT ![next] = "size"]
  /\ next' = next + 1
  /\ pc' = AfterFile(next')
  /\ UNCHANGED <<window, stored, retry, signal, failures>>

\* feed(): dispatch the parse, and race when the window is full.
Feed ==
  /\ pc = "feeding" /\ ~signal
  /\ fileOf' = Append(fileOf, next)
  /\ inFlight' = inFlight \cup {Len(fileOf')}
  /\ next' = next + 1
  /\ IF MustWait(Len(fileOf'), cursor, inFlight')
     THEN pc' = "racing" /\ wait' = Awaiting(inFlight') /\ raced' = raced \cup inFlight'
     ELSE pc' = AfterFile(next') /\ UNCHANGED <<wait, raced>>
  /\ UNCHANGED <<cursor, completed, stored, tally, errors, retry, signal, failures>>

\* The race is decided: throw, race again, or go on.
Wake ==
  /\ pc = "racing" /\ wait.state # "pending"
  /\ IF wait.state = "rejected"
     THEN pc' = "threw" /\ wait' = NoWait /\ UNCHANGED raced
     ELSE IF MustWait(Len(fileOf), cursor, inFlight)
     THEN pc' = "racing" /\ wait' = Awaiting(inFlight) /\ raced' = raced \cup inFlight
     ELSE pc' = AfterFile(next) /\ wait' = NoWait /\ UNCHANGED raced
  /\ UNCHANGED <<next, fileOf, cursor, inFlight, completed, stored, tally, errors, retry,
                 signal, failures>>

\* The signal is seen at the head of a loop: the pool is destroyed.
Abort ==
  /\ pc \in {"batch", "feeding"} /\ signal
  /\ pc' = "aborted"
  /\ UNCHANGED <<next, window, stored, tally, errors, retry, signal, failures>>

\* await Promise.all(inFlight), without a wait if nothing is in flight.
Drain ==
  /\ pc = "drain"
  /\ pc' = "draining"
  /\ wait' = IF inFlight = {} THEN [NoWait EXCEPT !.state = "fulfilled"] ELSE Awaiting(inFlight)
  /\ raced' = raced \cup inFlight
  /\ UNCHANGED <<next, fileOf, cursor, inFlight, completed, stored, tally, errors, retry,
                 signal, failures>>

\* 'Worker exited' or 'memory access out of bounds'
Retryable == {f \in Files : errors'[f] \in {"exit", "partial"}}

\* Everything has settled: the last flush, then the retry pass or the end.
Drained ==
  /\ pc = "draining" /\ wait.state # "pending"
  /\ wait' = NoWait
  /\ IF wait.state = "rejected"
     THEN /\ pc' = "threw"
          /\ UNCHANGED <<cursor, completed, stored, tally, errors, retry, failures>>
     ELSE \/ /\ Flush(completed)
             /\ pc' = IF signal THEN "aborted" ELSE IF Retryable = {} THEN "returned" ELSE "retrying"
             /\ retry' = [retry EXCEPT !.todo = Retryable, !.pass = IF pc' = "retrying" THEN 1 ELSE 0]
          \/ FlushThrows(completed) /\ pc' = "threw" /\ UNCHANGED retry
  /\ UNCHANGED <<next, fileOf, inFlight, raced, signal>>

-----------------------------------------------------------------------------
(* The retry passes: one file at a time, then once more without comments.  *)

\* The file being retried; errors were pushed in file order.
Current == CHOOSE f \in retry.todo : \A g \in retry.todo : f <= g

RetryEnds == retry.todo = {} \/ signal

\* repeats the first pass until nothing fails
BadNextPass ==
  /\ pc = "retrying" /\ RetryEnds
  /\ IF retry.failing = {}
     THEN pc' = "returned" /\ UNCHANGED retry
     ELSE /\ retry' = [todo |-> retry.failing, failing |-> {}, pass |-> 1]
          /\ UNCHANGED pc
  /\ UNCHANGED <<next, window, stored, tally, errors, signal, failures>>

\* The end of a pass: the second pass takes what failed in the first.
NextPass ==
  /\ pc = "retrying" /\ RetryEnds
  /\ IF retry.failing = {} \/ retry.pass = 2
     THEN pc' = "returned" /\ UNCHANGED retry
     ELSE /\ retry' = [todo |-> retry.failing, failing |-> {}, pass |-> 2]
          /\ UNCHANGED pc
  /\ UNCHANGED <<next, window, stored, tally, errors, signal, failures>>

\* The file is gone or outside the root, or its result is again only errors: it
\* keeps its error.
RetryKept ==
  /\ pc = "retrying" /\ ~RetryEnds
  /\ retry' = [retry EXCEPT !.todo = @ \ {Current}]
  /\ UNCHANGED <<pc, next, window, stored, tally, errors, signal, failures>>

\* The worker crashed again, or the parse timed out.
RetryRejected ==
  /\ pc = "retrying" /\ ~RetryEnds
  /\ retry' = [retry EXCEPT !.todo = @ \ {Current},
                            !.failing = IF retry.pass = 2 THEN @ ELSE @ \cup {Current}]
  /\ UNCHANGED <<pc, next, window, stored, tally, errors, signal, failures>>

\* The retry has a result worth storing: its error entry goes. The store leaves
\* a file alone whose content hash it holds: the rows of a partial result stay.
RetryStored ==
  /\ pc = "retrying" /\ ~RetryEnds
  /\ stored' = IF Current \in FilesOf(stored) THEN stored
               ELSE Append(stored, Row(Current, "symbols"))
  /\ errors' = [errors EXCEPT ![Current] = "none"]
  /\ tally' = [tally EXCEPT !.errored = @ - 1, !.indexed = @ + 1]
  /\ retry' = [retry EXCEPT !.todo = @ \ {Current}]
  /\ UNCHANGED <<pc, next, window, signal, failures>>

\* The stat or the store of the retried file throws out of indexAll.
RetryThrows ==
  /\ pc = "retrying" /\ ~RetryEnds /\ failures < MaxStoreFailures
  /\ pc' = "threw"
  /\ failures' = failures + 1
  /\ UNCHANGED <<next, window, stored, tally, errors, retry, signal>>

-----------------------------------------------------------------------------

\* The caller aborts at any time.
RaiseSignal ==
  /\ pc \notin Ended /\ ~signal
  /\ signal' = TRUE
  /\ UNCHANGED <<pc, next, window, stored, tally, errors, retry, failures>>

Init ==
  /\ pc = IF N = 0 THEN "drain" ELSE "batch"
  /\ next = 1 /\ fileOf = <<>> /\ cursor = 1
  /\ inFlight = {} /\ completed = <<>> /\ wait = NoWait /\ raced = {}
  /\ stored = <<>>
  /\ tally = [indexed |-> 0, skipped |-> 0, errored |-> 0]
  /\ errors = [f \in Files |-> "none"]
  /\ retry = [todo |-> {}, failing |-> {}, pass |-> 0]
  /\ signal = FALSE /\ failures = 0

MainStep ==
  \/ StartBatch \/ ReadBatch \/ SkipFile \/ Feed \/ Wake \/ Abort \/ Drain \/ Drained
  \/ NextPass \/ RetryKept \/ RetryRejected \/ RetryStored \/ RetryThrows

Next ==
  \/ \E s \in inFlight : Settle(s)
  \/ MainStep
  \/ RaiseSignal

Spec == Init /\ [][Next]_vars

(***************************************************************************)
(* Fairness: the event loop runs whatever continuation is ready, and the   *)
(* pool answers every request (AnswersEveryRequest of ParsePool).  Nobody  *)
(* need abort.                                                             *)
(***************************************************************************)
FairSpec == Spec /\ WF_vars(MainStep) /\ WF_vars(\E s \in inFlight : Settle(s))

-----------------------------------------------------------------------------
(* Properties.                                                             *)

\* The type invariant: buffered results are of settled parses, a tally may fall
\* below zero, but not by more than the files, and the window bounds what was
\* dispatched and is not committed, though a slow file holds up the cursor.
TypeOK ==
  /\ Len(fileOf) - (cursor - 1) <= WindowSize
  /\ pc \in {"batch", "reading", "feeding", "racing", "drain", "draining", "retrying"} \cup Ended
  /\ next \in 1..(N + 1)
  /\ fileOf \in Seq(Files) /\ Len(fileOf) <= N
  /\ cursor \in 1..(Len(fileOf) + 1)
  /\ inFlight \subseteq Seqs /\ raced \subseteq Seqs
  /\ DOMAIN completed \subseteq Seqs \ inFlight
  /\ \A s \in DOMAIN completed : completed[s] \in Outcomes
  /\ wait \in [on : SUBSET Seqs, state : {"none", "pending", "fulfilled", "rejected"}]
  /\ stored \in Seq([file : Files, whole : BOOLEAN]) /\ Len(stored) <= N
  /\ tally \in [{"indexed", "skipped", "errored"} -> -N..(2 * N)]
  /\ errors \in [Files -> {"none", "read", "size", "partial", "broken", "exit"}]
  /\ retry \in [todo : SUBSET Files, failing : SUBSET Files, pass : 0..2]
  /\ signal \in BOOLEAN /\ failures \in 0..MaxStoreFailures

\* Results are committed in the order of the scan, whatever the order in which
\* the parses finish, crash or fail to store ("COMMIT results in original file
\* order, not parse-completion order"), and no file is committed twice. Only
\* the retry pass, which begins when every parse has settled, comes after.
CommitOrder ==
  /\ \A i, k \in DOMAIN stored : stored[i].file = stored[k].file => i = k
  /\ retry.pass = 0 =>
       \A i, k \in DOMAIN stored : i < k => stored[i].file < stored[k].file

\* The files whose rows are those of a half-way broken parse.
Partial == {stored[i].file : i \in {k \in DOMAIN stored : ~stored[k].whole}}

\* A file the result list no longer complains of is stored whole: "files that
\* failed due to WASM memory corruption may succeed on a fresh worker", and
\* the retry that succeeds removes the error because it stored the file.
RetryRepairs == \A f \in Partial : errors[f] # "none"

\* When indexAll has returned, normally or aborted, nothing writes to the
\* database any more: the caller closes it. (After a throw parses go on.)
StoreAtRest == pc \in {"returned", "aborted"} => stored' = stored
NoLateWrite == [][StoreAtRest]_vars

\* A run ends, whatever parses crash and whatever commits throw.
Terminates == <>(pc \in Ended)
=============================================================================
