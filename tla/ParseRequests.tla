---------------------------- MODULE ParseRequests ----------------------------
(***************************************************************************)
(* What the parse pool promises its caller (the doc comments of            *)
(* requestParse and destroy in packages/core/extraction/parse-pool.ts):    *)
(* every request is answered exactly once, with a result or an error, and  *)
(* a destroyed pool answers everything outstanding with an error.  Nothing *)
(* is said here of workers, queues, timers or crashes.                     *)
(***************************************************************************)
CONSTANT Jobs

VARIABLES
  promise, \* promise[j]: the promise requestParse returned for job j
  closed   \* destroy() was called

vars == <<promise, closed>>

Open == {j \in Jobs : promise[j] = "open"}

Init ==
  /\ promise = [j \in Jobs |-> "none"]
  /\ closed = FALSE

\* A request is taken, or refused at once when nothing can ever serve it.
Request(j) ==
  /\ promise[j] = "none"
  /\ \E answer \in {"open", "rejected"} :
       /\ closed => answer = "rejected"
       /\ promise' = [promise EXCEPT ![j] = answer]
  /\ UNCHANGED closed

\* One event of the pool resolves at most one request; it may reject several.
Settle(resolved, rejected) ==
  /\ resolved \cup rejected # {}
  /\ \A j, k \in resolved : j = k
  /\ promise' = [j \in Jobs |-> IF j \in resolved THEN "resolved"
                                ELSE IF j \in rejected THEN "rejected"
                                ELSE promise[j]]

Answer(j) ==
  /\ \E resolved, rejected \in SUBSET Open :
       /\ j \in resolved \cup rejected
       /\ resolved \cap rejected = {}
       /\ Settle(resolved, rejected)
  /\ UNCHANGED closed

Close ==
  /\ ~closed
  /\ closed' = TRUE
  /\ promise' = [j \in Jobs |-> IF j \in Open THEN "rejected" ELSE promise[j]]

Next ==
  \/ \E j \in Jobs : Request(j) \/ Answer(j)
  \/ Close

SafeSpec == Init /\ [][Next]_vars

\* No request waits for ever.
Spec == SafeSpec /\ \A j \in Jobs : WF_vars(Answer(j))
=============================================================================
