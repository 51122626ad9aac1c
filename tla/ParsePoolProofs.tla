--------------------------- MODULE ParsePoolProofs ---------------------------
(***************************************************************************)
(* Safety of the parse pool for every number of jobs, workers, every pool  *)
(* size, recycle interval and crash budget.                                *)
(***************************************************************************)
EXTENDS ParsePool, FiniteSetTheorems, SequenceTheorems, TLAPS

-----------------------------------------------------------------------------
(* The inductive invariant, as predicates on a pool object: they hold      *)
(* between the steps of a handler too, which the lemmas below use.         *)

\* A worker that may still get a job has not reached its recycle threshold.
Rested(p) == \A w \in p.idle \cup p.pending : p.parseCounts[w] < RecycleInterval

Bounded(p) == p.totalCrashes + Cardinality(p.workers) <= CrashBudget + MaxSize - 1

Sound(p) ==
  /\ p \in PoolFields
  /\ Accounted(p)
  /\ Owned(p)
  /\ Rested(p)
  /\ Bounded(p)

\* Drained: what holds of the queue when a handler ends.
Drained(p) == p.queue # <<>> => p.idle = {} /\ p.workers # {}

-----------------------------------------------------------------------------
(* The fields of the pools that the steps of a handler build.              *)

LEMMA WorkersFinite ==
  ASSUME NEW S \in SUBSET Workers
  PROVE  IsFiniteSet(S) /\ Cardinality(S) \in Nat
BY FS_Subset, FS_CardinalityType, PoolAssumption

LEMMA Fields ==
  ASSUME NEW p \in PoolFields
  PROVE  /\ p.workers \in SUBSET Workers
         /\ p.pending \in SUBSET Workers
         /\ p.idle \in SUBSET Workers
         /\ p.inflight \in [Workers -> Jobs \cup {NoJob}]
         /\ p.parseCounts \in [Workers -> 0..RecycleInterval]
         /\ p.queue \in Seq(Jobs)
         /\ p.jobs \in [Jobs -> {"none", "open", "resolved", "rejected"}]
         /\ p.totalCrashes \in 0..(CrashBudget + MaxSize)
         /\ p.totalCrashes \in Nat
         /\ p.destroyed \in BOOLEAN
BY PoolAssumption DEF PoolFields

LEMMA GrownByType ==
  ASSUME NEW p \in PoolFields, NEW new \in SUBSET Workers, NEW k \in Nat,
         p.totalCrashes + k \in 0..(CrashBudget + MaxSize)
  PROVE  GrownBy(p, new, k) \in PoolFields
<1> DEFINE ws == p.workers \cup new
           pe == p.pending \cup new
           pc == [w \in Workers |-> IF w \in new THEN 0 ELSE p.parseCounts[w]]
           tc == p.totalCrashes + k
<1>1. /\ ws \in SUBSET Workers
      /\ pe \in SUBSET Workers
      /\ pc \in [Workers -> 0..RecycleInterval]
      /\ tc \in 0..(CrashBudget + MaxSize)
  BY Fields, PoolAssumption
<1>2. GrownBy(p, new, k) =
        [p EXCEPT !.workers = ws, !.pending = pe, !.parseCounts = pc, !.totalCrashes = tc]
  BY DEF GrownBy
<1> HIDE DEF ws, pe, pc, tc
<1> QED BY <1>1, <1>2 DEF PoolFields

LEMMA GrownBySets ==
  ASSUME NEW p \in PoolFields, NEW new, NEW k
  PROVE  /\ GrownBy(p, new, k).workers = p.workers \cup new
         /\ GrownBy(p, new, k).pending = p.pending \cup new
BY DEF GrownBy, PoolFields

LEMMA GrownByFrame ==
  ASSUME NEW p \in PoolFields, NEW new, NEW k
  PROVE  /\ GrownBy(p, new, k).idle = p.idle
         /\ GrownBy(p, new, k).inflight = p.inflight
         /\ GrownBy(p, new, k).queue = p.queue
         /\ GrownBy(p, new, k).jobs = p.jobs
         /\ GrownBy(p, new, k).destroyed = p.destroyed
BY DEF GrownBy, PoolFields

LEMMA GrownByCrashes ==
  ASSUME NEW p \in PoolFields, NEW new, NEW k
  PROVE  GrownBy(p, new, k).totalCrashes = p.totalCrashes + k
BY DEF GrownBy, PoolFields

LEMMA GrownByCounts ==
  ASSUME NEW p \in PoolFields, NEW new, NEW k
  PROVE  GrownBy(p, new, k).parseCounts =
           [w \in Workers |-> IF w \in new THEN 0 ELSE p.parseCounts[w]]
BY DEF GrownBy, PoolFields

\* Creating workers keeps a pool sound, if the crash budget allows it.
LEMMA GrownBySound ==
  ASSUME NEW p, Sound(p), NEW new \in SUBSET (Workers \ p.workers), NEW k \in Nat,
         Bounded(GrownBy(p, new, k))
  PROVE  Sound(GrownBy(p, new, k))
<1> DEFINE q == GrownBy(p, new, k)
<1>0. /\ p \in PoolFields /\ Accounted(p) /\ Owned(p) /\ Rested(p)
      /\ new \in SUBSET Workers
  BY DEF Sound
<1>1. q.workers = p.workers \cup new /\ q.pending = p.pending \cup new
  BY <1>0, GrownBySets
<1>2. q.idle = p.idle /\ q.inflight = p.inflight /\ q.queue = p.queue /\ q.jobs = p.jobs
  BY <1>0, GrownByFrame
<1>3. q.totalCrashes = p.totalCrashes + k
  BY <1>0, GrownByCrashes
<1>4. q.parseCounts = [w \in Workers |-> IF w \in new THEN 0 ELSE p.parseCounts[w]]
  BY <1>0, GrownByCounts
<1>5. q \in PoolFields
  <2>1. q.workers \in SUBSET Workers
    BY <1>0, <1>1, Fields
  <2>2. Cardinality(q.workers) \in Nat /\ p.totalCrashes \in Nat
    BY <1>0, <2>1, Fields, WorkersFinite
  <2>3. p.totalCrashes + k \in 0..(CrashBudget + MaxSize)
    BY <1>3, <2>2, PoolAssumption DEF Bounded
  <2> QED BY <1>0, <2>3, GrownByType
<1> HIDE DEF q
<1>6. Accounted(q)
  BY <1>0, <1>1, <1>2 DEF Accounted, Busy
<1>7. Owned(q)
  BY <1>0, <1>2 DEF Owned, QueuedJobs
<1>8. Rested(q)
  BY <1>0, <1>1, <1>2, <1>4, Fields, PoolAssumption DEF Rested, Accounted
<1> QED
  BY <1>5, <1>6, <1>7, <1>8 DEF Sound, q

LEMMA SpawnOneSound ==
  ASSUME NEW p, Sound(p), NEW q \in SpawnOne(p)
  PROVE  Sound(q) /\ q.queue = p.queue /\ q.idle = p.idle
<1>0. p \in PoolFields /\ Bounded(p)
  BY DEF Sound
<1>1. /\ Cardinality(p.workers) \in Nat /\ p.totalCrashes \in Nat
      /\ p.workers \in SUBSET Workers
  BY <1>0, Fields, WorkersFinite
<1>2. CASE Cardinality(p.workers) >= MaxSize \/ ~Healthy(p)
  BY <1>2 DEF SpawnOne
<1>3. CASE Cardinality(p.workers) < MaxSize /\ Healthy(p)
  <2>0. p.totalCrashes < CrashBudget
    BY <1>3 DEF Healthy
  <2>1. q = GrownBy(p, {}, 1) \/ \E w \in Fresh(p) : q = GrownBy(p, {w}, 0)
    <3>1. ~(Cardinality(p.workers) >= MaxSize \/ ~Healthy(p))
      BY <1>1, <1>3, PoolAssumption
    <3> QED BY <3>1, Zenon DEF SpawnOne
  <2>2. PICK new \in SUBSET (Workers \ p.workers), k \in Nat :
          q = GrownBy(p, new, k) /\ Cardinality(p.workers \cup new) + k = Cardinality(p.workers) + 1
    <3>1. CASE q = GrownBy(p, {}, 1)
      <4>1. p.workers \cup {} = p.workers
        OBVIOUS
      <4>2. Cardinality(p.workers \cup {}) + 1 = Cardinality(p.workers) + 1
        BY <4>1
      <4>3. {} \in SUBSET (Workers \ p.workers) /\ 1 \in Nat
        OBVIOUS
      <4> QED BY <3>1, <4>2, <4>3, Zenon
    <3>2. ASSUME NEW w \in Fresh(p), q = GrownBy(p, {w}, 0)
          PROVE  \E new \in SUBSET (Workers \ p.workers), k \in Nat :
                   q = GrownBy(p, new, k)
                   /\ Cardinality(p.workers \cup new) + k = Cardinality(p.workers) + 1
      <4>1. Cardinality(p.workers \cup {w}) = Cardinality(p.workers) + 1
        BY <1>1, WorkersFinite, FS_AddElement DEF Fresh
      <4>2. {w} \in SUBSET (Workers \ p.workers) /\ 0 \in Nat
        BY DEF Fresh
      <4>3. Cardinality(p.workers \cup {w}) + 0 = Cardinality(p.workers) + 1
        BY <1>1, <4>1
      <4> QED BY <3>2, <4>2, <4>3, Zenon
    <3> QED BY <2>1, <3>1, <3>2
  <2>3. q.workers = p.workers \cup new
    BY <1>0, <2>2, GrownBySets
  <2>4. q.totalCrashes = p.totalCrashes + k
    BY <1>0, <2>2, GrownByCrashes
  <2>5. Cardinality(p.workers \cup new) \in Nat
    BY <1>1, <2>2, WorkersFinite
  <2>6. Bounded(q)
    BY <1>1, <1>3, <2>0, <2>2, <2>3, <2>4, <2>5, PoolAssumption DEF Bounded
  <2>7. Sound(q)
    BY <2>2, <2>6, GrownBySound
  <2>8. q.queue = p.queue /\ q.idle = p.idle
    BY <1>0, <2>2, GrownByFrame
  <2> QED BY <2>7, <2>8
<1> QED BY <1>1, <1>2, <1>3, PoolAssumption

LEMMA SpawnIfHealthySound ==
  ASSUME NEW p, Sound(p), NEW q \in SpawnIfHealthy(p)
  PROVE  Sound(q) /\ q.queue = p.queue /\ q.idle = p.idle
BY SpawnOneSound DEF SpawnIfHealthy

-----------------------------------------------------------------------------
(* drain()                                                                 *)

\* The growth loop: its last turn started with room in the pool and in the
\* crash budget.
LEMMA GrowthSound ==
  ASSUME NEW p, Sound(p), NEW new \in SUBSET Fresh(p), NEW k \in 0..CrashBudget,
         GrowthStops(p, new, k)
  PROVE  Sound(GrownBy(p, new, k))
<1>0. /\ p \in PoolFields /\ Bounded(p)
      /\ new \in SUBSET (Workers \ p.workers)
      /\ k \in Nat
  BY PoolAssumption DEF Sound, Fresh
<1>1. /\ p.workers \in SUBSET Workers /\ p.totalCrashes \in Nat
      /\ p.workers \cup new \in SUBSET Workers
      /\ Cardinality(p.workers) \in Nat
      /\ Cardinality(p.workers \cup new) \in Nat
  BY <1>0, Fields, WorkersFinite
<1>2. p.totalCrashes + k + Cardinality(p.workers \cup new) <= CrashBudget + MaxSize - 1
  <2>1. CASE new = {} /\ k = 0
    <3>1. p.workers \cup new = p.workers
      BY <2>1
    <3> QED BY <1>0, <1>1, <2>1, <3>1 DEF Bounded
  <2>2. ASSUME NEW w \in new, MayGrow(GrownBy(p, new \ {w}, k))
        PROVE  p.totalCrashes + k + Cardinality(p.workers \cup new) <= CrashBudget + MaxSize - 1
    <3> DEFINE r == GrownBy(p, new \ {w}, k)
    <3>1. r.workers = p.workers \cup (new \ {w})
      BY <1>0, GrownBySets
    <3>2. r.totalCrashes = p.totalCrashes + k
      BY <1>0, GrownByCrashes
    <3>3. Cardinality(r.workers) < MaxSize /\ r.totalCrashes < CrashBudget
      BY <2>2 DEF MayGrow, Healthy
    <3> HIDE DEF r
    <3>4. r.workers \in SUBSET Workers /\ r.workers \cup {w} = p.workers \cup new
      BY <1>0, <1>1, <3>1
    <3>5. Cardinality(p.workers \cup new) <= Cardinality(r.workers) + 1
      BY <3>4, WorkersFinite, FS_AddElement
    <3>6. Cardinality(r.workers) \in Nat
      BY <3>4, WorkersFinite
    <3> QED BY <1>0, <1>1, <3>2, <3>3, <3>5, <3>6, PoolAssumption
  <2>3. CASE k > 0 /\ MayGrow(GrownBy(p, new, k - 1))
    <3> DEFINE r == GrownBy(p, new, k - 1)
    <3>1. r.workers = p.workers \cup new
      BY <1>0, GrownBySets
    <3>2. r.totalCrashes = p.totalCrashes + (k - 1)
      BY <1>0, GrownByCrashes
    <3>3. Cardinality(r.workers) < MaxSize /\ r.totalCrashes < CrashBudget
      BY <2>3 DEF MayGrow, Healthy
    <3> HIDE DEF r
    <3> QED BY <1>0, <1>1, <2>3, <3>1, <3>2, <3>3, PoolAssumption
  <2> QED BY <2>1, <2>2, <2>3 DEF GrowthStops
<1>3. GrownBy(p, new, k).workers = p.workers \cup new
  BY <1>0, GrownBySets
<1>4. GrownBy(p, new, k).totalCrashes = p.totalCrashes + k
  BY <1>0, GrownByCrashes
<1>5. Bounded(GrownBy(p, new, k))
  BY <1>2, <1>3, <1>4 DEF Bounded
<1> QED BY <1>0, <1>5, GrownBySound

\* The dispatch loop moves jobs from the head of the queue to idle workers.
LEMMA DispatchedSound ==
  ASSUME NEW p, Sound(p), NEW taken \in SUBSET p.idle, NEW n \in 0..Len(p.queue),
         NEW take \in [taken -> 1..n], IsAssignment(take, taken, n)
  PROVE  Sound(Dispatched(p, taken, take, n))
<1> DEFINE q == Dispatched(p, taken, take, n)
           fl == [w \in Workers |-> IF w \in taken THEN p.queue[take[w]] ELSE p.inflight[w]]
           pc == [w \in Workers |-> IF w \in taken THEN p.parseCounts[w] + 1
                                                  ELSE p.parseCounts[w]]
           qu == SubSeq(p.queue, n + 1, Len(p.queue))
           id == p.idle \ taken
<1>0. /\ p \in PoolFields /\ Accounted(p) /\ Owned(p) /\ Rested(p) /\ Bounded(p)
      /\ n \in Nat
  BY Fields, LenProperties DEF Sound
<1>1. /\ p.workers \in SUBSET Workers /\ p.idle \in SUBSET Workers
      /\ p.inflight \in [Workers -> Jobs \cup {NoJob}]
      /\ p.parseCounts \in [Workers -> 0..RecycleInterval]
      /\ p.queue \in Seq(Jobs)
      /\ Len(p.queue) \in Nat /\ DOMAIN p.queue = 1..Len(p.queue)
      /\ \A i \in 1..Len(p.queue) : p.queue[i] \in Jobs
  BY <1>0, Fields, LenProperties, ElementOfSeq
<1>2. \A w \in taken : take[w] \in 1..Len(p.queue) /\ take[w] \in 1..n
  BY <1>0, <1>1
<1>3. fl \in [Workers -> Jobs \cup {NoJob}]
  BY <1>1, <1>2
<1>4. pc \in [Workers -> 0..RecycleInterval]
  BY <1>0, <1>1, PoolAssumption DEF Rested
<1>5. /\ qu \in Seq(Jobs)
      /\ Len(qu) = Len(p.queue) - n
      /\ DOMAIN qu = 1..(Len(p.queue) - n)
      /\ \A i \in 1..(Len(p.queue) - n) : qu[i] = p.queue[n + i]
  <2>1. \A i \in (n + 1)..Len(p.queue) : p.queue[i] \in Jobs
    BY <1>0, <1>1
  <2>2. /\ n + 1 \in Int /\ Len(p.queue) \in Int
        /\ Len(p.queue) - (n + 1) + 1 = Len(p.queue) - n
    BY <1>0, <1>1
  <2>3. /\ qu \in Seq(Jobs)
        /\ Len(qu) = IF n + 1 <= Len(p.queue) THEN Len(p.queue) - (n + 1) + 1 ELSE 0
        /\ \A i \in 1..(Len(p.queue) - (n + 1) + 1) : qu[i] = p.queue[n + 1 + i - 1]
    BY <2>1, <2>2, SubSeqProperties
  <2>4. Len(qu) = Len(p.queue) - n
    BY <1>0, <1>1, <2>3
  <2>5. \A i \in 1..(Len(p.queue) - n) : qu[i] = p.queue[n + i]
    BY <1>0, <1>1, <2>2, <2>3
  <2> QED BY <2>3, <2>4, <2>5, LenProperties
<1>6. q = [p EXCEPT !.idle = id, !.queue = qu, !.inflight = fl, !.parseCounts = pc]
  BY DEF Dispatched
<1>7. id \in SUBSET Workers
  BY <1>1
<1>8. /\ \A w \in Workers : fl[w] = IF w \in taken THEN p.queue[take[w]] ELSE p.inflight[w]
      /\ \A w \in Workers \ taken : pc[w] = p.parseCounts[w]
      /\ id = p.idle \ taken
  OBVIOUS
<1> HIDE DEF q, fl, pc, qu, id
<1>9. q \in PoolFields
  BY <1>0, <1>3, <1>4, <1>5, <1>6, <1>7 DEF PoolFields
<1>10. /\ q.idle = id /\ q.queue = qu /\ q.inflight = fl /\ q.parseCounts = pc
       /\ q.workers = p.workers /\ q.pending = p.pending /\ q.jobs = p.jobs
       /\ q.totalCrashes = p.totalCrashes
  BY <1>0, <1>6 DEF PoolFields
<1>11. Accounted(q)
  <2>1. Busy(q) = Busy(p) \cup taken
    BY <1>1, <1>2, <1>8, <1>10 DEF Busy
  <2> QED BY <1>0, <1>8, <1>10, <2>1 DEF Accounted
<1>12. Rested(q)
  BY <1>0, <1>1, <1>8, <1>10, Fields DEF Rested, Accounted
<1>13. Bounded(q)
  BY <1>0, <1>10 DEF Bounded
<1>14. Owned(q)
  <2>1. /\ DOMAIN q.queue = 1..(Len(p.queue) - n)
        /\ \A i \in 1..(Len(p.queue) - n) :
             q.queue[i] = p.queue[n + i] /\ n + i \in 1..Len(p.queue) /\ n + i \notin 1..n
    BY <1>0, <1>1, <1>5, <1>10
  <2>2. \A w \in Workers :
          q.inflight[w] = IF w \in taken THEN p.queue[take[w]] ELSE p.inflight[w]
    BY <1>8, <1>10
  <2>3. \A w \in taken : w \in Workers /\ p.inflight[w] \notin Jobs
    BY <1>0, <1>1 DEF Accounted, Busy
  <2>4. \A i, k \in 1..Len(p.queue) : p.queue[i] = p.queue[k] => i = k
    BY <1>0, <1>1 DEF Owned
  <2>5. \A i \in 1..Len(p.queue), w \in Workers : p.queue[i] # p.inflight[w]
    BY <1>0, <1>1 DEF Owned
  <2>6. \A v, w \in taken : take[v] = take[w] => v = w
    BY DEF IsAssignment
  <2>7. \A i \in 1..n : \E w \in taken : take[w] = i
    BY DEF IsAssignment
  <2>8. \A i, k \in DOMAIN q.queue : q.queue[i] = q.queue[k] => i = k
    <3> SUFFICES ASSUME NEW i \in 1..(Len(p.queue) - n), NEW k \in 1..(Len(p.queue) - n),
                        q.queue[i] = q.queue[k]
                 PROVE  i = k
      BY <2>1
    <3>1. n + i = n + k
      BY <2>1, <2>4
    <3> QED BY <3>1, <1>0, <1>1
  <2>9. ASSUME NEW v \in Workers, NEW w \in Workers,
               q.inflight[v] \in Jobs, q.inflight[v] = q.inflight[w]
        PROVE  v = w
    <3>1. CASE v \in taken /\ w \in taken
      BY <3>1, <2>9, <2>2, <2>4, <2>6, <1>2
    <3>2. CASE v \notin taken /\ w \notin taken
      BY <3>2, <2>9, <2>2, <1>0 DEF Owned
    <3>3. CASE v \in taken /\ w \notin taken
      BY <3>3, <2>9, <2>2, <2>5, <1>2
    <3>4. CASE v \notin taken /\ w \in taken
      BY <3>4, <2>9, <2>2, <2>5, <1>2
    <3> QED BY <3>1, <3>2, <3>3, <3>4
  <2>10. ASSUME NEW i \in DOMAIN q.queue, NEW w \in Workers
         PROVE  q.queue[i] # q.inflight[w]
    <3>1. n + i \in 1..Len(p.queue) /\ n + i \notin 1..n /\ q.queue[i] = p.queue[n + i]
      BY <2>1, <2>10
    <3>2. CASE w \in taken
      BY <3>1, <3>2, <2>2, <2>4, <1>2
    <3>3. CASE w \notin taken
      BY <3>1, <3>3, <2>2, <2>5
    <3> QED BY <3>2, <3>3
  <2>11. ASSUME NEW j \in Jobs
         PROVE  j \in QueuedJobs(q) \cup {q.inflight[w] : w \in Workers}
                <=> j \in QueuedJobs(p) \cup {p.inflight[w] : w \in Workers}
    <3>1. ASSUME NEW i \in DOMAIN q.queue, j = q.queue[i]
          PROVE  \E k \in 1..Len(p.queue) : j = p.queue[k]
      BY <3>1, <2>1
    <3>2. ASSUME NEW w \in Workers, j = q.inflight[w]
          PROVE  \/ \E k \in 1..Len(p.queue) : j = p.queue[k]
                 \/ \E v \in Workers : j = p.inflight[v]
      BY <3>2, <2>2, <1>2
    <3>3. ASSUME NEW k \in 1..Len(p.queue), j = p.queue[k]
          PROVE  \/ \E i \in DOMAIN q.queue : j = q.queue[i]
                 \/ \E w \in Workers : j = q.inflight[w]
      <4>1. CASE k \in 1..n
        BY <3>3, <4>1, <2>2, <2>3, <2>7
      <4>2. CASE k \notin 1..n
        <5>1. k - n \in 1..(Len(p.queue) - n) /\ n + (k - n) = k
          BY <4>2, <1>0, <1>1
        <5> QED BY <3>3, <5>1, <2>1
      <4> QED BY <4>1, <4>2
    <3>4. ASSUME NEW w \in Workers, j = p.inflight[w]
          PROVE  j = q.inflight[w]
      BY <3>4, <2>2, <2>3
    <3> QED BY <3>1, <3>2, <3>3, <3>4, <1>1 DEF QueuedJobs
  <2>12. q.jobs = p.jobs
    BY <1>10
  <2>13. \A j \in Jobs : p.jobs[j] = "open"
            <=> j \in QueuedJobs(p) \cup {p.inflight[w] : w \in Workers}
    BY <1>0 DEF Owned
  <2> QED BY <2>8, <2>9, <2>10, <2>11, <2>12, <2>13 DEF Owned
<1> QED BY <1>9, <1>11, <1>12, <1>13, <1>14 DEF Sound, q

\* Hang prevention: no job is queued while the pool has nobody left to run it.
LEMMA FailStrandedSound ==
  ASSUME NEW p, Sound(p)
  PROVE  /\ Sound(FailStranded(p))
         /\ (p.queue # <<>> => p.idle = {}) => Drained(FailStranded(p))
<1> DEFINE q == FailStranded(p)
<1>0. p \in PoolFields /\ Accounted(p) /\ Owned(p) /\ Rested(p) /\ Bounded(p)
  BY DEF Sound
<1>1. CASE ~(p.queue # <<>> /\ p.idle = {} /\ p.pending = {} /\ p.workers = {})
  <2>1. q = p
    BY <1>1 DEF FailStranded
  <2>2. (p.queue # <<>> => p.idle = {}) => Drained(p)
    BY <1>0, <1>1 DEF Drained, Accounted
  <2> QED BY <2>1, <2>2
<1>2. CASE p.queue # <<>> /\ p.idle = {} /\ p.pending = {} /\ p.workers = {}
  <2> DEFINE js == [j \in Jobs |-> IF j \in QueuedJobs(p) /\ p.jobs[j] = "open"
                                   THEN "rejected" ELSE p.jobs[j]]
             qu == << >>
  <2>1. q = [p EXCEPT !.queue = qu, !.jobs = js]
    BY <1>2 DEF FailStranded
  <2>2. js \in [Jobs -> {"none", "open", "resolved", "rejected"}]
    BY <1>0, Fields
  <2>3. qu \in Seq(Jobs) /\ DOMAIN qu = {}
    OBVIOUS
  <2>4. \A j \in Jobs : js[j] = "open" <=> p.jobs[j] = "open" /\ j \notin QueuedJobs(p)
    BY <1>0, Fields
  <2> HIDE DEF q, js, qu
  <2>5. q \in PoolFields
    BY <1>0, <2>1, <2>2, <2>3 DEF PoolFields
  <2>6. /\ q.queue = qu /\ q.jobs = js
        /\ q.workers = p.workers /\ q.pending = p.pending /\ q.idle = p.idle
        /\ q.inflight = p.inflight /\ q.parseCounts = p.parseCounts
        /\ q.totalCrashes = p.totalCrashes
    BY <1>0, <2>1 DEF PoolFields
  <2>7. \A w \in Workers : p.inflight[w] \notin Jobs
    BY <1>0, <1>2 DEF Accounted, Busy
  <2>8. Accounted(q) /\ Rested(q) /\ Bounded(q)
    BY <1>0, <2>6 DEF Accounted, Busy, Rested, Bounded
  <2>9. \A j \in Jobs : q.jobs[j] # "open"
    BY <1>0, <2>4, <2>6, <2>7 DEF Owned
  <2>10. Owned(q)
    BY <2>3, <2>6, <2>7, <2>9 DEF Owned, QueuedJobs
  <2>11. Drained(q)
    BY <2>6 DEF Drained, qu
  <2> QED BY <2>5, <2>8, <2>10, <2>11 DEF Sound, q
<1> QED BY <1>1, <1>2

LEMMA DispatchedIdle ==
  ASSUME NEW p, Sound(p), NEW taken \in SUBSET p.idle, NEW n \in 0..Len(p.queue),
         NEW take, taken = p.idle \/ n = Len(p.queue)
  PROVE  Dispatched(p, taken, take, n).queue # <<>> => Dispatched(p, taken, take, n).idle = {}
<1> DEFINE q == Dispatched(p, taken, take, n)
<1>1. p \in PoolFields /\ p.queue \in Seq(Jobs) /\ Len(p.queue) \in Nat
  BY Fields, LenProperties DEF Sound
<1>2. q.queue = SubSeq(p.queue, n + 1, Len(p.queue)) /\ q.idle = p.idle \ taken
  BY <1>1 DEF Dispatched, PoolFields
<1>3. n = Len(p.queue) => SubSeq(p.queue, n + 1, Len(p.queue)) = <<>>
  BY <1>1
<1> QED BY <1>2, <1>3

\* A handler that ends with drain() leaves a sound and drained pool.
LEMMA DrainSound ==
  ASSUME NEW p, Sound(p), Drain(p)
  PROVE  Sound(pool') /\ Drained(pool')
<1>1. PICK new \in SUBSET Fresh(p), k \in 0..CrashBudget :
        GrowthStops(p, new, k) /\ DispatchAndFail(GrownBy(p, new, k))
  BY DEF Drain
<1> DEFINE g == GrownBy(p, new, k)
<1>2. Sound(g)
  BY <1>1, GrowthSound
<1> HIDE DEF g
<1>3. PICK taken \in SUBSET g.idle, n \in 0..Len(g.queue) :
        /\ taken = g.idle \/ n = Len(g.queue)
        /\ \E take \in [taken -> 1..n] :
             /\ IsAssignment(take, taken, n)
             /\ pool' = FailStranded(Dispatched(g, taken, take, n))
  BY <1>1 DEF DispatchAndFail, g
<1>4. PICK take \in [taken -> 1..n] :
        /\ IsAssignment(take, taken, n)
        /\ pool' = FailStranded(Dispatched(g, taken, take, n))
  BY <1>3
<1> DEFINE d == Dispatched(g, taken, take, n)
<1>5. Sound(d)
  BY <1>2, <1>4, DispatchedSound
<1>6. d.queue # <<>> => d.idle = {}
  BY <1>2, <1>3, DispatchedIdle
<1>7. pool' = FailStranded(d)
  BY <1>4
<1> HIDE DEF d
<1> QED BY <1>5, <1>6, <1>7, FailStrandedSound

-----------------------------------------------------------------------------
(* What growth and dispatch do to the workers of a pool: new workers are   *)
(* fresh and start, only a worker that was idle gets a job, and a promise  *)
(* is rejected at most, and only when no worker is left.                   *)

Evolves(p, q) ==
  /\ p.workers \subseteq q.workers
  /\ p.pending \subseteq q.pending
  /\ q.pending \ p.pending \subseteq q.workers \ p.workers
  /\ q.workers \ p.workers \subseteq Fresh(p) \cap q.pending
  /\ q.idle \subseteq p.idle
  /\ \A w \in Workers : q.inflight[w] # p.inflight[w] => w \in p.idle
  /\ \A j \in Jobs : q.jobs[j] = p.jobs[j] \/ (p.jobs[j] = "open" /\ q.jobs[j] = "rejected")
  /\ p.workers # {} => \A j \in Jobs : q.jobs[j] = p.jobs[j]
  /\ q.destroyed = p.destroyed

LEMMA EvolvesTransitive ==
  ASSUME NEW p, NEW q, NEW r, Evolves(p, q), Evolves(q, r),
         p.pending \subseteq p.workers, q.pending \subseteq q.workers
  PROVE  Evolves(p, r)
<1>1. Fresh(q) \subseteq Fresh(p)
  BY DEF Evolves, Fresh
<1>2. /\ p.workers \subseteq r.workers /\ p.pending \subseteq r.pending
      /\ r.workers \ p.workers \subseteq Fresh(p) \cap r.pending
      /\ r.idle \subseteq p.idle
  BY <1>1 DEF Evolves
<1>3. r.pending \ p.pending \subseteq r.workers \ p.workers
  BY DEF Evolves
<1>4. \A w \in Workers : r.inflight[w] # p.inflight[w] => w \in p.idle
  BY DEF Evolves
<1>5. /\ \A j \in Jobs : r.jobs[j] = p.jobs[j] \/ (p.jobs[j] = "open" /\ r.jobs[j] = "rejected")
      /\ p.workers # {} => \A j \in Jobs : r.jobs[j] = p.jobs[j]
  BY DEF Evolves
<1>6. r.destroyed = p.destroyed
  BY DEF Evolves
<1> QED BY <1>2, <1>3, <1>4, <1>5, <1>6 DEF Evolves

LEMMA GrownByEvolves ==
  ASSUME NEW p, Sound(p), NEW new \in SUBSET Fresh(p), NEW k
  PROVE  Evolves(p, GrownBy(p, new, k))
<1> DEFINE q == GrownBy(p, new, k)
<1>1. p \in PoolFields /\ Accounted(p)
  BY DEF Sound
<1>2. q.workers = p.workers \cup new /\ q.pending = p.pending \cup new
  BY <1>1, GrownBySets
<1>3. /\ q.idle = p.idle /\ q.inflight = p.inflight /\ q.jobs = p.jobs
      /\ q.destroyed = p.destroyed
  BY <1>1, GrownByFrame
<1> HIDE DEF q
<1>4. new \cap p.workers = {}
  BY DEF Fresh
<1> QED BY <1>1, <1>2, <1>3, <1>4 DEF Evolves, q

LEMMA SpawnIfHealthyEvolves ==
  ASSUME NEW p, Sound(p), NEW q \in SpawnIfHealthy(p)
  PROVE  Evolves(p, q)
<1>1. CASE q = p
  BY <1>1 DEF Evolves
<1>2. CASE q = GrownBy(p, {}, 1)
  BY <1>2, GrownByEvolves
<1>3. ASSUME NEW w \in Fresh(p), q = GrownBy(p, {w}, 0)
      PROVE  Evolves(p, q)
  <2>1. {w} \in SUBSET Fresh(p)
    OBVIOUS
  <2> QED BY <1>3, <2>1, GrownByEvolves
<1>4. q = p \/ q = GrownBy(p, {}, 1) \/ \E w \in Fresh(p) : q = GrownBy(p, {w}, 0)
  BY Zenon DEF SpawnIfHealthy, SpawnOne
<1> QED BY <1>1, <1>2, <1>3, <1>4

LEMMA DispatchedEvolves ==
  ASSUME NEW p, Sound(p), NEW taken \in SUBSET p.idle, NEW n, NEW take
  PROVE  Evolves(p, Dispatched(p, taken, take, n))
<1> DEFINE q == Dispatched(p, taken, take, n)
           fl == [w \in Workers |-> IF w \in taken THEN p.queue[take[w]] ELSE p.inflight[w]]
<1>1. p \in PoolFields
  BY DEF Sound
<1>2. /\ q.workers = p.workers /\ q.pending = p.pending /\ q.idle = p.idle \ taken
      /\ q.jobs = p.jobs /\ q.destroyed = p.destroyed
  BY <1>1 DEF Dispatched, PoolFields
<1>3. q.inflight = fl
  BY <1>1 DEF Dispatched, PoolFields
<1>4. \A w \in Workers : fl[w] # p.inflight[w] => w \in p.idle
  OBVIOUS
<1> HIDE DEF q, fl
<1> QED BY <1>2, <1>3, <1>4 DEF Evolves, q

LEMMA FailStrandedEvolves ==
  ASSUME NEW p, Sound(p)
  PROVE  Evolves(p, FailStranded(p))
<1> DEFINE q == FailStranded(p)
<1>1. p \in PoolFields /\ p.jobs \in [Jobs -> {"none", "open", "resolved", "rejected"}]
  BY Fields DEF Sound
<1>2. /\ q.workers = p.workers /\ q.pending = p.pending /\ q.idle = p.idle
      /\ q.inflight = p.inflight /\ q.destroyed = p.destroyed
  BY <1>1 DEF FailStranded, PoolFields
<1>3. /\ \A j \in Jobs : q.jobs[j] = p.jobs[j] \/ (p.jobs[j] = "open" /\ q.jobs[j] = "rejected")
      /\ p.workers # {} => q.jobs = p.jobs
  BY <1>1 DEF FailStranded, PoolFields
<1> HIDE DEF q
<1> QED BY <1>2, <1>3 DEF Evolves, q

LEMMA DrainEvolves ==
  ASSUME NEW p, Sound(p), Drain(p)
  PROVE  Evolves(p, pool')
<1>1. PICK new \in SUBSET Fresh(p), k \in 0..CrashBudget :
        GrowthStops(p, new, k) /\ DispatchAndFail(GrownBy(p, new, k))
  BY DEF Drain
<1> DEFINE g == GrownBy(p, new, k)
<1>2. Sound(g) /\ Evolves(p, g)
  BY <1>1, GrowthSound, GrownByEvolves
<1> HIDE DEF g
<1>3. PICK taken \in SUBSET g.idle, n \in 0..Len(g.queue) :
        \E take \in [taken -> 1..n] :
          /\ IsAssignment(take, taken, n)
          /\ pool' = FailStranded(Dispatched(g, taken, take, n))
  BY <1>1 DEF DispatchAndFail, g
<1>4. PICK take \in [taken -> 1..n] :
        /\ IsAssignment(take, taken, n)
        /\ pool' = FailStranded(Dispatched(g, taken, take, n))
  BY <1>3
<1> DEFINE d == Dispatched(g, taken, take, n)
<1>5. Sound(d) /\ Evolves(g, d)
  BY <1>2, <1>4, DispatchedSound, DispatchedEvolves
<1>6. pool' = FailStranded(d)
  BY <1>4
<1> HIDE DEF d
<1>7. Evolves(d, pool')
  BY <1>5, <1>6, FailStrandedEvolves
<1>8. p.pending \subseteq p.workers /\ g.pending \subseteq g.workers /\ d.pending \subseteq d.workers
  BY <1>2, <1>5 DEF Sound, Accounted
<1>9. Evolves(p, d)
  BY <1>2, <1>5, <1>8, EvolvesTransitive
<1> QED BY <1>7, <1>8, <1>9, EvolvesTransitive

\* The pool with the workers of the current one.
SameWorkers(p) ==
  /\ p.workers = pool.workers
  /\ p.pending = pool.pending
  /\ p.idle = pool.idle
  /\ p.inflight = pool.inflight
  /\ p.destroyed = pool.destroyed

\* The promise of job j is open, or rejected at once.
Requested(p, j) ==
  \E answer \in {"open", "rejected"} :
    p.jobs = [pool.jobs EXCEPT ![j] = answer] /\ (pool.destroyed => answer = "rejected")

\* The pool when worker w has loaded its grammars.
Ready(p, w) ==
  /\ p.workers = pool.workers
  /\ p.pending = pool.pending \ {w}
  /\ p.idle = pool.idle \cup {w}
  /\ p.inflight = pool.inflight
  /\ p.jobs = pool.jobs
  /\ p.destroyed = pool.destroyed

\* The pool without its idle workers.
Unidle(p) ==
  /\ p.workers = pool.workers \ pool.idle
  /\ p.pending = pool.pending
  /\ p.idle = {}
  /\ p.inflight = pool.inflight
  /\ p.jobs = pool.jobs
  /\ p.destroyed = pool.destroyed

\* The pool when worker w has been dropped, with its job and from every field.
Dropped(p, w) ==
  /\ p.workers = pool.workers \ {w}
  /\ p.pending = pool.pending \ {w}
  /\ p.idle = pool.idle \ {w}
  /\ p.inflight = [pool.inflight EXCEPT ![w] = NoJob]
  /\ p.destroyed = pool.destroyed

\* The pool when worker w is idle again and its job is settled.
IdleAgain(p, w) ==
  /\ p.workers = pool.workers
  /\ p.pending = pool.pending
  /\ p.idle = pool.idle \cup {w}
  /\ p.inflight = [pool.inflight EXCEPT ![w] = NoJob]
  /\ p.jobs[pool.inflight[w]] # "open"
  /\ p.destroyed = pool.destroyed

-----------------------------------------------------------------------------
(* The steps of a handler that release a worker from its job.              *)

LEMMA UnassignType ==
  ASSUME NEW p \in PoolFields, NEW w \in Workers
  PROVE  Unassign(p, w) \in PoolFields
<1> DEFINE fl == [p.inflight EXCEPT ![w] = NoJob]
<1>1. fl \in [Workers -> Jobs \cup {NoJob}]
  BY Fields
<1>2. Unassign(p, w) = [p EXCEPT !.inflight = fl]
  BY DEF Unassign
<1> HIDE DEF fl
<1> QED BY <1>1, <1>2 DEF PoolFields

LEMMA UnassignFrame ==
  ASSUME NEW p \in PoolFields, NEW w
  PROVE  /\ Unassign(p, w).workers = p.workers
         /\ Unassign(p, w).pending = p.pending
         /\ Unassign(p, w).idle = p.idle
         /\ Unassign(p, w).parseCounts = p.parseCounts
         /\ Unassign(p, w).queue = p.queue
         /\ Unassign(p, w).jobs = p.jobs
         /\ Unassign(p, w).totalCrashes = p.totalCrashes
         /\ Unassign(p, w).destroyed = p.destroyed
BY DEF Unassign, PoolFields

LEMMA UnassignInflight ==
  ASSUME NEW p \in PoolFields, NEW w
  PROVE  Unassign(p, w).inflight = [p.inflight EXCEPT ![w] = NoJob]
BY DEF Unassign, PoolFields

LEMMA SettleType ==
  ASSUME NEW p \in PoolFields, NEW j, NEW outcome \in {"resolved", "rejected"}
  PROVE  Settle(p, j, outcome) \in PoolFields
<1> DEFINE js == [p.jobs EXCEPT ![j] = outcome]
<1>1. js \in [Jobs -> {"none", "open", "resolved", "rejected"}]
  BY Fields
<1>2. Settle(p, j, outcome) \in {p, [p EXCEPT !.jobs = js]}
  BY DEF Settle
<1> HIDE DEF js
<1> QED BY <1>1, <1>2 DEF PoolFields

LEMMA SettleFrame ==
  ASSUME NEW p \in PoolFields, NEW j, NEW outcome
  PROVE  /\ Settle(p, j, outcome).workers = p.workers
         /\ Settle(p, j, outcome).pending = p.pending
         /\ Settle(p, j, outcome).idle = p.idle
         /\ Settle(p, j, outcome).inflight = p.inflight
         /\ Settle(p, j, outcome).parseCounts = p.parseCounts
         /\ Settle(p, j, outcome).queue = p.queue
         /\ Settle(p, j, outcome).totalCrashes = p.totalCrashes
         /\ Settle(p, j, outcome).destroyed = p.destroyed
BY DEF Settle, PoolFields

LEMMA SettleJobs ==
  ASSUME NEW p \in PoolFields, NEW j, NEW outcome
  PROVE  Settle(p, j, outcome).jobs =
           IF j \in Jobs /\ p.jobs[j] = "open" THEN [p.jobs EXCEPT ![j] = outcome] ELSE p.jobs
BY DEF Settle, PoolFields

LEMMA RemoveWorkerType ==
  ASSUME NEW p \in PoolFields, NEW w \in Workers
  PROVE  RemoveWorker(p, w) \in PoolFields
<1> DEFINE ws == p.workers \ {w}
           pe == p.pending \ {w}
           id == p.idle \ {w}
           pc == [p.parseCounts EXCEPT ![w] = 0]
<1>1. /\ ws \in SUBSET Workers /\ pe \in SUBSET Workers /\ id \in SUBSET Workers
      /\ pc \in [Workers -> 0..RecycleInterval]
  BY Fields, PoolAssumption
<1>2. RemoveWorker(p, w) =
        [p EXCEPT !.workers = ws, !.pending = pe, !.parseCounts = pc, !.idle = id]
  BY DEF RemoveWorker
<1> HIDE DEF ws, pe, id, pc
<1> QED BY <1>1, <1>2 DEF PoolFields

LEMMA RemoveWorkerSets ==
  ASSUME NEW p \in PoolFields, NEW w
  PROVE  /\ RemoveWorker(p, w).workers = p.workers \ {w}
         /\ RemoveWorker(p, w).pending = p.pending \ {w}
         /\ RemoveWorker(p, w).idle = p.idle \ {w}
         /\ RemoveWorker(p, w).parseCounts = [p.parseCounts EXCEPT ![w] = 0]
BY DEF RemoveWorker, PoolFields

LEMMA RemoveWorkerFrame ==
  ASSUME NEW p \in PoolFields, NEW w
  PROVE  /\ RemoveWorker(p, w).inflight = p.inflight
         /\ RemoveWorker(p, w).queue = p.queue
         /\ RemoveWorker(p, w).jobs = p.jobs
         /\ RemoveWorker(p, w).totalCrashes = p.totalCrashes
         /\ RemoveWorker(p, w).destroyed = p.destroyed
BY DEF RemoveWorker, PoolFields

\* q is p after the job of worker w, if it had one, was settled.
Released(p, q, w, outcome) ==
  /\ q.queue = p.queue
  /\ q.inflight = [p.inflight EXCEPT ![w] = NoJob]
  /\ q.jobs = IF p.inflight[w] \in Jobs
              THEN [p.jobs EXCEPT ![p.inflight[w]] = outcome] ELSE p.jobs

LEMMA ReleasedOwned ==
  ASSUME NEW p, Sound(p), NEW q, NEW w \in Workers, NEW outcome \in {"resolved", "rejected"},
         Released(p, q, w, outcome)
  PROVE  Owned(q)
<1>1. /\ p.inflight \in [Workers -> Jobs \cup {NoJob}]
      /\ p.jobs \in [Jobs -> {"none", "open", "resolved", "rejected"}]
      /\ Owned(p) /\ NoJob \notin Jobs
  BY Fields, PoolAssumption DEF Sound
<1>2. /\ \A v \in Workers : q.inflight[v] = IF v = w THEN NoJob ELSE p.inflight[v]
      /\ q.queue = p.queue
      /\ \A j \in Jobs : q.jobs[j] = IF j = p.inflight[w] THEN outcome ELSE p.jobs[j]
  BY <1>1 DEF Released
<1>3. \A i, k \in DOMAIN q.queue : q.queue[i] = q.queue[k] => i = k
  BY <1>1, <1>2 DEF Owned
<1>4. \A u, v \in Workers : q.inflight[u] \in Jobs /\ q.inflight[u] = q.inflight[v] => u = v
  BY <1>1, <1>2 DEF Owned
<1>5. ASSUME NEW i \in DOMAIN q.queue, NEW v \in Workers
      PROVE  q.queue[i] # q.inflight[v]
  <2>1. p.queue \in Seq(Jobs)
    BY Fields DEF Sound
  <2>2. p.queue[i] \in Jobs
    BY <2>1, <1>2, <1>5, ElementOfSeq, LenProperties
  <2> QED BY <2>2, <1>1, <1>2, <1>5 DEF Owned
<1>6. ASSUME NEW j \in Jobs
      PROVE  q.jobs[j] = "open" <=> j \in QueuedJobs(q) \cup {q.inflight[v] : v \in Workers}
  <2>1. CASE j = p.inflight[w]
    <3>1. j \notin QueuedJobs(p)
      BY <1>1, <2>1 DEF Owned, QueuedJobs
    <3>2. \A v \in Workers : q.inflight[v] # j
      BY <1>1, <1>2, <1>6, <2>1 DEF Owned
    <3>3. q.jobs[j] # "open"
      BY <1>2, <2>1
    <3> QED BY <1>2, <3>1, <3>2, <3>3 DEF QueuedJobs
  <2>2. CASE j # p.inflight[w]
    <3>1. q.jobs[j] = p.jobs[j] /\ QueuedJobs(q) = QueuedJobs(p)
      BY <1>2, <2>2 DEF QueuedJobs
    <3>2. \A v \in Workers : q.inflight[v] = j <=> p.inflight[v] = j
      BY <1>1, <1>2, <1>6, <2>2
    <3>3. p.jobs[j] = "open" <=> j \in QueuedJobs(p) \cup {p.inflight[v] : v \in Workers}
      BY <1>1, <1>6 DEF Owned
    <3> QED BY <3>1, <3>2, <3>3
  <2> QED BY <2>1, <2>2
<1> QED BY <1>3, <1>4, <1>5, <1>6 DEF Owned

\* A worker that is dropped takes its place in every field of the pool with it.
LEMMA RemovedSound ==
  ASSUME NEW p, Sound(p), NEW w \in p.workers, NEW q \in PoolFields,
         NEW outcome \in {"resolved", "rejected"}, Released(p, q, w, outcome),
         q.workers = p.workers \ {w}, q.pending = p.pending \ {w}, q.idle = p.idle \ {w},
         q.parseCounts = [p.parseCounts EXCEPT ![w] = 0],
         q.totalCrashes \in {p.totalCrashes, p.totalCrashes + 1}
  PROVE  Sound(q)
<1>1. /\ p \in PoolFields /\ Accounted(p) /\ Rested(p) /\ Bounded(p)
      /\ p.workers \in SUBSET Workers /\ p.idle \in SUBSET Workers
      /\ p.pending \in SUBSET Workers /\ p.totalCrashes \in Nat
      /\ p.inflight \in [Workers -> Jobs \cup {NoJob}]
      /\ p.parseCounts \in [Workers -> 0..RecycleInterval]
      /\ w \in Workers /\ NoJob \notin Jobs
  BY Fields, PoolAssumption DEF Sound
<1>2. Owned(q)
  BY <1>1, ReleasedOwned
<1>3. Busy(q) = Busy(p) \ {w}
  BY <1>1 DEF Released, Busy
<1>4. Accounted(q)
  BY <1>1, <1>3 DEF Accounted
<1>5. Rested(q)
  BY <1>1 DEF Rested
<1>6. Cardinality(q.workers) = Cardinality(p.workers) - 1
  BY <1>1, WorkersFinite, FS_RemoveElement
<1>7. Cardinality(p.workers) \in Nat
  BY <1>1, WorkersFinite
<1>8. Bounded(q)
  BY <1>1, <1>6, <1>7, PoolAssumption DEF Bounded
<1> QED BY <1>2, <1>4, <1>5, <1>8 DEF Sound

\* A worker below its recycle threshold is idle again after a result.
LEMMA IdleAgainSound ==
  ASSUME NEW p, Sound(p), NEW w \in Busy(p), p.parseCounts[w] < RecycleInterval,
         NEW q \in PoolFields, Released(p, q, w, "resolved"),
         q.workers = p.workers, q.pending = p.pending, q.idle = p.idle \cup {w},
         q.parseCounts = p.parseCounts, q.totalCrashes = p.totalCrashes
  PROVE  Sound(q)
<1>1. /\ p \in PoolFields /\ Accounted(p) /\ Rested(p) /\ Bounded(p)
      /\ p.inflight \in [Workers -> Jobs \cup {NoJob}]
      /\ w \in Workers /\ NoJob \notin Jobs
  BY Fields, PoolAssumption DEF Sound, Busy
<1>2. Owned(q)
  BY <1>1, ReleasedOwned
<1>3. Busy(q) = Busy(p) \ {w}
  BY <1>1 DEF Released, Busy
<1>4. Accounted(q)
  BY <1>1, <1>3 DEF Accounted
<1>5. Rested(q)
  BY <1>1 DEF Rested
<1>6. Bounded(q)
  BY <1>1 DEF Bounded
<1> QED BY <1>2, <1>4, <1>5, <1>6 DEF Sound

\* The job of a worker is open as long as it is in flight.
LEMMA InflightOpen ==
  ASSUME NEW p, Sound(p), NEW w \in Workers, p.inflight[w] \in Jobs
  PROVE  p.jobs[p.inflight[w]] = "open"
BY DEF Sound, Owned

-----------------------------------------------------------------------------
(* The handlers.                                                           *)

LEMMA RequestParseSound ==
  ASSUME Sound(pool), Drained(pool), NEW j \in Jobs, RequestParse(j)
  PROVE  /\ Sound(pool') /\ Drained(pool')
         /\ \E p : SameWorkers(p) /\ Requested(p, j) /\ Evolves(p, pool')
         /\ pool.destroyed => pool'.queue = pool.queue /\ pool'.workers = pool.workers
<1>1. /\ pool \in PoolFields /\ Accounted(pool) /\ Owned(pool) /\ Rested(pool) /\ Bounded(pool)
      /\ pool.jobs[j] = "none"
      /\ pool.jobs \in [Jobs -> {"none", "open", "resolved", "rejected"}]
      /\ pool.inflight \in [Workers -> Jobs \cup {NoJob}]
      /\ pool.queue \in Seq(Jobs) /\ Len(pool.queue) \in Nat
      /\ DOMAIN pool.queue = 1..Len(pool.queue)
  BY Fields, LenProperties DEF Sound, RequestParse
<1>2. CASE pool.destroyed
  <2> DEFINE js == [pool.jobs EXCEPT ![j] = "rejected"]
  <2>1. pool' = [pool EXCEPT !.jobs = js]
    BY <1>2 DEF RequestParse
  <2>2. /\ js \in [Jobs -> {"none", "open", "resolved", "rejected"}]
        /\ \A k \in Jobs : js[k] = "open" <=> pool.jobs[k] = "open"
    BY <1>1
  <2> HIDE DEF js
  <2>3. pool' \in PoolFields
    BY <1>1, <2>1, <2>2 DEF PoolFields
  <2>4. /\ pool'.workers = pool.workers /\ pool'.pending = pool.pending
        /\ pool'.idle = pool.idle /\ pool'.inflight = pool.inflight
        /\ pool'.parseCounts = pool.parseCounts /\ pool'.queue = pool.queue
        /\ pool'.totalCrashes = pool.totalCrashes /\ pool'.jobs = js
        /\ pool'.destroyed = pool.destroyed
    BY <1>1, <2>1 DEF PoolFields
  <2>5. Accounted(pool') /\ Rested(pool') /\ Bounded(pool') /\ Drained(pool')
    BY <1>1, <2>4 DEF Accounted, Busy, Rested, Bounded, Drained
  <2>6. Owned(pool')
    BY <1>1, <2>2, <2>4 DEF Owned, QueuedJobs
  <2>7. SameWorkers(pool') /\ Requested(pool', j) /\ Evolves(pool', pool')
    BY <2>4 DEF SameWorkers, Evolves, Requested, js
  <2> QED BY <2>3, <2>4, <2>5, <2>6, <2>7 DEF Sound
<1>3. CASE ~pool.destroyed
  <2> DEFINE js == [pool.jobs EXCEPT ![j] = "open"]
             qu == Append(pool.queue, j)
             q == [pool EXCEPT !.queue = qu, !.jobs = js]
  <2>1. Drain(q)
    BY <1>3 DEF RequestParse
  <2>2. /\ js \in [Jobs -> {"none", "open", "resolved", "rejected"}]
        /\ js[j] = "open"
        /\ \A k \in Jobs \ {j} : js[k] = pool.jobs[k]
    BY <1>1
  <2>3. /\ qu \in Seq(Jobs) /\ DOMAIN qu = 1..(Len(pool.queue) + 1)
        /\ \A i \in 1..Len(pool.queue) : qu[i] = pool.queue[i]
        /\ qu[Len(pool.queue) + 1] = j
    BY <1>1, AppendProperties, LenProperties
  <2>4. j \notin QueuedJobs(pool) /\ \A v \in Workers : pool.inflight[v] # j
    BY <1>1 DEF Owned
  <2> DEFINE r == q
  <2>5. r = [pool EXCEPT !.queue = qu, !.jobs = js]
    OBVIOUS
  <2> HIDE DEF js, qu, q, r
  <2>6. r \in PoolFields
    BY <1>1, <2>2, <2>3, <2>5 DEF PoolFields
  <2>7. /\ r.workers = pool.workers /\ r.pending = pool.pending
        /\ r.idle = pool.idle /\ r.inflight = pool.inflight
        /\ r.parseCounts = pool.parseCounts /\ r.queue = qu
        /\ r.totalCrashes = pool.totalCrashes /\ r.jobs = js
        /\ r.destroyed = pool.destroyed
    BY <1>1, <2>5 DEF PoolFields
  <2>8. Accounted(r) /\ Rested(r) /\ Bounded(r)
    BY <1>1, <2>7 DEF Accounted, Busy, Rested, Bounded
  <2>9. QueuedJobs(r) = QueuedJobs(pool) \cup {j}
    <3>1. \A i \in 1..(Len(pool.queue) + 1) : i \in 1..Len(pool.queue) \/ i = Len(pool.queue) + 1
      BY <1>1
    <3>2. /\ 1..Len(pool.queue) \subseteq 1..(Len(pool.queue) + 1)
          /\ Len(pool.queue) + 1 \in 1..(Len(pool.queue) + 1)
      BY <1>1
    <3> QED BY <1>1, <2>3, <2>7, <3>1, <3>2 DEF QueuedJobs
  <2>10. \A i, k \in DOMAIN r.queue : r.queue[i] = r.queue[k] => i = k
    <3>1. \A i \in DOMAIN qu : i \in 1..Len(pool.queue) \/ i = Len(pool.queue) + 1
      BY <1>1, <2>3
    <3>2. \A i \in 1..Len(pool.queue) : qu[i] # j
      BY <1>1, <2>3, <2>4 DEF QueuedJobs
    <3>3. \A i, k \in 1..Len(pool.queue) : qu[i] = qu[k] => i = k
      BY <1>1, <2>3 DEF Owned
    <3>4. qu[Len(pool.queue) + 1] = j
      BY <2>3
    <3>5. \A i, k \in DOMAIN qu : qu[i] = qu[k] => i = k
      BY <3>1, <3>2, <3>3, <3>4
    <3> QED BY <2>7, <3>5
  <2>11. \A v, w \in Workers : r.inflight[v] \in Jobs /\ r.inflight[v] = r.inflight[w] => v = w
    BY <1>1, <2>7 DEF Owned
  <2>12. \A i \in DOMAIN r.queue : r.queue[i] \notin {r.inflight[w] : w \in Workers}
    <3>1. \A i \in DOMAIN qu : i \in 1..Len(pool.queue) \/ i = Len(pool.queue) + 1
      BY <1>1, <2>3
    <3>2. \A i \in 1..Len(pool.queue) : qu[i] \notin {pool.inflight[w] : w \in Workers}
      BY <1>1, <2>3 DEF Owned
    <3>3. qu[Len(pool.queue) + 1] \notin {pool.inflight[w] : w \in Workers}
      BY <2>3, <2>4
    <3>4. \A i \in DOMAIN qu : qu[i] \notin {pool.inflight[w] : w \in Workers}
      BY <3>1, <3>2, <3>3
    <3> QED BY <2>7, <3>4
  <2>13. \A k \in Jobs : r.jobs[k] = "open"
                         <=> k \in QueuedJobs(r) \cup {r.inflight[w] : w \in Workers}
    BY <1>1, <2>2, <2>7, <2>9 DEF Owned
  <2>14. Sound(r)
    BY <2>6, <2>8, <2>10, <2>11, <2>12, <2>13 DEF Sound, Owned
  <2>15. SameWorkers(r) /\ Requested(r, j)
    BY <1>3, <2>7 DEF SameWorkers, Requested, js
  <2>16. Drain(r)
    BY <2>1 DEF r
  <2> QED BY <1>3, <2>14, <2>15, <2>16, DrainSound, DrainEvolves
<1> QED BY <1>2, <1>3

LEMMA GrammarsLoadedSound ==
  ASSUME Sound(pool), Drained(pool), NEW w \in Workers, GrammarsLoaded(w),
         w \notin pool.idle \cup Busy(pool)
  PROVE  /\ Sound(pool') /\ Drained(pool')
         /\ \/ pool' = pool /\ w \notin pool.workers
            \/ \E p : Ready(p, w) /\ Evolves(p, pool')
<1>1. CASE w \in pool.workers
  <2> DEFINE pe == pool.pending \ {w}
             id == pool.idle \cup {w}
             q == [pool EXCEPT !.pending = pe, !.idle = id]
  <2>1. Drain(q)
    BY <1>1 DEF GrammarsLoaded
  <2>2. /\ pool \in PoolFields /\ Accounted(pool) /\ Owned(pool) /\ Rested(pool) /\ Bounded(pool)
        /\ pe \in SUBSET Workers /\ id \in SUBSET Workers
        /\ w \in pool.pending
    BY <1>1, Fields DEF Sound, Accounted
  <2>3. q \in PoolFields
    BY <2>2 DEF PoolFields
  <2>4. /\ q.workers = pool.workers /\ q.pending = pe
        /\ q.idle = id /\ q.inflight = pool.inflight
        /\ q.parseCounts = pool.parseCounts /\ q.queue = pool.queue
        /\ q.totalCrashes = pool.totalCrashes /\ q.jobs = pool.jobs
        /\ q.destroyed = pool.destroyed
    BY <2>2 DEF PoolFields
  <2> HIDE DEF q
  <2>5. Accounted(q) /\ Rested(q) /\ Bounded(q)
    BY <2>2, <2>4 DEF Accounted, Busy, Rested, Bounded
  <2>6. Owned(q)
    BY <2>2, <2>4 DEF Owned, QueuedJobs
  <2>7. Sound(q)
    BY <2>3, <2>5, <2>6 DEF Sound
  <2>8. Ready(q, w)
    BY <2>4 DEF Ready
  <2> QED BY <2>1, <2>7, <2>8, DrainSound, DrainEvolves
<1>2. CASE w \notin pool.workers
  BY <1>2 DEF GrammarsLoaded
<1> QED BY <1>1, <1>2

LEMMA FreedFields ==
  ASSUME NEW p \in PoolFields, NEW w \in Workers, NEW outcome \in {"resolved", "rejected"},
         p.inflight[w] \in Jobs => p.jobs[p.inflight[w]] = "open"
  PROVE  LET q == Settle(Unassign(p, w), p.inflight[w], outcome) IN
         /\ q \in PoolFields
         /\ Released(p, q, w, outcome)
         /\ q.workers = p.workers /\ q.pending = p.pending /\ q.idle = p.idle
         /\ q.parseCounts = p.parseCounts /\ q.totalCrashes = p.totalCrashes
         /\ q.destroyed = p.destroyed
<1> DEFINE u == Unassign(p, w)
           q == Settle(u, p.inflight[w], outcome)
<1>1. u \in PoolFields
  BY UnassignType
<1>2. q \in PoolFields
  BY <1>1, SettleType
<1>3. /\ u.inflight = [p.inflight EXCEPT ![w] = NoJob]
      /\ u.workers = p.workers /\ u.pending = p.pending /\ u.idle = p.idle
      /\ u.parseCounts = p.parseCounts /\ u.queue = p.queue /\ u.jobs = p.jobs
      /\ u.totalCrashes = p.totalCrashes /\ u.destroyed = p.destroyed
  BY UnassignFrame, UnassignInflight
<1>4. /\ q.workers = u.workers /\ q.pending = u.pending /\ q.idle = u.idle
      /\ q.inflight = u.inflight /\ q.parseCounts = u.parseCounts
      /\ q.queue = u.queue /\ q.totalCrashes = u.totalCrashes /\ q.destroyed = u.destroyed
  BY <1>1, SettleFrame
<1>5. q.jobs = IF p.inflight[w] \in Jobs /\ u.jobs[p.inflight[w]] = "open"
               THEN [u.jobs EXCEPT ![p.inflight[w]] = outcome] ELSE u.jobs
  BY <1>1, SettleJobs
<1> HIDE DEF u, q
<1>6. Released(p, q, w, outcome)
  BY <1>3, <1>4, <1>5 DEF Released
<1> QED BY <1>2, <1>3, <1>4, <1>6 DEF q, u

LEMMA ParseResultSound ==
  ASSUME Sound(pool), Drained(pool), NEW w \in Workers, ParseResult(w)
  PROVE  /\ Sound(pool') /\ Drained(pool')
         /\ \/ /\ pool' = pool
               /\ ~(pool.inflight[w] \in Jobs /\ thread[w].job = pool.inflight[w])
            \/ /\ pool.inflight[w] \in Jobs
               /\ \E p : /\ Dropped(p, w) \/ IdleAgain(p, w)
                         /\ Released(pool, p, w, "resolved") /\ Evolves(p, pool')
<1>1. CASE pool.inflight[w] \in Jobs /\ thread[w].job = pool.inflight[w]
  <2> DEFINE f == Settle(Unassign(pool, w), pool.inflight[w], "resolved")
  <2>1. PICK q \in AfterResult(f, w) : Drain(q)
    BY <1>1 DEF ParseResult
  <2>2. pool \in PoolFields /\ Accounted(pool) /\ w \in Busy(pool) /\ w \in pool.workers
    BY <1>1 DEF Sound, Accounted, Busy
  <2>3. /\ f \in PoolFields /\ Released(pool, f, w, "resolved")
        /\ f.workers = pool.workers /\ f.pending = pool.pending /\ f.idle = pool.idle
        /\ f.parseCounts = pool.parseCounts /\ f.totalCrashes = pool.totalCrashes
        /\ f.destroyed = pool.destroyed
    BY <1>1, <2>2, InflightOpen, FreedFields
  <2> HIDE DEF f
  <2>4. f.parseCounts[w] \in Nat
    BY <2>3, Fields, PoolAssumption
  <2>5. CASE f.parseCounts[w] >= RecycleInterval
    <3> DEFINE r == RemoveWorker(f, w)
    <3>1. q \in SpawnIfHealthy(r)
      BY <2>1, <2>5 DEF AfterResult, Recycle
    <3>2. /\ r \in PoolFields
          /\ r.workers = pool.workers \ {w} /\ r.pending = pool.pending \ {w}
          /\ r.idle = pool.idle \ {w}
          /\ r.parseCounts = [pool.parseCounts EXCEPT ![w] = 0]
          /\ r.inflight = f.inflight /\ r.queue = f.queue /\ r.jobs = f.jobs
          /\ r.totalCrashes = pool.totalCrashes /\ r.destroyed = pool.destroyed
      <4>1. r \in PoolFields
        BY <2>3, RemoveWorkerType
      <4>2. /\ r.workers = f.workers \ {w} /\ r.pending = f.pending \ {w}
            /\ r.idle = f.idle \ {w} /\ r.parseCounts = [f.parseCounts EXCEPT ![w] = 0]
        BY <2>3, RemoveWorkerSets
      <4>3. /\ r.inflight = f.inflight /\ r.queue = f.queue /\ r.jobs = f.jobs
            /\ r.totalCrashes = f.totalCrashes /\ r.destroyed = f.destroyed
        BY <2>3, RemoveWorkerFrame
      <4> HIDE DEF r
      <4> QED BY <2>3, <4>1, <4>2, <4>3
    <3> HIDE DEF r
    <3>3. Released(pool, r, w, "resolved")
      BY <2>3, <3>2 DEF Released
    <3>4. Sound(r)
      BY <2>2, <3>2, <3>3, RemovedSound
    <3>5. Sound(q) /\ Evolves(r, q)
      BY <3>1, <3>4, SpawnIfHealthySound, SpawnIfHealthyEvolves
    <3>6. Evolves(r, pool')
      <4>1. r.pending \subseteq r.workers /\ q.pending \subseteq q.workers
        BY <3>4, <3>5 DEF Sound, Accounted
      <4> QED BY <2>1, <3>5, <4>1, DrainEvolves, EvolvesTransitive
    <3>7. Dropped(r, w)
      BY <3>2, <3>3 DEF Dropped, Released
    <3> QED BY <1>1, <2>1, <3>3, <3>5, <3>6, <3>7, DrainSound
  <2>6. CASE ~(f.parseCounts[w] >= RecycleInterval)
    <3> DEFINE id == f.idle \cup {w}
    <3>1. q = [f EXCEPT !.idle = id]
      BY <2>1, <2>6 DEF AfterResult
    <3>2. id \in SUBSET Workers
      BY <2>3, Fields
    <3> HIDE DEF id
    <3>3. q \in PoolFields
      BY <2>3, <3>1, <3>2 DEF PoolFields
    <3>4. /\ q.idle = id /\ q.workers = f.workers /\ q.pending = f.pending
          /\ q.inflight = f.inflight /\ q.parseCounts = f.parseCounts
          /\ q.queue = f.queue /\ q.jobs = f.jobs /\ q.totalCrashes = f.totalCrashes
          /\ q.destroyed = f.destroyed
      BY <2>3, <3>1 DEF PoolFields
    <3>5. Released(pool, q, w, "resolved")
      BY <2>3, <3>4 DEF Released
    <3>6. pool.parseCounts[w] < RecycleInterval
      BY <2>3, <2>4, <2>6, PoolAssumption
    <3>7. q.idle = pool.idle \cup {w}
      BY <2>3, <3>4 DEF id
    <3>8. Sound(q)
      BY <2>2, <2>3, <3>3, <3>4, <3>5, <3>6, <3>7, IdleAgainSound
    <3>9. IdleAgain(q, w)
      <4>1. pool.jobs \in [Jobs -> {"none", "open", "resolved", "rejected"}]
        BY <2>2, Fields
      <4>2. q.jobs[pool.inflight[w]] = "resolved"
        BY <1>1, <3>5, <4>1 DEF Released
      <4> QED BY <2>3, <3>4, <3>5, <3>7, <4>2 DEF IdleAgain, Released
    <3> QED BY <1>1, <2>1, <3>5, <3>8, <3>9, DrainSound, DrainEvolves
  <2> QED BY <2>5, <2>6
<1>2. CASE ~(pool.inflight[w] \in Jobs /\ thread[w].job = pool.inflight[w])
  BY <1>2 DEF ParseResult
<1> QED BY <1>1, <1>2

\* A worker dropped with its job, as a crash and a timeout do.
LEMMA DroppedSound ==
  ASSUME Sound(pool), NEW w \in pool.workers, NEW k \in {0, 1},
         NEW r, r = [RemoveWorker(pool, w) EXCEPT !.totalCrashes = @ + k],
         NEW q \in SpawnIfHealthy(Settle(Unassign(r, w), pool.inflight[w], "rejected")),
         Drain(q)
  PROVE  /\ Sound(pool') /\ Drained(pool')
         /\ \E p : Dropped(p, w) /\ Released(pool, p, w, "rejected") /\ Evolves(p, pool')
<1> DEFINE m == RemoveWorker(pool, w)
           tc == m.totalCrashes + k
           f == Settle(Unassign(r, w), pool.inflight[w], "rejected")
<1>1. /\ pool \in PoolFields /\ Bounded(pool) /\ w \in Workers
      /\ pool.workers \in SUBSET Workers /\ pool.totalCrashes \in Nat
      /\ pool.inflight[w] \in Jobs => pool.jobs[pool.inflight[w]] = "open"
  BY Fields, InflightOpen DEF Sound
<1>2. /\ m \in PoolFields
      /\ m.workers = pool.workers \ {w} /\ m.pending = pool.pending \ {w}
      /\ m.idle = pool.idle \ {w}
      /\ m.parseCounts = [pool.parseCounts EXCEPT ![w] = 0]
      /\ m.inflight = pool.inflight /\ m.queue = pool.queue /\ m.jobs = pool.jobs
      /\ m.totalCrashes = pool.totalCrashes /\ m.destroyed = pool.destroyed
  BY <1>1, RemoveWorkerType, RemoveWorkerSets, RemoveWorkerFrame
<1>3. tc \in 0..(CrashBudget + MaxSize)
  <2>1. Cardinality(pool.workers) \in Nat
    BY <1>1, WorkersFinite
  <2> QED BY <1>1, <1>2, <2>1, PoolAssumption DEF Bounded
<1>4. r = [m EXCEPT !.totalCrashes = tc]
  OBVIOUS
<1>5. tc \in {pool.totalCrashes, pool.totalCrashes + 1}
  BY <1>1, <1>2
<1> HIDE DEF m, tc
<1>6. r \in PoolFields
  BY <1>2, <1>3, <1>4 DEF PoolFields
<1>7. /\ r.workers = m.workers /\ r.pending = m.pending /\ r.idle = m.idle
      /\ r.parseCounts = m.parseCounts /\ r.inflight = m.inflight
      /\ r.queue = m.queue /\ r.jobs = m.jobs /\ r.totalCrashes = tc
      /\ r.destroyed = m.destroyed
  BY <1>2, <1>4 DEF PoolFields
<1>8. f = Settle(Unassign(r, w), r.inflight[w], "rejected")
  BY <1>2, <1>7
<1> HIDE DEF f
<1>9. /\ f \in PoolFields /\ Released(r, f, w, "rejected")
      /\ f.workers = r.workers /\ f.pending = r.pending /\ f.idle = r.idle
      /\ f.parseCounts = r.parseCounts /\ f.totalCrashes = r.totalCrashes
      /\ f.destroyed = r.destroyed
  <2>1. r.inflight[w] \in Jobs => r.jobs[r.inflight[w]] = "open"
    BY <1>1, <1>2, <1>7
  <2> QED BY <1>1, <1>6, <1>8, <2>1, FreedFields
<1>10. Released(pool, f, w, "rejected")
  BY <1>2, <1>7, <1>9 DEF Released
<1>11. Sound(f)
  BY <1>2, <1>5, <1>7, <1>9, <1>10, RemovedSound
<1>12. Sound(q) /\ Evolves(f, q)
  BY <1>11, SpawnIfHealthySound, SpawnIfHealthyEvolves DEF f
<1>13. Evolves(f, pool')
  <2>1. f.pending \subseteq f.workers /\ q.pending \subseteq q.workers
    BY <1>11, <1>12 DEF Sound, Accounted
  <2> QED BY <1>12, <2>1, DrainEvolves, EvolvesTransitive
<1>14. Dropped(f, w)
  BY <1>2, <1>7, <1>9, <1>10 DEF Dropped, Released
<1> QED BY <1>10, <1>12, <1>13, <1>14, DrainSound

LEMMA OnWorkerGoneSound ==
  ASSUME Sound(pool), Drained(pool), NEW w \in Workers, OnWorkerGone(w)
  PROVE  /\ Sound(pool') /\ Drained(pool')
         /\ \/ pool' = pool /\ w \notin pool.workers
            \/ \E p : Dropped(p, w) /\ Released(pool, p, w, "rejected") /\ Evolves(p, pool')
<1>1. CASE w \in pool.workers
  <2> DEFINE r == [RemoveWorker(pool, w) EXCEPT !.totalCrashes = @ + 1]
  <2>1. PICK q \in SpawnIfHealthy(Settle(Unassign(r, w), pool.inflight[w], "rejected")) : Drain(q)
    BY <1>1 DEF OnWorkerGone
  <2> QED BY <1>1, <2>1, DroppedSound
<1>2. CASE w \notin pool.workers
  BY <1>2 DEF OnWorkerGone
<1> QED BY <1>1, <1>2

LEMMA OnTimeoutSound ==
  ASSUME Sound(pool), Drained(pool), NEW w \in Workers, OnTimeout(w)
  PROVE  /\ Sound(pool') /\ Drained(pool')
         /\ \E p : Dropped(p, w) /\ Released(pool, p, w, "rejected") /\ Evolves(p, pool')
<1> DEFINE r == [RemoveWorker(pool, w) EXCEPT !.totalCrashes = @ + 0]
<1>1. w \in pool.workers
  BY DEF OnTimeout
<1>2. r = RemoveWorker(pool, w)
  <2>1. /\ RemoveWorker(pool, w) \in PoolFields
        /\ RemoveWorker(pool, w).totalCrashes + 0 = RemoveWorker(pool, w).totalCrashes
    BY RemoveWorkerType, Fields DEF Sound
  <2> QED BY <2>1 DEF PoolFields
<1> HIDE DEF r
<1>3. PICK q \in SpawnIfHealthy(Settle(Unassign(r, w), pool.inflight[w], "rejected")) : Drain(q)
  BY <1>2 DEF OnTimeout
<1> QED BY <1>1, <1>3, DroppedSound DEF r

\* recycleAll() drops the idle workers and replaces at most as many.
LEMMA RecycleAllSound ==
  ASSUME Sound(pool), Drained(pool), RecycleAll
  PROVE  /\ Sound(pool') /\ Drained(pool')
         /\ \E p : Unidle(p) /\ Evolves(p, pool')
         /\ pool.destroyed => pool'.queue = pool.queue /\ pool'.workers = pool.workers \ pool.idle
<1> DEFINE ws == pool.workers \ pool.idle
           pc == [w \in Workers |-> IF w \in pool.idle THEN 0 ELSE pool.parseCounts[w]]
           id == {}
           q == WithoutIdle(pool)
           n == Cardinality(pool.idle)
<1>1. /\ pool \in PoolFields /\ Accounted(pool) /\ Owned(pool) /\ Rested(pool) /\ Bounded(pool)
      /\ pool.workers \in SUBSET Workers /\ pool.idle \in SUBSET Workers
      /\ pool.idle \subseteq pool.workers
      /\ pool.pending \in SUBSET Workers
      /\ pool.parseCounts \in [Workers -> 0..RecycleInterval]
      /\ pool.totalCrashes \in Nat
  BY Fields DEF Sound, Accounted
<1>2. /\ ws \in SUBSET Workers
      /\ pc \in [Workers -> 0..RecycleInterval]
      /\ id \in SUBSET Workers
  BY <1>1, PoolAssumption
<1>3. q = [pool EXCEPT !.workers = ws, !.parseCounts = pc, !.idle = id]
  BY DEF WithoutIdle
<1>4. /\ ws = pool.workers \ pool.idle /\ id = {}
      /\ \A w \in Workers \ pool.idle : pc[w] = pool.parseCounts[w]
  OBVIOUS
<1>5. pool' \in Replacements(q, n)
  BY DEF RecycleAll
<1> HIDE DEF ws, pc, id, q, n
<1>6. q \in PoolFields
  BY <1>1, <1>2, <1>3 DEF PoolFields
<1>7. /\ q.workers = ws /\ q.idle = id /\ q.parseCounts = pc
      /\ q.pending = pool.pending /\ q.inflight = pool.inflight
      /\ q.queue = pool.queue /\ q.jobs = pool.jobs
      /\ q.totalCrashes = pool.totalCrashes /\ q.destroyed = pool.destroyed
  BY <1>1, <1>3 DEF PoolFields
<1>8. /\ Cardinality(ws) \in Nat /\ n \in Nat
      /\ Cardinality(pool.workers) = Cardinality(ws) + n
  <2>1. IsFiniteSet(pool.workers) /\ IsFiniteSet(pool.idle) /\ n \in Nat /\ Cardinality(ws) \in Nat
    BY <1>1, <1>2, WorkersFinite DEF n
  <2>2. pool.workers \cap pool.idle = pool.idle
    BY <1>1
  <2>3. Cardinality(ws) = Cardinality(pool.workers) - n
    BY <2>1, <2>2, FS_Difference DEF ws, n
  <2>4. Cardinality(pool.workers) \in Nat
    BY <1>1, WorkersFinite
  <2> QED BY <2>1, <2>3, <2>4
<1>9. Sound(q)
  <2>1. Accounted(q)
    BY <1>1, <1>4, <1>7 DEF Accounted, Busy
  <2>2. Owned(q)
    BY <1>1, <1>7 DEF Owned, QueuedJobs
  <2>3. Rested(q)
    BY <1>1, <1>4, <1>7 DEF Rested, Accounted
  <2>4. Bounded(q)
    BY <1>1, <1>7, <1>8, PoolAssumption DEF Bounded
  <2> QED BY <1>6, <2>1, <2>2, <2>3, <2>4 DEF Sound
<1>10. Drained(q)
  BY <1>4, <1>7 DEF Drained
<1>11. ASSUME pool' = q
       PROVE  Sound(pool') /\ Drained(pool') /\ Evolves(q, pool')
  <2>1. Evolves(q, q)
    BY DEF Evolves
  <2>2. Sound(pool') /\ Evolves(q, pool')
    BY <1>9, <1>11, <2>1
  <2>3. Drained(pool')
    BY <1>10, <1>11 DEF Drained
  <2> QED BY <2>2, <2>3
<1>12. ASSUME NEW new \in SUBSET Fresh(q), NEW k \in 0..n,
              Cardinality(new) + k <= n, pool' = GrownBy(q, new, k)
       PROVE  Sound(pool') /\ Drained(pool') /\ Evolves(q, pool')
  <2>1. new \in SUBSET (Workers \ q.workers) /\ new \in SUBSET Workers /\ k \in Nat
    BY <1>8 DEF Fresh
  <2>2. /\ pool'.workers = q.workers \cup new
        /\ pool'.totalCrashes = q.totalCrashes + k
        /\ pool'.idle = q.idle /\ pool'.queue = q.queue
    BY <1>6, <1>12, GrownBySets, GrownByFrame, GrownByCrashes
  <2>3. Cardinality(q.workers \cup new) <= Cardinality(ws) + Cardinality(new)
    <3>1. IsFiniteSet(ws) /\ IsFiniteSet(new)
      BY <1>2, <2>1, WorkersFinite
    <3>2. ws \cap new = {} /\ Cardinality({}) = 0
      BY <1>7, <2>1, FS_EmptySet
    <3>3. Cardinality(ws \cup new) = Cardinality(ws) + Cardinality(new) - Cardinality(ws \cap new)
      BY <3>1, FS_Union
    <3>4. Cardinality(new) \in Nat
      BY <2>1, WorkersFinite
    <3> QED BY <1>7, <1>8, <3>2, <3>3, <3>4
  <2>4. Cardinality(new) \in Nat /\ Cardinality(q.workers \cup new) \in Nat
    BY <1>6, <2>1, Fields, WorkersFinite
  <2>5. Bounded(GrownBy(q, new, k))
    BY <1>1, <1>7, <1>8, <1>12, <2>1, <2>2, <2>3, <2>4, PoolAssumption DEF Bounded
  <2>6. Sound(pool')
    BY <1>9, <1>12, <2>1, <2>5, GrownBySound
  <2>7. Drained(pool')
    BY <1>10, <2>2 DEF Drained
  <2>8. Evolves(q, pool')
    BY <1>9, <1>12, GrownByEvolves
  <2> QED BY <2>6, <2>7, <2>8
<1>13. \/ pool' = q
       \/ \E new \in SUBSET Fresh(q), k \in 0..n :
            Cardinality(new) + k <= n /\ pool' = GrownBy(q, new, k)
  <2>1. CASE ~Healthy(q)
    BY <1>5, <2>1, Zenon DEF Replacements
  <2>2. CASE Healthy(q)
    <3>1. PICK x \in (SUBSET Fresh(q)) \X (0..n) :
            Cardinality(x[1]) + x[2] <= n /\ pool' = GrownBy(q, x[1], x[2])
      BY <1>5, <2>2, Zenon DEF Replacements
    <3>2. x[1] \in SUBSET Fresh(q) /\ x[2] \in 0..n
      OBVIOUS
    <3> QED BY <3>1, <3>2
  <2> QED BY <2>1, <2>2
<1>14. Unidle(q)
  BY <1>4, <1>7 DEF Unidle
<1>15. pool.destroyed => pool' = q
  <2>1. pool.destroyed => ~Healthy(q)
    BY <1>7 DEF Healthy
  <2>2. ~Healthy(q) => Replacements(q, n) = {q}
    BY DEF Replacements
  <2> QED BY <1>5, <2>1, <2>2
<1>16. Sound(pool') /\ Drained(pool') /\ Evolves(q, pool')
  BY <1>11, <1>12, <1>13
<1> QED BY <1>4, <1>7, <1>14, <1>15, <1>16

\* destroy() leaves nothing behind.
LEMMA DestroySound ==
  ASSUME Sound(pool), Destroy
  PROVE  Sound(pool') /\ Drained(pool')
<1> DEFINE fl == [w \in Workers |-> NoJob]
           pc == [w \in Workers |-> 0]
           js == [j \in Jobs |-> IF pool.jobs[j] = "open" THEN "rejected" ELSE pool.jobs[j]]
           no == {}
           qu == << >>
           yes == TRUE
<1>1. pool \in PoolFields /\ Bounded(pool)
  BY DEF Sound
<1>2. /\ fl \in [Workers -> Jobs \cup {NoJob}]
      /\ pc \in [Workers -> 0..RecycleInterval]
      /\ js \in [Jobs -> {"none", "open", "resolved", "rejected"}]
      /\ \A j \in Jobs : js[j] # "open"
      /\ \A w \in Workers : fl[w] = NoJob
  BY <1>1, Fields, PoolAssumption
<1>3. no \in SUBSET Workers /\ no = {} /\ qu \in Seq(Jobs) /\ DOMAIN qu = {} /\ yes \in BOOLEAN
  OBVIOUS
<1>4. pool' = [pool EXCEPT !.destroyed = yes, !.workers = no, !.pending = no, !.idle = no,
                           !.queue = qu, !.parseCounts = pc, !.inflight = fl, !.jobs = js]
  BY DEF Destroy
<1>5. qu = << >>
  OBVIOUS
<1> HIDE DEF fl, pc, js, no, qu, yes
<1>6. pool' \in PoolFields
  BY <1>1, <1>2, <1>3, <1>4 DEF PoolFields
<1>7. /\ pool'.workers = {} /\ pool'.pending = {} /\ pool'.idle = {}
      /\ pool'.queue = qu /\ pool'.inflight = fl /\ pool'.jobs = js
      /\ pool'.totalCrashes = pool.totalCrashes
  BY <1>1, <1>3, <1>4 DEF PoolFields
<1>8. \A w \in Workers : pool'.inflight[w] \notin Jobs
  BY <1>2, <1>7, PoolAssumption
<1>9. Accounted(pool') /\ Rested(pool')
  BY <1>7, <1>8 DEF Accounted, Busy, Rested
<1>10. Owned(pool')
  BY <1>2, <1>3, <1>7, <1>8 DEF Owned, QueuedJobs
<1>11. Bounded(pool')
  <2>1. Cardinality(pool.workers) \in Nat /\ pool.totalCrashes \in Nat /\ Cardinality({}) = 0
    BY <1>1, Fields, WorkersFinite, FS_EmptySet
  <2> QED BY <1>1, <1>7, <2>1, PoolAssumption DEF Bounded
<1>12. Drained(pool')
  BY <1>5, <1>7 DEF Drained
<1> QED BY <1>6, <1>9, <1>10, <1>11, <1>12 DEF Sound

-----------------------------------------------------------------------------
(* Threads.  "now" is what the threads do when a handler starts to post    *)
(* messages, p the pool before it grows and dispatches.                    *)

Dying == {"crashed", "exiting"}

HonestFrom(p, now) ==
  /\ p.workers \subseteq pool.workers
  /\ \A w \in Workers :
       p.inflight[w] \in Jobs =>
         /\ p.inflight[w] = pool.inflight[w]
         /\ \/ now[w].phase \in Dying
            \/ now[w] \in {At("parsing", p.inflight[w]), At("parsed", p.inflight[w])}
  /\ \A w \in p.idle : now[w].phase \in {"waiting"} \cup Dying
  /\ \A w \in p.pending : now[w].phase \in {"loading", "loaded"} \cup Dying
  /\ \A w \in p.idle : pool.inflight[w] \in Jobs => p.jobs[pool.inflight[w]] # "open"

LEMMA HonestPhases ==
  ASSUME Sound(pool), InflightHonest, NEW w \in Workers
  PROVE  /\ w \in pool.workers => thread[w].phase # "unborn"
         /\ thread[w].phase \in {"loading", "loaded"} => w \notin pool.idle \cup Busy(pool)
         /\ thread[w].phase \in {"parsing", "parsed"} => w \notin pool.idle \cup pool.pending
<1>1. Accounted(pool)
  BY DEF Sound
<1>2. w \in Busy(pool) => thread[w].phase \in {"crashed", "exiting", "parsing", "parsed"}
  BY DEF InflightHonest, Busy, At
<1>3. /\ w \in pool.idle => thread[w].phase \in {"waiting", "crashed", "exiting"}
      /\ w \in pool.pending => thread[w].phase \in {"loading", "loaded", "crashed", "exiting"}
  BY DEF InflightHonest
<1> QED BY <1>1, <1>2, <1>3 DEF Accounted

LEMMA HonestNow ==
  ASSUME Sound(pool), InflightHonest, NEW now,
         \A w \in pool.workers : now[w] = thread[w]
  PROVE  HonestFrom(pool, now)
<1>1. Accounted(pool) /\ NoJob \notin Jobs
  BY PoolAssumption DEF Sound
<1>2. \A w \in Workers : pool.inflight[w] \in Jobs => w \in pool.workers
  BY <1>1 DEF Accounted, Busy
<1>3. \A w \in pool.idle : pool.inflight[w] \notin Jobs
  BY <1>1, Fields DEF Accounted, Busy, Sound
<1>4. pool.idle \subseteq pool.workers /\ pool.pending \subseteq pool.workers
      /\ pool.workers \subseteq Workers
  BY <1>1, Fields DEF Accounted, Sound
<1> QED BY <1>1, <1>2, <1>3, <1>4 DEF HonestFrom, InflightHonest, Dying

\* A handler keeps InflightHonest: it posts load-grammars to the workers it
\* creates and a parse message to the workers it dispatches, and only to them.
LEMMA HonestStep ==
  ASSUME Sound(pool), InflightHonest, Sound(pool'), NEW p, NEW now,
         HonestFrom(p, now), Evolves(p, pool'), PostMessages(now)
  PROVE  InflightHonest'
<1>1. /\ Accounted(pool') /\ Owned(pool')
      /\ pool'.workers \subseteq Workers /\ NoJob \notin Jobs
  BY Fields, PoolAssumption DEF Sound
<1>2. SUFFICES ASSUME NEW w \in Workers
      PROVE /\ pool'.inflight[w] \in Jobs =>
                 \/ thread'[w].phase \in {"crashed", "exiting"}
                 \/ thread'[w] \in {At("parsing", pool'.inflight[w]), At("parsed", pool'.inflight[w])}
            /\ w \in pool'.idle => thread'[w].phase \in {"waiting", "crashed", "exiting"}
            /\ w \in pool'.pending => thread'[w].phase \in {"loading", "loaded", "crashed", "exiting"}
  BY DEF InflightHonest
<1>3. thread'[w] = IF w \in pool'.workers \ pool.workers THEN At("loading", NoJob)
                   ELSE IF Handed(w) /\ now[w].phase = "waiting" THEN At("parsing", pool'.inflight[w])
                   ELSE now[w]
  BY DEF PostMessages
<1>4. w \in pool'.pending \/ w \in pool'.idle \/ pool'.inflight[w] \in Jobs => w \in pool'.workers
  BY <1>1 DEF Accounted, Busy
<1>5. /\ pool'.inflight[w] \in Jobs => w \notin pool'.idle \cup pool'.pending
      /\ w \in pool'.idle => w \notin pool'.pending
  BY <1>1 DEF Accounted, Busy
<1>6. CASE w \in pool'.workers \ p.workers
  <2>1. w \notin pool.workers
    BY <1>6, HonestPhases DEF Evolves, Fresh
  <2>2. thread'[w] = At("loading", NoJob)
    BY <1>3, <1>6, <2>1
  <2>3. w \in pool'.pending
    BY <1>6 DEF Evolves
  <2> QED BY <1>5, <2>2, <2>3 DEF At
<1>7. CASE w \in p.workers
  <2>1. w \in pool.workers
    BY <1>7 DEF HonestFrom
  <2>2. CASE pool'.inflight[w] = p.inflight[w] /\ p.inflight[w] \in Jobs
    <3>1. thread'[w] = now[w]
      BY <1>3, <2>1, <2>2 DEF Handed, HonestFrom
    <3> QED BY <1>5, <2>2, <3>1 DEF HonestFrom, Dying
  <2>3. CASE pool'.inflight[w] # p.inflight[w] /\ pool'.inflight[w] \in Jobs
    <3>1. w \in p.idle
      BY <2>3 DEF Evolves
    <3>2. pool'.jobs[pool'.inflight[w]] = "open"
      BY <2>3, <1>1 DEF Owned
    <3>3. p.jobs[pool'.inflight[w]] = "open"
      BY <2>3, <3>2 DEF Evolves
    <3>4. Handed(w)
      BY <2>3, <3>1, <3>3 DEF Handed, HonestFrom
    <3>5. now[w].phase \in {"waiting", "crashed", "exiting"}
      BY <3>1 DEF HonestFrom, Dying
    <3> QED BY <1>3, <1>5, <2>1, <2>3, <3>4, <3>5
  <2>4. CASE pool'.inflight[w] \notin Jobs
    <3>1. thread'[w] = now[w]
      BY <1>3, <2>1, <2>4 DEF Handed
    <3>2. w \in pool'.idle => w \in p.idle
      BY DEF Evolves
    <3>3. w \in pool'.pending => w \in p.pending
      BY <1>7 DEF Evolves
    <3> QED BY <2>4, <3>1, <3>2, <3>3 DEF HonestFrom, Dying
  <2> QED BY <2>2, <2>3, <2>4
<1>8. CASE w \notin pool'.workers
  BY <1>4, <1>8
<1> QED BY <1>6, <1>7, <1>8

\* Dropping a worker, or making it idle again, leaves the others honest.
LEMMA HonestDropped ==
  ASSUME Sound(pool), InflightHonest, NEW w \in Workers, NEW p, Dropped(p, w), NEW now,
         \A v \in Workers \ {w} : now[v] = thread[v]
  PROVE  HonestFrom(p, now)
<1>1. /\ Accounted(pool) /\ NoJob \notin Jobs
      /\ pool.inflight \in [Workers -> Jobs \cup {NoJob}]
      /\ pool.idle \subseteq Workers /\ pool.pending \subseteq Workers
  BY Fields, PoolAssumption DEF Sound
<1>2. \A v \in Workers : p.inflight[v] = IF v = w THEN NoJob ELSE pool.inflight[v]
  BY <1>1 DEF Dropped
<1>3. \A v \in pool.idle : pool.inflight[v] \notin Jobs
  BY <1>1 DEF Accounted, Busy
<1> QED BY <1>1, <1>2, <1>3 DEF HonestFrom, InflightHonest, Dying, Dropped

LEMMA HonestIdleAgain ==
  ASSUME Sound(pool), InflightHonest, NEW w \in Workers, NEW p, IdleAgain(p, w), NEW now,
         \A v \in Workers \ {w} : now[v] = thread[v], now[w].phase = "waiting",
         w \notin pool.pending
  PROVE  HonestFrom(p, now)
<1>1. /\ Accounted(pool) /\ NoJob \notin Jobs
      /\ pool.inflight \in [Workers -> Jobs \cup {NoJob}]
      /\ pool.idle \subseteq Workers /\ pool.pending \subseteq Workers
  BY Fields, PoolAssumption DEF Sound
<1>2. \A v \in Workers : p.inflight[v] = IF v = w THEN NoJob ELSE pool.inflight[v]
  BY <1>1 DEF IdleAgain
<1>3. \A v \in pool.idle : pool.inflight[v] \notin Jobs
  BY <1>1 DEF Accounted, Busy
<1> QED BY <1>1, <1>2, <1>3 DEF HonestFrom, InflightHonest, Dying, IdleAgain

LEMMA EvolvesSelf ==
  ASSUME pool' = pool
  PROVE  Evolves(pool, pool')
BY DEF Evolves

LEMMA PostMessagesType ==
  ASSUME NEW now \in [Workers -> ThreadStates], PostMessages(now)
  PROVE  thread' \in [Workers -> ThreadStates]
BY DEF PostMessages, Handed, At, ThreadStates, Phases

\* A step of a thread.
LEMMA MoveThreadHonest ==
  ASSUME Sound(pool), InflightHonest, thread \in [Workers -> ThreadStates],
         NEW w \in Workers, ThreadStep(w)
  PROVE  /\ pool' = pool /\ recycleAlls' = recycleAlls
         /\ thread' \in [Workers -> ThreadStates]
         /\ InflightHonest'
<1>1. Accounted(pool)
  BY DEF Sound
<1>2. PICK from \in SUBSET Phases, phase \in Phases :
        /\ MoveThread(w, from, phase)
        /\ \/ from = {"loading"} /\ phase = "loaded"
           \/ from = {"parsing"} /\ phase = "parsed"
           \/ phase \in {"crashed", "exiting"}
  <2>1. CASE LoadGrammars(w)
    BY <2>1 DEF LoadGrammars, Phases
  <2>2. CASE Parse(w)
    BY <2>2 DEF Parse, Phases
  <2>3. CASE Crash(w)
    BY <2>3 DEF Crash, Phases
  <2>4. CASE Terminated(w)
    BY <2>4 DEF Terminated, Phases
  <2> QED BY <2>1, <2>2, <2>3, <2>4 DEF ThreadStep
<1>3. /\ pool' = pool /\ recycleAlls' = recycleAlls
      /\ thread[w].phase \in from
      /\ thread' = [thread EXCEPT ![w] = At(phase, thread[w].job)]
  BY <1>2 DEF MoveThread
<1>4. thread' \in [Workers -> ThreadStates]
  BY <1>3 DEF At, ThreadStates
<1>5. /\ \A v \in Workers \ {w} : thread'[v] = thread[v]
      /\ thread'[w] = At(phase, thread[w].job) /\ thread'[w].phase = phase
  BY <1>3 DEF At
<1>6. ASSUME NEW v \in Workers
      PROVE /\ pool.inflight[v] \in Jobs =>
                 \/ thread'[v].phase \in {"crashed", "exiting"}
                 \/ thread'[v] \in {At("parsing", pool.inflight[v]), At("parsed", pool.inflight[v])}
            /\ v \in pool.idle => thread'[v].phase \in {"waiting", "crashed", "exiting"}
            /\ v \in pool.pending => thread'[v].phase \in {"loading", "loaded", "crashed", "exiting"}
  <2>1. CASE v # w
    BY <1>5, <1>6, <2>1 DEF InflightHonest
  <2>2. CASE v = w /\ phase \in {"crashed", "exiting"}
    BY <1>5, <2>2
  <2>3. CASE v = w /\ from = {"loading"} /\ phase = "loaded"
    BY <1>3, <1>5, <2>3, HonestPhases DEF Busy
  <2>4. CASE v = w /\ from = {"parsing"} /\ phase = "parsed"
    <3>1. v \notin pool.idle \cup pool.pending
      BY <1>3, <2>4, HonestPhases
    <3>2. pool.inflight[v] \in Jobs => thread[v].job = pool.inflight[v]
      BY <1>3, <2>4 DEF InflightHonest, At
    <3> QED BY <1>5, <2>4, <3>1, <3>2
  <2> QED BY <1>2, <2>1, <2>2, <2>3, <2>4
<1> QED BY <1>3, <1>4, <1>6 DEF InflightHonest

LEMMA HonestSameWorkers ==
  ASSUME Sound(pool), InflightHonest, NEW p, SameWorkers(p), NEW now,
         \A w \in pool.workers : now[w] = thread[w]
  PROVE  HonestFrom(p, now)
<1>1. HonestFrom(pool, now)
  BY HonestNow
<1>2. \A w \in pool.idle : pool.inflight[w] \notin Jobs
  BY Fields DEF Sound, Accounted, Busy
<1> QED BY <1>1, <1>2 DEF HonestFrom, SameWorkers

LEMMA HonestReady ==
  ASSUME Sound(pool), InflightHonest, NEW w \in Workers, NEW p, Ready(p, w), NEW now,
         \A v \in Workers \ {w} : now[v] = thread[v], now[w].phase = "waiting",
         w \notin Busy(pool)
  PROVE  HonestFrom(p, now)
<1>1. /\ Accounted(pool) /\ pool.idle \subseteq Workers /\ pool.pending \subseteq Workers
  BY Fields DEF Sound
<1>2. \A v \in p.idle : pool.inflight[v] \notin Jobs
  BY <1>1 DEF Accounted, Busy, Ready
<1>3. \A v \in Workers : p.inflight[v] \in Jobs => v # w
  BY DEF Busy, Ready
<1> QED BY <1>1, <1>2, <1>3 DEF HonestFrom, InflightHonest, Dying, Ready

LEMMA HonestUnidle ==
  ASSUME Sound(pool), InflightHonest, NEW p, Unidle(p)
  PROVE  HonestFrom(p, thread)
<1>1. HonestFrom(pool, thread)
  BY HonestNow
<1> QED BY <1>1 DEF HonestFrom, Unidle

-----------------------------------------------------------------------------
(* The invariant and the theorems.                                         *)

EmptyWhenDestroyed == pool.destroyed => pool.workers = {} /\ pool.queue = <<>>

IInv ==
  /\ TypeOK
  /\ Sound(pool)
  /\ Drained(pool)
  /\ InflightHonest
  /\ EmptyWhenDestroyed

LEMMA EmptyPoolSound == Sound(EmptyPool) /\ EmptyPool.queue = <<>> /\ ~EmptyPool.destroyed
                        /\ EmptyPool.idle = {} /\ EmptyPool.workers = {}
<1> DEFINE fl == [w \in Workers |-> NoJob]
           pc == [w \in Workers |-> 0]
           js == [j \in Jobs |-> "none"]
           p == EmptyPool
<1>1. /\ fl \in [Workers -> Jobs \cup {NoJob}] /\ pc \in [Workers -> 0..RecycleInterval]
      /\ js \in [Jobs -> {"none", "open", "resolved", "rejected"}]
      /\ 0 \in 0..(CrashBudget + MaxSize)
      /\ \A w \in Workers : fl[w] \notin Jobs
      /\ \A j \in Jobs : js[j] # "open"
      /\ << >> \in Seq(Jobs) /\ {} \in SUBSET Workers /\ FALSE \in BOOLEAN
  BY PoolAssumption
<1>2. p = [workers |-> {}, pending |-> {}, idle |-> {}, inflight |-> fl, parseCounts |-> pc,
           queue |-> << >>, jobs |-> js, totalCrashes |-> 0, destroyed |-> FALSE]
  BY DEF EmptyPool
<1> HIDE DEF fl, pc, js, p
<1>3. p \in PoolFields
  BY <1>1, <1>2 DEF PoolFields
<1>4. /\ p.workers = {} /\ p.pending = {} /\ p.idle = {} /\ p.inflight = fl
      /\ p.queue = << >> /\ p.jobs = js /\ p.totalCrashes = 0 /\ ~p.destroyed
  BY <1>2
<1>5. Accounted(p) /\ Rested(p)
  BY <1>1, <1>4 DEF Accounted, Busy, Rested
<1>6. Owned(p)
  BY <1>1, <1>4 DEF Owned, QueuedJobs
<1>7. Bounded(p)
  BY <1>4, FS_EmptySet, PoolAssumption DEF Bounded
<1> QED BY <1>3, <1>4, <1>5, <1>6, <1>7 DEF Sound, p

LEMMA InitIInv == Init => IInv
<1> SUFFICES ASSUME Init PROVE IInv
  OBVIOUS
<1> DEFINE e == EmptyPool
<1>1. /\ Sound(e) /\ e.queue = <<>> /\ ~e.destroyed /\ e.idle = {} /\ e.workers = {}
      /\ e \in PoolFields
  BY EmptyPoolSound DEF Sound
<1>2. e.totalCrashes = 0 /\ e.pending = {} /\ \A w \in Workers : e.inflight[w] = NoJob
  BY DEF EmptyPool
<1> HIDE DEF e
<1>3. ASSUME NEW new \in SUBSET Workers, NEW k \in Nat, k + Cardinality(new) = 1,
             pool = GrownBy(e, new, k),
             thread = [w \in Workers |-> At(IF w \in new THEN "loading" ELSE "unborn", NoJob)]
      PROVE  IInv
  <2>1. /\ pool.workers = new /\ pool.pending = new /\ pool.idle = {} /\ pool.queue = <<>>
        /\ ~pool.destroyed /\ pool.totalCrashes = k
        /\ \A w \in Workers : pool.inflight[w] = NoJob
    <3>1. pool.workers = new /\ pool.pending = new
      <4>1. GrownBy(e, new, k).workers = e.workers \cup new
            /\ GrownBy(e, new, k).pending = e.pending \cup new
        BY <1>1, GrownBySets, Zenon
      <4> QED BY <1>1, <1>2, <1>3, <4>1
    <3>2. pool.idle = {} /\ pool.queue = <<>> /\ ~pool.destroyed /\ pool.inflight = e.inflight
      BY <1>1, <1>3, GrownByFrame
    <3>3. pool.totalCrashes = e.totalCrashes + k
      BY <1>1, <1>3, GrownByCrashes
    <3> QED BY <1>2, <1>3, <3>1, <3>2, <3>3
  <2>2. Bounded(GrownBy(e, new, k))
    <3>1. Cardinality(new) \in Nat
      BY WorkersFinite
    <3> QED BY <1>3, <2>1, <3>1, PoolAssumption DEF Bounded
  <2>3. Sound(pool)
    BY <1>1, <1>3, <2>2, GrownBySound
  <2>4. Drained(pool) /\ EmptyWhenDestroyed
    BY <2>1 DEF Drained, EmptyWhenDestroyed
  <2>5. InflightHonest
    BY <1>3, <2>1, PoolAssumption DEF InflightHonest, At
  <2>6. TypeOK
    <3>1. thread \in [Workers -> ThreadStates]
      BY <1>3 DEF At, ThreadStates, Phases
    <3> QED BY <2>3, <3>1, PoolAssumption DEF Init, TypeOK, Sound
  <2> QED BY <2>3, <2>4, <2>5, <2>6 DEF IInv
<1>4. CASE /\ pool = GrownBy(EmptyPool, {}, 1)
           /\ thread = [w \in Workers |-> At("unborn", NoJob)]
  <2>1. /\ {} \in SUBSET Workers /\ 1 \in Nat /\ 1 + Cardinality({}) = 1
    BY FS_EmptySet
  <2>2. thread = [w \in Workers |-> At(IF w \in {} THEN "loading" ELSE "unborn", NoJob)]
    BY <1>4
  <2> QED BY <1>3, <1>4, <2>1, <2>2 DEF e
<1>5. ASSUME NEW x \in Workers, pool = GrownBy(EmptyPool, {x}, 0),
             thread = [w \in Workers |-> At(IF w = x THEN "loading" ELSE "unborn", NoJob)]
      PROVE  IInv
  <2>1. {x} \in SUBSET Workers /\ 0 \in Nat /\ 0 + Cardinality({x}) = 1
    <3>1. Cardinality({x}) = 1
      BY FS_Singleton, Zenon
    <3> QED BY <3>1
  <2>2. thread = [w \in Workers |-> At(IF w \in {x} THEN "loading" ELSE "unborn", NoJob)]
    BY <1>5
  <2> QED BY <1>3, <1>5, <2>1, <2>2 DEF e
<1> QED BY <1>4, <1>5 DEF Init

\* Every handler keeps the invariant.
LEMMA HandlerIInv ==
  ASSUME IInv, NEW p, NEW now \in [Workers -> ThreadStates],
         Sound(pool'), Drained(pool'), EmptyWhenDestroyed', recycleAlls' \in 0..MaxRecycleAll,
         HonestFrom(p, now), Evolves(p, pool'), PostMessages(now)
  PROVE  IInv'
<1>1. InflightHonest'
  BY HonestStep DEF IInv
<1>2. TypeOK'
  BY PostMessagesType DEF TypeOK, Sound
<1> QED BY <1>1, <1>2 DEF IInv

LEMMA NextIInv == IInv /\ [Next]_vars => IInv'
<1> SUFFICES ASSUME IInv, [Next]_vars PROVE IInv'
  OBVIOUS
<1>1. /\ TypeOK /\ Sound(pool) /\ Drained(pool) /\ InflightHonest /\ EmptyWhenDestroyed
      /\ Accounted(pool) /\ thread \in [Workers -> ThreadStates]
      /\ recycleAlls \in 0..MaxRecycleAll
  BY DEF IInv, TypeOK, Sound
<1>2. \A w \in Workers, phase \in Phases, j \in Jobs \cup {NoJob} :
        /\ [thread EXCEPT ![w] = At(phase, j)] \in [Workers -> ThreadStates]
        /\ [thread EXCEPT ![w] = At(phase, j)][w].phase = phase
        /\ \A v \in Workers \ {w} : [thread EXCEPT ![w] = At(phase, j)][v] = thread[v]
  BY <1>1 DEF At, ThreadStates
<1>3. \A w \in Workers : thread[w].job \in Jobs \cup {NoJob}
  BY <1>1 DEF ThreadStates
<1>4. /\ pool.destroyed => pool.idle = {} /\ Busy(pool) = {} /\ pool.workers = {}
      /\ pool.destroyed => \A w \in Workers : pool.inflight[w] \notin Jobs
  BY <1>1 DEF EmptyWhenDestroyed, Accounted, Busy
<1>5. ASSUME NEW j \in Jobs, RequestParse(j) PROVE IInv'
  <2>1. PICK p : SameWorkers(p) /\ Evolves(p, pool')
    BY <1>1, <1>5, RequestParseSound
  <2>2. /\ Sound(pool') /\ Drained(pool')
        /\ pool.destroyed => pool'.queue = pool.queue /\ pool'.workers = pool.workers
    BY <1>1, <1>5, RequestParseSound
  <2>3. EmptyWhenDestroyed'
    BY <1>1, <2>1, <2>2 DEF EmptyWhenDestroyed, Evolves, SameWorkers
  <2>4. HonestFrom(p, thread)
    BY <1>1, <2>1, HonestSameWorkers
  <2>5. PostMessages(thread) /\ recycleAlls' = recycleAlls
    BY <1>5 DEF RequestParse
  <2> QED BY <1>1, <2>1, <2>2, <2>3, <2>4, <2>5, HandlerIInv
<1>6. ASSUME NEW w \in Workers, ThreadStep(w) PROVE IInv'
  <2>1. /\ pool' = pool /\ recycleAlls' = recycleAlls
        /\ thread' \in [Workers -> ThreadStates] /\ InflightHonest'
    BY <1>1, <1>6, MoveThreadHonest
  <2>2. Sound(pool') /\ Drained(pool') /\ EmptyWhenDestroyed' /\ TypeOK'
    BY <1>1, <2>1 DEF EmptyWhenDestroyed, TypeOK
  <2> QED BY <2>1, <2>2 DEF IInv
<1>7. ASSUME NEW w \in Workers, GrammarsLoaded(w) PROVE IInv'
  <2> DEFINE now == [thread EXCEPT ![w] = At("waiting", NoJob)]
  <2>1. /\ thread[w].phase = "loaded" /\ PostMessages(now) /\ recycleAlls' = recycleAlls
    BY <1>7 DEF GrammarsLoaded
  <2>2. /\ now \in [Workers -> ThreadStates] /\ now[w].phase = "waiting"
        /\ \A v \in Workers \ {w} : now[v] = thread[v]
    BY <1>2 DEF Phases
  <2> HIDE DEF now
  <2>3. w \notin pool.idle \cup Busy(pool)
    BY <1>1, <2>1, HonestPhases
  <2>4. /\ Sound(pool') /\ Drained(pool')
        /\ \/ pool' = pool /\ w \notin pool.workers
           \/ \E p : Ready(p, w) /\ Evolves(p, pool')
    BY <1>1, <1>7, <2>3, GrammarsLoadedSound
  <2>5. CASE pool' = pool /\ w \notin pool.workers
    <3>1. HonestFrom(pool, now) /\ Evolves(pool, pool') /\ EmptyWhenDestroyed'
      BY <1>1, <2>2, <2>5, HonestNow, EvolvesSelf, Fields DEF EmptyWhenDestroyed, Sound
    <3> QED BY <1>1, <2>1, <2>2, <2>4, <3>1, HandlerIInv
  <2>6. ASSUME NEW p, Ready(p, w), Evolves(p, pool'), w \in pool.workers PROVE IInv'
    <3>1. HonestFrom(p, now)
      BY <1>1, <2>2, <2>3, <2>6, HonestReady
    <3>2. EmptyWhenDestroyed'
      BY <1>4, <2>6 DEF EmptyWhenDestroyed, Evolves, Ready
    <3> QED BY <1>1, <2>1, <2>2, <2>4, <2>6, <3>1, <3>2, HandlerIInv
  <2>7. w \notin pool.workers => pool' = pool
    BY <1>7 DEF GrammarsLoaded
  <2> QED BY <2>4, <2>5, <2>6, <2>7
<1>8. ASSUME NEW w \in Workers, ParseResult(w) PROVE IInv'
  <2> DEFINE now == [thread EXCEPT ![w] = At("waiting", NoJob)]
  <2>1. /\ thread[w].phase = "parsed" /\ PostMessages(now) /\ recycleAlls' = recycleAlls
    BY <1>8 DEF ParseResult
  <2>2. /\ now \in [Workers -> ThreadStates] /\ now[w].phase = "waiting"
        /\ \A v \in Workers \ {w} : now[v] = thread[v]
    BY <1>2 DEF Phases
  <2> HIDE DEF now
  <2>3. w \notin pool.idle \cup pool.pending
    BY <1>1, <2>1, HonestPhases
  <2>4. /\ Sound(pool') /\ Drained(pool')
        /\ \/ /\ pool' = pool
              /\ ~(pool.inflight[w] \in Jobs /\ thread[w].job = pool.inflight[w])
           \/ \E p : (Dropped(p, w) \/ IdleAgain(p, w)) /\ Evolves(p, pool')
    BY <1>1, <1>8, ParseResultSound
  <2>5. CASE ~(pool.inflight[w] \in Jobs /\ thread[w].job = pool.inflight[w])
    <3>1. pool.inflight[w] \notin Jobs
      BY <1>1, <2>1, <2>5 DEF InflightHonest, At
    <3>2. w \notin pool.workers
      BY <1>1, <2>3, <3>1 DEF Accounted, Busy
    <3>3. pool' = pool
      BY <1>8, <2>5 DEF ParseResult
    <3>4. HonestFrom(pool, now) /\ Evolves(pool, pool') /\ EmptyWhenDestroyed'
      BY <1>1, <2>2, <3>2, <3>3, HonestNow, EvolvesSelf, Fields DEF EmptyWhenDestroyed, Sound
    <3> QED BY <1>1, <2>1, <2>2, <2>4, <3>4, HandlerIInv
  <2>6. CASE pool.inflight[w] \in Jobs /\ thread[w].job = pool.inflight[w]
    <3>1. ASSUME NEW p, Dropped(p, w) \/ IdleAgain(p, w), Evolves(p, pool') PROVE IInv'
      <4>1. HonestFrom(p, now)
        BY <1>1, <2>2, <2>3, <3>1, HonestDropped, HonestIdleAgain
      <4>2. EmptyWhenDestroyed'
        BY <1>4, <2>6, <3>1 DEF EmptyWhenDestroyed, Evolves, Dropped, IdleAgain
      <4> QED BY <1>1, <2>1, <2>2, <2>4, <3>1, <4>1, <4>2, HandlerIInv
    <3> QED BY <2>4, <2>6, <3>1
  <2> QED BY <2>5, <2>6
<1>9. ASSUME NEW w \in Workers, NEW now \in [Workers -> ThreadStates], OnWorkerGone(w),
             \A v \in Workers \ {w} : now[v] = thread[v], PostMessages(now),
             recycleAlls' = recycleAlls
      PROVE  IInv'
  <2>1. /\ Sound(pool') /\ Drained(pool')
        /\ \/ pool' = pool /\ w \notin pool.workers
           \/ \E p : Dropped(p, w) /\ Evolves(p, pool')
    BY <1>1, <1>9, OnWorkerGoneSound
  <2>2. CASE pool' = pool /\ w \notin pool.workers
    <3>1. HonestFrom(pool, now) /\ Evolves(pool, pool') /\ EmptyWhenDestroyed'
      BY <1>1, <1>9, <2>2, HonestNow, EvolvesSelf, Fields DEF EmptyWhenDestroyed, Sound
    <3> QED BY <1>1, <1>9, <2>1, <3>1, HandlerIInv
  <2>3. ASSUME NEW p, Dropped(p, w), Evolves(p, pool'), w \in pool.workers PROVE IInv'
    <3>1. HonestFrom(p, now)
      BY <1>1, <1>9, <2>3, HonestDropped
    <3>2. EmptyWhenDestroyed'
      BY <1>4, <2>3 DEF EmptyWhenDestroyed, Evolves, Dropped
    <3> QED BY <1>1, <1>9, <2>1, <2>3, <3>1, <3>2, HandlerIInv
  <2>4. w \notin pool.workers => pool' = pool
    BY <1>9 DEF OnWorkerGone
  <2> QED BY <2>1, <2>2, <2>3, <2>4
<1>10. ASSUME NEW w \in Workers, WorkerError(w) PROVE IInv'
  <2> DEFINE now == [thread EXCEPT ![w] = At("exiting", thread[w].job)]
  <2>1. now \in [Workers -> ThreadStates] /\ \A v \in Workers \ {w} : now[v] = thread[v]
    BY <1>2, <1>3 DEF Phases
  <2>2. OnWorkerGone(w) /\ PostMessages(now) /\ recycleAlls' = recycleAlls
    BY <1>10 DEF WorkerError
  <2> HIDE DEF now
  <2> QED BY <1>9, <2>1, <2>2
<1>11. ASSUME NEW w \in Workers, WorkerExit(w) PROVE IInv'
  <2> DEFINE now == [thread EXCEPT ![w] = At("unborn", NoJob)]
  <2>1. now \in [Workers -> ThreadStates] /\ \A v \in Workers \ {w} : now[v] = thread[v]
    BY <1>2 DEF Phases
  <2>2. OnWorkerGone(w) /\ PostMessages(now) /\ recycleAlls' = recycleAlls
    BY <1>11 DEF WorkerExit, ExitCode
  <2> HIDE DEF now
  <2> QED BY <1>9, <2>1, <2>2
<1>12. ASSUME NEW w \in Workers, OnTimeout(w) PROVE IInv'
  <2>1. /\ Sound(pool') /\ Drained(pool')
        /\ \E p : Dropped(p, w) /\ Evolves(p, pool')
    BY <1>1, <1>12, OnTimeoutSound
  <2>2. PICK p : Dropped(p, w) /\ Evolves(p, pool')
    BY <2>1
  <2>3. HonestFrom(p, thread)
    BY <1>1, <2>2, HonestDropped
  <2>4. w \in pool.workers /\ PostMessages(thread) /\ recycleAlls' = recycleAlls
    BY <1>12 DEF OnTimeout
  <2>5. EmptyWhenDestroyed'
    BY <1>4, <2>2, <2>4 DEF EmptyWhenDestroyed, Evolves, Dropped
  <2> QED BY <1>1, <2>1, <2>2, <2>3, <2>4, <2>5, HandlerIInv
<1>13. CASE RecycleAll
  <2>1. /\ Sound(pool') /\ Drained(pool')
        /\ \E p : Unidle(p) /\ Evolves(p, pool')
        /\ pool.destroyed => pool'.queue = pool.queue /\ pool'.workers = pool.workers \ pool.idle
    BY <1>1, <1>13, RecycleAllSound
  <2>2. PICK p : Unidle(p) /\ Evolves(p, pool')
    BY <2>1
  <2>3. HonestFrom(p, thread)
    BY <1>1, <2>2, HonestUnidle
  <2>4. PostMessages(thread) /\ recycleAlls' \in 0..MaxRecycleAll
    BY <1>1, <1>13, PoolAssumption DEF RecycleAll
  <2>5. EmptyWhenDestroyed'
    BY <1>1, <2>1, <2>2 DEF EmptyWhenDestroyed, Evolves, Unidle
  <2> QED BY <1>1, <2>1, <2>2, <2>3, <2>4, <2>5, HandlerIInv
<1>14. CASE Destroy
  <2>1. Sound(pool') /\ Drained(pool')
    BY <1>1, <1>14, DestroySound
  <2>2. /\ PostMessages(thread) /\ recycleAlls' = recycleAlls
        /\ pool'.workers = {} /\ pool'.queue = <<>>
    BY <1>1, <1>14 DEF Destroy, Sound, PoolFields
  <2>3. pool'.pending = {} /\ pool'.idle = {} /\ Busy(pool') = {}
    BY <2>1, <2>2 DEF Sound, Accounted
  <2>4. InflightHonest' /\ EmptyWhenDestroyed'
    BY <2>2, <2>3 DEF InflightHonest, EmptyWhenDestroyed, Busy
  <2>5. TypeOK'
    BY <1>1, <2>1, <2>2, PostMessagesType DEF TypeOK, Sound
  <2> QED BY <2>1, <2>4, <2>5 DEF IInv
<1>15. CASE UNCHANGED vars
  <2>1. pool' = pool /\ thread' = thread /\ recycleAlls' = recycleAlls
    BY <1>15 DEF vars
  <2>2. Sound(pool') /\ Drained(pool')
    BY <1>1, <2>1
  <2>3. TypeOK' /\ InflightHonest' /\ EmptyWhenDestroyed'
    BY <1>1, <2>1 DEF TypeOK, InflightHonest, EmptyWhenDestroyed
  <2> QED BY <2>2, <2>3 DEF IInv
<1> QED
  BY <1>5, <1>6, <1>7, <1>8, <1>10, <1>11, <1>12, <1>13, <1>14, <1>15 DEF Next, HandlerStep

LEMMA Invariance == Spec => []IInv
BY InitIInv, NextIInv, PTL DEF Spec

\* The fields of the pool keep their types: no counter leaves its range, no
\* worker identity leaks.
THEOREM TypeCorrect == Spec => []TypeOK
<1>1. IInv => TypeOK
  BY DEF IInv
<1> QED BY Invariance, <1>1, PTL

\* A live worker is starting, idle or busy, and only one of the three, for
\* every pool size and every order of crashes, timeouts and recycles.
THEOREM WorkersAlwaysAccounted == Spec => []WorkersAccounted
<1>1. IInv => WorkersAccounted
  BY DEF IInv, Sound, WorkersAccounted
<1> QED BY Invariance, <1>1, PTL

\* An unsettled request is queued once or in flight on one worker: it is
\* neither lost nor parsed twice.
THEOREM NoRequestLost == Spec => []JobsOwned
<1>1. IInv => JobsOwned
  BY DEF IInv, Sound, JobsOwned
<1> QED BY Invariance, <1>1, PTL

\* Queued work never waits while a worker is idle or no worker is left.
THEOREM NeverStalls == Spec => []NoStall
<1>1. IInv => NoStall
  BY DEF IInv, Drained, NoStall
<1> QED BY Invariance, <1>1, PTL

\* Crashes plus live workers stay within the crash budget plus the pool size.
THEOREM CrashesBounded == Spec => []RespawnBounded
<1>1. IInv => RespawnBounded
  BY DEF IInv, Sound, Bounded, RespawnBounded
<1> QED BY Invariance, <1>1, PTL

\* The pool's view of its threads is right: a busy worker holds its job, an
\* idle one waits, a pending one loads, or the thread is dying.
THEOREM PoolKnowsItsThreads == Spec => []InflightHonest
<1>1. IInv => InflightHonest
  BY DEF IInv
<1> QED BY Invariance, <1>1, PTL

\* After destroy() nothing is left of the pool, whatever arrives late.
THEOREM DestroyIsFinal == Spec => []DestroyedIsEmpty
<1>1. IInv => DestroyedIsEmpty
  <2> SUFFICES ASSUME IInv, pool.destroyed
               PROVE  /\ pool.workers = {} /\ pool.queue = <<>>
                      /\ \A j \in Jobs : pool.jobs[j] # "open"
    BY DEF DestroyedIsEmpty
  <2>1. pool.workers = {} /\ pool.queue = <<>> /\ Accounted(pool) /\ Owned(pool)
    BY DEF IInv, EmptyWhenDestroyed, Sound
  <2>2. \A w \in Workers : pool.inflight[w] \notin Jobs
    BY <2>1 DEF Accounted, Busy
  <2> QED BY <2>1, <2>2 DEF Owned, QueuedJobs
<1> QED BY Invariance, <1>1, PTL

-----------------------------------------------------------------------------
(* The pool implements the contract of its callers, ParseRequests, step by *)
(* step: a handler of the pool is a request, an answer to some open        *)
(* requests, the close, or nothing that a caller could see.                *)

Promises == [Jobs -> {"none", "open", "resolved", "rejected"}]

OpenJobs(jobs) == {j \in Jobs : jobs[j] = "open"}

-----------------------------------------------------------------------------
(* The steps of the contract, in terms of the pool.                        *)

LEMMA RequestStep ==
  ASSUME NEW j \in Jobs, pool.jobs[j] = "none", NEW answer \in {"open", "rejected"},
         pool.destroyed => answer = "rejected",
         pool'.jobs = [pool.jobs EXCEPT ![j] = answer], pool'.destroyed = pool.destroyed
  PROVE  Contract!Next
<1>1. Contract!Request(j)
  BY DEF Contract!Request
<1> QED BY <1>1 DEF Contract!Next

LEMMA AnswerStep ==
  ASSUME pool.jobs \in Promises, pool'.jobs \in Promises,
         NEW resolved \in SUBSET OpenJobs(pool.jobs), NEW rejected \in SUBSET OpenJobs(pool.jobs),
         resolved \cap rejected = {}, \A i, k \in resolved : i = k, NEW j \in resolved \cup rejected,
         \A k \in Jobs : pool'.jobs[k] = IF k \in resolved THEN "resolved"
                                         ELSE IF k \in rejected THEN "rejected" ELSE pool.jobs[k],
         pool'.destroyed = pool.destroyed
  PROVE  Contract!Next
<1>1. Contract!Open = OpenJobs(pool.jobs) /\ j \in Jobs
  BY DEF Contract!Open, OpenJobs
<1>2. pool'.jobs = [k \in Jobs |-> IF k \in resolved THEN "resolved"
                                   ELSE IF k \in rejected THEN "rejected" ELSE pool.jobs[k]]
  BY DEF Promises
<1>3. Contract!Settle(resolved, rejected)
  BY <1>2 DEF Contract!Settle
<1>4. Contract!Answer(j)
  BY <1>1, <1>3 DEF Contract!Answer
<1> QED BY <1>1, <1>4 DEF Contract!Next

Unseen == pool'.jobs = pool.jobs /\ pool'.destroyed = pool.destroyed

\* A pool that grows, dispatches or fails stranded jobs settles no promise but
\* by rejecting it.
LEMMA EvolvedStep ==
  ASSUME pool.jobs \in Promises, pool'.jobs \in Promises, NEW p, Evolves(p, pool'),
         p.jobs = pool.jobs, p.destroyed = pool.destroyed
  PROVE  Contract!Next \/ Unseen
<1> DEFINE rejected == {k \in Jobs : pool'.jobs[k] # pool.jobs[k]}
<1>1. pool'.destroyed = pool.destroyed
  BY DEF Evolves
<1>2. rejected \in SUBSET OpenJobs(pool.jobs) /\ \A k \in rejected : pool'.jobs[k] = "rejected"
  BY DEF Evolves, OpenJobs
<1>3. CASE rejected = {}
  <2>1. pool'.jobs = pool.jobs
    BY <1>3 DEF Promises
  <2> QED BY <1>1, <2>1 DEF Unseen
<1>4. CASE rejected # {}
  <2> DEFINE resolved == {}
  <2>1. \A k \in Jobs : pool'.jobs[k] = IF k \in resolved THEN "resolved"
                                        ELSE IF k \in rejected THEN "rejected" ELSE pool.jobs[k]
    BY <1>2
  <2>2. resolved \in SUBSET OpenJobs(pool.jobs) /\ resolved \cap rejected = {} /\ \A i, k \in resolved : i = k
    OBVIOUS
  <2>3. PICK j \in rejected : TRUE
    BY <1>4
  <2>4. j \in resolved \cup rejected
    BY <2>3
  <2> HIDE DEF resolved, rejected
  <2> QED BY <1>1, <1>2, <2>1, <2>2, <2>4, AnswerStep
<1> QED BY <1>3, <1>4

\* The same, after the job of worker w was settled.
LEMMA ReleasedStep ==
  ASSUME Sound(pool), Sound(pool'), NEW w \in Workers, NEW outcome \in {"resolved", "rejected"},
         NEW p, Released(pool, p, w, outcome), p.destroyed = pool.destroyed, Evolves(p, pool')
  PROVE  Contract!Next \/ Unseen
<1> DEFINE job == pool.inflight[w]
           rest == {k \in Jobs : pool'.jobs[k] # p.jobs[k]}
<1>1. pool.jobs \in Promises /\ pool'.jobs \in Promises /\ pool.inflight \in [Workers -> Jobs \cup {NoJob}]
  BY Fields DEF Sound, Promises
<1>2. CASE job \notin Jobs
  <2>1. p.jobs = pool.jobs
    BY <1>2 DEF Released
  <2> QED BY <1>1, <2>1, EvolvedStep
<1>3. CASE job \in Jobs
  <2>1. pool.jobs[job] = "open" /\ p.jobs = [pool.jobs EXCEPT ![job] = outcome]
    BY <1>3, InflightOpen DEF Released
  <2> HIDE DEF job
  <2>2. /\ p.jobs[job] = outcome
        /\ \A k \in Jobs \ {job} : p.jobs[k] = pool.jobs[k]
    BY <1>1, <1>3, <2>1 DEF Promises
  <2>3. /\ rest \in SUBSET OpenJobs(pool.jobs) /\ job \notin rest
        /\ \A k \in rest : pool'.jobs[k] = "rejected"
        /\ \A k \in Jobs \ rest : pool'.jobs[k] = p.jobs[k]
    BY <1>3, <2>2 DEF Evolves, OpenJobs
  <2> DEFINE resolved == IF outcome = "resolved" THEN {job} ELSE {}
             rejected == IF outcome = "resolved" THEN rest ELSE rest \cup {job}
  <2> HIDE DEF rest
  <2>4. job \in OpenJobs(pool.jobs)
    BY <1>3, <2>1 DEF OpenJobs
  <2>5. /\ resolved \in SUBSET OpenJobs(pool.jobs) /\ rejected \in SUBSET OpenJobs(pool.jobs)
        /\ resolved \cap rejected = {} /\ \A i, k \in resolved : i = k
        /\ job \in resolved \cup rejected
    BY <2>3, <2>4
  <2>6. \A k \in Jobs : pool'.jobs[k] = IF k \in resolved THEN "resolved"
                                        ELSE IF k \in rejected THEN "rejected" ELSE pool.jobs[k]
    BY <1>3, <2>2, <2>3
  <2>7. pool'.destroyed = pool.destroyed
    BY DEF Evolves
  <2> HIDE DEF resolved, rejected
  <2> QED BY <1>1, <2>5, <2>6, <2>7, AnswerStep
<1> QED BY <1>2, <1>3

-----------------------------------------------------------------------------
(* The handlers.                                                           *)

\* Nobody else is answered by a call of requestParse: what was queued before
\* has a worker.
LEMMA RequestParseStep ==
  ASSUME IInv, NEW j \in Jobs, RequestParse(j)
  PROVE  Contract!Next
<1>1. Sound(pool) /\ Drained(pool) /\ pool.jobs \in Promises /\ pool.jobs[j] = "none"
  BY Fields DEF IInv, Sound, Promises, RequestParse
<1>2. PICK p : SameWorkers(p) /\ Requested(p, j) /\ Evolves(p, pool')
  BY <1>1, RequestParseSound
<1>3. PICK answer \in {"open", "rejected"} :
        p.jobs = [pool.jobs EXCEPT ![j] = answer] /\ (pool.destroyed => answer = "rejected")
  BY <1>2 DEF Requested
<1>4. pool'.jobs \in Promises
  <2>1. Sound(pool')
    BY <1>1, RequestParseSound
  <2> QED BY <2>1, Fields DEF Sound, Promises
<1>5. pool'.destroyed = pool.destroyed
  BY <1>2 DEF Evolves, SameWorkers
<1>6. /\ p.jobs[j] = answer /\ \A k \in Jobs \ {j} : p.jobs[k] = pool.jobs[k]
      /\ \A k \in Jobs : pool'.jobs[k] = p.jobs[k] \/ (p.jobs[k] = "open" /\ pool'.jobs[k] = "rejected")
  BY <1>1, <1>2, <1>3 DEF Evolves, Promises
<1>7. \A k \in Jobs \ {j} : pool'.jobs[k] = pool.jobs[k]
  <2>1. CASE pool.workers # {}
    BY <1>2, <1>6, <2>1 DEF Evolves, SameWorkers
  <2>2. CASE pool.workers = {}
    <3>1. pool.queue = <<>> /\ QueuedJobs(pool) = {}
      BY <1>1, <2>2 DEF Drained, QueuedJobs
    <3>2. \A v \in Workers : pool.inflight[v] \notin Jobs
      BY <1>1, <2>2 DEF Sound, Accounted, Busy
    <3>3. \A k \in Jobs : pool.jobs[k] # "open"
      BY <1>1, <3>1, <3>2 DEF Sound, Owned
    <3> QED BY <1>6, <3>3
  <2> QED BY <2>1, <2>2
<1>8. pool'.jobs[j] \in {answer, "rejected"}
  BY <1>6
<1>9. PICK final \in {"open", "rejected"} :
        pool'.jobs[j] = final /\ (pool.destroyed => final = "rejected")
  BY <1>3, <1>8
<1>10. pool'.jobs = [pool.jobs EXCEPT ![j] = final]
  BY <1>1, <1>4, <1>7, <1>9 DEF Promises
<1> QED BY <1>1, <1>5, <1>9, <1>10, RequestStep

LEMMA DestroyStep ==
  ASSUME IInv, Destroy
  PROVE  Contract!Next
<1>1. pool \in PoolFields /\ ~pool.destroyed
  BY DEF IInv, Sound, Destroy
<1>2. /\ pool'.destroyed = TRUE
      /\ pool'.jobs = [j \in Jobs |-> IF pool.jobs[j] = "open" THEN "rejected" ELSE pool.jobs[j]]
  BY <1>1 DEF Destroy, PoolFields
<1>3. Contract!Close
  BY <1>1, <1>2 DEF Contract!Close, Contract!Open
<1> QED BY <1>3 DEF Contract!Next

LEMMA HandlerStepStep ==
  ASSUME IInv, IInv', NEW w \in Workers, HandlerStep(w)
  PROVE  Contract!Next \/ Unseen
<1>1. /\ Sound(pool) /\ Drained(pool) /\ Sound(pool')
      /\ pool.jobs \in Promises /\ pool'.jobs \in Promises
      /\ thread \in [Workers -> ThreadStates] /\ InflightHonest
  BY Fields DEF IInv, TypeOK, Sound, Promises
<1>2. pool' = pool => Unseen
  BY DEF Unseen
<1>3. CASE GrammarsLoaded(w)
  <2>1. w \notin pool.idle \cup Busy(pool)
    BY <1>1, <1>3, HonestPhases DEF GrammarsLoaded
  <2>2. pool' = pool \/ \E p : Ready(p, w) /\ Evolves(p, pool')
    BY <1>1, <1>3, <2>1, GrammarsLoadedSound
  <2> QED BY <1>1, <1>2, <2>2, EvolvedStep DEF Ready
<1>4. CASE ParseResult(w)
  <2>1. \/ pool' = pool
        \/ \E p : /\ Dropped(p, w) \/ IdleAgain(p, w)
                  /\ Released(pool, p, w, "resolved") /\ Evolves(p, pool')
    BY <1>1, <1>4, ParseResultSound
  <2> QED BY <1>1, <1>2, <2>1, ReleasedStep DEF Dropped, IdleAgain
<1>5. CASE WorkerError(w) \/ WorkerExit(w)
  <2>1. OnWorkerGone(w)
    BY <1>5 DEF WorkerError, WorkerExit, ExitCode
  <2>2. pool' = pool \/ \E p : Dropped(p, w) /\ Released(pool, p, w, "rejected") /\ Evolves(p, pool')
    BY <1>1, <2>1, OnWorkerGoneSound
  <2> QED BY <1>1, <1>2, <2>2, ReleasedStep DEF Dropped
<1>6. CASE OnTimeout(w)
  <2>1. \E p : Dropped(p, w) /\ Released(pool, p, w, "rejected") /\ Evolves(p, pool')
    BY <1>1, <1>6, OnTimeoutSound
  <2> QED BY <1>1, <2>1, ReleasedStep DEF Dropped
<1> QED BY <1>3, <1>4, <1>5, <1>6 DEF HandlerStep

LEMMA InitContract == Init => Contract!Init
BY DEF Init, GrownBy, EmptyPool, Contract!Init

LEMMA NextContract == IInv /\ IInv' /\ [Next]_vars => [Contract!Next]_Contract!vars
<1> SUFFICES ASSUME IInv, IInv', [Next]_vars PROVE Contract!Next \/ Unseen
  BY DEF Contract!vars, Unseen
<1>1. CASE UNCHANGED vars
  BY <1>1 DEF vars, Unseen
<1>2. ASSUME NEW j \in Jobs, RequestParse(j) PROVE Contract!Next
  BY <1>2, RequestParseStep
<1>3. ASSUME NEW w \in Workers, ThreadStep(w) PROVE Unseen
  BY <1>3 DEF ThreadStep, LoadGrammars, Parse, Crash, Terminated, MoveThread, Unseen
<1>4. ASSUME NEW w \in Workers, HandlerStep(w) PROVE Contract!Next \/ Unseen
  BY <1>4, HandlerStepStep
<1>5. CASE RecycleAll
  <2>1. /\ Sound(pool) /\ Drained(pool) /\ pool.jobs \in Promises /\ pool'.jobs \in Promises
    BY Fields DEF IInv, Sound, Promises
  <2>2. PICK p : Unidle(p) /\ Evolves(p, pool')
    BY <1>5, <2>1, RecycleAllSound
  <2> QED BY <2>1, <2>2, EvolvedStep DEF Unidle
<1>6. CASE Destroy
  BY <1>6, DestroyStep
<1> QED BY <1>1, <1>2, <1>3, <1>4, <1>5, <1>6 DEF Next

\* The pool keeps its contract: a request is answered at most once and never
\* unanswered, one event answers at most one request with a result, a request
\* to a destroyed pool is refused and destroy leaves none open, for any number
\* of jobs and workers and every order of crashes, timeouts and recycles. (That
\* every request is answered is the fairness part of the contract.)
THEOREM KeepsContract == Spec => Contract!SafeSpec
<1>1. Init => Contract!Init
  BY InitContract
<1>2. IInv /\ IInv' /\ [Next]_vars => [Contract!Next]_Contract!vars
  BY NextContract
<1>3. Spec => []IInv
  BY Invariance
<1> QED BY <1>1, <1>2, <1>3, PTL DEF Spec, Contract!SafeSpec
=============================================================================
