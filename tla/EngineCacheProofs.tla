-------------------------- MODULE EngineCacheProofs --------------------------
(* What a query gets from the engine cache, for every number of requests,    *)
(* index runs and opened engines, in every deployment.                       *)
EXTENDS EngineCache, SequenceTheorems, FiniteSetTheorems, TLAPS

-----------------------------------------------------------------------------
(* The inductive invariant.                                                  *)

Rested == job \in {"idle", "recorded", "uploaded"}

\* Between runs the recorded run is the last one, and the worker's file holds it
\* unless a download has been written over it. In between, the file holds an
\* earlier run that was recorded, or a later one, if no query has written it.
Recorded ==
  /\ Rested => indexedAt = run
  /\ ~Rested => indexedAt < run
  /\ job \in {"recorded", "uploaded"} => run > 0
  /\ (Rested /\ run > 0) \/ job = "indexed" => file # None /\ (content[file] = run \/ (clobbered /\ file \in makeshift))
  /\ file # None => content[file] >= indexedAt \/ file \in makeshift

\* What a request, the cache or S3 remembers was recorded once.
Remembered ==
  /\ \A r \in Requests : /\ request[r].seen <= indexedAt /\ request[r].object <= indexedAt
                         /\ request[r].at \in {"open", "fetched", "serve"} => request[r].seen > 0
                         /\ request[r].at = "serve" => request[r].engine # None
  /\ cache.indexedAt <= indexedAt /\ (cache.engine # None => cache.indexedAt > 0)
  /\ s3 <= indexedAt

\* Engine e answers for time t.
Holds(e, t) ==
  /\ content[engines[e].file] >= t \/ engines[e].file \in makeshift
  /\ ~ownDisk /\ ~clobbered /\ t = run => content[engines[e].file] = run

\* The engines in use and in the cache do.
Fresh ==
  /\ \A r \in Requests : request[r].at = "serve" => Holds(request[r].engine, request[r].seen)
  /\ cache.engine # None => Holds(cache.engine, cache.indexedAt)

\* A disk of the cache's own has copies of recorded runs only.
Apart ==
  ownDisk =>
    /\ file \notin makeshift /\ local \in makeshift \cup {None}
    /\ \A e \in 1..Len(engines) : engines[e].file \in makeshift
    /\ \A f \in makeshift : content[f] <= indexedAt

\* Unless two requests opened at once, the open engine is the cached one.
Closed ==
  ~overlapped =>
    /\ \A q, r \in Opening : q = r
    /\ Opening # {} => cache.engine = None
    /\ \A e \in DOMAIN engines : engines[e].open => e = cache.engine

IInv == TypeOK /\ CachedIsOpen /\ Recorded /\ Remembered /\ Fresh /\ Apart /\ Closed

Engine(n) == [file : 1..n, open : BOOLEAN]
RequestType(n) == [at : {"idle", "asked", "open", "fetched", "serve"}, seen : 0..run, engine : 0..n, object : 0..run]

LEMMA IdleFields == Idle.at = "idle" /\ Idle.seen = 0 /\ Idle.engine = None /\ Idle.object = 0
BY DEF Idle

LEMMA NoEntryFields == NoEntry.engine = None /\ NoEntry.indexedAt = 0
BY DEF NoEntry

LEMMA SeqGrows ==
  ASSUME NEW S, NEW T, S \subseteq T, NEW s \in Seq(S)
  PROVE  s \in Seq(T)
<1>1. Len(s) \in Nat /\ s = [i \in 1 .. Len(s) |-> s[i]] /\ \A i \in 1 .. Len(s) : s[i] \in S
  BY ElementOfSeq, LenProperties
<1> QED BY <1>1, IsASeq

LEMMA InitIInv == Init => IInv
<1> SUFFICES ASSUME Init PROVE IInv
  OBVIOUS
<1>1. TypeOK
  <2>1. /\ job \in Jobs /\ run = 0 /\ indexedAt = 0 /\ s3 = 0 /\ file = 0 /\ local = 0 /\ overlapped \in BOOLEAN
        /\ ownDisk \in BOOLEAN /\ hasS3 \in BOOLEAN /\ makeshift = {} /\ clobbered \in BOOLEAN
    BY DEF Init, Jobs, None
  <2>2. content = <<>> /\ engines = <<>> /\ cache = [engine |-> 0, indexedAt |-> 0]
    BY DEF Init, NoEntry, None
  <2>3. request \in [Requests -> [at : {"idle", "asked", "open", "fetched", "serve"}, seen : 0..run,
                                 engine : 0..Len(engines), object : 0..run]]
    BY <2>1, <2>2 DEF Init, Idle, None
  <2>4. content \in Seq(0..run) /\ engines \in Seq([file : 1..Len(content), open : BOOLEAN])
    BY <2>2
  <2>5. run \in 0..MaxRuns /\ Len(engines) <= MaxOpens
    BY <2>1, <2>2, CacheAssumption
  <2>6. cache \in [engine : 0..Len(engines), indexedAt : 0..run]
    BY <2>1, <2>2
  <2> QED BY <2>1, <2>2, <2>3, <2>4, <2>5, <2>6 DEF TypeOK, None
<1>2. Recorded /\ Remembered
  BY IdleFields, NoEntryFields DEF Init, Recorded, Rested, Remembered, None
<1>3. CachedIsOpen /\ Fresh /\ Closed
  BY IdleFields, NoEntryFields DEF Init, CachedIsOpen, Fresh, Closed, Opening
<1>4. Apart
  BY DEF Init, Apart, None
<1> QED BY <1>1, <1>2, <1>3, <1>4 DEF IInv

\* The numbers of the invariant.
LEMMA Numbers ==
  ASSUME TypeOK
  PROVE  /\ run \in Nat /\ run <= MaxRuns /\ MaxRuns \in Nat /\ indexedAt \in Nat /\ indexedAt <= run
         /\ content \in Seq(0..run) /\ Len(content) \in Nat /\ s3 \in 0..run
         /\ file \in 0..Len(content) /\ local \in 0..Len(content)
         /\ engines \in Seq(Engine(Len(content))) /\ Len(engines) \in Nat
         /\ \A i \in 1..Len(content) : content[i] \in 0..run
         /\ \A e \in 1..Len(engines) : engines[e].file \in 1..Len(content)
<1>1. /\ run \in Nat /\ run <= MaxRuns /\ MaxRuns \in Nat /\ indexedAt \in Nat /\ indexedAt <= run
      /\ content \in Seq(0..run) /\ Len(content) \in Nat /\ s3 \in 0..run
      /\ file \in 0..Len(content) /\ local \in 0..Len(content)
      /\ engines \in Seq(Engine(Len(content))) /\ Len(engines) \in Nat
  BY CacheAssumption, LenProperties DEF TypeOK, Engine
<1>2. \A i \in 1..Len(content) : content[i] \in 0..run
  BY <1>1, ElementOfSeq
<1>3. \A e \in 1..Len(engines) : engines[e] \in Engine(Len(content))
  BY <1>1, ElementOfSeq
<1> QED BY <1>1, <1>2, <1>3 DEF Engine

\* The engines and times of what is served and cached.
LEMMA InUse ==
  ASSUME TypeOK, Remembered
  PROVE  /\ \A r \in Requests : request[r].at = "serve" =>
              request[r].engine \in 1..Len(engines) /\ request[r].seen \in 1..indexedAt
         /\ cache.engine # None => cache.engine \in 1..Len(engines) /\ cache.indexedAt \in 1..indexedAt
<1>1. Len(engines) \in Nat /\ indexedAt \in Nat
  BY Numbers
<1>2. cache.engine \in 0..Len(engines) /\ cache.indexedAt \in 0..run
  BY DEF TypeOK
<1>3. \A r \in Requests : request[r].engine \in 0..Len(engines) /\ request[r].seen \in 0..run
  BY DEF TypeOK
<1> QED BY <1>1, <1>2, <1>3 DEF Remembered, None

-----------------------------------------------------------------------------
(* The jobs.                                                                 *)

\* What the queries of the cache keep while a job steps that takes no engine
\* its answer.
LEMMA Queries ==
  ASSUME IInv, UNCHANGED <<engines, cache, request, overlapped>>, s3' <= indexedAt',
         indexedAt' \in Nat, indexedAt <= indexedAt',
         \A e \in 1..Len(engines) : \A t \in 1..indexedAt : Holds(e, t) => Holds(e, t)'
  PROVE  CachedIsOpen' /\ Remembered' /\ Fresh' /\ Closed'
<1>0. TypeOK /\ CachedIsOpen /\ Remembered /\ Fresh /\ Closed
  BY DEF IInv
<1>1. /\ \A r \in Requests : request[r].seen \in Nat /\ request[r].object \in Nat
      /\ cache.indexedAt \in Nat /\ indexedAt \in Nat
  BY <1>0, Numbers DEF TypeOK
<1>2. Remembered'
  BY <1>0, <1>1 DEF Remembered
<1>3. Closed' /\ CachedIsOpen'
  BY <1>0 DEF Closed, Opening, CachedIsOpen
<1>4. Fresh'
  <2>1. ASSUME NEW r \in Requests, request'[r].at = "serve"
        PROVE  Holds(request[r].engine, request[r].seen)'
    <3>1. PICK e \in 1..Len(engines), t \in 1..indexedAt : e = request[r].engine /\ t = request[r].seen
      BY <1>0, <2>1, InUse
    <3>2. Holds(e, t)'
      BY <1>0, <2>1, <3>1 DEF Fresh
    <3> QED BY <3>1, <3>2 DEF Holds
  <2>2. ASSUME cache'.engine # None
        PROVE  Holds(cache.engine, cache.indexedAt)'
    <3>1. PICK e \in 1..Len(engines), t \in 1..indexedAt : e = cache.engine /\ t = cache.indexedAt
      BY <1>0, <2>2, InUse
    <3>2. Holds(e, t)'
      BY <1>0, <2>2, <3>1 DEF Fresh
    <3> QED BY <3>1, <3>2 DEF Holds
  <2> QED BY <2>1, <2>2 DEF Fresh
<1> QED BY <1>2, <1>3, <1>4

LEMMA RunTypes ==
  ASSUME TypeOK, run' \in 0..MaxRuns, run <= run', job' \in Jobs, file' \in {None, file},
         UNCHANGED <<ownDisk, hasS3, indexedAt, content, s3, local, engines, cache, request, overlapped, makeshift, clobbered>>
  PROVE  TypeOK'
<1>1. 0..run \subseteq 0..run' /\ indexedAt \in 0..run' /\ s3 \in 0..run'
  BY Numbers DEF TypeOK
<1>2. content \in Seq(0..run')
  BY <1>1, SeqGrows DEF TypeOK
<1>3. cache \in [engine : 0..Len(engines), indexedAt : 0..run']
  BY <1>1 DEF TypeOK
<1>4. request \in [Requests -> [at : {"idle", "asked", "open", "fetched", "serve"}, seen : 0..run',
                               engine : 0..Len(engines), object : 0..run']]
  BY <1>1 DEF TypeOK
<1>5. {file', local'} \subseteq 0..Len(content)
  BY Numbers DEF None
<1> QED BY <1>1, <1>2, <1>3, <1>4, <1>5 DEF TypeOK

\* The steps between two records: nobody has read the time of the run.
LEMMA WorkKeeps ==
  ASSUME IInv, JobWipe \/ JobCheckout \/ JobAgain \/ JobBreaks
  PROVE  IInv'
<1>1. TypeOK /\ Recorded /\ Remembered /\ Apart
  BY DEF IInv
<1>2. job' \in {"wiped", "checked out", "broken"} /\ file' \in {None, file}
  BY DEF JobWipe, JobCheckout, JobAgain, JobBreaks
<1>8. \/ job \in {"idle", "broken"} /\ run < MaxRuns /\ run' = run + 1
      \/ job \in {"wiped", "checked out", "indexed"} /\ run' = run
  BY DEF JobWipe, JobCheckout, JobAgain, JobBreaks
<1>9. run' \in 0..MaxRuns /\ run <= run' /\ indexedAt < run'
  <2>1. job = "idle" => indexedAt = run
    BY <1>1 DEF Recorded, Rested
  <2>2. job \in {"broken", "wiped", "checked out", "indexed"} => indexedAt < run
    BY <1>1 DEF Recorded, Rested
  <2>3. run \in Nat /\ run <= MaxRuns /\ MaxRuns \in Nat /\ indexedAt \in Nat /\ indexedAt <= run
    BY <1>1, Numbers
  <2>4. CASE run' = run + 1 /\ run < MaxRuns
    BY <2>3, <2>4
  <2>5. CASE run' = run /\ job \in {"wiped", "checked out", "indexed"}
    <3>1. indexedAt < run /\ run' = run
      BY <2>2, <2>5
    <3> QED BY <2>3, <3>1
  <2> QED BY <1>8, <2>4, <2>5
<1>3. UNCHANGED <<ownDisk, hasS3, indexedAt, content, s3, local, engines, cache, request, overlapped, makeshift, clobbered>>
  BY DEF JobWipe, JobCheckout, JobAgain, JobBreaks, jobOnly, deployment
<1>4. TypeOK'
  BY <1>1, <1>2, <1>3, <1>9, RunTypes DEF Jobs
<1>5. Recorded'
  <2>1. ~Rested' /\ job' \notin {"recorded", "uploaded", "indexed"}
    BY <1>2 DEF Rested
  <2>2. file' # None => file' = file /\ content'[file'] = content[file] /\ makeshift' = makeshift
    BY <1>2, <1>3
  <2> QED BY <1>1, <1>3, <1>9, <2>1, <2>2 DEF Recorded
<1>6. Apart'
  <2>1. ownDisk' = ownDisk /\ 0 \notin makeshift
    BY <1>1, <1>3, Numbers DEF TypeOK
  <2>2. file \notin makeshift => file' \notin makeshift
    BY <1>2, <2>1 DEF None
  <2> QED BY <1>1, <1>3, <2>1, <2>2 DEF Apart
<1>7. \A e \in 1..Len(engines) : \A t \in 1..indexedAt : Holds(e, t) => Holds(e, t)'
  <2>1. indexedAt \in Nat /\ run' \in Nat
    BY <1>1, <1>9, Numbers
  <2>2. \A t \in 1..indexedAt : t # run'
    BY <1>9, <2>1
  <2> QED BY <1>3, <2>2 DEF Holds
<1>10. CachedIsOpen' /\ Remembered' /\ Fresh' /\ Closed'
  <2>1. indexedAt' \in Nat /\ indexedAt <= indexedAt' /\ s3' <= indexedAt'
    BY <1>1, <1>3, Numbers DEF Remembered
  <2> QED BY <1>3, <1>7, <2>1, Queries
<1> QED BY <1>4, <1>5, <1>6, <1>10 DEF IInv

\* The run fills its file, which it makes if there is none.
LEMMA IndexKeeps ==
  ASSUME IInv, JobIndex
  PROVE  IInv'
<1>1. TypeOK /\ Recorded /\ Remembered /\ Apart
  BY DEF IInv
<1>2. /\ job = "checked out" /\ job' = "indexed" /\ indexedAt < run /\ makeshift' = makeshift \ {file}
      /\ UNCHANGED <<ownDisk, hasS3, run, indexedAt, s3, local, engines, cache, request, overlapped, clobbered>>
  BY <1>1 DEF JobIndex, jobOnly, deployment, Recorded, Rested
<1>11. indexedAt < run /\ indexedAt' = indexedAt /\ s3' = s3
  BY <1>2
<1>0. run \in Nat /\ indexedAt \in Nat /\ Len(content) \in Nat /\ content \in Seq(0..run) /\ file \in 0..Len(content)
  BY <1>1, Numbers
<1>3. /\ content' \in Seq(0..run) /\ Len(content) <= Len(content') /\ Len(content') \in Nat
      /\ file' \in 1..Len(content') /\ content'[file'] = run /\ file' \notin makeshift'
      /\ \A f \in 1..Len(content) : f = file' \/ content'[f] = content[f]
      /\ \A f \in 1..Len(content) : f # file' => (f \in makeshift <=> f \in makeshift')
  <2>1. CASE file = None
    <3>1. file' = Len(content) + 1 /\ content' = Append(content, run) /\ makeshift \subseteq 1..Len(content)
      BY <1>1, <2>1 DEF JobIndex, TypeOK
    <3>2. file' \notin makeshift /\ 0 \notin makeshift
      BY <1>0, <3>1
    <3>3. makeshift' = makeshift
      BY <1>2, <2>1, <3>2 DEF None
    <3>4. /\ Len(content') = Len(content) + 1 /\ content' \in Seq(0..run) /\ content'[Len(content) + 1] = run
          /\ \A f \in 1..Len(content) : content'[f] = content[f]
      BY <1>0, <3>1, AppendProperties
    <3> QED BY <1>0, <3>1, <3>2, <3>3, <3>4
  <2>2. CASE file # None
    <3>1. file' = file /\ content' = [content EXCEPT ![file] = run]
      BY <2>2 DEF JobIndex
    <3>2. file \in 1..Len(content)
      BY <1>1, <2>2, Numbers DEF None
    <3>3. content' \in Seq(0..run) /\ Len(content') = Len(content) /\ \A f \in 1..Len(content) : content'[f] = IF f = file THEN run ELSE content[f]
      BY <1>0, <3>1, <3>2, ExceptSeq
    <3>4. file' \notin makeshift' /\ \A f \in 1..Len(content) : f # file' => (f \in makeshift <=> f \in makeshift')
      BY <1>2, <3>1
    <3> QED BY <1>0, <3>1, <3>2, <3>3, <3>4
  <2> QED BY <2>1, <2>2
<1>4. TypeOK'
  <2>1. Engine(Len(content)) \subseteq Engine(Len(content'))
    BY <1>1, <1>3, Numbers DEF Engine
  <2>2. engines \in Seq(Engine(Len(content')))
    BY <1>1, <2>1, Numbers, SeqGrows
  <2>3. file' \in 0..Len(content') /\ local \in 0..Len(content')
    BY <1>1, <1>3, Numbers
  <2>4. makeshift' \subseteq 1..Len(content')
    <3>1. makeshift \subseteq 1..Len(content)
      BY <1>1 DEF TypeOK
    <3>2. makeshift' \subseteq makeshift
      BY <1>2
    <3>3. 1..Len(content) \subseteq 1..Len(content')
      BY <1>0, <1>3
    <3> QED BY <3>1, <3>2, <3>3
  <2> QED BY <1>1, <1>2, <1>3, <2>2, <2>3, <2>4 DEF TypeOK, Engine, Jobs
<1>5. Recorded'
  <2>1. ~Rested' /\ job' \notin {"recorded", "uploaded"}
    BY <1>2 DEF Rested
  <2>2. file' # None /\ run >= indexedAt
    BY <1>1, <1>3, Numbers DEF None
  <2>3. run' = run /\ indexedAt' = indexedAt
    BY <1>2
  <2> QED BY <1>2, <1>3, <2>1, <2>2, <2>3 DEF Recorded
<1>6. \A e \in 1..Len(engines) : \A t \in 1..indexedAt : Holds(e, t) => Holds(e, t)'
  <2>1. ASSUME NEW e \in 1..Len(engines), NEW t \in 1..indexedAt, Holds(e, t)
        PROVE  Holds(e, t)'
    <3>1. PICK f \in 1..Len(content) : f = engines[e].file
      BY <1>1, Numbers
    <3>2. t # run /\ t <= run
      BY <1>0, <1>11
    <3>3. content'[f] >= t \/ f \in makeshift'
      <4>1. content[f] >= t \/ f \in makeshift
        BY <2>1, <3>1 DEF Holds
      <4>2. CASE f = file'
        BY <1>3, <3>2, <4>2
      <4>3. CASE f # file'
        <5>1. content'[f] = content[f] /\ (f \in makeshift <=> f \in makeshift')
          BY <1>3, <4>3
        <5> QED BY <4>1, <5>1
      <4> QED BY <4>2, <4>3
    <3> QED BY <1>2, <3>1, <3>2, <3>3 DEF Holds
  <2> QED BY <2>1
<1>7. CachedIsOpen' /\ Remembered' /\ Fresh' /\ Closed'
  <2>1. indexedAt' \in Nat /\ indexedAt <= indexedAt' /\ s3' <= indexedAt'
    BY <1>0, <1>1, <1>11 DEF Remembered
  <2> QED BY <1>2, <1>6, <2>1, Queries
<1>8. Apart'
  <2> SUFFICES ASSUME ownDisk PROVE Apart'
    BY <1>2 DEF Apart
  <2>1. /\ file \notin makeshift /\ makeshift' = makeshift /\ indexedAt' = indexedAt /\ local' = local /\ engines' = engines
    BY <1>1, <1>2 DEF Apart
  <2>2. \A f \in makeshift : content'[f] <= indexedAt
    <3>1. \A f \in makeshift : f \in 1..Len(content) /\ f # file'
      BY <1>1, <1>3, <2>1 DEF TypeOK
    <3> QED BY <1>1, <1>3, <3>1 DEF Apart
  <2> QED BY <1>1, <1>3, <2>1, <2>2 DEF Apart
<1> QED BY <1>4, <1>5, <1>7, <1>8 DEF IInv

\* Nobody has read the new lastIndexedAt yet.
LEMMA RecordKeeps ==
  ASSUME IInv, JobRecord
  PROVE  IInv'
<1>1. TypeOK /\ Recorded /\ Remembered /\ Apart
  BY DEF IInv
<1>2. /\ job = "indexed" /\ job' = "recorded" /\ indexedAt' = run /\ indexedAt < run
      /\ UNCHANGED <<ownDisk, hasS3, run, file, content, s3, local, engines, cache, request, overlapped, makeshift, clobbered>>
  BY <1>1 DEF JobRecord, jobOnly, deployment, Recorded, Rested
<1>3. TypeOK'
  BY <1>1, <1>2, Numbers DEF TypeOK, Jobs
<1>4. Recorded'
  <2>1. run > 0 /\ file # None /\ (content[file] = run \/ (clobbered /\ file \in makeshift))
    BY <1>1, <1>2, Numbers DEF Recorded
  <2>2. content[file] >= run \/ file \in makeshift
    BY <1>1, <2>1, Numbers
  <2> QED BY <1>2, <2>1, <2>2 DEF Recorded, Rested
<1>5. \A e \in 1..Len(engines) : \A t \in 1..indexedAt : Holds(e, t) => Holds(e, t)'
  BY <1>2 DEF Holds
<1>6. CachedIsOpen' /\ Remembered' /\ Fresh' /\ Closed'
  <2>1. indexedAt' \in Nat /\ indexedAt <= indexedAt' /\ s3' <= indexedAt'
    BY <1>1, <1>2, Numbers DEF Remembered
  <2> QED BY <1>2, <1>5, <2>1, Queries
<1>7. Apart'
  <2>1. \A f \in makeshift : content[f] \in 0..run
    BY <1>1, Numbers DEF TypeOK
  <2>2. \A f \in makeshift : content[f] <= run
    BY <1>1, <2>1, Numbers
  <2> QED BY <1>1, <1>2, <2>2 DEF Apart
<1> QED BY <1>3, <1>4, <1>6, <1>7 DEF IInv

LEMMA UploadKeeps ==
  ASSUME IInv, JobUpload \/ UploadThrows
  PROVE  IInv'
<1>1. TypeOK /\ Recorded /\ Remembered /\ Apart
  BY DEF IInv
<1>2. /\ job = "recorded" /\ job' \in {"uploaded", "idle"} /\ s3' \in {s3, content[file]}
      /\ UNCHANGED <<ownDisk, hasS3, run, indexedAt, file, content, local, engines, cache, request, overlapped, makeshift, clobbered>>
  BY DEF JobUpload, UploadThrows, jobOnly, files, deployment
<1>3. s3' \in 0..run /\ indexedAt = run /\ run > 0
  <2>1. indexedAt = run /\ run > 0 /\ file # None
    BY <1>1, <1>2 DEF Recorded, Rested
  <2>2. content[file] \in 0..run /\ s3 \in 0..run
    BY <1>1, <2>1, Numbers DEF None
  <2> QED BY <1>2, <2>1, <2>2
<1>4. TypeOK'
  BY <1>1, <1>2, <1>3 DEF TypeOK, Jobs
<1>5. Recorded'
  BY <1>1, <1>2, <1>3 DEF Recorded, Rested
<1>6. Apart'
  BY <1>1, <1>2 DEF Apart
<1>7. \A e \in 1..Len(engines) : \A t \in 1..indexedAt : Holds(e, t) => Holds(e, t)'
  BY <1>2 DEF Holds
<1>8. CachedIsOpen' /\ Remembered' /\ Fresh' /\ Closed'
  <2>1. indexedAt \in Nat /\ run \in Nat /\ indexedAt' = indexedAt
    BY <1>1, <1>2, Numbers
  <2>2. indexedAt' \in Nat /\ indexedAt <= indexedAt' /\ s3' <= indexedAt'
    BY <1>3, <2>1
  <2> QED BY <1>2, <1>7, <2>2, Queries
<1> QED BY <1>4, <1>5, <1>6, <1>8 DEF IInv

-----------------------------------------------------------------------------
(* The requests.                                                             *)

\* A request that moves on takes what was recorded, or the cached engine.
Moves(r) ==
  /\ request'[r].object <= indexedAt
  /\ \/ request'[r] \in {request[r], Idle}
     \/ request'[r].at = "asked" /\ request'[r].seen <= indexedAt
     \/ request'[r].at \in {"open", "fetched"} /\ request'[r].seen <= indexedAt /\ request'[r].seen > 0
     \/ /\ request'[r].at = "serve" /\ request'[r].seen = cache.indexedAt
        /\ request'[r].engine = cache.engine /\ cache.engine # None

\* A step that opens no engine: what is left to show is Closed.
LEMMA QueryKeeps ==
  ASSUME IInv, job' = job \/ (job = "uploaded" /\ job' = "idle"),
         UNCHANGED <<ownDisk, hasS3, run, indexedAt, file, content, s3, local, makeshift, clobbered>>,
         engines' \in Seq(Engine(Len(content))), Len(engines') = Len(engines),
         \A e \in 1..Len(engines) : engines'[e].file = engines[e].file,
         cache' = NoEntry \/ (UNCHANGED <<cache, engines>>),
         request' \in [Requests -> RequestType(Len(engines))],
         \A r \in Requests : Moves(r), overlapped' \in BOOLEAN, Closed'
  PROVE  IInv'
<1>1. TypeOK /\ CachedIsOpen /\ Recorded /\ Remembered /\ Fresh /\ Apart
  BY DEF IInv
<1>2. Rested' <=> Rested
  BY DEF Rested
<1>3. /\ indexedAt \in Nat /\ cache.indexedAt \in 0..run /\ cache.engine \in 0..Len(engines) /\ Len(engines) \in Nat
      /\ \A r \in Requests : request[r].engine \in 0..Len(engines) /\ request[r].seen \in 0..run
  <2>1. indexedAt \in Nat /\ Len(engines) \in Nat
    BY <1>1, Numbers
  <2> QED BY <1>1, <2>1 DEF TypeOK
<1>4. TypeOK'
  <2>1. cache' \in [engine : 0..Len(engines'), indexedAt : 0..run]
    <3>1. CASE cache' = NoEntry
      <4>1. 0 \in 0..Len(engines') /\ 0 \in 0..run
        BY <1>1, <1>3, Numbers
      <4> QED BY <3>1, <4>1 DEF NoEntry, None
    <3>2. CASE UNCHANGED <<cache, engines>>
      BY <1>1, <3>2 DEF TypeOK
    <3> QED BY <3>1, <3>2
  <2>2. job' \in Jobs
    BY <1>1 DEF TypeOK, Jobs
  <2> QED BY <1>1, <2>1, <2>2 DEF TypeOK, Engine, RequestType
<1>5. CachedIsOpen'
  BY <1>1, NoEntryFields DEF CachedIsOpen
<1>6. Recorded'
  <2>1. job' = "indexed" => job = "indexed"
    OBVIOUS
  <2>2. job' \in {"recorded", "uploaded"} => job \in {"recorded", "uploaded"}
    OBVIOUS
  <2> QED BY <1>1, <1>2, <2>1, <2>2 DEF Recorded
<1>7. Remembered'
  <2>1. cache'.indexedAt <= indexedAt' /\ (cache'.engine # None => cache'.indexedAt > 0) /\ s3' <= indexedAt'
    <3>1. CASE cache' = NoEntry
      BY <1>1, <1>3, <3>1, NoEntryFields DEF Remembered
    <3>2. CASE cache' = cache
      BY <1>1, <3>2 DEF Remembered
    <3> QED BY <3>1, <3>2
  <2>2. ASSUME NEW r \in Requests
        PROVE  /\ request'[r].seen <= indexedAt /\ request'[r].object <= indexedAt
               /\ request'[r].at \in {"open", "fetched", "serve"} => request'[r].seen > 0
               /\ request'[r].at = "serve" => request'[r].engine # None
    <3>0. request'[r].object <= indexedAt
      BY DEF Moves
    <3>1. CASE request'[r] = request[r]
      BY <1>1, <3>1 DEF Remembered
    <3>2. CASE request'[r] = Idle
      BY <1>3, <3>0, <3>2, IdleFields
    <3>3. CASE request'[r].at = "asked" /\ request'[r].seen <= indexedAt
      BY <3>0, <3>3
    <3>4. CASE request'[r].at \in {"open", "fetched"} /\ request'[r].seen <= indexedAt /\ request'[r].seen > 0
      BY <3>0, <3>4
    <3>5. CASE /\ request'[r].at = "serve" /\ request'[r].seen = cache.indexedAt
               /\ request'[r].engine = cache.engine /\ cache.engine # None
      BY <1>1, <3>0, <3>5 DEF Remembered
    <3> QED BY <3>1, <3>2, <3>3, <3>4, <3>5 DEF Moves
  <2> QED BY <2>1, <2>2 DEF Remembered
<1>8. Fresh'
  <2>1. ASSUME NEW e \in 1..Len(engines), NEW t, Holds(e, t)
        PROVE  Holds(e, t)'
    BY <2>1 DEF Holds
  <2>2. cache'.engine # None => Holds(cache.engine, cache.indexedAt)'
    <3>1. CASE cache' = NoEntry
      BY <3>1, NoEntryFields
    <3>2. CASE UNCHANGED <<cache, engines>>
      <4> SUFFICES ASSUME cache.engine # None PROVE Holds(cache.engine, cache.indexedAt)'
        BY <3>2
      <4>0. PICK t : t = cache.indexedAt
        OBVIOUS
      <4>1. PICK e \in 1..Len(engines) : e = cache.engine
        BY <1>3 DEF None
      <4>2. Holds(e, t)
        BY <1>1, <4>0, <4>1 DEF Fresh
      <4>3. Holds(e, t)'
        BY <2>1, <4>2
      <4> QED BY <3>2, <4>0, <4>1, <4>3 DEF Holds
    <3> QED BY <3>1, <3>2
  <2>3. ASSUME NEW r \in Requests, request'[r].at = "serve"
        PROVE  Holds(request[r].engine, request[r].seen)'
    <3>0. PICK e, t : e = request'[r].engine /\ t = request'[r].seen
      OBVIOUS
    <3>1. request'[r] = request[r] \/ /\ t = cache.indexedAt /\ e = cache.engine /\ cache.engine # None
      BY <2>3, <3>0, IdleFields DEF Moves
    <3>2. e \in 1..Len(engines)
      BY <1>1, <1>3, <2>3, <3>0, <3>1 DEF Remembered, None
    <3>3. Holds(e, t)
      BY <1>1, <2>3, <3>0, <3>1 DEF Fresh
    <3>4. Holds(e, t)'
      BY <2>1, <3>2, <3>3
    <3> QED BY <3>0, <3>4 DEF Holds
  <2> QED BY <2>2, <2>3 DEF Fresh
<1>9. Apart'
  BY <1>1 DEF Apart
<1> QED BY <1>4, <1>5, <1>6, <1>7, <1>8, <1>9 DEF IInv

\* The type of a request.
LEMMA RequestOK ==
  ASSUME TypeOK, NEW r \in Requests
  PROVE  /\ request \in [Requests -> RequestType(Len(engines))] /\ Idle \in RequestType(Len(engines))
         /\ [Idle EXCEPT !.at = "asked", !.seen = indexedAt] \in RequestType(Len(engines))
         /\ \A a \in {"open", "fetched", "serve"} : \A e \in 0..Len(engines) : \A o \in 0..run :
              [at |-> a, seen |-> request[r].seen, engine |-> e, object |-> o] \in RequestType(Len(engines))
         /\ request[r] = [at |-> request[r].at, seen |-> request[r].seen, engine |-> request[r].engine, object |-> request[r].object]
<1>1. request \in [Requests -> RequestType(Len(engines))]
  BY DEF TypeOK, RequestType
<1>2. 0 \in 0..run /\ 0 \in 0..Len(engines) /\ indexedAt \in 0..run
  BY Numbers
<1> QED BY <1>1, <1>2 DEF RequestType, Idle, None

\* Closing the cached engine leaves none open, unless two were being opened.
LEMMA InvalidateCloses ==
  ASSUME TypeOK, Closed, Invalidate
  PROVE  /\ engines' \in Seq(Engine(Len(content))) /\ Len(engines') = Len(engines)
         /\ \A e \in 1..Len(engines) : engines'[e].file = engines[e].file
         /\ cache' = NoEntry
         /\ ~overlapped => \A e \in DOMAIN engines' : ~engines'[e].open
<1>1. engines \in Seq(Engine(Len(content))) /\ DOMAIN engines = 1..Len(engines) /\ Len(engines) \in Nat
  BY LenProperties DEF TypeOK, Engine
<1>2. engines' = [e \in 1..Len(engines) |-> [engines[e] EXCEPT !.open = engines[e].open /\ e # cache.engine]] /\ cache' = NoEntry
  BY <1>1 DEF Invalidate
<1>3. \A e \in 1..Len(engines) : engines[e] \in Engine(Len(content))
  BY <1>1, ElementOfSeq
<1>4. \A e \in 1..Len(engines) : /\ engines'[e] \in Engine(Len(content)) /\ engines'[e].file = engines[e].file
                                 /\ engines'[e].open = (engines[e].open /\ e # cache.engine)
  BY <1>2, <1>3 DEF Engine
<1>5. engines' \in [1..Len(engines) -> Engine(Len(content))] /\ DOMAIN engines' = 1..Len(engines)
  BY <1>2, <1>4
<1>6. engines' \in Seq(Engine(Len(content))) /\ Len(engines') = Len(engines)
  BY <1>1, <1>5, IsASeq, LenProperties
<1>7. ~overlapped => \A e \in DOMAIN engines' : ~engines'[e].open
  BY <1>1, <1>4, <1>5 DEF Closed
<1> QED BY <1>2, <1>4, <1>6, <1>7

LEMMA JobDoneKeeps ==
  ASSUME IInv, JobDone
  PROVE  IInv'
<1>1. TypeOK /\ Closed /\ Remembered /\ request \in [Requests -> RequestType(Len(engines))]
  BY RequestOK DEF IInv, TypeOK, RequestType
<1>2. /\ job = "uploaded" /\ job' = "idle"
      /\ Invalidate \/ UNCHANGED <<engines, cache>>
      /\ UNCHANGED <<ownDisk, hasS3, run, indexedAt, file, content, s3, local, request, overlapped, makeshift, clobbered>>
  BY DEF JobDone, files, deployment
<1>3. /\ engines' \in Seq(Engine(Len(content))) /\ Len(engines') = Len(engines)
      /\ \A e \in 1..Len(engines) : engines'[e].file = engines[e].file
      /\ cache' = NoEntry \/ UNCHANGED <<cache, engines>>
  BY <1>1, <1>2, InvalidateCloses DEF TypeOK, Engine
<1>4. Closed'
  <2>1. CASE Invalidate
    BY <1>1, <1>2, <2>1, InvalidateCloses, NoEntryFields DEF Closed, Opening
  <2>2. CASE UNCHANGED <<engines, cache>>
    BY <1>1, <1>2, <2>2 DEF Closed, Opening
  <2> QED BY <1>2, <2>1, <2>2
<1>5. \A r \in Requests : Moves(r)
  BY <1>1, <1>2 DEF Moves, Remembered
<1>6. overlapped' \in BOOLEAN
  BY <1>1, <1>2 DEF TypeOK
<1>7. request' \in [Requests -> RequestType(Len(engines))]
  BY <1>1, <1>2
<1>8. /\ job = "uploaded" /\ job' = "idle"
      /\ UNCHANGED <<ownDisk, hasS3, run, indexedAt, file, content, s3, local, makeshift, clobbered>>
  BY <1>2
<1> QED BY <1>3, <1>4, <1>5, <1>6, <1>7, <1>8, QueryKeeps

LEMMA RestartKeeps ==
  ASSUME IInv, Restart
  PROVE  IInv'
<1>1. TypeOK /\ Closed
  BY DEF IInv
<1>2. /\ cache' = NoEntry /\ request' = [r \in Requests |-> Idle]
      /\ engines' = [e \in DOMAIN engines |-> [engines[e] EXCEPT !.open = FALSE]]
      /\ UNCHANGED <<ownDisk, hasS3, job, run, indexedAt, s3, file, content, local, overlapped, makeshift, clobbered>>
  BY DEF Restart, requestOnly, files, deployment
<1>3. engines \in Seq(Engine(Len(content))) /\ DOMAIN engines = 1..Len(engines) /\ Len(engines) \in Nat
  BY <1>1, LenProperties DEF TypeOK, Engine
<1>4. \A e \in 1..Len(engines) : /\ engines'[e] \in Engine(Len(content)) /\ engines'[e].file = engines[e].file
                                 /\ ~engines'[e].open
  <2>1. \A e \in 1..Len(engines) : engines[e] \in Engine(Len(content))
    BY <1>3, ElementOfSeq
  <2> QED BY <1>2, <1>3, <2>1 DEF Engine
<1>5. engines' \in [1..Len(engines) -> Engine(Len(content))] /\ DOMAIN engines' = 1..Len(engines)
  BY <1>2, <1>3, <1>4
<1>6. engines' \in Seq(Engine(Len(content))) /\ Len(engines') = Len(engines)
  BY <1>3, <1>5, IsASeq, LenProperties
<1>7. request' \in [Requests -> RequestType(Len(engines))] /\ \A r \in Requests : request'[r] = Idle
  <2>1. \A r \in Requests : Idle \in RequestType(Len(engines))
    BY <1>1, RequestOK
  <2> QED BY <1>2, <2>1
<1>8. Closed'
  BY <1>2, <1>4, <1>5, <1>7, IdleFields DEF Closed, Opening
<1>9. \A r \in Requests : Moves(r)
  <2>1. 0 <= indexedAt
    BY <1>1, Numbers
  <2> QED BY <1>7, <2>1, IdleFields DEF Moves
<1>10. overlapped' \in BOOLEAN
  BY <1>1, <1>2 DEF TypeOK
<1>11. /\ cache' = NoEntry /\ job' = job
       /\ UNCHANGED <<ownDisk, hasS3, run, indexedAt, file, content, s3, local, makeshift, clobbered>>
  BY <1>2
<1>12. /\ request' \in [Requests -> RequestType(Len(engines))]
       /\ \A e \in 1..Len(engines) : engines'[e].file = engines[e].file
  BY <1>4, <1>7
<1> QED BY <1>6, <1>8, <1>9, <1>10, <1>11, <1>12, QueryKeeps

\* A request asks, finds its engine in the cache, has the object of S3, fails to
\* open an engine, or is answered.
LEMMA RequestKeeps ==
  ASSUME IInv, NEW r \in Requests, Ask(r) \/ Hit(r) \/ Fetch(r) \/ OpenFails(r) \/ Serve(r)
  PROVE  IInv'
<1>1. TypeOK /\ Closed /\ Remembered /\ request \in [Requests -> RequestType(Len(engines))]
  BY RequestOK DEF IInv
<1>2. UNCHANGED <<ownDisk, hasS3, job, run, indexedAt, s3, file, content, local, engines, cache, overlapped, makeshift, clobbered>>
  BY DEF Ask, Hit, Fetch, OpenFails, Serve, requestOnly, files, deployment
<1>0. indexedAt \in Nat /\ s3 \in 0..run /\ s3 <= indexedAt /\ 0 \in 0..run
  BY <1>1, Numbers DEF Remembered
<1>3. PICK x \in RequestType(Len(engines)) :
        /\ request' = [request EXCEPT ![r] = x] /\ (x.at \in {"open", "fetched"} => r \in Opening)
        /\ x.object <= indexedAt
        /\ \/ x = Idle
           \/ x.at = "asked" /\ x.seen = indexedAt
           \/ x.at = "fetched" /\ x.seen = request[r].seen /\ request[r].at = "open"
           \/ x.at = "serve" /\ x.seen = cache.indexedAt /\ x.engine = cache.engine /\ cache.engine # None
  <2>1. CASE Ask(r)
    <3>1. PICK x : x = [Idle EXCEPT !.at = "asked", !.seen = indexedAt]
      OBVIOUS
    <3>2. request' = [request EXCEPT ![r] = x] /\ x \in RequestType(Len(engines))
      BY <1>1, <2>1, <3>1, RequestOK DEF Ask
    <3>3. x.at = "asked" /\ x.seen = indexedAt /\ x.object = 0
      BY <3>1 DEF Idle
    <3>4. x.object <= indexedAt /\ x.at \notin {"open", "fetched"}
      BY <1>0, <3>3
    <3> QED BY <3>2, <3>3, <3>4, Zenon
  <2>2. CASE Hit(r)
    <3>1. PICK x : x = [at |-> "serve", seen |-> request[r].seen, engine |-> cache.engine, object |-> 0]
      OBVIOUS
    <3>2. request' = [request EXCEPT ![r] = x]
      BY <2>2, <3>1 DEF Hit, Serving
    <3>3. cache.engine # None /\ cache.indexedAt = request[r].seen /\ cache.engine \in 0..Len(engines)
      BY <1>1, <2>2 DEF Hit, IsHit, TypeOK
    <3>4. x \in RequestType(Len(engines))
      BY <1>0, <1>1, <3>1, <3>3, RequestOK
    <3>5. x.object <= indexedAt /\ x.at = "serve" /\ x.seen = cache.indexedAt /\ x.engine = cache.engine
      BY <1>0, <3>1, <3>3
    <3> WITNESS x \in RequestType(Len(engines))
    <3> QED BY <3>2, <3>3, <3>5
  <2>3. CASE OpenFails(r) \/ Serve(r)
    <3>1. request' = [request EXCEPT ![r] = Idle]
      BY <2>3 DEF OpenFails, Serve
    <3>2. Idle \in RequestType(Len(engines)) /\ Idle.object <= indexedAt /\ Idle.at \notin {"open", "fetched"}
      BY <1>0, <1>1, RequestOK, IdleFields
    <3> QED BY <3>1, <3>2, Zenon
  <2>4. CASE Fetch(r)
    <3>1. PICK x : x = [request[r] EXCEPT !.at = "fetched", !.object = s3]
      OBVIOUS
    <3>2. request' = [request EXCEPT ![r] = x] /\ request[r].at = "open"
      BY <2>4, <3>1 DEF Fetch
    <3>3. request[r] \in RequestType(Len(engines))
      BY <1>1
    <3>4. x \in RequestType(Len(engines)) /\ x.object = s3 /\ x.at = "fetched" /\ x.seen = request[r].seen
      BY <1>0, <3>1, <3>3 DEF RequestType
    <3>5. x.object <= indexedAt /\ r \in Opening
      BY <1>0, <3>2, <3>4 DEF Opening
    <3> QED BY <3>2, <3>4, <3>5, Zenon
  <2> QED BY <2>1, <2>2, <2>3, <2>4
<1>4. request' \in [Requests -> RequestType(Len(engines))] /\ request'[r] = x /\ \A q \in Requests \ {r} : request'[q] = request[q]
  BY <1>1, <1>3
<1>5. \A q \in Requests : Moves(q)
  <2>1. \A q \in Requests \ {r} : Moves(q)
    BY <1>1, <1>4 DEF Moves, Remembered
  <2>2. x.at = "fetched" /\ x.seen = request[r].seen /\ request[r].at = "open" => x.seen <= indexedAt /\ x.seen > 0
    BY <1>1 DEF Remembered
  <2>3. Moves(r)
    BY <1>0, <1>3, <1>4, <2>2 DEF Moves
  <2> QED BY <2>1, <2>3
<1>6. Opening' \subseteq Opening
  BY <1>3, <1>4 DEF Opening
<1>7. Closed'
  BY <1>1, <1>2, <1>6 DEF Closed
<1>8. overlapped' \in BOOLEAN /\ engines' \in Seq(Engine(Len(content)))
  BY <1>1, <1>2 DEF TypeOK, Engine
<1> QED BY <1>2, <1>4, <1>5, <1>7, <1>8, QueryKeeps

\* A request that finds nothing closes what is cached and opens an engine.
LEMMA MissKeeps ==
  ASSUME IInv, NEW r \in Requests, Miss(r)
  PROVE  IInv'
<1>1. TypeOK /\ Closed /\ Remembered /\ request \in [Requests -> RequestType(Len(engines))]
  BY RequestOK DEF IInv
<1>2. Invalidate /\ UNCHANGED <<ownDisk, hasS3, job, run, indexedAt, s3, file, content, local, makeshift, clobbered>>
  BY DEF Miss, requestOnly, files, deployment
<1>3. request[r].seen \in Nat /\ request[r].seen <= indexedAt /\ request[r].engine \in 0..Len(engines)
  BY <1>1, Numbers DEF TypeOK, Remembered
<1>0. 0 <= indexedAt /\ request[r].object <= indexedAt
  BY <1>1, Numbers DEF Remembered
<1>4. PICK x \in RequestType(Len(engines)) :
        /\ request' = [request EXCEPT ![r] = x] /\ x.object <= indexedAt
        /\ \/ x = Idle /\ overlapped' = overlapped
           \/ /\ x.at = "open" /\ x.seen = request[r].seen /\ x.seen > 0
              /\ overlapped' = (overlapped \/ Opening # {})
  <2>1. CASE request[r].seen = 0
    <3>1. request' = [request EXCEPT ![r] = Idle] /\ overlapped' = overlapped
      BY <2>1 DEF Miss
    <3>2. Idle \in RequestType(Len(engines)) /\ Idle.object <= indexedAt
      BY <1>0, <1>1, RequestOK, IdleFields
    <3> QED BY <3>1, <3>2, Zenon
  <2>2. CASE request[r].seen # 0
    <3>1. PICK x : x = [request[r] EXCEPT !.at = "open"]
      OBVIOUS
    <3>2. request' = [request EXCEPT ![r] = x] /\ overlapped' = (overlapped \/ Opening # {})
      BY <2>2, <3>1 DEF Miss
    <3>3. request[r] \in RequestType(Len(engines))
      BY <1>1
    <3>4. x \in RequestType(Len(engines)) /\ x.at = "open" /\ x.seen = request[r].seen /\ x.object = request[r].object
      BY <3>1, <3>3 DEF RequestType
    <3>5. x.seen > 0 /\ x.object <= indexedAt
      BY <1>0, <1>3, <2>2, <3>4
    <3> QED BY <3>2, <3>4, <3>5, Zenon
  <2> QED BY <2>1, <2>2
<1>5. request' \in [Requests -> RequestType(Len(engines))] /\ request'[r] = x /\ \A q \in Requests \ {r} : request'[q] = request[q]
  BY <1>1, <1>4
<1>6. \A q \in Requests : Moves(q)
  <2>1. \A q \in Requests \ {r} : Moves(q)
    BY <1>1, <1>5 DEF Moves, Remembered
  <2>2. Moves(r)
    BY <1>3, <1>4, <1>5 DEF Moves
  <2> QED BY <2>1, <2>2
<1>7. overlapped' \in BOOLEAN /\ (~overlapped' => ~overlapped /\ \A q \in Opening' : q = r \/ q \in Opening)
  <2>1. \A q \in Opening' : q = r \/ q \in Opening
    BY <1>5 DEF Opening
  <2>2. overlapped \in BOOLEAN
    BY <1>1 DEF TypeOK
  <2>3. overlapped' = overlapped \/ overlapped' = (overlapped \/ Opening # {})
    BY <1>4
  <2> QED BY <2>1, <2>2, <2>3, Zenon
<1>8. Closed'
  <2> SUFFICES ASSUME ~overlapped' PROVE Closed'
    BY DEF Closed
  <2>1. cache'.engine = None /\ \A e \in DOMAIN engines' : ~engines'[e].open
    BY <1>1, <1>2, <1>7, InvalidateCloses, NoEntryFields
  <2>2. \A p, q \in Opening' : p = q
    <3>1. CASE x = Idle
      <4>1. Opening' \subseteq Opening
        BY <1>5, <3>1, IdleFields DEF Opening
      <4> QED BY <1>1, <1>7, <4>1 DEF Closed
    <3>2. CASE x # Idle
      <4>1. Opening = {}
        BY <1>4, <3>2
      <4> QED BY <1>7, <4>1
    <3> QED BY <3>1, <3>2
  <2> QED BY <2>1, <2>2 DEF Closed
<1> QED BY <1>1, <1>2, <1>5, <1>6, <1>7, <1>8, InvalidateCloses, QueryKeeps

\* A new inode at the path of the cache.
LEMMA CreateKeeps ==
  ASSUME TypeOK, NEW c \in 0..run, Create(c)
  PROVE  /\ content' \in Seq(0..run) /\ Len(content') = Len(content) + 1 /\ content'[Len(content) + 1] = c
         /\ \A f \in 1..Len(content) : content'[f] = content[f]
         /\ makeshift' = makeshift \cup {Len(content) + 1} /\ clobbered' = clobbered
         /\ ownDisk => local' = Len(content) + 1 /\ file' = file
         /\ ~ownDisk => file' = Len(content) + 1 /\ local' = local
<1>1. content \in Seq(0..run) /\ Len(content) \in Nat
  BY Numbers
<1>2. content' = Append(content, c)
  BY DEF Create
<1>3. /\ content' \in Seq(0..run) /\ Len(content') = Len(content) + 1 /\ content'[Len(content) + 1] = c
      /\ \A f \in 1..Len(content) : content'[f] = content[f]
  BY <1>1, <1>2, AppendProperties
<1> QED BY <1>3 DEF Create

\* The path of the cache once its engine is open, and what a download may have
\* taken from those who use the file.
Path ==
  /\ content' \in Seq(0..run) /\ Len(content') \in Nat /\ Len(content) <= Len(content')
  /\ file' \in 0..Len(content') /\ local' \in 0..Len(content')
  /\ makeshift \subseteq makeshift' /\ makeshift' \subseteq 1..Len(content') /\ clobbered' \in BOOLEAN
  /\ \A f \in 1..Len(content) : /\ content'[f] = content[f] \/ f \in makeshift'
                                /\ ~ownDisk /\ ~clobbered' => content'[f] = content[f]
  /\ clobbered => clobbered'
  /\ file # None => file' = file /\ (ownDisk => content'[file] = content[file])
  /\ file = None => file' = None \/ file' \in makeshift'
  /\ ownDisk => /\ file' = file /\ (file \notin makeshift => file \notin makeshift')
                /\ \A f \in makeshift' : f \in makeshift \/ content'[f] <= indexedAt
                /\ \A f \in makeshift : content'[f] = content[f] \/ content'[f] <= indexedAt
                /\ local' \in makeshift'
  /\ IF ownDisk THEN local' \in 1..Len(content') ELSE file' \in 1..Len(content')
  /\ ownDisk \/ file = None => (IF ownDisk THEN local' ELSE file') \in makeshift'

LEMMA OpenPath ==
  ASSUME IInv, NEW r \in Requests, Open(r)
  PROVE  Path
<1>1. TypeOK /\ Recorded /\ Remembered /\ Apart
  BY DEF IInv
<1>2. /\ content \in Seq(0..run) /\ Len(content) \in Nat /\ file \in 0..Len(content) /\ local \in 0..Len(content)
      /\ makeshift \subseteq 1..Len(content) /\ clobbered \in BOOLEAN /\ ownDisk \in BOOLEAN
      /\ request[r].object \in 0..run /\ 0 \in 0..run /\ indexedAt \in Nat
  <2>1. clobbered \in BOOLEAN /\ ownDisk \in BOOLEAN /\ makeshift \subseteq 1..Len(content) /\ request[r].object \in 0..run
    BY <1>1 DEF TypeOK
  <2>2. 0 \in 0..run /\ indexedAt \in Nat
    BY <1>1, Numbers
  <2> QED BY <1>1, <2>1, <2>2, Numbers
<1>3. CASE request[r].at = "open" /\ Here # None /\ UNCHANGED files
  <2>1. UNCHANGED <<file, content, local, makeshift, clobbered>>
    BY <1>3 DEF files
  <2>2. IF ownDisk THEN local \in 1..Len(content) ELSE file \in 1..Len(content)
    BY <1>2, <1>3 DEF Here, None
  <2>3. ownDisk => local \in makeshift
    BY <1>1, <1>3 DEF Apart, Here
  <2>4. ~ownDisk => file # None
    BY <1>3 DEF Here
  <2>5. ownDisk => \A f \in makeshift : content[f] <= indexedAt
    BY <1>1 DEF Apart
  <2> QED BY <1>2, <2>1, <2>2, <2>3, <2>4, <2>5 DEF Path
<1>4. ASSUME Here = None, NEW c \in 0..run, c <= indexedAt, Create(c)
      PROVE  Path
  <2> PICK n \in Nat : n = Len(content) + 1
    BY <1>2
  <2>1. /\ content' \in Seq(0..run) /\ Len(content') = n /\ content'[n] = c
        /\ \A f \in 1..Len(content) : content'[f] = content[f]
        /\ makeshift' = makeshift \cup {n} /\ clobbered' = clobbered
        /\ ownDisk => local' = n /\ file' = file
        /\ ~ownDisk => file' = n /\ local' = local
    BY <1>1, <1>4, CreateKeeps
  <2>2. /\ content' \in Seq(0..run) /\ Len(content') \in Nat /\ Len(content) <= Len(content')
        /\ n \in 1..Len(content') /\ n \notin 0..Len(content) /\ 0..Len(content) \subseteq 0..Len(content')
    BY <1>2, <2>1
  <2>3. file' \in 0..Len(content') /\ local' \in 0..Len(content')
    BY <1>2, <2>1, <2>2
  <2>4. /\ makeshift \subseteq makeshift' /\ makeshift' \subseteq 1..Len(content') /\ clobbered' \in BOOLEAN
        /\ (clobbered => clobbered') /\ n \in makeshift'
    <3>1. 1..Len(content) \subseteq 1..Len(content')
      BY <1>2, <2>2
    <3>2. makeshift' \subseteq 1..Len(content')
      BY <1>2, <2>1, <2>2, <3>1
    <3>3. clobbered' \in BOOLEAN /\ (clobbered => clobbered')
      BY <1>2, <2>1, Zenon
    <3> QED BY <2>1, <3>2, <3>3
  <2>5. \A f \in makeshift : content'[f] = content[f]
    BY <1>2, <2>1
  <2>6. \A f \in makeshift' : f \in makeshift \/ content'[f] <= indexedAt
    BY <1>4, <2>1
  <2>7. file # None => file \in 1..Len(content)
    BY <1>2 DEF None
  <2>8. CASE ownDisk
    <3>1. file' = file /\ local' = n /\ file # n
      BY <1>2, <2>1, <2>2, <2>8
    <3>2. file \notin makeshift => file \notin makeshift'
      BY <2>1, <3>1
    <3>3. file # None => content'[file] = content[file]
      BY <2>1, <2>7
    <3> QED BY <2>1, <2>2, <2>3, <2>4, <2>5, <2>6, <2>8, <3>1, <3>2, <3>3 DEF Path
  <2>9. CASE ~ownDisk
    <3>1. file' = n /\ file = None
      BY <1>4, <2>1, <2>9 DEF Here
    <3> QED BY <2>1, <2>2, <2>3, <2>4, <2>9, <3>1 DEF Path
  <2> QED BY <2>8, <2>9
<1>5. ASSUME Here # None, Download(request[r].object)
      PROVE  Path
  <2> PICK h \in 1..Len(content) : h = Here
    BY <1>2, <1>5 DEF Here, None
  <2>1. /\ content' = [content EXCEPT ![h] = request[r].object] /\ makeshift' = makeshift \cup {h}
        /\ clobbered' = (clobbered \/ ~ownDisk) /\ file' = file /\ local' = local
    BY <1>5 DEF Download
  <2>2. /\ content' \in Seq(0..run) /\ Len(content') = Len(content)
        /\ \A f \in 1..Len(content) : content'[f] = IF f = h THEN request[r].object ELSE content[f]
    BY <1>2, <2>1, ExceptSeq
  <2>3. request[r].object <= indexedAt
    BY <1>1 DEF Remembered
  <2>4. \A f \in makeshift : f \in 1..Len(content)
    BY <1>2
  <2>5. file # None => file \in 1..Len(content)
    BY <1>2 DEF None
  <2>6. CASE ownDisk
    <3>1. local = h /\ h \in makeshift /\ file \notin makeshift /\ makeshift' = makeshift
      BY <1>1, <1>5, <2>1, <2>6 DEF Here, Apart
    <3>2. file # h
      BY <3>1
    <3> QED BY <1>2, <2>1, <2>2, <2>3, <2>4, <2>5, <2>6, <3>1, <3>2 DEF Path
  <2>7. CASE ~ownDisk
    <3>1. file = h /\ clobbered' = TRUE
      BY <2>1, <2>7 DEF Here
    <3> QED BY <1>2, <2>1, <2>2, <2>4, <2>7, <3>1 DEF Path
  <2> QED BY <2>6, <2>7
<1>6. \/ request[r].at = "open" /\ Here # None /\ UNCHANGED files
      \/ Here = None /\ Create(0)
      \/ Download(request[r].object)
  BY DEF Open
<1>7. CASE Here = None /\ Create(0)
  BY <1>2, <1>4, <1>7
<1>8. CASE Download(request[r].object)
  <2>1. CASE Here = None
    <3>1. Create(request[r].object) /\ request[r].object <= indexedAt
      BY <1>1, <1>8, <2>1 DEF Download, Remembered
    <3> QED BY <1>2, <1>4, <2>1, <3>1
  <2> QED BY <1>5, <1>8, <2>1
<1> QED BY <1>3, <1>6, <1>7, <1>8

\* The engine a request opens becomes the cached one.
LEMMA OpenKeeps ==
  ASSUME IInv, NEW r \in Requests, Open(r)
  PROVE  IInv'
<1>1. /\ TypeOK /\ Recorded /\ Remembered /\ Fresh /\ Apart /\ Closed
      /\ request \in [Requests -> RequestType(Len(engines))]
  BY RequestOK DEF IInv
<1>2. PICK n \in Nat : n = Len(engines) + 1
  BY <1>1, Numbers
<1>5. Path
  BY OpenPath
<1>0. /\ Len(content) \in Nat /\ Len(content') \in Nat /\ Len(content) <= Len(content') /\ Len(engines) \in Nat
      /\ \A e \in 1..Len(engines) : engines[e].file \in 1..Len(content)
  BY <1>1, <1>5, Numbers DEF Path
<1>16. UNCHANGED <<ownDisk, hasS3, job, run, indexedAt, s3, overlapped>>
  BY DEF Open, requestOnly, deployment
<1>3. PICK f \in 1..Len(content') : f = Here' /\ f = IF ownDisk THEN local' ELSE file'
  BY <1>5, <1>16 DEF Here, Path
<1>4. PICK new : new = [file |-> f, open |-> TRUE]
  OBVIOUS
<1>6. /\ engines' = Append(engines, new) /\ engines' \in Seq(Engine(Len(content'))) /\ Len(engines') = n
      /\ engines'[n] = new /\ \A e \in 1..Len(engines) : engines'[e] = engines[e]
      /\ n <= MaxOpens
  <2>1. Engine(Len(content)) \subseteq Engine(Len(content')) /\ new \in Engine(Len(content'))
    BY <1>0, <1>3, <1>4 DEF Engine
  <2>2. engines \in Seq(Engine(Len(content')))
    BY <1>1, <2>1, Numbers, SeqGrows
  <2>3. engines' = Append(engines, new) /\ Len(engines) < MaxOpens
    BY <1>3, <1>4 DEF Open
  <2>4. /\ engines' \in Seq(Engine(Len(content'))) /\ Len(engines') = Len(engines) + 1
        /\ engines'[Len(engines) + 1] = new /\ \A e \in 1..Len(engines) : engines'[e] = engines[e]
    BY <2>1, <2>2, <2>3, AppendProperties
  <2> QED BY <1>0, <1>2, <2>3, <2>4, CacheAssumption
<1>7. PICK x : x = [at |-> "serve", seen |-> request[r].seen, engine |-> n, object |-> 0]
  OBVIOUS
<1>8. /\ r \in Opening /\ cache' = [engine |-> n, indexedAt |-> request[r].seen]
      /\ request' = [request EXCEPT ![r] = x]
  BY <1>6, <1>7 DEF Open, Serving, Opening
<1>9. /\ request[r].seen \in 0..run /\ request[r].seen <= indexedAt /\ request[r].seen > 0
      /\ run \in Nat /\ indexedAt \in Nat /\ indexedAt <= run /\ n \in 0..n /\ n # 0
  <2>1. run \in Nat /\ indexedAt \in Nat /\ indexedAt <= run
    BY <1>1, Numbers
  <2>2. request[r].seen \in 0..run
    BY <1>1 DEF RequestType
  <2>3. request[r].seen <= indexedAt /\ request[r].seen > 0
    BY <1>1, <1>8 DEF Remembered, Opening
  <2> QED BY <1>0, <1>2, <2>1, <2>2, <2>3
<1>10. request' \in [Requests -> RequestType(n)] /\ request'[r] = x /\ \A q \in Requests \ {r} : request'[q] = request[q]
  <2>1. 0..Len(engines) \subseteq 0..n
    BY <1>0, <1>2
  <2>2. x \in RequestType(n) /\ RequestType(Len(engines)) \subseteq RequestType(n)
    BY <1>7, <1>9, <2>1 DEF RequestType
  <2> QED BY <1>1, <1>8, <2>2
<1>11. TypeOK'
  <2>1. /\ run' \in 0..MaxRuns /\ indexedAt' \in 0..run' /\ s3' \in 0..run' /\ job' \in Jobs /\ overlapped' \in BOOLEAN
        /\ ownDisk' \in BOOLEAN /\ hasS3' \in BOOLEAN
    BY <1>1, <1>16 DEF TypeOK
  <2>2. cache' \in [engine : 0..Len(engines'), indexedAt : 0..run']
    BY <1>6, <1>8, <1>9, <1>16
  <2>4. request' \in [Requests -> [at : {"idle", "asked", "open", "fetched", "serve"}, seen : 0..run',
                                  engine : 0..Len(engines'), object : 0..run']]
    BY <1>6, <1>10, <1>16 DEF RequestType
  <2>5. content' \in Seq(0..run') /\ engines' \in Seq([file : 1..Len(content'), open : BOOLEAN]) /\ Len(engines') <= MaxOpens
    BY <1>5, <1>6, <1>16 DEF Engine, Path
  <2>6. {file', local'} \subseteq 0..Len(content') /\ makeshift' \subseteq 1..Len(content') /\ clobbered' \in BOOLEAN
    BY <1>5 DEF Path
  <2> QED BY <2>1, <2>2, <2>4, <2>5, <2>6 DEF TypeOK
<1>17. CachedIsOpen'
  BY <1>4, <1>6, <1>8 DEF CachedIsOpen
<1>12. Recorded'
  <2>1. Rested' <=> Rested
    BY <1>16 DEF Rested
  <2>2. ASSUME file # None
        PROVE  /\ file' = file
               /\ \A t \in 0..run : content[file] >= t \/ file \in makeshift => content'[file] >= t \/ file \in makeshift'
               /\ (content[file] = run \/ (clobbered /\ file \in makeshift)) =>
                    (content'[file] = run \/ (clobbered' /\ file \in makeshift'))
    <3>1. file \in 1..Len(content)
      BY <1>1, <2>2, Numbers DEF None
    <3>2. /\ file' = file /\ makeshift \subseteq makeshift' /\ (clobbered => clobbered')
          /\ content'[file] = content[file] \/ file \in makeshift'
          /\ ownDisk => content'[file] = content[file]
          /\ ~ownDisk /\ ~clobbered' => content'[file] = content[file]
      BY <1>5, <2>2, <3>1 DEF Path
    <3>3. CASE content'[file] = content[file]
      BY <3>2, <3>3
    <3>4. CASE content'[file] # content[file]
      BY <3>2, <3>4
    <3> QED BY <3>3, <3>4
  <2>3. file = None => file' = None \/ file' \in makeshift'
    BY <1>5 DEF Path
  <2>4. indexedAt \in 0..run
    BY <1>9
  <2>5. CASE file # None
    <3>1. content'[file] >= indexedAt \/ file \in makeshift'
      BY <1>1, <2>2, <2>4, <2>5 DEF Recorded
    <3> QED BY <1>1, <1>16, <2>1, <2>2, <2>5, <3>1 DEF Recorded
  <2>6. CASE file = None
    <3>1. ~((Rested /\ run > 0) \/ job = "indexed")
      BY <1>1, <2>6 DEF Recorded
    <3>2. file' # None => file' \in makeshift'
      BY <2>3, <2>6
    <3>3. job' = job /\ run' = run /\ indexedAt' = indexedAt
      BY <1>16
    <3>4. /\ Rested => indexedAt = run
          /\ ~Rested => indexedAt < run
          /\ job \in {"recorded", "uploaded"} => run > 0
      BY <1>1 DEF Recorded
    <3> QED BY <2>1, <3>1, <3>2, <3>3, <3>4 DEF Recorded
  <2> QED BY <2>5, <2>6
<1>13. Remembered'
  <2>1. cache'.indexedAt <= indexedAt' /\ cache'.indexedAt > 0 /\ s3' <= indexedAt'
    BY <1>1, <1>8, <1>9, <1>16 DEF Remembered
  <2>2. x.seen <= indexedAt /\ x.object <= indexedAt /\ x.seen > 0 /\ x.engine # None
    BY <1>7, <1>9 DEF None
  <2>3. ASSUME NEW q \in Requests
        PROVE  /\ request'[q].seen <= indexedAt /\ request'[q].object <= indexedAt
               /\ request'[q].at \in {"open", "fetched", "serve"} => request'[q].seen > 0
               /\ request'[q].at = "serve" => request'[q].engine # None
    <3>1. CASE q = r
      BY <1>10, <2>2, <3>1
    <3>2. CASE q # r
      BY <1>1, <1>10, <3>2 DEF Remembered
    <3> QED BY <3>1, <3>2
  <2> QED BY <1>16, <2>1, <2>3 DEF Remembered
<1>14. Fresh'
  <2>1. PICK s : s = request[r].seen
    OBVIOUS
  <2>2. Holds(n, s)'
    <3>1. engines'[n].file = f
      BY <1>4, <1>6
    <3>2. content'[f] >= s \/ f \in makeshift'
      <4>1. CASE ownDisk \/ file = None
        BY <1>3, <1>5, <4>1 DEF Path
      <4>2. CASE ~ownDisk /\ file # None
        <5>1. f = file /\ file \in 1..Len(content)
          BY <1>1, <1>3, <1>5, <4>2, Numbers DEF Path, None
        <5>2. content[file] >= indexedAt \/ file \in makeshift
          BY <1>1, <4>2 DEF Recorded
        <5>3. (content'[file] = content[file] \/ file \in makeshift') /\ makeshift \subseteq makeshift'
          BY <1>5, <5>1 DEF Path
        <5>4. content[file] \in 0..run
          BY <1>1, <5>1, Numbers
        <5>5. content[file] >= indexedAt => content[file] >= s
          BY <1>9, <2>1, <5>4
        <5> QED BY <5>1, <5>2, <5>3, <5>5
      <4> QED BY <4>1, <4>2
    <3>3. ASSUME ~ownDisk, ~clobbered', s = run
          PROVE  content'[f] = run
      <4>1. indexedAt = run /\ run > 0
        BY <1>9, <2>1, <3>3
      <4>2. Rested
        <5>1. ~(indexedAt < run)
          BY <1>9, <4>1
        <5> QED BY <1>1, <5>1 DEF Recorded
      <4>3. file # None /\ (content[file] = run \/ clobbered)
        BY <1>1, <4>1, <4>2 DEF Recorded
      <4>4. file \in 1..Len(content)
        BY <1>1, <4>3, Numbers DEF None
      <4>5. content'[file] = content[file] /\ ~clobbered /\ file' = file
        BY <1>5, <3>3, <4>3, <4>4 DEF Path
      <4> QED BY <1>3, <3>3, <4>3, <4>5
    <3> QED BY <1>16, <3>1, <3>2, <3>3 DEF Holds
  <2>3. \A e \in 1..Len(engines) : \A t : Holds(e, t) => Holds(e, t)'
    <3> SUFFICES ASSUME NEW e \in 1..Len(engines), NEW t, Holds(e, t)
                 PROVE  Holds(e, t)'
      OBVIOUS
    <3>1. PICK g \in 1..Len(content) : g = engines[e].file /\ g = engines'[e].file
      BY <1>0, <1>6
    <3>2. /\ content'[g] = content[g] \/ g \in makeshift'
          /\ ~ownDisk /\ ~clobbered' => content'[g] = content[g] /\ ~clobbered
          /\ makeshift \subseteq makeshift'
      BY <1>5 DEF Path
    <3>3. content'[g] >= t \/ g \in makeshift'
      BY <3>1, <3>2 DEF Holds
    <3>4. ~ownDisk /\ ~clobbered' /\ t = run => content'[g] = run
      BY <3>1, <3>2 DEF Holds
    <3> QED BY <1>16, <3>1, <3>3, <3>4 DEF Holds
  <2>5. ASSUME NEW q \in Requests, request'[q].at = "serve"
        PROVE  Holds(request[q].engine, request[q].seen)'
    <3>1. CASE q = r
      <4>1. request'[q].engine = n /\ request'[q].seen = s
        BY <1>7, <1>10, <2>1, <3>1
      <4> QED BY <2>2, <4>1 DEF Holds
    <3>2. CASE q # r
      <4>1. request'[q] = request[q] /\ Holds(request[q].engine, request[q].seen)
        BY <1>1, <1>10, <2>5, <3>2 DEF Fresh
      <4>2. PICK e \in 1..Len(engines) : e = request[q].engine
        BY <1>1, <2>5, <4>1, InUse
      <4>3. PICK t : t = request[q].seen
        OBVIOUS
      <4>4. Holds(e, t)'
        BY <2>3, <4>1, <4>2, <4>3
      <4> QED BY <4>1, <4>2, <4>3, <4>4 DEF Holds
    <3> QED BY <3>1, <3>2
  <2>6. Holds(cache.engine, cache.indexedAt)'
    BY <1>8, <2>1, <2>2 DEF Holds
  <2> QED BY <2>5, <2>6 DEF Fresh
<1>18. Apart'
  <2> SUFFICES ASSUME ownDisk PROVE Apart'
    BY <1>16 DEF Apart
  <2>1. file \notin makeshift /\ \A e \in 1..Len(engines) : engines[e].file \in makeshift
    BY <1>1 DEF Apart
  <2>2. /\ file' = file /\ file \notin makeshift' /\ local' \in makeshift' /\ makeshift \subseteq makeshift'
        /\ \A g \in makeshift' : g \in makeshift \/ content'[g] <= indexedAt
        /\ \A g \in makeshift : content'[g] = content[g] \/ content'[g] <= indexedAt
    BY <1>5, <2>1 DEF Path
  <2>3. \A g \in makeshift' : content'[g] <= indexedAt
    BY <1>1, <2>2 DEF Apart
  <2>4. \A e \in 1..n : engines'[e].file \in makeshift'
    <3>1. f \in makeshift' /\ engines'[n].file = f
      BY <1>3, <1>4, <1>6, <2>2
    <3>2. \A e \in 1..n : e = n \/ e \in 1..Len(engines)
      BY <1>0, <1>2
    <3> QED BY <1>6, <2>1, <2>2, <3>1, <3>2
  <2> QED BY <1>6, <1>16, <2>2, <2>3, <2>4 DEF Apart
<1>15. Closed'
  <2> SUFFICES ASSUME ~overlapped PROVE Closed'
    BY <1>16 DEF Closed
  <2>2. Opening' = {}
    <3>1. \A q \in Opening : q = r
      BY <1>1, <1>8 DEF Closed
    <3>2. \A q \in Requests : request'[q].at \notin {"open", "fetched"}
      BY <1>7, <1>10, <3>1 DEF Opening
    <3> QED BY <3>2 DEF Opening
  <2>3. \A e \in DOMAIN engines' : engines'[e].open => e = n
    <3>1. \A e \in 1..Len(engines) : ~engines[e].open
      <4>1. DOMAIN engines = 1..Len(engines) /\ cache.engine = None
        BY <1>1, <1>8, Numbers, LenProperties DEF Closed
      <4>2. \A e \in 1..Len(engines) : e # None
        BY <1>0 DEF None
      <4> QED BY <1>1, <4>1, <4>2 DEF Closed
    <3>2. DOMAIN engines' = 1..n
      BY <1>6, LenProperties
    <3>3. \A e \in 1..n : e # n => e \in 1..Len(engines)
      BY <1>0, <1>2
    <3> QED BY <1>6, <3>1, <3>2, <3>3
  <2> QED BY <1>8, <2>2, <2>3 DEF Closed
<1> QED BY <1>11, <1>12, <1>13, <1>14, <1>15, <1>17, <1>18 DEF IInv

LEMMA NextKeeps == IInv /\ [Next]_vars => IInv'
<1>1. IInv /\ UNCHANGED vars => IInv'
  <2> SUFFICES ASSUME IInv, UNCHANGED vars PROVE IInv'
    OBVIOUS
  <2>1. UNCHANGED <<ownDisk, hasS3, job, run, indexedAt, file, content, s3, local, engines, cache, request, overlapped, makeshift, clobbered>>
    BY DEF vars, deployment
  <2>2. TypeOK' /\ CachedIsOpen' /\ Recorded' /\ Remembered'
    BY <2>1 DEF IInv, TypeOK, CachedIsOpen, Recorded, Rested, Remembered
  <2>3. Fresh' /\ Apart' /\ Closed'
    BY <2>1 DEF IInv, Fresh, Holds, Apart, Closed, Opening
  <2> QED BY <2>2, <2>3 DEF IInv
<1> QED BY <1>1, WorkKeeps, IndexKeeps, RecordKeeps, UploadKeeps, JobDoneKeeps, RestartKeeps,
           RequestKeeps, MissKeeps, OpenKeeps DEF Next

-----------------------------------------------------------------------------
(* The theorems.                                                             *)

\* Files, engines and requests are what the worker can hold, for any number of
\* requests, runs and engines, in every deployment.
THEOREM TypeCorrect == Spec => []TypeOK
<1>1. IInv => TypeOK
  BY DEF IInv
<1> QED BY InitIInv, NextKeeps, <1>1, PTL DEF Spec

\* The engine in the cache is open, however the invalidations, the misses and the
\* opens of any number of requests interleave.
THEOREM CachedIsOpenCorrect == Spec => []CachedIsOpen
<1>1. IInv => CachedIsOpen
  BY DEF IInv
<1> QED BY InitIInv, NextKeeps, <1>1, PTL DEF Spec

\* In every deployment and whatever the jobs are doing: a request is answered
\* from no older index than it asked for, save a makeshift one; in the worker's
\* directory the last run begun, once recorded, is answered exactly, save after a
\* late download; and a disk of the cache's own shows recorded runs only.
THEOREM FreshAnswerCorrect == Spec => []FreshAnswer
<1>1. IInv => FreshAnswer
  <2> SUFFICES ASSUME IInv, NEW r \in Requests, request[r].at = "serve"
               PROVE  /\ Answer(r) >= request[r].seen \/ Answering(r) \in makeshift
                      /\ ~ownDisk /\ ~clobbered /\ request[r].seen = run => Answer(r) = run
                      /\ ownDisk => Answer(r) <= indexedAt
    BY DEF FreshAnswer
  <2>1. Holds(request[r].engine, request[r].seen)
    BY DEF IInv, Fresh
  <2>2. request[r].engine \in 1..Len(engines)
    BY InUse DEF IInv
  <2>3. ownDisk => content[engines[request[r].engine].file] <= indexedAt
    BY <2>2 DEF IInv, Apart
  <2> QED BY <2>1, <2>3 DEF Holds, Answer, Answering
<1> QED BY InitIInv, NextKeeps, <1>1, PTL DEF Spec

\* One engine at a time is open unless two requests have been opening one at
\* once: a request that misses closes what the cache holds before it opens, and
\* the one it opens is the one the cache holds.
THEOREM NoLeakCorrect == Spec => []NoLeak
<1>1. IInv => NoLeak
  <2> SUFFICES ASSUME IInv, ~overlapped
               PROVE  Cardinality({e \in DOMAIN engines : engines[e].open}) <= 1
    BY DEF NoLeak
  <2>0. PICK open : open = {e \in DOMAIN engines : engines[e].open}
    OBVIOUS
  <2>1. open = {} \/ open = {cache.engine}
    BY <2>0 DEF IInv, Closed
  <2>2. Cardinality(open) \in {0, 1}
    BY <2>1, FS_EmptySet, FS_Singleton
  <2>3. Cardinality(open) <= 1
    BY <2>2
  <2> QED BY <2>0, <2>3
<1> QED BY InitIInv, NextKeeps, <1>1, PTL DEF Spec
=============================================================================
