----------------------------- MODULE ApiProofs -----------------------------
(* What the API promises of webhook events, sync jobs and polling schedules, *)
(* for every number of projects, deliveries and concurrent requests.         *)
EXTENDS Api, SequenceTheorems, TLAPS

-----------------------------------------------------------------------------
(* The calls a request has left.                                             *)

HookTodos == {<<"find", "select", "record", "send">>, <<"select", "record", "send">>, <<"record", "send">>, <<"send">>}
CreateTodos(on) == IF on THEN {<<"insert", "unschedule", "schedule", "send">>, <<"unschedule", "schedule", "send">>,
                               <<"schedule", "send">>, <<"send">>}
                   ELSE {<<"insert", "send">>, <<"send">>}
PatchTodos(on) == IF on THEN {<<"update", "unschedule", "schedule">>, <<"unschedule", "schedule">>, <<"schedule">>}
                  ELSE {<<"update", "unschedule">>, <<"unschedule">>}
DeleteTodos == {<<"delete", "unschedule">>, <<"unschedule">>}
SyncTodos == {<<"get", "send">>, <<"send">>}

Left(r) ==
  \/ r.kind = "hook" /\ r.d \in Deliveries /\ r.todo \in HookTodos
  \/ r.kind = "create" /\ r.d \in BOOLEAN /\ r.todo \in CreateTodos(r.d)
  \/ r.kind = "patch" /\ r.d \in BOOLEAN /\ r.todo \in PatchTodos(r.d)
  \/ r.kind = "delete" /\ r.todo \in DeleteTodos
  \/ r.kind = "sync" /\ r.todo \in SyncTodos

Form(r) == \/ r = Idle
           \/ r = Request(r.kind, r.p, r.d, r.todo) /\ r.p \in Projects /\ Left(r)

WantsPolling(r) == r.kind # "delete" /\ r.d

LEMMA IdleFields == Idle.kind = "none" /\ Idle.todo = <<>> /\ Form(Idle)
BY DEF Idle, Request, Form

LEMMA Heads ==
  /\ Head(<<"find", "select", "record", "send">>) = "find" /\ Len(<<"find", "select", "record", "send">>) = 4
  /\ Tail(<<"find", "select", "record", "send">>) = <<"select", "record", "send">> /\ <<"find", "select", "record", "send">> # <<>>
  /\ Head(<<"select", "record", "send">>) = "select" /\ Len(<<"select", "record", "send">>) = 3
  /\ Tail(<<"select", "record", "send">>) = <<"record", "send">> /\ <<"select", "record", "send">> # <<>>
  /\ Head(<<"record", "send">>) = "record" /\ Len(<<"record", "send">>) = 2
  /\ Tail(<<"record", "send">>) = <<"send">> /\ <<"record", "send">> # <<>>
  /\ Head(<<"send">>) = "send" /\ Len(<<"send">>) = 1
  /\ Tail(<<"send">>) = <<>> /\ <<"send">> # <<>>
  /\ Head(<<"insert", "unschedule", "schedule", "send">>) = "insert" /\ Len(<<"insert", "unschedule", "schedule", "send">>) = 4
  /\ Tail(<<"insert", "unschedule", "schedule", "send">>) = <<"unschedule", "schedule", "send">> /\ <<"insert", "unschedule", "schedule", "send">> # <<>>
  /\ Head(<<"unschedule", "schedule", "send">>) = "unschedule" /\ Len(<<"unschedule", "schedule", "send">>) = 3
  /\ Tail(<<"unschedule", "schedule", "send">>) = <<"schedule", "send">> /\ <<"unschedule", "schedule", "send">> # <<>>
  /\ Head(<<"schedule", "send">>) = "schedule" /\ Len(<<"schedule", "send">>) = 2
  /\ Tail(<<"schedule", "send">>) = <<"send">> /\ <<"schedule", "send">> # <<>>
  /\ Head(<<"insert", "send">>) = "insert" /\ Len(<<"insert", "send">>) = 2
  /\ Tail(<<"insert", "send">>) = <<"send">> /\ <<"insert", "send">> # <<>>
  /\ Head(<<"update", "unschedule", "schedule">>) = "update" /\ Len(<<"update", "unschedule", "schedule">>) = 3
  /\ Tail(<<"update", "unschedule", "schedule">>) = <<"unschedule", "schedule">> /\ <<"update", "unschedule", "schedule">> # <<>>
  /\ Head(<<"unschedule", "schedule">>) = "unschedule" /\ Len(<<"unschedule", "schedule">>) = 2
  /\ Tail(<<"unschedule", "schedule">>) = <<"schedule">> /\ <<"unschedule", "schedule">> # <<>>
  /\ Head(<<"schedule">>) = "schedule" /\ Len(<<"schedule">>) = 1
  /\ Tail(<<"schedule">>) = <<>> /\ <<"schedule">> # <<>>
  /\ Head(<<"update", "unschedule">>) = "update" /\ Len(<<"update", "unschedule">>) = 2
  /\ Tail(<<"update", "unschedule">>) = <<"unschedule">> /\ <<"update", "unschedule">> # <<>>
  /\ Head(<<"unschedule">>) = "unschedule" /\ Len(<<"unschedule">>) = 1
  /\ Tail(<<"unschedule">>) = <<>> /\ <<"unschedule">> # <<>>
  /\ Head(<<"delete", "unschedule">>) = "delete" /\ Len(<<"delete", "unschedule">>) = 2
  /\ Tail(<<"delete", "unschedule">>) = <<"unschedule">> /\ <<"delete", "unschedule">> # <<>>
  /\ Head(<<"get", "send">>) = "get" /\ Len(<<"get", "send">>) = 2
  /\ Tail(<<"get", "send">>) = <<"send">> /\ <<"get", "send">> # <<>>
OBVIOUS

\* A request that changes a project is half done once its row is written.
LEMMA HalfwayForm ==
  ASSUME NEW r, Form(r)
  PROVE  /\ Halfway(r) => r # Idle /\ r.p \in Projects /\ r.kind \in Mutating
         /\ r.kind \in Mutating => (Halfway(r) <=> Head(r.todo) \in {"unschedule", "schedule", "send"})
<1>1. ToSet(<<"send">>) = {"send"} /\ ToSet(<<"unschedule">>) = {"unschedule"} /\ ToSet(<<"schedule">>) = {"schedule"}
  BY DEF ToSet
<1>2. /\ "schedule" \in ToSet(<<"schedule", "send">>) /\ ToSet(<<"schedule", "send">>) = {"schedule", "send"}
      /\ ToSet(<<"unschedule", "schedule">>) = {"unschedule", "schedule"}
      /\ ToSet(<<"unschedule", "schedule", "send">>) = {"unschedule", "schedule", "send"}
  BY DEF ToSet
<1>3. /\ "insert" \in ToSet(<<"insert", "send">>)
      /\ "insert" \in ToSet(<<"insert", "unschedule", "schedule", "send">>)
      /\ "update" \in ToSet(<<"update", "unschedule", "schedule">>)
      /\ "update" \in ToSet(<<"update", "unschedule">>)
      /\ "delete" \in ToSet(<<"delete", "unschedule">>)
  BY DEF ToSet
<1>4. CASE r = Idle
  BY <1>4, IdleFields DEF Halfway, Mutating
<1>5. CASE r # Idle /\ r.kind = "hook"
  BY <1>5 DEF Halfway, Mutating
<1>6. CASE r # Idle /\ r.kind = "create"
  <2>1. r.todo \in CreateTodos(r.d) /\ r.p \in Projects
    BY <1>6 DEF Form, Left
  <2> QED BY <1>1, <1>2, <1>3, <1>6, <2>1, Heads DEF CreateTodos, Halfway, Firsts, Mutating
<1>7. CASE r # Idle /\ r.kind = "patch"
  <2>1. r.todo \in PatchTodos(r.d) /\ r.p \in Projects
    BY <1>7 DEF Form, Left
  <2> QED BY <1>1, <1>2, <1>3, <1>7, <2>1, Heads DEF PatchTodos, Halfway, Firsts, Mutating
<1>8. CASE r # Idle /\ r.kind = "delete"
  <2>1. r.todo \in DeleteTodos /\ r.p \in Projects
    BY <1>8 DEF Form, Left
  <2> QED BY <1>1, <1>3, <1>8, <2>1, Heads DEF DeleteTodos, Halfway, Firsts, Mutating
<1>9. CASE r # Idle /\ r.kind = "sync"
  BY <1>9 DEF Halfway, Mutating
<1> QED BY <1>4, <1>5, <1>6, <1>7, <1>8, <1>9 DEF Form, Left

\* One call further: what is left, and what was left before.
Further(r, n) ==
  /\ n # Idle => n.kind = r.kind /\ n.p = r.p /\ n.d = r.d
  /\ n.kind = "hook" /\ n.todo = <<"send">> => Head(r.todo) = "record"
  /\ n.kind = "create" => Head(n.todo) # "insert"
  /\ n.kind \in Mutating => Head(n.todo) \in {"unschedule", "schedule", "send"}
  /\ n.kind = "create" /\ Head(n.todo) = "send" => Head(r.todo) = IF r.d THEN "schedule" ELSE "insert"
  /\ n = Idle /\ r.kind \in Mutating =>
       Head(r.todo) = CASE r.kind = "create" -> "send"
                        [] r.kind = "patch" -> IF r.d THEN "schedule" ELSE "unschedule"
                        [] OTHER -> "unschedule"

LEMMA RestForm ==
  ASSUME NEW r, Form(r), r.todo # <<>>
  PROVE  Form(Rest(r)) /\ Further(r, Rest(r))
<1>0. r # Idle /\ r = Request(r.kind, r.p, r.d, r.todo) /\ r.p \in Projects /\ Left(r)
  BY IdleFields DEF Form
<1> SUFFICES ASSUME NEW n, n = Rest(r)
             PROVE  Form(n) /\ Further(r, n)
  OBVIOUS
<1>1. Len(r.todo) # 1 =>
        /\ n = Request(n.kind, n.p, n.d, n.todo)
        /\ n.kind = r.kind /\ n.p = r.p /\ n.d = r.d /\ n.todo = Tail(r.todo)
  <2> SUFFICES ASSUME Len(r.todo) # 1
               PROVE  /\ n = Request(n.kind, n.p, n.d, n.todo)
                      /\ n.kind = r.kind /\ n.p = r.p /\ n.d = r.d /\ n.todo = Tail(r.todo)
    OBVIOUS
  <2>1. n = Request(r.kind, r.p, r.d, Tail(r.todo))
    BY <1>0 DEF Rest, Request
  <2> QED BY <2>1 DEF Request
<1>2. Len(r.todo) = 1 => n = Idle
  BY DEF Rest
<1>3. CASE r.kind = "hook"
  <2>1. r.todo \in HookTodos /\ r.d \in Deliveries
    BY <1>0, <1>3 DEF Left
  <2>2. CASE r.todo = <<"send">>
    BY <1>2, <1>3, <2>2, Heads, IdleFields DEF Further, Mutating
  <2>3. CASE r.todo # <<"send">>
    <3>0. Len(r.todo) # 1 /\ Tail(r.todo) \in HookTodos
      <4>1. CASE r.todo = <<"find", "select", "record", "send">>
        BY <4>1 DEF HookTodos
      <4>2. CASE r.todo = <<"select", "record", "send">>
        BY <4>2 DEF HookTodos
      <4>3. CASE r.todo = <<"record", "send">>
        BY <4>3 DEF HookTodos
      <4> QED BY <2>1, <2>3, <4>1, <4>2, <4>3 DEF HookTodos
    <3>1. n.kind = "hook" /\ n.p = r.p /\ n.d = r.d /\ n.todo \in HookTodos /\ n = Request(n.kind, n.p, n.d, n.todo)
      BY <1>1, <1>3, <3>0
    <3>2. Form(n)
      BY <1>0, <2>1, <3>1 DEF Form, Left
    <3>3. n.todo = <<"send">> => Head(r.todo) = "record"
      BY <1>1, <2>1, <2>3, <3>0, Heads DEF HookTodos
    <3>4. n # Idle
      BY <3>1, IdleFields
    <3> QED BY <1>3, <3>1, <3>2, <3>3, <3>4 DEF Further, Mutating
  <2> QED BY <2>2, <2>3
<1>4. CASE r.kind = "create"
  <2>1. r.todo \in CreateTodos(r.d) /\ r.d \in BOOLEAN
    BY <1>0, <1>4 DEF Left
  <2>2. CASE r.todo = <<"send">>
    BY <1>2, <1>4, <2>2, Heads, IdleFields DEF Further, Mutating
  <2>3. CASE r.todo # <<"send">>
    <3>0. Len(r.todo) # 1 /\ Tail(r.todo) \in CreateTodos(r.d)
      <4>1. CASE r.todo = <<"insert", "unschedule", "schedule", "send">> /\ r.d
        BY <4>1 DEF CreateTodos
      <4>2. CASE r.todo = <<"unschedule", "schedule", "send">> /\ r.d
        BY <4>2 DEF CreateTodos
      <4>3. CASE r.todo = <<"schedule", "send">> /\ r.d
        BY <4>3 DEF CreateTodos
      <4>4. CASE r.todo = <<"insert", "send">> /\ ~r.d
        BY <4>4 DEF CreateTodos
      <4> QED BY <2>1, <2>3, <4>1, <4>2, <4>3, <4>4 DEF CreateTodos
    <3>1. n.kind = "create" /\ n.p = r.p /\ n.d = r.d /\ n.todo \in CreateTodos(n.d) /\ n = Request(n.kind, n.p, n.d, n.todo)
      BY <1>1, <1>4, <3>0
    <3>2. Form(n)
      BY <1>0, <2>1, <3>1 DEF Form, Left
    <3>3. /\ Head(n.todo) \in {"unschedule", "schedule", "send"}
          /\ Head(n.todo) = "send" => Head(r.todo) = IF r.d THEN "schedule" ELSE "insert"
      BY <1>1, <2>1, <2>3, <3>0, Heads DEF CreateTodos
    <3>4. n # Idle
      BY <3>1, IdleFields
    <3> QED BY <1>4, <3>1, <3>2, <3>3, <3>4 DEF Further, Mutating
  <2> QED BY <2>2, <2>3
<1>5. CASE r.kind = "patch"
  <2>1. r.todo \in PatchTodos(r.d) /\ r.d \in BOOLEAN
    BY <1>0, <1>5 DEF Left
  <2>2. CASE r.todo \in {<<"schedule">>, <<"unschedule">>}
    <3>1. Head(r.todo) = IF r.d THEN "schedule" ELSE "unschedule"
      BY <2>1, <2>2, Heads DEF PatchTodos
    <3> QED BY <1>2, <1>5, <2>2, <3>1, Heads, IdleFields DEF Further, Mutating
  <2>3. CASE r.todo \notin {<<"schedule">>, <<"unschedule">>}
    <3>0. Len(r.todo) # 1 /\ Tail(r.todo) \in PatchTodos(r.d)
      <4>1. CASE r.todo = <<"update", "unschedule", "schedule">> /\ r.d
        BY <4>1 DEF PatchTodos
      <4>2. CASE r.todo = <<"unschedule", "schedule">> /\ r.d
        BY <4>2 DEF PatchTodos
      <4>3. CASE r.todo = <<"update", "unschedule">> /\ ~r.d
        BY <4>3 DEF PatchTodos
      <4> QED BY <2>1, <2>3, <4>1, <4>2, <4>3 DEF PatchTodos
    <3>1. n.kind = "patch" /\ n.p = r.p /\ n.d = r.d /\ n.todo \in PatchTodos(n.d) /\ n = Request(n.kind, n.p, n.d, n.todo)
      BY <1>1, <1>5, <3>0
    <3>2. Form(n)
      BY <1>0, <2>1, <3>1 DEF Form, Left
    <3>3. Head(n.todo) \in {"unschedule", "schedule", "send"}
      BY <1>1, <2>1, <2>3, <3>0, Heads DEF PatchTodos
    <3>4. n # Idle
      BY <3>1, IdleFields
    <3> QED BY <1>5, <3>1, <3>2, <3>3, <3>4 DEF Further, Mutating
  <2> QED BY <2>2, <2>3
<1>6. CASE r.kind = "delete"
  <2>1. r.todo \in DeleteTodos
    BY <1>0, <1>6 DEF Left
  <2>2. CASE r.todo = <<"unschedule">>
    BY <1>2, <1>6, <2>2, Heads, IdleFields DEF Further, Mutating
  <2>3. CASE r.todo # <<"unschedule">>
    <3>0. Len(r.todo) # 1 /\ Tail(r.todo) = <<"unschedule">>
      <4>1. r.todo = <<"delete", "unschedule">>
        BY <2>1, <2>3 DEF DeleteTodos
      <4> QED BY <4>1 DEF DeleteTodos
    <3>1. /\ n.kind = "delete" /\ n.p = r.p /\ n.d = r.d /\ n.todo \in DeleteTodos /\ n = Request(n.kind, n.p, n.d, n.todo)
          /\ Head(n.todo) = "unschedule"
      BY <1>1, <1>6, <3>0, Heads DEF DeleteTodos
    <3>2. Form(n)
      BY <1>0, <3>1 DEF Form, Left
    <3>4. n # Idle
      BY <3>1, IdleFields
    <3> QED BY <1>6, <3>1, <3>2, <3>4 DEF Further, Mutating
  <2> QED BY <2>2, <2>3
<1>7. CASE r.kind = "sync"
  <2>1. r.todo \in SyncTodos
    BY <1>0, <1>7 DEF Left
  <2>2. CASE r.todo = <<"send">>
    BY <1>2, <1>7, <2>2, Heads, IdleFields DEF Further, Mutating
  <2>3. CASE r.todo # <<"send">>
    <3>0. Len(r.todo) # 1 /\ Tail(r.todo) \in SyncTodos
      <4>1. r.todo = <<"get", "send">>
        BY <2>1, <2>3 DEF SyncTodos
      <4> QED BY <4>1 DEF SyncTodos
    <3>1. n.kind = "sync" /\ n.p = r.p /\ n.d = r.d /\ n.todo \in SyncTodos /\ n = Request(n.kind, n.p, n.d, n.todo)
      BY <1>1, <1>7, <3>0
    <3>2. Form(n)
      BY <1>0, <3>1 DEF Form, Left
    <3>4. n # Idle
      BY <3>1, IdleFields
    <3> QED BY <1>7, <3>1, <3>2, <3>4 DEF Further, Mutating
  <2> QED BY <2>2, <2>3
<1> QED BY <1>0, <1>3, <1>4, <1>5, <1>6, <1>7 DEF Left

-----------------------------------------------------------------------------
(* The inductive invariant.                                                  *)

Typed ==
  /\ TypeOK
  /\ reqs = [h \in Handlers |-> reqs[h]]
  /\ \A h \in Handlers : Form(reqs[h])

\* The request of h is about to insert its project, or to send the job of e.
Inserting(h) == reqs[h].kind = "create" /\ Head(reqs[h].todo) = "insert"
Sending(h, e) == reqs[h].kind = "hook" /\ reqs[h].todo = <<"send">> /\ e = <<reqs[h].p, reqs[h].d>>

\* Only one request inserts a project, before which it has no row.
Inserted ==
  \A h \in Handlers : Inserting(h) =>
    /\ row[reqs[h].p] = "new"
    /\ \A g \in Handlers : Inserting(g) /\ reqs[g].p = reqs[h].p => g = h

\* An event that is or was in the table is with one request, or its job is sent.
Taken(e) == e \in events \/ row[e[1]] = "gone"
Sent ==
  /\ \A e \in Projects \X Deliveries : jobs[e] \in {0, 1} /\ (jobs[e] = 1 => Taken(e))
  /\ \A h \in Handlers, e \in Projects \X Deliveries : Sending(h, e) =>
       /\ jobs[e] = 0 /\ Taken(e)
       /\ \A g \in Handlers : Sending(g, e) => g = h

Recorded ==
  \A e \in events : jobs[e] = 1 \/ e \in lost \/ \E h \in Handlers : Sending(h, e)

\* One request changes a project at a time; what it has still to do leads to
\* the schedule its row asks for.
Changing(h, p) == reqs[h].kind \in Mutating /\ reqs[h].p = p
Matches(p) == p \in schedules <=> row[p] = "polled"
ScheduledAt(p) ==
  /\ \A g, h \in Handlers : Changing(g, p) /\ Changing(h, p) => g = h
  /\ \A h \in Handlers : Changing(h, p) /\ Halfway(reqs[h]) =>
       /\ row[p] = "polled" <=> WantsPolling(reqs[h])
       /\ reqs[h].kind = "create" /\ Head(reqs[h].todo) = "send" => Matches(p)
  /\ (\A h \in Handlers : ~(Changing(h, p) /\ Halfway(reqs[h]))) => Matches(p)
Scheduled == \A p \in Projects \ torn : ScheduledAt(p)

IInv == Typed /\ Inserted /\ Sent /\ Recorded /\ Scheduled

\* The event a request still has to send is the one it is about to send.
LEMMA UnsentForm ==
  ASSUME Typed, NEW h \in Handlers
  PROVE  /\ Unsent(reqs[h]) \subseteq Projects \X Deliveries
         /\ \A e : Sending(h, e) <=> e \in Unsent(reqs[h])
<1>1. reqs[h].kind = "hook" => reqs[h].p \in Projects /\ reqs[h].d \in Deliveries
  BY IdleFields DEF Typed, Form, Left
<1> QED BY <1>1 DEF Sending, Unsent

LEMMA InitIInv == Init => IInv
<1> SUFFICES ASSUME Init PROVE IInv
  OBVIOUS
<1>1. \A h \in Handlers : reqs[h] = Idle
  BY DEF Init
<1>2. Typed
  <2>1. jobs \in [Projects \X Deliveries -> Nat] /\ row \in [Projects -> {"new", "quiet", "polled", "gone"}]
    BY DEF Init
  <2>2. /\ keys \subseteq Scopes /\ schedules \subseteq Projects /\ torn \subseteq Projects
        /\ events \subseteq {e \in Projects \X Deliveries : Exists(e[1])}
    BY DEF Init, Scopes
  <2>3. attempt \in 0..MaxAttempts
    BY AttemptsAssumption DEF Init
  <2>6. /\ server \in {"down", "starting", "up", "closing", "stopping"} /\ taken \in BOOLEAN
        /\ queue \in BOOLEAN /\ lost \subseteq Projects \X Deliveries
    BY DEF Init
  <2>4. \A h \in Handlers : Busy(h) => server \in {"up", "closing"}
    BY <1>1, IdleFields DEF Busy
  <2>5. TypeOK
    BY <2>1, <2>2, <2>3, <2>4, <2>6 DEF TypeOK
  <2> QED BY <1>1, <2>5, IdleFields DEF Init, Typed
<1>3. Inserted /\ Sent /\ Recorded
  BY <1>1, IdleFields DEF Init, Inserted, Inserting, Sent, Sending, Recorded, Taken
<1>4. Scheduled
  BY <1>1, IdleFields DEF Init, Scheduled, ScheduledAt, Changing, Mutating, Matches
<1> QED BY <1>2, <1>3, <1>4 DEF IInv

-----------------------------------------------------------------------------
(* A handler's step changes its own request only.                            *)

\* What a call says of the request that makes it.
LEMMA HeadKinds ==
  ASSUME NEW r, Form(r), r.todo # <<>>
  PROVE  /\ r.p \in Projects /\ r # Idle
         /\ Head(r.todo) = "insert" => r.kind = "create" /\ r.d \in BOOLEAN
         /\ Head(r.todo) = "update" => r.kind = "patch" /\ r.d \in BOOLEAN
         /\ Head(r.todo) = "delete" => r.kind = "delete"
         /\ Head(r.todo) = "schedule" => r.kind \in {"create", "patch"} /\ r.d
         /\ Head(r.todo) = "unschedule" => r.kind \in Mutating
         /\ Head(r.todo) \in {"find", "get", "select", "record"} => r.kind \in {"hook", "sync"}
         /\ Head(r.todo) = "record" => r.kind = "hook" /\ r.d \in Deliveries
         /\ Head(r.todo) = "send" => r.kind \in {"hook", "create", "sync"}
         /\ r.kind = "hook" => r.d \in Deliveries /\ (Head(r.todo) = "send" <=> r.todo = <<"send">>)
<1>1. r # Idle /\ r.p \in Projects /\ Left(r)
  BY IdleFields DEF Form
<1>2. CASE r.kind = "hook"
  BY <1>1, <1>2, Heads DEF Left, HookTodos
<1>3. CASE r.kind = "create"
  BY <1>1, <1>3, Heads DEF Left, CreateTodos, Mutating
<1>4. CASE r.kind = "patch"
  BY <1>1, <1>4, Heads DEF Left, PatchTodos, Mutating
<1>5. CASE r.kind = "delete"
  BY <1>1, <1>5, Heads DEF Left, DeleteTodos, Mutating
<1>6. CASE r.kind = "sync"
  BY <1>1, <1>6, Heads DEF Left, SyncTodos
<1> QED BY <1>1, <1>2, <1>3, <1>4, <1>5, <1>6 DEF Left

LEMMA RecordRest ==
  ASSUME NEW r, Form(r), r.todo # <<>>, Head(r.todo) = "record"
  PROVE  Rest(r).kind = "hook" /\ Rest(r).todo = <<"send">> /\ Rest(r).p = r.p /\ Rest(r).d = r.d
<1>1. r.kind = "hook" /\ r = Request(r.kind, r.p, r.d, r.todo) /\ r.todo \in HookTodos
  BY HeadKinds DEF Form, Left
<1>2. r.todo = <<"record", "send">>
  BY <1>1, Heads DEF HookTodos
<1>3. Rest(r) = Request("hook", r.p, r.d, <<"send">>)
  BY <1>1, <1>2, Heads DEF Rest, Request
<1> QED BY <1>3 DEF Request

Moved(h) ==
  /\ reqs' = [g \in Handlers |-> IF g = h THEN reqs'[h] ELSE reqs[g]]
  /\ \A g \in Handlers : Form(reqs'[g])
  /\ reqs'[h] # Idle => reqs'[h].kind = reqs[h].kind /\ reqs'[h].p = reqs[h].p /\ reqs'[h].d = reqs[h].d

LEMMA ProceedMoves ==
  ASSUME Typed, NEW h \in Handlers, Busy(h), Proceed(h)
  PROVE  Moved(h) /\ reqs'[h] = Rest(reqs[h]) /\ Further(reqs[h], reqs'[h])
<1>1. reqs' = [reqs EXCEPT ![h] = Rest(reqs[h])]
  BY DEF Proceed, Typed
<1>2. reqs'[h] = Rest(reqs[h]) /\ \A g \in Handlers \ {h} : reqs'[g] = reqs[g]
  BY <1>1 DEF Typed
<1>3. Form(reqs'[h]) /\ Further(reqs[h], reqs'[h])
  BY <1>2, RestForm DEF Typed, Busy
<1> QED BY <1>1, <1>2, <1>3 DEF Moved, Typed, Further

LEMMA LeaveMoves ==
  ASSUME Typed, NEW h \in Handlers, Leave(h)
  PROVE  Moved(h) /\ reqs'[h] = Idle
<1>1. reqs'[h] = Idle /\ \A g \in Handlers \ {h} : reqs'[g] = reqs[g]
  BY DEF Typed, Leave
<1> QED BY <1>1, IdleFields DEF Moved, Typed, Leave

LEMMA TypedMoves ==
  ASSUME Typed, NEW h \in Handlers, Busy(h), Moved(h),
         row' \in [Projects -> {"new", "quiet", "polled", "gone"}],
         schedules' \subseteq Projects, torn' \subseteq Projects,
         events' \subseteq {e \in Projects \X Deliveries : Exists(e[1])'},
         jobs' \in [Projects \X Deliveries -> Nat],
         lost' \subseteq Projects \X Deliveries, UNCHANGED process
  PROVE  Typed'
<1>1. server \in {"up", "closing"} /\ UNCHANGED <<keys, server, attempt, taken, queue>>
  BY DEF Typed, TypeOK, process
<1>2. /\ keys' \subseteq Scopes /\ taken' \in BOOLEAN /\ queue' \in BOOLEAN
      /\ server' \in {"down", "starting", "up", "closing", "stopping"}
      /\ \A g \in Handlers : Busy(g)' => server' \in {"up", "closing"}
  BY <1>1 DEF Typed, TypeOK
<1>3. attempt' \in 0..MaxAttempts
  BY <1>1 DEF Typed, TypeOK
<1>4. TypeOK'
  BY <1>2, <1>3 DEF TypeOK
<1> QED BY <1>4 DEF Typed, Moved

\* A step of h that inserts nothing new, and changes no row but an existing
\* one or the one h inserts.
LEMMA InsertedMoves ==
  ASSUME Typed, Inserted, NEW h \in Handlers, Moved(h), ~Inserting(h)',
         \A q \in Projects : row'[q] = row[q] \/ row[q] # "new" \/ (Inserting(h) /\ q = reqs[h].p)
  PROVE  Inserted'
<1> SUFFICES ASSUME NEW g \in Handlers, Inserting(g)'
             PROVE  /\ row'[reqs'[g].p] = "new"
                    /\ \A f \in Handlers : Inserting(f)' /\ reqs'[f].p = reqs'[g].p => f = g
  BY DEF Inserted
<1>1. \A f \in Handlers : Inserting(f)' => f # h /\ reqs'[f] = reqs[f] /\ Inserting(f)
  BY DEF Moved, Inserting
<1>2. reqs[g].p \in Projects
  BY <1>1, IdleFields DEF Typed, Form, Inserting
<1> QED BY <1>1, <1>2 DEF Inserted

\* Steps that send nothing, and forget no event but with its project.
LEMMA SentFrame ==
  ASSUME Sent, jobs' = jobs,
         \A e \in Projects \X Deliveries : Taken(e) => Taken(e)',
         \A g \in Handlers, e \in Projects \X Deliveries : Sending(g, e)' => Sending(g, e)
  PROVE  Sent'
BY DEF Sent

LEMMA RecordedFrame ==
  ASSUME Recorded, jobs' = jobs, events' \subseteq events, lost \subseteq lost',
         \A g \in Handlers, e \in events : Sending(g, e) => Sending(g, e)' \/ e \in lost'
  PROVE  Recorded'
BY DEF Recorded

\* The step of a request that sends no job, before or after.
LEMMA NotSending ==
  ASSUME NEW h \in Handlers, Moved(h),
         \A e : ~Sending(h, e), \A e : ~Sending(h, e)'
  PROVE  \A g \in Handlers : \A e : Sending(g, e)' <=> Sending(g, e)
BY DEF Moved, Sending

\* A step of h leaves the projects alone that h does not change.
LEMMA OtherProject ==
  ASSUME Typed, NEW h \in Handlers, Moved(h), NEW p \in Projects, ~Changing(h, p), ScheduledAt(p),
         row'[p] = row[p], p \in schedules' <=> p \in schedules
  PROVE  ScheduledAt(p)'
<1>1. ~Changing(h, p)'
  BY IdleFields DEF Moved, Changing, Mutating
<1>2. \A g \in Handlers : g # h => reqs'[g] = reqs[g]
  BY DEF Moved
<1>3. \A g \in Handlers : Changing(g, p)' <=> (Changing(g, p) /\ g # h)
  BY <1>1, <1>2 DEF Changing
<1>4. \A g \in Handlers : Changing(g, p)' => reqs'[g] = reqs[g]
  BY <1>2, <1>3
<1>5. Matches(p)' <=> Matches(p)
  BY DEF Matches
<1>6. \A g \in Handlers : Changing(g, p) => Changing(g, p)' /\ reqs'[g] = reqs[g]
  BY <1>3, <1>4
<1> QED BY <1>3, <1>4, <1>5, <1>6 DEF ScheduledAt

LEMMA OwnProject ==
  ASSUME Typed, NEW h \in Handlers, Moved(h), NEW p \in Projects, Changing(h, p), ScheduledAt(p),
         reqs'[h] = Idle => Matches(p)',
         reqs'[h] # Idle => /\ Halfway(reqs'[h])
                            /\ row'[p] = "polled" <=> WantsPolling(reqs[h])
                            /\ reqs'[h].kind = "create" /\ Head(reqs'[h].todo) = "send" => Matches(p)'
  PROVE  ScheduledAt(p)'
<1>1. \A g \in Handlers : g # h => reqs'[g] = reqs[g] /\ ~Changing(g, p)
  BY DEF Moved, ScheduledAt
<1>2. \A g \in Handlers : Changing(g, p)' => g = h
  BY <1>1 DEF Changing
<1>3. reqs'[h] = Idle => ~Changing(h, p)'
  BY IdleFields DEF Changing, Mutating
<1>4. reqs'[h] # Idle => (WantsPolling(reqs'[h]) <=> WantsPolling(reqs[h])) /\ Changing(h, p)'
  BY DEF Moved, WantsPolling, Changing
<1>5. CASE reqs'[h] = Idle
  BY <1>2, <1>3, <1>5 DEF ScheduledAt
<1>6. CASE reqs'[h] # Idle
  BY <1>2, <1>4, <1>6 DEF ScheduledAt
<1> QED BY <1>5, <1>6
-----------------------------------------------------------------------------
(* Each call a handler makes keeps the invariant.                            *)

LEMMA FindSelectKeep ==
  ASSUME IInv, NEW h \in Handlers, Find(h) \/ Select(h)
  PROVE  IInv'
<1>1. /\ Busy(h) /\ Head(reqs[h].todo) \in {"find", "get", "select"}
      /\ Proceed(h) \/ Leave(h)
      /\ UNCHANGED <<row, schedules, events, jobs, process, torn, lost>>
  BY DEF Find, Select, At, data
<1>2. Typed /\ Form(reqs[h]) /\ reqs[h].todo # <<>> /\ Inserted /\ Sent /\ Recorded /\ Scheduled
  BY <1>1 DEF IInv, Typed, Busy
<1>3. reqs[h].kind \in {"hook", "sync"} /\ (reqs[h].kind = "hook" => reqs[h].todo # <<"send">>)
  BY <1>1, <1>2, HeadKinds, Heads
<1>4. /\ Moved(h)
      /\ ~(reqs'[h].kind = "hook" /\ reqs'[h].todo = <<"send">>)
  BY <1>1, <1>2, ProceedMoves, LeaveMoves, IdleFields DEF Further
<1>5. Typed'
  BY <1>1, <1>2, <1>4, TypedMoves DEF Typed, TypeOK, Exists
<1>6. Inserted'
  <2>1. ~Inserting(h)'
    BY <1>3, <1>4, IdleFields DEF Moved, Inserting
  <2> QED BY <1>1, <1>2, <1>4, <2>1, InsertedMoves
<1>7. \A g \in Handlers : \A e : Sending(g, e)' <=> Sending(g, e)
  <2>1. \A e : ~Sending(h, e) /\ ~Sending(h, e)'
    BY <1>3, <1>4 DEF Sending
  <2> QED BY <1>4, <2>1, NotSending
<1>8. Sent'
  BY <1>1, <1>2, <1>7, SentFrame DEF Taken
<1>9. Recorded'
  BY <1>1, <1>2, <1>7, RecordedFrame
<1>10. Scheduled'
  <2> SUFFICES ASSUME NEW p \in Projects \ torn' PROVE ScheduledAt(p)'
    BY DEF Scheduled
  <2>1. ScheduledAt(p) /\ ~Changing(h, p)
    BY <1>1, <1>2, <1>3 DEF Scheduled, Changing, Mutating
  <2> QED BY <1>1, <1>2, <1>4, <2>1, OtherProject
<1> QED BY <1>5, <1>6, <1>8, <1>9, <1>10 DEF IInv

\* The unique index lets one request record an event, before its job is sent.
LEMMA RecordKeeps ==
  ASSUME IInv, NEW h \in Handlers, Record(h)
  PROVE  IInv'
<1>0. PICK e : e = <<reqs[h].p, reqs[h].d>>
  OBVIOUS
<1>1. /\ Busy(h) /\ Head(reqs[h].todo) = "record" /\ Proceed(h)
      /\ e \notin events /\ Exists(reqs[h].p) /\ events' = events \cup {e}
      /\ UNCHANGED <<row, schedules, jobs, process, torn, lost>>
  BY <1>0 DEF Record, At, Refused
<1>2. Typed /\ Form(reqs[h]) /\ reqs[h].todo # <<>> /\ Inserted /\ Sent /\ Recorded /\ Scheduled
  BY <1>1 DEF IInv, Typed, Busy
<1>3. reqs[h].kind = "hook" /\ e \in Projects \X Deliveries /\ reqs[h].todo # <<"send">>
  BY <1>0, <1>1, <1>2, HeadKinds, Heads
<1>4. /\ Moved(h) /\ reqs'[h].kind = "hook" /\ reqs'[h].todo = <<"send">>
      /\ reqs'[h].p = reqs[h].p /\ reqs'[h].d = reqs[h].d
  BY <1>1, <1>2, ProceedMoves, RecordRest
<1>5. Typed'
  <2>1. events' \subseteq {f \in Projects \X Deliveries : Exists(f[1])'}
    BY <1>0, <1>1, <1>2, <1>3 DEF Typed, TypeOK, Exists
  <2> QED BY <1>1, <1>2, <1>4, <2>1, TypedMoves DEF Typed, TypeOK
<1>6. Inserted'
  <2>1. ~Inserting(h)'
    BY <1>4 DEF Inserting
  <2> QED BY <1>1, <1>2, <1>4, <2>1, InsertedMoves
<1>7. ~Taken(e)
  BY <1>0, <1>1, <1>3 DEF Taken, Exists
<1>8. jobs[e] = 0 /\ \A g \in Handlers : ~Sending(g, e)
  BY <1>2, <1>3, <1>7 DEF Sent
<1>9. /\ \A f : Sending(h, f)' <=> f = e
      /\ \A g \in Handlers \ {h} : \A f : Sending(g, f)' <=> Sending(g, f)
      /\ \A f : ~Sending(h, f)
  BY <1>0, <1>3, <1>4 DEF Sending, Moved
<1>10. Sent'
  <2>1. \A f \in Projects \X Deliveries : Taken(f) => Taken(f)'
    BY <1>1 DEF Taken
  <2>2. Taken(e)'
    BY <1>1 DEF Taken
  <2>3. \A f \in Projects \X Deliveries : jobs'[f] \in {0, 1} /\ (jobs'[f] = 1 => Taken(f)')
    BY <1>1, <1>2, <2>1 DEF Sent
  <2>4. ASSUME NEW g \in Handlers, NEW f \in Projects \X Deliveries, Sending(g, f)'
        PROVE  jobs'[f] = 0 /\ Taken(f)' /\ \A k \in Handlers : Sending(k, f)' => k = g
    <3>1. CASE g = h
      BY <1>1, <1>8, <1>9, <2>2, <2>4, <3>1
    <3>2. CASE g # h
      <4>1. Sending(g, f) /\ f # e
        BY <1>8, <1>9, <2>4, <3>2
      <4> QED BY <1>1, <1>2, <1>9, <2>1, <4>1 DEF Sent
    <3> QED BY <3>1, <3>2
  <2> QED BY <2>3, <2>4 DEF Sent
<1>11. Recorded'
  <2> SUFFICES ASSUME NEW f \in events'
               PROVE  jobs'[f] = 1 \/ f \in lost' \/ \E g \in Handlers : Sending(g, f)'
    BY DEF Recorded
  <2>1. CASE f = e
    BY <1>9, <2>1
  <2>2. CASE f \in events
    BY <1>1, <1>2, <1>9, <2>2 DEF Recorded
  <2> QED BY <1>1, <2>1, <2>2
<1>12. Scheduled'
  <2> SUFFICES ASSUME NEW p \in Projects \ torn' PROVE ScheduledAt(p)'
    BY DEF Scheduled
  <2>1. ScheduledAt(p) /\ ~Changing(h, p)
    BY <1>1, <1>2, <1>3 DEF Scheduled, Changing, Mutating
  <2> QED BY <1>1, <1>2, <1>4, <2>1, OtherProject
<1> QED BY <1>5, <1>6, <1>10, <1>11, <1>12 DEF IInv

\* The request that recorded an event is the only one to send its job.
LEMMA SendKeeps ==
  ASSUME IInv, NEW h \in Handlers, Send(h)
  PROVE  IInv'
<1>0. PICK e : e = <<reqs[h].p, reqs[h].d>>
  OBVIOUS
<1>1. /\ Busy(h) /\ Head(reqs[h].todo) = "send" /\ Proceed(h)
      /\ queue /\ reqs[h].kind = "hook" => jobs' = [jobs EXCEPT ![e] = @ + 1]
      /\ ~(queue /\ reqs[h].kind = "hook") => jobs' = jobs
      /\ lost' = IF queue THEN lost ELSE lost \cup Unsent(reqs[h])
      /\ UNCHANGED <<row, schedules, events, process, torn>>
  BY <1>0 DEF Send, At
<1>2. Typed /\ Form(reqs[h]) /\ reqs[h].todo # <<>> /\ Inserted /\ Sent /\ Recorded /\ Scheduled
  BY <1>1 DEF IInv, Typed, Busy
<1>3. /\ reqs[h].kind \in {"hook", "create", "sync"} /\ reqs[h].p \in Projects
      /\ reqs[h].kind = "hook" => e \in Projects \X Deliveries /\ reqs[h].todo = <<"send">>
  BY <1>0, <1>1, <1>2, HeadKinds
<1>4. /\ Moved(h) /\ Further(reqs[h], reqs'[h])
      /\ ~(reqs'[h].kind = "hook" /\ reqs'[h].todo = <<"send">>)
  BY <1>1, <1>2, ProceedMoves DEF Further
<1>5. jobs \in [Projects \X Deliveries -> Nat]
  BY <1>2 DEF Typed, TypeOK
<1>6. reqs[h].kind = "hook" => jobs[e] = 0 /\ Taken(e) /\ \A g \in Handlers : Sending(g, e) => g = h
  <2> SUFFICES ASSUME reqs[h].kind = "hook"
               PROVE  jobs[e] = 0 /\ Taken(e) /\ \A g \in Handlers : Sending(g, e) => g = h
    OBVIOUS
  <2>1. Sending(h, e)
    BY <1>0, <1>3 DEF Sending
  <2> QED BY <1>2, <1>3, <2>1 DEF Sent
<1>7. jobs' \in [Projects \X Deliveries -> Nat] /\ lost' \subseteq Projects \X Deliveries /\ lost \subseteq lost'
  <2>1. jobs' = jobs \/ (reqs[h].kind = "hook" /\ jobs' = [jobs EXCEPT ![e] = 1])
    <3>1. CASE queue /\ reqs[h].kind = "hook"
      <4>1. jobs' = [jobs EXCEPT ![e] = @ + 1] /\ jobs[e] = 0
        BY <1>1, <1>6, <3>1
      <4> QED BY <3>1, <4>1
    <3> QED BY <1>1, <3>1
  <2>2. Unsent(reqs[h]) \subseteq Projects \X Deliveries
    BY <1>0, <1>3 DEF Unsent
  <2>3. lost \subseteq Projects \X Deliveries
    BY <1>2 DEF Typed, TypeOK
  <2> QED BY <1>1, <1>3, <1>5, <2>1, <2>2, <2>3
<1>8. Typed'
  BY <1>1, <1>2, <1>4, <1>7, TypedMoves DEF Typed, TypeOK, Exists
<1>9. Inserted'
  <2>1. ~Inserting(h)'
    BY <1>4, IdleFields DEF Further, Inserting
  <2> QED BY <1>1, <1>2, <1>4, <2>1, InsertedMoves
<1>10. /\ \A f : ~Sending(h, f)'
       /\ \A g \in Handlers \ {h} : \A f : Sending(g, f)' <=> Sending(g, f)
       /\ \A f : Taken(f)' <=> Taken(f)
  BY <1>1, <1>4 DEF Sending, Moved, Taken
<1>11. \A f \in Projects \X Deliveries : \/ jobs'[f] = jobs[f] /\ (Sending(h, f) => f \in lost')
                                         \/ reqs[h].kind = "hook" /\ f = e /\ jobs'[f] = 1
  <2>1. CASE queue /\ reqs[h].kind = "hook"
    <3>1. jobs' = [jobs EXCEPT ![e] = 1]
      <4>1. jobs' = [jobs EXCEPT ![e] = @ + 1] /\ jobs[e] = 0
        BY <1>1, <1>6, <2>1
      <4> QED BY <4>1
    <3>2. \A f : Sending(h, f) => f = e
      BY <1>0 DEF Sending
    <3> QED BY <1>3, <1>5, <2>1, <3>1, <3>2
  <2>2. CASE reqs[h].kind # "hook"
    BY <1>1, <2>2 DEF Sending
  <2>3. CASE ~queue
    BY <1>1, <2>3 DEF Sending, Unsent
  <2> QED BY <2>1, <2>2, <2>3
<1>12. Sent'
  <2>1. \A f \in Projects \X Deliveries : jobs'[f] \in {0, 1} /\ (jobs'[f] = 1 => Taken(f)')
    BY <1>2, <1>6, <1>10, <1>11 DEF Sent
  <2>2. ASSUME NEW g \in Handlers, NEW f \in Projects \X Deliveries, Sending(g, f)'
        PROVE  jobs'[f] = 0 /\ Taken(f)' /\ \A k \in Handlers : Sending(k, f)' => k = g
    <3>1. g # h /\ Sending(g, f)
      BY <1>10, <2>2
    <3>2. jobs'[f] = jobs[f]
      BY <1>6, <1>11, <2>2, <3>1
    <3> QED BY <1>2, <1>10, <3>1, <3>2 DEF Sent
  <2> QED BY <2>1, <2>2 DEF Sent
<1>13. Recorded'
  <2> SUFFICES ASSUME NEW f \in events
               PROVE  jobs'[f] = 1 \/ f \in lost' \/ \E g \in Handlers : Sending(g, f)'
    BY <1>1 DEF Recorded
  <2>1. f \in Projects \X Deliveries
    BY <1>2 DEF Typed, TypeOK
  <2> QED BY <1>1, <1>2, <1>7, <1>10, <1>11, <2>1 DEF Recorded
<1>14. Scheduled'
  <2> SUFFICES ASSUME NEW p \in Projects \ torn' PROVE ScheduledAt(p)'
    BY DEF Scheduled
  <2>1. ScheduledAt(p)
    BY <1>1, <1>2 DEF Scheduled
  <2>2. CASE ~Changing(h, p)
    BY <1>1, <1>2, <1>4, <2>1, <2>2, OtherProject
  <2>3. CASE Changing(h, p)
    <3>1. reqs[h].kind = "create" /\ Halfway(reqs[h])
      BY <1>1, <1>2, <1>3, <2>3, HalfwayForm DEF Changing, Mutating
    <3>2. Matches(p) /\ (row[p] = "polled" <=> WantsPolling(reqs[h]))
      BY <1>1, <2>1, <2>3, <3>1 DEF ScheduledAt
    <3>3. Matches(p)'
      BY <1>1, <3>2 DEF Matches
    <3>4. reqs'[h] # Idle => Halfway(reqs'[h])
      BY <1>4, <3>1, HalfwayForm DEF Moved, Further, Mutating
    <3> QED BY <1>1, <1>2, <1>4, <2>1, <2>3, <3>2, <3>3, <3>4, OwnProject
  <2> QED BY <2>2, <2>3
<1> QED BY <1>8, <1>9, <1>12, <1>13, <1>14 DEF IInv

\* A call of a request that changes project p's row or its schedule: what is
\* left to show is that the schedule still leads to the row.
LEMMA ChangerKeeps ==
  ASSUME IInv, NEW h \in Handlers, Busy(h), Moved(h), reqs[h].kind \in Mutating, ~Inserting(h)',
         NEW p \in Projects, p = reqs[h].p,
         row' \in [Projects -> {"new", "quiet", "polled", "gone"}],
         \A q \in Projects \ {p} : row'[q] = row[q] /\ (q \in schedules' <=> q \in schedules),
         row[p] # "new" \/ Inserting(h) \/ row' = row, row[p] = "gone" => row'[p] = "gone",
         schedules' \subseteq Projects,
         events' = {e \in events : row'[e[1]] # "gone"}, Exists(p) => row'[p] # "new",
         UNCHANGED <<jobs, process, torn, lost>>,
         p \notin torn => ScheduledAt(p)'
  PROVE  IInv'
<1>1. Typed /\ Form(reqs[h]) /\ Inserted /\ Sent /\ Recorded /\ Scheduled
  BY DEF IInv, Typed
<1>2. events \subseteq {e \in Projects \X Deliveries : Exists(e[1])}
  BY <1>1 DEF Typed, TypeOK
<1>3. Typed'
  <2>1. events' \subseteq {e \in Projects \X Deliveries : Exists(e[1])'}
    <3> SUFFICES ASSUME NEW e \in events' PROVE e \in Projects \X Deliveries /\ Exists(e[1])'
      OBVIOUS
    <3>1. e \in events /\ row'[e[1]] # "gone" /\ e \in Projects \X Deliveries /\ Exists(e[1])
      BY <1>2
    <3>2. e[1] \in Projects /\ row'[e[1]] \in {"new", "quiet", "polled", "gone"}
      BY <3>1
    <3> QED BY <3>1, <3>2 DEF Exists
  <2> QED BY <1>1, <2>1, TypedMoves DEF Typed, TypeOK
<1>4. Inserted'
  BY <1>1, InsertedMoves
<1>5. \A g \in Handlers : \A e : Sending(g, e)' <=> Sending(g, e)
  <2>1. \A e : ~Sending(h, e) /\ ~Sending(h, e)'
    BY IdleFields DEF Sending, Moved, Mutating
  <2> QED BY <2>1, NotSending
<1>6. Sent'
  <2>1. \A e \in Projects \X Deliveries : Taken(e) => Taken(e)'
    <3> SUFFICES ASSUME NEW e \in Projects \X Deliveries, Taken(e) PROVE Taken(e)'
      OBVIOUS
    <3>1. e[1] \in Projects /\ (row[e[1]] = "gone" => row'[e[1]] = "gone")
      OBVIOUS
    <3> QED BY <3>1 DEF Taken
  <2> QED BY <1>1, <1>5, <2>1, SentFrame
<1>7. Recorded'
  BY <1>1, <1>5, RecordedFrame
<1>8. Scheduled'
  <2> SUFFICES ASSUME NEW q \in Projects \ torn PROVE ScheduledAt(q)'
    BY DEF Scheduled
  <2>1. CASE q = p
    BY <2>1
  <2>2. CASE q # p
    <3>1. ~Changing(h, q) /\ ScheduledAt(q)
      BY <1>1, <2>2 DEF Changing, Scheduled
    <3> QED BY <1>1, <2>2, <3>1, OtherProject
  <2> QED BY <2>1, <2>2
<1> QED BY <1>3, <1>4, <1>6, <1>7, <1>8 DEF IInv

\* Before its row is written, a request has changed nothing.
LEMMA NotHalfway ==
  ASSUME Typed, NEW h \in Handlers, Busy(h), reqs[h].kind \in Mutating,
         Head(reqs[h].todo) \in {"insert", "update", "delete"}, ScheduledAt(reqs[h].p)
  PROVE  ~Halfway(reqs[h]) /\ Matches(reqs[h].p)
<1>1. ~Halfway(reqs[h])
  BY HalfwayForm DEF Typed
<1> QED BY <1>1 DEF ScheduledAt, Changing

LEMMA InsertKeeps ==
  ASSUME IInv, NEW h \in Handlers, Insert(h)
  PROVE  IInv'
<1>0. PICK r : r = reqs[h]
  OBVIOUS
<1>1. /\ Busy(h) /\ Head(r.todo) = "insert" /\ Proceed(h)
      /\ row' = [row EXCEPT ![r.p] = IF r.d THEN "polled" ELSE "quiet"]
      /\ UNCHANGED <<schedules, events, jobs, process, torn, lost>>
  BY <1>0 DEF Insert, At
<1>2. Typed /\ Form(r) /\ r.todo # <<>> /\ Inserted /\ Scheduled /\ row \in [Projects -> {"new", "quiet", "polled", "gone"}]
  BY <1>0, <1>1 DEF IInv, Typed, TypeOK, Busy
<1>3. r.kind = "create" /\ r.d \in BOOLEAN /\ r.p \in Projects /\ Inserting(h) /\ row[r.p] = "new"
  BY <1>0, <1>1, <1>2, HeadKinds DEF Inserting, Inserted
<1>4. Moved(h) /\ Further(r, reqs'[h])
  BY <1>0, <1>1, <1>2, ProceedMoves
<1>5. /\ reqs'[h] # Idle
      /\ reqs'[h].kind = "create" /\ Head(reqs'[h].todo) # "insert"
      /\ Head(reqs'[h].todo) = "send" => ~r.d
  BY <1>1, <1>3, <1>4 DEF Further, Mutating
<1>6. ~Inserting(h)'
  BY <1>5 DEF Inserting
<1>7. /\ row' \in [Projects -> {"new", "quiet", "polled", "gone"}]
      /\ row'[r.p] = IF r.d THEN "polled" ELSE "quiet"
      /\ \A q \in Projects \ {r.p} : row'[q] = row[q]
  BY <1>1, <1>2, <1>3
<1>8. events' = {e \in events : row'[e[1]] # "gone"}
  <2>1. \A e \in events : e[1] \in Projects /\ row[e[1]] # "gone"
    BY <1>2 DEF Typed, TypeOK, Exists
  <2> QED BY <1>1, <1>7, <2>1
<1>9. ASSUME r.p \notin torn PROVE ScheduledAt(r.p)'
  <2>1. ScheduledAt(r.p) /\ Changing(h, r.p)
    BY <1>0, <1>2, <1>3, <1>9 DEF Scheduled, Changing, Mutating
  <2>2. r.p \notin schedules
    BY <1>0, <1>1, <1>2, <1>3, <2>1, NotHalfway DEF Matches, Mutating
  <2>3. row'[r.p] = "polled" <=> WantsPolling(r)
    BY <1>3, <1>7 DEF WantsPolling
  <2>4. Head(reqs'[h].todo) = "send" => Matches(r.p)'
    <3>1. Head(reqs'[h].todo) = "send" => row'[r.p] # "polled" /\ r.p \notin schedules'
      BY <1>1, <1>5, <1>7, <2>2
    <3> QED BY <3>1, <1>0, <1>4, <1>5 DEF Matches, Moved
  <2>5. Halfway(reqs'[h])
    BY <1>4, <1>5, HalfwayForm DEF Moved, Further, Mutating
  <2> QED BY <1>0, <1>2, <1>3, <1>4, <1>5, <2>1, <2>3, <2>4, <2>5, OwnProject
<1>10. /\ row[r.p] # "new" \/ Inserting(h) \/ row' = row
       /\ row[r.p] = "gone" => row'[r.p] = "gone"
       /\ Exists(r.p) => row'[r.p] # "new"
       /\ r.p = reqs[h].p /\ reqs[h].kind \in Mutating /\ schedules' \subseteq Projects
       /\ \A q \in Projects \ {r.p} : row'[q] = row[q] /\ (q \in schedules' <=> q \in schedules)
  BY <1>0, <1>1, <1>2, <1>3, <1>7 DEF Exists, Mutating, Typed, TypeOK
<1> QED BY <1>1, <1>3, <1>4, <1>6, <1>7, <1>8, <1>9, <1>10, ChangerKeeps

LEMMA UpdateDeleteKeep ==
  ASSUME IInv, NEW h \in Handlers, Update(h) \/ Delete(h)
  PROVE  IInv'
<1>0. PICK r : r = reqs[h]
  OBVIOUS
<1>1. /\ Busy(h) /\ Head(r.todo) \in {"update", "delete"}
      /\ UNCHANGED <<schedules, jobs, process, torn, lost>>
  BY <1>0 DEF Update, Delete, At
<1>2. Typed /\ Form(r) /\ r.todo # <<>> /\ Scheduled /\ row \in [Projects -> {"new", "quiet", "polled", "gone"}]
  BY <1>0, <1>1 DEF IInv, Typed, TypeOK, Busy
<1>3. /\ r.kind \in {"patch", "delete"} /\ r.p \in Projects /\ (r.kind = "patch" => r.d \in BOOLEAN)
      /\ Head(r.todo) = "update" <=> r.kind = "patch"
  BY <1>1, <1>2, HeadKinds
<1>4. PICK v : v = IF r.kind = "patch" THEN IF r.d THEN "polled" ELSE "quiet" ELSE "gone"
  OBVIOUS
<1>5. v \in {"polled", "quiet", "gone"} /\ (v = "polled" <=> WantsPolling(r))
  BY <1>3, <1>4 DEF WantsPolling
<1>6. \A e \in events : e \in Projects \X Deliveries /\ Exists(e[1]) /\ row[e[1]] # "gone"
  BY <1>2 DEF Typed, TypeOK, Exists
<1>7. CASE Exists(r.p)
  <2>1. Proceed(h) /\ row' = [row EXCEPT ![r.p] = v]
    BY <1>0, <1>1, <1>3, <1>4, <1>7 DEF Update, Delete, At
  <2>2. /\ row' \in [Projects -> {"new", "quiet", "polled", "gone"}] /\ row'[r.p] = v
        /\ \A q \in Projects \ {r.p} : row'[q] = row[q]
    BY <1>2, <1>3, <1>5, <2>1
  <2>3. Moved(h) /\ Further(r, reqs'[h]) /\ ~Inserting(h)'
    BY <1>0, <1>1, <1>2, <2>1, ProceedMoves DEF Inserting, Further
  <2>4. events' = {e \in events : row'[e[1]] # "gone"}
    <3>1. CASE r.kind = "patch"
      <4>1. events' = events /\ v # "gone"
        BY <1>0, <1>1, <1>3, <1>4, <3>1 DEF Update, Delete, At
      <4> QED BY <1>6, <2>2, <4>1
    <3>2. CASE r.kind = "delete"
      <4>1. events' = {e \in events : e[1] # r.p} /\ v = "gone"
        BY <1>0, <1>1, <1>3, <1>4, <1>7, <3>2 DEF Update, Delete, At
      <4>2. \A e \in events : e[1] # r.p <=> row'[e[1]] # "gone"
        BY <1>6, <2>2, <4>1
      <4> QED BY <4>1, <4>2
    <3> QED BY <1>3, <3>1, <3>2
  <2>5. ASSUME r.p \notin torn PROVE ScheduledAt(r.p)'
    <3>1. ScheduledAt(r.p) /\ Changing(h, r.p)
      BY <1>0, <1>2, <1>3, <2>5 DEF Scheduled, Changing, Mutating
    <3>2. reqs'[h] # Idle
      BY <1>1, <1>3, <2>3 DEF Further, Mutating
    <3>3. reqs'[h].kind # "create" /\ Halfway(reqs'[h])
      BY <1>3, <2>3, <3>2, HalfwayForm DEF Moved, Further, Mutating
    <3> QED BY <1>0, <1>2, <1>3, <1>5, <2>2, <2>3, <3>1, <3>2, <3>3, OwnProject
  <2>6. /\ row[r.p] # "new" /\ row[r.p] # "gone" /\ row'[r.p] # "new"
        /\ r.p = reqs[h].p /\ reqs[h].kind \in Mutating /\ schedules' \subseteq Projects
        /\ \A q \in Projects \ {r.p} : row'[q] = row[q] /\ (q \in schedules' <=> q \in schedules)
    BY <1>0, <1>1, <1>2, <1>3, <1>5, <1>7, <2>2 DEF Exists, Mutating, Typed, TypeOK
  <2> QED BY <1>1, <1>3, <2>2, <2>3, <2>4, <2>5, <2>6, ChangerKeeps
<1>8. CASE ~Exists(r.p)
  <2>1. Leave(h) /\ row' = row /\ events' = events
    BY <1>0, <1>1, <1>3, <1>8 DEF Update, Delete, At
  <2>2. Moved(h) /\ reqs'[h] = Idle /\ ~Inserting(h)'
    BY <1>2, <2>1, LeaveMoves, IdleFields DEF Inserting
  <2>3. events' = {e \in events : row'[e[1]] # "gone"}
    BY <1>6, <2>1
  <2>4. ASSUME r.p \notin torn PROVE ScheduledAt(r.p)'
    <3>1. ScheduledAt(r.p) /\ Changing(h, r.p)
      BY <1>0, <1>2, <1>3, <2>4 DEF Scheduled, Changing, Mutating
    <3>2. Matches(r.p)
      BY <1>0, <1>1, <1>2, <1>3, <3>1, NotHalfway DEF Mutating
    <3>3. Matches(r.p)'
      BY <1>1, <2>1, <3>2 DEF Matches
    <3> QED BY <1>2, <1>3, <2>2, <3>1, <3>3, OwnProject
  <2>5. /\ row' = row /\ r.p = reqs[h].p /\ reqs[h].kind \in Mutating /\ schedules' \subseteq Projects
        /\ row' \in [Projects -> {"new", "quiet", "polled", "gone"}]
        /\ \A q \in Projects \ {r.p} : row'[q] = row[q] /\ (q \in schedules' <=> q \in schedules)
    BY <1>0, <1>1, <1>2, <1>3, <2>1 DEF Mutating, Typed, TypeOK
  <2> QED BY <1>1, <1>3, <1>8, <2>2, <2>3, <2>4, <2>5, ChangerKeeps
<1> QED BY <1>7, <1>8

\* The last of the calls on the schedule leaves it as the row asks for.
LEMMA ScheduleKeeps ==
  ASSUME IInv, NEW h \in Handlers, Unschedule(h) \/ Schedule(h)
  PROVE  IInv'
<1>0. PICK r : r = reqs[h]
  OBVIOUS
<1>1. /\ Busy(h) /\ Head(r.todo) \in {"unschedule", "schedule"} /\ Proceed(h)
      /\ Head(r.todo) = "unschedule" => schedules' = schedules \ {r.p}
      /\ Head(r.todo) = "schedule" => schedules' = schedules \cup {r.p}
      /\ UNCHANGED <<row, events, jobs, process, torn, lost>>
  BY <1>0 DEF Unschedule, Schedule, Unscheduled, At
<1>2. /\ Typed /\ Form(r) /\ r.todo # <<>> /\ Scheduled /\ row \in [Projects -> {"new", "quiet", "polled", "gone"}]
      /\ schedules \subseteq Projects
  BY <1>0, <1>1 DEF IInv, Typed, TypeOK, Busy
<1>3. /\ r.kind \in Mutating /\ r.p \in Projects
      /\ Head(r.todo) = "schedule" => WantsPolling(r)
  BY <1>1, <1>2, HeadKinds DEF Mutating, WantsPolling
<1>4. Moved(h) /\ Further(r, reqs'[h]) /\ ~Inserting(h)'
  BY <1>0, <1>1, <1>2, ProceedMoves DEF Inserting, Further
<1>5. events' = {e \in events : row'[e[1]] # "gone"}
  <2>1. \A e \in events : row[e[1]] # "gone"
    BY <1>2 DEF Typed, TypeOK, Exists
  <2> QED BY <1>1, <2>1
<1>6. schedules' \subseteq Projects /\ \A q \in Projects \ {r.p} : q \in schedules' <=> q \in schedules
  BY <1>1, <1>2, <1>3
<1>7. ASSUME r.p \notin torn PROVE ScheduledAt(r.p)'
  <2>1. ScheduledAt(r.p) /\ Changing(h, r.p)
    BY <1>0, <1>2, <1>3, <1>7 DEF Scheduled, Changing
  <2>2. Halfway(r)
    BY <1>1, <1>2, <1>3, HalfwayForm
  <2>3. row[r.p] = "polled" <=> WantsPolling(r)
    BY <1>0, <2>1, <2>2 DEF ScheduledAt
  <2>4. Head(r.todo) = "schedule" => r.p \in schedules' /\ row'[r.p] = "polled"
    BY <1>1, <1>3, <2>3
  <2>5. reqs'[h] = Idle /\ Head(r.todo) = "unschedule" => r.p \notin schedules' /\ row'[r.p] # "polled"
    BY <1>1, <1>3, <1>4, <2>3 DEF Further, WantsPolling, Mutating
  <2>6. /\ reqs'[h] = Idle => Matches(r.p)'
        /\ reqs'[h].kind = "create" /\ Head(reqs'[h].todo) = "send" => Matches(r.p)'
    <3>1. PICK q : q = r.p
      OBVIOUS
    <3>2. q \in schedules' /\ row'[q] = "polled" => Matches(q)'
      BY DEF Matches
    <3>3. q \notin schedules' /\ row'[q] # "polled" => Matches(q)'
      BY DEF Matches
    <3>4. reqs'[h].kind = "create" /\ Head(reqs'[h].todo) = "send" => Head(r.todo) = "schedule"
      BY <1>1, <1>4 DEF Further
    <3> QED BY <1>1, <2>4, <2>5, <3>1, <3>2, <3>3, <3>4
  <2>7. reqs'[h] # Idle => Halfway(reqs'[h])
    BY <1>3, <1>4, HalfwayForm DEF Moved, Further, Mutating
  <2> QED BY <1>0, <1>1, <1>2, <1>3, <1>4, <2>1, <2>3, <2>6, <2>7, OwnProject
<1> QED BY <1>0, <1>1, <1>2, <1>3, <1>4, <1>5, <1>6, <1>7, ChangerKeeps DEF Exists

\* A call that throws ends its request: what was half done is torn.
LEMMA FailKeeps ==
  ASSUME IInv, NEW h \in Handlers, Fail(h)
  PROVE  IInv'
<1>0. PICK r : r = reqs[h]
  OBVIOUS
<1>1. /\ Busy(h) /\ Leave(h) /\ torn \subseteq torn' /\ (Halfway(r) => r.p \in torn')
      /\ torn' \subseteq torn \cup (IF Halfway(r) THEN {r.p} ELSE {})
      /\ lost' = lost \cup Unsent(r)
      /\ UNCHANGED <<row, schedules, events, jobs, process>>
  BY <1>0 DEF Fail, data
<1>2. Typed /\ Form(r) /\ Inserted /\ Sent /\ Recorded /\ Scheduled
  BY <1>0 DEF IInv, Typed
<1>3. Moved(h) /\ reqs'[h] = Idle
  BY <1>1, <1>2, LeaveMoves
<1>4. Typed'
  <2>1. torn' \subseteq Projects
    BY <1>1, <1>2, HalfwayForm DEF Typed, TypeOK
  <2>2. lost' \subseteq Projects \X Deliveries
    BY <1>0, <1>1, <1>2, UnsentForm DEF Typed, TypeOK
  <2> QED BY <1>1, <1>2, <1>3, <2>1, <2>2, TypedMoves DEF Typed, TypeOK, Exists
<1>5. Inserted'
  <2>1. ~Inserting(h)'
    BY <1>3, IdleFields DEF Inserting
  <2> QED BY <1>1, <1>2, <1>3, <2>1, InsertedMoves
<1>6. \A g \in Handlers : \A e : /\ Sending(g, e)' => Sending(g, e)
                                 /\ Sending(g, e) => Sending(g, e)' \/ g = h
  BY <1>3, IdleFields DEF Sending, Moved
<1>7. Sent'
  BY <1>1, <1>2, <1>6, SentFrame DEF Taken
<1>8. Recorded'
  <2>1. \A e : Sending(h, e) => e \in lost'
    BY <1>0, <1>1, <1>2, UnsentForm
  <2> QED BY <1>1, <1>2, <1>6, <2>1, RecordedFrame
<1>9. Scheduled'
  <2> SUFFICES ASSUME NEW p \in Projects \ torn' PROVE ScheduledAt(p)'
    BY DEF Scheduled
  <2>1. ScheduledAt(p)
    BY <1>1, <1>2 DEF Scheduled
  <2>2. CASE ~Changing(h, p)
    BY <1>1, <1>2, <1>3, <2>1, <2>2, OtherProject
  <2>3. CASE Changing(h, p)
    <3>1. Matches(p)
      BY <1>0, <1>1, <2>1, <2>3 DEF ScheduledAt, Changing
    <3>2. Matches(p)'
      BY <1>1, <3>1 DEF Matches
    <3> QED BY <1>2, <1>3, <2>1, <2>3, <3>2, OwnProject
  <2> QED BY <2>2, <2>3
<1> QED BY <1>4, <1>5, <1>7, <1>8, <1>9 DEF IInv

\* A crash ends every request.
LEMMA CrashKeeps == IInv /\ Crash => IInv'
<1> SUFFICES ASSUME IInv, Crash PROVE IInv'
  OBVIOUS
<1>1. /\ server' = "down" /\ attempt' = 0 /\ torn \subseteq torn'
      /\ torn' = torn \cup {reqs[h].p : h \in {g \in Handlers : Halfway(reqs[g])}}
      /\ lost' = lost \cup UNION {Unsent(reqs[h]) : h \in Handlers}
      /\ UNCHANGED <<row, schedules, events, jobs, keys, taken, queue>>
      /\ reqs' = [h \in Handlers |-> Idle] /\ \A h \in Handlers : reqs'[h] = Idle
  BY DEF Crash, data
<1>2. Typed /\ Sent /\ Recorded /\ Scheduled
  BY DEF IInv
<1>3. \A h \in Handlers : Halfway(reqs[h]) => reqs[h].p \in torn' /\ reqs[h].p \in Projects
  BY <1>1, <1>2, HalfwayForm DEF Typed
<1>4. Typed'
  <2>1. torn' \subseteq Projects
    BY <1>1, <1>2, <1>3 DEF Typed, TypeOK
  <2>2. \A h \in Handlers : Busy(h)' => server' \in {"up", "closing"}
    BY <1>1, IdleFields DEF Busy
  <2>3. attempt' \in 0..MaxAttempts
    BY <1>1, AttemptsAssumption
  <2>5. lost' \subseteq Projects \X Deliveries
    BY <1>1, <1>2, UnsentForm DEF Typed, TypeOK
  <2>4. TypeOK'
    BY <1>1, <1>2, <2>1, <2>2, <2>3, <2>5 DEF Typed, TypeOK, Exists
  <2> QED BY <1>1, <2>4, IdleFields DEF Typed
<1>5. Inserted'
  BY <1>1, IdleFields DEF Inserted, Inserting
<1>6. \A h \in Handlers : \A e : ~Sending(h, e)'
  BY <1>1, IdleFields DEF Sending
<1>7. Sent'
  BY <1>1, <1>2, <1>6, SentFrame DEF Taken
<1>8. Recorded'
  <2>1. \A h \in Handlers : \A e : Sending(h, e) => e \in lost'
    BY <1>1, <1>2, UnsentForm
  <2> QED BY <1>1, <1>2, <2>1, RecordedFrame
<1>9. Scheduled'
  <2> SUFFICES ASSUME NEW p \in Projects \ torn' PROVE ScheduledAt(p)'
    BY DEF Scheduled
  <2>1. \A h \in Handlers : ~(Changing(h, p) /\ Halfway(reqs[h])) /\ ~Changing(h, p)'
    BY <1>1, <1>3, IdleFields DEF Changing, Mutating
  <2>2. Matches(p)
    BY <1>1, <1>2, <2>1 DEF Scheduled, ScheduledAt
  <2>3. Matches(p)'
    BY <1>1, <2>2 DEF Matches
  <2> QED BY <2>1, <2>3 DEF ScheduledAt
<1> QED BY <1>4, <1>5, <1>7, <1>8, <1>9 DEF IInv

\* What a request looks like when it arrives.
Arriving == Hooks \cup UNION {Creates(p) \cup Patches(p) \cup Deletes(p) \cup Triggers(p) : p \in Projects}

\* Joining the parts of a handler's calls.
Calls == {"insert", "update", "unschedule", "schedule", "send"}

LEMMA Joined ==
  ASSUME NEW s, NEW t, NEW u, s \in Seq(Calls), t \in Seq(Calls), u \in Seq(Calls), Len(u) = Len(s) + Len(t),
         \A i \in 1 .. Len(u) : u[i] = IF i <= Len(s) THEN s[i] ELSE t[i - Len(s)]
  PROVE  s \o t = u
<1>1. Len(s \o t) = Len(u) /\ s \o t \in Seq(Calls)
  BY ConcatProperties
<1>2. \A i \in 1 .. Len(s \o t) : (s \o t)[i] = u[i]
  BY <1>1, ConcatProperties
<1> QED BY <1>1, <1>2, SeqEqual

LEMMA CallsJoined ==
  /\ <<"update">> \o <<"unschedule">> = <<"update", "unschedule">>
  /\ <<"update">> \o <<"unschedule", "schedule">> = <<"update", "unschedule", "schedule">>
  /\ <<"insert">> \o <<>> = <<"insert">>
  /\ <<"insert">> \o <<"send">> = <<"insert", "send">>
  /\ <<"insert">> \o <<"unschedule", "schedule">> = <<"insert", "unschedule", "schedule">>
  /\ <<"insert", "unschedule", "schedule">> \o <<"send">> = <<"insert", "unschedule", "schedule", "send">>
<1>1. <<"update">> \o <<"unschedule">> = <<"update", "unschedule">>
  <2>0. SUFFICES ASSUME NEW s, NEW t, NEW u, s = <<"update">>, t = <<"unschedule">>, u = <<"update", "unschedule">>
                  PROVE  s \o t = u
    OBVIOUS
  <2>1. s \in Seq(Calls) /\ t \in Seq(Calls) /\ u \in Seq(Calls) /\ Len(u) = Len(s) + Len(t)
    BY <2>0 DEF Calls
  <2>2. \A i \in 1 .. Len(u) : u[i] = IF i <= Len(s) THEN s[i] ELSE t[i - Len(s)]
    BY <2>0
  <2> QED BY <2>1, <2>2, Joined, Zenon
<1>2. <<"update">> \o <<"unschedule", "schedule">> = <<"update", "unschedule", "schedule">>
  <2>0. SUFFICES ASSUME NEW s, NEW t, NEW u, s = <<"update">>, t = <<"unschedule", "schedule">>, u = <<"update", "unschedule", "schedule">>
                  PROVE  s \o t = u
    OBVIOUS
  <2>1. s \in Seq(Calls) /\ t \in Seq(Calls) /\ u \in Seq(Calls) /\ Len(u) = Len(s) + Len(t)
    BY <2>0 DEF Calls
  <2>2. \A i \in 1 .. Len(u) : u[i] = IF i <= Len(s) THEN s[i] ELSE t[i - Len(s)]
    BY <2>0
  <2> QED BY <2>1, <2>2, Joined, Zenon
<1>3. <<"insert">> \o <<>> = <<"insert">>
  <2>0. SUFFICES ASSUME NEW s, NEW t, NEW u, s = <<"insert">>, t = <<>>, u = <<"insert">>
                  PROVE  s \o t = u
    OBVIOUS
  <2>1. s \in Seq(Calls) /\ t \in Seq(Calls) /\ u \in Seq(Calls) /\ Len(u) = Len(s) + Len(t)
    BY <2>0 DEF Calls
  <2>2. \A i \in 1 .. Len(u) : u[i] = IF i <= Len(s) THEN s[i] ELSE t[i - Len(s)]
    BY <2>0
  <2> QED BY <2>1, <2>2, Joined, Zenon
<1>4. <<"insert">> \o <<"send">> = <<"insert", "send">>
  <2>0. SUFFICES ASSUME NEW s, NEW t, NEW u, s = <<"insert">>, t = <<"send">>, u = <<"insert", "send">>
                  PROVE  s \o t = u
    OBVIOUS
  <2>1. s \in Seq(Calls) /\ t \in Seq(Calls) /\ u \in Seq(Calls) /\ Len(u) = Len(s) + Len(t)
    BY <2>0 DEF Calls
  <2>2. \A i \in 1 .. Len(u) : u[i] = IF i <= Len(s) THEN s[i] ELSE t[i - Len(s)]
    BY <2>0
  <2> QED BY <2>1, <2>2, Joined, Zenon
<1>5. <<"insert">> \o <<"unschedule", "schedule">> = <<"insert", "unschedule", "schedule">>
  <2>0. SUFFICES ASSUME NEW s, NEW t, NEW u, s = <<"insert">>, t = <<"unschedule", "schedule">>, u = <<"insert", "unschedule", "schedule">>
                  PROVE  s \o t = u
    OBVIOUS
  <2>1. s \in Seq(Calls) /\ t \in Seq(Calls) /\ u \in Seq(Calls) /\ Len(u) = Len(s) + Len(t)
    BY <2>0 DEF Calls
  <2>2. \A i \in 1 .. Len(u) : u[i] = IF i <= Len(s) THEN s[i] ELSE t[i - Len(s)]
    BY <2>0
  <2> QED BY <2>1, <2>2, Joined, Zenon
<1>6. <<"insert", "unschedule", "schedule">> \o <<"send">> = <<"insert", "unschedule", "schedule", "send">>
  <2>0. SUFFICES ASSUME NEW s, NEW t, NEW u, s = <<"insert", "unschedule", "schedule">>, t = <<"send">>, u = <<"insert", "unschedule", "schedule", "send">>
                  PROVE  s \o t = u
    OBVIOUS
  <2>1. s \in Seq(Calls) /\ t \in Seq(Calls) /\ u \in Seq(Calls) /\ Len(u) = Len(s) + Len(t)
    BY <2>0 DEF Calls
  <2>2. \A i \in 1 .. Len(u) : u[i] = IF i <= Len(s) THEN s[i] ELSE t[i - Len(s)]
    BY <2>0
  <2> QED BY <2>1, <2>2, Joined, Zenon
<1> QED BY <1>1, <1>2, <1>3, <1>4, <1>5, <1>6

LEMMA ArrivingForm ==
  ASSUME NEW r \in Arriving
  PROVE  /\ Form(r) /\ r # Idle /\ r.p \in Projects /\ ~Halfway(r)
         /\ r.kind = "hook" => r.todo # <<"send">>
<1>1. CASE r \in Hooks
  <2>1. PICK p \in Projects, d \in Deliveries : r = Request("hook", p, d, <<"find", "select", "record", "send">>)
    BY <1>1 DEF Hooks
  <2>2. r.kind = "hook" /\ r.p = p /\ r.d = d /\ r.todo = <<"find", "select", "record", "send">>
    BY <2>1 DEF Request
  <2>3. Form(r)
    BY <2>1, <2>2 DEF Form, Left, HookTodos
  <2> QED BY <2>2, <2>3, HalfwayForm, Heads, IdleFields
<1>2. CASE \E p \in Projects : r \in Creates(p)
  <2>1. PICK p \in Projects, on \in BOOLEAN :
          r = Request("create", p, on, <<"insert">> \o (IF on THEN Polling(on) ELSE <<>>) \o <<"send">>)
    BY <1>2 DEF Creates
  <2>2. r.kind = "create" /\ r.p = p /\ r.d = on
    BY <2>1 DEF Request
  <2>3. r.todo = IF on THEN <<"insert", "unschedule", "schedule", "send">> ELSE <<"insert", "send">>
    <3>1. CASE on = TRUE
      BY <2>1, <3>1, CallsJoined DEF Request, Polling
    <3>2. CASE on = FALSE
      BY <2>1, <3>2, CallsJoined DEF Request
    <3> QED BY <3>1, <3>2
  <2>4. Form(r)
    BY <2>1, <2>2, <2>3 DEF Form, Left, CreateTodos, Request
  <2> QED BY <2>2, <2>3, <2>4, HalfwayForm, Heads, IdleFields DEF Mutating
<1>3. CASE \E p \in Projects : r \in Patches(p)
  <2>1. PICK p \in Projects, on \in BOOLEAN : r = Request("patch", p, on, <<"update">> \o Polling(on))
    BY <1>3 DEF Patches
  <2>2. r.kind = "patch" /\ r.p = p /\ r.d = on
    BY <2>1 DEF Request
  <2>3. r.todo = IF on THEN <<"update", "unschedule", "schedule">> ELSE <<"update", "unschedule">>
    <3>1. CASE on = TRUE
      BY <2>1, <3>1, CallsJoined DEF Request, Polling
    <3>2. CASE on = FALSE
      BY <2>1, <3>2, CallsJoined DEF Request, Polling
    <3> QED BY <3>1, <3>2
  <2>4. Form(r)
    BY <2>1, <2>2, <2>3 DEF Form, Left, PatchTodos, Request
  <2> QED BY <2>2, <2>3, <2>4, HalfwayForm, Heads, IdleFields DEF Mutating
<1>4. CASE \E p \in Projects : r \in Deletes(p)
  <2>1. PICK p \in Projects : r = Request("delete", p, FALSE, <<"delete", "unschedule">>)
    BY <1>4 DEF Deletes
  <2>2. r.kind = "delete" /\ r.p = p /\ r.d = FALSE /\ r.todo = <<"delete", "unschedule">>
    BY <2>1 DEF Request
  <2>3. Form(r)
    BY <2>1, <2>2 DEF Form, Left, DeleteTodos
  <2> QED BY <2>2, <2>3, HalfwayForm, Heads, IdleFields DEF Mutating
<1>5. CASE \E p \in Projects : r \in Triggers(p)
  <2>1. PICK p \in Projects : r = Request("sync", p, FALSE, <<"get", "send">>)
    BY <1>5 DEF Triggers
  <2>2. r.kind = "sync" /\ r.p = p /\ r.d = FALSE /\ r.todo = <<"get", "send">>
    BY <2>1 DEF Request
  <2>3. Form(r)
    BY <2>1, <2>2 DEF Form, Left, SyncTodos
  <2> QED BY <2>2, <2>3, HalfwayForm, IdleFields DEF Mutating
<1> QED BY <1>1, <1>2, <1>3, <1>4, <1>5 DEF Arriving

LEMMA ArriveKeeps ==
  ASSUME IInv, NEW h \in Handlers, Arrive(h)
  PROVE  IInv'
<1>1. PICK r \in Arriving :
        /\ reqs' = [reqs EXCEPT ![h] = r] /\ torn' = torn \cup Overlap(r)
        /\ r.kind = "create" => /\ row[r.p] = "new"
                                /\ \A g \in Handlers : ~(reqs[g].kind = "create" /\ reqs[g].p = r.p)
  BY DEF Arrive, Arriving
<1>2. server = "up" /\ UNCHANGED <<row, schedules, events, jobs, keys, server, attempt, taken, queue, lost>>
  BY DEF Arrive, data, process
<1>3. Typed /\ Inserted /\ Sent /\ Recorded /\ Scheduled
  BY DEF IInv
<1>4. Form(r) /\ r # Idle /\ r.p \in Projects /\ ~Halfway(r) /\ (r.kind = "hook" => r.todo # <<"send">>)
  BY ArrivingForm
<1>5. reqs[h] = Idle
  <2>1. reqs[h].todo = <<>> /\ Form(reqs[h])
    BY <1>3 DEF Arrive, Busy, Typed
  <2>2. Left(reqs[h]) => FALSE
    BY <2>1, Heads DEF Left, HookTodos, CreateTodos, PatchTodos, DeleteTodos, SyncTodos
  <2> QED BY <2>1, <2>2 DEF Form
<1>6. reqs' = [g \in Handlers |-> reqs'[g]] /\ \A g \in Handlers : reqs'[g] = IF g = h THEN r ELSE reqs[g]
  BY <1>1, <1>3 DEF Typed
<1>7. Overlap(r) \subseteq {r.p}
  BY DEF Overlap
<1>8. Typed'
  <2>1. torn' \subseteq Projects
    BY <1>1, <1>3, <1>4, <1>7 DEF Typed, TypeOK
  <2>2. \A g \in Handlers : Busy(g)' => server' \in {"up", "closing"}
    BY <1>2
  <2>3. attempt' \in 0..MaxAttempts
    BY <1>2, <1>3 DEF Typed, TypeOK
  <2>4. TypeOK'
    BY <1>2, <1>3, <2>1, <2>2, <2>3 DEF Typed, TypeOK, Exists
  <2> QED BY <1>3, <1>4, <1>6, <2>4 DEF Typed
<1>9. Inserted'
  <2> SUFFICES ASSUME NEW g \in Handlers, Inserting(g)'
               PROVE  /\ row[reqs'[g].p] = "new"
                      /\ \A f \in Handlers : Inserting(f)' /\ reqs'[f].p = reqs'[g].p => f = g
    BY <1>2 DEF Inserted
  <2>1. CASE g = h
    BY <1>1, <1>6, <2>1 DEF Inserting
  <2>2. CASE g # h
    BY <1>1, <1>3, <1>6, <2>2 DEF Inserting, Inserted
  <2> QED BY <2>1, <2>2
<1>10. \A g \in Handlers : \A e : Sending(g, e)' <=> Sending(g, e)
  BY <1>4, <1>5, <1>6, IdleFields DEF Sending
<1>11. Sent'
  BY <1>2, <1>3, <1>10, SentFrame DEF Taken
<1>12. Recorded'
  BY <1>1, <1>2, <1>3, <1>10, RecordedFrame
<1>13. Scheduled'
  <2> SUFFICES ASSUME NEW p \in Projects \ torn' PROVE ScheduledAt(p)'
    BY DEF Scheduled
  <2>1. ScheduledAt(p)
    BY <1>1, <1>3 DEF Scheduled
  <2>2. ~Changing(h, p)
    BY <1>5, IdleFields DEF Changing, Mutating
  <2>3. r.kind \in Mutating /\ r.p = p => \A g \in Handlers : ~Changing(g, p)
    <3> SUFFICES ASSUME r.kind \in Mutating, r.p = p, NEW g \in Handlers, Changing(g, p) PROVE FALSE
      OBVIOUS
    <3>1. {reqs[g].kind, r.kind} \subseteq {"create", "patch", "delete"} /\ reqs[g].p = r.p
      BY DEF Changing, Mutating
    <3>2. r.p \in Overlap(r)
      BY <3>1 DEF Overlap, Mutating
    <3> QED BY <1>1, <3>2
  <2>4. /\ \A g \in Handlers \ {h} : Changing(g, p)' <=> Changing(g, p)
        /\ Changing(h, p)' <=> r.kind \in Mutating /\ r.p = p
    BY <1>6 DEF Changing
  <2>5. Matches(p)' <=> Matches(p)
    BY <1>2 DEF Matches
  <2>6. \A f, g \in Handlers : Changing(f, p)' /\ Changing(g, p)' => f = g
    BY <2>1, <2>3, <2>4 DEF ScheduledAt
  <2>7. \A g \in Handlers : Changing(g, p)' /\ Halfway(reqs'[g]) => Changing(g, p) /\ g # h /\ reqs'[g] = reqs[g]
    BY <1>4, <1>6, <2>4
  <2>8. \A g \in Handlers : Changing(g, p) => g # h /\ Changing(g, p)' /\ reqs'[g] = reqs[g]
    BY <1>6, <2>2, <2>4
  <2> QED BY <1>2, <2>1, <2>5, <2>6, <2>7, <2>8 DEF ScheduledAt
<1> QED BY <1>8, <1>9, <1>11, <1>12, <1>13 DEF IInv

\* The server's own steps, the admin's and the environment's.
Own == ChangeKeys \/ Bind \/ Stop \/ Release \/ Exit \/ Start \/ UsePort \/ CreateQueue

LEMMA OthersKeep ==
  ASSUME IInv, Own \/ UNCHANGED vars
  PROVE  IInv'
<1>1. UNCHANGED <<row, schedules, events, jobs, reqs, torn, lost>>
  BY DEF Own, ChangeKeys, Bind, Stop, Release, Exit, Start, UsePort, CreateQueue, vars, data
<1>2. Typed /\ TypeOK
  BY DEF IInv, Typed
<1>3. keys' \subseteq Scopes
  BY <1>2 DEF Own, ChangeKeys, Bind, Stop, Release, Exit, Start, UsePort, CreateQueue, vars, process, TypeOK, Scopes
<1>4. attempt' \in 0..MaxAttempts
  <2>1. CASE Bind
    <3>1. attempt' = 0 \/ (attempt < MaxAttempts /\ attempt' = attempt + 1)
      BY <2>1 DEF Bind
    <3>2. attempt \in 0..MaxAttempts
      BY <1>2 DEF TypeOK
    <3> QED BY <3>1, <3>2, AttemptsAssumption
  <2>2. CASE Start
    <3>1. attempt' = 1
      BY <2>2 DEF Start
    <3> QED BY <3>1, AttemptsAssumption
  <2>3. CASE ~Bind /\ ~Start
    <3>1. attempt' = attempt
      BY <2>3 DEF Own, ChangeKeys, Stop, Release, Exit, UsePort, CreateQueue, vars, process
    <3> QED BY <1>2, <3>1 DEF TypeOK
  <2> QED BY <2>1, <2>2, <2>3
<1>5. server' \in {"down", "starting", "up", "closing", "stopping"} /\ taken' \in BOOLEAN /\ queue' \in BOOLEAN
  BY <1>2 DEF Own, ChangeKeys, Bind, Stop, Release, Exit, Start, UsePort, CreateQueue, vars, process, TypeOK
<1>6. \A h \in Handlers : Busy(h)' => server' \in {"up", "closing"}
  BY <1>1, <1>2 DEF Own, ChangeKeys, Bind, Stop, Release, Exit, Drained, Start, UsePort, CreateQueue, vars, process, TypeOK, Busy
<1>7. TypeOK'
  BY <1>1, <1>2, <1>3, <1>4, <1>5, <1>6 DEF TypeOK, Exists
<1>8. Typed'
  BY <1>1, <1>2, <1>7 DEF Typed
<1>9. Inserted' /\ Sent' /\ Recorded'
  BY <1>1 DEF IInv, Inserted, Inserting, Sent, Sending, Taken, Recorded
<1>10. Scheduled'
  BY <1>1 DEF IInv, Scheduled, ScheduledAt, Changing, Matches
<1> QED BY <1>8, <1>9, <1>10 DEF IInv

LEMMA NextKeeps == IInv /\ [Next]_vars => IInv'
BY FindSelectKeep, RecordKeeps, SendKeeps, InsertKeeps, UpdateDeleteKeep, ScheduleKeeps,
   FailKeeps, ArriveKeeps, CrashKeeps, OthersKeep DEF Next, Step, Own

-----------------------------------------------------------------------------
(* The theorems.                                                             *)

\* The tables, the queue and the handlers hold what they can hold, whatever
\* number of requests interleave, fail or are cut off.
THEOREM TypeCorrect == Spec => []TypeOK
<1>1. IInv => TypeOK
  BY DEF IInv, Typed
<1> QED BY InitIInv, NextKeeps, <1>1, PTL DEF Spec

\* An event that arrives any number of times has at most one sync job: the
\* unique index on webhook_events lets one request record it, and only that
\* request goes on to send.
THEOREM OneJobCorrect == Spec => []OneJobPerDelivery
<1>1. IInv => OneJobPerDelivery
  BY DEF IInv, Sent, OneJobPerDelivery
<1> QED BY InitIInv, NextKeeps, <1>1, PTL DEF Spec

\* A recorded event has its job, or a request that is about to send it, unless
\* that very request ended without: it failed, crashed, or found no queue.
THEOREM RecordedIsSentCorrect == Spec => []RecordedIsSent
<1>1. IInv => RecordedIsSent
  <2> SUFFICES ASSUME IInv, NEW e \in events, jobs[e] # 1, e \notin lost
               PROVE  \E h \in Handlers : e \in Unsent(reqs[h])
    BY DEF RecordedIsSent
  <2>1. PICK h \in Handlers : Sending(h, e)
    BY DEF IInv, Recorded
  <2> QED BY <2>1, UnsentForm DEF IInv
<1> QED BY InitIInv, NextKeeps, <1>1, PTL DEF Spec

\* Polling schedules and rows agree while no request is changing them, unless
\* one failed half way or two overlapped: each request leaves the schedule its
\* own row asks for.
THEOREM SchedulesCorrect == Spec => []SchedulesMatchRows
<1>1. IInv => SchedulesMatchRows
  <2> SUFFICES ASSUME IInv, NEW p \in Projects \ torn,
                      \A h \in Handlers : ~Halfway(reqs[h]) \/ reqs[h].p # p
               PROVE  p \in schedules <=> row[p] = "polled"
    BY DEF SchedulesMatchRows
  <2>1. \A h \in Handlers : ~(Changing(h, p) /\ Halfway(reqs[h]))
    BY DEF Changing
  <2> QED BY <2>1 DEF IInv, Scheduled, ScheduledAt, Matches
<1> QED BY InitIInv, NextKeeps, <1>1, PTL DEF Spec

\* A server that stops goes on to stop the queue only when no request is left
\* that could still need it (the safety half of StopsGracefully).
THEOREM NoneCutOffCorrect == Spec => []NoneCutOff
<1>1. IInv => NoneCutOff
  BY DEF IInv, Typed, TypeOK, NoneCutOff, Drained
<1> QED BY InitIInv, NextKeeps, <1>1, PTL DEF Spec

=============================================================================
