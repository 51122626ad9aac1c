-------------------------------- MODULE Api --------------------------------
(* The REST API and the webhook receiver (apps/api) on the metadata database *)
(* and the job queue.  A request is the list of awaited calls its handler    *)
(* still has to make; the calls of concurrent requests interleave, any of    *)
(* them may throw (the handler then answers 500 and makes no further call),  *)
(* and the process may crash, or be told to stop, between any two.  A        *)
(* project's id is generated when it is created and never used again.        *)
EXTENDS Naturals, Sequences, SequencesExt, FiniteSets

CONSTANTS Projects,      \* ids of projects, before, during and after their life
          Deliveries,    \* delivery ids of push events
          Handlers,      \* slots for requests in progress
          MaxAttempts    \* bindHttpServer's default is 15

ASSUME AttemptsAssumption == MaxAttempts \in Nat \ {0}

VARIABLES row,        \* the projects table: its row, with polling on or off
          keys,       \* the scopes for which an API key exists
          schedules,  \* projects with a polling schedule in pg-boss
          events,     \* webhook_events: <<project, delivery>>
          jobs,       \* jobs sent for each <<project, delivery>>
          reqs,       \* what each handler slot is working on
          server,     \* the HTTP server of the process
          attempt,    \* bindHttpServer's loop counter
          taken,      \* another process listens on the port
          queue,      \* the worker has created the queue of sync jobs
          torn,       \* projects a failed or an overlapping request worked on
          lost        \* recorded events whose request ended without a job

data == <<row, schedules, events, jobs>>
process == <<keys, server, attempt, taken, queue>>
vars == <<data, process, reqs, torn, lost>>

Scopes == {"read", "write", "admin"}
Firsts == {"insert", "update", "delete"}

Request(kind, p, d, todo) == [kind |-> kind, p |-> p, d |-> d, todo |-> todo]

\* What a handler awaits, in order.
BadHooks == {Request("hook", p, d, <<"find", "record", "select", "send">>) :
                p \in Projects, d \in Deliveries}
Hooks == {Request("hook", p, d, <<"find", "select", "record", "send">>) :
             p \in Projects, d \in Deliveries}
BadPolling(on) == IF on THEN <<"schedule", "unschedule">> ELSE <<"unschedule">>
Polling(on) == IF on THEN <<"unschedule", "schedule">> ELSE <<"unschedule">>
Creates(p) == {Request("create", p, on, <<"insert">> \o (IF on THEN Polling(on) ELSE <<>>) \o <<"send">>) :
                 on \in BOOLEAN}
Patches(p) == {Request("patch", p, on, <<"update">> \o Polling(on)) : on \in BOOLEAN}
Deletes(p) == {Request("delete", p, FALSE, <<"delete", "unschedule">>)}
Triggers(p) == {Request("sync", p, FALSE, <<"get", "send">>)}

\* requireScope: admin implies write, write implies read.
Allowed(held, scope) == \/ held = scope
                        \/ scope = "read" /\ held \in {"write", "admin"}
                        \/ scope = "write" /\ held = "admin"

ScopeOf(kind) == IF kind = "delete" THEN "admin" ELSE "write"

Busy(h) == reqs[h].todo # <<>>
Exists(p) == row[p] \in {"quiet", "polled"}
At(h, step) == Busy(h) /\ Head(reqs[h].todo) = step

Idle == Request("none", CHOOSE p \in Projects : TRUE, FALSE, <<>>)
Leave(h) == reqs' = [reqs EXCEPT ![h] = Idle]
Rest(r) == IF Len(r.todo) = 1 THEN Idle ELSE [r EXCEPT !.todo = Tail(r.todo)]
Proceed(h) == reqs' = [reqs EXCEPT ![h] = Rest(reqs[h])]

\* The requests that change a project and its schedule.
Mutating == {"create", "patch", "delete"}

\* The first of the request's writes is done, others are still to come.
Halfway(r) == /\ r.kind \in Mutating /\ r.todo # <<>>
              /\ Firsts \cap ToSet(r.todo) = {}

\* The event whose job the request has still to send, having recorded it.
Unsent(r) == IF r.kind = "hook" /\ r.todo = <<"send">> THEN {<<r.p, r.d>>} ELSE {}

Overlap(r) == {r.p : h \in {g \in Handlers : /\ reqs[g].p = r.p
                                             /\ {reqs[g].kind, r.kind} \subseteq Mutating}}

\* A request passes authMiddleware and requireScope; webhooks carry their
\* project's secret instead.
Arrive(h) ==
    /\ server = "up" /\ ~Busy(h)
    /\ \E r \in Hooks \cup UNION {Creates(p) \cup Patches(p) \cup Deletes(p) \cup Triggers(p) : p \in Projects} :
          /\ r.kind = "hook" \/ \E k \in keys : Allowed(k, ScopeOf(r.kind))
          /\ r.kind = "create" => /\ row[r.p] = "new"
                                  /\ \A g \in Handlers : ~(reqs[g].kind = "create" /\ reqs[g].p = r.p)
          /\ reqs' = [reqs EXCEPT ![h] = r]
          /\ torn' = torn \cup Overlap(r)
    /\ UNCHANGED <<data, process, lost>>

\* The route that needs a project answers 404 when there is none.
Find(h) ==
    /\ At(h, "find") \/ At(h, "get")
    /\ IF Exists(reqs[h].p) THEN Proceed(h) ELSE Leave(h)
    /\ UNCHANGED <<data, process, torn, lost>>

\* recordAndScheduleSync: an event already recorded is answered "duplicate".
Select(h) ==
    /\ At(h, "select")
    /\ IF <<reqs[h].p, reqs[h].d>> \in events THEN Leave(h) ELSE Proceed(h)
    /\ UNCHANGED <<data, process, torn, lost>>

\* The unique index and the foreign key of webhook_events.
BadRefused(e) == ~Exists(e[1])
Refused(e) == e \in events \/ ~Exists(e[1])

Record(h) ==
    /\ At(h, "record") /\ ~Refused(<<reqs[h].p, reqs[h].d>>)
    /\ events' = events \cup {<<reqs[h].p, reqs[h].d>>}
    /\ Proceed(h)
    /\ UNCHANGED <<row, schedules, jobs, process, torn, lost>>

\* scheduleSyncJob: the queue answers without a job id as long as no worker has
\* created it; a hook then answers "duplicate" to an event that has no job.
Send(h) ==
    /\ At(h, "send")
    /\ jobs' = IF queue /\ reqs[h].kind = "hook" THEN [jobs EXCEPT ![<<reqs[h].p, reqs[h].d>>] = @ + 1] ELSE jobs
    /\ lost' = IF queue THEN lost ELSE lost \cup Unsent(reqs[h])
    /\ Proceed(h)
    /\ UNCHANGED <<row, schedules, events, process, torn>>

Insert(h) ==
    /\ At(h, "insert")
    /\ row' = [row EXCEPT ![reqs[h].p] = IF reqs[h].d THEN "polled" ELSE "quiet"]
    /\ Proceed(h)
    /\ UNCHANGED <<schedules, events, jobs, process, torn, lost>>

Update(h) ==
    /\ At(h, "update")
    /\ IF Exists(reqs[h].p)
       THEN /\ row' = [row EXCEPT ![reqs[h].p] = IF reqs[h].d THEN "polled" ELSE "quiet"]
            /\ Proceed(h)
       ELSE row' = row /\ Leave(h)
    /\ UNCHANGED <<schedules, events, jobs, process, torn, lost>>

\* The events of a deleted project go with it (ON DELETE CASCADE).
Delete(h) ==
    /\ At(h, "delete")
    /\ IF Exists(reqs[h].p)
       THEN /\ row' = [row EXCEPT ![reqs[h].p] = "gone"]
            /\ events' = {e \in events : e[1] # reqs[h].p}
            /\ Proceed(h)
       ELSE UNCHANGED <<row, events>> /\ Leave(h)
    /\ UNCHANGED <<schedules, jobs, process, torn, lost>>

Unscheduled(p) == schedules \ {p}

Unschedule(h) ==
    /\ At(h, "unschedule")
    /\ schedules' = Unscheduled(reqs[h].p)
    /\ Proceed(h)
    /\ UNCHANGED <<row, events, jobs, process, torn, lost>>

Schedule(h) ==
    /\ At(h, "schedule")
    /\ schedules' = schedules \cup {reqs[h].p}
    /\ Proceed(h)
    /\ UNCHANGED <<row, events, jobs, process, torn, lost>>

\* The awaited call throws: the handler ends with what it has done so far.
Fail(h) ==
    /\ Busy(h)
    /\ torn' = torn \cup (IF Halfway(reqs[h]) THEN {reqs[h].p} ELSE {})
    /\ lost' = lost \cup Unsent(reqs[h])
    /\ Leave(h)
    /\ UNCHANGED <<data, process>>

\* An admin creates or revokes keys; one that may only read reaches none of the
\* handlers above.
ChangeKeys ==
    /\ server = "up" /\ "admin" \in keys
    /\ keys' \in SUBSET {"write", "admin"}
    /\ UNCHANGED <<data, server, attempt, taken, queue, reqs, torn, lost>>

\* main, bindHttpServer: the port is tried again after EADDRINUSE.
Bind ==
    /\ server = "starting"
    /\ IF ~taken THEN server' = "up" /\ attempt' = 0
       ELSE IF attempt < MaxAttempts THEN server' = server /\ attempt' = attempt + 1
       ELSE server' = "down" /\ attempt' = 0
    /\ UNCHANGED <<data, keys, taken, queue, reqs, torn, lost>>

\* SIGTERM: shutdown calls releaseHttpServer, which stops listening and waits
\* for the requests in progress, without a limit; then stopBoss, which stops the
\* queue and may throw; either way the process then ends.  A signal that comes
\* before the server listens finds nothing to release: it ends the process as
\* Crash does.
Stop ==
    /\ server = "up"
    /\ server' = "closing"
    /\ UNCHANGED <<data, keys, attempt, taken, queue, reqs, torn, lost>>

Drained == \A h \in Handlers : ~Busy(h)

\* The server is released before its last request has ended.
BadRelease ==
    /\ server = "closing"
    /\ server' = "stopping"
    /\ UNCHANGED <<data, keys, attempt, taken, queue, reqs, torn, lost>>

Release ==
    /\ server = "closing" /\ Drained
    /\ server' = "stopping"
    /\ UNCHANGED <<data, keys, attempt, taken, queue, reqs, torn, lost>>

Exit ==
    /\ server = "stopping"
    /\ server' = "down"
    /\ UNCHANGED <<data, keys, attempt, taken, queue, reqs, torn, lost>>

\* The environment: the process crashes or is started, the port is used, the
\* worker starts for the first time.
Crash ==
    /\ server # "down"
    /\ server' = "down" /\ attempt' = 0
    /\ torn' = torn \cup {reqs[h].p : h \in {g \in Handlers : Halfway(reqs[g])}}
    /\ lost' = lost \cup UNION {Unsent(reqs[h]) : h \in Handlers}
    /\ reqs' = [h \in Handlers |-> Idle]
    /\ UNCHANGED <<data, keys, taken, queue>>

Start ==
    /\ server = "down"
    /\ server' = "starting" /\ attempt' = 1
    /\ UNCHANGED <<data, keys, taken, queue, reqs, torn, lost>>

UsePort ==
    /\ server = "starting" /\ taken' = ~taken
    /\ UNCHANGED <<data, keys, server, attempt, queue, reqs, torn, lost>>

CreateQueue ==
    /\ ~queue /\ queue' = TRUE
    /\ UNCHANGED <<data, keys, server, attempt, taken, reqs, torn, lost>>

Init ==
    /\ row = [p \in Projects |-> "new"] /\ keys = {"admin"}
    /\ schedules = {} /\ events = {} /\ torn = {} /\ lost = {}
    /\ jobs = [e \in Projects \X Deliveries |-> 0]
    /\ reqs = [h \in Handlers |-> Idle]
    /\ server = "down" /\ attempt = 0 /\ taken = FALSE /\ queue = FALSE

Step(h) == \/ Find(h) \/ Select(h) \/ Record(h) \/ Send(h) \/ Insert(h) \/ Update(h)
           \/ Delete(h) \/ Unschedule(h) \/ Schedule(h) \/ Fail(h)

Next == \/ \E h \in Handlers : Arrive(h) \/ Step(h)
        \/ ChangeKeys \/ Bind \/ Stop \/ Release \/ Exit \/ Crash \/ Start \/ UsePort \/ CreateQueue

\* Every awaited call ends, well or badly: those of the requests, the close of a
\* server whose requests have ended, and the stop of the queue.
Spec == /\ Init /\ [][Next]_vars
        /\ WF_vars(Release) /\ WF_vars(Exit) /\ \A h \in Handlers : WF_vars(Step(h))

-----------------------------------------------------------------------------
\* Type invariant: rows, schedules, events and requests are what the tables,
\* the queue and the handlers can hold.
TypeOK ==
    /\ row \in [Projects -> {"new", "quiet", "polled", "gone"}]
    /\ keys \subseteq Scopes /\ queue \in BOOLEAN /\ lost \subseteq Projects \X Deliveries
    /\ schedules \subseteq Projects /\ torn \subseteq Projects
    /\ events \subseteq {e \in Projects \X Deliveries : Exists(e[1])}
    /\ jobs \in [Projects \X Deliveries -> Nat]
    /\ \A h \in Handlers : Busy(h) => server \in {"up", "closing"}
    /\ server \in {"down", "starting", "up", "closing", "stopping"}
    /\ attempt \in 0..MaxAttempts /\ taken \in BOOLEAN

\* However often the provider delivers an event, also twice at once, and
\* whatever fails or crashes in between, at most one sync job is sent for it
\* (the lookup in recordAndScheduleSync and the unique index behind it).
OneJobPerDelivery == \A e \in Projects \X Deliveries : jobs[e] <= 1

\* An event is in webhook_events, so that every later delivery of it is answered
\* "duplicate", only if its job was sent or the request that recorded it is about
\* to send it.  The code has two ways out of this, each naming the one event it
\* loses: that request failed or crashed at its last call, or the queue was not
\* there and the call came back without a job.
RecordedIsSent ==
    \A e \in events :
        \/ jobs[e] = 1 \/ e \in lost
        \/ \E h \in Handlers : e \in Unsent(reqs[h])

\* A polling schedule exists exactly for the projects whose row has polling on,
\* once no request is changing it: except after a request that failed between
\* the row and the schedule, or two that overlapped.
SchedulesMatchRows ==
    \A p \in Projects \ torn :
        (\A h \in Handlers : ~Halfway(reqs[h]) \/ reqs[h].p # p) =>
            (p \in schedules <=> row[p] = "polled")

\* A server that has been told to stop cuts no request off: when it goes on to
\* stop the queue, which some of them still need, all have ended.  And it ends,
\* by itself unless it crashes, provided that every request does: its wait has
\* no limit.
NoneCutOff == server = "stopping" => Drained

StopsGracefully ==
    /\ ~<>(~NoneCutOff)
    /\ (server = "closing") ~> (server = "down")
=============================================================================
