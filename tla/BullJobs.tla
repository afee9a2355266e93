------------------------------ MODULE BullJobs ------------------------------
(***************************************************************************)
(* One research job in queue mode (JOBS_EXECUTION_MODE=bullmq).            *)
(*                                                                         *)
(* The API process and the worker processes share the job's row in         *)
(* Postgres, and each keeps a private copy of the last version it saw      *)
(* (JobLifecycleService.records).  The service changes the row by reading  *)
(* it and writing the whole row back in a second query, without a          *)
(* transaction or a version check, so that a write in flight holds a       *)
(* snapshot others may overtake.  Every such write is two actions here:    *)
(* the read, which computes the row to store, and the commit.              *)
(*                                                                         *)
(* Writers: per worker the attempt (main), its heart-beat timer (beat) and *)
(* the listener of BullMQ's 'failed' event (event); per API client its     *)
(* request (req).  The BullMQ job in Redis (queue, holder, made, stalls)   *)
(* is external, modelled from the calls the code makes.  The engine is a   *)
(* child process that returns, throws, or is killed when it is aborted.    *)
(***************************************************************************)
EXTENDS JobRecord, FiniteSets

CONSTANTS
  Clients,      \* requests the API serves at the same time
  Workers,      \* worker processes, each with JOB_WORKER_CONCURRENCY = 1
  Requests,     \* kinds of requests the clients make
  HasTimeout,   \* JOB_TIMEOUT_MS is set
  MaxAttempts,  \* JOB_MAX_ATTEMPTS
  MaxStalls,    \* BullMQ's maxStalledCount: lost locks it forgives
  MaxCreates,   \* bound: POST /research-runs requests for this run id
  MaxChanges,   \* bound: cancel and delete requests
  MaxCrashes,   \* bound: crashes of worker processes
  MaxLosses     \* bound: locks lost, by a crash or a lost connection

None == "none"

ASSUME BullAssumption ==
  /\ IsFiniteSet(Workers) /\ None \notin Workers
  /\ Requests \subseteq {"create", "cancel", "remove"}
  /\ HasTimeout \in BOOLEAN
  /\ MaxAttempts \in Nat \ {0}
  /\ MaxStalls \in Nat /\ MaxCreates \in Nat /\ MaxChanges \in Nat
  /\ MaxCrashes \in Nat /\ MaxLosses \in Nat

VARIABLES
  row,        \* the row of research_jobs, NoRecord when there is none
  apiCache,   \* the API process's copy of the record
  cache,      \* each worker process's copy
  queue,      \* state of the BullMQ job
  holder,     \* the worker that owns the BullMQ job's lock
  made,       \* BullMQ's attemptsMade
  stalls,     \* BullMQ's stalled counter
  pc,         \* what each worker does
  reason,     \* abortReason of its attempt
  outcome,    \* how its engine ended
  main,       \* its attempt's write in flight
  beat,       \* its heart-beat timer's write in flight
  event,      \* its 'failed' listener's write in flight
  emitted,    \* workers whose 'failed' event awaits the listener
  cpc,        \* what each client's request does
  op,         \* the kind of that request
  seen,       \* status requestCancellation() read first
  req,        \* the request's write in flight
  creates, changes, crashes,   \* used up parts of the bounds
  causes      \* history: what has happened to the job so far

rowVars    == <<row, apiCache, cache>>
queueVars  == <<queue, holder, made, stalls>>
workerVars == <<pc, reason, outcome, main, beat, event, emitted>>
clientVars == <<cpc, op, seen, req>>
boundVars  == <<creates, changes, crashes>>
vars == <<rowVars, queueVars, workerVars, clientVars, boundVars, causes>>

WorkerSteps == {"idle", "get", "create", "createCommit", "preCancel",
                "preCommit", "start", "startCommit", "engine", "syncBeat",
                "syncCommit", "final", "finalCommit", "complete", "fail"}
ClientSteps == {"idle", "create", "createCommit", "add", "addFailed",
                "dequeue", "cancel", "ask", "askUpdate", "expire", "commit",
                "deleteGet", "delete"}

\* The timers of an attempt run from markRunning to the finally block.
TimersOn == {"engine", "syncBeat", "syncCommit", "final", "finalCommit"}

Executing == {w \in Workers : pc[w] = "engine"}

TypeOK ==
  /\ row \in Record \cup {NoRecord}
  /\ apiCache \in Record \cup {NoRecord}
  /\ cache \in [Workers -> Record \cup {NoRecord}]
  /\ queue \in {"absent", "waiting", "active", "completed", "failed"}
  /\ holder \in Workers \cup {None}
  /\ made \in Nat /\ stalls \in Nat
  /\ pc \in [Workers -> WorkerSteps]
  /\ reason \in [Workers -> {"none", "timeout", "cancelled"}]
  /\ outcome \in [Workers -> {"none", "ok", "failed", "threw"}]
  /\ main \in [Workers -> Record \cup {NoRecord}]
  /\ beat \in [Workers -> Record \cup {NoRecord}]
  /\ event \in [Workers -> Record \cup {NoRecord}]
  /\ emitted \subseteq Workers
  /\ cpc \in [Clients -> ClientSteps]
  /\ op \in [Clients -> {"none", "create", "cancel", "remove", "poll"}]
  /\ seen \in [Clients -> Statuses]
  /\ req \in [Clients -> Record \cup {NoRecord}]
  /\ creates \in Nat /\ changes \in Nat /\ crashes \in Nat
  /\ causes \subseteq {"asked", "early", "unqueued", "reposted", "removed",
                       "started", "returned", "threw", "fired", "expired",
                       "lost"}

Init ==
  /\ row = NoRecord /\ apiCache = NoRecord
  /\ cache = [w \in Workers |-> NoRecord]
  /\ queue = "absent" /\ holder = None /\ made = 0 /\ stalls = 0
  /\ pc = [w \in Workers |-> "idle"]
  /\ reason = [w \in Workers |-> "none"]
  /\ outcome = [w \in Workers |-> "none"]
  /\ main = [w \in Workers |-> NoRecord]
  /\ beat = [w \in Workers |-> NoRecord]
  /\ event = [w \in Workers |-> NoRecord]
  /\ emitted = {}
  /\ cpc = [c \in Clients |-> "idle"]
  /\ op = [c \in Clients |-> "none"]
  /\ seen = [c \in Clients |-> "queued"]
  /\ req = [c \in Clients |-> NoRecord]
  /\ creates = 0 /\ changes = 0 /\ crashes = 0
  /\ causes = {}

-----------------------------------------------------------------------------
\* JobLifecycleService.get: the row, or the private copy when the table has
\* none; a row that is found replaces the private copy.
Get(copy) == IF row # NoRecord THEN row ELSE copy

\* The answer of get() in the API and in a worker, and the copy it keeps.
ApiGet == Get(apiCache)
WorkerGet(w) == Get(cache[w])

\* storeMemory().  Copies are read only when the table has no row: they are
\* left out once it has one, where no request deletes it.
Copied(r) == IF "remove" \in Requests \/ row' = NoRecord THEN r ELSE NoRecord
ApiCopy(r) == apiCache' = Copied(r)
WorkerCopy(w, r) == cache' = [cache EXCEPT ![w] = Copied(r)]

\* get() and update() remember what they read or are about to write; the
\* upsert overwrites the whole row and remembers what it stored.
ApiRemembers(r)       == UNCHANGED <<row, cache>> /\ ApiCopy(r)
WorkerRemembers(w, r) == UNCHANGED <<row, apiCache>> /\ WorkerCopy(w, r)
ApiStores(r)          == row' = r /\ ApiCopy(r) /\ UNCHANGED cache
WorkerStores(w, r)    == row' = r /\ WorkerCopy(w, r) /\ UNCHANGED apiCache

-----------------------------------------------------------------------------
(* API requests *)

Goto(c, step) == cpc' = [cpc EXCEPT ![c] = step]
Reply(c) == /\ cpc' = [cpc EXCEPT ![c] = "idle"]
            /\ op' = [op EXCEPT ![c] = "none"]

Begin(c, kind) == cpc[c] = "idle" /\ op' = [op EXCEPT ![c] = kind]

\* ResearchRunsService.create with a run_id: an existing job is returned.
CreateFind(c) ==
  /\ "create" \in Requests /\ creates < MaxCreates
  /\ creates' = creates + 1
  /\ \/ ApiGet # NoRecord /\ cpc[c] = "idle" /\ UNCHANGED <<cpc, op>>
     \/ ApiGet = NoRecord /\ Begin(c, "create") /\ Goto(c, "create")
  /\ ApiRemembers(ApiGet)
  /\ UNCHANGED <<queueVars, workerVars, seen, req, changes, crashes, causes>>

\* enqueueResearchRun: lifecycle.create makes a fresh queued record, which
\* the API's get() answers from then on, and upserts it.
CreateRow(c) ==
  /\ cpc[c] = "create"
  /\ ApiRemembers(Created)
  /\ Goto(c, "createCommit")
  /\ UNCHANGED <<queueVars, workerVars, op, seen, req, boundVars, causes>>

CreateCommit(c) ==
  /\ cpc[c] = "createCommit"
  /\ ApiStores(Created)
  /\ causes' = IF queue = "absent" THEN causes ELSE causes \cup {"reposted"}
  /\ Goto(c, "add")
  /\ UNCHANGED <<queueVars, workerVars, op, seen, req, boundVars>>

\* queue.add with jobId = run_id: BullMQ ignores the id of a job it holds, also
\* of one that has ended.
AddJob(c) ==
  /\ cpc[c] = "add"
  /\ IF queue = "absent"
     THEN queue' = "waiting" /\ made' = 0 /\ stalls' = stalls
     ELSE UNCHANGED <<queue, made, stalls>>
  /\ Reply(c)
  /\ UNCHANGED <<rowVars, holder, workerVars, seen, req, boundVars, causes>>

\* queue.add throws without reaching Redis: markFailed with enqueue_failed,
\* then the error is thrown.
AddThrows(c) ==
  /\ cpc[c] = "add"
  /\ Goto(c, "addFailed")
  /\ causes' = causes \cup {"unqueued"}
  /\ UNCHANGED <<rowVars, queueVars, workerVars, op, seen, req, boundVars>>

\* Mutant of ApiUpdate: update() does not test whether get() found a record.
ApiUpdateUnchecked(c, from, next, otherwise) ==
  /\ cpc[c] = from
  /\ req' = [req EXCEPT ![c] = next]
  /\ ApiRemembers(next)
  /\ Goto(c, "commit") /\ UNCHANGED op
  /\ seen' = [seen EXCEPT ![c] = "queued"]
  /\ UNCHANGED <<queueVars, workerVars, boundVars, causes>>

\* The read of an update() by the request: nothing to write when get() finds
\* no record.
ApiUpdate(c, from, next, otherwise) ==
  /\ cpc[c] = from
  /\ IF ApiGet = NoRecord
     THEN /\ IF otherwise = "idle" THEN Reply(c)
             ELSE Goto(c, otherwise) /\ UNCHANGED op
          /\ UNCHANGED <<rowVars, req>>
     ELSE /\ req' = [req EXCEPT ![c] = next]
          /\ ApiRemembers(next)
          /\ Goto(c, "commit") /\ UNCHANGED op
  /\ seen' = [seen EXCEPT ![c] = "queued"]
  /\ UNCHANGED <<queueVars, workerVars, boundVars, causes>>

AddFailed(c) == ApiUpdate(c, "addFailed", MarkFailed(ApiGet), "idle")

\* JobsService.cancelJob: read the record and branch on its status.
CancelRead(c) ==
  /\ "cancel" \in Requests /\ changes < MaxChanges
  /\ ApiGet # NoRecord
  /\ Begin(c, "cancel")
  /\ changes' = changes + 1
  /\ causes' = causes \cup {"asked"}
  /\ Goto(c, IF ApiGet.status = "queued" THEN "dequeue" ELSE "ask")
  /\ ApiRemembers(ApiGet)
  /\ UNCHANGED <<queueVars, workerVars, seen, req, creates, crashes>>

\* JobsService.removeResearchRunJobs: read the record of the deleted run.
RemoveRead(c) ==
  /\ "remove" \in Requests /\ changes < MaxChanges
  /\ ApiGet # NoRecord
  /\ Begin(c, "remove")
  /\ changes' = changes + 1
  /\ causes' = causes \cup {"asked"}
  /\ Goto(c, "dequeue")
  /\ ApiRemembers(ApiGet)
  /\ UNCHANGED <<queueVars, workerVars, seen, req, creates, crashes>>

\* queue.getJob(...)?.remove(): throws while a worker holds the job's lock.
Dequeue(c) ==
  /\ cpc[c] = "dequeue"
  /\ \/ /\ queue = "active"
        /\ Goto(c, "ask")
        /\ UNCHANGED queue
     \/ /\ queue # "active"
        /\ queue' = "absent"
        /\ Goto(c, IF op[c] = "cancel" THEN "cancel" ELSE "deleteGet")
  /\ UNCHANGED <<rowVars, holder, made, stalls, workerVars, op, seen, req,
                 boundVars, causes>>

CancelQueued(c) == ApiUpdate(c, "cancel", MarkCancelled(ApiGet), "idle")

\* requestCancellation(): its own read, whose status it keeps ...
AskRead(c) ==
  /\ cpc[c] = "ask"
  /\ IF ApiGet = NoRecord
     THEN /\ IF op[c] = "cancel" THEN Reply(c)
             ELSE Goto(c, "deleteGet") /\ UNCHANGED op
          /\ UNCHANGED <<seen, rowVars>>
     ELSE /\ seen' = [seen EXCEPT ![c] = ApiGet.status]
          /\ Goto(c, "askUpdate") /\ UNCHANGED op
          /\ ApiRemembers(ApiGet)
  /\ UNCHANGED <<queueVars, workerVars, req, boundVars, causes>>

\* ... and then the read of update(), whose other fields it keeps.
AskUpdate(c) ==
  ApiUpdate(c, "askUpdate", RequestCancellation(seen[c], ApiGet),
            IF op[c] = "cancel" THEN "idle" ELSE "deleteGet")

\* GET /jobs/:id: reconcileLifecycleStatus expires a running record whose
\* heart-beat is stale; other records are returned as they are.
Poll(c) ==
  /\ ApiGet # NoRecord /\ ApiGet.status = "running" /\ HeartbeatStale(ApiGet)
  /\ Begin(c, "poll") /\ Goto(c, "expire")
  /\ ApiRemembers(ApiGet)
  /\ UNCHANGED <<queueVars, workerVars, seen, req, boundVars, causes>>

Expire(c) == ApiUpdate(c, "expire", MarkTimedOut(ApiGet), "idle")

\* What the answer to POST /jobs/:id/cancel tells the client: the job is
\* cancelled, and by then no worker had looked at it or failed, and the row of
\* every POST /research-runs was written.
Answered(c) ==
  IF /\ op[c] = "cancel" /\ req[c].status = "cancelled"
     /\ causes \cap {"started", "threw"} = {}
     /\ \A d \in Clients : cpc[d] \notin {"create", "createCommit"}
  THEN {"early"} ELSE {}

\* The request's upsert; DELETE goes on after requestCancellation.
ClientCommit(c) ==
  /\ cpc[c] = "commit"
  /\ ApiStores(req[c])
  /\ req' = [req EXCEPT ![c] = NoRecord]
  /\ causes' = causes \cup Answered(c)
  /\ IF op[c] = "remove" THEN Goto(c, "deleteGet") /\ UNCHANGED op ELSE Reply(c)
  /\ UNCHANGED <<queueVars, workerVars, seen, boundVars>>

\* JobLifecycleService.remove: forget the private copy, then DELETE the row.
DeleteGet(c) ==
  /\ cpc[c] = "deleteGet"
  /\ IF ApiGet = NoRecord THEN Reply(c) ELSE Goto(c, "delete") /\ UNCHANGED op
  /\ ApiRemembers(NoRecord)
  /\ UNCHANGED <<queueVars, workerVars, seen, req, boundVars, causes>>

Delete(c) ==
  /\ cpc[c] = "delete"
  /\ row' = NoRecord
  /\ Reply(c)
  /\ causes' = causes \cup {"removed"}
  /\ UNCHANGED <<apiCache, cache, queueVars, workerVars, seen, req, boundVars>>

ClientStep(c) ==
  \/ CreateRow(c) \/ CreateCommit(c) \/ AddJob(c) \/ AddThrows(c)
  \/ AddFailed(c) \/ Dequeue(c) \/ CancelQueued(c) \/ AskRead(c)
  \/ AskUpdate(c) \/ Expire(c) \/ ClientCommit(c) \/ DeleteGet(c) \/ Delete(c)
ClientRequest(c) == CreateFind(c) \/ CancelRead(c) \/ RemoveRead(c) \/ Poll(c)

-----------------------------------------------------------------------------
(* BullMQ and the workers *)

Step(w, from, to) == pc[w] = from /\ pc' = [pc EXCEPT ![w] = to]

\* The locals of process() are gone when it returns.
Forgets(w) ==
  /\ reason' = [reason EXCEPT ![w] = "none"]
  /\ outcome' = [outcome EXCEPT ![w] = "none"]

\* Mutant of Take: the lock of an active job is ignored.
TakeUnlocked(w) ==
  /\ queue \in {"waiting", "active"}
  /\ Step(w, "idle", "get")
  /\ queue' = "active" /\ holder' = w
  /\ UNCHANGED <<rowVars, made, stalls, reason, outcome, main, beat, event,
                 emitted, clientVars, boundVars, causes>>

\* A worker takes the waiting job and calls process().
Take(w) ==
  /\ queue = "waiting"
  /\ Step(w, "idle", "get")
  /\ queue' = "active" /\ holder' = w
  /\ UNCHANGED <<rowVars, made, stalls, reason, outcome, main, beat, event,
                 emitted, clientVars, boundVars, causes>>

\* Mutant of Fetch: the cancellation is not tested before the engine starts.
FetchUntested(w) ==
  /\ Step(w, "get", IF WorkerGet(w) = NoRecord THEN "create" ELSE "start")
  /\ WorkerRemembers(w, WorkerGet(w))
  /\ causes' = causes \cup {"started"}
  /\ UNCHANGED <<queueVars, reason, outcome, main, beat, event,
                 emitted, clientVars, boundVars>>

\* ResearchJobProcessor.process: (get ?? create), then the cancellation test.
\* From its answer on the attempt no longer looks at a cancellation.
Fetch(w) ==
  /\ Step(w, "get", IF WorkerGet(w) = NoRecord THEN "create"
                    ELSE IF WorkerGet(w).cancel THEN "preCancel" ELSE "start")
  /\ WorkerRemembers(w, WorkerGet(w))
  /\ causes' = causes \cup {"started"}
  /\ UNCHANGED <<queueVars, reason, outcome, main, beat, event,
                 emitted, clientVars, boundVars>>

FetchCreates(w) ==
  /\ Step(w, "create", "createCommit")
  /\ main' = [main EXCEPT ![w] = Created]
  /\ WorkerRemembers(w, Created)
  /\ UNCHANGED <<queueVars, reason, outcome, beat, event, emitted,
                 clientVars, boundVars, causes>>

\* The read of an update() by the attempt; without a record it goes on.
Update(w, from, next, to, otherwise) ==
  /\ IF WorkerGet(w) = NoRecord
     THEN Step(w, from, otherwise) /\ UNCHANGED <<main, rowVars>>
     ELSE /\ Step(w, from, to)
          /\ main' = [main EXCEPT ![w] = next]
          /\ WorkerRemembers(w, next)
  /\ UNCHANGED <<queueVars, reason, outcome, beat, event, emitted,
                 clientVars, boundVars, causes>>

Commit(w, from, to) ==
  /\ Step(w, from, to)
  /\ WorkerStores(w, main[w])
  /\ main' = [main EXCEPT ![w] = NoRecord]
  /\ UNCHANGED <<queueVars, reason, outcome, beat, event, emitted,
                 clientVars, boundVars, causes>>

FetchCreatesCommit(w) == Commit(w, "createCommit", "start")

\* A cancellation recorded before the attempt: no engine is started.
PreCancel(w) ==
  Update(w, "preCancel", MarkCancelled(WorkerGet(w)), "preCommit", "complete")
PreCancelCommit(w) == Commit(w, "preCommit", "complete")

\* markRunning, awaited before the timers and the engine are started.
Start(w) ==
  Update(w, "start", MarkRunning(WorkerGet(w)), "startCommit", "engine")
StartCommit(w) == Commit(w, "startCommit", "engine")

\* The timeout timer aborts the engine, whatever abortReason was.
TimeoutFires(w) ==
  /\ HasTimeout /\ pc[w] = "engine" /\ reason[w] # "timeout"
  /\ reason' = [reason EXCEPT ![w] = "timeout"]
  /\ causes' = causes \cup {"fired"}
  /\ UNCHANGED <<rowVars, queueVars, pc, outcome, main, beat, event,
                 emitted, clientVars, boundVars>>

\* The cancellation watch: the record asks for it and nothing aborted yet.
WatchAborts(w) ==
  /\ pc[w] = "engine" /\ reason[w] = "none"
  /\ WorkerGet(w) # NoRecord /\ WorkerGet(w).cancel
  /\ reason' = [reason EXCEPT ![w] = "cancelled"]
  /\ WorkerRemembers(w, WorkerGet(w))
  /\ UNCHANGED <<queueVars, pc, outcome, main, beat, event, emitted,
                 clientVars, boundVars, causes>>

\* The engine ends with a JSON result, unless it was aborted before.
EngineReturns(w) ==
  /\ reason[w] = "none"
  /\ Step(w, "engine", "syncBeat")
  /\ \E o \in {"ok", "failed"} :
       /\ outcome' = [outcome EXCEPT ![w] = o]
       /\ causes' = causes \cup {IF o = "ok" THEN "returned" ELSE "threw"}
  /\ UNCHANGED <<rowVars, queueVars, reason, main, beat, event,
                 emitted, clientVars, boundVars>>

\* The engine's promise is rejected: it failed, or the abort killed it.
EngineThrows(w) ==
  /\ Step(w, "engine", "final")
  /\ outcome' = [outcome EXCEPT ![w] = "threw"]
  /\ causes' = causes \cup {"threw"}
  /\ UNCHANGED <<rowVars, queueVars, reason, main, beat, event,
                 emitted, clientVars, boundVars>>

\* heartbeat(request.run_id) before the journal is copied to Postgres.
SyncBeat(w) ==
  Update(w, "syncBeat", Heartbeat(WorkerGet(w)), "syncCommit", "final")
SyncCommit(w) == Commit(w, "syncCommit", "final")

\* Mutant of Ended: the catch block takes every abort for a timeout.
EndedTimedOut(w, r) ==
  CASE outcome[w] = "ok" -> MarkCompleted(r)
    [] outcome[w] = "failed" -> MarkFailed(r)
    [] OTHER -> MarkTimedOut(r)

\* The status the attempt leaves: from the result, or from the catch block.
Ended(w, r) ==
  CASE outcome[w] = "ok" -> MarkCompleted(r)
    [] outcome[w] = "failed" -> MarkFailed(r)
    [] outcome[w] = "threw" /\ reason[w] = "cancelled" -> MarkCancelled(r)
    [] outcome[w] = "threw" /\ reason[w] = "timeout" -> MarkTimedOut(r)
    [] OTHER -> MarkFailed(r)

AfterEnd(w) == IF outcome[w] = "threw" THEN "fail" ELSE "complete"

Final(w) ==
  Update(w, "final", Ended(w, WorkerGet(w)), "finalCommit", AfterEnd(w))
FinalCommit(w) == Commit(w, "finalCommit", AfterEnd(w))

\* job.updateProgress rejects, before process() is called or after it returned:
\* either way the attempt has failed.
ProgressFails(w) ==
  /\ pc[w] \in {"get", "complete"} /\ pc' = [pc EXCEPT ![w] = "fail"]
  /\ causes' = causes \cup {"threw"}
  /\ UNCHANGED <<rowVars, queueVars, reason, outcome, main, beat, event, emitted,
                 clientVars, boundVars>>

\* process() returned: BullMQ completes the job if this worker has its lock.
Completes(w) ==
  /\ Step(w, "complete", "idle")
  /\ IF holder = w THEN queue' = "completed" /\ holder' = None
     ELSE UNCHANGED <<queue, holder>>
  /\ Forgets(w)
  /\ UNCHANGED <<rowVars, made, stalls, main, beat, event, emitted, clientVars,
                 boundVars, causes>>

\* The attempt failed: BullMQ retries or fails the job and emits 'failed'.
Fails(w) ==
  /\ Step(w, "fail", "idle")
  /\ IF holder = w
     THEN /\ made' = made + 1
          /\ queue' = IF made + 1 < MaxAttempts THEN "waiting" ELSE "failed"
          /\ holder' = None
          /\ emitted' = emitted \cup {w}
     ELSE UNCHANGED <<made, queue, holder, emitted>>
  /\ Forgets(w)
  /\ UNCHANGED <<rowVars, stalls, main, beat, event, clientVars, boundVars,
                 causes>>

\* worker.on('failed'): markFailed(worker_failed), for every failed attempt.
EventRead(w) ==
  /\ w \in emitted /\ event[w] = NoRecord
  /\ emitted' = emitted \ {w}
  /\ IF WorkerGet(w) = NoRecord THEN UNCHANGED <<event, rowVars>>
     ELSE LET r == MarkFailed(WorkerGet(w))
          IN  event' = [event EXCEPT ![w] = r] /\ WorkerRemembers(w, r)
  /\ UNCHANGED <<queueVars, pc, reason, outcome, main, beat,
                 clientVars, boundVars, causes>>

EventCommit(w) ==
  /\ event[w] # NoRecord
  /\ WorkerStores(w, event[w])
  /\ event' = [event EXCEPT ![w] = NoRecord]
  /\ UNCHANGED <<queueVars, pc, reason, outcome, main, beat, emitted,
                 clientVars, boundVars, causes>>

\* The heart-beat timer fires; nobody awaits its write, and clearInterval
\* does not stop one in flight.
BeatRead(w) ==
  /\ pc[w] \in TimersOn /\ beat[w] = NoRecord
  /\ WorkerGet(w) # NoRecord
  /\ beat' = [beat EXCEPT ![w] = Heartbeat(WorkerGet(w))]
  /\ WorkerRemembers(w, Heartbeat(WorkerGet(w)))
  /\ UNCHANGED <<queueVars, pc, reason, outcome, main, event, emitted,
                 clientVars, boundVars, causes>>

BeatCommit(w) ==
  /\ beat[w] # NoRecord
  /\ WorkerStores(w, beat[w])
  /\ beat' = [beat EXCEPT ![w] = NoRecord]
  /\ UNCHANGED <<queueVars, pc, reason, outcome, main, event, emitted,
                 clientVars, boundVars, causes>>

\* The worker process dies: what it was doing and remembered is lost, the
\* lock of its job stays in Redis until it expires, which is one of MaxLosses.
Crash(w) ==
  /\ crashes < MaxCrashes /\ crashes' = crashes + 1
  /\ holder = w => stalls < MaxLosses
  /\ \/ pc[w] # "idle" \/ w \in emitted
     \/ event[w] # NoRecord \/ beat[w] # NoRecord
  /\ pc' = [pc EXCEPT ![w] = "idle"]
  /\ cache' = [cache EXCEPT ![w] = NoRecord]
  /\ main' = [main EXCEPT ![w] = NoRecord]
  /\ beat' = [beat EXCEPT ![w] = NoRecord]
  /\ event' = [event EXCEPT ![w] = NoRecord]
  /\ emitted' = emitted \ {w}
  /\ causes' = IF w \in emitted \/ event[w] # NoRecord
               THEN causes \cup {"lost"} ELSE causes
  /\ Forgets(w)
  /\ UNCHANGED <<row, apiCache, queueVars, clientVars, creates, changes>>

\* The lock of an active job expires (its worker died or lost Redis): the
\* stalled check of some worker moves the job back, or fails it and emits
\* 'failed' once it has stalled too often.
Stall(w) ==
  /\ queue = "active" /\ holder' = None
  /\ stalls < MaxLosses /\ stalls' = stalls + 1
  /\ \/ stalls < MaxStalls /\ queue' = "waiting" /\ UNCHANGED <<emitted, causes>>
     \/ stalls >= MaxStalls /\ queue' = "failed"
        /\ emitted' = emitted \cup {w} /\ causes' = causes \cup {"threw"}
  /\ UNCHANGED <<rowVars, made, pc, reason, outcome, main, beat, event,
                 clientVars, boundVars>>

\* JOB_STALE_HEARTBEAT_MS pass without a heart-beat: none is in flight and no
\* attempt's timers run.  Every copy of the record ages alike.
BeatExpires ==
  /\ row # NoRecord /\ row.beat = "fresh"
  /\ \A w \in Workers : /\ pc[w] \notin TimersOn
                         /\ main[w] = NoRecord /\ beat[w] = NoRecord
                         /\ event[w] = NoRecord
  /\ \A c \in Clients : req[c] = NoRecord
  /\ row' = Aged(row) /\ apiCache' = Aged(apiCache)
  /\ cache' = [w \in Workers |-> Aged(cache[w])]
  /\ causes' = causes \cup {"expired"}
  /\ UNCHANGED <<queueVars, workerVars, clientVars, boundVars>>

Attempt(w) ==
  \/ Fetch(w) \/ FetchCreates(w) \/ FetchCreatesCommit(w)
  \/ PreCancel(w) \/ PreCancelCommit(w) \/ Start(w) \/ StartCommit(w)
  \/ SyncBeat(w) \/ SyncCommit(w) \/ Final(w) \/ FinalCommit(w)
  \/ ProgressFails(w) \/ Completes(w) \/ Fails(w)
Timers(w) == TimeoutFires(w) \/ WatchAborts(w) \/ BeatRead(w) \/ BeatCommit(w)
Listener(w) == EventRead(w) \/ EventCommit(w)
Engine(w) == EngineReturns(w) \/ EngineThrows(w)

Next ==
  \/ \E c \in Clients : ClientRequest(c) \/ ClientStep(c)
  \/ \E w \in Workers : \/ Take(w) \/ Attempt(w) \/ Timers(w) \/ Listener(w)
                         \/ Engine(w) \/ Crash(w) \/ Stall(w)
  \/ BeatExpires

Spec == Init /\ [][Next]_vars

\* Every request and every step of a worker is eventually carried on, a
\* waiting job is taken, clients keep polling, and a set timeout fires and
\* kills the engine.  Nothing is assumed of an engine that is not aborted, of
\* heart-beats, crashes, or a client's decision to create, cancel or delete.
Fairness ==
  /\ \A c \in Clients : WF_vars(ClientStep(c))
  /\ WF_vars(\E c \in Clients : Poll(c))
  /\ WF_vars(\E w \in Workers : Take(w))
  /\ \A w \in Workers : /\ WF_vars(Attempt(w)) /\ WF_vars(Listener(w))
                        /\ WF_vars(BeatCommit(w)) /\ WF_vars(TimeoutFires(w))
                        /\ WF_vars(reason[w] # "none" /\ EngineThrows(w))
  /\ WF_vars(holder # None /\ pc[holder] = "idle" /\ \E w \in Workers : Stall(w))
  /\ WF_vars(BeatExpires)

FairSpec == Spec /\ Fairness

-----------------------------------------------------------------------------
(* Properties *)

\* What must have happened before a status can be seen.
StatusExplained(s, past) ==
  /\ s = "completed" => "returned" \in past
  /\ s = "cancelled" => "asked" \in past
  /\ s = "failed"    => "threw" \in past \/ "unqueued" \in past
  /\ s = "timed_out" => "fired" \in past \/ "expired" \in past \/ "asked" \in past

\* StatusHasCause: a completed row needs an engine that returned a result, a
\* cancelled one somebody who asked, a failed one a failure, and a timed-out
\* one a timeout or an expired heart-beat.  Only where somebody tried to cancel
\* or delete the job can a running row be judged stale that has no heart-beat.
StatusHasCause == row # NoRecord => StatusExplained(row.status, causes)

\* The inductive form: it holds of every copy and every write in flight.
Explained(r, past) ==
  r # NoRecord =>
    /\ StatusExplained(r.status, past)
    /\ r.cancel => "asked" \in past
    /\ r.beat = "stale" => "expired" \in past
    /\ r.beat = "none" /\ r.status # "queued" => "asked" \in past

WorkerExplained(w) ==
  /\ Explained(cache[w], causes) /\ Explained(main[w], causes)
  /\ Explained(beat[w], causes) /\ Explained(event[w], causes)
  /\ pc[w] = "preCancel" => "asked" \in causes
  /\ pc[w] \in {"syncBeat", "syncCommit", "final"} => outcome[w] # "none"
  /\ reason[w] = "cancelled" => "asked" \in causes
  /\ reason[w] = "timeout" => "fired" \in causes
  /\ outcome[w] = "ok" => "returned" \in causes
  /\ outcome[w] \in {"failed", "threw"} => "threw" \in causes
  /\ pc[w] = "fail" \/ w \in emitted => "threw" \in causes

ClientExplained(c) ==
  /\ Explained(req[c], causes) /\ StatusExplained(seen[c], causes)
  /\ cpc[c] \in {"dequeue", "cancel", "ask", "askUpdate"} => "asked" \in causes
  /\ cpc[c] = "expire" => "asked" \in causes \/ "expired" \in causes
  /\ cpc[c] = "addFailed" => "unqueued" \in causes

\* CauseInv: the strengthening of StatusHasCause that every step preserves.
CauseInv ==
  /\ Explained(row, causes) /\ Explained(apiCache, causes)
  /\ \A w \in Workers : WorkerExplained(w)
  /\ \A c \in Clients : ClientExplained(c)

\* Attempts that go on although the BullMQ job's lock is not theirs.
Orphans == {w \in Workers : pc[w] # "idle" /\ holder # w}

\* LockInv: the strengthening of OneEngine: every orphan lost its lock to the
\* stalled check, and only an active job has a lock.
LockInv ==
  /\ Cardinality(Orphans) <= stalls
  /\ queue # "active" => holder = None

\* OneEngine: two engines run for one job only while a worker carries on
\* after it lost the job's lock; there are never more of them than that.
OneEngine == Cardinality(Executing) <= 1 + stalls

\* EarlyCancelHolds: when the API has answered that the job is cancelled
\* before any worker looked at its record, no engine is ever started for it,
\* and no write that was in flight, retry or lost lock takes the cancellation
\* back: its row says cancelled, or failed once an attempt failed without an
\* engine.  It holds until a POST whose enqueueing failed writes its failure
\* over the row, or a DELETE takes the row away.
EarlyCancelHolds ==
  "early" \in causes /\ causes \cap {"unqueued", "removed"} = {} =>
    /\ Executing = {} /\ row.cancel
    /\ row.status = "cancelled" \/ (row.status = "failed" /\ "threw" \in causes)

\* Settles: a job never stays queued or running.  The exception is a row that is
\* queued although BullMQ has ended the job, which no poll corrects: a second POST
\* wrote its row over that of a job BullMQ had, or a worker died with a 'failed'
\* event it had not recorded.
Settles ==
  row.status \in Active ~>
    \/ row.status \notin Active
    \/ /\ row.status = "queued" /\ queue \in {"completed", "failed"}
       /\ causes \cap {"reposted", "lost"} # {}
=============================================================================
