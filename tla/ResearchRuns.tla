---------------------------- MODULE ResearchRuns ----------------------------
(***************************************************************************)
(* The four places that know a research run, and who moves it between them *)
(* (queue mode): the job record, the BullMQ job, the SQLite journal the    *)
(* engine writes, and Postgres, to which a worker copies the journal when  *)
(* the engine has returned (SqliteJournalSyncService.syncRun).  The API    *)
(* reads a run and reconciles it with its job, deletes a run with all      *)
(* later ones, or empties the workspace; each of these awaits one store    *)
(* after the other.                                                        *)
(*                                                                         *)
(* One workspace and one symbol.  The races inside one job record are in   *)
(* BullJobs: here an update of it is one step.  A signal is known by the   *)
(* run whose engine saved it.                                              *)
(***************************************************************************)
EXTENDS Naturals

CONSTANTS
  Runs,         \* run ids, each posted at most once
  Workers,      \* worker processes
  Clients,      \* requests the API serves at the same time
  MaxAttempts,  \* JOB_MAX_ATTEMPTS
  MaxFaults,    \* bound: engines that die, copies that fail, workers that
                \* crash, locks that are lost
  MaxRequests   \* bound: DELETE requests

None == "none"

ASSUME RunsAssumption ==
  /\ None \notin Runs /\ None \notin Workers
  /\ MaxAttempts \in Nat \ {0}
  /\ MaxFaults \in Nat /\ MaxRequests \in Nat

VARIABLES
  job,       \* status of the run's row in research_jobs
  queue,     \* state of its BullMQ job
  owner,     \* the worker that holds that job's lock
  made,      \* attemptsMade
  lite,      \* status of the run's row in SQLite
  liteSig,   \* runs whose signals are in SQLite
  earlier,   \* <<r, s>>: the started_at of r is before that of s
  pg,        \* status of the run's row in Postgres
  snap,      \* runs whose signal snapshot is in Postgres
  pgSig,     \* runs whose signals are in Postgres
  wpc, wrun, result, export,     \* per worker: step, run, engine's status,
                                 \* what the export process printed
  cpc, kind, target, todo,       \* per request: step, kind, run, runs whose
                                 \* jobs are still to be removed
  faults, requests,              \* used up parts of the bounds
  posted, gone, loose, shaken, unsynced, unlocked  \* history, see below

stores     == <<lite, liteSig, earlier, pg, snap, pgSig>>
jobVars    == <<job, queue, owner, made>>
workerVars == <<wpc, wrun, result, export>>
clientVars == <<cpc, kind, target, todo>>
boundVars  == <<faults, requests>>
histVars   == <<posted, gone, loose, shaken, unsynced, unlocked>>
vars == <<stores, jobVars, workerVars, clientVars, boundVars, histVars>>

NoExport == [row |-> None, sigs |-> {}]
Resetting == {c \in Clients : kind[c] \in {"reset", "rest"}}
Busy(r) == \E w \in Workers : wpc[w] # "idle" /\ wrun[w] = r
AtWork(r) == queue[r] = "active" \/ Busy(r)

TypeOK ==
  /\ job \in [Runs -> {None, "queued", "running", "completed", "failed"}]
  /\ queue \in [Runs -> {None, "waiting", "active", "completed", "failed"}]
  /\ owner \in [Runs -> Workers \cup {None}]
  /\ made \in [Runs -> Nat]
  /\ lite \in [Runs -> {None, "running", "completed", "failed"}]
  /\ liteSig \subseteq Runs /\ snap \subseteq Runs /\ pgSig \subseteq Runs
  /\ earlier \subseteq Runs \X Runs
  /\ pg \in [Runs -> {None, "running", "completed", "failed"}]
  /\ wpc \in [Workers -> {"idle", "engine", "saved", "export", "commit",
                          "finish"}]
  /\ wrun \in [Workers -> Runs \cup {None}]
  /\ result \in [Workers -> {None, "completed", "failed"}]
  /\ export \in [Workers -> [row : {None, "running", "completed", "failed"},
                             sigs : SUBSET Runs]]
  /\ cpc \in [Clients -> {"idle", "status", "expire", "write", "mark", "cascade",
                          "jobs", "drop", "list", "signals", "rest", "sqlite"}]
  /\ kind \in [Clients -> {None, "get", "look", "remove", "reset", "rest"}]
  /\ target \in [Clients -> Runs \cup {None}]
  /\ todo \in [Clients -> SUBSET Runs]
  /\ faults \in Nat /\ requests \in Nat /\ unlocked \in BOOLEAN
  /\ posted \subseteq Runs /\ gone \subseteq Runs /\ loose \subseteq Runs
  /\ unsynced \subseteq Runs /\ shaken \subseteq Clients

Init ==
  /\ job = [r \in Runs |-> None] /\ queue = [r \in Runs |-> None]
  /\ owner = [r \in Runs |-> None] /\ made = [r \in Runs |-> 0]
  /\ lite = [r \in Runs |-> None] /\ liteSig = {} /\ earlier = {}
  /\ pg = [r \in Runs |-> None] /\ snap = {} /\ pgSig = {}
  /\ wpc = [w \in Workers |-> "idle"] /\ wrun = [w \in Workers |-> None]
  /\ result = [w \in Workers |-> None]
  /\ export = [w \in Workers |-> NoExport]
  /\ cpc = [c \in Clients |-> "idle"] /\ kind = [c \in Clients |-> None]
  /\ target = [c \in Clients |-> None] /\ todo = [c \in Clients |-> {}]
  /\ faults = 0 /\ requests = 0 /\ unlocked = FALSE
  /\ posted = {} /\ gone = {} /\ loose = {} /\ shaken = {} /\ unsynced = {}

-----------------------------------------------------------------------------
(* Jobs: BullMQ, the processor and the engine *)

\* POST /research-runs: the job record, then queue.add.
Post(r) ==
  /\ r \notin posted
  /\ posted' = posted \cup {r}
  /\ job' = [job EXCEPT ![r] = "queued"]
  /\ queue' = [queue EXCEPT ![r] = "waiting"]
  /\ shaken' = shaken \cup Resetting
  /\ UNCHANGED <<owner, made, stores, workerVars, clientVars, boundVars, gone,
                 loose, unsynced, unlocked>>

\* save_research_run: started_at is kept when the row exists.
LiteSave(r, status) ==
  /\ lite' = [lite EXCEPT ![r] = status]
  /\ UNCHANGED <<pg, snap, pgSig>>

\* A worker takes the waiting job; process() finds or creates the record and
\* marks it running, and the engine it spawns begins with its run's row
\* (EngineRunner._start_run).
Take(w, r) ==
  /\ wpc[w] = "idle" /\ queue[r] = "waiting"
  /\ queue' = [queue EXCEPT ![r] = "active"]
  /\ owner' = [owner EXCEPT ![r] = w]
  /\ job' = [job EXCEPT ![r] = "running"]
  /\ wpc' = [wpc EXCEPT ![w] = "engine"] /\ wrun' = [wrun EXCEPT ![w] = r]
  /\ LiteSave(r, "running")
  /\ earlier' = IF lite[r] # None THEN earlier
                ELSE {p \in earlier : r \notin {p[1], p[2]}}
                     \cup ((Runs \ {r}) \X {r})
  /\ shaken' = shaken \cup Resetting
  /\ loose' = IF \E c \in Clients : r \in todo[c] THEN loose \cup {r} ELSE loose
  /\ UNCHANGED <<made, liteSig, result, export, clientVars, boundVars, posted,
                 gone, unsynced, unlocked>>

Fault == faults < MaxFaults /\ faults' = faults + 1 /\ UNCHANGED requests

Goto(w, from, to) == wpc[w] = from /\ wpc' = [wpc EXCEPT ![w] = to]

\* save_quant_signal_bundle: signals, snapshot and run in one transaction.
EngineSavesSignals(w) ==
  /\ Goto(w, "engine", "saved")
  /\ LiteSave(wrun[w], "running")
  /\ liteSig' = liteSig \cup {wrun[w]}
  /\ UNCHANGED <<earlier, jobVars, wrun, result, export, clientVars, boundVars,
                 histVars>>

\* Mutant of EngineReturns: the status is printed before it is saved.
EngineReturnsUnsaved(w, status) ==
  /\ \/ Goto(w, "saved", "export") \/ Goto(w, "engine", "export")
  /\ result' = [result EXCEPT ![w] = status]
  /\ UNCHANGED <<stores, jobVars, wrun, export, clientVars, boundVars, histVars>>

\* The engine writes its final status and prints it; a status of failed is a
\* result like any other.
EngineReturns(w, status) ==
  /\ \/ Goto(w, "saved", "export")
     \/ Goto(w, "engine", "export")   \* a dry run, or an exception before signals
  /\ LiteSave(wrun[w], status)
  /\ result' = [result EXCEPT ![w] = status]
  /\ UNCHANGED <<liteSig, earlier, jobVars, wrun, export, clientVars,
                 boundVars, histVars>>

\* A worker writes the record back even when it was deleted: its private copy
\* answers get() (JobLifecycleService.records).
Frees(w) ==
  /\ wpc' = [wpc EXCEPT ![w] = "idle"] /\ wrun' = [wrun EXCEPT ![w] = None]
  /\ result' = [result EXCEPT ![w] = None]
  /\ export' = [export EXCEPT ![w] = NoExport]

\* The engine is killed or exits without a result: nothing is copied, the job
\* is failed (or cancelled, or timed out) and BullMQ retries it.
EngineDies(w) ==
  LET r == wrun[w] IN
  /\ wpc[w] \in {"engine", "saved"}
  /\ job' = [job EXCEPT ![r] = "failed"]
  /\ IF owner[r] = w
     THEN /\ made' = [made EXCEPT ![r] = @ + 1]
          /\ queue' = [queue EXCEPT ![r] = IF made[r] + 1 < MaxAttempts
                                           THEN "waiting" ELSE "failed"]
          /\ owner' = [owner EXCEPT ![r] = None]
     ELSE UNCHANGED <<made, queue, owner>>
  /\ Frees(w)
  /\ Fault
  /\ UNCHANGED <<stores, clientVars, histVars>>

\* lifecycle.heartbeat, by the timer or between engine and copy.
Revived(r) == IF job[r] = None THEN "running" ELSE job[r]

TimerBeats(w) ==
  /\ wpc[w] # "idle" /\ job[wrun[w]] = None
  /\ job' = [job EXCEPT ![wrun[w]] = Revived(wrun[w])]
  /\ UNCHANGED <<queue, owner, made, stores, workerVars, clientVars, boundVars,
                 histVars>>

\* The heart-beat before the copy, then exportRun: a child process prints the
\* run's row, with everything that belongs to it, and the signals of the whole
\* workspace and symbol.
Export(w) ==
  LET r == wrun[w] IN
  /\ Goto(w, "export", "commit")
  /\ lite[r] # None
  /\ job' = [job EXCEPT ![r] = Revived(r)]
  /\ export' = [export EXCEPT ![w] = [row |-> lite[r], sigs |-> liteSig]]
  /\ UNCHANGED <<queue, owner, made, stores, wrun, result, clientVars,
                 boundVars, histVars>>

\* shouldPublishSignals, of the status the engine printed.
Publishes(w) == result[w] = "completed"

\* syncRun's transaction: every exported row is upserted; rowsForSync leaves
\* signals and their snapshot out unless they are published.
SyncCommits(w) ==
  LET r == wrun[w] IN
  /\ Goto(w, "commit", "finish")
  /\ pg' = [pg EXCEPT ![r] = export[w].row]
  /\ IF Publishes(w)
     THEN /\ pgSig' = pgSig \cup export[w].sigs
          /\ snap' = snap \cup ({r} \cap export[w].sigs)
     ELSE UNCHANGED <<pgSig, snap>>
  /\ UNCHANGED <<lite, liteSig, earlier, jobVars, wrun, result, export,
                 clientVars, boundVars, histVars>>

\* The export fails, the run is not in SQLite, or the transaction is rolled
\* back: a warning, and the job goes on.
SyncFails(w) ==
  LET r == wrun[w] IN
  /\ \/ /\ Goto(w, "export", "finish")
        /\ job' = [job EXCEPT ![r] = Revived(r)]
     \/ Goto(w, "commit", "finish") /\ UNCHANGED job
  /\ IF lite[r] = None THEN UNCHANGED boundVars ELSE Fault
  /\ unsynced' = unsynced \cup {r}
  /\ UNCHANGED <<stores, queue, owner, made, wrun, result, export, clientVars,
                 posted, gone, loose, shaken, unlocked>>

\* markCompleted, or markFailed for a result that says failed; process()
\* returns, so BullMQ does not retry.
Finishes(w) ==
  LET r == wrun[w] IN
  /\ wpc[w] = "finish"
  /\ job' = [job EXCEPT ![r] = result[w]]
  /\ IF owner[r] = w
     THEN /\ queue' = [queue EXCEPT ![r] = "completed"]
          /\ owner' = [owner EXCEPT ![r] = None]
     ELSE UNCHANGED <<queue, owner>>
  /\ Frees(w)
  /\ UNCHANGED <<made, stores, clientVars, boundVars, histVars>>

\* The worker process dies; its engine too.
Crash(w) ==
  /\ wpc[w] # "idle"
  /\ Fault
  /\ Frees(w)
  /\ unlocked' = TRUE
  /\ UNCHANGED <<stores, jobVars, clientVars, posted, gone, loose, shaken,
                 unsynced>>

\* The lock of an active job expires, by a crash (which was counted) or of a
\* live worker.
LosesLock(r) ==
  /\ queue[r] = "active"
  /\ IF owner[r] # None /\ wrun[owner[r]] = r THEN Fault ELSE UNCHANGED boundVars
  /\ owner' = [owner EXCEPT ![r] = None]
  /\ unlocked' = TRUE

\* BullMQ finds an active job without its lock.
Stall(r) ==
  /\ LosesLock(r)
  /\ queue' = [queue EXCEPT ![r] = "waiting"]
  /\ UNCHANGED <<job, made, stores, workerVars, clientVars, posted, gone, loose,
                 shaken, unsynced>>

Work(w) ==
  \/ EngineSavesSignals(w)
  \/ \E s \in {"completed", "failed"} : EngineReturns(w, s)
  \/ EngineDies(w) \/ Export(w) \/ SyncCommits(w)
  \/ SyncFails(w) \/ Finishes(w)

-----------------------------------------------------------------------------
(* Requests *)

Step(c, from, to) == cpc[c] = from /\ cpc' = [cpc EXCEPT ![c] = to]

Replies(c) ==
  /\ cpc' = [cpc EXCEPT ![c] = "idle"] /\ kind' = [kind EXCEPT ![c] = None]
  /\ target' = [target EXCEPT ![c] = None]
  /\ todo' = [todo EXCEPT ![c] = {}]

\* GET of a run, or of the list: reconcileRunLifecycle asks for the job of an
\* active run; other runs are returned as they are.
Get(c, r) ==
  /\ pg[r] = "running"
  /\ Step(c, "idle", "status")
  /\ kind' = [kind EXCEPT ![c] = "get"] /\ target' = [target EXCEPT ![c] = r]
  /\ UNCHANGED <<stores, jobVars, workerVars, todo, boundVars, histVars>>

\* A running record whose heart-beat is stale: nobody works on it.
Stale(r) == job[r] = "running" /\ ~Busy(r)

\* jobs.getJobStatus: the record, to be expired when its heart-beat is stale, or
\* the BullMQ job; not found when there is neither.
Status(c) ==
  LET r == target[c]
      lost == \/ job[r] = "failed"
              \/ job[r] = None /\ queue[r] \in {None, "failed"}
  IN /\ cpc[c] = "status"
     /\ \/ /\ lost /\ Step(c, "status", "mark")
           /\ UNCHANGED <<kind, target, todo>>
        \/ /\ Stale(r) /\ Step(c, "status", "expire")
           /\ UNCHANGED <<kind, target, todo>>
        \/ ~lost /\ ~Stale(r) /\ Replies(c)
     /\ UNCHANGED <<jobVars, stores, workerVars, boundVars, histVars>>

\* The list of runs, and GET /jobs/:id, expire stale records as well, also of a
\* run that Postgres does not show.
Look(c, r) ==
  /\ Stale(r)
  /\ Step(c, "idle", "expire")
  /\ kind' = [kind EXCEPT ![c] = "look"] /\ target' = [target EXCEPT ![c] = r]
  /\ UNCHANGED <<stores, jobVars, workerVars, todo, boundVars, histVars>>

\* markTimedOut: update() reads the record again, if it is still there ...
Expire(c) ==
  /\ cpc[c] = "expire"
  /\ IF job[target[c]] = None THEN Replies(c)
     ELSE Step(c, "expire", "write") /\ UNCHANGED <<kind, target, todo>>
  /\ UNCHANGED <<jobVars, stores, workerVars, boundVars, histVars>>

\* ... and upserts it, whatever became of it; a run in Postgres is marked next.
Expires(c) ==
  LET r == target[c] IN
  /\ cpc[c] = "write"
  /\ job' = [job EXCEPT ![r] = "failed"]
  /\ shaken' = IF job[r] = None THEN shaken \cup Resetting ELSE shaken
  /\ IF kind[c] = "get" THEN Step(c, "write", "mark") /\ UNCHANGED <<kind, target, todo>>
     ELSE Replies(c)
  /\ UNCHANGED <<queue, owner, made, stores, workerVars, boundVars, posted, gone,
                 loose, unsynced, unlocked>>

\* Mutant of Mark: the UPDATE does not ask for an active status.
MarkAny(c) ==
  /\ cpc[c] = "mark"
  /\ pg' = [pg EXCEPT ![target[c]] = IF @ = None THEN None ELSE "failed"]
  /\ Replies(c)
  /\ UNCHANGED <<lite, liteSig, earlier, snap, pgSig, jobVars, workerVars,
                 boundVars, histVars>>

\* markResearchRunFailed: UPDATE ... WHERE status is active.
Mark(c) ==
  /\ cpc[c] = "mark"
  /\ pg' = [pg EXCEPT ![target[c]] = IF @ = "running" THEN "failed" ELSE @]
  /\ Replies(c)
  /\ UNCHANGED <<lite, liteSig, earlier, snap, pgSig, jobVars, workerVars,
                 boundVars, histVars>>

\* DELETE of a run: it must be in Postgres.
Remove(c, r) ==
  /\ requests < MaxRequests /\ pg[r] # None
  /\ requests' = requests + 1
  /\ Step(c, "idle", "cascade")
  /\ kind' = [kind EXCEPT ![c] = "remove"]
  /\ target' = [target EXCEPT ![c] = r]
  /\ UNCHANGED <<stores, jobVars, workerVars, todo, faults, histVars>>

\* DELETE of all runs of the workspace.
Reset(c) ==
  /\ requests < MaxRequests
  /\ requests' = requests + 1
  /\ Step(c, "idle", "list")
  /\ kind' = [kind EXCEPT ![c] = "reset"]
  /\ shaken' = IF \E w \in Workers : wpc[w] # "idle"
               THEN shaken \cup {c} ELSE shaken \ {c}
  /\ UNCHANGED <<stores, jobVars, workerVars, target, todo, faults,
                 posted, gone, loose, unsynced, unlocked>>

Shown == {r \in Runs : pg[r] # None}
Oldest == {r \in Shown : \A s \in Shown : <<s, r>> \notin earlier}

\* The loop of removeWorkspaceData: the oldest run that is left.
List(c) ==
  /\ cpc[c] = "list"
  /\ IF Shown = {} THEN Step(c, "list", "signals") /\ UNCHANGED target
     ELSE /\ Step(c, "list", "cascade")
          /\ \E r \in Oldest : target' = [target EXCEPT ![c] = r]
  /\ UNCHANGED <<stores, jobVars, workerVars, kind, todo, boundVars, histVars>>

Later(r) == {s \in Shown : <<s, r>> \notin earlier}

\* Mutant of Doomed: jobs are removed for the run of the request only.
DoomedAlone(r) == {r}
Doomed(r) == Later(r)

\* removeResearchRunCascade, one transaction: the run, every later one and
\* what belongs to them, signals by way of their snapshots; not found when
\* another request has deleted the run.
Cascade(c) ==
  /\ cpc[c] = "cascade"
  /\ IF pg[target[c]] = None
     THEN Replies(c) /\ UNCHANGED <<pg, snap, pgSig, gone, loose>>
     ELSE LET dead == Later(target[c]) IN
          /\ pg' = [r \in Runs |-> IF r \in dead THEN None ELSE pg[r]]
          /\ snap' = snap \ dead
          /\ pgSig' = pgSig \ (snap \cap dead)
          /\ todo' = [todo EXCEPT ![c] = Doomed(target[c])]
          /\ gone' = gone \cup dead
          /\ loose' = loose \cup {r \in dead : AtWork(r)}
          /\ Step(c, "cascade", "jobs")
          /\ target' = [target EXCEPT ![c] = None] /\ UNCHANGED kind
  /\ UNCHANGED <<lite, liteSig, earlier, jobVars, workerVars, boundVars,
                 posted, shaken, unsynced, unlocked>>

\* removeResearchRunJobs, one run: remove the BullMQ job, which throws while it
\* is active and locked (then a cancellation is requested of a record that is
\* deleted next) ...
Dequeue(c, r) ==
  /\ cpc[c] = "jobs" /\ r \in todo[c] /\ job[r] # None
  /\ target' = [target EXCEPT ![c] = r]
  /\ \/ queue[r] = "active" /\ UNCHANGED <<queue, owner, boundVars, unlocked>>
     \/ /\ IF queue[r] = "active" THEN LosesLock(r)
           ELSE UNCHANGED <<owner, boundVars, unlocked>>
        /\ queue' = [queue EXCEPT ![r] = None]
  /\ loose' = IF AtWork(r) THEN loose \cup {r} ELSE loose
  /\ cpc' = [cpc EXCEPT ![c] = "drop"]
  /\ UNCHANGED <<job, made, stores, workerVars, kind, todo, posted, gone, shaken,
                 unsynced>>

\* After one run: the next, or what the request does when none is left.
Onward(c, left) ==
  /\ todo' = [todo EXCEPT ![c] = left]
  /\ IF left = {} /\ kind[c] = "remove"
     THEN /\ cpc' = [cpc EXCEPT ![c] = "idle"]
          /\ kind' = [kind EXCEPT ![c] = None]
     ELSE /\ cpc' = [cpc EXCEPT ![c] =
                       IF left # {} THEN "jobs"
                       ELSE IF kind[c] = "reset" THEN "list" ELSE "rest"]
          /\ UNCHANGED kind
  /\ target' = [target EXCEPT ![c] = None]

\* ... then delete the record.
Drop(c) ==
  LET r == target[c] IN
  /\ cpc[c] = "drop"
  /\ job' = [job EXCEPT ![r] = None]
  /\ Onward(c, todo[c] \ {r})
  /\ UNCHANGED <<queue, owner, made, stores, workerVars, boundVars, histVars>>

\* A run without a record is passed over.
Skip(c, r) ==
  /\ cpc[c] = "jobs" /\ r \in todo[c] /\ job[r] = None
  /\ Onward(c, todo[c] \ {r})
  /\ UNCHANGED <<stores, jobVars, workerVars, boundVars, histVars>>

\* removeWorkspaceSignals.
Signals(c) ==
  /\ Step(c, "signals", "rest")
  /\ kind' = [kind EXCEPT ![c] = "rest"]
  /\ pgSig' = {}
  /\ UNCHANGED <<lite, liteSig, earlier, pg, snap, jobVars, workerVars, target,
                 todo, boundVars, histVars>>

\* Mutant of Rest: the jobs without a run in Postgres are left.
RestNothing(c) ==
  /\ Step(c, "rest", "sqlite")
  /\ UNCHANGED <<todo, stores, jobVars, workerVars, kind, target, boundVars,
                 histVars>>

\* Mutant of Rest: the loop asks BullMQ instead of the records.
RestByQueue(c) ==
  LET left == {r \in Runs : queue[r] # None} IN
  /\ Step(c, "rest", IF left = {} THEN "sqlite" ELSE "jobs")
  /\ todo' = [todo EXCEPT ![c] = left]
  /\ UNCHANGED <<stores, jobVars, workerVars, kind, target, boundVars,
                 histVars>>

\* The loop of removeRemainingWorkspaceJobs: whatever records are left; the list
\* of them expires the stale ones.
Rest(c) ==
  LET left == {r \in Runs : job[r] # None} IN
  /\ Step(c, "rest", IF left = {} THEN "sqlite" ELSE "jobs")
  /\ todo' = [todo EXCEPT ![c] = left]
  /\ job' = [r \in Runs |-> IF Stale(r) THEN "failed" ELSE job[r]]
  /\ UNCHANGED <<queue, owner, made, stores, workerVars, kind, target, boundVars,
                 histVars>>

\* sqliteSync.removeWorkspaceRunData: runs, signals and all that hangs on them.
Wipe(c) ==
  /\ cpc[c] = "sqlite"
  /\ lite' = [r \in Runs |-> None] /\ liteSig' = {}
  /\ Replies(c)
  /\ shaken' = shaken \ {c}
  /\ UNCHANGED <<earlier, pg, snap, pgSig, jobVars, workerVars, boundVars,
                 posted, gone, loose, unsynced, unlocked>>

Serve(c) ==
  \/ Status(c) \/ Expire(c) \/ Expires(c) \/ Mark(c) \/ List(c) \/ Cascade(c)
  \/ Drop(c) \/ Signals(c) \/ Rest(c) \/ Wipe(c)
  \/ \E r \in Runs : Dequeue(c, r) \/ Skip(c, r)

Next ==
  \/ \E r \in Runs : Post(r) \/ Stall(r)
  \/ \E w \in Workers : Work(w) \/ TimerBeats(w) \/ Crash(w)
  \/ \E w \in Workers, r \in Runs : Take(w, r)
  \/ \E c \in Clients, r \in Runs : Get(c, r) \/ Look(c, r) \/ Remove(c, r)
  \/ \E c \in Clients : Reset(c) \/ Serve(c)

Spec == Init /\ [][Next]_vars

\* An await that was begun is carried on; an engine ends (JOB_TIMEOUT_MS).
FairSpec == /\ Spec
            /\ \A w \in Workers : WF_vars(Work(w))
            /\ \A c \in Clients : WF_vars(Serve(c))

-----------------------------------------------------------------------------
(* Properties.  History: posted, the runs that were posted; gone, the runs   *)
(* a request deleted from Postgres; loose, those some attempt worked on from *)
(* then until their job was removed; shaken, the resets during which a run   *)
(* was posted, taken or at work, or a deleted record written back; unsynced, *)
(* runs a copy of which failed; unlocked, whether a lock was ever lost.      *)

\* A reset that nobody disturbs leaves no run, record, signal or snapshot in
\* Postgres and SQLite, and in BullMQ no job but those that were active or at
\* work when their run or record was deleted, by this request or an earlier one:
\* remove() refuses an active job, and one that has no record is passed over
\* (ResearchRunsService.removeWorkspaceData, JobsService.removeResearchRunJobs).
ResetEmptiesStores ==
  [][\A c \in Clients :
       cpc[c] = "sqlite" /\ cpc'[c] = "idle" /\ c \notin shaken =>
         /\ \A r \in Runs : /\ pg'[r] = None /\ job'[r] = None /\ lite'[r] = None
                            /\ queue'[r] # None => r \in loose
         /\ snap' = {} /\ pgSig' = {} /\ liteSig' = {}]_vars

\* A run that was deleted, by its own request or with an earlier run, comes
\* back into Postgres only by an attempt that was at work while the request
\* was: neither a waiting retry nor a reconciliation brings it back.
DeletedStaysDeleted == \A r \in gone \ loose : pg[r] = None

\* What a run shows in Postgres once it has ended is changed by a copy of the
\* journal or its deletion alone, however late a reconciliation is that found
\* it running.
EndedStaysEnded ==
  [][\A r \in Runs :
       pg[r] \in {"completed", "failed"} /\ pg'[r] \notin {pg[r], None} =>
         \E w \in Workers : wpc[w] = "commit" /\ wrun[w] = r
                            /\ pg'[r] = export[w].row]_vars

\* Without lost locks, a completed job has its run in Postgres, completed,
\* unless the copy failed or the run was deleted; and a job whose last attempt
\* failed never shows a completed run.
JobAndRunAgree ==
  ~unlocked =>
    \A r \in Runs \ gone :
      /\ job[r] = "completed" /\ r \notin unsynced => pg[r] = "completed"
      /\ job[r] = "failed" => pg[r] \in {None, "failed"}

\* A reset comes to an end, though heart-beats bring records back while it
\* removes them.
ResetEnds ==
  \A c \in Clients : kind[c] \in {"reset", "rest"} ~> kind[c] = None
=============================================================================
