----------------------------- MODULE MemoryJobs -----------------------------
(***************************************************************************)
(* Research jobs in memory mode (JOBS_EXECUTION_MODE=memory) without a     *)
(* database: one API process keeps the records, the waiting requests       *)
(* (JobsService.memoryJobs) and runs the engines itself, one at a time.    *)
(*                                                                         *)
(* JavaScript runs a callback, and the awaits of promises that are already *)
(* resolved, before the next timer or I/O event.  Without a database every *)
(* call of JobLifecycleService is such a promise, so that a request, a     *)
(* timer or an iteration of the loop in processMemoryJobs is one action.   *)
(* A POST is two: it awaits the market-data guard between looking for an   *)
(* existing job and enqueueing.  Several runs share the queue.             *)
(***************************************************************************)
EXTENDS JobRecord, Sequences

CONSTANTS
  Runs,        \* run ids, chosen by the clients
  MaxPosts,    \* bound: POST /research-runs requests for a run id
  Deletes,     \* DELETE /research-runs requests are made
  HasTimeout,  \* JOB_TIMEOUT_MS is set
  SlowBeats    \* JOB_HEARTBEAT_MS exceeds JOB_STALE_HEARTBEAT_MS

None == "none"

ASSUME MemoryAssumption ==
  /\ None \notin Runs
  /\ MaxPosts \in Nat
  /\ Deletes \in BOOLEAN /\ HasTimeout \in BOOLEAN /\ SlowBeats \in BOOLEAN

VARIABLES
  rec,         \* JobLifecycleService.records
  line,        \* memoryJobs
  processing,  \* memoryProcessing: the loop of processMemoryJobs runs
  wakeups,     \* setTimeout(processMemoryJobs, 0) callbacks not yet run
  current,     \* the run whose engine runs
  reason,      \* abortReason of its attempt
  posting,     \* POST requests awaiting the market-data guard, per run
  posts,       \* POST requests that found no job so far, per run
  destroyed    \* onModuleDestroy was called

jobVars  == <<rec, line>>
loopVars == <<processing, wakeups, current, reason>>
postVars == <<posting, posts>>
vars == <<jobVars, loopVars, postVars, destroyed>>

Contract == INSTANCE JobContract
  WITH status <- [r \in Runs |-> rec[r].status], closed <- destroyed

TypeOK ==
  /\ rec \in [Runs -> Record \cup {NoRecord}]
  /\ line \in Seq(Runs)
  /\ processing \in BOOLEAN
  /\ wakeups \in Nat
  /\ current \in Runs \cup {None}
  /\ reason \in {"none", "timeout", "cancelled"}
  /\ posting \in [Runs -> Nat] /\ posts \in [Runs -> Nat]
  /\ destroyed \in BOOLEAN

Init ==
  /\ rec = [r \in Runs |-> NoRecord]
  /\ line = <<>>
  /\ processing = FALSE /\ wakeups = 0 /\ current = None /\ reason = "none"
  /\ posting = [r \in Runs |-> 0] /\ posts = [r \in Runs |-> 0]
  /\ destroyed = FALSE

Waiting(r) == \E i \in 1..Len(line) : line[i] = r
Stores(r, next) == rec' = [rec EXCEPT ![r] = next]

\* Mutant of Updates: the missing record is not noticed.
UpdatesUnchecked(r, next) == Stores(r, next)

\* update(): nothing is written when there is no record.
Updates(r, next) == Stores(r, IF rec[r] = NoRecord THEN NoRecord ELSE next)

-----------------------------------------------------------------------------
\* ResearchRunsService.create finds no job, and awaits the guard.
Find(r) ==
  /\ rec[r] = NoRecord
  /\ posts[r] < MaxPosts
  /\ posts' = [posts EXCEPT ![r] = @ + 1]
  /\ posting' = [posting EXCEPT ![r] = @ + 1]
  /\ UNCHANGED <<jobVars, loopVars, destroyed>>

\* Mutant of Enqueue: a second enqueueing of a run schedules nothing.
EnqueueSilent(r) ==
  /\ posting[r] > 0
  /\ posting' = [posting EXCEPT ![r] = @ - 1]
  /\ Stores(r, Created)
  /\ line' = Append(line, r)
  /\ wakeups' = IF destroyed \/ processing \/ posts[r] > 1 THEN wakeups
                ELSE wakeups + 1
  /\ UNCHANGED <<processing, current, reason, posts, destroyed>>

\* enqueueResearchRun: a fresh record, one more request in the queue, and
\* scheduleMemoryProcessing.
Enqueue(r) ==
  /\ posting[r] > 0
  /\ posting' = [posting EXCEPT ![r] = @ - 1]
  /\ Stores(r, Created)
  /\ line' = Append(line, r)
  /\ wakeups' = IF destroyed \/ processing THEN wakeups ELSE wakeups + 1
  /\ UNCHANGED <<processing, current, reason, posts, destroyed>>

\* The scheduled call of processMemoryJobs: nothing to do when a loop runs.
Wake ==
  /\ wakeups > 0 /\ wakeups' = wakeups - 1
  /\ processing' = (processing \/ ~destroyed)
  /\ UNCHANGED <<jobVars, current, reason, postVars, destroyed>>

\* The loop leaves the queue.  The finally block schedules nothing: the queue
\* is empty, or the service is destroyed.
Leave ==
  /\ processing /\ current = None
  /\ destroyed \/ line = <<>>
  /\ processing' = FALSE
  /\ UNCHANGED <<jobVars, wakeups, current, reason, postVars, destroyed>>

Fetched(r) == IF rec[r] = NoRecord THEN Created ELSE rec[r]

\* An iteration: shift a request and process() it up to its engine's start,
\* or skip it when its record asks for a cancellation.
Shift(r) ==
  /\ processing /\ current = None /\ ~destroyed
  /\ line # <<>> /\ r = Head(line)
  /\ line' = Tail(line)
  /\ \/ /\ Fetched(r).cancel
        /\ Stores(r, MarkCancelled(Fetched(r)))
        /\ UNCHANGED current
     \/ /\ ~Fetched(r).cancel
        /\ Stores(r, MarkRunning(Fetched(r)))
        /\ current' = r
  /\ UNCHANGED <<processing, wakeups, reason, postVars, destroyed>>

TimeoutFires ==
  /\ HasTimeout /\ current # None /\ reason # "timeout"
  /\ reason' = "timeout"
  /\ UNCHANGED <<jobVars, processing, wakeups, current, postVars, destroyed>>

\* The cancellation watch's second passes.
WatchAborts ==
  /\ current # None /\ reason = "none"
  /\ rec[current] # NoRecord /\ rec[current].cancel
  /\ reason' = "cancelled"
  /\ UNCHANGED <<jobVars, processing, wakeups, current, postVars, destroyed>>

\* Mutant of EngineEnds: an abort does not settle the engine's promise.
EngineEndsUnlessAborted ==
  /\ current # None /\ reason = "none"
  /\ \/ Updates(current, MarkCompleted(rec[current]))
     \/ Updates(current, MarkFailed(rec[current]))
  /\ current' = None
  /\ UNCHANGED <<line, processing, wakeups, reason, postVars, destroyed>>

\* The engine ended by itself or was aborted: process() stores the status,
\* the loop goes on with its next iteration.
EngineEnds ==
  /\ current # None
  /\ \/ reason = "none" /\ Updates(current, MarkCompleted(rec[current]))
     \/ reason = "none" /\ Updates(current, MarkFailed(rec[current]))
     \/ reason = "cancelled" /\ Updates(current, MarkCancelled(rec[current]))
     \/ reason = "timeout" /\ Updates(current, MarkTimedOut(rec[current]))
  /\ current' = None /\ reason' = "none"
  /\ UNCHANGED <<line, processing, wakeups, postVars, destroyed>>

Beat ==
  /\ current # None
  /\ Updates(current, Heartbeat(rec[current]))
  /\ UNCHANGED <<line, loopVars, postVars, destroyed>>

\* The heart-beat of a running job grows old, where its timer is too slow or
\* nobody keeps it any more.
GrowsStale(r) ==
  /\ rec[r] # NoRecord /\ rec[r].status = "running"
  /\ SlowBeats \/ r # current
  /\ Stores(r, Aged(rec[r]))
  /\ UNCHANGED <<line, loopVars, postVars, destroyed>>

\* reconcileLifecycleStatus, for a status request or a list.
Orphaned(r) == ~processing /\ ~Waiting(r)
Poll(r) ==
  /\ rec[r] # NoRecord /\ rec[r].status = "running"
  /\ HeartbeatStale(rec[r]) \/ Orphaned(r)
  /\ Stores(r, MarkTimedOut(rec[r]))
  /\ UNCHANGED <<line, loopVars, postVars, destroyed>>

\* Mutant of Cancel: the request of the cancelled job stays in the queue.
CancelKeepsRequest(r) ==
  /\ rec[r] # NoRecord
  /\ Stores(r, IF rec[r].status = "queued" THEN MarkCancelled(rec[r])
               ELSE RequestCancellation(rec[r].status, rec[r]))
  /\ UNCHANGED <<line, loopVars, postVars, destroyed>>

\* cancelJob: a queued job leaves the queue, another is asked to stop.
Cancel(r) ==
  /\ rec[r] # NoRecord
  /\ \/ /\ rec[r].status = "queued"
        /\ Contract!Drops(line, r, line')
        /\ Stores(r, MarkCancelled(rec[r]))
     \/ /\ rec[r].status # "queued"
        /\ Stores(r, RequestCancellation(rec[r].status, rec[r]))
        /\ UNCHANGED line
  /\ UNCHANGED <<loopVars, postVars, destroyed>>

\* removeResearchRunJobs: an engine that runs is not stopped.
Remove(r) ==
  /\ Deletes /\ rec[r] # NoRecord
  /\ Contract!Drops(line, r, line')
  /\ Stores(r, NoRecord)
  /\ UNCHANGED <<loopVars, postVars, destroyed>>

\* onModuleDestroy: the requests that wait are dropped.
Destroy ==
  /\ ~destroyed /\ destroyed' = TRUE
  /\ line' = <<>>
  /\ UNCHANGED <<rec, loopVars, postVars>>

Next ==
  \/ \E r \in Runs : \/ Find(r) \/ Enqueue(r) \/ Shift(r) \/ Cancel(r)
                     \/ Remove(r) \/ Poll(r) \/ GrowsStale(r)
  \/ Wake \/ Leave \/ TimeoutFires \/ WatchAborts \/ EngineEnds \/ Beat
  \/ Destroy

Spec == Init /\ [][Next]_vars

\* Timers fire and the loop goes on.  An engine need not end by itself, but a
\* killed one does, and the timeout kills it where HasTimeout.  Nothing is
\* assumed of clients.
KilledEnds == reason # "none" /\ EngineEnds

FairSpec ==
  /\ Spec
  /\ WF_vars(Wake) /\ WF_vars(Leave) /\ WF_vars(\E r \in Runs : Shift(r))
  /\ WF_vars(TimeoutFires) /\ WF_vars(KilledEnds)

-----------------------------------------------------------------------------
(* Properties *)

\* Awake: while requests wait, the loop runs or a call of it is scheduled: no
\* enqueueing falls between the loop's last look at the queue and its end.
Awake == line # <<>> /\ ~destroyed => processing \/ wakeups > 0

\* QueuedIsWaiting: a record says queued only while a request for the run is
\* in the queue, however often the run was posted, cancelled and deleted.
QueuedIsWaiting ==
  ~destroyed => \A r \in Runs : rec[r].status = "queued" => Waiting(r)

\* RunningIsCurrent: a running record belongs to the engine that runs, so that
\* reconciliation takes no live job for an orphan.
RunningIsCurrent ==
  \A r \in Runs : rec[r].status = "running" => r = current /\ processing

\* RecordsAreServed: the three together: whatever a record promises, there is
\* somebody to keep it.
RecordsAreServed == Awake /\ QueuedIsWaiting /\ RunningIsCurrent

\* ContractSpec: the queue keeps the contract when every run is posted once,
\* none is deleted and heart-beats are in time.
ContractSpec == Contract!Spec

\* Served: a run that waits is started or cancelled in the end.
Served ==
  \A r \in Runs : rec[r].status = "queued" ~> rec[r].status # "queued" \/ destroyed
=============================================================================
