# Verification of the LunaCrypto research workstation

TLA+ models of the workstation's jobs, research runs, paper trading, calibration,
scenarios and of the engine's access to LLMs and data, the TLC runs that check
them, and the theorems TLAPS proves about them. Paths are relative to
`src/apps/api/src` unless they begin with `apps/` or `docs/`. `PROJECT.json`
names, for every definition, the lines it stands for; this file says how it all
fits together.

1. [The system](#1-the-system)
2. [What is hard, and what would make it correct](#2-what-is-hard-and-what-would-make-it-correct)
3. [Modules](#3-modules)
4. [Runs](#4-runs)
5. [Proofs](#5-proofs)
6. [Divergences](#6-divergences)
7. [Not modelled](#7-not-modelled)
8. [Plan](#8-plan)

## 1. The system

A user asks the NestJS API for a research run on a market. The API records a job
and either queues it in Redis (BullMQ), runs it from a queue in its own memory, or
runs it inside the request. Whoever runs it starts the Python engine as a child
process; analysts work in parallel, a debate follows, and the thesis, its
scenarios and the evidence go to a SQLite journal that the API copies to
Postgres. From a scenario the user compiles a playbook and follows it as a paper
simulation: a run that replays, or follows, the candles of the exchange.

| Component | Where | State | Operations | Interacts through |
|---|---|---|---|---|
| Job records | `jobs/job-lifecycle.service.ts` | a row of `research_jobs` and, in every process, a private copy of it | create, get, mark…, heart-beat, request cancellation, delete | awaited reads and upserts; calls from the API, workers, timers and an event listener |
| Job service | `jobs/jobs.service.ts` | `memoryJobs`, `memoryProcessing`, timers; the BullMQ queue | enqueue, status (with reconciliation), cancel, remove, the processing loop, shutdown | job records, BullMQ, the processor |
| Processor and worker | `jobs/research-job.processor.ts`, `research-worker.ts`, `python-engine.client.ts` | locals and timers of an attempt (abort reason, heart-beat, cancellation watch, timeout) | process, heart-beat, watch, time out, `failed` listener | job records, BullMQ locks and retries, the engine process, SQLite sync |
| Research runs | `research-runs` | run rows and their artifacts | create, list, get (reconciles), delete (cascades) | job service, repository |
| SQLite sync | `jobs/sqlite-journal-sync.service.ts` | two databases | copy one run in one transaction | processor, repository |
| Paper execution | `paper-execution` | run, ledger of execution events, orders, position, outcome | create, refresh, cancel, close, abandon, read (repairs projections) | market data, playbooks, repository locks |
| Playbooks | `playbooks` | versioned playbooks with a source hash | compile, read, freshness | scenarios, theses |
| Scenarios | `scenarios` | live-state snapshots, events, evaluations, feedback | evaluate, refresh, project on a chart | market data, repository |
| Calibration | `calibration` | evaluations, reruns, the ledger of promotions, outcome reviews | evaluate, rerun, promote, reset, review | engine process, theses, repository |
| Signals, theses, workbench, alerts, operations, performance, backtests | directories of these names | rows written once | list, aggregate, decide | repository |
| Workspaces, users, auth | directories of these names | members and invitations | membership checks before every request | all controllers |
| Market data | `market-data` | none | OHLCV, prices | the exchange |
| Journal | `database` | Postgres | one query or one transaction per call | everything above |
| Engine, LLMs | `apps/ai-service/luna_workstation/llm_clients/orchestrator.py` | per run: circuit breakers, the active provider, two switchable LLMs | execute a node with fallback, switch provider | parallel analysts (threads), then one node at a time |
| Engine, data | `apps/ai-service/luna_workstation/dataflows/interface.py` | per process: a thread pool and its permits | route a call down a chain of vendors, retry, time out, replace the pool | analysts' threads, vendors' APIs |
| Engine, the rest | `apps/ai-service/luna_workstation` | the graph's state, budgets, SQLite | run the graph, save the run | job processor (stdin, stdout, kill) |
| Web | `apps/web/src` | React state and query cache | every request above | HTTP |

## 2. What is hard, and what would make it correct

**Jobs in queue mode.** Every `update()` of `JobLifecycleService` awaits a read and
then upserts the whole row in a second query, with neither a transaction nor a
version. The API, a worker's attempt, its heart-beat timer and its `failed`
listener do so at the same time; `clearInterval` does not recall a heart-beat in
flight. BullMQ adds lost locks, second deliveries and retries. Correct means: a
status is shown only when its cause has happened; a cancellation that was
answered in time keeps the engine from running, for good; engines do not pile
up on one job; a job does not stay queued or running.

**Jobs in memory mode.** One process, but three kinds of callbacks share
`memoryJobs` and `memoryProcessing`, a run may be posted several times, and a
request may be withdrawn, or its record deleted, while the loop is anywhere.
Correct means: no wake-up is lost, a queued record has a waiting request, a
running record has an engine, and seen from outside it is a first-in first-out
queue from which a waiting run can be withdrawn.

**Paper execution.** One simulation is advanced piece by piece, whenever the user
clicks, over candles of which the last may still change. Its ledger is the source
of truth, three tables are projections of it, and a GET repairs them without the
lock that the writers take. Correct means: the pieces make what one refresh would
have made; no candle that trades at the stop is passed over; a repeated refresh
trades nothing; what is sold and what is left is what was bought; a run is
concluded once; the projections are what the ledger rebuilds; only outcomes that a
rule decided count for reliability.

**Research runs.** Four stores know a run: the job record, the BullMQ job, the
engine's SQLite journal and Postgres. A worker copies the journal after the engine
returned; a read of a running run asks the job and corrects the run. A deletion takes
the run *and all later ones* out of Postgres in one transaction, their jobs afterwards,
one by one, and leaves SQLite alone. A reset repeats that until Postgres shows no run,
then takes the signals, the jobs that have no run, and the rows of SQLite. Correct means: a
deleted run does not come back by itself; a reset ends, and leaves nothing but jobs
BullMQ does not let go; what has ended is not corrected any more; the job and the run agree.

**Calibration.** Every request reads, awaits the engine or the database, and writes on
the strength of what it read. Unique indexes, idempotency keys and the timestamps of one
process stand between requests that overlap. Correct means: a window is evaluated
once; a key is one rerun, whatever is retried; the ledger of promotions does not repeat
itself; the review freezes it and is one.

**LLM fallback.** Parallel analysts share the circuits, the active provider and the
two LLMs everybody calls. The lock covers each look and each record, not what lies between, and
the callback that points the LLMs at the new provider runs after it. Calls for structured output
were bound to the primary when the graph was built, and no switch reaches them. Correct means: no LLM is left
behind by a switch; a provider is charged with failures of its own; an open circuit shields its
provider; every node ends.

**Data providers.** An attempt that timed out goes on in its thread. A call with another
`max_workers` replaces the pool under the feet of the others. Correct means: permits are
neither lost nor made up; nothing that was submitted waits for a thread; a call
answers, and answers what its attempts and its contract (a replay sees nothing from after
its date) allow.

**Scenario live state.** A refresh reads the last snapshot and the market, evaluates the
scenario, saves one event per transition, then the snapshot: no lock, no transaction, and
ids that are hashes. Correct means: a change between two snapshots is in the history,
once; an event has a snapshot behind it; an entry is recommended only when everything it
asks for holds at the same time, on the candles as they stand (the last is still forming).

## 3. Modules

```
JobRecord ──┬── BullJobs ───── BullJobsProofs
            │       └───────── MCBull
            └── MemoryJobs ─── MemoryJobsProofs      JobContract
                    ├───────── MCMemory                   ▲
                    └─────────────── implements ──────────┘
PaperFills ──────── PaperExecution ──── MCPaper,       PaperExecutionProofs
ScenarioDecision ── LiveState ───────── MCLiveState,   LiveStateProofs
                    ResearchRuns ────── MCRuns,        ResearchRunsProofs
                    Calibration ─────── MCCalibration, CalibrationProofs
                    ProviderFallback ── MCFallback,    ProviderFallbackProofs
                    ProviderPool ────── MCPool,        ProviderPoolProofs
```

### JobRecord

The row, reduced to what decides what a process does next: the status, whether a
cancellation is requested, and the age of the heart-beat. One operator per patch of
`JobLifecycleService` (`MarkRunning`, `Heartbeat`, `MarkCompleted`, …), each giving
the *whole* row from a snapshot, as the service does. `RequestCancellation` takes
its status from one read and the rest from another, as the code does.

### BullJobs

One job in queue mode. Each read-then-upsert is two actions, the read that computes
the row to store and the commit; anything may happen in between. `apiCache` and
`cache` are the private copies (`JobLifecycleService.records`), which `get()` answers
when the row is gone. They matter only when the row can be deleted, and are
kept empty when no run deletes it (`Copied`).

| State | In the code |
|---|---|
| `row` | the row of `research_jobs` |
| `pc`, `reason`, `outcome` | where an attempt is in `ResearchJobProcessor.process`, its `abortReason`, how the engine ended |
| `main`, `beat`, `event`, `req` | the upsert in flight of the attempt, its heart-beat timer, the `failed` listener, an API request |
| `cpc`, `op`, `seen` | where a request is, its kind, the status `requestCancellation()` read first |
| `queue`, `holder`, `made`, `stalls` | the BullMQ job, the owner of its lock, `attemptsMade`, the stalled counter (external) |
| `emitted` | `failed` events not yet handled |
| `creates`, `changes`, `crashes` | used-up bounds (of lost locks `stalls`) |
| `causes` | history: what happened to the job so far |

Actions follow the code from `create` (`CreateFind`, `CreateRow`, `CreateCommit`,
`AddJob`, `AddThrows`, `AddFailed`), `cancel` and `remove` (`CancelRead`, `RemoveRead`,
`Dequeue`, `CancelQueued`, `AskRead`, `AskUpdate`, `DeleteGet`, `Delete`), polling with
reconciliation (`Poll`, `Expire`), to the worker (`Take`, `Fetch`, `PreCancel`, `Start`,
the engine, `SyncBeat`, `Final`, `Completes`, `Fails`; `ProgressFails` is `job.updateProgress` that
rejects, before or after the processor), its timers (`TimeoutFires`,
`WatchAborts`, `BeatRead`, `BeatCommit`) and listener (`EventRead`, `EventCommit`).
`Crash`, `Stall` and `BeatExpires` are the environment: a worker process dies, its
lock is lost (also by a live worker that lost its connection), time passes. `get()` is one step. The code takes
the private copy before it awaits the query (`jobs/job-lifecycle.service.ts:127`), so that it may also answer a copy that is replaced
or dropped meanwhile; that case is left out.

### JobContract, MemoryJobs

`MemoryJobs` is memory mode without a database. There every call of
`JobLifecycleService` is an already resolved promise, so a callback runs to its end
before the next: a request, a timer or an iteration of the loop is one action. A POST
is two, because it awaits the market-data guard between looking for an existing job
and enqueueing. `rec` is the map of records, `line` is `memoryJobs`, `processing` is
`memoryProcessing`, `wakeups` the `setTimeout(…, 0)` calls not run yet.

`JobContract` is what such a queue promises: accept, withdraw, start in order and one
at a time, end once. `MemoryJobs` implements it with
`status <- [r \in Runs |-> rec[r].status]`, `closed <- destroyed`, where every run is
posted once, none is deleted and heart-beats are in time; outside of that the records
themselves are re-created, which the contract does not allow and `mem_queue` explores.

### PaperFills, PaperExecution

`PaperFills` is the pure half of `PaperExecutionService`: `FindEntry` (touch, gap and
fill policies, `findEntry`), `Transitions` (stop, targets, partial targets, timeout and
their order inside a candle, `findPositionTransitions`), and what an exit does to a
position. It is a fold over the candles, the time of a candle is its index, prices and
quantities are integers.

`PaperExecution` is one simulation. `refresh`, `cancel` and `close` hold the
simulation's lock and run in one transaction, so each is one action: `Refresh` with its
disjuncts, one per way `refreshSimulationLocked` ends; `RefreshThrows`
(`handleRefreshFailure`); `Cancel`; `CloseManually`; `Abandon`. A GET takes no lock: `Begin`, three reads
in any order (`Promise.all`), then `SavePosition` or `SaveOutcome`. `Tick` and `Grow` are
the exchange: the next candle, and the growth of the one being formed. The ledger entry
is `[type, at, price, quantity, reason]`; the entries and rows of orders say the same as
those of the positions and are left out. `Rebuild` and `RebuildOutcome` are
`rebuildPositionFromLedger` and `rebuildOutcomeFromLedger`.

### ResearchRuns

One workspace and one symbol, in queue mode. The races inside one job record are those of
`BullJobs`; here an update of it is one step, and the races are those between the stores.

| State | In the code |
|---|---|
| `job`, `queue`, `owner`, `made` | status of the row in `research_jobs`; the BullMQ job, its lock, `attemptsMade` |
| `lite`, `liteSig`, `earlier` | the run's row and signals in SQLite, and which run started before which |
| `pg`, `snap`, `pgSig` | the run, its signal snapshot and its signals in Postgres |
| `wpc`, `wrun`, `result`, `export` | where a worker is, the status its engine returned, what the export process printed |
| `cpc`, `kind`, `target`, `todo` | where a request is, its kind and run, the runs whose jobs it still has to remove |

A run is posted (`Post`), taken (`Take`), and worked on: the engine saves its row and signals and
returns or dies (`EngineSavesSignals`, `EngineReturns`, `EngineDies`), the copy is exported and committed or
fails (`Export`, `SyncCommits`, `SyncFails`), the job ends (`Finishes`). `TimerBeats` is the heart-beat, which brings a
deleted record back; `Crash` and `Stall` are as in `BullJobs`. A request is `Get` (read the run, ask its job,
mark it), `Remove` (the run with all later ones, then the jobs by `Cascade` and `Dequeue`) or `Reset` (all runs in
turn, then the jobs that have no run, signals, SQLite). A read of a run, of the list or of a job whose heart-beat is
stale expires the record in two steps, `Expire` (the read of `update()`) and `Expires` (the upsert, which writes the record
back if it was deleted meanwhile); `Look` begins one that has no run to mark. The list reconciles its runs as a GET does, and is
a `Get` of each. `Dequeue` finds an active job locked, or its lock just lost.

### Calibration

One thesis window. A row is named by the request that wrote it: `evaluation`, `runs` (reruns),
`ledger` with `stamp` (promotions and resets), `reviews` and the `linked` one. `Evaluate`, `Rerun`, `Promote` (a reset is
`Base`) and `Review` begin a request; the engine (`EngineEvaluates`, `EngineReruns`), the reads (`ReadsKey`,
`ReadsLatest`) and the writes (`Upserts`, `WritesRun`, `WritesFailed`, `Appends`, `RecordsReview`, `Links`) are steps of their own. `Upserts` models the
statement of the upsert as Postgres executes it: what it returns depends on the snapshot it started with, what it
inserts on the index. `NextStamp` is `lastPromotionTimestampMs`, which a restart (`Crash`) forgets. `Cascade` is the
deletion of the thesis.

### ProviderFallback

`circuit`, `cooled` (the window of an open one has passed), `active`, `deep`, `quick` and `cached` are the
orchestrator; `plan` and `at` are a node's `providers_to_try` and its place in it. A node goes from `Lists` through
`Skips` (an open circuit) or `Tries`, `Ensure` (create the client) and `Switch` (under the lock), to `SetDeep` and
`SetQuick` (the callback, outside it), and then asks: `Asks` is a structured call, to the primary it was bound to
(`agents/utils/structured.py`), `Calls` any other, to whatever is behind the LLM at that moment; an agent whose structured
call failed asks for free text. `Succeeds`, `Fails` or `Raises` is the outcome for `execute_with_fallback`. Of the nodes in
`Structured` those in `Swallowing` answer without the LLM when it fails (Research Manager, Portfolio Manager), so that the attempt counts as a
success, and those in `Wrapping` never let a retryable error out (also the Setup Planner). The second LLM that a node calls need not be the first one's
provider, when another node switches meanwhile. `down` are the providers that *may* fail to answer, at any call; the others
answer every one, so that a charge against them is a wrong one. `rivals` are the providers of the last switches that overlapped.

### ScenarioDecision, LiveState

`ScenarioDecision` is the rule engine, pure: trigger, validity, blockers and action of a scenario with a decision
playbook, and the status of every condition and target in a view of the market. `LiveState` is what refreshes do with it:
`ReadsPrevious`, `ReadsMarket`, `Stamps`, `ReadsCandles`, then one `SavesEvent` for each transition in the order of
the loop and `SavesSnapshot`; `Dies` is a step that rejects. `Insert` and `Upsert` are the two conflict clauses: an event with
the id of another is dropped, a snapshot of the same millisecond keeps the old row's market. The market, the candles and the clock
move between any two steps. `CandleMoves` trades on the last candle, which is still forming when a refresh reads it, or
closes it and begins the next. The rows of a live state are in the order of the scenario, the same at every refresh, so that
`Before` compares them by place where the code finds them by id or label (`scenarios/scenario-live-transitions.ts:34`); targets and
`direction` are those of a trade playbook that is current (`scenarios/scenario-live-state.service.ts:277`).

### ProviderPool

A call is at a vendor of the `Chain` and at an attempt: `Starts`, `SkipsVendor`, `RefusesVendor`, `RefusesRequest` (a replay that asks
for data from after its date), `TriesVendor`, `RunsOut`; the attempt `GetsPool` or `ReplacesPool`, `TakesPermit` or `FindsItSaturated`, `Submits` or `CannotSubmit`, and then waits: `GetsData`,
`FindsLookahead`, `GetsFatal`, `GetsRetryable`, `TimesOut`, `TimesOutQueued`. `Runs`, `Finishes` and `Releases` are the thread and
the done-callback of the future, which go on when nobody waits any more. A pool is known by the attempt that made it.

### MC modules

`MCBull`, `MCMemory`, `MCRuns`, `MCCalibration` and `MCLiveState` hold the symmetry sets (used only where no liveness is
checked), `MCBull` and `MCLiveState` a state constraint each. `MCPaper` has the plans (one policy changed in each, and their mirror for short positions) and candles; `MCLiveState`
two scenarios, a long breakout that needs a confirming candle and a short rejection in a zone; `MCFallback` and `MCPool` the sequences a
`.cfg` cannot write.

### Proof modules

`XProofs` extends `X` and TLAPS, and contains nothing but its theorems. The few definitions that only a proof needs (the
inductive invariants) are there; the properties are in `X`.

## 4. Runs

| Run | Instance | Checks | Shows | States |
|---|---|---|---|---|
| `bull_stalls` | 2 clients that post one run, 1 worker, 1 attempt, timeout, 1 crash, 2 lost locks | `Settles` | the job reaches an end, or is one of the rows that nothing corrects (section 6) | STALLS |
| `bull_races` | 2 clients that create, cancel and delete, 2 workers, 2 attempts, timeout, 2 lost locks | `TypeOK`, `OneEngine`, `StatusHasCause`, `EarlyCancelHolds` | a second engine only per lost lock; whatever overtakes whatever, a status has a cause; an early cancellation is final until its row is deleted or written over by a failed enqueueing | 2 305 842 |
| `mem_contract` | 3 runs posted once, timeout | `ContractSpec`, `Served` | the queue implements `JobContract`, and waiting ends | 19 102 |
| `mem_queue` | 2 runs posted twice, deletes, slow heart-beats | `TypeOK`, `RecordsAreServed` | no lost wake-up, no queued record without a request, no running one without an engine | 22 787 |
| `paper_refresh` | 13 long plans × all tapes of 4 of 7 candles | `TypeOK`, `Deterministic`, `NoStopSkipped`, `ExitsAddUp`, `RepeatOnlyCloses` | the time of the clicks does not matter | 200 566 |
| `paper_requests` | 8 short plans, one a replay with a forced close, 3 candles that form, failures, cancel, close, abandon, 1 GET | `LedgerRebuilds`, `ConcludesOnce` | the ledger stays the source of truth, whatever an unlocked repair overwrites | 1 108 290 |
| `runs_reset` | 2 runs, 1 worker, 2 clients, 2 attempts, 1 fault, 1 deletion or reset | `DeletedStaysDeleted`, `ResetEmptiesStores` | what deletions leave in four stores, and which jobs BullMQ keeps | 1 040 326 |
| `runs_overlap` | 1 run, 2 workers, 2 clients, 2 attempts, 1 fault, 1 deletion or reset | `JobAndRunAgree`, `EndedStaysEnded`, `ResetEnds` | late copies and late corrections; a reset ends | 242 917 |
| `calibration` | 3 requests of any kind, 1 old rerun, 1 key, 1 ms, 1 restart | `EvaluatedOnce`, `KeyIsOneRerun`, `EventsAlternate`, `OneReview`, `FrozenByReview` | what indexes, keys and stamps keep together without locks | 377 399 |
| `fallback` | 2 analysts, then a manager on the deep LLM that asks for structured output and swallows errors, and a planner on the quick one that goes on in free text; 2 fallbacks, threshold 2, the first two providers may fail | `TypeOK`, `ActiveIsUsed`, `OnlyFaultsCount`, `EveryNodeEnds` | what switches of others and bound calls may and may not disturb | 283 096 |
| `live_state` | 2 scenarios, 3 refreshes, 2 at a time, 1 that fails, 2 market snapshots, a forming candle and 1 more, 2 ticks | `TypeOK`, `EveryChangeIsRecorded`, `NoChangeTwice`, `EntryIsJustified`, `EventsAreBacked` | which histories overlapping refreshes write | 2 089 608 |
| `pool` | 2 calls, 4 vendors, 2 attempts each; two strict replays with 2 and 1 workers, a strict one that shares 1 with a replay or a live call, or a replay whose request is late beside a live call | `TypeOK`, `PermitsAreKept`, `NoneWaitsForAThread`, `AnswersAreEarned`, `EveryCallEnds` | abandoned attempts and a replaced pool cost no permit and no answer; a replay asks nobody for what is after its date | 224 350 |

**Bounds.** A race needs two writers between one read and its commit: two clients and a
worker with its timer and its listener are five. A second worker matters when a lock is lost or a job is posted anew, and
`bull_races` has it; one retry shows what a retry can do to a cancelled attempt, two requests of each kind
that a cancelled job can be posted, or deleted, again. In `bull_stalls` liveness needs a job that stalls as often as BullMQ's
`maxStalledCount` of 1 allows and once more, a worker that dies, and the second POST; deletions have no status to
settle, and another worker would only do the same. The memory queue needs three runs to tell first-in first-out from
other orders, and two posts of one run to separate requests from records. A plan
with entry, two targets and a stop has at most four interesting candles; the seven
candles are one for each relation to the levels (away, touch, each target, stop, both stop and target in
one, below).

Two runs are the least for which "and all later ones" says something; the second worker,
which a lost lock gives a run that is still at work, has a run of its own. Three
calibration requests are a pair that overlaps and one that comes after; one old rerun lets a promotion
follow at once; a clock that moves once shows stamps of one and of two milliseconds. Two
analysts and two failing providers reach threshold 2, so that both circuits open and both
analysts switch twice; the manager and the planner come after the crossing. Three refreshes are a first
snapshot and a pair that overlaps, or three in a row, of which the middle one fails. Two calls in a pool of one worker
fill it with one hung attempt.

`MaxPosts`, `MaxCreates`, `MaxChanges`, `MaxCrashes`, `MaxLosses`, `MaxCandles`, `MaxFaults`, `MaxRequests`,
`MaxTicks`, `MaxSnapshots`, `MaxPending`, `MaxLost` and `Outages` are the bounds of the modules; the proofs hold for
all of their values. Two runs have a constraint besides, of the safety properties only:

- `Bounded` of `MCBull`: in `bull_races`, when more than two of the POSTs, changes, retries, lost locks and crashes have happened, only
  states in which a cancellation may still be early (or was) are looked at further.
- `Bounded` of `MCLiveState`: in `live_state` a refresh that fails half way and a candle that moves are not combined.

One case is out of the bounds: in `live_state` a status that passes, fails and passes again on
one market snapshot (section 6) needs a fourth refresh; it was looked for with five refreshes in
simulation, where the properties hold because they allow an event of the same market snapshot.

**Deadlock** is not checked: every one of these systems may stop (the bounds are used up, the
job has ended, the module is destroyed, the market prints no more candles, all requests are answered).

**Fairness.** `Settles`: an `await` that was begun is carried on (`ClientStep`, `Attempt`,
`Listener`, `BeatCommit`), BullMQ delivers a waiting job and finds the lost lock of a
dead worker, clients poll (the web client does while a run is active), time makes a
heart-beat stale, and a set timeout fires and kills the engine. Nothing is assumed of an
engine nobody aborts, of heart-beats, or of clients' decisions; `job.updateProgress` may reject. `Served`: the scheduled
callbacks run and a killed engine ends. Both need `JOB_TIMEOUT_MS`, which is *unset by
default*: without it an engine that hangs holds its job, and in memory mode
every job behind it, for ever, and neither property says anything of that. `Settles` is checked with creations only, since a
deleted job has no status to settle; it says itself which queued rows stay queued. `ResetEnds`: an `await` that was begun is carried on, and
an engine ends (`JOB_TIMEOUT_MS` again); its heart-beats may bring records back until then. `EveryNodeEnds`: a thread that runs goes on, and an LLM call returns or raises
(the clients have timeouts); nothing is assumed about the windows of open circuits. `EveryCallEnds`: a
caller goes on, and `future.result(timeout=…)` ends; *nothing* is assumed of the vendors' threads, which may
hang for ever. Paper execution, calibration and live state have no liveness: each advances only when the user asks.

## 5. Proofs

All theorems hold for every value of the constants that satisfies the module's one named
assumption (`BullAssumption`, `MemoryAssumption`, `RunsAssumption`, `CalibrationAssumption`,
`FallbackAssumption`, `LiveStateAssumption`, `ProviderPoolAssumption`, `PaperAssumption`): names that do not clash, natural
bounds, finite sets where something is counted, and of a plan what the compiler of playbooks grants (`PlanOK`). A theorem that
needs more says so in an `ASSUME` of its own; the paragraph about it below says why. `PROJECT.json` lists them with what each says.

| Module | Theorems | Inductive invariants |
|---|---|---|
| `BullJobsProofs` | `TypeCorrect`, `StatusHasCauseHolds`, `OneEngineHolds`, `EarlyCancelStays` (and `CauseHolds`, `LockHolds`) | `CauseInv`, `LockInv`, `EarlyInv` |
| `MemoryJobsProofs` | `MemTypeCorrect`, `AwakeHolds`, `QueuedIsWaitingHolds`, `RunningIsCurrentHolds`, `RecordsAreServedAlways`, `KeepsContract` | `Awake` and `QueuedIsWaiting` as they stand, `RunningInv`, `ContractInv` |
| `ResearchRunsProofs` | `KnownHolds`, `EndedStays`, `DeletedStays`, `JobsAgree`, `ResetLeaves` | `Known`, `DeletedInv`, `AgreeInv`, `ResetInv` |
| `CalibrationProofs` | `BegunHolds`, `EvaluatedOnceHolds`, `KeyIsOneRerunHolds`, `EventsAlternateHolds`, `OneReviewHolds`, `FrozenByReviewHolds` | `Begun`, `EvaluateInv`, `KeyInv`, `LedgerInv`, `ReviewInv`, `FrozenInv` |
| `ProviderFallbackProofs` | `TypeCorrect`, `ActiveUsed`, `AttributedAlways`, `FaultsOnly`, `Shielded`, `NothingTried` | `Shape`, `Agree`, `AllSteady`, `AllShielded`, `Opened` with `Passed` |
| `LiveStateProofs` | `TypeCorrect`, `EventsBacked`, `EntryIsJustifiedHolds`, `ChangesAreRecorded`, `NoChangeIsTwice` | `Typed`, `Backing`, `JustifiedInv`, `AllRecorded`, `Alone` |
| `PaperExecutionProofs` | `PaperTypeOK`, `RunConcludesOnce`, `LedgerIsTheTruth`, `ExitsBalance`, `StopsAreSeen`, `RepeatsAreQuiet`, `RefreshesAddUp` (and `SteadyInvariant`, `ProjectedInvariant`, `SettledInvariant`) | `Steady` (`Typed` and `Lifecycle`), `Concluded`, `Projected`, `Balanced`, `Watched`, `Settled`, `Replays` |
| `ProviderPoolProofs` | `PoolTyped`, `PermitsKept`, `NoWaitForAThread`, `AnswersEarnedHolds` (and `InvHolds`) | `Inv`, `EarnedInv` |

**Jobs.** `StatusHasCause` speaks of the row, but what the row will be is already decided in
the writes in flight and the private copies. `CauseInv` therefore asks the same of every
copy and every pending write, and of every place where an attempt or a request is
about to write: a worker whose `reason` is `timeout` has seen the timer fire, one whose
outcome is `ok` has an engine that returned. The history `causes` only grows
(`HistoryGrows`), so that an explained record stays explained, and each patch adds at
most the status whose cause the place guarantees.

`OneEngine` counts engines, which a step of one worker changes without the others'
knowledge. `LockInv` counts instead the attempts that go on without the lock: only the
stalled check makes one, and it increments `stalls`; every other engine belongs to the
holder, of which there is one.

`EarlyInv` has two halves. Before any worker looked at the record (`Unstarted`), nothing but
a cancellation is in flight, and row, copies and snapshots say queued or are barred (`Barred`: the request is in them, and
they say cancelled, or failed by an attempt that had no engine); after the
answer (`Early`), the row is barred and no worker is further than the test at the start of an attempt. Both hold as long as
`Quiet` does: no POST failed to enqueue, which marks the row failed whatever it was, and no row was deleted, since
a worker that finds none creates a fresh one. `EarlyCancelHolds` says the same, and `EarlyCancelStays` has no
hypothesis: lost locks, retries, second POSTs and failures before the processor are in it.

`ContractInv` adds to `TypeOK` what "posted once" means. `PostedOnce`: a run whose POST
still awaits the guard has no record. `LineInv`: a run that waits occurs once in `line`
and its record says queued, with no cancellation requested. `CurrentInv`: the record of
the current engine says running, no other does, and its heart-beat is in time. With it every
action of `MemoryJobs` is an action of the contract or a stutter (`Implements`).
`QueuedIsWaiting` rests on `WithoutAt` and `DropsProperties`, about removing an entry of a sequence.

**Research runs.** `Known` is the types with what each step of a worker or a request knows. What is
deleted stays so because of where its job is (`DeletedInv`): a job that can still be delivered belongs to a run
that was at work when it was deleted, or to a request that has yet to remove it. `AgreeInv` follows the status
from the engine through SQLite and the export to Postgres, as long as no lock is lost. `ResetInv` says how far an
undisturbed reset has come, and that a job which is still in BullMQ was active or at work when its run or record was deleted
(`loose`); `OnlyWipe` that its last step is the only way out.

**Calibration.** Everything rests on `Overlap`: requests that are under way at the same time have met, so
what a request could not see was written by one it met. On top of it, each property has the invariant of its own kind of
row; `LedgerInv` also needs that stamps are behind the next one and differ (`Stamps`), and that an event which is
still to be written has met all that may overtake it (`Changes`).

**LLM fallback.** `Agree`: active is one of the `rivals`, the providers of the last switches that overlapped; a switch under way
is to one of them, and the deep and the quick LLM are among them or are about to be set by a switch under way. A switch that begins
when none is under way makes itself the only rival, so that after it the three are one. `Steady`: a node nobody
disturbed believes in the provider behind its LLM; what the node asks a bound client (`Asks`) says nothing of that
provider, and `AttributedAlways` is about the free text. A provider that answers every call is missed by nobody (`missed`), so that it is
charged only with what `OnlyFaultsCount` names (`FaultsOnly`). `Shield`: an attempt on an open circuit looked before it opened. `Passed`: what a
node passed over without an error had tripped. `Attributed`, `OpenShields` and `NothingTriedMeansTripped` are proved and not
among the properties of a run.

**Data providers.** A permit is left, with a call about to submit, or with a future. Counting that for a pool needs that
attempts are where they should be (`Futures`), that a pool which is used was made before (`PoolsAreOld`), so that a new one begins
with nothing in flight, and that the futures are finitely many (`Few`). `EarnedInv` adds what a call has
behind it: it is only at vendors it may ask, with a request that is not late (`Asks`); every attempt at such a vendor was given
up (`Tried`); and a pool is lost only to a call with another number of workers (`Displaced`).

**Paper execution.** Everything rests on `Steady`: the ledger of a run that goes on is an entry with partial exits after it
(`Lifecycle`), and what a GET has read is a beginning of the ledger. `Concluded` and `Projected` follow what each commit appends;
that the rows are what the ledger rebuilds (`Reflects`) is a statement about two folds, one over the exits of a refresh and one over
the ledger, which must go in step. `LedgerRebuilds` exempts the close reason of a forced close, which the ledger does not
have (section 6). Four theorems have hypotheses, those of the run that checks the same property:

- `ExitsBalance` says `Polled \/ ExitsAddUp`: a GET that read before a commit may save the earlier position, which has not
  sold what the ledger sold. The quantities may be as small as they like: what rounds to more than is left is clamped (`Sellable`).
- `StopsAreSeen` assumes `Forming = FALSE`: a candle that still grows may reach the stop after the watermark has passed it.
- `RepeatsAreQuiet` assumes `Readers = {}` and `Failures = FALSE`: a repaired position that is open again is closed again, and a
  provider that answers with no candles ends the run although it has seen them all.
- `RefreshesAddUp` assumes `Forming = FALSE` and `Readers = {}`, for the same two reasons. `Replays` says what a run that goes on is: it
  entered where one pass over the candles up to the watermark enters, and no candle from there to the watermark exits.

What a fold or a choice of the first candle gives on a tape that was cut at the watermark is compared by
`SetInduction`, induction over sets of natural numbers, proved from the well-foundedness of their order: the library's
theorems with an operator parameter cannot be used, but a set can say what the operator would.

**Live state.** `Backing`: the events of a refresh that goes on are among the statuses it found. `JustifiedInv`: what an
evaluation recommends is justified by the statuses found *with it* (`EntryJustifies`, from the rule engine, for any
scenario and any candles, a forming one among them), and these, the market snapshot and the time stay what they are until they are saved and after.
`EveryChangeIsRecorded` compares neighbours among the snapshots, and a refresh that saves puts itself between two others or
takes the place of one. `AllRecorded` therefore says it of the rows that are there (`Recorded`) and, of each refresh under way, that
everyone who saved since its read has met it, or that a saved row is the basis of what it will report (`Informed`, `Basis`).
`NoChangeTwice` is about refreshes that met no other (`Alone`): they go one after the other, so each has read the
last row and sees no older market or candles, also where two are stamped with one millisecond and the second replaces the
row of the first (`Same`, `RowsToday`, `CandlesToday`). A thing that changes back in between leaves a row of that (`Ends`);
`StatusesBetween`, about the rule engine, says that candles which arrive in one millisecond cannot take a
status there and back. `NoChangeIsTwice` assumes `DistinctThings`: the parts of a scenario have ids of their own. The code makes them
of the decision, the role, the place and the label (`scenarios/scenario-live-state.service.ts:256`) and finds them by id
(`scenarios/scenario-live-transitions.ts:33`); both scenarios of `MCLiveState` have it.

**Only model-checked.** Liveness under fairness: `Settles`, `Served`, `ResetEnds`, `EveryNodeEnds`, `EveryCallEnds`. Every
safety property of every run is stated by a theorem; those with a hypothesis stay with TLC where it does not hold, and there the
properties say themselves what may happen. What a property permits is not shown to be absent: of the changes of overlapping or failed
refreshes (`NoChangeTwice`, `EveryChangeIsRecorded`, `EventsAreBacked`), of switches that overlap (`ActiveIsUsed`,
`OnlyFaultsCount`) and of attempts at work during a deletion (`DeletedStaysDeleted`) the properties say that nothing else
goes wrong, and section 6 what does.

## 6. Divergences

Where the code does not do what a document, a comment or a test of the repository says, or its callers expect. None is a
run of its own: the models allow exactly what the code does, and the properties say what holds in spite of it.

**Jobs**

- A worker's write in flight overwrites a cancellation that was answered, and the job completes
  (`jobs/job-lifecycle.service.ts:349`); `CLOUD_JOB_QUEUE_TENANT_ISOLATION_PLAN.md:769` says a cancelled job does not.
- Two POSTs with one run id both find no job; the second row resets the running first
  (`research-runs/research-runs.service.ts:157`); the same plan, line 461, says the existing job is returned. If BullMQ has ended the
  first by then, `add()` with its id does nothing (`jobs/jobs.service.ts:125`) and the row stays queued for ever, since
  only running rows are reconciled (`:319`).
- A worker that dies before it has recorded the last `failed` event of a job whose attempts failed before `markRunning` leaves the row
  queued for ever in the same way.
- `job.updateProgress` may reject after the processor returned (`jobs/research-worker.ts:48`): the attempt that has finished
  fails, the listener marks its completed job failed, and a retry runs the engine again.
- A job that was cancelled in time and then deleted: the worker finds no record, creates a fresh one and starts the engine
  (`jobs/research-job.processor.ts:44`).
- A cancelled attempt rethrows (`jobs/research-job.processor.ts:139`) and BullMQ retries it; the
  retry finds the request and cancels again. The plan, line 443, lists user
  cancellation among what is not retried.
- A deleted job's row comes back: `get()` falls back to a worker's private copy and
  `update()` upserts it (`jobs/job-lifecycle.service.ts:143`).
- Memory mode with `DATABASE_URL`: the rows outlive the process, `memoryJobs` does not; a row that was queued
  stays queued (`:126`).

**Paper execution** (the plan is `docs/features/scenario-decision-system/v8/implementation-plan.md`)

- After a partial exit a repeated refresh looks at the candles after it again, without partial targets, and
  closes the rest at the consumed target (`paper-execution.service.ts:730`); plan, line 689: no duplicate transitions.
- The last candle is used while it forms; a stop it trades at afterwards is never seen (`:2830`,
  `market-data/market-ohlcv.service.ts:169`); line 681: finalized candles. So `NoStopSkipped` is checked over finished ones.
- The stop is not applied to the candle of the entry (`:322`); line 581.
- A completed or failed simulation can still be cancelled (`:514`); line 495.
- A GET that reads the position before and the ledger after the entry rebuilds the open position, and saves it after a
  later refresh has closed it, so that it is open again (`:1149`); line 66. `LedgerRebuilds` says it can only be so once the
  run has ended, or with partial targets.
- An outcome of a forced close that is rebuilt from the ledger loses its close reason `data_end` (`:1499`); line 930.
- A provider with no candle yet fails a run that was created just now for good (`:279`). A forward run older than
  5000 candles fails at every refresh (`market-data/market-ohlcv.service.ts:288`).
- A partial exit of a few units of 1e-10 rounds to all that is left: the position is closed, the run stays `position_open`
  (`:2210`). The instances trade ten units; the theorems include it.
- Two creations of one forward run: the second is refused by the partial index and answered 500 instead of 409 (`:1226`).

`Deterministic` holds for plans without partial targets and without a forced close: the first divergence shows why the
one is needed, and a forced close ends the run where the data of *that* refresh ends.

**Research runs**

- Signals of runs that failed or were deleted are published again with the next run of the symbol: the export copies all
  signals of workspace and symbol (`apps/api/scripts/export-sqlite-journal.py:109`);
  `apps/api/test/api-contract.test.ts:3766` expects none of a failed run.
- A reset does not take an active job out of BullMQ: `remove()` throws, the record is deleted all the same
  (`jobs/jobs.service.ts:251`). When its worker has crashed, another takes it again, finds no record, and publishes the run anew. A job
  whose record is already gone is passed over (`:245`).
- A GET, or the list, that found a stale heart-beat writes the record of a run that was deleted meanwhile back
  (`jobs/job-lifecycle.service.ts:349`).
- A deletion leaves SQLite alone, from where `workspace()` goes on serving the run until a reset
  (`research-runs/research-runs.service.ts:385`).
- After a lost lock the older worker's copy may be the last to be committed.
- Of two overlapping deletions the second fails with 404 half-way (`database/postgres-journal.repository.ts:266`) and
  leaves the jobs to the first.

**Calibration** (`docs/features/calibration-lab`)

- Requests that overlap: one key may call the engine twice (`v1.3/implementation-plan.md:54`), a no-op may be appended, an event
  may be appended after the review (`v1.5/implementation-plan.md:98`, `:99`).
- The insert that meets a row committed since its snapshot returns nothing, and the request fails with 503
  (`database/postgres-journal.repository.ts:934`).
- Stamps are unique within one API process (`calibration.service.ts:1644`): a second process, or a restart that takes less time than
  its stamps are ahead of the clock, may give two events one millisecond. The model has one process, and a slower restart.

**LLM fallback** (`llm_clients/orchestrator.py`)

- "All LLM references updated" (`:338`) and "Thread-safe" (`:65`): two switches that cross leave the run active on one
  provider while the LLMs call the other.
- The same line is wrong of structured output without any race: its LLMs are bound when a node is built
  (`agents/utils/structured.py:41`, `graph/setup.py`) and stay with the primary after every switch. What the primary answers, or does not, is
  charged to the provider that is active.
- Research Manager and Portfolio Manager answer without the LLM when their structured call fails
  (`agents/managers/research_manager.py:81`): the attempt is a success of the provider, also of one that is down, and clears its
  circuit. No fallback is tried. The Setup Planner's `LLMOutputError` is not retryable either.
- "Allow one probe request through" (`:185`): every analyst that looks at a half-open circuit is let through.
- After a switch the primary is never in the list of providers again (`:358`).
- An answer that breaks its contract is charged to the circuit of a provider that answers.
- With all circuits open, `raise last_error` (`:401`) raises `None`.

**Scenarios**

- A status that is repeated on one market snapshot has the id of its first occurrence and is dropped;
  `docs/features/scenario-decision-system/v7.1/implementation-plan.md:545` has a test that repeated occurrences are preserved.
- Two refreshes in one millisecond: the row keeps the market snapshot of the first and has the state of the second.
- Overlapping or failed refreshes leave the same change twice; a refresh that read the market earlier may become the latest snapshot
  (`scenarios/scenario-live-state.service.ts:111`).
- A scenario is invalidated by the latest price although its condition asks for a candle close, while the condition's own row
  stays pending (`scenarios/scenario-runtime-evaluator.ts:533`).
- An entry that the playbook falls back to is recommended without any check (`:404`).
- The "closed" candles of a refresh are all that the exchange answers, and the last is still forming
  (`scenarios/scenario-live-state.service.ts:156`, `market-data/market-ohlcv.service.ts:169`);
  `docs/features/scenario-decision-system/v7.1/implementation-plan.md:191` says to use closed candles only. An entry may be
  confirmed by a candle that closes otherwise.
- A window that is evaluated a second time fails: the evaluation row is updated, then the insert of its outcome snapshot meets the
  primary key (`ON CONFLICT (simulation_id)`, `database/postgres-journal.repository.ts:1438`);
  `apps/api/test/api-contract.test.ts:9809` says the evaluation is idempotent, of a fake repository.

**Data providers** (`dataflows/interface.py`)

- A call that timed out keeps its permit until the vendor answers (`:657`), so that hung vendors leave no permits.
- A call that finds its pool shut down fails with an error that is not retried, down the whole chain (`:601`).
- A replay that asks for data from after its date ends with a policy error before any vendor is asked, strict or not
  (`:746`), where other failures go on to the next vendor; so does a date that cannot be read.
- The slot of the rate limit is taken before the wait for a permit, so that starts may bunch.

**Workspaces** (not modelled): `BEGIN` and `COMMIT` are sent through the pool (`workspaces/workspaces.service.ts:596`) and may
reach different connections; a failed read is answered and cached as an empty list (`:543`, `:580`).

## 7. Not modelled

- **Jobs**: failures of Postgres and the local record kept then; inline mode; memory mode
  with a database; payloads, attempts and error fields of the row; concurrency above one
  in a worker process.
- **Paper execution**: slippage, fees and `fixed_notional`; orders; scenario outcome
  snapshots; the source-drift check; the uniqueness of active forward runs over several
  simulations; the limit of 5000 candles per request
  (it is one of the causes of `RefreshThrows`).
- **Research runs**: several workspaces and symbols; the contents of the copy besides statuses, signals and snapshots.
- **Calibration**: the batch over matured theses (one evaluation after the other), the reports by symbol, agent and signal, and
  the numbers of an evaluation.
- **LLM fallback**: the mode without fallback, where a node is simply called; `fail_open` of the scenario planner (the last node,
  so that no other sees what becomes of it); the opinions analysts build from their answers, whose failure is swallowed
  (`agents/utils/agent_utils.py:276`); model names, keys and arguments.
- **Live state**: the read that builds the answer after a refresh; conditions on volume; several candle intervals; playbooks
  derived from text; the parts of the recommendation behind a blocker (one flag, `gated`); a trade playbook that is not current.
- **Data providers**: the times of rate limit and backoff; `provider_runtime.enabled = false`, where the function is called
  directly; the health check, which nothing calls.
- **Other components** are listed in `PROJECT.json` with the reason. Most have no state that two steps share: reads and
  aggregations for screens (workbench, alerts, operations, performance, backtests, reliability, charts), single inserts (theses, playbooks, decisions),
  numbers (signals, indicators, evaluation over candles), text (prompts, templates, the parsing of answers), SQL. Market data, the engine, BullMQ and the
  clock appear as the environment.

The map covers about a tenth of the repository's implementation lines. The larger part of the rest is of the kinds just
named, or generated (contracts, validators), or screens of the web application (a third of all
lines): code whose correctness is a matter of data, layout and wording, for which a state machine would say no more than the
code does.

## 8. Plan

Done, each with its constants as parameters, one action per operation and no `RECURSIVE` operator:

| Module | Component | Question | Theorems |
|---|---|---|---|
| `JobRecord`, `BullJobs` | jobs, queue mode | causes, engines, cancellations, progress | all but liveness |
| `JobContract`, `MemoryJobs` | jobs, memory mode | refinement, wake-ups | all but liveness |
| `PaperFills`, `PaperExecution` | paper execution | determinism, ledger, repairs | all |
| `ResearchRuns` | research runs, sync | deletion and reset over four stores, late copies and corrections | all but liveness |
| `Calibration` | calibration | indexes, keys and stamps instead of locks | all |
| `ProviderFallback` | LLM providers | crossed switches, wrong charges, open circuits | all but liveness |
| `ScenarioDecision`, `LiveState` | scenario live state | duplicate and missing transitions, unjustified entries | all |
| `ProviderPool` | data providers | permits, hanging calls, a replaced pool | all but liveness |

Left, in this order:

1. `PaperRuns`: two creations of a forward run, the partial index, the 409.
2. `MemoryRestart`: what a restart leaves queued in memory mode with a database.
3. Scenario evaluation, once its second save is no longer refused (section 6).
