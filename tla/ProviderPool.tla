----------------------------- MODULE ProviderPool -----------------------------
(***************************************************************************)
(* The engine's calls to data providers (dataflows/interface.py): a call   *)
(* goes down a chain of vendors, tries each a number of times, and runs    *)
(* every attempt on a shared thread pool whose permits bound what is       *)
(* submitted.  An attempt that times out is abandoned but keeps its thread *)
(* and its permit until the vendor answers.  A call whose configuration    *)
(* asks for another number of workers replaces the pool for everybody.     *)
(* The sleeps (rate limit, backoff) are the time before the next step.     *)
(***************************************************************************)
EXTENDS Naturals, Sequences, FiniteSets

CONSTANTS
  Calls,     \* calls of route_to_vendor, each in a thread of its own
  Chain,     \* the vendors of the method, the configured ones first
  Disabled,  \* disabled_data_vendors
  Configs,   \* of each call: get_config(), that is a "live" run, a "replay" or
             \* a "strict" one and provider_runtime.max_workers; and whether
             \* the end it asks for is after a replay's date, or no date at all
  Rejected,  \* per mode, the vendors that do not satisfy its historical contract
  Retries    \* provider_runtime.retries

ASSUME ProviderPoolAssumption ==
  /\ IsFiniteSet(Calls)
  /\ Chain \in Seq(STRING) /\ Disabled \subseteq STRING
  /\ Rejected \in [{"live", "replay", "strict"} -> SUBSET STRING]
  /\ Rejected["live"] = {}
  /\ Retries \in Nat
  /\ Configs \subseteq [Calls -> [mode : {"live", "replay", "strict"},
                                 workers : Nat \ {0}, late : BOOLEAN]]

Attempts == Calls \X (1..Len(Chain)) \X (1..(Retries + 1))
None == <<>>

\* What a vendor's function returns or raises: data, data with a timestamp
\* after the replay date, an error that is retryable, or another.
Results == {"data", "late data", "retryable", "fatal"}

VARIABLES
  config,            \* fixed
  pc, turn, try,     \* per call: next step, vendor, attempt
  pool,              \* per call: the executor and semaphore it holds; a pool
                     \* is known by the attempt that made it
  answer,            \* per call: how it ended
  current,           \* _EXECUTOR, _EXECUTOR_SEMAPHORE
  permits,           \* per pool: the value of its semaphore
  result,            \* per call: what came of the attempt it waits for
  future, home,      \* per attempt: its future, and the pool while it is there
  failed             \* history: attempts given up as retryable

calls   == <<config, pc, turn, try, pool, answer, failed>>
futures == <<future, home>>
vars    == <<calls, result, current, permits, futures>>

\* A future that has a permit.
Alive == {"queued", "running", "finished"}
Size(p) == config[p[1]].workers
Mine(c) == <<c, turn[c], try[c]>>

TypeOK ==
  /\ config \in Configs
  /\ pc \in [Calls -> {"new", "vendor", "pool", "permit", "submit", "wait", "done"}]
  /\ turn \in [Calls -> 1..(Len(Chain) + 1)] /\ try \in [Calls -> 1..(Retries + 1)]
  /\ \A c \in Calls : pc[c] \notin {"new", "vendor", "done"} => turn[c] <= Len(Chain)
  /\ pool \in [Calls -> Attempts \cup {None}]
  /\ \A c \in Calls : pc[c] \in {"permit", "submit", "wait"} => pool[c] \in Attempts
  /\ answer \in [Calls -> {"none", "data", "fatal", "policy", "unavailable"}]
  /\ current \in Attempts \cup {None} /\ permits \in [Attempts -> Nat]
  /\ future \in [Attempts -> {"none", "queued", "running", "finished", "over"}]
  /\ home \in [Attempts -> Attempts \cup {None}]
  /\ \A a \in Attempts : future[a] \in Alive => home[a] \in Attempts
  /\ result \in [Calls -> Results \cup {"none", "cancelled"}]
  /\ failed \subseteq Attempts

Init ==
  /\ config \in Configs
  /\ pc = [c \in Calls |-> "new"] /\ turn = [c \in Calls |-> 1]
  /\ try = [c \in Calls |-> 1] /\ pool = [c \in Calls |-> None]
  /\ answer = [c \in Calls |-> "none"] /\ failed = {}
  /\ current = None /\ permits = [p \in Attempts |-> 0]
  /\ future = [a \in Attempts |-> "none"] /\ home = [a \in Attempts |-> None]
  /\ result = [c \in Calls |-> "none"]

-----------------------------------------------------------------------------
(* route_to_vendor, route_to_vendor_historical *)

pools == <<current, permits, futures>>

Goes(c, from, to) == pc[c] = from /\ pc' = [pc EXCEPT ![c] = to]

Starts(c) ==
  /\ Goes(c, "new", "vendor")
  /\ UNCHANGED <<config, turn, try, pool, answer, failed, result, pools>>

Ends(c, with) ==
  /\ pc' = [pc EXCEPT ![c] = "done"] /\ answer' = [answer EXCEPT ![c] = with]
  /\ pool' = [pool EXCEPT ![c] = None]
  /\ UNCHANGED <<config, turn, try, failed, result>>

NextVendor(c) ==
  /\ pc' = [pc EXCEPT ![c] = "vendor"] /\ turn' = [turn EXCEPT ![c] = @ + 1]
  /\ try' = [try EXCEPT ![c] = 1] /\ UNCHANGED <<config, answer>>

Vendor(c) == Chain[turn[c]]
IsDisabled(c) == Vendor(c) \in Disabled
IsRejected(c) == Vendor(c) \in Rejected[config[c].mode]
TooLate(c) == config[c].mode # "live" /\ config[c].late

RunsOut(c) ==
  /\ pc[c] = "vendor" /\ turn[c] > Len(Chain)
  /\ Ends(c, "unavailable") /\ UNCHANGED pools

SkipsVendor(c) ==
  /\ pc[c] = "vendor" /\ turn[c] <= Len(Chain)
  /\ IsDisabled(c) \/ (IsRejected(c) /\ config[c].mode = "replay")
  /\ NextVendor(c) /\ UNCHANGED <<pool, failed, result, pools>>

RefusesVendor(c) ==
  /\ pc[c] = "vendor" /\ turn[c] <= Len(Chain)
  /\ ~IsDisabled(c) /\ IsRejected(c) /\ config[c].mode = "strict"
  /\ Ends(c, "policy") /\ UNCHANGED pools

\* _validate_requested_timestamp, before the first attempt.
RefusesRequest(c) ==
  /\ pc[c] = "vendor" /\ turn[c] <= Len(Chain)
  /\ ~IsDisabled(c) /\ ~IsRejected(c) /\ TooLate(c)
  /\ Ends(c, "policy") /\ UNCHANGED pools

TriesVendor(c) ==
  /\ turn[c] <= Len(Chain) /\ ~IsDisabled(c) /\ ~IsRejected(c) /\ ~TooLate(c)
  /\ Goes(c, "vendor", "pool")
  /\ UNCHANGED <<config, turn, try, pool, answer, failed, result, pools>>

-----------------------------------------------------------------------------
(* _invoke_with_resilience: an attempt failed with a retryable error *)

\* Mutants: one attempt too few, and one too many.
GivesUpEarly(c) ==
  /\ failed' = failed \cup {Mine(c)}
  /\ pool' = [pool EXCEPT ![c] = None] /\ result' = [result EXCEPT ![c] = "none"]
  /\ \/ /\ try[c] < Retries
        /\ pc' = [pc EXCEPT ![c] = "pool"] /\ try' = [try EXCEPT ![c] = @ + 1]
        /\ UNCHANGED <<config, turn, answer>>
     \/ try[c] >= Retries /\ NextVendor(c)

GivesUpLate(c) ==
  /\ failed' = failed \cup {Mine(c)}
  /\ pool' = [pool EXCEPT ![c] = None] /\ result' = [result EXCEPT ![c] = "none"]
  /\ \/ /\ try[c] <= Retries + 1
        /\ pc' = [pc EXCEPT ![c] = "pool"] /\ try' = [try EXCEPT ![c] = @ + 1]
        /\ UNCHANGED <<config, turn, answer>>
     \/ try[c] > Retries + 1 /\ NextVendor(c)

GivesUp(c) ==
  /\ failed' = failed \cup {Mine(c)}
  /\ pool' = [pool EXCEPT ![c] = None] /\ result' = [result EXCEPT ![c] = "none"]
  /\ \/ /\ try[c] <= Retries
        /\ pc' = [pc EXCEPT ![c] = "pool"] /\ try' = [try EXCEPT ![c] = @ + 1]
        /\ UNCHANGED <<config, turn, answer>>
     \/ try[c] > Retries /\ NextVendor(c)

-----------------------------------------------------------------------------
(* _get_provider_executor *)

Queued(p) == {a \in Attempts : future[a] = "queued" /\ home[a] = p}

Keeps(c) == current # None /\ Size(current) = config[c].workers

GetsPool(c) ==
  /\ Goes(c, "pool", "permit") /\ Keeps(c)
  /\ pool' = [pool EXCEPT ![c] = current]
  /\ UNCHANGED <<config, turn, try, answer, failed, result, pools>>

\* Mutant: shutdown() without cancel_futures.
ReplacesPoolAlone(c) ==
  /\ Goes(c, "pool", "permit") /\ ~Keeps(c)
  /\ pool' = [pool EXCEPT ![c] = Mine(c)] /\ current' = Mine(c)
  /\ permits' = [permits EXCEPT ![Mine(c)] = config[c].workers]
  /\ UNCHANGED <<config, turn, try, answer, failed, result, futures>>

\* A new pool, and shutdown(cancel_futures=True) of the old one, for whoever
\* waits for what is queued there.
ReplacesPool(c) ==
  LET cancelled == Queued(current)
  IN /\ Goes(c, "pool", "permit") /\ ~Keeps(c)
     /\ pool' = [pool EXCEPT ![c] = Mine(c)] /\ current' = Mine(c)
     /\ permits' = [p \in Attempts |->
                      IF p = Mine(c) THEN config[c].workers
                      ELSE IF p = current THEN permits[p] + Cardinality(cancelled)
                      ELSE permits[p]]
     /\ future' = [a \in Attempts |-> IF a \in cancelled THEN "over" ELSE future[a]]
     /\ home' = [a \in Attempts |-> IF a \in cancelled THEN None ELSE home[a]]
     /\ result' = [d \in Calls |-> IF Mine(d) \in cancelled THEN "cancelled"
                                   ELSE result[d]]
     /\ UNCHANGED <<config, turn, try, answer, failed>>

-----------------------------------------------------------------------------
(* _submit_provider_call *)

TakesPermit(c) ==
  /\ Goes(c, "permit", "submit") /\ permits[pool[c]] > 0
  /\ permits' = [permits EXCEPT ![pool[c]] = @ - 1]
  /\ UNCHANGED <<config, turn, try, pool, answer, failed, result, current, futures>>

\* Mutant: acquire() without a timeout.
NeverSaturated(c) == FALSE /\ UNCHANGED vars

\* No permit within the timeout.
FindsItSaturated(c) ==
  /\ pc[c] = "permit" /\ permits[pool[c]] = 0
  /\ GivesUp(c) /\ UNCHANGED pools

Submits(c) ==
  /\ Goes(c, "submit", "wait") /\ pool[c] = current
  /\ future' = [future EXCEPT ![Mine(c)] = "queued"]
  /\ home' = [home EXCEPT ![Mine(c)] = pool[c]]
  /\ UNCHANGED <<config, turn, try, pool, answer, failed, result, current, permits>>

\* submit raises on a pool that was shut down; the permit goes back, and the
\* error is neither retryable nor one that another vendor is tried for.
CannotSubmit(c) ==
  /\ pc[c] = "submit" /\ pool[c] # current
  /\ permits' = [permits EXCEPT ![pool[c]] = @ + 1]
  /\ Ends(c, "fatal") /\ UNCHANGED <<current, futures>>

-----------------------------------------------------------------------------
(* The threads of a pool, and the done callback of a future *)

Running(p) == {a \in Attempts : future[a] = "running" /\ home[a] = p}

Runs(a) ==
  /\ future[a] = "queued" /\ Cardinality(Running(home[a])) < Size(home[a])
  /\ future' = [future EXCEPT ![a] = "running"]
  /\ UNCHANGED <<calls, result, current, permits, home>>

\* The vendor answers, to a call that waits or has given the attempt up.
Finishes(a) ==
  /\ future[a] = "running" /\ future' = [future EXCEPT ![a] = "finished"]
  /\ \/ a \in failed /\ UNCHANGED result
     \/ a \notin failed /\ \E r \in Results : result' = [result EXCEPT ![a[1]] = r]
  /\ UNCHANGED <<calls, current, permits, home>>

\* The callback runs after those who wait have been woken.
Releases(a) ==
  /\ future[a] = "finished" /\ future' = [future EXCEPT ![a] = "over"]
  /\ permits' = [permits EXCEPT ![home[a]] = @ + 1]
  /\ home' = [home EXCEPT ![a] = None]
  /\ UNCHANGED <<calls, result, current>>

-----------------------------------------------------------------------------
(* fut.result(timeout) *)

GetsData(c) ==
  /\ pc[c] = "wait"
  /\ result[c] = "data" \/ (result[c] = "late data" /\ config[c].mode = "live")
  /\ Ends(c, "data") /\ UNCHANGED pools

\* _validate_response_timestamp.
FindsLookahead(c) ==
  /\ pc[c] = "wait" /\ result[c] = "late data" /\ config[c].mode # "live"
  /\ Ends(c, "policy") /\ UNCHANGED pools

\* The CancelledError of a future that went with its pool is like any other
\* error that is neither retryable nor transient.
GetsFatal(c) ==
  /\ pc[c] = "wait" /\ result[c] \in {"fatal", "cancelled"}
  /\ Ends(c, "fatal") /\ UNCHANGED pools

GetsRetryable(c) ==
  /\ pc[c] = "wait" /\ result[c] = "retryable"
  /\ GivesUp(c) /\ UNCHANGED pools

\* Mutant: the permit goes back with the timeout.
TimesOutWhole(c) ==
  /\ pc[c] = "wait" /\ future[Mine(c)] = "running"
  /\ permits' = [permits EXCEPT ![home[Mine(c)]] = @ + 1]
  /\ GivesUp(c) /\ UNCHANGED <<current, futures>>

\* cancel() does nothing to a future that runs.
TimesOut(c) ==
  /\ pc[c] = "wait" /\ future[Mine(c)] = "running"
  /\ GivesUp(c) /\ UNCHANGED pools

TimesOutQueued(c) ==
  /\ pc[c] = "wait" /\ future[Mine(c)] = "queued"
  /\ future' = [future EXCEPT ![Mine(c)] = "over"]
  /\ permits' = [permits EXCEPT ![home[Mine(c)]] = @ + 1]
  /\ home' = [home EXCEPT ![Mine(c)] = None]
  /\ GivesUp(c) /\ UNCHANGED current

-----------------------------------------------------------------------------
GoesOn(c) ==
  \/ RunsOut(c) \/ SkipsVendor(c) \/ RefusesVendor(c) \/ RefusesRequest(c)
  \/ TriesVendor(c)
  \/ GetsPool(c) \/ ReplacesPool(c) \/ TakesPermit(c) \/ FindsItSaturated(c)
  \/ Submits(c) \/ CannotSubmit(c) \/ GetsData(c) \/ FindsLookahead(c)
  \/ GetsFatal(c) \/ GetsRetryable(c) \/ TimesOut(c) \/ TimesOutQueued(c)

Thread(a) == Runs(a) \/ Finishes(a) \/ Releases(a)

Next == (\E c \in Calls : Starts(c) \/ GoesOn(c)) \/ (\E a \in Attempts : Thread(a))

\* A caller goes on, and what it waits for times out; a vendor may never answer.
Fairness == \A c \in Calls : WF_vars(GoesOn(c))
Spec == Init /\ [][Next]_vars /\ Fairness

-----------------------------------------------------------------------------
(* Properties *)

\* No permit is lost or made up: those left, those of calls about to submit
\* and those of futures under way are as many as the pool has threads.  (A pool
\* that was never made has none.)
Holders(p) == {c \in Calls : pc[c] = "submit" /\ pool[c] = p}
InFlight(p) == {a \in Attempts : home[a] = p}
PermitsAreKept ==
  \A p \in Attempts :
    \/ permits[p] + Cardinality(Holders(p)) + Cardinality(InFlight(p)) = Size(p)
    \/ /\ permits[p] = 0 /\ InFlight(p) = {}
       /\ p # current /\ \A c \in Calls : pool[c] # p

\* What was submitted never waits for a thread, however many abandoned attempts
\* keep theirs, nor in a pool that was replaced.
NoneWaitsForAThread ==
  \A a \in Attempts : future[a] = "queued" =>
    /\ home[a] = current
    /\ Cardinality(Running(home[a])) < Size(home[a])

\* A call gives up only after all the attempts at every vendor it may ask, and
\* asks no other; it raises something else only if a vendor did, or if a call
\* with another number of workers replaced the pool.  A replay gets no data from
\* after its date and asks nobody for them: it stops at data that are late, at
\* its own request if that is, or, when strict, at a vendor that does not fit.
MayAsk(c, v) == v \notin Disabled /\ v \notin Rejected[config[c].mode]
Unfit(c) == turn[c] <= Len(Chain) /\ ~IsDisabled(c) /\ IsRejected(c)
AnswersAreEarned ==
  /\ \A a \in Attempts : a \in failed \/ future[a] # "none" =>
       MayAsk(a[1], Chain[a[2]]) /\ ~TooLate(a[1])
  /\ \A c \in Calls :
       CASE answer[c] = "unavailable" ->
              \A a \in Attempts : a[1] = c /\ MayAsk(c, Chain[a[2]]) => a \in failed
         [] answer[c] = "fatal" ->
              result[c] = "fatal" \/ \E d \in Calls : config[d].workers # config[c].workers
         [] answer[c] = "data" ->
              result[c] = "data" \/ (config[c].mode = "live" /\ result[c] = "late data")
         [] answer[c] = "policy" ->
              \/ result[c] = "late data" /\ config[c].mode # "live"
              \/ TooLate(c)
              \/ config[c].mode = "strict" /\ Unfit(c)
         [] OTHER -> pc[c] # "done"

\* A call is answered, even when no vendor ever answers and every thread hangs.
EveryCallEnds == \A c \in Calls : pc[c] # "new" ~> pc[c] = "done"
=============================================================================
