--------------------------- MODULE PaperExecution ---------------------------
(***************************************************************************)
(* One paper simulation: its run, its ledger of execution events, and the  *)
(* projections of it, the position and the outcome.                        *)
(*                                                                         *)
(* refresh, cancel and close hold the simulation's lock and run in one     *)
(* Postgres transaction (withSimulationRunLock): each is one action.  GET  *)
(* takes neither: it reads the projections and the ledger in any order and *)
(* saves what it finds missing.                                            *)
(*                                                                         *)
(* A ledger entry is [type, at, price, quantity, reason].  The entries of  *)
(* a fill's order, and the rows of paper_orders, say the same as the entry *)
(* of its position and are left out, so is evaluation_completed, which     *)
(* always follows simulation_completed.                                    *)
(***************************************************************************)
EXTENDS PaperFills, SequencesExt

CONSTANTS
  Plans,        \* playbooks and assumptions a run may be created with
  Candles,      \* candles the market may print
  MaxCandles,   \* bound: candles printed
  Forming,      \* the provider also returns the candle that is being formed
  Requests,     \* requests other than refresh that the user makes
  ClosePrices,  \* explicit prices of a manual close
  Failures,     \* loading the candles may fail, or return none
  Readers       \* GET requests served at the same time

\* validateSimulationPlaybook, and normalizeAssumptions: a price for every level,
\* at least one target, and of the partial targets, which need not be targets of
\* the playbook, those that close less than all.
PlanOK(p) ==
  /\ p.low \in Int /\ p.high \in Int /\ p.stop \in Int
  /\ p.targets \in Seq(Int) /\ p.targets # <<>>
  /\ p.partials \in [DOMAIN p.partials -> 1..(All - 1)]
  /\ DOMAIN p.partials \subseteq Nat \ {0}
  /\ p.expiry \in Nat /\ p.duration \in Nat /\ p.quantity \in Nat \ {0}
  /\ p.force \in BOOLEAN /\ p.mode \in {"forward", "replay"}

ASSUME PaperAssumption ==
  /\ \A p \in Plans : PlanOK(p)
  /\ Candles \subseteq Candle
  /\ MaxCandles \in Nat \ {0}
  /\ Requests \subseteq {"cancel", "close", "abandon"}
  /\ ClosePrices \subseteq Int
  /\ Forming \in BOOLEAN /\ Failures \in BOOLEAN

VARIABLES
  tape,      \* the candles of the run's market-data window
  plan,      \* the frozen playbook and assumptions
  run,       \* status, reason, and the index of last_processed_candle_id
  ledger,    \* execution_events
  position,  \* paper_positions
  outcome,   \* simulation_outcomes
  gets,      \* what each GET request has read
  fresh      \* history: a refresh has seen the tape as it is

market == <<tape, plan>>
rows   == <<run, ledger, position, outcome>>
vars   == <<market, rows, gets, fresh>>

-----------------------------------------------------------------------------
\* The ledger and what it rebuilds.

Event(type, at, price, quantity, reason) ==
  [type |-> type, at |-> at, price |-> price, quantity |-> quantity,
   reason |-> reason]
Note(type, at, reason) == Event(type, at, 0, 0, reason)
Logged(events, type) == \E i \in DOMAIN events : events[i].type = type

CloseReason(e) == IF e.reason = "ambiguous_intrabar" THEN "stop" ELSE e.reason

\* rebuildPositionFromLedger, one entry after the other.
RebuildStep(p, pos, e) ==
  CASE e.type = "position_opened" -> OpenPosition(e.price, e.quantity, e.at)
    [] e.type = "position_closed" /\ pos # NoPosition ->
         ClosePosition(p, pos, e.price, e.quantity, CloseReason(e))
    [] e.type = "position_partially_closed" /\ pos # NoPosition ->
         ReducePosition(p, pos, e.price, e.quantity, CloseReason(e))
    [] OTHER -> pos
Rebuild(p, events) ==
  FoldLeft(LAMBDA pos, e : RebuildStep(p, pos, e), NoPosition, events)

NoOutcome == [result |-> "none", close |-> "none", eligible |-> FALSE]
Inconclusive(close) ==
  [result |-> "inconclusive", close |-> close, eligible |-> FALSE]
Missed == [result |-> "missed", close |-> "setup_expiry", eligible |-> FALSE]

ByPnl(pos) == IF pos.pnl > 0 THEN "win" ELSE IF pos.pnl < 0 THEN "loss"
              ELSE "breakeven"

\* buildOutcome and buildManualCloseOutcome of a closed position.
RuledOutcome(pos, ambiguous) ==
  IF ambiguous \/ pos.closed = "data_end" THEN Inconclusive(pos.closed)
  ELSE [result |-> ByPnl(pos), close |-> pos.closed, eligible |-> TRUE]
ManualOutcome(pos) ==
  [result |-> ByPnl(pos), close |-> "manual_close", eligible |-> FALSE]

Ambiguous(events) ==
  \E i \in DOMAIN events : /\ events[i].type = "position_closed"
                           /\ events[i].reason = "ambiguous_intrabar"

\* Mutant of RebuildOutcome: the expiry of the setup is not looked for.
RebuildOutcomeUnexpired(p, events) ==
  LET pos == Rebuild(p, events)
  IN IF \/ Logged(events, "simulation_failed")
        \/ \E i \in DOMAIN events : events[i].reason = "manual_abandon"
        \/ Logged(events, "data_end_reached") THEN Inconclusive("none")
     ELSE IF pos = NoPosition \/ pos.status # "closed" THEN NoOutcome
     ELSE IF pos.closed = "manual_close" THEN ManualOutcome(pos)
     ELSE RuledOutcome(pos, Ambiguous(events))

\* rebuildOutcomeFromLedger: the first of these cases that applies.
RebuildOutcome(p, events) ==
  LET pos == Rebuild(p, events)
  IN IF Logged(events, "simulation_failed") THEN Inconclusive("none")
     ELSE IF Logged(events, "setup_expired") THEN Missed
     ELSE IF \/ \E i \in DOMAIN events : events[i].reason = "manual_abandon"
             \/ Logged(events, "data_end_reached") THEN Inconclusive("none")
     ELSE IF pos = NoPosition \/ pos.status # "closed" THEN NoOutcome
     ELSE IF pos.closed = "manual_close" THEN ManualOutcome(pos)
     ELSE RuledOutcome(pos, Ambiguous(events))

-----------------------------------------------------------------------------
\* What a locked request leaves behind.

Active == {"waiting_for_trigger", "position_open"}
Row(status, reason, mark) == [status |-> status, reason |-> reason, mark |-> mark]

\* A request saves its projections and events, and answers with detailFromRun,
\* which rebuilds from the ledger the projections that are still missing.
Commits(next, pos, out, events) ==
  /\ run' = next
  /\ ledger' = ledger \o events
  /\ position' = IF pos = NoPosition THEN Rebuild(plan, ledger') ELSE pos
  /\ outcome' = IF out = NoOutcome THEN RebuildOutcome(plan, ledger') ELSE out
  /\ UNCHANGED <<market, gets>>

\* applyPositionTransitions: the position after the exits, and their events.
Code(x) == IF x.ambiguous THEN "ambiguous_intrabar" ELSE x.reason
Apply(p, s, x) ==
  LET q   == ExitQuantity(s.pos, x)
      hit == IF x.reason = "data_end" THEN "data_end_reached" ELSE "exit_hit"
  IN [pos |-> IF x.share = All
              THEN ClosePosition(p, s.pos, x.price, q, x.reason)
              ELSE ReducePosition(p, s.pos, x.price, q, x.reason),
      events |-> s.events \o
        <<Event(hit, x.at, x.price, q, Code(x)),
          Event(IF x.share = All THEN "position_closed"
                ELSE "position_partially_closed",
                x.at, x.price, q, Code(x))>>]
Applied(p, pos, exits) ==
  FoldLeft(LAMBDA s, x : Apply(p, s, x), [pos |-> pos, events |-> <<>>], exits)

\* The last exit is final: the run completes with its reason.
Completes(pos, exits, events) ==
  LET x == exits[Len(exits)]
  IN Commits(Row("completed", x.reason, x.at), pos, RuledOutcome(pos, x.ambiguous),
             Append(events, Note("simulation_completed", x.at, x.reason)))

Ends(status, mark, reason, out, events) ==
  Commits(Row(status, reason, mark), position, out,
          Append(events, Note("simulation_completed", mark, reason)))

-----------------------------------------------------------------------------
\* POST /simulations/:id/refresh, with the candles cs the provider returns.
\* Without a position it looks for the entry from the first candle on.

Response(cs) == cs = tape \/ (Failures /\ cs = <<>>)

\* Mutants: the position, or the status of the run, is not looked at.
SeeksAgain == run.status \in Active
HoldsEnded == position.status \in {"open", "partially_closed"}

Seeks == run.status \in Active /\ position = NoPosition
Holds == run.status \in Active /\ position.status \in {"open", "partially_closed"}

\* failRun("missing_ohlcv").
RefreshFindsNoCandles(cs) ==
  /\ Seeks /\ cs = <<>>
  /\ Commits(Row("failed", "missing_ohlcv", run.mark), position,
             Inconclusive("none"), <<Note("simulation_failed", 0, "missing_ohlcv")>>)

Entry(cs) == FindEntry(plan, Eligible(plan, cs))

\* completeMissedRun.
RefreshMisses(cs) ==
  /\ Seeks /\ cs # <<>> /\ Entry(cs) = NoEntry /\ Expired(plan, cs)
  /\ LET at == plan.expiry + 1
     IN Ends("completed", at, "setup_expiry", Missed,
             <<Note("setup_expired", at, "entry_missed")>>)

\* completeNoEntryDataEndRun.
RefreshEndsUnfilled(cs) ==
  /\ Seeks /\ cs # <<>> /\ Entry(cs) = NoEntry /\ ~Expired(plan, cs)
  /\ plan.mode = "replay"
  /\ Ends("completed", Len(cs), "data_end_reached", Inconclusive("none"),
          <<Note("data_end_reached", Len(cs), "data_end_reached")>>)

RefreshWaits(cs) ==
  /\ Seeks /\ cs # <<>> /\ Entry(cs) = NoEntry /\ ~Expired(plan, cs)
  /\ plan.mode = "forward"
  /\ Commits(Row("waiting_for_trigger", "waiting_for_entry_trigger", Len(cs)),
             position, outcome, <<>>)

\* The entry, and every exit in the candles after it.  A replay that is still
\* in the market completes where its data end and keeps the position open.
RefreshEnters(cs) ==
  LET e      == Entry(cs)
      exits  == Transitions(plan, cs, e.at, e.at, plan.partials)
      after  == Applied(plan, OpenPosition(e.price, plan.quantity, e.at), exits)
      events == <<Event("position_opened", e.at, e.price, plan.quantity,
                        "entry_filled")>> \o after.events
      mark   == IF exits = <<>> THEN e.at ELSE exits[Len(exits)].at
      dry    == Note("data_end_reached", Len(cs), "data_end_reached")
      over   == Note("simulation_completed", Len(cs), "data_end_reached")
  IN /\ Seeks /\ cs # <<>> /\ e # NoEntry
     /\ CASE IsFinal(exits) -> Completes(after.pos, exits, events)
          [] ~IsFinal(exits) /\ plan.mode = "replay" ->
               Commits(Row("completed", "data_end_reached", Len(cs)), after.pos,
                       Inconclusive("none"), events \o <<dry, over>>)
          [] OTHER ->
               Commits(Row("position_open",
                           IF after.pos.status = "partially_closed"
                           THEN "partial_target_filled" ELSE "entry_filled", mark),
                       after.pos, outcome, events)

\* refreshOpenPosition: the candles after the watermark; partial targets only
\* while nothing was closed yet.
RefreshHolds(cs) ==
  LET partials == IF position.status = "open" THEN plan.partials ELSE NoPartials
      exits    == Transitions(plan, cs, run.mark, position.since, partials)
      after    == Applied(plan, position, exits)
      mark     == IF Len(cs) > run.mark THEN Len(cs) ELSE run.mark
  IN /\ Holds
     /\ CASE exits = <<>> ->
               Commits([run EXCEPT !.mark = mark], position, outcome, <<>>)
          [] IsFinal(exits) -> Completes(after.pos, exits, after.events)
          [] OTHER ->
               Commits(Row("position_open", "partial_target_filled",
                           exits[Len(exits)].at),
                       after.pos, outcome, after.events)

\* Nothing to do but to answer: the run has ended, or its position is closed.
Answers ==
  /\ ~Seeks /\ ~Holds
  /\ Commits(run, position, outcome, <<>>)

Refresh ==
  /\ \/ \E cs \in {tape, <<>>} :
          /\ Response(cs)
          /\ \/ RefreshFindsNoCandles(cs) \/ RefreshMisses(cs)
             \/ RefreshEndsUnfilled(cs) \/ RefreshWaits(cs)
             \/ RefreshEnters(cs) \/ RefreshHolds(cs)
          /\ fresh' = (fresh \/ cs = tape)
     \/ Answers /\ UNCHANGED fresh

\* loadCandles throws: handleRefreshFailure fails the run and leaves the
\* position as it is.
RefreshThrows ==
  /\ Failures /\ (Seeks \/ Holds)
  /\ Commits(Row("failed", "engine_failure", run.mark), position,
             Inconclusive("none"), <<Note("simulation_failed", 0, "engine_failure")>>)
  /\ UNCHANGED fresh

-----------------------------------------------------------------------------
\* The other requests.

\* cancelSimulation: the event's idempotency key is the same every time.
Cancel ==
  /\ "cancel" \in Requests
  /\ position.status \in {"none", "closed"}
  /\ Commits(Row("cancelled", "manual_cancel", run.mark), position, outcome,
             IF Logged(ledger, "simulation_cancelled") THEN <<>>
             ELSE <<Note("simulation_cancelled", 0, "manual_cancel")>>)
  /\ UNCHANGED fresh

\* closeSimulation with manual_close, at the last candle's close or at a price
\* the user gives.
CloseManually ==
  /\ "close" \in Requests /\ Holds
  /\ \E at \in {run.mark, Len(tape)} :
     \E price \in IF at = Len(tape) THEN ClosePrices \cup {tape[at].close}
                  ELSE ClosePrices :
       LET pos == ClosePosition(plan, position, price, position.remaining,
                                "manual_close")
       IN Commits(Row("completed", "manual_close", at), pos, ManualOutcome(pos),
                  <<Event("position_closed", at, price, position.remaining,
                          "manual_close"),
                    Note("simulation_completed", at, "manual_close")>>)
  /\ UNCHANGED fresh

\* closeSimulation with abandon_inconclusive: the position stays open.
Abandon ==
  /\ "abandon" \in Requests /\ Holds
  /\ Ends("completed", run.mark, "manual_abandon", Inconclusive("none"), <<>>)
  /\ UNCHANGED fresh

-----------------------------------------------------------------------------
\* GET /simulations/:id: three reads in any order, then the repairs.

Idle  == [at |-> "idle"]
Done  == [at |-> "done"]
Begun == [at |-> "reading", read |-> {}, position |-> NoPosition,
          outcome |-> NoOutcome, ledger |-> <<>>]

Begin(g) ==
  /\ gets[g] \in {Idle, Done}
  /\ gets' = [gets EXCEPT ![g] = Begun]
  /\ UNCHANGED <<market, rows, fresh>>

Reads(g, table, row) ==
  /\ gets[g].at = "reading" /\ table \notin gets[g].read
  /\ gets' = [gets EXCEPT ![g] = [row EXCEPT !.read = @ \cup {table}]]
  /\ UNCHANGED <<market, rows, fresh>>

ReadPosition(g) == Reads(g, "position", [gets[g] EXCEPT !.position = position])
ReadOutcome(g)  == Reads(g, "outcome", [gets[g] EXCEPT !.outcome = outcome])
ReadLedger(g)   == Reads(g, "ledger", [gets[g] EXCEPT !.ledger = ledger])

SavePosition(g) ==
  /\ gets[g].at = "reading" /\ gets[g].read = {"position", "outcome", "ledger"}
  /\ LET rebuilt == Rebuild(plan, gets[g].ledger)
     IN position' = IF gets[g].position = NoPosition /\ rebuilt # NoPosition
                    THEN rebuilt ELSE position
  /\ gets' = [gets EXCEPT ![g].at = "saving"]
  /\ UNCHANGED <<market, run, ledger, outcome, fresh>>

SaveOutcome(g) ==
  /\ gets[g].at = "saving"
  /\ LET rebuilt == RebuildOutcome(plan, gets[g].ledger)
     IN outcome' = IF gets[g].outcome = NoOutcome /\ rebuilt # NoOutcome
                   THEN rebuilt ELSE outcome
  /\ gets' = [gets EXCEPT ![g] = Done]
  /\ UNCHANGED <<market, run, ledger, position, fresh>>

-----------------------------------------------------------------------------
\* The market.

\* The next candle opens; the last one is final.
Tick ==
  /\ plan.mode = "forward" /\ Len(tape) < MaxCandles
  /\ \E c \in Candles : tape' = Append(tape, c)
  /\ fresh' = FALSE
  /\ UNCHANGED <<plan, rows, gets>>

Widens(c, d) == d.open = c.open /\ d.high >= c.high /\ d.low <= c.low /\ d # c

\* The candle that is being formed trades at further prices.
Grow ==
  /\ Forming /\ plan.mode = "forward" /\ tape # <<>>
  /\ \E c \in Candles :
       /\ Widens(tape[Len(tape)], c)
       /\ tape' = [tape EXCEPT ![Len(tape)] = c]
  /\ fresh' = FALSE
  /\ UNCHANGED <<plan, rows, gets>>

\* createSimulation: a forward run starts before its first candle, a replay has
\* at least one.
Init ==
  /\ plan \in Plans
  /\ tape \in IF plan.mode = "forward" THEN {<<>>}
              ELSE UNION {[1..n -> Candles] : n \in 1..MaxCandles}
  /\ run = Row("waiting_for_trigger", "waiting_for_entry_trigger", 0)
  /\ ledger = <<>>
  /\ position = NoPosition
  /\ outcome = NoOutcome
  /\ gets = [g \in Readers |-> Idle]
  /\ fresh = FALSE

Next ==
  \/ Tick \/ Grow
  \/ Refresh \/ RefreshThrows \/ Cancel \/ CloseManually \/ Abandon
  \/ \E g \in Readers : \/ Begin(g) \/ ReadPosition(g) \/ ReadOutcome(g)
                         \/ ReadLedger(g) \/ SavePosition(g) \/ SaveOutcome(g)

Spec == Init /\ [][Next]_vars

-----------------------------------------------------------------------------
(***************************************************************************)
(* Properties                                                              *)
(***************************************************************************)
Statuses == {"waiting_for_trigger", "position_open", "completed", "failed",
             "cancelled"}

\* The variables have their types.
TypeOK ==
  /\ tape \in Seq(Candle) /\ plan \in Plans
  /\ run.status \in Statuses /\ run.mark \in 0..(MaxCandles + 1)
  /\ position = NoPosition \/
       /\ position.status \in {"open", "partially_closed", "closed"}
       /\ position.since \in 1..Len(tape)
       /\ position.remaining \in 0..position.opened
       /\ position.status # "closed" <=> position.remaining > 0
  /\ outcome.result \in {"none", "win", "loss", "breakeven", "missed",
                         "inconclusive"}
  /\ fresh \in BOOLEAN

\* The rows of the position and the outcome are what the ledger, the source of
\* truth, rebuilds, whoever saved them, up to the close reason of a forced close.
\* A GET request that read before another one committed may bring an earlier
\* position back, but only when the run has ended, or has partial targets.
Polled == \E g \in Readers : gets[g] # Idle
Replayed(n) == position = Rebuild(plan, SubSeq(ledger, 1, n))
LedgerRebuilds ==
  \/ /\ \/ outcome = RebuildOutcome(plan, ledger)
        \/ /\ plan.force /\ outcome = Inconclusive("data_end")
           /\ RebuildOutcome(plan, ledger) = Inconclusive("none")
     /\ \/ Replayed(Len(ledger))
        \/ /\ Polled /\ run.status \notin Active
           /\ \E n \in 0..Len(ledger) : Replayed(n)
  \/ Polled /\ plan.partials # NoPartials

\* A run that refreshes saw in pieces is what one refresh over all its candles up
\* to the watermark would have made of it.  (Plans without partial targets and
\* forced close, and only what a refresh decided.)
OneShot(cs) ==
  LET e     == FindEntry(plan, Eligible(plan, cs))
      exits == Transitions(plan, cs, e.at, e.at, NoPartials)
  IN IF e = NoEntry THEN NoPosition
     ELSE Applied(plan, OpenPosition(e.price, plan.quantity, e.at), exits).pos
Decided == {"stop", "target", "position_timeout", "setup_expiry"}
Deterministic ==
  \/ plan.partials # NoPartials \/ plan.force
  \/ run.status \notin Active /\ run.reason \notin Decided
  \/ position = OneShot(SubSeq(tape, 1, run.mark))

\* A position is still open only when no candle after its entry and up to the
\* watermark, which no refresh will look at again, traded at the stop.
Clears(c) == IF Short(plan) THEN c.high < plan.stop ELSE c.low > plan.stop
NoStopSkipped ==
  Holds => \A i \in (position.since + 1)..run.mark : Clears(tape[i])

\* What the exit orders sold and what is left is what the entry order bought.
Sells(e) == e.type \in {"position_closed", "position_partially_closed"}
SoldStep(sum, e) == IF Sells(e) THEN sum + e.quantity ELSE sum
Sold(events) == FoldLeft(SoldStep, 0, events)
ExitsAddUp == position # NoPosition => Sold(ledger) + position.remaining = position.opened

\* A run is concluded by exactly one event of its ledger, or was cancelled
\* before any.
Conclusions == {i \in DOMAIN ledger :
                  ledger[i].type \in {"simulation_completed", "simulation_failed"}}
ConcludesOnce ==
  /\ Cardinality(Conclusions) <= 1
  /\ run.status \in Active => Conclusions = {}
  /\ run.status \in {"completed", "failed"} => Conclusions # {}

\* A second refresh over the same candles emits no events, unless the position
\* is partially closed: then it may close the rest.
RepeatOnlyCloses ==
  [][fresh /\ Refresh =>
       \/ UNCHANGED ledger
       \/ position.status = "partially_closed" /\ position'.status = "closed"]_vars
=============================================================================
