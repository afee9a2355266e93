------------------------------ MODULE LiveState ------------------------------
(***************************************************************************)
(* The live state of one scenario (ScenarioLiveStateService): a refresh    *)
(* reads the last saved snapshot of the state, then the market, evaluates  *)
(* the scenario, saves an event for each transition it finds and saves the *)
(* new snapshot.  Nothing is locked, the statements are not one            *)
(* transaction, and the id of an event is a hash of what happened on which *)
(* market snapshot, so that a repetition is not recorded.                  *)
(***************************************************************************)
EXTENDS ScenarioDecision, FiniteSets

CONSTANTS
  Refreshes,    \* requests to refresh, each made once
  Scenarios,    \* the scenarios the run considers
  Prices,       \* of a market snapshot
  Candles,      \* [close, high] of a candle
  Opened,       \* prices of the market snapshot there may be at first
  Known,        \* the candles there are at first
  StaleAfter,   \* MARKET_STALE_MINUTES, in steps of the clock
  MaxSnapshots, \* bound: market snapshots
  MaxCandles,   \* bound: candles that begin
  MaxTicks,     \* bound: steps of the clock
  MaxPending,   \* bound: refreshes under way at the same time
  MaxLost       \* bound: refreshes that end early

ASSUME LiveStateAssumption ==
  /\ MaxSnapshots \in Nat /\ MaxCandles \in Nat /\ MaxTicks \in Nat
  /\ MaxPending \in Nat /\ MaxLost \in Nat
  /\ StaleAfter \in Nat /\ Opened \subseteq Prices
  /\ Opened # {} => MaxSnapshots > 0
  /\ Prices \subseteq Nat \ {0}
  /\ Candles \subseteq [close : Nat \ {0}, high : Nat \ {0}]
  /\ \A s \in Scenarios :
       \A list \in {s.entry, s.invalidation, s.avoid, s.targets} :
         Len(list) \in Nat /\ DOMAIN list = 1..Len(list)

None == "none"
Reported == {"triggered", "invalidated", "passed", "failed", "hit"}

VARIABLES
  scenario,    \* the scenario and its playbooks; fixed
  market,      \* market snapshots [price, captured]; the last is the latest
  candles,     \* those the exchange answers; the last is still forming
  clock,       \* Date.now()
  events,      \* rows of scenario_events
  saved,       \* rows of scenario_live_state_snapshots
  pc, prev, seen, now, state, todo, \* per refresh: step, statuses of the
               \* snapshot it read, market snapshot, evaluated_at, statuses
               \* and action it found, and the places among them of the events
               \* still to be saved
  met, lost    \* history: per refresh, those under way at the same time, and
               \* those whose row it took with what they had met; refreshes
               \* that ended before they saved

world == <<scenario, market, candles, clock>>
rows == <<events, saved>>
vars == <<world, rows, pc, prev, seen, now, state, todo, met, lost>>

TypeOK ==
  /\ scenario \in Scenarios
  /\ \A i \in DOMAIN market : market[i].price \in Prices
                              /\ market[i].captured \in 0..clock
  /\ \A e \in events : /\ e.to \in Reported /\ e.to # e.from
                       /\ e.time \in 1..clock /\ e.market \in Nat
  /\ \A x \in saved : x.at \in 1..clock /\ x.by \in Refreshes
                      /\ x.market \in 0..Len(market)
  /\ \A x, y \in saved : x.at = y.at => x = y
  /\ pc \in [Refreshes -> {"new", "load", "stamp", "candles", "events", "save",
                           "done"}]
  /\ \A r \in Refreshes : todo[r] # {} <=> pc[r] = "events"
  /\ seen \in [Refreshes -> 0..Len(market)] /\ now \in [Refreshes -> 0..clock]
  /\ met \in [Refreshes -> SUBSET Refreshes] /\ lost \subseteq Refreshes

Init ==
  /\ scenario \in Scenarios /\ candles = Known /\ clock = 1
  /\ \/ market = << >>
     \/ \E p \in Opened : market = <<[price |-> p, captured |-> 1]>>
  /\ events = {} /\ saved = {}
  /\ pc = [r \in Refreshes |-> "new"] /\ prev = [r \in Refreshes |-> << >>]
  /\ seen = [r \in Refreshes |-> 0] /\ now = [r \in Refreshes |-> 0]
  /\ state = [r \in Refreshes |-> << >>] /\ todo = [r \in Refreshes |-> {}]
  /\ met = [r \in Refreshes |-> {}] /\ lost = {}

-----------------------------------------------------------------------------
(* What happens outside: market data and time *)

MarketMoves ==
  /\ Len(market) < MaxSnapshots
  /\ \E p \in Prices :
       market' = Append(market, [price |-> p, captured |-> clock'])

\* The last candle is traded on, or closes and the next one begins.
CandleMoves ==
  \E c \in Candles :
    \/ /\ candles # << >> /\ c.high >= candles[Len(candles)].high
       /\ candles' = [candles EXCEPT ![Len(candles)] = c]
    \/ /\ Len(candles) < Len(Known) + MaxCandles /\ c.high = c.close
       /\ candles' = Append(candles, c)

\* A millisecond passes, and with it the market may move.
Tick ==
  /\ clock <= MaxTicks /\ clock' = clock + 1
  /\ MarketMoves \/ UNCHANGED market
  /\ CandleMoves \/ UNCHANGED candles
  /\ UNCHANGED <<scenario, rows, pc, prev, seen, now, state, todo, met, lost>>

-----------------------------------------------------------------------------
(* refreshLiveState *)

Pending == {r \in Refreshes : pc[r] \notin {"new", "done"}}

Goes(r, from, to) == pc[r] = from /\ pc' = [pc EXCEPT ![r] = to]

Forgets(r) ==
  /\ prev' = [prev EXCEPT ![r] = << >>] /\ now' = [now EXCEPT ![r] = 0]
  /\ state' = [state EXCEPT ![r] = << >>] /\ todo' = [todo EXCEPT ![r] = {}]

\* Mutant: the first snapshot instead of the last.
OldestOf(table) ==
  IF table = {} THEN << >>
  ELSE (CHOOSE x \in table : \A y \in table : x.at <= y.at).statuses

\* getLatestScenarioLiveStateSnapshot
LatestOf(table) ==
  IF table = {} THEN << >>
  ELSE (CHOOSE x \in table : \A y \in table : y.at <= x.at).statuses

ReadsPrevious(r) ==
  /\ Cardinality(Pending) < MaxPending /\ Goes(r, "new", "load")
  /\ prev' = [prev EXCEPT ![r] = LatestOf(saved)]
  /\ met' = [q \in Refreshes |-> IF q = r THEN Pending
                                 ELSE IF q \in Pending THEN met[q] \cup {r}
                                 ELSE met[q]]
  /\ UNCHANGED <<world, rows, seen, now, state, todo, lost>>

\* The context loader reads the latest market snapshot, among other reads.
ReadsMarket(r) ==
  /\ Goes(r, "load", "stamp")
  /\ seen' = [seen EXCEPT ![r] = Len(market)]
  /\ UNCHANGED <<world, rows, prev, now, state, todo, met, lost>>

\* evaluatedAt is taken when all of them are there, before the candles.
Stamps(r) ==
  /\ Goes(r, "stamp", "candles")
  /\ now' = [now EXCEPT ![r] = clock]
  /\ UNCHANGED <<world, rows, prev, seen, state, todo, met, lost>>

\* marketIsStale
Stale(snapshot, time) ==
  snapshot = 0 \/ time - market[snapshot].captured > StaleAfter

View(snapshot, time) ==
  [price |-> IF snapshot = 0 THEN 0 ELSE market[snapshot].price,
   stale |-> Stale(snapshot, time), candles |-> candles, now |-> time]

\* The occurrence key of an event: the market snapshot, or else the time.
Place(r) == IF seen[r] > 0 THEN seen[r] ELSE MaxSnapshots + now[r]

Before(r, i) == IF prev[r] = << >> THEN None ELSE prev[r][i].status

\* scenarioTransitionEvents: the places of the statuses that are reported,
\* and the event of a place.
Transitions(r, found) ==
  {i \in DOMAIN found : /\ found[i].status \in Reported
                        /\ Before(r, i) # found[i].status}

Event(r, i) ==
  [entity |-> state[r][1][i].entity, from |-> Before(r, i),
   to |-> state[r][1][i].status, market |-> Place(r), time |-> now[r], by |-> r]

ReadsCandles(r) ==
  LET view == View(seen[r], now[r])
      found == Statuses(scenario, view)
  IN /\ Goes(r, "candles", IF Transitions(r, found) = {} THEN "save"
                           ELSE "events")
     /\ state' = [state EXCEPT ![r] = <<found, Action(scenario, view)>>]
     /\ todo' = [todo EXCEPT ![r] = Transitions(r, found)]
     /\ UNCHANGED <<world, rows, prev, seen, now, met, lost>>

\* saveScenarioEvent: ON CONFLICT (id) DO NOTHING.
SameId(d, e) == /\ d.entity = e.entity /\ d.from = e.from /\ d.to = e.to
                /\ d.market = e.market

Insert(table, e) ==
  IF \E d \in table : SameId(d, e) THEN table ELSE table \cup {e}

IsFirst(i, places) == i \in places /\ \A j \in places : i <= j

\* Mutant: only the first event is saved.
SavesFirst(r) ==
  \E i \in todo[r] :
    /\ IsFirst(i, todo[r]) /\ Goes(r, "events", "save")
    /\ events' = Insert(events, Event(r, i))
    /\ todo' = [todo EXCEPT ![r] = {}]
    /\ UNCHANGED <<world, saved, prev, seen, now, state, met, lost>>

SavesEvent(r) ==
  \E i \in todo[r] :
    /\ IsFirst(i, todo[r])
    /\ Goes(r, "events", IF todo[r] = {i} THEN "save" ELSE "events")
    /\ events' = Insert(events, Event(r, i))
    /\ todo' = [todo EXCEPT ![r] = @ \ {i}]
    /\ UNCHANGED <<world, saved, prev, seen, now, state, met, lost>>

\* Mutant: ON CONFLICT (id) DO NOTHING.
UpsertOnce(table, x) == IF \E y \in table : y.at = x.at THEN table ELSE table \cup {x}

\* Mutant: an id of its own for each row.
UpsertNever(table, x) == table \cup {x}

\* saveScenarioLiveStateSnapshot: the id is a hash of evaluated_at, and an
\* update leaves the market snapshot of the row as it is.
Upsert(table, x) ==
  LET old == {y \in table : y.at = x.at}
      kept == (CHOOSE y \in old : TRUE).market
  IN (table \ old) \cup {IF old = {} THEN x ELSE [x EXCEPT !.market = kept]}

SavesSnapshot(r) ==
  /\ Goes(r, "save", "done")
  /\ saved' = Upsert(saved, [at |-> now[r], statuses |-> state[r][1],
                             action |-> state[r][2], market |-> seen[r],
                             by |-> r])
  /\ met' = [met EXCEPT ![r] = @ \cup UNION {met[y.by] \cup {y.by} :
                                            y \in {x \in saved : x.at = now[r]}}]
  /\ Forgets(r) /\ UNCHANGED <<world, events, seen, lost>>

\* A statement fails, or the API restarts: the request is over.
Dies(r) ==
  /\ Cardinality(lost) < MaxLost
  /\ pc[r] \notin {"new", "done"} /\ pc' = [pc EXCEPT ![r] = "done"]
  /\ lost' = lost \cup {r} /\ Forgets(r)
  /\ UNCHANGED <<world, rows, seen, met>>

-----------------------------------------------------------------------------
Refresh(r) == \/ ReadsPrevious(r) \/ ReadsMarket(r) \/ Stamps(r)
              \/ ReadsCandles(r) \/ SavesEvent(r) \/ SavesSnapshot(r) \/ Dies(r)

Next == Tick \/ \E r \in Refreshes : Refresh(r)

Spec == Init /\ [][Next]_vars

-----------------------------------------------------------------------------
(* Properties *)

Follows(x, y) == x.at < y.at /\ ~\E z \in saved : x.at < z.at /\ z.at < y.at

\* When the state takes a reported status between one saved snapshot and the
\* next, the history has the event, of the time or of a market snapshot of the
\* second, unless the refreshes that saved them were under way at the same time.
EveryChangeIsRecorded ==
  \A x, y \in saved : Follows(x, y) /\ x.by \notin met[y.by] =>
    \A i \in DOMAIN y.statuses :
      y.statuses[i].status \in Reported \ {x.statuses[i].status} =>
        \E e \in events :
          /\ e.entity = y.statuses[i].entity /\ e.to = y.statuses[i].status
          /\ \/ e.time = y.at \/ e.market = y.market
             \/ \E r \in met[y.by] \cup {y.by} : e.market = seen[r]

\* Two events that report the same status of the same thing were saved by
\* refreshes one of which met another or ended early, or a snapshot in between
\* has another status: the history has no change that did not happen.
NoChangeTwice ==
  \A d, e \in events :
    /\ d # e /\ d.entity = e.entity /\ d.to = e.to /\ d.time <= e.time
    /\ {d.by, e.by} \cap lost = {} /\ met[d.by] \cup met[e.by] = {}
    => \E x \in saved : /\ d.time <= x.at /\ x.at <= e.time
                        /\ \E i \in DOMAIN x.statuses :
                             /\ x.statuses[i].entity = e.entity
                             /\ x.statuses[i].status = e.from
                             /\ e.from # e.to

\* An entry, unless it is what the playbook falls back to, is recommended only
\* when the trigger is reached, the scenario is valid, its start and
\* confirmation conditions have passed in the same evaluation, the market data
\* are fresh and the confidence is enough.  (They have passed on the candles as
\* they stood: the last one is still forming, and what it confirmed may be gone
\* when it closes.)
EntryIsJustified ==
  \A x \in saved : x.action \in Entries \ {scenario.fallback} =>
    /\ x.statuses[1].status = "triggered" /\ x.statuses[2].status = "valid"
    /\ \A i \in DOMAIN scenario.entry :
         scenario.entry[i].role \in {"none", "trigger", "entry", "confirmation"}
           => x.statuses[2 + i].status = "passed"
    /\ seen[x.by] > 0 /\ ~Stale(seen[x.by], x.at)
    /\ scenario.confidence >= 700

\* An event outlives its refresh only with a snapshot: once the refresh has
\* ended well, the row of its time has the status the event reports, unless
\* another refresh took that row.
EventsAreBacked ==
  \A e \in events : e.by \in lost \/ pc[e.by] # "done" \/
    \E x \in saved : x.at = e.time /\
      IF x.by = e.by
      THEN \E i \in DOMAIN x.statuses : /\ x.statuses[i].entity = e.entity
                                       /\ x.statuses[i].status = e.to
      ELSE met[x.by] # {}
=============================================================================
