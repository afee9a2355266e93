--------------------------- MODULE ScenarioDecision ---------------------------
(***************************************************************************)
(* The rule engine of a scenario: what its decision playbook says of a     *)
(* view of the market (scenario-runtime-evaluator.ts and                   *)
(* scenario-condition-evaluator.ts).                                       *)
(*                                                                         *)
(* A condition is [id, role, type, level, low, high, closes]: level and    *)
(* low are 0, and role is "none", when they are not given; closes is       *)
(* candle_close_required.  A scenario is [entry, invalidation, avoid,      *)
(* targets, direction, bias, confidence, preferred, fallback, near, over,  *)
(* until, evidence, gated], with percentages in tenths of a percent; the   *)
(* targets and the direction are those of the trade playbook, if it is     *)
(* current.  A view is [price, stale, candles, now]: price is 0 when there *)
(* is none, and the candles [close, high] are those the exchange answers,  *)
(* of which the last one is still forming, although the code calls them    *)
(* closed.                                                                 *)
(***************************************************************************)
EXTENDS Integers, Sequences

Entries == {"entry_long_now", "entry_short_now"}

Test(holds) == IF holds THEN "passed" ELSE "failed"

\* latestClosedCandlePrice: of the forming candle, in fact.
Latest(v) == v.candles[Len(v.candles)]

InZone(c, price) ==
  LET lowest == IF c.low <= c.high THEN c.low ELSE c.high
  IN lowest <= price /\ price <= c.low + c.high - lowest

\* evaluateLatestPrice
OnPrice(c, price) ==
  CASE price = 0                                -> "unknown"
    [] c.type = "price_above" /\ c.level > 0    -> Test(price >= c.level)
    [] c.type = "price_below" /\ c.level > 0    -> Test(price <= c.level)
    [] c.type = "price_in_zone" /\ c.low > 0    -> Test(InZone(c, price))
    [] OTHER                                    -> "unknown"

\* evaluateScenarioCondition
Evaluated(c, v) ==
  LET n == Len(v.candles)
  IN CASE c.type = "price_reclaim_level" ->
            IF c.level = 0 \/ n < 2 THEN "unknown"
            ELSE Test(v.candles[n - 1].close < c.level
                      /\ Latest(v).close >= c.level)
       [] c.type = "price_reject_level" ->
            IF c.level = 0 \/ n < 1 THEN "unknown"
            ELSE Test(Latest(v).high >= c.level /\ Latest(v).close < c.level)
       [] c.closes -> OnPrice(c, IF n = 0 THEN 0 ELSE Latest(v).close)
       [] OTHER -> OnPrice(c, v.price)

\* conditionResult, which looks at the price alone and does not order a zone.
Matched(c, price) ==
  /\ price > 0
  /\ CASE c.type \in {"price_above", "price_reclaim_level"} ->
            c.level > 0 /\ price >= c.level
       [] c.type \in {"price_below", "price_reject_level"} ->
            c.level > 0 /\ price <= c.level
       [] c.type = "price_in_zone" -> c.low > 0 /\ c.low <= price /\ price <= c.high
       [] OTHER -> FALSE

\* The places of the conditions that start an entry, and that confirm it.
Starts(s) == {i \in DOMAIN s.entry : s.entry[i].role \in {"none", "trigger", "entry"}}
Confirmations(s) == {i \in DOMAIN s.entry : s.entry[i].role = "confirmation"}

\* primaryTriggerTarget: the places of the conditions that have a target.
Targeted(s) ==
  {i \in Starts(s) : \/ s.entry[i].level > 0
                     \/ s.entry[i].type = "price_in_zone" /\ s.entry[i].low > 0}

Target(s) ==
  s.entry[CHOOSE i \in Targeted(s) : \A j \in Targeted(s) : i <= j]

Gap(a, b) == IF a > b THEN a - b ELSE b - a

\* triggerStatusFor
Reached(c, price) ==
  IF c.level = 0 THEN InZone(c, price)
  ELSE IF c.type \in {"price_below", "price_reject_level"} THEN price <= c.level
  ELSE price >= c.level

Edge(c, price) ==
  IF c.level > 0 THEN c.level
  ELSE LET lowest == IF c.low <= c.high THEN c.low ELSE c.high
       IN IF price < lowest THEN lowest ELSE c.low + c.high - lowest

TriggerStatus(s, v) ==
  CASE v.price = 0 -> "missing_price"
    [] v.price > 0 /\ v.stale -> "stale"
    [] v.price > 0 /\ ~v.stale ->
         IF Targeted(s) = {} THEN "needs_review"
         ELSE LET edge == Edge(Target(s), v.price)
              IN IF Reached(Target(s), v.price) THEN "triggered"
                 ELSE IF 1000 * Gap(v.price, edge) <= s.near * edge
                 THEN "near_trigger" ELSE "watching"

Overextended(s, v) ==
  /\ v.price > 0 /\ Targeted(s) # {} /\ Target(s).level > 0
  /\ \E i \in Starts(s) : Matched(s.entry[i], v.price)
  /\ 1000 * Gap(v.price, Target(s).level) > s.over * Target(s).level

\* validityStatusFor
Validity(s, v) ==
  LET expired == s.until > 0 /\ s.until < v.now
      hit == \E i \in DOMAIN s.invalidation : Matched(s.invalidation[i], v.price)
  IN IF expired THEN "expired"
     ELSE IF hit THEN "invalidated"
     ELSE IF v.price = 0 \/ v.stale THEN "needs_review"
     ELSE IF Overextended(s, v) THEN "overextended" ELSE "valid"

FitsBias(s) == \/ s.preferred = "entry_long_now" /\ s.bias = "long"
               \/ s.preferred = "entry_short_now" /\ s.bias = "short"

Unconfirmed(s, v) ==
  \E i \in Confirmations(s) : Evaluated(s.entry[i], v) # "passed"

\* Mutant: the confirmations do not block.
BlockedEarly(s, v) ==
  \/ Validity(s, v) # "valid" \/ v.stale \/ v.price = 0
  \/ s.invalidation = << >> \/ ~s.evidence \/ s.gated
  \/ s.bias \notin {"long", "short"}
  \/ s.preferred \in Entries /\ (s.confidence < 700 \/ ~FitsBias(s))
  \/ /\ TriggerStatus(s, v) = "triggered"
     /\ \E i \in Starts(s) : Evaluated(s.entry[i], v) # "passed"

\* blocking_reasons is not empty.
Blocked(s, v) ==
  \/ Unconfirmed(s, v)
  \/ Validity(s, v) # "valid" \/ v.stale \/ v.price = 0
  \/ s.invalidation = << >> \/ ~s.evidence \/ s.gated
  \/ s.bias \notin {"long", "short"}
  \/ s.preferred \in Entries /\ (s.confidence < 700 \/ ~FitsBias(s))
  \/ /\ TriggerStatus(s, v) = "triggered"
     /\ \E i \in Starts(s) : Evaluated(s.entry[i], v) # "passed"

Consider(s) == IF s.bias = "short" THEN "consider_short" ELSE "consider_long"

Safe(action) == IF action \in {"wait", "avoid", "review"} THEN action ELSE "review"

\* finalAction
Action(s, v) ==
  LET trigger == TriggerStatus(s, v)
  IN IF \/ Validity(s, v) \in {"expired", "invalidated"}
        \/ s.bias \notin {"long", "short"} \/ v.price = 0 \/ v.stale
     THEN "review"
     ELSE IF trigger \notin {"near_trigger", "triggered"} THEN s.fallback
     ELSE IF Blocked(s, v) THEN Safe(s.fallback)
     ELSE IF trigger = "near_trigger"
     THEN IF s.confidence >= 700 THEN Consider(s) ELSE s.fallback
     ELSE IF s.confidence >= 700 /\ FitsBias(s) THEN s.preferred
     ELSE Consider(s)

\* conditionStatus: the row of a condition in the live state.
RowStatus(c, role, v) ==
  LET result == Evaluated(c, v)
  IN IF result = "unknown" THEN "unknown"
     ELSE IF role \in {"invalidation", "avoid"}
     THEN IF result = "passed" THEN "failed" ELSE "pending"
     ELSE IF result = "passed" THEN "passed" ELSE "pending"

Rows(conditions, role, v) ==
  [i \in DOMAIN conditions |->
     LET c == conditions[i]
     IN [entity |-> c.id,
         status |-> RowStatus(c, IF c.role = "none" THEN role ELSE c.role, v)]]

\* targetProgressFor
TargetRows(s, v) ==
  [i \in DOMAIN s.targets |->
     [entity |-> s.targets[i].id,
      status |-> IF s.targets[i].level = 0 \/ v.price = 0 THEN "unknown"
                 ELSE IF IF s.direction = "short" THEN v.price <= s.targets[i].level
                         ELSE v.price >= s.targets[i].level
                 THEN "hit" ELSE "pending"]]

\* buildScenarioLiveState: what has a status, in the order of the events.
Statuses(s, v) ==
  <<[entity |-> "trigger", status |-> TriggerStatus(s, v)],
    [entity |-> "validity", status |-> Validity(s, v)]>>
  \o Rows(s.entry, "entry", v) \o Rows(s.invalidation, "invalidation", v)
  \o Rows(s.avoid, "avoid", v) \o TargetRows(s, v)
=============================================================================
