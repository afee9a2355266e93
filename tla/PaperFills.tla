----------------------------- MODULE PaperFills -----------------------------
(***************************************************************************)
(* The pure half of PaperExecutionService: where a plan enters the market, *)
(* where its position leaves it, and what that does to the position.       *)
(*                                                                         *)
(* A candle is [open, high, low, close], its time is its index in a        *)
(* sequence.  A plan is the frozen playbook with the assumptions of the    *)
(* run: direction, entry zone low..high (a level is a zone of one price),  *)
(* targets, stop, fill, gap and intrabar policies, partials (target index  *)
(* to tenths closed there), expiry and duration in candles (0 when unset), *)
(* force (force_close_at_data_end), mode, and quantity.  Prices and        *)
(* quantities are integers; slippage and fees are zero.                    *)
(***************************************************************************)
EXTENDS Integers, Sequences, FiniteSetsExt, Functions

Candle == [open : Int, high : Int, low : Int, close : Int]

Short(p) == p.direction = "short"
Least(S) == IF S = {} THEN 0 ELSE Min(S)

-----------------------------------------------------------------------------
\* Entries.

Boundary(p) == IF Short(p) THEN p.high ELSE p.low
Touches(p, c) == c.low <= p.high /\ c.high >= p.low

GapsThrough(p, c) ==
  IF Short(p) THEN c.open > p.high /\ c.low > p.high
              ELSE c.open < p.low /\ c.high < p.low

ClosesThrough(p, c) == IF Short(p) THEN c.close <= p.high ELSE c.close >= p.low

FillsAtTouch(p, c) ==
  Touches(p, c) \/ (GapsThrough(p, c) /\ p.gap # "reject_if_skipped")

TouchPrice(p, c) ==
  IF \/ c.open \in p.low..p.high
     \/ ~Touches(p, c) /\ p.gap = "first_tradable_price"
  THEN c.open ELSE Boundary(p)

NoEntry == [at |-> 0, price |-> 0]

\* Mutant of FindEntry: the trigger's own candle may be the last one, the fill
\* is then its close.
FindEntryAtTrigger(p, cs) ==
  IF p.fill = "touch"
  THEN LET i == Least({j \in DOMAIN cs : FillsAtTouch(p, cs[j])})
       IN IF i = 0 THEN NoEntry ELSE [at |-> i, price |-> TouchPrice(p, cs[i])]
  ELSE LET i == Least({j \in DOMAIN cs : ClosesThrough(p, cs[j])})
       IN IF i = 0 THEN NoEntry
          ELSE IF i = Len(cs) THEN [at |-> i, price |-> cs[i].close]
          ELSE [at |-> i + 1, price |-> cs[i + 1].open]

\* The first candle that fills; with next_open_after_trigger only the first
\* trigger counts, and the candle after it must be there.
FindEntry(p, cs) ==
  IF p.fill = "touch"
  THEN LET i == Least({j \in DOMAIN cs : FillsAtTouch(p, cs[j])})
       IN IF i = 0 THEN NoEntry ELSE [at |-> i, price |-> TouchPrice(p, cs[i])]
  ELSE LET i == Least({j \in DOMAIN cs : ClosesThrough(p, cs[j])})
       IN IF i = 0 \/ i = Len(cs) THEN NoEntry
          ELSE [at |-> i + 1, price |-> cs[i + 1].open]

\* entryWindowForSetupExpiry: the candles up to the expiry, and whether one
\* lies beyond it.
Expired(p, cs)  == p.expiry # 0 /\ Len(cs) > p.expiry
Eligible(p, cs) == IF Expired(p, cs) THEN SubSeq(cs, 1, p.expiry) ELSE cs

-----------------------------------------------------------------------------
\* Exits of a position that entered at candle `since` at `price`.

\* Mutant of HitsStop: the stop itself does not count.
HitsStopBeyond(p, c) == IF Short(p) THEN c.high > p.stop ELSE c.low < p.stop

HitsStop(p, c)      == IF Short(p) THEN c.high >= p.stop ELSE c.low <= p.stop
HitsTarget(p, c, t) == IF Short(p) THEN c.low <= p.targets[t]
                                   ELSE c.high >= p.targets[t]
TimedOut(p, i, since) == p.duration # 0 /\ i >= since + p.duration

Exit(i, price, reason, ambiguous, share) ==
  [at |-> i, price |-> price, reason |-> reason, ambiguous |-> ambiguous,
   share |-> share]
All == 10

\* The exits at candle i when t is the target it hits (0 for none): none, a
\* partial one, a final one, or a partial and then a final one at the timeout.
ExitsAt(p, c, i, since, t, partials) ==
  LET stop    == HitsStop(p, c)
      timeout == IF ~TimedOut(p, i, since) THEN <<>>
                 ELSE <<Exit(i, c.close, "position_timeout", FALSE, All)>>
  IN CASE stop /\ t # 0 /\ p.intrabar = "target_first" ->
            <<Exit(i, p.targets[t], "target", FALSE, All)>>
       [] stop /\ ~(t # 0 /\ p.intrabar = "target_first") ->
            <<Exit(i, p.stop, "stop",
                   t # 0 /\ p.intrabar = "ambiguous_warning", All)>>
       [] ~stop /\ t \in DOMAIN partials ->
            <<Exit(i, p.targets[t], "target", FALSE, partials[t])>> \o timeout
       [] ~stop /\ t # 0 /\ t \notin DOMAIN partials ->
            <<Exit(i, p.targets[t], "target", FALSE, All)>>
       [] OTHER -> timeout

IsFinal(exits) == exits # <<>> /\ exits[Len(exits)].share = All

\* One pass of findPositionTransitions' loop: candle i, after what the candles
\* before it gave, the exits and the targets that are used up (0 for none).
\* findExit, without partial targets, looks at the first target only.
LookAt(p, c, i, since, partials, seen) ==
  LET targets == (IF DOMAIN partials = {} THEN {1} ELSE DOMAIN p.targets)
                 \ seen.used
      t    == Least({x \in targets : HitsTarget(p, c, x)})
      here == ExitsAt(p, c, i, since, t, partials)
  IN IF IsFinal(seen.exits) THEN seen
     ELSE [exits |-> seen.exits \o here, used |-> seen.used \cup {t}]

\* findPositionTransitions and findExit over the candles after `mark`.  A forced
\* run closes at the last candle.
Transitions(p, cs, mark, since, partials) ==
  LET walk[i \in mark..Len(cs)] ==
        IF i = mark THEN [exits |-> <<>>, used |-> {}]
        ELSE LookAt(p, cs[i], i, since, partials, walk[i - 1])
      exits == walk[Len(cs)].exits
  IN IF Len(cs) <= mark THEN <<>>
     ELSE IF p.force /\ ~IsFinal(exits)
          THEN Append(exits, Exit(Len(cs), cs[Len(cs)].close, "data_end", FALSE, All))
          ELSE exits

NoPartials == [t \in {} |-> 0]

-----------------------------------------------------------------------------
\* Positions.

NoPosition == [status |-> "none"]

OpenPosition(price, quantity, at) ==
  [status |-> "open", opened |-> quantity, remaining |-> quantity,
   price |-> price, since |-> at, pnl |-> 0, closed |-> "none"]

\* What an exit order sells: a share of what remains, rounded half up, or all.
ExitQuantity(pos, x) ==
  IF x.share = All THEN pos.remaining ELSE (pos.remaining * x.share * 2 + 10) \div 20

\* clampUnits: never more than what remains.
Sellable(pos, quantity) ==
  IF quantity > pos.remaining THEN pos.remaining ELSE quantity

RealizedPnl(p, pos, price, quantity) ==
  quantity * (IF Short(p) THEN pos.price - price ELSE price - pos.price)

\* Mutant of ReducePosition: what is left is counted from the start.
ReducePositionFromStart(p, pos, price, quantity, reason) ==
  LET sold == Sellable(pos, quantity)
      left == pos.opened - sold
  IN [pos EXCEPT !.status = IF left > 0 THEN "partially_closed" ELSE "closed",
                 !.remaining = left,
                 !.pnl = @ + RealizedPnl(p, pos, price, sold),
                 !.closed = IF left > 0 THEN "none" ELSE reason]

ReducePosition(p, pos, price, quantity, reason) ==
  LET sold == Sellable(pos, quantity)
      left == pos.remaining - sold
  IN [pos EXCEPT !.status = IF left > 0 THEN "partially_closed" ELSE "closed",
                 !.remaining = left,
                 !.pnl = @ + RealizedPnl(p, pos, price, sold),
                 !.closed = IF left > 0 THEN "none" ELSE reason]

\* Mutant of ClosePosition: the rest stays on the books.
ClosePositionKeepsRest(p, pos, price, quantity, reason) ==
  [pos EXCEPT !.status = "closed",
              !.pnl = @ + RealizedPnl(p, pos, price, Sellable(pos, quantity)),
              !.closed = reason]

ClosePosition(p, pos, price, quantity, reason) ==
  [pos EXCEPT !.status = "closed", !.remaining = 0,
              !.pnl = @ + RealizedPnl(p, pos, price, Sellable(pos, quantity)),
              !.closed = reason]
=============================================================================
