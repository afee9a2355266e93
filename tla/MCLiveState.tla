------------------------------ MODULE MCLiveState ------------------------------
(* Model-checking instances of LiveState.                                   *)
EXTENDS LiveState, TLC

Cond(i, r, t, l, c) == [id |-> i, role |-> r, type |-> t, level |-> l,
                        low |-> 0, high |-> 0, closes |-> c]

\* Enter above 100 when a candle has reclaimed 100; out below 98.
Breakout ==
  [entry |-> <<Cond("above", "trigger", "price_above", 100, FALSE),
               Cond("reclaim", "confirmation", "price_reclaim_level", 100, FALSE)>>,
   invalidation |-> <<Cond("below", "none", "price_below", 98, FALSE)>>,
   avoid |-> << >>, targets |-> <<[id |-> "target", level |-> 101]>>,
   direction |-> "long", bias |-> "long", confidence |-> 800, preferred |-> "entry_long_now",
   fallback |-> "wait", near |-> 20, over |-> 25, until |-> 0,
   evidence |-> TRUE, gated |-> FALSE]

\* Short below 100 after a candle has been rejected there and one is
\* between 96 and 99; out above 101 when a candle is there; with an end;
\* the playbook falls back to the entry.
Fade ==
  [Breakout EXCEPT
     !.entry = <<Cond("reject", "none", "price_reject_level", 100, FALSE),
                 [Cond("zone", "entry", "price_in_zone", 0, TRUE)
                    EXCEPT !.low = 99, !.high = 96]>>,
     !.invalidation = <<Cond("closed", "none", "price_above", 101, TRUE)>>,
     !.targets = <<[id |-> "target", level |-> 97]>>,
     !.direction = "short", !.bias = "short", !.preferred = "entry_short_now",
     !.fallback = "entry_short_now", !.until = 2]

\* The only candle there is at first is still forming.
Low == <<[close |-> 99, high |-> 99]>>
Higher == {[close |-> 99, high |-> 101], [close |-> 101, high |-> 101]}
Both == {Breakout, Fade}

\* Bound: a refresh that ends early and a further candle are not combined.
Bounded == lost # {} => Len(candles) = Len(Known)

Symmetry == Permutations(Refreshes)
=============================================================================
