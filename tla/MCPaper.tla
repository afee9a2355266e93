------------------------------ MODULE MCPaper -------------------------------
(* Model-checking instances of PaperExecution.                              *)
EXTENDS PaperExecution, TLC

Bar(open, high, low, close) ==
  [open |-> open, high |-> high, low |-> low, close |-> close]

\* A long plan: entry 4, stop 2, targets 6 and 8.
Long == [direction |-> "long", low |-> 4, high |-> 4, targets |-> <<6, 8>>,
         stop |-> 2, fill |-> "touch", gap |-> "requested_price",
         intrabar |-> "stop_first", partials |-> NoPartials, expiry |-> 0,
         duration |-> 0, force |-> FALSE, mode |-> "forward", quantity |-> 10]

\* Its mirror at price 5: entry 6, stop 8, targets 4 and 2.
Mirror(p) == [p EXCEPT !.direction = "short", !.low = 10 - p.high,
                       !.high = 10 - p.low, !.stop = 10 - p.stop,
                       !.targets = [t \in DOMAIN p.targets |-> 10 - p.targets[t]]]

Away  == Bar(5, 5, 5, 5)
Touch == Bar(5, 5, 4, 4)
First == Bar(5, 6, 5, 5)
Far   == Bar(6, 8, 5, 7)
Drop  == Bar(3, 3, 2, 2)
Both  == Bar(4, 6, 2, 4)
Below == Bar(3, 3, 3, 3)
Bars == {Away, Touch, First, Far, Drop, Both, Below}

Reflect(c) == Bar(10 - c.open, 10 - c.low, 10 - c.high, 10 - c.close)

\* Plans that differ in one policy each.
Zone      == [Long EXCEPT !.low = 3]
NextOpen  == [Long EXCEPT !.fill = "next_open_after_trigger"]
FirstTradable == [Long EXCEPT !.gap = "first_tradable_price"]
NoGap     == [Long EXCEPT !.gap = "reject_if_skipped"]
TargetFirst == [Long EXCEPT !.intrabar = "target_first"]
Warns     == [Long EXCEPT !.intrabar = "ambiguous_warning"]
Expires   == [NextOpen EXCEPT !.expiry = 2]
Times     == [Warns EXCEPT !.duration = 2]
Partial   == [Long EXCEPT !.partials = 1 :> 5]
Partials  == [Times EXCEPT !.partials = (1 :> 5) @@ (2 :> 3)]
Forced    == [Partial EXCEPT !.force = TRUE]
Replay(p) == [p EXCEPT !.mode = "replay"]

LongPlans == {Long, Zone, NextOpen, FirstTradable, NoGap, TargetFirst, Warns,
              Expires, Times}
RefreshPlans == LongPlans \cup {Partial, Partials, Forced, Replay(Partials)}

\* The plans with partial targets and replays, mirrored.
ShortPlans == {Mirror(p) : p \in {Partial, Partials, Expires, Replay(Times),
                                  Replay(Partials)}}
ShortBars  == {Reflect(c) : c \in {Away, Touch, First, Far, Drop}}

\* And, for the GET requests, plans without partial targets, one of them forced.
RequestPlans == ShortPlans \cup
  {Mirror(p) : p \in {Warns, [Expires EXCEPT !.expiry = 1],
                      Replay([Long EXCEPT !.force = TRUE])}}
=============================================================================
