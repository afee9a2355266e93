SPECIFICATION Spec
CONSTANTS
  Refreshes = {r1, r2, r3}
  Scenarios <- Both
  Prices = {97, 101}
  Opened = {}
  Candles <- Higher
  Known <- Low
  StaleAfter = 1
  MaxSnapshots = 2
  MaxCandles = 1
  MaxTicks = 2
  MaxPending = 2
  MaxLost = 1
CONSTRAINT Bounded
SYMMETRY Symmetry
INVARIANTS
  TypeOK
  EveryChangeIsRecorded
  NoChangeTwice
  EntryIsJustified
  EventsAreBacked
CHECK_DEADLOCK FALSE
