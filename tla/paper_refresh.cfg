SPECIFICATION Spec
CONSTANTS
  Plans <- RefreshPlans
  Candles <- Bars
  MaxCandles = 4
  Forming = FALSE
  Requests = {}
  ClosePrices = {}
  Failures = FALSE
  Readers = {}
INVARIANTS
  TypeOK
  Deterministic
  NoStopSkipped
  ExitsAddUp
PROPERTIES
  RepeatOnlyCloses
CHECK_DEADLOCK FALSE
