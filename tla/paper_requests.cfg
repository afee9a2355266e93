SPECIFICATION Spec
CONSTANTS
  Plans <- RequestPlans
  Candles <- ShortBars
  MaxCandles = 3
  Forming = TRUE
  Requests = {"cancel", "close", "abandon"}
  ClosePrices = {3}
  Failures = TRUE
  Readers = {g1}
INVARIANTS
  LedgerRebuilds
  ConcludesOnce
CHECK_DEADLOCK FALSE
