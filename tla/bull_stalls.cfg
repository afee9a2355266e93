SPECIFICATION FairSpec
CONSTANTS
  Clients = {c1, c2}
  Workers = {w1}
  Requests = {"create"}
  HasTimeout = TRUE
  MaxAttempts = 1
  MaxStalls = 1
  MaxCreates = 2
  MaxChanges = 0
  MaxCrashes = 1
  MaxLosses = 2
PROPERTY
  Settles
CHECK_DEADLOCK FALSE
