SPECIFICATION Spec
CONSTANTS
  Clients = {c1, c2}
  Workers = {w1, w2}
  Requests = {"create", "cancel", "remove"}
  HasTimeout = TRUE
  MaxAttempts = 2
  MaxStalls = 1
  MaxCreates = 2
  MaxChanges = 2
  MaxCrashes = 0
  MaxLosses = 2
SYMMETRY Symmetry
CONSTRAINT Bounded
INVARIANTS
  TypeOK
  OneEngine
  StatusHasCause
  EarlyCancelHolds
CHECK_DEADLOCK FALSE
