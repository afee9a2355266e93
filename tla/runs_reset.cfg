SPECIFICATION Spec
CONSTANTS
  Runs = {r1, r2}
  Workers = {w1}
  Clients = {c1, c2}
  MaxAttempts = 2
  MaxFaults = 1
  MaxRequests = 1
SYMMETRY Symmetry
INVARIANTS
  DeletedStaysDeleted
PROPERTIES
  ResetEmptiesStores
CHECK_DEADLOCK FALSE
