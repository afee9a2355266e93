SPECIFICATION Spec
CONSTANTS
  Runs = {r1, r2}
  MaxPosts = 2
  Deletes = TRUE
  HasTimeout = TRUE
  SlowBeats = TRUE
SYMMETRY Symmetry
INVARIANTS
  TypeOK
  RecordsAreServed
CHECK_DEADLOCK FALSE
