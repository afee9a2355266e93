SPECIFICATION FairSpec
CONSTANTS
  Runs = {r1, r2, r3}
  MaxPosts = 1
  Deletes = FALSE
  HasTimeout = TRUE
  SlowBeats = FALSE
PROPERTIES
  ContractSpec
  Served
CHECK_DEADLOCK FALSE
