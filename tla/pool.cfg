SPECIFICATION Spec
CONSTANTS
  Calls = {1, 2}
  Chain <- Vendors
  Disabled = {"off"}
  Rejected <- NoUse
  Retries = 1
  Configs <- SomeConfigs
INVARIANTS
  TypeOK
  PermitsAreKept
  NoneWaitsForAThread
  AnswersAreEarned
PROPERTIES
  EveryCallEnds
CHECK_DEADLOCK FALSE
