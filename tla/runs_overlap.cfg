SPECIFICATION FairSpec
CONSTANTS
  Runs = {r1}
  Workers = {w1, w2}
  Clients = {c1, c2}
  MaxAttempts = 2
  MaxFaults = 1
  MaxRequests = 1

  
PROPERTIES
  EndedStaysEnded
  ResetEnds
CHECK_DEADLOCK FALSE
