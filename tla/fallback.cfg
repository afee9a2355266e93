SPECIFICATION FairSpec
CONSTANTS
  f1 = f1
  f2 = f2
  Analysts = {a1, a2}
  QuickNodes = {scenario}
  Structured = {manager, scenario}
  Wrapping = {manager}
  Swallowing = {manager}
  DeepNodes = {manager}
  Primary = p
  Fallbacks <- TwoFallbacks
  Unmapped = {}
  Threshold = 2
  Outages = {{p, f1}}
INVARIANTS
  TypeOK
  ActiveIsUsed
  OnlyFaultsCount
PROPERTY
  EveryNodeEnds
CHECK_DEADLOCK FALSE
