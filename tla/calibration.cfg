SPECIFICATION Spec
CONSTANTS
  Requests = {q1, q2, q3}
  Old = {o1}
  Keys = {k1}
  MaxTicks = 1
  MaxCrashes = 1
SYMMETRY Symmetry
INVARIANTS
  EvaluatedOnce
  KeyIsOneRerun
  EventsAlternate
  OneReview
PROPERTY
  FrozenByReview
CHECK_DEADLOCK FALSE
