SPECIFICATION Spec
CONSTANTS
  Requests = {r1, r2, r3}
  Closers = {c1, c2}
  Limit = 2
INVARIANTS
  AdmissionExact
  NoServiceAfterClose
  NoDetachedSearch
  ClosedMeansBoth
PROPERTIES
  ClosedOnce
  EverybodyLeaves
CHECK_DEADLOCK FALSE
