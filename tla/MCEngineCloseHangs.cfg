SPECIFICATION Spec
CONSTANTS
  Requests = {r1}
  Closers = {c1, c2}
  Limit = 1
PROPERTIES
  CloseCompletes
CHECK_DEADLOCK FALSE
