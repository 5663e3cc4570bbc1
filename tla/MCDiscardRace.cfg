SPECIFICATION Spec
CONSTANTS
  Operators = {o1, o2}
  Runs = {run1, run2}
  Corpora = {corpus1, corpus2}
  MaxFound = 3
SYMMETRY Symmetry
INVARIANTS
  PointerResolves
