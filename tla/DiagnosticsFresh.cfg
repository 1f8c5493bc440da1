SPECIFICATION Spec
CONSTANTS
  Queries = {q1, q2, q3}
  Files = {f1, f2}
  None = None
  MaxOpen = 2
  MaxEdits = 1
  MaxVersion = 3
  MaxOut = 1
SYMMETRY QuerySymmetry
INVARIANTS
  FreshIsCurrent
CHECK_DEADLOCK FALSE
