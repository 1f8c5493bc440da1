SPECIFICATION Spec
CONSTANTS
  Queries = {q1, q2}
  Files = {f1, f2}
  None = None
  MaxOpen = 2
  MaxEdits = 1
  MaxVersion = 2
  MaxOut = 1
INVARIANTS
  ReadIsCurrent
CHECK_DEADLOCK FALSE
