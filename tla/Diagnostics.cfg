SPECIFICATION WarmSpec
CONSTANTS
  Queries = {q1, q2}
  Files = {f1, f2, f3}
  None = None
  MaxOpen = 2
  MaxEdits = 1
  MaxVersion = 2
  MaxOut = 1
SYMMETRY Symmetry
INVARIANTS
  FreshFitsItsVersion
  NoLostWakeup
CHECK_DEADLOCK FALSE
