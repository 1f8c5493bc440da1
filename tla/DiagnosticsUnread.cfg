SPECIFICATION WarmSpec
CONSTANTS
  Queries = {q1}
  Files = {f1, f2}
  None = None
  MaxOpen = 2
  MaxEdits = 1
  MaxVersion = 2
  MaxOut = 1
INVARIANTS
  OpenIsRefreshed
CHECK_DEADLOCK FALSE
