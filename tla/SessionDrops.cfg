SPECIFICATION Spec
CONSTANTS
  m1 = m1
  m2 = m2
  e1 = e1
  e2 = e2
  Managers = {m1}
  Events = {}
  Kinds = {"prompt"}
  MaxEntries = 5
  MaxMoves = 0
  MaxCompactions = 3
CHECK_DEADLOCK FALSE
INVARIANT DeletedStaysHidden
