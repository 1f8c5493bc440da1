SPECIFICATION Spec
CONSTANTS
  m1 = m1
  m2 = m2
  e1 = e1
  e2 = e2
  Managers = {m1}
  Events = {}
  Kinds = {"prompt", "answer"}
  MaxEntries = 4
  MaxMoves = 0
  MaxCompactions = 1
CHECK_DEADLOCK FALSE
INVARIANT ForkHidesWhatWasHidden
