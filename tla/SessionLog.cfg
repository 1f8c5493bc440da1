SPECIFICATION Spec
CONSTANTS
  m1 = m1
  m2 = m2
  e1 = e1
  e2 = e2
  Managers = {m1, m2}
  Events = {e1}
  Kinds = {"prompt", "answer"}
  MaxEntries = 5
  MaxMoves = 2
  MaxCompactions = 1
SYMMETRY Symmetric
CHECK_DEADLOCK FALSE
INVARIANTS
  InStep
  ReopenRestores
  ReceiptsDurable
  DeliveredOnce
