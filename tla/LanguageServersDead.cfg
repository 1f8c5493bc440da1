SPECIFICATION Spec
CONSTANTS
  Queries = {q1}
  None = None
  MaxGenerations = 1
  MayStall = {1}
  MaxStartAttempts = 1
INVARIANTS
  DeadGenerationFails
CHECK_DEADLOCK FALSE
