SPECIFICATION OutcomeSpec
CONSTANTS
  j1 = j1
  j2 = j2
  c1 = c1
  c2 = c2
  Jobs = {j1, j2}
  Scopes = {}
  Covers <- NoScopes
  MaxConcurrent = 2
  Conversations = {c1, c2}
  Parent <- BothOfFirst
  None = None
  Batch = 1
  MaxWakeStreak = 2
  MaxFaults = 1
  MaxPrompts = 2
  MaxCancels = 1
  MaxSwitches = 2
INVARIANTS
  ReturnFindsHint
CHECK_DEADLOCK FALSE
