SPECIFICATION Spec
CONSTANTS
  Prompts = {p1}
  None = None
  IsChild = TRUE
  HasPlan = FALSE
  MayLoseModel = FALSE
  ViewFails = FALSE
  QueueLimit = 1
  MaxWakeStreak = 1
  MaxEvents = 0
  MaxInbox = 0
  MaxCancels = 1
  MaxCompacts = 0
  MaxSwitches = 0
  MaxJobs = 2
  MaxKills = 0
INVARIANTS
  EscKeepsPrompts
CHECK_DEADLOCK FALSE
