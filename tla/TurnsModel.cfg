SPECIFICATION Spec
CONSTANTS
  Prompts = {p1, p2}
  None = None
  IsChild = FALSE
  HasPlan = FALSE
  MayLoseModel = TRUE
  ViewFails = FALSE
  QueueLimit = 1
  MaxWakeStreak = 1
  MaxEvents = 1
  MaxInbox = 0
  MaxCancels = 1
  MaxCompacts = 1
  MaxSwitches = 1
  MaxJobs = 1
  MaxKills = 0
INVARIANTS
  PromptsInOrder
CHECK_DEADLOCK FALSE
