SPECIFICATION Spec
CONSTANTS
  Prompts = {p1}
  None = None
  IsChild = FALSE
  HasPlan = FALSE
  MayLoseModel = FALSE
  ViewFails = FALSE
  QueueLimit = 1
  MaxWakeStreak = 1
  MaxEvents = 1
  MaxInbox = 0
  MaxCancels = 0
  MaxCompacts = 0
  MaxSwitches = 0
  MaxJobs = 1
  MaxKills = 0
INVARIANTS
  EventsReach
CHECK_DEADLOCK FALSE
