SPECIFICATION FairSpec
CONSTANTS
  Prompts = {p1}
  None = None
  IsChild = FALSE
  HasPlan = FALSE
  MayLoseModel = FALSE
  ViewFails = FALSE
  QueueLimit = 1
  MaxWakeStreak = 1
  MaxEvents = 2
  MaxInbox = 1
  MaxCancels = 0
  MaxCompacts = 1
  MaxSwitches = 1
  MaxJobs = 1
  MaxKills = 0
INVARIANTS
  EventsAccounted
PROPERTIES
  WorkWakes
  CloseFinishes
CHECK_DEADLOCK FALSE
