SPECIFICATION FairSpec
CONSTANTS
  Prompts = {p1, p2}
  None = None
  IsChild = TRUE
  HasPlan = FALSE
  MayLoseModel = TRUE
  ViewFails = TRUE
  QueueLimit = 1
  MaxWakeStreak = 1
  MaxEvents = 0
  MaxInbox = 0
  MaxCancels = 1
  MaxCompacts = 0
  MaxSwitches = 0
  MaxJobs = 2
  MaxKills = 1
INVARIANTS
  FollowUpsPlaced
  ReturnProvesExit
PROPERTIES
  CancelledReturns
CHECK_DEADLOCK FALSE
