SPECIFICATION Spec
CONSTANTS
  Prompts = {p1, p2}
  None = None
  IsChild = FALSE
  HasPlan = TRUE
  MayLoseModel = FALSE
  ViewFails = FALSE
  QueueLimit = 1
  MaxWakeStreak = 1
  MaxEvents = 1
  MaxInbox = 0
  MaxCancels = 1
  MaxCompacts = 0
  MaxSwitches = 1
  MaxJobs = 1
  MaxKills = 0
SYMMETRY PromptSymmetry
INVARIANTS
  OneLoop
  PromptsInOrder
PROPERTIES
  WakesAreThrottled
CHECK_DEADLOCK FALSE
