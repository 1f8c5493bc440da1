SPECIFICATION Spec
CONSTANTS
  MaxRuns = 2
  Parents = {p1}
  MaxLive = 2
  MaxTasks = 2
  DeliveryLimit = 4
  MayFail = TRUE
  Deadlines = {}
  MayClose = FALSE
  Subscribed = FALSE
INVARIANTS
  ResultsDeliverable
CHECK_DEADLOCK FALSE
