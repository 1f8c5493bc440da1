SPECIFICATION Spec
CONSTANTS
  MaxRuns = 2
  Parents = {p1}
  MaxLive = 2
  MaxTasks = 1
  DeliveryLimit = 1
  MayFail = TRUE
  Deadlines = {2}
  MayClose = TRUE
  Subscribed = TRUE
VIEW LiveState
INVARIANTS
  ResultsKept
  PromotionWins
  HintOwed
  CloseLeavesNothing
CHECK_DEADLOCK FALSE
\* In place of the view and the properties above, one that the code violates:
\*   PROPERTY StoppedWasKilled
