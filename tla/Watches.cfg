SPECIFICATION FairSpecWatches
CONSTANTS
  MaxStarts = 2
  MaxLive = 2
  FloodLimit = 2
  FloodWindow = 2
  LogLimit = 2
  FinishedLogKeep = 1
  Subs = {s1}
  SubscriberBuffer = 2
  MaxTime = 2
  MaxEmits = 4
INVARIANTS
  NoPanic
  FloodBudget
  EndsOnce
PROPERTIES
  StoppedEnds
CHECK_DEADLOCK FALSE
