SPECIFICATION SpecWatches
CONSTANTS
  MaxStarts = 2
  MaxLive = 2
  FloodLimit = 2
  FloodWindow = 2
  LogLimit = 2
  FinishedLogKeep = 1
  Subs = {s1}
  SubscriberBuffer = 1
  MaxTime = 0
  MaxEmits = 1
INVARIANTS
  CloseWaits
CHECK_DEADLOCK FALSE
