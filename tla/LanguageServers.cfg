SPECIFICATION FairSpec
CONSTANTS
  Queries = {q1, q2}
  None = None
  MaxGenerations = 2
  MayStall = {1}
  MaxStartAttempts = 1
INVARIANTS
  OneServer
  BreakerHolds
PROPERTIES
  NoQueryHangs
CHECK_DEADLOCK FALSE
\* In place of the properties above, two that the code violates:
\*   PROPERTY CloseEnds
\*   PROPERTY CancelReturns
