SPECIFICATION Spec
CONSTANTS
  j1 = j1
  j2 = j2
  j3 = j3
  closeParent = closeParent
  closeOwner = closeOwner
  closeAll = closeAll
  q1 = q1
  Jobs = {j1, j2}
  Scopes = {closeParent, closeAll}
  Bounded = {closeParent}
  Clients = {q1}
  Covers <- MCCovers
  MaxConcurrent = 1
  MaxFaults = 1
  MaxCrashes = 1
  PeerOpens = FALSE
INVARIANTS
  SlotsExact
  NeverLosesJob
  AnswersAreDurable
PROPERTIES
  OutcomeImmutable
  ImplementsPool
\* In place of the properties above, one that the code violates:
\*   INVARIANT NoZombies
