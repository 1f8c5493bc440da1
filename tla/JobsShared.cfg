SPECIFICATION FairSpec
CONSTANTS
  j1 = j1
  j2 = j2
  j3 = j3
  closeParent = closeParent
  closeOwner = closeOwner
  closeAll = closeAll
  q1 = q1
  Jobs = {j1, j2}
  Scopes = {closeOwner, closeAll}
  Bounded = {closeOwner}
  Clients = {}
  Covers <- MCCovers
  MaxConcurrent = 1
  MaxFaults = 1
  MaxCrashes = 0
  PeerOpens = TRUE
INVARIANTS
  NothingRunsAfterClose
PROPERTIES
  CloseReturns
