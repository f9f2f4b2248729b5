SPECIFICATION FairSpec
CONSTANTS
  k1 = k1
  r1 = r1  r2 = r2
  NoKey = NoKey
  Key <- OneKey
  Request <- TwoRequests
  One = 2
  Rate = 1
  Cap = 4
  Second = 2
  TTL = 4
  MaxTime = 8
INVARIANTS
  WindowBound
  RefusedIsRecent
  RefusedMeansEmpty
PROPERTIES
  StaleIsEvicted
  ImplementsTokenBuckets
