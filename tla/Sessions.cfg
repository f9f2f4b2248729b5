SPECIFICATION FairSpec
CONSTANTS
  u1 = u1
  t1 = t1  t2 = t2
  x1 = x1
  r1 = r1  r2 = r2
  NoUser = NoUser
  NoCred = NoCred
  User <- OneUser
  Token <- TwoTokens
  Reset <- OneReset
  Request <- TwoRequests
  Faults <- AllFaults
  MaxLost = 1
INVARIANTS
  RotationConsumes
  ForkNeedsOverlap
  LoggedOutStaysOut
  ResetReuseNeedsOverlap
  OldSessionsExcused
PROPERTIES
  OldSessionsEnd
