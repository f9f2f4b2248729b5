SPECIFICATION Spec
CONSTANTS
  s1 = s1  s2 = s2
  r1 = r1  r2 = r2
  NoSub = NoSub
  Sub <- TwoSubs
  Request <- TwoRequests
  MaxOpen = 1
  MaxQueue = 3
  Faults <- AllFaults
SYMMETRY Symmetry
INVARIANTS
  TypeOK
  PaidIsRemembered
  AgreesWithStripe
  GateFollowsStripe
