SPECIFICATION Spec
CONSTANTS
  f1 = f1  f2 = f2
  o1 = o1  n1 = n1  b1 = b1
  r1 = r1  r2 = r2
  NoFile = NoFile
  NoOrg = NoOrg
  NoBucket = NoBucket
  File <- TwoFiles
  Org <- OneOrg
  Name <- OneName
  Bucket <- OneBucket
  DefaultBucket = b1
  Request <- TwoRequests
  RequestedLimit <- Limits
  Faults <- AllFaults
SYMMETRY Symmetry
INVARIANTS
  TypeOK
  OneRowPerObject
  DeletedIsGone
  ListMissesFew
PROPERTIES
  LossIsExcused
