SPECIFICATION Spec
CONSTANTS
  u1 = u1  u2 = u2
  o1 = o1  o2 = o2
  k1 = k1
  r1 = r1  r2 = r2
  NoOrg = NoOrg
  NoActor = NoActor
  User <- TwoUsers
  Org <- TwoOrgs
  Key <- OneKey
  Request <- TwoRequests
  Text <- Guest
  Faults <- Crashes
SYMMETRY Symmetry
INVARIANTS
  ActiveIsMember
  OrgHasMember
  RoleIsCurrent
PROPERTIES
  ChangesAreEntitled
  KeysOnlyDie
