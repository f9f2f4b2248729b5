SPECIFICATION PagesSpec
CONSTANTS
  p1 = p1
  c1 = c1  c2 = c2
  r1 = r1  r2 = r2
  Absent = Absent
  NoProject = NoProject
  Project <- OneProject
  Content <- TwoContents
  Request <- TwoRequests
  MaxLog = 2
  MaxSize = 2
  DefaultSize = 1
  RequestedSize <- Sizes
  Faults <- AllFaults
INVARIANTS
  TrailIsChain
  TrailIsComplete
  PagesMissNothing
PROPERTIES
  TrailCatchesUp
\* Once every id is used and every trail is full the handlers stop.
CHECK_DEADLOCK FALSE
