SPECIFICATION FairSpec
CONSTANTS
  s1 = s1  s2 = s2
  Job = Job
  NoProcess = NoProcess
  Server <- TwoServers
  Embedded = 7
  Available = 11
  Broken <- NeedOrgs
  MaxInFlight = 1
  Faults <- AllFaults
INVARIANTS
  TypeOK
  RecordedIsApplied
  ServingIsMigrated
  StopIsOrderly
PROPERTIES
  StopEnds
