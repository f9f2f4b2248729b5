SPECIFICATION Spec
CONSTANTS
  s1 = s1  s2 = s2
  Job = Job
  NoProcess = NoProcess
  Server <- OneServer
  Embedded = 7
  Available = 11
  Broken <- NeedOrgs
  MaxInFlight = 1
  Faults <- NoFaults
INVARIANTS
  SchemaUpToDate
