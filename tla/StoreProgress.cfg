SPECIFICATION FairSpec
CONSTANTS
  j1 = j1
  j2 = j2
  n1 = n1
  n2 = n2
  p1 = p1
  NoNode = NoNode
  NoJob = NoJob
  CanRun <- AnyNode
  Jobs = {j1, j2}
  Nodes = {n1}
  PlanIds = {}
  CancelJobs = {j2}
  Reporters = {n1}
  Reconfigured = {}
  Revocable = {}
  PlanTTL = 1
  DispatchTTL = 1
  ClaimTTL = 1
  CleanupTTL = 1
  ClockLag = 0
  MaxTime = 2
  MaxVersion = 2
  MaxFleet = 20
  PlanTime = 0
  PlanFleet = 0
PROPERTIES
  CleanupReleased
  DispatchResolved
CHECK_DEADLOCK FALSE
