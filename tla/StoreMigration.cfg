SPECIFICATION Spec
CONSTANTS
  j1 = j1
  j2 = j2
  n1 = n1
  n2 = n2
  p1 = p1
  NoNode = NoNode
  NoJob = NoJob
  CanRun <- AnyNode
  Jobs = {j1}
  Nodes = {n1, n2}
  PlanIds = {}
  CancelJobs = {j1}
  Reporters = {n1, n2}
  Reconfigured = {}
  Revocable = {n1}
  PlanTTL = 1
  DispatchTTL = 1
  ClaimTTL = 1
  CleanupTTL = 1
  ClockLag = 0
  MaxTime = 4
  MaxVersion = 2
  MaxFleet = 20
  PlanTime = 0
  PlanFleet = 0
INVARIANTS
  RowsAgree
PROPERTIES
  AuthorityLedger
  VersionGuardsRun
CHECK_DEADLOCK FALSE
