SPECIFICATION Spec
CONSTANTS
  j1 = j1
  j2 = j2
  n1 = n1
  n2 = n2
  p1 = p1
  NoNode = NoNode
  NoJob = NoJob
  CanRun <- AnyNode
  Jobs = {j1, j2}
  Nodes = {n1}
  PlanIds = {p1}
  CancelJobs = {}
  Reporters = {n1}
  Reconfigured = {n1}
  Revocable = {}
  PlanTTL = 1
  DispatchTTL = 1
  ClaimTTL = 1
  CleanupTTL = 1
  ClockLag = 0
  MaxTime = 3
  MaxVersion = 2
  MaxFleet = 20
  PlanTime = 1
  PlanFleet = 4
INVARIANTS
  NoOversell
  PlanStillFree
PROPERTIES
  ReleaseNeedsEvidence
  WaitingServedFirst
  ImplementsLifecycle
CONSTRAINT Scope
SYMMETRY JobSymmetry
