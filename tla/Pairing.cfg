SPECIFICATION Spec
CONSTANTS
  p1 = p1
  p2 = p2
  p3 = p3
  n1 = n1
  n2 = n2
  Pairings = {p1, p2, p3}
  Nodes = {n1, n2}
  Intended <- TwoNodes
  Keyed = {p1}
  FailureCodes = {"worker_install_failed"}
  NoNode = NoNode
  NoPairing = NoPairing
  MaxRecords = 3
  MaxDigests = 3
  MaxInterrupts = 2
  Withdrawable = {p1}
  Lapsing = {p1}
INVARIANTS
  OneIdentity
  CredentialsKept
  UncertainKept
PROPERTIES
  PhaseOrder
CHECK_DEADLOCK FALSE
