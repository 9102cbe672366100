SPECIFICATION HostSpec
CONSTANTS
  d1 = d1
  d2 = d2
  r1 = r1
  r2 = r2
  r3 = r3
  k1 = k1
  k2 = k2
  Daemons = {d1, d2}
  Runs = {r1, r2, r3}
  NoRun = NoRun
  Root = root
  Old = old
  Kids = {k1, k2}
  Quiet = 1
  MaxBoots = 2
  Stops = {"cancel_requested"}
INVARIANTS
  GuardCovers
  SoleWorker
  ContainmentSound
PROPERTIES
  MarkerRetained
  BaselineSpared
SYMMETRY Symmetry
CHECK_DEADLOCK FALSE
