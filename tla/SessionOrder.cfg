SPECIFICATION Spec
CONSTANTS
  TTL = 1
  ClockLag = 1
  ClockSkew = 1
  Attempts = 2
  MaxWire = 2
INVARIANTS
  ViewConsistent
  EndTruthful
  CancelNeverSucceeds
  LeaseBounded
