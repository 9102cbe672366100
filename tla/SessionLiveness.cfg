SPECIFICATION FairSpec
CONSTANTS
  TTL = 1
  ClockLag = 0
  ClockSkew = 0
  Attempts = 1
  MaxWire = 1
PROPERTIES
  CancelHonoured
  StopEndsRun
