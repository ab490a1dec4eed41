SPECIFICATION Spec
CONSTANTS
  HeartTime = 2
  KeepTime = 2
  PingTime = 1
  RbSize = 3
  MaxFaults = 2
  MaxStalls = 1
INVARIANTS
  TypeOK
  OrphanBound
  StaleBound
  DeafHasReason
PROPERTIES
  KeepsSession
  Recovers
