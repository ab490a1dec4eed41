SPECIFICATION Spec
CONSTANTS
  d1 = d1
  d2 = d2
  g1 = g1
  App = {a1, a2}
  Dev = {d1, d2}
  Group = {all, g1, g2}
  All = all
  InitialTables <- AllKinds
  MaxActions = 2
  MaxEvents = 2
  MaxFaults = 1
INVARIANTS
  TypeOK
  CopyIsStored
  PatientKeepsOrder
  ForeignOnlyIfMixed
PROPERTY EventuallyHasAll
CHECK_DEADLOCK FALSE
