SPECIFICATION Spec
CONSTANTS
  Topic = {ta, tb}
  MaxChanges = 5
  MaxDrops = 1
  MaxInFlight = 3
INVARIANTS
  FlagIsTrue
  LeftoverHasReason
PROPERTY EventuallySubscribed
CHECK_DEADLOCK FALSE
