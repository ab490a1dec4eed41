SPECIFICATION Spec
CONSTANTS
  App = {a1, a2}
  Nobody = none
  NumLast = 1
  MaxUser = 3
  MaxOdd = 1
  MaxEvents = 3
  MaxAsked = 1
INVARIANTS
  IdentityKept
  DropHasReason
  GhostHasReason
PROPERTIES
  HandOver
  EventuallyShown
CHECK_DEADLOCK FALSE
