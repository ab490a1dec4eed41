SPECIFICATION ClientSpec
CONSTANTS
  account = account
  center = center
  a1 = a1
  a2 = a2
  NoApp = NoApp
  App = {a1, a2}
  Topic <- AllTopics
  FixedTopics <- TwoFixed
  MaxChanges = 4
  MaxDrops = 1
  MaxInFlight = 3
INVARIANT OneApplicationListed
PROPERTY HearsCurrentApp
CHECK_DEADLOCK FALSE
