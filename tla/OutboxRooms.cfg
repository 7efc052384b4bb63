CONSTANTS
  g1 = g1
  r1 = r1
  Aggregates = {g1}
  AggregateType <- OnlyOrders
  Relays = {r1}
  Operators = {}
  MaxAttempts = 10
  MaxVersion = 2
  MaxFaults = 1
SPECIFICATION Spec
INVARIANTS
  PublishedReachesItsRoom
CHECK_DEADLOCK FALSE
