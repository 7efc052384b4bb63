CONSTANTS
  g1 = g1
  r1 = r1
  r2 = r2
  a1 = a1
  Aggregates = {g1}
  AggregateType <- OnlyOrders
  Relays = {r1, r2}
  Operators = {a1}
  MaxAttempts = 3
  MaxVersion = 2
  MaxFaults = 3
SPECIFICATION FairSpec
INVARIANTS
  PublishedWasSent
  DuplicatesNeedFaults
PROPERTIES
  PendingIsSettled
CHECK_DEADLOCK FALSE
