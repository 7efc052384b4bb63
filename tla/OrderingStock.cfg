CONSTANTS
  o1 = o1
  o2 = o2
  i1 = i1
  i2 = i2
  e1 = e1
  e2 = e2
  Orders = {o1, o2}
  Items = {i1, i2}
  MaxQty = 1
  Quotas = {0, 1}
  Total = 2
  RefundBps <- MCBps
  Sweepers = {}
  MaxCrashes = 0
  AdminTargets = {"CANCELLED", "READY_FOR_PICKUP", "EXPIRED", "REFUNDED"}
  CapEditors = {e1, e2}
CONSTRAINT Small
SYMMETRY Symmetric
SPECIFICATION Spec
INVARIANTS
  TypeOK
  HeldMatchesLiveOrders
  SoldMatchesFulfilledOrders
PROPERTIES
  NoOversell
  ImplementsFulfilment
  CapDriftsOnlyByOverlap
CHECK_DEADLOCK FALSE
