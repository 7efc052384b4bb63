CONSTANTS
  o1 = o1
  i1 = i1
  s1 = s1
  w1 = w1
  r1 = r1
  Orders = {o1}
  Items = {i1}
  MaxQty = 1
  Quotas = {0}
  Total = 2
  RefundBps <- HalfBps
  Sweepers = {}
  MaxCrashes = 0
  AdminTargets = {"EXPIRED"}
  CapEditors = {}
  Workers = {w1}
  Reactors = {r1}
  AdminAsks <- ByHand
  MaxRefunds = 3
  MaxFaults = 1
SPECIFICATION PaySpec
INVARIANTS
  PaidOrderHasCapture
  CaptureIsReal
  BooksBracketTheProvider
  RefundedPaymentIsCovered
  RefundedOrderGotItsMoney
PROPERTIES
  ReactorPaysTheDecision
  ImplementsOrdering
CHECK_DEADLOCK FALSE
