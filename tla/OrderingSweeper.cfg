CONSTANTS
  o1 = o1
  i1 = i1
  s1 = s1
  s2 = s2
  Orders = {o1}
  Items = {i1}
  MaxQty = 2
  Quotas = {1, 2}
  Total = 2
  RefundBps <- MCBps
  Sweepers = {s1, s2}
  MaxCrashes = 2
  AdminTargets = {"READY_FOR_PICKUP", "REFUNDED"}
  CapEditors = {}
SPECIFICATION FairSpec
INVARIANTS
  LedgerExactlyOnce
  PaidClosureHasDecision
  VersionsAreGapless
PROPERTIES
  DecisionIsFinal
  OverdueOrdersResolve
