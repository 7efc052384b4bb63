CONSTANTS
  o1 = o1
  i1 = i1
  s1 = s1
  Orders = {o1}
  Items = {i1}
  MaxQty = 1
  Quotas = {0, 1}
  Total = 2
  RefundBps <- MCBps
  Sweepers = {s1}
  MaxCrashes = 0
  AdminTargets = {"REFUNDED"}
  CapEditors = {}
SPECIFICATION Spec
PROPERTIES
  SweeperExpiresOnlyOverdue
