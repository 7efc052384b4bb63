CONSTANTS
  o1 = o1
  i1 = i1
  s1 = s1
  w1 = w1
  r1 = r1
  Orders = {o1}
  Items = {i1}
  MaxQty = 1
  Quotas = {0}
  Total = 2
  RefundBps <- HalfBps
  Sweepers = {s1}
  MaxCrashes = 0
  AdminTargets = {}
  CapEditors = {}
  Workers = {w1}
  Reactors = {r1}
  AdminAsks = {}
  MaxRefunds = 3
  MaxFaults = 2
SPECIFICATION FairPaySpec
PROPERTIES
  ChargedMoneyIsSettled
CHECK_DEADLOCK FALSE
