CONSTANTS
  o1 = o1
  i1 = i1
  d1 = d1
  q1 = q1
  s1 = s1
  Orders = {o1}
  Items = {i1}
  MaxQty = 1
  Quotas = {0}
  Total = 2
  RefundBps <- MCBps
  Sweepers = {s1}
  MaxCrashes = 0
  AdminTargets = {}
  CapEditors = {}
  Tables = {d1}
  Scans = {q1}
  Takers = {}
  Phones = {}
  MAX_TICKET_RETRIES = 1
  QueueSweeps = {}
SPECIFICATION FrontOfHouseSpec
PROPERTIES
  OpenTabKeepsItsRounds
CHECK_DEADLOCK FALSE
