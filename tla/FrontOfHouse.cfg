CONSTANTS
  o1 = o1
  o2 = o2
  i1 = i1
  d1 = d1
  q1 = q1
  q2 = q2
  g1 = g1
  g2 = g2
  g3 = g3
  p1 = p1
  p2 = p2
  s1 = s1
  Orders = {o1, o2}
  Items = {i1}
  MaxQty = 1
  Quotas = {0}
  Total = 2
  RefundBps <- MCBps
  Sweepers = {}
  MaxCrashes = 0
  AdminTargets = {}
  CapEditors = {}
  Tables = {d1}
  Scans = {q1, q2}
  Takers = {g1, g2, g3}
  Phones = {p1, p2}
  MAX_TICKET_RETRIES = 2
  QueueSweeps = {s1}
SPECIFICATION FrontOfHouseSpec
INVARIANTS
  OneOpenSittingPerTable
  OneGuestPerSitting
  NumbersAreConsecutive
  SecondNumberNeedsOverlap
PROPERTIES
  EndedTicketsStay
CONSTRAINT Small
SYMMETRY Symmetric
CHECK_DEADLOCK FALSE
