CONSTANTS
  o1 = o1
  o2 = o2
  i1 = i1
  c1 = c1
  c2 = c2
  w1 = w1
  w2 = w2
  k1 = k1
  k2 = k2
  m1 = m1
  m2 = m2
  t1 = t1
  t2 = t2
  a1 = a1
  a2 = a2
  a3 = a3
  x1 = x1
  x2 = x2
  e1 = e1
  e2 = e2
  n1 = n1
  n2 = n2
  v0 = v0
  v1 = v1
  v2 = v2
  j1 = j1
  j2 = j2
  u1 = u1
  u2 = u2
  r1 = r1
  r2 = r2
  b1 = b1
  b2 = b2
  Orders = {o1, o2}
  Items = {i1}
  MaxQty = 1
  Quotas = {0}
  Total = 2
  RefundBps <- MCBps
  Sweepers = {}
  MaxCrashes = 0
  AdminTargets = {}
  CapEditors = {}
  Operators = {c1, c2}
  Ratings = {1, 2}
  Writers = {w1, w2}
  Tickets = {k1, k2}
  Handlers = {m1, m2}
  Tabs = {t1, t2}
  Calls = {x1, x2}
  MaxTokens = 3
  Admins = {a1, a2, a3}
  Edits = {e1, e2}
  Desks = {b1, b2}
  Instances = {n1, n2}
  ConfigWrites = {j1, j2}
  ConfigValues = {v1, v2}
  EnvValue = v0
  Uploads = {u1, u2}
  Removals = {r1, r2}
SPECIFICATION BackOfficeSpec
INVARIANTS
  SecondTicketNeedsOverlap
  SessionLostOnlyByFault
  PolicyIsStoredUnlessMissed
  ReadyImageIsStored
PROPERTIES
  SettledAgainOnlyIfOverlapped
  RatingDriftsOnlyByOverlap
  TicketEndsOnce
  LastAdminLostOnlyByOverlap
  ClosedShopIsFinal
CONSTRAINT Small
SYMMETRY Symmetric
CHECK_DEADLOCK FALSE
