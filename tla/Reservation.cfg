CONSTANTS
  b1 = b1
  b2 = b2
  a1 = a1
  a2 = a2
  Bookings = {b1, b2}
  Starts = {0, 1}
  LastSlot = 2
  MaxParty = 2
  Policies <- TwoGrids
  Savers = {a1, a2}
  SweepLimit = 1
  MaxCrashes = 1
CONSTRAINT Small
SYMMETRY Symmetric
SPECIFICATION Spec
INVARIANTS
  SeatsMatchActiveBookings
  SweptDayIsClear
PROPERTIES
  NoOverbooking
  ImplementsFulfilment
