\* Two bookings and two dashboard updates at once.
SPECIFICATION Spec
CONSTANTS
  k1 = k1
  k2 = k2
  c1 = c1
  q1 = q1
  u1 = u1
  u2 = u2
  b1 = b1
  b2 = b2
  cut = cut
  colour = colour
  p1 = p1
  p2 = p2
  x1 = x1
  x2 = x2
  Booker = {k1, k2}
  Checker = {}
  Canceller = {}
  Updater = {u1, u2}
  Failing = {k1, k2, u1, u2}
  Business = {b1}
  BusinessId = {b1}
  Service = {cut, colour}
  Duration <- MCDuration
  ServiceText = {"cut", "colour"}
  Matching <- MCMatching
  Phone = {p1}
  Date = {1}
  HintDate = {}
  Time = {315, 330, 345}
  NoHint = NoHint
  Opening <- EarlyOpening
  OpeningDay = {5}
  Reference = {x1, x2}
  NoReference = NoReference
  NoTarget = NoTarget
  Instant = {1400}
  Attempts = 2
SYMMETRY Symmetry
INVARIANTS
  TypeOK
  SuccessiveBookingsKeptApart
  ReferenceFindsBooking
PROPERTIES
  ImplementsBook
CHECK_DEADLOCK FALSE
