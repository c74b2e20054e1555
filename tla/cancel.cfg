\* Cancellations racing a dashboard update, over two businesses, two callers
\* and two days.
SPECIFICATION Spec
CONSTANTS
  k1 = k1
  k2 = k2
  c1 = c1
  q1 = q1
  u1 = u1
  u2 = u2
  b1 = b1
  b2 = b2
  cut = cut
  colour = colour
  p1 = p1
  p2 = p2
  x1 = x1
  x2 = x2
  Booker = {k1, k2}
  Checker = {}
  Canceller = {c1}
  Updater = {u1}
  Failing = {}
  Business = {b1, b2}
  BusinessId = {b1, b2}
  Service = {cut}
  Duration <- MCDuration
  ServiceText = {"cut"}
  Matching <- MCMatching
  Phone = {p1, p2}
  Date = {1}
  HintDate = {1, 2}
  Time = {345}
  NoHint = NoHint
  Opening <- EarlyOpening
  OpeningDay = {5}
  Reference = {x1, x2}
  NoReference = NoReference
  NoTarget = NoTarget
  Instant = {1400, 1460}
  Attempts = 1
SYMMETRY Symmetry
INVARIANTS
  CancelledStaysCancelled
  CancelHitsCallersUpcoming
PROPERTIES
  OnlyOwnerMovesStatus
CHECK_DEADLOCK FALSE
