\* Every kind of request, on a colliding reference, for liveness: no symmetry.
SPECIFICATION FairSpec
CONSTANTS
  k1 = k1
  k2 = k2
  c1 = c1
  u1 = u1
  u2 = u2
  b1 = b1
  b2 = b2
  cut = cut
  colour = colour
  p1 = p1
  p2 = p2
  x1 = x1
  x2 = x2
  q1 = q1
  Booker = {k1, k2}
  Checker = {q1}
  Canceller = {c1}
  Updater = {u1}
  Failing = {k1}
  Business = {b1}
  BusinessId = {b1, b2}
  Service = {cut, colour}
  Duration <- MCDuration
  ServiceText = {"cut", "hair"}
  Matching <- MCMatching
  Phone = {p1}
  Date = {1}
  Time = {330}
  HintDate = {}
  NoHint = NoHint
  Opening <- EarlyOpening
  OpeningDay = {5}
  Reference = {x1}
  NoReference = NoReference
  NoTarget = NoTarget
  Instant = {1400}
  Attempts = 3
PROPERTIES
  EveryRequestAnswered
  ServiceEnds
CHECK_DEADLOCK FALSE
