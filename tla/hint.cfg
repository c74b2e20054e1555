\* A caller with two appointments on one day cancels.
SPECIFICATION Spec
CONSTANTS
  k1 = k1
  k2 = k2
  c1 = c1
  u1 = u1
  u2 = u2
  b1 = b1
  b2 = b2
  cut = cut
  colour = colour
  p1 = p1
  p2 = p2
  x1 = x1
  x2 = x2
  q1 = q1
  Booker = {k1, k2}
  Checker = {}
  Canceller = {c1}
  Updater = {}
  Failing = {}
  Business = {b1}
  BusinessId = {b1}
  Service = {cut}
  Duration <- MCDuration
  ServiceText = {"cut"}
  Matching <- MCMatching
  Phone = {p1}
  Date = {1}
  Time = {330, 360}
  HintDate = {1}
  NoHint = NoHint
  Opening <- EarlyOpening
  OpeningDay = {5}
  Reference = {x1, x2}
  NoReference = NoReference
  NoTarget = NoTarget
  Instant = {1400}
  Attempts = 5
INVARIANT
  HintResolvesAmbiguity
CHECK_DEADLOCK FALSE
