\* A cancellation whose answer is lost and that is tried again.
SPECIFICATION CallSpec
CONSTANTS
  cut = cut
  r1 = r1
  r2 = r2
  a1 = a1
  t1 = t1
  q1 = q1
  w1 = w1
  i1 = i1
  p1 = p1
  b1 = b1
  x1 = x1
  x2 = x2
  Run = {r1, r2}
  Call = {a1}
  CallOf <- MCCallOf
  PhoneOf <- MCPhoneOf
  Home = b1
  AuthorityPhone = {p1}
  CheckTool = {}
  BookTool = {t1}
  CancelTool = {w1}
  InquiryTool = {}
  Nobody = Nobody
  NoSession = NoSession
  NoSlot = NoSlot
  NoTranscript = NoTranscript
  Crashing = {}
  Flaky = {}
  MayCall <- MCMayCall
  MaxAttempts = 2
  Booker <- MCBooker
  Checker <- MCChecker
  Canceller <- MCCanceller
  Updater = {}
  Failing = {}
  Business = {b1}
  BusinessId = {b1}
  Service = {cut}
  Duration <- MCDuration
  ServiceText = {"cut"}
  Matching <- MCMatching
  Phone = {p1}
  Date = {1}
  HintDate = {}
  Time = {330}
  NoHint = NoHint
  Opening <- EarlyOpening
  OpeningDay = {5}
  Reference = {x1}
  NoReference = NoReference
  NoTarget = NoTarget
  Instant = {1400}
  Attempts = 2
PROPERTY
  RetryOfCancelIsSafe
CHECK_DEADLOCK FALSE
