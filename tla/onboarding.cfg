\* Onboarding: two tabs and two requests, of which one may be left behind by a
\* reload or a lost answer; two names, so that a retry may take another.
SPECIFICATION Spec
CONSTANTS
  Tabs = {t1, t2}
  Slots = {r1, r2}
  Names = {a, b}
  Demo = a
  Days = {d1, d2}
  Plans = {"STARTER", "PRO"}
  None = None
  Samples = {s1, s2}
  MaxFaults = 1
  MaxCalls = 2
  Moves = 2
  Starts = 6
SYMMETRY Symmetry
CHECK_DEADLOCK FALSE
INVARIANTS
  TypeOK
  LoneSaveIsWhole
  TwoRowsOnlyOverlapping
  VerifiedByACall
  DashboardMeansComplete
  StepsInOrder
  WaitingIsAnswered
  DemoReady
PROPERTIES
  PurchasesStay
  EditsStay
