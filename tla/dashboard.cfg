\* The four pages: one tab, and two to four moves of the user or, on the settings,
\* of others.
SPECIFICATION Spec
CONSTANTS
  Tabs = {t1}
  Slots = {r1, r2}
  Names = {a, b}
  Home = a
  Usual = b
  Days = {d1, d2}
  Plans = {}
  None = None
  MaxFaults = 1
  MaxLoads = 2
  Theirs <- MCTheirs
  ScheduledAt <- MCScheduledAt
  Found = {1, 4, 5}
  Word = Word
  Statuses = {"CONFIRMED", "CANCELLED"}
  Page = 2
  MaxChanges = 1
  Ranges = {1, 2}
  DefaultRange = 2
  FirstTime <- MCFirstTime
  Changes <- MCChanges
  LastTime = 7
  MaxLogs = 5
  FirstPages = {"calls", "bookings", "analytics", "settings"}
  Moves <- MCMoves
  MovesAfter = 1
  Books <- MCBooks
  Profiles <- MCProfiles
  Logged <- MCLogged
SYMMETRY Symmetry
CHECK_DEADLOCK FALSE
INVARIANTS
  TypeOK
  ListIsCurrent
  RowsMatchFilter
  OneSectionPerDay
  SkeletonIsLoading
  CallsInOrder
  VolumeAddsUp
  ChartsFollowRange
  SavedIsStored
  CleanIsUntouched
PROPERTIES
  EditsGoKnowingly
