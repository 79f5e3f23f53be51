SPECIFICATION Spec
CONSTANTS
  Users = {u1, u2}
  Processes = {p1, p2}
  Requests = {r1}
  Emails = {"e1", "e2"}
  NoSlot = NoSlot
  Jobs = {"poll", "daily"}
  AtStart <- MCAtStart
  Pooled = {"poll"}
  Interval <- MCInterval
  Conns = 2
  Boot = 4
  CronTime = 5
  MaxStops = 1
  MaxFailures = 1
  Events = {"e1", "e2"}
  Malformed = {"e2"}
  MaxRetries = 1
  CalendarChanges = 1
  Manual = "manual"
  Items <- MCItems
  Window = 1
  TaskTime = 1
  TaskRows = 2
  Periods = {1}
  SeriesTime = 4
  SeriesRows = 4
  Tasks = {t1}
  Kinds = {"48h", "2h"}
  Offset <- MCOffset
  Deadlines = {0, 1}
  RemindTime = 2
  Delegations = {d1, d2}
  Nobody = Nobody
  MaxFollowUps = 2
  FollowTime = 1
  PerHour = 2
  Increment = 1
  MaxSuggestions = 2
  Meetings <- MCMeetings
  Searches <- MCSearches
  SlotPrefs <- MCSlotPrefs
  Times <- MCTimes
  Ranges <- MCRanges
  PrefRows <- MCPrefRows
  Default <- MCDefault
  TableChanges = 1
  TableFaults = 1
  Drafts = {d1}
  NoDraft = NoDraft
  MaxEdits = 1
  MaxMs = 2
  Tenants = {u1, u2}
  TenantOf <- MCTenantOf
  Codes = {"T", "D"}
  Trial = {"T"}
  Plans = {"attache", "estate"}
  PlanOf <- MCPlanOf
  MaxUses <- MCMaxUses
  ValidUntil <- MCValidUntil
  Days = 1
  PromoTime = 2
  MaxErrors = 1
INVARIANTS JobsAreRecovered RowsMirrorEvents RemindedWithinLimits
PROPERTIES CodesKept TasksStoredOnce CalendarAgrees SentAsDecided
SYMMETRY Symmetry
CHECK_DEADLOCK FALSE
