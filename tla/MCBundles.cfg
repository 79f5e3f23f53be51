SPECIFICATION BundlesSpec
CONSTANTS
  Users = {u1, u2}
  Bundles = {b1, b2, b3}
  Callers = {c1}
  None = None
  Services = {"imap", "cron"}
  MaxFailures = 3
  Base = 2
  MaxBackoff = 3
INVARIANTS
  AliveIsReachable
  WaitGroupCounts
  DrainNilCoversCounted
  WaitDoubles
PROPERTIES
  NothingAfterReturn
  PausedIsReported
  StoppedEnds
CHECK_DEADLOCK FALSE
