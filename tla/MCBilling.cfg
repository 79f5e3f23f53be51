CONSTANTS
  Workers = {w1, w2}
  Events = {"e1", "e2", "e3"}
  Histories <- MCHistories
  Schemas <- MCSchemas
  PaidPlans = {"attache"}
  Readers = {r1}
  SuspendAfter = 2
  DunningDays = 1
  GraceDays = 1
  MaxDay = 3
  MaxFaults = 1
SPECIFICATION FairSpec
INVARIANTS
  FailuresAreDated
  GracePeriodHasEnd
PROPERTIES
  StaleCacheExpires
  PlanTakenByDunning
CHECK_DEADLOCK FALSE
