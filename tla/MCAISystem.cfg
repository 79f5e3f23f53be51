CONSTANTS
  Emails = {e1}
  Plans = {"estate"}
  PlanStages <- MCPlanStages
  Workers = {w1, w2}
  NoJob = NoJob
  RetryCap = 2
  DraftCap = 1
  Users = {1}
  Owner <- MCOwner
  PlanPriority <- MCPlanPriority
  Capacity = 2
  BatchSize = 2
  RetryBatch = 1
  MaxRetries = 2
  Pool = Pool
  MaxLen = 2
  MaxFaults = 1
SPECIFICATION FairSpec
PROPERTIES
  DraftsAccounted
  SettledAndQuietStays
  EveryEmailSettles
