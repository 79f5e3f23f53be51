CONSTANTS
  Users = {1, 2}
  Jobs = {"a1", "b1"}
  UserOf <- MCUserOf
  ScoreOf <- MCScoreOf
  Clients = {c1, c2}
  Pools = {p1, p2}
  NoJob = NoJob
  MaxLen = 2
  MaxFaults = 1
SPECIFICATION FairSpec
PROPERTIES
  ImplementsWorkQueue
  StrandedOnlyByZRemOrCutEnqueue
  MetaQueueDrains
