CONSTANTS
  Servers = {s1, s2}
  Events = {"mail", "system"}
  UserOf <- MCUserOf
  PriorityOf <- MCPriorityOf
  OfEmail = {"mail"}
  Unreadable = {}
  Channels = {"whatsapp", "email_digest"}
  Reports = {"failed"}
  Limit <- MCLimit
  BatchSize = 2
  StreamMax = 1
  MaxHours = 2
  MaxFaults = 1
  MaxCallbacks = 1
SPECIFICATION FairSpec
INVARIANTS
  SendsAreLimited
PROPERTIES
  LeftPendingOnlyByFault
  EveryEventEnds
CHECK_DEADLOCK FALSE
