CONSTANTS
  Syncs = {s1}
  Existing = 1
  MaxUID = 5
  NoId = {3}
  Broken = {4}
  Cites <- MCCites
  Subject <- MCSubject
  NoSubject = "none"
  Nested = {}
  NotStored = NotStored
  BatchSize = 2
  MaxExpunged = 1
  MaxFaults = 3
SPECIFICATION FairSpec
PROPERTIES
  EveryMailArrives
  StatusRecovers
