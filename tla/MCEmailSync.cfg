CONSTANTS
  Syncs = {s1, s2}
  Existing = 1
  MaxUID = 4
  NoId = {}
  Broken = {}
  Cites <- MCCites
  Subject <- MCSubject
  NoSubject = "none"
  Nested = {}
  NotStored = NotStored
  BatchSize = 2
  MaxExpunged = 1
  MaxFaults = 1
SYMMETRY MCSymmetry
SPECIFICATION Spec
INVARIANTS
  NoGap
  PastMailSkipped
  ReplyJoinsThread
