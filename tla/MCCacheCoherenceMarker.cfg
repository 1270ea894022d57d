CONSTANTS
  Tasks = {t1, t2}
  Versions = {0, 1, 2}
  MaxVersion = 2
  MaxGets = 1
  EntryIds = {1, 2, 3}
  HeadBits = {}
  MaxFaults = 2
  MaxCrashes = 1
  MaxCancels = 1
  MaxFailures = 4
  MaxFills = 3
  MaxGen = 3
  MaxRefs = 3
  MaxHours = 0
  None = None
  Corrupt = Corrupt
SPECIFICATION CohSpec
INVARIANTS ServableFresh
CHECK_DEADLOCK FALSE
