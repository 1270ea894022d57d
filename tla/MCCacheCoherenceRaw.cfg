CONSTANTS
  Tasks = {t1, t2}
  Versions = {0, 1}
  MaxVersion = 1
  MaxGets = 1
  EntryIds = {1, 2, 3}
  HeadBits = {}
  MaxFaults = 0
  MaxCrashes = 0
  MaxCancels = 0
  MaxFailures = 0
  MaxFills = 3
  MaxGen = 3
  MaxRefs = 3
  MaxHours = 0
  None = None
  Corrupt = Corrupt
SPECIFICATION RawSpec
INVARIANTS FreshReads
CHECK_DEADLOCK FALSE
