CONSTANTS
  Tasks = {t1, t2}
  Versions = {v1, v2}
  EntryIds = {1, 2, 3}
  HeadBits = {}
  MaxFaults = 2
  MaxCrashes = 0
  MaxCancels = 0
  MaxFailures = 2
  MaxFills = 2
  MaxGen = 1
  MaxRefs = 2
  MaxHours = 0
  None = None
  Corrupt = Corrupt
SPECIFICATION Spec
INVARIANTS NoTornEntry
