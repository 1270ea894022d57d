CONSTANTS
  Tasks = {t1, t2}
  Versions = {v1, v2, v3}
  FileVersions = {v1, v2}
  EntryIds = {1, 2, 3}
  HeadBits = {b1}
  MaxFaults = 1
  MaxCrashes = 1
  MaxCancels = 1
  MaxFailures = 1
  MaxFills = 2
  MaxGen = 1
  MaxRefs = 2
  MaxHours = 1
  None = None
  Corrupt = Corrupt
SYMMETRY Symmetry
SPECIFICATION MCSpec
INVARIANTS NoTornEntry CountExact FillsFenced
PROPERTIES ConditionalHitsTarget NoLostUpdate HeadStateKept
