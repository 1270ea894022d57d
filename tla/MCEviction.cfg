SPECIFICATION MCSpec
CONSTANTS
  Hashes = {h1}
  Junk = {h2}
  Sizes = {3}
  MaxBytes = 3
  MaxFills = 2
  MaxTime = 1
  MaxOps = 1
  MaxFaults = 1
  WideSizes = {1}
  WideFaults = 2
  None = None
  Corrupt = Corrupt
INVARIANTS BudgetCovers
PROPERTIES SparesLiveEntries EvictsNoMore BudgetRestored
