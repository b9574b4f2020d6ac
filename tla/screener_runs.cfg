CONSTANTS
  t1 = t1
  d1 = d1
  d2 = d2
  k1 = k1
  Tabs = {t1}
  Contents <- MCContents
  Blank <- MCBlank
  Seeded <- MCBlank
  NoInverse = NoInverse
  Keys = {}
  NoKey = NoKey
  Operations = {"edit"}
  StorageFails = FALSE
  MaxUnnamed = 2
  MaxRecords = 1
  MaxCacheEntries = 1
  ExpectedRevisions = {0}
  MaxWorkspaces = 1
  MaxRevision = 5
  MaxChanges = 5
  Definitions = {d1, d2}
  RunKeys = {k1}
  MaxScreenerRevision = 2
  MaxScreeners = 1
  MaxRuns = 2
  MaxCalls = 2
SPECIFICATION ScreenerSpec
SYMMETRY Symmetry
CHECK_DEADLOCK FALSE
INVARIANTS
  RunsHold
PROPERTIES
  DefineAdvances
