CONSTANTS
  t1 = t1
  t2 = t2
  blank = blank
  seeded = seeded
  k1 = k1
  Tabs = {t1}
  Contents = {blank, seeded}
  Blank = blank
  Seeded = seeded
  NoInverse = NoInverse
  Keys = {k1}
  NoKey = NoKey
  Operations = {"edit"}
  StorageFails = TRUE
  MaxUnnamed = 1
  MaxRecords = 1
  MaxCacheEntries = 1
  ExpectedRevisions = {0}
  MaxWorkspaces = 1
  MaxRevision = 3
  MaxChanges = 2
  MaxPreviews = 2
  MaxPreviewIds = 2
  RollbackFails = TRUE
SPECIFICATION PreviewSpec
INVARIANTS
  PreviewsHonest
  ConsumedMeansCommitted
CHECK_DEADLOCK FALSE
