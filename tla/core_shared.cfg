CONSTANTS
  t1 = t1
  t2 = t2
  blank = blank
  seeded = seeded
  k1 = k1
  Tabs = {t1, t2}
  Contents = {blank, seeded}
  Blank = blank
  Seeded = seeded
  NoInverse = NoInverse
  Keys = {}
  NoKey = NoKey
  Operations = {"edit"}
  StorageFails = TRUE
  MaxUnnamed = 1
  MaxRecords = 1
  MaxCacheEntries = 1
  ExpectedRevisions = {0}
  MaxWorkspaces = 1
  MaxRevision = 4
  MaxChanges = 2
SPECIFICATION Spec
INVARIANTS
  SnapshotsFaithful
PROPERTIES
  SnapshotsNeverRewritten
  SavedRevisionsKept
  ImplementsArchive
SYMMETRY Symmetry
CHECK_DEADLOCK FALSE
