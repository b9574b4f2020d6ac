CONSTANTS
  t1 = t1
  t2 = t2
  blank = blank
  seeded = seeded
  k1 = k1
  Tabs = {t1}
  Contents = {blank, seeded}
  Blank = blank
  Seeded = seeded
  NoInverse = NoInverse
  Keys = {k1}
  NoKey = NoKey
  Operations = {"edit"}
  StorageFails = FALSE
  MaxUnnamed = 2
  MaxRecords = 2
  MaxCacheEntries = 1
  ExpectedRevisions = {0, 2}
  MaxWorkspaces = 1
  MaxRevision = 5
  MaxChanges = 6
SPECIFICATION Spec
INVARIANTS
  TypeOK
  UndoErasesNothing
  UndoRestoresPrevious
  LogIsSound
CHECK_DEADLOCK FALSE
