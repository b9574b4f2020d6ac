CONSTANTS
  t1 = t1
  c1 = c1
  c2 = c2
  Tabs = {t1}
  Contents <- MCContents
  Blank <- MCBlank
  Seeded <- MCBlank
  NoInverse = NoInverse
  Keys = {}
  NoKey = NoKey
  Operations = {"alerts.create_draft", "alerts.edit_conditions", "alerts.enable_activation",
                "alerts.disable_activation", "panels"}
  StorageFails = FALSE
  MaxUnnamed = 2
  MaxRecords = 2
  MaxCacheEntries = 1
  ExpectedRevisions = {0}
  MaxWorkspaces = 1
  MaxRevision = 8
  MaxChanges = 8
  MaxPreviews = 1
  MaxPreviewIds = 1
  RollbackFails = FALSE
  Conditions = {c1, c2}
  NoConditions = NoConditions
  Ttl = 2
  MaxTime = 3
  GroupChoices <- MCAnyGroups
SPECIFICATION AlertSpec
CHECK_DEADLOCK FALSE
INVARIANTS
  ActivationsHold
PROPERTIES
  OnlyHumansArmByUndo
