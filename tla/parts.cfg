CONSTANTS
  MaxKey = 5
  MaxIncoming = 3
  BatchSizes = {1, 2, 3}
  GroupRows = 2
  Mounts = {"m1", "m2"}
  ToolGroups <- MCToolGroups
  Supplied <- MCSupplied
  MaxFailures = 2
  MaxAttempts = 3
  Conditions = {"c1", "c2"}
  Shapes <- MCShapes
  MarketData <- MCMarketData
  Rankings <- MCRankings
  NoRanking = NoRanking
  Untied = Untied
  NoRun = NoRun
  NoValue = NoValue
  Evaluators = {"backend", "browser"}
  MaxEdits = 2
  StoredRuns <- MCRuns
  NoNumber = NoNumber
  Sorts <- MCSorts
  Unsorted = Unsorted
  PageSizes = {1, 2, 3}
  MAX_PAGE_SIZE = 2
  NoWalk = NoWalk
  Callers = {"c1"}
  Keys = {"k"}
  Criteria = {"price", "sector"}
  EngineCriteria = {"price"}
  UniverseOf <- MCUniverseOf
  Failing = {2}
  MAX_STORED_BACKTESTS = 1
  MaxBacktests = 2
  RawConditions <- MCRawConditions
  DefinedScreeners <- MCDefinedScreeners
  Declarations <- MCDeclarations
  UniverseSpecs <- MCUniverseSpecs
  Unresolved = Unresolved
  Unranked = Unranked
  BarValues <- MCBarValues
  DayOf <- MCDayOf
  Today = 2
  BY_ID <- CATALOG_ITEMS
  MaxBars = 3
  MaxRevisions = 3
SPECIFICATION PartsSpec
CHECK_DEADLOCK FALSE
INVARIANTS
  MergedSoFar
  ToolsDriveTheScreen
  ScreenersHold
  RunExplainsItself
  PagesTile
  AnswersHold
PROPERTIES
  Recovers
  EditsKeepTheRest
  BacktestsSettle
