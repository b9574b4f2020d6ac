CONSTANTS
  MaxTime = 5
  Cap = 3
  Counts = {0, 4}
  Widths <- MCWidths
  Ranges <- MCRanges
  Markets <- MCMarkets
  Items = {"sma", "rsi"}
  Overlays = {"sma"}
  Paths = {"tool"}
  MaxStudies = 3
  MaxAnnotations = 2
  MaxBatch = 2
  Instruments = {"a", "b"}
  Screeners = {"s1", "s2"}
  RunMatches <- MCRunMatches
  Selections <- MCSelections
  MaxLists = 2
  Builtin <- MCBuiltin
  Raws <- MCRaws
  Declarations <- MCDeclarations
  Claims <- MCClaims
  ItemNames = {n1, n2}
  maxDepth = 3
  maxNodes = 5
  maxLookbackBars = 4
  NoRange = NoRange
  MaxItems = 2
  MaxPreviewed = 1
  MaxHeld = 3
  Kinds <- MCKinds
  SourceTypes = {"screener_results", "watchlist", "instrument"}
  Registrations <- MCRegistrations
  CatalogFields = {"close", "sector"}
  NumericFields = {"close"}
  DEFAULT_PAGE_SIZE = 1
  MAX_PAGE_SIZE = 2
  ViewRequests <- MCViewRequests
  NoName = NoName
  Null = Null
  DefaultChart <- MCDefaultChart
  Availability <- MCAvailability
  References <- MCReferences
  Patches <- MCPatches
  ViewPatches <- MCViewPatches
  NoInstrument = NoInstrument
  NoReference = NoReference
  MaxPanels = 2
  ChartStates <- MCChartStates
  Bars <- MCBars
  NoTicker = NoTicker
  NoPrice = NoPrice
  NoAnchor = NoAnchor
  NoTree = NoTree
  Filterable = {"sma", "rsi", "flow"}
  NoData = {"flow"}
  Anchors = {5}
  HandMade <- MCHandMade
  MAX_DRAFT_CONDITIONS = 2
  DeriveConditions <- Derived
  EditsOfDraft <- EditedDrafts
  MaxSetups = 1
  MaxDrafts = 1
  MaxFilters = 4
  MaxDraftEdits = 2
SPECIFICATION ToolsSpec
SYMMETRY NamesAlike
CHECK_DEADLOCK FALSE
INVARIANTS
  ReadsHold
  CustomStaysValid
  ViewsHold
  DraftsTellWhy
PROPERTIES
  ChartEditsKeepOthers
  MembersKeepTheirSource
  UpdatesMakeNoLoop
  BindingsHold
  SetupsHold
