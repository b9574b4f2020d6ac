CONSTANTS
  t1 = t1
  t2 = t2
  Tabs = {t1}
  Columns = 3
  Rows = 2
  Kinds <- MCKinds
  MinSize <- MCMinSize
  DefaultSize <- MCDefaultSize
  Channels = {"selection", "symbol"}
  LinkChannels <- MCLinkChannels
  SelectionChannel = "selection"
  SeedKind = "list"
  SeedRect <- MCSeedRect
  Templates <- MCTemplates
  Footprints <- MCFootprints
  MaxBatch = 2
  MaxMinted <- MCMaxMinted
SPECIFICATION GridSpec
INVARIANTS
  PlacementsValid
  NothingDangles
  LinkGroupsApart
PROPERTIES
  OverlapOnlyOverHidden
  SplitKeepsCells
