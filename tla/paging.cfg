SPECIFICATION ReadersSpec
CONSTANTS
  DefaultLimit = 4
  Limits = {1, 2, 3}
  MaxLength = 7
  Epoch = {1, 2}
  ToolLimits <- AnyLimit
  MaxRows = 4
INVARIANTS
  PagesExact
  PinnedIsComplete
  PartialIsHonest
  FoundAreNewest
PROPERTIES
  LastPageReachesHead
  PagingEnds
CHECK_DEADLOCK FALSE
