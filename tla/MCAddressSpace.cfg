SPECIFICATION SpaceSpec
CONSTANTS
  Ns0 <- MCNs0
  FreshIds = {"n1", "n2"}
  AddItems <- MCAddItems
  SplitItems <- MCSplitItems
  OwnTypes = {"sub", "tag"}
  MethodItems <- MCMethodItems
  RefItems <- MCRefItems
  Deletable <- MCDeletable
  Calls <- MCCalls
  BrowseItems <- MCBrowseItems
  Paths <- MCPaths
  MaxRefs = 6
  MaxChanges = 5
  MaxTasks = 40
  MaxHandles = 3
  MaxCps = 1
  Shortages <- MCShortages
  OneWayItems <- MCOneWayItems
INVARIANTS TwoSided HandlesOwned ViewExact
PROPERTY FailedAddLeavesNodes
CHECK_DEADLOCK FALSE
