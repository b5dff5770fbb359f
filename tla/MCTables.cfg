SPECIFICATION Spec
CONSTANTS
  NPages = 9
  Levels = 3
  Entries = 2
  WsPageExpansionCount = 2
  MinAvailForExpansion = 3
  MinAvailForAlloc = 3
  WsMaxInitial = 3
  ModifiedSignal = 1
  Data = {0}
  NSlots = 2
  Faulters = {"main"}
  VAddrs <- DeepTables
  Writes = {TRUE}
  MaxIops = 1
  MaxStale = 2
INVARIANTS TableCounts OnlyKnownPanics
