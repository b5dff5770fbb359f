SPECIFICATION Spec
CONSTANTS
  NPages = 4
  Levels = 2
  Entries = 3
  WsPageExpansionCount = 1
  MinAvailForExpansion = 2
  MinAvailForAlloc = 1
  WsMaxInitial = 2
  ModifiedSignal = 1
  Data = {1}
  NSlots = 2
  Faulters = {"main"}
  VAddrs <- ThreeLeaves
  Writes = {TRUE}
  MaxIops = 1
  MaxStale = 2
INVARIANT SwapInRestores
