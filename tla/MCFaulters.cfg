SPECIFICATION Spec
CONSTANTS
  NPages = 4
  Levels = 2
  Entries = 3
  WsPageExpansionCount = 1
  MinAvailForExpansion = 2
  MinAvailForAlloc = 1
  WsMaxInitial = 2
  ModifiedSignal = 1
  Data = {0}
  NSlots = 2
  Faulters = {"main", "other"}
  VAddrs <- ThreeLeaves
  Writes = {FALSE}
  MaxIops = 1
  MaxStale = 2
INVARIANTS SwapInStable OnlyKnownPanics
