SPECIFICATION Spec
CONSTANTS
  AddrBits = 3
  Sizes = {1, 2}
  NVads = 3
CHECK_DEADLOCK FALSE
INVARIANT NoOverlaps
