SPECIFICATION Spec
CONSTANTS
  AddrBits = 3
  Sizes = {0, 1, 3}
  NVads = 4
CHECK_DEADLOCK FALSE
INVARIANTS VadTreeSound VadsFound
