SPECIFICATION Spec
CONSTANTS
  Units = {n, x}
  Prgs = {p, q}
  None = None
  MaxMemory = 3
SYMMETRY Symmetry
INVARIANT
  NoLoosePointer
CHECK_DEADLOCK FALSE
