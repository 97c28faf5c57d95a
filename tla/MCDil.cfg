CONSTANTS
  Units = {n, x}
  Prgs = {p, q}
  None = None
  MaxMemory = 3
SPECIFICATION Spec
SYMMETRY Symmetry
INVARIANTS TypeOK RunningIsWhole OrphansStayAsleep LooseBySecureOnly
CHECK_DEADLOCK FALSE
