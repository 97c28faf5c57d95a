SPECIFICATION Spec
CONSTANTS
  Descs = {d1, d2, d3}
  Names = {n1, n2}
  Bodies = {b1, b2, b3, b4}
  None = None
  MaxProgress = 1
  MaxDrift = 1
SYMMETRY Symmetry
INVARIANTS
  TypeOK
  Paired
  OneOfEachName
  NoUnitAtConfirm
CHECK_DEADLOCK FALSE
