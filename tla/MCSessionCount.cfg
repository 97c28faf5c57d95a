SPECIFICATION Spec
CONSTANTS
  Descs = {d1, d2}
  Names = {n1}
  Bodies = {b1, b2, b3}
  None = None
  MaxProgress = 1
  MaxDrift = 1
INVARIANT
  PlayersCounted
CHECK_DEADLOCK FALSE
