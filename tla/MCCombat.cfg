CONSTANTS
  ann = ann
  bob = bob
  cyd = cyd
  None = None
  Chars <- MCChars
  Speed <- MCSpeed
  DualWielders = {ann}
  SPEED_DEFAULT = 12
  SPEED_MIN = 4
  Deltas = {12}
  MaxWhen = 12
  MaxOps = 2
  Watched = {}
SYMMETRY MCAlike
SPECIFICATION Spec
INVARIANTS
  TypeOK
  OpponentsInPairs
  CombatsAgree
  DestructedOutOfCombat
  OneTurnEach
  AttacksPaidFor
