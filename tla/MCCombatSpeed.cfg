CONSTANTS
  ann = ann
  bob = bob
  cyd = cyd
  None = None
  Chars <- MCPair
  Speed <- MCSpeedTwo
  DualWielders = {}
  SPEED_DEFAULT = 12
  SPEED_MIN = 4
  Deltas = {12}
  MaxWhen = 18
  MaxOps = 0
  Watched = {ann, bob}
SPECIFICATION Spec
PROPERTIES
  TurnGivesEveryAttack
