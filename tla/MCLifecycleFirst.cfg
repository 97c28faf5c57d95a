CONSTANTS
  npc = npc
  pc = pc
  a1 = a1
  f1 = f1
  None = None
  Units <- MCUnits
  PCs <- MCPCs
  Affects <- MCAffects
  Funcs <- MCFuncs
  MaxDuration = 1
  MaxBeats = 2
  MaxOps = 3
SPECIFICATION Spec
INVARIANT NoEventForDestructed
