SPECIFICATION Spec
CONSTANTS
  PCs = {ann, bob}
  None = None
  Garbled = Garbled
  MaxDeeds = 1
  MaxId = 2
SYMMETRY Symmetry
INVARIANT UniqueIds
