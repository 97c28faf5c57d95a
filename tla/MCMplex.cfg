SPECIFICATION Spec
CONSTANTS
  Consoles = {c1, c2}
  Links = {l1, l2}
  Slots = {s1, s2}
  None = None
  MaxErrors = 1
  MaxIds = 2
  MaxQueue = 2
  MaxCrashes = 1
  MaxLeft = 1
SYMMETRY Symmetry
INVARIANTS
  TypeOK
  Matched
  WaitingIsAnswered
  IdsAreSessions
