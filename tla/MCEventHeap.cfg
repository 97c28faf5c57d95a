CONSTANTS
  e1 = e1
  e2 = e2
  Dead = Dead
  Events <- MCEvents
  Delays = {1, 2, 3}
  MaxEvents = 5
  MaxTics = 2
SPECIFICATION Spec
INVARIANTS
  TypeOK
PROPERTIES
  ImplementsAgenda
