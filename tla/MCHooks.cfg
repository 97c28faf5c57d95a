SPECIFICATION FairSpec
CONSTANTS
  MaxMulti = 2
  Buf = 2
  Header = 2
  Body <- Lengths
  MaxConns = 2
CHECK_DEADLOCK FALSE
INVARIANTS
  TypeOK
  TableWhole
PROPERTIES
  ImplementsStreams
  Drained
