SPECIFICATION UnitsSpec
SYMMETRY Symmetry
CONSTANTS
  hall = hall
  void = void
  ann = ann
  flask = flask
  bag = bag
  sack = sack
  Nowhere = Nowhere
  Rooms <- MCRooms
  Chars <- MCChars
  Objs <- MCObjs
  Void = void
  Wearable = {flask}
  Vessels = {flask}
  MaxWeight = 2
INVARIANTS
  UnitsOK
  NothingInItself
  GoneIsEmpty
  CountsAddUp
