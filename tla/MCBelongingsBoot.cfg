SPECIFICATION ThingsSpec
CONSTANTS
  Players = {ann}
  Items = {sword, torch}
  Corpses = {corpse}
  NoSave = {torch}
  Files = {f1, f2}
  Taken = {sword, torch, corpse}
  Room = room
  Nil = nil
SYMMETRY Symmetry
INVARIANT KeptByTop
