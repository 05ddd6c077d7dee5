SPECIFICATION NavSpec
CONSTANTS
  Clusters = {c1, c2}
  Objects = {1, 2, 3}
  Nodes = {3}
  None = None
  Platform = "mac"
  MaxPlaces = 3
  MaxActs = 7
SYMMETRY Symmetry
INVARIANTS TypeOK PlaceShown WalkUndone OneTaker
CHECK_DEADLOCK FALSE
