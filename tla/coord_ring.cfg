SPECIFICATION Spec
CONSTANTS
  size = 3
  Coords = {0, 1, 3}
  positionFilter = TRUE
INVARIANTS
  RingOK
  LastIsNewest
PROPERTIES
  ImplementsHistory
