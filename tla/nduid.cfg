SPECIFICATION Spec
CONSTANTS
  Procs = {p1, p2, p3}
  MaxIds = 3
INVARIANTS
  TypeOK
  OneId
PROPERTIES
  IdForEver
CHECK_DEADLOCK FALSE
