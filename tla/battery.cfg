SPECIFICATION Spec
CONSTANTS
  Full = 4
  MaxPending = 2
INVARIANTS
  TypeOK
  CacheCurrent
  ClientKnows
CHECK_DEADLOCK FALSE
