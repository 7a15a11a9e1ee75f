SPECIFICATION Spec
CONSTANTS
  Fds = {3, 4}
  Expiries = {2, 4}
  MaxTime = 5
  MaxSources = 2
  MaxForeign = 0
INVARIANTS
  ReadNeverBlocks
CHECK_DEADLOCK FALSE
