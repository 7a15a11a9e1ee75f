SPECIFICATION FairSpec
CONSTANTS
  Fds = {3, 4, 5}
  Expiries = {2, 4}
  MaxTime = 5
  MaxSources = 2
  MaxForeign = 1
INVARIANTS
  TypeOK
  PromiseArmed
  PromiseWatched
PROPERTIES
  ImplementsAlarm
  PromiseKept
  ForeignSafe
CHECK_DEADLOCK FALSE
