SPECIFICATION FairSpec
CONSTANTS
  INT_MAX = 1000
  FingerDownThreshold = 0
  RawValues = {0, 3}
  Num = 1
  Den = 2
  MaxFrames = 4
  QueueSize = 7
INVARIANTS
  TypeOK
  NothingLost
PROPERTIES
  ImplementsProtocol
  ReleasedAtPoint
  ReleaseReported
CHECK_DEADLOCK FALSE
