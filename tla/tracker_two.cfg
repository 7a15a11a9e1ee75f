SPECIFICATION TrackerSpec
CONSTANTS
  INT_MAX = 1000
  FingerDownThreshold = 2
  MaxContacts = 2
  Weights = {1, 2}
  MaxIds = 4
  Positions <- Corners
INVARIANTS
  TrackerTypeOK
  PoolSuffices
  ReaderAgrees
  StillFingersKept
PROPERTIES
  TrackerImplementsProtocol
