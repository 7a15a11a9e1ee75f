SPECIFICATION SecuritySpec
CONSTANTS
  Procs = {p1, p2}
  MaxIndex = 2
  MaxKeys = 3
  Alone = TRUE
  Algorithms = {"sha256", "sha512"}
  MaxPieces = 1
INVARIANTS
  SecurityTypeOK
  HandlesKept
  HashRight
PROPERTIES
  ImplementsVault
CHECK_DEADLOCK FALSE
