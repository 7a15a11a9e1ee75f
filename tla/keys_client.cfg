SPECIFICATION Spec
CONSTANTS
  KeyCodes = {k1, k2}
  CustomKeys = {k2}
  MAX_EVENTS = 3
  QueueSize = 7
INVARIANTS
  TypeOK
  HeldKeysAgree
PROPERTIES
  ImplementsQueue
  PressSeen
CHECK_DEADLOCK FALSE
