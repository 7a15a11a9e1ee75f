SPECIFICATION FairSpec
CONSTANTS
  Chargers = {"usb", "ac", "other"}
  Levels = {"Unknown", "Charging", "Full"}
  MaxPending = 2
INVARIANTS
  TypeOK
  CacheCurrent
  EventBitsRight
  ClientKnows
PROPERTIES
  PluggedSeen
