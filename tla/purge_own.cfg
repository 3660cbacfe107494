SPECIFICATION Spec
CONSTANTS
  Components <- AB
  Nobody = Nobody
  Objects <- WithSpace
  Configs <- AnyPresent
  Finalized <- JustSecret
  UseInventory = TRUE
  StaticTypes <- NoTypes
  CachedInventory = TRUE
  SharedInventory = TRUE
  Sequential = TRUE
  NoObject = NoObject
  MaxChanges = 1
  MaxExternal = 1
  MaxFaults = 1
INVARIANTS TypeOK
PROPERTIES PurgesNobodyElses
