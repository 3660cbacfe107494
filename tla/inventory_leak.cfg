SPECIFICATION FairSpec
CONSTANTS
  Components <- OnlyA
  Nobody = Nobody
  Objects <- MapSecret
  Configs <- AnyPresent
  Finalized <- NoTypes
  UseInventory = TRUE
  StaticTypes <- NoTypes
  CachedInventory = FALSE
  SharedInventory = FALSE
  Sequential = TRUE
  NoObject = NoObject
  MaxChanges = 1
  MaxExternal = 0
  MaxFaults = 1
PROPERTIES Purged
