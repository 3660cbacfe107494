SPECIFICATION FairSpec
CONSTANTS
  Components <- AB
  Nobody = Nobody
  Objects <- MapSecret
  Configs <- Mixed
  Finalized <- JustSecret
  UseInventory = TRUE
  StaticTypes <- NoTypes
  CachedInventory = FALSE
  SharedInventory = TRUE
  Sequential = TRUE
  NoObject = NoObject
  MaxChanges = 2
  MaxExternal = 1
  MaxFaults = 0
PROPERTIES Purged
