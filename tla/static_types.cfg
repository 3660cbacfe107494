SPECIFICATION FairSpec
CONSTANTS
  Components <- AB
  Nobody = Nobody
  Objects <- MapSecret
  Configs <- AnyPresent
  Finalized <- JustSecret
  UseInventory = FALSE
  StaticTypes <- MapSecretTypes
  CachedInventory = FALSE
  SharedInventory = FALSE
  Sequential = FALSE
  NoObject = NoObject
  MaxChanges = 1
  MaxExternal = 1
  MaxFaults = 1
PROPERTIES Purged Provided PurgesDropped
