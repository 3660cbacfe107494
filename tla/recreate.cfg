SPECIFICATION Spec
CONSTANTS
  Workers = {"a", "b"}
  Specs = {"a", "b"}
  Labels = {"l"}
  Components = {"a", "b"}
  NoComponent = NoComponent
  NoObject = NoObject
  Wants <- PresentTwo
  Immutable <- AllImmutable
  OptionSet <- RecreationOptions
  HookOutcomes = {"go"}
  CachedReads = FALSE
  MaxRev = 4
  MaxRetries = 1
  MaxExternal = 1
  MaxFaults = 1
INVARIANTS TypeOK
PROPERTIES SuccessIsHonest DeletesOnlyIfAllowed OrphanKeepsPods
CHECK_DEADLOCK FALSE
