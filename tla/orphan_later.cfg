SPECIFICATION Spec
CONSTANTS
  Workers = {"a", "b"}
  Specs = {"a", "b"}
  Labels = {"l"}
  Components = {"a", "b"}
  NoComponent = NoComponent
  NoObject = NoObject
  Wants <- PresentTwo
  Immutable <- AllImmutable
  OptionSet <- OrphanLater
  HookOutcomes = {"go"}
  CachedReads = TRUE
  MaxRev = 8
  MaxRetries = 0
  MaxExternal = 0
  MaxFaults = 1
PROPERTIES OrphanKeepsPods
CHECK_DEADLOCK FALSE
