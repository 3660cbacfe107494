SPECIFICATION FairSpec
CONSTANTS
  Workers = {"a", "b"}
  Specs = {"a", "b"}
  Labels = {"l"}
  Components = {"a", "b"}
  NoComponent = NoComponent
  NoObject = NoObject
  Wants <- PresentSame
  Immutable <- AllImmutable
  OptionSet <- ConvergingOptions
  HookOutcomes = {"go"}
  CachedReads = TRUE
  MaxRev = 30
  MaxRetries = 0
  MaxExternal = 1
  MaxFaults = 1
PROPERTIES Converges
