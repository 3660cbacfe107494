SPECIFICATION Spec
CONSTANTS
  Workers = {"a", "b"}
  Specs = {"a", "b"}
  Labels = {"l"}
  Components = {"a", "b"}
  NoComponent = NoComponent
  NoObject = NoObject
  Wants <- Mixed
  Immutable = {}
  OptionSet <- PlainOptions
  HookOutcomes <- AllHooks
  CachedReads = TRUE
  MaxRev = 3
  MaxRetries = 1
  MaxExternal = 2
  MaxFaults = 1
INVARIANTS VersionsIdentify
PROPERTIES ImplementsManagedObject NeverAdopts KeepsForeignLabels NeverWritesTerminating CreatedNeverTouches
CHECK_DEADLOCK FALSE
