SPECIFICATION LibrarySpec
CONSTANTS
 ScopeUsers = {"u", "v"}
 ScopeKinds = {"S", "K"}
 StaticScopes <- TheStaticScopes
 MaxServed = 2
 MaxDiscoveryFaults = 1
 TokenCallers = {"c", "d"}
 TokenSteps = 2
 MaxUpheavals = 2
 MaxTokenFaults = 1
 SecretRefs <- TheSecretRefs
 SecretValues = {"v", "w"}
 MaxLoads = 2
 MaxSecretEdits = 1
 MaxLoadFaults = 1
 Watches = {"spec", "other", "pending"}
 Skips <- TheSkips
 UpdateFilter <- TheUpdateFilter
 Owners = {"o"}
 MaxRevisions = 3
 MaxRestarts = 1
 RetryLimits <- TheRetryLimits
 Chores = 3
 MaxRetryFaults = 1
 Base <- TheBase
 Configurations <- TheConfigurations
 VolumeSources <- TheVolumeSources
 PullSecrets <- ThePullSecrets
 MaxRounds = 2
 StrimapKeys = {"k", "l"}
 StrimapLeaves = {"v"}
 LaterLeaves = {"w"}
 StrimapDepth = 2
INVARIANTS ScopesFound NothingMissed Deployable MergesRight
PROPERTIES WellPlaced CreatorsWait TokensArrive PathsLead RetryEnds
CHECK_DEADLOCK FALSE
