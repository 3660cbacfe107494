SPECIFICATION WaitSpec
CONSTANTS
 Waitables = {"web", "map", "crd"}
 Workloads = {"web"}
 Foreign = {"crd"}
 Definitions = {"crd"}
 PreConditions <- ThePreConditions
 Plans <- ThePlans
 Steps = 2
 MaxPlans = 1
 MaxUpsets = 1
 MaxPollFaults = 1
PROPERTIES WaitedFor CallsEnd EndsWell
