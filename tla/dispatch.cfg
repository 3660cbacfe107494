SPECIFICATION FairSpec
CONSTANTS
    N = 3
    WithStatus <- Ends
    Lifecycle <- OneTwo
    Optional <- Second
    Mandatory <- Ends
    ForceResourceOrder = "Default"
    MaxWait = 2
    MaxChanges = 1
    MaxHiccups = 2
INVARIANT TypeOK
INVARIANT NothingForgotten
INVARIANT AnswersEveryone
PROPERTY InOrder
PROPERTY ImplementsWorkQueue
PROPERTY Succeeds
CHECK_DEADLOCK FALSE
