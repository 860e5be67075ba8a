SPECIFICATION FairSpec
CONSTANTS
    MaxExec = 3
    MaxOps = 3
    MaxCalls = 1
    MaxInternal = 1
    PipeCap = 2
    RecycleAfter = 3
    Habits = {TRUE, FALSE}
INVARIANTS
    TypeOK
    SettlementSound
    AwaitedOwnAnswer
    OwnCalls
    ReleasedIdle
PROPERTIES
    OwnReplies
    ExecutionEnds
