SPECIFICATION Spec
CONSTANTS
    MaxExec = 3
    MaxOps = 3
    MaxCalls = 1
    MaxInternal = 1
    PipeCap = 2
    RecycleAfter = 3
    Habits = {FALSE}
INVARIANT OwnAnswer
