SPECIFICATION FairSpec
CONSTANTS
    Callers = {c1, c2, c3, c4}
    Procs = {p1, p2, p3}
    NoProc = NoProc
    Size = 1
    MaxOverflow = 0
    RecycleAfter = 2
INVARIANTS
    TypeOK
    SlotExclusive
    RunnerExclusive
    ParkedVerified
    ProcessBound
    PermitsConserved
PROPERTY WaiterServed
