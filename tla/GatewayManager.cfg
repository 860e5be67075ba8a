SPECIFICATION Spec
CONSTANTS
    t1 = t1
    t2 = t2
    t3 = t3
    u = u
    w = w
    s1 = s1
    s2 = s2
    Tasks = {t1, t2, t3}
    Names = {u, w}
    Specs = {s1, s2}
    Off = Off
    Absent = Absent
    Unknown = Unknown
    None = None
    Casts <- MCCasts
    Starts <- MCStarts
    Seeded = {TRUE, FALSE}
    Edits <- MCEdits
    MaxEdits = 1
CHECK_DEADLOCK FALSE
INVARIANTS
    TypeOK
    AckedKept
    AckedServed
    OnePoolServes
PROPERTY OperationsEnd
