SPECIFICATION Spec
CONSTANTS
    t1 = t1
    t2 = t2
    t3 = t3
    u = u
    w = w
    s1 = s1
    s2 = s2
    Tasks = {t1, t2, t3}
    Names = {u, w}
    Specs = {s1, s2}
    Off = Off
    Absent = Absent
    Unknown = Unknown
    None = None
    Casts <- RemoveCasts
    Starts <- MCStarts
    Seeded = {TRUE}
    Edits <- MCEdits
    MaxEdits = 0
CHECK_DEADLOCK FALSE
INVARIANT RemovedLeavesPool
