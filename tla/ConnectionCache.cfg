SPECIFICATION Spec
CONSTANTS
    a = a
    b = b
    c = c
    s = s
    u = u
    w = w
    e = e
    f = f
    Requests = {a, b, c}
    Sessions = {s}
    Subjects = {u, w, None}
    Caps = {e, f}
    Casts <- MCCasts
    Cap = 1
    TaskCap = 1
    MaxFaults = 1
    None = None
SYMMETRY Symmetry
INVARIANTS
    TypeOK
    IdentityKept
    CacheBound
    OneOwner
PROPERTY ImplementsKeyedCache
