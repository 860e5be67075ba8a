SPECIFICATION Spec
CONSTANTS
    a = a
    b = b
    c = c
    s = s
    u = u
    w = w
    e = e
    f = f
    Requests = {a, b, c}
    Sessions = {s}
    Subjects = {u, w, None}
    Caps = {e, f}
    Casts <- TaskCasts
    Cap = 1
    TaskCap = 2
    MaxFaults = 0
    None = None
SYMMETRY FullSymmetry
INVARIANT TaskOnItsConnection
