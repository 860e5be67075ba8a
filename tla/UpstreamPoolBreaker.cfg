SPECIFICATION Spec
CONSTANTS
    a = a
    b = b
    c1 = c1
    c2 = c2
    c3 = c3
    c4 = c4
    Tasks = {a, b}
    Conns = {c1, c2, c3, c4}
    Casts <- MCCasts
    Threshold = 2
    MaxReconciles = 1
    None = None
INVARIANT CircuitNeedsThreshold
