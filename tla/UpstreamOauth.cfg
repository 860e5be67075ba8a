SPECIFICATION Spec
CONSTANTS
    Flows = {f1, f2}
    Callbacks = {k1, k2}
    Builders = {b1, b2}
    Checkers = {s1}
    Clears = {c1}
    Casts <- MCCasts
    Old = Old
    MaxManagers = 2
    None = None
SYMMETRY Symmetry
CHECK_DEADLOCK FALSE
INVARIANTS
    TypeOK
    ExchangeOnce
    ReplayForeclosed
    StoredClientOwns
    LockedRefreshLive
    CooldownQuiet
