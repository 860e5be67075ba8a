SPECIFICATION Spec
CONSTANTS
    Callbacks = {b1}
    Upgrades = {g1}
    Redeemers = {d1, d2}
    Refreshers = {r1, r2}
    Outbounds = {o1}
    Revokers = {v1}
    Clients = {k1}
    None = None
    LateWrites = TRUE
    CodeTTL = 2
    TokenTTL = 2
    Lease = 1
    MaxNow = 3
    MaxDelay = 1
    MaxMinted = 2
SYMMETRY Symmetry
CONSTRAINT Races
INVARIANTS
    TypeOK
    RevokedStaysRevoked
PROPERTIES
    RotationBacked
    InboundDeletesWhatFailed
    ImplementsGrantStore
