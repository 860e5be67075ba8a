SPECIFICATION Spec
CONSTANTS
    Callbacks = {b1, b2}
    Upgrades = {}
    Redeemers = {}
    Refreshers = {}
    Outbounds = {o1}
    Revokers = {}
    Clients = {}
    None = None
    LateWrites = FALSE
    CodeTTL = 2
    TokenTTL = 3
    Lease = 1
    MaxNow = 1
    MaxDelay = 0
    MaxMinted = 2
PROPERTY DeletesWhatFailed
