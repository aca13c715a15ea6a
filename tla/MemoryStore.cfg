SPECIFICATION Spec
CONSTANTS
    RefreshMinInterval = 1
    RefreshLeeway = 2
    TicksPerSecond = 1
    MaxLifetime = 6
    Inactivity = TRUE
    InactivityTimeout = 3
    Reqs <- ReqsTrio
    KindOf <- KindTrio
    Keys = {k1}
    None = None
    Backend = "memory"
    RefreshEnabled = TRUE
    TokenLifetimes = {3}
    IdpReplies = {"rotate", "omit", "empty"}
    LockDuration = 2
    AcquireTimeout = 3
    Faults = {"crash"}
    Horizon = 7
INVARIANTS
    StoredTokenUsable
PROPERTIES
    RefreshKeepsLifetime
