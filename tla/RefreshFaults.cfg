SPECIFICATION Spec
CONSTANTS
    RefreshMinInterval = 1
    RefreshLeeway = 7
    TicksPerSecond = 1
    MaxLifetime = 9
    Inactivity = TRUE
    InactivityTimeout = 2
    Reqs <- ReqsRelogin
    KindOf <- KindRelogin
    Keys = {k1}
    None = None
    Backend = "redis"
    RefreshEnabled = TRUE
    TokenLifetimes = {7}
    IdpReplies = {"rotate", "omit"}
    LockDuration = 2
    AcquireTimeout = 3
    Faults = {"store", "idp", "crash"}
    Horizon = 8
INVARIANTS
    MutualExclusion
PROPERTIES
    NoTokenRollback
    InactivityIsFinal
    BoundedStaleness
