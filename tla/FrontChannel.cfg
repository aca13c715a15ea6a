SPECIFICATION Spec
CONSTANTS
    RefreshMinInterval = 1
    RefreshLeeway = 2
    TicksPerSecond = 1
    MaxLifetime = 3
    Inactivity = FALSE
    InactivityTimeout = 3
    Reqs <- ReqsEnds
    KindOf <- KindEnds
    Keys = {k1}
    None = None
    Backend = "redis"
    RefreshEnabled = FALSE
    TokenLifetimes = {3}
    IdpReplies = {"rotate", "keep", "omit", "empty"}
    LockDuration = 2
    AcquireTimeout = 3
    Faults = {"store", "crash"}
    Horizon = 5
INVARIANTS
    LogoutIsFinal
    SessionEnds
