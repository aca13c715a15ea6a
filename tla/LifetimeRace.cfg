SPECIFICATION Spec
CONSTANTS
    RefreshMinInterval = 1
    RefreshLeeway = 2
    TicksPerSecond = 1
    MaxLifetime = 6
    Inactivity = FALSE
    InactivityTimeout = 3
    Reqs <- ReqsRace
    KindOf <- KindRace
    Keys = {k1}
    None = None
    Backend = "redis"
    RefreshEnabled = TRUE
    TokenLifetimes = {3}
    IdpReplies = {"rotate", "keep", "omit", "empty"}
    LockDuration = 2
    AcquireTimeout = 3
    Faults = {}
    Horizon = 9
INVARIANT
    SessionEnds
