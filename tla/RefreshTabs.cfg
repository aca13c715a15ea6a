SPECIFICATION Spec
CONSTANTS
    RefreshMinInterval = 1
    RefreshLeeway = 2
    TicksPerSecond = 1
    MaxLifetime = 5
    Inactivity = TRUE
    InactivityTimeout = 3
    Reqs <- ReqsTabs
    KindOf <- KindTabs
    Keys = {k1}
    None = None
    Backend = "redis"
    RefreshEnabled = TRUE
    TokenLifetimes = {3}
    IdpReplies = {"rotate", "keep"}
    LockDuration = 2
    AcquireTimeout = 3
    Faults = {}
    Horizon = 6
INVARIANTS
    TypeOK
    NoRefreshTokenReuse
    LogoutIsFinalUnlessRaced
PROPERTIES
    ImplementsAtomicSession
