SPECIFICATION FairSpec
CONSTANTS
    RefreshMinInterval = 1
    RefreshLeeway = 2
    TicksPerSecond = 1
    MaxLifetime = 6
    Inactivity = TRUE
    InactivityTimeout = 3
    Reqs <- ReqsPair
    KindOf <- KindPair
    Keys = {k1}
    None = None
    Backend = "redis"
    RefreshEnabled = TRUE
    TokenLifetimes = {3}
    IdpReplies = {"rotate"}
    LockDuration = 2
    AcquireTimeout = 3
    Faults = {"store", "idp", "crash", "slow"}
    Horizon = 5
INVARIANTS
    LeaseExclusion
PROPERTIES
    EveryRequestAnswered
