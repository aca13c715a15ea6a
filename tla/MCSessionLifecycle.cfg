SPECIFICATION Spec
CONSTANTS
    RefreshMinInterval = 2
    RefreshLeeway = 5
    TicksPerSecond = 2
    TokenLifetimes <- MCTokenLifetimes
    MaxLifetime = 9
    Inactivity = TRUE
    InactivityTimeout = 7
    Horizon = 14
INVARIANTS
    TypeOK
    LifetimesFromTheirStart
    NotBeforeAnnounced
    CooldownAsAnnounced
    RenewableBeforeExpiry
    NotBeforeLeeway
