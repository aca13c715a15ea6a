SPECIFICATION FairSpec
CONSTANTS
    Callbacks = {c1, c2}
    None = None
    Providers <- SomeProviders
    JwkMinimumRefreshInterval = 2
    MaxRotations = 2
    Faults = {"jwks", "token", "claims"}
INVARIANTS
    TypeOK
    OutageEndsWithOneLogin
    FrontChannelReaches
PROPERTIES
    KeysCatchUp
    EveryCallbackAnswered
