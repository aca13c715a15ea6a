SPECIFICATION Spec
CONSTANTS
    Configs <- SomeConfigs
    Pages <- SomePages
    Extends <- SomeExtends
    Internal = "internal"
    None = None
    MaxVisits = 4
    MaxLogins = 2
INVARIANTS
    TypeOK
    LoginSucceeds
    CookieOnMostSpecificPath
    LoginCookieCleared
    LogoutReachesAllCookies
