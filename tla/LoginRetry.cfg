SPECIFICATION Spec
CONSTANTS
    Tabs = {t1}
    Pages <- MCPages
    Root = "/"
    Attempts = {1, 2, 3}
    None = None
    MaxAutoRetryAttempts = 3
    AutoLogin = TRUE
    Ignored <- MCIgnored
    ErrorPath = None
    LoginstatusEnabled = TRUE
    PostLogoutRedirectURI = FALSE
    LogoutRoutes = {"logout"}
    Browser = "modern"
    Faults = {"denied", "idp", "store", "status", "expiry", "frontchannel"}
    MaxVisits = 4
INVARIANTS
    TypeOK
    AutoRetryBudget
    LandsWhereAsked
    LogoutStaysLogout
