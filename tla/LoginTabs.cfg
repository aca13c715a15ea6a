SPECIFICATION FairSpec
CONSTANTS
    Tabs = {t1, t2}
    Pages = {"/", "/a"}
    Root = "/"
    Attempts = {1, 2, 3, 4, 5}
    None = None
    MaxAutoRetryAttempts = 2
    AutoLogin = TRUE
    Ignored = {}
    ErrorPath = None
    LoginstatusEnabled = FALSE
    PostLogoutRedirectURI = TRUE
    LogoutRoutes = {}
    Browser = "legacy"
    Faults = {"login", "idp", "slowlogin"}
    MaxVisits = 2
PROPERTIES
    NoRedirectLoop
