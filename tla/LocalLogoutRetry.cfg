SPECIFICATION Spec
CONSTANTS
    Tabs = {t1}
    Pages <- MCPages
    Root = "/"
    Attempts = {1, 2, 3}
    None = None
    MaxAutoRetryAttempts = 3
    AutoLogin = TRUE
    Ignored <- MCIgnored
    ErrorPath = None
    LoginstatusEnabled = FALSE
    PostLogoutRedirectURI = TRUE
    LogoutRoutes = {"logoutlocal"}
    Browser = "modern"
    Faults = {"store"}
    MaxVisits = 3
INVARIANT
    LogoutStaysLogout
