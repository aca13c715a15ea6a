------------------------------ MODULE LoginFlow ------------------------------
(***************************************************************************)
(* Login and logout as a browser goes through them: the redirects between  *)
(* the application, Wonderwall and the identity provider, the cookies that *)
(* carry their state, and the automatic retries of pkg/handler/error.      *)
(*                                                                         *)
(* The tabs of one browser share one cookie jar.  A request takes a copy   *)
(* of the jar when it is sent; the cookies its response sets or clears     *)
(* reach the jar when it is answered, possibly after those of another tab. *)
(* All logins of the user have the same sid, hence one session key: the    *)
(* session store is a Boolean here, its inner steps are in SessionHandler. *)
(***************************************************************************)
EXTENDS Naturals, FiniteSets

CONSTANTS
    Tabs,
    Pages,                  \* paths of the application
    Root,                   \* the path of the ingress
    Attempts,               \* names for authorization requests
    None,
    MaxAutoRetryAttempts,
    AutoLogin,              \* auto-login
    Ignored,                \* pages that match auto-login-ignore-paths
    ErrorPath,              \* error-path, or None
    LoginstatusEnabled,     \* loginstatus.enabled
    PostLogoutRedirectURI,  \* whether openid.post-logout-redirect-uri is set
    LogoutRoutes,           \* the logout endpoints the user visits
    Browser,                \* how it treats cookies
    Faults,
    MaxVisits               \* bound on what the user does

ASSUME FlowAssumption ==
    /\ Root \in Pages /\ Ignored \subseteq Pages
    /\ Attempts \subseteq Nat /\ None \notin Pages
    /\ MaxAutoRetryAttempts \in Nat /\ MaxVisits \in Nat
    /\ AutoLogin \in BOOLEAN /\ LoginstatusEnabled \in BOOLEAN
    /\ PostLogoutRedirectURI \in BOOLEAN
    /\ ErrorPath \in Pages \cup {None}
    /\ LogoutRoutes \subseteq {"logout", "logoutlocal"}
    /\ LogoutRoutes \cap Pages = {}
    /\ Browser \in {"modern", "legacy", "nocookies"}
    /\ Faults \subseteq {"login", "denied", "idp", "store", "status", "expiry",
                          "slowlogin", "frontchannel"}

\* State, nonce and code verifier are made together, so one name stands for
\* the three of them, for the authorization request and for its code.
LoginCookie == [id : Attempts, referer : Pages]

\* The counter in the retry cookie saturates: it is only compared with
\* MaxAutoRetryAttempts.  0 means that there is no such cookie.
RetryValues == 0 .. MaxAutoRetryAttempts + 1
Increment(n) == IF n > MaxAutoRetryAttempts THEN n ELSE n + 1

Cookies == [login : LoginCookie \cup {None}, legacy : LoginCookie \cup {None},
            retry : RetryValues, session : BOOLEAN, status : BOOLEAN]

NoCookies == [login |-> None, legacy |-> None, retry |-> 0,
              session |-> FALSE, status |-> FALSE]

ASSUME NoneAssumption == None \notin Cookies /\ None \notin LoginCookie

VARIABLES
    jar,        \* the cookies of the browser
    at,         \* tab -> the endpoint it goes to, or what it shows
    page,       \* tab -> the page, or the redirect parameter of a login
    sent,       \* tab -> the cookies of its pending request, or None
    att,        \* tab -> the state parameter of its callback
    denied,     \* tab -> whether its callback has an error parameter
    codes,      \* attempts with a code that has not been redeemed
    live,       \* whether the store has the user's session
    visits,     \* what the user has done
    want,       \* tab -> what the user asked it for
    redirects,  \* tab -> automatic retries of the login or logout it is in
    cleared,    \* tab -> front-channel logouts meanwhile that cleared the retry cookie
    fails       \* errors since a tab last cleared the retry cookie

tabVars == <<at, page, sent, att, denied>>
vars == <<jar, at, page, sent, att, denied, codes, live, visits, want,
          redirects, cleared, fails>>

Requests  == {"app", "login", "callback", "logout", "logoutlocal", "logoutcallback"}
Providers == {"idp", "endsession"}
Handling  == {"redeem", "create", "status"}   \* inside the callback handler
Shown     == {"rest", "loginerror", "logouterror"}

-----------------------------------------------------------------------------
(***************************************************************************)
(* Browser.                                                                *)
(***************************************************************************)
\* What becomes of the jar when a response would make it c.  A legacy browser
\* drops cookies with SameSite=None.
Accept(c) == CASE Browser = "nocookies" -> jar
               [] Browser = "legacy" -> [c EXCEPT !.login = None]
               [] OTHER -> c

Goto(t, where, p) ==
    /\ at' = [at EXCEPT ![t] = where]
    /\ page' = [page EXCEPT ![t] = p]
    /\ sent' = [sent EXCEPT ![t] = None]

Init ==
    /\ jar = NoCookies
    /\ at = [t \in Tabs |-> "rest"] /\ page = [t \in Tabs |-> Root]
    /\ sent = [t \in Tabs |-> None]
    /\ att = [t \in Tabs |-> None] /\ denied = [t \in Tabs |-> FALSE]
    /\ codes = {} /\ live = FALSE /\ visits = 0
    /\ want = [t \in Tabs |-> Root]
    /\ redirects = [t \in Tabs |-> 0] /\ cleared = [t \in Tabs |-> 0]
    /\ fails = 0

\* The login or logout of the tab is done, or the user asks for something else.
StartCount(t) ==
    /\ redirects' = [redirects EXCEPT ![t] = 0]
    /\ cleared' = [cleared EXCEPT ![t] = 0]

\* The user opens a page or logs out, perhaps leaving a login half done; or
\* follows the retry link of an error page.
Visit(t, wanted) ==
    /\ visits < MaxVisits
    /\ visits' = visits + 1
    /\ want' = [want EXCEPT ![t] = wanted]
    /\ StartCount(t)
    /\ UNCHANGED <<jar, att, denied, codes, live, fails>>

Open(t, p) ==
    /\ at[t] \in Shown \cup {"idp"}
    /\ Goto(t, "app", p) /\ Visit(t, p)

LogOut(t, route) ==
    /\ at[t] \in Shown
    /\ Goto(t, route, Root) /\ Visit(t, route)

RetryLink(t) ==
    /\ at[t] \in {"loginerror", "logouterror"}
    /\ Goto(t, IF at[t] = "loginerror" THEN "login" ELSE "logout", page[t])
    /\ Visit(t, want[t])

Send(t) ==
    /\ at[t] \in Requests /\ sent[t] = None
    /\ sent' = [sent EXCEPT ![t] = jar]
    /\ UNCHANGED <<jar, at, page, att, denied, codes, live, visits, want,
                   redirects, cleared, fails>>

Arrived(t, route) == at[t] = route /\ sent[t] # None

-----------------------------------------------------------------------------
(***************************************************************************)
(* The error handler.                                                      *)
(***************************************************************************)
GetLoginCookie(c) == IF c.login # None THEN c.login ELSE c.legacy

\* The page a request names in its redirect parameter, or else the path of the
\* ingress.  Pages are the targets that decoding and stripping leave as they are.
CanonicalRedirect(t) == IF at[t] = "login" THEN page[t] ELSE Root

\* Mutant: every retry goes to the login endpoint.
RetryAlwaysLogin(t) ==
    LET c == GetLoginCookie(sent[t])
    IN  [route |-> "login",
         target |-> IF c # None THEN c.referer ELSE CanonicalRedirect(t)]

\* Where a retry goes: back to the logout endpoint, or to the login endpoint
\* with the page of the login cookie, if the request had one, or else its own.
Retry(t) ==
    LET c == GetLoginCookie(sent[t])
    IN  IF at[t] = "logout"
        THEN [route |-> "logout", target |-> page[t]]
        ELSE [route |-> "login",
              target |-> IF c # None THEN c.referer ELSE CanonicalRedirect(t)]

\* The retries that a login or logout may have: MaxAutoRetryAttempts for each
\* time that the retry cookie starts anew.  The count stops one above.
Allowance(t) == MaxAutoRetryAttempts * (1 + cleared[t])
CountRetry(t) ==
    IF redirects[t] > Allowance(t) THEN redirects
    ELSE [redirects EXCEPT ![t] = @ + 1]

\* Mutant: the retry cookie is not counted up.
respondErrorNoCount(t, c) ==
    /\ jar' = Accept([c EXCEPT !.retry = IF sent[t].retry = 0 THEN 1
                                          ELSE sent[t].retry])
    /\ fails' = Increment(fails)
    /\ IF sent[t].retry < MaxAutoRetryAttempts
       THEN /\ Goto(t, Retry(t).route, Retry(t).target)
            /\ redirects' = CountRetry(t)
       ELSE /\ Goto(t, "loginerror", Retry(t).target)
            /\ UNCHANGED redirects
    /\ UNCHANGED <<att, denied, visits, want, cleared>>

\* A failed request whose response would, for the rest, make the jar c.
respondError(t, c) ==
    /\ jar' = Accept([c EXCEPT !.retry = Increment(sent[t].retry)])
    /\ fails' = Increment(fails)
    /\ LET again == Retry(t)
       IN  \/ /\ sent[t].retry < MaxAutoRetryAttempts
              /\ Goto(t, again.route, again.target)
              /\ redirects' = CountRetry(t)
           \/ /\ sent[t].retry >= MaxAutoRetryAttempts
              /\ IF ErrorPath # None THEN Goto(t, "app", ErrorPath)
                 ELSE Goto(t, IF again.route = "login" THEN "loginerror"
                                                       ELSE "logouterror",
                           again.target)
              /\ UNCHANGED redirects
    /\ UNCHANGED <<att, denied, visits, want, cleared>>

-----------------------------------------------------------------------------
(***************************************************************************)
(* The application: the reverse proxy with auto-login.                     *)
(***************************************************************************)
NeedsLogin(p, isAuthenticated) == AutoLogin /\ ~isAuthenticated /\ p \notin Ignored

LoginstatusNeedsLogin(c) == LoginstatusEnabled /\ ~c.status

\* found: GetAccessToken returned a token.
ReverseProxy(t, found) ==
    /\ Arrived(t, "app")
    /\ IF sent[t].session /\ live THEN found \/ "store" \in Faults ELSE ~found
    /\ LET authenticated == found /\ ~LoginstatusNeedsLogin(sent[t])
       IN  Goto(t, IF NeedsLogin(page[t], authenticated) THEN "login" ELSE "rest",
                page[t])
    /\ UNCHANGED <<jar, att, denied, codes, live, visits, want, redirects, cleared, fails>>

(***************************************************************************)
(* The login endpoint.                                                     *)
(***************************************************************************)
InUse ==
    LET held == {jar} \cup ({sent[t] : t \in Tabs} \ {None})
        cookies == ({c.login : c \in held} \cup {c.legacy : c \in held}) \ {None}
        going == {t \in Tabs : at[t] \in {"idp", "callback"} \cup Handling}
    IN  {c.id : c \in cookies} \cup {att[t] : t \in going}

\* Random state, nonce and verifier: the least name that is not in use.
Fresh(n) == n \notin InUse /\ \A m \in Attempts : m < n => m \in InUse

NewLogin(t, n) == [id |-> n, referer |-> CanonicalRedirect(t)]

\* Mutant: the page is taken from an earlier login that is still pending.
LoginOldReferer(t, n) ==
    /\ Arrived(t, "login") /\ Fresh(n)
    /\ LET old == GetLoginCookie(sent[t])
           c == [id |-> n, referer |-> IF old # None THEN old.referer ELSE page[t]]
       IN  jar' = Accept([jar EXCEPT !.login = c, !.legacy = c])
    /\ Goto(t, "idp", page[t])
    /\ att' = [att EXCEPT ![t] = n]
    /\ codes' = codes \ {n}
    /\ UNCHANGED <<denied, live, visits, want, redirects, cleared, fails>>

Login(t, n) ==
    /\ Arrived(t, "login") /\ Fresh(n)
    /\ LET c == NewLogin(t, n)
       IN  jar' = Accept([jar EXCEPT !.login = c, !.legacy = c])
    /\ Goto(t, "idp", page[t])
    /\ att' = [att EXCEPT ![t] = n]
    /\ codes' = codes \ {n}
    /\ UNCHANGED <<denied, live, visits, want, redirects, cleared, fails>>

\* A security level or locale that is not supported, or no matching ingress.
LoginFails(t) ==
    /\ "login" \in Faults /\ Arrived(t, "login")
    /\ respondError(t, jar)
    /\ UNCHANGED <<codes, live>>

\* The provider sends the user back with a code, or with an error.
Authorize(t, ok) ==
    /\ at[t] = "idp" /\ (ok \/ "denied" \in Faults)
    /\ Goto(t, "callback", page[t])
    /\ denied' = [denied EXCEPT ![t] = ~ok]
    /\ codes' = IF ok THEN codes \cup {att[t]} ELSE codes
    /\ UNCHANGED <<jar, att, live, visits, want, redirects, cleared, fails>>

-----------------------------------------------------------------------------
(***************************************************************************)
(* The callback endpoint.                                                  *)
(***************************************************************************)
clearLoginCookies(c) == [c EXCEPT !.login = None, !.legacy = None]

\* Mutant: an error parameter in the callback is overlooked.
MismatchNoError(t) == GetLoginCookie(sent[t]).id # att[t]

\* IdentityProviderError and StateMismatchError.
Mismatch(t) == denied[t] \/ GetLoginCookie(sent[t]).id # att[t]

Callback(t) ==
    /\ Arrived(t, "callback")
    /\ LET c == GetLoginCookie(sent[t])
       IN  \/ c = None /\ respondError(t, clearLoginCookies(jar))
           \/ c # None /\ Mismatch(t) /\ respondError(t, clearLoginCookies(jar))
           \/ /\ c # None /\ ~Mismatch(t)
              /\ at' = [at EXCEPT ![t] = "redeem"]
              /\ UNCHANGED <<jar, page, sent, att, denied, visits, want,
                             redirects, cleared, fails>>
    /\ UNCHANGED <<codes, live>>

\* RedeemTokens: the code is exchanged and the id_token validated.
Redeem(t) ==
    /\ at[t] = "redeem" /\ att[t] \in codes
    /\ codes' = codes \ {att[t]}
    /\ at' = [at EXCEPT ![t] = "create"]
    /\ UNCHANGED <<jar, page, sent, att, denied, live, visits, want, redirects,
                   cleared, fails>>

\* The code has been used: every retry of redeemValidTokens is refused.
RedeemRefused(t) ==
    /\ at[t] = "redeem" /\ att[t] \notin codes
    /\ respondError(t, clearLoginCookies(jar))
    /\ UNCHANGED <<codes, live>>

\* The exchange fails, or a token is not accepted and the code is spent; the
\* call is retried with the same code, or given up.
RedeemFails(t, spent, gaveUp) ==
    /\ "idp" \in Faults /\ at[t] = "redeem"
    /\ codes' = IF spent THEN codes \ {att[t]} ELSE codes
    /\ IF gaveUp THEN respondError(t, clearLoginCookies(jar))
       ELSE UNCHANGED <<jar, tabVars, visits, want, redirects, cleared, fails>>
    /\ UNCHANGED live

\* The cookies of a login that has made its session.
WithSession(c) == [clearLoginCookies(c) EXCEPT !.session = TRUE]

\* The login is done: back to the page of the login cookie.
Welcome(t, c) ==
    /\ jar' = Accept([c EXCEPT !.retry = 0])
    /\ Goto(t, "app", GetLoginCookie(sent[t]).referer)
    /\ StartCount(t) /\ fails' = 0
    /\ UNCHANGED <<att, denied, visits, want>>

\* Handler.Create
Create(t) ==
    /\ at[t] = "create"
    /\ live' = TRUE
    /\ \/ ~LoginstatusEnabled /\ Welcome(t, WithSession(jar))
       \/ /\ LoginstatusEnabled
          /\ at' = [at EXCEPT ![t] = "status"]
          /\ UNCHANGED <<jar, page, sent, att, denied, visits, want, redirects,
                         cleared, fails>>
    /\ UNCHANGED codes

CreateFails(t, applied) ==
    /\ "store" \in Faults /\ at[t] = "create"
    /\ live' = (live \/ applied)
    /\ respondError(t, clearLoginCookies(jar))
    /\ UNCHANGED codes

\* The loginstatus token is fetched after the session cookie has been set on
\* the response, which keeps it when the fetch fails.
ExchangeToken(t) ==
    /\ at[t] = "status"
    /\ Welcome(t, [WithSession(jar) EXCEPT !.status = TRUE])
    /\ UNCHANGED <<codes, live>>

ExchangeFails(t) ==
    /\ "status" \in Faults /\ at[t] = "status"
    /\ respondError(t, WithSession(jar))
    /\ UNCHANGED <<codes, live>>

-----------------------------------------------------------------------------
(***************************************************************************)
(* The logout endpoints.                                                   *)
(***************************************************************************)
ClearCookie(c) == [c EXCEPT !.status = FALSE]

\* found: sessions.Get returned the session; its error is ignored.
Logout(t, found) ==
    /\ at[t] \in {"logout", "logoutlocal"} /\ sent[t] # None
    /\ IF sent[t].session /\ live THEN found \/ "store" \in Faults ELSE ~found
    /\ live' = (live /\ ~found)
    /\ LET c == [jar EXCEPT !.session = FALSE]
       IN  jar' = Accept(IF LoginstatusEnabled THEN ClearCookie(c) ELSE c)
    /\ Goto(t, IF at[t] = "logout" THEN "endsession" ELSE "rest", Root)
    /\ UNCHANGED <<att, denied, codes, visits, want, redirects, cleared, fails>>

\* The session was found but could not be deleted; or it is gone (applied) and
\* the reply to that was lost.
LogoutFails(t, applied) ==
    /\ "store" \in Faults /\ at[t] \in {"logout", "logoutlocal"}
    /\ sent[t] # None /\ sent[t].session /\ live
    /\ live' = (live /\ ~applied)
    /\ respondError(t, jar)
    /\ UNCHANGED codes

\* The provider returns the user to the logout callback of the ingress.
EndSession(t) ==
    /\ at[t] = "endsession"
    /\ Goto(t, "logoutcallback", Root)
    /\ UNCHANGED <<jar, att, denied, codes, live, visits, want, redirects, cleared, fails>>

\* A page outside, which ends the journey, or the ingress.
LogoutLandsAt == IF PostLogoutRedirectURI THEN "rest" ELSE "app"

LogoutCallback(t) ==
    /\ Arrived(t, "logoutcallback")
    /\ jar' = Accept([jar EXCEPT !.retry = 0])
    /\ Goto(t, LogoutLandsAt, Root)
    /\ want' = [want EXCEPT ![t] = Root]
    /\ StartCount(t) /\ fails' = 0
    /\ UNCHANGED <<att, denied, codes, live, visits>>

\* The user logs out of another application, and the provider's page loads the
\* front-channel endpoint in a frame, whose cookies the browser may keep apart.
\* found: the session was read and deleted; if not, the handler stops halfway.
FrontChannel(found, apart) ==
    /\ "frontchannel" \in Faults /\ visits < MaxVisits
    /\ \/ found /\ live /\ live' = FALSE
       \/ ~found /\ (live => "store" \in Faults) /\ live' \in {live, FALSE}
    /\ LET c == [jar EXCEPT !.session = FALSE, !.retry = IF found THEN 0 ELSE @]
       IN  jar' = IF apart THEN jar
                  ELSE Accept(IF LoginstatusEnabled THEN ClearCookie(c) ELSE c)
    /\ cleared' = IF found /\ ~apart THEN [t \in Tabs |-> cleared[t] + 1]
                  ELSE cleared
    /\ visits' = visits + 1
    /\ UNCHANGED <<tabVars, codes, want, redirects, fails>>

-----------------------------------------------------------------------------
\* The lifetime of the session ends.
Expire ==
    /\ "expiry" \in Faults /\ live
    /\ live' = FALSE
    /\ UNCHANGED <<jar, tabVars, codes, visits, want, redirects, cleared, fails>>

\* The lifetime of a cookie ends: that of the login cookie, an hour, while every
\* tab waits for the user.  The retry cookie has none.
ExpireCookie(name) ==
    /\ name = "login" => /\ "slowlogin" \in Faults
                         /\ \A t \in Tabs : at[t] \in Shown \cup {"idp"}
    /\ name \in {"session", "status"} => "expiry" \in Faults
    /\ jar' = IF name = "login" THEN clearLoginCookies(jar)
              ELSE [jar EXCEPT ![name] = FALSE]
    /\ jar' # jar
    /\ UNCHANGED <<tabVars, codes, live, visits, want, redirects, cleared, fails>>

User(t) ==
    \/ \E p \in Pages : Open(t, p)
    \/ \E r \in LogoutRoutes : LogOut(t, r)
    \/ RetryLink(t)

\* What browser, program and provider do, with the user who logs in at the
\* provider (or is already logged in there).
Step(t) ==
    \/ Send(t) \/ \E found \in BOOLEAN : ReverseProxy(t, found) \/ Logout(t, found)
    \/ \E n \in Attempts : Login(t, n)
    \/ Authorize(t, TRUE) \/ Callback(t) \/ Redeem(t) \/ RedeemRefused(t)
    \/ Create(t) \/ ExchangeToken(t) \/ EndSession(t) \/ LogoutCallback(t)

Fault(t) ==
    \/ LoginFails(t) \/ Authorize(t, FALSE) \/ ExchangeFails(t)
    \/ \E a, b \in BOOLEAN : RedeemFails(t, a, b)
    \/ \E a \in BOOLEAN : CreateFails(t, a) \/ LogoutFails(t, a)

Elsewhere ==
    \/ \E found, apart \in BOOLEAN : FrontChannel(found, apart)
    \/ Expire \/ \E name \in {"login", "session", "status"} : ExpireCookie(name)

\* The user has done everything and every tab shows something.
Idle == (\A t \in Tabs : at[t] \in Shown) /\ UNCHANGED vars

Next == (\E t \in Tabs : User(t) \/ Step(t) \/ Fault(t)) \/ Elsewhere \/ Idle

Spec == Init /\ [][Next]_vars

\* Browsers follow redirects, requests are answered, and a user whom Wonderwall
\* has sent to the provider comes back (Authorize): one who stays there is in no
\* redirect loop.
FairSpec == Spec /\ \A t \in Tabs : WF_vars(Step(t))

-----------------------------------------------------------------------------
(***************************************************************************)
(* Properties.                                                             *)
(***************************************************************************)
StateTypes ==
    /\ jar \in Cookies
    /\ at \in [Tabs -> Requests \cup Providers \cup Handling \cup Shown]
    /\ page \in [Tabs -> Pages]
    /\ sent \in [Tabs -> Cookies \cup {None}]
    /\ att \in [Tabs -> Attempts \cup {None}] /\ denied \in [Tabs -> BOOLEAN]
    /\ codes \in SUBSET Attempts /\ live \in BOOLEAN /\ visits \in 0 .. MaxVisits
    /\ want \in [Tabs -> Pages \cup LogoutRoutes]
    /\ redirects \in [Tabs -> Nat] /\ cleared \in [Tabs -> Nat]
    /\ fails \in RetryValues

TabData ==
    \A t \in Tabs :
        /\ at[t] \in {"idp", "callback"} \cup Handling => att[t] \in Attempts
        /\ at[t] \in Handling =>
              /\ sent[t] \in Cookies /\ GetLoginCookie(sent[t]) # None
              /\ GetLoginCookie(sent[t]).id = att[t] /\ ~denied[t]

\* Types, and what a tab has at each step: a pending request has cookies, and
\* the callback handler never works without a login cookie for its own state.
TypeOK == StateTypes /\ TabData

\* error.go: MaxAutoRetryAttempts is the maximum number of times to redirect the
\* user to retry a request.  From the user's request, or from the end of the
\* login before, a login or logout of a tab is not retried more often than that,
\* through any sequence of failing steps, half-done attempts and pages that ask
\* for a login; a front-channel logout in between, which deletes the retry
\* cookie, grants it as many again.  And no tab shows an error before as many
\* errors have been retried.
AutoRetryBudget ==
    \A t \in Tabs :
        /\ redirects[t] <= Allowance(t)
        /\ at[t] \in {"loginerror", "logouterror"} => fails > MaxAutoRetryAttempts

\* error.go, respondError: the user is redirected to retry their original
\* request.  Whatever failed in between, the page that a tab comes to show is
\* the one that the user asked it for.
LandsWhereAsked ==
    \A t \in Tabs : at[t] = "rest" /\ want[t] \in Pages => page[t] = want[t]

\* error.go, Retry: a failed request goes to the login endpoint, unless it
\* attempted to reach the logout flow.  A tab in which the user logs out does
\* not end up in a login.
LogoutStaysLogout ==
    \A t \in Tabs : want[t] \notin Pages =>
        at[t] \notin {"login", "idp", "callback"} \cup Handling

\* However many requests fail, and whichever responses of the tabs overwrite
\* each other's cookies, every tab comes to show something: no redirect loop.
NoRedirectLoop == \A t \in Tabs : at[t] \notin Shown ~> at[t] \in Shown
=============================================================================
