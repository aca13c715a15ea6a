--------------------------- MODULE LoginFlowProofs ---------------------------
(***************************************************************************)
(* Proofs about LoginFlow, for every set of tabs, pages and authorization  *)
(* requests, every configuration and every combination of faults.          *)
(***************************************************************************)
EXTENDS LoginFlow, TLAPS

(***************************************************************************)
(* Cookies.                                                                *)
(***************************************************************************)
\* The counter of the retry cookie keeps its range.
LEMMA IncrementType ==
    ASSUME NEW n \in RetryValues
    PROVE  Increment(n) \in RetryValues
  BY FlowAssumption DEF Increment, RetryValues

\* Every way the handlers change the cookies gives cookies.
LEMMA CookieTypes ==
    ASSUME NEW c \in Cookies
    PROVE  /\ \A n \in RetryValues : [c EXCEPT !.retry = n] \in Cookies
           /\ \A b \in BOOLEAN : /\ [c EXCEPT !.session = b] \in Cookies
                                 /\ [c EXCEPT !.status = b] \in Cookies
           /\ \A l \in LoginCookie \cup {None} :
                 [c EXCEPT !.login = l, !.legacy = l] \in Cookies
           /\ [c EXCEPT !.login = None] \in Cookies
           /\ clearLoginCookies(c) \in Cookies
           /\ ClearCookie(c) \in Cookies
           /\ WithSession(c) \in Cookies
<1>1. \A n \in RetryValues : [c EXCEPT !.retry = n] \in Cookies
  BY DEF Cookies
<1>2. \A b \in BOOLEAN : /\ [c EXCEPT !.session = b] \in Cookies
                         /\ [c EXCEPT !.status = b] \in Cookies
  BY DEF Cookies
<1>3. \A l \in LoginCookie \cup {None} :
         [c EXCEPT !.login = l, !.legacy = l] \in Cookies
  BY DEF Cookies
<1>4. [c EXCEPT !.login = None] \in Cookies
  BY DEF Cookies
<1>5. clearLoginCookies(c) \in Cookies
  BY DEF clearLoginCookies, Cookies
<1>6. ClearCookie(c) \in Cookies
  BY <1>2 DEF ClearCookie
<1>7. WithSession(c) \in Cookies
  <2>1. \A d \in Cookies : [d EXCEPT !.session = TRUE] \in Cookies
    BY DEF Cookies
  <2> QED BY <1>5, <2>1 DEF WithSession
<1> QED BY <1>1, <1>2, <1>3, <1>4, <1>5, <1>6, <1>7

\* So does every browser's treatment of them.
LEMMA AcceptType ==
    ASSUME jar \in Cookies, NEW c \in Cookies
    PROVE  Accept(c) \in Cookies
  BY CookieTypes DEF Accept

\* The browser drops no cookie but the login cookie, if it keeps any at all.
LEMMA AcceptKeeps ==
    ASSUME Browser # "nocookies", NEW c \in Cookies
    PROVE  /\ Accept(c).retry = c.retry /\ Accept(c).legacy = c.legacy
           /\ Accept(c).login \in {c.login, None}
  BY DEF Accept, Cookies

\* The login cookie that a request has is a login cookie.
LEMMA LoginCookieType ==
    ASSUME NEW c \in Cookies
    PROVE  GetLoginCookie(c) \in LoginCookie \cup {None}
  BY DEF GetLoginCookie, Cookies

\* A retry goes to the login or to the logout endpoint, with a page.
LEMMA RetryType ==
    ASSUME TypeOK, NEW t \in Tabs, sent[t] \in Cookies
    PROVE  Retry(t).route \in {"login", "logout"} /\ Retry(t).target \in Pages
  BY LoginCookieType, FlowAssumption
     DEF Retry, CanonicalRedirect, LoginCookie, TypeOK, StateTypes

-----------------------------------------------------------------------------
(***************************************************************************)
(* Type correctness.                                                       *)
(***************************************************************************)
\* A tab that is sent somewhere outside the callback handler.
LEMMA GotoType ==
    ASSUME TypeOK, NEW t \in Tabs, NEW w \in Requests \cup Providers \cup Shown,
           NEW p \in Pages, Goto(t, w, p), denied' \in [Tabs -> BOOLEAN],
           \A u \in Tabs : u # t => att'[u] = att[u] /\ denied'[u] = denied[u],
           att' \in [Tabs -> Attempts \cup {None}],
           w \in {"idp", "callback"} => att'[t] \in Attempts
    PROVE  /\ at' \in [Tabs -> Requests \cup Providers \cup Handling \cup Shown]
           /\ page' \in [Tabs -> Pages] /\ sent' \in [Tabs -> Cookies \cup {None}]
           /\ TabData'
<1>1. /\ at' \in [Tabs -> Requests \cup Providers \cup Handling \cup Shown]
      /\ page' \in [Tabs -> Pages] /\ sent' \in [Tabs -> Cookies \cup {None}]
  BY DEF Goto, TypeOK, StateTypes
<1>2. TabData'
  <2> SUFFICES ASSUME NEW u \in Tabs
               PROVE  /\ at'[u] \in {"idp", "callback"} \cup Handling =>
                            att'[u] \in Attempts
                      /\ at'[u] \in Handling =>
                            /\ sent'[u] \in Cookies /\ GetLoginCookie(sent'[u]) # None
                            /\ GetLoginCookie(sent'[u]).id = att'[u] /\ ~denied'[u]
    BY DEF TabData, GetLoginCookie
  <2>1. CASE u = t
    BY <2>1 DEF Goto, TypeOK, StateTypes, Requests, Providers, Shown, Handling
  <2>2. CASE u # t
    BY <2>2 DEF Goto, TypeOK, StateTypes, TabData
  <2> QED BY <2>1, <2>2
<1> QED BY <1>1, <1>2

\* The error handler keeps the types.
LEMMA respondErrorType ==
    ASSUME TypeOK, NEW t \in Tabs, NEW c \in Cookies, sent[t] \in Cookies,
           respondError(t, c), codes' \in SUBSET Attempts, live' \in BOOLEAN
    PROVE  TypeOK'
<1>1. jar' \in Cookies /\ fails' \in RetryValues
  <2>1. Increment(sent[t].retry) \in RetryValues /\ Increment(fails) \in RetryValues
    BY IncrementType DEF Cookies, TypeOK, StateTypes
  <2>2. [c EXCEPT !.retry = Increment(sent[t].retry)] \in Cookies
    BY <2>1, CookieTypes
  <2> QED BY <2>1, <2>2, AcceptType DEF respondError, TypeOK, StateTypes
<1>2. redirects' \in [Tabs -> Nat] /\ cleared' \in [Tabs -> Nat]
  BY DEF respondError, CountRetry, TypeOK, StateTypes
<1>3. UNCHANGED <<att, denied, visits, want>>
  BY DEF respondError
<1>4. PICK w \in {"login", "logout", "app", "loginerror", "logouterror"},
           p \in Pages : Goto(t, w, p)
  BY RetryType, FlowAssumption DEF respondError
<1>5. /\ at' \in [Tabs -> Requests \cup Providers \cup Handling \cup Shown]
      /\ page' \in [Tabs -> Pages] /\ sent' \in [Tabs -> Cookies \cup {None}]
      /\ TabData'
  BY <1>3, <1>4, GotoType DEF TypeOK, StateTypes, Requests, Shown
<1> QED BY <1>1, <1>2, <1>3, <1>5 DEF TypeOK, StateTypes

\* What the user does keeps the types.
LEMMA TypeUser ==
    ASSUME TypeOK, NEW t \in Tabs, User(t)
    PROVE  TypeOK'
<1>1. PICK w \in {"app", "login", "logout", "logoutlocal"}, p \in Pages,
           wanted \in Pages \cup LogoutRoutes : Goto(t, w, p) /\ Visit(t, wanted)
  <2>1. ASSUME NEW p \in Pages, Open(t, p)
        PROVE  Goto(t, "app", p) /\ Visit(t, p)
    BY <2>1 DEF Open
  <2>2. ASSUME NEW r \in LogoutRoutes, LogOut(t, r)
        PROVE  Goto(t, r, Root) /\ Visit(t, r) /\ r \in {"logout", "logoutlocal"}
    BY <2>2, FlowAssumption DEF LogOut
  <2>3. CASE RetryLink(t)
    <3>1. page[t] \in Pages /\ want[t] \in Pages \cup LogoutRoutes
      BY DEF TypeOK, StateTypes
    <3> QED BY <2>3, <3>1 DEF RetryLink
  <2> QED BY <2>1, <2>2, <2>3, FlowAssumption DEF User
<1>2. /\ at' \in [Tabs -> Requests \cup Providers \cup Handling \cup Shown]
      /\ page' \in [Tabs -> Pages] /\ sent' \in [Tabs -> Cookies \cup {None}]
      /\ TabData'
  BY <1>1, GotoType DEF Visit, TypeOK, StateTypes, Requests
<1>3. /\ visits' \in 0 .. MaxVisits /\ want' \in [Tabs -> Pages \cup LogoutRoutes]
      /\ redirects' \in [Tabs -> Nat] /\ cleared' \in [Tabs -> Nat]
  BY <1>1, FlowAssumption DEF Visit, StartCount, TypeOK, StateTypes
<1> QED BY <1>1, <1>2, <1>3 DEF Visit, TypeOK, StateTypes

\* A callback that has cookies, and a request that has arrived with some.
LEMMA SentType ==
    ASSUME TypeOK, NEW t \in Tabs, sent[t] # None \/ at[t] \in Handling
    PROVE  sent[t] \in Cookies
  BY DEF TypeOK, StateTypes, TabData

\* The requests that are not about the callback keep the types.
LEMMA TypeRequest ==
    ASSUME TypeOK, NEW t \in Tabs,
           \/ Send(t) \/ EndSession(t) \/ LogoutCallback(t)
           \/ LoginFails(t) \/ \E a \in BOOLEAN : LogoutFails(t, a)
           \/ \E found \in BOOLEAN : ReverseProxy(t, found) \/ Logout(t, found)
           \/ \E n \in Attempts : Login(t, n)
           \/ \E ok \in BOOLEAN : Authorize(t, ok)
    PROVE  TypeOK'
<1>1. CASE Send(t)
  BY <1>1 DEF Send, TypeOK, StateTypes, TabData, Requests, Handling
<1>2. CASE EndSession(t)
  <2>1. Goto(t, "logoutcallback", Root) /\ UNCHANGED <<att, denied>>
    BY <1>2 DEF EndSession
  <2>2. /\ at' \in [Tabs -> Requests \cup Providers \cup Handling \cup Shown]
        /\ page' \in [Tabs -> Pages] /\ sent' \in [Tabs -> Cookies \cup {None}]
        /\ TabData'
    BY <2>1, GotoType, FlowAssumption DEF TypeOK, StateTypes, Requests
  <2> QED BY <1>2, <2>2 DEF EndSession, TypeOK, StateTypes
<1>3. CASE LogoutCallback(t)
  <2>1. Goto(t, LogoutLandsAt, Root) /\ UNCHANGED <<att, denied>>
    BY <1>3 DEF LogoutCallback
  <2>2. /\ at' \in [Tabs -> Requests \cup Providers \cup Handling \cup Shown]
        /\ page' \in [Tabs -> Pages] /\ sent' \in [Tabs -> Cookies \cup {None}]
        /\ TabData'
    BY <2>1, GotoType, FlowAssumption
       DEF LogoutLandsAt, TypeOK, StateTypes, Requests, Shown
  <2>3. 0 \in RetryValues
    BY FlowAssumption DEF RetryValues
  <2>4. jar' \in Cookies
    BY <1>3, <2>3, CookieTypes, AcceptType DEF LogoutCallback, TypeOK, StateTypes
  <2> QED BY <1>3, <2>2, <2>3, <2>4, FlowAssumption
          DEF LogoutCallback, StartCount, TypeOK, StateTypes
<1>4. CASE LoginFails(t) \/ \E a \in BOOLEAN : LogoutFails(t, a)
  <2>1. /\ sent[t] \in Cookies /\ respondError(t, jar)
        /\ codes' = codes /\ live' \in {live, FALSE}
    BY <1>4, SentType DEF LoginFails, LogoutFails, Arrived, TypeOK, StateTypes
  <2> QED BY <2>1, respondErrorType DEF TypeOK, StateTypes
<1>5. ASSUME NEW found \in BOOLEAN, ReverseProxy(t, found)
      PROVE  TypeOK'
  <2>1. PICK w \in {"login", "rest"} : Goto(t, w, page[t]) /\ UNCHANGED <<att, denied>>
    BY <1>5 DEF ReverseProxy
  <2>2. /\ at' \in [Tabs -> Requests \cup Providers \cup Handling \cup Shown]
        /\ page' \in [Tabs -> Pages] /\ sent' \in [Tabs -> Cookies \cup {None}]
        /\ TabData'
    BY <2>1, GotoType DEF TypeOK, StateTypes, Requests, Shown
  <2> QED BY <1>5, <2>2 DEF ReverseProxy, TypeOK, StateTypes
<1>6. ASSUME NEW found \in BOOLEAN, Logout(t, found)
      PROVE  TypeOK'
  <2>1. PICK w \in {"endsession", "rest"} : Goto(t, w, Root) /\ UNCHANGED <<att, denied>>
    BY <1>6 DEF Logout
  <2>2. /\ at' \in [Tabs -> Requests \cup Providers \cup Handling \cup Shown]
        /\ page' \in [Tabs -> Pages] /\ sent' \in [Tabs -> Cookies \cup {None}]
        /\ TabData'
    BY <2>1, GotoType, FlowAssumption DEF TypeOK, StateTypes, Providers, Shown
  <2>3. [jar EXCEPT !.session = FALSE] \in Cookies
    BY CookieTypes DEF TypeOK, StateTypes
  <2>4. jar' \in Cookies
    BY <1>6, <2>3, CookieTypes, AcceptType DEF Logout, TypeOK, StateTypes
  <2> QED BY <1>6, <2>2, <2>4 DEF Logout, TypeOK, StateTypes
<1>7. ASSUME NEW n \in Attempts, Login(t, n)
      PROVE  TypeOK'
  <2>1. /\ Goto(t, "idp", page[t]) /\ att' = [att EXCEPT ![t] = n]
        /\ UNCHANGED denied
    BY <1>7 DEF Login
  <2>2. /\ at' \in [Tabs -> Requests \cup Providers \cup Handling \cup Shown]
        /\ page' \in [Tabs -> Pages] /\ sent' \in [Tabs -> Cookies \cup {None}]
        /\ TabData' /\ att' \in [Tabs -> Attempts \cup {None}]
    BY <2>1, GotoType DEF TypeOK, StateTypes, Providers
  <2>3. NewLogin(t, n) \in LoginCookie
    BY FlowAssumption
       DEF NewLogin, LoginCookie, CanonicalRedirect, TypeOK, StateTypes
  <2>4. jar' \in Cookies
    BY <1>7, <2>3, CookieTypes, AcceptType DEF Login, TypeOK, StateTypes
  <2> QED BY <1>7, <2>2, <2>4 DEF Login, TypeOK, StateTypes
<1>8. ASSUME NEW ok \in BOOLEAN, Authorize(t, ok)
      PROVE  TypeOK'
  <2>1. /\ Goto(t, "callback", page[t]) /\ UNCHANGED att /\ att[t] \in Attempts
        /\ denied' = [denied EXCEPT ![t] = ~ok]
    BY <1>8 DEF Authorize, TypeOK, TabData
  <2>2. /\ at' \in [Tabs -> Requests \cup Providers \cup Handling \cup Shown]
        /\ page' \in [Tabs -> Pages] /\ sent' \in [Tabs -> Cookies \cup {None}]
        /\ TabData' /\ denied' \in [Tabs -> BOOLEAN]
    BY <2>1, GotoType DEF TypeOK, StateTypes, Requests
  <2> QED BY <1>8, <2>1, <2>2 DEF Authorize, TypeOK, StateTypes
<1> QED BY <1>1, <1>2, <1>3, <1>4, <1>5, <1>6, <1>7, <1>8

\* The end of a successful login keeps the types.
LEMMA WelcomeType ==
    ASSUME TypeOK, NEW t \in Tabs, NEW c \in Cookies, at[t] \in Handling,
           Welcome(t, c), UNCHANGED codes, live' \in BOOLEAN
    PROVE  TypeOK'
<1>1. sent[t] \in Cookies /\ GetLoginCookie(sent[t]) \in LoginCookie
  BY LoginCookieType DEF TypeOK, TabData
<1>2. PICK p \in Pages : Goto(t, "app", p) /\ UNCHANGED <<att, denied>>
  BY <1>1 DEF Welcome, LoginCookie
<1>3. /\ at' \in [Tabs -> Requests \cup Providers \cup Handling \cup Shown]
      /\ page' \in [Tabs -> Pages] /\ sent' \in [Tabs -> Cookies \cup {None}]
      /\ TabData'
  BY <1>2, GotoType DEF TypeOK, StateTypes, Requests
<1>4. 0 \in RetryValues
  BY FlowAssumption DEF RetryValues
<1>5. jar' \in Cookies
  BY <1>4, CookieTypes, AcceptType DEF Welcome, TypeOK, StateTypes
<1> QED BY <1>3, <1>4, <1>5 DEF Welcome, StartCount, TypeOK, StateTypes

\* So does every step of the callback handler.
LEMMA TypeCallback ==
    ASSUME TypeOK, NEW t \in Tabs,
           \/ Callback(t) \/ Redeem(t) \/ RedeemRefused(t) \/ Create(t)
           \/ ExchangeToken(t) \/ ExchangeFails(t)
           \/ \E a, b \in BOOLEAN : RedeemFails(t, a, b)
           \/ \E a \in BOOLEAN : CreateFails(t, a)
    PROVE  TypeOK'
<1>0. clearLoginCookies(jar) \in Cookies /\ WithSession(jar) \in Cookies
  BY CookieTypes DEF TypeOK, StateTypes
<1>1. CASE Callback(t)
  <2>1. sent[t] \in Cookies /\ att[t] \in Attempts
    BY <1>1, SentType DEF Callback, Arrived, TypeOK, TabData
  <2>2. CASE respondError(t, clearLoginCookies(jar))
    BY <1>0, <1>1, <2>1, <2>2, respondErrorType DEF Callback, TypeOK, StateTypes
  <2>3. CASE /\ GetLoginCookie(sent[t]) # None /\ ~Mismatch(t)
             /\ at' = [at EXCEPT ![t] = "redeem"]
             /\ UNCHANGED <<jar, page, sent, att, denied, visits, want,
                            redirects, cleared, fails>>
    <3>1. TabData'
      BY <2>1, <2>3 DEF Mismatch, TypeOK, StateTypes, TabData, Handling,
                        GetLoginCookie
    <3> QED BY <1>1, <2>3, <3>1 DEF Callback, TypeOK, StateTypes, Handling
  <2> QED BY <1>1, <2>2, <2>3 DEF Callback
<1>2. CASE Redeem(t)
  BY <1>2 DEF Redeem, TypeOK, StateTypes, TabData, Handling, GetLoginCookie
<1>3. CASE RedeemRefused(t)
  <2>1. sent[t] \in Cookies
    BY <1>3, SentType DEF RedeemRefused, Handling
  <2> QED BY <1>0, <1>3, <2>1, respondErrorType
          DEF RedeemRefused, TypeOK, StateTypes
<1>4. CASE Create(t)
  <2>1. CASE Welcome(t, WithSession(jar))
    BY <1>0, <1>4, <2>1, WelcomeType DEF Create, Handling
  <2>2. CASE at' = [at EXCEPT ![t] = "status"] /\ UNCHANGED <<jar, page, sent, att,
                denied, visits, want, redirects, cleared, fails>>
    BY <1>4, <2>2 DEF Create, TypeOK, StateTypes, TabData, Handling, GetLoginCookie
  <2> QED BY <1>4, <2>1, <2>2 DEF Create
<1>5. CASE ExchangeToken(t)
  <2>1. [WithSession(jar) EXCEPT !.status = TRUE] \in Cookies
    BY <1>0, CookieTypes
  <2> QED BY <1>5, <2>1, WelcomeType DEF ExchangeToken, Handling, TypeOK, StateTypes
<1>6. CASE ExchangeFails(t)
  <2>1. sent[t] \in Cookies
    BY <1>6, SentType DEF ExchangeFails, Handling
  <2> QED BY <1>0, <1>6, <2>1, respondErrorType DEF ExchangeFails, TypeOK, StateTypes
<1>7. ASSUME NEW a \in BOOLEAN, NEW b \in BOOLEAN, RedeemFails(t, a, b)
      PROVE  TypeOK'
  <2>1. sent[t] \in Cookies
    BY <1>7, SentType DEF RedeemFails, Handling
  <2>2. codes' \in SUBSET Attempts /\ live' \in BOOLEAN
    BY <1>7 DEF RedeemFails, TypeOK, StateTypes
  <2>3. CASE b
    BY <1>0, <1>7, <2>1, <2>2, <2>3, respondErrorType DEF RedeemFails
  <2>4. CASE ~b
    BY <1>7, <2>2, <2>4 DEF RedeemFails, tabVars, TypeOK, StateTypes, TabData,
                            GetLoginCookie
  <2> QED BY <2>3, <2>4
<1>8. ASSUME NEW a \in BOOLEAN, CreateFails(t, a)
      PROVE  TypeOK'
  <2>1. sent[t] \in Cookies
    BY <1>8, SentType DEF CreateFails, Handling
  <2>2. codes' \in SUBSET Attempts /\ live' \in BOOLEAN
    BY <1>8 DEF CreateFails, TypeOK, StateTypes
  <2> QED BY <1>0, <1>8, <2>1, <2>2, respondErrorType DEF CreateFails
<1> QED BY <1>1, <1>2, <1>3, <1>4, <1>5, <1>6, <1>7, <1>8

\* Requests from other applications, and time, keep the types.
LEMMA TypeElsewhere ==
    ASSUME TypeOK, Elsewhere
    PROVE  TypeOK'
<1>1. ASSUME NEW found \in BOOLEAN, NEW apart \in BOOLEAN, FrontChannel(found, apart)
      PROVE  TypeOK'
  <2>1. 0 \in RetryValues
    BY FlowAssumption DEF RetryValues
  <2>2. [jar EXCEPT !.session = FALSE, !.retry = IF found THEN 0 ELSE @] \in Cookies
    BY <2>1 DEF TypeOK, StateTypes, Cookies
  <2>3. jar' \in Cookies
    BY <1>1, <2>2, CookieTypes, AcceptType DEF FrontChannel, TypeOK, StateTypes
  <2>4. visits' \in 0 .. MaxVisits /\ cleared' \in [Tabs -> Nat]
    BY <1>1, FlowAssumption DEF FrontChannel, TypeOK, StateTypes
  <2>5. live' \in BOOLEAN
    BY <1>1 DEF FrontChannel, TypeOK, StateTypes
  <2> QED BY <1>1, <2>3, <2>4, <2>5
          DEF FrontChannel, tabVars, TypeOK, StateTypes, TabData, GetLoginCookie
<1>2. CASE Expire
  BY <1>2 DEF Expire, tabVars, TypeOK, StateTypes, TabData, GetLoginCookie
<1>3. ASSUME NEW name \in {"login", "session", "status"}, ExpireCookie(name)
      PROVE  TypeOK'
  <2>1. jar' \in Cookies
    <3>1. CASE name = "login"
      BY <1>3, <3>1, CookieTypes DEF ExpireCookie, TypeOK, StateTypes
    <3>2. CASE name = "session"
      BY <1>3, <3>2, CookieTypes DEF ExpireCookie, TypeOK, StateTypes
    <3>3. CASE name = "status"
      BY <1>3, <3>3, CookieTypes DEF ExpireCookie, TypeOK, StateTypes
    <3> QED BY <3>1, <3>2, <3>3
  <2> QED BY <1>3, <2>1
          DEF ExpireCookie, tabVars, TypeOK, StateTypes, TabData, GetLoginCookie
<1> QED BY <1>1, <1>2, <1>3 DEF Elsewhere

\* The types hold initially.
LEMMA TypeInit == Init => TypeOK
<1> SUFFICES ASSUME Init PROVE TypeOK
  OBVIOUS
<1>1. 0 \in RetryValues /\ 0 \in 0 .. MaxVisits
  BY FlowAssumption DEF RetryValues
<1>2. NoCookies \in Cookies
  BY <1>1 DEF NoCookies, Cookies
<1>3. StateTypes
  BY <1>1, <1>2, FlowAssumption DEF Init, StateTypes, Shown
<1>4. TabData
  BY DEF Init, TabData, Handling
<1> QED BY <1>3, <1>4 DEF TypeOK

\* Cookies, tabs and codes keep their types, whatever fails; and the callback
\* handler redeems a code only with a login cookie for its own state parameter,
\* however the tabs overwrite each other's cookies.
THEOREM TypeCorrect == Spec => []TypeOK
<1>1. TypeOK /\ [Next]_vars => TypeOK'
  <2>1. ASSUME TypeOK, UNCHANGED vars
        PROVE  TypeOK'
    BY <2>1 DEF vars, TypeOK, StateTypes, TabData, GetLoginCookie
  <2> QED BY <2>1, TypeUser, TypeRequest, TypeCallback, TypeElsewhere
          DEF Next, Step, Fault, Idle
<1> QED BY <1>1, TypeInit, PTL DEF Spec

-----------------------------------------------------------------------------
(***************************************************************************)
(* Logging out.  LogoutStaysLogout is not inductive: it does not say where *)
(* a tab that logs out may be, nor that an error page needs no login.      *)
(***************************************************************************)
\* The user visits only the logout endpoint that Retry knows, and the page for
\* errors can be seen without a login.
LogoutRetried ==
    /\ LogoutRoutes \subseteq {"logout"}
    /\ AutoLogin /\ ErrorPath # None => ErrorPath \in Ignored

\* A tab that logs out is on its way out, or shows an error.
LoggingOut ==
    \A t \in Tabs : want[t] \notin Pages =>
        \/ at[t] \in {"logout", "endsession", "logoutcallback", "logouterror", "rest"}
        \/ at[t] = "app" /\ ErrorPath # None /\ page[t] = ErrorPath

\* A failed request of a tab that logs out goes back to the logout endpoint or
\* shows an error; any other keeps wanting what it did.
LEMMA respondErrorLogout ==
    ASSUME TypeOK, LogoutRetried, LoggingOut, NEW t \in Tabs, NEW c,
           respondError(t, c),
           at[t] \in {"login", "callback", "logout", "logoutlocal"} \cup Handling
    PROVE  LoggingOut'
<1>1. UNCHANGED want /\ \A u \in Tabs : u # t => at'[u] = at[u] /\ page'[u] = page[u]
  BY DEF respondError, Goto, TypeOK, StateTypes
<1>2. ASSUME want[t] \notin Pages
      PROVE  \/ at'[t] \in {"logout", "logouterror"}
             \/ at'[t] = "app" /\ ErrorPath # None /\ page'[t] = ErrorPath
  <2>1. CASE at[t] = "logout"
    BY <2>1 DEF respondError, Goto, Retry, TypeOK, StateTypes
  <2>2. CASE at[t] # "logout"
    BY <1>2, <2>2 DEF LoggingOut, Handling
  <2> QED BY <2>1, <2>2
<1> QED BY <1>1, <1>2 DEF LoggingOut

\* Every step of a tab keeps LoggingOut.
LEMMA LogoutTab ==
    ASSUME TypeOK, LogoutRetried, LoggingOut, NEW t \in Tabs,
           User(t) \/ Step(t) \/ Fault(t)
    PROVE  LoggingOut'
<1> USE DEF LoggingOut, Goto, TypeOK, StateTypes
<1>1. ASSUME NEW p \in Pages, Open(t, p) PROVE LoggingOut'
  BY <1>1 DEF Open, Visit
<1>2. ASSUME NEW r \in LogoutRoutes, LogOut(t, r) PROVE LoggingOut'
  BY <1>2 DEF LogOut, Visit, LogoutRetried
<1>3. CASE RetryLink(t)
  BY <1>3 DEF RetryLink, Visit
<1>4. CASE Send(t)
  BY <1>4 DEF Send
<1>5. ASSUME NEW found \in BOOLEAN, ReverseProxy(t, found) PROVE LoggingOut'
  BY <1>5, FlowAssumption DEF ReverseProxy, Arrived, NeedsLogin, LogoutRetried
<1>6. ASSUME NEW found \in BOOLEAN, Logout(t, found) PROVE LoggingOut'
  BY <1>6 DEF Logout
<1>7. ASSUME NEW n \in Attempts, Login(t, n) PROVE LoggingOut'
  BY <1>7 DEF Login, Arrived
<1>8. ASSUME NEW ok \in BOOLEAN, Authorize(t, ok) PROVE LoggingOut'
  BY <1>8 DEF Authorize
<1>9. CASE Redeem(t) \/ (Create(t) /\ LoginstatusEnabled)
  BY <1>9 DEF Redeem, Create
<1>10. ASSUME NEW c, Welcome(t, c), at[t] \in Handling PROVE LoggingOut'
  BY <1>10 DEF Welcome, Handling
<1>11. CASE EndSession(t)
  BY <1>11 DEF EndSession
<1>12. CASE LogoutCallback(t)
  BY <1>12, FlowAssumption DEF LogoutCallback
<1>13. ASSUME NEW c, respondError(t, c),
              at[t] \in {"login", "callback", "logout", "logoutlocal"} \cup Handling
       PROVE  LoggingOut'
  BY <1>13, respondErrorLogout
<1>14. CASE /\ Arrived(t, "callback") /\ at' = [at EXCEPT ![t] = "redeem"]
            /\ UNCHANGED <<page, want>>
  BY <1>14 DEF Arrived
<1>15. CASE UNCHANGED <<at, page, want>>
  BY <1>15
<1>16. CASE User(t)
  BY <1>1, <1>2, <1>3, <1>16 DEF User
<1>17. CASE Step(t)
  BY <1>4, <1>5, <1>6, <1>7, <1>8, <1>9, <1>10, <1>11, <1>12, <1>13, <1>14, <1>17
     DEF Step, Callback, Arrived, RedeemRefused, Create, ExchangeToken, Handling
<1>18. CASE Fault(t)
  BY <1>8, <1>13, <1>15, <1>18
     DEF Fault, LoginFails, Arrived, ExchangeFails, LogoutFails, RedeemFails,
         CreateFails, Handling, tabVars
<1> QED BY <1>16, <1>17, <1>18

\* error.go, Retry: with any number of tabs and whatever fails, a tab in which
\* the user logs out at the logout endpoint does not end up in a login.
THEOREM LogoutIsNoLogin == Spec => [](LogoutRetried => LogoutStaysLogout)
<1>1. Init => LoggingOut
  BY FlowAssumption DEF Init, LoggingOut
<1>2. TypeOK /\ (LogoutRetried => LoggingOut) /\ [Next]_vars
        => (LogoutRetried => LoggingOut')
  <2>1. ASSUME LoggingOut, Elsewhere \/ Idle \/ UNCHANGED vars
        PROVE  LoggingOut'
    BY <2>1 DEF LoggingOut, Elsewhere, FrontChannel, Expire, ExpireCookie, Idle,
                tabVars, vars
  <2> QED BY <2>1, LogoutTab DEF Next
<1>3. LoggingOut => LogoutStaysLogout
  BY DEF LoggingOut, LogoutStaysLogout, Handling
<1>4. LogoutRetried' <=> LogoutRetried
  BY DEF LogoutRetried
<1> QED BY <1>1, <1>2, <1>3, <1>4, TypeCorrect, PTL DEF Spec

-----------------------------------------------------------------------------
(***************************************************************************)
(* Automatic retries.  AutoRetryBudget is not inductive: BudgetInv relates *)
(* the counts to the retry cookie, in the jar and in pending requests.     *)
(***************************************************************************)
OneTab == \A t, u \in Tabs : t = u

CookiesKept == OneTab /\ Browser # "nocookies"

\* The retry cookie counts every redirect of the login or logout that no
\* front-channel logout has wiped out, and nothing but errors since a login or
\* logout was done.
RetryCookieCounts(c) ==
    /\ \A t \in Tabs : redirects[t] + MaxAutoRetryAttempts <= Allowance(t) + c.retry
    /\ c.retry <= fails

BudgetInv ==
    /\ AutoRetryBudget
    /\ RetryCookieCounts(jar)
    /\ \A t \in Tabs : sent[t] # None => RetryCookieCounts(sent[t])

\* What a login or logout may be retried starts at the maximum, and grows by as
\* much with every front-channel logout.
LEMMA AllowanceGrows ==
    ASSUME TypeOK, NEW t \in Tabs
    PROVE  /\ Allowance(t) \in Nat
           /\ cleared' = cleared => Allowance(t)' = Allowance(t)
           /\ cleared'[t] = 0 => Allowance(t)' = MaxAutoRetryAttempts
           /\ cleared'[t] = cleared[t] + 1 =>
                 Allowance(t)' = Allowance(t) + MaxAutoRetryAttempts
<1>1. \A m, k \in Nat : /\ m * (1 + k) \in Nat /\ m * (1 + 0) = m
                        /\ m * (1 + (k + 1)) = m * (1 + k) + m
  OBVIOUS
<1>2. cleared[t] \in Nat /\ MaxAutoRetryAttempts \in Nat
  BY FlowAssumption DEF TypeOK, StateTypes
<1> QED BY <1>1, <1>2 DEF Allowance

\* Steps that leave the counts alone: requests take the cookie of the jar.
QuietStep ==
    /\ jar'.retry = jar.retry /\ UNCHANGED <<redirects, cleared, fails>>
    /\ \A t \in Tabs :
          /\ sent'[t] \in {sent[t], None, jar}
          /\ at'[t] \in {"loginerror", "logouterror"} => at'[t] = at[t]

\* They keep the budget.
LEMMA QuietBudget ==
    ASSUME TypeOK, BudgetInv, QuietStep
    PROVE  BudgetInv'
<1>1. \A t \in Tabs : Allowance(t)' = Allowance(t)
  BY AllowanceGrows DEF QuietStep
<1> QED BY <1>1 DEF BudgetInv, AutoRetryBudget, RetryCookieCounts, QuietStep

\* The error handler redirects only while the cookie that counts is below the
\* limit, and counts it up.
LEMMA respondErrorBudget ==
    ASSUME TypeOK, CookiesKept, BudgetInv, NEW t \in Tabs, NEW c \in Cookies,
           sent[t] \in Cookies, sent[t] # None, respondError(t, c)
    PROVE  BudgetInv'
<1> DEFINE n == sent[t].retry
           a == Allowance(t)
<1>1. /\ n \in RetryValues /\ fails \in RetryValues /\ redirects[t] \in Nat
      /\ a \in Nat /\ Allowance(t)' = a
      /\ redirects[t] + MaxAutoRetryAttempts <= a + n /\ n <= fails
      /\ redirects[t] <= a
      /\ \A u \in Tabs : u = t
  <2>1. a \in Nat /\ Allowance(t)' = a
    BY AllowanceGrows DEF respondError
  <2> QED BY <2>1 DEF TypeOK, StateTypes, Cookies, BudgetInv, AutoRetryBudget,
                      RetryCookieCounts, CookiesKept, OneTab
<1>2. jar'.retry = Increment(n) /\ fails' = Increment(fails)
  <2>1. [c EXCEPT !.retry = Increment(n)] \in Cookies
    BY <1>1, IncrementType, CookieTypes
  <2>2. [c EXCEPT !.retry = Increment(n)].retry = Increment(n)
    BY DEF Cookies
  <2> QED BY <2>1, <2>2, AcceptKeeps DEF respondError, CookiesKept
<1>3. sent'[t] = None
  BY DEF respondError, Goto, TypeOK, StateTypes
<1>4. \/ /\ n < MaxAutoRetryAttempts /\ redirects'[t] = redirects[t] + 1
         /\ at'[t] \in {"login", "logout"}
      \/ n >= MaxAutoRetryAttempts /\ redirects'[t] = redirects[t]
  <2>1. redirects[t] <= Allowance(t) /\ redirects \in [Tabs -> Nat]
    BY <1>1 DEF TypeOK, StateTypes
  <2>2. ~(redirects[t] > Allowance(t))
    BY <1>1
  <2> QED BY <2>1, <2>2, RetryType
          DEF respondError, CountRetry, Goto, TypeOK, StateTypes
<1>5. AutoRetryBudget' /\ RetryCookieCounts(jar)'
  <2>1. \A u \in Tabs : /\ redirects'[u] = redirects'[t] /\ at'[u] = at'[t]
                        /\ Allowance(u)' = a
    BY <1>1
  <2> HIDE DEF n, a
  <2> QED BY <1>1, <1>2, <1>4, <2>1, FlowAssumption
          DEF AutoRetryBudget, RetryCookieCounts, Increment, RetryValues
<1> HIDE DEF n, a
<1> QED BY <1>1, <1>3, <1>5 DEF BudgetInv

\* A login or logout that is done clears the cookie and the counts.
LEMMA ClearedBudget ==
    ASSUME TypeOK, CookiesKept, NEW t \in Tabs, jar'.retry = 0, fails' = 0,
           redirects'[t] = 0, cleared'[t] = 0, sent'[t] = None,
           at'[t] \notin {"loginerror", "logouterror"}
    PROVE  BudgetInv'
<1>1. Allowance(t)' = MaxAutoRetryAttempts
  BY AllowanceGrows
<1> QED BY <1>1, FlowAssumption
        DEF CookiesKept, OneTab, BudgetInv, AutoRetryBudget, RetryCookieCounts

\* Every step of the tab keeps the budget.
LEMMA BudgetTab ==
    ASSUME TypeOK, CookiesKept, BudgetInv, NEW t \in Tabs,
           User(t) \/ Step(t) \/ Fault(t)
    PROVE  BudgetInv'
<1> USE DEF Goto
<1>0. /\ clearLoginCookies(jar) \in Cookies /\ WithSession(jar) \in Cookies
      /\ [WithSession(jar) EXCEPT !.status = TRUE] \in Cookies /\ jar \in Cookies
  BY CookieTypes DEF TypeOK, StateTypes
<1>1. ASSUME NEW w, NEW p, NEW wanted, Goto(t, w, p), Visit(t, wanted),
             w \notin {"loginerror", "logouterror"}
      PROVE  BudgetInv'
  <2>1. /\ jar' = jar /\ fails' = fails /\ redirects'[t] = 0 /\ sent'[t] = None
        /\ at'[t] = w /\ \A u \in Tabs : u = t
        /\ Allowance(t)' = MaxAutoRetryAttempts
    BY <1>1, AllowanceGrows
       DEF Visit, StartCount, TypeOK, StateTypes, CookiesKept, OneTab
  <2>2. jar.retry \in Nat
    BY FlowAssumption DEF TypeOK, StateTypes, Cookies, RetryValues
  <2> QED BY <1>1, <2>1, <2>2, FlowAssumption
          DEF BudgetInv, AutoRetryBudget, RetryCookieCounts
<1>2. CASE User(t)
  <2> HIDE DEF Goto
  <2>1. ASSUME NEW p \in Pages, Open(t, p) PROVE BudgetInv'
    BY <1>1, <2>1 DEF Open
  <2>2. ASSUME NEW r \in LogoutRoutes, LogOut(t, r) PROVE BudgetInv'
    <3>1. r \notin {"loginerror", "logouterror"}
      BY FlowAssumption
    <3> QED BY <1>1, <2>2, <3>1 DEF LogOut
  <2>3. CASE RetryLink(t)
    <3>1. PICK w \in {"login", "logout"} : Goto(t, w, page[t])
      BY <2>3 DEF RetryLink
    <3> QED BY <1>1, <2>3, <3>1 DEF RetryLink
  <2> QED BY <1>2, <2>1, <2>2, <2>3 DEF User
<1>3. ASSUME NEW c \in Cookies, respondError(t, c),
             sent[t] # None \/ at[t] \in Handling
      PROVE  BudgetInv'
  <2>1. sent[t] \in Cookies
    BY <1>3, SentType
  <2>2. sent[t] # None
    BY <2>1, NoneAssumption
  <2> QED BY <1>3, <2>1, <2>2, respondErrorBudget
<1>4. ASSUME NEW c \in Cookies, Welcome(t, c) PROVE BudgetInv'
  <2>1. jar'.retry = 0
    <3>1. [c EXCEPT !.retry = 0] \in Cookies /\ [c EXCEPT !.retry = 0].retry = 0
      BY FlowAssumption DEF Cookies, RetryValues
    <3> QED BY <1>4, <3>1, AcceptKeeps DEF Welcome, CookiesKept
  <2> QED BY <1>4, <2>1, ClearedBudget DEF Welcome, StartCount, TypeOK, StateTypes
<1>5. CASE LogoutCallback(t)
  <2>1. jar'.retry = 0
    <3>1. [jar EXCEPT !.retry = 0] \in Cookies /\ [jar EXCEPT !.retry = 0].retry = 0
      BY <1>0, FlowAssumption DEF Cookies, RetryValues
    <3> QED BY <1>5, <3>1, AcceptKeeps DEF LogoutCallback, CookiesKept
  <2> QED BY <1>5, <2>1, ClearedBudget
          DEF LogoutCallback, StartCount, LogoutLandsAt, TypeOK, StateTypes
<1>6. ASSUME NEW found \in BOOLEAN, Logout(t, found) PROVE BudgetInv'
  <2>1. jar'.retry = jar.retry
    <3> DEFINE c == [jar EXCEPT !.session = FALSE]
    <3>1. c \in Cookies /\ c.retry = jar.retry
      BY <1>0 DEF Cookies
    <3> HIDE DEF c
    <3>2. ClearCookie(c) \in Cookies /\ ClearCookie(c).retry = c.retry
      BY <3>1, CookieTypes DEF ClearCookie, Cookies
    <3>3. jar' = Accept(IF LoginstatusEnabled THEN ClearCookie(c) ELSE c)
      BY <1>6 DEF Logout, c
    <3> QED BY <3>1, <3>2, <3>3, AcceptKeeps DEF CookiesKept
  <2>2. QuietStep
    BY <1>6, <2>1 DEF Logout, QuietStep, TypeOK, StateTypes
  <2> QED BY <2>2, QuietBudget
<1>7. ASSUME NEW n \in Attempts, Login(t, n) PROVE BudgetInv'
  <2>1. jar'.retry = jar.retry
    <3> DEFINE l == NewLogin(t, n)
               c == [jar EXCEPT !.login = l, !.legacy = l]
    <3>1. l \in LoginCookie
      BY FlowAssumption
         DEF NewLogin, LoginCookie, CanonicalRedirect, TypeOK, StateTypes
    <3>2. c \in Cookies /\ c.retry = jar.retry
      BY <1>0, <3>1, CookieTypes DEF Cookies
    <3> QED BY <1>7, <3>2, AcceptKeeps DEF Login, CookiesKept
  <2>2. QuietStep
    BY <1>7, <2>1 DEF Login, QuietStep, TypeOK, StateTypes
  <2> QED BY <2>2, QuietBudget
<1>8. CASE \/ Send(t) \/ EndSession(t) \/ Redeem(t)
           \/ \E found \in BOOLEAN : ReverseProxy(t, found)
           \/ \E ok \in BOOLEAN : Authorize(t, ok)
           \/ Create(t) /\ LoginstatusEnabled
           \/ Arrived(t, "callback") /\ at' = [at EXCEPT ![t] = "redeem"]
              /\ UNCHANGED <<jar, sent, redirects, cleared, fails>>
           \/ UNCHANGED <<jar, tabVars, redirects, cleared, fails>>
  <2>1. QuietStep
    BY <1>8 DEF Send, EndSession, Redeem, ReverseProxy, Authorize, Create, QuietStep,
                tabVars, TypeOK, StateTypes
  <2> QED BY <2>1, QuietBudget
<1>9. CASE Step(t)
  BY <1>0, <1>3, <1>4, <1>5, <1>6, <1>7, <1>8, <1>9
     DEF Step, Callback, Arrived, RedeemRefused, Create, ExchangeToken, Handling
<1>10. CASE Fault(t)
  BY <1>0, <1>3, <1>8, <1>10
     DEF Fault, LoginFails, Arrived, ExchangeFails, LogoutFails, RedeemFails,
         CreateFails, Handling
<1> QED BY <1>2, <1>9, <1>10

\* A front-channel logout that clears the cookie raises the allowance by as much
\* as the cookie may have counted; nothing else outside the tabs touches it.
LEMMA BudgetElsewhere ==
    ASSUME TypeOK, CookiesKept, BudgetInv, Elsewhere
    PROVE  BudgetInv'
<1>0. jar \in Cookies
  BY DEF TypeOK, StateTypes
<1>1. ASSUME NEW found \in BOOLEAN, NEW apart \in BOOLEAN, FrontChannel(found, apart)
      PROVE  BudgetInv'
  <2> DEFINE c == [jar EXCEPT !.session = FALSE, !.retry = IF found THEN 0 ELSE @]
  <2>1. c \in Cookies /\ c.retry = IF found THEN 0 ELSE jar.retry
    <3>1. 0 \in RetryValues
      BY FlowAssumption DEF RetryValues
    <3> QED BY <1>0, <3>1 DEF Cookies
  <2>2. jar' = IF apart THEN jar
               ELSE Accept(IF LoginstatusEnabled THEN ClearCookie(c) ELSE c)
    BY <1>1 DEF FrontChannel
  <2> HIDE DEF c
  <2>3. ClearCookie(c) \in Cookies /\ ClearCookie(c).retry = c.retry
    BY <2>1, CookieTypes DEF ClearCookie, Cookies
  <2>4. jar'.retry = IF found /\ ~apart THEN 0 ELSE jar.retry
    BY <2>1, <2>2, <2>3, AcceptKeeps DEF CookiesKept
  <2>5. /\ IF found /\ ~apart THEN \A t \in Tabs : cleared'[t] = cleared[t] + 1
           ELSE cleared' = cleared
        /\ UNCHANGED <<at, sent, redirects, fails>>
    BY <1>1 DEF FrontChannel, tabVars
  <2>6. /\ fails \in Nat /\ jar.retry \in Nat
        /\ \A t \in Tabs : sent[t] # None => sent[t].retry \in Nat
        /\ \A t \in Tabs : redirects[t] \in Nat /\ Allowance(t) \in Nat
    BY AllowanceGrows, FlowAssumption DEF TypeOK, StateTypes, Cookies, RetryValues
  <2>7. \A t \in Tabs : Allowance(t)' = IF found /\ ~apart
                                        THEN Allowance(t) + MaxAutoRetryAttempts
                                        ELSE Allowance(t)
    BY <2>5, AllowanceGrows
  <2> QED BY <2>4, <2>5, <2>6, <2>7, FlowAssumption
          DEF BudgetInv, AutoRetryBudget, RetryCookieCounts
<1>2. CASE Expire
  BY <1>2, QuietBudget DEF Expire, tabVars, QuietStep
<1>3. ASSUME NEW name \in {"login", "session", "status"}, ExpireCookie(name)
      PROVE  BudgetInv'
  <2>1. jar'.retry = jar.retry
    BY <1>0, <1>3 DEF ExpireCookie, clearLoginCookies, Cookies
  <2> QED BY <1>3, <2>1, QuietBudget DEF ExpireCookie, tabVars, QuietStep
<1> QED BY <1>1, <1>2, <1>3 DEF Elsewhere

\* error.go: in a browser that keeps cookies, one login or logout of a single tab
\* is retried at most MaxAutoRetryAttempts times, and as many times again for each
\* front-channel logout meanwhile that deleted the retry cookie; and the tab shows
\* an error only after more errors than MaxAutoRetryAttempts.
THEOREM RetriesBounded == Spec => [](CookiesKept => AutoRetryBudget)
<1>1. Init => BudgetInv
  BY FlowAssumption
     DEF Init, BudgetInv, AutoRetryBudget, RetryCookieCounts, Allowance, NoCookies
<1>2. TypeOK /\ (CookiesKept => BudgetInv) /\ [Next]_vars
        => (CookiesKept => BudgetInv')
  <2>1. ASSUME TypeOK, BudgetInv, UNCHANGED vars
        PROVE  BudgetInv'
    BY <2>1, QuietBudget DEF vars, QuietStep
  <2> QED BY <2>1, BudgetTab, BudgetElsewhere DEF Next, Idle
<1>3. BudgetInv => AutoRetryBudget
  BY DEF BudgetInv
<1>4. CookiesKept' <=> CookiesKept
  BY DEF CookiesKept, OneTab
<1> QED BY <1>1, <1>2, <1>3, <1>4, TypeCorrect, PTL DEF Spec

-----------------------------------------------------------------------------
(***************************************************************************)
(* Where a login ends.                                                     *)
(***************************************************************************)
\* No login is refused or left lying until its cookie expires, and errors are
\* shown where they happen.
LoginKept ==
    /\ CookiesKept /\ ErrorPath = None
    /\ "login" \notin Faults /\ "slowlogin" \notin Faults

LeadsTo(c, p) == /\ c.legacy # None /\ c.legacy.referer = p
                 /\ c.login \in {c.legacy, None}

\* The page that the user asked for is that of the tab, and of the login cookie
\* from the login endpoint to the end of the callback.
OnTheWay ==
    \A t \in Tabs : want[t] \in Pages =>
        /\ at[t] \notin {"logout", "logoutlocal", "endsession", "logoutcallback",
                         "logouterror"}
        /\ page[t] = want[t]
        /\ at[t] = "idp" \/ (at[t] = "callback" /\ sent[t] = None)
              => LeadsTo(jar, want[t])
        /\ at[t] \in {"callback"} \cup Handling /\ sent[t] # None
              => LeadsTo(sent[t], want[t])

\* The handler goes by that page, whichever of the two cookies the browser kept.
LEMMA LeadsToPage ==
    ASSUME NEW c, NEW p, LeadsTo(c, p)
    PROVE  GetLoginCookie(c) # None /\ GetLoginCookie(c).referer = p
  BY DEF LeadsTo, GetLoginCookie

\* What the tab becomes when it goes to a place where no login is pending.
LEMMA GotoLands ==
    ASSUME TypeOK, OneTab, NEW t \in Tabs, NEW w, NEW p, Goto(t, w, p),
           want'[t] \in Pages => p = want'[t],
           w \in {"rest", "app", "login", "loginerror"}
    PROVE  OnTheWay'
  BY DEF Goto, OneTab, OnTheWay, TypeOK, StateTypes, Handling

\* A tab that is no longer after a page, or was not, is on no way to one.
LEMMA LogoutLands ==
    ASSUME OneTab, NEW t \in Tabs, want'[t] \notin Pages
    PROVE  OnTheWay'
  BY DEF OneTab, OnTheWay

\* The error handler retries with the page of the login cookie.
LEMMA respondErrorLands ==
    ASSUME TypeOK, LoginKept, OnTheWay, NEW t \in Tabs, NEW c, respondError(t, c),
           at[t] \in {"callback", "logout", "logoutlocal"} \cup Handling,
           sent[t] # None
    PROVE  OnTheWay'
<1>1. UNCHANGED want
  BY DEF respondError
<1>2. CASE want[t] \notin Pages
  BY <1>1, <1>2, LogoutLands DEF LoginKept, CookiesKept
<1>3. CASE want[t] \in Pages
  <2>1. at[t] \in {"callback"} \cup Handling /\ LeadsTo(sent[t], want[t])
    BY <1>3 DEF OnTheWay
  <2>2. Retry(t).route = "login" /\ Retry(t).target = want[t]
    BY <2>1, LeadsToPage DEF Retry, Handling
  <2>3. PICK w \in {"login", "loginerror"} : Goto(t, w, want[t])
    BY <2>2 DEF respondError, LoginKept
  <2> QED BY <1>1, <2>3, GotoLands DEF LoginKept, CookiesKept
<1> QED BY <1>2, <1>3

\* Every step of the tab keeps it on its way.
LEMMA LandsTab ==
    ASSUME TypeOK, LoginKept, OnTheWay, NEW t \in Tabs,
           User(t) \/ Step(t) \/ Fault(t)
    PROVE  OnTheWay'
<1>0. OneTab /\ Browser # "nocookies" /\ \A u \in Tabs : u = t
  BY DEF LoginKept, CookiesKept, OneTab
<1>1. ASSUME NEW p \in Pages, Open(t, p) PROVE OnTheWay'
  BY <1>0, <1>1, GotoLands DEF Open, Visit, TypeOK, StateTypes
<1>2. ASSUME NEW r \in LogoutRoutes, LogOut(t, r) PROVE OnTheWay'
  <2>1. want'[t] = r
    BY <1>2 DEF LogOut, Visit, TypeOK, StateTypes
  <2> QED BY <1>0, <2>1, LogoutLands, FlowAssumption
<1>3. CASE RetryLink(t)
  <2>1. want'[t] = want[t]
    BY <1>3 DEF RetryLink, Visit, TypeOK, StateTypes
  <2>2. CASE want[t] \notin Pages
    BY <1>0, <2>1, <2>2, LogoutLands
  <2>3. CASE want[t] \in Pages
    BY <1>0, <1>3, <2>1, <2>3, GotoLands DEF RetryLink, OnTheWay
  <2> QED BY <2>2, <2>3
<1>4. CASE Send(t)
  BY <1>0, <1>4 DEF Send, Requests, Handling, OnTheWay, LeadsTo, TypeOK, StateTypes
<1>5. ASSUME NEW found \in BOOLEAN, ReverseProxy(t, found) PROVE OnTheWay'
  BY <1>0, <1>5, GotoLands DEF ReverseProxy, OnTheWay
<1>6. ASSUME NEW found \in BOOLEAN, Logout(t, found) PROVE OnTheWay'
  <2>1. want'[t] = want[t] /\ want[t] \notin Pages
    BY <1>6 DEF Logout, OnTheWay
  <2> QED BY <1>0, <2>1, LogoutLands
<1>7. CASE LogoutCallback(t)
  BY <1>0, <1>7, GotoLands DEF LogoutCallback, LogoutLandsAt, TypeOK, StateTypes
<1>8. ASSUME NEW n \in Attempts, Login(t, n) PROVE OnTheWay'
  <2> DEFINE l == NewLogin(t, n)
             c == [jar EXCEPT !.login = l, !.legacy = l]
  <2>1. l \in LoginCookie /\ l.referer = page[t]
    BY <1>8, FlowAssumption
       DEF Login, Arrived, NewLogin, LoginCookie, CanonicalRedirect, TypeOK, StateTypes
  <2>2. c \in Cookies /\ c.login = l /\ c.legacy = l
    <3> HIDE DEF l
    <3> QED BY <2>1 DEF TypeOK, StateTypes, Cookies
  <2>3. jar' = Accept(c)
    BY <1>8 DEF Login
  <2> HIDE DEF c, l
  <2>4. jar'.login \in {l, None} /\ jar'.legacy = l
    BY <1>0, <2>2, <2>3, AcceptKeeps
  <2>5. l # None
    BY <2>1, NoneAssumption
  <2> QED BY <1>0, <1>8, <2>1, <2>4, <2>5
          DEF Login, Goto, Handling, OnTheWay, LeadsTo, TypeOK, StateTypes
<1>9. ASSUME NEW ok \in BOOLEAN, Authorize(t, ok) PROVE OnTheWay'
  BY <1>0, <1>9 DEF Authorize, Goto, Handling, OnTheWay, LeadsTo,
                    TypeOK, StateTypes
<1>10. CASE \/ Redeem(t)
            \/ Create(t) /\ LoginstatusEnabled
            \/ /\ Arrived(t, "callback") /\ at' = [at EXCEPT ![t] = "redeem"]
               /\ UNCHANGED <<jar, page, sent, want>>
  <2>1. /\ at[t] \in {"callback"} \cup Handling /\ sent[t] # None
        /\ at'[t] \in Handling /\ UNCHANGED <<page, sent, want>>
    BY <1>10, NoneAssumption
       DEF Redeem, Create, Arrived, Handling, TypeOK, StateTypes, TabData
  <2> QED BY <1>0, <2>1 DEF Handling, OnTheWay, LeadsTo
<1>11. ASSUME NEW c, Welcome(t, c), at[t] \in Handling PROVE OnTheWay'
  <2>1. sent[t] # None /\ want' = want
    BY <1>11, NoneAssumption DEF Welcome, TypeOK, TabData
  <2>2. want[t] \in Pages => GetLoginCookie(sent[t]).referer = want[t]
    BY <1>11, <2>1, LeadsToPage DEF OnTheWay
  <2> QED BY <1>0, <1>11, <2>1, <2>2, GotoLands DEF Welcome
<1>12. ASSUME NEW c, respondError(t, c),
              at[t] \in {"callback", "logout", "logoutlocal"} \cup Handling,
              at[t] \in Handling \/ sent[t] # None
       PROVE  OnTheWay'
  <2>1. sent[t] # None
    BY <1>12, NoneAssumption DEF TypeOK, TabData
  <2> QED BY <1>12, <2>1, respondErrorLands
<1>13. CASE UNCHANGED <<jar, tabVars, want>>
  BY <1>13 DEF tabVars, OnTheWay, LeadsTo
<1>14. CASE User(t)
  BY <1>1, <1>2, <1>3, <1>14 DEF User
<1>15. CASE Step(t)
  <2>1. CASE EndSession(t)
    BY <1>0, <2>1, LogoutLands DEF EndSession, OnTheWay
  <2> QED
    BY <1>4, <1>5, <1>6, <1>7, <1>8, <1>9, <1>10, <1>11, <1>12, <1>15, <2>1
       DEF Step, Callback, Arrived, RedeemRefused, Create, ExchangeToken, Handling
<1>16. CASE Fault(t)
  BY <1>9, <1>12, <1>13, <1>16
     DEF Fault, LoginKept, LoginFails, ExchangeFails, LogoutFails, RedeemFails,
         CreateFails, Handling
<1> QED BY <1>14, <1>15, <1>16

\* Nothing outside the tab takes its login cookie away.
LEMMA LandsElsewhere ==
    ASSUME TypeOK, LoginKept, OnTheWay, Elsewhere
    PROVE  OnTheWay'
<1>0. jar \in Cookies
  BY DEF TypeOK, StateTypes
<1>1. UNCHANGED <<at, page, sent, want>>
  BY DEF Elsewhere, FrontChannel, Expire, ExpireCookie, tabVars
<1>2. ASSUME jar'.legacy = jar.legacy, jar'.login \in {jar.login, None}
      PROVE  OnTheWay'
  BY <1>1, <1>2 DEF OnTheWay, LeadsTo
<1>3. ASSUME NEW found \in BOOLEAN, NEW apart \in BOOLEAN, FrontChannel(found, apart)
      PROVE  OnTheWay'
  <2> DEFINE c == [jar EXCEPT !.session = FALSE, !.retry = IF found THEN 0 ELSE @]
  <2>1. c \in Cookies /\ c.login = jar.login /\ c.legacy = jar.legacy
    <3>1. 0 \in RetryValues
      BY FlowAssumption DEF RetryValues
    <3> QED BY <1>0, <3>1 DEF Cookies
  <2>2. jar' = IF apart THEN jar
               ELSE Accept(IF LoginstatusEnabled THEN ClearCookie(c) ELSE c)
    BY <1>3 DEF FrontChannel
  <2> HIDE DEF c
  <2>3. /\ ClearCookie(c) \in Cookies
        /\ ClearCookie(c).login = c.login /\ ClearCookie(c).legacy = c.legacy
    BY <2>1, CookieTypes DEF ClearCookie, Cookies
  <2> QED BY <1>2, <2>1, <2>2, <2>3, AcceptKeeps DEF LoginKept, CookiesKept
<1>4. CASE Expire
  BY <1>2, <1>4 DEF Expire
<1>5. ASSUME NEW name \in {"login", "session", "status"}, ExpireCookie(name)
      PROVE  OnTheWay'
  <2>1. name \in {"session", "status"} /\ jar' = [jar EXCEPT ![name] = FALSE]
    BY <1>5 DEF ExpireCookie, LoginKept
  <2>2. jar'.legacy = jar.legacy /\ jar'.login = jar.login
    BY <1>0, <2>1 DEF Cookies
  <2> QED BY <1>2, <2>2
<1> QED BY <1>3, <1>4, <1>5 DEF Elsewhere

\* error.go, respondError: in a single tab of a browser that keeps cookies, no
\* login ends on another page than the one that the user asked for, however
\* many callbacks fail on the way and are retried.
THEOREM LandsOnPage == Spec => [](LoginKept => LandsWhereAsked)
<1>1. Init => OnTheWay
  BY FlowAssumption DEF Init, OnTheWay, Handling
<1>2. TypeOK /\ (LoginKept => OnTheWay) /\ [Next]_vars => (LoginKept => OnTheWay')
  <2>1. ASSUME OnTheWay, UNCHANGED vars
        PROVE  OnTheWay'
    BY <2>1 DEF vars, OnTheWay, LeadsTo
  <2> QED BY <2>1, LandsTab, LandsElsewhere DEF Next, Idle
<1>3. OnTheWay => LandsWhereAsked
  BY DEF OnTheWay, LandsWhereAsked
<1>4. LoginKept' <=> LoginKept
  BY DEF LoginKept, CookiesKept, OneTab
<1> QED BY <1>1, <1>2, <1>3, <1>4, TypeCorrect, PTL DEF Spec
=============================================================================
