------------------------------- MODULE Routing -------------------------------
(***************************************************************************)
(* Ingresses, URLs and the paths of cookies: pkg/ingress, the ingress      *)
(* middleware, pkg/handler/url, the router and the path of pkg/cookie, as  *)
(* a browser meets them that visits pages under several ingresses, is sent *)
(* to log in by auto-login, and logs out.                                  *)
(*                                                                         *)
(* A path is the sequence of its segments.  Prefixes of strings cut a      *)
(* segment anywhere: Extends says which segments begin with which others.  *)
(* Neither store nor provider fails and nothing expires, and whether an    *)
(* error is retried by a redirect is left open: see LoginFlow and          *)
(* SessionHandler.                                                         *)
(***************************************************************************)
EXTENDS Naturals, FiniteSets, SequencesExt

CONSTANTS
    Configs,    \* values of the ingress option: sets of URLs
    Pages,      \* pages of the application: [host, path]
    Extends,    \* <<s, t>>: the segment t begins with s and goes on
    Internal,   \* the host the ingress controller forwards requests to
    None,
    MaxVisits,  \* bound on what the user does
    MaxLogins   \* logins in a row after which the user is in a loop

Endpoints == {"login", "callback", "logout/local"}

Segments == {"oauth2"} \cup Endpoints
                \cup UNION {Range(u.path) : u \in Pages \cup UNION Configs}

ASSUME RoutingAssumption ==
    /\ \A p \in Pages : p.path \in Seq(Segments) /\ "oauth2" \notin Range(p.path)
    /\ \A c \in Configs : IsFiniteSet(c)
    /\ \A u \in UNION Configs : /\ u.host # Internal
                                /\ u.path \in Seq(Segments) /\ "oauth2" \notin Range(u.path)
    /\ MaxVisits \in Nat /\ MaxLogins \in Nat \ {0}

\* What of strings matters here: beginning with another one is a strict order,
\* and of two strings that a third begins with, one begins with the other.
ASSUME ExtendsAssumption ==
    \A e, f \in Extends :
        /\ e[2] = f[1] => e[1] # f[2] /\ <<e[1], f[2]>> \in Extends
        /\ e[2] = f[2] => e[1] = f[1] \/ {<<e[1], f[1]>>, <<f[1], e[1]>>} \cap Extends # {}

\* The targets of redirects and the values of login cookies.
AllTargets == {p.path : p \in Pages} \cup {u.path : u \in UNION Configs} \cup {<<>>}
LoginCookie == [state : (0 .. MaxVisits) \X (0 .. MaxLogins), referer : AllTargets]

ASSUME NoneAssumption ==
    None \notin Pages /\ None \notin AllTargets /\ None \notin LoginCookie

VARIABLES
    ingresses,  \* Ingresses, parsed
    forwarded,  \* whether the host is in X-Forwarded-Host
    page,       \* the page the user asked for
    url,        \* the request of the browser: [scheme, host, path, redirect]
    state,      \* the state parameter of a callback
    at,         \* "rest", "request" or "provider"
    jar,        \* cookies: [name, host, path, value], a login cookie's value
                \*   is [state, referer]
    sessions,   \* keys in the session store
    result,     \* how the visit ended
    logins,     \* logins since the user asked for the page
    visits      \* what the user has done

vars == <<ingresses, forwarded, page, url, state, at, jar, sessions, result,
          logins, visits>>

-----------------------------------------------------------------------------
(***************************************************************************)
(* Strings: path p begins with path q.                                     *)
(***************************************************************************)
\* strings.HasPrefix
HasPrefix(p, q) ==
    /\ Len(q) <= Len(p)
    /\ \A i \in 1 .. Len(q) :
          p[i] = q[i] \/ (i = Len(q) /\ <<q[i], p[i]>> \in Extends)

\* RFC 6265, 5.1.4, and the rules of ingress controllers: whole segments.
Under(p, q) == IsPrefix(q, p)

(***************************************************************************)
(* pkg/ingress.                                                            *)
(***************************************************************************)
\* None is the error; a trailing slash of the path is dropped.
ParseIngress(u) ==
    IF u.host = None \/ u.scheme \notin {"http", "https"} THEN None
    ELSE [scheme |-> u.scheme, host |-> u.host, path |-> u.path]

Parsed(config) == {ParseIngress(u) : u \in config}

Paths == {i.path : i \in ingresses}

\* Mutant: whichever prefix the iteration meets last.
MatchingPathAny(path) ==
    IF \E p \in Paths : HasPrefix(path, p)
    THEN CHOOSE p \in Paths : HasPrefix(path, p) ELSE <<>>

\* The longest path of any ingress that the path of the request begins with.
\* Of two such paths one begins with the other.
MatchingPath(path) ==
    LET match == {p \in Paths : HasPrefix(path, p)}
    IN  IF match = {} THEN <<>>
        ELSE CHOOSE p \in match : \A q \in match : HasPrefix(p, q)

\* r.Host and the header
RequestHosts(r) == IF forwarded THEN {Internal, r.host} ELSE {r.host}

\* The iteration order of a map decides among several.
MatchingIngress(r) ==
    {i \in ingresses : i.host \in RequestHosts(r) /\ i.path = MatchingPath(r.path)}

(***************************************************************************)
(* pkg/router and pkg/handler/url.                                         *)
(***************************************************************************)
Route(prefix, endpoint) == prefix \o <<"oauth2", endpoint>>

\* chi registers the endpoints under the path of every ingress; all other
\* requests go to the reverse proxy.  Other paths below an ingress's oauth2, which
\* the subrouter answers with 404, are neither pages nor redirect targets here.
Endpoint(path) ==
    IF \E prefix \in Paths : path = Route(prefix, "login") THEN "login"
    ELSE IF \E prefix \in Paths : path = Route(prefix, "callback") THEN "callback"
    ELSE IF \E prefix \in Paths : path = Route(prefix, "logout/local") THEN "logout"
    ELSE "app"

URLOf(scheme, host, path, redirect) ==
    [scheme |-> scheme, host |-> host, path |-> path, redirect |-> redirect]

\* A redirect without scheme and host stays where the request was.
LoginURL(r, target) ==
    URLOf(r.scheme, r.host, Route(MatchingPath(r.path), "login"), target)

\* Mutant: no default.
CanonicalRedirectNoDefault(r) == r.redirect

CanonicalRedirect(r) ==
    IF r.redirect # None THEN r.redirect ELSE MatchingPath(r.path)

makeCallbackURL(match) ==
    URLOf(match.scheme, match.host, Route(match.path, "callback"), None)

(***************************************************************************)
(* pkg/cookie and the browser: cookies belong to a host and a path, and    *)
(* all of them are Secure.                                                 *)
(***************************************************************************)
\* Mutant: cookies are set for the whole host.
CookiePathRoot(r) == <<>>

\* GetCookieOptsPathAware; no path becomes "/".
CookiePath(r) == MatchingPath(r.path)

Drop(cookies, name, r, path) ==
    {c \in cookies : ~(c.name = name /\ c.host = r.host /\ c.path = path)}

\* Secure is set: browsers ignore such cookies of http responses.
SetCookie(cookies, name, r, value) ==
    IF r.scheme = "http" THEN cookies
    ELSE Drop(cookies, name, r, CookiePath(r)) \cup
            {[name |-> name, host |-> r.host, path |-> CookiePath(r), value |-> value]}

\* Mutant: cookies are cleared for the whole host.
ClearCookieRoot(cookies, name, r) == Drop(cookies, name, r, <<>>)

ClearCookie(cookies, name, r) ==
    IF r.scheme = "http" THEN cookies ELSE Drop(cookies, name, r, CookiePath(r))

Sent(name, r) ==
    {c \in jar : /\ c.name = name /\ c.host = r.host
                 /\ Under(r.path, c.path) /\ r.scheme = "https"}

\* Browsers send cookies with longer paths first, and r.Cookie takes the first.
Cookie(name, r) ==
    LET sent == Sent(name, r)
    IN  IF sent = {} THEN None
        ELSE (CHOOSE c \in sent : \A d \in sent : Len(d.path) <= Len(c.path)).value

\* Mutant: every login gets an ID of its own.
SessionIDGenerated(n) == n

\* IDOrGenerate, with a provider whose id_tokens have a sid.
SessionID(n) == "sid"

-----------------------------------------------------------------------------
(***************************************************************************)
(* The user and the browser.                                               *)
(***************************************************************************)
\* The ingress controller forwards what is under an ingress.
Routed(p) == \E i \in ingresses : i.host = p.host /\ Under(p.path, i.path)

\* The most specific ingress path of the page's host.
MostSpecific(p) ==
    LET match == {i.path : i \in {j \in ingresses : j.host = p.host
                                                    /\ Under(p.path, j.path)}}
    IN  CHOOSE q \in match : \A o \in match : Under(q, o)

Init ==
    /\ \E config \in Configs :
          /\ config # {} /\ None \notin Parsed(config)
          /\ ingresses = Parsed(config)
    /\ forwarded \in BOOLEAN
    /\ page = None /\ url = None /\ state = None /\ at = "rest"
    /\ jar = {} /\ sessions = {} /\ result = "none"
    /\ logins = 0 /\ visits = 0

Ask(p, path) ==
    /\ at = "rest" /\ visits < MaxVisits /\ Routed(p)
    /\ visits' = visits + 1 /\ logins' = 0 /\ result' = "none"
    /\ page' = p
    /\ url' = URLOf("https", p.host, path, None)
    /\ at' = "request"
    /\ UNCHANGED <<ingresses, forwarded, state, jar, sessions>>

Visit(p) == Ask(p, p.path)

LogOut(p) == Ask(p, Route(MostSpecific(p), "logout/local"))

\* The browser follows a redirect.
Redirect(to) == url' = to /\ at' = "request" /\ UNCHANGED result

Show(how) == result' = how /\ at' = "rest" /\ UNCHANGED url

-----------------------------------------------------------------------------
(***************************************************************************)
(* The handlers.                                                           *)
(***************************************************************************)
Arrived(endpoint) == at = "request" /\ Endpoint(url.path) = endpoint

\* The login endpoint, also for /oauth2/logout/local.
Retry(r) ==
    LET cookie == Cookie("login", r)
    IN  LoginURL(r, IF cookie # None THEN cookie.referer ELSE CanonicalRedirect(r))

\* Retried or not.
respondError == Show("failed") \/ (logins < MaxLogins /\ Redirect(Retry(url)))

\* The reverse proxy, with auto-login on.
ReverseProxy ==
    /\ Arrived("app")
    /\ \/ Cookie("session", url) \in sessions /\ Show("served")
       \/ /\ Cookie("session", url) \notin sessions /\ logins < MaxLogins
          /\ Redirect(LoginURL(url, url.path))
       \/ /\ Cookie("session", url) \notin sessions /\ logins = MaxLogins
          /\ Show("loop")
    /\ UNCHANGED <<ingresses, forwarded, page, state, jar, sessions, logins, visits>>

\* Without a matching ingress there is no callback URL.
Login ==
    /\ Arrived("login")
    /\ \/ /\ MatchingIngress(url) = {} /\ respondError
          /\ UNCHANGED <<state, jar, logins>>
       \/ \E match \in MatchingIngress(url) :
          /\ logins < MaxLogins
          /\ url' = makeCallbackURL(match) /\ at' = "provider"
          /\ logins' = logins + 1
          /\ state' = <<visits, logins'>>
          /\ jar' = SetCookie(jar, "login", url,
                             [state |-> state', referer |-> CanonicalRedirect(url)])
          /\ UNCHANGED result
    /\ UNCHANGED <<ingresses, forwarded, page, sessions, visits>>

Authorize ==
    /\ at = "provider" /\ Redirect(url)
    /\ UNCHANGED <<ingresses, forwarded, page, state, jar, sessions, logins, visits>>

Callback ==
    /\ Arrived("callback")
    /\ LET cleared == ClearCookie(jar, "login", url)
           cookie == Cookie("login", url)
           match == cookie # None /\ cookie.state = state
       IN  \/ /\ ~match /\ respondError
              /\ jar' = cleared
              /\ UNCHANGED sessions
           \/ /\ match
              /\ sessions' = sessions \cup {SessionID(state)}
              /\ jar' = SetCookie(cleared, "session", url, SessionID(state))
              /\ Redirect(URLOf(url.scheme, url.host, cookie.referer, None))
    /\ state' = None
    /\ UNCHANGED <<ingresses, forwarded, page, logins, visits>>

\* Needs the URL of a logout callback first.
Logout ==
    /\ Arrived("logout")
    /\ \/ /\ MatchingIngress(url) = {} /\ respondError
          /\ UNCHANGED <<jar, sessions>>
       \/ /\ MatchingIngress(url) # {} /\ Show("loggedout")
          /\ sessions' = sessions \ {Cookie("session", url)}
          /\ jar' = ClearCookie(jar, "session", url)
    /\ UNCHANGED <<ingresses, forwarded, page, state, logins, visits>>

Rested == at = "rest" /\ visits = MaxVisits /\ UNCHANGED vars

Next ==
    \/ \E p \in Pages : Visit(p) \/ LogOut(p)
    \/ ReverseProxy \/ Login \/ Authorize \/ Callback \/ Logout
    \/ Rested

Spec == Init /\ [][Next]_vars

-----------------------------------------------------------------------------
(***************************************************************************)
(* Properties.                                                             *)
(***************************************************************************)
Targets == {p.path : p \in Pages} \cup Paths \cup {<<>>}

\* Cookies are set for the paths of ingresses only, and redirects of the login
\* flow go to pages asked for and to the paths of ingresses; the login endpoint
\* is always given a target.
TypeOK ==
    /\ forwarded \in BOOLEAN /\ at \in {"rest", "request", "provider"}
    /\ page \in Pages \cup {None}
    /\ url # None => /\ url.scheme \in {"http", "https"}
                     /\ url.host \in {p.host : p \in Pages} \cup {i.host : i \in ingresses}
                     /\ url.redirect \in Targets \cup
                            IF Endpoint(url.path) = "login" THEN {} ELSE {None}
    /\ \A c \in jar : /\ c.path \in Paths \cup {<<>>}
                      /\ c.name = "login" => c.value.referer \in Targets
    /\ result \in {"none", "served", "loop", "failed", "loggedout"}
    /\ logins \in 0 .. MaxLogins /\ visits \in 0 .. MaxVisits

\* Of the ingress paths, also those of other hosts, that the page's path and
\* the endpoints under its own ingress begin with as strings, the path of its
\* own ingress is the longest, and no other ingress has the same host and path.
Plain(p) ==
    LET own == MostSpecific(p)
        endpoints == {Route(own, e) : e \in Endpoints}
    IN  /\ \A path \in {p.path} \cup endpoints, q \in Paths :
              HasPrefix(path, q) => HasPrefix(own, q)
        /\ {i.scheme : i \in {j \in ingresses : j.host = p.host /\ j.path = own}} = {"https"}

\* Under every set of ingresses, nested or on several hosts, and whatever
\* cookies earlier visits have left, auto-login brings the user to the page
\* asked for after one login at most, and a logout succeeds, unless string
\* prefixes, paths of other hosts or a second scheme confuse MatchingPath and
\* MatchingIngress about this very page.
LoginSucceeds ==
    at = "rest" /\ page # None /\ Plain(page) =>
        \/ result = "served" /\ url.path = page.path /\ logins <= 1
        \/ result = "loggedout"

\* README, Usage: "cookies are set for the most specific subdomain and path".
\* The session cookie of a login is on the path of the page's ingress, so that
\* other ingresses of the host do not get it.
CookieOnMostSpecificPath ==
    result = "served" /\ logins > 0 /\ Plain(page) =>
        \E c \in jar : /\ c.name = "session" /\ c.host = page.host
                       /\ c.path = MostSpecific(page)

\* logincallback.go: "unconditionally clear login cookie".  The callback clears
\* it on the path that the login endpoint has set it for: a login that succeeds
\* leaves none of its own behind to meet a later one.
LoginCookieCleared ==
    result = "served" /\ Plain(page) =>
        \A c \in jar : c.name = "login" => c.value.state[1] # visits

\* A logout ends the session for the page it was asked on, also when logins
\* under nested ingresses have left several session cookies that reach it: they
\* all name the session of the sid.
LogoutReachesAllCookies ==
    result = "loggedout" =>
        \A c \in jar : /\ c.name = "session" /\ c.host = page.host
                       /\ Under(page.path, c.path)
                       => c.value \notin sessions
=============================================================================
