--------------------------- MODULE MCSessionHandler ---------------------------
(* Instances of SessionHandler: the requests of a run are the fields of a    *)
(* record that says what each of them is.                                    *)
EXTENDS SessionRefinement

\* Two tabs, a manual refresh and a logout on one session.
KindTabs == [login |-> "login", proxy1 |-> "proxy", proxy2 |-> "proxy",
             refresh |-> "refresh", logout |-> "logout"]
ReqsTabs == DOMAIN KindTabs

\* A second login with the same sid while the first session is in use.
KindRelogin == [login1 |-> "login", login2 |-> "login", proxy |-> "proxy",
                refresh |-> "refresh"]
ReqsRelogin == DOMAIN KindRelogin

\* A proxied request and a manual refresh, that anything may happen to.
KindPair == [login |-> "login", proxy |-> "proxy", refresh |-> "refresh"]
ReqsPair == DOMAIN KindPair

\* Two logins of one SSO session that the provider ends twice, and the
\* endpoints that look at it.
KindEnds == [login1 |-> "login", login2 |-> "login",
             info |-> "info", refresh |-> "refresh",
             front1 |-> "frontchannel", front2 |-> "frontchannel"]
ReqsEnds == DOMAIN KindEnds

\* A proxied request, a manual refresh and a logout.
KindTrio == [login |-> "login", proxy |-> "proxy", refresh |-> "refresh",
             logout |-> "logout"]
ReqsTrio == DOMAIN KindTrio

\* One refresh and one logout.
KindRace == [login |-> "login", refresh |-> "refresh", logout |-> "logout"]
ReqsRace == DOMAIN KindRace
=============================================================================
