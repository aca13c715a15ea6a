--------------------------- MODULE SessionLifecycle ---------------------------
(***************************************************************************)
(* One session as its user sees it: the operations of pkg/session/handler  *)
(* on its metadata, each as one atomic step, with the client that polls    *)
(* GET /oauth2/session and remembers the last answer.  Stores, locks and   *)
(* failures are in SessionHandler; here the subject is time: what the      *)
(* metadata announces, and what the refresh decisions then do.             *)
(***************************************************************************)
EXTENDS SessionData

CONSTANTS
    TokenLifetimes,      \* expires_in values the provider may answer with
    Horizon              \* bound on the clock

ASSUME LifecycleAssumption ==
    /\ TokenLifetimes \subseteq Int
    /\ Horizon \in Nat

VARIABLES
    clock,    \* time.Now()
    md,       \* the metadata of the stored session
    report    \* the last metadata shown to the client since the last renewal

vars == <<clock, md, report>>

(***************************************************************************)
(* A report keeps the instant it was made and the refresh fields of the    *)
(* JSON object; at = ZeroTime means that the client has not asked yet.     *)
(***************************************************************************)
Report == [at : Int, nextAutoRefresh : Int, refreshCooldown : BOOLEAN,
           cooldownSeconds : Int]

NoReport == [at |-> ZeroTime, nextAutoRefresh |-> 0,
             refreshCooldown |-> FALSE, cooldownSeconds |-> 0]

Init ==
    /\ clock = 1
    /\ \E l \in TokenLifetimes : md = Created(1, l)
    /\ report = NoReport

Tick ==
    /\ clock < Horizon
    /\ clock' = clock + 1
    /\ UNCHANGED <<md, report>>

Login(expiresIn) ==
    /\ md' = Created(clock, expiresIn)
    /\ report' = NoReport
    /\ UNCHANGED clock

\* GET /oauth2/session
Session ==
    /\ LET v == VerboseWithRefresh(md, clock)
       IN  report' = [at |-> clock, nextAutoRefresh |-> v.nextAutoRefresh,
                      refreshCooldown |-> v.refreshCooldown,
                      cooldownSeconds |-> v.cooldownSeconds]
    /\ UNCHANGED <<clock, md>>

\* GetOrRefresh on a proxied request, when it renews the tokens.
AutoRefresh(expiresIn) ==
    /\ ~isTimedOut(md, clock)
    /\ ShouldRefresh(md, clock)
    /\ md' = Refreshed(md, clock, expiresIn)
    /\ report' = NoReport
    /\ UNCHANGED clock

\* POST /oauth2/session/refresh, when it renews the tokens.
ManualRefresh(expiresIn) ==
    /\ ~IsRefreshOnCooldown(md, clock)
    /\ ~isTimedOut(md, clock)
    /\ md' = Refreshed(md, clock, expiresIn)
    /\ report' = NoReport
    /\ UNCHANGED clock

Next ==
    \/ Tick
    \/ Session
    \/ \E l \in TokenLifetimes : Login(l) \/ AutoRefresh(l) \/ ManualRefresh(l)

Spec == Init /\ [][Next]_vars

-----------------------------------------------------------------------------
\* The state has its types: a timeout is set exactly when session.inactivity
\* is on (Create), and a report is never later than the clock.
TypeOK ==
    /\ clock \in Nat \ {0}
    /\ md \in Metadata
    /\ Inactivity <=> md.timeoutAt # ZeroTime
    /\ report \in Report
    /\ report.at <= clock

(***************************************************************************)
(* README, Inactivity: the session times out when the time since the last  *)
(* refresh exceeds the timeout; and a refresh never moves the end of the   *)
(* session, which stays MaxLifetime after the login (handler_test.go).     *)
(***************************************************************************)
LifetimesFromTheirStart ==
    /\ md.endsAt = md.createdAt + MaxLifetime
    /\ md.createdAt <= md.refreshedAt /\ md.refreshedAt <= clock
    /\ Inactivity => md.timeoutAt = md.refreshedAt + InactivityTimeout

(***************************************************************************)
(* README: next_auto_refresh_in_seconds is the number of seconds until     *)
(* the earliest time where the tokens will automatically be refreshed.     *)
(* An automatic refresh (ShouldRefresh in data.go) is never due before     *)
(* that many seconds have passed since the report, whatever the clock did  *)
(* in between.                                                             *)
(***************************************************************************)
NotBeforeAnnounced ==
    report.at # ZeroTime /\ ShouldRefresh(md, clock) =>
        clock >= report.at + report.nextAutoRefresh * TicksPerSecond

(***************************************************************************)
(* README: a request to the refresh endpoint only triggers a refresh if    *)
(* refresh_cooldown is false.  Since the report, the cooldown of data.go   *)
(* lasts as long as was said, and it never comes back once it was over.    *)
(***************************************************************************)
CooldownAsAnnounced ==
    report.at # ZeroTime =>
        /\ IsRefreshOnCooldown(md, clock) => report.refreshCooldown
        /\ clock < report.at + report.cooldownSeconds * TicksPerSecond =>
               IsRefreshOnCooldown(md, clock)

(***************************************************************************)
(* The leeway, the cooldown and the half-life rule of data.go fit          *)
(* together: at the last instant the tokens are valid, an automatic        *)
(* refresh is due and no cooldown forbids a manual one, for every positive *)
(* lifetime.  Only the inactivity timeout, which GetOrRefresh and Refresh  *)
(* test as well, may end a session before its tokens can be renewed.       *)
(***************************************************************************)
RenewableBeforeExpiry ==
    TokenLifetime(md) > 0 /\ clock = md.expireAt =>
        \/ isTimedOut(md, clock)
        \/ ShouldRefresh(md, clock) /\ ~IsRefreshOnCooldown(md, clock)

(***************************************************************************)
(* README: tokens will at the earliest be automatically renewed the leeway *)
(* before they expire (NextRefresh in data.go), also after that instant    *)
(* has passed and NextRefresh falls back to the cooldown.                  *)
(***************************************************************************)
NotBeforeLeeway ==
    ShouldRefresh(md, clock) => clock > md.expireAt - RefreshLeeway
=============================================================================
