----------------------------- MODULE SessionData -----------------------------
(***************************************************************************)
(* The session metadata and its arithmetic (pkg/session/data.go).          *)
(*                                                                         *)
(* Instants and durations are integers, in ticks.  Every Go method that    *)
(* calls time.Now() takes the instant t of the call as a parameter.  The   *)
(* zero time.Time is ZeroTime; the clock of a specification starts later.  *)
(***************************************************************************)
EXTENDS Integers

CONSTANTS
    RefreshMinInterval,  \* data.go: one minute
    RefreshLeeway,       \* data.go: five minutes
    TicksPerSecond,      \* the grain of the clock
    MaxLifetime,         \* session.max-lifetime
    Inactivity,          \* session.inactivity
    InactivityTimeout    \* session.inactivity-timeout

ASSUME IntervalAssumption ==
    /\ RefreshMinInterval \in Nat \ {0}
    /\ RefreshLeeway \in Nat \ {0}
    /\ TicksPerSecond \in Nat \ {0}

ASSUME SessionConfigAssumption ==
    /\ MaxLifetime \in Nat \ {0}
    /\ Inactivity \in BOOLEAN
    /\ InactivityTimeout \in Nat

ZeroTime == 0

(***************************************************************************)
(* Metadata, with the Session and Tokens parts flattened into one record.  *)
(***************************************************************************)
Metadata == [createdAt : Int, endsAt : Int, timeoutAt : Int,
             expireAt : Int, refreshedAt : Int]

NewMetadata(t, expiresIn, endsIn) ==
    [createdAt |-> t, endsAt |-> t + endsIn, timeoutAt |-> ZeroTime,
     expireAt |-> t + expiresIn, refreshedAt |-> t]

WithTimeout(md, t, timeoutIn) == [md EXCEPT !.timeoutAt = t + timeoutIn]

ExtendTimeout(md, t, duration) == [md EXCEPT !.timeoutAt = t + duration]

Refresh(md, t, nextExpiry) ==
    [md EXCEPT !.refreshedAt = t, !.expireAt = t + nextExpiry]

(***************************************************************************)
(* The predicates the handlers decide on.                                  *)
(***************************************************************************)
IsExpired(md, t) == t > md.expireAt

IsTimedOut(md, t) == md.timeoutAt # ZeroTime /\ t > md.timeoutAt

TokenLifetime(md) == md.expireAt - md.refreshedAt

\* Go's integer division truncates toward zero.
Half(d) == IF d >= 0 THEN d \div 2 ELSE -((-d) \div 2)

\* Mutant: a cooldown that ignores short-lived tokens.
RefreshCooldownNoHalfLife(md) == md.refreshedAt + RefreshMinInterval

RefreshCooldown(md) ==
    md.refreshedAt + (IF TokenLifetime(md) <= 2 * RefreshMinInterval
                      THEN Half(TokenLifetime(md))
                      ELSE RefreshMinInterval)

IsRefreshOnCooldown(md, t) == t < RefreshCooldown(md)

\* Mutant: a next refresh that tests with the leeway and answers without it.
NextRefreshNoLeeway(md, t) ==
    IF md.expireAt - RefreshLeeway < t THEN RefreshCooldown(md) ELSE md.expireAt

NextRefresh(md, t) ==
    LET next == md.expireAt - RefreshLeeway
    IN  IF next < t THEN RefreshCooldown(md) ELSE next

\* Mutant: a due test that only looks at the cooldown.
ShouldRefreshOnCooldownOnly(md, t) == ~IsRefreshOnCooldown(md, t)

ShouldRefresh(md, t) == ~IsRefreshOnCooldown(md, t) /\ t > NextRefresh(md, t)

(***************************************************************************)
(* What GET /oauth2/session and POST /oauth2/session/refresh report.       *)
(***************************************************************************)
\* Mutant: a conversion that rounds up.
toSecondsCeil(d) == (d + TicksPerSecond - 1) \div TicksPerSecond

toSeconds(d) == IF d <= 0 THEN 0 ELSE d \div TicksPerSecond

Verbose(md, t) ==
    [endsIn |-> toSeconds(md.endsAt - t),
     active |-> ~IsTimedOut(md, t),
     timeoutIn |-> IF md.timeoutAt = ZeroTime THEN -1
                   ELSE toSeconds(md.timeoutAt - t),
     expireIn |-> toSeconds(md.expireAt - t)]

VerboseWithRefresh(md, t) ==
    [session |-> Verbose(md, t),
     nextAutoRefresh |-> toSeconds(NextRefresh(md, t) - t),
     refreshCooldown |-> IsRefreshOnCooldown(md, t),
     cooldownSeconds |-> toSeconds(RefreshCooldown(md) - t)]

(***************************************************************************)
(* How handler.go combines them under the session configuration.           *)
(***************************************************************************)
\* Mutant: a login that forgets the inactivity timeout.
CreatedNoTimeout(t, expiresIn) == NewMetadata(t, expiresIn, MaxLifetime)

\* Create: the metadata of a login whose callback runs at instant t.
Created(t, expiresIn) ==
    LET new == NewMetadata(t, expiresIn, MaxLifetime)
    IN  IF Inactivity THEN WithTimeout(new, t, InactivityTimeout) ELSE new

\* Mutant: a refresh that does not push the timeout.
RefreshedNoExtend(md, t, expiresIn) == Refresh(md, t, expiresIn)

\* Handler.Refresh: the metadata after a grant answered at instant t.
Refreshed(md, t, expiresIn) ==
    LET new == Refresh(md, t, expiresIn)
    IN  IF Inactivity THEN ExtendTimeout(new, t, InactivityTimeout) ELSE new

isTimedOut(md, t) == Inactivity /\ IsTimedOut(md, t)
=============================================================================
