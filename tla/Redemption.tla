------------------------------ MODULE Redemption ------------------------------
(***************************************************************************)
(* Redeeming the authorization codes of concurrent login callbacks while   *)
(* the identity provider rotates the keys it signs id_tokens with:         *)
(* LoginCallback.RedeemTokens under the retries of redeemValidTokens, the  *)
(* key cache of JwksProvider with its rate limit, validation of the        *)
(* id_token and the choice of the session ID.                              *)
(*                                                                         *)
(* The requests before the callback and the cookies are in LoginFlow, the  *)
(* commands of Create in SessionHandler.  All logins are of one user's     *)
(* single SSO session, so a session ID is named by where it came from.     *)
(***************************************************************************)
EXTENDS Naturals, FiniteSets

CONSTANTS
    Callbacks,                  \* callbacks handled at the same time
    None,
    Providers,                  \* provider metadata a deployment may have
    JwkMinimumRefreshInterval,
    MaxRotations,               \* bound on key rotations
    Faults

ASSUME RedemptionAssumption ==
    /\ None \notin Callbacks
    /\ Providers \subseteq [frontchannelLogoutSupported : BOOLEAN,
                            frontchannelLogoutSessionSupported : BOOLEAN,
                            checkSessionIframe : BOOLEAN]
    /\ JwkMinimumRefreshInterval \in Nat \ {0}
    /\ MaxRotations \in Nat
    /\ Faults \subseteq {"jwks", "token", "claims"}

SigningKeys == 0 .. MaxRotations

\* What Validate and NewSessionID look at: whether issuer, audience, nonce,
\* times and acr are as expected, the sid claim, the session_state parameter.
Claims == [valid : BOOLEAN, sid : {"absent", "string", "other"},
           sessionState : BOOLEAN]

VARIABLES
    metadata,   \* of the provider
    signing,    \* the key the provider signs with
    published,  \* the keys of its jwks_uri
    cache,      \* jwksCache
    lastRefresh,\* ticks since jwksLock.lastRefresh, at most the interval
    mutex,      \* who holds jwksLock
    pc,         \* callback -> what it is about to do
    code,       \* callback -> whether its code has not been exchanged
    token,      \* callback -> the key of the id_token it has not verified yet
    fetched,    \* callback -> keys the provider has sent it, not yet cached
    session,    \* the ID of the session made last, while it is in the store
    since,      \* ticks since the last rotation or failed fetch, saturating
    refused     \* logins refused for a missing key, long after that (see below)

jwksVars     == <<cache, lastRefresh, mutex, fetched>>
providerVars == <<metadata, signing, published>>
vars == <<metadata, signing, published, cache, lastRefresh, mutex, pc, code,
          token, fetched, session, since, refused>>

Ended == {"ok", "failed"}
PCs   == {"exchange", "verify", "validate", "refresh", "fetch", "cache",
          "attempted"} \cup Ended

Goto(c, where) == pc' = [pc EXCEPT ![c] = where]

Older(age) == IF age < JwkMinimumRefreshInterval THEN age + 1 ELSE age

-----------------------------------------------------------------------------
(***************************************************************************)
(* Provider metadata and the session ID.                                   *)
(***************************************************************************)
SidClaimRequired == /\ metadata.frontchannelLogoutSupported
                    /\ metadata.frontchannelLogoutSessionSupported

SessionStateRequired == metadata.checkSessionIframe

Valid(claims) == claims.valid /\ (SidClaimRequired => claims.sid # "absent")

\* Mutant: session_state goes before sid.
NewSessionIDStateFirst(claims) ==
    CASE claims.sessionState -> "session_state"
      [] claims.sid = "string" -> "sid"
      [] SidClaimRequired \/ SessionStateRequired -> None
      [] OTHER -> "generated"

\* None where the code returns an error.
NewSessionID(claims) ==
    CASE claims.sid = "string" -> "sid"
      [] claims.sid # "string" /\ SidClaimRequired -> None
      [] claims.sid # "string" /\ ~SidClaimRequired /\ claims.sessionState
            -> "session_state"
      [] claims.sid # "string" /\ ~SidClaimRequired /\ ~claims.sessionState
            -> IF SessionStateRequired THEN None ELSE "generated"

-----------------------------------------------------------------------------
\* NewJwksProvider has fetched the keys before the program serves requests, and
\* leaves lastRefresh at the zero time.
Init ==
    /\ metadata \in Providers
    /\ signing = 0 /\ published = {0} /\ cache = {0}
    /\ lastRefresh = JwkMinimumRefreshInterval /\ mutex = None
    /\ pc = [c \in Callbacks |-> "failed"]
    /\ code = [c \in Callbacks |-> FALSE] /\ token = [c \in Callbacks |-> None]
    /\ fetched = [c \in Callbacks |-> {}]
    /\ session = None
    /\ since = JwkMinimumRefreshInterval /\ refused = 0

\* The next login gets as far as redeemValidTokens.
Callback(c) ==
    /\ pc[c] \in Ended
    /\ Goto(c, "exchange")
    /\ code' = [code EXCEPT ![c] = TRUE]
    /\ UNCHANGED <<providerVars, jwksVars, token, session, since, refused>>

(***************************************************************************)
(* RedeemTokens.                                                           *)
(***************************************************************************)
\* AuthCodeGrant: a code is exchanged once.
Exchange(c) ==
    /\ pc[c] = "exchange" /\ code[c]
    /\ code' = [code EXCEPT ![c] = FALSE]
    /\ token' = [token EXCEPT ![c] = signing]
    /\ Goto(c, "verify")
    /\ UNCHANGED <<providerVars, jwksVars, session, since, refused>>

ExchangeRefused(c) ==
    /\ pc[c] = "exchange" /\ ~code[c]
    /\ Goto(c, "attempted")
    /\ UNCHANGED <<providerVars, jwksVars, code, token, session, since, refused>>

\* No usable answer; the provider may have seen the code.
ExchangeFails(c, processed) ==
    /\ "token" \in Faults /\ pc[c] = "exchange"
    /\ code' = [code EXCEPT ![c] = @ /\ ~processed]
    /\ Goto(c, "attempted")
    /\ UNCHANGED <<providerVars, jwksVars, token, session, since, refused>>

Refreshing == {c \in Callbacks : pc[c] \in {"refresh", "fetch", "cache"}}

\* A refusal that counts: the key is the one the provider signs with, it has
\* been for the whole interval, and no callback is fetching it.
CountRefusal(c) ==
    refused' = IF /\ token[c] = signing /\ since = JwkMinimumRefreshInterval
                  /\ Refreshing = {} /\ refused < 2
               THEN refused + 1 ELSE refused

\* GetPublicJwkSet and NewTokens: the signature is checked with cached keys.
Verify(c) ==
    /\ pc[c] = "verify"
    /\ \/ token[c] \in cache /\ Goto(c, "validate") /\ UNCHANGED refused
       \/ token[c] \notin cache /\ Goto(c, "refresh") /\ CountRefusal(c)
    /\ token' = [token EXCEPT ![c] = None]
    /\ UNCHANGED <<providerVars, jwksVars, code, session, since>>

\* NewTokens also fails when the response has no id_token or a malformed one.
VerifyFails(c) ==
    /\ "claims" \in Faults /\ pc[c] = "verify"
    /\ Goto(c, "refresh")
    /\ token' = [token EXCEPT ![c] = None]
    /\ UNCHANGED <<providerVars, jwksVars, code, session, since, refused>>

\* IDToken.Validate, then Create with the ID that NewSessionID chooses.  An
\* error of Create is final; one of Validate fails the attempt.
Validate(c, claims) ==
    /\ pc[c] = "validate" /\ ("claims" \in Faults \/ claims.valid)
    /\ \/ ~Valid(claims) /\ Goto(c, "attempted") /\ UNCHANGED session
       \/ /\ Valid(claims) /\ NewSessionID(claims) = None
          /\ Goto(c, "failed") /\ UNCHANGED session
       \/ /\ Valid(claims) /\ NewSessionID(claims) # None
          /\ Goto(c, "ok")
          /\ session' = NewSessionID(claims)
    /\ UNCHANGED <<providerVars, jwksVars, code, token, since, refused>>

(***************************************************************************)
(* RefreshPublicJwkSet: the mutex is held while the keys are fetched.      *)
(***************************************************************************)
\* Mutant: a call within the interval starts the interval again.
RateLimitedRestarts(c) ==
    /\ pc[c] = "refresh" /\ mutex = None
    /\ lastRefresh < JwkMinimumRefreshInterval
    /\ lastRefresh' = 0
    /\ Goto(c, "attempted")
    /\ UNCHANGED <<providerVars, cache, mutex, fetched, code, token, session,
                   since, refused>>

\* Mutant: the early return keeps the mutex.
RateLimitedKeepsMutex(c) ==
    /\ pc[c] = "refresh" /\ mutex = None
    /\ lastRefresh < JwkMinimumRefreshInterval
    /\ mutex' = c
    /\ Goto(c, "attempted")
    /\ UNCHANGED <<providerVars, cache, lastRefresh, fetched, code, token,
                   session, since, refused>>

RateLimited(c) ==
    /\ pc[c] = "refresh" /\ mutex = None
    /\ lastRefresh < JwkMinimumRefreshInterval
    /\ Goto(c, "attempted")
    /\ UNCHANGED <<providerVars, jwksVars, code, token, session, since, refused>>

\* lastRefresh is set before the request, so that a failed one counts too.
StartRefresh(c) ==
    /\ pc[c] = "refresh" /\ mutex = None
    /\ lastRefresh >= JwkMinimumRefreshInterval
    /\ mutex' = c /\ lastRefresh' = 0
    /\ Goto(c, "fetch")
    /\ UNCHANGED <<providerVars, cache, fetched, code, token, session, since,
                   refused>>

Fetch(c) ==
    /\ pc[c] = "fetch"
    /\ fetched' = [fetched EXCEPT ![c] = published]
    /\ Goto(c, "cache")
    /\ UNCHANGED <<providerVars, cache, lastRefresh, mutex, code, token,
                   session, since, refused>>

\* Mutant: the early return on an error keeps the mutex.
FetchFailsKeepsMutex(c) ==
    /\ "jwks" \in Faults /\ pc[c] = "fetch"
    /\ since' = 0 /\ refused' = 0
    /\ Goto(c, "attempted")
    /\ UNCHANGED <<providerVars, jwksVars, code, token, session>>

FetchFails(c) ==
    /\ "jwks" \in Faults /\ pc[c] = "fetch"
    /\ mutex' = None
    /\ since' = 0 /\ refused' = 0
    /\ Goto(c, "attempted")
    /\ UNCHANGED <<providerVars, cache, lastRefresh, fetched, code, token,
                   session>>

CacheKeys(c) ==
    /\ pc[c] = "cache"
    /\ cache' = fetched[c]
    /\ fetched' = [fetched EXCEPT ![c] = {}]
    /\ mutex' = None
    /\ Goto(c, "attempted")
    /\ UNCHANGED <<providerVars, lastRefresh, code, token, session, since,
                   refused>>

(***************************************************************************)
(* redeemValidTokens: retry.Do tries again, with the same code, for as     *)
(* long as the backoff allows; then the callback is answered with an error.*)
(***************************************************************************)
TryAgain(c) ==
    /\ pc[c] = "attempted"
    /\ Goto(c, "exchange")
    /\ UNCHANGED <<providerVars, jwksVars, code, token, session, since, refused>>

GiveUp(c) ==
    /\ pc[c] = "attempted"
    /\ Goto(c, "failed")
    /\ code' = [code EXCEPT ![c] = FALSE]
    /\ UNCHANGED <<providerVars, jwksVars, token, session, since, refused>>

(***************************************************************************)
(* Environment.                                                            *)
(***************************************************************************)
\* The provider signs with a new key, and may publish the old one for a while.
Rotate(keepOld) ==
    /\ signing < MaxRotations
    /\ signing' = signing + 1
    /\ published' = {signing'} \cup (IF keepOld THEN {signing} ELSE {})
    /\ since' = 0 /\ refused' = 0
    /\ UNCHANGED <<metadata, jwksVars, pc, code, token, session>>

\* The library refreshes the cache on its own, now and then; it fetches once
\* at a time.
BackgroundRefresh ==
    /\ \A c \in Callbacks : pc[c] \notin {"fetch", "cache"}
    /\ cache' = published
    /\ UNCHANGED <<providerVars, lastRefresh, mutex, fetched, pc, code, token,
                   session, since, refused>>

\* The provider ends the SSO session and calls /oauth2/logout/frontchannel.
FrontChannelLogout ==
    /\ metadata.frontchannelLogoutSupported /\ session # None
    /\ session' = IF session = "sid" THEN None ELSE session
    /\ UNCHANGED <<providerVars, jwksVars, pc, code, token, since, refused>>

Tick ==
    /\ lastRefresh' = Older(lastRefresh)
    /\ since' = Older(since)
    /\ <<lastRefresh, since>>' # <<lastRefresh, since>>
    /\ UNCHANGED <<providerVars, cache, mutex, fetched, pc, code, token,
                   session, refused>>

Step(c) ==
    \/ Exchange(c) \/ ExchangeRefused(c) \/ Verify(c)
    \/ \E claims \in Claims : Validate(c, claims)
    \/ RateLimited(c) \/ StartRefresh(c) \/ Fetch(c) \/ CacheKeys(c) \/ GiveUp(c)

Fault(c) ==
    \/ \E processed \in BOOLEAN : ExchangeFails(c, processed)
    \/ VerifyFails(c) \/ FetchFails(c)

Next ==
    \/ \E c \in Callbacks : Callback(c) \/ Step(c) \/ Fault(c) \/ TryAgain(c)
    \/ \E keepOld \in BOOLEAN : Rotate(keepOld)
    \/ BackgroundRefresh \/ FrontChannelLogout \/ Tick

Spec == Init /\ [][Next]_vars

\* The scheduler runs every handler, users go on logging in, and time passes.
\* Go's mutex starves nobody, the backoff has a maximum duration, and token and
\* jwks endpoints that are called again and again answer in the end.
Fairness ==
    /\ WF_vars(Tick) /\ WF_vars(\E c \in Callbacks : Callback(c))
    /\ \A c \in Callbacks :
          WF_vars(Step(c)) /\ SF_vars(RateLimited(c) \/ StartRefresh(c) \/ GiveUp(c))
    /\ SF_vars(\E c \in Callbacks : Exchange(c))
    /\ SF_vars(\E c \in Callbacks : Fetch(c))

FairSpec == Spec /\ Fairness

-----------------------------------------------------------------------------
(***************************************************************************)
(* Properties.                                                             *)
(***************************************************************************)
StateTypes ==
    /\ metadata \in Providers
    /\ signing \in SigningKeys
    /\ published \subseteq SigningKeys /\ cache \subseteq SigningKeys
    /\ lastRefresh \in 0 .. JwkMinimumRefreshInterval
    /\ since \in 0 .. JwkMinimumRefreshInterval
    /\ mutex \in Callbacks \cup {None}
    /\ pc \in [Callbacks -> PCs] /\ code \in [Callbacks -> BOOLEAN]
    /\ token \in [Callbacks -> SigningKeys \cup {None}]
    /\ fetched \in [Callbacks -> SUBSET SigningKeys]
    /\ session \in {"sid", "session_state", "generated", None}
    /\ refused \in 0 .. 2

\* Types, and who holds jwksLock: exactly the callback that is fetching keys,
\* whichever way the earlier ones left RefreshPublicJwkSet.
TypeOK ==
    /\ StateTypes
    /\ \A c \in Callbacks : pc[c] \in {"fetch", "cache"} <=> mutex = c

\* provider.go, rate limit of RefreshPublicJwkSet: it does not keep logins out
\* for longer than it must.  Once a whole interval has passed since the last
\* rotation (or failed fetch), one login at most is refused for a key that is
\* not in the cache, besides those that overlap with its fetch: it fetches the
\* key for the next ones.
OutageEndsWithOneLogin == refused <= 1

\* handler.go, NewSessionID, and tokens.go, Validate: with a provider that ends
\* sessions by sid, every session is stored under the sid of its id_token, so a
\* front-channel logout finds all of them.
FrontChannelReaches == SidClaimRequired => session \in {"sid", None}

\* login_callback.go: "force a refresh for the next attempt".  After the last
\* rotation the key cache catches up with the provider, however often fetches
\* and exchanges fail, rotations overtake fetches and calls are rate limited.
KeysCatchUp == <>[](signing \in cache)

\* Every callback is answered: none waits for jwksLock or is retried for ever.
EveryCallbackAnswered ==
    \A c \in Callbacks : pc[c] \notin Ended ~> pc[c] \in Ended
=============================================================================
