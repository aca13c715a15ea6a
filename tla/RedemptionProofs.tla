--------------------------- MODULE RedemptionProofs ---------------------------
(***************************************************************************)
(* Proofs about Redemption, for every set of concurrent callbacks, every   *)
(* rate limit, any number of key rotations and every combination of        *)
(* faults.                                                                 *)
(***************************************************************************)
EXTENDS Redemption, TLAPS

(***************************************************************************)
(* Types, and the mutex of RefreshPublicJwkSet.                            *)
(***************************************************************************)
\* A session is named by where its ID came from, or there is none.
LEMMA SessionIDType ==
    ASSUME NEW claims \in Claims
    PROVE  NewSessionID(claims) \in {"sid", "session_state", "generated", None}
  BY DEF NewSessionID, Claims

\* A rotation leads to another signing key.
LEMMA KeysOfRotation ==
    ASSUME signing \in SigningKeys, signing < MaxRotations
    PROVE  signing + 1 \in SigningKeys
  BY RedemptionAssumption DEF SigningKeys

\* The types hold initially, and nobody holds the mutex.
LEMMA TypeInit == Init => TypeOK
  BY RedemptionAssumption
     DEF Init, TypeOK, StateTypes, SigningKeys, PCs, Ended

\* Every step of a callback, failing or not, keeps the types, and leaves the
\* mutex with the callback that fetches keys and with no other.
LEMMA TypeCallback ==
    ASSUME TypeOK, NEW c \in Callbacks,
           Callback(c) \/ Step(c) \/ Fault(c) \/ TryAgain(c)
    PROVE  TypeOK'
<1> USE RedemptionAssumption DEF TypeOK, Goto
<1>1. CASE Callback(c) \/ TryAgain(c) \/ GiveUp(c) \/ ExchangeRefused(c)
  BY <1>1 DEF Callback, TryAgain, GiveUp, ExchangeRefused, StateTypes, PCs, Ended,
              providerVars, jwksVars
<1>2. CASE Exchange(c)
  BY <1>2 DEF Exchange, StateTypes, PCs, Ended, providerVars, jwksVars
<1>3. ASSUME NEW processed \in BOOLEAN, ExchangeFails(c, processed)
      PROVE  TypeOK'
  BY <1>3 DEF ExchangeFails, StateTypes, PCs, Ended, providerVars, jwksVars
<1>4. CASE Verify(c) \/ VerifyFails(c)
  BY <1>4 DEF Verify, VerifyFails, CountRefusal, StateTypes, PCs, Ended,
              providerVars, jwksVars
<1>5. ASSUME NEW claims \in Claims, Validate(c, claims)
      PROVE  TypeOK'
  BY <1>5, SessionIDType DEF Validate, StateTypes, PCs, Ended, providerVars, jwksVars
<1>6. CASE RateLimited(c) \/ StartRefresh(c)
  BY <1>6 DEF RateLimited, StartRefresh, StateTypes, PCs, Ended, providerVars,
              jwksVars
<1>7. CASE Fetch(c) \/ FetchFails(c) \/ CacheKeys(c)
  BY <1>7 DEF Fetch, FetchFails, CacheKeys, StateTypes, PCs, Ended, providerVars
<1> QED BY <1>1, <1>2, <1>3, <1>4, <1>5, <1>6, <1>7 DEF Step, Fault

\* So do the provider, the library's own refresh and the clock.
LEMMA TypeEnvironment ==
    ASSUME TypeOK,
           \/ \E keepOld \in BOOLEAN : Rotate(keepOld)
           \/ BackgroundRefresh \/ FrontChannelLogout \/ Tick \/ UNCHANGED vars
    PROVE  TypeOK'
<1> USE RedemptionAssumption DEF TypeOK
<1>1. ASSUME NEW keepOld \in BOOLEAN, Rotate(keepOld)
      PROVE  TypeOK'
  BY <1>1, KeysOfRotation DEF Rotate, StateTypes, jwksVars
<1>2. CASE BackgroundRefresh \/ FrontChannelLogout
  BY <1>2 DEF BackgroundRefresh, FrontChannelLogout, StateTypes, providerVars,
              jwksVars
<1>3. CASE Tick
  BY <1>3 DEF Tick, Older, StateTypes, providerVars
<1>4. CASE UNCHANGED vars
  BY <1>4 DEF vars, StateTypes
<1> QED BY <1>1, <1>2, <1>3, <1>4

\* provider.go: whichever way RefreshPublicJwkSet is left, and however many
\* callbacks call it, jwksLock is held by the callback that fetches keys and by
\* no other.
THEOREM TypeCorrect == Spec => []TypeOK
<1>1. TypeOK /\ [Next]_vars => TypeOK'
  BY TypeCallback, TypeEnvironment DEF Next
<1> QED BY <1>1, TypeInit, PTL DEF Spec

-----------------------------------------------------------------------------
(***************************************************************************)
(* Session IDs.                                                            *)
(***************************************************************************)
\* handler.go, NewSessionID: with a provider that ends sessions by sid, no
\* callback makes a session that a front-channel logout would not find.
THEOREM FrontChannelFinds == Spec => []FrontChannelReaches
<1>1. Init => FrontChannelReaches
  BY DEF Init, FrontChannelReaches
<1>2. FrontChannelReaches /\ [Next]_vars => FrontChannelReaches'
  <2> SUFFICES ASSUME FrontChannelReaches, [Next]_vars
               PROVE  FrontChannelReaches'
    OBVIOUS
  <2>1. metadata' = metadata
    BY DEF Next, Step, Fault, Callback, TryAgain, GiveUp, ExchangeRefused, Exchange,
           ExchangeFails, Verify, VerifyFails, Validate, RateLimited, StartRefresh,
           Fetch, FetchFails, CacheKeys, Rotate, BackgroundRefresh,
           FrontChannelLogout, Tick, vars, providerVars
  <2>2. ASSUME NEW c \in Callbacks, NEW claims \in Claims, Validate(c, claims)
        PROVE  FrontChannelReaches'
    <3>1. SidClaimRequired => NewSessionID(claims) \in {"sid", None}
      BY DEF NewSessionID, Claims
    <3> QED BY <2>1, <2>2, <3>1 DEF Validate, FrontChannelReaches, SidClaimRequired
  <2>3. CASE UNCHANGED session \/ session' = None
    BY <2>1, <2>3 DEF FrontChannelReaches, SidClaimRequired
  <2> QED
    BY <2>2, <2>3
       DEF Next, Step, Fault, Callback, TryAgain, GiveUp, ExchangeRefused, Exchange,
           ExchangeFails, Verify, VerifyFails, RateLimited, StartRefresh,
           Fetch, FetchFails, CacheKeys, Rotate, BackgroundRefresh,
           FrontChannelLogout, Tick, vars
<1> QED BY <1>1, <1>2, PTL DEF Spec

-----------------------------------------------------------------------------
(***************************************************************************)
(* The rate limit.  OutageEndsWithOneLogin is not inductive: it does not   *)
(* say why the second login would find its key.                            *)
(***************************************************************************)
\* The provider publishes the key that it signs with.
SigningPublished == signing \in published

\* A refresh that was started after the last rotation or failed fetch has
\* fetched, or will fetch, the key that the provider signs with.
RecentRefreshHasKey ==
    lastRefresh < since =>
        /\ signing \in cache \/ \E c \in Callbacks : pc[c] \in {"fetch", "cache"}
        /\ \A c \in Callbacks : pc[c] = "cache" => signing \in fetched[c]

\* Once a login has been refused that counts, the key is in the cache or a
\* callback is about to fetch it, and none has fetched older keys.
RefusalFetchesKey ==
    refused > 0 =>
        /\ since = JwkMinimumRefreshInterval
        /\ signing \in cache \/ Refreshing # {}
        /\ \A c \in Callbacks : pc[c] = "cache" => signing \in fetched[c]

OutageInv == /\ SigningPublished /\ RecentRefreshHasKey /\ RefusalFetchesKey
             /\ OutageEndsWithOneLogin

\* Every step of a callback keeps OutageInv.  A callback that is turned away by
\* the rate limit after a counted refusal finds the key in the cache; one that
\* caches what it fetched has the key; and a refusal counts only if no other
\* callback is on its way to fetch the key.
LEMMA OutageCallback ==
    ASSUME TypeOK, OutageInv, NEW c \in Callbacks,
           Callback(c) \/ Step(c) \/ Fault(c) \/ TryAgain(c)
    PROVE  OutageInv'
<1> USE RedemptionAssumption
    DEF OutageInv, SigningPublished, RecentRefreshHasKey, RefusalFetchesKey,
        OutageEndsWithOneLogin, TypeOK, Goto
<1>1. CASE Callback(c) \/ TryAgain(c) \/ GiveUp(c) \/ ExchangeRefused(c)
  BY <1>1 DEF Callback, TryAgain, GiveUp, ExchangeRefused, StateTypes, Refreshing,
              Ended, providerVars, jwksVars
<1>2. CASE Exchange(c)
  BY <1>2 DEF Exchange, StateTypes, Refreshing, providerVars, jwksVars
<1>3. ASSUME NEW processed \in BOOLEAN, ExchangeFails(c, processed)
      PROVE  OutageInv'
  BY <1>3 DEF ExchangeFails, StateTypes, Refreshing, providerVars, jwksVars
<1>4. CASE Verify(c)
  BY <1>4 DEF Verify, CountRefusal, StateTypes, Refreshing, providerVars, jwksVars
<1>5. CASE VerifyFails(c)
  BY <1>5 DEF VerifyFails, StateTypes, Refreshing, providerVars, jwksVars
<1>6. ASSUME NEW claims \in Claims, Validate(c, claims)
      PROVE  OutageInv'
  BY <1>6 DEF Validate, StateTypes, Refreshing, providerVars, jwksVars
<1>7. CASE RateLimited(c)
  BY <1>7 DEF RateLimited, StateTypes, Refreshing, providerVars, jwksVars
<1>8. CASE StartRefresh(c)
  BY <1>8 DEF StartRefresh, StateTypes, Refreshing, providerVars
<1>9. CASE Fetch(c)
  BY <1>9 DEF Fetch, StateTypes, Refreshing, providerVars
<1>10. CASE FetchFails(c)
  BY <1>10 DEF FetchFails, StateTypes, providerVars
<1>11. CASE CacheKeys(c)
  BY <1>11 DEF CacheKeys, StateTypes, Refreshing, providerVars
<1> QED BY <1>1, <1>2, <1>3, <1>4, <1>5, <1>6, <1>7, <1>8, <1>9, <1>10, <1>11
        DEF Step, Fault

\* So do the environment's steps: a rotation starts the count again, and the
\* library's own refresh caches the published keys.
LEMMA OutageEnvironment ==
    ASSUME TypeOK, OutageInv,
           \/ \E keepOld \in BOOLEAN : Rotate(keepOld)
           \/ BackgroundRefresh \/ FrontChannelLogout \/ Tick \/ UNCHANGED vars
    PROVE  OutageInv'
<1> USE RedemptionAssumption
    DEF OutageInv, SigningPublished, RecentRefreshHasKey, RefusalFetchesKey,
        OutageEndsWithOneLogin, TypeOK
<1>1. ASSUME NEW keepOld \in BOOLEAN, Rotate(keepOld)
      PROVE  OutageInv'
  BY <1>1 DEF Rotate, StateTypes, jwksVars
<1>2. CASE BackgroundRefresh \/ FrontChannelLogout
  BY <1>2 DEF BackgroundRefresh, FrontChannelLogout, StateTypes, Refreshing,
              providerVars, jwksVars
<1>3. CASE Tick
  BY <1>3 DEF Tick, Older, StateTypes, Refreshing, providerVars
<1>4. CASE UNCHANGED vars
  BY <1>4 DEF vars, Refreshing
<1> QED BY <1>1, <1>2, <1>3, <1>4

\* provider.go, rate limit of RefreshPublicJwkSet: a whole interval after the
\* last rotation or failed fetch, one login at most is refused for a missing
\* key, besides those that overlap with its fetch.
THEOREM OutageIsShort == Spec => []OutageEndsWithOneLogin
<1>1. Init => OutageInv
  BY RedemptionAssumption
     DEF Init, OutageInv, SigningPublished, RecentRefreshHasKey, RefusalFetchesKey,
         OutageEndsWithOneLogin
<1>2. TypeOK /\ OutageInv /\ [Next]_vars => OutageInv'
  BY OutageCallback, OutageEnvironment DEF Next
<1>3. OutageInv => OutageEndsWithOneLogin
  BY DEF OutageInv
<1> QED BY <1>1, <1>2, <1>3, TypeCorrect, PTL DEF Spec
=============================================================================
