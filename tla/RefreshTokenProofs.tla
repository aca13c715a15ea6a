-------------------------- MODULE RefreshTokenProofs --------------------------
(***************************************************************************)
(* SessionHandler when nothing fails: Redis, no faults, holders that end   *)
(* within their lease; for every set of requests and keys and every way    *)
(* the provider rotates its tokens.  First the refresh tokens, then that   *)
(* what concurrent requests do to a session is what AtomicSession allows.  *)
(***************************************************************************)
EXTENDS StoredSessionProofs, SessionRefinement

NoFailures == Backend = "redis" /\ Faults = {}

\* The data stems from a login that was answered and has this session key.
FromLogin(d, k) == pc[d.inst] = "done" /\ key[d.inst] = k

\* Its refresh token is the one that the provider accepts, or there is none.
Current(d) == d.rt \in {0, idpRT[d.inst]}

Saving(p) == pc[p] \in {"update", "set"}

\* A login about to be written is the first to use its own refresh token.
FreshLogin ==
    \A p \in Reqs : pc[p] = "write" =>
        work[p].inst = p /\ work[p].rt = 1 /\ idpRT[p] = 1

\* A stored token is stale only while the holder that renewed it saves it.
StoredToken ==
    \A k \in Keys : store[k] # None =>
        /\ FromLogin(store[k], k)
        /\ Current(store[k]) \/ \E p \in Reqs : Saving(p) /\ key[p] = k

\* Holders work on the session of their own key; before the grant its token
\* is accepted, and after the grant the response's token is.
HeldToken ==
    \A p \in Reqs :
        /\ pc[p] = "grant" \/ Saving(p) => FromLogin(work[p], key[p])
        /\ pc[p] = "grant" => work[p].rt = idpRT[work[p].inst]
        /\ Saving(p) => Current(work[p])

TokenInv == FreshLogin /\ StoredToken /\ HeldToken

(***************************************************************************)
(* Steps that touch no token: sessions may disappear, no request enters    *)
(* the part between the second read and the SET, and none leaves the part  *)
(* that saves.                                                             *)
(***************************************************************************)
NoTokenStep ==
    /\ idpRT' = idpRT
    /\ \A k \in Keys : store'[k] = store[k] \/ store'[k] = None
    /\ \A q \in Reqs :
          /\ pc[q] = "done" => pc'[q] = "done" /\ key'[q] = key[q]
          /\ Saving(q) => Saving(q)' /\ key'[q] = key[q]
          /\ Saving(q)' => Saving(q) /\ work'[q] = work[q] /\ key'[q] = key[q]
          /\ pc'[q] \in {"grant", "write"} =>
                pc[q] = pc'[q] /\ work'[q] = work[q] /\ key'[q] = key[q]

\* Logins named by typed data are requests.
LEMMA InstType ==
    ASSUME TypeOK
    PROVE  /\ \A k \in Keys : store[k] # None =>
                 store[k] \in Data /\ store[k].inst \in Reqs
           /\ \A p \in Reqs : pc[p] \in {"grant", "update", "set", "write"} =>
                 work[p] \in Data /\ work[p].inst \in Reqs /\ key[p] \in Keys
  BY DEF TypeOK, StoreTypes, LocalData, InFlight, Data

\* A step that moves no refresh token between provider, handler and store keeps
\* every token where it was accepted.
LEMMA NoTokenStepKeeps ==
    ASSUME TypeOK, TokenInv, NoTokenStep
    PROVE  TokenInv'
<1> USE InstType
<1>1. FreshLogin'
  BY DEF TokenInv, FreshLogin, NoTokenStep
<1>2. StoredToken'
  BY DEF TokenInv, StoredToken, NoTokenStep, FromLogin, Current
<1>3. HeldToken'
  BY DEF TokenInv, HeldToken, NoTokenStep, FromLogin, Current, Saving
<1> QED BY <1>1, <1>2, <1>3 DEF TokenInv

\* What NoTokenStep asks of the requests.
RequestsKeepTokens ==
    \A q \in Reqs :
        /\ pc[q] = "done" => pc'[q] = "done" /\ key'[q] = key[q]
        /\ Saving(q) => Saving(q)' /\ key'[q] = key[q]
        /\ Saving(q)' => Saving(q) /\ work'[q] = work[q] /\ key'[q] = key[q]
        /\ pc'[q] \in {"grant", "write"} =>
              pc[q] = pc'[q] /\ work'[q] = work[q] /\ key'[q] = key[q]

\* A request that is not saving ends, or moves on to a step without tokens.
LEMMA RespondTokens ==
    ASSUME TypeOK, NEW p \in Reqs, NEW a, Respond(p, a), ~Saving(p)
    PROVE  RequestsKeepTokens
  BY DEF TypeOK, RequestTypes, Respond, RequestsKeepTokens, Saving

\* A request that goes to a step of its handler without tokens of its own leaves
\* those of the others alone.
LEMMA MoveTokens ==
    ASSUME TypeOK, NEW p \in Reqs, pc[p] # "done", ~Saving(p),
           NEW s \in {"read", "acquire", "reread", "delete", "release"},
           pc' = [pc EXCEPT ![p] = s],
           \A q \in Reqs : q # p => work'[q] = work[q] /\ key'[q] = key[q]
    PROVE  RequestsKeepTokens
  BY DEF TypeOK, RequestTypes, RequestsKeepTokens, Saving

\* So does one that returns towards the deferred Release of Handler.Refresh.
LEMMA LeaveTokens ==
    ASSUME TypeOK, NEW p \in Reqs, NEW o, Leave(p, o), pc[p] # "done", ~Saving(p),
           \A q \in Reqs : q # p => work'[q] = work[q]
    PROVE  RequestsKeepTokens
  BY MoveTokens DEF Leave

\* A login starts with a refresh token that nobody else has.
LEMMA LoginTokens ==
    ASSUME TypeOK, TokenInv, NEW p \in Reqs, NEW k \in Keys,
           NEW l \in TokenLifetimes, Login(p, k, l)
    PROVE  TokenInv'
<1> USE InstType
<1>1. /\ pc[p] = "idle"
      /\ \A q \in Reqs : q # p =>
            /\ pc'[q] = pc[q] /\ key'[q] = key[q] /\ work'[q] = work[q]
            /\ idpRT'[q] = idpRT[q]
      /\ pc'[p] = "write" /\ idpRT'[p] = 1 /\ work'[p].inst = p /\ work'[p].rt = 1
      /\ store' = store
  BY DEF Login, TypeOK, StoreTypes, RequestTypes, storeVars
<1>2. FreshLogin'
  BY <1>1 DEF TokenInv, FreshLogin
<1>3. StoredToken'
  <2>1. \A i \in Keys : store[i] # None => store[i].inst # p
    BY <1>1 DEF TokenInv, StoredToken, FromLogin
  <2> QED BY <1>1, <2>1 DEF TokenInv, StoredToken, FromLogin, Current, Saving
<1>4. HeldToken'
  <2>1. \A q \in Reqs : pc[q] = "grant" \/ Saving(q) => work[q].inst # p /\ q # p
    BY <1>1 DEF TokenInv, HeldToken, FromLogin, Saving
  <2> QED BY <1>1, <2>1 DEF TokenInv, HeldToken, FromLogin, Current, Saving
<1> QED BY <1>2, <1>3, <1>4 DEF TokenInv

\* Its write stores the token that it has just got.
LEMMA WriteTokens ==
    ASSUME TypeOK, TokenInv, NEW p \in Reqs, Write(p)
    PROVE  TokenInv'
<1> USE InstType
<1>1. /\ pc[p] = "write" /\ key[p] \in Keys
      /\ work[p].inst = p /\ work[p].rt = 1 /\ idpRT[p] = 1
    BY DEF Write, TokenInv, FreshLogin
<1>2. /\ pc'[p] = "done" /\ key' = key /\ idpRT' = idpRT
      /\ \A q \in Reqs : q # p => pc'[q] = pc[q] /\ work'[q] = work[q]
      /\ store'[key[p]] = work[p]
      /\ \A k \in Keys : k # key[p] => store'[k] = store[k]
  BY <1>1 DEF Write, Respond, Put, TypeOK, StoreTypes, RequestTypes
<1>3. FreshLogin'
  BY <1>2 DEF TokenInv, FreshLogin
<1>4. StoredToken'
  <2>1. \A q \in Reqs : Saving(q) => Saving(q)'
    BY <1>1, <1>2 DEF Saving
  <2> QED BY <1>1, <1>2, <2>1 DEF TokenInv, StoredToken, FromLogin, Current
<1>5. HeldToken'
  BY <1>1, <1>2 DEF TokenInv, HeldToken, FromLogin, Current, Saving
<1> QED BY <1>3, <1>4, <1>5 DEF TokenInv

\* The second read gives the holder the accepted token: a stale one would be
\* under the hands of another holder.
LEMMA RereadTokens ==
    ASSUME TypeOK, TokenInv, MutualExclusion, Backend = "redis",
           NEW p \in Reqs, Reread(p)
    PROVE  TokenInv'
<1> USE InstType
<1> DEFINE d == store[key[p]]
<1>1. /\ pc[p] = "reread" /\ key[p] \in Keys
      /\ idpRT' = idpRT /\ store' = store
    BY DEF Reread, storeVars, TypeOK, LocalData, InFlight
<1>2. CASE d = None \/ ~canRefresh(d) \/ isTimedOut(d.md, now)
  <2>1. \E o : Leave(p, o)
    BY <1>2 DEF Reread
  <2>2. \A q \in Reqs : q # p => work'[q] = work[q]
    BY <1>1, <1>2 DEF Reread, TypeOK, RequestTypes
  <2>3. RequestsKeepTokens
    BY <1>1, <2>1, <2>2, LeaveTokens DEF Saving
  <2> QED BY <1>1, <2>3, NoTokenStepKeeps DEF NoTokenStep, RequestsKeepTokens
<1>3. CASE ~(d = None \/ ~canRefresh(d) \/ isTimedOut(d.md, now))
  <2>1. /\ d # None /\ canRefresh(d)
        /\ pc' = [pc EXCEPT ![p] = "grant"]
        /\ work' = [work EXCEPT ![p] = d]
        /\ UNCHANGED key
    BY <1>3 DEF Reread
  <2>2. \A q \in Reqs : ~(Saving(q) /\ key[q] = key[p])
    BY <1>1 DEF MutualExclusion, Critical, Holding, Saving
  <2>3. FromLogin(d, key[p]) /\ Current(d)
    BY <1>1, <2>1, <2>2 DEF TokenInv, StoredToken
  <2>4. d.rt = idpRT[d.inst]
    BY <1>1, <2>1, <2>3 DEF Current, canRefresh, HasRefreshToken, Data
  <2> HIDE DEF d
  <2>5. /\ pc'[p] = "grant" /\ work'[p] = d
        /\ \A q \in Reqs : q # p => pc'[q] = pc[q] /\ work'[q] = work[q]
    BY <2>1 DEF TypeOK, RequestTypes
  <2>6. FreshLogin'
    BY <1>1, <2>1, <2>5 DEF TokenInv, FreshLogin
  <2>7. \A q \in Reqs : (Saving(q)' <=> Saving(q)) /\ (pc[q] = "done" => pc'[q] = "done")
    BY <1>1, <2>5 DEF Saving
  <2>8. StoredToken'
    BY <1>1, <2>1, <2>7 DEF TokenInv, StoredToken, FromLogin, Current
  <2>9. d.inst \in Reqs
    BY <1>1, <2>1 DEF d
  <2>10. HeldToken'
    BY <1>1, <2>1, <2>3, <2>4, <2>5, <2>7, <2>9
       DEF TokenInv, HeldToken, FromLogin, Current
  <2> QED BY <2>6, <2>8, <2>10 DEF TokenInv
<1> QED BY <1>2, <1>3

\* A grant invalidates the token in the store, but nobody else can be using
\* it: every user of a login's token is a holder of that login's key.
LEMMA GrantTokens ==
    ASSUME TypeOK, TokenInv, MutualExclusion, Backend = "redis", NEW p \in Reqs,
           NEW reply \in IdpReplies, NEW l \in TokenLifetimes, Grant(p, reply, l)
    PROVE  TokenInv'
<1> USE InstType
<1> DEFINE i == work[p].inst
<1>1. /\ pc[p] = "grant" /\ key[p] \in Keys /\ i \in Reqs /\ work[p] \in Data
      /\ work[p].rt = idpRT[i]
      /\ pc[i] = "done" /\ key[i] = key[p]
  BY DEF Grant, TokenInv, HeldToken, FromLogin
<1>2. /\ key' = key /\ store' = store
      /\ pc'[p] = "update"
      /\ \A q \in Reqs : q # p => pc'[q] = pc[q] /\ work'[q] = work[q]
      /\ \A j \in Reqs : j # i => idpRT'[j] = idpRT[j]
  BY <1>1 DEF Grant, storeVars, TypeOK, StoreTypes, RequestTypes
<1>3. /\ work'[p].inst = i
      /\ work'[p].rt \in {0, idpRT'[i]}
  <2>1. /\ idpRT'[i] = IF reply = "rotate" THEN idpRT[i] + 1 ELSE idpRT[i]
        /\ work'[p] = Granted(work[p], reply, l)
    BY <1>1 DEF Grant, TypeOK, StoreTypes, RequestTypes
  <2> QED BY <1>1, <2>1 DEF Granted
<1> HIDE DEF i
<1>4. \A q \in Reqs : (pc[q] = "grant" \/ Saving(q)) /\ q # p => key[q] # key[p]
  BY <1>1 DEF MutualExclusion, Critical, Holding, Saving
<1>5. \A q \in Reqs : (pc[q] = "grant" \/ Saving(q)) /\ q # p => work[q].inst # i
  BY <1>1, <1>4 DEF TokenInv, HeldToken, FromLogin
<1>6. \A q \in Reqs : (Saving(q) => Saving(q)') /\ (pc[q] = "done" => pc'[q] = "done")
  BY <1>1, <1>2 DEF Saving
<1>7. FreshLogin'
  BY <1>1, <1>2 DEF TokenInv, FreshLogin
<1>8. StoredToken'
  <2> SUFFICES ASSUME NEW k \in Keys, store[k] # None
               PROVE  /\ pc'[store[k].inst] = "done" /\ key[store[k].inst] = k
                      /\ \/ store[k].rt \in {0, idpRT'[store[k].inst]}
                         \/ \E q \in Reqs : Saving(q)' /\ key[q] = k
    BY <1>2 DEF StoredToken, FromLogin, Current
  <2>1. FromLogin(store[k], k) /\ store[k].inst \in Reqs
    BY DEF TokenInv, StoredToken
  <2>2. pc'[store[k].inst] = "done" /\ key[store[k].inst] = k
    BY <1>6, <2>1 DEF FromLogin
  <2>3. CASE store[k].inst = i
    <3>1. Saving(p)' /\ key[p] = k
      BY <1>1, <1>2, <2>1, <2>3 DEF Saving, FromLogin
    <3> QED BY <2>2, <3>1
  <2>4. CASE store[k].inst # i
    BY <1>2, <1>6, <2>1, <2>2, <2>4 DEF TokenInv, StoredToken, Current
  <2> QED BY <2>3, <2>4
<1>9. HeldToken'
  <2> SUFFICES ASSUME NEW q \in Reqs, pc'[q] = "grant" \/ Saving(q)'
               PROVE  /\ FromLogin(work[q], key[q])'
                      /\ pc'[q] = "grant" => work'[q].rt = idpRT'[work'[q].inst]
                      /\ Saving(q)' => Current(work[q])'
    BY DEF HeldToken
  <2>1. CASE q = p
    BY <1>1, <1>2, <1>3, <1>6, <2>1 DEF FromLogin, Current, Saving
  <2>2. CASE q # p
    <3>1. /\ pc[q] = "grant" \/ Saving(q)
          /\ pc'[q] = pc[q] /\ work'[q] = work[q] /\ work[q].inst # i
          /\ work[q].inst \in Reqs
      BY <1>2, <1>5, <2>2 DEF Saving
    <3> QED BY <1>2, <1>6, <3>1 DEF TokenInv, HeldToken, FromLogin, Current, Saving
  <2> QED BY <2>1, <2>2
<1> QED BY <1>7, <1>8, <1>9 DEF TokenInv

\* Store.Update stops only when there is no session left to be stale.
LEMMA UpdateReadTokens ==
    ASSUME TypeOK, TokenInv, NEW p \in Reqs, UpdateRead(p)
    PROVE  TokenInv'
<1> USE InstType
<1>1. /\ pc[p] = "update" /\ key[p] \in Keys
      /\ idpRT' = idpRT /\ store' = store /\ work' = work /\ key' = key
  BY DEF UpdateRead, Leave, storeVars
<1>2. CASE store[key[p]] = None
  <2>1. /\ pc'[p] = "release"
        /\ \A q \in Reqs : q # p => pc'[q] = pc[q]
    BY <1>2 DEF UpdateRead, Leave, TypeOK, RequestTypes
  <2>2. \A q \in Reqs : pc[q] = "done" => pc'[q] = "done"
    BY <1>1, <2>1
  <2>3. FreshLogin'
    BY <1>1, <2>1 DEF TokenInv, FreshLogin
  <2>4. StoredToken'
    BY <1>1, <1>2, <2>1, <2>2 DEF TokenInv, StoredToken, FromLogin, Current, Saving
  <2>5. HeldToken'
    BY <1>1, <2>1, <2>2 DEF TokenInv, HeldToken, FromLogin, Current, Saving
  <2> QED BY <2>3, <2>4, <2>5 DEF TokenInv
<1>3. CASE store[key[p]] # None
  <2>1. pc' = [pc EXCEPT ![p] = "set"]
    BY <1>3 DEF UpdateRead
  <2>2. NoTokenStep
    BY <1>1, <2>1 DEF NoTokenStep, Saving, TypeOK, RequestTypes
  <2> QED BY <2>2, NoTokenStepKeeps
<1> QED BY <1>2, <1>3

\* The SET stores the accepted token.
LEMMA SetTokens ==
    ASSUME TypeOK, TokenInv, NEW p \in Reqs, Set(p)
    PROVE  TokenInv'
<1> USE InstType
<1>1. /\ pc[p] = "set" /\ key[p] \in Keys /\ work[p] \in Data
      /\ FromLogin(work[p], key[p]) /\ Current(work[p]) /\ work[p].inst \in Reqs
  BY DEF Set, TokenInv, HeldToken, Saving
<1>2. /\ idpRT' = idpRT /\ work' = work /\ key' = key
      /\ pc'[p] = "release"
      /\ \A q \in Reqs : q # p => pc'[q] = pc[q]
      /\ store'[key[p]] = work[p]
      /\ \A k \in Keys : k # key[p] => store'[k] = store[k]
  BY <1>1 DEF Set, SetKeepTTL, Leave, TypeOK, StoreTypes, RequestTypes
<1>3. \A q \in Reqs : pc[q] = "done" => pc'[q] = "done"
  BY <1>1, <1>2
<1>4. FreshLogin'
  BY <1>1, <1>2 DEF TokenInv, FreshLogin
<1>5. StoredToken'
  BY <1>1, <1>2, <1>3 DEF TokenInv, StoredToken, FromLogin, Current, Saving
<1>6. HeldToken'
  BY <1>1, <1>2, <1>3 DEF TokenInv, HeldToken, FromLogin, Current, Saving
<1> QED BY <1>4, <1>5, <1>6 DEF TokenInv

\* Every other step touches no token.
LEMMA OtherTokens ==
    ASSUME TypeOK, TokenInv, NEW p \in Reqs,
           \/ Refuse(p) \/ \E k \in Keys : Arrive(p, k)
           \/ ProxyRead(p) \/ RefreshRead(p) \/ SessionRead(p) \/ LogoutRead(p)
           \/ Delete(p) \/ Acquire(p) \/ AcquireTimesOut(p) \/ GrantRejected(p)
           \/ Release(p)
    PROVE  TokenInv'
<1> USE InstType
<1>1. RequestsKeepTokens
  <2>1. CASE \E a : Respond(p, a) /\ ~Saving(p)
    BY <2>1, RespondTokens
  <2>2. CASE \E o : Leave(p, o) /\ UNCHANGED work /\ pc[p] = "grant"
    BY <2>2, LeaveTokens DEF Saving
  <2>3. CASE \E t \in {"read", "acquire", "reread", "delete"} :
                /\ pc' = [pc EXCEPT ![p] = t] /\ UNCHANGED work
                /\ pc[p] \in {"idle", "read", "acquire"}
                /\ key' = key \/ \E k : key' = [key EXCEPT ![p] = k]
    BY <2>3, MoveTokens DEF Saving, TypeOK, RequestTypes
  <2> QED BY <2>1, <2>2, <2>3
          DEF Refuse, Arrive, ProxyRead, RefreshRead, SessionRead, LogoutRead, Delete,
              Acquire, AcquireTimesOut, GrantRejected, Release, EnterRefresh, Saving,
              Waiting
<1>2. idpRT' = idpRT /\ \A k \in Keys : store'[k] = store[k] \/ store'[k] = None
  BY DEF Refuse, Arrive, ProxyRead, RefreshRead, SessionRead, LogoutRead, Delete,
         Remove, Acquire, AcquireTimesOut, GrantRejected, Release, storeVars, TypeOK,
         StoreTypes
<1> QED BY <1>1, <1>2, NoTokenStepKeeps DEF NoTokenStep, RequestsKeepTokens

\* No step of a request fails.
LEMMA NoFault ==
    ASSUME NoFailures, NEW p \in Reqs
    PROVE  ~Fault(p)
  BY DEF NoFailures, Fault, ReadFails, RereadFails, UpdateReadFails, ReleaseFails,
         AcquireFails, DeleteFails, WriteFails, GrantFails, SetFails, Crash, MayFail

\* While nothing fails, every refresh token in the Redis store or in the hands of
\* a holder of the lock is the accepted one, or is about to be replaced.
LEMMA TokenInvariant == Spec => [](NoFailures => TokenInv)
<1>1. Init => TokenInv
  BY DEF Init, TokenInv, FreshLogin, StoredToken, HeldToken, Saving
<1>2. TypeOK /\ ("slow" \notin Faults => MutualExclusion)
        /\ (NoFailures => TokenInv) /\ [Next]_vars => (NoFailures => TokenInv')
  <2> SUFFICES ASSUME TypeOK, "slow" \notin Faults => MutualExclusion, NoFailures,
                      TokenInv, [Next]_vars
               PROVE  TokenInv'
    OBVIOUS
  <2>0. MutualExclusion /\ Backend = "redis"
    BY DEF NoFailures
  <2>1. ASSUME NEW p \in Reqs, Begin(p) PROVE TokenInv'
    BY <2>1, LoginTokens, OtherTokens DEF Begin
  <2>2. ASSUME NEW p \in Reqs, Step(p) PROVE TokenInv'
    BY <2>0, <2>2, WriteTokens, RereadTokens, GrantTokens, UpdateReadTokens,
       SetTokens, OtherTokens DEF Step
  <2>3. ASSUME NEW p \in Reqs PROVE ~Fault(p)
    BY NoFault
  <2>4. CASE Tick
    <3>1. UNCHANGED <<idpRT, pc, key, work>>
      BY <2>4 DEF Tick, reqVars
    <3>2. \A k \in Keys : store'[k] = store[k] \/ store'[k] = None
      BY <2>4 DEF Tick
    <3>3. NoTokenStep
      BY <3>1, <3>2 DEF NoTokenStep, Saving
    <3> QED BY <3>3, NoTokenStepKeeps
  <2>5. ~Restart
    BY DEF NoFailures, Restart
  <2>6. CASE Finished \/ UNCHANGED vars
    <3>1. NoTokenStep
      BY <2>6 DEF Finished, vars, NoTokenStep, Saving
    <3> QED BY <3>1, NoTokenStepKeeps
  <2> QED BY <2>1, <2>2, <2>3, <2>4, <2>5, <2>6 DEF Next
<1>3. NoFailures' <=> NoFailures
  BY DEF NoFailures
<1> QED BY <1>1, <1>2, <1>3, TypeCorrect, RefreshExcludes, PTL DEF Spec

\* When nothing fails, Handler.Refresh never presents a refresh token that the
\* provider has already replaced.
THEOREM RefreshTokenUsedOnce == Spec => [](NoFailures => NoRefreshTokenReuse)
<1>1. TokenInv => NoRefreshTokenReuse
  BY DEF TokenInv, HeldToken, NoRefreshTokenReuse
<1> QED BY <1>1, TokenInvariant, PTL

\* And between refreshes the store holds the token that the provider accepts.
THEOREM StoredTokenAccepted == Spec => [](NoFailures => StoredTokenUsable)
<1>1. TokenInv => StoredTokenUsable
  BY DEF TokenInv, StoredToken, StoredTokenUsable, Current, Saving, Critical, Holding
<1> QED BY <1>1, TokenInvariant, PTL

-----------------------------------------------------------------------------
(***************************************************************************)
(* SessionHandler implements AtomicSession.                                *)
(***************************************************************************)
\* What Session is, while no two requests update one session.
SessionFacts ==
    \A k \in Keys :
        /\ \A p \in Reqs : pc[p] = "set" /\ key[p] = k => Session(k) = work[p]
        /\ \A p \in Reqs : pc[p] = "update" /\ key[p] = k =>
                              Session(k) = IF store[k] = None THEN None ELSE work[p]
        /\ (\A p \in Reqs : Saving(p) => key[p] # k) => Session(k) = store[k]

\* The session has not changed since the holder of its lock has read it.
GrantSame ==
    \A p \in Reqs : pc[p] = "grant" /\ store[key[p]] # None => store[key[p]] = work[p]

\* A TTL in Redis is that of a session, and ends with it.
TTLEnds ==
    \A k \in Keys : expiry[k] # NoTTL =>
        store[k] # None /\ expiry[k] = store[k].md.endsAt

\* Stored and carried data of one key is of one login.
OneInst ==
    /\ \A p, q \in Reqs : Carries(p) /\ Carries(q) /\ key[p] = key[q]
                             => work[p].inst = work[q].inst
    /\ \A p \in Reqs : Carries(p) /\ store[key[p]] # None
                          => store[key[p]].inst = work[p].inst

RefinementInv ==
    /\ TypeOK /\ MutualExclusion /\ TokenInv /\ OriginInv /\ HistoryInv /\ WrittenNow
    /\ OneLoginPerKey /\ \A p \in Reqs : Roles(p)

\* Follows from the invariants.
LEMMA SessionIs ==
    ASSUME TypeOK, MutualExclusion, NoFailures
    PROVE  SessionFacts
<1> SUFFICES ASSUME NEW k \in Keys
             PROVE  /\ \A p \in Reqs : pc[p] = "set" /\ key[p] = k => Session(k) = work[p]
                    /\ \A p \in Reqs : pc[p] = "update" /\ key[p] = k =>
                              Session(k) = IF store[k] = None THEN None ELSE work[p]
                    /\ (\A p \in Reqs : Saving(p) => key[p] # k) => Session(k) = store[k]
  BY DEF SessionFacts
<1>1. \A p, q \in Reqs : Saving(p) /\ Saving(q) /\ key[p] = k /\ key[q] = k => p = q
  BY DEF MutualExclusion, NoFailures, Saving, Critical, Holding
<1>2. ASSUME NEW p \in Reqs, pc[p] = "set", key[p] = k PROVE Session(k) = work[p]
  <2>1. Updating(k, {"set"}) = {p}
    BY <1>1, <1>2 DEF Updating, Saving
  <2> QED BY <2>1 DEF Session
<1>3. ASSUME NEW p \in Reqs, pc[p] = "update", key[p] = k
      PROVE  Session(k) = IF store[k] = None THEN None ELSE work[p]
  <2>1. Updating(k, {"update"}) = {p} /\ Updating(k, {"set"}) = {}
    BY <1>1, <1>3 DEF Updating, Saving
  <2> QED BY <2>1 DEF Session
<1>4. ASSUME \A p \in Reqs : Saving(p) => key[p] # k PROVE Session(k) = store[k]
  <2>1. Updating(k, {"update"}) = {} /\ Updating(k, {"set"}) = {}
    BY <1>4 DEF Updating, Saving
  <2> QED BY <2>1 DEF Session
<1> QED BY <1>2, <1>3, <1>4

\* Follows from the origins of data, where each login has a key of its own.
LEMMA InstIs ==
    ASSUME RefinementInv
    PROVE  /\ OneInst
           /\ \A k \in Keys : store[k] # None =>
                 KindOf[store[k].inst] = "login" /\ key[store[k].inst] = k
           /\ \A p \in Reqs : Carries(p) =>
                 KindOf[work[p].inst] = "login" /\ key[work[p].inst] = key[p]
<1>1. /\ \A k \in Keys : store[k] # None => store[k].inst \in Reqs
      /\ \A p \in Reqs : Carries(p) =>
            work[p].inst \in Reqs /\ key[p] \in Keys /\ key[p] # None
  BY DataTypes, HandlerAssumption DEF RefinementInv
<1>2. /\ \A k \in Keys : store[k] # None =>
            KindOf[store[k].inst] = "login" /\ key[store[k].inst] = k
      /\ \A p \in Reqs : Carries(p) =>
            KindOf[work[p].inst] = "login" /\ key[work[p].inst] = key[p]
  BY DEF RefinementInv, OriginInv, StoredOrigin, CarriedOrigin, Origin
<1> QED BY <1>1, <1>2 DEF OneInst, RefinementInv, OneLoginPerKey

\* All data of one key has one lifetime.
LEMMA OneLifetime ==
    ASSUME RefinementInv
    PROVE  /\ \A p \in Reqs : Carries(p) => work[p] \in Data /\ work[p] \in Held
           /\ \A p \in Reqs : Carries(p) /\ store[key[p]] # None =>
                 /\ work[p].inst = store[key[p]].inst
                 /\ work[p].md.endsAt = store[key[p]].md.endsAt
<1>1. \A p \in Reqs : Carries(p) => key[p] \in Keys /\ work[p] \in Data /\ work[p] \in Held
  BY DataTypes DEF RefinementInv, Held
<1>2. \A k \in Keys : store[k] # None => store[k] \in Held
  BY DEF Held
<1>3. /\ Agree
      /\ \A d \in Held : d.md.endsAt = d.md.createdAt + MaxLifetime
  BY DEF RefinementInv, HistoryInv, Times
<1>4. ASSUME NEW p \in Reqs, Carries(p), store[key[p]] # None
      PROVE  /\ work[p].inst = store[key[p]].inst
             /\ work[p].md.endsAt = store[key[p]].md.endsAt
  <2>1. work[p].inst = store[key[p]].inst
    BY <1>4, InstIs DEF OneInst
  <2>2. work[p] \in Held /\ store[key[p]] \in Held
    BY <1>1, <1>2, <1>4
  <2>3. work[p].md.createdAt = store[key[p]].md.createdAt
    BY <1>3, <2>1, <2>2 DEF Agree
  <2> QED BY <1>3, <2>1, <2>2, <2>3
<1> QED BY <1>1, <1>4

\* While a holder has the lock, nobody else writes its session.
LEMMA GrantSameNext ==
    ASSUME RefinementInv, NoFailures, GrantSame, [Next]_vars
    PROVE  GrantSame'
<1> SUFFICES ASSUME NEW q \in Reqs, pc'[q] = "grant", store'[key'[q]] # None
             PROVE  store'[key'[q]] = work'[q]
  BY DEF GrantSame
<1>1. TypeOK
  BY DEF RefinementInv
<1>2. Kept(q) \/ Reread1(q)
  <2>1. WorkFlow(q) /\ Carries(q)'
    BY <1>1, WorkFlows DEF Carries
  <2> QED BY <2>1 DEF WorkFlow, Made, Renewed
<1>3. CASE Reread1(q)
  BY <1>3 DEF Reread1
<1>4. CASE Kept(q)
  <2>1. pc[q] = "grant" /\ work'[q] = work[q] /\ key'[q] = key[q]
    BY <1>4 DEF Kept
  <2>2. key[q] \in Keys
    BY <1>1, <2>1, DataTypes DEF Carries
  <2>3. StoreFlow(key[q])
    BY <1>1, <2>2, StoreFlows
  <2>4. ASSUME NEW p \in Reqs, pc[p] = "set", key[p] = key[q] PROVE FALSE
    BY <2>1, <2>4 DEF RefinementInv, MutualExclusion, NoFailures, Critical, Holding
  <2>5. ASSUME NEW p \in Reqs, pc[p] = "write", key[p] = key[q] PROVE FALSE
    <3>1. work[p].inst = p /\ work[q].inst = work[p].inst
      BY <2>1, <2>5, InstIs DEF OneInst, Carries, RefinementInv, OriginInv, CarriedOrigin
    <3>2. pc[work[q].inst] = "done"
      BY <2>1 DEF RefinementInv, TokenInv, HeldToken, FromLogin
    <3> QED BY <2>5, <3>1, <3>2
  <2>6. store'[key[q]] = store[key[q]]
    BY <2>1, <2>3, <2>4, <2>5 DEF StoreFlow
  <2> QED BY <2>1, <2>6 DEF GrantSame
<1> QED BY <1>2, <1>3, <1>4

\* Sessions and their TTLs go together.
LEMMA TTLGone ==
    ASSUME TypeOK, NoFailures, [Next]_vars, NEW k \in Keys, store'[k] = None
    PROVE  expiry'[k] = NoTTL \/ (store[k] = None /\ expiry'[k] = expiry[k])
<1>1. CASE UNCHANGED storeVars
  BY <1>1 DEF storeVars
<1>2. ASSUME NEW j, Remove(j)
      PROVE  expiry'[k] = NoTTL \/ (store[k] = None /\ expiry'[k] = expiry[k])
  BY <1>2 DEF Remove, TypeOK, StoreTypes
<1>3. ASSUME NEW j, NEW d, d # None, Put(j, d) \/ SetKeepTTL(j, d)
      PROVE  expiry'[k] = NoTTL \/ (store[k] = None /\ expiry'[k] = expiry[k])
  BY <1>3 DEF Put, SetKeepTTL, TypeOK, StoreTypes
<1>4. \A p \in Reqs : pc[p] \in {"write", "set"} => work[p] # None
  BY DataTypes, NoneAssumption DEF Carries
<1>5. ASSUME NEW p \in Reqs, Begin(p) PROVE UNCHANGED storeVars
  BY <1>5 DEF Begin, Arrive, Login, Refuse
<1>6. ASSUME NEW p \in Reqs, Step(p)
      PROVE  expiry'[k] = NoTTL \/ (store[k] = None /\ expiry'[k] = expiry[k])
  BY <1>1, <1>2, <1>3, <1>4, <1>6
     DEF Step, ProxyRead, RefreshRead, SessionRead, LogoutRead, Delete, Write, Acquire,
         AcquireTimesOut, Reread, Grant, GrantRejected, UpdateRead, Set, Release
<1>7. ASSUME NEW p \in Reqs PROVE ~Fault(p)
  BY NoFault
<1>8. ~Restart
  BY DEF NoFailures, Restart
<1>9. CASE Tick
  BY <1>9 DEF Tick, TypeOK, StoreTypes
<1> QED BY <1>1, <1>5, <1>6, <1>7, <1>8, <1>9, NextActs DEF Acts, vars, storeVars

\* A session is written with a TTL that ends with it, and a refresh keeps both.
LEMMA TTLEndsNext ==
    ASSUME RefinementInv, NoFailures, TTLEnds, [Next]_vars
    PROVE  TTLEnds'
<1> SUFFICES ASSUME NEW k \in Keys, expiry'[k] # NoTTL
             PROVE  store'[k] # None /\ expiry'[k] = store'[k].md.endsAt
  BY DEF TTLEnds
<1>1. TypeOK /\ MaxLifetime \in Int /\ now \in Int
  BY SessionConfigAssumption DEF RefinementInv, TypeOK, StoreTypes
<1>2. store'[k] # None
  BY <1>1, TTLGone DEF TTLEnds
<1>3. CASE store'[k] = store[k] /\ expiry'[k] = expiry[k]
  BY <1>3 DEF TTLEnds
<1>4. ASSUME NEW p \in Reqs, key[p] = k, store'[k] = work[p], pc[p] = "write",
             expiry'[k] = now + MaxLifetime
      PROVE  expiry'[k] = store'[k].md.endsAt
  <2>1. work[p] \in Held
    BY <1>4, OneLifetime DEF Carries
  <2>2. work[p].md.endsAt = work[p].md.createdAt + MaxLifetime /\ work[p].md.createdAt = now
    BY <1>4, <2>1 DEF RefinementInv, HistoryInv, Times, WrittenNow
  <2> QED BY <1>4, <2>2
<1>5. ASSUME NEW p \in Reqs, key[p] = k, store'[k] = work[p], pc[p] = "set",
             expiry'[k] = expiry[k]
      PROVE  expiry'[k] = store'[k].md.endsAt
  <2>1. store[k] # None /\ expiry[k] = store[k].md.endsAt
    BY <1>5 DEF TTLEnds
  <2> QED BY <1>5, <2>1, OneLifetime DEF Carries
<1>6. StoreFlow(k)
  BY <1>1, StoreFlows
<1> QED BY <1>2, <1>3, <1>4, <1>5, <1>6 DEF StoreFlow, NoFailures

\* All that a step needs to know.
StepInv == RefinementInv /\ SessionFacts /\ GrantSame /\ TTLEnds

\* A step that AtomicSession does not see.
LEMMA Unseen ==
    ASSUME now' = now, \A k \in Keys : Session(k)' = Session(k),
           \A i \in Logins : idpRT'[i] = idpRT[i] /\ Stage(i)' = Stage(i)
    PROVE  UNCHANGED Atomic!vars
<1>1. [k \in Keys |-> Summary(Session(k))]' = [k \in Keys |-> Summary(Session(k))]
  BY DEF Summary
<1>2. [i \in Logins |-> idpRT[i]]' = [i \in Logins |-> idpRT[i]]
  BY DEF Logins
<1>3. [i \in Logins |-> Stage(i)]' = [i \in Logins |-> Stage(i)]
  BY DEF Logins
<1> QED BY <1>1, <1>2, <1>3 DEF Atomic!vars

\* Steps that move no request in or out of an update, and write nothing.
Quiet ==
    /\ now' = now /\ store' = store /\ idpRT' = idpRT
    /\ \A q \in Reqs :
          /\ pc'[q] = "update" <=> pc[q] = "update"
          /\ pc'[q] = "set" <=> pc[q] = "set"
          /\ Saving(q) => work'[q] = work[q] /\ key'[q] = key[q]
          /\ q \in Logins => /\ pc'[q] = "idle" <=> pc[q] = "idle"
                             /\ pc'[q] = "write" <=> pc[q] = "write"

\* AtomicSession does not see them.
LEMMA QuietUnseen ==
    ASSUME StepInv, SessionFacts', Quiet
    PROVE  UNCHANGED Atomic!vars
<1>1. ASSUME NEW k \in Keys PROVE Session(k)' = Session(k)
  <2>1. CASE \E p \in Reqs : Saving(p) /\ key[p] = k
    <3>1. PICK p \in Reqs : Saving(p) /\ key[p] = k
      BY <2>1
    <3>2. pc'[p] = pc[p] /\ work'[p] = work[p] /\ key'[p] = k /\ store' = store
      BY <3>1 DEF Quiet, Saving
    <3> QED BY <3>1, <3>2 DEF SessionFacts, StepInv, Saving
  <2>2. CASE \A p \in Reqs : Saving(p) => key[p] # k
    <3>1. \A p \in Reqs : Saving(p)' => key'[p] # k
      BY <2>2 DEF Quiet, Saving
    <3>2. store'[k] = store[k]
      BY DEF Quiet
    <3> QED BY <2>2, <3>1, <3>2 DEF SessionFacts, StepInv
  <2> QED BY <2>1, <2>2
<1>2. \A i \in Logins : idpRT'[i] = idpRT[i] /\ Stage(i)' = Stage(i)
  BY DEF Quiet, Stage, Logins
<1> QED BY <1>1, <1>2, Unseen DEF Quiet

\* Most steps of requests are quiet.
LEMMA QuietSteps ==
    ASSUME TypeOK, NEW p \in Reqs,
           \/ Refuse(p) \/ \E k \in Keys : Arrive(p, k)
           \/ ProxyRead(p) \/ RefreshRead(p) \/ SessionRead(p) \/ LogoutRead(p)
           \/ Acquire(p) \/ AcquireTimesOut(p) \/ Reread(p) \/ GrantRejected(p)
           \/ Release(p)
    PROVE  Quiet
<1>1. UNCHANGED <<now, store, idpRT>>
  BY DEF Refuse, Arrive, ProxyRead, RefreshRead, SessionRead, LogoutRead, Acquire,
         AcquireTimesOut, Reread, GrantRejected, Release, storeVars
<1>2. /\ pc[p] \notin {"update", "set", "write"}
      /\ pc[p] = "idle" => KindOf[p] # "login"
      /\ \E s \in PCs \ {"update", "set", "write", "idle"} : pc' = [pc EXCEPT ![p] = s]
      /\ \A q \in Reqs : q # p => key'[q] = key[q] /\ work'[q] = work[q]
  <2>1. CASE (\E k \in Keys : Arrive(p, k)) \/ Refuse(p)
    BY <2>1 DEF Refuse, Arrive, Respond, PCs, TypeOK, RequestTypes
  <2>2. CASE ProxyRead(p) \/ RefreshRead(p) \/ SessionRead(p)
    BY <2>2 DEF ProxyRead, RefreshRead, SessionRead, Respond, EnterRefresh, PCs, Waiting,
                TypeOK, RequestTypes
  <2>3. CASE LogoutRead(p)
    BY <2>3 DEF LogoutRead, Respond, PCs, TypeOK, RequestTypes
  <2>4. CASE Acquire(p) \/ AcquireTimesOut(p)
    BY <2>4 DEF Acquire, AcquireTimesOut, Respond, PCs, Waiting, Holding, TypeOK, RequestTypes
  <2>5. CASE Reread(p)
    BY <2>5 DEF Reread, Leave, PCs, Holding, TypeOK, RequestTypes
  <2>6. CASE GrantRejected(p) \/ Release(p)
    BY <2>6 DEF GrantRejected, Release, Respond, Leave, PCs, Holding, TypeOK, RequestTypes
  <2> QED BY <2>1, <2>2, <2>3, <2>4, <2>5, <2>6
<1>3. /\ pc'[p] \notin {"update", "set", "write", "idle"}
      /\ \A q \in Reqs : q # p => pc'[q] = pc[q]
  BY <1>2 DEF TypeOK, RequestTypes
<1> QED BY <1>1, <1>2, <1>3 DEF Quiet, Saving, Logins

\* The maps of a step that changes one session, one login.
LEMMA MapExcept ==
    ASSUME NEW k \in Keys, \A j \in Keys : j # k => Session(j)' = Session(j)
    PROVE  [j \in Keys |-> Summary(Session(j))]' =
              [[j \in Keys |-> Summary(Session(j))] EXCEPT ![k] = Summary(Session(k))']
  BY DEF Summary

\* A step of a request on the session at k leaves the others alone.
LEMMA OtherSessions ==
    ASSUME StepInv, SessionFacts', NEW p \in Reqs, NEW k,
           \A q \in Reqs : q # p => /\ pc'[q] = pc[q] /\ work'[q] = work[q]
                                   /\ key'[q] = key[q],
           \A j \in Keys : j # k => store'[j] = store[j],
           Saving(p) => key[p] = k, Saving(p)' => key'[p] = k
    PROVE  \A j \in Keys : j # k => Session(j)' = Session(j)
<1> SUFFICES ASSUME NEW j \in Keys, j # k PROVE Session(j)' = Session(j)
  OBVIOUS
<1>1. CASE \E q \in Reqs : Saving(q) /\ key[q] = j
  <2>1. PICK q \in Reqs : Saving(q) /\ key[q] = j
    BY <1>1
  <2>2. /\ q # p /\ pc'[q] = pc[q] /\ work'[q] = work[q] /\ key'[q] = j
        /\ store'[j] = store[j]
    BY <2>1
  <2> QED BY <2>1, <2>2 DEF SessionFacts, StepInv, Saving
<1>2. CASE \A q \in Reqs : Saving(q) => key[q] # j
  <2>1. \A q \in Reqs : Saving(q)' => key'[q] # j
    BY <1>2 DEF Saving
  <2> QED BY <1>2, <2>1 DEF SessionFacts, StepInv
<1> QED BY <1>1, <1>2

\* A login begins: the provider has authorized it.
LEMMA LoginMaps ==
    ASSUME StepInv, SessionFacts', NEW p \in Reqs, NEW k \in Keys, NEW l \in TokenLifetimes,
           Login(p, k, l)
    PROVE  Atomic!Authorize(p)
<1>1. /\ pc[p] = "idle" /\ p \in Logins /\ now' = now /\ store' = store
      /\ pc' = [pc EXCEPT ![p] = "write"] /\ idpRT' = [idpRT EXCEPT ![p] = 1]
      /\ \A q \in Reqs : q # p => key'[q] = key[q] /\ work'[q] = work[q]
  BY DEF Login, Logins, storeVars, StepInv, RefinementInv, TypeOK, RequestTypes
<1>2. /\ pc'[p] = "write" /\ idpRT'[p] = 1
      /\ \A q \in Reqs : q # p => pc'[q] = pc[q] /\ idpRT'[q] = idpRT[q]
  BY <1>1 DEF StepInv, RefinementInv, TypeOK, RequestTypes, StoreTypes
<1>3. \A j \in Keys : Session(j)' = Session(j)
  <2>1. \A j \in Keys : j # None
    BY HandlerAssumption
  <2> QED BY <1>1, <1>2, <2>1, OtherSessions DEF Saving
<1>4. [j \in Keys |-> Summary(Session(j))]' = [j \in Keys |-> Summary(Session(j))]
  BY <1>3 DEF Summary
<1>5. [i \in Logins |-> idpRT[i]]' = [[i \in Logins |-> idpRT[i]] EXCEPT ![p] = 1]
  BY <1>1, <1>2 DEF Logins
<1>6. Stage(p) = "new" /\ Stage(p)' = "authorized" /\ \A i \in Logins : i # p => Stage(i)' = Stage(i)
  BY <1>1, <1>2 DEF Stage, Logins
<1>7. [i \in Logins |-> Stage(i)]' = [[i \in Logins |-> Stage(i)] EXCEPT ![p] = "authorized"]
  BY <1>1, <1>6 DEF Logins
<1> QED BY <1>1, <1>4, <1>5, <1>6, <1>7 DEF Atomic!Authorize

\* The first write makes the session: nobody can be updating it yet.
LEMMA WriteMaps ==
    ASSUME StepInv, SessionFacts', NoFailures, NEW p \in Reqs, Write(p),
           NEW k, k = key[p]
    PROVE  Atomic!Make(p, k)
<1>1. /\ pc[p] = "write" /\ k \in Keys /\ work[p] \in Data /\ p \in Logins
      /\ work[p].inst = p /\ work[p].rt = 1
  <2>1. pc[p] = "write"
    BY DEF Write
  <2>2. k \in Keys /\ work[p] \in Data
    BY <2>1, DataTypes DEF Carries, StepInv, RefinementInv
  <2> QED BY <2>1, <2>2 DEF StepInv, RefinementInv, Roles, Logins, TokenInv, FreshLogin
<1>2. /\ work[p].md.refreshedAt = now /\ work[p].md.endsAt = now + MaxLifetime
  <2>1. work[p] \in Held
    BY <1>1, OneLifetime DEF Carries, StepInv
  <2> QED BY <1>1, <2>1 DEF StepInv, RefinementInv, HistoryInv, Times, Unrefreshed, WrittenNow
<1>3. /\ now' = now /\ idpRT' = idpRT /\ key' = key
      /\ pc'[p] = "done" /\ store'[k] = work[p]
      /\ \A q \in Reqs : q # p => pc'[q] = pc[q] /\ work'[q] = work[q]
      /\ \A j \in Keys : j # k => store'[j] = store[j]
  BY <1>1 DEF Write, Put, Respond, StepInv, RefinementInv, TypeOK, RequestTypes, StoreTypes
<1>4. ASSUME NEW q \in Reqs, Saving(q), key[q] = k PROVE FALSE
  <2>1. work[q].inst = p
    BY <1>1, <1>4, InstIs DEF StepInv, OneInst, Carries, Saving
  <2>2. pc[work[q].inst] = "done"
    BY <1>4 DEF StepInv, RefinementInv, TokenInv, HeldToken, FromLogin
  <2> QED BY <1>1, <2>1, <2>2
<1>5. \A q \in Reqs : Saving(q)' <=> Saving(q)
  BY <1>1, <1>3 DEF Saving
<1>6. Session(k)' = work[p]
  BY <1>1, <1>3, <1>4, <1>5 DEF SessionFacts
<1>7. \A j \in Keys : j # k => Session(j)' = Session(j)
  BY <1>1, <1>3, OtherSessions DEF Saving
<1>8. Summary(Session(k))' = [login |-> p, rt |-> 1, refreshedAt |-> now,
                              endsAt |-> now + MaxLifetime]
  <2>1. work[p] # None
    BY <1>1, NoneAssumption
  <2> QED BY <1>1, <1>2, <1>6, <2>1 DEF Summary
<1>9. [j \in Keys |-> Summary(Session(j))]' =
         [[j \in Keys |-> Summary(Session(j))] EXCEPT
             ![k] = [login |-> p, rt |-> 1, refreshedAt |-> now, endsAt |-> now + MaxLifetime]]
  BY <1>1, <1>7, <1>8, MapExcept
<1>10. [i \in Logins |-> idpRT[i]]' = [i \in Logins |-> idpRT[i]]
  BY <1>3 DEF Logins
<1>11. Stage(p) = "authorized" /\ Stage(p)' = "made" /\ \A i \in Logins : i # p => Stage(i)' = Stage(i)
  BY <1>1, <1>3 DEF Stage, Logins
<1>12. [i \in Logins |-> Stage(i)]' = [[i \in Logins |-> Stage(i)] EXCEPT ![p] = "made"]
  BY <1>1, <1>11 DEF Logins
<1> QED BY <1>1, <1>3, <1>9, <1>10, <1>11, <1>12 DEF Atomic!Make

\* Summaries of data.
LEMMA SummaryOf ==
    ASSUME NEW d \in Data
    PROVE  /\ Summary(d) # None
           /\ Summary(d) = [login |-> d.inst, rt |-> d.rt,
                            refreshedAt |-> d.md.refreshedAt, endsAt |-> d.md.endsAt]
<1>1. d # None
  BY NoneAssumption
<1>2. /\ d.inst \in Reqs /\ d.rt \in Nat
      /\ d.md.refreshedAt \in Int /\ d.md.endsAt \in Int
  BY DEF Data, Metadata
<1>3. Summary(d) = [login |-> d.inst, rt |-> d.rt,
                    refreshedAt |-> d.md.refreshedAt, endsAt |-> d.md.endsAt]
  BY <1>1 DEF Summary
<1> QED BY <1>2, <1>3, SummaryAssumption

\* A logout ends the session, unless an update can no longer be stopped.
LEMMA DeleteMaps ==
    ASSUME StepInv, SessionFacts', NoFailures, NEW p \in Reqs, Delete(p),
           NEW k, k = key[p]
    PROVE  (k \in Keys /\ Atomic!End(k)) \/ UNCHANGED Atomic!vars
<1>1. /\ pc[p] = "delete" /\ k \in Keys /\ now' = now /\ idpRT' = idpRT /\ key' = key
      /\ pc'[p] = "done" /\ store'[k] = None
      /\ \A q \in Reqs : q # p => pc'[q] = pc[q] /\ work'[q] = work[q]
      /\ \A j \in Keys : j # k => store'[j] = store[j]
  BY DataTypes
     DEF Delete, Remove, Respond, StepInv, RefinementInv, TypeOK, RequestTypes, StoreTypes,
         InFlight
<1>2. \A j \in Keys : j # k => Session(j)' = Session(j)
  BY <1>1, OtherSessions DEF Saving
<1>3. \A q \in Reqs : (Saving(q)' <=> Saving(q)) /\ (pc'[q] = "set" <=> pc[q] = "set")
  BY <1>1 DEF Saving
<1>4. \A i \in Logins : idpRT'[i] = idpRT[i] /\ Stage(i)' = Stage(i)
  BY <1>1 DEF Stage, Logins
<1>5. CASE \E q \in Reqs : pc[q] = "set" /\ key[q] = k
  <2>1. PICK q \in Reqs : pc[q] = "set" /\ key[q] = k
    BY <1>5
  <2>2. Session(k)' = work[q] /\ Session(k) = work[q]
    BY <1>1, <2>1 DEF SessionFacts, StepInv
  <2> QED BY <1>1, <1>2, <1>4, <2>2, Unseen
<1>6. CASE \A q \in Reqs : pc[q] = "set" => key[q] # k
  <2>1. Session(k)' = None
    <3>1. CASE \E q \in Reqs : Saving(q) /\ key[q] = k
      <4>1. PICK q \in Reqs : Saving(q) /\ key[q] = k
        BY <3>1
      <4>2. pc'[q] = "update" /\ key'[q] = k
        BY <1>1, <1>6, <4>1 DEF Saving
      <4> QED BY <1>1, <4>2 DEF SessionFacts
    <3>2. CASE \A q \in Reqs : Saving(q) => key[q] # k
      BY <1>1, <1>3, <3>2 DEF SessionFacts
    <3> QED BY <3>1, <3>2
  <2>2. Session(k) = None \/ Session(k) \in Data
    <3>1. CASE \E q \in Reqs : Saving(q) /\ key[q] = k
      <4>1. PICK q \in Reqs : Saving(q) /\ key[q] = k
        BY <3>1
      <4>2. work[q] \in Data
        BY <4>1, DataTypes DEF StepInv, RefinementInv, Saving, Carries
      <4> QED BY <1>1, <1>6, <4>1, <4>2 DEF SessionFacts, StepInv, Saving
    <3>2. CASE \A q \in Reqs : Saving(q) => key[q] # k
      BY <1>1, <3>2 DEF SessionFacts, StepInv, RefinementInv, TypeOK, StoreTypes
    <3> QED BY <3>1, <3>2
  <2>3. CASE Session(k) = None
    BY <1>1, <1>2, <1>4, <2>1, <2>3, Unseen
  <2>4. CASE Session(k) \in Data
    <3>1. Summary(Session(k)) # None /\ Summary(Session(k))' = None
      BY <2>1, <2>4, SummaryOf DEF Summary
    <3>2. [j \in Keys |-> Summary(Session(j))]' =
             [[j \in Keys |-> Summary(Session(j))] EXCEPT ![k] = None]
      BY <1>1, <1>2, <3>1, MapExcept
    <3>3. /\ [i \in Logins |-> idpRT[i]]' = [i \in Logins |-> idpRT[i]]
          /\ [i \in Logins |-> Stage(i)]' = [i \in Logins |-> Stage(i)]
      BY <1>4 DEF Logins
    <3> QED BY <1>1, <3>1, <3>2, <3>3 DEF Atomic!End
  <2> QED BY <2>2, <2>3, <2>4
<1> QED BY <1>5, <1>6

\* Store.Update's read settles nothing: a session that is gone stays gone, and
\* one that is there has its new tokens already.
LEMMA UpdateReadMaps ==
    ASSUME StepInv, SessionFacts', NoFailures, NEW p \in Reqs, UpdateRead(p),
           NEW k, k = key[p]
    PROVE  UNCHANGED Atomic!vars
<1>1. /\ pc[p] = "update" /\ k \in Keys /\ now' = now /\ idpRT' = idpRT /\ key' = key
      /\ store' = store /\ work' = work
      /\ \/ pc'[p] = "release" /\ store[k] = None
         \/ pc'[p] = "set" /\ store[k] # None
      /\ \A q \in Reqs : q # p => pc'[q] = pc[q]
  BY DataTypes
     DEF UpdateRead, Leave, storeVars, StepInv, RefinementInv, TypeOK, RequestTypes,
         Carries
<1>2. \A j \in Keys : j # k => Session(j)' = Session(j)
  BY <1>1, OtherSessions DEF Saving
<1>3. \A i \in Logins : idpRT'[i] = idpRT[i] /\ Stage(i)' = Stage(i)
  BY <1>1 DEF Stage, Logins
<1>4. \A q \in Reqs : q # p /\ key[q] = k => ~Saving(q)
  BY <1>1 DEF StepInv, RefinementInv, MutualExclusion, NoFailures, Saving, Critical, Holding
<1>5. Session(k)' = Session(k)
  <2>1. Session(k) = IF store[k] = None THEN None ELSE work[p]
    BY <1>1 DEF StepInv, SessionFacts
  <2>2. CASE pc'[p] = "set" /\ store[k] # None
    BY <1>1, <2>1, <2>2 DEF SessionFacts
  <2>3. CASE pc'[p] = "release" /\ store[k] = None
    <3>1. \A q \in Reqs : Saving(q)' => key'[q] # k
      BY <1>1, <1>4, <2>3 DEF Saving
    <3> QED BY <1>1, <2>1, <2>3, <3>1 DEF SessionFacts
  <2> QED BY <1>1, <2>2, <2>3
<1> QED BY <1>1, <1>2, <1>3, <1>5, Unseen

\* And the SET stores what the session has been since the provider's answer.
LEMMA SetMaps ==
    ASSUME StepInv, SessionFacts', NoFailures, NEW p \in Reqs, Set(p),
           NEW k, k = key[p]
    PROVE  UNCHANGED Atomic!vars
<1>1. /\ pc[p] = "set" /\ k \in Keys /\ now' = now /\ idpRT' = idpRT /\ key' = key
      /\ work' = work /\ pc'[p] = "release" /\ store'[k] = work[p]
      /\ \A q \in Reqs : q # p => pc'[q] = pc[q]
      /\ \A j \in Keys : j # k => store'[j] = store[j]
  BY DataTypes
     DEF Set, SetKeepTTL, Leave, StepInv, RefinementInv, TypeOK, RequestTypes, StoreTypes,
         Carries
<1>2. \A j \in Keys : j # k => Session(j)' = Session(j)
  BY <1>1, OtherSessions DEF Saving
<1>3. \A i \in Logins : idpRT'[i] = idpRT[i] /\ Stage(i)' = Stage(i)
  BY <1>1 DEF Stage, Logins
<1>4. \A q \in Reqs : q # p /\ key[q] = k => ~Saving(q)
  BY <1>1 DEF StepInv, RefinementInv, MutualExclusion, NoFailures, Saving, Critical, Holding
<1>5. Session(k)' = work[p] /\ Session(k) = work[p]
  <2>1. \A q \in Reqs : Saving(q)' => key'[q] # k
    BY <1>1, <1>4 DEF Saving
  <2> QED BY <1>1, <2>1 DEF SessionFacts, StepInv
<1> QED BY <1>1, <1>2, <1>3, <1>5, Unseen

\* The provider's answer refreshes the session, or rotates the token of one that
\* has ended meanwhile.
LEMMA GrantMaps ==
    ASSUME StepInv, SessionFacts', NoFailures, NEW p \in Reqs,
           NEW reply \in IdpReplies, NEW l \in TokenLifetimes, Grant(p, reply, l),
           NEW k, k = key[p], NEW d, d = work[p]
    PROVE  \/ k \in Keys /\ Atomic!Refresh(k)
           \/ d.inst \in Logins /\ Atomic!Orphan(d.inst)
           \/ UNCHANGED Atomic!vars
<1> DEFINE i == d.inst
           g == Granted(d, reply, l)
<1>1. /\ pc[p] = "grant" /\ k \in Keys /\ d \in Data /\ d.rt = idpRT[i]
      /\ i \in Logins /\ i \in Reqs /\ pc[i] = "done" /\ key[i] = k /\ idpRT[i] \in Nat
  <2>1. pc[p] = "grant" /\ Carries(p)
    BY DEF Grant, Carries
  <2>2. k \in Keys /\ d \in Data /\ i \in Reqs
    BY <2>1, DataTypes DEF StepInv, RefinementInv
  <2>3. d.rt = idpRT[i] /\ pc[i] = "done" /\ key[i] = k
    BY <2>1 DEF StepInv, RefinementInv, TokenInv, HeldToken, FromLogin
  <2>4. i \in Logins
    BY <2>1, <2>2, InstIs DEF StepInv, Logins
  <2> QED BY <2>1, <2>2, <2>3, <2>4 DEF StepInv, RefinementInv, TypeOK, StoreTypes
<1>2. /\ now' = now /\ key' = key /\ store' = store
      /\ pc'[p] = "update" /\ work'[p] = g
      /\ \A q \in Reqs : q # p => pc'[q] = pc[q] /\ work'[q] = work[q]
      /\ idpRT'[i] = IF reply = "rotate" THEN idpRT[i] + 1 ELSE idpRT[i]
      /\ \A j \in Reqs : j # i => idpRT'[j] = idpRT[j]
  BY <1>1 DEF Grant, storeVars, StepInv, RefinementInv, TypeOK, RequestTypes, StoreTypes
<1>3. \A j \in Keys : j # k => Session(j)' = Session(j)
  BY <1>1, <1>2, OtherSessions DEF Saving
<1>4. \A q \in Reqs : key[q] = k => ~Saving(q)
  BY <1>1 DEF StepInv, RefinementInv, MutualExclusion, NoFailures, Saving, Critical, Holding
<1>5. /\ Session(k) = store[k]
      /\ Session(k)' = IF store[k] = None THEN None ELSE g
  BY <1>1, <1>2, <1>4 DEF SessionFacts, StepInv
<1>6. \A j \in Logins : Stage(j)' = Stage(j)
  BY <1>1, <1>2 DEF Stage, Logins
<1>7. [j \in Logins |-> Stage(j)]' = [j \in Logins |-> Stage(j)]
  BY <1>6 DEF Logins
<1>8. [j \in Logins |-> idpRT[j]]' =
         [[j \in Logins |-> idpRT[j]] EXCEPT ![i] = idpRT'[i]]
  BY <1>1, <1>2 DEF Logins
<1>9. CASE store[k] # None
  <2>1. store[k] = d
    BY <1>1, <1>9 DEF StepInv, GrantSame
  <2>2. now \in Nat \ {0}
    BY DEF StepInv, RefinementInv, TypeOK, StoreTypes
  <2>3. /\ g \in Data /\ g.inst = i /\ g.md.endsAt = d.md.endsAt /\ g.md.refreshedAt = now
    BY <1>1, <2>2, GrantedKeeps, GrantedData
  <2>4. g.rt = IF reply = "rotate" THEN d.rt + 1 ELSE IF reply = "keep" THEN d.rt ELSE 0
    BY DEF Granted
  <2> HIDE DEF g
  <2>5. Summary(Session(k)) = [login |-> i, rt |-> d.rt,
                               refreshedAt |-> d.md.refreshedAt, endsAt |-> d.md.endsAt]
        /\ Summary(Session(k)) # None
    BY <1>1, <1>5, <2>1, SummaryOf
  <2>6. Summary(Session(k))' = [login |-> i, rt |-> g.rt, refreshedAt |-> now,
                                endsAt |-> d.md.endsAt]
    <3>1. Session(k)' = g /\ g # None
      BY <1>5, <1>9, <2>3, NoneAssumption
    <3> QED BY <2>3, <3>1 DEF Summary
  <2> DEFINE S == [j \in Keys |-> Summary(Session(j))]
             A == [j \in Logins |-> idpRT[j]]
  <2>7. S' = [S EXCEPT ![k] = [login |-> i, rt |-> g.rt, refreshedAt |-> now,
                               endsAt |-> d.md.endsAt]]
    BY <1>1, <1>3, <2>6, MapExcept
  <2>8. S[k] = [login |-> i, rt |-> d.rt, refreshedAt |-> d.md.refreshedAt,
                endsAt |-> d.md.endsAt] /\ S[k] # None /\ A[i] = d.rt
    BY <1>1, <2>5
  <2>9. S' = [S EXCEPT ![k].rt = g.rt, ![k].refreshedAt = now]
    <3>1. S = [j \in Keys |-> S[j]]
      OBVIOUS
    <3> HIDE DEF S, A
    <3>2. [S EXCEPT ![k] = [login |-> i, rt |-> g.rt, refreshedAt |-> now,
                            endsAt |-> d.md.endsAt]] =
          [S EXCEPT ![k].rt = g.rt, ![k].refreshedAt = now]
      <4> DEFINE r == [login |-> i, rt |-> d.rt, refreshedAt |-> d.md.refreshedAt,
                       endsAt |-> d.md.endsAt]
                 r1 == [login |-> i, rt |-> g.rt, refreshedAt |-> d.md.refreshedAt,
                        endsAt |-> d.md.endsAt]
                 r2 == [login |-> i, rt |-> g.rt, refreshedAt |-> now,
                        endsAt |-> d.md.endsAt]
      <4>1. [r EXCEPT !.rt = g.rt] = r1 /\ [r1 EXCEPT !.refreshedAt = now] = r2
        BY SMT
      <4>2. k \in Keys /\ S[k] = r
        BY <1>1, <2>8
      <4> HIDE DEF r, r1, r2
      <4>3. [S EXCEPT ![k].rt = g.rt] = [S EXCEPT ![k] = r1]
        BY ONLY <4>1, <4>2
      <4>4. [S EXCEPT ![k] = r1][k] = r1
        BY ONLY <3>1, <4>2
      <4>5. [[S EXCEPT ![k] = r1] EXCEPT ![k] = r2] = [S EXCEPT ![k] = r2]
        BY ONLY <3>1, <4>2
      <4>6. [[S EXCEPT ![k] = r1] EXCEPT ![k].refreshedAt = now] = [S EXCEPT ![k] = r2]
        BY ONLY <4>1, <4>4, <4>5
      <4>7. [S EXCEPT ![k].rt = g.rt, ![k].refreshedAt = now] = [S EXCEPT ![k] = r2]
        BY ONLY <4>3, <4>6
      <4> QED BY ONLY <4>7 DEF r2
    <3> QED BY ONLY <2>7, <3>2
  <2>10. /\ g.rt \in {A[i] + 1, A[i], 0}
         /\ A' = [A EXCEPT ![i] = IF g.rt > A[i] THEN g.rt ELSE A[i]]
    <3>1. idpRT'[i] = IF g.rt > d.rt THEN g.rt ELSE d.rt
      BY <1>1, <1>2, <2>4
    <3> QED BY <1>1, <1>8, <2>4, <2>8, <3>1
  <2>11. Atomic!Refresh(k)
    <3>1. S[k] # None /\ S[k].login = i /\ S[k].rt = A[i]
      BY <2>8
    <3>2. /\ g.rt \in {A[S[k].login] + 1, A[S[k].login], 0}
          /\ A' = [A EXCEPT ![S[k].login] =
                       IF g.rt > A[S[k].login] THEN g.rt ELSE A[S[k].login]]
      <4> HIDE DEF S, A
      <4> QED BY ONLY <2>10, <3>1
    <3>3. /\ S[k] # None
          /\ S[k].rt = A[S[k].login]
          /\ \E rt \in {A[S[k].login] + 1, A[S[k].login], 0} :
                /\ S' = [S EXCEPT ![k].rt = rt, ![k].refreshedAt = now]
                /\ A' = [A EXCEPT ![S[k].login] = IF rt > @ THEN rt ELSE @]
      <4> HIDE DEF S, A
      <4>1. S[k] # None /\ S[k].rt = A[S[k].login]
        BY ONLY <3>1
      <4>2. \E rt \in {A[S[k].login] + 1, A[S[k].login], 0} :
               /\ S' = [S EXCEPT ![k].rt = rt, ![k].refreshedAt = now]
               /\ A' = [A EXCEPT ![S[k].login] = IF rt > @ THEN rt ELSE @]
        <5> g.rt \in {A[S[k].login] + 1, A[S[k].login], 0}
          BY ONLY <3>2
        <5> WITNESS g.rt \in {A[S[k].login] + 1, A[S[k].login], 0}
        <5> QED BY ONLY <2>9, <3>2
      <4> QED BY ONLY <4>1, <4>2
    <3>4. now' = now
      BY <1>2
    <3>5. UNCHANGED <<now, [j \in Logins |-> Stage(j)]>>
      BY ONLY <1>7, <3>4
    <3> QED BY ONLY <3>3, <3>5, Zenon DEF Atomic!Refresh
  <2> QED BY <1>1, <2>11
<1>10. CASE store[k] = None
  <2>1. Session(k)' = Session(k)
    BY <1>5, <1>10
  <2>2. \A j \in Keys : Session(j)' = Session(j)
    BY <1>3, <2>1
  <2>3. [j \in Keys |-> Summary(Session(j))]' = [j \in Keys |-> Summary(Session(j))]
    BY <2>2 DEF Summary
  <2>4. CASE reply = "rotate"
    <3>1. ASSUME NEW j \in Keys, Summary(Session(j)) # None
          PROVE  Summary(Session(j)).login # i
      <4>1. Session(j) \in Data /\ key[Session(j).inst] = j
        <5>1. CASE \E q \in Reqs : Saving(q) /\ key[q] = j
          <6>1. PICK q \in Reqs : Saving(q) /\ key[q] = j
            BY <5>1
          <6>2. Session(j) = work[q]
            BY <3>1, <6>1 DEF SessionFacts, StepInv, Saving, Summary
          <6> QED BY <6>1, <6>2, DataTypes, InstIs DEF StepInv, RefinementInv, Saving, Carries
        <5>2. CASE \A q \in Reqs : Saving(q) => key[q] # j
          <6>1. Session(j) = store[j] /\ store[j] # None
            BY <3>1, <5>2 DEF SessionFacts, StepInv, Summary
          <6> QED BY <6>1, DataTypes, InstIs DEF StepInv, RefinementInv
        <5> QED BY <5>1, <5>2
      <4>2. j # k
        BY <1>5, <1>10, <3>1 DEF Summary
      <4> QED BY <1>1, <4>1, <4>2, SummaryOf
    <3>2. Stage(i) = "made"
      BY <1>1 DEF Stage
    <3>3. Atomic!Orphan(i)
      BY <1>1, <1>2, <1>7, <1>8, <2>3, <2>4, <3>1, <3>2 DEF Atomic!Orphan
    <3> QED BY <1>1, <3>3
  <2>5. CASE reply # "rotate"
    <3>1. \A j \in Logins : idpRT'[j] = idpRT[j]
      BY <1>2, <2>5 DEF Logins
    <3> QED BY <1>2, <1>6, <2>2, <3>1, Unseen
  <2> QED BY <2>4, <2>5
<1> QED BY <1>9, <1>10

\* Time ends sessions with their TTL, and no earlier than their lifetime.
LEMMA TickMaps ==
    ASSUME StepInv, SessionFacts', NoFailures, Tick
    PROVE  Atomic!Tick
<1> DEFINE over == {k \in Keys : Session(k) # None /\ Session(k)' = None}
<1>1. /\ now' = now + 1 /\ idpRT' = idpRT /\ pc' = pc /\ key' = key /\ work' = work
      /\ \A k \in Keys : store'[k] = IF expiry[k] # NoTTL /\ expiry[k] <= now + 1
                                     THEN None ELSE store[k]
  BY DEF Tick, reqVars
<1>2. \A q \in Reqs : Saving(q)' <=> Saving(q)
  BY <1>1 DEF Saving
<1>3. ASSUME NEW k \in Keys
      PROVE  \/ Session(k)' = Session(k)
             \/ /\ Session(k)' = None /\ Session(k) \in Data
                /\ Session(k).md.endsAt <= now + 1
  <2>1. CASE store'[k] = store[k]
    <3>1. CASE \E q \in Reqs : Saving(q) /\ key[q] = k
      BY <1>1, <2>1, <3>1 DEF SessionFacts, StepInv, Saving
    <3>2. CASE \A q \in Reqs : Saving(q) => key[q] # k
      BY <1>1, <1>2, <2>1, <3>2 DEF SessionFacts, StepInv
    <3> QED BY <3>1, <3>2
  <2>2. CASE store'[k] # store[k]
    <3>1. /\ store'[k] = None /\ store[k] # None /\ expiry[k] = store[k].md.endsAt
          /\ store[k].md.endsAt <= now + 1 /\ store[k] \in Data
      BY <1>1, <2>2, DataTypes DEF StepInv, RefinementInv, TTLEnds
    <3>2. ASSUME NEW q \in Reqs, pc[q] = "set", key[q] = k PROVE Session(k)' = Session(k)
      BY <1>1, <3>2 DEF SessionFacts, StepInv
    <3>3. ASSUME NEW q \in Reqs, pc[q] = "update", key[q] = k
          PROVE  /\ Session(k)' = None /\ Session(k) \in Data
                 /\ Session(k).md.endsAt <= now + 1
      <4>1. Session(k)' = None /\ Session(k) = work[q]
        BY <1>1, <3>1, <3>3 DEF SessionFacts, StepInv
      <4>2. work[q] \in Data /\ work[q].md.endsAt = store[k].md.endsAt
        BY <3>1, <3>3, OneLifetime DEF StepInv, Carries
      <4> QED BY <3>1, <4>1, <4>2
    <3>4. CASE \A q \in Reqs : Saving(q) => key[q] # k
      BY <1>1, <1>2, <3>1, <3>4 DEF SessionFacts, StepInv
    <3> QED BY <3>2, <3>3, <3>4 DEF Saving
  <2> QED BY <2>1, <2>2
<1>4. ASSUME NEW k \in over
      PROVE  /\ k \in Keys /\ Summary(Session(k)) # None /\ Summary(Session(k))' = None
             /\ Summary(Session(k)).endsAt <= now'
  <2>1. k \in Keys /\ Session(k) # None /\ Session(k)' = None
    OBVIOUS
  <2>2. Session(k) \in Data /\ Session(k).md.endsAt <= now + 1
    BY <1>3, <2>1
  <2> QED BY <1>1, <2>1, <2>2, SummaryOf DEF Summary
<1>5. \A k \in Keys : k \notin over => Summary(Session(k))' = Summary(Session(k))
  <2>1. \A k \in Keys : k \notin over => Session(k)' = Session(k)
    BY <1>3, NoneAssumption
  <2> QED BY <2>1 DEF Summary
<1> HIDE DEF over
<1> DEFINE S == [k \in Keys |-> Summary(Session(k))]
<1>6. over \in SUBSET {k \in Keys : S[k] # None} /\ \A k \in over : S[k].endsAt <= now'
  BY <1>4
<1>7. S' = [k \in Keys |-> IF k \in over THEN None ELSE S[k]]
  BY <1>4, <1>5
<1>8. /\ [j \in Logins |-> idpRT[j]]' = [j \in Logins |-> idpRT[j]]
      /\ [j \in Logins |-> Stage(j)]' = [j \in Logins |-> Stage(j)]
  BY <1>1 DEF Logins, Stage
<1> QED BY <1>1, <1>6, <1>7, <1>8 DEF Atomic!Tick

\* Every step of SessionHandler is one of AtomicSession, or one it does not see.
LEMMA StepMaps ==
    ASSUME StepInv, SessionFacts', NoFailures, [Next]_vars
    PROVE  [Atomic!Next]_(Atomic!vars)
<1> DEFINE Seen == Atomic!Next \/ UNCHANGED Atomic!vars
<1> SUFFICES Seen
  OBVIOUS
<1>1. TypeOK
  BY DEF StepInv, RefinementInv
<1>2. ASSUME NEW p \in Reqs, Begin(p) PROVE Seen
  <2>1. ASSUME NEW k \in Keys, NEW l \in TokenLifetimes, Login(p, k, l) PROVE Seen
    <3>1. Atomic!Authorize(p)
      BY <2>1, LoginMaps
    <3>2. p \in Logins
      BY <2>1 DEF Login, Logins
    <3> QED BY <3>1, <3>2 DEF Atomic!Next
  <2>2. CASE Refuse(p) \/ \E k \in Keys : Arrive(p, k)
    BY <1>1, <2>2, QuietSteps, QuietUnseen
  <2> QED BY <1>2, <2>1, <2>2 DEF Begin
<1>3. ASSUME NEW p \in Reqs, Step(p) PROVE Seen
  <2>1. PICK k : k = key[p]
    OBVIOUS
  <2>2. PICK d : d = work[p]
    OBVIOUS
  <2>3. CASE Delete(p)
    BY <2>1, <2>3, DeleteMaps DEF Atomic!Next
  <2>4. CASE Write(p)
    <3>1. Atomic!Make(p, k)
      BY <2>1, <2>4, WriteMaps
    <3>2. pc[p] = "write" /\ Carries(p)
      BY <2>4 DEF Write, Carries
    <3>3. p \in Logins /\ k \in Keys
      BY <1>1, <2>1, <3>2, DataTypes DEF StepInv, RefinementInv, Roles, Logins
    <3> QED BY <3>1, <3>3 DEF Atomic!Next
  <2>5. ASSUME NEW reply \in IdpReplies, NEW l \in TokenLifetimes, Grant(p, reply, l)
        PROVE  Seen
    BY <2>1, <2>2, <2>5, GrantMaps DEF Atomic!Next
  <2>6. CASE UpdateRead(p)
    BY <2>1, <2>6, UpdateReadMaps
  <2>7. CASE Set(p)
    BY <2>1, <2>7, SetMaps
  <2>8. CASE \/ ProxyRead(p) \/ RefreshRead(p) \/ SessionRead(p) \/ LogoutRead(p)
             \/ Acquire(p) \/ AcquireTimesOut(p) \/ Reread(p) \/ GrantRejected(p)
             \/ Release(p)
    BY <1>1, <2>8, QuietSteps, QuietUnseen
  <2> HIDE DEF Seen
  <2> QED BY <1>3, <2>3, <2>4, <2>5, <2>6, <2>7, <2>8 DEF Step
<1>4. CASE Tick
  BY <1>4, TickMaps DEF Atomic!Next
<1>5. CASE Finished \/ UNCHANGED vars
  <2>1. Quiet
    BY <1>5 DEF Finished, vars, Quiet
  <2> QED BY <2>1, QuietUnseen
<1>6. ~Restart /\ \A p \in Reqs : ~Fault(p)
  BY NoFault DEF NoFailures, Restart
<1> HIDE DEF Seen
<1> QED BY <1>2, <1>3, <1>4, <1>5, <1>6 DEF Next

\* The initial state of SessionHandler is that of AtomicSession.
LEMMA InitMaps == Init => Atomic!Init
<1> SUFFICES ASSUME Init PROVE Atomic!Init
  OBVIOUS
<1>1. \A k \in Keys : Updating(k, {"set"}) = {} /\ Updating(k, {"update"}) = {}
  BY DEF Init, Updating
<1>2. \A k \in Keys : Session(k) = None
  BY <1>1 DEF Init, Session
<1>3. [k \in Keys |-> Summary(Session(k))] = [k \in Keys |-> None]
  BY <1>2 DEF Summary
<1>4. [i \in Logins |-> idpRT[i]] = [i \in Logins |-> 0]
  BY DEF Init, Logins
<1>5. [i \in Logins |-> Stage(i)] = [i \in Logins |-> "new"]
  BY DEF Init, Logins, Stage
<1>6. now = 1
  BY DEF Init
<1> QED BY <1>3, <1>4, <1>5, <1>6 DEF Atomic!Init

\* What the steps need of a state, while nothing fails.
LEMMA StepInvariant ==
    Spec /\ []OneLoginPerKey => [](NoFailures => StepInv)
<1> DEFINE Inv == GrantSame /\ TTLEnds
           AllRoles == \A p \in Reqs : Roles(p)
<1>1. Init => Inv
  BY DEF Init, GrantSame, TTLEnds
<1>2. TypeOK /\ ("slow" \notin Faults => MutualExclusion) /\ (NoFailures => TokenInv)
        /\ OriginInv /\ HistoryInv /\ (Punctual => WrittenNow) /\ OneLoginPerKey
        /\ AllRoles
        => (NoFailures => RefinementInv)
  BY DEF NoFailures, Punctual, RefinementInv
<1>3. (NoFailures => RefinementInv) /\ (NoFailures => Inv) /\ [Next]_vars
        => (NoFailures => Inv')
  BY GrantSameNext, TTLEndsNext
<1>4. RefinementInv /\ Inv /\ NoFailures => StepInv
  BY SessionIs DEF StepInv, RefinementInv
<1>5. NoFailures' <=> NoFailures
  BY DEF NoFailures
<1> HIDE DEF Inv, AllRoles
<1>6. Spec => []AllRoles
  BY RolesInvariant DEF AllRoles
<1> QED BY <1>1, <1>2, <1>3, <1>4, <1>5, <1>6, TypeCorrect, RefreshExcludes,
           TokenInvariant, OriginInvariant, HistoryInvariant, WrittenNowInvariant,
           PTL DEF Spec

\* With the Redis store, a session key of its own for each login and nothing
\* failing, the lock, the second read and the write of Handler.Refresh implement
\* the atomic exchange of tokens that AtomicSession promises, among logins, logouts
\* and expiry: every behaviour of SessionHandler is one of AtomicSession.
THEOREM Refinement ==
    Spec /\ []OneLoginPerKey => (NoFailures => ImplementsAtomicSession)
<1>1. (NoFailures => StepInv) /\ (NoFailures => StepInv)' /\ NoFailures /\ [Next]_vars
        => [Atomic!Next]_(Atomic!vars)
  <2>1. NoFailures' <=> NoFailures
    BY DEF NoFailures
  <2>2. StepInv' => SessionFacts'
    BY DEF StepInv
  <2> QED BY <2>1, <2>2, StepMaps
<1>2. NoFailures' <=> NoFailures
  BY DEF NoFailures
<1> QED BY <1>1, <1>2, InitMaps, StepInvariant, PTL
        DEF Spec, ImplementsAtomicSession, Atomic!Spec
=============================================================================
