---------------------------- MODULE SessionHandler ----------------------------
(***************************************************************************)
(* Concurrent requests on server-side sessions: pkg/session/handler.go,    *)
(* its two stores and its refresh lock, driven by the HTTP handlers that   *)
(* use them (reverseproxy, session, sessionrefresh, logout,                *)
(* logoutfrontchannel and the session part of logincallback).              *)
(*                                                                         *)
(* A request is one element of Reqs; it is handled once.  A step is one    *)
(* command to the store, to the lock or to the identity provider together  *)
(* with the local computation up to the next command.  Requests may run in *)
(* different replicas of the program when the store is Redis.  A login is  *)
(* identified by the request that made it, so "the session of login i"     *)
(* makes sense also when two logins share a session key (the same sid).    *)
(***************************************************************************)
EXTENDS SessionData, FiniteSets

CONSTANTS
    Reqs,            \* the requests
    KindOf,          \* what each request is
    Keys,            \* session keys
    None,
    Backend,         \* which Store NewStore has made
    RefreshEnabled,  \* session.refresh
    TokenLifetimes,  \* expires_in values of the provider
    IdpReplies,      \* forms of a successful refresh response
    LockDuration,    \* refreshLockDuration
    AcquireTimeout,  \* refreshAcquireLockTimeout
    Faults,          \* what may go wrong in this instance
    Horizon          \* bound on the clock

Kinds == {"login", "proxy", "info", "refresh", "logout", "frontchannel"}

ASSUME HandlerAssumption ==
    /\ KindOf \in [Reqs -> Kinds]
    /\ None \notin Reqs /\ None \notin Keys
    /\ Backend \in {"redis", "memory"}
    /\ RefreshEnabled \in BOOLEAN
    /\ Inactivity => RefreshEnabled        \* config.Validate
    /\ TokenLifetimes \subseteq Int
    /\ IdpReplies \subseteq {"rotate", "keep", "omit", "empty"}
    /\ LockDuration \in Nat \ {0}
    /\ AcquireTimeout \in Nat
    /\ Faults \subseteq {"store", "idp", "crash", "slow"}
    /\ Horizon \in Nat

(***************************************************************************)
(* Data: the login it stems from, whether it has an access token, the      *)
(* generation of its refresh token (0 is the empty string) and metadata.   *)
(***************************************************************************)
Data == [inst : Reqs, hasAT : BOOLEAN, rt : Nat, md : Metadata]

ASSUME NoneAssumption == None \notin Data

NoTTL == 0

VARIABLES
    now,        \* the clock of replicas, store and provider
    store,      \* session key -> Data or None
    expiry,     \* session key -> instant its TTL ends, or NoTTL
    lockOwner,  \* session key -> request whose token is in "<key>.lock"
    lockExp,    \* session key -> instant that entry expires
    idpRT,      \* login -> generation the provider accepts
    pc,         \* request -> the command it is about to issue
    key,        \* request -> session key
    seen,       \* request -> session data read before Refresh
    work,       \* request -> session data to be written, or read under the lock
    timer,      \* request -> end of its wait for the lock, then of its lease
    out,        \* request -> what Refresh is about to return
    res,        \* request -> the answer
    target,     \* request -> the login a logout request is about
    loggedOut,  \* logins whose logout was answered with success
    raced       \* those that an Update between Read and SET was about to write

storeVars == <<store, expiry>>
lockVars  == <<lockOwner, lockExp>>
reqVars   == <<pc, key, seen, work, timer, out, res>>
ghostVars == <<target, loggedOut, raced>>
vars == <<now, store, expiry, lockOwner, lockExp, idpRT, pc, key, seen, work,
          timer, out, res, target, loggedOut, raced>>

Waiting   == "acquire"
Holding   == {"reread", "grant", "update", "set", "release"}
PCs       == {"idle", "read", Waiting, "delete", "write", "done"} \cup Holding
Outcomes  == {"none", "ok", "error", "invalid", "inactive"}
Answers   == {"none", "ok", "unauth", "notfound", "error", "accepted", "crashed"}

InFlight(p) == pc[p] \notin {"idle", "done"}
Critical(p) == pc[p] \in Holding

(***************************************************************************)
(* Decisions of handler.go on session data.                                *)
(***************************************************************************)
HasRefreshToken(d) == d.rt > 0

canRefresh(d) ==
    RefreshEnabled /\ HasRefreshToken(d) /\ ~IsRefreshOnCooldown(d.md, now)

shouldRefresh(d) ==
    RefreshEnabled /\ HasRefreshToken(d) /\ ShouldRefresh(d.md, now)

\* GetAccessToken on the data of GetOrRefresh, as the reverse proxy sees it.
Proxied(d) == IF d.hasAT /\ ~IsExpired(d.md, now) THEN "ok" ELSE "unauth"

(***************************************************************************)
(* Ends of a request.                                                      *)
(***************************************************************************)
Respond(p, answer) ==
    /\ pc' = [pc EXCEPT ![p] = "done"]
    /\ res' = [res EXCEPT ![p] = answer]
    /\ seen' = [seen EXCEPT ![p] = None]
    /\ work' = [work EXCEPT ![p] = None]
    /\ timer' = [timer EXCEPT ![p] = 0]
    /\ out' = [out EXCEPT ![p] = "none"]
    /\ UNCHANGED key

\* What a logout that answers with success has promised, and to whom.
Promise(p, answer) ==
    LET ended == IF answer = "ok" /\ target[p] # None THEN {target[p]} ELSE {}
        busy  == {i \in ended : \E q \in Reqs :
                     pc[q] = "set" /\ work[q].inst = i}
    IN  /\ loggedOut' = loggedOut \cup ended
        /\ raced' = raced \cup busy
        /\ target' = [target EXCEPT ![p] = None]

\* The answer when Refresh returns outcome o: GetOrRefresh falls back to the
\* data it had on every error but ErrInvalidState and ErrSessionInactive; the
\* refresh endpoint maps only ErrInvalidState to 401.
AfterRefresh(p, o) ==
    IF KindOf[p] = "proxy"
    THEN CASE o = "ok" -> Proxied(work[p])
           [] o = "error" -> Proxied(seen[p])
           [] OTHER -> "unauth"
    ELSE CASE o = "ok" -> "ok"
           [] o = "invalid" -> "unauth"
           [] OTHER -> "error"

-----------------------------------------------------------------------------
(***************************************************************************)
(* Arrival of a request.                                                   *)
(***************************************************************************)
Init ==
    /\ now = 1
    /\ store = [k \in Keys |-> None] /\ expiry = [k \in Keys |-> NoTTL]
    /\ lockOwner = [k \in Keys |-> None] /\ lockExp = [k \in Keys |-> 0]
    /\ idpRT = [p \in Reqs |-> 0]
    /\ pc = [p \in Reqs |-> "idle"] /\ key = [p \in Reqs |-> None]
    /\ seen = [p \in Reqs |-> None] /\ work = [p \in Reqs |-> None]
    /\ timer = [p \in Reqs |-> 0]
    /\ out = [p \in Reqs |-> "none"] /\ res = [p \in Reqs |-> "none"]
    /\ target = [p \in Reqs |-> None] /\ loggedOut = {} /\ raced = {}

\* The session cookie is set only after Create has returned.
CookieIssued(k) ==
    \E p \in Reqs : KindOf[p] = "login" /\ key[p] = k /\ res[p] = "ok"

\* The callback has redeemed the code: Create builds the data and will write it.
Login(p, k, expiresIn) ==
    /\ pc[p] = "idle" /\ KindOf[p] = "login"
    /\ pc' = [pc EXCEPT ![p] = "write"]
    /\ key' = [key EXCEPT ![p] = k]
    /\ work' = [work EXCEPT ![p] = [inst |-> p, hasAT |-> TRUE, rt |-> 1,
                                    md |-> Created(now, expiresIn)]]
    /\ idpRT' = [idpRT EXCEPT ![p] = 1]
    /\ UNCHANGED <<now, storeVars, lockVars, seen, timer, out, res, ghostVars>>

\* A request with a session cookie, or a front-channel logout with a sid.
Arrive(p, k) ==
    /\ pc[p] = "idle" /\ KindOf[p] # "login"
    /\ KindOf[p] = "frontchannel" \/ CookieIssued(k)
    /\ KindOf[p] = "refresh" => RefreshEnabled
    /\ pc' = [pc EXCEPT ![p] = "read"]
    /\ key' = [key EXCEPT ![p] = k]
    /\ target' = [target EXCEPT ![p] =
           IF /\ KindOf[p] \in {"logout", "frontchannel"}
              /\ store[k] # None /\ pc[store[k].inst] = "done"
           THEN store[k].inst ELSE None]
    /\ UNCHANGED <<now, storeVars, lockVars, idpRT, seen, work, timer, out,
                   res, loggedOut, raced>>

\* No cookie or no sid parameter; or the refresh endpoint is switched off.
Refuse(p) ==
    /\ pc[p] = "idle" /\ KindOf[p] # "login"
    /\ Respond(p, CASE KindOf[p] = "logout" -> "ok"
                    [] KindOf[p] = "frontchannel" -> "accepted"
                    [] KindOf[p] = "refresh" /\ ~RefreshEnabled -> "notfound"
                    [] OTHER -> "unauth")
    /\ UNCHANGED <<now, storeVars, lockVars, idpRT, ghostVars>>

-----------------------------------------------------------------------------
(***************************************************************************)
(* GetForKey, the first read of every handler.                             *)
(***************************************************************************)
\* Mutant: the session data is not handed to Refresh.
EnterRefreshNoData(p, d) ==
    /\ pc' = [pc EXCEPT ![p] = Waiting]
    /\ timer' = [timer EXCEPT ![p] = now + AcquireTimeout]
    /\ UNCHANGED <<key, seen, work, out, res>>

EnterRefresh(p, d) ==
    /\ pc' = [pc EXCEPT ![p] = Waiting]
    /\ seen' = [seen EXCEPT ![p] = d]
    /\ timer' = [timer EXCEPT ![p] = now + AcquireTimeout]
    /\ UNCHANGED <<key, work, out, res>>

\* Mutant: GetOrRefresh leaves the timeout to Refresh.
ProxyReadNoTimeout(p) ==
    /\ pc[p] = "read" /\ KindOf[p] = "proxy"
    /\ LET d == store[key[p]]
       IN  \/ d = None /\ Respond(p, "unauth")
           \/ d # None /\ ~shouldRefresh(d) /\ Respond(p, Proxied(d))
           \/ d # None /\ shouldRefresh(d) /\ EnterRefresh(p, d)
    /\ UNCHANGED <<now, storeVars, lockVars, idpRT, ghostVars>>

\* reverseproxy -> GetAccessToken -> GetOrRefresh
ProxyRead(p) ==
    /\ pc[p] = "read" /\ KindOf[p] = "proxy"
    /\ LET d == store[key[p]]
       IN  \/ d = None /\ Respond(p, "unauth")
           \/ d # None /\ isTimedOut(d.md, now) /\ Respond(p, "unauth")
           \/ /\ d # None /\ ~isTimedOut(d.md, now) /\ ~shouldRefresh(d)
              /\ Respond(p, Proxied(d))
           \/ /\ d # None /\ ~isTimedOut(d.md, now) /\ shouldRefresh(d)
              /\ EnterRefresh(p, d)
    /\ UNCHANGED <<now, storeVars, lockVars, idpRT, ghostVars>>

\* POST /oauth2/session/refresh
RefreshRead(p) ==
    /\ pc[p] = "read" /\ KindOf[p] = "refresh"
    /\ LET d == store[key[p]]
       IN  \/ d = None /\ Respond(p, "unauth")
           \/ d # None /\ ~canRefresh(d) /\ Respond(p, "ok")
           \/ d # None /\ canRefresh(d) /\ EnterRefresh(p, d)
    /\ UNCHANGED <<now, storeVars, lockVars, idpRT, ghostVars>>

\* GET /oauth2/session
SessionRead(p) ==
    /\ pc[p] = "read" /\ KindOf[p] = "info"
    /\ Respond(p, IF store[key[p]] = None THEN "unauth" ELSE "ok")
    /\ UNCHANGED <<now, storeVars, lockVars, idpRT, ghostVars>>

\* GET /oauth2/logout, /oauth2/logout/local and /oauth2/logout/frontchannel
LogoutRead(p) ==
    /\ pc[p] = "read" /\ KindOf[p] \in {"logout", "frontchannel"}
    /\ \/ /\ store[key[p]] = None
          /\ LET answer == IF KindOf[p] = "logout" THEN "ok" ELSE "accepted"
             IN  Respond(p, answer) /\ Promise(p, answer)
       \/ /\ store[key[p]] # None
          /\ pc' = [pc EXCEPT ![p] = "delete"]
          /\ UNCHANGED <<key, seen, work, timer, out, res, ghostVars>>
    /\ UNCHANGED <<now, storeVars, lockVars, idpRT>>

\* GetForKey gives up: the store is unavailable or the request was cancelled.
\* Logout ignores the error and front-channel logout answers 202.
ReadFails(p) ==
    /\ "store" \in Faults /\ pc[p] = "read"
    /\ LET answer == CASE KindOf[p] = "proxy" -> "unauth"
                       [] KindOf[p] = "logout" -> "ok"
                       [] KindOf[p] = "frontchannel" -> "accepted"
                       [] OTHER -> "error"
       IN  Respond(p, answer) /\ Promise(p, answer)
    /\ UNCHANGED <<now, storeVars, lockVars, idpRT>>

-----------------------------------------------------------------------------
(***************************************************************************)
(* Logout and login: one command each.  A failing attempt may have been    *)
(* applied by Redis with its reply lost; it is retried or given up.        *)
(***************************************************************************)
MayFail(applied) == "store" \in Faults /\ (applied => Backend = "redis")

Remove(k) ==
    /\ store' = [store EXCEPT ![k] = None]
    /\ expiry' = [expiry EXCEPT ![k] = NoTTL]

\* Mutant: the logout answers without deleting anything.
DeleteNothing(p) ==
    /\ pc[p] = "delete"
    /\ Respond(p, "ok") /\ Promise(p, "ok")
    /\ UNCHANGED <<now, storeVars, lockVars, idpRT>>

Delete(p) ==
    /\ pc[p] = "delete"
    /\ Remove(key[p])
    /\ Respond(p, "ok") /\ Promise(p, "ok")
    /\ UNCHANGED <<now, lockVars, idpRT>>

DeleteFails(p, applied, gaveUp) ==
    /\ pc[p] = "delete" /\ MayFail(applied)
    /\ IF applied THEN Remove(key[p]) ELSE UNCHANGED storeVars
    /\ IF gaveUp
       THEN LET answer == IF KindOf[p] = "logout" THEN "error" ELSE "accepted"
            IN  Respond(p, answer) /\ Promise(p, answer)
       ELSE UNCHANGED <<reqVars, ghostVars>>
    /\ UNCHANGED <<now, lockVars, idpRT>>

\* Mutant: the session is written without a TTL.
PutNoTTL(k, d) ==
    /\ store' = [store EXCEPT ![k] = d]
    /\ expiry' = [expiry EXCEPT ![k] = NoTTL]

\* Store.Write; the memory store ignores the expiration.
Put(k, d) ==
    /\ store' = [store EXCEPT ![k] = d]
    /\ expiry' = [expiry EXCEPT ![k] =
                     IF Backend = "redis" THEN now + MaxLifetime ELSE NoTTL]

Write(p) ==
    /\ pc[p] = "write"
    /\ Put(key[p], work[p])
    /\ Respond(p, "ok")
    /\ UNCHANGED <<now, lockVars, idpRT, ghostVars>>

WriteFails(p, applied, gaveUp) ==
    /\ pc[p] = "write" /\ MayFail(applied)
    /\ IF applied THEN Put(key[p], work[p]) ELSE UNCHANGED storeVars
    /\ IF gaveUp THEN Respond(p, "error") ELSE UNCHANGED reqVars
    /\ UNCHANGED <<now, lockVars, idpRT, ghostVars>>

-----------------------------------------------------------------------------
(***************************************************************************)
(* Refresh: the wait for the lock.  The deferred Release is registered     *)
(* only once the lock is held.                                             *)
(***************************************************************************)
\* Mutant: the entry expires before its owner believes it does.
TakeShort(p) ==
    /\ lockOwner' = [lockOwner EXCEPT ![key[p]] = p]
    /\ lockExp' = [lockExp EXCEPT ![key[p]] = now + LockDuration - 1]

Take(p) ==
    /\ lockOwner' = [lockOwner EXCEPT ![key[p]] = p]
    /\ lockExp' = [lockExp EXCEPT ![key[p]] = now + LockDuration]

\* Mutant: SET without NX.
AcquireIgnoresHolder(p) ==
    /\ pc[p] = Waiting
    /\ Take(p)
    /\ timer' = [timer EXCEPT ![p] = now + LockDuration]
    /\ pc' = [pc EXCEPT ![p] = "reread"]
    /\ UNCHANGED <<now, storeVars, idpRT, key, seen, work, out, res, ghostVars>>

\* Obtain is SET NX; the memory store's lock is a no-op.
Acquire(p) ==
    /\ pc[p] = Waiting
    /\ \/ /\ Backend = "redis" /\ lockOwner[key[p]] = None
          /\ Take(p)
          /\ timer' = [timer EXCEPT ![p] = now + LockDuration]
       \/ /\ Backend = "memory"
          /\ timer' = [timer EXCEPT ![p] = 0]
          /\ UNCHANGED lockVars
    /\ pc' = [pc EXCEPT ![p] = "reread"]
    /\ UNCHANGED <<now, storeVars, idpRT, key, seen, work, out, res, ghostVars>>

AcquireTimesOut(p) ==
    /\ pc[p] = Waiting /\ now >= timer[p]
    /\ Respond(p, AfterRefresh(p, "error"))
    /\ UNCHANGED <<now, storeVars, lockVars, idpRT, ghostVars>>

\* An unexpected error of Obtain, or the context is done; the lock entry may
\* have been made with its reply lost.  If the Redis client repeats the command
\* by itself, it finds that entry, and the loop goes on waiting for it to expire.
AcquireFails(p, applied, gaveUp) ==
    /\ pc[p] = Waiting /\ MayFail(applied)
    /\ IF applied THEN lockOwner[key[p]] = None /\ Take(p)
                  ELSE UNCHANGED lockVars
    /\ IF gaveUp THEN Respond(p, AfterRefresh(p, "error")) ELSE UNCHANGED reqVars
    /\ UNCHANGED <<now, storeVars, idpRT, ghostVars>>

(***************************************************************************)
(* Refresh: the steps under the lock.                                      *)
(***************************************************************************)
Leave(p, o) ==
    /\ pc' = [pc EXCEPT ![p] = "release"]
    /\ out' = [out EXCEPT ![p] = o]
    /\ UNCHANGED <<key, seen, timer, res>>

\* Mutant: the data read before the wait for the lock is used.
RereadSkipped(p) ==
    /\ pc[p] = "reread"
    /\ pc' = [pc EXCEPT ![p] = "grant"]
    /\ work' = [work EXCEPT ![p] = seen[p]]
    /\ UNCHANGED <<now, storeVars, lockVars, idpRT, key, seen, timer, out, res,
                   ghostVars>>

\* Mutant: the second read does not look at the timeout again.
RereadNoTimeout(p) ==
    /\ pc[p] = "reread"
    /\ LET d == store[key[p]]
       IN  \/ d = None /\ Leave(p, "error") /\ UNCHANGED work
           \/ /\ d # None /\ ~canRefresh(d)
              /\ Leave(p, "ok") /\ work' = [work EXCEPT ![p] = d]
           \/ /\ d # None /\ canRefresh(d)
              /\ pc' = [pc EXCEPT ![p] = "grant"]
              /\ work' = [work EXCEPT ![p] = d]
              /\ UNCHANGED <<key, seen, timer, out, res>>
    /\ UNCHANGED <<now, storeVars, lockVars, idpRT, ghostVars>>

\* The latest session state is read again, and decided on again.
Reread(p) ==
    /\ pc[p] = "reread"
    /\ LET d == store[key[p]]
       IN  \/ d = None /\ Leave(p, "error") /\ UNCHANGED work
           \/ /\ d # None /\ ~canRefresh(d)
              /\ Leave(p, "ok") /\ work' = [work EXCEPT ![p] = d]
           \/ /\ d # None /\ canRefresh(d) /\ isTimedOut(d.md, now)
              /\ Leave(p, "inactive") /\ UNCHANGED work
           \/ /\ d # None /\ canRefresh(d) /\ ~isTimedOut(d.md, now)
              /\ pc' = [pc EXCEPT ![p] = "grant"]
              /\ work' = [work EXCEPT ![p] = d]
              /\ UNCHANGED <<key, seen, timer, out, res>>
    /\ UNCHANGED <<now, storeVars, lockVars, idpRT, ghostVars>>

RereadFails(p) ==
    /\ pc[p] = "reread" /\ MayFail(FALSE)
    /\ Leave(p, "error")
    /\ UNCHANGED <<now, storeVars, lockVars, idpRT, work, ghostVars>>

\* Mutant: the rotated refresh token is not saved.
GrantedKeepsOldRT(d, reply, expiresIn) ==
    [d EXCEPT !.md = Refreshed(d.md, now, expiresIn)]

\* Mutant: the metadata of a new session replaces the old.
GrantedAsNew(d, reply, expiresIn) ==
    [d EXCEPT !.rt = d.rt + 1, !.md = Created(now, expiresIn)]

\* RefreshGrant: the tokens of the response replace the ones in the session,
\* the refresh token too when the response has none.
Granted(d, reply, expiresIn) ==
    [inst  |-> d.inst,
     hasAT |-> reply # "empty",
     rt    |-> CASE reply = "rotate" -> d.rt + 1
                 [] reply = "keep" -> d.rt
                 [] OTHER -> 0,
     md    |-> Refreshed(d.md, now, IF reply = "empty" THEN 0 ELSE expiresIn)]

Grant(p, reply, expiresIn) ==
    /\ pc[p] = "grant" /\ work[p].rt = idpRT[work[p].inst]
    /\ work' = [work EXCEPT ![p] = Granted(work[p], reply, expiresIn)]
    /\ idpRT' = [idpRT EXCEPT ![work[p].inst] =
                    IF reply = "rotate" THEN @ + 1 ELSE @]
    /\ pc' = [pc EXCEPT ![p] = "update"]
    /\ UNCHANGED <<now, storeVars, lockVars, key, seen, timer, out, res, ghostVars>>

\* Mutant: a 4xx answer is retried like a 5xx one.
GrantRejectedRetried(p) ==
    pc[p] = "grant" /\ work[p].rt # idpRT[work[p].inst] /\ UNCHANGED vars

\* The provider answers 4xx to a refresh token it no longer accepts, or to any
\* when it has ended the authorization itself.
GrantRejected(p) ==
    /\ pc[p] = "grant" /\ (work[p].rt # idpRT[work[p].inst] \/ "idp" \in Faults)
    /\ Leave(p, "invalid")
    /\ UNCHANGED <<now, storeVars, lockVars, idpRT, work, ghostVars>>

\* No usable answer, although the provider may have processed the grant and
\* rotated the token: retried with the same token on 5xx, else given up.
GrantFails(p, processed, gaveUp) ==
    /\ pc[p] = "grant" /\ "idp" \in Faults
    /\ idpRT' = IF processed /\ work[p].rt = idpRT[work[p].inst]
                THEN [idpRT EXCEPT ![work[p].inst] = @ + 1] ELSE idpRT
    /\ IF gaveUp THEN Leave(p, "error") /\ UNCHANGED work ELSE UNCHANGED reqVars
    /\ UNCHANGED <<now, storeVars, lockVars, ghostVars>>

\* Mutant: Store.Update without its Read.
UpdateReadSkipped(p) ==
    /\ pc[p] = "update"
    /\ pc' = [pc EXCEPT ![p] = "set"]
    /\ UNCHANGED <<now, storeVars, lockVars, idpRT, key, seen, work, timer, out,
                   res, ghostVars>>

\* Store.Update begins with a Read, and stops there when the key is gone.
UpdateRead(p) ==
    /\ pc[p] = "update"
    /\ \/ /\ store[key[p]] = None
          /\ Leave(p, "error")
       \/ /\ store[key[p]] # None
          /\ pc' = [pc EXCEPT ![p] = "set"]
          /\ UNCHANGED <<key, seen, timer, out, res>>
    /\ UNCHANGED <<now, storeVars, lockVars, idpRT, work, ghostVars>>

UpdateReadFails(p) ==
    /\ pc[p] = "update" /\ MayFail(FALSE)
    /\ Leave(p, "error")
    /\ UNCHANGED <<now, storeVars, lockVars, idpRT, work, ghostVars>>

\* ... then SET with KEEPTTL, which makes the key, without a TTL, when it is
\* no longer there.  The memory store keeps no TTL at all.
SetKeepTTL(k, d) ==
    /\ store' = [store EXCEPT ![k] = d]
    /\ UNCHANGED expiry

Set(p) ==
    /\ pc[p] = "set"
    /\ SetKeepTTL(key[p], work[p])
    /\ Leave(p, "ok")
    /\ UNCHANGED <<now, lockVars, idpRT, work, ghostVars>>

\* A failing SET sends the retry of Handler.Update back to the Read.
SetFails(p, applied, gaveUp) ==
    /\ pc[p] = "set" /\ Backend = "redis" /\ MayFail(applied)
    /\ IF applied THEN SetKeepTTL(key[p], work[p]) ELSE UNCHANGED storeVars
    /\ IF gaveUp
       THEN Leave(p, "error")
       ELSE /\ pc' = [pc EXCEPT ![p] = "update"]
            /\ UNCHANGED <<key, seen, timer, out, res>>
    /\ UNCHANGED <<now, lockVars, idpRT, work, ghostVars>>

\* The deferred Release deletes the entry only if it still holds our token.
Release(p) ==
    /\ pc[p] = "release"
    /\ IF lockOwner[key[p]] = p
       THEN /\ lockOwner' = [lockOwner EXCEPT ![key[p]] = None]
            /\ lockExp' = [lockExp EXCEPT ![key[p]] = 0]
       ELSE UNCHANGED lockVars
    /\ Respond(p, AfterRefresh(p, out[p]))
    /\ UNCHANGED <<now, storeVars, idpRT, ghostVars>>

ReleaseFails(p) ==
    /\ pc[p] = "release" /\ Backend = "redis" /\ MayFail(FALSE)
    /\ Respond(p, AfterRefresh(p, out[p]))
    /\ UNCHANGED <<now, storeVars, lockVars, idpRT, ghostVars>>

-----------------------------------------------------------------------------
(***************************************************************************)
(* Environment.                                                            *)
(***************************************************************************)
\* The replica that handles p dies; what it did to Redis stays.
Crash(p) ==
    /\ "crash" \in Faults /\ Backend = "redis" /\ InFlight(p)
    /\ Respond(p, "crashed") /\ Promise(p, "crashed")
    /\ UNCHANGED <<now, storeVars, lockVars, idpRT>>

\* The only replica of a memory-backed deployment restarts: the sessions go
\* with it.
Restart ==
    /\ "crash" \in Faults /\ Backend = "memory"
    /\ \E p \in Reqs : pc[p] # "idle"
    /\ store' = [k \in Keys |-> None]
    /\ pc' = [p \in Reqs |-> IF InFlight(p) THEN "done" ELSE pc[p]]
    /\ res' = [p \in Reqs |-> IF InFlight(p) THEN "crashed" ELSE res[p]]
    /\ seen' = [p \in Reqs |-> None] /\ work' = [p \in Reqs |-> None]
    /\ timer' = [p \in Reqs |-> 0] /\ out' = [p \in Reqs |-> "none"]
    /\ target' = [p \in Reqs |-> None]
    /\ UNCHANGED <<now, expiry, lockVars, idpRT, key, loggedOut, raced>>

\* Unless "slow" is among the faults, a holder ends within its lease, a waiter
\* gives up when its timer fires and a session is written in the tick it is
\* made.
Timely ==
    \A p \in Reqs : /\ pc[p] # "write"
                    /\ pc[p] = Waiting => now < timer[p]
                    /\ Backend = "redis" /\ Critical(p) => now + 1 < timer[p]

\* Time passes; Redis drops the sessions and lock entries whose TTL is over.
\* Beyond the horizon only waits for the lock still run out.
Tick ==
    /\ now < Horizon \/ \E p \in Reqs : pc[p] = Waiting /\ now < timer[p]
    /\ "slow" \in Faults \/ Timely
    /\ now' = now + 1
    /\ LET gone(k) == expiry[k] # NoTTL /\ expiry[k] <= now + 1
       IN  /\ store' = [k \in Keys |-> IF gone(k) THEN None ELSE store[k]]
           /\ expiry' = [k \in Keys |-> IF gone(k) THEN NoTTL ELSE expiry[k]]
    /\ LET over(k) == lockExp[k] <= now + 1
       IN  /\ lockOwner' = [k \in Keys |-> IF over(k) THEN None ELSE lockOwner[k]]
           /\ lockExp' = [k \in Keys |-> IF over(k) THEN 0 ELSE lockExp[k]]
    /\ UNCHANGED <<idpRT, reqVars, ghostVars>>

\* Every request has been handled.
Finished == (\A p \in Reqs : pc[p] = "done") /\ UNCHANGED vars

\* The steps the program takes for a request it is handling.
Step(p) ==
    \/ ProxyRead(p) \/ RefreshRead(p) \/ SessionRead(p) \/ LogoutRead(p)
    \/ Delete(p) \/ Write(p)
    \/ Acquire(p) \/ AcquireTimesOut(p) \/ Reread(p)
    \/ \E reply \in IdpReplies, l \in TokenLifetimes : Grant(p, reply, l)
    \/ GrantRejected(p) \/ UpdateRead(p) \/ Set(p) \/ Release(p)

Fault(p) ==
    \/ ReadFails(p) \/ RereadFails(p) \/ UpdateReadFails(p) \/ ReleaseFails(p)
    \/ \E a, g \in BOOLEAN : \/ DeleteFails(p, a, g) \/ WriteFails(p, a, g)
                             \/ AcquireFails(p, a, g)
                             \/ GrantFails(p, a, g) \/ SetFails(p, a, g)
    \/ Crash(p)

Begin(p) ==
    \/ \E k \in Keys : Arrive(p, k) \/ \E l \in TokenLifetimes : Login(p, k, l)
    \/ Refuse(p)

Next ==
    \/ \E p \in Reqs : Begin(p) \/ Step(p) \/ Fault(p)
    \/ Restart \/ Tick \/ Finished

Spec == Init /\ [][Next]_vars

\* The scheduler runs every handler; a retried Update ends, for the backoff of
\* pkg/retry has a maximum duration; and time passes.
Fairness ==
    /\ WF_vars(Tick)
    /\ \A p \in Reqs : /\ WF_vars(Step(p))
                       /\ SF_vars(Set(p) \/ \E a \in BOOLEAN : SetFails(p, a, TRUE))

FairSpec == Spec /\ Fairness

-----------------------------------------------------------------------------
(***************************************************************************)
(* Properties.                                                             *)
(***************************************************************************)
StoreTypes ==
    /\ now \in Nat \ {0}
    /\ store \in [Keys -> Data \cup {None}] /\ expiry \in [Keys -> Nat]
    /\ lockOwner \in [Keys -> Reqs \cup {None}] /\ lockExp \in [Keys -> Nat]
    /\ idpRT \in [Reqs -> Nat]

RequestTypes ==
    /\ pc \in [Reqs -> PCs] /\ key \in [Reqs -> Keys \cup {None}]
    /\ seen \in [Reqs -> Data \cup {None}] /\ work \in [Reqs -> Data \cup {None}]
    /\ timer \in [Reqs -> Nat]
    /\ out \in [Reqs -> Outcomes] /\ res \in [Reqs -> Answers]

GhostTypes ==
    /\ target \in [Reqs -> Reqs \cup {None}]
    /\ loggedOut \in SUBSET Reqs /\ raced \in SUBSET Reqs

LocalData ==
    \A p \in Reqs :
        /\ InFlight(p) => key[p] \in Keys
        /\ pc[p] \in {Waiting} \cup Holding => seen[p] \in Data
        /\ pc[p] \in {"grant", "update", "set", "write"} => work[p] \in Data
        /\ pc[p] = "release" /\ out[p] = "ok" => work[p] \in Data

\* Types of the state, and which of its data a request has at which step of
\* its handler: Refresh never works on session data it has not read.
TypeOK == StoreTypes /\ RequestTypes /\ GhostTypes /\ LocalData

\* The Redis lock (lock.go): two requests that both believe in an unexpired
\* lease on one session are the same request, whatever fails or stalls.
LeaseExclusion ==
    Backend = "redis" =>
        \A p, q \in Reqs :
            /\ Critical(p) /\ Critical(q) /\ key[p] = key[q]
            /\ now < timer[p] /\ now < timer[q]
            => p = q

\* While holders end within their lease, at most one request at a time is
\* between Acquire and Release of Handler.Refresh for a session.
MutualExclusion ==
    Backend = "redis" =>
        \A p, q \in Reqs :
            Critical(p) /\ Critical(q) /\ key[p] = key[q] => p = q

\* Handler.Refresh presents only the refresh token the provider accepts: the
\* one that the last rotation returned.  A token presented twice would make
\* the provider answer 4xx, and the user would be logged out (ErrInvalidState).
NoRefreshTokenReuse ==
    \A p \in Reqs : pc[p] = "grant" => work[p].rt = idpRT[work[p].inst]

\* Once a login is answered, no step puts older tokens of that login in the
\* place of newer ones: Update never loses a refresh to a slower one.
NoTokenRollback ==
    [][\A k \in Keys :
          /\ store[k] # None /\ store'[k] # None
          /\ store'[k].inst = store[k].inst /\ pc[store[k].inst] = "done"
          => store'[k].md.refreshedAt >= store[k].md.refreshedAt]_vars

\* README, Inactivity: a session that has been inactive for as long as a lock
\* may be held is never made active again: waiting for the lock, a request
\* does not carry a decision of before the timeout past it.
InactivityIsFinal ==
    [][\A k \in Keys :
          /\ store[k] # None /\ store'[k] # None
          /\ store'[k].inst = store[k].inst
          /\ Inactivity /\ now >= store[k].md.timeoutAt + LockDuration
          => store'[k].md.timeoutAt <= store[k].md.timeoutAt]_vars

\* The session data a proxied request is answered with in its next step.
DataUsed(p) ==
    IF pc[p] = "read" THEN store[key[p]]
    ELSE IF out[p] = "ok" THEN work[p] ELSE seen[p]

\* GetOrRefresh falls back to the data it read before the refresh, whatever has
\* become of the session meanwhile.  How stale that data gets is bounded: while
\* requests keep to their timers, none is let through with a session that had
\* been inactive for a whole wait for the lock and a whole lease.
BoundedStaleness ==
    [][\A p \in Reqs :
          /\ Inactivity /\ Backend = "redis" /\ KindOf[p] = "proxy"
          /\ res[p] # "ok" /\ res'[p] = "ok"
          => now < DataUsed(p).md.timeoutAt + AcquireTimeout + LockDuration]_vars

\* README, session endpoint: 401 once the user has logged out.  When a logout
\* has been answered with success the session of that login is not in the
\* store, then and ever after.
LogoutIsFinal == \A k \in Keys : store[k] # None => store[k].inst \notin loggedOut

\* The same with session.refresh on, where it is not true of every logout: the
\* one session that comes back is one for which a Store.Update was between its
\* Read and its SET when the logout was answered.  A refresh that was waiting
\* for the lock or for the provider, or that arrives later, brings none back.
LogoutIsFinalUnlessRaced ==
    \A k \in Keys :
        store[k] # None /\ store[k].inst \in loggedOut => store[k].inst \in raced

\* The refresh token in the store is the one that the provider accepts, or
\* there is none, whenever no request is inside Handler.Refresh for the
\* session: also with the memory store, whose lock excludes nobody, provided
\* that no response hands the old refresh token out again ("keep").
StoredTokenUsable ==
    \A k \in Keys :
        store[k] # None /\ (\A p \in Reqs : Critical(p) => key[p] # k)
        => store[k].rt \in {0, idpRT[store[k].inst]}

\* handler_test.go: a refresh moves neither the creation nor the end of the
\* session, whichever of several concurrent ones is written last.
RefreshKeepsLifetime ==
    [][\A k \in Keys :
          /\ store[k] # None /\ store'[k] # None
          /\ store'[k].inst = store[k].inst
          => /\ store'[k].md.createdAt = store[k].md.createdAt
             /\ store'[k].md.endsAt = store[k].md.endsAt]_vars

\* data.go: EndsAt is the absolute lifetime of the session.  The store holds
\* no session past its EndsAt.
SessionEnds == \A k \in Keys : store[k] # None => now <= store[k].md.endsAt

\* Every request is answered in the end: no wait for the lock, for a crashed
\* holder or for a failing store or provider lasts for ever.
EveryRequestAnswered == \A p \in Reqs : InFlight(p) ~> pc[p] = "done"
=============================================================================
