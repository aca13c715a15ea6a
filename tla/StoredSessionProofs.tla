-------------------------- MODULE StoredSessionProofs --------------------------
(***************************************************************************)
(* What becomes of the session data of SessionHandler: where it may come   *)
(* from, what a refresh may change in it, when a logout is final, and how  *)
(* old it may get.  For every set of requests and keys, and under every    *)
(* fault that a theorem does not exclude.                                  *)
(***************************************************************************)
EXTENDS SessionHandlerProofs

(***************************************************************************)
(* The flow of session data.  Every step of the specification is an        *)
(* instance of the formulas below; what follows argues with them instead   *)
(* of with the actions.                                                    *)
(***************************************************************************)
Acts(p) == Begin(p) \/ Step(p) \/ Fault(p)

\* A request with session data that it may write, or may have granted.
Carries(p) == pc[p] \in {"write", "grant", "update", "set"}

InRefresh(p) == pc[p] \in {Waiting} \cup Holding

\* A step of another request.
Untouched(q) ==
    /\ pc'[q] = pc[q] /\ key'[q] = key[q] /\ seen'[q] = seen[q]
    /\ work'[q] = work[q] /\ timer'[q] = timer[q] /\ out'[q] = out[q]
    /\ res'[q] = res[q] /\ target'[q] = target[q]

\* A session disappears, stays, or is written by a request that carries it.
StoreFlow(k) ==
    \/ store'[k] = None
    \/ /\ store'[k] = store[k] /\ expiry'[k] = expiry[k]
       /\ \/ now' = now
          \/ now' = now + 1 /\ (expiry[k] = NoTTL \/ now + 1 < expiry[k])
    \/ /\ now' = now
       /\ \E p \in Reqs :
             /\ key[p] = k /\ store'[k] = work[p]
             /\ \/ pc[p] = "write" /\ (Backend = "redis" => expiry'[k] = now + MaxLifetime)
                \/ pc[p] = "set" /\ expiry'[k] = expiry[k]

\* The data that a request carries after a step: it carried it before, made it
\* in a login, read it under the lock, or got it from the provider.
Kept(q) ==
    /\ \/ pc'[q] = pc[q]
       \/ pc[q] = "update" /\ pc'[q] = "set" /\ store[key[q]] # None
       \/ pc[q] = "set" /\ pc'[q] = "update"
    /\ work'[q] = work[q] /\ key'[q] = key[q] /\ timer'[q] = timer[q]

Made(q) ==
    /\ pc[q] = "idle" /\ pc'[q] = "write" /\ KindOf[q] = "login" /\ now' = now
    /\ \E l \in TokenLifetimes :
          work'[q] = [inst |-> q, hasAT |-> TRUE, rt |-> 1, md |-> Created(now, l)]

Reread1(q) ==
    /\ pc[q] = "reread" /\ pc'[q] = "grant" /\ key'[q] = key[q]
    /\ timer'[q] = timer[q] /\ now' = now /\ store' = store
    /\ store[key[q]] # None /\ work'[q] = store[key[q]]
    /\ ~isTimedOut(store[key[q]].md, now)

Renewed(q) ==
    /\ pc[q] = "grant" /\ pc'[q] = "update" /\ key'[q] = key[q]
    /\ timer'[q] = timer[q] /\ now' = now /\ store' = store
    /\ \E reply \in IdpReplies, l \in TokenLifetimes :
          work'[q] = Granted(work[q], reply, l)

WorkFlow(q) == Carries(q)' => Kept(q) \/ Made(q) \/ Reread1(q) \/ Renewed(q)

\* Requests move on, and keep their session key.
Forward(q) ==
    /\ pc[q] # "idle" => pc'[q] # "idle" /\ key'[q] = key[q]
    /\ pc[q] = "done" => pc'[q] = "done"
    /\ pc[q] = "write" => pc'[q] \in {"write", "done"}
    /\ InRefresh(q)' => InRefresh(q) \/ RefreshEnabled

\* A step of one request leaves the others alone.
LEMMA ActsLocal ==
    ASSUME TypeOK, NEW p \in Reqs, Acts(p), NEW q \in Reqs, q # p
    PROVE  Untouched(q)
<1> USE DEF Untouched, TypeOK, RequestTypes, GhostTypes
<1>1. ASSUME NEW a, Respond(p, a), \/ UNCHANGED ghostVars
                                   \/ \E b : Promise(p, b)
      PROVE  Untouched(q)
  BY <1>1 DEF Respond, Promise, ghostVars
<1>2. ASSUME NEW o, Leave(p, o), UNCHANGED ghostVars,
             \/ UNCHANGED work
             \/ \E d : work' = [work EXCEPT ![p] = d]
      PROVE  Untouched(q)
  BY <1>2 DEF Leave, ghostVars
<1>3. CASE Begin(p)
  <2>1. CASE Refuse(p)
    BY <1>1, <2>1 DEF Refuse
  <2>2. ASSUME NEW k \in Keys, Arrive(p, k) PROVE Untouched(q)
    BY <2>2 DEF Arrive
  <2>3. ASSUME NEW k \in Keys, NEW l \in TokenLifetimes, Login(p, k, l)
        PROVE  Untouched(q)
    BY <2>3 DEF Login, ghostVars
  <2> QED BY <1>3, <2>1, <2>2, <2>3 DEF Begin
<1>4. CASE Step(p)
  <2>1. CASE ProxyRead(p) \/ RefreshRead(p)
    BY <1>1, <2>1 DEF ProxyRead, RefreshRead, EnterRefresh, ghostVars
  <2>2. CASE \/ SessionRead(p) \/ Delete(p) \/ Write(p) \/ AcquireTimesOut(p)
             \/ Release(p)
    BY <1>1, <2>2 DEF SessionRead, Delete, Write, AcquireTimesOut, Release
  <2>3. CASE LogoutRead(p)
    BY <1>1, <2>3 DEF LogoutRead, ghostVars
  <2>4. CASE Acquire(p)
    BY <2>4 DEF Acquire, ghostVars
  <2>5. CASE Reread(p)
    <3>1. CASE \E o : Leave(p, o)
      BY <1>2, <2>5, <3>1 DEF Reread
    <3>2. CASE ~\E o : Leave(p, o)
      BY <2>5, <3>2 DEF Reread, ghostVars
    <3> QED BY <3>1, <3>2
  <2>6. CASE GrantRejected(p) \/ Set(p)
    BY <1>2, <2>6 DEF GrantRejected, Set
  <2>7. ASSUME NEW reply \in IdpReplies, NEW l \in TokenLifetimes, Grant(p, reply, l)
        PROVE  Untouched(q)
    BY <2>7 DEF Grant, ghostVars
  <2>8. CASE UpdateRead(p)
    BY <1>2, <2>8 DEF UpdateRead, ghostVars
  <2> QED BY <1>4, <2>1, <2>2, <2>3, <2>4, <2>5, <2>6, <2>7, <2>8 DEF Step
<1>5. CASE Fault(p)
  <2>1. CASE ReadFails(p) \/ Crash(p) \/ ReleaseFails(p)
    BY <1>1, <2>1 DEF ReadFails, Crash, ReleaseFails
  <2>2. CASE RereadFails(p) \/ UpdateReadFails(p)
    BY <1>2, <2>2 DEF RereadFails, UpdateReadFails
  <2>3. ASSUME NEW a \in BOOLEAN, NEW g \in BOOLEAN, AcquireFails(p, a, g)
        PROVE  Untouched(q)
    BY <1>1, <2>3 DEF AcquireFails, reqVars, ghostVars
  <2>4. ASSUME NEW a \in BOOLEAN, NEW g \in BOOLEAN,
               DeleteFails(p, a, g) \/ WriteFails(p, a, g)
        PROVE  Untouched(q)
    BY <1>1, <2>4 DEF DeleteFails, WriteFails, reqVars, ghostVars
  <2>5. ASSUME NEW a \in BOOLEAN, NEW g \in BOOLEAN,
               GrantFails(p, a, g) \/ SetFails(p, a, g)
        PROVE  Untouched(q)
    BY <1>2, <2>5 DEF GrantFails, SetFails, reqVars, ghostVars
  <2> QED BY <1>5, <2>1, <2>2, <2>3, <2>4, <2>5 DEF Fault
<1> QED BY <1>3, <1>4, <1>5 DEF Acts

\* Every step of the specification is one of a request, or of the environment.
LEMMA NextActs ==
    ASSUME [Next]_vars
    PROVE  (\E p \in Reqs : Acts(p)) \/ Restart \/ Tick \/ UNCHANGED vars
  BY DEF Next, Acts, Finished

\* Every step treats the stored sessions in one of the ways of StoreFlow.
LEMMA StoreFlows ==
    ASSUME TypeOK, [Next]_vars, NEW k \in Keys
    PROVE  StoreFlow(k)
<1>1. CASE UNCHANGED <<now, storeVars>>
  BY <1>1 DEF StoreFlow, storeVars
<1>2. ASSUME NEW p \in Reqs, Remove(key[p]), UNCHANGED now PROVE StoreFlow(k)
  BY <1>2 DEF Remove, StoreFlow, TypeOK, StoreTypes
<1>3. ASSUME NEW p \in Reqs, Put(key[p], work[p]), UNCHANGED now, pc[p] = "write"
      PROVE  StoreFlow(k)
  BY <1>3 DEF Put, StoreFlow, TypeOK, StoreTypes
<1>4. ASSUME NEW p \in Reqs, SetKeepTTL(key[p], work[p]), UNCHANGED now, pc[p] = "set"
      PROVE  StoreFlow(k)
  BY <1>4 DEF SetKeepTTL, StoreFlow, TypeOK, StoreTypes
<1>5. ASSUME NEW p \in Reqs, Begin(p) PROVE StoreFlow(k)
  BY <1>1, <1>5 DEF Begin, Arrive, Login, Refuse
<1>6. ASSUME NEW p \in Reqs, Step(p) PROVE StoreFlow(k)
  BY <1>1, <1>2, <1>3, <1>4, <1>6
     DEF Step, ProxyRead, RefreshRead, SessionRead, LogoutRead, Delete, Write, Acquire,
         AcquireTimesOut, Reread, Grant, GrantRejected, UpdateRead, Set, Release
<1>7. ASSUME NEW p \in Reqs, Fault(p) PROVE StoreFlow(k)
  BY <1>1, <1>2, <1>3, <1>4, <1>7
     DEF Fault, ReadFails, RereadFails, UpdateReadFails, ReleaseFails, AcquireFails,
         DeleteFails, WriteFails, GrantFails, SetFails, Crash
<1>8. CASE Restart
  BY <1>8 DEF Restart, StoreFlow
<1>9. CASE Tick
  BY <1>9 DEF Tick, StoreFlow, TypeOK, StoreTypes
<1>10. CASE UNCHANGED vars
  BY <1>1, <1>10 DEF vars, storeVars
<1> QED BY <1>5, <1>6, <1>7, <1>8, <1>9, <1>10, NextActs DEF Acts

\* Every step gives and takes session data of requests in one of the ways of
\* WorkFlow, and no request goes back in its handler.
LEMMA WorkFlows ==
    ASSUME TypeOK, [Next]_vars, NEW q \in Reqs
    PROVE  WorkFlow(q) /\ Forward(q)
<1> USE DEF TypeOK, RequestTypes, Carries, InRefresh, Waiting, Holding
<1>1. ASSUME Untouched(q) PROVE WorkFlow(q) /\ Forward(q)
  BY <1>1 DEF Untouched, WorkFlow, Kept, Forward
<1>2. ASSUME NEW a, Respond(q, a), UNCHANGED key
      PROVE  WorkFlow(q) /\ Forward(q)
  BY <1>2 DEF Respond, WorkFlow, Forward
<1>3. ASSUME NEW o, Leave(q, o), Critical(q)
      PROVE  WorkFlow(q) /\ Forward(q)
  BY <1>3 DEF Leave, Critical, WorkFlow, Forward
<1>4. CASE Begin(q)
  <2>1. CASE Refuse(q)
    BY <1>2, <2>1 DEF Refuse, Respond
  <2>2. ASSUME NEW k \in Keys, Arrive(q, k) PROVE WorkFlow(q) /\ Forward(q)
    BY <2>2 DEF Arrive, WorkFlow, Forward
  <2>3. ASSUME NEW k \in Keys, NEW l \in TokenLifetimes, Login(q, k, l)
        PROVE  WorkFlow(q) /\ Forward(q)
    BY <2>3 DEF Login, WorkFlow, Made, Forward
  <2> QED BY <1>4, <2>1, <2>2, <2>3 DEF Begin
<1>5. CASE Step(q)
  <2>1. CASE ProxyRead(q) \/ RefreshRead(q)
    <3>1. CASE \E a : Respond(q, a)
      BY <1>2, <3>1 DEF Respond
    <3>2. CASE ~\E a : Respond(q, a)
      BY <2>1, <3>2 DEF ProxyRead, RefreshRead, EnterRefresh, shouldRefresh,
                        canRefresh, WorkFlow, Forward
    <3> QED BY <3>1, <3>2
  <2>2. CASE \/ SessionRead(q) \/ Delete(q) \/ Write(q) \/ AcquireTimesOut(q)
             \/ Release(q)
    BY <1>2, <2>2 DEF SessionRead, Delete, Write, AcquireTimesOut, Release, Respond
  <2>3. CASE LogoutRead(q)
    BY <1>2, <2>3 DEF LogoutRead, Respond, WorkFlow, Forward
  <2>4. CASE Acquire(q)
    BY <2>4 DEF Acquire, WorkFlow, Forward
  <2>5. CASE Reread(q)
    <3>1. CASE \E o : Leave(q, o)
      BY <1>3, <2>5, <3>1 DEF Reread, Critical
    <3>2. CASE ~\E o : Leave(q, o)
      BY <2>5, <3>2 DEF Reread, WorkFlow, Reread1, Forward, storeVars
    <3> QED BY <3>1, <3>2
  <2>6. CASE GrantRejected(q) \/ Set(q)
    BY <1>3, <2>6 DEF GrantRejected, Set, Critical
  <2>7. ASSUME NEW reply \in IdpReplies, NEW l \in TokenLifetimes, Grant(q, reply, l)
        PROVE  WorkFlow(q) /\ Forward(q)
    BY <2>7 DEF Grant, WorkFlow, Renewed, Forward, storeVars
  <2>8. CASE UpdateRead(q)
    BY <1>3, <2>8 DEF UpdateRead, Critical, WorkFlow, Kept, Forward
  <2> QED BY <1>5, <2>1, <2>2, <2>3, <2>4, <2>5, <2>6, <2>7, <2>8 DEF Step
<1>6. CASE Fault(q)
  <2>1. CASE ReadFails(q) \/ Crash(q) \/ ReleaseFails(q)
    BY <1>2, <2>1 DEF ReadFails, Crash, ReleaseFails, Respond
  <2>2. CASE RereadFails(q) \/ UpdateReadFails(q)
    BY <1>3, <2>2 DEF RereadFails, UpdateReadFails, Critical
  <2>3. ASSUME NEW a \in BOOLEAN, NEW g \in BOOLEAN, AcquireFails(q, a, g)
        PROVE  WorkFlow(q) /\ Forward(q)
    BY <1>2, <2>3 DEF AcquireFails, Respond, reqVars, WorkFlow, Kept, Forward
  <2>4. ASSUME NEW a \in BOOLEAN, NEW g \in BOOLEAN,
               DeleteFails(q, a, g) \/ WriteFails(q, a, g)
        PROVE  WorkFlow(q) /\ Forward(q)
    BY <1>2, <2>4 DEF DeleteFails, WriteFails, Respond, reqVars, WorkFlow, Kept, Forward
  <2>5. ASSUME NEW a \in BOOLEAN, NEW g \in BOOLEAN,
               GrantFails(q, a, g) \/ SetFails(q, a, g)
        PROVE  WorkFlow(q) /\ Forward(q)
    BY <1>3, <2>5 DEF GrantFails, SetFails, Critical, reqVars, WorkFlow, Kept, Forward
  <2> QED BY <1>6, <2>1, <2>2, <2>3, <2>4, <2>5 DEF Fault
<1>7. CASE Restart
  BY <1>7 DEF Restart, InFlight, WorkFlow, Forward
<1>8. CASE Tick \/ UNCHANGED vars
  BY <1>8 DEF Tick, vars, reqVars, WorkFlow, Kept, Forward
<1> QED BY <1>1, <1>4, <1>5, <1>6, <1>7, <1>8, NextActs, ActsLocal DEF Acts

-----------------------------------------------------------------------------
(***************************************************************************)
(* Logout.  LogoutIsFinalUnlessRaced says nothing of the data that requests *)
(* carry, which is what may come back, nor of where any of it came from.   *)
(***************************************************************************)
\* No logout answers with success a read that has failed.
HonestLogout == "store" \in Faults => \A p \in Reqs : KindOf[p] # "logout"

\* Each login has a session key of its own.
OneLoginPerKey ==
    \A i, j \in Reqs :
        /\ KindOf[i] = "login" /\ KindOf[j] = "login"
        /\ key[i] # None /\ key[i] = key[j]
        => i = j

\* Login i has made, or is making, the session at k.
Origin(i, k) ==
    KindOf[i] = "login" /\ key[i] = k /\ pc[i] \in {"write", "done"}

StoredOrigin == \A k \in Keys : store[k] # None => Origin(store[k].inst, k)

CarriedOrigin ==
    \A p \in Reqs :
        /\ Carries(p) => Origin(work[p].inst, key[p])
        /\ pc[p] = "write" => work[p].inst = p

TargetOrigin ==
    /\ \A p \in Reqs : target[p] # None =>
          pc[p] # "idle" /\ Origin(target[p], key[p]) /\ pc[target[p]] = "done"
    /\ \A i \in loggedOut : pc[i] = "done"

OriginInv == StoredOrigin /\ CarriedOrigin /\ TargetOrigin

\* What a logout is about is decided when it arrives.
TargetFlow(q) ==
    \/ target'[q] \in {target[q], None}
    \/ /\ pc[q] = "idle" /\ pc'[q] # "idle" /\ key'[q] \in Keys
       /\ store[key'[q]] # None /\ target'[q] = store[key'[q]].inst
       /\ pc[target'[q]] = "done"

\* A logout that is answered with success leaves no session at its key.
LogoutFlow ==
    \/ UNCHANGED <<loggedOut, raced>>
    \/ \E p \in Reqs :
          /\ target[p] # None
          /\ loggedOut' = loggedOut \cup {target[p]}
          /\ raced' = raced \cup {i \in {target[p]} : \E q \in Reqs :
                                     pc[q] = "set" /\ work[q].inst = i}
          /\ HonestLogout => store'[key[p]] = None
          /\ \A k \in Keys : store'[k] \in {store[k], None}
          /\ \A q \in Reqs : pc'[q] = "set" => pc[q] = "set" /\ work'[q] = work[q]

\* Every step treats what was asked of logouts in one of these ways.
LEMMA LogoutFlows ==
    ASSUME TypeOK, [Next]_vars
    PROVE  LogoutFlow /\ \A q \in Reqs : TargetFlow(q)
<1> USE DEF TypeOK, GhostTypes
<1>1. CASE UNCHANGED ghostVars
  BY <1>1 DEF ghostVars, LogoutFlow, TargetFlow
<1>2. ASSUME NEW p \in Reqs, NEW a, Promise(p, a), Respond(p, a),
             a = "ok" => \/ target[p] = None
                         \/ HonestLogout => store'[key[p]] = None,
             \A k \in Keys : store'[k] \in {store[k], None}
      PROVE  LogoutFlow /\ \A q \in Reqs : TargetFlow(q)
  <2>1. \A q \in Reqs : TargetFlow(q)
    BY <1>2 DEF Promise, TargetFlow
  <2>2. CASE a = "ok" /\ target[p] # None
    <3>1. \A q \in Reqs : pc'[q] = "set" => pc[q] = "set" /\ work'[q] = work[q]
      BY <1>2 DEF Respond, RequestTypes
    <3> QED BY <1>2, <2>1, <2>2, <3>1 DEF Promise, LogoutFlow
  <2>3. CASE ~(a = "ok" /\ target[p] # None)
    <3>1. loggedOut' = loggedOut /\ raced' = raced
      BY <1>2, <2>3 DEF Promise
    <3> QED BY <2>1, <3>1 DEF LogoutFlow
  <2> QED BY <2>2, <2>3
<1>3. ASSUME NEW p \in Reqs, Begin(p)
      PROVE  LogoutFlow /\ \A q \in Reqs : TargetFlow(q)
  <2>1. ASSUME NEW k \in Keys, Arrive(p, k)
        PROVE  LogoutFlow /\ \A q \in Reqs : TargetFlow(q)
    BY <2>1 DEF Arrive, LogoutFlow, TargetFlow, RequestTypes
  <2> QED BY <1>1, <1>3, <2>1 DEF Begin, Login, Refuse
<1>4. ASSUME NEW p \in Reqs, Step(p)
      PROVE  LogoutFlow /\ \A q \in Reqs : TargetFlow(q)
  <2>1. CASE LogoutRead(p)
    BY <1>1, <1>2, <2>1 DEF LogoutRead, storeVars
  <2>2. CASE Delete(p)
    <3>1. store' = [store EXCEPT ![key[p]] = None] /\ key[p] \in Keys
      BY <2>2 DEF Delete, Remove, LocalData, InFlight
    <3> QED BY <1>2, <2>2, <3>1 DEF Delete, StoreTypes
  <2>3. CASE ~LogoutRead(p) /\ ~Delete(p)
    BY <1>1, <1>4, <2>3
       DEF Step, ProxyRead, RefreshRead, SessionRead, Write, Acquire, AcquireTimesOut,
           Reread, Grant, GrantRejected, UpdateRead, Set, Release
  <2> QED BY <2>1, <2>2, <2>3
<1>5. ASSUME NEW p \in Reqs, Fault(p)
      PROVE  LogoutFlow /\ \A q \in Reqs : TargetFlow(q)
  <2>1. CASE ReadFails(p)
    BY <1>2, <2>1 DEF ReadFails, storeVars, HonestLogout
  <2>2. CASE Crash(p)
    BY <1>2, <2>2 DEF Crash, storeVars
  <2>3. ASSUME NEW a \in BOOLEAN, NEW g \in BOOLEAN, DeleteFails(p, a, g)
        PROVE  LogoutFlow /\ \A q \in Reqs : TargetFlow(q)
    <3>1. \A k \in Keys : store'[k] \in {store[k], None}
      BY <2>3 DEF DeleteFails, Remove, storeVars, StoreTypes
    <3> QED BY <1>1, <1>2, <2>3, <3>1 DEF DeleteFails
  <2>4. CASE /\ ~ReadFails(p) /\ ~Crash(p)
             /\ ~\E a, g \in BOOLEAN : DeleteFails(p, a, g)
    BY <1>1, <1>5, <2>4
       DEF Fault, RereadFails, UpdateReadFails, ReleaseFails, AcquireFails,
           WriteFails, GrantFails, SetFails
  <2> QED BY <2>1, <2>2, <2>3, <2>4
<1>6. CASE Restart
  BY <1>6 DEF Restart, LogoutFlow, TargetFlow
<1>7. CASE Tick \/ UNCHANGED vars
  BY <1>1, <1>7 DEF Tick, vars, ghostVars
<1> QED BY <1>3, <1>4, <1>5, <1>6, <1>7, NextActs DEF Acts

\* The data of a request is typed, and so is the login it names.
LEMMA DataTypes ==
    ASSUME TypeOK
    PROVE  /\ \A k \in Keys : store[k] # None => store[k] \in Data
           /\ \A p \in Reqs : InFlight(p) => key[p] \in Keys
           /\ \A p \in Reqs : Carries(p) => work[p] \in Data /\ key[p] \in Keys
           /\ \A d \in Data : d.inst \in Reqs /\ d.md \in Metadata
  BY DEF TypeOK, StoreTypes, LocalData, Carries, InFlight, Data

\* A grant changes neither the login nor the lifetime of the session.
LEMMA GrantedKeeps ==
    ASSUME NEW d \in Data, NEW reply \in IdpReplies, NEW l \in TokenLifetimes,
           now \in Nat \ {0}
    PROVE  LET g == Granted(d, reply, l)
           IN  /\ g.inst = d.inst
               /\ g.md.createdAt = d.md.createdAt /\ g.md.endsAt = d.md.endsAt
               /\ g.md.refreshedAt = now
               /\ Inactivity => g.md.timeoutAt = now + InactivityTimeout
<1> DEFINE e == IF reply = "empty" THEN 0 ELSE l
           r == Refreshed(d.md, now, e)
           half == [d.md EXCEPT !.refreshedAt = now]
           new == [half EXCEPT !.expireAt = now + e]
<1>1. d.md \in Metadata
  BY DEF Data
<1>2. /\ half \in Metadata /\ half.createdAt = d.md.createdAt
      /\ half.endsAt = d.md.endsAt /\ half.refreshedAt = now
  BY <1>1 DEF Metadata
<1>3. e \in Int
  BY HandlerAssumption
<1>4. /\ new \in Metadata /\ new.createdAt = d.md.createdAt
      /\ new.endsAt = d.md.endsAt /\ new.refreshedAt = now
  <2> HIDE DEF half, e
  <2> QED BY <1>2, <1>3 DEF Metadata
<1>5. r = IF Inactivity THEN [new EXCEPT !.timeoutAt = now + InactivityTimeout] ELSE new
  BY DEF Refreshed, Refresh, ExtendTimeout
<1>6. /\ r.createdAt = d.md.createdAt /\ r.endsAt = d.md.endsAt
      /\ r.refreshedAt = now
      /\ Inactivity => r.timeoutAt = now + InactivityTimeout
  <2> HIDE DEF new, r
  <2> QED BY <1>4, <1>5 DEF Metadata
<1>7. Granted(d, reply, l).inst = d.inst /\ Granted(d, reply, l).md = r
  BY DEF Granted
<1> HIDE DEF r
<1> QED BY <1>6, <1>7

\* The flows of data keep the origins of all data.
LEMMA OriginNext ==
    ASSUME TypeOK, OriginInv, [Next]_vars
    PROVE  OriginInv'
<1> USE DEF OriginInv, Origin
<1>0. /\ \A k \in Keys : StoreFlow(k)
      /\ \A q \in Reqs : WorkFlow(q) /\ Forward(q) /\ TargetFlow(q)
      /\ LogoutFlow
  BY StoreFlows, WorkFlows, LogoutFlows
<1>1. \A i \in Reqs, k \in Keys : Origin(i, k) => Origin(i, k)'
  BY <1>0 DEF Forward
<1>2. \A k \in Keys : store[k] # None => store[k].inst \in Reqs
  BY DataTypes
<1>3. \A p \in Reqs : Carries(p) => work[p].inst \in Reqs /\ key[p] \in Keys
  BY DataTypes
<1>4. StoredOrigin'
  <2> SUFFICES ASSUME NEW k \in Keys, store'[k] # None
               PROVE  Origin(store[k].inst, k)'
    BY DEF StoredOrigin
  <2>1. \/ store'[k] = store[k]
        \/ \E p \in Reqs : Carries(p) /\ key[p] = k /\ store'[k] = work[p]
    BY <1>0 DEF StoreFlow, Carries
  <2> QED BY <1>1, <1>2, <1>3, <2>1 DEF StoredOrigin, CarriedOrigin
<1>5. CarriedOrigin'
  <2> SUFFICES ASSUME NEW q \in Reqs, Carries(q)'
               PROVE  /\ Origin(work[q].inst, key[q])'
                      /\ pc'[q] = "write" => work'[q].inst = q
    BY DEF CarriedOrigin, Carries
  <2>1. CASE Kept(q)
    <3>1. Carries(q) /\ (pc'[q] = "write" => pc[q] = "write")
      BY <2>1 DEF Carries, Kept
    <3> QED BY <1>1, <1>3, <2>1, <3>1 DEF Kept, CarriedOrigin
  <2>2. CASE Made(q)
    <3>1. work'[q].inst = q
      BY <2>2 DEF Made
    <3> QED BY <2>2, <3>1 DEF Made
  <2>3. CASE Reread1(q)
    <3>1. key[q] \in Keys
      BY <2>3, DataTypes DEF Reread1, InFlight
    <3> QED BY <1>1, <1>2, <2>3, <3>1 DEF Reread1, StoredOrigin
  <2>4. CASE Renewed(q)
    <3>1. Carries(q) /\ work[q] \in Data
      BY <2>4, DataTypes DEF Renewed, Carries
    <3>2. work'[q].inst = work[q].inst
      BY <2>4, <3>1, GrantedKeeps DEF Renewed, TypeOK, StoreTypes
    <3> QED BY <1>1, <1>3, <2>4, <3>1, <3>2 DEF Renewed, CarriedOrigin
  <2> QED BY <1>0, <2>1, <2>2, <2>3, <2>4 DEF WorkFlow
<1>6. TargetOrigin'
  <2>1. ASSUME NEW q \in Reqs, target'[q] # None
        PROVE  /\ pc'[q] # "idle" /\ Origin(target[q], key[q])'
               /\ pc'[target'[q]] = "done"
    <3>1. CASE target'[q] = target[q]
      <4>1. target[q] \in Reqs /\ target[q] # None
        BY <2>1, <3>1 DEF TypeOK, GhostTypes
      <4>2. pc[q] # "idle" /\ Origin(target[q], key[q]) /\ pc[target[q]] = "done"
        BY <4>1 DEF TargetOrigin
      <4> QED BY <1>0, <3>1, <4>1, <4>2 DEF Forward
    <3>2. CASE target'[q] # target[q]
      <4>1. /\ pc'[q] # "idle" /\ key'[q] \in Keys
            /\ store[key'[q]] # None /\ target'[q] = store[key'[q]].inst
            /\ pc[target'[q]] = "done"
        BY <1>0, <2>1, <3>2 DEF TargetFlow
      <4>2. target'[q] \in Reqs /\ Origin(target'[q], key'[q])
        BY <1>2, <4>1 DEF StoredOrigin
      <4> QED BY <1>0, <4>1, <4>2 DEF Forward
    <3> QED BY <3>1, <3>2
  <2>2. ASSUME NEW i \in loggedOut' PROVE pc'[i] = "done"
    <3>1. i \in loggedOut \/ \E p \in Reqs : target[p] # None /\ i = target[p]
      BY <1>0, <2>2 DEF LogoutFlow
    <3>2. i \in Reqs /\ pc[i] = "done"
      BY <3>1 DEF TargetOrigin, TypeOK, GhostTypes
    <3> QED BY <1>0, <3>2 DEF Forward
  <2> QED BY <2>1, <2>2 DEF TargetOrigin
<1> QED BY <1>4, <1>5, <1>6

\* Session data, stored or carried, stems from a login with that session key,
\* and only an answered login is ever logged out.
LEMMA OriginInvariant == Spec => []OriginInv
<1>1. Init => OriginInv
  BY DEF Init, OriginInv, StoredOrigin, CarriedOrigin, TargetOrigin, Carries
<1>2. TypeOK /\ OriginInv /\ [Next]_vars => OriginInv'
  BY OriginNext
<1> QED BY <1>1, <1>2, TypeCorrect, PTL DEF Spec

\* A session that was logged out is stored, or about to be, only when an Update
\* raced with the logout.
LogoutInv ==
    /\ LogoutIsFinalUnlessRaced
    /\ \A p \in Reqs :
          pc[p] = "set" /\ work[p].inst \in loggedOut => work[p].inst \in raced

\* The logout of a session with a key of its own brings back no session but one
\* that Store.Update was between its Read and its SET for.
LEMMA LogoutNext ==
    ASSUME TypeOK, OriginInv, HonestLogout, LogoutInv, [Next]_vars,
           RefreshEnabled => OneLoginPerKey,
           \A p \in Reqs : InRefresh(p) => RefreshEnabled
    PROVE  LogoutInv'
<1> USE DEF OriginInv
<1>0. /\ \A k \in Keys : StoreFlow(k)
      /\ \A q \in Reqs : WorkFlow(q) /\ Forward(q)
      /\ LogoutFlow
  BY StoreFlows, WorkFlows, LogoutFlows
<1>1. \A k \in Keys : store[k] # None => store[k].inst \in Reqs
  BY DataTypes
<1>2. CASE UNCHANGED <<loggedOut, raced>>
  <2>1. ASSUME NEW k \in Keys, store'[k] # None, store'[k].inst \in loggedOut
        PROVE  store'[k].inst \in raced
    <3>1. CASE store'[k] = store[k]
      BY <2>1, <3>1 DEF LogoutInv, LogoutIsFinalUnlessRaced
    <3>2. ASSUME NEW p \in Reqs, pc[p] \in {"write", "set"}, store'[k] = work[p]
          PROVE  store'[k].inst \in raced
      BY <2>1, <3>2 DEF LogoutInv, CarriedOrigin, TargetOrigin
    <3> QED BY <1>0, <2>1, <3>1, <3>2 DEF StoreFlow
  <2>2. ASSUME NEW q \in Reqs, pc'[q] = "set", work'[q].inst \in loggedOut
        PROVE  work'[q].inst \in raced
    <3>1. Kept(q)
      BY <1>0, <2>2 DEF WorkFlow, Carries, Made, Reread1, Renewed
    <3>2. CASE pc[q] = "set"
      BY <2>2, <3>1, <3>2 DEF Kept, LogoutInv
    <3>3. CASE pc[q] = "update"
      <4>1. store[key[q]] # None /\ work'[q] = work[q]
        BY <2>2, <3>1, <3>3 DEF Kept
      <4>2. key[q] \in Keys /\ Carries(q) /\ work[q].inst \in Reqs
        BY <3>3, DataTypes DEF Carries
      <4>3. /\ Origin(store[key[q]].inst, key[q])
            /\ Origin(work[q].inst, key[q])
        BY <4>1, <4>2 DEF StoredOrigin, CarriedOrigin
      <4>4. OneLoginPerKey
        BY <3>3 DEF InRefresh, Holding
      <4>5. store[key[q]].inst = work[q].inst
        BY <1>1, <4>1, <4>2, <4>3, <4>4, HandlerAssumption DEF OneLoginPerKey, Origin
      <4> QED BY <2>2, <4>1, <4>2, <4>5 DEF LogoutInv, LogoutIsFinalUnlessRaced
    <3> QED BY <2>2, <3>1, <3>2, <3>3 DEF Kept
  <2> QED BY <1>2, <2>1, <2>2 DEF LogoutInv, LogoutIsFinalUnlessRaced
<1>3. ASSUME NEW p \in Reqs, target[p] # None,
             loggedOut' = loggedOut \cup {target[p]},
             raced' = raced \cup {i \in {target[p]} : \E q \in Reqs :
                                     pc[q] = "set" /\ work[q].inst = i},
             store'[key[p]] = None,
             \A k \in Keys : store'[k] \in {store[k], None},
             \A q \in Reqs : pc'[q] = "set" => pc[q] = "set" /\ work'[q] = work[q]
      PROVE  LogoutInv'
  <2>1. ASSUME NEW k \in Keys, store'[k] # None, store'[k].inst \in loggedOut'
        PROVE  store'[k].inst \in raced'
    <3>1. store'[k] = store[k]
      BY <1>3, <2>1
    <3>2. Origin(store[k].inst, k) /\ Origin(target[p], key[p])
      BY <1>3, <2>1, <3>1 DEF StoredOrigin, TargetOrigin
    <3>3. store[k].inst # target[p]
      BY <1>3, <2>1, <3>2 DEF Origin
    <3> QED BY <1>3, <2>1, <3>1, <3>3 DEF LogoutInv, LogoutIsFinalUnlessRaced
  <2>2. ASSUME NEW q \in Reqs, pc'[q] = "set", work'[q].inst \in loggedOut'
        PROVE  work'[q].inst \in raced'
    BY <1>3, <2>2 DEF LogoutInv
  <2> QED BY <2>1, <2>2 DEF LogoutInv, LogoutIsFinalUnlessRaced
<1> QED BY <1>0, <1>2, <1>3 DEF LogoutFlow

\* No request is in Handler.Refresh unless session.refresh is on.
RefreshOff == \A p \in Reqs : InRefresh(p) => RefreshEnabled

\* Handler.Refresh is entered only behind canRefresh and shouldRefresh.
LEMMA RefreshOffInvariant == Spec => []RefreshOff
<1>1. Init => RefreshOff
  BY DEF Init, RefreshOff, InRefresh, Waiting, Holding
<1>2. TypeOK /\ RefreshOff /\ [Next]_vars => RefreshOff'
  BY WorkFlows DEF RefreshOff, Forward
<1> QED BY <1>1, <1>2, TypeCorrect, PTL DEF Spec

\* With session.refresh on, and a session key for every login, the only session
\* that a logout answered with success leaves behind is one that a concurrent
\* Store.Update was about to SET; whatever else fails, waits or crashes.
THEOREM LogoutFinalUnlessRaced ==
    Spec /\ []OneLoginPerKey => [](HonestLogout => LogoutIsFinalUnlessRaced)
<1>1. Init => LogoutInv
  BY DEF Init, LogoutInv, LogoutIsFinalUnlessRaced
<1>2. TypeOK /\ OriginInv /\ RefreshOff /\ OneLoginPerKey
        /\ (HonestLogout => LogoutInv) /\ [Next]_vars => (HonestLogout => LogoutInv')
  BY LogoutNext DEF RefreshOff
<1>3. HonestLogout' <=> HonestLogout
  BY DEF HonestLogout
<1>4. LogoutInv => LogoutIsFinalUnlessRaced
  BY DEF LogoutInv
<1> QED BY <1>1, <1>2, <1>3, <1>4, TypeCorrect, OriginInvariant, RefreshOffInvariant,
           PTL DEF Spec

\* Without session.refresh nothing races with a logout: it is final, also when
\* several logins share the session key.
THEOREM LogoutFinal ==
    Spec => [](HonestLogout /\ ~RefreshEnabled => LogoutIsFinal)
<1> DEFINE Off == HonestLogout /\ ~RefreshEnabled
           Inv == LogoutInv /\ raced = {}
<1>1. Init => Inv
  BY DEF Init, LogoutInv, LogoutIsFinalUnlessRaced
<1>2. TypeOK /\ OriginInv /\ RefreshOff /\ (Off => Inv) /\ [Next]_vars => (Off => Inv')
  <2> SUFFICES ASSUME TypeOK, OriginInv, RefreshOff, Off, Inv, [Next]_vars
               PROVE  Inv'
    OBVIOUS
  <2>1. LogoutInv'
    BY LogoutNext DEF RefreshOff
  <2>2. LogoutFlow /\ \A q \in Reqs : pc[q] # "set"
    BY LogoutFlows DEF RefreshOff, InRefresh, Holding
  <2>3. raced' = {}
    BY <2>2 DEF LogoutFlow
  <2> QED BY <2>1, <2>3
<1>3. Off' <=> Off
  BY DEF HonestLogout
<1>4. Inv => LogoutIsFinal
  BY DEF LogoutInv, LogoutIsFinalUnlessRaced, LogoutIsFinal
<1> HIDE DEF Off, Inv
<1>5. Spec => [](Off => LogoutIsFinal)
  BY <1>1, <1>2, <1>3, <1>4, TypeCorrect, OriginInvariant, RefreshOffInvariant,
     PTL DEF Spec
<1> QED BY <1>5 DEF Off

-----------------------------------------------------------------------------
(***************************************************************************)
(* The times in session data.  What a step may put in place of the stored  *)
(* data is what some request carries, so these properties need invariants  *)
(* of all data, stored and carried.                                        *)
(***************************************************************************)
Held == {store[k] : k \in {j \in Keys : store[j] # None}}
            \cup {work[p] : p \in {q \in Reqs : Carries(q)}}

\* Data of one login has one creation time.
Agree == \A d, e \in Held : d.inst = e.inst => d.md.createdAt = e.md.createdAt

\* Lifetimes run from the creation, timeouts from the last refresh, and no
\* refresh is before the creation or in the future.
Times ==
    \A d \in Held :
        /\ 1 <= d.md.createdAt /\ d.md.createdAt <= d.md.refreshedAt
        /\ d.md.refreshedAt <= now
        /\ d.md.endsAt = d.md.createdAt + MaxLifetime
        /\ Inactivity => d.md.timeoutAt = d.md.refreshedAt + InactivityTimeout

\* What a login writes was never refreshed.
Unrefreshed == \A p \in Reqs : pc[p] = "write" =>
                  work[p].md.refreshedAt = work[p].md.createdAt

HistoryInv == Agree /\ Times /\ Unrefreshed

\* Stored and carried data is typed.
LEMMA HeldType ==
    ASSUME TypeOK
    PROVE  Held \subseteq Data
  BY DataTypes DEF Held

\* The metadata of a login.
LEMMA CreatedTimes ==
    ASSUME NEW t \in Nat \ {0}, NEW l \in TokenLifetimes
    PROVE  LET m == Created(t, l)
           IN  /\ m.createdAt = t /\ m.refreshedAt = t /\ m.endsAt = t + MaxLifetime
               /\ Inactivity => m.timeoutAt = t + InactivityTimeout
<1> DEFINE new == NewMetadata(t, l, MaxLifetime)
<1>1. /\ new \in Metadata /\ new.createdAt = t /\ new.refreshedAt = t
      /\ new.endsAt = t + MaxLifetime
  BY SessionConfigAssumption, HandlerAssumption DEF NewMetadata, Metadata, ZeroTime
<1>2. Created(t, l) = IF Inactivity THEN [new EXCEPT !.timeoutAt = t + InactivityTimeout]
                      ELSE new
  BY DEF Created, WithTimeout
<1> HIDE DEF new
<1> QED BY <1>1, <1>2 DEF Metadata

\* Data is handed on, made by a login, or renewed by a grant.
LEMMA HeldFlows ==
    ASSUME TypeOK, [Next]_vars, NEW d \in Held'
    PROVE  \/ d \in Held
           \/ \E q \in Reqs : Made(q) /\ d = work'[q]
           \/ \E q \in Reqs : Renewed(q) /\ d = work'[q] /\ work[q] \in Held
<1>1. CASE \E k \in Keys : store'[k] # None /\ d = store'[k]
  BY <1>1, StoreFlows DEF StoreFlow, Held, Carries
<1>2. ASSUME NEW q \in Reqs, Carries(q)', d = work'[q]
      PROVE  \/ d \in Held
             \/ Made(q)
             \/ Renewed(q) /\ work[q] \in Held
  <2>1. CASE Kept(q)
    BY <1>2, <2>1 DEF Kept, Held, Carries
  <2>2. CASE Reread1(q)
    <3>1. key[q] \in Keys
      BY <2>2, DataTypes DEF Reread1, InFlight
    <3> QED BY <1>2, <2>2, <3>1 DEF Reread1, Held
  <2>3. CASE Renewed(q)
    BY <2>3 DEF Renewed, Held, Carries
  <2> QED BY <1>2, <2>1, <2>2, <2>3, WorkFlows DEF WorkFlow
<1> QED BY <1>1, <1>2 DEF Held

\* The clock does not go back.
LEMMA ClockFlows ==
    ASSUME TypeOK, [Next]_vars
    PROVE  /\ now' \in Nat \ {0} /\ now' >= now
           /\ \/ now' = now
              \/ /\ now' = now + 1 /\ UNCHANGED <<pc, key, work, timer, seen, out, res>>
                 /\ "slow" \in Faults \/ Timely
<1>1. now \in Nat \ {0}
  BY DEF TypeOK, StoreTypes
<1>2. \/ now' = now
      \/ /\ now' = now + 1 /\ UNCHANGED <<pc, key, work, timer, seen, out, res>>
         /\ "slow" \in Faults \/ Timely
  <2>1. ASSUME NEW p \in Reqs, Begin(p) PROVE now' = now
    BY <2>1 DEF Begin, Arrive, Login, Refuse
  <2>2. ASSUME NEW p \in Reqs, Step(p) PROVE now' = now
    BY <2>2 DEF Step, ProxyRead, RefreshRead, SessionRead, LogoutRead, Delete, Write,
                Acquire, AcquireTimesOut, Reread, Grant, GrantRejected, UpdateRead, Set,
                Release
  <2>3. ASSUME NEW p \in Reqs, Fault(p) PROVE now' = now
    BY <2>3 DEF Fault, ReadFails, RereadFails, UpdateReadFails, ReleaseFails,
                AcquireFails, DeleteFails, WriteFails, GrantFails, SetFails, Crash
  <2>4. CASE Restart \/ Tick \/ UNCHANGED vars
    BY <2>4 DEF Restart, Tick, reqVars, vars
  <2> QED BY <2>1, <2>2, <2>3, <2>4, NextActs DEF Acts
<1> QED BY <1>1, <1>2

\* The times in the data of a login, and in that of a grant.
LEMMA NewTimes ==
    ASSUME TypeOK, NEW q \in Reqs
    PROVE  /\ Made(q) =>
                 LET m == work'[q].md
                 IN  /\ work'[q].inst = q
                     /\ m.createdAt = now /\ m.refreshedAt = now
                     /\ m.endsAt = now + MaxLifetime
                     /\ Inactivity => m.timeoutAt = now + InactivityTimeout
           /\ Renewed(q) =>
                 LET m == work'[q].md
                 IN  /\ work'[q].inst = work[q].inst
                     /\ m.createdAt = work[q].md.createdAt
                     /\ m.endsAt = work[q].md.endsAt
                     /\ m.refreshedAt = now
                     /\ Inactivity => m.timeoutAt = now + InactivityTimeout
<1>1. now \in Nat \ {0}
  BY DEF TypeOK, StoreTypes
<1>2. ASSUME Made(q)
      PROVE  LET m == work'[q].md
             IN  /\ work'[q].inst = q
                 /\ m.createdAt = now /\ m.refreshedAt = now
                 /\ m.endsAt = now + MaxLifetime
                 /\ Inactivity => m.timeoutAt = now + InactivityTimeout
  <2>1. PICK l \in TokenLifetimes :
           work'[q] = [inst |-> q, hasAT |-> TRUE, rt |-> 1, md |-> Created(now, l)]
    BY <1>2 DEF Made
  <2>2. work'[q].inst = q /\ work'[q].md = Created(now, l)
    BY <2>1
  <2> QED BY <1>1, <2>2, CreatedTimes
<1>3. ASSUME Renewed(q)
      PROVE  LET m == work'[q].md
             IN  /\ work'[q].inst = work[q].inst
                 /\ m.createdAt = work[q].md.createdAt
                 /\ m.endsAt = work[q].md.endsAt
                 /\ m.refreshedAt = now
                 /\ Inactivity => m.timeoutAt = now + InactivityTimeout
  <2>1. work[q] \in Data
    BY <1>3, DataTypes DEF Renewed, Carries
  <2>2. PICK reply \in IdpReplies, l \in TokenLifetimes :
           work'[q] = Granted(work[q], reply, l)
    BY <1>3 DEF Renewed
  <2> QED BY <1>1, <2>1, <2>2, GrantedKeeps
<1> QED BY <1>2, <1>3

\* All data of a login keeps the times that belong to it.
LEMMA HistoryNext ==
    ASSUME TypeOK, TypeOK', OriginInv, HistoryInv, [Next]_vars
    PROVE  HistoryInv'
<1> USE DEF HistoryInv
<1>0. /\ now \in Nat \ {0} /\ now' \in Nat \ {0} /\ now' >= now
      /\ \A q \in Reqs : Made(q) \/ Renewed(q) => now' = now
  BY ClockFlows DEF TypeOK, StoreTypes, Made, Renewed
<1>1. ASSUME NEW q \in Reqs, Made(q), NEW d \in Held
      PROVE  d.inst # q
  <2>1. pc[q] = "idle"
    BY <1>1 DEF Made
  <2>2. PICK k : Origin(d.inst, k)
    BY <1>1 DEF Held, OriginInv, StoredOrigin, CarriedOrigin
  <2> QED BY <2>1, <2>2 DEF Origin
\* The creation time of new data is that of older data of the login, if any.
<1>2. ASSUME NEW d \in Held'
      PROVE  \/ \E q \in Reqs : Made(q) /\ d = work'[q] /\ d.inst = q
             \/ \E e \in Held : e.inst = d.inst /\ e.md.createdAt = d.md.createdAt
  BY <1>2, HeldFlows, NewTimes
<1>3. Agree'
  <2> SUFFICES ASSUME NEW d \in Held', NEW e \in Held', d.inst = e.inst
               PROVE  d.md.createdAt = e.md.createdAt
    BY DEF Agree
  <2>1. CASE \E q \in Reqs : Made(q) /\ d = work'[q] /\ d.inst = q
    BY <1>1, <1>2, <2>1
  <2>2. CASE \E q \in Reqs : Made(q) /\ e = work'[q] /\ e.inst = q
    BY <1>1, <1>2, <2>2
  <2> QED BY <1>2, <2>1, <2>2 DEF Agree
<1>4. Times'
  <2> SUFFICES ASSUME NEW d \in Held'
               PROVE  /\ 1 <= d.md.createdAt /\ d.md.createdAt <= d.md.refreshedAt
                      /\ d.md.refreshedAt <= now'
                      /\ d.md.endsAt = d.md.createdAt + MaxLifetime
                      /\ Inactivity => d.md.timeoutAt = d.md.refreshedAt + InactivityTimeout
    BY DEF Times
  <2>1. \A e \in Held : e.md \in Metadata
    BY HeldType, DataTypes
  <2>2. CASE d \in Held
    BY <1>0, <2>1, <2>2 DEF Times, Metadata
  <2>3. ASSUME NEW q \in Reqs, Made(q), d = work'[q]
        PROVE  /\ 1 <= d.md.createdAt /\ d.md.createdAt <= d.md.refreshedAt
               /\ d.md.refreshedAt <= now'
               /\ d.md.endsAt = d.md.createdAt + MaxLifetime
               /\ Inactivity => d.md.timeoutAt = d.md.refreshedAt + InactivityTimeout
    BY <1>0, <2>3, NewTimes
  <2>4. ASSUME NEW q \in Reqs, Renewed(q), d = work'[q], work[q] \in Held
        PROVE  /\ 1 <= d.md.createdAt /\ d.md.createdAt <= d.md.refreshedAt
               /\ d.md.refreshedAt <= now'
               /\ d.md.endsAt = d.md.createdAt + MaxLifetime
               /\ Inactivity => d.md.timeoutAt = d.md.refreshedAt + InactivityTimeout
    BY <1>0, <2>1, <2>4, NewTimes DEF Times, Metadata
  <2> QED BY <2>2, <2>3, <2>4, HeldFlows
<1>5. Unrefreshed'
  <2> SUFFICES ASSUME NEW q \in Reqs, pc'[q] = "write"
               PROVE  work'[q].md.refreshedAt = work'[q].md.createdAt
    BY DEF Unrefreshed
  <2>1. (Kept(q) /\ pc[q] = "write") \/ Made(q)
    BY WorkFlows DEF WorkFlow, Carries, Kept, Made, Reread1, Renewed
  <2> QED BY <2>1, NewTimes DEF Kept, Unrefreshed
<1> QED BY <1>3, <1>4, <1>5

\* Stored or carried, the data of a login keeps its creation and its lifetime.
LEMMA HistoryInvariant == Spec => []HistoryInv
<1>1. Init => HistoryInv
  BY DEF Init, HistoryInv, Agree, Times, Unrefreshed, Held, Carries
<1>2. TypeOK /\ TypeOK' /\ OriginInv /\ HistoryInv /\ [Next]_vars => HistoryInv'
  BY HistoryNext
<1> QED BY <1>1, <1>2, TypeCorrect, OriginInvariant, PTL DEF Spec

\* handler_test.go for every interleaving, fault and store: no refresh, and no
\* repeated write, moves the creation or the end of a session.
THEOREM LifetimeKept == Spec => RefreshKeepsLifetime
<1> DEFINE Keeps == \A k \in Keys :
          /\ store[k] # None /\ store'[k] # None
          /\ store'[k].inst = store[k].inst
          => /\ store'[k].md.createdAt = store[k].md.createdAt
             /\ store'[k].md.endsAt = store[k].md.endsAt
<1>1. TypeOK /\ HistoryInv /\ [Next]_vars => [Keeps]_vars
  <2> SUFFICES ASSUME TypeOK, HistoryInv, [Next]_vars, NEW k \in Keys,
                      store[k] # None, store'[k] # None,
                      store'[k].inst = store[k].inst
               PROVE  /\ store'[k].md.createdAt = store[k].md.createdAt
                      /\ store'[k].md.endsAt = store[k].md.endsAt
    OBVIOUS
  <2>1. store'[k] \in Held /\ store[k] \in Held
    BY StoreFlows DEF StoreFlow, Held, Carries
  <2> QED BY <2>1 DEF HistoryInv, Agree, Times
<1> QED BY <1>1, TypeCorrect, HistoryInvariant, PTL DEF Spec, RefreshKeepsLifetime

-----------------------------------------------------------------------------
(***************************************************************************)
(* Ends and roll-backs, while requests keep to their timers.               *)
(***************************************************************************)
Punctual == Backend = "redis" /\ "slow" \notin Faults

\* A session is written in the tick it is made in.
WrittenNow == \A p \in Reqs : pc[p] = "write" => work[p].md.createdAt = now

\* A request that keeps to its timers writes the session it has made at once.
LEMMA WrittenNowInvariant == Spec => [](Punctual => WrittenNow)
<1>1. Init => WrittenNow
  BY DEF Init, WrittenNow
<1>2. TypeOK /\ (Punctual => WrittenNow) /\ [Next]_vars => (Punctual => WrittenNow')
  <2> SUFFICES ASSUME TypeOK, Punctual, WrittenNow, [Next]_vars,
                      NEW q \in Reqs, pc'[q] = "write"
               PROVE  work'[q].md.createdAt = now'
    BY DEF WrittenNow
  <2>1. (Kept(q) /\ pc[q] = "write") \/ Made(q)
    BY WorkFlows DEF WorkFlow, Carries, Kept, Made, Reread1, Renewed
  <2>2. now' = now
    BY <2>1, ClockFlows DEF Punctual, Timely, Made
  <2> QED BY <2>1, <2>2, NewTimes DEF Kept, WrittenNow
<1>3. Punctual' <=> Punctual
  BY DEF Punctual
<1> QED BY <1>1, <1>2, <1>3, TypeCorrect, PTL DEF Spec

\* The TTL in Redis ends with the session.
TTLInv ==
    \A k \in Keys : store[k] # None =>
        /\ expiry[k] # NoTTL /\ expiry[k] = store[k].md.endsAt
        /\ now < expiry[k]

\* Without session.refresh, which may bring a session back that has no TTL, no
\* session is in Redis at or after its EndsAt.
THEOREM SessionsEnd ==
    Spec => [](Punctual /\ ~RefreshEnabled => SessionEnds)
<1> DEFINE Off == Punctual /\ ~RefreshEnabled
<1>1. Init => TTLInv
  BY DEF Init, TTLInv
<1>2. TypeOK /\ RefreshOff /\ HistoryInv /\ (Punctual => WrittenNow)
        /\ (Off => TTLInv) /\ [Next]_vars => (Off => TTLInv')
  <2> SUFFICES ASSUME TypeOK, RefreshOff, HistoryInv, WrittenNow, Off, TTLInv,
                      [Next]_vars, NEW k \in Keys, store'[k] # None
               PROVE  /\ expiry'[k] # NoTTL /\ expiry'[k] = store'[k].md.endsAt
                      /\ now' < expiry'[k]
    BY DEF TTLInv
  <2>0. now \in Nat \ {0} /\ expiry[k] \in Nat
    BY DEF TypeOK, StoreTypes
  <2>1. CASE /\ store'[k] = store[k] /\ expiry'[k] = expiry[k]
             /\ \/ now' = now
                \/ now' = now + 1 /\ (expiry[k] = NoTTL \/ now + 1 < expiry[k])
    BY <2>0, <2>1 DEF TTLInv
  <2>2. ASSUME NEW p \in Reqs, store'[k] = work[p], pc[p] = "write", now' = now,
               expiry'[k] = now + MaxLifetime
        PROVE  /\ expiry'[k] # NoTTL /\ expiry'[k] = store'[k].md.endsAt
               /\ now' < expiry'[k]
    <3>1. work[p] \in Held
      BY <2>2 DEF Held, Carries
    <3>2. work[p].md.endsAt = now + MaxLifetime
      BY <2>2, <3>1 DEF WrittenNow, HistoryInv, Times
    <3> QED BY <2>0, <2>2, <3>2, SessionConfigAssumption DEF NoTTL
  <2>3. \A p \in Reqs : pc[p] # "set"
    BY DEF RefreshOff, InRefresh, Holding
  <2> QED BY <2>1, <2>2, <2>3, StoreFlows DEF StoreFlow, Punctual
<1>3. Off' <=> Off
  BY DEF Punctual
<1>4. TypeOK /\ TTLInv => SessionEnds
  BY DEF TTLInv, SessionEnds, TypeOK, StoreTypes
<1> HIDE DEF Off
<1>5. Spec => [](Off => SessionEnds)
  BY <1>1, <1>2, <1>3, <1>4, TypeCorrect, RefreshOffInvariant, HistoryInvariant,
     WrittenNowInvariant, PTL DEF Spec
<1> QED BY <1>5 DEF Off

\* What a holder of the lock is about to save is no older than what is stored.
Ahead ==
    \A p \in Reqs :
        /\ pc[p] \in {"update", "set"} /\ store[key[p]] # None
        /\ store[key[p]].inst = work[p].inst
        => store[key[p]].md.refreshedAt <= work[p].md.refreshedAt

\* The lock, the second read and the clock keep what a holder saves ahead of
\* what it replaces, also when Redis applies a write whose reply is lost.
LEMMA AheadNext ==
    ASSUME TypeOK, OriginInv, HistoryInv, MutualExclusion, Punctual, Ahead, [Next]_vars
    PROVE  Ahead'
<1> SUFFICES ASSUME NEW q \in Reqs, pc'[q] \in {"update", "set"},
                    store'[key'[q]] # None,
                    store'[key'[q]].inst = work'[q].inst
             PROVE  store'[key'[q]].md.refreshedAt <= work'[q].md.refreshedAt
  BY DEF Ahead
<1>1. Kept(q) \/ Renewed(q)
  BY WorkFlows DEF WorkFlow, Carries, Made, Reread1
<1>2. /\ key'[q] = key[q] /\ key[q] \in Keys /\ Carries(q)
      /\ pc[q] \in {"grant", "update", "set"}
  BY <1>1, DataTypes DEF Kept, Renewed, Carries
<1>3. CASE Renewed(q)
  <2>1. store' = store /\ work'[q].md.refreshedAt = now
    BY <1>3, NewTimes DEF Renewed
  <2>2. store[key[q]] \in Held
    BY <1>2, <2>1 DEF Held
  <2> QED BY <1>2, <2>1, <2>2 DEF HistoryInv, Times
<1>4. CASE Kept(q)
  <2>1. work'[q] = work[q] /\ pc[q] \in {"update", "set"}
    BY <1>4 DEF Kept
  <2>2. CASE store'[key[q]] = store[key[q]]
    BY <1>2, <2>1, <2>2 DEF Ahead
  <2>3. ASSUME NEW p \in Reqs, key[p] = key[q], store'[key[q]] = work[p], pc[p] = "set"
        PROVE  store'[key'[q]].md.refreshedAt <= work'[q].md.refreshedAt
    <3>1. p = q
      BY <1>2, <2>3 DEF MutualExclusion, Punctual, Critical, Holding
    <3>2. work[q].md.refreshedAt \in Int
      BY <1>2, DataTypes DEF Metadata
    <3> QED BY <1>2, <2>1, <2>3, <3>1, <3>2
  \* A login whose first write was applied repeats it.
  <2>4. ASSUME NEW p \in Reqs, store'[key[q]] = work[p], pc[p] = "write"
        PROVE  store'[key'[q]].md.refreshedAt <= work'[q].md.refreshedAt
    <3>1. work[p] \in Held /\ work[q] \in Held /\ work[p].inst = work[q].inst
      BY <1>2, <2>1, <2>4 DEF Held, Carries
    <3>2. work[p].md.refreshedAt = work[q].md.createdAt
      BY <2>4, <3>1 DEF HistoryInv, Agree, Unrefreshed
    <3> QED BY <1>2, <2>1, <2>4, <3>1, <3>2 DEF HistoryInv, Times
  <2> QED BY <1>2, <2>2, <2>3, <2>4, StoreFlows DEF StoreFlow
<1> QED BY <1>1, <1>3, <1>4

\* While holders end within their lease, what they save is ahead.
LEMMA AheadInvariant == Spec => [](Punctual => Ahead)
<1>1. Init => Ahead
  BY DEF Init, Ahead
<1>2. TypeOK /\ OriginInv /\ HistoryInv /\ ("slow" \notin Faults => MutualExclusion)
        /\ (Punctual => Ahead) /\ [Next]_vars => (Punctual => Ahead')
  BY AheadNext DEF Punctual
<1>3. Punctual' <=> Punctual
  BY DEF Punctual
<1> QED BY <1>1, <1>2, <1>3, TypeCorrect, OriginInvariant, HistoryInvariant,
           RefreshExcludes, PTL DEF Spec

\* Handler.Update never loses a refresh to a slower one: with the Redis lock,
\* and holders that end within their lease, no step replaces the tokens of an
\* answered login by older ones, whichever replies are lost.
THEOREM TokensNotRolledBack == Spec => (Punctual => NoTokenRollback)
<1> DEFINE Forwards == \A k \in Keys :
          /\ store[k] # None /\ store'[k] # None
          /\ store'[k].inst = store[k].inst /\ pc[store[k].inst] = "done"
          => store'[k].md.refreshedAt >= store[k].md.refreshedAt
<1>1. TypeOK /\ OriginInv /\ Ahead /\ [Next]_vars => [Forwards]_vars
  <2> SUFFICES ASSUME TypeOK, OriginInv, Ahead, [Next]_vars, NEW k \in Keys,
                      store[k] # None, store'[k] # None,
                      store'[k].inst = store[k].inst, pc[store[k].inst] = "done"
               PROVE  store'[k].md.refreshedAt >= store[k].md.refreshedAt
    OBVIOUS
  <2>1. store[k].md.refreshedAt \in Int
    BY DataTypes DEF Metadata
  <2>2. CASE store'[k] = store[k]
    BY <2>1, <2>2
  <2>3. ASSUME NEW p \in Reqs, key[p] = k, store'[k] = work[p], pc[p] = "set"
        PROVE  store'[k].md.refreshedAt >= store[k].md.refreshedAt
    <3>1. work[p].md.refreshedAt \in Int
      BY <2>3, DataTypes DEF Metadata, Carries
    <3> QED BY <2>1, <2>3, <3>1 DEF Ahead
  <2>4. \A p \in Reqs : pc[p] = "write" => store'[k] # work[p]
    BY DEF OriginInv, CarriedOrigin
  <2> QED BY <2>2, <2>3, <2>4, StoreFlows DEF StoreFlow
<1>2. Punctual => Punctual'
  BY DEF Punctual
<1> QED BY <1>1, <1>2, TypeCorrect, OriginInvariant, AheadInvariant, PTL
        DEF Spec, NoTokenRollback

-----------------------------------------------------------------------------
(***************************************************************************)
(* Inactivity.  How long a decision on a session may be carried: the wait  *)
(* for the lock and the lease bound it, so the invariants relate the timer *)
(* of a request to the timeouts in the data it has seen, has, or will read.*)
(***************************************************************************)
\* The ways to be in Handler.Refresh after a step.
Enters(q) ==
    /\ pc[q] = "read" /\ pc'[q] = Waiting
    /\ now' = now /\ store' = store /\ key'[q] = key[q] /\ out'[q] = out[q]
    /\ store[key[q]] # None /\ seen'[q] = store[key[q]]
    /\ timer'[q] = now + AcquireTimeout
    /\ KindOf[q] = "proxy" => ~isTimedOut(store[key[q]].md, now)

Obtains(q) ==
    /\ pc[q] = Waiting /\ pc'[q] = "reread"
    /\ now' = now /\ store' = store /\ key'[q] = key[q] /\ seen'[q] = seen[q]
    /\ out'[q] = out[q]
    /\ Backend = "redis" => timer'[q] = now + LockDuration

Stays(q) ==
    /\ pc'[q] = pc[q] /\ key'[q] = key[q] /\ seen'[q] = seen[q]
    /\ work'[q] = work[q] /\ timer'[q] = timer[q] /\ out'[q] = out[q]

Proceeds(q) ==
    /\ Critical(q) /\ pc'[q] \in {"grant", "update", "set"}
    /\ key'[q] = key[q] /\ seen'[q] = seen[q] /\ timer'[q] = timer[q]
    /\ out'[q] = out[q]

Leaves(q) ==
    /\ pc[q] \in {"reread", "grant", "update", "set"} /\ pc'[q] = "release"
    /\ key'[q] = key[q] /\ seen'[q] = seen[q] /\ timer'[q] = timer[q]
    /\ out'[q] = "ok" =>
          \/ pc[q] = "set" /\ work'[q] = work[q]
          \/ pc[q] = "reread" /\ store[key[q]] # None /\ work'[q] = store[key[q]]

RefreshFlow(q) ==
    InRefresh(q)' => Enters(q) \/ Obtains(q) \/ Stays(q) \/ Proceeds(q) \/ Leaves(q)

\* Outside of the deferred Release, Refresh has no outcome; and only logouts
\* delete.
Roles(p) ==
    /\ pc[p] # "release" => out[p] = "none"
    /\ pc[p] = "delete" => KindOf[p] \in {"logout", "frontchannel"}
    /\ pc[p] = "write" => KindOf[p] = "login"

\* Every step of Handler.Refresh is one of these.
LEMMA RefreshFlows ==
    ASSUME TypeOK, [Next]_vars, NEW q \in Reqs
    PROVE  RefreshFlow(q) /\ (Roles(q) => Roles(q)')
<1> USE DEF TypeOK, RequestTypes, InRefresh, Waiting, Holding, Roles
<1>1. ASSUME Untouched(q) PROVE RefreshFlow(q) /\ (Roles(q) => Roles(q)')
  BY <1>1 DEF Untouched, RefreshFlow, Stays
<1>2. ASSUME NEW a, Respond(q, a) PROVE RefreshFlow(q) /\ (Roles(q) => Roles(q)')
  BY <1>2 DEF Respond, RefreshFlow
<1>3. ASSUME NEW o, Leave(q, o), pc[q] \in {"reread", "grant", "update", "set"},
             o = "ok" =>
                \/ pc[q] = "set" /\ UNCHANGED work
                \/ /\ pc[q] = "reread" /\ store[key[q]] # None
                   /\ work' = [work EXCEPT ![q] = store[key[q]]]
      PROVE  RefreshFlow(q) /\ (Roles(q) => Roles(q)')
  BY <1>3 DEF Leave, RefreshFlow, Leaves
<1>4. CASE Begin(q)
  <2>1. CASE Refuse(q)
    BY <1>2, <2>1 DEF Refuse
  <2>2. ASSUME NEW k \in Keys, Arrive(q, k)
        PROVE  RefreshFlow(q) /\ (Roles(q) => Roles(q)')
    BY <2>2 DEF Arrive, RefreshFlow
  <2>3. ASSUME NEW k \in Keys, NEW l \in TokenLifetimes, Login(q, k, l)
        PROVE  RefreshFlow(q) /\ (Roles(q) => Roles(q)')
    BY <2>3 DEF Login, RefreshFlow
  <2> QED BY <1>4, <2>1, <2>2, <2>3 DEF Begin
<1>5. CASE Step(q)
  <2>1. CASE ProxyRead(q) \/ RefreshRead(q)
    <3>1. CASE \E a : Respond(q, a)
      BY <1>2, <3>1
    <3>2. CASE ~\E a : Respond(q, a)
      BY <2>1, <3>2 DEF ProxyRead, RefreshRead, EnterRefresh, storeVars, RefreshFlow,
                        Enters
    <3> QED BY <3>1, <3>2
  <2>2. CASE \/ SessionRead(q) \/ Delete(q) \/ Write(q) \/ AcquireTimesOut(q)
             \/ Release(q)
    BY <1>2, <2>2 DEF SessionRead, Delete, Write, AcquireTimesOut, Release
  <2>3. CASE LogoutRead(q)
    BY <1>2, <2>3 DEF LogoutRead, RefreshFlow
  <2>4. CASE Acquire(q)
    BY <2>4, HandlerAssumption DEF Acquire, RefreshFlow, Obtains, storeVars
  <2>5. CASE Reread(q)
    <3>1. CASE \E o : Leave(q, o)
      BY <1>3, <2>5, <3>1 DEF Reread, Leave
    <3>2. CASE ~\E o : Leave(q, o)
      BY <2>5, <3>2 DEF Reread, RefreshFlow, Proceeds, Critical
    <3> QED BY <3>1, <3>2
  <2>6. CASE GrantRejected(q) \/ Set(q)
    BY <1>3, <2>6 DEF GrantRejected, Set
  <2>7. ASSUME NEW reply \in IdpReplies, NEW l \in TokenLifetimes, Grant(q, reply, l)
        PROVE  RefreshFlow(q) /\ (Roles(q) => Roles(q)')
    BY <2>7 DEF Grant, RefreshFlow, Proceeds, Critical
  <2>8. CASE UpdateRead(q)
    BY <1>3, <2>8 DEF UpdateRead, RefreshFlow, Proceeds, Critical
  <2> QED BY <1>5, <2>1, <2>2, <2>3, <2>4, <2>5, <2>6, <2>7, <2>8 DEF Step
<1>6. CASE Fault(q)
  <2>1. CASE ReadFails(q) \/ Crash(q) \/ ReleaseFails(q)
    BY <1>2, <2>1 DEF ReadFails, Crash, ReleaseFails
  <2>2. CASE RereadFails(q) \/ UpdateReadFails(q)
    BY <1>3, <2>2 DEF RereadFails, UpdateReadFails
  <2>3. ASSUME NEW a \in BOOLEAN, NEW g \in BOOLEAN, AcquireFails(q, a, g)
        PROVE  RefreshFlow(q) /\ (Roles(q) => Roles(q)')
    BY <1>2, <2>3 DEF AcquireFails, reqVars, RefreshFlow, Stays
  <2>4. ASSUME NEW a \in BOOLEAN, NEW g \in BOOLEAN,
               DeleteFails(q, a, g) \/ WriteFails(q, a, g)
        PROVE  RefreshFlow(q) /\ (Roles(q) => Roles(q)')
    BY <1>2, <2>4 DEF DeleteFails, WriteFails, reqVars, RefreshFlow, Stays
  <2>5. ASSUME NEW a \in BOOLEAN, NEW g \in BOOLEAN,
               GrantFails(q, a, g) \/ SetFails(q, a, g)
        PROVE  RefreshFlow(q) /\ (Roles(q) => Roles(q)')
    BY <1>3, <2>5 DEF GrantFails, SetFails, reqVars, RefreshFlow, Stays, Proceeds,
                      Critical
  <2> QED BY <1>6, <2>1, <2>2, <2>3, <2>4, <2>5 DEF Fault
<1>7. CASE Restart
  BY <1>7 DEF Restart, InFlight, RefreshFlow
<1>8. CASE Tick \/ UNCHANGED vars
  BY <1>8 DEF Tick, vars, reqVars, RefreshFlow, Stays
<1> QED BY <1>1, <1>4, <1>5, <1>6, <1>7, <1>8, NextActs, ActsLocal DEF Acts

\* A lease is short, and the session was active within LockDuration of its end:
\* the stored one, and the one that is to replace it.
LeaseShort == \A p \in Reqs : Critical(p) => timer[p] <= now + LockDuration

LeaseActive ==
    Inactivity => \A p \in Reqs : pc[p] \in {"grant", "update", "set"} =>
        /\ timer[p] <= work[p].md.timeoutAt + LockDuration
        /\ store[key[p]] # None =>
              timer[p] <= store[key[p]].md.timeoutAt + LockDuration

\* The second read under the lock ties the lease to the activity of the session.
LEMMA LeaseActiveNext ==
    ASSUME TypeOK, HistoryInv, WrittenNow, MutualExclusion, Punctual, LeaseShort,
           LeaseActive, [Next]_vars
    PROVE  LeaseShort' /\ LeaseActive'
<1>0. now \in Nat \ {0} /\ now' \in Nat \ {0} /\ now' >= now
  BY ClockFlows DEF TypeOK, StoreTypes
<1>1. \A q \in Reqs : timer[q] \in Nat
  BY DEF TypeOK, RequestTypes
<1>2. LockDuration \in Nat \ {0} /\ InactivityTimeout \in Nat
  BY HandlerAssumption, SessionConfigAssumption
<1>3. LeaseShort'
  <2> SUFFICES ASSUME NEW q \in Reqs, Critical(q)'
               PROVE  timer'[q] <= now' + LockDuration
    BY DEF LeaseShort
  <2>1. \/ Critical(q) /\ timer'[q] = timer[q]
        \/ timer'[q] = now + LockDuration
    BY RefreshFlows DEF RefreshFlow, InRefresh, Critical, Enters, Obtains, Stays,
                        Proceeds, Leaves, Holding, Waiting, Punctual
  <2> QED BY <1>0, <1>1, <1>2, <2>1 DEF LeaseShort
<1>4. LeaseActive'
  <2> SUFFICES ASSUME Inactivity, NEW q \in Reqs, pc'[q] \in {"grant", "update", "set"}
               PROVE  /\ timer'[q] <= work'[q].md.timeoutAt + LockDuration
                      /\ store'[key'[q]] # None =>
                            timer'[q] <= store'[key'[q]].md.timeoutAt + LockDuration
    BY DEF LeaseActive
  <2>0. /\ \A d \in Held : d.md \in Metadata
        /\ \A k \in Keys : store[k] # None => store[k] \in Held
        /\ \A p \in Reqs : Carries(p) => work[p] \in Held /\ key[p] \in Keys
    BY HeldType, DataTypes DEF Held
  <2>1. Kept(q) \/ Reread1(q) \/ Renewed(q)
    BY WorkFlows DEF WorkFlow, Carries, Made
  <2>2. key'[q] = key[q] /\ timer'[q] = timer[q] /\ Critical(q) /\ key[q] \in Keys
    BY <2>1, DataTypes DEF Kept, Reread1, Renewed, Critical, Holding, InFlight
  <2>3. timer[q] <= now + LockDuration
    BY <2>2 DEF LeaseShort
  <2>4. CASE Reread1(q)
    <3>1. store[key[q]] # None /\ work'[q] = store[key[q]] /\ store' = store
      BY <2>4 DEF Reread1
    <3>2. /\ store[key[q]].md.timeoutAt \in Int
          /\ store[key[q]].md.timeoutAt > 0
      BY <1>2, <2>0, <2>2, <3>1 DEF HistoryInv, Times, Metadata
    <3>3. now <= store[key[q]].md.timeoutAt
      BY <1>0, <2>4, <3>2 DEF Reread1, isTimedOut, IsTimedOut, ZeroTime
    <3> QED BY <1>0, <1>1, <1>2, <2>2, <2>3, <3>1, <3>2, <3>3
  <2>5. CASE Renewed(q)
    <3>1. work'[q].md.timeoutAt = now + InactivityTimeout /\ store' = store
      BY <2>5, NewTimes DEF Renewed
    <3>2. pc[q] = "grant"
      BY <2>5 DEF Renewed
    <3> QED BY <1>0, <1>1, <1>2, <2>2, <2>3, <3>1, <3>2 DEF LeaseActive
  <2>6. CASE Kept(q)
    <3>1. work'[q] = work[q] /\ pc[q] \in {"grant", "update", "set"}
      BY <2>6 DEF Kept
    <3>2. timer[q] <= work[q].md.timeoutAt + LockDuration
      BY <3>1 DEF LeaseActive
    <3>3. CASE store'[key[q]] = store[key[q]] \/ store'[key[q]] = None
      BY <2>2, <3>1, <3>2, <3>3 DEF LeaseActive
    <3>4. ASSUME NEW p \in Reqs, key[p] = key[q], store'[key[q]] = work[p],
                 pc[p] = "set"
          PROVE  timer[q] <= store'[key[q]].md.timeoutAt + LockDuration
      <4>1. p = q
        BY <2>2, <3>4 DEF MutualExclusion, Punctual, Critical, Holding
      <4> QED BY <3>2, <3>4, <4>1
    <3>5. ASSUME NEW p \in Reqs, store'[key[q]] = work[p], pc[p] = "write"
          PROVE  timer[q] <= store'[key[q]].md.timeoutAt + LockDuration
      <4>1. work[p] \in Held
        BY <2>0, <3>5 DEF Carries
      <4>2. work[p].md.timeoutAt = now + InactivityTimeout
        BY <3>5, <4>1 DEF HistoryInv, Times, Unrefreshed, WrittenNow
      <4> QED BY <1>0, <1>1, <1>2, <2>3, <3>5, <4>2
    <3> QED BY <2>2, <3>1, <3>2, <3>3, <3>4, <3>5, StoreFlows DEF StoreFlow
  <2> QED BY <2>1, <2>4, <2>5, <2>6
<1> QED BY <1>3, <1>4

\* A holder of the lock has seen the session active within its lease.
LEMMA LeaseActiveInvariant == Spec => [](Punctual => LeaseShort /\ LeaseActive)
<1>1. Init => LeaseShort /\ LeaseActive
  BY DEF Init, LeaseShort, LeaseActive, Critical, Holding
<1>2. TypeOK /\ HistoryInv /\ (Punctual => WrittenNow)
        /\ ("slow" \notin Faults => MutualExclusion)
        /\ (Punctual => LeaseShort /\ LeaseActive) /\ [Next]_vars
        => (Punctual => LeaseShort' /\ LeaseActive')
  BY LeaseActiveNext DEF Punctual
<1>3. Punctual' <=> Punctual
  BY DEF Punctual
<1> QED BY <1>1, <1>2, <1>3, TypeCorrect, HistoryInvariant, WrittenNowInvariant,
           RefreshExcludes, PTL DEF Spec

\* With the Redis lock and holders that end within their lease, no step revives a
\* session that has been inactive for LockDuration, whatever is lost or crashes.
THEOREM InactiveForGood == Spec => (Punctual => InactivityIsFinal)
<1> DEFINE Final == \A k \in Keys :
          /\ store[k] # None /\ store'[k] # None
          /\ store'[k].inst = store[k].inst
          /\ Inactivity /\ now >= store[k].md.timeoutAt + LockDuration
          => store'[k].md.timeoutAt <= store[k].md.timeoutAt
<1>1. TypeOK /\ HistoryInv /\ Punctual /\ LeaseInv /\ LeaseActive /\ [Next]_vars
        => [Final]_vars
  <2> SUFFICES ASSUME TypeOK, HistoryInv, Punctual, LeaseInv, LeaseActive, [Next]_vars,
                      NEW k \in Keys, store[k] # None, store'[k] # None,
                      store'[k].inst = store[k].inst,
                      Inactivity, now >= store[k].md.timeoutAt + LockDuration
               PROVE  store'[k].md.timeoutAt <= store[k].md.timeoutAt
    OBVIOUS
  <2>1. store[k] \in Held /\ store[k].md \in Metadata
    BY DataTypes DEF Held
  <2>2. CASE store'[k] = store[k]
    BY <2>1, <2>2 DEF Metadata
  <2>3. ASSUME NEW p \in Reqs, key[p] = k, pc[p] = "set" PROVE FALSE
    <3>1. timer[p] <= store[k].md.timeoutAt + LockDuration
      BY <2>3 DEF LeaseActive
    <3>2. now < timer[p]
      BY <2>3 DEF LeaseInv, Punctual, Critical, Holding
    <3> QED BY <2>1, <3>1, <3>2, HandlerAssumption
            DEF TypeOK, StoreTypes, RequestTypes, Metadata
  <2>4. ASSUME NEW p \in Reqs, store'[k] = work[p], pc[p] = "write"
        PROVE  store'[k].md.timeoutAt <= store[k].md.timeoutAt
    <3>1. work[p] \in Held /\ work[p].md \in Metadata
      BY <2>4, DataTypes DEF Held, Carries
    <3>2. work[p].md.refreshedAt = store[k].md.createdAt
      BY <2>1, <2>4, <3>1 DEF HistoryInv, Agree, Unrefreshed
    <3> QED BY <2>1, <2>4, <3>1, <3>2, SessionConfigAssumption
            DEF HistoryInv, Times, Metadata
  <2> QED BY <2>2, <2>3, <2>4, StoreFlows DEF StoreFlow
<1>2. Punctual => Punctual'
  BY DEF Punctual
<1> QED BY <1>1, <1>2, TypeCorrect, HistoryInvariant, LockInvariant,
           LeaseActiveInvariant, PTL DEF Spec, InactivityIsFinal

-----------------------------------------------------------------------------
(***************************************************************************)
(* Stale answers.  Two logins may share a session key: a SET may put back  *)
(* the data of the earlier one, refreshed up to a lease ago.               *)
(***************************************************************************)
\* refreshLockDuration is 10 seconds; the inactivity timeout is minutes.
ShortLease == LockDuration <= InactivityTimeout

\* A wait ends in time, and soon after the session was seen active; and so did
\* the one that is stored when the wait ends.
WaitActive ==
    \A p \in Reqs : pc[p] = Waiting =>
        /\ now <= timer[p] /\ timer[p] <= now + AcquireTimeout
        /\ KindOf[p] = "proxy" =>
              /\ timer[p] <= seen[p].md.timeoutAt + AcquireTimeout
              /\ store[key[p]] # None =>
                    timer[p] <= store[key[p]].md.timeoutAt + AcquireTimeout

\* The same for what is seen, found and returned during the lease after a wait.
HoldActive ==
    \A p \in Reqs : KindOf[p] = "proxy" =>
        /\ Critical(p) =>
              timer[p] <= seen[p].md.timeoutAt + AcquireTimeout + LockDuration
        /\ pc[p] = "reread" /\ store[key[p]] # None =>
              timer[p] <= store[key[p]].md.timeoutAt + AcquireTimeout + LockDuration
        /\ pc[p] = "release" /\ out[p] = "ok" =>
              timer[p] <= work[p].md.timeoutAt + AcquireTimeout + LockDuration

\* New tokens are saved in the lease that they were got in.
SavedInLease ==
    \A p \in Reqs : pc[p] \in {"update", "set"} =>
        timer[p] <= work[p].md.refreshedAt + LockDuration

StaleInv == WaitActive /\ HoldActive /\ SavedInLease

\* What a write may do to the store: it keeps the timeouts later than the start
\* of a lease, and those of a holder's session are its own.
LEMMA StoredTimeouts ==
    ASSUME TypeOK, HistoryInv, WrittenNow, MutualExclusion, LeaseInv, Punctual,
           Inactivity, ShortLease, SavedInLease, [Next]_vars,
           NEW k \in Keys, store'[k] # None
    PROVE  \/ store'[k] = store[k]
           \/ /\ now <= store'[k].md.timeoutAt
              /\ \A q \in Reqs : Critical(q) /\ key[q] = k =>
                    now + InactivityTimeout = store'[k].md.timeoutAt
                    \/ pc[q] = "set"
<1>0. now \in Nat \ {0} /\ LockDuration \in Nat /\ InactivityTimeout \in Nat
  BY HandlerAssumption, SessionConfigAssumption DEF TypeOK, StoreTypes
<1>1. ASSUME NEW p \in Reqs, store'[k] = work[p], pc[p] = "write"
      PROVE  store'[k].md.timeoutAt = now + InactivityTimeout
  <2>1. work[p] \in Held
    BY <1>1 DEF Held, Carries
  <2> QED BY <1>1, <2>1 DEF HistoryInv, Times, Unrefreshed, WrittenNow
<1>2. ASSUME NEW p \in Reqs, key[p] = k, store'[k] = work[p], pc[p] = "set"
      PROVE  /\ now <= store'[k].md.timeoutAt
             /\ \A q \in Reqs : Critical(q) /\ key[q] = k => pc[q] = "set"
  <2>1. work[p] \in Held /\ work[p].md.refreshedAt \in Int
    BY <1>2, DataTypes DEF Held, Carries, Metadata
  <2>2. now < timer[p] /\ timer[p] \in Nat
    BY <1>2 DEF LeaseInv, Punctual, Critical, Holding, TypeOK, RequestTypes
  <2>3. work[p].md.timeoutAt = work[p].md.refreshedAt + InactivityTimeout
    BY <2>1 DEF HistoryInv, Times
  <2>4. timer[p] <= work[p].md.refreshedAt + LockDuration
    BY <1>2 DEF SavedInLease
  <2>5. \A q \in Reqs : Critical(q) /\ key[q] = k => q = p
    BY <1>2 DEF MutualExclusion, Punctual, Critical, Holding
  <2> QED BY <1>0, <1>2, <2>1, <2>2, <2>3, <2>4, <2>5 DEF ShortLease
<1>3. CASE store'[k] = store[k]
  BY <1>3
<1> QED BY <1>0, <1>1, <1>2, <1>3, StoreFlows DEF StoreFlow

\* The bounds on the wait, the lease and the data they are about are inductive.
LEMMA StaleNext ==
    ASSUME TypeOK, HistoryInv, WrittenNow, MutualExclusion, LeaseInv, LeaseShort,
           Punctual, Inactivity, ShortLease, StaleInv, [Next]_vars
    PROVE  StaleInv'
<1> USE DEF StaleInv
<1>0. /\ now \in Nat \ {0} /\ now' \in Nat \ {0} /\ now' >= now
      /\ LockDuration \in Nat \ {0} /\ InactivityTimeout \in Nat
      /\ AcquireTimeout \in Nat
  BY ClockFlows, HandlerAssumption, SessionConfigAssumption DEF TypeOK, StoreTypes
<1>1. \A q \in Reqs : timer[q] \in Nat /\ RefreshFlow(q) /\ WorkFlow(q)
  BY RefreshFlows, WorkFlows DEF TypeOK, RequestTypes
<1>2. \A k \in Keys : store[k] # None =>
         store[k] \in Held /\ store[k].md.timeoutAt \in Int
  BY DataTypes DEF Held, Metadata
<1>3. \A q \in Reqs : InRefresh(q) => key[q] \in Keys /\ seen[q].md.timeoutAt \in Int
  BY DataTypes DEF TypeOK, LocalData, InRefresh, InFlight, Waiting, Holding, Metadata
<1>4. WaitActive'
  <2> SUFFICES ASSUME NEW q \in Reqs, pc'[q] = Waiting
               PROVE  /\ now' <= timer'[q] /\ timer'[q] <= now' + AcquireTimeout
                      /\ KindOf[q] = "proxy" =>
                            /\ timer'[q] <= seen'[q].md.timeoutAt + AcquireTimeout
                            /\ store'[key'[q]] # None =>
                                  timer'[q] <= store'[key'[q]].md.timeoutAt + AcquireTimeout
    BY DEF WaitActive
  <2>1. Enters(q) \/ (Stays(q) /\ pc[q] = Waiting)
    BY <1>1 DEF RefreshFlow, InRefresh, Obtains, Stays, Proceeds, Leaves, Waiting
  <2>2. CASE Enters(q)
    <3>1. key[q] \in Keys /\ store[key[q]] \in Held /\ store[key[q]].md.timeoutAt \in Int
      BY <1>2, <2>2, DataTypes DEF Enters, InFlight
    <3>2. store[key[q]].md.timeoutAt > 0
      BY <1>0, <3>1, HeldType, DataTypes DEF HistoryInv, Times, Metadata
    <3>3. KindOf[q] = "proxy" => now <= store[key[q]].md.timeoutAt
      BY <1>0, <2>2, <3>1, <3>2 DEF Enters, isTimedOut, IsTimedOut, ZeroTime
    <3> QED BY <1>0, <2>2, <3>1, <3>3 DEF Enters
  <2>3. CASE Stays(q) /\ pc[q] = Waiting
    <3>1. now' <= timer[q]
      BY <1>0, <1>1, <2>3, ClockFlows DEF WaitActive, Timely, Punctual
    <3>2. timer[q] <= now' + AcquireTimeout
      BY <1>0, <1>1, <2>3 DEF WaitActive
    <3>3. key[q] \in Keys
      BY <1>3, <2>3 DEF InRefresh
    <3>4. ASSUME KindOf[q] = "proxy", store'[key[q]] # None
          PROVE  timer[q] <= store'[key[q]].md.timeoutAt + AcquireTimeout
      <4>1. CASE store'[key[q]] = store[key[q]]
        BY <2>3, <3>4, <4>1 DEF WaitActive
      <4>2. CASE now <= store'[key[q]].md.timeoutAt
        <5>1. store'[key[q]].md.timeoutAt \in Int
          BY <3>3, <3>4, StoreFlows, DataTypes DEF StoreFlow, Carries, Metadata
        <5> QED BY <1>0, <1>1, <2>3, <4>2, <5>1 DEF WaitActive
      <4> QED BY <3>3, <3>4, <4>1, <4>2, StoredTimeouts
    <3> QED BY <2>3, <3>1, <3>2, <3>4 DEF Stays, WaitActive
  <2> QED BY <2>1, <2>2, <2>3
<1>5. SavedInLease'
  <2> SUFFICES ASSUME NEW q \in Reqs, pc'[q] \in {"update", "set"}
               PROVE  timer'[q] <= work'[q].md.refreshedAt + LockDuration
    BY DEF SavedInLease
  <2>1. (Kept(q) /\ pc[q] \in {"update", "set"}) \/ Renewed(q)
    BY <1>1 DEF WorkFlow, Carries, Made, Reread1, Kept
  <2>2. CASE Renewed(q)
    <3>1. work'[q].md.refreshedAt = now /\ timer'[q] = timer[q] /\ Critical(q)
      BY <2>2, NewTimes DEF Renewed, Critical, Holding
    <3> QED BY <3>1 DEF LeaseShort
  <2> QED BY <2>1, <2>2 DEF Kept, SavedInLease
<1>6. HoldActive'
  <2> SUFFICES ASSUME NEW q \in Reqs, KindOf[q] = "proxy", Critical(q)'
               PROVE  /\ timer'[q] <= seen'[q].md.timeoutAt + AcquireTimeout + LockDuration
                      /\ pc'[q] = "reread" /\ store'[key'[q]] # None =>
                            timer'[q] <= store'[key'[q]].md.timeoutAt
                                            + AcquireTimeout + LockDuration
                      /\ pc'[q] = "release" /\ out'[q] = "ok" =>
                            timer'[q] <= work'[q].md.timeoutAt
                                            + AcquireTimeout + LockDuration
    BY DEF HoldActive, Critical, Holding
  <2>1. Obtains(q) \/ (Critical(q) /\ (Stays(q) \/ Proceeds(q) \/ Leaves(q)))
    BY <1>1 DEF RefreshFlow, InRefresh, Critical, Enters, Stays, Proceeds, Leaves,
                Waiting, Holding
  <2>2. CASE Obtains(q)
    <3>1. /\ pc[q] = Waiting /\ pc'[q] = "reread" /\ timer'[q] = now + LockDuration
          /\ store' = store /\ key'[q] = key[q] /\ seen'[q] = seen[q]
      BY <2>2 DEF Obtains, Punctual
    <3>2. key[q] \in Keys /\ seen[q].md.timeoutAt \in Int
      BY <1>3, <3>1 DEF InRefresh
    <3>3. now <= seen[q].md.timeoutAt + AcquireTimeout
      BY <1>0, <1>1, <3>1, <3>2 DEF WaitActive
    <3>4. store[key[q]] # None => now <= store[key[q]].md.timeoutAt + AcquireTimeout
      BY <1>0, <1>1, <1>2, <3>1, <3>2 DEF WaitActive
    <3> QED BY <1>0, <1>2, <3>1, <3>2, <3>3, <3>4
  <2>3. CASE Critical(q) /\ (Stays(q) \/ Proceeds(q) \/ Leaves(q))
    <3>1. key'[q] = key[q] /\ seen'[q] = seen[q] /\ timer'[q] = timer[q]
      BY <2>3 DEF Stays, Proceeds, Leaves
    <3>2. key[q] \in Keys /\ timer[q] \in Nat /\ timer[q] <= now + LockDuration
      BY <1>1, <1>3, <2>3 DEF InRefresh, Critical, LeaseShort
    <3>3. timer'[q] <= seen'[q].md.timeoutAt + AcquireTimeout + LockDuration
      BY <2>3, <3>1 DEF HoldActive
    <3>4. ASSUME pc'[q] = "reread", store'[key[q]] # None
          PROVE  timer[q] <= store'[key[q]].md.timeoutAt + AcquireTimeout + LockDuration
      <4>1. pc[q] = "reread"
        BY <2>3, <3>4 DEF Stays, Proceeds, Leaves
      <4>2. CASE store'[key[q]] = store[key[q]]
        BY <3>4, <4>1, <4>2 DEF HoldActive
      <4>3. CASE now + InactivityTimeout = store'[key[q]].md.timeoutAt
        BY <1>0, <3>2, <4>3
      <4> QED BY <2>3, <3>2, <3>4, <4>1, <4>2, <4>3, StoredTimeouts
    <3>5. ASSUME pc'[q] = "release", out'[q] = "ok"
          PROVE  timer[q] <= work'[q].md.timeoutAt + AcquireTimeout + LockDuration
      <4>1. CASE Stays(q)
        BY <3>1, <3>5, <4>1 DEF Stays, HoldActive
      <4>2. CASE pc[q] = "reread" /\ store[key[q]] # None /\ work'[q] = store[key[q]]
        BY <4>2 DEF HoldActive
      <4>3. CASE pc[q] = "set" /\ work'[q] = work[q]
        <5>1. work[q] \in Held /\ work[q].md \in Metadata
          BY <4>3, DataTypes DEF Held, Carries
        <5>2. /\ work[q].md.timeoutAt = work[q].md.refreshedAt + InactivityTimeout
              /\ work[q].md.refreshedAt \in Int
          BY <5>1 DEF HistoryInv, Times, Metadata
        <5>3. timer[q] <= work[q].md.refreshedAt + LockDuration
          BY <4>3 DEF SavedInLease
        <5> QED BY <1>0, <3>2, <4>3, <5>2, <5>3
      <4> QED BY <2>3, <3>5, <4>1, <4>2, <4>3 DEF Proceeds, Leaves
    <3> QED BY <3>1, <3>3, <3>4, <3>5
  <2> QED BY <2>1, <2>2, <2>3
<1> QED BY <1>4, <1>5, <1>6

\* The states a proxied request is let through from.
LEMMA AnswerFlows ==
    ASSUME TypeOK, [Next]_vars, NEW p \in Reqs, KindOf[p] = "proxy", Roles(p),
           res[p] # "ok", res'[p] = "ok"
    PROVE  \/ /\ pc[p] = "read" /\ store[key[p]] # None
              /\ ~isTimedOut(store[key[p]].md, now)
           \/ pc[p] = Waiting
           \/ pc[p] = "release" /\ out[p] \in {"ok", "error"}
<1> USE DEF TypeOK, RequestTypes
<1>1. ~Untouched(p) /\ ~UNCHANGED res
  BY DEF Untouched
<1>2. ASSUME NEW a, Respond(p, a) PROVE a = "ok"
  BY <1>2 DEF Respond
<1>3. ~Begin(p)
  <2>1. ~Refuse(p)
    BY <1>2 DEF Refuse
  <2> QED BY <1>1, <2>1 DEF Begin, Arrive, Login
<1>4. ASSUME Step(p)
      PROVE  \/ /\ pc[p] = "read" /\ store[key[p]] # None
                /\ ~isTimedOut(store[key[p]].md, now)
             \/ pc[p] = Waiting
             \/ pc[p] = "release" /\ out[p] \in {"ok", "error"}
  <2>1. CASE ProxyRead(p)
    BY <1>1, <1>2, <2>1 DEF ProxyRead, EnterRefresh
  <2>2. CASE AcquireTimesOut(p) \/ Acquire(p)
    BY <2>2 DEF AcquireTimesOut, Acquire
  <2>3. CASE Release(p)
    BY <1>2, <2>3 DEF Release, AfterRefresh
  <2>4. ~RefreshRead(p) /\ ~SessionRead(p) /\ ~LogoutRead(p) /\ ~Delete(p) /\ ~Write(p)
    BY DEF RefreshRead, SessionRead, LogoutRead, Delete, Write, Roles
  <2>5. /\ ~Reread(p) /\ ~GrantRejected(p) /\ ~UpdateRead(p) /\ ~Set(p)
        /\ ~\E reply \in IdpReplies, l \in TokenLifetimes : Grant(p, reply, l)
    BY <1>1 DEF Reread, GrantRejected, UpdateRead, Set, Grant, Leave
  <2> QED BY <1>4, <2>1, <2>2, <2>3, <2>4, <2>5 DEF Step
<1>5. ASSUME Fault(p)
      PROVE  \/ pc[p] = Waiting
             \/ pc[p] = "release" /\ out[p] \in {"ok", "error"}
  <2>1. CASE ReleaseFails(p)
    BY <1>2, <2>1 DEF ReleaseFails, AfterRefresh
  <2>2. ~ReadFails(p) /\ ~Crash(p)
    BY <1>2 DEF ReadFails, Crash
  <2>3. ~RereadFails(p) /\ ~UpdateReadFails(p)
    BY <1>1 DEF RereadFails, UpdateReadFails, Leave
  <2>4. ASSUME NEW a \in BOOLEAN, NEW g \in BOOLEAN
        PROVE  /\ ~DeleteFails(p, a, g) /\ ~WriteFails(p, a, g)
               /\ ~GrantFails(p, a, g) /\ ~SetFails(p, a, g)
    BY <1>1 DEF DeleteFails, WriteFails, GrantFails, SetFails, Leave, reqVars, Roles
  <2> QED BY <1>5, <2>1, <2>2, <2>3, <2>4 DEF Fault, AcquireFails
<1>6. ~Restart /\ ~Tick /\ ~UNCHANGED vars
  BY <1>1 DEF Restart, Tick, reqVars, vars
<1> QED BY <1>1, <1>3, <1>4, <1>5, <1>6, NextActs, ActsLocal DEF Acts

\* Refresh has an outcome only on its way to the deferred Release.
LEMMA RolesInvariant == Spec => [](\A p \in Reqs : Roles(p))
<1>1. Init => \A p \in Reqs : Roles(p)
  BY DEF Init, Roles
<1>2. TypeOK /\ (\A p \in Reqs : Roles(p)) /\ [Next]_vars => (\A p \in Reqs : Roles(p))'
  BY RefreshFlows
<1> QED BY <1>1, <1>2, TypeCorrect, PTL DEF Spec

\* While requests keep to their timers, and a lease is no longer than the
\* inactivity timeout, the fallback of GetOrRefresh lets no request through with
\* a session that had been inactive for a wait for the lock and a lease.
THEOREM StalenessBounded == Spec => (Punctual /\ ShortLease => BoundedStaleness)
<1> DEFINE On == Punctual /\ ShortLease /\ Inactivity
           AllRoles == \A p \in Reqs : Roles(p)
           Fresh == \A p \in Reqs :
              /\ Inactivity /\ Backend = "redis" /\ KindOf[p] = "proxy"
              /\ res[p] # "ok" /\ res'[p] = "ok"
              => now < DataUsed(p).md.timeoutAt + AcquireTimeout + LockDuration
<1>1. Init => StaleInv
  BY DEF Init, StaleInv, WaitActive, HoldActive, SavedInLease, Critical, Waiting, Holding
<1>2. TypeOK /\ HistoryInv /\ (Punctual => WrittenNow)
        /\ ("slow" \notin Faults => MutualExclusion) /\ LeaseInv
        /\ (Punctual => LeaseShort /\ LeaseActive) /\ (On => StaleInv) /\ [Next]_vars
        => (On => StaleInv')
  BY StaleNext DEF Punctual
<1>3. On' <=> On
  BY DEF Punctual, ShortLease
<1>4. TypeOK /\ HistoryInv /\ LeaseInv /\ AllRoles /\ Punctual
        /\ (On => StaleInv) /\ ShortLease /\ [Next]_vars => [Fresh]_vars
  <2> SUFFICES ASSUME TypeOK, HistoryInv, LeaseInv, AllRoles, Punctual, StaleInv,
                      [Next]_vars, NEW p \in Reqs, Inactivity, KindOf[p] = "proxy",
                      res[p] # "ok", res'[p] = "ok"
               PROVE  now < DataUsed(p).md.timeoutAt + AcquireTimeout + LockDuration
    OBVIOUS
  <2>0. /\ now \in Nat \ {0} /\ LockDuration \in Nat \ {0} /\ AcquireTimeout \in Nat
        /\ InactivityTimeout \in Nat /\ timer[p] \in Nat
    BY HandlerAssumption, SessionConfigAssumption DEF TypeOK, StoreTypes, RequestTypes
  <2>1. CASE /\ pc[p] = "read" /\ store[key[p]] # None
             /\ ~isTimedOut(store[key[p]].md, now)
    <3>1. /\ store[key[p]] \in Held /\ store[key[p]].md \in Metadata
      BY <2>1, DataTypes DEF InFlight, Held
    <3>2. store[key[p]].md.timeoutAt \in Int /\ store[key[p]].md.timeoutAt > 0
      BY <2>0, <3>1 DEF HistoryInv, Times, Metadata
    <3>3. now <= store[key[p]].md.timeoutAt
      BY <2>0, <2>1, <3>2 DEF isTimedOut, IsTimedOut, ZeroTime
    <3> QED BY <2>0, <2>1, <3>2, <3>3 DEF DataUsed
  <2>2. CASE pc[p] = Waiting
    <3>1. DataUsed(p) = seen[p] /\ seen[p].md.timeoutAt \in Int
      BY <2>2, DataTypes DEF DataUsed, Roles, Waiting, TypeOK, LocalData, Metadata
    <3> QED BY <2>0, <2>2, <3>1 DEF StaleInv, WaitActive
  <2>3. CASE pc[p] = "release" /\ out[p] \in {"ok", "error"}
    <3>1. now < timer[p]
      BY <2>3 DEF LeaseInv, Punctual, Critical, Holding
    <3>2. DataUsed(p).md.timeoutAt \in Int
      BY <2>3, DataTypes DEF DataUsed, TypeOK, LocalData, Holding, Metadata
    <3>3. timer[p] <= DataUsed(p).md.timeoutAt + AcquireTimeout + LockDuration
      BY <2>3 DEF DataUsed, StaleInv, HoldActive, Critical, Holding
    <3> QED BY <2>0, <3>1, <3>2, <3>3
  <2> QED BY <2>1, <2>2, <2>3, AnswerFlows
<1>5. Punctual /\ ShortLease => (Punctual /\ ShortLease)'
  BY DEF Punctual, ShortLease
<1>6. Spec => []AllRoles
  BY RolesInvariant
<1> HIDE DEF On, AllRoles
<1> QED BY <1>1, <1>2, <1>3, <1>4, <1>5, <1>6, TypeCorrect, HistoryInvariant,
           LockInvariant, LeaseActiveInvariant, WrittenNowInvariant, RefreshExcludes,
           PTL DEF Spec, BoundedStaleness
=============================================================================
