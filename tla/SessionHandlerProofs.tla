------------------------- MODULE SessionHandlerProofs -------------------------
(***************************************************************************)
(* Proofs about SessionHandler, for every set of requests and keys, every  *)
(* configuration and every combination of faults.                          *)
(***************************************************************************)
EXTENDS SessionHandler, SessionDataProofs

\* The session data that Create writes is typed.
LEMMA LoginData ==
    ASSUME NEW p \in Reqs, NEW l \in TokenLifetimes, now \in Nat \ {0}
    PROVE  [inst |-> p, hasAT |-> TRUE, rt |-> 1, md |-> Created(now, l)] \in Data
  BY CreatedType, HandlerAssumption DEF Data

\* Metadata stays typed under Handler.Refresh without further assumptions.
LEMMA RefreshedMetadata ==
    ASSUME NEW m \in Metadata, NEW t \in Nat \ {0}, NEW l \in Int
    PROVE  Refreshed(m, t, l) \in Metadata
<1> DEFINE new == Refresh(m, t, l)
<1>1. new \in Metadata
  <2> DEFINE half == [m EXCEPT !.refreshedAt = t]
  <2>1. half \in Metadata
    BY DEF Metadata
  <2>2. new = [half EXCEPT !.expireAt = t + l]
    BY DEF Refresh
  <2> HIDE DEF half, new
  <2> QED BY <2>1, <2>2 DEF Metadata
<1>2. Refreshed(m, t, l) = IF Inactivity THEN ExtendTimeout(new, t, InactivityTimeout)
                           ELSE new
  BY DEF Refreshed
<1> HIDE DEF new
<1> QED BY <1>1, <1>2, SessionConfigAssumption DEF ExtendTimeout, Metadata

\* The session data that Handler.Refresh builds from a token response is typed,
\* whichever of its fields the provider left out.
LEMMA GrantedData ==
    ASSUME NEW d \in Data, NEW reply \in IdpReplies, NEW l \in TokenLifetimes,
           now \in Nat \ {0}
    PROVE  Granted(d, reply, l) \in Data
<1> DEFINE e == IF reply = "empty" THEN 0 ELSE l
           g == CASE reply = "rotate" -> d.rt + 1
                  [] reply = "keep" -> d.rt
                  [] OTHER -> 0
           m == Refreshed(d.md, now, e)
<1>1. e \in Int
  BY HandlerAssumption
<1>2. g \in Nat
  BY DEF Data
<1>3. m \in Metadata
  <2> HIDE DEF e
  <2> QED BY <1>1, RefreshedMetadata DEF Data
<1>4. Granted(d, reply, l) = [inst |-> d.inst, hasAT |-> reply # "empty",
                              rt |-> g, md |-> m]
  BY DEF Granted
<1> HIDE DEF g, m
<1> QED BY <1>2, <1>3, <1>4 DEF Data

-----------------------------------------------------------------------------
(***************************************************************************)
(* Type correctness.                                                       *)
(***************************************************************************)
\* The answers that end a Refresh are answers.
LEMMA AfterRefreshType ==
    ASSUME NEW p \in Reqs, NEW o
    PROVE  AfterRefresh(p, o) \in Answers
  BY DEF AfterRefresh, Proxied, Answers

\* Ending a request, with what it promised, keeps the types.
LEMMA RespondType ==
    ASSUME TypeOK, NEW p \in Reqs, NEW a \in Answers, Respond(p, a)
    PROVE  RequestTypes' /\ LocalData'
  BY DEF TypeOK, RequestTypes, LocalData, Respond, PCs, Outcomes, InFlight,
         Waiting, Holding

\* What a logout handler promises is about logins.
LEMMA PromiseType ==
    ASSUME TypeOK, NEW p \in Reqs, NEW a, Promise(p, a)
    PROVE  GhostTypes'
  BY DEF TypeOK, Promise, GhostTypes

\* Entering and leaving Refresh keep the types.
LEMMA EnterRefreshType ==
    ASSUME TypeOK, NEW p \in Reqs, NEW d \in Data, EnterRefresh(p, d),
           pc[p] = "read"
    PROVE  RequestTypes' /\ LocalData'
  BY HandlerAssumption
     DEF TypeOK, StoreTypes, RequestTypes, LocalData, EnterRefresh, PCs, InFlight,
         Waiting, Holding

\* Returning from the locked part of Handler.Refresh keeps the types, provided
\* that a successful return has session data to return.
LEMMA LeaveType ==
    ASSUME TypeOK, NEW p \in Reqs, NEW o \in Outcomes, Leave(p, o),
           Critical(p),
           \/ UNCHANGED work /\ (o = "ok" => work[p] \in Data)
           \/ \E d \in Data : work' = [work EXCEPT ![p] = d]
    PROVE  RequestTypes' /\ LocalData'
  BY DEF TypeOK, RequestTypes, LocalData, Leave, PCs, Outcomes, InFlight, Critical,
         Waiting, Holding

\* The types hold initially.
LEMMA TypeInit == Init => TypeOK
  BY DEF Init, TypeOK, StoreTypes, RequestTypes, GhostTypes, LocalData, PCs,
         Outcomes, Answers, InFlight, Waiting, Holding, NoTTL

\* Every arrival of a request keeps the types.
LEMMA TypeBegin ==
    ASSUME TypeOK, NEW p \in Reqs, Begin(p)
    PROVE  TypeOK'
<1> USE DEF TypeOK
<1>1. ASSUME NEW k \in Keys, NEW l \in TokenLifetimes, Login(p, k, l)
      PROVE  TypeOK'
  <2>1. PICK d \in Data : work' = [work EXCEPT ![p] = d]
    BY <1>1, LoginData DEF Login, StoreTypes
  <2>2. StoreTypes' /\ GhostTypes'
    BY <1>1 DEF Login, StoreTypes, GhostTypes, storeVars, lockVars, ghostVars
  <2>3. RequestTypes' /\ LocalData'
    BY <1>1, <2>1 DEF Login, RequestTypes, LocalData, PCs, InFlight, Waiting, Holding
  <2> QED BY <2>2, <2>3
<1>2. ASSUME NEW k \in Keys, Arrive(p, k)
      PROVE  TypeOK'
  <2>1. StoreTypes'
    BY <1>2 DEF Arrive, StoreTypes, storeVars, lockVars
  <2>2. RequestTypes' /\ LocalData'
    BY <1>2 DEF Arrive, RequestTypes, LocalData, PCs, InFlight, Waiting, Holding
  <2>3. store[k] # None => store[k].inst \in Reqs
    BY DEF StoreTypes, Data
  <2>4. GhostTypes'
    BY <1>2, <2>3 DEF Arrive, GhostTypes
  <2> QED BY <2>1, <2>2, <2>4
<1>3. CASE Refuse(p)
  <2>1. PICK a \in Answers : Respond(p, a)
    BY <1>3 DEF Refuse, Answers
  <2>2. RequestTypes' /\ LocalData'
    BY <2>1, RespondType
  <2>3. StoreTypes' /\ GhostTypes'
    BY <1>3 DEF Refuse, StoreTypes, GhostTypes, storeVars, lockVars, ghostVars
  <2> QED BY <2>2, <2>3
<1> QED BY <1>1, <1>2, <1>3 DEF Begin

\* Every step of a handler keeps the types.
LEMMA TypeStep ==
    ASSUME TypeOK, NEW p \in Reqs, Step(p)
    PROVE  TypeOK'
<1> USE DEF TypeOK
<1>0. pc[p] \notin {"idle", "done"} => key[p] \in Keys
  BY DEF LocalData, InFlight
<1> DEFINE d == store[key[p]]
<1>d. key[p] \in Keys => d \in Data \cup {None}
  BY DEF StoreTypes
<1>1. CASE ProxyRead(p) \/ RefreshRead(p)
  <2>1. StoreTypes' /\ GhostTypes'
    BY <1>1 DEF ProxyRead, RefreshRead, StoreTypes, GhostTypes, storeVars,
                lockVars, ghostVars
  <2>2. pc[p] = "read" /\ d \in Data \cup {None}
    BY <1>0, <1>1, <1>d DEF ProxyRead, RefreshRead
  <2>3. \/ \E a \in Answers : Respond(p, a)
        \/ d # None /\ EnterRefresh(p, d)
    BY <1>1 DEF ProxyRead, RefreshRead, Proxied, Answers
  <2> QED BY <2>1, <2>2, <2>3, RespondType, EnterRefreshType
<1>2. CASE SessionRead(p)
  <2>1. StoreTypes' /\ GhostTypes'
    BY <1>2 DEF SessionRead, StoreTypes, GhostTypes, storeVars, lockVars, ghostVars
  <2>2. \E a \in Answers : Respond(p, a)
    BY <1>2 DEF SessionRead, Answers
  <2> QED BY <2>1, <2>2, RespondType
<1>3. CASE LogoutRead(p)
  <2>1. StoreTypes'
    BY <1>3 DEF LogoutRead, StoreTypes, storeVars, lockVars
  <2>2. CASE \E a \in Answers : Respond(p, a) /\ Promise(p, a)
    BY <2>1, <2>2, RespondType, PromiseType
  <2>3. CASE /\ pc' = [pc EXCEPT ![p] = "delete"]
             /\ UNCHANGED <<key, seen, work, timer, out, res, ghostVars>>
    <3>1. RequestTypes' /\ LocalData'
      BY <1>3, <2>3 DEF LogoutRead, RequestTypes, LocalData, PCs, InFlight,
                        Waiting, Holding
    <3>2. GhostTypes'
      BY <2>3 DEF GhostTypes, ghostVars
    <3> QED BY <2>1, <3>1, <3>2
  <2> QED BY <1>3, <2>2, <2>3 DEF LogoutRead, Answers
<1>4. CASE Delete(p) \/ Write(p)
  <2>1. key[p] \in Keys
    BY <1>0, <1>4 DEF Delete, Write
  <2>2. pc[p] = "write" => work[p] \in Data
    BY DEF LocalData
  <2>3. StoreTypes'
    BY <1>4, <2>1, <2>2, SessionConfigAssumption
       DEF Delete, Write, Remove, Put, StoreTypes, lockVars, NoTTL
  <2>4. Respond(p, "ok")
    BY <1>4 DEF Delete, Write
  <2>5. RequestTypes' /\ LocalData'
    BY <2>4, RespondType DEF Answers
  <2>6. GhostTypes'
    BY <1>4, PromiseType DEF Delete, Write, GhostTypes, ghostVars
  <2> QED BY <2>3, <2>5, <2>6
<1>5. CASE Acquire(p)
  <2>1. key[p] \in Keys
    BY <1>0, <1>5 DEF Acquire, Waiting
  <2>2. StoreTypes'
    BY <1>5, <2>1, HandlerAssumption
       DEF Acquire, Take, StoreTypes, storeVars, lockVars
  <2>3. RequestTypes' /\ LocalData'
    BY <1>5, HandlerAssumption
       DEF Acquire, StoreTypes, RequestTypes, LocalData, PCs, InFlight, Waiting,
           Holding
  <2>4. GhostTypes'
    BY <1>5 DEF Acquire, GhostTypes, ghostVars
  <2> QED BY <2>2, <2>3, <2>4
<1>6. CASE AcquireTimesOut(p)
  <2>1. StoreTypes' /\ GhostTypes'
    BY <1>6 DEF AcquireTimesOut, StoreTypes, GhostTypes, storeVars, lockVars,
                ghostVars
  <2> QED BY <1>6, <2>1, RespondType, AfterRefreshType DEF AcquireTimesOut
<1>7. CASE Reread(p)
  <2>1. StoreTypes' /\ GhostTypes'
    BY <1>7 DEF Reread, StoreTypes, GhostTypes, storeVars, lockVars, ghostVars
  <2>2. Critical(p) /\ pc[p] = "reread" /\ d \in Data \cup {None}
    BY <1>0, <1>7, <1>d DEF Reread, Critical, Holding
  <2>3. CASE d = None \/ ~canRefresh(d) \/ isTimedOut(d.md, now)
    <3>1. \/ Leave(p, "error") /\ UNCHANGED work
          \/ Leave(p, "inactive") /\ UNCHANGED work
          \/ Leave(p, "ok") /\ d # None /\ work' = [work EXCEPT ![p] = d]
      BY <1>7, <2>3 DEF Reread
    <3> QED BY <2>1, <2>2, <3>1, LeaveType DEF Outcomes
  <2>4. CASE ~(d = None \/ ~canRefresh(d) \/ isTimedOut(d.md, now))
    <3>1. /\ d \in Data
          /\ pc' = [pc EXCEPT ![p] = "grant"]
          /\ work' = [work EXCEPT ![p] = d]
          /\ UNCHANGED <<key, seen, timer, out, res>>
      BY <1>7, <2>2, <2>4 DEF Reread
    <3> HIDE DEF d
    <3>2. RequestTypes' /\ LocalData'
      BY <2>2, <3>1 DEF RequestTypes, LocalData, PCs, InFlight, Waiting, Holding
    <3> QED BY <2>1, <3>2
  <2> QED BY <2>3, <2>4
<1>8. ASSUME NEW reply \in IdpReplies, NEW l \in TokenLifetimes, Grant(p, reply, l)
      PROVE  TypeOK'
  <2>1. work[p] \in Data /\ work[p].inst \in Reqs
    BY <1>8 DEF Grant, LocalData, Data
  <2>2. PICK g \in Data : work' = [work EXCEPT ![p] = g]
    BY <1>8, <2>1, GrantedData DEF Grant, StoreTypes
  <2>3. StoreTypes'
    BY <1>8, <2>1 DEF Grant, StoreTypes, storeVars, lockVars
  <2>4. RequestTypes' /\ LocalData'
    BY <1>8, <2>2 DEF Grant, RequestTypes, LocalData, PCs, InFlight, Waiting, Holding
  <2>5. GhostTypes'
    BY <1>8 DEF Grant, GhostTypes, ghostVars
  <2> QED BY <2>3, <2>4, <2>5
<1>9. CASE GrantRejected(p)
  <2>1. StoreTypes' /\ GhostTypes'
    BY <1>9 DEF GrantRejected, StoreTypes, GhostTypes, storeVars, lockVars, ghostVars
  <2>2. Critical(p) /\ Leave(p, "invalid") /\ UNCHANGED work
    BY <1>9 DEF GrantRejected, Critical, Holding
  <2> QED BY <2>1, <2>2, LeaveType DEF Outcomes
<1>10. CASE UpdateRead(p)
  <2>1. StoreTypes' /\ GhostTypes'
    BY <1>10 DEF UpdateRead, StoreTypes, GhostTypes, storeVars, lockVars, ghostVars
  <2>2. CASE Leave(p, "error")
    <3>1. Critical(p) /\ UNCHANGED work
      BY <1>10 DEF UpdateRead, Critical, Holding
    <3> QED BY <2>1, <2>2, <3>1, LeaveType DEF Outcomes
  <2>3. CASE /\ pc' = [pc EXCEPT ![p] = "set"]
             /\ UNCHANGED <<key, seen, timer, out, res>>
    <3>1. RequestTypes' /\ LocalData'
      BY <1>10, <2>3 DEF UpdateRead, RequestTypes, LocalData, PCs, InFlight,
                         Waiting, Holding
    <3> QED BY <2>1, <3>1
  <2> QED BY <1>10, <2>2, <2>3 DEF UpdateRead
<1>11. CASE Set(p)
  <2>1. key[p] \in Keys /\ work[p] \in Data /\ Critical(p)
    BY <1>0, <1>11 DEF Set, LocalData, Critical, Holding
  <2>2. StoreTypes'
    BY <1>11, <2>1 DEF Set, SetKeepTTL, StoreTypes, lockVars
  <2>3. GhostTypes'
    BY <1>11 DEF Set, GhostTypes, ghostVars
  <2>4. RequestTypes' /\ LocalData'
    BY <1>11, <2>1, LeaveType DEF Set, Outcomes
  <2> QED BY <2>2, <2>3, <2>4
<1>12. CASE Release(p)
  <2>1. key[p] \in Keys
    BY <1>0, <1>12 DEF Release
  <2>2. StoreTypes'
    BY <1>12, <2>1 DEF Release, StoreTypes, storeVars, lockVars
  <2>3. GhostTypes'
    BY <1>12 DEF Release, GhostTypes, ghostVars
  <2>4. RequestTypes' /\ LocalData'
    BY <1>12, RespondType, AfterRefreshType DEF Release
  <2> QED BY <2>2, <2>3, <2>4
<1> QED BY <1>1, <1>2, <1>3, <1>4, <1>5, <1>6, <1>7, <1>8, <1>9, <1>10, <1>11,
           <1>12 DEF Step

\* Every failing command, and a crash, keeps the types.
LEMMA TypeFault ==
    ASSUME TypeOK, NEW p \in Reqs, Fault(p)
    PROVE  TypeOK'
<1> USE DEF TypeOK
<1>0. pc[p] \notin {"idle", "done"} => key[p] \in Keys
  BY DEF LocalData, InFlight
<1>1. CASE ReadFails(p) \/ Crash(p)
  <2>1. StoreTypes'
    BY <1>1 DEF ReadFails, Crash, StoreTypes, storeVars, lockVars
  <2>2. \E a \in Answers : Respond(p, a) /\ Promise(p, a)
    BY <1>1 DEF ReadFails, Crash, Answers
  <2> QED BY <2>1, <2>2, RespondType, PromiseType
<1>2. CASE RereadFails(p) \/ UpdateReadFails(p)
  <2>1. StoreTypes' /\ GhostTypes'
    BY <1>2 DEF RereadFails, UpdateReadFails, StoreTypes, GhostTypes, storeVars,
                lockVars, ghostVars
  <2>2. Critical(p) /\ Leave(p, "error") /\ UNCHANGED work
    BY <1>2 DEF RereadFails, UpdateReadFails, Critical, Holding
  <2> QED BY <2>1, <2>2, LeaveType DEF Outcomes
<1>3. CASE ReleaseFails(p)
  <2>1. StoreTypes' /\ GhostTypes'
    BY <1>3 DEF ReleaseFails, StoreTypes, GhostTypes, storeVars, lockVars, ghostVars
  <2> QED BY <1>3, <2>1, RespondType, AfterRefreshType DEF ReleaseFails
<1>4. ASSUME NEW a \in BOOLEAN, NEW g \in BOOLEAN, AcquireFails(p, a, g)
      PROVE  TypeOK'
  <2>1. key[p] \in Keys
    BY <1>0, <1>4 DEF AcquireFails, Waiting
  <2>2. StoreTypes'
    BY <1>4, <2>1, HandlerAssumption
       DEF AcquireFails, Take, StoreTypes, storeVars, lockVars
  <2>3. GhostTypes'
    BY <1>4 DEF AcquireFails, GhostTypes, ghostVars
  <2>4. CASE g
    BY <1>4, <2>2, <2>3, <2>4, RespondType, AfterRefreshType DEF AcquireFails
  <2>5. CASE ~g
    <3>1. UNCHANGED reqVars
      BY <1>4, <2>5 DEF AcquireFails
    <3> QED BY <2>2, <2>3, <3>1
            DEF reqVars, TypeOK, RequestTypes, LocalData, InFlight
  <2> QED BY <2>4, <2>5
<1>5. ASSUME NEW a \in BOOLEAN, NEW g \in BOOLEAN, DeleteFails(p, a, g)
      PROVE  TypeOK'
  <2>1. key[p] \in Keys
    BY <1>0, <1>5 DEF DeleteFails
  <2>2. StoreTypes'
    BY <1>5, <2>1 DEF DeleteFails, Remove, StoreTypes, storeVars, lockVars, NoTTL
  <2>3. CASE g
    <3>1. \E r \in Answers : Respond(p, r) /\ Promise(p, r)
      BY <1>5, <2>3 DEF DeleteFails, Answers
    <3> QED BY <2>2, <3>1, RespondType, PromiseType
  <2>4. CASE ~g
    <3>1. RequestTypes' /\ GhostTypes' /\ LocalData'
      BY <1>5, <2>4 DEF DeleteFails, RequestTypes, GhostTypes, LocalData, InFlight,
                        reqVars, ghostVars
    <3> QED BY <2>2, <3>1
  <2> QED BY <2>3, <2>4
<1>6. ASSUME NEW a \in BOOLEAN, NEW g \in BOOLEAN, WriteFails(p, a, g)
      PROVE  TypeOK'
  <2>1. key[p] \in Keys /\ work[p] \in Data
    BY <1>0, <1>6 DEF WriteFails, LocalData
  <2>2. StoreTypes'
    BY <1>6, <2>1, SessionConfigAssumption
       DEF WriteFails, Put, StoreTypes, storeVars, lockVars, NoTTL
  <2>3. GhostTypes'
    BY <1>6 DEF WriteFails, GhostTypes, ghostVars
  <2>4. CASE g
    BY <1>6, <2>2, <2>3, <2>4, RespondType DEF WriteFails, Answers
  <2>5. CASE ~g
    <3>1. RequestTypes' /\ LocalData'
      BY <1>6, <2>5 DEF WriteFails, RequestTypes, LocalData, InFlight, reqVars
    <3> QED BY <2>2, <2>3, <3>1
  <2> QED BY <2>4, <2>5
<1>7. ASSUME NEW a \in BOOLEAN, NEW g \in BOOLEAN, GrantFails(p, a, g)
      PROVE  TypeOK'
  <2>1. work[p].inst \in Reqs /\ Critical(p)
    BY <1>7 DEF GrantFails, LocalData, Data, Critical, Holding
  <2>2. StoreTypes'
    BY <1>7, <2>1 DEF GrantFails, StoreTypes, storeVars, lockVars
  <2>3. GhostTypes'
    BY <1>7 DEF GrantFails, GhostTypes, ghostVars
  <2>4. CASE g
    <3>1. Leave(p, "error") /\ UNCHANGED work
      BY <1>7, <2>4 DEF GrantFails
    <3> QED BY <2>1, <2>2, <2>3, <3>1, LeaveType DEF Outcomes
  <2>5. CASE ~g
    <3>1. RequestTypes' /\ LocalData'
      BY <1>7, <2>5 DEF GrantFails, RequestTypes, LocalData, InFlight, reqVars
    <3> QED BY <2>2, <2>3, <3>1
  <2> QED BY <2>4, <2>5
<1>8. ASSUME NEW a \in BOOLEAN, NEW g \in BOOLEAN, SetFails(p, a, g)
      PROVE  TypeOK'
  <2>1. key[p] \in Keys /\ work[p] \in Data /\ Critical(p)
    BY <1>0, <1>8 DEF SetFails, LocalData, Critical, Holding
  <2>2. StoreTypes'
    BY <1>8, <2>1 DEF SetFails, SetKeepTTL, StoreTypes, storeVars, lockVars
  <2>3. GhostTypes'
    BY <1>8 DEF SetFails, GhostTypes, ghostVars
  <2>4. CASE g
    <3>1. Leave(p, "error") /\ UNCHANGED work
      BY <1>8, <2>4 DEF SetFails
    <3> QED BY <2>1, <2>2, <2>3, <3>1, LeaveType DEF Outcomes
  <2>5. CASE ~g
    <3>1. RequestTypes' /\ LocalData'
      BY <1>8, <2>5 DEF SetFails, RequestTypes, LocalData, PCs, InFlight, Waiting,
                        Holding
    <3> QED BY <2>2, <2>3, <3>1
  <2> QED BY <2>4, <2>5
<1> QED BY <1>1, <1>2, <1>3, <1>4, <1>5, <1>6, <1>7, <1>8 DEF Fault

\* So do the clock, a restart and stuttering.
LEMMA TypeEnvironment ==
    ASSUME TypeOK, Tick \/ Restart \/ Finished \/ UNCHANGED vars
    PROVE  TypeOK'
<1> USE DEF TypeOK
<1>1. CASE Tick
  <2>1. StoreTypes'
    BY <1>1 DEF Tick, StoreTypes, NoTTL
  <2>2. RequestTypes' /\ GhostTypes' /\ LocalData'
    BY <1>1 DEF Tick, RequestTypes, GhostTypes, LocalData, InFlight, reqVars,
                ghostVars
  <2> QED BY <2>1, <2>2
<1>2. CASE Restart
  <2>1. StoreTypes' /\ GhostTypes'
    BY <1>2 DEF Restart, StoreTypes, GhostTypes, lockVars
  <2>2. RequestTypes' /\ LocalData'
    BY <1>2 DEF Restart, RequestTypes, LocalData, PCs, Outcomes, Answers, InFlight,
                Waiting, Holding
  <2> QED BY <2>1, <2>2
<1>3. CASE Finished \/ UNCHANGED vars
  BY <1>3 DEF Finished, vars, StoreTypes, RequestTypes, GhostTypes, LocalData,
              InFlight
<1> QED BY <1>1, <1>2, <1>3

\* The state of the session handler, its stores, its lock and its requests
\* keeps its types, and no step of Refresh works on data it has not read.
THEOREM TypeCorrect == Spec => []TypeOK
<1>1. TypeOK /\ [Next]_vars => TypeOK'
  BY TypeBegin, TypeStep, TypeFault, TypeEnvironment DEF Next
<1> QED BY <1>1, TypeInit, PTL DEF Spec

-----------------------------------------------------------------------------
(***************************************************************************)
(* The Redis lock.  LeaseExclusion is not inductive: nothing in it ties    *)
(* what a holder believes to the entry in Redis.  LockInv does.            *)
(***************************************************************************)
\* A holder whose lease has not ended owns the entry, until that same instant.
LockInv ==
    Backend = "redis" =>
        \A p \in Reqs :
            Critical(p) /\ now < timer[p] =>
                lockOwner[key[p]] = p /\ lockExp[key[p]] = timer[p]

\* While holders end within their lease, every lease is unexpired.
LeaseInv ==
    Backend = "redis" /\ "slow" \notin Faults =>
        \A p \in Reqs : Critical(p) => now < timer[p]

\* The steps that neither take, give back nor outlive a lock.
NoNewHolder ==
    /\ UNCHANGED <<now, lockOwner, lockExp>>
    /\ \A q \in Reqs : Critical(q)' =>
          Critical(q) /\ key'[q] = key[q] /\ timer'[q] = timer[q]

\* A step that gives nobody the lock and takes it from nobody cannot break the
\* exclusion of lock.go.
LEMMA NoNewHolderKeeps ==
    ASSUME NoNewHolder, LockInv, LeaseInv
    PROVE  LockInv' /\ LeaseInv'
  BY DEF NoNewHolder, LockInv, LeaseInv

\* Ending a request, and leaving the locked part, make no new holder.
LEMMA RespondHolders ==
    ASSUME TypeOK, NEW p \in Reqs, NEW a, Respond(p, a)
    PROVE  \A q \in Reqs : Critical(q)' =>
              q # p /\ Critical(q) /\ key'[q] = key[q] /\ timer'[q] = timer[q]
  BY DEF TypeOK, RequestTypes, Respond, Critical, Holding

\* Returning towards the deferred Release makes no new holder.
LEMMA LeaveHolders ==
    ASSUME TypeOK, NEW p \in Reqs, NEW o, Leave(p, o), Critical(p)
    PROVE  \A q \in Reqs : Critical(q)' =>
              Critical(q) /\ key'[q] = key[q] /\ timer'[q] = timer[q]
  BY DEF TypeOK, RequestTypes, Leave, Critical, Holding

\* Arrivals take no lock.
LEMMA BeginHolders ==
    ASSUME TypeOK, NEW p \in Reqs, Begin(p)
    PROVE  NoNewHolder
<1>1. ASSUME NEW k \in Keys, NEW l \in TokenLifetimes, Login(p, k, l)
      PROVE  NoNewHolder
  BY <1>1 DEF Login, NoNewHolder, TypeOK, RequestTypes, Critical, Holding, lockVars
<1>2. ASSUME NEW k \in Keys, Arrive(p, k)
      PROVE  NoNewHolder
  BY <1>2 DEF Arrive, NoNewHolder, TypeOK, RequestTypes, Critical, Holding, lockVars
<1>3. CASE Refuse(p)
  <2>1. \E a : Respond(p, a)
    BY <1>3 DEF Refuse
  <2> QED BY <1>3, <2>1, RespondHolders DEF Refuse, NoNewHolder, lockVars
<1> QED BY <1>1, <1>2, <1>3 DEF Begin

\* Nor do the steps of a handler other than Acquire and Release.
LEMMA StepHolders ==
    ASSUME TypeOK, NEW p \in Reqs, Step(p), ~Acquire(p), ~Release(p)
    PROVE  NoNewHolder
<1>1. CASE ProxyRead(p) \/ RefreshRead(p)
  <2>1. UNCHANGED <<now, lockOwner, lockExp>> /\ pc[p] = "read"
    BY <1>1 DEF ProxyRead, RefreshRead, lockVars
  <2>2. (\E a : Respond(p, a)) \/ EnterRefresh(p, store[key[p]])
    BY <1>1 DEF ProxyRead, RefreshRead
  <2>3. CASE EnterRefresh(p, store[key[p]])
    BY <2>1, <2>3 DEF EnterRefresh, NoNewHolder, TypeOK, RequestTypes, Critical,
                      Holding, Waiting
  <2> QED BY <2>1, <2>2, <2>3, RespondHolders DEF NoNewHolder
<1>2. CASE SessionRead(p) \/ Delete(p) \/ Write(p) \/ AcquireTimesOut(p)
  <2>1. UNCHANGED <<now, lockOwner, lockExp>> /\ \E a : Respond(p, a)
    BY <1>2 DEF SessionRead, Delete, Write, AcquireTimesOut, lockVars
  <2> QED BY <2>1, RespondHolders DEF NoNewHolder
<1>3. CASE LogoutRead(p)
  <2>1. UNCHANGED <<now, lockOwner, lockExp>>
    BY <1>3 DEF LogoutRead, lockVars
  <2>2. CASE \E a : Respond(p, a)
    BY <2>1, <2>2, RespondHolders DEF NoNewHolder
  <2>3. CASE pc' = [pc EXCEPT ![p] = "delete"] /\ UNCHANGED <<key, timer>>
    BY <2>1, <2>3 DEF NoNewHolder, TypeOK, RequestTypes, Critical, Holding
  <2> QED BY <1>3, <2>2, <2>3 DEF LogoutRead
<1>4. CASE Reread(p) \/ UpdateRead(p) \/ Set(p) \/ GrantRejected(p)
  <2>1. UNCHANGED <<now, lockOwner, lockExp>> /\ Critical(p)
    BY <1>4 DEF Reread, UpdateRead, Set, GrantRejected, lockVars, Critical, Holding
  <2>2. \/ \E o : Leave(p, o)
        \/ /\ \/ pc' = [pc EXCEPT ![p] = "grant"]
              \/ pc' = [pc EXCEPT ![p] = "set"]
           /\ UNCHANGED <<key, timer>>
    BY <1>4 DEF Reread, UpdateRead, Set, GrantRejected
  <2>3. CASE \E o : Leave(p, o)
    BY <2>1, <2>3, LeaveHolders DEF NoNewHolder
  <2>4. CASE /\ \/ pc' = [pc EXCEPT ![p] = "grant"]
                \/ pc' = [pc EXCEPT ![p] = "set"]
             /\ UNCHANGED <<key, timer>>
    BY <2>1, <2>4 DEF NoNewHolder, TypeOK, RequestTypes, Critical, Holding
  <2> QED BY <2>2, <2>3, <2>4
<1>5. ASSUME NEW reply \in IdpReplies, NEW l \in TokenLifetimes, Grant(p, reply, l)
      PROVE  NoNewHolder
  BY <1>5 DEF Grant, NoNewHolder, TypeOK, RequestTypes, Critical, Holding, lockVars
<1> QED BY <1>1, <1>2, <1>3, <1>4, <1>5 DEF Step

\* Nor do failing commands, except an Obtain whose reply is lost.
LEMMA FaultHolders ==
    ASSUME TypeOK, NEW p \in Reqs, Fault(p),
           \A g \in BOOLEAN : ~AcquireFails(p, TRUE, g)
    PROVE  NoNewHolder
<1>1. CASE ReadFails(p) \/ Crash(p) \/ ReleaseFails(p)
  <2>1. UNCHANGED <<now, lockOwner, lockExp>> /\ \E a : Respond(p, a)
    BY <1>1 DEF ReadFails, Crash, ReleaseFails, lockVars
  <2> QED BY <2>1, RespondHolders DEF NoNewHolder
<1>2. CASE RereadFails(p) \/ UpdateReadFails(p)
  <2>1. /\ UNCHANGED <<now, lockOwner, lockExp>> /\ Critical(p)
        /\ Leave(p, "error")
    BY <1>2 DEF RereadFails, UpdateReadFails, lockVars, Critical, Holding
  <2> QED BY <2>1, LeaveHolders DEF NoNewHolder
<1>3. ASSUME NEW g \in BOOLEAN, AcquireFails(p, FALSE, g) PROVE NoNewHolder
  <2>1. UNCHANGED <<now, lockOwner, lockExp>>
    BY <1>3 DEF AcquireFails, lockVars
  <2>2. CASE \E a : Respond(p, a)
    BY <2>1, <2>2, RespondHolders DEF NoNewHolder
  <2>3. CASE UNCHANGED reqVars
    BY <2>1, <2>3 DEF NoNewHolder, reqVars, Critical
  <2> QED BY <1>3, <2>2, <2>3 DEF AcquireFails
<1>4. ASSUME NEW a \in BOOLEAN, NEW g \in BOOLEAN,
             DeleteFails(p, a, g) \/ WriteFails(p, a, g)
      PROVE  NoNewHolder
  <2>1. UNCHANGED <<now, lockOwner, lockExp>>
    BY <1>4 DEF DeleteFails, WriteFails, lockVars
  <2>2. CASE \E r : Respond(p, r)
    BY <2>1, <2>2, RespondHolders DEF NoNewHolder
  <2>3. CASE UNCHANGED reqVars
    BY <2>1, <2>3 DEF NoNewHolder, reqVars, Critical
  <2> QED BY <1>4, <2>2, <2>3 DEF DeleteFails, WriteFails
<1>5. ASSUME NEW a \in BOOLEAN, NEW g \in BOOLEAN,
             GrantFails(p, a, g) \/ SetFails(p, a, g)
      PROVE  NoNewHolder
  <2>1. UNCHANGED <<now, lockOwner, lockExp>> /\ Critical(p)
    BY <1>5 DEF GrantFails, SetFails, lockVars, Critical, Holding
  <2>2. CASE Leave(p, "error")
    BY <2>1, <2>2, LeaveHolders DEF NoNewHolder
  <2>3. CASE UNCHANGED reqVars
    BY <2>1, <2>3 DEF NoNewHolder, reqVars, Critical
  <2>4. CASE pc' = [pc EXCEPT ![p] = "update"] /\ UNCHANGED <<key, timer>>
    BY <2>1, <2>4 DEF NoNewHolder, TypeOK, RequestTypes, Critical, Holding
  <2> QED BY <1>5, <2>2, <2>3, <2>4 DEF GrantFails, SetFails
<1> QED BY <1>1, <1>2, <1>3, <1>4, <1>5 DEF Fault

\* LockInv and LeaseInv are inductive.
LEMMA LockNext ==
    ASSUME TypeOK, LockInv, LeaseInv, [Next]_vars
    PROVE  LockInv' /\ LeaseInv'
<1>1. ASSUME NEW p \in Reqs, Begin(p)
      PROVE  LockInv' /\ LeaseInv'
  BY <1>1, BeginHolders, NoNewHolderKeeps
<1>2. ASSUME NEW p \in Reqs, Acquire(p)
      PROVE  LockInv' /\ LeaseInv'
  <2> SUFFICES ASSUME Backend = "redis" PROVE LockInv' /\ LeaseInv'
    BY DEF LockInv, LeaseInv
  <2>1. /\ lockOwner[key[p]] = None
        /\ lockOwner' = [lockOwner EXCEPT ![key[p]] = p]
        /\ lockExp' = [lockExp EXCEPT ![key[p]] = now + LockDuration]
        /\ timer' = [timer EXCEPT ![p] = now + LockDuration]
        /\ pc' = [pc EXCEPT ![p] = "reread"]
        /\ now' = now /\ key' = key /\ key[p] \in Keys
    BY <1>2 DEF Acquire, Take, TypeOK, LocalData, InFlight, Waiting
  <2>2. \A q \in Reqs : Critical(q)' /\ q # p =>
           Critical(q) /\ timer'[q] = timer[q]
    BY <2>1 DEF Critical, TypeOK, RequestTypes
  <2>3. \A q \in Reqs : Critical(q) /\ now < timer[q] => key[q] # key[p]
    BY <2>1, HandlerAssumption DEF LockInv
  <2>4. timer'[p] = now + LockDuration /\ now < now + LockDuration
    BY <2>1, HandlerAssumption DEF TypeOK, StoreTypes, RequestTypes
  <2>5. lockOwner'[key[p]] = p /\ lockExp'[key[p]] = now + LockDuration
    BY <2>1 DEF TypeOK, StoreTypes
  <2>6. \A k \in Keys : k # key[p] =>
           lockOwner'[k] = lockOwner[k] /\ lockExp'[k] = lockExp[k]
    BY <2>1 DEF TypeOK, StoreTypes
  <2>7. \A q \in Reqs : Critical(q) => key[q] \in Keys
    BY DEF TypeOK, LocalData, InFlight, Critical, Holding
  <2>8. LockInv'
    BY <2>1, <2>2, <2>3, <2>4, <2>5, <2>6, <2>7 DEF LockInv
  <2>9. LeaseInv'
    BY <2>1, <2>2, <2>4 DEF LeaseInv
  <2> QED BY <2>8, <2>9
<1>3. ASSUME NEW p \in Reqs, Release(p)
      PROVE  LockInv' /\ LeaseInv'
  <2>1. \A q \in Reqs : Critical(q)' =>
           q # p /\ Critical(q) /\ key'[q] = key[q] /\ timer'[q] = timer[q]
    BY <1>3, RespondHolders DEF Release
  <2>2. now' = now
    BY <1>3 DEF Release
  <2>3. \A k \in Keys : lockOwner[k] # p =>
           lockOwner'[k] = lockOwner[k] /\ lockExp'[k] = lockExp[k]
    BY <1>3 DEF Release, lockVars, TypeOK, StoreTypes
  <2>4. \A q \in Reqs : Critical(q) => key[q] \in Keys
    BY DEF TypeOK, LocalData, InFlight, Critical, Holding
  <2>5. LockInv'
    BY <2>1, <2>2, <2>3, <2>4 DEF LockInv
  <2>6. LeaseInv'
    BY <2>1, <2>2 DEF LeaseInv
  <2> QED BY <2>5, <2>6
<1>4. ASSUME NEW p \in Reqs, Step(p), ~Acquire(p), ~Release(p)
      PROVE  LockInv' /\ LeaseInv'
  BY <1>4, StepHolders, NoNewHolderKeeps
<1>5. ASSUME NEW p \in Reqs, NEW g \in BOOLEAN, AcquireFails(p, TRUE, g)
      PROVE  LockInv' /\ LeaseInv'
  <2>1. /\ lockOwner[key[p]] = None
        /\ lockOwner' = [lockOwner EXCEPT ![key[p]] = p]
        /\ lockExp' = [lockExp EXCEPT ![key[p]] = now + LockDuration]
        /\ now' = now /\ key[p] \in Keys
    BY <1>5 DEF AcquireFails, Take, TypeOK, LocalData, InFlight, Waiting
  <2>2. \A q \in Reqs : Critical(q)' =>
           q # p /\ Critical(q) /\ key'[q] = key[q] /\ timer'[q] = timer[q]
    <3>1. CASE g
      BY <1>5, <3>1, RespondHolders DEF AcquireFails
    <3>2. CASE ~g
      BY <1>5, <3>2 DEF AcquireFails, reqVars, Critical, Holding, Waiting
    <3> QED BY <3>1, <3>2
  <2>3. \A k \in Keys : k # key[p] =>
           lockOwner'[k] = lockOwner[k] /\ lockExp'[k] = lockExp[k]
    BY <2>1 DEF TypeOK, StoreTypes
  <2>4. \A q \in Reqs : Critical(q) => key[q] \in Keys
    BY DEF TypeOK, LocalData, InFlight, Critical, Holding
  <2>5. LockInv'
    BY <2>1, <2>2, <2>3, <2>4, HandlerAssumption DEF LockInv
  <2>6. LeaseInv'
    BY <2>1, <2>2 DEF LeaseInv
  <2> QED BY <2>5, <2>6
<1>6. ASSUME NEW p \in Reqs, Fault(p), \A g \in BOOLEAN : ~AcquireFails(p, TRUE, g)
      PROVE  LockInv' /\ LeaseInv'
  BY <1>6, FaultHolders, NoNewHolderKeeps
<1>7. CASE Tick
  <2>1. /\ now' = now + 1 /\ now \in Nat
        /\ UNCHANGED <<pc, key, timer>>
        /\ \A k \in Keys : lockExp[k] > now + 1 =>
              lockOwner'[k] = lockOwner[k] /\ lockExp'[k] = lockExp[k]
    BY <1>7 DEF Tick, reqVars, TypeOK, StoreTypes
  <2>2. \A q \in Reqs : Critical(q) => key[q] \in Keys /\ timer[q] \in Nat
    BY DEF TypeOK, RequestTypes, LocalData, InFlight, Critical, Holding
  <2>3. \A q \in Reqs : Critical(q)' <=> Critical(q)
    BY <2>1 DEF Critical
  <2>4. LockInv'
    <3> SUFFICES ASSUME Backend = "redis", NEW q \in Reqs, Critical(q),
                        now + 1 < timer[q]
                 PROVE  lockOwner'[key[q]] = q /\ lockExp'[key[q]] = timer[q]
      BY <2>1, <2>3 DEF LockInv
    <3>1. key[q] \in Keys /\ timer[q] \in Nat
      BY <2>2
    <3>2. lockOwner[key[q]] = q /\ lockExp[key[q]] = timer[q]
      BY <2>1, <3>1 DEF LockInv
    <3> QED BY <2>1, <3>1, <3>2
  <2>5. LeaseInv'
    BY <1>7, <2>1, <2>3 DEF LeaseInv, Tick, Timely
  <2> QED BY <2>4, <2>5
<1>8. CASE Restart
  BY <1>8, HandlerAssumption DEF Restart, LockInv, LeaseInv
<1>9. CASE Finished \/ UNCHANGED vars
  BY <1>9, NoNewHolderKeeps DEF Finished, vars, NoNewHolder, Critical
<1> QED BY <1>1, <1>2, <1>3, <1>4, <1>5, <1>6, <1>7, <1>8, <1>9 DEF Next

\* The lock entry in Redis belongs to the one holder whose lease still runs, and
\* a holder that keeps to refreshLockDuration is within its lease.
LEMMA LockInvariant == Spec => [](LockInv /\ LeaseInv)
<1>1. Init => LockInv /\ LeaseInv
  BY DEF Init, LockInv, LeaseInv, Critical, Holding
<1>2. TypeOK /\ LockInv /\ LeaseInv /\ [Next]_vars => LockInv' /\ LeaseInv'
  BY LockNext
<1> QED BY <1>1, <1>2, TypeCorrect, PTL DEF Spec

\* Two requests with unexpired leases on one session are the same request,
\* under every combination of lost replies, crashes and stalls.
THEOREM LeasesExclude == Spec => []LeaseExclusion
<1>1. LockInv => LeaseExclusion
  BY DEF LockInv, LeaseExclusion
<1> QED BY <1>1, LockInvariant, PTL

\* If every holder ends within its lease, Handler.Refresh is a critical section.
THEOREM RefreshExcludes == Spec => []("slow" \notin Faults => MutualExclusion)
<1>1. LockInv /\ LeaseInv => ("slow" \notin Faults => MutualExclusion)
  BY DEF LockInv, LeaseInv, MutualExclusion
<1> QED BY <1>1, LockInvariant, PTL
=============================================================================
