-------------------------- MODULE SessionRefinement --------------------------
(***************************************************************************)
(* SessionHandler implements AtomicSession: with the Redis store, one      *)
(* login per session key and nothing failing, the steps that concurrent    *)
(* requests take on a session amount to steps on one atomic object.        *)
(***************************************************************************)
EXTENDS SessionHandler

\* The requests that hold the new tokens of the session at k while
\* Handler.Update has not written them yet.
Updating(k, where) == {p \in Reqs : key[p] = k /\ pc[p] \in where}

\* The session is what the store has, or will have: a refresh takes effect when
\* the provider answers it, for as long as Update can still find the session;
\* from its Read on nothing can stop Update's SET.
Session(k) ==
    IF Updating(k, {"set"}) # {}
    THEN work[CHOOSE p \in Updating(k, {"set"}) : TRUE]
    ELSE IF store[k] # None /\ Updating(k, {"update"}) # {}
         THEN work[CHOOSE p \in Updating(k, {"update"}) : TRUE]
         ELSE store[k]

Summary(d) ==
    IF d = None THEN None
    ELSE [login |-> d.inst, rt |-> d.rt,
          refreshedAt |-> d.md.refreshedAt, endsAt |-> d.md.endsAt]

\* No summary is taken for a missing session.
ASSUME SummaryAssumption ==
    None \notin [login : Reqs, rt : Nat, refreshedAt : Int, endsAt : Int]

Logins == {p \in Reqs : KindOf[p] = "login"}

Stage(i) == CASE pc[i] = "idle" -> "new"
              [] pc[i] = "write" -> "authorized"
              [] OTHER -> "made"

Atomic == INSTANCE AtomicSession WITH
    sess     <- [k \in Keys |-> Summary(Session(k))],
    accepted <- [i \in Logins |-> idpRT[i]],
    stage    <- [i \in Logins |-> Stage(i)]

\* handler.go, Refresh: its lock, its second read and its write add up to one
\* atomic exchange of the session's tokens, that no concurrent request, logout
\* or expiry sees or leaves half done.
ImplementsAtomicSession == Atomic!Spec
=============================================================================
