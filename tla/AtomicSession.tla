---------------------------- MODULE AtomicSession ----------------------------
(***************************************************************************)
(* What pkg/session promises to the code that uses it, without its steps:  *)
(* a session is one object.  A login makes it, a refresh exchanges its     *)
(* tokens for the ones the provider has rotated to in a single step, and a *)
(* logout or the end of its lifetime removes it for good.                  *)
(*                                                                         *)
(* There are no requests, locks or stores here; SessionRefinement shows    *)
(* that the ones of SessionHandler amount to this.                         *)
(***************************************************************************)
EXTENDS Naturals

CONSTANTS
    Keys,      \* session keys
    Logins,    \* the logins
    None,
    MaxLifetime

VARIABLES
    now,       \* the clock
    sess,      \* key -> [login, rt, refreshedAt, endsAt], or None
    accepted,  \* login -> generation of the refresh token the provider accepts
    stage      \* login -> "new", "authorized" or "made"

vars == <<now, sess, accepted, stage>>

Init ==
    /\ now = 1
    /\ sess = [k \in Keys |-> None]
    /\ accepted = [i \in Logins |-> 0]
    /\ stage = [i \in Logins |-> "new"]

\* The provider authorizes a login.
Authorize(i) ==
    /\ stage[i] = "new"
    /\ stage' = [stage EXCEPT ![i] = "authorized"]
    /\ accepted' = [accepted EXCEPT ![i] = 1]
    /\ UNCHANGED <<now, sess>>

\* Its session begins, once.
Make(i, k) ==
    /\ stage[i] = "authorized"
    /\ stage' = [stage EXCEPT ![i] = "made"]
    /\ sess' = [sess EXCEPT ![k] = [login |-> i, rt |-> 1, refreshedAt |-> now,
                                    endsAt |-> now + MaxLifetime]]
    /\ UNCHANGED <<now, accepted>>

\* A session whose token the provider accepts gets the tokens of the answer:
\* the token of the next generation, the same one again, or none.
Refresh(k) ==
    /\ sess[k] # None
    /\ LET i == sess[k].login
       IN  /\ sess[k].rt = accepted[i]
           /\ \E rt \in {accepted[i] + 1, accepted[i], 0} :
                 /\ sess' = [sess EXCEPT ![k].rt = rt, ![k].refreshedAt = now]
                 /\ accepted' = [accepted EXCEPT ![i] =
                                    IF rt > @ THEN rt ELSE @]
    /\ UNCHANGED <<now, stage>>

\* The user logs out.
End(k) ==
    /\ sess[k] # None
    /\ sess' = [sess EXCEPT ![k] = None]
    /\ UNCHANGED <<now, accepted, stage>>

\* The provider rotates the token of a session that has ended meanwhile.
Orphan(i) ==
    /\ stage[i] = "made"
    /\ \A k \in Keys : sess[k] # None => sess[k].login # i
    /\ accepted' = [accepted EXCEPT ![i] = @ + 1]
    /\ UNCHANGED <<now, sess, stage>>

\* Time passes; it ends only sessions whose lifetime is over.
Tick ==
    /\ now' = now + 1
    /\ \E over \in SUBSET {k \in Keys : sess[k] # None} :
          /\ \A k \in over : sess[k].endsAt <= now'
          /\ sess' = [k \in Keys |-> IF k \in over THEN None ELSE sess[k]]
    /\ UNCHANGED <<accepted, stage>>

Next ==
    \/ \E i \in Logins : Authorize(i) \/ Orphan(i) \/ \E k \in Keys : Make(i, k)
    \/ \E k \in Keys : Refresh(k) \/ End(k)
    \/ Tick

Spec == Init /\ [][Next]_vars
=============================================================================
