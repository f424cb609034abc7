------------------------------- MODULE Leases -------------------------------
(***************************************************************************)
(* What internal/auth promises of sessions.  A session is a lease that a   *)
(* token is granted once.  Only time shortens it and only its use renews   *)
(* it; when it is over, because it has lapsed or because it was ended, it  *)
(* is over for good.  A request acts for a user only after a sign-in or    *)
(* with a live lease of that user.  Only such a request ends the account;  *)
(* the user's leases also end by a log-out, which needs the token alone,   *)
(* and, with a database, by a reset of the user's password, which needs no *)
(* lease at all.                                                           *)
(* Nothing is said of statements, their errors, and goroutines that write  *)
(* late: those belong to Sessions.                                         *)
(***************************************************************************)
EXTENDS Integers

CONSTANTS Users, Tokens, Requests, None, Idle, Lifetime

VARIABLES
    durable,  \* there is a database
    accounts, \* the existing accounts
    lease,    \* per token, its lease or None
    drawn,    \* tokens that were ever granted one
    endedBy,  \* per token, the user for whom its lease was ended, or None
    acting    \* the user that each request acts for, or None

vars == <<durable, accounts, lease, drawn, endedBy, acting>>

Init ==
    /\ durable \in BOOLEAN /\ accounts = Users
    /\ lease = [t \in Tokens |-> None] /\ drawn = {}
    /\ endedBy = [t \in Tokens |-> None] /\ acting = [r \in Requests |-> None]

Held(t) == lease[t] # None
Owned(u) == {t \in Tokens : Held(t) /\ lease[t].user = u}
Live(t) ==
    /\ Held(t)
    /\ IF durable THEN lease[t].left > 0 /\ lease[t].idle < Idle
                  ELSE lease[t].left >= 0 /\ lease[t].idle <= Idle

Renews(t) == lease' = [lease EXCEPT ![t].idle = 0]
Without(S) == [t \in Tokens |-> IF t \in S THEN None ELSE lease[t]]
Ends(S, u) ==
    /\ lease' = Without(S)
    /\ endedBy' = [t \in Tokens |-> IF t \in S THEN u ELSE endedBy[t]]
Rests(r) == acting' = [acting EXCEPT ![r] = None]

SignIn(r, u) ==
    /\ acting[r] = None /\ u \in accounts
    /\ acting' = [acting EXCEPT ![r] = u]
    /\ UNCHANGED <<durable, accounts, lease, drawn, endedBy>>

Grant(r, t) ==
    /\ acting[r] # None /\ t \notin drawn
    /\ durable => acting[r] \in accounts
    /\ lease' = [lease EXCEPT ![t] = [user |-> acting[r], left |-> Lifetime, idle |-> 0]]
    /\ drawn' = drawn \cup {t}
    /\ Rests(r) /\ UNCHANGED <<durable, accounts, endedBy>>

\* With a database the use is recorded later, by Renew.
Enter(r, t) ==
    /\ acting[r] = None /\ Live(t) /\ lease[t].user \in accounts
    /\ acting' = [acting EXCEPT ![r] = lease[t].user]
    /\ IF durable THEN UNCHANGED lease ELSE Renews(t)
    /\ UNCHANGED <<durable, accounts, drawn, endedBy>>

Renew(t) ==
    /\ Held(t) /\ Renews(t)
    /\ UNCHANGED <<durable, accounts, drawn, endedBy, acting>>

\* A lease that nobody has ended is over only when it is dead.
Lapse(t) ==
    /\ Held(t) /\ ~Live(t) /\ lease' = Without({t})
    /\ UNCHANGED <<durable, accounts, drawn, endedBy, acting>>

Logout(t) ==
    /\ Held(t) /\ Ends({t}, lease[t].user)
    /\ UNCHANGED <<durable, accounts, drawn, acting>>

\* A request ends leases of its user, or none, and acts on or is done.
Revoke(r, S) ==
    /\ acting[r] # None /\ S \subseteq Owned(acting[r]) /\ Ends(S, acting[r])
    /\ Rests(r) \/ UNCHANGED acting
    /\ UNCHANGED <<durable, accounts, drawn>>

\* A password reset: whoever holds a reset token acts for nobody here.
Invalidate(u) ==
    /\ durable /\ u \in accounts /\ Ends(Owned(u), u)
    /\ UNCHANGED <<durable, accounts, drawn, acting>>

RemoveAccount(r) ==
    /\ acting[r] # None
    /\ accounts' = accounts \ {acting[r]} /\ Ends(Owned(acting[r]), acting[r])
    /\ Rests(r) /\ UNCHANGED <<durable, drawn>>

Older(row) ==
    [row EXCEPT !.left = IF @ >= 0 THEN @ - 1 ELSE @, !.idle = IF @ < Idle + 1 THEN @ + 1 ELSE @]
Tick ==
    /\ lease' = [t \in Tokens |-> IF Held(t) THEN Older(lease[t]) ELSE None]
    /\ UNCHANGED <<durable, accounts, drawn, endedBy, acting>>

Next ==
    /\ vars' # vars
    /\ \/ \E r \in Requests :
             \/ \E u \in Users : SignIn(r, u)
             \/ \E t \in Tokens : Grant(r, t) \/ Enter(r, t)
             \/ \E S \in SUBSET Tokens : Revoke(r, S)
             \/ RemoveAccount(r)
       \/ \E t \in Tokens : Renew(t) \/ Lapse(t) \/ Logout(t)
       \/ \E u \in Users : Invalidate(u)
       \/ Tick

Spec == Init /\ [][Next]_vars
-----------------------------------------------------------------------------
\* A token is held only once: what has lapsed or was ended never comes back, and
\* until then it stays with its user and ends no later than it would have.
OverForGood ==
    [][\A t \in drawn : Held(t)' =>
          Held(t) /\ lease'[t].user = lease[t].user /\ lease'[t].left <= lease[t].left]_vars
=============================================================================
