------------------------------ MODULE Sessions ------------------------------
(***************************************************************************)
(* internal/auth: the life of a login session, from createSession to its   *)
(* expiry or revocation, with and without a database.                      *)
(*                                                                         *)
(* With a database every statement is a transaction of its own and runs    *)
(* between statements of other requests; the refresh and the purge of a    *)
(* session are goroutines that nobody waits for.  Without one, `sessions'  *)
(* is a map under a mutex and each critical section is one step.  The map  *)
(* is also written beside the database, where nothing reads it.            *)
(*                                                                         *)
(* Times are kept as distances to now, capped where the code cannot tell   *)
(* them apart any more, so that behaviours of any length are checked.      *)
(***************************************************************************)
EXTENDS Integers

CONSTANTS
    Users,      \* user ids
    Tokens,     \* session tokens: 32 random bytes, never drawn twice
    Requests,   \* HTTP requests in flight
    None,
    Idle,       \* maxInactivityDuration, in ticks
    Lifetime,   \* sessionDuration, in ticks
    MaxTouches, \* bound on the refreshes of one session under way at a time
    Faults      \* whether a statement whose error is ignored may fail

ASSUME DurationsAssumption ==
    Idle \in Nat \ {0} /\ Lifetime \in Nat /\ Lifetime > Idle /\ MaxTouches \in Nat
ASSUME FaultsAssumption == Faults \in BOOLEAN
ASSUME NoneAssumption ==
    None \notin Users \cup [user : Users, left : Int, idle : Nat]
                         \cup [user : Users, age : Nat]

VARIABLES
    db,         \* the process was started with a database (main.go)
    accounts,   \* ids of the existing accounts
    sessions,   \* the table sessions, or the map of the same name
    req,        \* requests: what they do next, and for which user
    touches,    \* per token, goroutines about to refresh last_activity_at
    purges,     \* tokens that a goroutine is about to delete if dead
    born,       \* history: owner and age of every token handed out
    sinceUse,   \* history: ticks since a token was last accepted or created
    late,       \* history: tokens with a refresh that outlasted a tick
    revokedBy   \* history: the user whose log-out, revocation, deletion of the
                \* account or password reset deleted a session

history == <<born, sinceUse, late, revokedBy>>
vars == <<db, accounts, sessions, req, touches, purges, history>>

Quiet == [pc |-> "idle", user |-> None]

Init ==
    /\ db \in BOOLEAN
    /\ accounts = Users
    /\ sessions = [t \in Tokens |-> None]
    /\ req = [r \in Requests |-> Quiet]
    /\ touches = [t \in Tokens |-> 0] /\ purges = {}
    /\ born = [t \in Tokens |-> None]
    /\ sinceUse = [t \in Tokens |-> 0]
    /\ late = {}
    /\ revokedBy = [t \in Tokens |-> None]

Present(t) == sessions[t] # None
Owned(u) == {t \in Tokens : Present(t) /\ sessions[t].user = u}

\* The WHERE clause of currentUser and the tests it makes on the map differ at
\* the boundaries: the clause is strict.
Live(t) ==
    /\ Present(t)
    /\ IF db
       THEN sessions[t].left > 0 /\ sessions[t].idle < Idle
       ELSE sessions[t].left >= 0 /\ sessions[t].idle <= Idle

Goto(r, pc, u) == req' = [req EXCEPT ![r] = [pc |-> pc, user |-> u]]
Done(r) == req' = [req EXCEPT ![r] = Quiet]
Without(S) == [t \in Tokens |-> IF t \in S THEN None ELSE sessions[t]]

\* Delete the sessions of S for user u.  The handlers ignore the error of the
\* statement and answer as if it had succeeded.
Delete(S, u) ==
    \/ /\ sessions' = Without(S)
       /\ revokedBy' = [t \in Tokens |-> IF t \in S THEN u ELSE revokedBy[t]]
    \/ /\ db /\ Faults
       /\ UNCHANGED <<sessions, revokedBy>>
-----------------------------------------------------------------------------
\* handleLogin, or processGoogleUser for a known account: the lookup.
Login(r, u) ==
    /\ req[r].pc = "idle" /\ u \in accounts
    /\ Goto(r, "create", u)
    /\ UNCHANGED <<db, accounts, sessions, touches, purges, history>>

\* (mutant) a table sessions without its foreign key to users
CreateWithoutForeignKey(r) ==
    /\ req[r].pc = "create"
    /\ Done(r)
    /\ \E t \in {x \in Tokens : born[x] = None} :
          /\ sessions' = [sessions EXCEPT ![t] =
                 [user |-> req[r].user, left |-> Lifetime, idle |-> 0]]
          /\ born' = [born EXCEPT ![t] = [user |-> req[r].user, age |-> 0]]
          /\ sinceUse' = [sinceUse EXCEPT ![t] = 0]
    /\ UNCHANGED <<db, accounts, touches, purges, late, revokedBy>>

\* createSessionAndSetCookie.  With a database the INSERT fails if the account
\* is gone (foreign key); the map takes the session all the same.
Create(r) ==
    /\ req[r].pc = "create"
    /\ Done(r)
    /\ \/ /\ req[r].user \in accounts \/ ~db
          /\ \E t \in {x \in Tokens : born[x] = None} :
                /\ sessions' = [sessions EXCEPT ![t] =
                       [user |-> req[r].user, left |-> Lifetime, idle |-> 0]]
                /\ born' = [born EXCEPT ![t] = [user |-> req[r].user, age |-> 0]]
                /\ sinceUse' = [sinceUse EXCEPT ![t] = 0]
       \/ /\ db /\ (req[r].user \notin accounts \/ Faults)
          /\ UNCHANGED <<sessions, born, sinceUse>>
    /\ UNCHANGED <<db, accounts, touches, purges, late, revokedBy>>

\* currentUser finds a live session: the request goes on as its user.  The
\* refresh is immediate in the map and left to a goroutine with a database.
Accept(r, t, next) ==
    /\ req[r].pc = "idle"
    /\ Live(t) /\ sessions[t].user \in accounts
    /\ Goto(r, next, IF next = "idle" THEN None ELSE sessions[t].user)
    /\ IF db
       THEN /\ touches[t] < MaxTouches
            /\ touches' = [touches EXCEPT ![t] = @ + 1]
            /\ UNCHANGED sessions
       ELSE sessions' = [sessions EXCEPT ![t].idle = 0] /\ UNCHANGED touches
    /\ sinceUse' = [sinceUse EXCEPT ![t] = 0]
    /\ UNCHANGED <<db, accounts, purges, born, late, revokedBy>>

\* currentUser refuses: 401.  (A token without a session changes nothing: it
\* is left out, here and in Logout and Revoke.)  With a database that is any
\* error of the SELECT, and a goroutine is sent to clean up; the map drops a
\* dead session at once and refreshes one whose account is gone.
Reject(t) ==
    /\ Present(t)
    /\ (db /\ Faults) \/ ~(Live(t) /\ sessions[t].user \in accounts)
    /\ IF db
       THEN purges' = purges \cup {t} /\ UNCHANGED sessions
       ELSE /\ sessions' = IF Live(t) THEN [sessions EXCEPT ![t].idle = 0]
                                      ELSE Without({t})
            /\ UNCHANGED purges
    /\ UNCHANGED <<db, accounts, req, touches, history>>

\* (mutants) a refresh that writes the whole session back, and one that also
\* slides expires_at
TouchUpsert(t) ==
    /\ touches[t] > 0
    /\ touches' = [touches EXCEPT ![t] = @ - 1]
    /\ sessions' = [sessions EXCEPT ![t] =
           [user |-> born[t].user, left |-> Lifetime, idle |-> 0]]
    /\ UNCHANGED <<db, accounts, req, purges, history>>
TouchSliding(t) ==
    /\ touches[t] > 0
    /\ touches' = [touches EXCEPT ![t] = @ - 1]
    /\ sessions' = IF Present(t)
                   THEN [sessions EXCEPT ![t].idle = 0, ![t].left = Lifetime] ELSE sessions
    /\ UNCHANGED <<db, accounts, req, purges, history>>

\* The refresh: UPDATE sessions SET last_activity_at = NOW() WHERE token = $1.
\* Its error is ignored; one that fails is one that is delayed for ever.
Touch(t) ==
    /\ touches[t] > 0
    /\ touches' = [touches EXCEPT ![t] = @ - 1]
    /\ sessions' = IF Present(t) THEN [sessions EXCEPT ![t].idle = 0] ELSE sessions
    /\ UNCHANGED <<db, accounts, req, purges, history>>

\* (mutant) the clean-up trusts the lookup that failed some time ago
PurgeUnconditional(t) ==
    /\ t \in purges
    /\ purges' = purges \ {t}
    /\ sessions' = Without({t})
    /\ UNCHANGED <<db, accounts, req, touches, history>>

\* The clean-up: DELETE FROM sessions WHERE token = $1 AND (expired OR inactive).
Purge(t) ==
    /\ t \in purges
    /\ purges' = purges \ {t}
    /\ sessions' = IF Live(t) THEN sessions ELSE Without({t})
    /\ UNCHANGED <<db, accounts, req, touches, history>>
-----------------------------------------------------------------------------
\* handleLogout: destroySession looks at the cookie only, so a client that
\* sends its token in a header is answered the same and keeps its session.
Logout(t, channel) ==
    /\ Present(t)
    /\ IF channel = "cookie"
       THEN Delete({t}, sessions[t].user)
       ELSE UNCHANGED <<sessions, revokedBy>>
    /\ UNCHANGED <<db, accounts, req, touches, purges, born, sinceUse, late>>

\* HandleLogoutAll, after currentUser.
LogoutAll(r) ==
    /\ req[r].pc = "logoutAll"
    /\ Done(r)
    /\ Delete(Owned(req[r].user), req[r].user)
    /\ UNCHANGED <<db, accounts, touches, purges, born, sinceUse, late>>

\* (mutant) revocation by session id alone
RevocableByAnyone(t, u) == {x \in {t} : Present(x)}

\* HandleRevokeSession of session t, after currentUser.
Revocable(t, u) == {t} \cap Owned(u)
Revoke(r, t) ==
    /\ req[r].pc = "revoke" /\ Present(t)
    /\ Done(r)
    /\ Delete(Revocable(t, req[r].user), req[r].user)
    /\ UNCHANGED <<db, accounts, touches, purges, born, sinceUse, late>>

\* HandleResetPassword, "Invalidate active sessions", with a database only.  The
\* request is signed in as nobody: it holds a reset token for the email of u.
\* HandleForgotPassword answers one to whoever names that email, so this may
\* come at any time.  (Tokens and passwords are in Accounts.)
InvalidateSessions(u) ==
    /\ db /\ u \in accounts
    /\ Delete(Owned(u), u)
    /\ UNCHANGED <<db, accounts, req, touches, purges, born, sinceUse, late>>

\* HandleDeleteAccount, after currentUser: with a database the sessions first
\* and then the account, whose deletion cascades to sessions made in between;
\* without one, both under one lock.
DeleteSessions(r) ==
    /\ db /\ req[r].pc = "delete"
    /\ Goto(r, "deleteUser", req[r].user)
    /\ Delete(Owned(req[r].user), req[r].user)
    /\ UNCHANGED <<db, accounts, touches, purges, born, sinceUse, late>>

DeleteUser(r) ==
    /\ req[r].pc = IF db THEN "deleteUser" ELSE "delete"
    /\ Done(r)
    /\ \/ /\ accounts' = accounts \ {req[r].user}
          /\ sessions' = Without(Owned(req[r].user))
          /\ revokedBy' = [t \in Tokens |-> IF t \in Owned(req[r].user)
                                            THEN req[r].user ELSE revokedBy[t]]
       \/ db /\ Faults /\ UNCHANGED <<accounts, sessions, revokedBy>>
    /\ UNCHANGED <<db, touches, purges, born, sinceUse, late>>

\* (mutant) an age without its cap
LaterUncapped(n, cap) == n + 1
Later(n, cap) == IF n < cap THEN n + 1 ELSE n
Sooner(n) == IF n >= 0 THEN n - 1 ELSE n
Older(row) == [row EXCEPT !.left = Sooner(@), !.idle = Later(@, Idle + 1)]

Tick ==
    /\ sessions' = [t \in Tokens |-> IF Present(t) THEN Older(sessions[t]) ELSE None]
    /\ born' = [t \in Tokens |-> IF born[t] = None THEN None ELSE
                    [born[t] EXCEPT !.age = IF Present(t) THEN Later(@, Lifetime + 1) ELSE 0]]
    /\ sinceUse' = [t \in Tokens |-> IF Present(t) THEN Later(sinceUse[t], Idle + 1) ELSE 0]
    /\ late' = {t \in Tokens : Present(t) /\ (t \in late \/ touches[t] > 0)}
    /\ UNCHANGED <<db, accounts, req, touches, purges, revokedBy>>

AfterAccept == {"idle", "logoutAll", "revoke", "delete"}

Next ==
    \/ \E r \in Requests :
          \/ \E u \in Users : Login(r, u)
          \/ \E t \in Tokens : \/ \E next \in AfterAccept : Accept(r, t, next)
                               \/ Revoke(r, t)
          \/ Create(r) \/ LogoutAll(r) \/ DeleteSessions(r) \/ DeleteUser(r)
    \/ \E t \in Tokens : \/ Reject(t) \/ Touch(t) \/ Purge(t)
                         \/ \E c \in {"cookie", "header"} : Logout(t, c)
    \/ \E u \in Users : InvalidateSessions(u)
    \/ Tick

Spec == Init /\ [][Next]_vars
-----------------------------------------------------------------------------
Row == [user : Users, left : -1..Lifetime, idle : 0..(Idle + 1)]
Birth == [user : Users, age : 0..(Lifetime + 1)]
Pcs == AfterAccept \cup {"create", "deleteUser"}

TypeOK ==
    /\ db \in BOOLEAN
    /\ accounts \subseteq Users
    /\ sessions \in [Tokens -> Row \cup {None}]
    /\ req \in [Requests -> [pc : Pcs, user : Users \cup {None}]]
    /\ \A r \in Requests : req[r].pc # "idle" => req[r].user \in Users
    /\ touches \in [Tokens -> 0..MaxTouches]
    /\ purges \subseteq Tokens
    /\ born \in [Tokens -> Birth \cup {None}]
    /\ sinceUse \in [Tokens -> 0..(Idle + 1)]
    /\ late \subseteq Tokens
    /\ revokedBy \in [Tokens -> Users \cup {None}]

\* A session that was deleted by logout, revocation, account deletion or password
\* reset never exists again, whatever refreshes were still on their way.
RevokedStaysRevoked == \A t \in Tokens : revokedBy[t] # None => ~Present(t)

\* A session is deleted for its owner only: by a log-out with its token, a request
\* signed in as its owner, or a reset of its owner's password.
OnlyOwnersRevoke ==
    \A t \in Tokens : revokedBy[t] # None => born[t] # None /\ revokedBy[t] = born[t].user

\* With a database no session outlives its account, also when a login is
\* interleaved with the deletion.
NoSessionWithoutAccount ==
    db => \A t \in Tokens : Present(t) => sessions[t].user \in accounts

\* A session disappears only when it is dead or was deleted for its user: the
\* clean-up after a failed lookup never logs out a session that a slow refresh
\* has brought back in between.
LiveSessionsAreKept ==
    [][\A t \in Tokens :
          Present(t) /\ ~Present(t)' => ~Live(t) \/ revokedBy'[t] # None]_vars

\* A request is only accepted for an existing account, within the lifetime of
\* its session, and within the inactivity window since its last use, unless
\* a refresh of that session was delayed past a tick.
AcceptedIsFresh ==
    [][\A r \in Requests, t \in Tokens : \A next \in AfterAccept :
          Accept(r, t, next) =>
             /\ born[t].user \in accounts
             /\ born[t].age <= Lifetime
             /\ t \in late \/ sinceUse[t] <= Idle]_vars

\* Late refreshes, clean-ups that nobody waits for, failing statements and
\* requests that interleave are invisible: tokens have leases (module Leases),
\* which nothing revives or prolongs, and which only a log-out, a request that
\* acts for their user or a reset of that user's password ends early.
Granted == INSTANCE Leases WITH
    durable <- db, lease <- sessions,
    drawn <- {t \in Tokens : born[t] # None}, endedBy <- revokedBy,
    acting <- [r \in Requests |-> req[r].user]
ImplementsLeases == Granted!Spec
=============================================================================
