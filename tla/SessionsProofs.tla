--------------------------- MODULE SessionsProofs ---------------------------
(***************************************************************************)
(* For every number of users, tokens and requests and every pair of        *)
(* durations: revocation is final and only for owners, the database keeps  *)
(* no orphan, the clean-up spares live sessions, and a request is accepted *)
(* only with a fresh one; the sessions implement Leases.                   *)
(***************************************************************************)
EXTENDS Sessions, TLAPS

USE DurationsAssumption, FaultsAssumption, NoneAssumption

\* None is neither a user, a row nor a birth.
LEMMA NoneApart == None \notin Users /\ None \notin Row /\ None \notin Birth
BY DEF Row, Birth

\* What a row becomes when it is refreshed, and when a tick passes.
LEMMA RowSteps ==
    ASSUME NEW row \in Row
    PROVE  /\ [row EXCEPT !.idle = 0] \in Row
           /\ [row EXCEPT !.idle = 0].user = row.user
           /\ [row EXCEPT !.idle = 0].left = row.left
           /\ [row EXCEPT !.idle = 0].idle = 0
           /\ Older(row) \in Row
           /\ Older(row).user = row.user
           /\ Older(row).left = Sooner(row.left)
           /\ Older(row).idle = Later(row.idle, Idle + 1)
<1>1. Sooner(row.left) \in -1..Lifetime /\ Later(row.idle, Idle + 1) \in 0..(Idle + 1)
  BY DEF Row, Sooner, Later
<1>2. 0 \in 0..(Idle + 1)
  OBVIOUS
<1>. QED
  BY <1>1, <1>2 DEF Row, Older

LEMMA NewRow ==
    ASSUME NEW u \in Users
    PROVE  /\ [user |-> u, left |-> Lifetime, idle |-> 0] \in Row
           /\ [user |-> u, age |-> 0] \in Birth
BY DEF Row, Birth

\* A birth grows older, and not past its cap.
LEMMA BirthSteps ==
    ASSUME NEW b \in Birth, NEW n \in 0..(Lifetime + 1)
    PROVE  /\ [b EXCEPT !.age = n] \in Birth
           /\ [b EXCEPT !.age = n].user = b.user
           /\ [b EXCEPT !.age = n].age = n
BY DEF Birth

\* A refresh keeps the rows.
LEMMA RefreshKeeps ==
    ASSUME TypeOK, NEW x \in Tokens, Present(x), sessions' = [sessions EXCEPT ![x].idle = 0],
           NEW t \in Tokens, Present(t)
    PROVE  Present(t)'
<1>1. sessions[x] \in Row
  BY DEF Present, TypeOK
<1>2. sessions'[x] \in Row
  BY <1>1, RowSteps DEF TypeOK
<1>. QED
  BY <1>2, NoneApart DEF Present, TypeOK

LEMMA LaterType ==
    ASSUME NEW cap \in Nat, NEW n \in 0..cap
    PROVE  Later(n, cap) \in 0..cap
BY DEF Later
-----------------------------------------------------------------------------
Request == [pc : Pcs, user : Users \cup {None}]

\* A request goes on as a user, or is over.
LEMMA RequestSteps ==
    ASSUME TypeOK, NEW r \in Requests
    PROVE  /\ \A pc \in Pcs, u \in Users : Goto(r, pc, u) =>
                 /\ req' \in [Requests -> Request]
                 /\ \A x \in Requests : req'[x].pc # "idle" => req'[x].user \in Users
           /\ Goto(r, "idle", None) \/ Done(r) =>
                 /\ req' \in [Requests -> Request]
                 /\ \A x \in Requests : req'[x].pc # "idle" => req'[x].user \in Users
BY DEF TypeOK, Goto, Done, Quiet, Request, Pcs, AfterAccept

\* Deleting rows leaves rows; the deletion is noted for a user.
LEMMA DeleteType ==
    ASSUME TypeOK, NEW S \in SUBSET Tokens, NEW u \in Users
    PROVE  /\ Without(S) \in [Tokens -> Row \cup {None}]
           /\ Delete(S, u) => /\ sessions' \in [Tokens -> Row \cup {None}]
                              /\ revokedBy' \in [Tokens -> Users \cup {None}]
BY DEF TypeOK, Without, Delete

LEMMA InitType == Init => TypeOK
<1> SUFFICES ASSUME Init PROVE TypeOK
  OBVIOUS
<1>1. req \in [Requests -> [pc : Pcs, user : Users \cup {None}]]
  BY DEF Init, Quiet, Pcs, AfterAccept
<1>2. \A r \in Requests : req[r].pc # "idle" => req[r].user \in Users
  BY DEF Init, Quiet
<1>3. touches \in [Tokens -> 0..MaxTouches] /\ sinceUse \in [Tokens -> 0..(Idle + 1)]
  BY DEF Init
<1>. QED
  BY <1>1, <1>2, <1>3 DEF Init, TypeOK

LEMMA NextType == TypeOK /\ [Next]_vars => TypeOK'
<1> SUFFICES ASSUME TypeOK, [Next]_vars PROVE TypeOK'
  OBVIOUS
<1> USE DEF Request
<1>1. ASSUME NEW r \in Requests, NEW u \in Users, Login(r, u) PROVE TypeOK'
  <2>1. "create" \in Pcs
    BY DEF Pcs
  <2>. QED
    BY <1>1, <2>1, RequestSteps DEF Login, TypeOK, history
<1>2. ASSUME NEW r \in Requests, Create(r) PROVE TypeOK'
  <2>1. req[r].user \in Users
    BY <1>2 DEF Create, TypeOK
  <2>2. sessions' \in [Tokens -> Row \cup {None}] /\ born' \in [Tokens -> Birth \cup {None}]
    BY <1>2, <2>1, NewRow DEF Create, TypeOK
  <2>3. sinceUse' \in [Tokens -> 0..(Idle + 1)]
    BY <1>2 DEF Create, TypeOK
  <2>. QED
    BY <1>2, <2>2, <2>3, RequestSteps DEF Create, TypeOK
<1>3. ASSUME NEW r \in Requests, NEW t \in Tokens, NEW next \in AfterAccept,
             Accept(r, t, next)
      PROVE  TypeOK'
  <2>1. sessions[t] \in Row /\ sessions[t].user \in Users
    BY <1>3 DEF Accept, Live, Present, TypeOK, Row
  <2>2. sessions' \in [Tokens -> Row \cup {None}]
    BY <1>3, <2>1, RowSteps DEF Accept, TypeOK
  <2>3. touches' \in [Tokens -> 0..MaxTouches] /\ sinceUse' \in [Tokens -> 0..(Idle + 1)]
    BY <1>3 DEF Accept, TypeOK
  <2>4. Goto(r, next, IF next = "idle" THEN None ELSE sessions[t].user) /\ next \in Pcs
    BY <1>3 DEF Accept, Pcs
  <2>5. /\ req' \in [Requests -> Request]
        /\ \A x \in Requests : req'[x].pc # "idle" => req'[x].user \in Users
    BY <2>1, <2>4, RequestSteps
  <2>. QED
    BY <1>3, <2>2, <2>3, <2>5 DEF Accept, TypeOK
<1>4. ASSUME NEW r \in Requests, NEW t \in Tokens, Revoke(r, t) PROVE TypeOK'
  <2>1. req[r].user \in Users /\ Revocable(t, req[r].user) \subseteq Tokens
    BY <1>4 DEF Revoke, Revocable, TypeOK
  <2>. QED
    BY <1>4, <2>1, RequestSteps, DeleteType DEF Revoke, TypeOK
<1>5. ASSUME NEW r \in Requests, LogoutAll(r) PROVE TypeOK'
  <2>1. req[r].user \in Users /\ Owned(req[r].user) \subseteq Tokens
    BY <1>5 DEF LogoutAll, Owned, TypeOK
  <2>. QED
    BY <1>5, <2>1, RequestSteps, DeleteType DEF LogoutAll, TypeOK
<1>6. ASSUME NEW r \in Requests, DeleteSessions(r) PROVE TypeOK'
  <2>1. req[r].user \in Users /\ Owned(req[r].user) \subseteq Tokens
    BY <1>6 DEF DeleteSessions, Owned, TypeOK
  <2>2. "deleteUser" \in Pcs
    BY DEF Pcs
  <2>. QED
    BY <1>6, <2>1, <2>2, RequestSteps, DeleteType DEF DeleteSessions, TypeOK
<1>7. ASSUME NEW r \in Requests, DeleteUser(r) PROVE TypeOK'
  <2>1. req[r].user \in Users /\ Owned(req[r].user) \subseteq Tokens
    BY <1>7 DEF DeleteUser, Owned, TypeOK
  <2>2. Without(Owned(req[r].user)) \in [Tokens -> Row \cup {None}]
    BY <2>1, DeleteType
  <2>3. revokedBy' \in [Tokens -> Users \cup {None}]
    BY <1>7, <2>1 DEF DeleteUser, TypeOK
  <2>. QED
    BY <1>7, <2>2, <2>3, RequestSteps DEF DeleteUser, TypeOK
<1>8. ASSUME NEW t \in Tokens, Reject(t) PROVE TypeOK'
  <2>1. sessions[t] \in Row /\ Without({t}) \in [Tokens -> Row \cup {None}]
    BY <1>8, DeleteType, NoneApart DEF Reject, Present, TypeOK, Without
  <2>2. [sessions[t] EXCEPT !.idle = 0] \in Row
    BY <2>1, RowSteps
  <2>3. [sessions EXCEPT ![t].idle = 0] \in [Tokens -> Row \cup {None}]
    BY <2>2 DEF TypeOK
  <2>4. sessions' \in [Tokens -> Row \cup {None}]
    BY <1>8, <2>1, <2>3 DEF Reject, TypeOK
  <2>. QED
    BY <1>8, <2>4 DEF Reject, TypeOK, history
<1>9. ASSUME NEW t \in Tokens, Touch(t) PROVE TypeOK'
  <2>1. sessions' \in [Tokens -> Row \cup {None}]
    BY <1>9, RowSteps DEF Touch, Present, TypeOK
  <2>2. touches' \in [Tokens -> 0..MaxTouches]
    BY <1>9 DEF Touch, TypeOK
  <2>. QED
    BY <1>9, <2>1, <2>2 DEF Touch, TypeOK, history
<1>10. ASSUME NEW t \in Tokens, Purge(t) PROVE TypeOK'
  <2>1. sessions' \in [Tokens -> Row \cup {None}]
    BY <1>10 DEF Purge, Without, TypeOK
  <2>. QED
    BY <1>10, <2>1 DEF Purge, TypeOK, history
<1>11. ASSUME NEW t \in Tokens, NEW c \in {"cookie", "header"}, Logout(t, c) PROVE TypeOK'
  <2>1. sessions[t].user \in Users /\ {t} \subseteq Tokens
    BY <1>11 DEF Logout, Present, TypeOK, Row
  <2>. QED
    BY <1>11, <2>1, DeleteType DEF Logout, TypeOK
<1>12. CASE Tick
  <2>1. sessions' \in [Tokens -> Row \cup {None}]
    BY <1>12, RowSteps DEF Tick, Present, TypeOK
  <2>2. \A t \in Tokens : born[t] # None =>
           (IF Present(t) THEN Later(born[t].age, Lifetime + 1) ELSE 0) \in 0..(Lifetime + 1)
    <3> SUFFICES ASSUME NEW t \in Tokens, born[t] # None
                 PROVE  Later(born[t].age, Lifetime + 1) \in 0..(Lifetime + 1)
      OBVIOUS
    <3>1. born[t].age \in 0..(Lifetime + 1)
      BY DEF TypeOK, Birth
    <3>. QED
      BY <3>1, LaterType
  <2>3. born' \in [Tokens -> Birth \cup {None}]
    BY <1>12, <2>2, BirthSteps DEF Tick, TypeOK
  <2>4. sinceUse' \in [Tokens -> 0..(Idle + 1)]
    BY <1>12, LaterType DEF Tick, TypeOK
  <2>. QED
    BY <1>12, <2>1, <2>3, <2>4 DEF Tick, TypeOK
<1>13. ASSUME NEW u \in Users, InvalidateSessions(u) PROVE TypeOK'
  <2>1. Owned(u) \subseteq Tokens
    BY DEF Owned
  <2>. QED
    BY <1>13, <2>1, DeleteType DEF InvalidateSessions, TypeOK
<1>14. CASE UNCHANGED vars
  BY <1>14 DEF TypeOK, vars, history
<1>. QED
  BY <1>1, <1>2, <1>3, <1>4, <1>5, <1>6, <1>7, <1>8, <1>9, <1>10, <1>11, <1>12, <1>13, <1>14
  DEF Next

\* Rows, requests and histories keep their shape, and every counter its range.
THEOREM TypeCorrect == Spec => []TypeOK
<1>. QED
  BY InitType, NextType, PTL DEF Spec
-----------------------------------------------------------------------------

(***************************************************************************)
(* Who owns what.  A token belongs for ever to the user it was made for,   *)
(* and a deletion noted for a user is one of a session of that user, which *)
(* is gone.  Tokens are never drawn twice: Create takes one without birth. *)
(***************************************************************************)
Owners == \A t \in Tokens : Present(t) => born[t] # None /\ born[t].user = sessions[t].user

OwnInv == TypeOK /\ Owners /\ RevokedStaysRevoked /\ OnlyOwnersRevoke

\* Births are kept by every step that neither creates nor lets time pass.
LEMMA DeleteOwn ==
    ASSUME OwnInv, NEW u \in Users, NEW S \in SUBSET Owned(u), Delete(S, u), born' = born
    PROVE  (Owners /\ RevokedStaysRevoked /\ OnlyOwnersRevoke)'
BY DEF OwnInv, TypeOK, Owners, Owned, Present, RevokedStaysRevoked, OnlyOwnersRevoke,
       Delete, Without

\* A step that only removes rows, or changes other columns than user_id.
LEMMA KeepOwn ==
    ASSUME OwnInv, UNCHANGED <<born, revokedBy>>,
           \A t \in Tokens : Present(t)' => Present(t) /\ sessions'[t].user = sessions[t].user
    PROVE  (Owners /\ RevokedStaysRevoked /\ OnlyOwnersRevoke)'
BY DEF OwnInv, Owners, Present, RevokedStaysRevoked, OnlyOwnersRevoke

LEMMA NextOwn == OwnInv /\ [Next]_vars => OwnInv'
<1> SUFFICES ASSUME OwnInv, [Next]_vars
             PROVE  (Owners /\ RevokedStaysRevoked /\ OnlyOwnersRevoke)'
  BY NextType DEF OwnInv
<1> USE DEF OwnInv
<1>1. ASSUME NEW r \in Requests, NEW u \in Users, Login(r, u)
      PROVE  (Owners /\ RevokedStaysRevoked /\ OnlyOwnersRevoke)'
  BY <1>1, KeepOwn DEF Login, history, Present
<1>2. ASSUME NEW r \in Requests, Create(r)
      PROVE  (Owners /\ RevokedStaysRevoked /\ OnlyOwnersRevoke)'
  <2>1. CASE UNCHANGED <<sessions, born>>
    BY <1>2, <2>1, KeepOwn DEF Create, Present
  <2>2. ASSUME NEW t \in Tokens, born[t] = None,
               sessions' = [sessions EXCEPT ![t] =
                   [user |-> req[r].user, left |-> Lifetime, idle |-> 0]],
               born' = [born EXCEPT ![t] = [user |-> req[r].user, age |-> 0]]
        PROVE  (Owners /\ RevokedStaysRevoked /\ OnlyOwnersRevoke)'
    <3>1. req[r].user \in Users /\ revokedBy' = revokedBy
      BY <1>2 DEF Create, TypeOK
    <3>2. revokedBy[t] = None
      BY <2>2 DEF OnlyOwnersRevoke
    <3>3. born'[t] # None /\ born'[t].user = sessions'[t].user
      BY <2>2, <3>1, NewRow, NoneApart DEF TypeOK
    <3>4. \A x \in Tokens : x # t => sessions'[x] = sessions[x] /\ born'[x] = born[x]
      BY <2>2 DEF TypeOK
    <3>. QED
      BY <3>1, <3>2, <3>3, <3>4
      DEF Owners, RevokedStaysRevoked, OnlyOwnersRevoke, Present
  <2>. QED
    BY <1>2, <2>1, <2>2 DEF Create
<1>3. ASSUME NEW r \in Requests, NEW t \in Tokens, NEW next \in AfterAccept,
             Accept(r, t, next)
      PROVE  (Owners /\ RevokedStaysRevoked /\ OnlyOwnersRevoke)'
  <2>1. sessions[t] \in Row
    BY <1>3 DEF Accept, Live, Present, TypeOK
  <2>2. \A x \in Tokens : Present(x)' => Present(x) /\ sessions'[x].user = sessions[x].user
    BY <1>3, <2>1, RowSteps, NoneApart DEF Accept, Live, Present, TypeOK
  <2>. QED
    BY <1>3, <2>2, KeepOwn DEF Accept
<1>4. ASSUME NEW r \in Requests, NEW t \in Tokens, Revoke(r, t)
      PROVE  (Owners /\ RevokedStaysRevoked /\ OnlyOwnersRevoke)'
  <2>1. req[r].user \in Users /\ Revocable(t, req[r].user) \subseteq Owned(req[r].user)
    BY <1>4 DEF Revoke, Revocable, TypeOK
  <2>. QED
    BY <1>4, <2>1, DeleteOwn DEF Revoke
<1>5. ASSUME NEW r \in Requests, LogoutAll(r)
      PROVE  (Owners /\ RevokedStaysRevoked /\ OnlyOwnersRevoke)'
  <2>1. req[r].user \in Users
    BY <1>5 DEF LogoutAll, TypeOK
  <2>. QED
    BY <1>5, <2>1, DeleteOwn DEF LogoutAll
<1>6. ASSUME NEW r \in Requests, DeleteSessions(r)
      PROVE  (Owners /\ RevokedStaysRevoked /\ OnlyOwnersRevoke)'
  <2>1. req[r].user \in Users
    BY <1>6 DEF DeleteSessions, TypeOK
  <2>. QED
    BY <1>6, <2>1, DeleteOwn DEF DeleteSessions
<1>7. ASSUME NEW r \in Requests, DeleteUser(r)
      PROVE  (Owners /\ RevokedStaysRevoked /\ OnlyOwnersRevoke)'
  <2>1. req[r].user \in Users /\ born' = born
    BY <1>7 DEF DeleteUser, TypeOK
  <2>2. CASE UNCHANGED <<sessions, revokedBy>>
    BY <2>1, <2>2, KeepOwn DEF Present
  <2>3. ASSUME sessions' = Without(Owned(req[r].user)),
               revokedBy' = [t \in Tokens |-> IF t \in Owned(req[r].user)
                                              THEN req[r].user ELSE revokedBy[t]]
        PROVE  (Owners /\ RevokedStaysRevoked /\ OnlyOwnersRevoke)'
    BY <2>1, <2>3, DeleteOwn DEF Delete
  <2>. QED
    BY <1>7, <2>2, <2>3 DEF DeleteUser
<1>8. ASSUME NEW t \in Tokens, Reject(t)
      PROVE  (Owners /\ RevokedStaysRevoked /\ OnlyOwnersRevoke)'
  <2>1. sessions[t] \in Row
    BY <1>8 DEF Reject, Present, TypeOK
  <2>2. \A x \in Tokens : Present(x)' => Present(x) /\ sessions'[x].user = sessions[x].user
    <3>1. CASE db
      BY <1>8, <3>1 DEF Reject, Present
    <3>2. CASE ~db /\ Live(t)
      BY <1>8, <2>1, <3>2, RowSteps DEF Reject, Present, TypeOK
    <3>3. CASE ~db /\ ~Live(t)
      BY <1>8, <3>3 DEF Reject, Present, Without
    <3>. QED
      BY <3>1, <3>2, <3>3 DEF TypeOK
  <2>. QED
    BY <1>8, <2>2, KeepOwn DEF Reject, history
<1>9. ASSUME NEW t \in Tokens, Touch(t)
      PROVE  (Owners /\ RevokedStaysRevoked /\ OnlyOwnersRevoke)'
  <2>1. \A x \in Tokens : Present(x)' => Present(x) /\ sessions'[x].user = sessions[x].user
    BY <1>9, RowSteps DEF Touch, Present, TypeOK
  <2>. QED
    BY <1>9, <2>1, KeepOwn DEF Touch, history
<1>10. ASSUME NEW t \in Tokens, Purge(t)
       PROVE  (Owners /\ RevokedStaysRevoked /\ OnlyOwnersRevoke)'
  BY <1>10, KeepOwn DEF Purge, Present, TypeOK, Without, history
<1>11. ASSUME NEW t \in Tokens, NEW c \in {"cookie", "header"}, Logout(t, c)
       PROVE  (Owners /\ RevokedStaysRevoked /\ OnlyOwnersRevoke)'
  <2>1. sessions[t].user \in Users /\ {t} \in SUBSET Owned(sessions[t].user)
    BY <1>11 DEF Logout, Present, TypeOK, Row, Owned
  <2>2. CASE c = "cookie"
    BY <1>11, <2>1, <2>2, DeleteOwn DEF Logout
  <2>3. CASE c # "cookie"
    BY <1>11, <2>3, KeepOwn DEF Logout, Present
  <2>. QED
    BY <2>2, <2>3
<1>12. CASE Tick
  <2>1. \A x \in Tokens : Present(x)' => Present(x) /\ sessions'[x].user = sessions[x].user
    <3> SUFFICES ASSUME NEW x \in Tokens, Present(x)'
                 PROVE  Present(x) /\ sessions'[x].user = sessions[x].user
      OBVIOUS
    <3>1. Present(x) /\ sessions'[x] = Older(sessions[x])
      BY <1>12 DEF Tick, Present
    <3>2. sessions[x] \in Row
      BY <3>1 DEF Present, TypeOK
    <3>. QED
      BY <3>1, <3>2, RowSteps
  <2>2. ASSUME NEW x \in Tokens, born[x] # None
        PROVE  born'[x] # None /\ born'[x].user = born[x].user
    <3>1. born[x] \in Birth /\ born[x].age \in 0..(Lifetime + 1)
      BY <2>2 DEF TypeOK, Birth
    <3>2. (IF Present(x) THEN Later(born[x].age, Lifetime + 1) ELSE 0) \in 0..(Lifetime + 1)
      BY <3>1, LaterType
    <3>3. born'[x] = [born[x] EXCEPT !.age =
                         IF Present(x) THEN Later(born[x].age, Lifetime + 1) ELSE 0]
      BY <1>12, <2>2 DEF Tick
    <3>. QED
      BY <3>1, <3>2, <3>3, BirthSteps, NoneApart
  <2>3. revokedBy' = revokedBy
    BY <1>12 DEF Tick
  <2>. QED
    BY <2>1, <2>2, <2>3 DEF Owners, RevokedStaysRevoked, OnlyOwnersRevoke, Present
<1>13. ASSUME NEW u \in Users, InvalidateSessions(u)
       PROVE  (Owners /\ RevokedStaysRevoked /\ OnlyOwnersRevoke)'
  BY <1>13, DeleteOwn DEF InvalidateSessions
<1>14. CASE UNCHANGED vars
  BY <1>14, KeepOwn DEF vars, history, Present
<1>. QED
  BY <1>1, <1>2, <1>3, <1>4, <1>5, <1>6, <1>7, <1>8, <1>9, <1>10, <1>11, <1>12, <1>13, <1>14
  DEF Next

LEMMA OwnInvariant == Spec => []OwnInv
<1>1. Init => OwnInv
  BY InitType DEF Init, OwnInv, Owners, Present, RevokedStaysRevoked, OnlyOwnersRevoke
<1>. QED
  BY <1>1, NextOwn, PTL DEF Spec

\* Once deleted, by its user or by a reset of the password, a session never
\* comes back, whatever refresh, clean-up or login was under way.
THEOREM RevocationIsFinal == Spec => []RevokedStaysRevoked
<1>1. OwnInv => RevokedStaysRevoked
  BY DEF OwnInv
<1>. QED
  BY <1>1, OwnInvariant, PTL

\* A log-out, a revocation, the deletion of an account and a password reset
\* delete sessions of the one user they are for, and of nobody else.
THEOREM RevocationIsOwned == Spec => []OnlyOwnersRevoke
<1>1. OwnInv => OnlyOwnersRevoke
  BY DEF OwnInv
<1>. QED
  BY <1>1, OwnInvariant, PTL
-----------------------------------------------------------------------------

\* With a database: the INSERT is refused without an account, the deletion of
\* an account takes its sessions along, and nothing else adds or removes either.
LEMMA NextAccount ==
    TypeOK /\ NoSessionWithoutAccount /\ [Next]_vars => NoSessionWithoutAccount'
<1> SUFFICES ASSUME TypeOK, NoSessionWithoutAccount, [Next]_vars, db'
             PROVE  \A t \in Tokens : Present(t)' => sessions'[t].user \in accounts'
  BY DEF NoSessionWithoutAccount
<1>0. db /\ \A t \in Tokens : Present(t) => sessions[t] \in Row /\ sessions[t].user \in accounts
  BY DEF NoSessionWithoutAccount, Present, TypeOK, Next, Login, Create, Accept, Revoke,
         LogoutAll, DeleteSessions, DeleteUser, Reject, Touch, Purge, Logout, Tick, vars,
         InvalidateSessions
<1>1. ASSUME accounts' = accounts,
             \A t \in Tokens : Present(t)' => Present(t) /\ sessions'[t].user = sessions[t].user
      PROVE  \A t \in Tokens : Present(t)' => sessions'[t].user \in accounts'
  BY <1>0, <1>1
<1>2. ASSUME NEW S, NEW u, Delete(S, u), accounts' = accounts
      PROVE  \A t \in Tokens : Present(t)' => sessions'[t].user \in accounts'
  BY <1>0, <1>2 DEF Delete, Without, Present
<1>3. ASSUME NEW r \in Requests, Create(r)
      PROVE  \A t \in Tokens : Present(t)' => sessions'[t].user \in accounts'
  BY <1>0, <1>3 DEF Create, Present, TypeOK
<1>4. ASSUME NEW r \in Requests, DeleteUser(r)
      PROVE  \A t \in Tokens : Present(t)' => sessions'[t].user \in accounts'
  BY <1>0, <1>4 DEF DeleteUser, Without, Owned, Present
<1>5. ASSUME NEW r \in Requests, NEW t \in Tokens, NEW next \in AfterAccept, Accept(r, t, next)
      PROVE  \A x \in Tokens : Present(x)' => sessions'[x].user \in accounts'
  BY <1>0, <1>5 DEF Accept, Present
<1>6. ASSUME NEW t \in Tokens, Touch(t)
      PROVE  \A x \in Tokens : Present(x)' => sessions'[x].user \in accounts'
  BY <1>0, <1>1, <1>6, RowSteps DEF Touch, Present, TypeOK
<1>7. ASSUME NEW t \in Tokens, Purge(t)
      PROVE  \A x \in Tokens : Present(x)' => sessions'[x].user \in accounts'
  BY <1>0, <1>7 DEF Purge, Without, Present
<1>8. CASE Tick
  <2>1. accounts' = accounts
    BY <1>8 DEF Tick
  <2>2. \A x \in Tokens : Present(x)' => Present(x) /\ sessions'[x].user = sessions[x].user
    BY <1>0, <1>8, RowSteps DEF Tick, Present
  <2>. QED
    BY <1>1, <2>1, <2>2
<1>9. CASE UNCHANGED <<accounts, sessions>>
  BY <1>0, <1>9 DEF Present
<1>. QED
  BY <1>0, <1>2, <1>3, <1>4, <1>5, <1>6, <1>7, <1>8, <1>9
  DEF Next, Login, LogoutAll, Revoke, DeleteSessions, Reject, Logout, InvalidateSessions, vars

\* No session in the table belongs to an account that is gone.
THEOREM NoOrphans == Spec => []NoSessionWithoutAccount
<1>1. Init => NoSessionWithoutAccount
  BY DEF Init, NoSessionWithoutAccount, Present
<1>. QED
  BY <1>1, TypeCorrect, NextAccount, PTL DEF Spec

\* A session goes only when it is dead or was deleted for its user.
THEOREM CleanupSparesTheLiving == Spec => LiveSessionsAreKept
<1>1. TypeOK /\ [Next]_vars =>
        [\A t \in Tokens : Present(t) /\ ~Present(t)' => ~Live(t) \/ revokedBy'[t] # None]_vars
  <2> SUFFICES ASSUME TypeOK, Next, NEW t \in Tokens, Present(t), ~Present(t)', Live(t)
               PROVE  revokedBy'[t] # None
    OBVIOUS
  <2>0. sessions[t] \in Row /\ sessions' # sessions
    BY DEF Present, TypeOK
  <2>1. ASSUME NEW u \in Users, NEW S, Delete(S, u) PROVE revokedBy'[t] # None
    BY <2>1, NoneApart DEF Delete, Without, Present
  <2>2. ASSUME NEW r \in Requests, Create(r) PROVE FALSE
    BY <2>2 DEF Create, Present, TypeOK
  <2>3. ASSUME NEW r \in Requests, NEW x \in Tokens, NEW next \in AfterAccept, Accept(r, x, next)
        PROVE  FALSE
    BY <2>0, <2>3, RefreshKeeps DEF Accept, Live
  <2>4. ASSUME NEW r \in Requests, DeleteUser(r) PROVE revokedBy'[t] # None
    BY <2>0, <2>4 DEF DeleteUser, Without, Present, TypeOK
  <2>5. ASSUME NEW x \in Tokens, Reject(x) PROVE FALSE
    <3>1. ~db /\ Present(x)
      BY <2>0, <2>5 DEF Reject
    <3>2. CASE Live(x)
      BY <2>5, <3>1, <3>2, RefreshKeeps DEF Reject
    <3>3. CASE ~Live(x)
      BY <2>5, <3>1, <3>3 DEF Reject, Without, Present
    <3>. QED
      BY <3>2, <3>3
  <2>6. ASSUME NEW x \in Tokens, Touch(x) PROVE FALSE
    BY <2>0, <2>6, RefreshKeeps DEF Touch
  <2>7. ASSUME NEW x \in Tokens, Purge(x) PROVE FALSE
    BY <2>7 DEF Purge, Without, Present
  <2>8. CASE Tick
    BY <2>0, <2>8, RowSteps, NoneApart DEF Tick, Present
  <2>9. ASSUME NEW r \in Requests, LogoutAll(r) \/ DeleteSessions(r) PROVE revokedBy'[t] # None
    BY <2>1, <2>9 DEF LogoutAll, DeleteSessions, TypeOK
  <2>10. ASSUME NEW r \in Requests, NEW x \in Tokens, Revoke(r, x) PROVE revokedBy'[t] # None
    BY <2>1, <2>10 DEF Revoke, TypeOK
  <2>11. ASSUME NEW x \in Tokens, NEW c \in {"cookie", "header"}, Logout(x, c)
         PROVE  revokedBy'[t] # None
    <3>1. sessions[x].user \in Users
      BY <2>11 DEF Logout, Present, TypeOK, Row
    <3>. QED
      BY <2>0, <2>1, <2>11, <3>1 DEF Logout
  <2>12. ASSUME NEW u \in Users, InvalidateSessions(u) PROVE revokedBy'[t] # None
    BY <2>1, <2>12 DEF InvalidateSessions
  <2>. QED
    BY <2>0, <2>2, <2>3, <2>4, <2>5, <2>6, <2>7, <2>8, <2>9, <2>10, <2>11, <2>12
    DEF Next, Login
<1>. QED
  BY <1>1, TypeCorrect, PTL DEF Spec, LiveSessionsAreKept
-----------------------------------------------------------------------------

(***************************************************************************)
(* Freshness.  The columns of a row tell the age of its token and bound    *)
(* the time since its last use, as long as no refresh is overdue and the   *)
(* account exists: a refused request of a deleted account refreshes too.   *)
(***************************************************************************)
Ages == \A t \in Tokens : Present(t) => born[t].age + sessions[t].left = Lifetime
InUse == \A t \in Tokens :
            Present(t) /\ t \notin late /\ sessions[t].user \in accounts =>
               /\ sinceUse[t] <= sessions[t].idle
               /\ touches[t] > 0 => sinceUse[t] = 0
Unborn == \A t \in Tokens : born[t] = None => touches[t] = 0 /\ t \notin late

Clocks == Ages /\ InUse /\ Unborn
FreshInv == OwnInv /\ Clocks

LEMMA KeepClocks ==
    ASSUME Clocks, UNCHANGED <<touches, born, sinceUse, late>>, accounts' \subseteq accounts,
           \A t \in Tokens : Present(t)' => sessions'[t] = sessions[t]
    PROVE  Clocks'
BY DEF Clocks, Ages, InUse, Unborn, Present

LEMMA NextClocks == FreshInv /\ [Next]_vars => Clocks'
<1> SUFFICES ASSUME FreshInv, [Next]_vars PROVE Clocks'
  OBVIOUS
<1> USE DEF FreshInv, OwnInv
<1>1. \A t \in Tokens : Present(t) => sessions[t] \in Row /\ born[t] \in Birth
  BY DEF Present, TypeOK, Owners
<1>2. ASSUME UNCHANGED <<touches, born, sinceUse, late, accounts>>, NEW S, NEW u, Delete(S, u)
      PROVE  Clocks'
  BY <1>2, KeepClocks DEF Delete, Without, Present, TypeOK
<1>3. ASSUME NEW r \in Requests, NEW u \in Users, Login(r, u) PROVE Clocks'
  BY <1>3, KeepClocks DEF Login, history
<1>4. ASSUME NEW r \in Requests, Create(r) PROVE Clocks'
  <2>1. CASE UNCHANGED <<sessions, born, sinceUse>>
    BY <1>4, <2>1, KeepClocks DEF Create
  <2>2. ASSUME NEW t \in Tokens, born[t] = None,
               sessions' = [sessions EXCEPT ![t] =
                   [user |-> req[r].user, left |-> Lifetime, idle |-> 0]],
               born' = [born EXCEPT ![t] = [user |-> req[r].user, age |-> 0]],
               sinceUse' = [sinceUse EXCEPT ![t] = 0]
        PROVE  Clocks'
    <3>1. accounts' = accounts /\ touches' = touches /\ late' = late /\ req[r].user \in Users
      BY <1>4 DEF Create, TypeOK
    <3>2. \A x \in Tokens : x # t => /\ sessions'[x] = sessions[x] /\ born'[x] = born[x]
                                    /\ sinceUse'[x] = sinceUse[x]
      BY <2>2 DEF TypeOK
    <3>3. born'[t] # None /\ born'[t].age = 0 /\ sinceUse'[t] = 0
          /\ sessions'[t].left = Lifetime /\ sessions'[t].idle = 0
      BY <2>2, <3>1, NewRow, NoneApart DEF TypeOK
    <3>4. Ages'
      BY <3>2, <3>3 DEF Clocks, Ages, Present
    <3>5. InUse'
      BY <3>1, <3>2, <3>3 DEF Clocks, InUse, Present
    <3>6. Unborn'
      BY <3>1, <3>2, <3>3 DEF Clocks, Unborn
    <3>. QED
      BY <3>4, <3>5, <3>6 DEF Clocks
  <2>. QED
    BY <1>4, <2>1, <2>2 DEF Create
<1>5. ASSUME NEW r \in Requests, NEW t \in Tokens, NEW next \in AfterAccept, Accept(r, t, next)
      PROVE  Clocks'
  <2>1. Present(t) /\ sessions[t] \in Row /\ born[t] # None
    BY <1>1, <1>5 DEF Accept, Live, Owners
  <2>2. accounts' = accounts /\ born' = born /\ late' = late
        /\ sinceUse' = [sinceUse EXCEPT ![t] = 0]
    BY <1>5 DEF Accept
  <2>3. \A x \in Tokens : x # t => sessions'[x] = sessions[x] /\ touches'[x] = touches[x]
                                   /\ sinceUse'[x] = sinceUse[x]
    BY <1>5 DEF Accept, TypeOK
  <2>4. sessions'[t] = sessions[t] \/ sessions'[t] = [sessions[t] EXCEPT !.idle = 0]
    BY <1>5 DEF Accept, TypeOK
  <2>5. sinceUse'[t] = 0 /\ sessions'[t].left = sessions[t].left
        /\ sessions'[t].user = sessions[t].user /\ sessions'[t].idle >= 0
    BY <2>1, <2>2, <2>4, RowSteps DEF TypeOK, Row
  <2>6. Ages'
    BY <2>1, <2>2, <2>3, <2>5 DEF Clocks, Ages, Present
  <2>7. InUse'
    BY <2>2, <2>3, <2>5 DEF Clocks, InUse, Present
  <2>8. Unborn'
    BY <2>1, <2>2, <2>3 DEF Clocks, Unborn
  <2>. QED
    BY <2>6, <2>7, <2>8 DEF Clocks
<1>6. ASSUME NEW r \in Requests, NEW t \in Tokens, Revoke(r, t) PROVE Clocks'
  BY <1>2, <1>6 DEF Revoke
<1>7. ASSUME NEW r \in Requests, LogoutAll(r) \/ DeleteSessions(r) PROVE Clocks'
  BY <1>2, <1>7 DEF LogoutAll, DeleteSessions
<1>8. ASSUME NEW r \in Requests, DeleteUser(r) PROVE Clocks'
  BY <1>8, KeepClocks DEF DeleteUser, Without, Present
<1>9. ASSUME NEW t \in Tokens, Reject(t) PROVE Clocks'
  <2>1. UNCHANGED <<touches, born, sinceUse, late, accounts>>
    BY <1>9 DEF Reject, history
  <2>2. CASE db
    BY <1>9, <2>1, <2>2, KeepClocks DEF Reject
  <2>3. CASE ~db /\ ~Live(t)
    BY <1>9, <2>1, <2>3, KeepClocks DEF Reject, Without, Present
  <2>4. CASE ~db /\ Live(t)
    <3>1. sessions[t] \in Row /\ sessions[t].user \notin accounts
      BY <1>1, <1>9, <2>4 DEF Reject
    <3>2. sessions'[t] = [sessions[t] EXCEPT !.idle = 0]
          /\ \A x \in Tokens : x # t => sessions'[x] = sessions[x]
      BY <1>9, <2>4 DEF Reject, TypeOK
    <3>3. Present(t)
      BY <1>9 DEF Reject
    <3>4. sessions'[t].left = sessions[t].left /\ sessions'[t].user = sessions[t].user
      BY <3>1, <3>2, RowSteps
    <3>5. Ages'
      BY <2>1, <3>2, <3>3, <3>4 DEF Clocks, Ages, Present
    <3>6. InUse'
      BY <2>1, <3>1, <3>2, <3>4 DEF Clocks, InUse, Present
    <3>7. Unborn'
      BY <2>1 DEF Clocks, Unborn
    <3>. QED
      BY <3>5, <3>6, <3>7 DEF Clocks
  <2>. QED
    BY <2>2, <2>3, <2>4 DEF TypeOK
<1>10. ASSUME NEW t \in Tokens, Touch(t) PROVE Clocks'
  <2>1. accounts' = accounts /\ born' = born /\ late' = late /\ sinceUse' = sinceUse
    BY <1>10 DEF Touch, history
  <2>2. touches[t] > 0 /\ touches'[t] = touches[t] - 1
        /\ \A x \in Tokens : x # t => touches'[x] = touches[x] /\ sessions'[x] = sessions[x]
    BY <1>10 DEF Touch, TypeOK
  <2>3. Present(t)' => /\ Present(t)
                       /\ sessions'[t].left = sessions[t].left
                       /\ sessions'[t].user = sessions[t].user
                       /\ sessions'[t].idle = 0
    <3>1. CASE Present(t)
      <4>1. sessions'[t] = [sessions[t] EXCEPT !.idle = 0] /\ sessions[t] \in Row
        BY <1>1, <1>10, <3>1 DEF Touch, TypeOK
      <4>. QED
        BY <3>1, <4>1, RowSteps
    <3>2. CASE ~Present(t)
      BY <1>10, <3>2 DEF Touch, Present
    <3>. QED
      BY <3>1, <3>2
  <2>4. Ages'
    BY <2>1, <2>2, <2>3 DEF Clocks, Ages, Present
  <2>5. InUse'
    BY <2>1, <2>2, <2>3 DEF Clocks, InUse, Present
  <2>6. Unborn'
    BY <2>1, <2>2 DEF Clocks, Unborn
  <2>. QED
    BY <2>4, <2>5, <2>6 DEF Clocks
<1>11. ASSUME NEW t \in Tokens, Purge(t) PROVE Clocks'
  BY <1>11, KeepClocks DEF Purge, Without, Present, history
<1>12. ASSUME NEW t \in Tokens, NEW c \in {"cookie", "header"}, Logout(t, c) PROVE Clocks'
  <2>1. CASE c = "cookie"
    BY <1>2, <1>12, <2>1 DEF Logout
  <2>2. CASE c # "cookie"
    BY <1>12, <2>2, KeepClocks DEF Logout
  <2>. QED
    BY <2>1, <2>2
<1>13. CASE Tick
  <2>1. ASSUME NEW t \in Tokens, Present(t)'
        PROVE  /\ Present(t) /\ sessions[t] \in Row /\ born[t] \in Birth /\ born[t] # None
               /\ sessions'[t].user = sessions[t].user
               /\ sessions'[t].left = Sooner(sessions[t].left)
               /\ sessions'[t].idle = Later(sessions[t].idle, Idle + 1)
               /\ born'[t].age = Later(born[t].age, Lifetime + 1)
               /\ sinceUse'[t] = Later(sinceUse[t], Idle + 1)
               /\ t \notin late' => t \notin late /\ ~(touches[t] > 0)
    <3>1. Present(t) /\ sessions'[t] = Older(sessions[t])
      BY <1>13, <2>1 DEF Tick, Present
    <3>2. sessions[t] \in Row /\ born[t] \in Birth /\ born[t] # None
      BY <1>1, <3>1 DEF Owners
    <3>3. Later(born[t].age, Lifetime + 1) \in 0..(Lifetime + 1)
      BY <3>2, LaterType DEF Birth
    <3>4. born'[t] = [born[t] EXCEPT !.age = Later(born[t].age, Lifetime + 1)]
      BY <1>13, <3>1, <3>2 DEF Tick
    <3>5. sinceUse'[t] = Later(sinceUse[t], Idle + 1)
          /\ (t \notin late' => t \notin late /\ ~(touches[t] > 0))
      BY <1>13, <3>1 DEF Tick
    <3>6. born'[t].age = Later(born[t].age, Lifetime + 1)
      BY <3>2, <3>3, <3>4, BirthSteps
    <3>7. /\ Older(sessions[t]).user = sessions[t].user
          /\ Older(sessions[t]).left = Sooner(sessions[t].left)
          /\ Older(sessions[t]).idle = Later(sessions[t].idle, Idle + 1)
      BY <3>2, RowSteps
    <3>. QED
      BY <3>1, <3>2, <3>5, <3>6, <3>7
  <2>2. accounts' = accounts /\ touches' = touches
    BY <1>13 DEF Tick
  <2>3. Ages'
    BY <2>1 DEF Clocks, Ages, Sooner, Later, Row, Birth
  <2>4. InUse'
    BY <2>1, <2>2 DEF Clocks, InUse, Later, Row, TypeOK
  <2>5. Unborn'
    <3> SUFFICES ASSUME NEW t \in Tokens, born'[t] = None
                 PROVE  touches[t] = 0 /\ t \notin late'
      BY <2>2 DEF Unborn
    <3>1. born[t] = None
      <4> SUFFICES ASSUME born[t] # None PROVE FALSE
        OBVIOUS
      <4>1. born[t] \in Birth
        BY DEF TypeOK
      <4>2. (IF Present(t) THEN Later(born[t].age, Lifetime + 1) ELSE 0) \in 0..(Lifetime + 1)
        BY <4>1, LaterType DEF Birth
      <4>3. born'[t] = [born[t] EXCEPT !.age =
                           IF Present(t) THEN Later(born[t].age, Lifetime + 1) ELSE 0]
        BY <1>13 DEF Tick
      <4>. QED
        BY <4>1, <4>2, <4>3, BirthSteps, NoneApart
    <3>. QED
      BY <1>13, <3>1 DEF Tick, Clocks, Unborn, Owners
  <2>. QED
    BY <2>3, <2>4, <2>5 DEF Clocks
<1>14. ASSUME NEW u \in Users, InvalidateSessions(u) PROVE Clocks'
  BY <1>2, <1>14 DEF InvalidateSessions
<1>15. CASE UNCHANGED vars
  BY <1>15, KeepClocks DEF vars, history
<1>. QED
  BY <1>3, <1>4, <1>5, <1>6, <1>7, <1>8, <1>9, <1>10, <1>11, <1>12, <1>13, <1>14, <1>15
  DEF Next

LEMMA FreshInvariant == Spec => []FreshInv
<1>1. Init => Clocks
  BY DEF Init, Clocks, Ages, InUse, Unborn, Present
<1>2. FreshInv /\ [Next]_vars => FreshInv'
  BY NextOwn, NextClocks DEF FreshInv
<1>3. OwnInv /\ Clocks => FreshInv
  BY DEF FreshInv
<1>4. Init => OwnInv
  BY InitType DEF Init, OwnInv, Owners, Present, RevokedStaysRevoked, OnlyOwnersRevoke
<1>. QED
  BY <1>1, <1>2, <1>3, <1>4, PTL DEF Spec

\* A request is accepted for an existing account, within the lifetime of its
\* session and within the inactivity window, unless a refresh is overdue.
THEOREM AcceptedFresh == Spec => AcceptedIsFresh
<1> DEFINE A == \A r \in Requests, t \in Tokens : \A next \in AfterAccept :
                   Accept(r, t, next) =>
                      /\ born[t].user \in accounts
                      /\ born[t].age <= Lifetime
                      /\ t \in late \/ sinceUse[t] <= Idle
<1>1. FreshInv => A
  <2> SUFFICES ASSUME FreshInv, NEW r \in Requests, NEW t \in Tokens,
                      NEW next \in AfterAccept, Accept(r, t, next)
               PROVE  /\ born[t].user \in accounts
                      /\ born[t].age <= Lifetime
                      /\ t \in late \/ sinceUse[t] <= Idle
    OBVIOUS
  <2>1. /\ Present(t) /\ sessions[t].user \in accounts
        /\ sessions[t].left >= 0 /\ sessions[t].idle <= Idle
    <3>1. Live(t) /\ Present(t) /\ sessions[t].user \in accounts
      BY DEF Accept, Live
    <3>2. sessions[t] \in Row
      BY <3>1 DEF FreshInv, OwnInv, TypeOK, Present
    <3>. QED
      BY <3>1, <3>2 DEF Live, Row
  <2>2. sessions[t] \in Row /\ born[t] \in Birth /\ born[t].user = sessions[t].user
    BY <2>1 DEF FreshInv, OwnInv, TypeOK, Present, Owners
  <2>3. born[t].age <= Lifetime
    BY <2>1, <2>2 DEF FreshInv, Clocks, Ages, Row, Birth
  <2>4. t \in late \/ sinceUse[t] <= Idle
    BY <2>1, <2>2 DEF FreshInv, OwnInv, Clocks, InUse, Row, TypeOK
  <2>. QED
    BY <2>1, <2>2, <2>3, <2>4
<1>2. FreshInv => [A]_vars
  BY <1>1
<1>. QED
  BY <1>2, FreshInvariant, PTL DEF AcceptedIsFresh
-----------------------------------------------------------------------------
(***************************************************************************)
(* That Sessions implements Leases.  A request acts for the user it        *)
(* carries, and one that is idle for nobody.                               *)
(***************************************************************************)
Drawn == {t \in Tokens : born[t] # None}
Acting == [r \in Requests |-> req[r].user]
LeaseVars == <<db, accounts, sessions, Drawn, revokedBy, Acting>>

Resting == \A r \in Requests : req[r].pc = "idle" => req[r].user = None

LEMMA RequestChanges ==
    ASSUME TypeOK, NEW r \in Requests
    PROVE  /\ \A pc, u : Goto(r, pc, u) => Acting' = [Acting EXCEPT ![r] = u]
           /\ Done(r) => Acting' = [Acting EXCEPT ![r] = None]
<1>1. req \in [Requests -> Request]
  BY DEF TypeOK, Request
<1>2. ASSUME NEW pc, NEW u, req' = [req EXCEPT ![r] = [pc |-> pc, user |-> u]]
      PROVE  Acting' = [Acting EXCEPT ![r] = u]
  <2>1. ASSUME NEW x \in Requests
        PROVE  req'[x].user = IF x = r THEN u ELSE req[x].user
    BY <1>1, <1>2
  <2>2. Acting' = [x \in Requests |-> req'[x].user]
    BY DEF Acting
  <2>3. [Acting EXCEPT ![r] = u] = [x \in Requests |-> IF x = r THEN u ELSE req[x].user]
    BY DEF Acting
  <2>. QED
    BY <2>1, <2>2, <2>3
<1>. QED
  BY <1>2 DEF Goto, Done, Quiet

LEMMA RestingStep == TypeOK /\ Resting /\ [Next]_vars => Resting'
<1>. SUFFICES ASSUME TypeOK, Resting, [Next]_vars
              PROVE  Resting'
  OBVIOUS
<1>1. ASSUME NEW r \in Requests, NEW pc, NEW u, Goto(r, pc, u), pc = "idle" => u = None
      PROVE  Resting'
  BY <1>1 DEF TypeOK, Resting, Goto
<1>2. ASSUME NEW r \in Requests, Done(r)
      PROVE  Resting'
  BY <1>2 DEF TypeOK, Resting, Done, Quiet
<1>3. CASE req' = req
  BY <1>3 DEF Resting
<1>4. ASSUME NEW r \in Requests, NEW t \in Tokens, NEW next \in AfterAccept, Accept(r, t, next)
      PROVE  Resting'
  BY <1>4, <1>1 DEF Accept
<1>5. ASSUME NEW r \in Requests, NEW u \in Users, Login(r, u)
      PROVE  Resting'
  BY <1>5, <1>1 DEF Login
<1>6. ASSUME NEW r \in Requests, DeleteSessions(r)
      PROVE  Resting'
  BY <1>6, <1>1 DEF DeleteSessions
<1>. QED
  BY <1>2, <1>3, <1>4, <1>5, <1>6
     DEF Next, vars, Create, Revoke, LogoutAll, DeleteUser, Reject, Touch, Purge, Logout, Tick,
         InvalidateSessions

\* Who acts.
LEMMA Actors ==
    ASSUME TypeOK, Resting, NEW r \in Requests
    PROVE  /\ Acting[r] = req[r].user
           /\ req[r].pc = "idle" => Acting[r] = None
           /\ req[r].pc # "idle" => Acting[r] \in Users /\ Acting[r] # None
BY DEF TypeOK, Resting, Acting

\* Both modules look at the rows in the same way.
LEMMA SameViews ==
    /\ \A t : Granted!Held(t) <=> Present(t)
    /\ \A t : Granted!Live(t) <=> Live(t)
    /\ \A u : Granted!Owned(u) = Owned(u)
    /\ \A S : Granted!Without(S) = Without(S)
    /\ \A row : Granted!Older(row) = Older(row)
BY DEF Granted!Held, Present, Granted!Live, Live, Granted!Owned, Owned,
       Granted!Without, Without, Granted!Older, Older, Sooner, Later

\* Only a log-in and a tick touch the births, and none of them undoes one.
LEMMA DrawnKept == born' = born => Drawn' = Drawn
BY DEF Drawn

\* A statement that deletes for its user ends leases of that user, or none.
LEMMA DeleteRevokes ==
    ASSUME TypeOK, NEW r \in Requests, Acting[r] # None, NEW S \in SUBSET Owned(Acting[r]),
           Delete(S, Acting[r]),
           Acting' = [Acting EXCEPT ![r] = None] \/ Acting' = Acting,
           UNCHANGED <<db, accounts, born>>
    PROVE  \E T \in SUBSET Tokens : Granted!Revoke(r, T)
<1>1. S \subseteq Tokens /\ Drawn' = Drawn
  BY DrawnKept DEF Owned
<1>2. CASE sessions' = Without(S) /\ revokedBy' = [t \in Tokens |-> IF t \in S THEN Acting[r] ELSE revokedBy[t]]
  <2>1. Granted!Revoke(r, S)
    BY <1>1, <1>2, SameViews DEF Granted!Revoke, Granted!Ends, Granted!Rests, Acting, Drawn
  <2>. QED
    BY <1>1, <2>1
<1>3. CASE UNCHANGED <<sessions, revokedBy>>
  <2>1. Without({}) = sessions
    BY DEF Without, TypeOK
  <2>2. [t \in Tokens |-> IF t \in {} THEN Acting[r] ELSE revokedBy[t]] = revokedBy
    BY DEF TypeOK
  <2>3. Granted!Revoke(r, {})
    BY <1>1, <1>3, <2>1, <2>2, SameViews DEF Granted!Revoke, Granted!Ends, Granted!Rests, Acting, Drawn
  <2>. QED
    BY <2>3
<1>. QED
  BY <1>2, <1>3 DEF Delete

\* A session is a lease for a token that had none.
LEMMA CreateGrants ==
    ASSUME TypeOK, Resting, NEW r \in Requests, Create(r)
    PROVE  \/ \E t \in Tokens : Granted!Grant(r, t)
           \/ \E T \in SUBSET Tokens : Granted!Revoke(r, T)
<1>1. Acting[r] = req[r].user /\ Acting[r] # None /\ Acting[r] \in Users
  BY Actors DEF Create
<1>2. Acting' = [Acting EXCEPT ![r] = None]
  BY RequestChanges DEF Create
<1>3. CASE UNCHANGED <<sessions, born, sinceUse>>
  <2>1. {} \in SUBSET Owned(Acting[r])
    OBVIOUS
  <2>2. Without({}) = sessions /\ Drawn' = Drawn
    BY <1>3, DrawnKept DEF Without, TypeOK
  <2>3. [t \in Tokens |-> IF t \in {} THEN Acting[r] ELSE revokedBy[t]] = revokedBy
    BY DEF TypeOK
  <2>4. UNCHANGED <<db, accounts, revokedBy>>
    BY DEF Create
  <2>5. Granted!Revoke(r, {})
    BY <1>1, <1>2, <1>3, <2>1, <2>2, <2>3, <2>4, SameViews
       DEF Granted!Revoke, Granted!Ends, Granted!Rests, Acting, Drawn
  <2>. QED
    BY <2>5
<1>4. ASSUME NEW t \in Tokens, born[t] = None, req[r].user \in accounts \/ ~db,
             sessions' = [sessions EXCEPT ![t] =
                 [user |-> req[r].user, left |-> Lifetime, idle |-> 0]],
             born' = [born EXCEPT ![t] = [user |-> req[r].user, age |-> 0]]
      PROVE  Granted!Grant(r, t)
  <2>1. [user |-> req[r].user, age |-> 0] # None
    BY <1>1, NewRow, NoneApart
  <2>2. Drawn' = Drawn \cup {t} /\ t \notin Drawn
    BY <1>4, <2>1 DEF Drawn, TypeOK
  <2>3. UNCHANGED <<db, accounts, revokedBy>>
    BY DEF Create
  <2>. QED
    BY <1>1, <1>2, <1>4, <2>2, <2>3 DEF Granted!Grant, Granted!Rests, Acting, Drawn
<1>. QED
  BY <1>3, <1>4 DEF Create

\* currentUser enters with a live lease; without a database it renews it.
LEMMA AcceptEnters ==
    ASSUME TypeOK, Resting, NEW r \in Requests, NEW t \in Tokens, NEW next \in AfterAccept,
           Accept(r, t, next)
    PROVE  Granted!Enter(r, t) \/ Granted!Renew(t) \/ UNCHANGED LeaseVars
<1>1. /\ Live(t) /\ Present(t) /\ sessions[t].user \in accounts /\ Acting[r] = None
      /\ Drawn' = Drawn /\ UNCHANGED <<db, accounts, revokedBy>>
  BY Actors, DrawnKept DEF Accept, Live
<1>2. /\ db => sessions' = sessions
      /\ ~db => sessions' = [sessions EXCEPT ![t].idle = 0]
  BY DEF Accept
<1>3. CASE next = "idle"
  <2>1. Acting' = [Acting EXCEPT ![r] = None]
    BY <1>3, RequestChanges DEF Accept
  <2>2. Acting' = Acting
    BY <1>1, <2>1 DEF Acting
  <2>3. CASE db
    BY <1>1, <1>2, <2>2, <2>3 DEF LeaseVars
  <2>4. CASE ~db
    <3>1. Granted!Renew(t)
      BY <1>1, <1>2, <2>2, <2>4, SameViews DEF Granted!Renew, Granted!Renews, Acting, Drawn
    <3>. QED
      BY <3>1
  <2>. QED
    BY <2>3, <2>4
<1>4. CASE next # "idle"
  <2>1. Acting' = [Acting EXCEPT ![r] = sessions[t].user]
    BY <1>4, RequestChanges DEF Accept
  <2>2. Granted!Enter(r, t)
    BY <1>1, <1>2, <2>1, SameViews DEF Granted!Enter, Granted!Renews, Acting, Drawn
  <2>. QED
    BY <2>2
<1>. QED
  BY <1>3, <1>4

\* A refusal, a refresh and a clean-up renew what is there or end what is dead.
LEMMA UpkeepRenewsOrLapses ==
    ASSUME NEW t \in Tokens, Reject(t) \/ Touch(t) \/ Purge(t), TypeOK
    PROVE  Granted!Renew(t) \/ Granted!Lapse(t) \/ UNCHANGED LeaseVars
<1>1. /\ UNCHANGED <<db, accounts, revokedBy>> /\ Drawn' = Drawn /\ Acting' = Acting
  BY DrawnKept DEF Reject, Touch, Purge, history, Acting
<1>2. \/ sessions' = sessions
      \/ Present(t) /\ sessions' = [sessions EXCEPT ![t].idle = 0]
      \/ ~Live(t) /\ sessions' = Without({t})
  BY DEF Reject, Touch, Purge
<1>3. CASE sessions' = sessions
  BY <1>1, <1>3 DEF LeaseVars
<1>4. CASE Present(t) /\ sessions' = [sessions EXCEPT ![t].idle = 0]
  <2>1. Granted!Renew(t)
    BY <1>1, <1>4, SameViews DEF Granted!Renew, Granted!Renews, Acting, Drawn
  <2>. QED
    BY <2>1
<1>5. CASE ~Live(t) /\ sessions' = Without({t}) /\ Present(t)
  <2>1. Granted!Lapse(t)
    BY <1>1, <1>5, SameViews DEF Granted!Lapse, Acting, Drawn
  <2>. QED
    BY <2>1
<1>6. CASE sessions' = Without({t}) /\ ~Present(t)
  <2>1. sessions' = sessions
    BY <1>6 DEF Without, Present, TypeOK
  <2>. QED
    BY <1>3, <2>1
<1>. QED
  BY <1>2, <1>3, <1>4, <1>5, <1>6

LEMMA LogoutEnds ==
    ASSUME NEW t \in Tokens, NEW c, Logout(t, c)
    PROVE  Granted!Logout(t) \/ UNCHANGED LeaseVars
<1>1. /\ UNCHANGED <<db, accounts>> /\ Drawn' = Drawn /\ Acting' = Acting /\ Present(t)
  BY DrawnKept DEF Logout, Acting
<1>2. CASE UNCHANGED <<sessions, revokedBy>>
  BY <1>1, <1>2 DEF LeaseVars
<1>3. CASE /\ sessions' = Without({t})
           /\ revokedBy' = [x \in Tokens |-> IF x \in {t} THEN sessions[t].user ELSE revokedBy[x]]
  <2>1. Granted!Logout(t)
    BY <1>1, <1>3, SameViews DEF Granted!Logout, Granted!Ends, Acting, Drawn
  <2>. QED
    BY <2>1
<1>. QED
  BY <1>2, <1>3 DEF Logout, Delete

\* A password reset ends the leases of its account, for a request that acts for
\* nobody, or its statement fails.
LEMMA ResetInvalidates ==
    ASSUME NEW u \in Users, InvalidateSessions(u)
    PROVE  Granted!Invalidate(u) \/ UNCHANGED LeaseVars
<1>1. /\ UNCHANGED <<db, accounts>> /\ Drawn' = Drawn /\ Acting' = Acting
      /\ db /\ u \in accounts
  BY DrawnKept DEF InvalidateSessions, Acting
<1>2. CASE UNCHANGED <<sessions, revokedBy>>
  BY <1>1, <1>2 DEF LeaseVars
<1>3. CASE /\ sessions' = Without(Owned(u))
           /\ revokedBy' = [x \in Tokens |-> IF x \in Owned(u) THEN u ELSE revokedBy[x]]
  <2>1. Granted!Invalidate(u)
    BY <1>1, <1>3, SameViews DEF Granted!Invalidate, Granted!Ends, Acting, Drawn
  <2>. QED
    BY <2>1
<1>. QED
  BY <1>2, <1>3 DEF InvalidateSessions, Delete

\* The account goes with its leases, or the statement fails and nothing goes.
LEMMA DeleteUserRemoves ==
    ASSUME TypeOK, Resting, NEW r \in Requests, DeleteUser(r)
    PROVE  \/ Granted!RemoveAccount(r)
           \/ \E T \in SUBSET Tokens : Granted!Revoke(r, T)
<1>1. Acting[r] = req[r].user /\ Acting[r] # None
  BY Actors DEF DeleteUser
<1>2. Acting' = [Acting EXCEPT ![r] = None] /\ Drawn' = Drawn /\ db' = db
  BY RequestChanges, DrawnKept DEF DeleteUser
<1>3. CASE UNCHANGED <<accounts, sessions, revokedBy>>
  <2>1. Without({}) = sessions
    BY DEF Without, TypeOK
  <2>2. [t \in Tokens |-> IF t \in {} THEN Acting[r] ELSE revokedBy[t]] = revokedBy
    BY DEF TypeOK
  <2>3. Granted!Revoke(r, {})
    BY <1>1, <1>2, <1>3, <2>1, <2>2, SameViews
       DEF Granted!Revoke, Granted!Ends, Granted!Rests, Acting, Drawn
  <2>. QED
    BY <2>3
<1>4. CASE /\ accounts' = accounts \ {req[r].user}
           /\ sessions' = Without(Owned(req[r].user))
           /\ revokedBy' = [t \in Tokens |-> IF t \in Owned(req[r].user)
                                             THEN req[r].user ELSE revokedBy[t]]
  <2>1. Granted!RemoveAccount(r)
    BY <1>1, <1>2, <1>4, SameViews
       DEF Granted!RemoveAccount, Granted!Ends, Granted!Rests, Acting, Drawn
  <2>. QED
    BY <2>1
<1>. QED
  BY <1>3, <1>4 DEF DeleteUser

\* Time passes for the leases; a token that was handed out stays so.
LEMMA TickTicks ==
    ASSUME TypeOK, Tick
    PROVE  Granted!Tick
<1>1. Acting' = Acting /\ UNCHANGED <<db, accounts, revokedBy>>
  BY DEF Tick, Acting
<1>2. Drawn' = Drawn
  <2>1. SUFFICES ASSUME NEW t \in Tokens
                 PROVE  born'[t] # None <=> born[t] # None
    BY DEF Drawn
  <2>2. CASE born[t] = None
    BY <2>2 DEF Tick
  <2>3. CASE born[t] # None
    <3>1. born[t] \in Birth
      BY <2>3 DEF TypeOK
    <3>2. PICK n \in 0..(Lifetime + 1) : born'[t] = [born[t] EXCEPT !.age = n]
      <4>1. born'[t] = [born[t] EXCEPT !.age = IF Present(t) THEN Later(@, Lifetime + 1) ELSE 0]
        BY <2>3 DEF Tick
      <4>2. born[t].age \in 0..(Lifetime + 1)
        BY <3>1 DEF Birth
      <4>3. (IF Present(t) THEN Later(born[t].age, Lifetime + 1) ELSE 0) \in 0..(Lifetime + 1)
        BY <4>2, LaterType
      <4>. QED
        BY <4>1, <4>3
    <3>. QED
      BY <2>3, <3>1, <3>2, BirthSteps, NoneApart
  <2>. QED
    BY <2>2, <2>3
<1>3. sessions' = [t \in Tokens |-> IF Present(t) THEN Older(sessions[t]) ELSE None]
  BY DEF Tick
<1>. QED
  BY <1>1, <1>2, <1>3, SameViews DEF Granted!Tick, Acting, Drawn

LEMMA LeaseStep == TypeOK /\ Resting /\ [Next]_vars => [Granted!Next]_LeaseVars
<1>. SUFFICES ASSUME TypeOK, Resting, [Next]_vars
              PROVE  Granted!Next \/ UNCHANGED LeaseVars
  OBVIOUS
<1>. DEFINE Moves ==
       \/ \E r \in Requests :
             \/ \E u \in Users : Granted!SignIn(r, u)
             \/ \E t \in Tokens : Granted!Grant(r, t) \/ Granted!Enter(r, t)
             \/ \E S \in SUBSET Tokens : Granted!Revoke(r, S)
             \/ Granted!RemoveAccount(r)
       \/ \E t \in Tokens : Granted!Renew(t) \/ Granted!Lapse(t) \/ Granted!Logout(t)
       \/ \E u \in Users : Granted!Invalidate(u)
       \/ Granted!Tick
<1>1. Moves => Granted!Next \/ UNCHANGED LeaseVars
  BY Zenon DEF Granted!Next, Granted!vars, LeaseVars, Drawn, Acting
<1>2. UNCHANGED vars => UNCHANGED LeaseVars
  BY DrawnKept DEF vars, history, LeaseVars, Acting
<1>3. ASSUME NEW r \in Requests, NEW u \in Users, Login(r, u)
      PROVE  Moves
  <2>1. Acting[r] = None /\ Acting' = [Acting EXCEPT ![r] = u] /\ Drawn' = Drawn
    BY <1>3, Actors, RequestChanges, DrawnKept DEF Login, history
  <2>2. Granted!SignIn(r, u)
    BY <1>3, <2>1 DEF Login, history, Granted!SignIn, Acting, Drawn
  <2>. QED
    BY <2>2
<1>4. ASSUME NEW r \in Requests, Create(r)
      PROVE  Moves
  BY <1>4, CreateGrants
<1>5. ASSUME NEW r \in Requests, NEW t \in Tokens, NEW next \in AfterAccept, Accept(r, t, next)
      PROVE  Moves \/ UNCHANGED LeaseVars
  BY <1>5, AcceptEnters
<1>6. ASSUME NEW r \in Requests,
             LogoutAll(r) \/ DeleteSessions(r) \/ \E t \in Tokens : Revoke(r, t)
      PROVE  Moves
  <2>1. Acting[r] = req[r].user /\ Acting[r] # None
    BY <1>6, Actors DEF LogoutAll, DeleteSessions, Revoke
  <2>2. Acting' = [Acting EXCEPT ![r] = None] \/ Acting' = Acting
    <3>1. CASE DeleteSessions(r)
      <4>1. Acting' = [Acting EXCEPT ![r] = req[r].user]
        BY <3>1, RequestChanges DEF DeleteSessions
      <4>. QED
        BY <2>1, <4>1 DEF Acting
    <3>2. CASE LogoutAll(r) \/ \E t \in Tokens : Revoke(r, t)
      BY <3>2, RequestChanges DEF LogoutAll, Revoke
    <3>. QED
      BY <1>6, <3>1, <3>2
  <2>3. UNCHANGED <<db, accounts, born>>
    BY <1>6 DEF LogoutAll, DeleteSessions, Revoke
  <2>4. PICK S \in SUBSET Owned(Acting[r]) : Delete(S, Acting[r])
    BY <1>6, <2>1 DEF LogoutAll, DeleteSessions, Revoke, Revocable
  <2>5. \E T \in SUBSET Tokens : Granted!Revoke(r, T)
    BY <2>1, <2>2, <2>3, <2>4, DeleteRevokes
  <2>. QED
    BY <2>5
<1>7. ASSUME NEW r \in Requests, DeleteUser(r)
      PROVE  Moves
  BY <1>7, DeleteUserRemoves
<1>8. ASSUME NEW t \in Tokens, Reject(t) \/ Touch(t) \/ Purge(t)
      PROVE  Moves \/ UNCHANGED LeaseVars
  BY <1>8, UpkeepRenewsOrLapses
<1>9. ASSUME NEW t \in Tokens, NEW c \in {"cookie", "header"}, Logout(t, c)
      PROVE  Moves \/ UNCHANGED LeaseVars
  BY <1>9, LogoutEnds
<1>10. Tick => Moves
  BY TickTicks
<1>11. ASSUME NEW u \in Users, InvalidateSessions(u)
       PROVE  Moves \/ UNCHANGED LeaseVars
  BY <1>11, ResetInvalidates
<1>. HIDE DEF Moves
<1>12. Next => Moves \/ UNCHANGED LeaseVars
  BY <1>3, <1>4, <1>5, <1>6, <1>7, <1>8, <1>9, <1>10, <1>11, Zenon DEF Next
<1>. QED
  BY <1>1, <1>2, <1>12

\* Sessions implements Leases: a request acts only after a sign-in or with a
\* live lease, a token is granted one once, only time shortens it and only its
\* use renews it, it ends early only by a log-out with the token, a request that
\* acts for its user or a reset of that user's password, which acts for nobody,
\* and what is over stays over, although refreshes and clean-ups arrive late,
\* statements fail and requests of one user interleave.
THEOREM SessionsAreLeases == Spec => ImplementsLeases
<1>1. Init => Granted!Init
  <2>1. Init => Acting = [r \in Requests |-> None] /\ Drawn = {}
    BY DEF Init, Quiet, Acting, Drawn
  <2>. QED
    BY <2>1 DEF Init, Granted!Init, Acting, Drawn
<1>2. Init => TypeOK /\ Resting
  BY InitType DEF Init, Quiet, Resting
<1>3. TypeOK /\ Resting /\ [Next]_vars => (TypeOK /\ Resting)'
  BY NextType, RestingStep
<1>. QED
  BY <1>1, <1>2, <1>3, LeaseStep, PTL
     DEF Spec, ImplementsLeases, Granted!Spec, Granted!vars, LeaseVars, Drawn, Acting

\* What leases promise, in the steps of Leases.
LEMMA LeasesEnd ==
    ASSUME TypeOK, [Granted!Next]_LeaseVars, NEW t \in Drawn, Granted!Held(t)'
    PROVE  /\ Granted!Held(t) /\ sessions'[t].user = sessions[t].user
           /\ sessions'[t].left <= sessions[t].left
<1>1. t \in Tokens /\ sessions \in [Tokens -> Row \cup {None}] /\ (Present(t))'
  BY DEF Drawn, TypeOK, Granted!Held, Present
<1>2. Present(t) => sessions[t] \in Row /\ sessions[t].left \in Int
  BY <1>1 DEF Present, Row
<1> SUFFICES Present(t) /\ sessions'[t].user = sessions[t].user /\ sessions'[t].left <= sessions[t].left
  BY SameViews
<1>3. CASE sessions' = sessions
  BY <1>1, <1>2, <1>3 DEF Present
<1>4. ASSUME NEW x \in Tokens, Present(x), sessions' = [sessions EXCEPT ![x].idle = 0]
      PROVE  Present(t) /\ sessions'[t].user = sessions[t].user /\ sessions'[t].left <= sessions[t].left
  <2>1. CASE x = t
    BY <1>1, <1>2, <1>4, <2>1, RowSteps
  <2>2. CASE x # t
    BY <1>1, <1>3, <1>4, <2>2, <1>2 DEF Present
  <2>. QED
    BY <2>1, <2>2
<1>5. ASSUME NEW S, sessions' = Without(S)
      PROVE  Present(t) /\ sessions'[t].user = sessions[t].user /\ sessions'[t].left <= sessions[t].left
  BY <1>1, <1>2, <1>5 DEF Without, Present
<1>6. ASSUME NEW r \in Requests, NEW x \in Tokens, Granted!Grant(r, x)
      PROVE  Present(t) /\ sessions'[t].user = sessions[t].user /\ sessions'[t].left <= sessions[t].left
  <2>1. x # t
    BY <1>6 DEF Granted!Grant, Drawn
  <2>2. sessions'[t] = sessions[t]
    BY <1>1, <1>6, <2>1 DEF Granted!Grant
  <2>. QED
    BY <1>1, <1>2, <2>2 DEF Present
<1>7. CASE Granted!Tick
  <2>1. sessions'[t] = IF Present(t) THEN Older(sessions[t]) ELSE None
    BY <1>1, <1>7, SameViews DEF Granted!Tick
  <2>2. Present(t) /\ sessions'[t] = Older(sessions[t])
    BY <1>1, <2>1 DEF Present
  <2>3. sessions'[t].user = sessions[t].user /\ sessions'[t].left = Sooner(sessions[t].left)
    BY <1>2, <2>2, RowSteps
  <2>. QED
    BY <1>2, <2>2, <2>3 DEF Sooner
<1>8. ASSUME NEW r \in Requests, NEW x \in Tokens, Granted!Enter(r, x)
      PROVE  Present(t) /\ sessions'[t].user = sessions[t].user /\ sessions'[t].left <= sessions[t].left
  BY <1>3, <1>4, <1>8, SameViews DEF Granted!Enter, Granted!Live, Granted!Renews
<1>9. ASSUME NEW r \in Requests, NEW u \in Users, Granted!SignIn(r, u)
      PROVE  sessions' = sessions
  BY <1>9 DEF Granted!SignIn
<1>10. ASSUME NEW r \in Requests,
              Granted!RemoveAccount(r) \/ \E S \in SUBSET Tokens : Granted!Revoke(r, S)
       PROVE  \E S : sessions' = Without(S)
  BY <1>10, SameViews DEF Granted!RemoveAccount, Granted!Revoke, Granted!Ends
<1>11. ASSUME NEW x \in Tokens, Granted!Lapse(x) \/ Granted!Logout(x)
       PROVE  \E S : sessions' = Without(S)
  BY <1>11, SameViews DEF Granted!Lapse, Granted!Logout, Granted!Ends
<1>12. ASSUME NEW x \in Tokens, Granted!Renew(x)
       PROVE  Present(t) /\ sessions'[t].user = sessions[t].user /\ sessions'[t].left <= sessions[t].left
  BY <1>4, <1>12, SameViews DEF Granted!Renew, Granted!Renews
<1>13. ASSUME NEW u \in Users, Granted!Invalidate(u)
       PROVE  \E S : sessions' = Without(S)
  BY <1>13, SameViews DEF Granted!Invalidate, Granted!Ends
<1>14. CASE UNCHANGED LeaseVars
  BY <1>3, <1>14 DEF LeaseVars
<1>. QED
  BY <1>3, <1>5, <1>6, <1>7, <1>8, <1>9, <1>10, <1>11, <1>12, <1>13, <1>14, Zenon
  DEF Granted!Next

\* No session comes back once it is gone, be it purged, logged out, revoked,
\* deleted with its account or by a password reset, changes its user, or gets a
\* later end.
THEOREM SessionsAreOverForGood == Spec => Granted!OverForGood
<1> DEFINE Ends == \A t \in Drawn : Granted!Held(t)' =>
             Granted!Held(t) /\ sessions'[t].user = sessions[t].user /\ sessions'[t].left <= sessions[t].left
<1>1. TypeOK /\ [Granted!Next]_LeaseVars => [Ends]_LeaseVars
  BY LeasesEnd
<1>. QED
  BY <1>1, SessionsAreLeases, TypeCorrect, PTL
     DEF ImplementsLeases, Granted!Spec, Granted!OverForGood, Granted!vars, LeaseVars, Drawn, Acting
=============================================================================
