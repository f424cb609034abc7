--------------------------- MODULE AccountsProofs ---------------------------
(***************************************************************************)
(* For any number of ids, emails, identities, tokens and requests, and     *)
(* whatever statements fail: an email has one account, credentials and     *)
(* sessions never stray to an account of another email than theirs, and    *)
(* the index by email is sound; and, as long as two statements do not      *)
(* fail, a sign-in finds its account and a token that was used is refused. *)
(***************************************************************************)
EXTENDS Accounts, FiniteSetTheorems, TLAPS

USE GoogleAssumption, NoneAssumption

Request == {Quiet} \cup Signing \cup Looking \cup Resetting

\* What a request is at each statement.
LEMMA RequestParts ==
    ASSUME TypeOK, NEW r \in Requests
    PROVE  /\ req[r] \in Request
           /\ req[r].pc \in {"save", "reselect", "insert", "created", "session", "change", "delete"}
                 => /\ req[r] \in Signing
                    /\ req[r].id \in Ids /\ req[r].user \in User /\ req[r].token = None
           /\ At(r, "byEmail") => /\ req[r] \in Looking
                                  /\ req[r].id = None /\ req[r].user \in User
           /\ req[r].pc \in {"consume", "password", "invalidate"}
                 => /\ req[r] \in Resetting
                    /\ req[r].id = None /\ req[r].user \in User /\ req[r].token \in Tokens
           /\ Idle(r) => req[r] = Quiet
           /\ req[r].id # None => req[r] \in Signing
           /\ req[r].user # None => req[r].user \in User
<1>1. req[r] \in Request
  BY DEF TypeOK, Request
<1>. QED
  BY <1>1 DEF Request, At, Idle, Quiet, Signing, Looking, Resetting

Alone(r) == \A q \in Requests \ {r} : req'[q] = req[q]

\* What the helpers make of a request.
LEMMA RequestSteps ==
    ASSUME TypeOK, NEW r \in Requests
    PROVE  /\ Done(r) => Alone(r) /\ req'[r] = Quiet /\ req' \in [Requests -> Request]
           /\ \A pc \in STRING : Goto(r, pc) => Alone(r) /\ req'[r] = [req[r] EXCEPT !.pc = pc]
           /\ \A pc \in STRING, op \in STRING, i \in Ids \cup {None}, u \in User :
                 Begin(r, pc, op, i, u) =>
                    /\ Alone(r)
                    /\ req'[r] = [pc |-> pc, op |-> op, id |-> i, user |-> u, token |-> None]
           /\ \A x : req' = [req EXCEPT ![r] = x] => Alone(r) /\ req'[r] = x
<1>1. req \in [Requests -> Request] /\ Quiet \in Request
  BY DEF TypeOK, Request
<1>. QED
  BY <1>1 DEF Done, Goto, Begin, Alone

LEMMA RequestTyped ==
    ASSUME TypeOK, NEW r \in Requests
    PROVE  \A x \in Request : req' = [req EXCEPT ![r] = x] => req' \in [Requests -> Request]
BY DEF TypeOK, Request

LEMMA DoneTyped ==
    ASSUME TypeOK, NEW r \in Requests, Done(r)
    PROVE  req' \in [Requests -> Request]
BY DEF TypeOK, Request, Done

LEMMA GotoTyped ==
    ASSUME TypeOK, NEW r \in Requests, NEW pc, Goto(r, pc), [req[r] EXCEPT !.pc = pc] \in Request
    PROVE  req' \in [Requests -> Request]
BY DEF TypeOK, Request, Goto

LEMMA BeginTyped ==
    ASSUME TypeOK, NEW r \in Requests, NEW pc, NEW op, NEW i, NEW u, Begin(r, pc, op, i, u),
           [pc |-> pc, op |-> op, id |-> i, user |-> u, token |-> None] \in Request
    PROVE  req' \in [Requests -> Request]
BY DEF TypeOK, Request, Begin

LEMMA FoundByEmail ==
    ASSUME TypeOK, NEW e \in Emails, NEW i \in HasEmail(e)
    PROVE  i \in Ids /\ i \in present /\ users[i] \in User /\ (db => users[i].email = e)
BY DEF TypeOK, HasEmail

LEMMA FoundBySub ==
    ASSUME TypeOK, NEW g \in Subs, NEW i \in HasSub(g)
    PROVE  i \in Ids /\ i \in present /\ users[i] \in User
BY DEF TypeOK, HasSub

\* A token that a request is about to mark is there.
TokensExist == \A r \in Requests : At(r, "consume") => resets[req[r].token] # None

LEMMA TypeStep ==
    ASSUME TypeOK, TokensExist, [Next]_vars
    PROVE  TypeOK'
<1>. USE DEF Request
<1>1. ASSUME NEW r \in Requests, NEW e \in Emails, NEW p \in Choices, Signup(r, e, p)
      PROVE  TypeOK'
  <2>. DEFINE u == [email |-> e, pw |-> <<e, p>>, google |-> None]
  <2>1. PICK i \in Ids : Begin(r, "save", "signup", i, u)
    BY <1>1 DEF Signup
  <2>2. u \in User
    BY DEF User, Passwords
  <2>. HIDE DEF u
  <2>3. [pc |-> "save", op |-> "signup", id |-> i, user |-> u, token |-> None] \in Request
    BY <2>2 DEF Signing
  <2>4. req' \in [Requests -> Request]
    BY <2>1, <2>3, BeginTyped
  <2>. QED
    BY <1>1, <2>4 DEF Signup, TypeOK
<1>2. ASSUME NEW r \in Requests, NEW e \in Emails, NEW p \in Choices, Login(r, e, p)
      PROVE  TypeOK'
  <2>1. PICK i \in HasEmail(e) : Begin(r, "session", "login", i, users[i])
    BY <1>2 DEF Login
  <2>2. [pc |-> "session", op |-> "login", id |-> i, user |-> users[i], token |-> None] \in Request
    BY FoundByEmail DEF Signing
  <2>3. req' \in [Requests -> Request]
    BY <2>1, <2>2, BeginTyped
  <2>. QED
    BY <1>2, <2>3 DEF Login, TypeOK
<1>3. ASSUME NEW r \in Requests, NEW g \in Subs, GoogleBySub(r, g)
      PROVE  TypeOK'
  <2>. DEFINE new == [email |-> GoogleEmail[g], pw |-> None, google |-> g]
  <2>1. ASSUME NEW i \in HasSub(g), NEW pc \in {"session", "save"}, NEW op \in {"google", "avatar"},
               Begin(r, pc, op, i, users[i])
        PROVE  req' \in [Requests -> Request]
    <3>1. [pc |-> pc, op |-> op, id |-> i, user |-> users[i], token |-> None] \in Request
      BY FoundBySub DEF Signing
    <3>. QED
      BY <2>1, <3>1, BeginTyped
  <2>2. ASSUME Begin(r, "byEmail", "google", None, new)
        PROVE  req' \in [Requests -> Request]
    <3>1. new \in User
      BY DEF User
    <3>. HIDE DEF new
    <3>2. [pc |-> "byEmail", op |-> "google", id |-> None, user |-> new, token |-> None] \in Request
      BY <3>1 DEF Looking
    <3>. QED
      BY <2>2, <3>2, BeginTyped
  <2>3. req' \in [Requests -> Request]
    BY <1>3, <2>1, <2>2 DEF GoogleBySub
  <2>. QED
    BY <1>3, <2>3 DEF GoogleBySub, TypeOK
<1>4. ASSUME NEW r \in Requests, GoogleByEmail(r)
      PROVE  TypeOK'
  <2>. DEFINE u == req[r].user
  <2>1. u \in User /\ u.email \in Emails
    BY <1>4, RequestParts DEF GoogleByEmail, User, At
  <2>2. ASSUME NEW i \in HasEmail(u.email), NEW linked, linked = [users[i] EXCEPT !.google = u.google],
               Begin(r, "save", "link", i, linked),
               users' = IF db THEN users ELSE [users EXCEPT ![i] = linked]
        PROVE  TypeOK'
    <3>1. linked \in User /\ i \in Ids
      BY <2>1, <2>2, FoundByEmail DEF User
    <3>2. [pc |-> "save", op |-> "link", id |-> i, user |-> linked, token |-> None] \in Request
      BY <3>1 DEF Signing
    <3>3. req' \in [Requests -> Request]
      BY <2>2, <3>2, BeginTyped
    <3>. QED
      BY <1>4, <2>2, <3>1, <3>3 DEF GoogleByEmail, TypeOK
  <2>3. ASSUME NEW i \in Ids, Begin(r, "save", "join", i, u), UNCHANGED users
        PROVE  TypeOK'
    <3>1. [pc |-> "save", op |-> "join", id |-> i, user |-> u, token |-> None] \in Request
      BY <2>1 DEF Signing
    <3>2. req' \in [Requests -> Request]
      BY <2>3, <3>1, BeginTyped
    <3>. QED
      BY <1>4, <2>3, <3>2 DEF GoogleByEmail, TypeOK
  <2>4. ASSUME Done(r), UNCHANGED users
        PROVE  TypeOK'
    BY <1>4, <2>4, DoneTyped DEF GoogleByEmail, TypeOK
  <2>. QED
    BY <1>4, <2>2, <2>3, <2>4, Zenon DEF GoogleByEmail
<1>5. ASSUME NEW r \in Requests, SaveUpdate(r)
      PROVE  TypeOK'
  <2>. DEFINE u == req[r].user
  <2>1. u \in User /\ req[r] \in Signing
    BY <1>5, RequestParts DEF SaveUpdate, At
  <2>2. \A i \in Matching(req[r].id, u) : i \in present /\ Overwritten(users[i], u) \in User
    BY <2>1 DEF TypeOK, Matching, Overwritten, Coalesce, User
  <2>3. /\ users' \in [Ids -> User \cup {None}]
        /\ present \subseteq {i \in Ids : users'[i] # None}
    BY <1>5, <2>2 DEF SaveUpdate, TypeOK
  <2>4. \A pc \in {"reselect", "insert"} : [req[r] EXCEPT !.pc = pc] \in Request
    BY <2>1 DEF Signing
  <2>5. req' \in [Requests -> Request]
    BY <1>5, <2>4, GotoTyped DEF SaveUpdate
  <2>. QED
    BY <1>5, <2>3, <2>5 DEF SaveUpdate, TypeOK
<1>6. ASSUME NEW r \in Requests, SaveReselect(r)
      PROVE  TypeOK'
  <2>1. req[r] \in Signing /\ req[r].user.email \in Emails
    BY <1>6, RequestParts DEF SaveReselect, At, User
  <2>2. \A i \in HasEmail(req[r].user.email) : [req[r] EXCEPT !.id = i, !.pc = Saved(req[r].op)] \in Request
    BY <2>1, FoundByEmail DEF Signing, Saved
  <2>3. [req[r] EXCEPT !.pc = Saved(req[r].op)] \in Request
    BY <2>1 DEF Signing, Saved
  <2>4. ASSUME NEW i \in HasEmail(req[r].user.email),
               req' = [req EXCEPT ![r].id = i, ![r].pc = Saved(req[r].op)]
        PROVE  req' \in [Requests -> Request]
    BY <2>2, <2>4 DEF TypeOK
  <2>5. req' \in [Requests -> Request]
    BY <1>6, <2>3, <2>4, GotoTyped DEF SaveReselect
  <2>. QED
    BY <1>6, <2>5 DEF SaveReselect, TypeOK
<1>7. ASSUME NEW r \in Requests, SaveInsert(r)
      PROVE  TypeOK'
  <2>1. req[r] \in Signing /\ req[r].user \in User /\ req[r].id \in Ids
    BY <1>7, RequestParts DEF SaveInsert, At
  <2>2. [req[r] EXCEPT !.pc = Saved(req[r].op)] \in Request /\ [req[r] EXCEPT !.pc = "session"] \in Request
    BY <2>1 DEF Signing, Saved
  <2>3. req' \in [Requests -> Request]
    BY <1>7, <2>2, GotoTyped, DoneTyped DEF SaveInsert
  <2>4. req[r].id \in present =>
            users[req[r].id] \in User /\ Upserted(users[req[r].id], req[r].user) \in User
    BY <2>1 DEF TypeOK, User, Coalesce, Upserted
  <2>5. /\ users' \in [Ids -> User \cup {None}]
        /\ present' \subseteq {i \in Ids : users'[i] # None}
    BY <1>7, <2>1, <2>4 DEF SaveInsert, TypeOK
  <2>. QED
    BY <1>7, <2>3, <2>5 DEF SaveInsert, TypeOK
<1>8. ASSUME NEW r \in Requests, SaveObject(r)
      PROVE  TypeOK'
  <2>1. req[r] \in Signing /\ req[r].user \in User /\ req[r].id \in Ids
    BY <1>8, RequestParts DEF SaveObject, At
  <2>2. [req[r] EXCEPT !.pc = Saved(req[r].op)] \in Request
    BY <2>1 DEF Signing, Saved
  <2>3. req' \in [Requests -> Request]
    BY <1>8, <2>2, GotoTyped DEF SaveObject
  <2>4. /\ users' \in [Ids -> User \cup {None}]
        /\ users'[req[r].id] # None /\ \A i \in Ids : users[i] # None => users'[i] # None
    BY <1>8, <2>1 DEF SaveObject, TypeOK
  <2>5. present' = present \cup {req[r].id} /\ byEmail' \in [Emails -> Ids \cup {None}]
    BY <1>8, <2>1 DEF SaveObject, TypeOK
  <2>. QED
    BY <1>8, <2>1, <2>3, <2>4, <2>5 DEF SaveObject, TypeOK
<1>9. ASSUME NEW r \in Requests, AnswerSignup(r)
      PROVE  TypeOK'
  BY <1>9, DoneTyped DEF AnswerSignup, TypeOK
<1>10. ASSUME NEW r \in Requests, CreateSession(r)
       PROVE  TypeOK'
  <2>1. req[r].id \in Ids /\ req[r].user.email \in Emails
    BY <1>10, RequestParts DEF CreateSession, At, User
  <2>. QED
    BY <1>10, <2>1, DoneTyped DEF CreateSession, TypeOK
<1>11. ASSUME NEW e \in Emails, ForgotPassword(e)
       PROVE  TypeOK'
  BY <1>11 DEF ForgotPassword, TypeOK, Reset
<1>12. ASSUME NEW t \in Tokens, Expire(t)
       PROVE  TypeOK'
  <2>0. resets[t] \in Reset
    BY <1>12 DEF Expire, TypeOK
  <2>1. [resets[t] EXCEPT !.expired = TRUE] \in Reset
    BY <2>0 DEF Reset
  <2>2. resets' = [resets EXCEPT ![t] = [resets[t] EXCEPT !.expired = TRUE]]
    BY <1>12 DEF Expire
  <2>. QED
    BY <1>12, <2>1, <2>2 DEF Expire, TypeOK
<1>13. ASSUME NEW r \in Requests, NEW t \in Tokens, NEW p \in Choices, Validate(r, t, p)
       PROVE  TypeOK'
  <2>. DEFINE e == resets[t].email
              u == [email |-> e, pw |-> <<e, p>>, google |-> None]
  <2>1. resets[t] \in Reset /\ u \in User
    BY <1>13 DEF Validate, Usable, TypeOK, Reset, User, Passwords
  <2>. HIDE DEF u
  <2>2. \A pc \in {"consume", "password"} :
           [pc |-> pc, op |-> "reset", id |-> None, user |-> u, token |-> t] \in Request
    BY <2>1 DEF Resetting
  <2>3. req' = [req EXCEPT ![r] = [pc |-> IF db THEN "consume" ELSE "password", op |-> "reset",
                                   id |-> None, user |-> u, token |-> t]]
    BY <1>13, Zenon DEF Validate, u
  <2>4. req' \in [Requests -> Request]
    BY <2>2, <2>3, RequestTyped
  <2>. QED
    BY <1>13, <2>1, <2>4 DEF Validate, TypeOK, Reset
<1>14. ASSUME NEW r \in Requests, Consume(r)
       PROVE  TypeOK'
  <2>1. req[r] \in Resetting
    BY <1>14, RequestParts DEF Consume, At
  <2>2. [req[r] EXCEPT !.pc = "password"] \in Request
    BY <2>1 DEF Resetting
  <2>3. req' \in [Requests -> Request]
    BY <1>14, <2>2, GotoTyped DEF Consume
  <2>0. req[r].token \in Tokens /\ resets[req[r].token] \in Reset
    BY <1>14, RequestParts DEF Consume, At, TypeOK, TokensExist
  <2>4. [resets[req[r].token] EXCEPT !.used = TRUE] \in Reset
    BY <2>0 DEF Reset
  <2>5. resets' \in [Tokens -> Reset \cup {None}]
    BY <1>14, <2>0, <2>4 DEF Consume, TypeOK
  <2>. QED
    BY <1>14, <2>3, <2>5 DEF Consume, TypeOK
<1>15. ASSUME NEW r \in Requests, ResetPassword(r)
       PROVE  TypeOK'
  <2>1. req[r] \in Resetting /\ req[r].user \in User /\ req[r].token \in Tokens
    BY <1>15, RequestParts DEF ResetPassword, At
  <2>2. [req[r] EXCEPT !.pc = "invalidate"] \in Request
    BY <2>1 DEF Resetting
  <2>3. req' \in [Requests -> Request]
    BY <1>15, <2>2, GotoTyped, DoneTyped DEF ResetPassword
  <2>4. \A i \in HasEmail(req[r].user.email) :
           users[i] \in User /\ [users[i] EXCEPT !.pw = req[r].user.pw] \in User
    BY <2>1 DEF TypeOK, User, HasEmail
  <2>5. /\ users' \in [Ids -> User \cup {None}]
        /\ present \subseteq {i \in Ids : users'[i] # None}
    BY <1>15, <2>4 DEF ResetPassword, TypeOK
  <2>6. answered' \subseteq Tokens
    BY <1>15, <2>1 DEF ResetPassword, TypeOK
  <2>. QED
    BY <1>15, <2>3, <2>5, <2>6 DEF ResetPassword, TypeOK
<1>16. ASSUME NEW r \in Requests, InvalidateSessions(r)
       PROVE  TypeOK'
  <2>1. req[r].token \in Tokens
    BY <1>16, RequestParts DEF InvalidateSessions, At
  <2>. QED
    BY <1>16, <2>1, DoneTyped DEF InvalidateSessions, TypeOK
<1>17. ASSUME NEW r \in Requests, NEW i \in Ids, NEW p \in Choices, ChangePassword(r, i, p)
       PROVE  TypeOK'
  <2>. DEFINE u == [users[i] EXCEPT !.pw = <<users[i].email, p>>]
  <2>1. u \in User
    BY <1>17 DEF ChangePassword, SignedIn, TypeOK, User, Passwords
  <2>2. Begin(r, "change", "change", i, u)
    BY <1>17, Zenon DEF ChangePassword
  <2>. HIDE DEF u
  <2>3. [pc |-> "change", op |-> "change", id |-> i, user |-> u, token |-> None] \in Request
    BY <2>1 DEF Signing
  <2>4. req' \in [Requests -> Request]
    BY <2>2, <2>3, BeginTyped
  <2>. QED
    BY <1>17, <2>4 DEF ChangePassword, TypeOK
<1>18. ASSUME NEW r \in Requests, WritePassword(r)
       PROVE  TypeOK'
  <2>1. req[r].user \in User /\ req[r].id \in Ids
    BY <1>18, RequestParts DEF WritePassword, At
  <2>2. req[r].id \in present => [users[req[r].id] EXCEPT !.pw = req[r].user.pw] \in User
    BY <2>1 DEF TypeOK, User
  <2>3. /\ users' \in [Ids -> User \cup {None}]
        /\ present \subseteq {i \in Ids : users'[i] # None}
    BY <1>18, <2>1, <2>2 DEF WritePassword, TypeOK
  <2>. QED
    BY <1>18, <2>3, DoneTyped DEF WritePassword, TypeOK
<1>19. ASSUME NEW r \in Requests, NEW i \in Ids, DeleteAccount(r, i)
       PROVE  TypeOK'
  <2>1. [pc |-> "delete", op |-> "delete", id |-> i, user |-> users[i], token |-> None] \in Request
    BY <1>19 DEF DeleteAccount, SignedIn, TypeOK, Signing
  <2>2. req' \in [Requests -> Request]
    BY <1>19, <2>1, BeginTyped DEF DeleteAccount
  <2>. QED
    BY <1>19, <2>2 DEF DeleteAccount, TypeOK
<1>20. ASSUME NEW r \in Requests, DeleteUser(r)
       PROVE  TypeOK'
  <2>1. req[r].id \in Ids /\ req[r].user.email \in Emails
    BY <1>20, RequestParts DEF DeleteUser, At, User
  <2>2. /\ users' \in [Ids -> User \cup {None}]
        /\ present' \subseteq {i \in Ids : users'[i] # None}
    BY <1>20, <2>1 DEF DeleteUser, TypeOK
  <2>3. /\ byEmail' \in [Emails -> Ids \cup {None}]
        /\ sessions' \subseteq [id : Ids, who : Emails]
        /\ deleted' \in [Ids -> Emails \cup {None}]
    BY <1>20, <2>1 DEF DeleteUser, TypeOK
  <2>. QED
    BY <1>20, <2>2, <2>3, DoneTyped DEF DeleteUser, TypeOK
<1>21. CASE UNCHANGED vars
  BY <1>21 DEF TypeOK, vars
<1>. QED
  BY <1>1, <1>2, <1>3, <1>4, <1>5, <1>6, <1>7, <1>8, <1>9, <1>10, <1>11, <1>12, <1>13, <1>14, <1>15,
     <1>16, <1>17, <1>18, <1>19, <1>20, <1>21, Zenon DEF Next
-----------------------------------------------------------------------------
(* The email a user holds credentials for, and the email an id stands for: that
   of the row or object, of what a request carries, of its sessions, and of the
   account that was deleted.  Copies may be stale in everything but that. *)
Own(u) ==
    /\ u.pw # None => u.pw[1] = u.email
    /\ u.google # None => GoogleEmail[u.google] = u.email

OwnUsers ==
    /\ \A i \in Ids : users[i] # None => Own(users[i])
    /\ \A r \in Requests : req[r].user # None => Own(req[r].user)

Knows(i, e) ==
    \/ users[i] # None /\ users[i].email = e
    \/ deleted[i] = e
    \/ \E r \in Requests : req[r].id = i /\ req[r].user.email = e
    \/ \E s \in sessions : s.id = i /\ s.who = e

OneEmailPerId == \A i \in Ids, e, f \in Emails : Knows(i, e) /\ Knows(i, f) => e = f

\* Which statements are executed in which mode.
Modes ==
    \A r \in Requests :
       /\ At(r, "reselect") \/ At(r, "insert") => db
       /\ At(r, "session") => db \/ users[req[r].id] # None

SessionsKnown == \A s \in sessions : users[s.id] # None \/ deleted[s.id] # None

CInv == TypeOK /\ TokensExist /\ IndexSound /\ OwnUsers /\ OneEmailPerId /\ Modes /\ SessionsKnown

LEMMA UserKnown ==
    ASSUME NEW i \in Ids, users[i] # None
    PROVE  Knows(i, users[i].email)
BY DEF Knows

LEMMA RequestKnown ==
    ASSUME NEW r \in Requests
    PROVE  Knows(req[r].id, req[r].user.email)
BY DEF Knows

LEMMA SessionKnown ==
    ASSUME NEW s \in sessions
    PROVE  Knows(s.id, s.who)
BY DEF Knows

\* A request that carries an id carries the email of its account.
LEMMA SameEmail ==
    ASSUME TypeOK, OneEmailPerId, NEW r \in Requests, req[r].id \in Ids, users[req[r].id] # None
    PROVE  users[req[r].id].email = req[r].user.email
<1>1. req[r] \in Signing
  BY RequestParts
<1>2. users[req[r].id].email \in Emails /\ req[r].user.email \in Emails
  BY <1>1 DEF TypeOK, Signing, User
<1>. QED
  BY <1>2, UserKnown, RequestKnown DEF OneEmailPerId

LEMMA FoundHasEmail ==
    ASSUME TypeOK, IndexSound, NEW e \in Emails, NEW i \in HasEmail(e)
    PROVE  i \in Ids /\ i \in present /\ users[i] \in User /\ users[i] # None /\ users[i].email = e
BY DEF TypeOK, IndexSound, HasEmail

LEMMA DrawnIsFresh ==
    ASSUME TypeOK, SessionsKnown, NEW i \in Ids, ~Drawn(i), NEW e \in Emails
    PROVE  ~Knows(i, e)
BY DEF TypeOK, SessionsKnown, Drawn, Knows

\* If what a step writes was known before, or is of a fresh id, an id still
\* stands for one email.
LEMMA KnownBefore ==
    ASSUME NEW r \in Requests, Alone(r), OneEmailPerId,
           \A j \in Ids : users'[j] # None => Knows(j, users'[j].email),
           \A j \in Ids, e \in Emails : deleted'[j] = e => Knows(j, e),
           req'[r].id \in Ids => Knows(req'[r].id, req'[r].user.email),
           \A s \in sessions' : Knows(s.id, s.who)
    PROVE  OneEmailPerId'
<1>1. ASSUME NEW j \in Ids, NEW e \in Emails, Knows(j, e)'
      PROVE  Knows(j, e)
  <2>1. CASE users'[j] # None /\ users'[j].email = e
    BY <2>1
  <2>2. CASE deleted'[j] = e
    BY <2>2
  <2>3. CASE \E q \in Requests : req'[q].id = j /\ req'[q].user.email = e
    <3>1. PICK q \in Requests : req'[q].id = j /\ req'[q].user.email = e
      BY <2>3
    <3>2. CASE q = r
      BY <3>1, <3>2
    <3>3. CASE q # r
      BY <3>1, <3>3, RequestKnown DEF Alone
    <3>. QED
      BY <3>2, <3>3
  <2>4. CASE \E s \in sessions' : s.id = j /\ s.who = e
    BY <2>4
  <2>. QED
    BY <1>1, <2>1, <2>2, <2>3, <2>4 DEF Knows
<1>. QED
  BY <1>1 DEF OneEmailPerId

LEMMA KnownOrFresh ==
    ASSUME NEW r \in Requests, Alone(r), OneEmailPerId,
           UNCHANGED <<users, deleted, sessions>>,
           \A e \in Emails : ~Knows(req'[r].id, e)
    PROVE  OneEmailPerId'
<1>1. ASSUME NEW j \in Ids, NEW e \in Emails, Knows(j, e)'
      PROVE  Knows(j, e) \/ (j = req'[r].id /\ e = req'[r].user.email)
  <2>1. ASSUME NEW q \in Requests, req'[q].id = j, req'[q].user.email = e, q # r
        PROVE  Knows(j, e)
    BY <2>1, RequestKnown DEF Alone
  <2>. QED
    BY <1>1, <2>1 DEF Knows
<1>. QED
  BY <1>1 DEF OneEmailPerId

\* The same for credentials.
LEMMA OwnBefore ==
    ASSUME NEW r \in Requests, Alone(r), OwnUsers,
           \A j \in Ids : users'[j] # None => Own(users'[j]),
           req'[r].user # None => Own(req'[r].user)
    PROVE  OwnUsers'
BY DEF OwnUsers, Own, Alone

Cred == OneEmailPerId /\ OwnUsers

\* A step that only gives r what was known, and may remove sessions.
LEMMA RequestOnly ==
    ASSUME CInv, NEW r \in Requests, Alone(r), UNCHANGED <<users, deleted>>,
           sessions' \subseteq sessions,
           req'[r].id \in Ids => Knows(req'[r].id, req'[r].user.email),
           req'[r].user # None => Own(req'[r].user)
    PROVE  Cred'
<1>1. \A j \in Ids : users'[j] # None => Knows(j, users'[j].email) /\ Own(users'[j])
  BY UserKnown DEF CInv, OwnUsers
<1>2. \A j \in Ids, e \in Emails : deleted'[j] = e => Knows(j, e)
  BY DEF Knows
<1>3. \A s \in sessions' : Knows(s.id, s.who)
  BY SessionKnown
<1>4. OneEmailPerId'
  BY <1>1, <1>2, <1>3, KnownBefore DEF CInv
<1>5. OwnUsers'
  BY <1>1, OwnBefore DEF CInv
<1>. QED
  BY <1>4, <1>5 DEF Cred

\* A step that also writes users, each of whom was known.
LEMMA UsersWritten ==
    ASSUME CInv, NEW r \in Requests, Alone(r), UNCHANGED deleted, sessions' \subseteq sessions,
           \A j \in Ids : users'[j] # None => Knows(j, users'[j].email) /\ Own(users'[j]),
           req'[r].id \in Ids => Knows(req'[r].id, req'[r].user.email),
           req'[r].user # None => Own(req'[r].user)
    PROVE  Cred'
<1>2. \A j \in Ids, e \in Emails : deleted'[j] = e => Knows(j, e)
  BY DEF Knows
<1>3. \A s \in sessions' : Knows(s.id, s.who)
  BY SessionKnown
<1>4. OneEmailPerId'
  BY <1>2, <1>3, KnownBefore DEF CInv
<1>5. OwnUsers'
  BY OwnBefore DEF CInv
<1>. QED
  BY <1>4, <1>5 DEF Cred

\* What the helpers make of what a request carries.
LEMMA Carried ==
    ASSUME CInv, NEW r \in Requests
    PROVE  /\ req[r].id \in Ids => Knows(req[r].id, req[r].user.email)
           /\ req[r].user # None => Own(req[r].user)
           /\ Done(r) => /\ Alone(r)
                         /\ req'[r].id \notin Ids /\ req'[r].user = None
           /\ \A pc : Goto(r, pc) => /\ Alone(r)
                                     /\ req'[r].id = req[r].id /\ req'[r].user = req[r].user
<1>1. Done(r) => Alone(r) /\ req'[r] = Quiet
  BY RequestSteps DEF CInv
<1>2. ASSUME NEW pc, Goto(r, pc)
      PROVE  Alone(r) /\ req'[r].id = req[r].id /\ req'[r].user = req[r].user
  <2>1. req \in [Requests -> Request] /\ req[r] \in Request
    BY DEF CInv, TypeOK, Request
  <2>2. Alone(r) /\ req'[r] = [req[r] EXCEPT !.pc = pc]
    BY <1>2, <2>1 DEF Goto, Alone
  <2>. QED
    BY <2>1, <2>2 DEF Request, Quiet, Signing, Looking, Resetting
<1>. QED
  BY <1>1, <1>2, RequestKnown DEF CInv, OwnUsers, Quiet

LEMMA Begun ==
    ASSUME CInv, NEW r \in Requests, NEW pc, NEW op, NEW i, NEW u, Begin(r, pc, op, i, u)
    PROVE  Alone(r) /\ req'[r].id = i /\ req'[r].user = u
BY DEF CInv, TypeOK, Begin, Alone

LEMMA CredStep ==
    ASSUME CInv, [Next]_vars
    PROVE  Cred'
<1>. USE DEF CInv
<1>1. ASSUME NEW r \in Requests, NEW e \in Emails, NEW p \in Choices, Signup(r, e, p)
      PROVE  Cred'
  <2>. DEFINE u == [email |-> e, pw |-> <<e, p>>, google |-> None]
  <2>1. PICK i \in Ids : ~Drawn(i) /\ Begin(r, "save", "signup", i, u)
    BY <1>1 DEF Signup
  <2>2. Own(u)
    BY DEF Own
  <2>. HIDE DEF u
  <2>3. Alone(r) /\ req'[r].id = i /\ req'[r].user = u
    BY <2>1, Begun
  <2>4. UNCHANGED <<users, deleted, sessions>>
    BY <1>1 DEF Signup
  <2>5. OneEmailPerId'
    BY <2>1, <2>3, <2>4, DrawnIsFresh, KnownOrFresh
  <2>6. OwnUsers'
    BY <2>2, <2>3, <2>4, OwnBefore DEF OwnUsers
  <2>. QED
    BY <2>5, <2>6 DEF Cred
<1>2. ASSUME NEW r \in Requests, NEW e \in Emails, NEW p \in Choices, Login(r, e, p)
      PROVE  Cred'
  <2>1. PICK i \in HasEmail(e) : Begin(r, "session", "login", i, users[i])
    BY <1>2 DEF Login
  <2>2. i \in Ids /\ users[i] # None
    BY FoundHasEmail
  <2>3. Knows(i, users[i].email) /\ Own(users[i])
    BY <2>2, UserKnown DEF OwnUsers
  <2>4. Alone(r) /\ req'[r].id = i /\ req'[r].user = users[i]
    BY <2>1, Begun
  <2>. QED
    BY <1>2, <2>3, <2>4, RequestOnly DEF Login
<1>3. ASSUME NEW r \in Requests, NEW g \in Subs, GoogleBySub(r, g)
      PROVE  Cred'
  <2>. DEFINE new == [email |-> GoogleEmail[g], pw |-> None, google |-> g]
  <2>1. ASSUME NEW i \in HasSub(g), NEW pc, NEW op, Begin(r, pc, op, i, users[i])
        PROVE  Cred'
    <3>1. i \in Ids /\ users[i] # None
      BY FoundBySub DEF TypeOK
    <3>2. Knows(i, users[i].email) /\ Own(users[i])
      BY <3>1, UserKnown DEF OwnUsers
    <3>3. Alone(r) /\ req'[r].id = i /\ req'[r].user = users[i]
      BY <2>1, Begun
    <3>. QED
      BY <1>3, <3>2, <3>3, RequestOnly DEF GoogleBySub
  <2>2. ASSUME Begin(r, "byEmail", "google", None, new)
        PROVE  Cred'
    <3>1. Own(new)
      BY DEF Own
    <3>. HIDE DEF new
    <3>2. Alone(r) /\ req'[r].id = None /\ req'[r].user = new
      BY <2>2, Begun
    <3>. QED
      BY <1>3, <3>1, <3>2, RequestOnly DEF GoogleBySub
  <2>. QED
    BY <1>3, <2>1, <2>2, Zenon DEF GoogleBySub
<1>4. ASSUME NEW r \in Requests, GoogleByEmail(r)
      PROVE  Cred'
  <2>. DEFINE u == req[r].user
  <2>1. u \in User /\ u.email \in Emails /\ Own(u) /\ req[r].id \notin Ids
    BY <1>4, RequestParts, Carried DEF GoogleByEmail, User, At
  <2>2. ASSUME NEW i \in HasEmail(u.email), NEW linked, linked = [users[i] EXCEPT !.google = u.google],
               Begin(r, "save", "link", i, linked),
               users' = IF db THEN users ELSE [users EXCEPT ![i] = linked]
        PROVE  Cred'
    <3>1. i \in Ids /\ users[i] \in User /\ users[i] # None /\ users[i].email = u.email
      BY <2>1, FoundHasEmail
    <3>2. Knows(i, u.email) /\ Own(users[i])
      BY <3>1, UserKnown DEF OwnUsers
    <3>3. linked.email = u.email /\ Own(linked)
      BY <2>1, <2>2, <3>1, <3>2 DEF Own, User
    <3>4. Alone(r) /\ req'[r].id = i /\ req'[r].user = linked
      BY <2>2, Begun
    <3>5. \A j \in Ids : users'[j] = users[j] \/ (j = i /\ users'[j] = linked)
      BY <2>2, <3>1 DEF TypeOK
    <3>6. \A j \in Ids : users'[j] # None => Knows(j, users'[j].email) /\ Own(users'[j])
      BY <3>2, <3>3, <3>5, UserKnown DEF OwnUsers
    <3>. QED
      BY <1>4, <3>2, <3>3, <3>4, <3>6, UsersWritten DEF GoogleByEmail
  <2>3. ASSUME NEW i \in Ids, ~Drawn(i), Begin(r, "save", "join", i, u), UNCHANGED users
        PROVE  Cred'
    <3>1. Alone(r) /\ req'[r].id = i /\ req'[r].user = u
      BY <2>3, Begun
    <3>2. UNCHANGED <<users, deleted, sessions>>
      BY <1>4, <2>3 DEF GoogleByEmail
    <3>3. OneEmailPerId'
      BY <2>3, <3>1, <3>2, DrawnIsFresh, KnownOrFresh
    <3>4. OwnUsers'
      BY <2>1, <3>1, <3>2, OwnBefore DEF OwnUsers
    <3>. QED
      BY <3>3, <3>4 DEF Cred
  <2>4. ASSUME Done(r), UNCHANGED users
        PROVE  Cred'
    BY <1>4, <2>4, Carried, RequestOnly DEF GoogleByEmail
  <2>. QED
    BY <1>4, <2>2, <2>3, <2>4, Zenon DEF GoogleByEmail
<1>5. ASSUME NEW r \in Requests, SaveUpdate(r)
      PROVE  Cred'
  <2>. DEFINE u == req[r].user
  <2>1. u \in User /\ Own(u) /\ req[r].id \in Ids
    BY <1>5, RequestParts, Carried DEF SaveUpdate, At
  <2>2. ASSUME NEW j \in Matching(req[r].id, u)
        PROVE  /\ Own(Overwritten(users[j], u))
               /\ Overwritten(users[j], u).email = users[j].email
    <3>1. j \in Ids /\ users[j] # None /\ users[j] \in User
      BY <2>2 DEF TypeOK, Matching
    <3>2. users[j].email = u.email
      BY <2>1, <2>2, <3>1, SameEmail DEF Matching
    <3>3. Own(users[j])
      BY <3>1 DEF OwnUsers
    <3>. QED
      BY <2>1, <3>1, <3>2, <3>3 DEF Own, Overwritten, Coalesce, User
  <2>3. \A j \in Ids : users'[j] = users[j] \/
                       (j \in Matching(req[r].id, u) /\ users'[j] = Overwritten(users[j], u))
    BY <1>5 DEF SaveUpdate, TypeOK
  <2>4. \A j \in Ids : users'[j] # None => Knows(j, users'[j].email) /\ Own(users'[j])
    <3>1. \A j \in Matching(req[r].id, u) : j \in Ids /\ users[j] # None
      BY DEF TypeOK, Matching
    <3>. QED
      BY <2>2, <2>3, <3>1, UserKnown DEF OwnUsers
  <2>5. ASSUME NEW pc, Goto(r, pc)
        PROVE  Cred'
    BY <1>5, <2>1, <2>4, <2>5, Carried, UsersWritten DEF SaveUpdate
  <2>. QED
    BY <1>5, <2>5, Zenon DEF SaveUpdate
<1>6. ASSUME NEW r \in Requests, SaveReselect(r)
      PROVE  Cred'
  <2>1. req[r] \in Signing /\ req[r].user.email \in Emails /\ req[r].user # None
    BY <1>6, RequestParts DEF SaveReselect, At, User
  <2>2. ASSUME NEW i \in HasEmail(req[r].user.email),
               req' = [req EXCEPT ![r].id = i, ![r].pc = Saved(req[r].op)]
        PROVE  Cred'
    <3>1. i \in Ids /\ Knows(i, req[r].user.email)
      BY <2>1, FoundHasEmail, UserKnown
    <3>2. Alone(r) /\ req'[r].id = i /\ req'[r].user = req[r].user
      BY <2>1, <2>2 DEF TypeOK, Alone, Signing
    <3>. QED
      BY <1>6, <2>1, <3>1, <3>2, Carried, RequestOnly DEF SaveReselect
  <2>3. ASSUME Goto(r, Saved(req[r].op))
        PROVE  Cred'
    BY <1>6, <2>3, Carried, RequestOnly DEF SaveReselect
  <2>. QED
    BY <1>6, <2>2, <2>3, Zenon DEF SaveReselect
<1>7. ASSUME NEW r \in Requests, SaveInsert(r)
      PROVE  Cred'
  <2>. DEFINE u == req[r].user
              i == req[r].id
  <2>1. u \in User /\ Own(u) /\ i \in Ids /\ Knows(i, u.email)
    BY <1>7, RequestParts, Carried DEF SaveInsert, At
  <2>2. i \in present => Own(Upserted(users[i], u)) /\ Upserted(users[i], u).email = u.email
    <3>1. ASSUME i \in present
          PROVE  users[i] \in User /\ users[i].email = u.email /\ Own(users[i])
      BY <2>1, <3>1, SameEmail DEF TypeOK, OwnUsers
    <3>. QED
      BY <2>1, <3>1 DEF Own, Upserted, Coalesce, User
  <2>3. \A j \in Ids : \/ users'[j] = users[j]
                       \/ j = i /\ users'[j] = IF i \in present THEN Upserted(users[i], u) ELSE u
    BY <1>7, <2>1 DEF SaveInsert, TypeOK
  <2>4. \A j \in Ids : users'[j] # None => Knows(j, users'[j].email) /\ Own(users'[j])
    BY <2>1, <2>2, <2>3, UserKnown DEF OwnUsers
  <2>5. ASSUME NEW pc, Goto(r, pc)
        PROVE  Cred'
    BY <1>7, <2>1, <2>4, <2>5, Carried, UsersWritten DEF SaveInsert
  <2>6. ASSUME Done(r)
        PROVE  Cred'
    BY <1>7, <2>4, <2>6, Carried, UsersWritten DEF SaveInsert
  <2>. QED
    BY <1>7, <2>5, <2>6, Zenon DEF SaveInsert
<1>8. ASSUME NEW r \in Requests, SaveObject(r)
      PROVE  Cred'
  <2>. DEFINE u == req[r].user
              i == req[r].id
  <2>1. Own(u) /\ i \in Ids /\ Knows(i, u.email)
    BY <1>8, RequestParts, Carried DEF SaveObject, At
  <2>2. \A j \in Ids : users'[j] = users[j] \/ (j = i /\ users'[j] = u)
    BY <1>8, <2>1 DEF SaveObject, TypeOK
  <2>3. \A j \in Ids : users'[j] # None => Knows(j, users'[j].email) /\ Own(users'[j])
    BY <2>1, <2>2, UserKnown DEF OwnUsers
  <2>. QED
    BY <1>8, <2>1, <2>3, Carried, UsersWritten DEF SaveObject
<1>9. ASSUME NEW r \in Requests, AnswerSignup(r)
      PROVE  Cred'
  BY <1>9, Carried, RequestOnly DEF AnswerSignup
<1>10. ASSUME NEW r \in Requests, CreateSession(r)
       PROVE  Cred'
  <2>1. Alone(r) /\ req'[r].id \notin Ids /\ req'[r].user = None
    BY <1>10, Carried DEF CreateSession
  <2>2. UNCHANGED <<users, deleted>>
    BY <1>10 DEF CreateSession
  <2>3. \A s \in sessions' : Knows(s.id, s.who)
    BY <1>10, SessionKnown, RequestKnown DEF CreateSession
  <2>4. OneEmailPerId'
    <3>1. \A j \in Ids : users'[j] # None => Knows(j, users'[j].email)
      BY <2>2, UserKnown
    <3>2. \A j \in Ids, e \in Emails : deleted'[j] = e => Knows(j, e)
      BY <2>2 DEF Knows
    <3>. QED
      BY <2>1, <2>3, <3>1, <3>2, KnownBefore
  <2>5. OwnUsers'
    BY <2>1, <2>2, OwnBefore DEF OwnUsers
  <2>. QED
    BY <2>4, <2>5 DEF Cred
<1>11. ASSUME NEW e \in Emails, ForgotPassword(e)
       PROVE  Cred'
  BY <1>11 DEF ForgotPassword, Cred, OneEmailPerId, Knows, OwnUsers, Own
<1>12. ASSUME NEW t \in Tokens, Expire(t)
       PROVE  Cred'
  BY <1>12 DEF Expire, Cred, OneEmailPerId, Knows, OwnUsers, Own
<1>13. ASSUME NEW r \in Requests, NEW t \in Tokens, NEW p \in Choices, Validate(r, t, p)
       PROVE  Cred'
  <2>. DEFINE e == resets[t].email
              u == [email |-> e, pw |-> <<e, p>>, google |-> None]
  <2>1. Own(u)
    BY DEF Own
  <2>. HIDE DEF u
  <2>2. req' = [req EXCEPT ![r] = [pc |-> IF db THEN "consume" ELSE "password", op |-> "reset",
                                   id |-> None, user |-> u, token |-> t]]
    BY <1>13, Zenon DEF Validate, u
  <2>3. Alone(r) /\ req'[r].id = None /\ req'[r].user = u
    BY <2>2 DEF TypeOK, Alone
  <2>. QED
    BY <1>13, <2>1, <2>3, RequestOnly DEF Validate
<1>14. ASSUME NEW r \in Requests, Consume(r)
       PROVE  Cred'
  BY <1>14, Carried, RequestOnly DEF Consume
<1>15. ASSUME NEW r \in Requests, ResetPassword(r)
       PROVE  Cred'
  <2>. DEFINE u == req[r].user
  <2>1. u \in User /\ u.email \in Emails /\ Own(u) /\ req[r].id \notin Ids
    BY <1>15, RequestParts, Carried DEF ResetPassword, At, User
  <2>2. \A j \in Ids : \/ users'[j] = users[j]
                       \/ j \in HasEmail(u.email) /\ users'[j] = [users[j] EXCEPT !.pw = u.pw]
    BY <1>15 DEF ResetPassword, TypeOK
  <2>3. ASSUME NEW j \in HasEmail(u.email)
        PROVE  LET v == [users[j] EXCEPT !.pw = u.pw] IN v.email = users[j].email /\ Own(v)
    <3>1. j \in Ids /\ users[j] \in User /\ users[j].email = u.email /\ Own(users[j])
      BY <2>1, FoundHasEmail DEF OwnUsers
    <3>. QED
      BY <2>1, <3>1 DEF Own, User
  <2>4. \A j \in Ids : users'[j] # None => Knows(j, users'[j].email) /\ Own(users'[j])
    <3>1. \A j \in HasEmail(u.email) : users[j] # None
      BY <2>1, FoundHasEmail
    <3>. QED
      BY <2>2, <2>3, <3>1, UserKnown DEF OwnUsers
  <2>5. Alone(r) /\ req'[r].id \notin Ids /\ (req'[r].user = u \/ req'[r].user = None)
    BY <1>15, <2>1, Carried DEF ResetPassword
  <2>. QED
    BY <1>15, <2>1, <2>4, <2>5, UsersWritten DEF ResetPassword
<1>16. ASSUME NEW r \in Requests, InvalidateSessions(r)
       PROVE  Cred'
  BY <1>16, Carried, RequestOnly DEF InvalidateSessions
<1>17. ASSUME NEW r \in Requests, NEW i \in Ids, NEW p \in Choices, ChangePassword(r, i, p)
       PROVE  Cred'
  <2>. DEFINE u == [users[i] EXCEPT !.pw = <<users[i].email, p>>]
  <2>1. users[i] \in User /\ users[i] # None
    BY <1>17 DEF ChangePassword, SignedIn, TypeOK
  <2>2. Own(users[i]) /\ Knows(i, users[i].email)
    BY <2>1, UserKnown DEF OwnUsers
  <2>3. u.email = users[i].email /\ Own(u)
    BY <2>1, <2>2 DEF Own, User
  <2>4. Begin(r, "change", "change", i, u)
    BY <1>17, Zenon DEF ChangePassword
  <2>. HIDE DEF u
  <2>5. Alone(r) /\ req'[r].id = i /\ req'[r].user = u
    BY <2>4, Begun
  <2>. QED
    BY <1>17, <2>2, <2>3, <2>5, RequestOnly DEF ChangePassword
<1>18. ASSUME NEW r \in Requests, WritePassword(r)
       PROVE  Cred'
  <2>. DEFINE u == req[r].user
              i == req[r].id
  <2>1. u \in User /\ Own(u) /\ i \in Ids
    BY <1>18, RequestParts, Carried DEF WritePassword, At
  <2>2. \A j \in Ids : \/ users'[j] = users[j]
                       \/ j = i /\ i \in present /\ users'[j] = [users[i] EXCEPT !.pw = u.pw]
    BY <1>18, <2>1 DEF WritePassword, TypeOK
  <2>3. ASSUME i \in present
        PROVE  LET v == [users[i] EXCEPT !.pw = u.pw] IN v.email = users[i].email /\ Own(v)
    <3>1. users[i] \in User /\ users[i].email = u.email /\ Own(users[i])
      BY <2>1, <2>3, SameEmail DEF TypeOK, OwnUsers
    <3>. QED
      BY <2>1, <3>1 DEF Own, User
  <2>4. \A j \in Ids : users'[j] # None => Knows(j, users'[j].email) /\ Own(users'[j])
    BY <2>2, <2>3, UserKnown DEF OwnUsers, TypeOK
  <2>. QED
    BY <1>18, <2>4, Carried, UsersWritten DEF WritePassword
<1>19. ASSUME NEW r \in Requests, NEW i \in Ids, DeleteAccount(r, i)
       PROVE  Cred'
  <2>1. users[i] # None
    BY <1>19 DEF DeleteAccount, SignedIn, TypeOK
  <2>2. Own(users[i]) /\ Knows(i, users[i].email)
    BY <2>1, UserKnown DEF OwnUsers
  <2>3. Alone(r) /\ req'[r].id = i /\ req'[r].user = users[i]
    BY <1>19, Begun DEF DeleteAccount
  <2>. QED
    BY <1>19, <2>2, <2>3, RequestOnly DEF DeleteAccount
<1>20. ASSUME NEW r \in Requests, DeleteUser(r)
       PROVE  Cred'
  <2>1. req[r].id \in Ids /\ Knows(req[r].id, req[r].user.email)
    BY <1>20, RequestParts, Carried DEF DeleteUser, At
  <2>2. Alone(r) /\ req'[r].id \notin Ids /\ req'[r].user = None
    BY <1>20, Carried DEF DeleteUser
  <2>3. \A j \in Ids : users'[j] # None => users'[j] = users[j] /\ users[j] # None
    BY <1>20, <2>1 DEF DeleteUser, TypeOK
  <2>4. \A s \in sessions' : Knows(s.id, s.who)
    BY <1>20, SessionKnown DEF DeleteUser
  <2>5. \A j \in Ids, e \in Emails : deleted'[j] = e => Knows(j, e)
    <3>1. \A j \in Ids, e \in Emails : deleted[j] = e => Knows(j, e)
      BY DEF Knows
    <3>. QED
      BY <1>20, <2>1, <3>1 DEF DeleteUser, TypeOK
  <2>6. OneEmailPerId'
    <3>1. \A j \in Ids : users'[j] # None => Knows(j, users'[j].email)
      BY <2>3, UserKnown
    <3>. QED
      BY <2>2, <2>4, <2>5, <3>1, KnownBefore
  <2>7. OwnUsers'
    BY <2>2, <2>3, OwnBefore DEF OwnUsers
  <2>. QED
    BY <2>6, <2>7 DEF Cred
<1>21. CASE UNCHANGED vars
  BY <1>21 DEF vars, Cred, OneEmailPerId, Knows, OwnUsers, Own
<1>. QED
  BY <1>1, <1>2, <1>3, <1>4, <1>5, <1>6, <1>7, <1>8, <1>9, <1>10, <1>11, <1>12, <1>13, <1>14, <1>15,
     <1>16, <1>17, <1>18, <1>19, <1>20, <1>21, Zenon DEF Next
-----------------------------------------------------------------------------
(* What a step may do to an account: its email stays, it goes only by a
   deletion, and a deletion is remembered under its email. *)
AccountKept(j) ==
    /\ users[j] # None /\ users'[j] # None => users'[j].email = users[j].email
    /\ users[j] # None => users'[j] # None \/ (db /\ deleted'[j] # None)
    /\ deleted[j] # None => deleted'[j] = deleted[j]
    /\ j \in present => j \in present' \/ deleted'[j] = users[j].email

LEMMA AccountStep ==
    ASSUME CInv, [Next]_vars
    PROVE  UNCHANGED db /\ \A j \in Ids : AccountKept(j)
<1>. USE DEF CInv
<1>1. ASSUME UNCHANGED <<db, users, present, deleted>>
      PROVE  UNCHANGED db /\ \A j \in Ids : AccountKept(j)
  BY <1>1 DEF AccountKept
<1>2. ASSUME UNCHANGED <<db, deleted>>, present \subseteq present',
             \A j \in Ids : users[j] # None => users'[j] # None /\ users'[j].email = users[j].email
      PROVE  UNCHANGED db /\ \A j \in Ids : AccountKept(j)
  BY <1>2 DEF AccountKept
<1>3. ASSUME NEW r \in Requests, GoogleByEmail(r)
      PROVE  UNCHANGED db /\ \A j \in Ids : AccountKept(j)
  <2>. DEFINE u == req[r].user
  <2>1. u.email \in Emails
    BY <1>3, RequestParts DEF GoogleByEmail, User, At
  <2>2. ASSUME NEW i \in HasEmail(u.email),
               users' = IF db THEN users ELSE [users EXCEPT ![i] = [users[i] EXCEPT !.google = u.google]]
        PROVE  \A j \in Ids : users[j] # None => users'[j] # None /\ users'[j].email = users[j].email
    <3>1. users[i] \in User /\ i \in Ids
      BY <2>1, FoundHasEmail
    <3>2. [users[i] EXCEPT !.google = u.google].email = users[i].email
      BY <3>1 DEF User
    <3>3. [users[i] EXCEPT !.google = u.google] # None
      BY <2>1, <3>1, RequestParts, <1>3 DEF User, GoogleByEmail, At
    <3>. QED
      BY <2>2, <3>1, <3>2, <3>3 DEF TypeOK
  <2>3. \A j \in Ids : users[j] # None => users'[j] # None /\ users'[j].email = users[j].email
    BY <1>3, <2>2 DEF GoogleByEmail
  <2>. QED
    BY <1>2, <1>3, <2>3 DEF GoogleByEmail
<1>4. ASSUME NEW r \in Requests, SaveUpdate(r)
      PROVE  UNCHANGED db /\ \A j \in Ids : AccountKept(j)
  <2>. DEFINE u == req[r].user
  <2>1. u \in User /\ req[r].id \in Ids
    BY <1>4, RequestParts DEF SaveUpdate, At
  <2>2. ASSUME NEW j \in Matching(req[r].id, u)
        PROVE  Overwritten(users[j], u) # None /\ Overwritten(users[j], u).email = users[j].email
    <3>1. j \in Ids /\ users[j] # None /\ users[j] \in User
      BY <2>2 DEF TypeOK, Matching
    <3>2. users[j].email = u.email
      BY <2>1, <2>2, <3>1, SameEmail DEF Matching
    <3>3. Overwritten(users[j], u) \in User
      BY <2>1, <3>1 DEF Overwritten, Coalesce, User
    <3>. QED
      BY <3>2, <3>3 DEF Overwritten
  <2>3. \A j \in Ids : users'[j] = users[j] \/
                       (j \in Matching(req[r].id, u) /\ users'[j] = Overwritten(users[j], u))
    BY <1>4 DEF SaveUpdate, TypeOK
  <2>. QED
    BY <1>2, <1>4, <2>2, <2>3 DEF SaveUpdate
<1>5. ASSUME NEW r \in Requests, SaveInsert(r)
      PROVE  UNCHANGED db /\ \A j \in Ids : AccountKept(j)
  <2>. DEFINE u == req[r].user
              i == req[r].id
  <2>1. u \in User /\ i \in Ids
    BY <1>5, RequestParts DEF SaveInsert, At
  <2>2. users[i] # None => users[i] \in User /\ users[i].email = u.email
    BY <2>1, SameEmail DEF TypeOK
  <2>3. users[i] # None => Upserted(users[i], u) # None /\ Upserted(users[i], u).email = u.email
    <3>1. users[i] # None => Upserted(users[i], u) \in User
      BY <2>1, <2>2 DEF Upserted, Coalesce, User
    <3>. QED
      BY <2>2, <3>1 DEF Upserted, User
  <2>4. \A j \in Ids : \/ users'[j] = users[j]
                       \/ j = i /\ users'[j] = IF i \in present THEN Upserted(users[i], u) ELSE u
    BY <1>5, <2>1 DEF SaveInsert, TypeOK
  <2>. QED
    BY <1>2, <1>5, <2>1, <2>2, <2>3, <2>4 DEF SaveInsert
<1>6. ASSUME NEW r \in Requests, SaveObject(r)
      PROVE  UNCHANGED db /\ \A j \in Ids : AccountKept(j)
  <2>1. \A j \in Ids : users[j] # None => users'[j] = users[j]
    BY <1>6 DEF SaveObject, TypeOK
  <2>. QED
    BY <1>2, <1>6, <2>1 DEF SaveObject
<1>7. ASSUME NEW r \in Requests, ResetPassword(r)
      PROVE  UNCHANGED db /\ \A j \in Ids : AccountKept(j)
  <2>. DEFINE u == req[r].user
              new(j) == [users[j] EXCEPT !.pw = u.pw]
  <2>1. u \in User /\ u.email \in Emails
    BY <1>7, RequestParts DEF ResetPassword, At, User
  <2>2. \A j \in Ids : users'[j] = users[j] \/ (j \in HasEmail(u.email) /\ users'[j] = new(j))
    BY <1>7 DEF ResetPassword, TypeOK
  <2>3. ASSUME NEW j \in HasEmail(u.email)
        PROVE  new(j) # None /\ new(j).email = users[j].email
    <3>1. users[j] \in User
      BY <2>1, FoundHasEmail
    <3>2. new(j) \in User /\ new(j).email = users[j].email
      BY <2>1, <3>1 DEF User
    <3>. QED
      BY <3>2
  <2>. QED
    BY <1>2, <1>7, <2>2, <2>3 DEF ResetPassword
<1>8. ASSUME NEW r \in Requests, WritePassword(r)
      PROVE  UNCHANGED db /\ \A j \in Ids : AccountKept(j)
  <2>. DEFINE u == req[r].user
              i == req[r].id
              new == [users[i] EXCEPT !.pw = u.pw]
  <2>1. u \in User /\ i \in Ids
    BY <1>8, RequestParts DEF WritePassword, At
  <2>2. \A j \in Ids : users'[j] = users[j] \/ (j = i /\ i \in present /\ users'[j] = new)
    BY <1>8, <2>1 DEF WritePassword, TypeOK
  <2>3. i \in present => new # None /\ new.email = users[i].email
    <3>1. i \in present => users[i] \in User
      BY <2>1 DEF TypeOK
    <3>2. i \in present => new \in User /\ new.email = users[i].email
      BY <2>1, <3>1 DEF User
    <3>. QED
      BY <3>2
  <2>. QED
    BY <1>2, <1>8, <2>2, <2>3 DEF WritePassword
<1>9. ASSUME NEW r \in Requests, DeleteUser(r)
      PROVE  UNCHANGED db /\ \A j \in Ids : AccountKept(j)
  <2>. DEFINE i == req[r].id
              e == req[r].user.email
  <2>1. i \in Ids /\ e \in Emails /\ Knows(i, e)
    BY <1>9, RequestParts, Carried DEF DeleteUser, At, User
  <2>2. users[i] # None => users[i].email = e
    BY <2>1, SameEmail
  <2>3. deleted[i] # None => deleted[i] = e
    BY <2>1 DEF TypeOK, OneEmailPerId, Knows
  <2>4. CASE UNCHANGED <<present, users, byEmail, sessions, deleted>>
    BY <1>1, <1>9, <2>4 DEF DeleteUser
  <2>5. CASE /\ present' = present \ {i}
             /\ users' = IF db THEN [users EXCEPT ![i] = None] ELSE users
             /\ deleted' = [deleted EXCEPT ![i] = e]
    <3>1. deleted'[i] = e /\ e # None
      BY <2>1, <2>5 DEF TypeOK
    <3>2. \A j \in Ids \ {i} : users'[j] = users[j] /\ deleted'[j] = deleted[j]
      BY <2>5 DEF TypeOK
    <3>3. users'[i] = users[i] \/ (db /\ users'[i] = None)
      BY <2>1, <2>5 DEF TypeOK
    <3>4. AccountKept(i)
      BY <2>2, <2>3, <3>1, <3>3, <2>1 DEF AccountKept, TypeOK
    <3>5. \A j \in Ids \ {i} : AccountKept(j)
      BY <2>5, <3>2 DEF AccountKept
    <3>. QED
      BY <1>9, <3>4, <3>5 DEF DeleteUser
  <2>. QED
    BY <1>9, <2>4, <2>5, Zenon DEF DeleteUser
<1>10. ASSUME NEW r \in Requests,
              \/ \E e \in Emails, p \in Choices : Signup(r, e, p) \/ Login(r, e, p)
              \/ \E g \in Subs : GoogleBySub(r, g)
              \/ SaveReselect(r) \/ AnswerSignup(r) \/ CreateSession(r)
              \/ \E t \in Tokens, p \in Choices : Validate(r, t, p)
              \/ Consume(r) \/ InvalidateSessions(r)
              \/ \E i \in Ids : DeleteAccount(r, i) \/ \E p \in Choices : ChangePassword(r, i, p)
       PROVE  UNCHANGED <<db, users, present, deleted>>
  BY <1>10 DEF Signup, Login, GoogleBySub, SaveReselect, AnswerSignup, CreateSession, Validate, Consume,
               InvalidateSessions, DeleteAccount, ChangePassword
<1>11. ASSUME \/ \E e \in Emails : ForgotPassword(e)
              \/ \E t \in Tokens : Expire(t)
              \/ UNCHANGED vars
       PROVE  UNCHANGED <<db, users, present, deleted>>
  BY <1>11 DEF ForgotPassword, Expire, vars
<1>. QED
  BY <1>1, <1>3, <1>4, <1>5, <1>6, <1>7, <1>8, <1>9, <1>10, <1>11, Zenon DEF Next

LEMMA IndexStep ==
    ASSUME CInv, [Next]_vars
    PROVE  IndexSound'
<1>. USE DEF CInv
<1>1. UNCHANGED db /\ \A j \in Ids : AccountKept(j)
  BY AccountStep
<1>2. CASE db
  BY <1>1, <1>2 DEF IndexSound
<1>3. ASSUME ~db, byEmail' = byEmail, present \subseteq present'
      PROVE  IndexSound'
  <2>1. \A e \in Emails : byEmail[e] # None =>
           /\ byEmail[e] \in Ids /\ byEmail[e] \in present
           /\ users[byEmail[e]] # None /\ users[byEmail[e]].email = e
    BY <1>3 DEF IndexSound, TypeOK
  <2>2. \A j \in Ids : users[j] # None => users'[j].email = users[j].email
    BY <1>1, <1>3 DEF AccountKept
  <2>. QED
    BY <1>3, <2>1, <2>2 DEF IndexSound
<1>4. ASSUME NEW r \in Requests, SaveObject(r)
      PROVE  IndexSound'
  <2>. DEFINE u == req[r].user
              i == req[r].id
  <2>1. i \in Ids /\ u.email \in Emails /\ u \in User /\ u # None
    BY <1>4, RequestParts DEF SaveObject, At, User
  <2>2. users'[i].email = u.email
    BY <1>4, <2>1, SameEmail DEF SaveObject, TypeOK
  <2>3. \A e \in Emails : byEmail'[e] = IF e = u.email THEN i ELSE byEmail[e]
    BY <1>4, <2>1 DEF SaveObject, TypeOK
  <2>4. \A e \in Emails : byEmail[e] # None =>
           /\ byEmail[e] \in Ids /\ byEmail[e] \in present
           /\ users[byEmail[e]] # None /\ users[byEmail[e]].email = e
    BY <1>4 DEF IndexSound, TypeOK, SaveObject
  <2>5. \A j \in Ids : users[j] # None => users'[j].email = users[j].email
    BY <1>1, <1>4 DEF AccountKept, SaveObject
  <2>6. present' = present \cup {i}
    BY <1>4, Zenon DEF SaveObject
  <2>. QED
    BY <2>1, <2>2, <2>3, <2>4, <2>5, <2>6 DEF IndexSound
<1>5. ASSUME NEW r \in Requests, DeleteUser(r), ~db
      PROVE  IndexSound'
  <2>. DEFINE i == req[r].id
              e == req[r].user.email
  <2>1. i \in Ids /\ e \in Emails
    BY <1>5, RequestParts DEF DeleteUser, At, User
  <2>2. /\ present' = present \ {i} /\ users' = users
        /\ byEmail' = [byEmail EXCEPT ![e] = None]
    BY <1>5 DEF DeleteUser, MayFail
  <2>3. \A f \in Emails : byEmail[f] = i => f = e
    BY <1>5, <2>1, SameEmail DEF IndexSound, TypeOK
  <2>. QED
    BY <1>5, <2>1, <2>2, <2>3 DEF IndexSound, TypeOK
<1>6. ASSUME \/ \E r \in Requests :
                  \/ \E e \in Emails, p \in Choices : Signup(r, e, p) \/ Login(r, e, p)
                  \/ \E g \in Subs : GoogleBySub(r, g)
                  \/ GoogleByEmail(r) \/ SaveUpdate(r) \/ SaveReselect(r) \/ SaveInsert(r)
                  \/ AnswerSignup(r) \/ CreateSession(r)
                  \/ \E t \in Tokens, p \in Choices : Validate(r, t, p)
                  \/ Consume(r) \/ ResetPassword(r) \/ InvalidateSessions(r)
                  \/ \E i \in Ids : DeleteAccount(r, i) \/ \E p \in Choices : ChangePassword(r, i, p)
                  \/ WritePassword(r)
             \/ \E e \in Emails : ForgotPassword(e)
             \/ \E t \in Tokens : Expire(t)
             \/ UNCHANGED vars
      PROVE  byEmail' = byEmail /\ present \subseteq present'
  BY <1>6 DEF Signup, Login, GoogleBySub, GoogleByEmail, SaveUpdate, SaveReselect, SaveInsert,
              AnswerSignup, CreateSession, Validate, Consume, ResetPassword, InvalidateSessions,
              DeleteAccount, ChangePassword, WritePassword, ForgotPassword, Expire, vars
<1>. QED
  BY <1>2, <1>3, <1>4, <1>5, <1>6, Zenon DEF Next

LEMMA ModeFacts ==
    ASSUME Modes, NEW r \in Requests
    PROVE  /\ At(r, "reselect") \/ At(r, "insert") => db
           /\ At(r, "session") => db \/ users[req[r].id] # None
<1>1. At(r, "reselect") \/ At(r, "insert") => db
  BY DEF Modes
<1>2. At(r, "session") => db \/ users[req[r].id] # None
  BY DEF Modes
<1>. QED
  BY <1>1, <1>2, Zenon

\* With a database, a step keeps the emails of the accounts and makes one at
\* most, whose email no other account has.
LEMMA UniqueStep ==
    ASSUME CInv, OneAccountPerEmail, [Next]_vars
    PROVE  OneAccountPerEmail'
<1>. USE DEF CInv
<1>1. UNCHANGED db /\ \A j \in Ids : AccountKept(j)
  BY AccountStep
<1>2. CASE ~db
  BY <1>1, <1>2 DEF OneAccountPerEmail
<1>3. TypeOK'
  BY TypeStep
<1>4. \A j \in present : j \in present' => users'[j].email = users[j].email
  BY <1>1, <1>3 DEF AccountKept, TypeOK
<1>5. ASSUME present' \subseteq present
      PROVE  OneAccountPerEmail'
  BY <1>1, <1>4, <1>5 DEF OneAccountPerEmail
<1>6. ASSUME NEW r \in Requests, SaveInsert(r)
      PROVE  OneAccountPerEmail'
  <2>. DEFINE u == req[r].user
              i == req[r].id
  <2>0. At(r, "insert")
    BY <1>6, Zenon DEF SaveInsert
  <2>1. i \in Ids /\ db
    BY <2>0, RequestParts, ModeFacts DEF At
  <2>2. CASE i \in present \/ UNCHANGED present
    BY <1>5, <1>6, <2>2 DEF SaveInsert
  <2>3. CASE i \notin present /\ present' = present \cup {i} /\ HasEmail(u.email) = {} /\ users'[i] = u
    BY <1>4, <2>1, <2>3 DEF OneAccountPerEmail, HasEmail
  <2>4. \/ UNCHANGED present
        \/ /\ present' = present \cup {i}
           /\ i \notin present => HasEmail(u.email) = {}
           /\ users' = [users EXCEPT ![i] = IF i \in present THEN Upserted(@, u) ELSE u]
    BY <1>6, Zenon DEF SaveInsert
  <2>5. users' = [users EXCEPT ![i] = IF i \in present THEN Upserted(@, u) ELSE u] /\ i \notin present
           => users'[i] = u
    BY <2>1 DEF TypeOK
  <2>. QED
    BY <2>2, <2>3, <2>4, <2>5, Zenon
<1>7. ASSUME NEW r \in Requests, DeleteUser(r)
      PROVE  present' \subseteq present
  BY <1>7 DEF DeleteUser
<1>8. ASSUME \/ \E r \in Requests :
                  \/ \E e \in Emails, p \in Choices : Signup(r, e, p) \/ Login(r, e, p)
                  \/ \E g \in Subs : GoogleBySub(r, g)
                  \/ GoogleByEmail(r) \/ SaveUpdate(r) \/ SaveReselect(r)
                  \/ AnswerSignup(r) \/ CreateSession(r)
                  \/ \E t \in Tokens, p \in Choices : Validate(r, t, p)
                  \/ Consume(r) \/ ResetPassword(r) \/ InvalidateSessions(r)
                  \/ \E i \in Ids : DeleteAccount(r, i) \/ \E p \in Choices : ChangePassword(r, i, p)
                  \/ WritePassword(r)
             \/ \E e \in Emails : ForgotPassword(e)
             \/ \E t \in Tokens : Expire(t)
             \/ UNCHANGED vars
      PROVE  present' \subseteq present
  BY <1>8 DEF Signup, Login, GoogleBySub, GoogleByEmail, SaveUpdate, SaveReselect,
              AnswerSignup, CreateSession, Validate, Consume, ResetPassword, InvalidateSessions,
              DeleteAccount, ChangePassword, WritePassword, ForgotPassword, Expire, vars
<1>9. ASSUME NEW r \in Requests, SaveObject(r)
      PROVE  ~db
  BY <1>9 DEF SaveObject
<1>. QED
  BY <1>2, <1>5, <1>6, <1>7, <1>8, <1>9, Zenon DEF Next

\* What must hold of the one request that moves, for all to be in their modes.
LEMMA ModesKept ==
    ASSUME CInv, [Next]_vars, NEW r \in Requests, Alone(r),
           req'[r].pc = "reselect" \/ req'[r].pc = "insert" => db,
           req'[r].pc = "session" => db \/ users'[req'[r].id] # None
    PROVE  Modes'
<1>1. UNCHANGED db /\ \A j \in Ids : AccountKept(j)
  BY AccountStep
<1>2. ASSUME NEW q \in Requests \ {r}
      PROVE  /\ req'[q].pc = "reselect" \/ req'[q].pc = "insert" => db
             /\ req'[q].pc = "session" => db \/ users'[req'[q].id] # None
  <2>1. req'[q] = req[q]
    BY DEF Alone
  <2>2. req[q].pc = "session" => req[q].id \in Ids
    BY RequestParts DEF CInv
  <2>. QED
    <3>1. At(q, "session") => db \/ users'[req[q].id] # None
      BY <1>1, <2>2, ModeFacts DEF CInv, AccountKept, At
    <3>. QED
      BY <2>1, <3>1, ModeFacts, Zenon DEF CInv, At
<1>. QED
  BY <1>1, <1>2 DEF Modes, At

LEMMA ModesStep ==
    ASSUME CInv, [Next]_vars
    PROVE  Modes'
<1>. USE DEF CInv
<1>1. ASSUME NEW r \in Requests, NEW i \in present, NEW op,
             Begin(r, "session", op, i, users[i]), UNCHANGED users
      PROVE  Modes'
  <2>1. Alone(r) /\ req'[r].pc = "session" /\ req'[r].id = i
    BY <1>1 DEF TypeOK, Begin, Alone
  <2>. QED
    BY <1>1, <2>1, ModesKept DEF TypeOK
<1>2. ASSUME NEW r \in Requests, NEW pc, pc \notin {"reselect", "insert", "session"}, NEW op, NEW i, NEW u,
             Begin(r, pc, op, i, u)
      PROVE  Modes'
  <2>1. Alone(r) /\ req'[r].pc = pc
    BY <1>2 DEF TypeOK, Begin, Alone
  <2>. QED
    BY <1>2, <2>1, ModesKept
<1>3. ASSUME NEW r \in Requests, Done(r)
      PROVE  Modes'
  <2>1. Alone(r) /\ req'[r].pc = "idle"
    BY <1>3, RequestSteps DEF Quiet
  <2>. QED
    BY <2>1, ModesKept
<1>4. ASSUME NEW r \in Requests, NEW pc, Goto(r, pc),
             db \/ pc \notin {"reselect", "insert", "session"}
      PROVE  Modes'
  <2>1. Alone(r) /\ req'[r].pc = pc
    <3>1. req \in [Requests -> Request] /\ req[r] \in Request
      BY DEF TypeOK, Request
    <3>2. Alone(r) /\ req'[r] = [req[r] EXCEPT !.pc = pc]
      BY <1>4, <3>1 DEF Goto, Alone
    <3>. QED
      BY <3>1, <3>2 DEF Request, Quiet, Signing, Looking, Resetting
  <2>. QED
    BY <1>4, <2>1, ModesKept
<1>5. ASSUME NEW r \in Requests, NEW e \in Emails, NEW p \in Choices, Signup(r, e, p)
      PROVE  Modes'
  BY <1>2, <1>5 DEF Signup
<1>6. ASSUME NEW r \in Requests, NEW e \in Emails, NEW p \in Choices, Login(r, e, p)
      PROVE  Modes'
  BY <1>1, <1>6 DEF Login, HasEmail
<1>7. ASSUME NEW r \in Requests, NEW g \in Subs, GoogleBySub(r, g)
      PROVE  Modes'
  BY <1>1, <1>2, <1>7 DEF GoogleBySub, HasSub
<1>8. ASSUME NEW r \in Requests, GoogleByEmail(r)
      PROVE  Modes'
  BY <1>2, <1>3, <1>8 DEF GoogleByEmail
<1>9. ASSUME NEW r \in Requests, SaveUpdate(r)
      PROVE  Modes'
  BY <1>4, <1>9 DEF SaveUpdate
<1>10. ASSUME NEW r \in Requests, SaveReselect(r)
       PROVE  Modes'
  <2>1. db
    BY <1>10, ModeFacts, Zenon DEF SaveReselect
  <2>2. db'
    BY <1>10, <2>1 DEF SaveReselect
  <2>. QED
    BY <2>2, Zenon DEF Modes
<1>11. ASSUME NEW r \in Requests, SaveInsert(r)
       PROVE  Modes'
  <2>1. db
    BY <1>11, ModeFacts, Zenon DEF SaveInsert
  <2>. QED
    BY <1>3, <1>4, <1>11, <2>1 DEF SaveInsert
<1>12. ASSUME NEW r \in Requests, SaveObject(r)
       PROVE  Modes'
  <2>1. req[r].id \in Ids /\ req[r].user \in User /\ req[r] \in Signing
    BY <1>12, RequestParts DEF SaveObject, At
  <2>2. req[r].user # None
    BY <2>1
  <2>3. users'[req[r].id] # None
    BY <1>12, <2>1, <2>2 DEF SaveObject, TypeOK
  <2>4. Alone(r) /\ req'[r] = [req[r] EXCEPT !.pc = Saved(req[r].op)]
    BY <1>12, <2>1, RequestSteps DEF SaveObject, Goto, Alone, TypeOK
  <2>5. req'[r].pc = Saved(req[r].op) /\ req'[r].id = req[r].id
    BY <2>1, <2>4 DEF Signing
  <2>. QED
    BY <2>3, <2>4, <2>5, ModesKept DEF Saved
<1>13. ASSUME NEW r \in Requests, AnswerSignup(r) \/ CreateSession(r) \/ InvalidateSessions(r)
                                  \/ WritePassword(r) \/ DeleteUser(r)
       PROVE  Modes'
  BY <1>3, <1>13 DEF AnswerSignup, CreateSession, InvalidateSessions, WritePassword, DeleteUser
<1>14. ASSUME NEW r \in Requests, NEW t \in Tokens, NEW p \in Choices, Validate(r, t, p)
       PROVE  Modes'
  <2>1. Alone(r) /\ req'[r].pc \in {"consume", "password"}
    BY <1>14 DEF Validate, TypeOK, Alone
  <2>. QED
    BY <2>1, ModesKept
<1>15. ASSUME NEW r \in Requests, Consume(r)
       PROVE  Modes'
  BY <1>4, <1>15 DEF Consume
<1>16. ASSUME NEW r \in Requests, ResetPassword(r)
       PROVE  Modes'
  BY <1>3, <1>4, <1>16 DEF ResetPassword
<1>17. ASSUME NEW r \in Requests, NEW i \in Ids,
              DeleteAccount(r, i) \/ \E p \in Choices : ChangePassword(r, i, p)
       PROVE  Modes'
  BY <1>2, <1>17 DEF DeleteAccount, ChangePassword
<1>18. ASSUME \/ \E e \in Emails : ForgotPassword(e)
              \/ \E t \in Tokens : Expire(t)
              \/ UNCHANGED vars
       PROVE  Modes'
  BY <1>18 DEF ForgotPassword, Expire, vars, Modes, At
<1>. QED
  BY <1>5, <1>6, <1>7, <1>8, <1>9, <1>10, <1>11, <1>12, <1>13, <1>14, <1>15, <1>16, <1>17, <1>18, Zenon
     DEF Next

\* Sessions come from requests that are about to make one.
LEMMA SessionsStep ==
    ASSUME CInv, [Next]_vars
    PROVE  SessionsKnown'
<1>. USE DEF CInv
<1>1. UNCHANGED db /\ \A j \in Ids : AccountKept(j)
  BY AccountStep
<1>2. \A s \in sessions : s.id \in Ids
  BY DEF TypeOK
<1>3. ASSUME sessions' \subseteq sessions
      PROVE  SessionsKnown'
  <2>1. \A s \in sessions : users'[s.id] # None \/ deleted'[s.id] # None
    BY <1>1, <1>2 DEF AccountKept, SessionsKnown
  <2>. QED
    BY <1>3, <2>1 DEF SessionsKnown
<1>4. ASSUME NEW r \in Requests, CreateSession(r)
      PROVE  SessionsKnown'
  <2>1. req[r].id \in Ids /\ (db \/ users[req[r].id] # None)
    BY <1>4, RequestParts DEF CreateSession, At, Modes
  <2>2. UNCHANGED <<users, deleted>>
    BY <1>4 DEF CreateSession
  <2>3. \A s \in sessions' : s \in sessions \/ users[s.id] # None
    BY <1>4, <2>1 DEF CreateSession, TypeOK
  <2>. QED
    BY <2>2, <2>3 DEF SessionsKnown
<1>5. ASSUME \/ \E r \in Requests :
                  \/ \E e \in Emails, p \in Choices : Signup(r, e, p) \/ Login(r, e, p)
                  \/ \E g \in Subs : GoogleBySub(r, g)
                  \/ GoogleByEmail(r) \/ SaveUpdate(r) \/ SaveReselect(r) \/ SaveInsert(r) \/ SaveObject(r)
                  \/ AnswerSignup(r)
                  \/ \E t \in Tokens, p \in Choices : Validate(r, t, p)
                  \/ Consume(r) \/ ResetPassword(r) \/ InvalidateSessions(r)
                  \/ \E i \in Ids : DeleteAccount(r, i) \/ \E p \in Choices : ChangePassword(r, i, p)
                  \/ WritePassword(r) \/ DeleteUser(r)
             \/ \E e \in Emails : ForgotPassword(e)
             \/ \E t \in Tokens : Expire(t)
             \/ UNCHANGED vars
      PROVE  sessions' \subseteq sessions
  BY <1>5 DEF Signup, Login, GoogleBySub, GoogleByEmail, SaveUpdate, SaveReselect, SaveInsert, SaveObject,
              AnswerSignup, Validate, Consume, ResetPassword, InvalidateSessions, DeleteAccount,
              ChangePassword, WritePassword, DeleteUser, ForgotPassword, Expire, vars
<1>. QED
  BY <1>3, <1>4, <1>5, Zenon DEF Next

\* Tokens stay, and stay used.
TokenKept(t) ==
    resets[t] # None => /\ resets'[t] # None
                        /\ resets[t].used => resets'[t].used

LEMMA TokenStep ==
    ASSUME CInv, [Next]_vars
    PROVE  \A t \in Tokens : TokenKept(t)
<1>. USE DEF CInv
<1>1. ASSUME NEW t \in Tokens, resets[t] # None, NEW b \in BOOLEAN,
             \/ resets' = [resets EXCEPT ![t] = [resets[t] EXCEPT !.used = TRUE]]
             \/ resets' = [resets EXCEPT ![t] = [resets[t] EXCEPT !.expired = b]]
      PROVE  \A x \in Tokens : TokenKept(x)
  <2>1. resets[t] \in Reset
    BY <1>1 DEF TypeOK
  <2>2. /\ [resets[t] EXCEPT !.used = TRUE] \in Reset /\ [resets[t] EXCEPT !.used = TRUE].used
        /\ [resets[t] EXCEPT !.expired = b] \in Reset
        /\ [resets[t] EXCEPT !.expired = b].used = resets[t].used
    BY <2>1 DEF Reset
  <2>. QED
    BY <1>1, <2>2 DEF TokenKept, TypeOK
<1>2. ASSUME NEW e \in Emails, ForgotPassword(e)
      PROVE  \A t \in Tokens : TokenKept(t)
  BY <1>2 DEF ForgotPassword, TokenKept, TypeOK
<1>3. ASSUME NEW t \in Tokens, Expire(t)
      PROVE  \A x \in Tokens : TokenKept(x)
  BY <1>1, <1>3 DEF Expire
<1>4. ASSUME NEW r \in Requests, NEW t \in Tokens, NEW p \in Choices, Validate(r, t, p)
      PROVE  \A x \in Tokens : TokenKept(x)
  <2>1. UNCHANGED resets \/ resets' = [resets EXCEPT ![t] = [resets[t] EXCEPT !.used = TRUE]]
    BY <1>4 DEF Validate
  <2>. QED
    BY <1>1, <1>4, <2>1 DEF Validate, Usable, TokenKept
<1>5. ASSUME NEW r \in Requests, Consume(r)
      PROVE  \A x \in Tokens : TokenKept(x)
  <2>1. req[r].token \in Tokens /\ resets[req[r].token] # None
    BY <1>5, RequestParts DEF Consume, At, TokensExist
  <2>2. \/ UNCHANGED resets
        \/ resets' = [resets EXCEPT ![req[r].token] = [resets[req[r].token] EXCEPT !.used = TRUE]]
    BY <1>5 DEF Consume
  <2>. QED
    BY <1>1, <2>1, <2>2 DEF TokenKept
<1>6. ASSUME \/ \E r \in Requests :
                  \/ \E e \in Emails, p \in Choices : Signup(r, e, p) \/ Login(r, e, p)
                  \/ \E g \in Subs : GoogleBySub(r, g)
                  \/ GoogleByEmail(r) \/ SaveUpdate(r) \/ SaveReselect(r) \/ SaveInsert(r) \/ SaveObject(r)
                  \/ AnswerSignup(r) \/ CreateSession(r)
                  \/ ResetPassword(r) \/ InvalidateSessions(r)
                  \/ \E i \in Ids : DeleteAccount(r, i) \/ \E p \in Choices : ChangePassword(r, i, p)
                  \/ WritePassword(r) \/ DeleteUser(r)
             \/ UNCHANGED vars
      PROVE  \A t \in Tokens : TokenKept(t)
  <2>1. UNCHANGED resets
    BY <1>6 DEF Signup, Login, GoogleBySub, GoogleByEmail, SaveUpdate, SaveReselect, SaveInsert, SaveObject,
                AnswerSignup, CreateSession, ResetPassword, InvalidateSessions, DeleteAccount,
                ChangePassword, WritePassword, DeleteUser, vars
  <2>. QED
    BY <2>1 DEF TokenKept
<1>. QED
  BY <1>2, <1>3, <1>4, <1>5, <1>6, Zenon DEF Next

\* What a step makes of the requests at the statements of a reset.
LEMMA ResetSteps ==
    ASSUME CInv, [Next]_vars, NEW q \in Requests
    PROVE  /\ At(q, "consume")' =>
                 \/ req'[q] = req[q]
                 \/ \E t \in Tokens, p \in Choices : Validate(q, t, p) /\ req'[q].token = t
           /\ At(q, "password")' =>
                 \/ req'[q] = req[q]
                 \/ Consume(q) /\ req'[q].token = req[q].token
                 \/ ~db /\ \E t \in Tokens, p \in Choices : Validate(q, t, p) /\ req'[q].token = t
           /\ At(q, "invalidate")' =>
                 req'[q] = req[q] \/ (ResetPassword(q) /\ req'[q].token = req[q].token)
<1>. DEFINE G == /\ At(q, "consume")' =>
                       \/ req'[q] = req[q]
                       \/ \E t \in Tokens, p \in Choices : Validate(q, t, p) /\ req'[q].token = t
                 /\ At(q, "password")' =>
                       \/ req'[q] = req[q]
                       \/ Consume(q) /\ req'[q].token = req[q].token
                       \/ ~db /\ \E t \in Tokens, p \in Choices : Validate(q, t, p) /\ req'[q].token = t
                 /\ At(q, "invalidate")' =>
                       req'[q] = req[q] \/ (ResetPassword(q) /\ req'[q].token = req[q].token)
<1>0. req \in [Requests -> Request] /\ req[q] \in Request
  BY DEF CInv, TypeOK, Request
<1>1. ASSUME req'[q] = req[q] \/ req'[q].pc \notin {"consume", "password", "invalidate"}
      PROVE  G
  BY <1>1 DEF At
<1>2. ASSUME NEW r \in Requests, NEW x, req' = [req EXCEPT ![r] = x],
             x.pc \notin {"consume", "password", "invalidate"}
      PROVE  G
  <2>1. req'[q] = req[q] \/ req'[q].pc \notin {"consume", "password", "invalidate"}
    BY <1>0, <1>2
  <2>. QED
    BY <1>1, <2>1
<1>3. ASSUME NEW r \in Requests, Done(r)
      PROVE  G
  BY <1>2, <1>3 DEF Done, Quiet
<1>4. ASSUME NEW r \in Requests, NEW pc, Goto(r, pc), pc \notin {"consume", "password", "invalidate"}
      PROVE  G
  <2>1. req[r] \in Request
    BY DEF CInv, TypeOK, Request
  <2>2. [req[r] EXCEPT !.pc = pc].pc = pc
    BY <2>1 DEF Request, Quiet, Signing, Looking, Resetting
  <2>. QED
    BY <1>2, <1>4, <2>2 DEF Goto
<1>5. ASSUME NEW r \in Requests, NEW pc, NEW op, NEW i, NEW u, Begin(r, pc, op, i, u),
             pc \notin {"consume", "password", "invalidate"}
      PROVE  G
  BY <1>2, <1>5 DEF Begin
<1>. HIDE DEF G
<1>6. ASSUME NEW r \in Requests,
             \/ \E e \in Emails, p \in Choices : Signup(r, e, p) \/ Login(r, e, p)
             \/ \E g \in Subs : GoogleBySub(r, g)
             \/ GoogleByEmail(r)
             \/ \E i \in Ids : DeleteAccount(r, i) \/ \E p \in Choices : ChangePassword(r, i, p)
      PROVE  G
  <2>1. ASSUME NEW e \in Emails, NEW p \in Choices, Signup(r, e, p)
        PROVE  G
    BY <1>5, <2>1 DEF Signup
  <2>2. ASSUME NEW e \in Emails, NEW p \in Choices, Login(r, e, p)
        PROVE  G
    BY <1>5, <2>2 DEF Login
  <2>3. ASSUME NEW g \in Subs, GoogleBySub(r, g)
        PROVE  G
    BY <1>5, <2>3 DEF GoogleBySub
  <2>4. ASSUME GoogleByEmail(r)
        PROVE  G
    <3>1. ASSUME NEW op, NEW i, NEW u, Begin(r, "save", op, i, u)
          PROVE  G
      BY <1>5, <3>1
    <3>. QED
      BY <1>3, <2>4, <3>1, Zenon DEF GoogleByEmail
  <2>5. ASSUME NEW i \in Ids, NEW p \in Choices, ChangePassword(r, i, p)
        PROVE  G
    BY <1>5, <2>5 DEF ChangePassword
  <2>6. ASSUME NEW i \in Ids, DeleteAccount(r, i)
        PROVE  G
    BY <1>5, <2>6 DEF DeleteAccount
  <2>. QED
    BY <1>6, <2>1, <2>2, <2>3, <2>4, <2>5, <2>6, Zenon
<1>7. ASSUME NEW r \in Requests, SaveUpdate(r) \/ SaveInsert(r) \/ SaveObject(r)
      PROVE  G
  BY <1>3, <1>4, <1>7 DEF SaveUpdate, SaveInsert, SaveObject, Saved
<1>8. ASSUME NEW r \in Requests, SaveReselect(r)
      PROVE  G
  <2>1. ASSUME NEW i, req' = [req EXCEPT ![r].id = i, ![r].pc = Saved(req[r].op)]
        PROVE  G
    <3>1. req' = [req EXCEPT ![r] = [req[r] EXCEPT !.id = i, !.pc = Saved(req[r].op)]]
      BY <2>1, <1>0, Zenon
    <3>2. req[r] \in Signing
      BY <1>8, RequestParts DEF SaveReselect, At, CInv
    <3>3. [req[r] EXCEPT !.id = i, !.pc = Saved(req[r].op)].pc = Saved(req[r].op)
      BY <3>2 DEF Signing
    <3>4. Saved(req[r].op) \notin {"consume", "password", "invalidate"}
      BY DEF Saved
    <3>. DEFINE x == [req[r] EXCEPT !.id = i, !.pc = Saved(req[r].op)]
    <3>5. req' = [req EXCEPT ![r] = x] /\ x.pc \notin {"consume", "password", "invalidate"}
      BY <3>1, <3>3, <3>4
    <3>. HIDE DEF x
    <3>. QED
      BY <1>2, <3>5
  <2>. QED
    BY <1>4, <1>8, <2>1 DEF SaveReselect, Saved
<1>9. ASSUME NEW r \in Requests, AnswerSignup(r) \/ CreateSession(r) \/ InvalidateSessions(r)
                                 \/ WritePassword(r) \/ DeleteUser(r)
      PROVE  G
  BY <1>3, <1>9, Zenon DEF AnswerSignup, CreateSession, InvalidateSessions, WritePassword, DeleteUser
<1>10. ASSUME NEW r \in Requests, NEW t \in Tokens, NEW p \in Choices, Validate(r, t, p)
       PROVE  G
  <2>1. Alone(r) /\ req'[r].token = t /\ req'[r].pc = (IF db THEN "consume" ELSE "password")
    BY <1>0, <1>10 DEF Validate, Alone
  <2>. QED
    BY <1>10, <2>1 DEF G, Alone, At
<1>11. ASSUME NEW r \in Requests, Consume(r)
       PROVE  G
  <2>1. req[r] \in Resetting
    BY <1>11, RequestParts DEF Consume, At, CInv
  <2>2. Alone(r) /\ req'[r] = [req[r] EXCEPT !.pc = "password"]
    BY <1>0, <1>11 DEF Consume, Goto, Alone
  <2>3. req'[r].pc = "password" /\ req'[r].token = req[r].token
    BY <2>1, <2>2 DEF Resetting
  <2>. QED
    BY <1>11, <2>2, <2>3 DEF G, Alone, At
<1>12. ASSUME NEW r \in Requests, ResetPassword(r)
       PROVE  G
  <2>1. req[r] \in Resetting
    BY <1>12, RequestParts DEF ResetPassword, At, CInv
  <2>2. ASSUME Goto(r, "invalidate")
        PROVE  G
    <3>1. Alone(r) /\ req'[r] = [req[r] EXCEPT !.pc = "invalidate"]
      BY <1>0, <2>2 DEF Goto, Alone
    <3>2. req'[r].pc = "invalidate" /\ req'[r].token = req[r].token
      BY <2>1, <3>1 DEF Resetting
    <3>. QED
      BY <1>12, <3>1, <3>2 DEF G, Alone, At
  <2>. QED
    BY <1>3, <1>12, <2>2 DEF ResetPassword
<1>13. ASSUME \/ \E e \in Emails : ForgotPassword(e)
              \/ \E t \in Tokens : Expire(t)
              \/ UNCHANGED vars
       PROVE  G
  BY <1>1, <1>13 DEF ForgotPassword, Expire, vars
<1>14. G
  BY <1>6, <1>7, <1>8, <1>9, <1>10, <1>11, <1>12, <1>13, Zenon DEF Next
<1>. QED
  BY <1>14 DEF G

LEMMA TokensExistStep ==
    ASSUME CInv, [Next]_vars
    PROVE  TokensExist'
<1>1. SUFFICES ASSUME NEW q \in Requests, At(q, "consume")'
               PROVE  resets'[req'[q].token] # None
  BY DEF TokensExist
<1>2. CASE req'[q] = req[q]
  <2>1. At(q, "consume") /\ req[q].token \in Tokens
    BY <1>1, <1>2, RequestParts DEF At, CInv
  <2>. QED
    BY <1>2, <2>1, TokenStep DEF CInv, TokensExist, TokenKept
<1>3. ASSUME NEW t \in Tokens, NEW p \in Choices, Validate(q, t, p), req'[q].token = t
      PROVE  resets'[req'[q].token] # None
  BY <1>3, TokenStep DEF Validate, Usable, TokenKept
<1>. QED
  BY <1>1, <1>2, <1>3, ResetSteps, Zenon
-----------------------------------------------------------------------------
LEMMA CInvInit ==
    ASSUME Init
    PROVE  CInv
<1>1. TypeOK /\ TokensExist /\ IndexSound /\ Modes /\ SessionsKnown
  BY DEF Init, Quiet, At, TypeOK, TokensExist, IndexSound, Modes, SessionsKnown
<1>2. OwnUsers
  BY DEF Init, Quiet, OwnUsers
<1>3. ASSUME NEW i \in Ids, NEW e \in Emails
      PROVE  ~Knows(i, e)
  BY NoneAssumption DEF Init, Quiet, Knows
<1>4. OneEmailPerId
  BY <1>3 DEF OneEmailPerId
<1>. QED
  BY <1>1, <1>2, <1>4 DEF CInv

LEMMA CInvStep ==
    ASSUME CInv, [Next]_vars
    PROVE  CInv'
<1>1. TypeOK'
  BY TypeStep DEF CInv
<1>2. Cred' /\ TokensExist' /\ IndexSound' /\ Modes' /\ SessionsKnown'
  BY CredStep, TokensExistStep, IndexStep, ModesStep, SessionsStep
<1>. QED
  BY <1>1, <1>2 DEF CInv, Cred

LEMMA CInvHolds == Spec => []CInv
BY CInvInit, CInvStep, PTL DEF Spec

\* Users, requests and tokens keep their form, also when a handler goes on
\* with what it has read before other statements.
THEOREM TypeCorrect == Spec => []TypeOK
<1>1. CInv => TypeOK
  BY DEF CInv
<1>. QED
  BY <1>1, CInvHolds, PTL

\* Without a database, the map byEmail never leads to a missing or wrong user.
THEOREM IndexIsSound == Spec => []IndexSound
<1>1. CInv => IndexSound
  BY DEF CInv
<1>. QED
  BY <1>1, CInvHolds, PTL

\* With a database, an email has at most one account, whatever the statements
\* of saveUser in several requests do.
THEOREM UniqueAccounts == Spec => []OneAccountPerEmail
<1>1. Init => OneAccountPerEmail
  BY DEF Init, OneAccountPerEmail
<1>2. CInv /\ OneAccountPerEmail /\ [Next]_vars => OneAccountPerEmail'
  BY UniqueStep
<1>. QED
  BY <1>1, <1>2, CInvHolds, PTL DEF Spec

\* A password stays with the email it was set under, an identity with its email,
\* and a session with an account of the email that was signed in with: an id
\* stands for one email for ever (OneEmailPerId), and every copy of a user holds
\* credentials of its own email only, however stale it is (OwnUsers).
THEOREM CredentialsKeepTheirEmail == Spec => []CredentialsStayWithEmail
<1>1. ASSUME CInv
      PROVE  CredentialsStayWithEmail
  <2>1. ASSUME NEW i \in present
        PROVE  Own(users[i])
    BY <1>1, <2>1 DEF CInv, TypeOK, OwnUsers
  <2>2. ASSUME NEW s \in sessions, s.id \in present
        PROVE  s.who = users[s.id].email
    <3>1. s.id \in Ids /\ s.who \in Emails /\ users[s.id] # None /\ users[s.id].email \in Emails
      BY <1>1, <2>2 DEF CInv, TypeOK, User
    <3>2. Knows(s.id, s.who) /\ Knows(s.id, users[s.id].email)
      BY <3>1, SessionKnown, UserKnown
    <3>. QED
      BY <1>1, <3>1, <3>2 DEF CInv, OneEmailPerId
  <2>. QED
    BY <2>1, <2>2 DEF CredentialsStayWithEmail, Own
<1>. QED
  BY <1>1, CInvHolds, PTL
-----------------------------------------------------------------------------
(* A reset is answered only when its token is marked, unless the UPDATE that
   marks it fails. *)
Marked(t) == resets[t] # None /\ resets[t].used
NowMarked(t) == resets'[t] # None /\ resets'[t].used

UsedInv ==
    /\ \A r \in Requests : At(r, "password") \/ At(r, "invalidate") => Marked(req[r].token)
    /\ \A t \in answered : Marked(t)

LEMMA MarkedStays ==
    ASSUME CInv, [Next]_vars, NEW t \in Tokens, Marked(t)
    PROVE  NowMarked(t)
BY TokenStep DEF Marked, NowMarked, TokenKept

LEMMA UsedStep ==
    ASSUME "consume" \notin Failing, CInv, UsedInv, [Next]_vars
    PROVE  UsedInv'
<1>1. \A t \in Tokens : Marked(t) => NowMarked(t)
  BY MarkedStays
<1>2. \A r \in Requests : At(r, "password") \/ At(r, "invalidate") => req[r].token \in Tokens
  BY RequestParts DEF CInv, At
<1>3. ASSUME NEW q \in Requests, At(q, "password")'
      PROVE  NowMarked(req'[q].token)
  <2>1. CASE req'[q] = req[q]
    <3>1. At(q, "password") /\ Marked(req[q].token) /\ req[q].token \in Tokens
      BY <1>2, <1>3, <2>1 DEF At, UsedInv
    <3>. QED
      BY <1>1, <2>1, <3>1 DEF Marked, NowMarked
  <2>2. CASE Consume(q) /\ req'[q].token = req[q].token
    <3>1. req[q].token \in Tokens /\ resets[req[q].token] # None /\ resets[req[q].token] \in Reset
      BY <2>2, RequestParts DEF Consume, At, CInv, TypeOK, TokensExist
    <3>2. resets' = [resets EXCEPT ![req[q].token] = [resets[req[q].token] EXCEPT !.used = TRUE]]
      BY <2>2 DEF Consume, MayFail
    <3>3. resets'[req[q].token] = [resets[req[q].token] EXCEPT !.used = TRUE]
      BY <3>1, <3>2 DEF CInv, TypeOK
    <3>4. [resets[req[q].token] EXCEPT !.used = TRUE] \in Reset
      BY <3>1 DEF Reset
    <3>5. [resets[req[q].token] EXCEPT !.used = TRUE].used
      BY <3>1 DEF Reset
    <3>. QED
      BY <2>2, <3>3, <3>4, <3>5, NoneAssumption DEF Marked, NowMarked
  <2>3. ASSUME ~db, NEW t \in Tokens, NEW p \in Choices, Validate(q, t, p), req'[q].token = t
        PROVE  NowMarked(req'[q].token)
    <3>1. resets[t] # None /\ resets[t] \in Reset
      BY <2>3 DEF Validate, Usable, CInv, TypeOK
    <3>2. resets' = [resets EXCEPT ![t] = [resets[t] EXCEPT !.used = TRUE]]
      BY <2>3 DEF Validate
    <3>3. resets'[t] = [resets[t] EXCEPT !.used = TRUE]
      BY <3>2 DEF CInv, TypeOK
    <3>4. [resets[t] EXCEPT !.used = TRUE] \in Reset
      BY <3>1 DEF Reset
    <3>5. [resets[t] EXCEPT !.used = TRUE].used
      BY <3>1 DEF Reset
    <3>. QED
      BY <2>3, <3>3, <3>4, <3>5, NoneAssumption DEF Marked, NowMarked
  <2>. QED
    BY <1>3, <2>1, <2>2, <2>3, ResetSteps, Zenon
<1>4. ASSUME NEW q \in Requests, At(q, "invalidate")'
      PROVE  NowMarked(req'[q].token)
  <2>1. CASE req'[q] = req[q]
    <3>1. At(q, "invalidate") /\ Marked(req[q].token) /\ req[q].token \in Tokens
      BY <1>2, <1>4, <2>1 DEF At, UsedInv
    <3>. QED
      BY <1>1, <2>1, <3>1 DEF Marked, NowMarked
  <2>2. CASE ResetPassword(q) /\ req'[q].token = req[q].token
    <3>1. At(q, "password") /\ Marked(req[q].token) /\ req[q].token \in Tokens
      BY <1>2, <2>2 DEF ResetPassword, UsedInv
    <3>. QED
      BY <1>1, <2>2, <3>1 DEF Marked, NowMarked
  <2>. QED
    BY <1>4, <2>1, <2>2, ResetSteps, Zenon
<1>5. ASSUME NEW t \in answered'
      PROVE  NowMarked(t)
  <2>1. \/ t \in answered
        \/ \E r \in Requests : (At(r, "password") \/ At(r, "invalidate")) /\ t = req[r].token
    <3>1. ASSUME NEW r \in Requests, ResetPassword(r)
          PROVE  t \in answered \/ (At(r, "password") /\ t = req[r].token)
      BY <1>5, <3>1 DEF ResetPassword
    <3>2. ASSUME NEW r \in Requests, InvalidateSessions(r)
          PROVE  t \in answered \/ (At(r, "invalidate") /\ t = req[r].token)
      BY <1>5, <3>2 DEF InvalidateSessions
    <3>3. ASSUME \/ \E r \in Requests :
                       \/ \E e \in Emails, p \in Choices : Signup(r, e, p) \/ Login(r, e, p)
                       \/ \E g \in Subs : GoogleBySub(r, g)
                       \/ GoogleByEmail(r) \/ SaveUpdate(r) \/ SaveReselect(r) \/ SaveInsert(r)
                       \/ SaveObject(r) \/ AnswerSignup(r) \/ CreateSession(r)
                       \/ \E x \in Tokens, p \in Choices : Validate(r, x, p)
                       \/ Consume(r)
                       \/ \E i \in Ids : DeleteAccount(r, i) \/ \E p \in Choices : ChangePassword(r, i, p)
                       \/ WritePassword(r) \/ DeleteUser(r)
                 \/ \E e \in Emails : ForgotPassword(e)
                 \/ \E x \in Tokens : Expire(x)
                 \/ UNCHANGED vars
          PROVE  t \in answered
      BY <1>5, <3>3 DEF Signup, Login, GoogleBySub, GoogleByEmail, SaveUpdate, SaveReselect, SaveInsert,
                   SaveObject, AnswerSignup, CreateSession, Validate, Consume, DeleteAccount,
                   ChangePassword, WritePassword, DeleteUser, ForgotPassword, Expire, vars
    <3>. QED
      BY <3>1, <3>2, <3>3, Zenon DEF Next
  <2>2. t \in Tokens /\ Marked(t)
    BY <1>2, <2>1 DEF UsedInv, CInv, TypeOK
  <2>. QED
    BY <1>1, <2>2
<1>. QED
  BY <1>3, <1>4, <1>5 DEF UsedInv, Marked, NowMarked

\* The token of a reset that was answered with success is refused from then
\* on, if the UPDATE that marks it does not fail.
THEOREM UsedTokensRefused ==
    ASSUME "consume" \notin Failing
    PROVE  Spec => []AnsweredTokenRefused
<1>1. Init => UsedInv
  BY DEF Init, Quiet, At, UsedInv
<1>2. CInv /\ UsedInv /\ [Next]_vars => UsedInv'
  BY UsedStep
<1>3. UsedInv => AnsweredTokenRefused
  BY DEF UsedInv, Marked, AnsweredTokenRefused, Usable
<1>. QED
  BY <1>1, <1>2, <1>3, CInvHolds, PTL DEF Spec
-----------------------------------------------------------------------------
(* A sign-in goes on under the id of an account: the row that SaveUpdate or
   SaveInsert wrote is found again by its email, unless it was deleted. *)
Gone(e) == \E i \in Ids : deleted[i] = e
There(r) == req[r].id \in present \/ Gone(req[r].user.email)
Registered(e) == \E i \in present : users[i].email = e

SignAt(r) ==
    /\ At(r, "session") => There(r)
    /\ At(r, "reselect") => Registered(req[r].user.email) \/ Gone(req[r].user.email)
    /\ (At(r, "save") \/ At(r, "insert")) /\ req[r].op = "avatar" => There(r)
SignInv == \A r \in Requests : SignAt(r)

\* The same of the next state (a prime does not go under a bound name).
NowGone(e) == \E i \in Ids : deleted'[i] = e
NowThere(r) == req'[r].id \in present' \/ NowGone(req'[r].user.email)
NowRegistered(e) == \E i \in present' : users'[i].email = e
NowSignAt(r) ==
    /\ req'[r].pc = "session" => NowThere(r)
    /\ req'[r].pc = "reselect" => NowRegistered(req'[r].user.email) \/ NowGone(req'[r].user.email)
    /\ (req'[r].pc = "save" \/ req'[r].pc = "insert") /\ req'[r].op = "avatar" => NowThere(r)

LEMMA GoneStays ==
    ASSUME CInv, [Next]_vars, NEW e \in Emails
    PROVE  Gone(e) => NowGone(e)
<1>1. \A j \in Ids : AccountKept(j)
  BY AccountStep
<1>. QED
  BY <1>1, NoneAssumption DEF Gone, NowGone, AccountKept

\* An account that a request goes on with is still there, or was deleted.
LEMMA PresentStays ==
    ASSUME CInv, [Next]_vars, NEW i \in present
    PROVE  (i \in present' /\ users'[i].email = users[i].email) \/ NowGone(users[i].email)
<1>1. AccountKept(i) /\ i \in Ids /\ users[i] # None
  BY AccountStep DEF CInv, TypeOK
<1>2. TypeOK'
  BY TypeStep DEF CInv
<1>3. i \in present' => users'[i] # None
  BY <1>2 DEF TypeOK
<1>. QED
  BY <1>1, <1>3 DEF AccountKept, NowGone

LEMMA RegisteredStays ==
    ASSUME CInv, [Next]_vars, NEW e \in Emails, Registered(e)
    PROVE  NowRegistered(e) \/ NowGone(e)
BY PresentStays DEF Registered, NowRegistered

LEMMA ThereStays ==
    ASSUME CInv, [Next]_vars, NEW r \in Requests, There(r), req[r].user.email \in Emails
    PROVE  req[r].id \in present' \/ NowGone(req[r].user.email)
<1>1. CASE Gone(req[r].user.email)
  BY <1>1, GoneStays
<1>2. CASE req[r].id \in present
  <2>1. req[r].id \in Ids /\ users[req[r].id] # None
    BY <1>2 DEF CInv, TypeOK
  <2>2. users[req[r].id].email = req[r].user.email
    BY <2>1, SameEmail DEF CInv
  <2>. QED
    BY <1>2, <2>2, PresentStays
<1>. QED
  BY <1>1, <1>2 DEF There

LEMMA SignEmails ==
    ASSUME CInv, NEW r \in Requests, req[r].pc \in {"session", "reselect", "save", "insert"}
    PROVE  req[r] \in Signing /\ req[r].user \in User /\ req[r].user.email \in Emails
BY RequestParts DEF CInv, At, Signing, User

LEMMA SignStays ==
    ASSUME CInv, SignInv, [Next]_vars, NEW q \in Requests, req'[q] = req[q]
    PROVE  NowSignAt(q)
<1>1. SignAt(q)
  BY DEF SignInv
<1>2. ASSUME req[q].pc \in {"session", "save", "insert"}, There(q)
      PROVE  NowThere(q)
  BY <1>2, SignEmails, ThereStays DEF NowThere
<1>3. ASSUME At(q, "reselect")
      PROVE  NowRegistered(req[q].user.email) \/ NowGone(req[q].user.email)
  BY <1>1, <1>3, SignEmails, RegisteredStays, GoneStays DEF SignAt, At
<1>. QED
  BY <1>1, <1>2, <1>3 DEF SignAt, NowSignAt, At

LEMMA SignMoves ==
    ASSUME CInv, SignInv, [Next]_vars, NEW r \in Requests, Alone(r), NowSignAt(r)
    PROVE  \A q \in Requests : NowSignAt(q)
BY SignStays DEF Alone

\* A request whose pc is not one of these has nothing to keep.
LEMMA SignQuiet ==
    ASSUME NEW r \in Requests, req'[r].pc \notin {"session", "reselect", "save", "insert"}
    PROVE  NowSignAt(r)
BY DEF NowSignAt

\* A request that only went on with its statements.
LEMMA SignGoto ==
    ASSUME CInv, NEW r \in Requests, NEW pc, Goto(r, pc)
    PROVE  /\ Alone(r)
           /\ req'[r].pc = pc
           /\ req'[r].id = req[r].id
           /\ req'[r].user = req[r].user
           /\ req'[r].op = req[r].op
<1>1. req \in [Requests -> Request] /\ req[r] \in Request
  BY DEF CInv, TypeOK, Request
<1>2. Alone(r) /\ req'[r] = [req[r] EXCEPT !.pc = pc]
  BY <1>1 DEF Goto, Alone
<1>. QED
  BY <1>1, <1>2 DEF Request, Quiet, Signing, Looking, Resetting

\* A request that begins with a user that was found.
LEMMA SignFound ==
    ASSUME CInv, SignInv, [Next]_vars, UNCHANGED present, NEW r \in Requests, NEW pc, NEW op,
           NEW i \in present, Begin(r, pc, op, i, users[i]), pc # "reselect"
    PROVE  \A q \in Requests : NowSignAt(q)
<1>1. Alone(r) /\ req'[r] = [pc |-> pc, op |-> op, id |-> i, user |-> users[i], token |-> None]
  BY DEF CInv, TypeOK, Begin, Alone
<1>2. NowSignAt(r)
  BY <1>1 DEF NowSignAt, NowThere
<1>. QED
  BY <1>1, <1>2, SignMoves

\* A request that ends, or begins with something else than a found user.
LEMMA SignOther ==
    ASSUME CInv, SignInv, [Next]_vars, NEW r \in Requests,
           \/ Done(r)
           \/ \E pc, op, i, u : /\ Begin(r, pc, op, i, u)
                                /\ pc \notin {"session", "reselect", "insert"}
                                /\ pc = "save" => op # "avatar"
    PROVE  \A q \in Requests : NowSignAt(q)
<1>1. Alone(r) /\ (Done(r) => req'[r].pc = "idle")
  BY DEF CInv, TypeOK, Begin, Done, Alone, Quiet
<1>2. \A pc, op, i, u : Begin(r, pc, op, i, u) => req'[r].pc = pc /\ req'[r].op = op
  BY DEF CInv, TypeOK, Begin
<1>3. NowSignAt(r)
  BY <1>1, <1>2 DEF NowSignAt
<1>. QED
  BY <1>1, <1>3, SignMoves

LEMMA SignStep ==
    ASSUME "reselect" \notin Failing, CInv, SignInv, [Next]_vars
    PROVE  \A q \in Requests : NowSignAt(q)
<1>. DEFINE Goal == \A q \in Requests : NowSignAt(q)
<1>1. ASSUME NEW r \in Requests,
             \/ \E e \in Emails, p \in Choices : Signup(r, e, p)
             \/ \E i \in Ids : DeleteAccount(r, i) \/ \E p \in Choices : ChangePassword(r, i, p)
             \/ AnswerSignup(r) \/ CreateSession(r) \/ InvalidateSessions(r)
             \/ WritePassword(r) \/ DeleteUser(r)
      PROVE  Goal
  <2>1. ASSUME NEW e \in Emails, NEW p \in Choices, Signup(r, e, p)
        PROVE  Goal
    BY <2>1, SignOther DEF Signup
  <2>2. ASSUME NEW i \in Ids, DeleteAccount(r, i)
        PROVE  Goal
    BY <2>2, SignOther DEF DeleteAccount
  <2>3. ASSUME NEW i \in Ids, NEW p \in Choices, ChangePassword(r, i, p)
        PROVE  Goal
    BY <2>3, SignOther DEF ChangePassword
  <2>4. ASSUME AnswerSignup(r) \/ CreateSession(r) \/ InvalidateSessions(r)
                  \/ WritePassword(r) \/ DeleteUser(r)
        PROVE  Goal
    BY <2>4, SignOther, Zenon
       DEF AnswerSignup, CreateSession, InvalidateSessions, WritePassword, DeleteUser
  <2>. QED
    BY <1>1, <2>1, <2>2, <2>3, <2>4, Zenon
<1>2. ASSUME NEW r \in Requests, NEW e \in Emails, NEW p \in Choices, Login(r, e, p)
      PROVE  Goal
  <2>1. PICK i \in HasEmail(e) : Begin(r, "session", "login", i, users[i])
    BY <1>2 DEF Login
  <2>. QED
    BY <1>2, <2>1, SignFound DEF Login, HasEmail
<1>3. ASSUME NEW r \in Requests, NEW g \in Subs, GoogleBySub(r, g)
      PROVE  Goal
  <2>1. ASSUME NEW i \in HasSub(g),
               Begin(r, "session", "google", i, users[i]) \/ Begin(r, "save", "avatar", i, users[i])
        PROVE  Goal
    BY <1>3, <2>1, SignFound DEF GoogleBySub, HasSub
  <2>2. ASSUME Begin(r, "byEmail", "google", None,
                     [email |-> GoogleEmail[g], pw |-> None, google |-> g])
        PROVE  Goal
    BY <2>2, SignOther
  <2>. QED
    BY <1>3, <2>1, <2>2, Zenon DEF GoogleBySub
<1>4. ASSUME NEW r \in Requests, GoogleByEmail(r)
      PROVE  Goal
  <2>1. ASSUME NEW i, NEW op, NEW u, Begin(r, "save", op, i, u), op # "avatar"
        PROVE  Goal
    BY <2>1, SignOther
  <2>2. ASSUME Done(r)
        PROVE  Goal
    BY <2>2, SignOther
  <2>3. "link" # "avatar" /\ "join" # "avatar"
    OBVIOUS
  <2>. HIDE DEF Goal
  <2>. QED
    BY <1>4, <2>1, <2>2, <2>3, Zenon DEF GoogleByEmail
<1>5. ASSUME NEW r \in Requests, SaveUpdate(r)
      PROVE  Goal
  <2>. DEFINE u == req[r].user
              hit == Matching(req[r].id, u)
  <2>1. req[r] \in Signing /\ u \in User /\ u.email \in Emails
    BY <1>5, SignEmails DEF SaveUpdate, At
  <2>2. SignAt(r)
    BY DEF SignInv
  <2>3. ASSUME Cardinality(hit) = 1, Goto(r, "reselect"), UNCHANGED present,
               users' = [i \in Ids |-> IF i \in hit THEN Overwritten(users[i], u) ELSE users[i]]
        PROVE  Goal
    <3>1. hit # {}
      <4>1. Cardinality({}) = 0 /\ 0 # 1
        BY FS_EmptySet
      <4>. HIDE DEF hit, Goal, u
      <4>. QED
        BY <2>3, <4>1
    <3>2. PICK j \in hit : TRUE
      BY <3>1
    <3>3. j \in present /\ j \in Ids
      BY <3>2 DEF Matching, CInv, TypeOK
    <3>4. users'[j].email = u.email
      BY <2>3, <3>2, <3>3 DEF Overwritten
    <3>5. NowRegistered(u.email)
      BY <2>3, <3>3, <3>4 DEF NowRegistered
    <3>. QED
      BY <2>3, <3>5, SignGoto, SignMoves DEF NowSignAt
  <2>4. ASSUME Goto(r, "insert")
        PROVE  Goal
    <3>1. /\ Alone(r) /\ req'[r].pc = "insert" /\ req'[r].id = req[r].id
          /\ req'[r].user = req[r].user /\ req'[r].op = req[r].op
      BY <2>4, SignGoto
    <3>2. req'[r].op = "avatar" => NowThere(r)
      BY <1>5, <2>1, <2>2, <3>1, ThereStays DEF SaveUpdate, SignAt, NowThere, At
    <3>. QED
      BY <3>1, <3>2, SignMoves DEF NowSignAt
  <2>. QED
    BY <1>5, <2>3, <2>4, Zenon DEF SaveUpdate
<1>6. ASSUME NEW r \in Requests, SaveReselect(r)
      PROVE  Goal
  <2>. DEFINE e == req[r].user.email
  <2>1. req[r] \in Signing /\ e \in Emails
    BY <1>6, SignEmails DEF SaveReselect, At
  <2>2. db /\ ~MayFail("reselect")
    BY <1>6, ModeFacts, Zenon DEF SaveReselect, CInv, MayFail
  <2>3. ASSUME NEW i \in HasEmail(e), req' = [req EXCEPT ![r].id = i, ![r].pc = Saved(req[r].op)]
        PROVE  Goal
    <3>1. i \in present'
      BY <1>6, <2>3 DEF SaveReselect, HasEmail
    <3>2. /\ Alone(r)
          /\ req'[r].pc = Saved(req[r].op)
          /\ req'[r].id = i
      BY <2>1, <2>3 DEF CInv, TypeOK, Alone, Signing
    <3>3. NowSignAt(r)
      BY <3>1, <3>2 DEF NowSignAt, NowThere, Saved
    <3>. QED
      BY <3>2, <3>3, SignMoves
  <2>4. ASSUME HasEmail(e) = {}, Goto(r, Saved(req[r].op))
        PROVE  Goal
    <3>1. ~Registered(e)
      BY <2>2, <2>4 DEF Registered, HasEmail
    <3>2. Gone(e)
      BY <1>6, <3>1 DEF SignInv, SignAt, SaveReselect
    <3>3. NowGone(e)
      BY <2>1, <3>2, GoneStays
    <3>4. Alone(r) /\ req'[r].pc = Saved(req[r].op) /\ req'[r].user = req[r].user
      BY <2>4, SignGoto
    <3>5. NowSignAt(r)
      BY <3>3, <3>4 DEF NowSignAt, NowThere, Saved
    <3>. QED
      BY <3>4, <3>5, SignMoves
  <2>. HIDE DEF Goal
  <2>. QED
    BY <1>6, <2>2, <2>3, <2>4, Zenon DEF SaveReselect
<1>7. ASSUME NEW r \in Requests, SaveInsert(r) \/ SaveObject(r)
      PROVE  Goal
  <2>1. req[r] \in Signing /\ req[r].user.email \in Emails
    BY <1>7, SignEmails DEF SaveInsert, SaveObject, At
  <2>2. SignAt(r)
    BY DEF SignInv
  <2>3. ASSUME present' = present \cup {req[r].id}, Goto(r, Saved(req[r].op))
        PROVE  Goal
    <3>1. Alone(r) /\ req'[r].pc = Saved(req[r].op) /\ req'[r].id = req[r].id
      BY <2>3, SignGoto
    <3>2. NowSignAt(r)
      BY <2>3, <3>1 DEF NowSignAt, NowThere, Saved
    <3>. QED
      BY <3>1, <3>2, SignMoves
  <2>4. ASSUME At(r, "insert"), req[r].op = "avatar", Goto(r, "session")
        PROVE  Goal
    <3>1. Alone(r) /\ req'[r].pc = "session" /\ req'[r].id = req[r].id /\ req'[r].user = req[r].user
      BY <2>4, SignGoto
    <3>2. NowThere(r)
      BY <2>1, <2>2, <2>4, <3>1, ThereStays DEF SignAt, NowThere
    <3>3. NowSignAt(r)
      BY <3>1, <3>2 DEF NowSignAt
    <3>. QED
      BY <3>1, <3>3, SignMoves
  <2>5. ASSUME Done(r)
        PROVE  Goal
    BY <2>5, SignOther
  <2>. HIDE DEF Goal
  <2>. QED
    BY <1>7, <2>3, <2>4, <2>5, Zenon DEF SaveInsert, SaveObject
<1>8. ASSUME NEW r \in Requests,
             \/ \E t \in Tokens, p \in Choices : Validate(r, t, p)
             \/ Consume(r) \/ ResetPassword(r)
      PROVE  Goal
  <2>1. Alone(r) /\ req'[r].pc \in {"consume", "password", "invalidate", "idle"}
    <3>1. ASSUME NEW t \in Tokens, NEW p \in Choices, Validate(r, t, p)
          PROVE  Alone(r) /\ req'[r].pc \in {"consume", "password"}
      BY <3>1 DEF Validate, CInv, TypeOK, Alone
    <3>2. ASSUME Done(r)
          PROVE  Alone(r) /\ req'[r].pc = "idle"
      BY <3>2 DEF CInv, TypeOK, Done, Alone, Quiet
    <3>. QED
      BY <1>8, <3>1, <3>2, SignGoto DEF Consume, ResetPassword
  <2>. QED
    BY <2>1, SignQuiet, SignMoves
<1>9. ASSUME \/ \E e \in Emails : ForgotPassword(e)
             \/ \E t \in Tokens : Expire(t)
             \/ UNCHANGED vars
      PROVE  Goal
  <2>1. \A q \in Requests : req'[q] = req[q]
    BY <1>9 DEF ForgotPassword, Expire, vars
  <2>. QED
    BY <2>1, SignStays
<1>. HIDE DEF Goal
<1>10. Goal
  BY <1>1, <1>2, <1>3, <1>4, <1>5, <1>6, <1>7, <1>8, <1>9, Zenon DEF Next
<1>. QED
  BY <1>10 DEF Goal

\* A sign-in gets to its session with an account that exists, unless one of its
\* email was deleted: if the SELECT after the UPDATE does not fail.
THEOREM SignInsFindAccounts ==
    ASSUME "reselect" \notin Failing
    PROVE  Spec => []SignInFindsAccount
<1>1. Init => SignInv
  BY DEF Init, Quiet, At, SignInv, SignAt
<1>2. CInv /\ SignInv /\ [Next]_vars => SignInv'
  <2>1. ASSUME CInv, SignInv, [Next]_vars
        PROVE  \A q \in Requests : NowSignAt(q)
    BY <2>1, SignStep
  <2>2. ASSUME \A q \in Requests : NowSignAt(q)
        PROVE  SignInv'
    BY <2>2 DEF SignInv, SignAt, There, Gone, Registered, At, NowSignAt, NowThere, NowGone, NowRegistered
  <2>. QED
    BY <2>1, <2>2
<1>3. SignInv => SignInFindsAccount
  BY DEF SignInv, SignAt, There, Gone, SignInFindsAccount
<1>. QED
  BY <1>1, <1>2, <1>3, CInvHolds, PTL DEF Spec
=============================================================================
