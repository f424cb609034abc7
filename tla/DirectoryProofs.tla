-------------------------- MODULE DirectoryProofs --------------------------
(***************************************************************************)
(* Accounts implements Directory: every statement of a handler is a step   *)
(* on the account of one email, or none.  Besides the invariant of         *)
(* AccountsProofs this needs that every user, stored or carried by a       *)
(* request, has a password or a Google identity (KeyInv).                  *)
(***************************************************************************)
EXTENDS AccountsProofs

USE GoogleAssumption, NoneAssumption

HasKey(u) == u.pw # None \/ u.google # None

\* What a request is about to write is there.
KeyAt(r) ==
    /\ req[r].user # None => HasKey(req[r].user)
    /\ At(r, "byEmail") => req[r].user.google # None
    /\ At(r, "consume") \/ At(r, "password") \/ At(r, "change") => req[r].user.pw # None

KeyInv ==
    /\ \A i \in Ids : users[i] # None => HasKey(users[i])
    /\ \A r \in Requests : KeyAt(r)

LEMMA KeyFacts ==
    ASSUME KeyInv, NEW r \in Requests
    PROVE  /\ req[r].user # None => HasKey(req[r].user)
           /\ At(r, "byEmail") => req[r].user.google # None
           /\ At(r, "consume") \/ At(r, "password") \/ At(r, "change") => req[r].user.pw # None
<1>1. KeyAt(r)
  BY DEF KeyInv
<1>. QED
  BY <1>1 DEF KeyAt

\* A step of r keeps the invariant if what it writes and carries has a key.
LEMMA KeyKept ==
    ASSUME KeyInv, NEW r \in Requests, Alone(r),
           \A i \in Ids : users'[i] # None => HasKey(users'[i]),
           req'[r].user # None => HasKey(req'[r].user),
           req'[r].pc = "byEmail" => req'[r].user.google # None,
           req'[r].pc \in {"consume", "password", "change"} => req'[r].user.pw # None
    PROVE  KeyInv'
<1>1. KeyAt(r)'
  BY DEF KeyAt, At, HasKey
<1>2. ASSUME NEW q \in Requests \ {r}
      PROVE  KeyAt(q)'
  <2>1. req'[q] = req[q]
    BY DEF Alone
  <2>2. KeyAt(q)
    BY DEF KeyInv
  <2>. QED
    BY <2>1, <2>2 DEF KeyAt, At, HasKey
<1>3. \A i \in Ids : (users[i] # None => HasKey(users[i]))'
  BY DEF HasKey
<1>. QED
  BY <1>1, <1>2, <1>3 DEF KeyInv

\* A request that ends, or goes on to a statement that writes no password.
LEMMA KeyDone ==
    ASSUME CInv, KeyInv, NEW r \in Requests, Done(r),
           \A i \in Ids : users'[i] # None => HasKey(users'[i])
    PROVE  KeyInv'
<1>1. Alone(r) /\ req'[r] = Quiet
  BY RequestSteps DEF CInv
<1>. QED
  BY <1>1, KeyKept DEF Quiet

LEMMA KeyGoto ==
    ASSUME CInv, KeyInv, NEW r \in Requests, NEW pc, Goto(r, pc),
           pc \in {"save", "reselect", "insert", "created", "session", "invalidate"}
              \/ (pc = "password" /\ At(r, "consume")),
           \A i \in Ids : users'[i] # None => HasKey(users'[i])
    PROVE  KeyInv'
<1>1. req \in [Requests -> Request] /\ req[r] \in Request
  BY DEF CInv, TypeOK, Request
<1>2. Alone(r) /\ req'[r] = [req[r] EXCEPT !.pc = pc]
  BY <1>1 DEF Goto, Alone
<1>3. req'[r].pc = pc /\ req'[r].user = req[r].user
  BY <1>1, <1>2 DEF Request, Quiet, Signing, Looking, Resetting
<1>4. req[r].user # None => HasKey(req[r].user)
  BY KeyFacts
<1>5. pc = "password" => req[r].user.pw # None
  BY KeyFacts
<1>. QED
  BY <1>2, <1>3, <1>4, <1>5, KeyKept

LEMMA KeyBegin ==
    ASSUME CInv, KeyInv, NEW r \in Requests, NEW pc, NEW op, NEW i, NEW u, Begin(r, pc, op, i, u),
           HasKey(u),
           pc = "byEmail" => u.google # None,
           pc \in {"consume", "password", "change"} => u.pw # None,
           \A j \in Ids : users'[j] # None => HasKey(users'[j])
    PROVE  KeyInv'
<1>1. Alone(r) /\ req'[r] = [pc |-> pc, op |-> op, id |-> i, user |-> u, token |-> None]
  BY DEF CInv, TypeOK, Begin, Alone
<1>. QED
  BY <1>1, KeyKept

LEMMA KeyStep ==
    ASSUME CInv, KeyInv, [Next]_vars
    PROVE  KeyInv'
<1>. USE DEF CInv
<1>0. \A i \in Ids : users[i] # None => HasKey(users[i])
  BY DEF KeyInv
<1>1. ASSUME UNCHANGED users
      PROVE  \A i \in Ids : users'[i] # None => HasKey(users'[i])
  BY <1>0, <1>1
<1>2. ASSUME NEW r \in Requests, NEW e \in Emails, NEW p \in Choices, Signup(r, e, p)
      PROVE  KeyInv'
  <2>. DEFINE u == [email |-> e, pw |-> <<e, p>>, google |-> None]
  <2>1. PICK i \in Ids : Begin(r, "save", "signup", i, u)
    BY <1>2 DEF Signup
  <2>2. HasKey(u)
    BY DEF HasKey, Passwords
  <2>. HIDE DEF u
  <2>. QED
    BY <1>1, <1>2, <2>1, <2>2, KeyBegin DEF Signup
<1>3. ASSUME NEW r \in Requests, NEW e \in Emails, NEW p \in Choices, Login(r, e, p)
      PROVE  KeyInv'
  <2>1. PICK i \in HasEmail(e) : Begin(r, "session", "login", i, users[i])
    BY <1>3 DEF Login
  <2>2. HasKey(users[i])
    BY <1>0, FoundHasEmail
  <2>. QED
    BY <1>1, <1>3, <2>1, <2>2, KeyBegin DEF Login
<1>4. ASSUME NEW r \in Requests, NEW g \in Subs, GoogleBySub(r, g)
      PROVE  KeyInv'
  <2>. DEFINE new == [email |-> GoogleEmail[g], pw |-> None, google |-> g]
  <2>1. ASSUME NEW i \in HasSub(g),
               Begin(r, "session", "google", i, users[i]) \/ Begin(r, "save", "avatar", i, users[i])
        PROVE  KeyInv'
    <3>1. i \in Ids /\ users[i] # None
      BY FoundBySub DEF TypeOK
    <3>2. HasKey(users[i])
      BY <1>0, <3>1
    <3>. QED
      BY <1>1, <1>4, <2>1, <3>2, KeyBegin DEF GoogleBySub
  <2>2. ASSUME Begin(r, "byEmail", "google", None, new)
        PROVE  KeyInv'
    <3>1. HasKey(new) /\ new.google # None
      BY DEF HasKey
    <3>. HIDE DEF new
    <3>. QED
      BY <1>1, <1>4, <2>2, <3>1, KeyBegin DEF GoogleBySub
  <2>. QED
    BY <1>4, <2>1, <2>2, Zenon DEF GoogleBySub
<1>5. ASSUME NEW r \in Requests, GoogleByEmail(r)
      PROVE  KeyInv'
  <2>. DEFINE u == req[r].user
  <2>0. At(r, "byEmail")
    BY <1>5, Zenon DEF GoogleByEmail
  <2>1. u \in User /\ u.email \in Emails /\ u.google # None /\ HasKey(u)
    BY <2>0, RequestParts, KeyFacts DEF User, HasKey
  <2>2. ASSUME NEW i \in HasEmail(u.email), NEW linked, linked = [users[i] EXCEPT !.google = u.google],
               Begin(r, "save", "link", i, linked),
               users' = IF db THEN users ELSE [users EXCEPT ![i] = linked]
        PROVE  KeyInv'
    <3>1. i \in Ids /\ users[i] \in User
      BY <2>1, FoundHasEmail
    <3>2. HasKey(linked)
      BY <2>1, <2>2, <3>1 DEF HasKey, User
    <3>3. \A j \in Ids : users'[j] = users[j] \/ users'[j] = linked
      BY <2>2, <3>1 DEF TypeOK
    <3>4. \A j \in Ids : users'[j] # None => HasKey(users'[j])
      BY <1>0, <3>2, <3>3
    <3>. QED
      BY <2>2, <3>2, <3>4, KeyBegin
  <2>3. ASSUME NEW i \in Ids, Begin(r, "save", "join", i, u), UNCHANGED users
        PROVE  KeyInv'
    BY <1>1, <2>1, <2>3, KeyBegin
  <2>4. ASSUME Done(r), UNCHANGED users
        PROVE  KeyInv'
    BY <1>1, <2>4, KeyDone
  <2>. QED
    BY <1>5, <2>2, <2>3, <2>4, Zenon DEF GoogleByEmail
<1>6. ASSUME NEW r \in Requests, SaveUpdate(r)
      PROVE  KeyInv'
  <2>. DEFINE u == req[r].user
  <2>1. u \in User /\ HasKey(u)
    BY <1>6, RequestParts, KeyFacts DEF SaveUpdate, At
  <2>2. \A j \in Ids : HasKey(Overwritten(users[j], u))
    BY <2>1 DEF HasKey, Overwritten, Coalesce
  <2>3. \A j \in Ids : users'[j] = users[j] \/ users'[j] = Overwritten(users[j], u)
    BY <1>6 DEF SaveUpdate, TypeOK
  <2>4. \A j \in Ids : users'[j] # None => HasKey(users'[j])
    BY <1>0, <2>2, <2>3
  <2>5. Goto(r, "reselect") \/ Goto(r, "insert")
    BY <1>6, Zenon DEF SaveUpdate
  <2>. QED
    BY <2>4, <2>5, KeyGoto
<1>7. ASSUME NEW r \in Requests, SaveReselect(r)
      PROVE  KeyInv'
  <2>0. \A op : Saved(op) \in {"created", "session"}
    BY DEF Saved
  <2>1. req[r] \in Signing /\ HasKey(req[r].user)
    BY <1>7, RequestParts, KeyFacts DEF SaveReselect, At
  <2>2. ASSUME NEW i \in HasEmail(req[r].user.email),
               req' = [req EXCEPT ![r].id = i, ![r].pc = Saved(req[r].op)]
        PROVE  KeyInv'
    <3>1. Alone(r) /\ req'[r].pc = Saved(req[r].op) /\ req'[r].user = req[r].user
      BY <2>1, <2>2 DEF TypeOK, Alone, Signing
    <3>. QED
      BY <1>1, <1>7, <2>0, <2>1, <3>1, KeyKept DEF SaveReselect
  <2>3. ASSUME Goto(r, Saved(req[r].op))
        PROVE  KeyInv'
    BY <1>1, <1>7, <2>0, <2>3, KeyGoto DEF SaveReselect
  <2>. QED
    BY <1>7, <2>2, <2>3, Zenon DEF SaveReselect
<1>8. ASSUME NEW r \in Requests, SaveInsert(r)
      PROVE  KeyInv'
  <2>. DEFINE u == req[r].user
              i == req[r].id
  <2>0. \A op : Saved(op) \in {"created", "session"}
    BY DEF Saved
  <2>1. u \in User /\ HasKey(u) /\ i \in Ids
    BY <1>8, RequestParts, KeyFacts DEF SaveInsert, At
  <2>2. i \in present => HasKey(Upserted(users[i], u))
    <3>1. i \in present => users[i] \in User /\ HasKey(users[i])
      BY <1>0, <2>1 DEF TypeOK
    <3>. QED
      BY <2>1, <3>1 DEF HasKey, Upserted, Coalesce, User
  <2>3. \A j \in Ids : \/ users'[j] = users[j]
                       \/ users'[j] = IF i \in present THEN Upserted(users[i], u) ELSE u
    BY <1>8, <2>1 DEF SaveInsert, TypeOK
  <2>4. \A j \in Ids : users'[j] # None => HasKey(users'[j])
    BY <1>0, <2>1, <2>2, <2>3
  <2>5. Goto(r, Saved(req[r].op)) \/ Goto(r, "session") \/ Done(r)
    BY <1>8, Zenon DEF SaveInsert
  <2>. QED
    BY <2>0, <2>4, <2>5, KeyGoto, KeyDone
<1>9. ASSUME NEW r \in Requests, SaveObject(r)
      PROVE  KeyInv'
  <2>0. \A op : Saved(op) \in {"created", "session"}
    BY DEF Saved
  <2>1. HasKey(req[r].user)
    BY <1>9, RequestParts, KeyFacts DEF SaveObject, At
  <2>2. \A j \in Ids : users'[j] = users[j] \/ users'[j] = req[r].user
    BY <1>9 DEF SaveObject, TypeOK
  <2>3. \A j \in Ids : users'[j] # None => HasKey(users'[j])
    BY <1>0, <2>1, <2>2
  <2>4. Goto(r, Saved(req[r].op))
    BY <1>9, Zenon DEF SaveObject
  <2>. QED
    BY <2>0, <2>3, <2>4, KeyGoto
<1>10. ASSUME NEW r \in Requests, AnswerSignup(r) \/ CreateSession(r) \/ InvalidateSessions(r)
       PROVE  KeyInv'
  BY <1>1, <1>10, KeyDone DEF AnswerSignup, CreateSession, InvalidateSessions
<1>11. ASSUME NEW r \in Requests, NEW t \in Tokens, NEW p \in Choices, Validate(r, t, p)
       PROVE  KeyInv'
  <2>. DEFINE e == resets[t].email
              u == [email |-> e, pw |-> <<e, p>>, google |-> None]
  <2>1. u.pw # None /\ HasKey(u)
    <3>1. e \in Emails
      BY <1>11 DEF Validate, Usable, TypeOK, Reset
    <3>. QED
      BY <3>1 DEF HasKey, Passwords
  <2>. HIDE DEF u
  <2>2. req' = [req EXCEPT ![r] = [pc |-> IF db THEN "consume" ELSE "password", op |-> "reset",
                                   id |-> None, user |-> u, token |-> t]]
    BY <1>11, Zenon DEF Validate, u
  <2>3. Alone(r) /\ req'[r].pc \in {"consume", "password"} /\ req'[r].user = u
    BY <2>2 DEF TypeOK, Alone
  <2>. QED
    BY <1>1, <1>11, <2>1, <2>3, KeyKept DEF Validate
<1>12. ASSUME NEW r \in Requests, Consume(r)
       PROVE  KeyInv'
  BY <1>1, <1>12, KeyGoto DEF Consume
<1>13. ASSUME NEW r \in Requests, ResetPassword(r)
       PROVE  KeyInv'
  <2>. DEFINE u == req[r].user
  <2>1. u \in User /\ u.email \in Emails /\ u.pw # None
    BY <1>13, RequestParts, KeyFacts DEF ResetPassword, At, User
  <2>2. \A j \in Ids : \/ users'[j] = users[j]
                       \/ j \in HasEmail(u.email) /\ users'[j] = [users[j] EXCEPT !.pw = u.pw]
    BY <1>13 DEF ResetPassword, TypeOK
  <2>3. ASSUME NEW j \in HasEmail(u.email)
        PROVE  HasKey([users[j] EXCEPT !.pw = u.pw])
    <3>1. users[j] \in User
      BY <2>1, FoundHasEmail
    <3>. QED
      BY <2>1, <3>1 DEF HasKey, User
  <2>4. \A j \in Ids : users'[j] # None => HasKey(users'[j])
    BY <1>0, <2>2, <2>3
  <2>5. Goto(r, "invalidate") \/ Done(r)
    BY <1>13, Zenon DEF ResetPassword
  <2>. QED
    BY <2>4, <2>5, KeyGoto, KeyDone
<1>14. ASSUME NEW r \in Requests, NEW i \in Ids, NEW p \in Choices, ChangePassword(r, i, p)
       PROVE  KeyInv'
  <2>. DEFINE u == [users[i] EXCEPT !.pw = <<users[i].email, p>>]
  <2>1. users[i] \in User /\ users[i].email \in Emails
    BY <1>14 DEF ChangePassword, SignedIn, TypeOK, User
  <2>2. u.pw # None /\ HasKey(u)
    BY <2>1 DEF User, HasKey, Passwords
  <2>3. Begin(r, "change", "change", i, u)
    BY <1>14, Zenon DEF ChangePassword
  <2>. HIDE DEF u
  <2>. QED
    BY <1>1, <1>14, <2>2, <2>3, KeyBegin DEF ChangePassword
<1>15. ASSUME NEW r \in Requests, WritePassword(r)
       PROVE  KeyInv'
  <2>. DEFINE u == req[r].user
              i == req[r].id
  <2>1. u.pw # None /\ i \in Ids
    BY <1>15, RequestParts, KeyFacts DEF WritePassword, At
  <2>2. \A j \in Ids : \/ users'[j] = users[j]
                       \/ i \in present /\ users'[j] = [users[i] EXCEPT !.pw = u.pw]
    BY <1>15, <2>1 DEF WritePassword, TypeOK
  <2>3. i \in present => HasKey([users[i] EXCEPT !.pw = u.pw])
    BY <2>1 DEF HasKey, User, TypeOK
  <2>4. \A j \in Ids : users'[j] # None => HasKey(users'[j])
    BY <1>0, <2>2, <2>3
  <2>. QED
    BY <1>15, <2>4, KeyDone DEF WritePassword
<1>16. ASSUME NEW r \in Requests, NEW i \in Ids, DeleteAccount(r, i)
       PROVE  KeyInv'
  <2>1. HasKey(users[i])
    BY <1>0, <1>16 DEF DeleteAccount, SignedIn, TypeOK
  <2>. QED
    BY <1>1, <1>16, <2>1, KeyBegin DEF DeleteAccount
<1>17. ASSUME NEW r \in Requests, DeleteUser(r)
       PROVE  KeyInv'
  <2>1. \A j \in Ids : users'[j] = users[j] \/ users'[j] = None
    BY <1>17 DEF DeleteUser, TypeOK
  <2>. QED
    BY <1>0, <1>17, <2>1, KeyDone DEF DeleteUser
<1>18. ASSUME UNCHANGED <<users, req>>
       PROVE  KeyInv'
  BY <1>18 DEF KeyInv, KeyAt, At, HasKey
<1>19. ASSUME \/ \E e \in Emails : ForgotPassword(e)
              \/ \E t \in Tokens : Expire(t)
              \/ UNCHANGED vars
       PROVE  UNCHANGED <<users, req>>
  BY <1>19 DEF ForgotPassword, Expire, vars
<1>. QED
  BY <1>2, <1>3, <1>4, <1>5, <1>6, <1>7, <1>8, <1>9, <1>10, <1>11, <1>12, <1>13, <1>14, <1>15,
     <1>16, <1>17, <1>18, <1>19, Zenon DEF Next
-----------------------------------------------------------------------------
(* What a step may do to the accounts: those of all emails but one are as
   they were. *)
SameAccount(j) == users'[j] = users[j] /\ (j \in present' <=> j \in present)
OfEmail(j, e) ==
    /\ j \in present => users[j].email = e
    /\ j \in present' => users'[j].email = e

TouchesOnly(e) ==
    /\ \A j \in Ids : SameAccount(j) \/ OfEmail(j, e)
    /\ \A f \in Emails \ {e} : byEmail'[f] = byEmail[f]

NothingTouched == UNCHANGED <<users, present, byEmail>>
TouchesOne == NothingTouched \/ \E e \in Emails : TouchesOnly(e)

\* A step that leaves the maps alone, and writes one user without changing
\* its email.
LEMMA OneWritten ==
    ASSUME CInv, NEW e \in Emails, UNCHANGED <<present, byEmail>>,
           \A j \in Ids : users'[j] # users[j] => users[j].email = e /\ users'[j].email = e
    PROVE  TouchesOne
<1>1. \A j \in Ids : SameAccount(j) \/ OfEmail(j, e)
  BY DEF SameAccount, OfEmail
<1>. QED
  BY <1>1 DEF TouchesOne, TouchesOnly

LEMMA TouchStep ==
    ASSUME CInv, [Next]_vars
    PROVE  TouchesOne
<1>. USE DEF CInv
<1>1. ASSUME NEW r \in Requests, GoogleByEmail(r)
      PROVE  TouchesOne
  <2>. DEFINE u == req[r].user
  <2>1. u \in User /\ u.email \in Emails
    BY <1>1, RequestParts DEF GoogleByEmail, User, At
  <2>2. ASSUME NEW i \in HasEmail(u.email), NEW linked, linked = [users[i] EXCEPT !.google = u.google],
               users' = IF db THEN users ELSE [users EXCEPT ![i] = linked]
        PROVE  TouchesOne
    <3>1. i \in Ids /\ users[i] \in User /\ users[i].email = u.email
      BY <2>1, FoundHasEmail
    <3>2. linked.email = u.email
      BY <2>2, <3>1 DEF User
    <3>3. \A j \in Ids : users'[j] = users[j] \/ (j = i /\ users'[j] = linked)
      BY <2>2, <3>1 DEF TypeOK
    <3>. QED
      BY <1>1, <2>1, <3>1, <3>2, <3>3, OneWritten DEF GoogleByEmail
  <2>3. ASSUME UNCHANGED users
        PROVE  TouchesOne
    BY <1>1, <2>3 DEF GoogleByEmail, TouchesOne, NothingTouched
  <2>. QED
    BY <1>1, <2>2, <2>3, Zenon DEF GoogleByEmail
<1>2. ASSUME NEW r \in Requests, SaveUpdate(r)
      PROVE  TouchesOne
  <2>. DEFINE u == req[r].user
  <2>1. u \in User /\ req[r].id \in Ids /\ u.email \in Emails
    BY <1>2, RequestParts DEF SaveUpdate, At, User
  <2>2. ASSUME NEW j \in Matching(req[r].id, u)
        PROVE  users[j].email = u.email /\ Overwritten(users[j], u).email = u.email
    <3>1. j \in Ids /\ users[j] # None /\ users[j] \in User
      BY <2>2 DEF TypeOK, Matching
    <3>2. users[j].email = u.email
      BY <2>1, <2>2, <3>1, SameEmail DEF Matching
    <3>. QED
      BY <3>2 DEF Overwritten
  <2>3. \A j \in Ids : users'[j] = users[j] \/
                       (j \in Matching(req[r].id, u) /\ users'[j] = Overwritten(users[j], u))
    BY <1>2 DEF SaveUpdate, TypeOK
  <2>. QED
    BY <1>2, <2>1, <2>2, <2>3, OneWritten DEF SaveUpdate
<1>3. ASSUME NEW r \in Requests, SaveInsert(r)
      PROVE  TouchesOne
  <2>. DEFINE u == req[r].user
              i == req[r].id
              new == IF i \in present THEN Upserted(users[i], u) ELSE u
  <2>1. u \in User /\ i \in Ids /\ u.email \in Emails
    BY <1>3, RequestParts DEF SaveInsert, At, User
  <2>2. i \in present => users[i] \in User /\ users[i].email = u.email
    BY <2>1, SameEmail DEF TypeOK
  <2>3. new.email = u.email
    BY <2>2 DEF Upserted, User
  <2>4. CASE users' = [users EXCEPT ![i] = new] /\ present' = present \cup {i}
    <3>1. OfEmail(i, u.email)
      BY <2>1, <2>2, <2>3, <2>4 DEF OfEmail, TypeOK
    <3>2. \A j \in Ids \ {i} : SameAccount(j)
      BY <2>4 DEF SameAccount, TypeOK
    <3>3. UNCHANGED byEmail
      BY <1>3, Zenon DEF SaveInsert
    <3>. QED
      BY <2>1, <3>1, <3>2, <3>3 DEF TouchesOne, TouchesOnly
  <2>5. CASE UNCHANGED <<users, present>>
    BY <1>3, <2>5 DEF SaveInsert, TouchesOne, NothingTouched
  <2>. QED
    BY <1>3, <2>4, <2>5, Zenon DEF SaveInsert
<1>4. ASSUME NEW r \in Requests, SaveObject(r)
      PROVE  TouchesOne
  <2>. DEFINE u == req[r].user
              i == req[r].id
  <2>1. u \in User /\ i \in Ids /\ u.email \in Emails
    BY <1>4, RequestParts DEF SaveObject, At, User
  <2>2. users[i] # None => users[i].email = u.email
    BY <2>1, SameEmail
  <2>3. /\ users' = IF users[i] = None THEN [users EXCEPT ![i] = u] ELSE users
        /\ present' = present \cup {i}
        /\ byEmail' = [byEmail EXCEPT ![u.email] = i]
    BY <1>4, Zenon DEF SaveObject
  <2>4. OfEmail(i, u.email)
    BY <2>1, <2>2, <2>3 DEF OfEmail, TypeOK
  <2>5. \A j \in Ids \ {i} : SameAccount(j)
    BY <2>3 DEF SameAccount, TypeOK
  <2>6. \A f \in Emails \ {u.email} : byEmail'[f] = byEmail[f]
    BY <2>3 DEF TypeOK
  <2>. QED
    BY <2>1, <2>4, <2>5, <2>6 DEF TouchesOne, TouchesOnly
<1>5. ASSUME NEW r \in Requests, ResetPassword(r)
      PROVE  TouchesOne
  <2>. DEFINE u == req[r].user
              new(j) == [users[j] EXCEPT !.pw = u.pw]
  <2>1. u \in User /\ u.email \in Emails
    BY <1>5, RequestParts DEF ResetPassword, At, User
  <2>2. \A j \in Ids : users'[j] = users[j] \/ (j \in HasEmail(u.email) /\ users'[j] = new(j))
    BY <1>5 DEF ResetPassword, TypeOK
  <2>3. ASSUME NEW j \in HasEmail(u.email)
        PROVE  users[j].email = u.email /\ new(j).email = u.email
    <3>1. users[j] \in User /\ users[j].email = u.email
      BY <2>1, FoundHasEmail
    <3>. QED
      BY <2>1, <3>1 DEF User
  <2>4. \A j \in Ids : users'[j] # users[j] => users[j].email = u.email /\ users'[j].email = u.email
    BY <2>2, <2>3
  <2>5. UNCHANGED <<present, byEmail>>
    BY <1>5 DEF ResetPassword
  <2>. HIDE DEF new
  <2>. QED
    BY <2>1, <2>4, <2>5, OneWritten
<1>6. ASSUME NEW r \in Requests, WritePassword(r)
      PROVE  TouchesOne
  <2>. DEFINE u == req[r].user
              i == req[r].id
              new == [users[i] EXCEPT !.pw = u.pw]
  <2>1. u \in User /\ i \in Ids /\ u.email \in Emails
    BY <1>6, RequestParts DEF WritePassword, At, User
  <2>2. \A j \in Ids : users'[j] = users[j] \/ (j = i /\ i \in present /\ users'[j] = new)
    BY <1>6, <2>1 DEF WritePassword, TypeOK
  <2>3. i \in present => users[i].email = u.email /\ new.email = u.email
    <3>1. i \in present => users[i] \in User /\ users[i].email = u.email
      BY <2>1, SameEmail DEF TypeOK
    <3>. QED
      BY <2>1, <3>1 DEF User
  <2>. QED
    BY <1>6, <2>1, <2>2, <2>3, OneWritten DEF WritePassword
<1>7. ASSUME NEW r \in Requests, DeleteUser(r)
      PROVE  TouchesOne
  <2>. DEFINE i == req[r].id
              e == req[r].user.email
  <2>1. i \in Ids /\ e \in Emails
    BY <1>7, RequestParts DEF DeleteUser, At, User
  <2>2. i \in present => users[i].email = e
    BY <2>1, SameEmail DEF TypeOK
  <2>3. CASE UNCHANGED <<present, users, byEmail, sessions, deleted>>
    BY <2>3 DEF TouchesOne, NothingTouched
  <2>4. CASE /\ present' = present \ {i}
             /\ users' = IF db THEN [users EXCEPT ![i] = None] ELSE users
             /\ byEmail' = [byEmail EXCEPT ![e] = None]
    <3>1. OfEmail(i, e)
      BY <2>2, <2>4 DEF OfEmail
    <3>2. \A j \in Ids \ {i} : SameAccount(j)
      BY <2>4 DEF SameAccount, TypeOK
    <3>3. \A f \in Emails \ {e} : byEmail'[f] = byEmail[f]
      BY <2>4 DEF TypeOK
    <3>. QED
      BY <2>1, <3>1, <3>2, <3>3 DEF TouchesOne, TouchesOnly
  <2>. QED
    BY <1>7, <2>3, <2>4, Zenon DEF DeleteUser
<1>8. ASSUME \/ \E r \in Requests :
                  \/ \E e \in Emails, p \in Choices : Signup(r, e, p) \/ Login(r, e, p)
                  \/ \E g \in Subs : GoogleBySub(r, g)
                  \/ SaveReselect(r) \/ AnswerSignup(r) \/ CreateSession(r)
                  \/ \E t \in Tokens, p \in Choices : Validate(r, t, p)
                  \/ Consume(r) \/ InvalidateSessions(r)
                  \/ \E i \in Ids : DeleteAccount(r, i) \/ \E p \in Choices : ChangePassword(r, i, p)
             \/ \E e \in Emails : ForgotPassword(e)
             \/ \E t \in Tokens : Expire(t)
             \/ UNCHANGED vars
      PROVE  NothingTouched
  BY <1>8 DEF NothingTouched, Signup, Login, GoogleBySub, SaveReselect, AnswerSignup, CreateSession,
              Validate, Consume, InvalidateSessions, DeleteAccount, ChangePassword, ForgotPassword,
              Expire, vars
<1>. QED
  BY <1>1, <1>2, <1>3, <1>4, <1>5, <1>6, <1>7, <1>8, Zenon DEF Next, TouchesOne

-----------------------------------------------------------------------------
(* With a database, no statement takes a password or an identity away. *)
Kept(old, new) ==
    /\ old.pw # None => new.pw # None
    /\ old.google # None => new.google # None
NothingLost == \A j \in present \cap present' : Kept(users[j], users'[j])

LEMMA LostNothing ==
    ASSUME \A j \in present \cap present' : users'[j] = users[j]
    PROVE  NothingLost
BY DEF NothingLost, Kept

LEMMA KeepStep ==
    ASSUME CInv, KeyInv, db, [Next]_vars
    PROVE  NothingLost
<1>. USE DEF CInv
<1>1. ASSUME NEW r \in Requests, SaveUpdate(r)
      PROVE  NothingLost
  <2>. DEFINE u == req[r].user
  <2>1. \A j \in Ids : Kept(users[j], Overwritten(users[j], u))
    BY DEF Kept, Overwritten, Coalesce
  <2>2. \A j \in Ids : users'[j] = users[j] \/ users'[j] = Overwritten(users[j], u)
    BY <1>1 DEF SaveUpdate, TypeOK
  <2>3. present \subseteq Ids
    BY DEF TypeOK
  <2>. QED
    BY <2>1, <2>2, <2>3 DEF NothingLost, Kept
<1>2. ASSUME NEW r \in Requests, SaveInsert(r)
      PROVE  NothingLost
  <2>. DEFINE u == req[r].user
              i == req[r].id
  <2>1. i \in present => Kept(users[i], Upserted(users[i], u))
    BY DEF Kept, Upserted, Coalesce, TypeOK, User
  <2>2. \A j \in present : \/ users'[j] = users[j]
                           \/ j = i /\ i \in present /\ users'[j] = Upserted(users[i], u)
    BY <1>2 DEF SaveInsert, TypeOK
  <2>. QED
    BY <2>1, <2>2 DEF NothingLost, Kept
<1>3. ASSUME NEW r \in Requests, ResetPassword(r) \/ WritePassword(r)
      PROVE  NothingLost
  <2>. DEFINE u == req[r].user
              new(j) == [users[j] EXCEPT !.pw = u.pw]
  <2>1. u.pw # None
    BY <1>3, KeyFacts DEF ResetPassword, WritePassword
  <2>2. \A j \in present : users'[j] = users[j] \/ users'[j] = new(j)
    <3>1. CASE ResetPassword(r)
      BY <3>1 DEF ResetPassword, TypeOK
    <3>2. CASE WritePassword(r)
      BY <3>2 DEF WritePassword, TypeOK
    <3>. QED
      BY <1>3, <3>1, <3>2, Zenon
  <2>3. ASSUME NEW j \in present
        PROVE  Kept(users[j], new(j))
    BY <2>1 DEF Kept, TypeOK, User
  <2>. HIDE DEF new
  <2>. QED
    BY <2>2, <2>3, Zenon DEF NothingLost, Kept
<1>4. ASSUME NEW r \in Requests, DeleteUser(r)
      PROVE  NothingLost
  <2>1. \A j \in present \cap present' : users'[j] = users[j]
    BY <1>4 DEF DeleteUser, TypeOK
  <2>. QED
    BY <2>1, LostNothing
<1>5. ASSUME NEW r \in Requests, GoogleByEmail(r)
      PROVE  UNCHANGED users
  BY <1>5 DEF GoogleByEmail
<1>6. ASSUME NEW r \in Requests, SaveObject(r)
      PROVE  FALSE
  BY <1>6 DEF SaveObject
<1>7. ASSUME \/ \E r \in Requests :
                  \/ \E e \in Emails, p \in Choices : Signup(r, e, p) \/ Login(r, e, p)
                  \/ \E g \in Subs : GoogleBySub(r, g)
                  \/ SaveReselect(r) \/ AnswerSignup(r) \/ CreateSession(r)
                  \/ \E t \in Tokens, p \in Choices : Validate(r, t, p)
                  \/ Consume(r) \/ InvalidateSessions(r)
                  \/ \E i \in Ids : DeleteAccount(r, i) \/ \E p \in Choices : ChangePassword(r, i, p)
             \/ \E e \in Emails : ForgotPassword(e)
             \/ \E t \in Tokens : Expire(t)
             \/ UNCHANGED vars
      PROVE  UNCHANGED users
  BY <1>7 DEF Signup, Login, GoogleBySub, SaveReselect, AnswerSignup, CreateSession,
              Validate, Consume, InvalidateSessions, DeleteAccount, ChangePassword, ForgotPassword,
              Expire, vars
<1>8. UNCHANGED users => NothingLost
  BY LostNothing
<1>. QED
  BY <1>1, <1>2, <1>3, <1>4, <1>5, <1>6, <1>7, <1>8, Zenon DEF Next
-----------------------------------------------------------------------------
(* The account that an email leads to. *)
DInv == CInv /\ KeyInv /\ OneAccountPerEmail
AccountMap == [e \in Emails |-> Account(e)]

Found(e) ==
    \/ HasEmail(e) = {} /\ Account(e) = None
    \/ \E i \in HasEmail(e) :
          /\ HasEmail(e) = {i} /\ Account(e) = users[i]
          /\ i \in Ids /\ i \in present /\ users[i] # None /\ users[i].email = e

LEMMA AccountFound ==
    ASSUME DInv, NEW e \in Emails
    PROVE  Found(e)
<1>1. CASE HasEmail(e) = {}
  BY <1>1 DEF Account, Found
<1>2. CASE HasEmail(e) # {}
  <2>. DEFINE i == CHOOSE i \in HasEmail(e) : TRUE
  <2>1. i \in HasEmail(e) /\ Account(e) = users[i]
    BY <1>2 DEF Account
  <2>2. \A j \in HasEmail(e) : j \in Ids /\ j \in present /\ users[j] # None /\ users[j].email = e
    BY FoundHasEmail DEF DInv, CInv
  <2>3. ASSUME NEW j \in HasEmail(e), NEW k \in HasEmail(e)
        PROVE  j = k
    BY <2>2, <2>3 DEF DInv, OneAccountPerEmail, HasEmail
  <2>. QED
    BY <2>1, <2>2, <2>3 DEF Found
<1>. QED
  BY <1>1, <1>2 DEF Found

LEMMA AccountFoundNext ==
    ASSUME NEW e \in Emails
    PROVE  DInv' => Found(e)'
<1>1. DInv => Found(e)
  BY AccountFound
<1>. QED
  BY <1>1, PTL

\* It is one of a directory.
LEMMA AccountTyped ==
    ASSUME DInv, NEW e \in Emails, Account(e) # None
    PROVE  Account(e) \in ByEmail!Accounts(e)
<1>1. PICK i \in Ids : Account(e) = users[i] /\ users[i] # None /\ users[i].email = e
  BY AccountFound DEF Found
<1>2. users[i] \in User /\ Own(users[i]) /\ HasKey(users[i])
  BY <1>1 DEF DInv, CInv, TypeOK, OwnUsers, KeyInv
<1>3. users[i].pw # None => users[i].pw \in {p \in Passwords : p[1] = e}
  BY <1>1, <1>2 DEF User, Own
<1>4. users[i].google # None => users[i].google \in {g \in Subs : GoogleEmail[g] = e}
  BY <1>1, <1>2 DEF User, Own
<1>. QED
  BY <1>1, <1>2, <1>3, <1>4 DEF User, HasKey, ByEmail!Accounts, ByEmail!Own, ByEmail!Reachable

\* A step on one email leaves the accounts of all others.
LEMMA OthersStay ==
    ASSUME DInv, DInv', UNCHANGED db, NEW e \in Emails, TouchesOnly(e), NEW f \in Emails \ {e}
    PROVE  Account(f)' = Account(f)
<1>1. \A j \in HasEmail(f) : j \in Ids /\ j \in present /\ users[j].email = f
  BY FoundHasEmail DEF DInv, CInv
<1>2. \A j \in HasEmail(f)' : j \in Ids /\ j \in present' /\ users'[j].email = f
  <2>1. \A j \in HasEmail(f)' : j \in present' /\ (db => users'[j].email = f)
    BY DEF HasEmail
  <2>2. ASSUME ~db, NEW j \in HasEmail(f)'
        PROVE  users'[j].email = f
    <3>1. byEmail'[f] = j /\ j \in Ids
      BY <2>1, <2>2 DEF HasEmail, DInv, CInv, TypeOK
    <3>. QED
      BY <2>2, <3>1 DEF DInv, CInv, IndexSound, TypeOK
  <2>. QED
    BY <2>1, <2>2 DEF DInv, CInv, TypeOK
<1>3. \A j \in HasEmail(f) \cup HasEmail(f)' : SameAccount(j)
  BY <1>1, <1>2 DEF TouchesOnly, OfEmail
<1>4. byEmail'[f] = byEmail[f]
  BY DEF TouchesOnly
<1>5. HasEmail(f)' = HasEmail(f)
  BY <1>1, <1>2, <1>3, <1>4 DEF HasEmail, SameAccount
<1>6. \A j \in HasEmail(f) : users'[j] = users[j]
  BY <1>3 DEF SameAccount
<1>. QED
  BY <1>5, <1>6 DEF Account

LEMMA AccountTypedNext ==
    ASSUME NEW e \in Emails
    PROVE  DInv' /\ Account(e)' # None => Account(e)' \in ByEmail!Accounts(e)
<1>1. DInv /\ Account(e) # None => Account(e) \in ByEmail!Accounts(e)
  BY AccountTyped
<1>2. (DInv /\ Account(e) # None => Account(e) \in ByEmail!Accounts(e))'
  BY <1>1, PTL
<1>. QED
  BY <1>2 DEF ByEmail!Accounts, ByEmail!Own, ByEmail!Reachable

\* No step makes one account and deletes another.
LEMMA PresentStep ==
    ASSUME [Next]_vars
    PROVE  present \subseteq present' \/ present' \subseteq present
<1>1. ASSUME NEW r \in Requests, SaveInsert(r) \/ SaveObject(r)
      PROVE  present \subseteq present'
  BY <1>1 DEF SaveInsert, SaveObject
<1>2. ASSUME NEW r \in Requests, DeleteUser(r)
      PROVE  present' \subseteq present
  BY <1>2 DEF DeleteUser
<1>3. ASSUME \/ \E r \in Requests :
                  \/ \E e \in Emails, p \in Choices : Signup(r, e, p) \/ Login(r, e, p)
                  \/ \E g \in Subs : GoogleBySub(r, g)
                  \/ GoogleByEmail(r) \/ SaveUpdate(r) \/ SaveReselect(r)
                  \/ AnswerSignup(r) \/ CreateSession(r)
                  \/ \E t \in Tokens, p \in Choices : Validate(r, t, p)
                  \/ Consume(r) \/ ResetPassword(r) \/ InvalidateSessions(r)
                  \/ \E i \in Ids : DeleteAccount(r, i) \/ \E p \in Choices : ChangePassword(r, i, p)
                  \/ WritePassword(r)
             \/ \E e \in Emails : ForgotPassword(e)
             \/ \E t \in Tokens : Expire(t)
             \/ UNCHANGED vars
      PROVE  present' \subseteq present
  BY <1>3 DEF Signup, Login, GoogleBySub, GoogleByEmail, SaveUpdate, SaveReselect,
              AnswerSignup, CreateSession, Validate, Consume, ResetPassword, InvalidateSessions,
              DeleteAccount, ChangePassword, WritePassword, ForgotPassword, Expire, vars
<1>. QED
  BY <1>1, <1>2, <1>3, Zenon DEF Next

\* The account of the one email keeps what it has.
LEMMA OneMoves ==
    ASSUME DInv, DInv', [Next]_vars, NEW e \in Emails,
           Account(e) # None, Account(e)' # None, db
    PROVE  ByEmail!Keeps(Account(e), Account(e)')
<1>0. UNCHANGED db /\ \A k \in Ids : AccountKept(k)
  BY AccountStep DEF DInv
<1>1. PICK i \in HasEmail(e) :
         /\ Account(e) = users[i] /\ i \in Ids /\ i \in present
         /\ users[i] # None /\ users[i].email = e
  BY AccountFound DEF Found
<1>2. PICK j \in HasEmail(e)' :
         /\ Account(e)' = users'[j] /\ j \in Ids /\ j \in present'
         /\ users'[j] # None /\ users'[j].email = e
  BY AccountFoundNext DEF Found
<1>3. i = j
  <2>1. CASE present \subseteq present'
    <3>1. i \in present' /\ users'[i] # None
      BY <1>1, <2>1 DEF DInv, CInv, TypeOK
    <3>2. users'[i].email = e
      BY <1>0, <1>1, <3>1 DEF AccountKept
    <3>. QED
      BY <1>0, <1>2, <3>1, <3>2 DEF DInv, OneAccountPerEmail
  <2>2. CASE present' \subseteq present
    <3>1. j \in present /\ users[j] # None
      BY <1>2, <2>2 DEF DInv, CInv, TypeOK
    <3>2. users[j].email = e
      BY <1>0, <1>2, <3>1 DEF AccountKept
    <3>. QED
      BY <1>1, <3>1, <3>2 DEF DInv, OneAccountPerEmail
  <2>. QED
    BY <2>1, <2>2, PresentStep
<1>4. Kept(users[i], users'[i])
  BY <1>1, <1>2, <1>3, KeepStep DEF DInv, NothingLost
<1>. QED
  BY <1>1, <1>2, <1>3, <1>4 DEF Kept, ByEmail!Keeps

\* A step on no account is a stutter of the directory.
LEMMA NothingMoves ==
    ASSUME UNCHANGED db, NothingTouched
    PROVE  UNCHANGED <<db, AccountMap>>
BY DEF NothingTouched, AccountMap, Account, HasEmail

\* The accounts, by email, are a directory in both modes: whatever copies
\* requests write back, a step touches one email, leaves its account a
\* credential that was set under that email or is a Google identity of it and,
\* with a database, all it has.
THEOREM AccountsAreADirectory == Spec => ImplementsDirectory
<1>1. Init => ByEmail!Init
  BY DEF Init, ByEmail!Init, Account, HasEmail
<1>2. ASSUME DInv, DInv', [Next]_vars
      PROVE  [ByEmail!Next]_<<db, AccountMap>>
  <2>1. UNCHANGED db
    BY <1>2, AccountStep DEF DInv
  <2>2. CASE NothingTouched
    BY <2>1, <2>2, NothingMoves
  <2>3. ASSUME NEW e \in Emails, TouchesOnly(e)
        PROVE  [ByEmail!Next]_<<db, AccountMap>>
    <3>1. \A f \in Emails \ {e} : Account(f)' = Account(f)
      BY <1>2, <2>1, <2>3, OthersStay
    <3>2. AccountMap' = [AccountMap EXCEPT ![e] = Account(e)']
      BY <3>1 DEF AccountMap
    <3>3. AccountMap[e] = Account(e)
      BY DEF AccountMap
    <3>4. CASE Account(e)' = None
      BY <2>1, <3>2, <3>4 DEF ByEmail!Next, ByEmail!Remove, AccountMap
    <3>5. CASE Account(e)' # None
      <4>1. Account(e)' \in ByEmail!Accounts(e)
        BY <1>2, <3>5, AccountTypedNext
      <4>2. CASE Account(e) = None
        BY <2>1, <3>2, <3>3, <4>1, <4>2 DEF ByEmail!Next, ByEmail!Register, AccountMap
      <4>3. CASE Account(e) # None
        <5>1. db => ByEmail!Keeps(Account(e), Account(e)')
          BY <1>2, <3>5, <4>3, OneMoves
        <5>. QED
          BY <2>1, <3>2, <3>3, <4>1, <4>3, <5>1 DEF ByEmail!Next, ByEmail!Change, AccountMap
      <4>. QED
        BY <4>2, <4>3
    <3>. QED
      BY <3>4, <3>5
  <2>. QED
    BY <1>2, <2>2, <2>3, TouchStep DEF DInv, TouchesOne
<1>3. Init => KeyInv
  BY DEF Init, KeyInv, KeyAt, At, Quiet
<1>4. KeyInv /\ CInv /\ [Next]_vars => KeyInv'
  BY KeyStep
<1>. QED
  BY <1>1, <1>2, <1>3, <1>4, CInvHolds, UniqueAccounts, PTL
     DEF Spec, DInv, ImplementsDirectory, ByEmail!Spec, AccountMap
=============================================================================
