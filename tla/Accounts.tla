------------------------------ MODULE Accounts ------------------------------
(***************************************************************************)
(* internal/auth: accounts and their credentials.  Sign-up, login, Google  *)
(* sign-in, password change and reset, and account deletion, each a        *)
(* sequence of SQL statements that run by themselves, so that the requests *)
(* interleave between any two.                                             *)
(*                                                                         *)
(* Without a database a user is an object that the map `users' points to:  *)
(* a handler that has looked it up holds the object itself, not a copy,    *)
(* and the object outlives its entry.  With one, a handler holds a copy of *)
(* the row, and the maps are caches that no lookup reads.                  *)
(*                                                                         *)
(* A password is labelled with the email it was set under: that of the     *)
(* sign-up, of the row of the reset token, or of the signed-in account.    *)
(* Who chose it is not said: no address is confirmed at sign-up, and the   *)
(* answer to a forgotten password holds the reset token, whoever asked.    *)
(* User names are left out: one that is taken makes its statement fail, as *)
(* any error does.  So are the demo users, whose emails nobody else has.   *)
(***************************************************************************)
EXTENDS Integers, FiniteSets

CONSTANTS
    Ids,         \* user ids, drawn at random by the handlers
    Emails,
    Choices,     \* what tells two passwords set under one email apart
    Subs,        \* Google identities (the claim sub)
    GoogleEmail, \* [Subs -> Emails], the claim email
    Tokens,      \* reset tokens, drawn at random
    Requests,    \* HTTP requests in flight
    None,
    Failing      \* the kinds of SQL statement that may fail

Statements == {"find", "update", "reselect", "insert", "session", "consume", "password", "delete"}
ASSUME GoogleAssumption == GoogleEmail \in [Subs -> Emails]
ASSUME FailingAssumption == Failing \subseteq Statements

Passwords == Emails \X Choices
User == [email : Emails, pw : Passwords \cup {None}, google : Subs \cup {None}]
Reset == [email : Emails, used : BOOLEAN, expired : BOOLEAN]
ASSUME NoneAssumption ==
    None \notin Ids \cup Emails \cup Subs \cup Tokens \cup Passwords \cup User \cup Reset

VARIABLES
    db,         \* the process was started with a database (main.go)
    users,      \* the rows of users, or the objects
    present,    \* ids of the rows, or keys of the map users
    byEmail,    \* the map byEmail (only without a database)
    sessions,   \* sessions: of which account, and the email signed in with (who)
    resets,     \* password_resets, or resetStore
    req,        \* requests: the next statement and its arguments
    deleted,    \* history: the emails of deleted accounts, by id
    answered    \* history: tokens of resets answered with success

vars == <<db, users, present, byEmail, sessions, resets, req, deleted, answered>>

Quiet == [pc |-> "idle", op |-> "none", id |-> None, user |-> None, token |-> None]

Init ==
    /\ db \in BOOLEAN
    /\ users = [i \in Ids |-> None] /\ present = {}
    /\ byEmail = [e \in Emails |-> None]
    /\ sessions = {}
    /\ resets = [t \in Tokens |-> None]
    /\ req = [r \in Requests |-> Quiet]
    /\ deleted = [i \in Ids |-> None] /\ answered = {}

Idle(r) == req[r].pc = "idle"
At(r, pc) == req[r].pc = pc
Goto(r, pc) == req' = [req EXCEPT ![r].pc = pc]
Done(r) == req' = [req EXCEPT ![r] = Quiet]
Begin(r, pc, op, i, u) ==
    req' = [req EXCEPT ![r] = [pc |-> pc, op |-> op, id |-> i, user |-> u, token |-> None]]
MayFail(statement) == db /\ statement \in Failing

\* findUserByEmail: by SELECT, or through the two maps.
HasEmail(e) ==
    {i \in present : IF db THEN users[i].email = e ELSE byEmail[e] = i}
HasSub(g) == {i \in present : users[i].google = g}

\* An error of the SELECT counts as not found.
NotFound(S) == S = {} \/ MayFail("find")

\* generateUserID: ids are not drawn twice.
Drawn(i) == users[i] # None \/ deleted[i] # None \/ \E r \in Requests : req[r].id = i
-----------------------------------------------------------------------------
\* handleSignup: no user has this email (else 409).
Signup(r, e, p) ==
    /\ Idle(r) /\ NotFound(HasEmail(e))
    /\ \E i \in Ids :
          /\ ~Drawn(i)
          /\ Begin(r, "save", "signup", i, [email |-> e, pw |-> <<e, p>>, google |-> None])
    /\ UNCHANGED <<db, users, present, byEmail, sessions, resets, deleted, answered>>

\* handleLogin: the password matches the user found.
Login(r, e, p) ==
    /\ Idle(r)
    /\ \E i \in HasEmail(e) :
          users[i].pw = <<e, p>> /\ Begin(r, "session", "login", i, users[i])
    /\ UNCHANGED <<db, users, present, byEmail, sessions, resets, deleted, answered>>

\* processGoogleUser, first lookup.  A changed picture is saved with all the
\* rest of the user as it was read.
GoogleBySub(r, g) ==
    /\ Idle(r)
    /\ \/ \E i \in HasSub(g) : \/ Begin(r, "session", "google", i, users[i])
                               \/ Begin(r, "save", "avatar", i, users[i])
       \/ /\ NotFound(HasSub(g))
          /\ Begin(r, "byEmail", "google", None,
                   [email |-> GoogleEmail[g], pw |-> None, google |-> g])
    /\ UNCHANGED <<db, users, present, byEmail, sessions, resets, deleted, answered>>

\* Second lookup: link the user of this email, or make a new one.  Without a
\* database the link is written into the object at once, outside the mutex.
\* (Ids bounds the accounts ever made: with none left the request is dropped.)
GoogleByEmail(r) ==
    LET u == req[r].user IN
    /\ At(r, "byEmail")
    /\ \/ \E i \in HasEmail(u.email) :
             LET linked == [users[i] EXCEPT !.google = u.google] IN
             /\ Begin(r, "save", "link", i, linked)
             /\ users' = IF db THEN users ELSE [users EXCEPT ![i] = linked]
       \/ /\ NotFound(HasEmail(u.email))
          /\ \/ \E i \in Ids : ~Drawn(i) /\ Begin(r, "save", "join", i, u)
             \/ (\A i \in Ids : Drawn(i)) /\ Done(r)
          /\ UNCHANGED users
    /\ UNCHANGED <<db, present, byEmail, sessions, resets, deleted, answered>>
-----------------------------------------------------------------------------
\* saveUser.
Coalesce(new, old) == IF new = None THEN old ELSE new

\* What follows in the handler that called saveUser.
Saved(op) == IF op = "signup" THEN "created" ELSE "session"

\* UPDATE users ... WHERE id = $1 OR LOWER(email) = LOWER($2)
Matching(i, u) == {j \in present : j = i \/ users[j].email = u.email}
Taken(u, S) == \E j \in present \ S : u.google # None /\ users[j].google = u.google
\* (mutant) an UPDATE without COALESCE
OverwrittenWhole(old, u) == u
Overwritten(old, u) ==
    [email |-> u.email, pw |-> Coalesce(u.pw, old.pw), google |-> Coalesce(u.google, old.google)]

SaveUpdate(r) ==
    LET u == req[r].user
        hit == Matching(req[r].id, u)
    IN
    /\ db /\ At(r, "save")
    /\ \/ /\ Cardinality(hit) = 1 /\ ~Taken(u, hit)
          /\ users' = [i \in Ids |-> IF i \in hit THEN Overwritten(users[i], u) ELSE users[i]]
          /\ Goto(r, "reselect")
       \/ /\ Cardinality(hit) # 1 \/ Taken(u, hit) \/ MayFail("update")
          /\ Goto(r, "insert")
          /\ UNCHANGED users
    /\ UNCHANGED <<db, present, byEmail, sessions, resets, deleted, answered>>

\* (mutant) the request goes on with the id it had drawn
SaveWithoutReselect(r) ==
    /\ At(r, "reselect")
    /\ Goto(r, Saved(req[r].op))
    /\ UNCHANGED <<db, users, present, byEmail, sessions, resets, deleted, answered>>

\* SELECT id ... by email: the user goes on under the id of the row, if the
\* row is still there.
SaveReselect(r) ==
    LET S == HasEmail(req[r].user.email) IN
    /\ At(r, "reselect")
    /\ \/ \E i \in S : req' = [req EXCEPT ![r].id = i, ![r].pc = Saved(req[r].op)]
       \/ (S = {} \/ MayFail("reselect")) /\ Goto(r, Saved(req[r].op))
    /\ UNCHANGED <<db, users, present, byEmail, sessions, resets, deleted, answered>>

\* ON CONFLICT (id) DO UPDATE: of the columns here only the Google identity.
Upserted(old, u) == [old EXCEPT !.google = Coalesce(u.google, old.google)]

\* (mutant) a table users without UNIQUE (email)
SaveInsertAnyEmail(r) ==
    LET i == req[r].id IN
    /\ At(r, "insert")
    /\ users' = [users EXCEPT ![i] = req[r].user]
    /\ present' = present \cup {i}
    /\ Goto(r, Saved(req[r].op))
    /\ UNCHANGED <<db, byEmail, sessions, resets, deleted, answered>>

\* INSERT ... ON CONFLICT (id) DO UPDATE: after no row was updated, or after
\* an error.  The callers give up on an error, except for a changed picture.
SaveInsert(r) ==
    LET u == req[r].user
        i == req[r].id
        refused == Taken(u, {i}) \/ (i \notin present /\ HasEmail(u.email) # {})
    IN
    /\ At(r, "insert")
    /\ \/ /\ ~refused
          /\ users' = [users EXCEPT ![i] = IF i \in present THEN Upserted(@, u) ELSE u]
          /\ present' = present \cup {i}
          /\ Goto(r, Saved(req[r].op))
       \/ /\ refused \/ MayFail("insert")
          /\ IF req[r].op = "avatar" THEN Goto(r, "session") ELSE Done(r)
          /\ UNCHANGED <<users, present>>
    /\ UNCHANGED <<db, byEmail, sessions, resets, deleted, answered>>

\* Without a database: the object, under its id and its email.
SaveObject(r) ==
    LET i == req[r].id IN
    /\ ~db /\ At(r, "save")
    /\ users' = IF users[i] = None THEN [users EXCEPT ![i] = req[r].user] ELSE users
    /\ present' = present \cup {i}
    /\ byEmail' = [byEmail EXCEPT ![req[r].user.email] = i]
    /\ Goto(r, Saved(req[r].op))
    /\ UNCHANGED <<db, sessions, resets, deleted, answered>>

\* handleSignup answers 201.
AnswerSignup(r) ==
    /\ At(r, "created")
    /\ Done(r)
    /\ UNCHANGED <<db, users, present, byEmail, sessions, resets, deleted, answered>>

\* createSessionAndSetCookie: the table refuses a session without an account.
CreateSession(r) ==
    LET i == req[r].id IN
    /\ At(r, "session")
    /\ Done(r)
    /\ \/ /\ ~db \/ i \in present
          /\ sessions' = sessions \cup {[id |-> i, who |-> req[r].user.email]}
       \/ /\ db /\ (i \notin present \/ MayFail("session"))
          /\ UNCHANGED sessions
    /\ UNCHANGED <<db, users, present, byEmail, resets, deleted, answered>>
-----------------------------------------------------------------------------
\* HandleForgotPassword, for any requester who names the email.  The answer holds
\* the token, so Validate may come from any request too.  The lookup and the
\* INSERT are one step: an account deleted in between leaves what one deleted
\* afterwards leaves.
ForgotPassword(e) ==
    /\ HasEmail(e) # {}
    /\ \E t \in Tokens :
          /\ resets[t] = None
          /\ resets' = [resets EXCEPT ![t] = [email |-> e, used |-> FALSE, expired |-> FALSE]]
    /\ UNCHANGED <<db, users, present, byEmail, sessions, req, deleted, answered>>

Expire(t) ==
    /\ resets[t] # None /\ ~resets[t].expired
    /\ resets' = [resets EXCEPT ![t].expired = TRUE]
    /\ UNCHANGED <<db, users, present, byEmail, sessions, req, deleted, answered>>

\* HandleResetPassword up to validateAndConsumeResetToken: with a database the
\* SELECT, without one the check and the mark in one critical section.  Whoever
\* holds the token chooses the password, which is set under the token's email.
Usable(t) == resets[t] # None /\ ~resets[t].used /\ ~resets[t].expired
Validate(r, t, p) ==
    LET e == resets[t].email IN
    /\ Idle(r) /\ Usable(t)
    /\ req' = [req EXCEPT ![r] =
           [pc |-> IF db THEN "consume" ELSE "password", op |-> "reset", id |-> None,
            user |-> [email |-> e, pw |-> <<e, p>>, google |-> None], token |-> t]]
    /\ resets' = IF db THEN resets ELSE [resets EXCEPT ![t].used = TRUE]
    /\ UNCHANGED <<db, users, present, byEmail, sessions, deleted, answered>>

\* (mutant) the token is not marked
ConsumeNothing(r) ==
    /\ At(r, "consume")
    /\ Goto(r, "password")
    /\ UNCHANGED <<db, users, present, byEmail, sessions, resets, deleted, answered>>

\* UPDATE password_resets SET used = true: its error is ignored.
Consume(r) ==
    /\ At(r, "consume")
    /\ Goto(r, "password")
    /\ \/ resets' = [resets EXCEPT ![req[r].token].used = TRUE]
       \/ MayFail("consume") /\ UNCHANGED resets
    /\ UNCHANGED <<db, users, present, byEmail, sessions, deleted, answered>>

\* (mutant) the UPDATE without its WHERE
ResetPasswordEverywhere(r) ==
    /\ At(r, "password")
    /\ users' = [i \in Ids |-> IF i \in present THEN [users[i] EXCEPT !.pw = req[r].user.pw]
                                                ELSE users[i]]
    /\ Goto(r, "invalidate")
    /\ UNCHANGED <<db, present, byEmail, sessions, resets, deleted, answered>>

\* UPDATE users SET password_hash by email; an error is answered 500.
ResetPassword(r) ==
    LET u == req[r].user IN
    /\ At(r, "password")
    /\ \/ /\ users' = [i \in Ids |-> IF i \in HasEmail(u.email)
                                     THEN [users[i] EXCEPT !.pw = u.pw] ELSE users[i]]
          /\ IF db THEN Goto(r, "invalidate") /\ UNCHANGED answered
                   ELSE Done(r) /\ answered' = answered \cup {req[r].token}
       \/ /\ MayFail("password")
          /\ Done(r)
          /\ UNCHANGED <<users, answered>>
    /\ UNCHANGED <<db, present, byEmail, sessions, resets, deleted>>

\* "Invalidate active sessions": its error is ignored.
InvalidateSessions(r) ==
    /\ At(r, "invalidate")
    /\ Done(r)
    /\ answered' = answered \cup {req[r].token}
    /\ \/ sessions' = {s \in sessions : s.id \notin HasEmail(req[r].user.email)}
       \/ MayFail("session") /\ UNCHANGED sessions
    /\ UNCHANGED <<db, users, present, byEmail, resets, deleted>>
-----------------------------------------------------------------------------
\* currentUser, for a handler that goes on as that user.
SignedIn(i) == i \in present /\ \E s \in sessions : s.id = i

\* HandleChangePassword, its check (of the user as read) and its UPDATE.
ChangePassword(r, i, p) ==
    /\ Idle(r) /\ SignedIn(i)
    /\ Begin(r, "change", "change", i, [users[i] EXCEPT !.pw = <<users[i].email, p>>])
    /\ UNCHANGED <<db, users, present, byEmail, sessions, resets, deleted, answered>>

WritePassword(r) ==
    LET i == req[r].id IN
    /\ At(r, "change")
    /\ Done(r)
    /\ \/ users' = IF i \in present THEN [users EXCEPT ![i].pw = req[r].user.pw] ELSE users
       \/ MayFail("password") /\ UNCHANGED users
    /\ UNCHANGED <<db, present, byEmail, sessions, resets, deleted, answered>>

\* HandleDeleteAccount.  The rows of other tables, and the DELETE of the
\* sessions that the cascade repeats, are left to Sessions.  Reset tokens stay.
DeleteAccount(r, i) ==
    /\ Idle(r) /\ SignedIn(i)
    /\ Begin(r, "delete", "delete", i, users[i])
    /\ UNCHANGED <<db, users, present, byEmail, sessions, resets, deleted, answered>>

\* (mutants) a deletion that leaves the key in the map, and one that leaves the
\* entry in byEmail
DeleteUserKeepingKey(r) ==
    /\ At(r, "delete")
    /\ Done(r)
    /\ users' = [users EXCEPT ![req[r].id] = None]
    /\ UNCHANGED <<db, present, byEmail, sessions, resets, deleted, answered>>
DeleteUserKeepingIndex(r) ==
    LET i == req[r].id IN
    /\ At(r, "delete")
    /\ Done(r)
    /\ present' = present \ {i}
    /\ users' = IF db THEN [users EXCEPT ![i] = None] ELSE users
    /\ sessions' = {s \in sessions : s.id # i}
    /\ deleted' = [deleted EXCEPT ![i] = req[r].user.email]
    /\ UNCHANGED <<db, byEmail, resets, answered>>

DeleteUser(r) ==
    LET i == req[r].id IN
    /\ At(r, "delete")
    /\ Done(r)
    /\ \/ /\ present' = present \ {i}
          /\ users' = IF db THEN [users EXCEPT ![i] = None] ELSE users
          /\ byEmail' = [byEmail EXCEPT ![req[r].user.email] = None]
          /\ sessions' = {s \in sessions : s.id # i}
          /\ deleted' = [deleted EXCEPT ![i] = req[r].user.email]
       \/ /\ MayFail("delete")
          /\ UNCHANGED <<present, users, byEmail, sessions, deleted>>
    /\ UNCHANGED <<db, resets, answered>>

Next ==
    \/ \E r \in Requests :
          \/ \E e \in Emails, p \in Choices : Signup(r, e, p) \/ Login(r, e, p)
          \/ \E g \in Subs : GoogleBySub(r, g)
          \/ GoogleByEmail(r)
          \/ SaveUpdate(r) \/ SaveReselect(r) \/ SaveInsert(r) \/ SaveObject(r)
          \/ AnswerSignup(r) \/ CreateSession(r)
          \/ \E t \in Tokens, p \in Choices : Validate(r, t, p)
          \/ Consume(r) \/ ResetPassword(r) \/ InvalidateSessions(r)
          \/ \E i \in Ids : \/ \E p \in Choices : ChangePassword(r, i, p)
                            \/ DeleteAccount(r, i)
          \/ WritePassword(r) \/ DeleteUser(r)
    \/ \E e \in Emails : ForgotPassword(e)
    \/ \E t \in Tokens : Expire(t)

Spec == Init /\ [][Next]_vars
-----------------------------------------------------------------------------
Signing == [pc : {"save", "reselect", "insert", "created", "session", "change", "delete"},
            op : {"signup", "login", "google", "avatar", "link", "join", "change", "delete"},
            id : Ids, user : User, token : {None}]
Looking == [pc : {"byEmail"}, op : {"google"}, id : {None}, user : User, token : {None}]
Resetting == [pc : {"consume", "password", "invalidate"}, op : {"reset"}, id : {None},
              user : User, token : Tokens]

TypeOK ==
    /\ db \in BOOLEAN
    /\ users \in [Ids -> User \cup {None}]
    /\ present \subseteq {i \in Ids : users[i] # None}
    /\ byEmail \in [Emails -> Ids \cup {None}]
    /\ sessions \subseteq [id : Ids, who : Emails]
    /\ resets \in [Tokens -> Reset \cup {None}]
    /\ req \in [Requests -> {Quiet} \cup Signing \cup Looking \cup Resetting]
    /\ deleted \in [Ids -> Emails \cup {None}] /\ answered \subseteq Tokens

\* With a database an email has one account, whatever the update by email in
\* saveUser and sign-ups at the same time do.
OneAccountPerEmail ==
    db => \A i, j \in present : users[i].email = users[j].email => i = j

\* Credentials never stray from the account of one email to that of another: a
\* password stays with the email it was set under, a Google identity with its
\* email, and a session with an account of the email that was signed in with,
\* also when users that were read, deleted, registered again and changed in
\* between are saved as they were read.  (That the holder of an email chose its
\* password is not claimed: see Validate.)
CredentialsStayWithEmail ==
    /\ \A i \in present :
          /\ users[i].pw # None => users[i].pw[1] = users[i].email
          /\ users[i].google # None => GoogleEmail[users[i].google] = users[i].email
    /\ \A s \in sessions : s.id \in present => s.who = users[s.id].email

\* Without a database byEmail never leads to a missing or a wrong user.
IndexSound ==
    \A e \in Emails : byEmail[e] # None =>
        (db \/ (byEmail[e] \in present /\ users[byEmail[e]].email = e))

\* A sign-in gets to its session with the id of an account that exists, unless
\* one of its email was deleted: also when two requests register it at once.
SignInFindsAccount ==
    \A r \in Requests : At(r, "session") =>
        req[r].id \in present \/ \E i \in Ids : deleted[i] = req[r].user.email

\* password_reset_test.go, step 6: when a reset has been answered, its token is
\* refused from then on (as long as the UPDATE that marks it does not fail).
AnsweredTokenRefused == \A t \in answered : ~Usable(t)

\* In both modes the accounts, by email, are a directory (module Directory): no
\* statement, and no copy it writes back late, touches the account of another
\* email, leaves an account nobody can sign in to or, with a database, loses a
\* password or a Google identity.
Account(e) ==
    IF HasEmail(e) = {} THEN None ELSE users[CHOOSE i \in HasEmail(e) : TRUE]
ByEmail ==
    INSTANCE Directory WITH durable <- db, account <- [e \in Emails |-> Account(e)]
ImplementsDirectory == ByEmail!Spec

\* What the answers of the handlers, the comments and the tests say, and what
\* statements that interleave do not keep.

\* "this reset token has already been used": a token is accepted once.
TokenAcceptedOnce ==
    \A r, q \in Requests : r # q /\ req[r].token # None => req[r].token # req[q].token

\* "account permanently deleted": with a database the account does not exist
\* again, although a saveUser that finds no row to update inserts one.
DeletedStaysDeleted == db => \A i \in present : deleted[i] = None
=============================================================================
