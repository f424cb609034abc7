------------------------------ MODULE Profiles ------------------------------
(***************************************************************************)
(* What users change of their public profile (internal/profiles,           *)
(* internal/socials), with a database: their user name, once per cooldown, *)
(* and their social handles, which the profile's update replaces statement *)
(* by statement and POST /api/socials in one transaction.  Sign-up, Google *)
(* sign-in (saveUser) and account deletion are here as far as they touch   *)
(* either.                                                                 *)
(*                                                                         *)
(* Statements run as PostgreSQL runs them at READ COMMITTED: a DELETE sees *)
(* the rows that are there when it starts, and waits for those that an     *)
(* open transaction has deleted.                                           *)
(***************************************************************************)
EXTENDS Naturals

CONSTANTS
    Users,     \* user ids
    Names,     \* user names, as they are stored (lower case)
    RowIds,    \* ids of social_handles
    Entries,   \* pairs of a platform and a handle; of several given at once, the blank
               \* ones are left out already, and one alone may be blank
    Requests,  \* HTTP requests in flight
    Cooldown,  \* ticks between two changes of a name (7 days)
    None,
    Failing    \* the kinds of SQL statement that may fail

Statements == {"read", "count", "rename", "profile", "delete", "insert", "sync", "save"}
ASSUME CooldownAssumption == Cooldown \in Nat \ {0}
ASSUME FailingAssumption == Failing \subseteq Statements
ASSUME NoneAssumption == None \notin Names \cup Entries \cup 0..Cooldown
ASSUME RowsAssumption ==
    None \notin [name : Names \cup {None}, changed : 0..Cooldown \cup {None}] \cup [user : Users, entry : Entries]

VARIABLES
    users,     \* the rows of users: username, ticks since username_changed_at
    handles,   \* the rows of social_handles
    req,       \* requests: the next statement and its arguments
    renamed,   \* history: ticks since an update has changed the name
    overtaken  \* history: requests whose look at the cooldown failed, or came
               \* before a change that was made since
vars == <<users, handles, req, renamed, overtaken>>

User == [name : Names \cup {None}, changed : 0..Cooldown \cup {None}]
Handle == [user : Users, entry : Entries]

Quiet == [pc |-> "idle", user |-> None, name |-> None, given |-> FALSE, payload |-> {}, ids |-> {}, put |-> {}]

Init ==
    /\ users = [u \in Users |-> None]
    /\ handles = [i \in RowIds |-> None]
    /\ req = [r \in Requests |-> Quiet]
    /\ renamed = [u \in Users |-> Cooldown]
    /\ overtaken = {}

At(r, pc) == req[r].pc = pc
Begin(r, pc, u, n, given, S, I) ==
    /\ At(r, "idle")
    /\ req' = [req EXCEPT ![r] = [pc |-> pc, user |-> u, name |-> n, given |-> given,
                                      payload |-> S, ids |-> I, put |-> {}]]
Goto(r, pc) == req' = [req EXCEPT ![r].pc = pc]
Done(r) == req' = [req EXCEPT ![r] = Quiet]
MayFail(statement) == statement \in Failing

Exists(u) == users[u] # None
Accounts == {u \in Users : Exists(u)}
RowsOf(u) == {i \in RowIds : handles[i] # None /\ handles[i].user = u}
\* users.username is UNIQUE; any number of users have none.
FreeWithoutIndex(n, u) == TRUE  \* (mutant)
Free(n, u) == n = None \/ \A v \in Accounts \ {u} : users[v].name # n

\* Rows deleted and inserted by transactions that are still open.
Locked(I) == \E q \in Requests : At(q, "tx") /\ req[q].ids \cap I # {}
FreshRow(i) ==
    /\ handles[i] = None
    /\ \A q \in Requests : i \notin req[q].ids /\ \A p \in req[q].put : p.id # i
-----------------------------------------------------------------------------
\* Sign-up and first Google sign-in; the id is drawn at random.
Register(u, n) ==
    /\ ~Exists(u) /\ Free(n, u) /\ \A q \in Requests : req[q].user # u
    /\ users' = [users EXCEPT ![u] = [name |-> n, changed |-> None]]
    /\ renamed' = [renamed EXCEPT ![u] = Cooldown]
    /\ UNCHANGED <<handles, req, overtaken>>

\* A Google sign-in reads the user ...
SignIn(r, u) ==
    /\ Exists(u)
    /\ Begin(r, "save", u, users[u].name, FALSE, {}, {})
    /\ UNCHANGED <<users, handles, renamed, overtaken>>

\* ... and saveUser writes it back: an UPDATE, which a name that another user
\* has got makes fail, and then an INSERT, which leaves the name of an existing
\* row alone.
SaveUser(r) ==
    LET u == req[r].user  n == req[r].name IN
    /\ At(r, "save") /\ Done(r)
    /\ \/ /\ Exists(u) /\ Free(n, u)
          /\ users' = [users EXCEPT ![u].name = IF n = None THEN @ ELSE n]
          /\ UNCHANGED renamed
       \/ /\ ~Exists(u) /\ Free(n, u)
          /\ users' = [users EXCEPT ![u] = [name |-> n, changed |-> None]]
          /\ renamed' = [renamed EXCEPT ![u] = Cooldown]
       \/ /\ ~Free(n, u) \/ MayFail("save")
          /\ UNCHANGED <<users, renamed>>
    /\ UNCHANGED <<handles, overtaken>>

\* The DELETE of the user, which cascades to the handles; it waits for
\* transactions that have deleted some, or inserted some for the user.
DeleteUser(u) ==
    /\ Exists(u) /\ ~Locked(RowsOf(u))
    /\ \A q \in Requests : At(q, "tx") /\ req[q].user = u => req[q].put = {}
    /\ users' = [users EXCEPT ![u] = None]
    /\ handles' = [i \in RowIds |-> IF i \in RowsOf(u) THEN None ELSE handles[i]]
    /\ renamed' = [renamed EXCEPT ![u] = Cooldown]
    /\ UNCHANGED <<req, overtaken>>

Older(age) == IF age \in 0..(Cooldown - 1) THEN age + 1 ELSE age
\* Time passes, as long as somebody can tell.
Tick ==
    /\ users' = [u \in Users |-> IF Exists(u) THEN [users[u] EXCEPT !.changed = Older(@)] ELSE None]
    /\ renamed' = [u \in Users |-> Older(renamed[u])]
    /\ users' # users \/ renamed' # renamed
    /\ UNCHANGED <<handles, req, overtaken>>
-----------------------------------------------------------------------------
\* (mutant) a cooldown that is a tick too short
CoolingShort(u) == users[u].changed \in 0..(Cooldown - 1) /\ users[u].changed + 1 < Cooldown
Cooling(u) == users[u].changed \in 0..(Cooldown - 1)

\* UpdateMyProfile, for an authenticated user.  Without a name it starts with
\* the profile's row ...
Update(r, u, given, S) ==
    /\ Exists(u)
    /\ Begin(r, "profile", u, None, given, S, {})
    /\ UNCHANGED <<users, handles, renamed, overtaken>>

\* ... with one, with the current name and the cooldown, which is not looked at
\* when the name is the same.  A SELECT that fails finds an empty name and no
\* time of change.  (A refused update changes nothing.)
ReadName(r, u, n, given, S) ==
    /\ Exists(u)
    /\ \/ /\ users[u].name = n
          /\ Begin(r, "profile", u, n, given, S, {}) /\ UNCHANGED overtaken
       \/ /\ users[u].name # n /\ ~Cooling(u)
          /\ Begin(r, "available", u, n, given, S, {}) /\ UNCHANGED overtaken
       \/ /\ MayFail("read")
          /\ Begin(r, "available", u, n, given, S, {}) /\ overtaken' = overtaken \cup {r}
    /\ UNCHANGED <<users, handles, renamed>>

\* IsUsernameAvailable: no user has the name, or the COUNT failed.
Available(r) ==
    LET free == \A v \in Accounts : users[v].name # req[r].name IN
    /\ At(r, "available")
    /\ \/ (free \/ MayFail("count")) /\ Goto(r, "rename") /\ UNCHANGED overtaken
       \/ ~free /\ Done(r) /\ overtaken' = overtaken \ {r}
    /\ UNCHANGED <<users, handles, renamed>>

\* The UPDATE of the name: of no row, if the account is gone; refused, if the
\* name is taken after all.
Rename(r) ==
    LET u == req[r].user  n == req[r].name IN
    /\ At(r, "rename")
    /\ \/ /\ Exists(u) /\ Free(n, u) /\ Goto(r, "profile")
          /\ users' = [users EXCEPT ![u] = [name |-> n, changed |-> 0]]
          /\ renamed' = [renamed EXCEPT ![u] = 0]
          /\ overtaken' = (overtaken \ {r}) \cup {q \in Requests \ {r} : req[q].user = u /\ (At(q, "available") \/ At(q, "rename"))}
       \/ /\ ~Exists(u) /\ Goto(r, "profile")
          /\ overtaken' = overtaken \ {r} /\ UNCHANGED <<users, renamed>>
       \/ /\ (Exists(u) /\ ~Free(n, u)) \/ MayFail("rename")
          /\ Done(r) /\ overtaken' = overtaken \ {r} /\ UNCHANGED <<users, renamed>>
    /\ UNCHANGED handles

\* The profile's row: UPDATE or INSERT, and an error ends the request.
WriteProfile(r) ==
    /\ At(r, "profile")
    /\ \/ Exists(req[r].user) /\ req[r].given /\ Goto(r, "socials")
       \/ Exists(req[r].user) /\ ~req[r].given /\ Done(r)
       \/ (~Exists(req[r].user) \/ MayFail("profile")) /\ Done(r)
    /\ UNCHANGED <<users, handles, renamed, overtaken>>

\* DELETE of all handles of the user: it starts, and it ends.
StartDelete(r) ==
    /\ At(r, "socials")
    /\ req' = [req EXCEPT ![r].pc = "delete", ![r].ids = RowsOf(req[r].user)]
    /\ UNCHANGED <<users, handles, renamed, overtaken>>

EndDelete(r) ==
    /\ At(r, "delete") /\ ~Locked(req[r].ids)
    /\ req' = [req EXCEPT ![r].pc = "insert", ![r].ids = {}]
    /\ \/ handles' = [i \in RowIds |-> IF i \in req[r].ids THEN None ELSE handles[i]]
       \/ MayFail("delete") /\ UNCHANGED handles
    /\ UNCHANGED <<users, renamed, overtaken>>

RowOfNobody(r, e) == [user |-> None, entry |-> e]  \* (mutant) a statement without its parameter
Row(r, e) == [user |-> req[r].user, entry |-> e]
\* (mutant) social_handles.user_id without its foreign key
InsertUnreferenced(r) ==
    /\ At(r, "insert")
    /\ \/ \E e \in req[r].payload :
             /\ req' = [req EXCEPT ![r].payload = @ \ {e}]
             /\ \/ \E i \in RowIds : FreshRow(i) /\ handles' = [handles EXCEPT ![i] = Row(r, e)]
                \/ MayFail("insert") /\ UNCHANGED handles
       \/ req[r].payload = {} /\ Done(r) /\ UNCHANGED handles
    /\ UNCHANGED <<users, renamed, overtaken>>

\* One INSERT per handle, in any order (a map), errors ignored.
Insert(r) ==
    /\ At(r, "insert")
    /\ \/ \E e \in req[r].payload :
             /\ req' = [req EXCEPT ![r].payload = @ \ {e}]
             /\ \/ /\ Exists(req[r].user)
                   /\ \E i \in RowIds : FreshRow(i) /\ handles' = [handles EXCEPT ![i] = Row(r, e)]
                \/ ~Exists(req[r].user) /\ UNCHANGED handles
                \/ MayFail("insert") /\ UNCHANGED handles
       \/ req[r].payload = {} /\ Done(r) /\ UNCHANGED handles
    /\ UNCHANGED <<users, renamed, overtaken>>
-----------------------------------------------------------------------------
\* SyncUserSocials with one handle: a single INSERT.
AddHandle(u, e) ==
    /\ Exists(u)
    /\ \E i \in RowIds : FreshRow(i) /\ handles' = [handles EXCEPT ![i] = [user |-> u, entry |-> e]]
    /\ UNCHANGED <<users, req, renamed, overtaken>>

\* SyncUserSocials with several: BEGIN and DELETE, which starts ...
Sync(r, u, S) ==
    /\ Exists(u)
    /\ Begin(r, "sync", u, None, TRUE, S, RowsOf(u))
    /\ UNCHANGED <<users, handles, renamed, overtaken>>

\* ... and has deleted, as far as the transaction goes, those that are left ...
SyncDelete(r) ==
    /\ At(r, "sync") /\ ~Locked(req[r].ids)
    /\ req' = [req EXCEPT ![r].pc = "tx", ![r].ids = {i \in @ : handles[i] # None}]
    /\ UNCHANGED <<users, handles, renamed, overtaken>>

\* ... one INSERT per handle ...
SyncInsert(r) ==
    /\ At(r, "tx") /\ Exists(req[r].user)
    /\ \E e \in req[r].payload \ {p.entry : p \in req[r].put}, i \in RowIds :
          FreshRow(i) /\ req' = [req EXCEPT ![r].put = @ \cup {[id |-> i, entry |-> e]}]
    /\ UNCHANGED <<users, handles, renamed, overtaken>>

Applied(r) ==
    [i \in RowIds |-> IF \E p \in req[r].put : p.id = i THEN Row(r, (CHOOSE p \in req[r].put : p.id = i).entry)
                      ELSE IF i \in req[r].ids THEN None ELSE handles[i]]
\* ... and COMMIT.
SyncCommit(r) ==
    /\ At(r, "tx") /\ req[r].payload = {p.entry : p \in req[r].put}
    /\ Done(r) /\ handles' = Applied(r)
    /\ UNCHANGED <<users, renamed, overtaken>>

SyncBroken(r) ==
    \/ At(r, "tx") /\ ~Exists(req[r].user) /\ req[r].payload # {p.entry : p \in req[r].put}
    \/ (At(r, "sync") \/ At(r, "tx")) /\ MayFail("sync")
\* (mutant) statements that do not share a transaction
SyncFailsHalfway(r) ==
    /\ SyncBroken(r)
    /\ Done(r) /\ handles' = Applied(r)
    /\ UNCHANGED <<users, renamed, overtaken>>

\* The errors of its statements are ignored, but the database then refuses the
\* COMMIT.
SyncFails(r) ==
    /\ SyncBroken(r)
    /\ Done(r) /\ UNCHANGED handles
    /\ UNCHANGED <<users, renamed, overtaken>>

\* DeleteSocial: of the row with the id that the client sends, if it is the
\* user's own.
Delete(r, u, i) ==
    /\ Exists(u)
    /\ Begin(r, "drop", u, None, FALSE, {}, {i})
    /\ UNCHANGED <<users, handles, renamed, overtaken>>

DroppableByAnyone(r) == {i \in req[r].ids : handles[i] # None}  \* (mutant)
Droppable(r) == req[r].ids \cap RowsOf(req[r].user)
Drop(r) ==
    /\ At(r, "drop") /\ ~Locked(req[r].ids) /\ Done(r)
    /\ handles' = [i \in RowIds |-> IF i \in Droppable(r) THEN None ELSE handles[i]]
    /\ UNCHANGED <<users, renamed, overtaken>>
-----------------------------------------------------------------------------
Next ==
    \/ Tick
    \/ \E u \in Users :
          \/ DeleteUser(u)
          \/ \E n \in Names \cup {None} : Register(u, n)
          \/ \E e \in Entries : AddHandle(u, e)
    \/ \E r \in Requests, u \in Users :
          \/ SignIn(r, u)
          \/ \E given \in BOOLEAN, S \in SUBSET Entries :
                /\ given \/ S = {}
                /\ Update(r, u, given, S) \/ \E n \in Names : ReadName(r, u, n, given, S)
          \/ \E S \in SUBSET Entries : Sync(r, u, S)
          \/ \E i \in RowIds : Delete(r, u, i)
    \/ \E r \in Requests :
          \/ SaveUser(r)
          \/ Available(r) \/ Rename(r) \/ WriteProfile(r)
          \/ StartDelete(r) \/ EndDelete(r) \/ Insert(r)
          \/ SyncDelete(r) \/ SyncInsert(r) \/ SyncCommit(r) \/ SyncFails(r)
          \/ Drop(r)

Spec == Init /\ [][Next]_vars
-----------------------------------------------------------------------------
Pcs == {"save", "available", "rename", "profile", "socials", "delete", "insert", "sync", "tx", "drop"}
Pending ==
    [pc : Pcs, user : Users, name : Names \cup {None}, given : BOOLEAN, payload : SUBSET Entries,
     ids : SUBSET RowIds, put : SUBSET [id : RowIds, entry : Entries]]

TypeOK ==
    /\ users \in [Users -> User \cup {None}]
    /\ handles \in [RowIds -> Handle \cup {None}]
    /\ req \in [Requests -> {Quiet} \cup Pending]
    /\ renamed \in [Users -> 0..Cooldown]
    /\ overtaken \subseteq Requests

\* No two users have the same name, however their updates, sign-ups and
\* sign-ins overlap (IsUsernameAvailable and the UPDATE after it, saveUser).
UniqueNames ==
    \A u, v \in Accounts : u # v /\ users[u].name # None => users[u].name # users[v].name

\* Every handle belongs to an account: one that is deleted in the middle of an
\* update or of a synchronisation leaves nothing behind (UpdateMyProfile,
\* SyncUserSocials).
NoOrphanHandles == \A i \in RowIds : handles[i] # None => Exists(handles[i].user)

\* An update changes a name within the cooldown only if it has overlapped with
\* the change before it, or could not read the time of that (UpdateMyProfile).
CooldownKept ==
    [][\A r \in Requests :
          At(r, "rename") /\ At(r, "profile")' /\ Exists(req[r].user)
             => renamed[req[r].user] = Cooldown \/ r \in overtaken]_vars

\* When a transaction of SyncUserSocials ends, all its handles are there and
\* none that it has deleted, or nothing has changed.
SyncWhole ==
    [][\A r \in Requests : At(r, "tx") /\ ~At(r, "tx")' =>
          \/ handles' = handles
          \/ /\ \A i \in req[r].ids : handles'[i] # handles[i]
             /\ \A e \in req[r].payload :
                   \E i \in RowIds : handles[i] = None /\ handles'[i] = Row(r, e)]_vars

\* A handle disappears only by a request of its user, or with the account
\* (DeleteSocial, SyncUserSocials, UpdateMyProfile).
OnlyOwnersRemove ==
    [][\A i \in RowIds : handles[i] # None /\ handles'[i] = None =>
          \/ users'[handles[i].user] = None
          \/ \E r \in Requests : req[r].user = handles[i].user /\ req'[r] # req[r]]_vars
=============================================================================
