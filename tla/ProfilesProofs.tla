--------------------------- MODULE ProfilesProofs ---------------------------
(***************************************************************************)
(* For every number of users, names, handles and requests, any cooldown,   *)
(* and whatever statements fail: names are unique, no handle outlives its  *)
(* account or goes without its user's request, the cooldown is kept but    *)
(* for overlapping updates, and a synchronisation of the handles happens   *)
(* wholly or not at all.                                                   *)
(***************************************************************************)
EXTENDS Profiles, TLAPS

USE CooldownAssumption, NoneAssumption, RowsAssumption

Request == {Quiet} \cup Pending

\* What a request is, and what a step makes of it.
LEMMA RequestParts ==
    ASSUME TypeOK, NEW r \in Requests
    PROVE  /\ req[r] \in Request
           /\ \A pc \in Pcs : At(r, pc) => req[r] \in Pending
           /\ req[r].put # {} => req[r] \in Pending
BY DEF TypeOK, Request, At, Pcs, Quiet, Pending

\* The kinds of step, one by one.
Starts(r, u) ==
    \/ SignIn(r, u)
    \/ \E given \in BOOLEAN, S \in SUBSET Entries : Update(r, u, given, S)
    \/ \E n \in Names, given \in BOOLEAN, S \in SUBSET Entries : ReadName(r, u, n, given, S)
    \/ \E S \in SUBSET Entries : Sync(r, u, S)
    \/ \E i \in RowIds : Delete(r, u, i)
LEMMA NextCases ==
    ASSUME Next
    PROVE  \/ Tick
           \/ \E u \in Users : DeleteUser(u)
           \/ \E u \in Users, n \in Names \cup {None} : Register(u, n)
           \/ \E u \in Users, e \in Entries : AddHandle(u, e)
           \/ \E r \in Requests, u \in Users : Starts(r, u)
           \/ \E r \in Requests :
                 \/ SaveUser(r) \/ Available(r) \/ Rename(r) \/ WriteProfile(r)
                 \/ StartDelete(r) \/ EndDelete(r) \/ Insert(r)
                 \/ SyncDelete(r) \/ SyncInsert(r) \/ SyncCommit(r) \/ SyncFails(r)
                 \/ Drop(r)
<1>1. ASSUME NEW r \in Requests, NEW u \in Users,
             \/ SignIn(r, u)
             \/ \E given \in BOOLEAN, S \in SUBSET Entries :
                   (given \/ S = {}) /\ (Update(r, u, given, S) \/ \E n \in Names : ReadName(r, u, n, given, S))
             \/ \E S \in SUBSET Entries : Sync(r, u, S)
             \/ \E i \in RowIds : Delete(r, u, i)
      PROVE  Starts(r, u)
  BY <1>1, Zenon DEF Starts
<1>. QED
  BY <1>1, Zenon DEF Next

\* What a step that begins a request does not touch.
LEMMA StartsOnly ==
    ASSUME NEW r \in Requests, NEW u \in Users, Starts(r, u)
    PROVE  At(r, "idle") /\ Exists(u) /\ UNCHANGED <<users, handles, renamed>>
BY Zenon DEF Starts, SignIn, Update, ReadName, Sync, Delete, Begin

Alone(r) == \A q \in Requests \ {r} : req'[q] = req[q]

LEMMA RequestSteps ==
    ASSUME TypeOK, NEW r \in Requests
    PROVE  /\ Done(r) => Alone(r) /\ req'[r] = Quiet /\ req' \in [Requests -> Request]
           /\ \A pc \in Pcs : req[r] \in Pending /\ Goto(r, pc) =>
                 Alone(r) /\ req'[r] = [req[r] EXCEPT !.pc = pc] /\ req' \in [Requests -> Request]
<1>1. req \in [Requests -> Request] /\ Quiet \in Request
  BY DEF TypeOK, Request
<1>2. Done(r) => Alone(r) /\ req'[r] = Quiet /\ req' \in [Requests -> Request]
  BY <1>1 DEF Done, Alone
<1>3. ASSUME NEW pc \in Pcs, req[r] \in Pending, Goto(r, pc)
      PROVE  Alone(r) /\ req'[r] = [req[r] EXCEPT !.pc = pc] /\ req' \in [Requests -> Request]
  <2>1. [req[r] EXCEPT !.pc = pc] \in Request
    BY <1>3 DEF Request, Pending
  <2>2. req' = [req EXCEPT ![r] = [req[r] EXCEPT !.pc = pc]]
    BY <1>3, <1>1 DEF Goto
  <2>. QED
    BY <2>1, <2>2, <1>1 DEF Alone
<1>. QED
  BY <1>2, <1>3

LEMMA RequestReplaced ==
    ASSUME TypeOK, NEW r \in Requests, NEW x \in Pending, req' = [req EXCEPT ![r] = x]
    PROVE  Alone(r) /\ req' \in [Requests -> Request] /\ req'[r] = x
<1>1. req \in [Requests -> Request]
  BY DEF TypeOK, Request
<1>. QED
  BY <1>1 DEF Alone, Request

\* The steps that begin a request: what it is then.
LEMMA RequestStarts ==
    ASSUME TypeOK, NEW r \in Requests, NEW u \in Users
    PROVE  /\ SignIn(r, u) => /\ Alone(r) /\ req' \in [Requests -> Request]
                              /\ req'[r].pc = "save" /\ req'[r].put = {}
           /\ \A given \in BOOLEAN, S \in SUBSET Entries : Update(r, u, given, S) =>
                 /\ Alone(r) /\ req' \in [Requests -> Request]
                 /\ req'[r].pc = "profile" /\ req'[r].put = {}
           /\ \A n \in Names, given \in BOOLEAN, S \in SUBSET Entries : ReadName(r, u, n, given, S) =>
                 /\ Alone(r) /\ req' \in [Requests -> Request]
                 /\ req'[r].pc \in {"profile", "available"} /\ req'[r].user = u /\ req'[r].put = {}
           /\ \A S \in SUBSET Entries : Sync(r, u, S) =>
                 /\ Alone(r) /\ req' \in [Requests -> Request]
                 /\ req'[r].pc = "sync" /\ req'[r].user = u /\ req'[r].ids = RowsOf(u) /\ req'[r].put = {}
           /\ \A i \in RowIds : Delete(r, u, i) =>
                 /\ Alone(r) /\ req' \in [Requests -> Request]
                 /\ req'[r].pc = "drop" /\ req'[r].put = {}
<1>. DEFINE New(pc, n, given, S, I) ==
               [pc |-> pc, user |-> u, name |-> n, given |-> given, payload |-> S, ids |-> I, put |-> {}]
<1>0. \A pc \in Pcs, n \in Names \cup {None}, given \in BOOLEAN, S \in SUBSET Entries, I \in SUBSET RowIds :
          New(pc, n, given, S, I) \in Pending
  BY DEF Pending
<1>1. ASSUME SignIn(r, u)
      PROVE  Alone(r) /\ req' \in [Requests -> Request] /\ req'[r].pc = "save" /\ req'[r].put = {}
  <2>1. users[u].name \in Names \cup {None}
    BY <1>1 DEF SignIn, Exists, TypeOK, User
  <2>. DEFINE x == New("save", users[u].name, FALSE, {}, {})
  <2>2. x \in Pending
    BY <1>0, <2>1 DEF Pcs
  <2>3. req' = [req EXCEPT ![r] = x]
    BY <1>1 DEF SignIn, Begin
  <2>4. Alone(r) /\ req' \in [Requests -> Request] /\ req'[r] = x
    BY <2>2, <2>3, RequestReplaced
  <2>. QED
    BY <2>4
<1>2. ASSUME NEW given \in BOOLEAN, NEW S \in SUBSET Entries, Update(r, u, given, S)
      PROVE  Alone(r) /\ req' \in [Requests -> Request] /\ req'[r].pc = "profile" /\ req'[r].put = {}
  <2>. DEFINE x == New("profile", None, given, S, {})
  <2>1. x \in Pending
    BY <1>0 DEF Pcs
  <2>2. req' = [req EXCEPT ![r] = x]
    BY <1>2 DEF Update, Begin
  <2>3. Alone(r) /\ req' \in [Requests -> Request] /\ req'[r] = x
    BY <2>1, <2>2, RequestReplaced
  <2>. QED
    BY <2>3
<1>3. ASSUME NEW n \in Names, NEW given \in BOOLEAN, NEW S \in SUBSET Entries, ReadName(r, u, n, given, S)
      PROVE  /\ Alone(r) /\ req' \in [Requests -> Request]
             /\ req'[r].pc \in {"profile", "available"} /\ req'[r].user = u /\ req'[r].put = {}
  <2>1. PICK pc \in {"profile", "available"} : Begin(r, pc, u, n, given, S, {})
    BY <1>3 DEF ReadName
  <2>. DEFINE x == New(pc, n, given, S, {})
  <2>2. x \in Pending
    BY <1>0 DEF Pcs
  <2>3. req' = [req EXCEPT ![r] = x]
    BY <2>1 DEF Begin
  <2>4. Alone(r) /\ req' \in [Requests -> Request] /\ req'[r] = x
    BY <2>2, <2>3, RequestReplaced
  <2>. QED
    BY <2>4
<1>4. ASSUME NEW S \in SUBSET Entries, Sync(r, u, S)
      PROVE  /\ Alone(r) /\ req' \in [Requests -> Request]
             /\ req'[r].pc = "sync" /\ req'[r].user = u /\ req'[r].ids = RowsOf(u) /\ req'[r].put = {}
  <2>. DEFINE x == New("sync", None, TRUE, S, RowsOf(u))
  <2>1. RowsOf(u) \in SUBSET RowIds
    BY DEF RowsOf
  <2>2. x \in Pending
    BY <1>0, <2>1 DEF Pcs
  <2>3. req' = [req EXCEPT ![r] = x]
    BY <1>4 DEF Sync, Begin
  <2>4. Alone(r) /\ req' \in [Requests -> Request] /\ req'[r] = x
    BY <2>2, <2>3, RequestReplaced
  <2>. QED
    BY <2>4
<1>5. ASSUME NEW i \in RowIds, Delete(r, u, i)
      PROVE  Alone(r) /\ req' \in [Requests -> Request] /\ req'[r].pc = "drop" /\ req'[r].put = {}
  <2>. DEFINE x == New("drop", None, FALSE, {}, {i})
  <2>1. x \in Pending
    BY <1>0 DEF Pcs
  <2>2. req' = [req EXCEPT ![r] = x]
    BY <1>5 DEF Delete, Begin
  <2>3. Alone(r) /\ req' \in [Requests -> Request] /\ req'[r] = x
    BY <2>1, <2>2, RequestReplaced
  <2>. QED
    BY <2>3
<1>. HIDE DEF New
<1>. QED
  BY <1>1, <1>2, <1>3, <1>4, <1>5

Inserted(r) == {p.entry : p \in req[r].put}

\* The steps that change a request in its place.
LEMMA RequestChanges ==
    ASSUME TypeOK, NEW r \in Requests
    PROVE  /\ StartDelete(r) \/ EndDelete(r) \/ Insert(r) \/ SyncDelete(r) \/ SyncInsert(r) =>
                 Alone(r) /\ req' \in [Requests -> Request]
           /\ StartDelete(r) => req'[r] = [req[r] EXCEPT !.pc = "delete", !.ids = RowsOf(req[r].user)]
           /\ EndDelete(r) => req'[r] = [req[r] EXCEPT !.pc = "insert", !.ids = {}]
           /\ Insert(r) => req'[r] = Quiet \/ \E e \in Entries : req'[r] = [req[r] EXCEPT !.payload = @ \ {e}]
           /\ SyncDelete(r) => req'[r] = [req[r] EXCEPT !.pc = "tx", !.ids = {i \in @ : handles[i] # None}]
           /\ SyncInsert(r) => \E e \in Entries, i \in RowIds :
                 /\ FreshRow(i) /\ e \notin Inserted(r)
                 /\ req'[r] = [req[r] EXCEPT !.put = @ \cup {[id |-> i, entry |-> e]}]
<1>1. req \in [Requests -> Request]
  BY DEF TypeOK, Request
<1>2. CASE StartDelete(r)
  <2>1. req[r] \in Pending
    BY <1>2, RequestParts DEF StartDelete, Pcs
  <2>. DEFINE x == [req[r] EXCEPT !.pc = "delete", !.ids = RowsOf(req[r].user)]
  <2>2. x \in Request
    BY <2>1 DEF Request, Pending, Pcs, RowsOf
  <2>3. req' = [req EXCEPT ![r] = x]
    BY <1>1, <1>2 DEF StartDelete
  <2>. QED
    BY <1>1, <1>2, <2>1, <2>2, <2>3
       DEF Alone, StartDelete, EndDelete, Insert, SyncDelete, SyncInsert, At
<1>3. CASE EndDelete(r)
  <2>1. req[r] \in Pending
    BY <1>3, RequestParts DEF EndDelete, Pcs
  <2>. DEFINE x == [req[r] EXCEPT !.pc = "insert", !.ids = {}]
  <2>2. x \in Request
    BY <2>1 DEF Request, Pending, Pcs
  <2>3. req' = [req EXCEPT ![r] = x]
    BY <1>1, <1>3 DEF EndDelete
  <2>. QED
    BY <1>1, <1>3, <2>1, <2>2, <2>3
       DEF Alone, StartDelete, EndDelete, Insert, SyncDelete, SyncInsert, At
<1>4. CASE Insert(r)
  <2>1. req[r] \in Pending
    BY <1>4, RequestParts DEF Insert, Pcs
  <2>2. ASSUME NEW e \in req[r].payload, req' = [req EXCEPT ![r].payload = @ \ {e}]
        PROVE  /\ req' = [req EXCEPT ![r] = [req[r] EXCEPT !.payload = @ \ {e}]]
               /\ [req[r] EXCEPT !.payload = @ \ {e}] \in Request /\ e \in Entries
    BY <1>1, <2>1, <2>2 DEF Request, Pending
  <2>3. CASE req[r].payload = {} /\ Done(r)
    BY <2>3, <1>4, RequestSteps DEF StartDelete, EndDelete, Insert, SyncDelete, SyncInsert, At
  <2>4. CASE \E e \in req[r].payload : req' = [req EXCEPT ![r].payload = @ \ {e}]
    <3>1. PICK e \in req[r].payload : req' = [req EXCEPT ![r].payload = @ \ {e}]
      BY <2>4
    <3>. DEFINE x == [req[r] EXCEPT !.payload = @ \ {e}]
    <3>2. req' = [req EXCEPT ![r] = x] /\ x \in Request /\ e \in Entries
      BY <3>1, <2>2
    <3>3. Alone(r) /\ req' \in [Requests -> Request] /\ req'[r] = x
      BY <1>1, <3>2 DEF Alone
    <3>. QED
      BY <3>2, <3>3, <1>4 DEF StartDelete, EndDelete, Insert, SyncDelete, SyncInsert, At
  <2>. QED
    BY <1>4, <2>3, <2>4 DEF Insert
<1>5. CASE SyncDelete(r)
  <2>1. req[r] \in Pending
    BY <1>5, RequestParts DEF SyncDelete, Pcs
  <2>. DEFINE x == [req[r] EXCEPT !.pc = "tx", !.ids = {i \in @ : handles[i] # None}]
  <2>2. x \in Request
    BY <2>1 DEF Request, Pending, Pcs
  <2>3. req' = [req EXCEPT ![r] = x]
    BY <1>1, <1>5 DEF SyncDelete
  <2>. QED
    BY <1>1, <1>5, <2>1, <2>2, <2>3
       DEF Alone, StartDelete, EndDelete, Insert, SyncDelete, SyncInsert, At
<1>6. CASE SyncInsert(r)
  <2>1. req[r] \in Pending
    BY <1>6, RequestParts DEF SyncInsert, Pcs
  <2>2. PICK e \in req[r].payload \ Inserted(r), i \in RowIds :
            FreshRow(i) /\ req' = [req EXCEPT ![r].put = @ \cup {[id |-> i, entry |-> e]}]
    BY <1>6 DEF SyncInsert, Inserted
  <2>. DEFINE x == [req[r] EXCEPT !.put = @ \cup {[id |-> i, entry |-> e]}]
  <2>3. x \in Request /\ e \in Entries
    BY <2>1 DEF Request, Pending
  <2>4. req' = [req EXCEPT ![r] = x]
    BY <1>1, <2>2
  <2>5. Alone(r) /\ req' \in [Requests -> Request] /\ req'[r] = x
    BY <1>1, <2>3, <2>4 DEF Alone
  <2>. QED
    BY <1>6, <2>2, <2>3, <2>5
       DEF StartDelete, EndDelete, Insert, SyncDelete, SyncInsert, At
<1>. QED
  BY <1>2, <1>3, <1>4, <1>5, <1>6

LEMMA RequestType ==
    ASSUME TypeOK, [Next]_vars
    PROVE  req' \in [Requests -> Request]
<1>1. CASE UNCHANGED req
  BY <1>1 DEF TypeOK, Request
<1>2. ASSUME NEW r \in Requests, Available(r) \/ Rename(r) \/ WriteProfile(r)
      PROVE  req' \in [Requests -> Request]
  <2>1. req[r] \in Pending
    BY <1>2, RequestParts DEF Available, Rename, WriteProfile, Pcs
  <2>. QED
    BY <1>2, <2>1, RequestSteps DEF Available, Rename, WriteProfile, Pcs
<1>3. ASSUME NEW r \in Requests, SaveUser(r) \/ SyncCommit(r) \/ SyncFails(r) \/ Drop(r)
      PROVE  req' \in [Requests -> Request]
  BY <1>3, RequestSteps DEF SaveUser, SyncCommit, SyncFails, Drop
<1>4. ASSUME NEW r \in Requests, NEW u \in Users, Starts(r, u)
      PROVE  req' \in [Requests -> Request]
  <2>1. CASE SignIn(r, u)
    BY <2>1, RequestStarts
  <2>2. CASE \E given \in BOOLEAN, S \in SUBSET Entries : Update(r, u, given, S)
    BY <2>2, RequestStarts
  <2>3. CASE \E n \in Names, given \in BOOLEAN, S \in SUBSET Entries : ReadName(r, u, n, given, S)
    BY <2>3, RequestStarts
  <2>4. CASE \E S \in SUBSET Entries : Sync(r, u, S)
    BY <2>4, RequestStarts
  <2>5. CASE \E i \in RowIds : Delete(r, u, i)
    BY <2>5, RequestStarts
  <2>. QED
    BY <1>4, <2>1, <2>2, <2>3, <2>4, <2>5, Zenon DEF Starts
<1>5. ASSUME NEW r \in Requests,
             StartDelete(r) \/ EndDelete(r) \/ Insert(r) \/ SyncDelete(r) \/ SyncInsert(r)
      PROVE  req' \in [Requests -> Request]
  BY <1>5, RequestChanges
<1>6. CASE Tick \/ \E u \in Users :
              \/ DeleteUser(u)
              \/ \E n \in Names \cup {None} : Register(u, n)
              \/ \E e \in Entries : AddHandle(u, e)
  BY <1>1, <1>6, Zenon DEF Tick, DeleteUser, Register, AddHandle
<1>7. CASE Next
  BY <1>7, <1>2, <1>3, <1>4, <1>5, <1>6, NextCases, Zenon
<1>. QED
  BY <1>1, <1>7 DEF vars

LEMMA InitType == Init => TypeOK
BY DEF Init, TypeOK

\* Each variable by itself; what an action leaves alone keeps its type.
LEMMA UsersType ==
    ASSUME TypeOK, [Next]_vars
    PROVE  /\ users' \in [Users -> User \cup {None}] /\ renamed' \in [Users -> 0..Cooldown]
           /\ overtaken' \subseteq Requests
<1>. DEFINE Goal == /\ users' \in [Users -> User \cup {None}] /\ renamed' \in [Users -> 0..Cooldown]
                    /\ overtaken' \subseteq Requests
<1>1. CASE UNCHANGED <<users, renamed, overtaken>>
  BY <1>1 DEF TypeOK
<1>2. ASSUME NEW u \in Users, NEW n \in Names \cup {None}, Register(u, n)
      PROVE  Goal
  BY <1>2 DEF Register, TypeOK, User
<1>3. ASSUME NEW r \in Requests, SaveUser(r)
      PROVE  Goal
  <2>. DEFINE u == req[r].user
              n == req[r].name
  <2>1. req[r].user \in Users /\ req[r].name \in Names \cup {None}
    BY <1>3, RequestParts DEF SaveUser, Pcs, Pending
  <2>2. CASE users' = [users EXCEPT ![u].name = IF n = None THEN @ ELSE n] /\ Exists(u)
    <3>1. users' = [users EXCEPT ![u] = [users[u] EXCEPT !.name = IF n = None THEN users[u].name ELSE n]]
      BY <2>2
    <3>2. [users[u] EXCEPT !.name = IF n = None THEN users[u].name ELSE n] \in User
      BY <2>1, <2>2 DEF TypeOK, User, Exists
    <3>3. renamed' = renamed \/ renamed' = [renamed EXCEPT ![u] = Cooldown]
      BY <1>3 DEF SaveUser
    <3>. QED
      BY <1>3, <2>1, <3>1, <3>2, <3>3 DEF SaveUser, TypeOK
  <2>3. CASE users' = [users EXCEPT ![u] = [name |-> n, changed |-> None]] \/ users' = users
    <3>1. [name |-> n, changed |-> None] \in User
      BY <2>1 DEF User
    <3>. QED
      BY <1>3, <2>1, <2>3, <3>1 DEF SaveUser, TypeOK
  <2>. QED
    BY <1>3, <2>2, <2>3 DEF SaveUser
<1>4. ASSUME NEW u \in Users, DeleteUser(u)
      PROVE  Goal
  BY <1>4 DEF DeleteUser, TypeOK
<1>5. CASE Tick
  <2>1. \A age \in 0..Cooldown \cup {None} : Older(age) \in 0..Cooldown \cup {None}
    BY DEF Older
  <2>2. \A age \in 0..Cooldown : Older(age) \in 0..Cooldown
    BY DEF Older
  <2>3. \A u \in Users : Exists(u) => [users[u] EXCEPT !.changed = Older(users[u].changed)] \in User
    BY <2>1 DEF TypeOK, User, Exists
  <2>. QED
    BY <1>5, <2>2, <2>3 DEF Tick, TypeOK
<1>6. ASSUME NEW r \in Requests, NEW u \in Users, NEW n \in Names, NEW given \in BOOLEAN,
             NEW S \in SUBSET Entries, ReadName(r, u, n, given, S)
      PROVE  Goal
  BY <1>6 DEF ReadName, TypeOK
<1>7. ASSUME NEW r \in Requests, Rename(r)
      PROVE  Goal
  <2>1. req[r].user \in Users /\ req[r].name \in Names \cup {None}
    BY <1>7, RequestParts DEF Rename, Pcs, Pending
  <2>. QED
    BY <1>7, <2>1 DEF Rename, TypeOK, User
<1>8. ASSUME NEW r \in Requests, Available(r)
      PROVE  Goal
  BY <1>8 DEF Available, TypeOK
<1>9. CASE Next
  BY <1>9, <1>1, <1>2, <1>3, <1>4, <1>5, <1>6, <1>7, <1>8, Zenon
     DEF Next, AddHandle, SignIn, Update, Sync, Delete, WriteProfile, StartDelete, EndDelete,
         Insert, SyncDelete, SyncInsert, SyncCommit, SyncFails, Drop
<1>. QED
  BY <1>1, <1>9 DEF vars

LEMMA AppliedRows ==
    ASSUME TypeOK, NEW r \in Requests, req[r] \in Pending, NEW i \in RowIds
    PROVE  \/ \E p \in req[r].put : p.id = i /\ Applied(r)[i] = Row(r, p.entry)
           \/ (\A p \in req[r].put : p.id # i) /\ i \in req[r].ids /\ Applied(r)[i] = None
           \/ (\A p \in req[r].put : p.id # i) /\ i \notin req[r].ids /\ Applied(r)[i] = handles[i]
<1>1. CASE \E p \in req[r].put : p.id = i
  <2>1. Applied(r)[i] = Row(r, (CHOOSE p \in req[r].put : p.id = i).entry)
    BY <1>1 DEF Applied
  <2>. QED
    BY <1>1, <2>1
<1>2. CASE \A p \in req[r].put : p.id # i
  BY <1>2 DEF Applied
<1>. QED
  BY <1>1, <1>2

LEMMA HandlesType ==
    ASSUME TypeOK, [Next]_vars
    PROVE  handles' \in [RowIds -> Handle \cup {None}]
<1>1. CASE UNCHANGED handles
  BY <1>1 DEF TypeOK
<1>2. ASSUME NEW u \in Users, DeleteUser(u) \/ \E e \in Entries : AddHandle(u, e)
      PROVE  handles' \in [RowIds -> Handle \cup {None}]
  BY <1>2 DEF DeleteUser, AddHandle, TypeOK, Handle
<1>3. ASSUME NEW r \in Requests, EndDelete(r) \/ Drop(r)
      PROVE  handles' \in [RowIds -> Handle \cup {None}]
  BY <1>3 DEF EndDelete, Drop, TypeOK
<1>4. ASSUME NEW r \in Requests, Insert(r)
      PROVE  handles' \in [RowIds -> Handle \cup {None}]
  <2>1. req[r] \in Pending
    BY <1>4, RequestParts DEF Insert, Pcs
  <2>2. \A e \in req[r].payload : Row(r, e) \in Handle
    BY <2>1 DEF Row, Handle, Pending
  <2>. QED
    BY <1>4, <2>2 DEF Insert, TypeOK
<1>5. ASSUME NEW r \in Requests, SyncCommit(r)
      PROVE  handles' \in [RowIds -> Handle \cup {None}]
  <2>1. req[r] \in Pending
    BY <1>5, RequestParts DEF SyncCommit, Pcs
  <2>2. \A p \in req[r].put : Row(r, p.entry) \in Handle
    BY <2>1 DEF Row, Handle, Pending
  <2>3. \A i \in RowIds : Applied(r)[i] \in Handle \cup {None}
    BY <2>1, <2>2, AppliedRows DEF TypeOK
  <2>4. handles' = [i \in RowIds |-> Applied(r)[i]]
    BY <1>5 DEF SyncCommit, Applied
  <2>. QED
    BY <2>3, <2>4
<1>6. CASE Tick \/ \E u \in Users, n \in Names \cup {None} : Register(u, n)
  BY <1>1, <1>6, Zenon DEF Tick, Register
<1>7. CASE \E r \in Requests, u \in Users : Starts(r, u)
  BY <1>1, <1>7, StartsOnly
<1>8. CASE \E r \in Requests :
              \/ SaveUser(r) \/ Available(r) \/ Rename(r) \/ WriteProfile(r)
              \/ StartDelete(r) \/ SyncDelete(r) \/ SyncInsert(r) \/ SyncFails(r)
  BY <1>1, <1>8, Zenon
     DEF SaveUser, Available, Rename, WriteProfile, StartDelete, SyncDelete, SyncInsert, SyncFails
<1>9. CASE Next
  BY <1>9, <1>2, <1>3, <1>4, <1>5, <1>6, <1>7, <1>8, NextCases, Zenon
<1>. QED
  BY <1>1, <1>9 DEF vars

LEMMA NextType == TypeOK /\ [Next]_vars => TypeOK'
BY UsersType, RequestType, HandlesType DEF TypeOK, Request

\* Users, handles and requests keep their types.
THEOREM TypeCorrect == Spec => []TypeOK
BY InitType, NextType, PTL DEF Spec
-----------------------------------------------------------------------------
\* Steps that give nobody a name, and steps that give a free one to a user.
LEMMA NamesKept ==
    ASSUME TypeOK, UniqueNames,
           \A v \in Users : users'[v] # None => users[v] # None /\ users'[v].name = users[v].name
    PROVE  UniqueNames'
BY DEF UniqueNames, Accounts, Exists

LEMMA NameGiven ==
    ASSUME TypeOK, UniqueNames, NEW u \in Users, NEW x \in User, Free(x.name, u), users' = [users EXCEPT ![u] = x]
    PROVE  UniqueNames'
<1>1. \A v \in Users \ {u} : users'[v] = users[v]
  BY DEF TypeOK
<1>2. users'[u] = x
  BY DEF TypeOK
<1>. QED
  BY <1>1, <1>2 DEF UniqueNames, Accounts, Exists, Free

LEMMA NamesStep ==
    ASSUME TypeOK, UniqueNames, [Next]_vars
    PROVE  UniqueNames'
<1>1. CASE UNCHANGED users
  BY <1>1 DEF UniqueNames, Accounts, Exists
<1>2. CASE Tick
  <2>1. \A v \in Users : users'[v] # None => users[v] # None /\ users'[v].name = users[v].name
    BY <1>2 DEF Tick, Exists, TypeOK, User
  <2>. QED
    BY <2>1, NamesKept
<1>3. ASSUME NEW u \in Users, DeleteUser(u)
      PROVE  UniqueNames'
  <2>1. \A v \in Users : users'[v] # None => users[v] # None /\ users'[v].name = users[v].name
    BY <1>3 DEF DeleteUser, TypeOK
  <2>. QED
    BY <2>1, NamesKept
<1>4. ASSUME NEW u \in Users, NEW n \in Names \cup {None}, Register(u, n)
      PROVE  UniqueNames'
  <2>. DEFINE x == [name |-> n, changed |-> None]
  <2>1. x \in User /\ x.name = n
    BY DEF User
  <2>. QED
    BY <1>4, <2>1, NameGiven DEF Register
<1>5. ASSUME NEW r \in Requests, SaveUser(r)
      PROVE  UniqueNames'
  <2>. DEFINE u == req[r].user
              n == req[r].name
  <2>1. u \in Users /\ n \in Names \cup {None}
    BY <1>5, RequestParts DEF SaveUser, Pcs, Pending
  <2>2. CASE Exists(u) /\ Free(n, u) /\ users' = [users EXCEPT ![u].name = IF n = None THEN @ ELSE n]
    <3>1. CASE n = None
      <4>1. \A v \in Users : users'[v] # None => users[v] # None /\ users'[v].name = users[v].name
        BY <2>1, <2>2, <3>1 DEF TypeOK, User, Exists
      <4>. QED
        BY <4>1, NamesKept
    <3>2. CASE n # None
      <4>. DEFINE x == [users[u] EXCEPT !.name = n]
      <4>1. x \in User /\ x.name = n
        BY <2>1, <2>2 DEF TypeOK, User, Exists
      <4>2. users' = [users EXCEPT ![u] = x]
        BY <2>2, <3>2
      <4>. QED
        BY <2>1, <2>2, <4>1, <4>2, NameGiven
    <3>. QED
      BY <3>1, <3>2
  <2>3. CASE Free(n, u) /\ users' = [users EXCEPT ![u] = [name |-> n, changed |-> None]]
    <3>. DEFINE x == [name |-> n, changed |-> None]
    <3>1. x \in User /\ x.name = n
      BY <2>1 DEF User
    <3>. QED
      BY <2>1, <2>3, <3>1, NameGiven
  <2>. QED
    BY <1>1, <1>5, <2>2, <2>3 DEF SaveUser
<1>6. ASSUME NEW r \in Requests, Rename(r)
      PROVE  UniqueNames'
  <2>. DEFINE u == req[r].user
              n == req[r].name
              x == [name |-> n, changed |-> 0]
  <2>1. u \in Users /\ x \in User /\ x.name = n
    BY <1>6, RequestParts DEF Rename, Pcs, Pending, User
  <2>2. CASE Free(n, u) /\ users' = [users EXCEPT ![u] = x]
    BY <2>1, <2>2, NameGiven
  <2>. QED
    BY <1>1, <1>6, <2>2 DEF Rename
<1>7. CASE \E u \in Users, e \in Entries : AddHandle(u, e)
  BY <1>1, <1>7 DEF AddHandle
<1>8. CASE \E r \in Requests, u \in Users : Starts(r, u)
  BY <1>1, <1>8, StartsOnly
<1>9. CASE \E r \in Requests :
              \/ Available(r) \/ WriteProfile(r) \/ StartDelete(r) \/ EndDelete(r) \/ Insert(r)
              \/ SyncDelete(r) \/ SyncInsert(r) \/ SyncCommit(r) \/ SyncFails(r) \/ Drop(r)
  BY <1>1, <1>9, Zenon
     DEF Available, WriteProfile, StartDelete, EndDelete, Insert, SyncDelete, SyncInsert, SyncCommit, SyncFails, Drop
<1>10. CASE Next
  BY <1>10, <1>2, <1>3, <1>4, <1>5, <1>6, <1>7, <1>8, <1>9, NextCases, Zenon
<1>. QED
  BY <1>1, <1>10 DEF vars

\* However sign-ups, sign-ins and updates overlap, no two users get the same
\* name (saveUser, UpdateMyProfile).
THEOREM NamesAreUnique == Spec => []UniqueNames
<1>1. Init => UniqueNames
  BY DEF Init, UniqueNames, Accounts, Exists
<1>. QED
  BY <1>1, NamesStep, TypeCorrect, PTL DEF Spec
-----------------------------------------------------------------------------
\* The history of an account agrees with its column.
ChangedIsRenamed ==
    \A u \in Accounts :
        renamed[u] = IF users[u].changed = None THEN Cooldown ELSE users[u].changed

LEMMA ChangedStep ==
    ASSUME TypeOK, ChangedIsRenamed, [Next]_vars
    PROVE  ChangedIsRenamed'
<1>1. CASE UNCHANGED <<users, renamed>>
  BY <1>1 DEF ChangedIsRenamed, Accounts, Exists
<1>2. ASSUME NEW u \in Users, NEW n, NEW changed \in {0, None},
             users' = [users EXCEPT ![u] = [name |-> n, changed |-> changed]],
             renamed' = [renamed EXCEPT ![u] = IF changed = None THEN Cooldown ELSE 0]
      PROVE  ChangedIsRenamed'
  <2>1. users'[u].changed = changed /\ renamed'[u] = IF changed = None THEN Cooldown ELSE 0
    BY <1>2 DEF TypeOK
  <2>2. \A v \in Users \ {u} : users'[v] = users[v] /\ renamed'[v] = renamed[v]
    BY <1>2 DEF TypeOK
  <2>. QED
    BY <2>1, <2>2 DEF ChangedIsRenamed, Accounts, Exists
<1>3. CASE Tick
  <2>1. \A u \in Users : users'[u] # None => users[u] # None /\ users'[u].changed = Older(users[u].changed)
    BY <1>3 DEF Tick, TypeOK, User, Exists
  <2>2. \A u \in Users : renamed'[u] = Older(renamed[u])
    BY <1>3 DEF Tick
  <2>3. Older(Cooldown) = Cooldown /\ Older(None) = None /\ \A age \in 0..Cooldown : Older(age) # None
    BY DEF Older
  <2>4. \A u \in Users : users[u] # None => users[u].changed \in 0..Cooldown \cup {None}
    BY DEF TypeOK, User
  <2>. QED
    BY <2>1, <2>2, <2>3, <2>4 DEF ChangedIsRenamed, Accounts, Exists
<1>4. ASSUME NEW u \in Users, DeleteUser(u)
      PROVE  ChangedIsRenamed'
  BY <1>4 DEF DeleteUser, ChangedIsRenamed, Accounts, Exists, TypeOK
<1>5. ASSUME NEW u \in Users, NEW n \in Names \cup {None}, Register(u, n)
      PROVE  ChangedIsRenamed'
  BY <1>2, <1>5 DEF Register
<1>6. ASSUME NEW r \in Requests, SaveUser(r)
      PROVE  ChangedIsRenamed'
  <2>. DEFINE u == req[r].user
              n == req[r].name
  <2>1. u \in Users
    BY <1>6, RequestParts DEF SaveUser, Pcs, Pending
  <2>2. CASE Exists(u) /\ UNCHANGED renamed /\ users' = [users EXCEPT ![u].name = IF n = None THEN @ ELSE n]
    <3>1. \A v \in Users : users'[v] # None => users[v] # None /\ users'[v].changed = users[v].changed
      BY <2>1, <2>2 DEF TypeOK, User, Exists
    <3>. QED
      BY <2>2, <3>1 DEF ChangedIsRenamed, Accounts, Exists
  <2>3. CASE users' = [users EXCEPT ![u] = [name |-> n, changed |-> None]] /\ renamed' = [renamed EXCEPT ![u] = Cooldown]
    BY <1>2, <2>1, <2>3
  <2>. QED
    BY <1>1, <1>6, <2>2, <2>3 DEF SaveUser
<1>7. ASSUME NEW r \in Requests, Rename(r)
      PROVE  ChangedIsRenamed'
  <2>1. req[r].user \in Users
    BY <1>7, RequestParts DEF Rename, Pcs, Pending
  <2>2. 0 # None
    OBVIOUS
  <2>. QED
    BY <1>1, <1>2, <1>7, <2>1 DEF Rename
<1>8. CASE \E u \in Users, e \in Entries : AddHandle(u, e)
  BY <1>1, <1>8 DEF AddHandle
<1>9. CASE \E r \in Requests, u \in Users : Starts(r, u)
  BY <1>1, <1>9, StartsOnly
<1>10. CASE \E r \in Requests :
              \/ Available(r) \/ WriteProfile(r) \/ StartDelete(r) \/ EndDelete(r) \/ Insert(r)
              \/ SyncDelete(r) \/ SyncInsert(r) \/ SyncCommit(r) \/ SyncFails(r) \/ Drop(r)
  BY <1>1, <1>10, Zenon
     DEF Available, WriteProfile, StartDelete, EndDelete, Insert, SyncDelete, SyncInsert, SyncCommit, SyncFails, Drop
<1>11. CASE Next
  BY <1>11, <1>3, <1>4, <1>5, <1>6, <1>7, <1>8, <1>9, <1>10, NextCases, Zenon
<1>. QED
  BY <1>1, <1>11 DEF vars

\* A request that may still change a name has seen the end of the cooldown.
SeenCool ==
    \A r \in Requests :
        At(r, "available") \/ At(r, "rename") =>
            \/ r \in overtaken \/ ~Exists(req[r].user)
            \/ renamed[req[r].user] = Cooldown

\* Nobody's cooldown starts, and of the requests only r moves, not past its look
\* at the cooldown.
LEMMA SeenCoolKept ==
    ASSUME TypeOK, SeenCool, NEW r \in Requests, Alone(r),
           \A u \in Users : renamed[u] = Cooldown => renamed'[u] = Cooldown,
           \A u \in Users : users'[u] # None => users[u] # None \/ renamed'[u] = Cooldown,
           \A q \in Requests \ {r} : q \in overtaken => q \in overtaken',
           At(r, "available")' \/ At(r, "rename")' =>
               /\ req'[r].user = req[r].user /\ (At(r, "available") \/ At(r, "rename"))
               /\ r \in overtaken => r \in overtaken'
    PROVE  SeenCool'
<1>1. SUFFICES ASSUME NEW q \in Requests, At(q, "available")' \/ At(q, "rename")',
                      q \notin overtaken', Exists(req[q].user)'
               PROVE  renamed'[req'[q].user] = Cooldown
  BY DEF SeenCool, At, Exists
<1>2. req'[q].user = req[q].user /\ (At(q, "available") \/ At(q, "rename")) /\ q \notin overtaken
  BY <1>1 DEF Alone, At
<1>3. req[q].user \in Users
  BY <1>2, RequestParts DEF Pcs, Pending
<1>. QED
  BY <1>1, <1>2, <1>3 DEF SeenCool, Exists

LEMMA SeenCoolStep ==
    ASSUME TypeOK, ChangedIsRenamed, SeenCool, [Next]_vars
    PROVE  SeenCool'
<1>1. CASE UNCHANGED <<users, req, renamed, overtaken>>
  BY <1>1 DEF SeenCool, At, Exists
<1>2. ASSUME UNCHANGED <<req, overtaken>>,
             \A u \in Users : renamed[u] = Cooldown => renamed'[u] = Cooldown,
             \A u \in Users : users'[u] # None => users[u] # None \/ renamed'[u] = Cooldown
      PROVE  SeenCool'
  <2>1. \A q \in Requests : At(q, "available") \/ At(q, "rename") => req[q].user \in Users
    BY RequestParts DEF Pcs, Pending
  <2>. QED
    BY <1>2, <2>1 DEF SeenCool, At, Exists
<1>3. CASE Tick
  <2>1. \A u \in Users : renamed[u] = Cooldown => renamed'[u] = Cooldown
    BY <1>3 DEF Tick, Older
  <2>2. \A u \in Users : users'[u] # None => users[u] # None
    BY <1>3 DEF Tick, Exists
  <2>. QED
    BY <1>2, <1>3, <2>1, <2>2 DEF Tick
<1>4. ASSUME NEW u \in Users, DeleteUser(u)
      PROVE  SeenCool'
  BY <1>2, <1>4 DEF DeleteUser, TypeOK
<1>5. ASSUME NEW u \in Users, NEW n \in Names \cup {None}, Register(u, n)
      PROVE  SeenCool'
  BY <1>2, <1>5 DEF Register, TypeOK
<1>6. ASSUME NEW r \in Requests, UNCHANGED <<users, renamed>>, overtaken \ {r} \subseteq overtaken', Alone(r),
             ~At(r, "available")' /\ ~At(r, "rename")'
      PROVE  SeenCool'
  BY <1>6, SeenCoolKept
<1>7. ASSUME NEW r \in Requests, NEW u \in Users, Starts(r, u)
      PROVE  SeenCool'
  <2>1. UNCHANGED <<users, renamed>>
    BY <1>7, StartsOnly
  <2>2. ASSUME NEW n \in Names, NEW given \in BOOLEAN, NEW S \in SUBSET Entries, ReadName(r, u, n, given, S)
        PROVE  SeenCool'
    <3>1. Alone(r) /\ req'[r].pc \in {"profile", "available"} /\ req'[r].user = u
      BY <2>2, RequestStarts
    <3>2. \A q \in Requests \ {r} : q \in overtaken => q \in overtaken'
      BY <2>2 DEF ReadName
    <3>3. CASE req'[r].pc = "profile"
      BY <2>1, <3>1, <3>2, <3>3, SeenCoolKept DEF At
    <3>4. CASE req'[r].pc = "available"
      <4>1. r \in overtaken' \/ (Exists(u) /\ ~Cooling(u))
        <5>1. req'[r].pc = "profile" => ~(req'[r].pc = "available")
          OBVIOUS
        <5>2. Begin(r, "profile", u, n, given, S, {}) => req'[r].pc = "profile"
          BY DEF Begin, TypeOK
        <5>. QED
          BY <2>2, <3>4, <5>1, <5>2 DEF ReadName
      <4>2. Exists(u) /\ ~Cooling(u) => renamed[u] = Cooldown
        <5>1. Exists(u) => users[u].changed \in 0..Cooldown \cup {None}
          BY DEF TypeOK, User, Exists
        <5>2. Exists(u) /\ ~Cooling(u) => users[u].changed \in {Cooldown, None}
          BY <5>1 DEF Cooling
        <5>. QED
          BY <5>2 DEF ChangedIsRenamed, Accounts
      <4>3. \A q \in Requests \ {r} : req'[q] = req[q]
        BY <3>1 DEF Alone
      <4>. QED
        BY <2>1, <3>1, <3>2, <4>1, <4>2, <4>3 DEF SeenCool, At, Exists
    <3>. QED
      BY <3>1, <3>3, <3>4
  <2>3. CASE \/ SignIn(r, u)
             \/ \E given \in BOOLEAN, S \in SUBSET Entries : Update(r, u, given, S)
             \/ \E S \in SUBSET Entries : Sync(r, u, S)
             \/ \E i \in RowIds : Delete(r, u, i)
    <3>1. UNCHANGED overtaken
      BY <2>3, Zenon DEF SignIn, Update, Sync, Delete
    <3>2. Alone(r) /\ req'[r].pc \in {"save", "profile", "sync", "drop"}
      <4>1. CASE SignIn(r, u)
        BY <4>1, RequestStarts
      <4>2. CASE \E given \in BOOLEAN, S \in SUBSET Entries : Update(r, u, given, S)
        BY <4>2, RequestStarts
      <4>3. CASE \E S \in SUBSET Entries : Sync(r, u, S)
        BY <4>3, RequestStarts
      <4>4. CASE \E i \in RowIds : Delete(r, u, i)
        BY <4>4, RequestStarts
      <4>. QED
        BY <2>3, <4>1, <4>2, <4>3, <4>4, Zenon
    <3>. QED
      BY <1>6, <2>1, <3>1, <3>2 DEF At
  <2>. QED
    BY <1>7, <2>2, <2>3, Zenon DEF Starts
<1>8. ASSUME NEW r \in Requests, SaveUser(r)
      PROVE  SeenCool'
  <2>1. req[r].user \in Users
    BY <1>8, RequestParts DEF SaveUser, Pcs, Pending
  <2>2. Alone(r) /\ req'[r] = Quiet
    BY <1>8, RequestSteps DEF SaveUser
  <2>3. \A u \in Users : renamed[u] = Cooldown => renamed'[u] = Cooldown
    BY <1>8, <2>1 DEF SaveUser, TypeOK
  <2>4. \A u \in Users : users'[u] # None => users[u] # None \/ renamed'[u] = Cooldown
    BY <1>8, <2>1 DEF SaveUser, TypeOK, Exists
  <2>5. overtaken' = overtaken
    BY <1>8 DEF SaveUser
  <2>. QED
    BY <2>2, <2>3, <2>4, <2>5, SeenCoolKept DEF At, Quiet
<1>9. ASSUME NEW r \in Requests, Available(r)
      PROVE  SeenCool'
  <2>1. req[r] \in Pending /\ At(r, "available")
    BY <1>9, RequestParts DEF Available, Pcs
  <2>2. CASE Goto(r, "rename") /\ UNCHANGED overtaken
    <3>1. Alone(r) /\ req'[r] = [req[r] EXCEPT !.pc = "rename"]
      BY <2>1, <2>2, RequestSteps DEF Pcs
    <3>2. req'[r].user = req[r].user
      BY <2>1, <3>1 DEF Pending
    <3>3. UNCHANGED <<users, renamed, overtaken>>
      BY <1>9, <2>2 DEF Available
    <3>. QED
      BY <2>1, <3>1, <3>2, <3>3, SeenCoolKept
  <2>3. CASE Done(r)
    <3>1. Alone(r) /\ req'[r] = Quiet /\ UNCHANGED <<users, renamed>> /\ overtaken \ {r} \subseteq overtaken'
      BY <1>9, <2>3, RequestSteps DEF Available
    <3>. QED
      BY <1>6, <3>1 DEF At, Quiet
  <2>. QED
    BY <1>9, <2>2, <2>3 DEF Available
<1>10. ASSUME NEW r \in Requests, Rename(r)
      PROVE  SeenCool'
  <2>. DEFINE u == req[r].user
  <2>1. req[r] \in Pending /\ u \in Users
    BY <1>10, RequestParts DEF Rename, Pcs, Pending
  <2>2. Alone(r) /\ req'[r].pc \in {"profile", "idle"}
    <3>1. CASE Done(r)
      BY <3>1, RequestSteps DEF Quiet
    <3>2. CASE Goto(r, "profile")
      <4>1. Alone(r) /\ req'[r] = [req[r] EXCEPT !.pc = "profile"]
        BY <2>1, <3>2, RequestSteps DEF Pcs
      <4>. QED
        BY <2>1, <4>1 DEF Pending
    <3>. QED
      BY <1>10, <3>1, <3>2 DEF Rename
  <2>3. CASE UNCHANGED <<users, renamed>> /\ overtaken \ {r} \subseteq overtaken'
    BY <1>6, <2>2, <2>3 DEF At
  <2>4. CASE /\ users' = [users EXCEPT ![u] = [name |-> req[r].name, changed |-> 0]]
             /\ renamed' = [renamed EXCEPT ![u] = 0]
             /\ overtaken' = (overtaken \ {r}) \cup {q \in Requests \ {r} : req[q].user = u /\ (At(q, "available") \/ At(q, "rename"))}
    <3>1. SUFFICES ASSUME NEW q \in Requests, At(q, "available")' \/ At(q, "rename")', q \notin overtaken',
                          Exists(req[q].user)'
                   PROVE  renamed'[req'[q].user] = Cooldown
      BY DEF SeenCool, At, Exists
    <3>2. q # r /\ req'[q] = req[q] /\ (At(q, "available") \/ At(q, "rename"))
      BY <2>2, <3>1 DEF Alone, At
    <3>3. req[q].user # u /\ q \notin overtaken
      BY <2>4, <3>1, <3>2 DEF At
    <3>4. req[q].user \in Users
      BY <3>2, RequestParts DEF Pcs, Pending
    <3>5. users'[req[q].user] = users[req[q].user] /\ renamed'[req[q].user] = renamed[req[q].user]
      BY <2>1, <2>4, <3>3, <3>4 DEF TypeOK
    <3>. QED
      BY <3>1, <3>2, <3>3, <3>5 DEF SeenCool, Exists
  <2>. QED
    BY <1>10, <2>3, <2>4 DEF Rename
<1>11. CASE \E u \in Users, e \in Entries : AddHandle(u, e)
  BY <1>1, <1>11 DEF AddHandle
<1>12. ASSUME NEW r \in Requests,
             \/ WriteProfile(r) \/ StartDelete(r) \/ EndDelete(r) \/ Insert(r)
             \/ SyncDelete(r) \/ SyncInsert(r) \/ SyncCommit(r) \/ SyncFails(r) \/ Drop(r)
      PROVE  SeenCool'
  <2>1. UNCHANGED <<users, renamed, overtaken>>
    BY <1>12, Zenon
       DEF WriteProfile, StartDelete, EndDelete, Insert, SyncDelete, SyncInsert, SyncCommit, SyncFails, Drop
  <2>2. Alone(r) /\ ~At(r, "available")' /\ ~At(r, "rename")'
    <3>1. CASE SyncCommit(r) \/ SyncFails(r) \/ Drop(r)
      BY <3>1, RequestSteps DEF SyncCommit, SyncFails, Drop, At, Quiet
    <3>2. CASE WriteProfile(r)
      <4>1. req[r] \in Pending
        BY <3>2, RequestParts DEF WriteProfile, Pcs
      <4>2. Alone(r) /\ (req'[r] = Quiet \/ req'[r] = [req[r] EXCEPT !.pc = "socials"])
        BY <3>2, <4>1, RequestSteps DEF WriteProfile, Pcs
      <4>. QED
        BY <4>1, <4>2 DEF At, Quiet, Pending
    <3>3. CASE StartDelete(r) \/ EndDelete(r) \/ SyncDelete(r)
      <4>1. req[r] \in Pending
        BY <3>3, RequestParts DEF StartDelete, EndDelete, SyncDelete, Pcs
      <4>2. /\ Alone(r)
            /\ \/ req'[r] = [req[r] EXCEPT !.pc = "delete", !.ids = RowsOf(req[r].user)]
               \/ req'[r] = [req[r] EXCEPT !.pc = "insert", !.ids = {}]
               \/ req'[r] = [req[r] EXCEPT !.pc = "tx", !.ids = {i \in @ : handles[i] # None}]
        BY <3>3, RequestChanges
      <4>. QED
        BY <4>1, <4>2 DEF At, Pending
    <3>4. CASE Insert(r)
      <4>1. req[r] \in Pending /\ req[r].pc = "insert"
        BY <3>4, RequestParts DEF Insert, Pcs, At
      <4>2. Alone(r) /\ (req'[r] = Quiet \/ \E e \in Entries : req'[r] = [req[r] EXCEPT !.payload = @ \ {e}])
        BY <3>4, RequestChanges
      <4>3. CASE req'[r] = Quiet
        BY <4>2, <4>3 DEF At, Quiet
      <4>4. CASE \E e \in Entries : req'[r] = [req[r] EXCEPT !.payload = @ \ {e}]
        <5>1. PICK e \in Entries : req'[r] = [req[r] EXCEPT !.payload = req[r].payload \ {e}]
          BY <4>4
        <5>2. req'[r].pc = req[r].pc
          BY <4>1, <5>1 DEF Pending
        <5>. QED
          BY <4>1, <4>2, <5>2 DEF At
      <4>. QED
        BY <4>2, <4>3, <4>4
    <3>5. CASE SyncInsert(r)
      <4>1. req[r] \in Pending /\ req[r].pc = "tx"
        BY <3>5, RequestParts DEF SyncInsert, Pcs, At
      <4>2. Alone(r) /\ \E S : req'[r] = [req[r] EXCEPT !.put = S]
        BY <3>5, RequestChanges
      <4>3. PICK S : req'[r] = [req[r] EXCEPT !.put = S]
        BY <4>2
      <4>4. req'[r].pc = req[r].pc
        BY <4>1, <4>3 DEF Pending
      <4>. QED
        BY <4>1, <4>2, <4>4 DEF At
    <3>. QED
      BY <1>12, <3>1, <3>2, <3>3, <3>4, <3>5
  <2>. QED
    BY <1>6, <2>1, <2>2
<1>13. CASE Next
  BY <1>13, <1>3, <1>4, <1>5, <1>7, <1>8, <1>9, <1>10, <1>11, <1>12, NextCases, Zenon
<1>. QED
  BY <1>1, <1>13 DEF vars

\* A name changes within the cooldown only by an update that overlaps with the
\* change before it, or that could not read when that was (UpdateMyProfile).
THEOREM CooldownIsKept == Spec => CooldownKept
<1>. DEFINE CInv == TypeOK /\ ChangedIsRenamed /\ SeenCool
<1>1. Init => CInv
  BY InitType DEF Init, ChangedIsRenamed, SeenCool, Accounts, Exists, At, Quiet
<1>2. CInv /\ [Next]_vars => CInv'
  BY NextType, ChangedStep, SeenCoolStep
<1>3. CInv /\ [Next]_vars =>
          [\A r \in Requests :
              At(r, "rename") /\ At(r, "profile")' /\ Exists(req[r].user)
                 => renamed[req[r].user] = Cooldown \/ r \in overtaken]_vars
  BY DEF SeenCool
<1>. QED
  BY <1>1, <1>2, <1>3, PTL DEF Spec, CooldownKept
-----------------------------------------------------------------------------
\* The rows that a request is about to delete are its user's.
Active(q) == At(q, "delete") \/ At(q, "sync") \/ At(q, "tx")
OwnRows ==
    \A q \in Requests : Active(q) =>
        \A i \in req[q].ids : handles[i] # None => handles[i].user = req[q].user

\* What an open transaction has deleted is there, and no other has deleted it;
\* what it has inserted is not there yet, under ids that nobody else uses, and
\* its user is not deleted.
TxDeleted ==
    \A q \in Requests : At(q, "tx") =>
        /\ \A i \in req[q].ids : handles[i] # None
        /\ \A o \in Requests \ {q} : At(o, "tx") => req[o].ids \cap req[q].ids = {}
TxInserted ==
    \A q \in Requests : \A p \in req[q].put :
        /\ At(q, "tx") /\ Exists(req[q].user)
        /\ handles[p.id] = None
        /\ \A o \in Requests : Active(o) => p.id \notin req[o].ids
PutApart ==
    \A q, o \in Requests : \A p \in req[q].put, s \in req[o].put :
        p.id = s.id => q = o /\ p = s

HInv == TypeOK /\ NoOrphanHandles /\ OwnRows /\ TxDeleted /\ TxInserted /\ PutApart

\* The steps that leave the handles alone and begin no deletion.
Idles(q) == req'[q].put = {} /\ req'[q].pc \notin {"delete", "sync", "tx"}
LEMMA Calm ==
    ASSUME HInv, UNCHANGED handles, \A u \in Users : Exists(u) => users'[u] # None,
           \A q \in Requests : req'[q] = req[q] \/ Idles(q), TypeOK'
    PROVE  HInv'
<1>1. \A i \in RowIds : handles[i] # None => handles[i].user \in Users
  BY DEF HInv, TypeOK, Handle
<1>2. NoOrphanHandles'
  BY <1>1 DEF HInv, NoOrphanHandles, Exists
<1>3. OwnRows'
  BY DEF HInv, OwnRows, Active, At, Idles
<1>4. TxDeleted'
  BY DEF HInv, TxDeleted, At, Idles
<1>5. TxInserted'
  <2>1. \A q \in Requests : req[q].put # {} => req[q].user \in Users
    BY RequestParts DEF HInv, Pending
  <2>. QED
    BY <2>1 DEF HInv, TxInserted, Active, At, Idles, Exists
<1>6. PutApart'
  BY DEF HInv, PutApart, Idles
<1>. QED
  BY <1>2, <1>3, <1>4, <1>5, <1>6 DEF HInv

\* The steps that begin one.
LEMMA DeletionBegins ==
    ASSUME HInv, NEW r \in Requests, Alone(r), UNCHANGED <<users, handles>>, TypeOK',
           req'[r].pc \in {"delete", "sync"}, req'[r].ids = RowsOf(req'[r].user), req'[r].put = {}
    PROVE  HInv'
<1>1. NoOrphanHandles'
  BY DEF HInv, NoOrphanHandles, Exists
<1>2. OwnRows'
  BY DEF HInv, OwnRows, Active, At, Alone, RowsOf
<1>3. TxDeleted'
  BY DEF HInv, TxDeleted, At, Alone
<1>4. TxInserted'
  BY DEF HInv, TxInserted, Active, At, Alone, RowsOf, Exists
<1>5. PutApart'
  BY DEF HInv, PutApart, Alone
<1>. QED
  BY <1>1, <1>2, <1>3, <1>4, <1>5 DEF HInv

\* The DELETE of a transaction.
LEMMA TxDeletes ==
    ASSUME HInv, NEW r \in Requests, SyncDelete(r), TypeOK'
    PROVE  HInv'
<1>1. req[r] \in Pending /\ At(r, "sync") /\ req[r].put = {} /\ ~Locked(req[r].ids)
  BY RequestParts DEF HInv, SyncDelete, Pcs, TxInserted, At
<1>2. req'[r] = [req[r] EXCEPT !.pc = "tx", !.ids = {i \in req[r].ids : handles[i] # None}]
  BY RequestChanges DEF HInv
<1>3. /\ req'[r].pc = "tx" /\ req'[r].put = {} /\ req'[r].user = req[r].user
      /\ req'[r].ids = {i \in req[r].ids : handles[i] # None}
  BY <1>1, <1>2 DEF Pending
<1>4. UNCHANGED <<users, handles>> /\ Alone(r)
  BY RequestChanges DEF HInv, SyncDelete
<1>5. NoOrphanHandles'
  BY <1>4 DEF HInv, NoOrphanHandles, Exists
<1>6. OwnRows'
  BY <1>1, <1>3, <1>4 DEF HInv, OwnRows, Active, At, Alone
<1>7. TxDeleted'
  <2>1. \A o \in Requests \ {r} : At(o, "tx") => req[o].ids \cap req'[r].ids = {}
    BY <1>1, <1>3 DEF Locked
  <2>. QED
    BY <1>1, <1>3, <1>4, <2>1 DEF HInv, TxDeleted, At, Alone
<1>8. TxInserted'
  BY <1>1, <1>3, <1>4 DEF HInv, TxInserted, Active, At, Alone, Exists
<1>9. PutApart'
  BY <1>1, <1>3, <1>4 DEF HInv, PutApart, Alone
<1>. QED
  BY <1>5, <1>6, <1>7, <1>8, <1>9 DEF HInv

\* One of its INSERTs.
LEMMA TxInserts ==
    ASSUME HInv, NEW r \in Requests, SyncInsert(r), TypeOK'
    PROVE  HInv'
<1>1. req[r] \in Pending /\ At(r, "tx") /\ Exists(req[r].user)
  BY RequestParts DEF HInv, SyncInsert, Pcs
<1>2. PICK e \in req[r].payload, i \in RowIds :
          FreshRow(i) /\ req' = [req EXCEPT ![r].put = @ \cup {[id |-> i, entry |-> e]}]
  BY DEF SyncInsert
<1>3. /\ req'[r].pc = "tx" /\ req'[r].user = req[r].user /\ req'[r].ids = req[r].ids
      /\ req'[r].put = req[r].put \cup {[id |-> i, entry |-> e]}
  BY <1>1, <1>2 DEF HInv, TypeOK, Pending, At
<1>4. UNCHANGED <<users, handles>> /\ Alone(r)
  BY RequestChanges DEF HInv, SyncInsert
<1>5. NoOrphanHandles'
  BY <1>4 DEF HInv, NoOrphanHandles, Exists
<1>6. \A q \in Requests : req'[q].pc = req[q].pc /\ req'[q].user = req[q].user /\ req'[q].ids = req[q].ids
  BY <1>1, <1>3, <1>4 DEF Alone, At
<1>7. \A q \in Requests : \A p \in req'[q].put : p \in req[q].put \/ (q = r /\ p = [id |-> i, entry |-> e])
  BY <1>3, <1>4 DEF Alone
<1>8. OwnRows' /\ TxDeleted'
  BY <1>4, <1>6 DEF HInv, OwnRows, TxDeleted, Active, At
<1>9. TxInserted'
  BY <1>1, <1>2, <1>4, <1>6, <1>7 DEF HInv, TxInserted, Active, At, Exists, FreshRow
<1>10. PutApart'
  BY <1>2, <1>7 DEF HInv, PutApart, FreshRow
<1>. QED
  BY <1>5, <1>8, <1>9, <1>10 DEF HInv

\* Rows that no transaction has deleted disappear.
LEMMA RowsGo ==
    ASSUME HInv, NEW I \in SUBSET RowIds, ~Locked(I), TypeOK',
           handles' = [i \in RowIds |-> IF i \in I THEN None ELSE handles[i]],
           \A q \in Requests : req'[q] = req[q] \/ Idles(q),
           \A q \in Requests : req[q].put # {} => users'[req[q].user] # None,
           \A i \in RowIds : handles'[i] # None => users'[handles[i].user] # None
    PROVE  HInv'
<1>1. \A i \in RowIds : handles'[i] = None \/ handles'[i] = handles[i]
  OBVIOUS
<1>2. NoOrphanHandles'
  BY <1>1 DEF NoOrphanHandles, Exists
<1>3. \A q \in Requests : req[q] \in Request
  BY RequestParts DEF HInv
<1>4. \A q \in Requests : req[q].ids \subseteq RowIds /\ \A p \in req[q].put : p.id \in RowIds
  BY <1>3 DEF Request, Quiet, Pending
<1>5. OwnRows'
  BY <1>1, <1>4 DEF HInv, OwnRows, Active, At, Idles
<1>6. TxDeleted'
  <2>1. \A q \in Requests, i \in RowIds : At(q, "tx") /\ i \in req[q].ids => handles'[i] = handles[i]
    BY DEF Locked
  <2>. QED
    BY <1>4, <2>1 DEF HInv, TxDeleted, At, Idles
<1>7. TxInserted'
  BY <1>1, <1>4 DEF HInv, TxInserted, Active, At, Idles, Exists
<1>8. PutApart'
  BY DEF HInv, PutApart, Idles
<1>. QED
  BY <1>2, <1>5, <1>6, <1>7, <1>8 DEF HInv

\* A row appears, under an id that no request has.
LEMMA RowComes ==
    ASSUME HInv, NEW i \in RowIds, FreshRow(i), NEW x, Exists(x.user), UNCHANGED users, TypeOK',
           handles' = [handles EXCEPT ![i] = x],
           \A q \in Requests : req'[q] = req[q] \/ Idles(q)
    PROVE  HInv'
<1>1. handles'[i] = x /\ \A j \in RowIds \ {i} : handles'[j] = handles[j]
  BY DEF HInv, TypeOK
<1>2. \A q \in Requests : req[q] \in Request
  BY RequestParts DEF HInv
<1>3. \A q \in Requests : req[q].ids \subseteq RowIds \ {i} /\ \A p \in req[q].put : p.id \in RowIds \ {i}
  BY <1>2 DEF Request, Quiet, Pending, FreshRow
<1>4. NoOrphanHandles'
  BY <1>1 DEF HInv, NoOrphanHandles, Exists
<1>5. OwnRows'
  BY <1>1, <1>3 DEF HInv, OwnRows, Active, At, Idles
<1>6. TxDeleted'
  BY <1>1, <1>3 DEF HInv, TxDeleted, At, Idles
<1>7. TxInserted'
  BY <1>1, <1>3 DEF HInv, TxInserted, Active, At, Idles, Exists
<1>8. PutApart'
  BY DEF HInv, PutApart, Idles
<1>. QED
  BY <1>4, <1>5, <1>6, <1>7, <1>8 DEF HInv

\* What a COMMIT does to each row.
LEMMA TxRows ==
    ASSUME HInv, NEW r \in Requests, SyncCommit(r)
    PROVE  /\ req[r] \in Pending /\ Alone(r) /\ req'[r] = Quiet /\ At(r, "tx")
           /\ \A i \in RowIds :
                 \/ \E p \in req[r].put : p.id = i /\ handles'[i] = Row(r, p.entry)
                 \/ (\A p \in req[r].put : p.id # i) /\ i \in req[r].ids /\ handles'[i] = None
                 \/ (\A p \in req[r].put : p.id # i) /\ i \notin req[r].ids /\ handles'[i] = handles[i]
<1>1. req[r] \in Pending /\ At(r, "tx")
  BY RequestParts DEF HInv, SyncCommit, Pcs
<1>2. Alone(r) /\ req'[r] = Quiet
  BY RequestSteps DEF HInv, SyncCommit
<1>3. handles' = Applied(r) /\ TypeOK
  BY DEF SyncCommit, HInv
<1>. QED
  BY <1>1, <1>2, <1>3, AppliedRows

LEMMA TxCommits ==
    ASSUME HInv, NEW r \in Requests, SyncCommit(r), TypeOK'
    PROVE  HInv'
<1>1. /\ req[r] \in Pending /\ Alone(r) /\ At(r, "tx")
      /\ \A i \in RowIds :
            \/ \E p \in req[r].put : p.id = i /\ handles'[i] = Row(r, p.entry)
            \/ (\A p \in req[r].put : p.id # i) /\ i \in req[r].ids /\ handles'[i] = None
            \/ (\A p \in req[r].put : p.id # i) /\ i \notin req[r].ids /\ handles'[i] = handles[i]
  BY TxRows
<1>2. req'[r].pc = "idle" /\ req'[r].put = {} /\ req'[r].ids = {} /\ UNCHANGED users
  BY TxRows DEF Quiet, SyncCommit
<1>3. \A q \in Requests : req[q].ids \subseteq RowIds /\ \A p \in req[q].put : p.id \in RowIds
  <2>1. \A q \in Requests : req[q] \in Request
    BY RequestParts DEF HInv
  <2>. QED
    BY <2>1 DEF Request, Quiet, Pending
<1>4. NoOrphanHandles'
  <2>1. \A p \in req[r].put : Row(r, p.entry).user = req[r].user /\ Exists(req[r].user)
    BY DEF HInv, TxInserted, Row
  <2>. QED
    BY <1>1, <1>2, <2>1 DEF HInv, NoOrphanHandles, Exists
<1>5. OwnRows'
  <2>1. \A q \in Requests, i \in RowIds : Active(q) /\ i \in req[q].ids => handles'[i] \in {None, handles[i]}
    BY <1>1 DEF HInv, TxInserted
  <2>. QED
    BY <1>1, <1>2, <1>3, <2>1 DEF HInv, OwnRows, Active, At, Alone
<1>6. TxDeleted'
  <2>1. \A q \in Requests \ {r}, i \in RowIds : At(q, "tx") /\ i \in req[q].ids => handles'[i] = handles[i]
    BY <1>1 DEF HInv, TxInserted, TxDeleted, Active
  <2>. QED
    BY <1>1, <1>2, <1>3, <2>1 DEF HInv, TxDeleted, At, Alone
<1>7. TxInserted'
  <2>1. \A q \in Requests \ {r} : \A p \in req[q].put : handles'[p.id] = None
    BY <1>1, <1>3 DEF HInv, TxInserted, PutApart
  <2>. QED
    BY <1>1, <1>2, <2>1 DEF HInv, TxInserted, Active, At, Alone, Exists
<1>8. PutApart'
  BY <1>1, <1>2 DEF HInv, PutApart, Alone
<1>. QED
  BY <1>4, <1>5, <1>6, <1>7, <1>8 DEF HInv

LEMMA HandlesStep == HInv /\ [Next]_vars => HInv'
<1>. SUFFICES ASSUME HInv, [Next]_vars
              PROVE  HInv'
  OBVIOUS
<1>1. TypeOK /\ TypeOK'
  BY NextType DEF HInv
<1>2. ASSUME UNCHANGED <<handles, req>>, \A u \in Users : Exists(u) => users'[u] # None
      PROVE  HInv'
  BY <1>1, <1>2, Calm
<1>3. ASSUME NEW r \in Requests, UNCHANGED handles, \A u \in Users : Exists(u) => users'[u] # None,
             Alone(r), Idles(r)
      PROVE  HInv'
  BY <1>1, <1>3, Calm DEF Alone
<1>4. CASE UNCHANGED vars
  BY <1>2, <1>4 DEF vars, Exists
<1>5. CASE Tick
  <2>1. \A u \in Users : Exists(u) => users'[u] # None
    <3>1. \A age \in 0..Cooldown \cup {None} : Older(age) \in 0..Cooldown \cup {None}
      BY DEF Older
    <3>2. \A u \in Users : Exists(u) => [users[u] EXCEPT !.changed = Older(users[u].changed)] \in User
      BY <1>1, <3>1 DEF TypeOK, User, Exists
    <3>3. None \notin User
      BY DEF User
    <3>. QED
      BY <1>5, <3>2, <3>3 DEF Tick
  <2>. QED
    BY <1>2, <1>5, <2>1 DEF Tick
<1>6. ASSUME NEW u \in Users, DeleteUser(u)
      PROVE  HInv'
  <2>1. RowsOf(u) \in SUBSET RowIds /\ ~Locked(RowsOf(u)) /\ UNCHANGED req
    BY <1>6 DEF DeleteUser, RowsOf
  <2>2. handles' = [i \in RowIds |-> IF i \in RowsOf(u) THEN None ELSE handles[i]]
    BY <1>6 DEF DeleteUser
  <2>3. \A v \in Users \ {u} : users'[v] = users[v]
    BY <1>1, <1>6 DEF DeleteUser, TypeOK
  <2>4. \A q \in Requests : req[q].put # {} => users'[req[q].user] # None
    <3>1. \A q \in Requests : req[q].put # {} => req[q].user \in Users \ {u} /\ Exists(req[q].user)
      BY <1>1, <1>6, RequestParts DEF HInv, TxInserted, DeleteUser, Pending
    <3>. QED
      BY <2>3, <3>1 DEF Exists
  <2>5. \A i \in RowIds : handles'[i] # None => users'[handles[i].user] # None
    <3>1. \A i \in RowIds : handles'[i] # None => handles[i] # None /\ handles[i].user \in Users \ {u}
      BY <1>1, <2>2 DEF RowsOf, TypeOK, Handle
    <3>. QED
      BY <2>3, <3>1 DEF HInv, NoOrphanHandles, Exists
  <2>. QED
    BY <1>1, <2>1, <2>2, <2>4, <2>5, RowsGo
<1>7. ASSUME NEW u \in Users, NEW n \in Names \cup {None}, Register(u, n)
      PROVE  HInv'
  <2>1. [name |-> n, changed |-> None] # None
    <3>1. [name |-> n, changed |-> None] \in User
      BY DEF User
    <3>. QED
      BY <3>1 DEF User
  <2>. QED
    BY <1>1, <1>2, <1>7, <2>1 DEF Register, TypeOK, Exists
<1>8. ASSUME NEW u \in Users, NEW e \in Entries, AddHandle(u, e)
      PROVE  HInv'
  <2>. DEFINE x == [user |-> u, entry |-> e]
  <2>1. PICK i \in RowIds : FreshRow(i) /\ handles' = [handles EXCEPT ![i] = x]
    BY <1>8 DEF AddHandle
  <2>2. Exists(x.user) /\ UNCHANGED <<users, req>>
    BY <1>8 DEF AddHandle
  <2>. HIDE DEF x
  <2>. QED
    BY <1>1, <2>1, <2>2, RowComes
<1>9. ASSUME NEW r \in Requests, NEW u \in Users, Starts(r, u)
      PROVE  HInv'
  <2>1. UNCHANGED <<users, handles>>
    BY <1>9, StartsOnly
  <2>2. ASSUME NEW S \in SUBSET Entries, Sync(r, u, S)
        PROVE  HInv'
    BY <1>1, <2>1, <2>2, RequestStarts, DeletionBegins
  <2>3. CASE SignIn(r, u)
    BY <1>1, <1>3, <2>1, <2>3, RequestStarts DEF Idles, Exists
  <2>4. CASE \E given \in BOOLEAN, S \in SUBSET Entries : Update(r, u, given, S)
    BY <1>1, <1>3, <2>1, <2>4, RequestStarts DEF Idles, Exists
  <2>5. CASE \E n \in Names, given \in BOOLEAN, S \in SUBSET Entries : ReadName(r, u, n, given, S)
    BY <1>1, <1>3, <2>1, <2>5, RequestStarts DEF Idles, Exists
  <2>6. CASE \E i \in RowIds : Delete(r, u, i)
    BY <1>1, <1>3, <2>1, <2>6, RequestStarts DEF Idles, Exists
  <2>. QED
    BY <1>9, <2>2, <2>3, <2>4, <2>5, <2>6, Zenon DEF Starts
<1>10. ASSUME NEW r \in Requests, Available(r) \/ Rename(r) \/ WriteProfile(r) \/ SaveUser(r) \/ SyncFails(r)
       PROVE  HInv'
  <2>1. Alone(r) /\ Idles(r)
    <3>1. CASE Done(r)
      BY <1>1, <3>1, RequestSteps DEF Idles, Quiet
    <3>2. CASE /\ req[r].pc \in {"available", "rename", "profile"}
               /\ Goto(r, "rename") \/ Goto(r, "profile") \/ Goto(r, "socials")
      <4>1. req[r] \in Pending
        BY <1>1, <3>2, RequestParts DEF Pcs, At
      <4>2. req[r].put = {}
        BY <3>2 DEF HInv, TxInserted, At
      <4>3. PICK pc \in {"rename", "profile", "socials"} : Goto(r, pc)
        BY <3>2
      <4>4. Alone(r) /\ req'[r] = [req[r] EXCEPT !.pc = pc]
        BY <1>1, <4>1, <4>3, RequestSteps DEF Pcs
      <4>. QED
        BY <4>1, <4>2, <4>4 DEF Pending, Idles
    <3>. QED
      BY <1>10, <3>1, <3>2 DEF Available, Rename, WriteProfile, SaveUser, SyncFails, At
  <2>2. \A u \in Users : Exists(u) => users'[u] # None
    <3>1. CASE UNCHANGED users
      BY <3>1 DEF Exists
    <3>2. \A n \in Names \cup {None}, changed \in {0, None} : [name |-> n, changed |-> changed] # None
      <4>1. \A n \in Names \cup {None}, changed \in {0, None} : [name |-> n, changed |-> changed] \in User
        BY DEF User
      <4>. QED
        BY <4>1 DEF User
    <3>3. CASE Rename(r) \/ SaveUser(r)
      <4>. DEFINE u == req[r].user
                  n == req[r].name
      <4>1. u \in Users /\ n \in Names \cup {None}
        BY <1>1, <3>3, RequestParts DEF Rename, SaveUser, Pcs, Pending
      <4>2. CASE Exists(u) /\ users' = [users EXCEPT ![u].name = IF n = None THEN @ ELSE n]
        BY <1>1, <4>1, <4>2 DEF TypeOK, User, Exists
      <4>3. CASE \E changed \in {0, None} : users' = [users EXCEPT ![u] = [name |-> n, changed |-> changed]]
        BY <1>1, <3>2, <4>1, <4>3 DEF TypeOK, Exists
      <4>. QED
        BY <3>1, <3>3, <4>2, <4>3 DEF Rename, SaveUser
    <3>. QED
      BY <1>10, <3>1, <3>3 DEF Available, WriteProfile, SyncFails
  <2>3. UNCHANGED handles
    BY <1>10 DEF Available, Rename, WriteProfile, SaveUser, SyncFails
  <2>. QED
    BY <1>3, <2>1, <2>2, <2>3
<1>11. ASSUME NEW r \in Requests, StartDelete(r)
       PROVE  HInv'
  <2>1. req[r] \in Pending /\ req[r].put = {}
    BY <1>1, <1>11, RequestParts DEF StartDelete, Pcs, HInv, TxInserted, At
  <2>2. Alone(r) /\ req'[r] = [req[r] EXCEPT !.pc = "delete", !.ids = RowsOf(req[r].user)]
    BY <1>1, <1>11, RequestChanges
  <2>3. req'[r].pc = "delete" /\ req'[r].ids = RowsOf(req'[r].user) /\ req'[r].put = {}
    BY <2>1, <2>2 DEF Pending
  <2>4. UNCHANGED <<users, handles>>
    BY <1>11 DEF StartDelete
  <2>. QED
    BY <1>1, <2>2, <2>3, <2>4, DeletionBegins
<1>12. ASSUME NEW r \in Requests, UNCHANGED users, NEW I \in SUBSET RowIds, ~Locked(I),
              handles' = [i \in RowIds |-> IF i \in I THEN None ELSE handles[i]],
              Alone(r), Idles(r)
       PROVE  HInv'
  <2>1. \A q \in Requests : req[q].put # {} => users'[req[q].user] # None
    BY <1>12 DEF HInv, TxInserted, Exists
  <2>2. \A i \in RowIds : handles'[i] # None => users'[handles[i].user] # None
    BY <1>12 DEF HInv, NoOrphanHandles, Exists
  <2>3. \A q \in Requests : req'[q] = req[q] \/ Idles(q)
    BY <1>12 DEF Alone
  <2>. QED
    BY <1>1, <1>12, <2>1, <2>2, <2>3, RowsGo
<1>13. ASSUME NEW r \in Requests, EndDelete(r)
       PROVE  HInv'
  <2>1. req[r] \in Pending /\ req[r].put = {}
    BY <1>1, <1>13, RequestParts DEF EndDelete, Pcs, HInv, TxInserted, At
  <2>2. Alone(r) /\ req'[r] = [req[r] EXCEPT !.pc = "insert", !.ids = {}]
    BY <1>1, <1>13, RequestChanges
  <2>3. Idles(r) /\ req[r].ids \in SUBSET RowIds
    BY <2>1, <2>2 DEF Pending, Idles
  <2>4. UNCHANGED users /\ ~Locked(req[r].ids)
    BY <1>13 DEF EndDelete
  <2>. QED
    BY <1>3, <1>12, <1>13, <2>2, <2>3, <2>4 DEF EndDelete, Exists
<1>14. ASSUME NEW r \in Requests, Insert(r)
       PROVE  HInv'
  <2>1. req[r] \in Pending /\ req[r].put = {} /\ req[r].pc = "insert"
    BY <1>1, <1>14, RequestParts DEF Insert, Pcs, HInv, TxInserted, At
  <2>2. Alone(r) /\ UNCHANGED users
    BY <1>1, <1>14, RequestChanges DEF Insert
  <2>3. Idles(r)
    <3>1. CASE req'[r] = Quiet
      BY <3>1 DEF Idles, Quiet
    <3>2. CASE \E e \in Entries : req'[r] = [req[r] EXCEPT !.payload = @ \ {e}]
      BY <2>1, <3>2 DEF Pending, Idles
    <3>. QED
      BY <1>1, <1>14, <3>1, <3>2, RequestChanges
  <2>4. CASE UNCHANGED handles
    BY <1>3, <2>2, <2>3, <2>4 DEF Exists
  <2>5. ASSUME NEW e \in Entries, NEW i \in RowIds, FreshRow(i), Exists(req[r].user),
               handles' = [handles EXCEPT ![i] = Row(r, e)]
        PROVE  HInv'
    <3>1. Row(r, e).user = req[r].user
      BY DEF Row
    <3>. QED
      BY <1>1, <2>2, <2>3, <2>5, <3>1, RowComes DEF Alone
  <2>. QED
    BY <1>14, <2>1, <2>4, <2>5 DEF Insert, Pending
<1>15. ASSUME NEW r \in Requests, Drop(r)
       PROVE  HInv'
  <2>1. Alone(r) /\ req'[r] = Quiet
    BY <1>1, <1>15, RequestSteps DEF Drop
  <2>2. Droppable(r) \in SUBSET RowIds /\ ~Locked(Droppable(r)) /\ UNCHANGED users
    BY <1>15 DEF Drop, Droppable, RowsOf, Locked
  <2>3. handles' = [i \in RowIds |-> IF i \in Droppable(r) THEN None ELSE handles[i]]
    BY <1>15 DEF Drop
  <2>. QED
    BY <1>12, <2>1, <2>2, <2>3 DEF Idles, Quiet
<1>16. ASSUME NEW r \in Requests, SyncDelete(r) \/ SyncInsert(r) \/ SyncCommit(r)
       PROVE  HInv'
  BY <1>1, <1>16, TxDeletes, TxInserts, TxCommits
<1>17. CASE Next
  BY <1>17, <1>5, <1>6, <1>7, <1>8, <1>9, <1>10, <1>11, <1>13, <1>14, <1>15, <1>16, NextCases
<1>. QED
  BY <1>4, <1>17

LEMMA HandlesInit == Init => HInv
BY InitType DEF Init, HInv, NoOrphanHandles, OwnRows, TxDeleted, TxInserted, PutApart, Active, At, Quiet

\* No handle outlives its account, even one whose update or synchronisation is
\* under way when the account is deleted.
THEOREM HandlesHaveAccounts == Spec => []NoOrphanHandles
<1>1. HInv => NoOrphanHandles
  BY DEF HInv
<1>. QED
  BY <1>1, HandlesInit, HandlesStep, PTL DEF Spec

\* The synchronisation of a user's handles happens wholly or not at all.
THEOREM SynchronisationIsAtomic == Spec => SyncWhole
<1>1. ASSUME HInv, Next, NEW r \in Requests, At(r, "tx"), ~At(r, "tx")'
      PROVE  SyncCommit(r) \/ SyncFails(r)
  <2>1. req'[r] # req[r]
    BY <1>1 DEF At
  <2>2. CASE Tick \/ \E u \in Users : DeleteUser(u)
    BY <2>1, <2>2 DEF Tick, DeleteUser
  <2>3. CASE \E u \in Users, n \in Names \cup {None} : Register(u, n)
    BY <2>1, <2>3 DEF Register
  <2>4. CASE \E u \in Users, e \in Entries : AddHandle(u, e)
    BY <2>1, <2>4 DEF AddHandle
  <2>5. ASSUME NEW q \in Requests, Alone(q), ~At(q, "tx")
        PROVE  FALSE
    BY <1>1, <2>1, <2>5 DEF Alone
  <2>6. ASSUME NEW q \in Requests, NEW u \in Users, Starts(q, u)
        PROVE  FALSE
    <3>1. ~At(q, "tx")
      BY <2>6, StartsOnly DEF At
    <3>2. CASE SignIn(q, u)
      BY <1>1, <2>5, <3>1, <3>2, RequestStarts DEF HInv
    <3>3. CASE \E given \in BOOLEAN, S \in SUBSET Entries : Update(q, u, given, S)
      BY <1>1, <2>5, <3>1, <3>3, RequestStarts DEF HInv
    <3>4. CASE \E n \in Names, given \in BOOLEAN, S \in SUBSET Entries : ReadName(q, u, n, given, S)
      BY <1>1, <2>5, <3>1, <3>4, RequestStarts DEF HInv
    <3>5. CASE \E S \in SUBSET Entries : Sync(q, u, S)
      BY <1>1, <2>5, <3>1, <3>5, RequestStarts DEF HInv
    <3>6. CASE \E i \in RowIds : Delete(q, u, i)
      BY <1>1, <2>5, <3>1, <3>6, RequestStarts DEF HInv
    <3>. QED
      BY <2>6, <3>2, <3>3, <3>4, <3>5, <3>6, Zenon DEF Starts
  <2>7. ASSUME NEW q \in Requests, SaveUser(q) \/ Available(q) \/ Rename(q) \/ WriteProfile(q) \/ Drop(q)
        PROVE  FALSE
    <3>1. ~At(q, "tx")
      BY <2>7 DEF SaveUser, Available, Rename, WriteProfile, Drop, At
    <3>2. Done(q) \/ Goto(q, "rename") \/ Goto(q, "profile") \/ Goto(q, "socials")
      BY <2>7, Zenon DEF SaveUser, Available, Rename, WriteProfile, Drop
    <3>3. Alone(q)
      BY <1>1, <3>2 DEF HInv, TypeOK, Done, Goto, Alone
    <3>. QED
      BY <2>5, <3>1, <3>3
  <2>8. ASSUME NEW q \in Requests, StartDelete(q) \/ EndDelete(q) \/ Insert(q) \/ SyncDelete(q)
        PROVE  FALSE
    <3>1. ~At(q, "tx")
      BY <2>8 DEF StartDelete, EndDelete, Insert, SyncDelete, At
    <3>. QED
      BY <1>1, <2>5, <2>8, <3>1, RequestChanges DEF HInv
  <2>9. ASSUME NEW q \in Requests, SyncInsert(q)
        PROVE  FALSE
    <3>1. req[q] \in Pending /\ req'[q].pc = req[q].pc
      BY <1>1, <2>9, RequestParts DEF SyncInsert, HInv, TypeOK, Pcs, Pending
    <3>2. Alone(q)
      BY <1>1, <2>9, RequestChanges DEF HInv
    <3>. QED
      BY <1>1, <2>1, <3>1, <3>2 DEF Alone, At
  <2>10. ASSUME NEW q \in Requests, SyncCommit(q) \/ SyncFails(q)
         PROVE  q = r
    <3>1. Alone(q)
      BY <1>1, <2>10, RequestSteps DEF HInv, SyncCommit, SyncFails
    <3>. QED
      BY <2>1, <3>1 DEF Alone
  <2>. QED
    BY <1>1, <2>2, <2>3, <2>4, <2>6, <2>7, <2>8, <2>9, <2>10, NextCases
<1>2. ASSUME HInv, NEW r \in Requests, SyncCommit(r)
      PROVE  /\ \A i \in req[r].ids : handles'[i] # handles[i]
             /\ \A e \in req[r].payload :
                   \E i \in RowIds : handles[i] = None /\ handles'[i] = Row(r, e)
  <2>1. /\ req[r] \in Pending /\ At(r, "tx")
        /\ \A i \in RowIds :
              \/ \E p \in req[r].put : p.id = i /\ handles'[i] = Row(r, p.entry)
              \/ (\A p \in req[r].put : p.id # i) /\ i \in req[r].ids /\ handles'[i] = None
              \/ (\A p \in req[r].put : p.id # i) /\ i \notin req[r].ids /\ handles'[i] = handles[i]
    BY <1>2, TxRows
  <2>2. req[r].ids \subseteq RowIds /\ \A p \in req[r].put : p.id \in RowIds
    BY <2>1 DEF Pending
  <2>3. ASSUME NEW i \in req[r].ids
        PROVE  handles'[i] # handles[i]
    BY <1>2, <2>1, <2>2, <2>3 DEF HInv, TxDeleted, TxInserted
  <2>4. ASSUME NEW p \in req[r].put
        PROVE  handles[p.id] = None /\ handles'[p.id] = Row(r, p.entry)
    BY <1>2, <2>1, <2>2, <2>4 DEF HInv, TxInserted, PutApart
  <2>5. \A e \in req[r].payload : \E p \in req[r].put : p.entry = e
    BY <1>2 DEF SyncCommit
  <2>. QED
    BY <2>2, <2>3, <2>4, <2>5
<1>3. ASSUME HInv, [Next]_vars, NEW r \in Requests, At(r, "tx"), ~At(r, "tx")'
      PROVE  \/ handles' = handles
             \/ /\ \A i \in req[r].ids : handles'[i] # handles[i]
                /\ \A e \in req[r].payload :
                      \E i \in RowIds : handles[i] = None /\ handles'[i] = Row(r, e)
  <2>1. Next
    BY <1>3 DEF vars, At
  <2>2. CASE SyncFails(r)
    BY <2>2 DEF SyncFails
  <2>. QED
    BY <1>1, <1>2, <1>3, <2>1, <2>2
<1>. QED
  <2>1. HInv /\ [Next]_vars =>
          [\A r \in Requests : At(r, "tx") /\ ~At(r, "tx")' =>
              \/ handles' = handles
              \/ /\ \A i \in req[r].ids : handles'[i] # handles[i]
                 /\ \A e \in req[r].payload :
                       \E i \in RowIds : handles[i] = None /\ handles'[i] = Row(r, e)]_vars
    BY <1>3
  <2>. QED
    BY <2>1, HandlesInit, HandlesStep, PTL DEF Spec, SyncWhole

\* A handle disappears only by a request of its user, or with the account.
THEOREM RemovalIsOwned == Spec => OnlyOwnersRemove
<1>1. ASSUME HInv, Next, NEW i \in RowIds, handles[i] # None, handles'[i] = None
      PROVE  \/ users'[handles[i].user] = None
             \/ \E r \in Requests : req[r].user = handles[i].user /\ req'[r] # req[r]
  <2>. DEFINE Goal == \/ users'[handles[i].user] = None
                      \/ \E r \in Requests : req[r].user = handles[i].user /\ req'[r] # req[r]
  <2>1. CASE UNCHANGED handles
    BY <1>1, <2>1
  <2>2. ASSUME NEW u \in Users, DeleteUser(u)
        PROVE  Goal
    BY <1>1, <2>2 DEF DeleteUser, RowsOf, HInv, TypeOK
  <2>3. ASSUME NEW u \in Users, NEW e \in Entries, AddHandle(u, e)
        PROVE  Goal
    <3>1. [user |-> u, entry |-> e] # None
      BY <2>3 DEF Handle
    <3>. QED
      BY <1>1, <2>3, <3>1 DEF AddHandle, HInv, TypeOK
  <2>4. ASSUME NEW r \in Requests, EndDelete(r)
        PROVE  Goal
    <3>1. req[r] \in Pending /\ req[r].pc = "delete"
      BY <1>1, <2>4, RequestParts DEF EndDelete, HInv, Pcs, At
    <3>2. req'[r] = [req[r] EXCEPT !.pc = "insert", !.ids = {}]
      BY <1>1, <2>4, RequestChanges DEF HInv
    <3>3. req'[r] # req[r]
      BY <3>1, <3>2 DEF Pending
    <3>4. i \in req[r].ids
      BY <1>1, <2>4 DEF EndDelete
    <3>. QED
      BY <1>1, <3>1, <3>3, <3>4 DEF HInv, OwnRows, Active, At
  <2>5. ASSUME NEW r \in Requests, Insert(r)
        PROVE  Goal
    <3>1. req[r] \in Pending
      BY <1>1, <2>5, RequestParts DEF Insert, HInv, Pcs
    <3>2. \A e \in req[r].payload : Row(r, e) # None
      BY <3>1 DEF Row, Pending, Handle
    <3>. QED
      BY <1>1, <2>5, <3>2 DEF Insert, HInv, TypeOK
  <2>6. ASSUME NEW r \in Requests, SyncCommit(r)
        PROVE  Goal
    <3>1. /\ req[r] \in Pending /\ At(r, "tx") /\ req'[r] = Quiet
          /\ \/ \E p \in req[r].put : p.id = i /\ handles'[i] = Row(r, p.entry)
             \/ i \in req[r].ids
             \/ handles'[i] = handles[i]
      BY <1>1, <2>6, TxRows
    <3>2. \A p \in req[r].put : Row(r, p.entry) # None
      BY <3>1 DEF Row, Pending, Handle
    <3>3. i \in req[r].ids
      BY <1>1, <3>1, <3>2
    <3>4. req'[r] # req[r]
      BY <3>1 DEF At, Quiet
    <3>. QED
      BY <1>1, <3>1, <3>3, <3>4 DEF HInv, OwnRows, Active
  <2>7. ASSUME NEW r \in Requests, Drop(r)
        PROVE  Goal
    <3>1. At(r, "drop") /\ req'[r] = Quiet
      BY <1>1, <2>7, RequestSteps DEF HInv, Drop
    <3>2. req'[r] # req[r]
      BY <3>1 DEF At, Quiet
    <3>3. i \in RowsOf(req[r].user)
      BY <1>1, <2>7 DEF Drop, Droppable
    <3>. QED
      BY <3>2, <3>3 DEF RowsOf
  <2>8. CASE Tick \/ \E u \in Users, n \in Names \cup {None} : Register(u, n)
    BY <2>1, <2>8 DEF Tick, Register
  <2>9. CASE \E r \in Requests, u \in Users : Starts(r, u)
    BY <2>1, <2>9, StartsOnly
  <2>10. CASE \E r \in Requests :
                \/ SaveUser(r) \/ Available(r) \/ Rename(r) \/ WriteProfile(r)
                \/ StartDelete(r) \/ SyncDelete(r) \/ SyncInsert(r) \/ SyncFails(r)
    BY <2>1, <2>10, Zenon
       DEF SaveUser, Available, Rename, WriteProfile, StartDelete, SyncDelete, SyncInsert, SyncFails
  <2>. QED
    BY <1>1, <2>2, <2>3, <2>4, <2>5, <2>6, <2>7, <2>8, <2>9, <2>10, NextCases, Zenon
<1>2. HInv /\ [Next]_vars =>
        [\A i \in RowIds : handles[i] # None /\ handles'[i] = None =>
            \/ users'[handles[i].user] = None
            \/ \E r \in Requests : req[r].user = handles[i].user /\ req'[r] # req[r]]_vars
  BY <1>1 DEF vars
<1>. QED
  BY <1>2, HandlesInit, HandlesStep, PTL DEF Spec, OnlyOwnersRemove
=============================================================================
