------------------------------- MODULE Orders -------------------------------
(***************************************************************************)
(* Orders and their payment (store.Service): checkouts that wait for a     *)
(* payment, orders that are taken at once, Paystack's webhook and the      *)
(* administrator's updates, statement by statement, with restarts of the   *)
(* process.  Only the webhook uses a transaction: the rows it has selected *)
(* FOR UPDATE stay locked until it ends.                                   *)
(*                                                                         *)
(* Paystack is modelled from how this code uses it: it may charge any      *)
(* reference that was handed out, and it sends charge.success until it is  *)
(* answered 200, and perhaps again.  Every event with a valid signature is *)
(* answered 200.  Ids and references are nanosecond times, taken to be     *)
(* different.  The customer's data, prices and e-mails are left out.       *)
(***************************************************************************)
EXTENDS Naturals, Sequences

CONSTANTS
    Ids,         \* order ids
    Refs,        \* payment references
    Matches,     \* for each id an administrator may write, the ids it matches
    Written,     \* the statuses that administrators write
    Requests,    \* HTTP requests in flight
    None,
    Blank,       \* the empty payment_ref
    Failing,     \* the kinds of SQL statement that may fail
    MaxRestarts  \* bound: restarts of the process

Statements == {"insert", "fallback", "lookup", "confirm", "status"}
Statuses == {"pending", "confirmed", "paid", "shipped"}   \* "shipped": any other
ASSUME MatchesAssumption == Matches \subseteq SUBSET Ids
ASSUME WrittenAssumption == Written \subseteq Statuses
ASSUME FailingAssumption == Failing \subseteq Statements
ASSUME BlankAssumption == Blank \notin Refs
ASSUME NoneAssumption ==
    /\ None \notin [ref : Refs \cup {Blank}, status : Statuses, by : {"checkout", "order", "webhook", "admin"}]
    /\ None \notin [ref : Refs \cup {Blank}, state : {"open", "closed"}]
ASSUME RestartsAssumption == MaxRestarts \in Nat

VARIABLES
    db,           \* the process was started with a database (main.go)
    orders,       \* the rows of orders
    memoryOrders, \* Service.memoryOrders, newest first
    req,          \* requests: the next statement and its arguments
    issued,       \* references the process has drawn and sent out
    paid,         \* Paystack: references that were charged
    outbox,       \* Paystack: charges whose event was not answered yet
    settled,      \* history: references of committed webhooks
    dropped,      \* history: references of webhooks answered without an effect
    restarts

store == <<db, orders, memoryOrders>>
paystack == <<issued, paid, outbox>>
history == <<settled, dropped>>
vars == <<store, req, paystack, history, restarts>>

\* A row: its payment reference, its status, and who has set it (history).
Row == [ref : Refs \cup {Blank}, status : Statuses, by : {"checkout", "order", "webhook", "admin"}]
Entry == [id : Ids, status : Statuses]

Quiet == [pc |-> "idle", id |-> None, ref |-> None, ids |-> {}, status |-> "none"]

Init ==
    /\ db \in BOOLEAN
    /\ orders = [i \in Ids |-> None] /\ memoryOrders = <<>>
    /\ req = [r \in Requests |-> Quiet]
    /\ issued = {} /\ paid = {} /\ outbox = {}
    /\ settled = {} /\ dropped = {}
    /\ restarts = 0

At(r, pc) == req[r].pc = pc
Begin(r, pc, i, ref, S, status) ==
    /\ At(r, "idle")
    /\ req' = [req EXCEPT ![r] = [pc |-> pc, id |-> i, ref |-> ref, ids |-> S, status |-> status]]
Goto(r, pc) == req' = [req EXCEPT ![r].pc = pc]
Done(r) == req' = [req EXCEPT ![r] = Quiet]
MayFail(statement) == statement \in Failing

Rows == {i \in Ids : orders[i] # None}
WithRef(ref) == {i \in Rows : orders[i].ref = ref}
\* Rows that no other transaction has locked (mutant: a SELECT without FOR
\* UPDATE locks none).
UnlockedAlways(S, r) == TRUE
Unlocked(S, r) == \A q \in Requests \ {r} : At(q, "confirm") => req[q].ids \cap S = {}

FreshId(i) ==
    /\ i \notin Rows /\ \A n \in DOMAIN memoryOrders : memoryOrders[n].id # i
    /\ \A q \in Requests : req[q].id # i
FreshRef(ref) == ref \notin issued /\ \A q \in Requests : req[q].ref # ref

Insert(i, ref, status, by) ==
    orders' = [orders EXCEPT ![i] = [ref |-> ref, status |-> status, by |-> by]]
-----------------------------------------------------------------------------
\* HandleInitializePaystack: the pending row, whose error is ignored, and then
\* the reference goes to Paystack and to the customer, however that call ends.
Checkout(r, i, ref) ==
    /\ FreshId(i) /\ FreshRef(ref)
    /\ Begin(r, "issue", i, ref, {}, "none")
    /\ \/ db /\ Insert(i, ref, "pending", "checkout")
       \/ (~db \/ MayFail("insert")) /\ UNCHANGED orders
    /\ UNCHANGED <<db, memoryOrders, paystack, history, restarts>>

Issue(r) ==
    /\ At(r, "issue") /\ Done(r)
    /\ issued' = issued \cup {req[r].ref}
    /\ UNCHANGED <<store, paid, outbox, history, restarts>>

\* HandleOrders: the list in memory, the INSERT, and after its error one with
\* fewer columns, payment_ref not among them, whose error is ignored.
Order(r, i, ref) ==
    /\ FreshId(i)
    /\ memoryOrders' = <<[id |-> i, status |-> "confirmed"]>> \o memoryOrders
    /\ IF db THEN Begin(r, "insert", i, ref, {}, "none")
             ELSE At(r, "idle") /\ UNCHANGED req
    /\ UNCHANGED <<db, orders, paystack, history, restarts>>

InsertOrder(r) ==
    /\ At(r, "insert")
    /\ \/ Insert(req[r].id, req[r].ref, "confirmed", "order") /\ Done(r)
       \/ MayFail("insert") /\ Goto(r, "fallback") /\ UNCHANGED orders
    /\ UNCHANGED <<db, memoryOrders, paystack, history, restarts>>

\* (mutant) The column that is left out has no default.
InsertBareNull(r) ==
    /\ At(r, "fallback") /\ Done(r)
    /\ \/ Insert(req[r].id, None, "confirmed", "order")
       \/ MayFail("fallback") /\ UNCHANGED orders
    /\ UNCHANGED <<db, memoryOrders, paystack, history, restarts>>

InsertBare(r) ==
    /\ At(r, "fallback") /\ Done(r)
    /\ \/ Insert(req[r].id, Blank, "confirmed", "order")
       \/ MayFail("fallback") /\ UNCHANGED orders
    /\ UNCHANGED <<db, memoryOrders, paystack, history, restarts>>
-----------------------------------------------------------------------------
\* Paystack charges a reference that was handed out.
Charge(ref) ==
    /\ ref \in issued \ paid
    /\ paid' = paid \cup {ref} /\ outbox' = outbox \cup {ref}
    /\ UNCHANGED <<store, req, issued, history, restarts>>

\* HandlePaystackWebhook.  Which events can be sent, and which count.
Sent(event, ref) == ref \in (IF event = "charge.success" THEN paid ELSE issued)
CountsAny(event) == TRUE                        \* (mutant)
CountsFailed(event) == event = "charge.failed"  \* (mutant)
Counts(event) == event = "charge.success"
Answer(event, ref) ==
    outbox' = IF event = "charge.success" THEN outbox \ {ref} ELSE outbox
Unused(ref) == dropped' = dropped \cup {ref} /\ UNCHANGED settled

\* An event that is not counted, that comes without a database, or whose
\* SELECT (or BEGIN) fails, is answered and forgotten.
Ignore(event, ref) ==
    /\ Sent(event, ref) /\ Answer(event, ref)
    /\ \/ ~Counts(event) /\ UNCHANGED history
       \/ Counts(event) /\ (~db \/ MayFail("lookup")) /\ Unused(ref)
    /\ UNCHANGED <<store, req, issued, paid, restarts>>

\* (mutant) A SELECT ... LIMIT 1 FOR UPDATE: locks the row it reads.
LockOne(r, event, ref) ==
    /\ Sent(event, ref) /\ Counts(event) /\ db
    /\ \/ WithRef(ref) = {} /\ Begin(r, "confirm", None, ref, {}, "none")
       \/ \E i \in WithRef(ref) :
             Unlocked({i}, r) /\ Begin(r, "confirm", None, ref, {i}, orders[i].status)
    /\ UNCHANGED <<store, paystack, history, restarts>>

\* SELECT status ... FOR UPDATE: locks all rows of the reference and reads one.
Lock(r, event, ref) ==
    /\ Sent(event, ref) /\ Counts(event) /\ db
    /\ Unlocked(WithRef(ref), r)
    /\ \/ WithRef(ref) = {} /\ Begin(r, "confirm", None, ref, {}, "none")
       \/ \E i \in WithRef(ref) : Begin(r, "confirm", None, ref, WithRef(ref), orders[i].status)
    /\ UNCHANGED <<store, paystack, history, restarts>>

OpenInverted(status) == status \in {"confirmed", "paid"}  \* (mutant)
\* UPDATE of all rows of the reference, unless the one that was read is
\* confirmed or paid, and COMMIT.
Open(status) == status \notin {"confirmed", "paid"}
Confirm(r) ==
    LET ref == req[r].ref  S == IF Open(req[r].status) THEN WithRef(ref) ELSE {} IN
    /\ At(r, "confirm") /\ Unlocked(S, r) /\ Done(r) /\ Answer("charge.success", ref)
    /\ orders' = [i \in Ids |-> IF i \in S THEN [orders[i] EXCEPT !.status = "confirmed", !.by = "webhook"]
                                           ELSE orders[i]]
    /\ settled' = settled \cup {ref} /\ UNCHANGED dropped
    /\ UNCHANGED <<db, memoryOrders, issued, paid, restarts>>

\* The UPDATE or the COMMIT fails: rolled back, and answered 200 all the same.
ConfirmFails(r) ==
    /\ At(r, "confirm") /\ MayFail("confirm")
    /\ Done(r) /\ Answer("charge.success", req[r].ref) /\ Unused(req[r].ref)
    /\ UNCHANGED <<store, issued, paid, restarts>>
-----------------------------------------------------------------------------
\* HandleUpdateOrderStatus: one UPDATE of every row the id matches, then the
\* newest entry of the list that it matches.
UpdateRows(r, S, status) ==
    /\ Begin(r, "list", None, None, S, status)
    /\ \/ /\ db /\ Unlocked(S, r)
          /\ orders' = [i \in Ids |-> IF i \in S \cap Rows
                                      THEN [orders[i] EXCEPT !.status = status, !.by = "admin"]
                                      ELSE orders[i]]
       \/ (~db \/ MayFail("status")) /\ UNCHANGED orders
    /\ UNCHANGED <<db, memoryOrders, paystack, history, restarts>>

Newest(S) ==
    {n \in DOMAIN memoryOrders : /\ memoryOrders[n].id \in S
                                 /\ \A m \in 1..(n - 1) : memoryOrders[m].id \notin S}
UpdateList(r) ==
    /\ At(r, "list") /\ Done(r)
    /\ memoryOrders' = [n \in DOMAIN memoryOrders |->
                          IF n \in Newest(req[r].ids) THEN [memoryOrders[n] EXCEPT !.status = req[r].status]
                                                      ELSE memoryOrders[n]]
    /\ UNCHANGED <<db, orders, paystack, history, restarts>>

\* The process stops and starts: transactions are rolled back, the list is
\* lost, and nobody is answered.
Restart ==
    /\ restarts < MaxRestarts /\ restarts' = restarts + 1
    /\ req' = [r \in Requests |-> Quiet] /\ memoryOrders' = <<>>
    /\ UNCHANGED <<db, orders, paystack, history>>

Handle(r) ==
    \/ Issue(r) \/ InsertOrder(r) \/ InsertBare(r)
    \/ Confirm(r) \/ ConfirmFails(r) \/ UpdateList(r)
Deliver(ref) ==
    /\ ref \in outbox
    /\ Ignore("charge.success", ref) \/ \E r \in Requests : Lock(r, "charge.success", ref)

Next ==
    \/ \E r \in Requests : Handle(r)
    \/ \E r \in Requests, i \in Ids :
          \/ \E ref \in Refs : Checkout(r, i, ref)
          \/ \E ref \in issued \cup {Blank} : Order(r, i, ref)
    \/ \E ref \in Refs :
          \/ Charge(ref)
          \/ \E event \in {"charge.success", "charge.failed"} :
                Ignore(event, ref) \/ \E r \in Requests : Lock(r, event, ref)
    \/ \E r \in Requests, S \in Matches, status \in Written : UpdateRows(r, S, status)
    \/ Restart

Spec == Init /\ [][Next]_vars
\* Handlers go on (a lock is held no longer than a transaction), and Paystack
\* sends an event again until it is answered; a transaction and its commit are
\* not starved for ever by administrators.
FairSpec ==
    /\ Spec
    /\ \A r \in Requests : WF_vars(Handle(r))
    /\ \A ref \in Refs : SF_vars(Deliver(ref))
-----------------------------------------------------------------------------
Checkouts == [pc : {"issue"}, id : Ids, ref : Refs, ids : {{}}, status : {"none"}]
Inserts == [pc : {"insert", "fallback"}, id : Ids, ref : Refs \cup {Blank}, ids : {{}}, status : {"none"}]
Webhooks == [pc : {"confirm"}, id : {None}, ref : Refs, ids : SUBSET Ids, status : Statuses \cup {"none"}]
Updates == [pc : {"list"}, id : {None}, ref : {None}, ids : SUBSET Ids, status : Statuses]

TypeOK ==
    /\ db \in BOOLEAN
    /\ orders \in [Ids -> Row \cup {None}]
    /\ memoryOrders \in Seq(Entry)
    /\ req \in [Requests -> {Quiet} \cup Checkouts \cup Inserts \cup Webhooks \cup Updates]
    /\ issued \subseteq Refs /\ paid \subseteq issued /\ outbox \subseteq paid
    /\ settled \subseteq Refs /\ dropped \subseteq Refs
    /\ restarts \in 0..MaxRestarts

\* A checkout that no administrator has touched is confirmed only if its
\* reference was charged, whatever events of Paystack are sent, late or twice
\* (HandlePaystackWebhook).  Others are taken to be refused by their signature,
\* which is checked only when PAYSTACK_SECRET_KEY is set.
ConfirmedMeansPaid ==
    \A i \in Rows : orders[i].by \in {"checkout", "webhook"} /\ orders[i].status = "confirmed"
                       => orders[i].ref \in paid

\* When the webhook of a charge has committed, not all orders of its reference
\* are pending, unless an administrator set one back: the row is there before
\* the reference leaves the process (HandleInitializePaystack,
\* HandlePaystackWebhook).  It may be that only one of several is confirmed,
\* because the status of one row decides for all.
PaidIsAcknowledged ==
    \A ref \in settled :
        WithRef(ref) # {} => \E i \in WithRef(ref) : orders[i].status # "pending" \/ orders[i].by = "admin"

\* A webhook that already holds the locks of its rows never waits for another
\* one, not even for rows that were inserted since: so no two of them wait for
\* each other in a circle (HandlePaystackWebhook).
HoldersNeverWait ==
    \A r \in Requests : At(r, "confirm") /\ req[r].ids # {} => Unlocked(WithRef(req[r].ref), r)

\* SELECT, UPDATE and COMMIT of a webhook take effect as one step, whatever
\* checkouts, orders, updates, other webhooks and restarts come in between, and
\* a charge is owed until one has settled or dropped it (HandlePaystackWebhook).
State(status) == IF Open(status) THEN "open" ELSE "closed"
ToOrder(row) == IF row = None THEN None ELSE [ref |-> row.ref, state |-> State(row.status)]
Books == INSTANCE Ledger WITH durable <- db, rows <- [i \in Ids |-> ToOrder(orders[i])], owed <- outbox
ImplementsLedger == Books!Spec

\* Every charge is in the end settled, or its event was answered 200 after a
\* failing statement or without a database (HandlePaystackWebhook).
ChargesSettle == \A ref \in Refs : ref \in paid ~> ref \in settled \cup dropped
=============================================================================
