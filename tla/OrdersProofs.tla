---------------------------- MODULE OrdersProofs ----------------------------
(***************************************************************************)
(* For every number of orders, references and requests, whatever           *)
(* statements fail and however often the process restarts: a checkout is   *)
(* confirmed only after its payment, and a payment whose webhook has       *)
(* committed has an order that is not pending; a webhook that holds locks  *)
(* never waits; and the orders implement Ledger.                           *)
(***************************************************************************)
EXTENDS Orders, SequenceTheorems, TLAPS

USE MatchesAssumption, WrittenAssumption, BlankAssumption, NoneAssumption, RestartsAssumption

Request == {Quiet} \cup Checkouts \cup Inserts \cup Webhooks \cup Updates
Setters == {"checkout", "order", "webhook", "admin"}

\* What a request is at each statement.
LEMMA RequestParts ==
    ASSUME TypeOK, NEW r \in Requests
    PROVE  /\ At(r, "issue") => req[r] \in Checkouts
           /\ At(r, "insert") \/ At(r, "fallback") => req[r] \in Inserts
           /\ At(r, "confirm") => req[r] \in Webhooks
           /\ At(r, "list") => req[r] \in Updates
BY DEF TypeOK, At, Quiet, Checkouts, Inserts, Webhooks, Updates

\* What the actions make of a request.
LEMMA RequestSteps ==
    ASSUME TypeOK, NEW r \in Requests
    PROVE  /\ Done(r) => req' \in [Requests -> Request]
           /\ req[r] \in Inserts /\ Goto(r, "fallback") => req' \in [Requests -> Request]
           /\ \A pc, i, ref, S, s :
                 /\ Begin(r, pc, i, ref, S, s)
                 /\ [pc |-> pc, id |-> i, ref |-> ref, ids |-> S, status |-> s] \in Request
                 => req' \in [Requests -> Request]
<1>1. req \in [Requests -> Request] /\ Quiet \in Request
  BY DEF TypeOK, Request
<1>2. ASSUME req[r] \in Inserts
      PROVE  [req[r] EXCEPT !.pc = "fallback"] \in Request
  BY <1>2 DEF Request, Inserts
<1>3. Done(r) => req' \in [Requests -> Request]
  BY <1>1 DEF Done
<1>4. req[r] \in Inserts /\ Goto(r, "fallback") => req' \in [Requests -> Request]
  BY <1>1, <1>2 DEF Goto
<1>5. ASSUME NEW pc, NEW i, NEW ref, NEW S, NEW s, Begin(r, pc, i, ref, S, s),
             [pc |-> pc, id |-> i, ref |-> ref, ids |-> S, status |-> s] \in Request
      PROVE  req' \in [Requests -> Request]
  BY <1>1, <1>5 DEF Begin
<1>. QED
  BY <1>3, <1>4, <1>5

LEMMA RowParts ==
    ASSUME TypeOK, NEW i \in Rows, NEW s \in Statuses, NEW by \in Setters
    PROVE  /\ i \in Ids /\ orders[i] \in Row
           /\ [orders[i] EXCEPT !.status = s, !.by = by] \in Row
           /\ [orders[i] EXCEPT !.status = s, !.by = by].ref = orders[i].ref
           /\ [orders[i] EXCEPT !.status = s, !.by = by].status = s
           /\ [orders[i] EXCEPT !.status = s, !.by = by].by = by
<1>1. i \in Ids /\ orders[i] \in Row
  BY DEF TypeOK, Rows
<1>. QED
  BY <1>1 DEF Row, Setters

LEMMA InsertType ==
    ASSUME TypeOK, NEW i \in Ids, NEW ref \in Refs \cup {Blank},
           NEW s \in Statuses, NEW by \in Setters, Insert(i, ref, s, by)
    PROVE  orders' \in [Ids -> Row \cup {None}]
BY DEF TypeOK, Insert, Row, Setters

LEMMA InitType == Init => TypeOK
<1>1. <<>> \in Seq(Entry)
  OBVIOUS
<1>. QED
  BY <1>1 DEF Init, TypeOK
-----------------------------------------------------------------------------
\* Checkouts and orders.
LEMMA OrderType ==
    ASSUME TypeOK, NEW r \in Requests,
           \/ \E i \in Ids, ref \in Refs : Checkout(r, i, ref)
           \/ \E i \in Ids, ref \in issued \cup {Blank} : Order(r, i, ref)
           \/ Issue(r) \/ InsertOrder(r) \/ InsertBare(r)
    PROVE  TypeOK'
<1>. USE DEF store, paystack, history
<1>1. ASSUME NEW i \in Ids, NEW ref \in Refs, Checkout(r, i, ref)
      PROVE  TypeOK'
  <2>1. [pc |-> "issue", id |-> i, ref |-> ref, ids |-> {}, status |-> "none"] \in Request
    BY DEF Request, Checkouts
  <2>2. req' \in [Requests -> Request]
    BY <1>1, <2>1, RequestSteps DEF Checkout
  <2>3. orders' \in [Ids -> Row \cup {None}]
    BY <1>1, InsertType DEF Checkout, TypeOK, Statuses, Setters
  <2>. QED
    BY <1>1, <2>2, <2>3 DEF Checkout, TypeOK, Request
<1>2. ASSUME NEW i \in Ids, NEW ref \in issued \cup {Blank}, Order(r, i, ref)
      PROVE  TypeOK'
  <2>1. [pc |-> "insert", id |-> i, ref |-> ref, ids |-> {}, status |-> "none"] \in Request
    BY DEF Request, Inserts, TypeOK
  <2>2. req' \in [Requests -> Request]
    BY <1>2, <2>1, RequestSteps DEF Order, TypeOK, Request
  <2>3. memoryOrders' \in Seq(Entry)
    <3>1. [id |-> i, status |-> "confirmed"] \in Entry
      BY DEF Entry, Statuses
    <3>. QED
      BY <1>2, <3>1 DEF Order, TypeOK
  <2>. QED
    BY <1>2, <2>2, <2>3 DEF Order, TypeOK, Request
<1>3. ASSUME Issue(r) PROVE TypeOK'
  <2>1. req' \in [Requests -> Request]
    BY <1>3, RequestSteps DEF Issue
  <2>2. req[r].ref \in Refs
    BY <1>3, RequestParts DEF Issue, Checkouts
  <2>. QED
    BY <1>3, <2>1, <2>2 DEF Issue, TypeOK, Request
<1>4. ASSUME InsertOrder(r) PROVE TypeOK'
  <2>1. req[r] \in Inserts /\ req[r].id \in Ids /\ req[r].ref \in Refs \cup {Blank}
    BY <1>4, RequestParts DEF InsertOrder, Inserts
  <2>2. req' \in [Requests -> Request]
    BY <1>4, <2>1, RequestSteps DEF InsertOrder
  <2>3. orders' \in [Ids -> Row \cup {None}]
    BY <1>4, <2>1, InsertType DEF InsertOrder, TypeOK, Statuses, Setters
  <2>. QED
    BY <1>4, <2>2, <2>3 DEF InsertOrder, TypeOK, Request
<1>5. ASSUME InsertBare(r) PROVE TypeOK'
  <2>1. req[r].id \in Ids
    BY <1>5, RequestParts DEF InsertBare, Inserts
  <2>2. req' \in [Requests -> Request]
    BY <1>5, RequestSteps DEF InsertBare
  <2>3. orders' \in [Ids -> Row \cup {None}]
    BY <1>5, <2>1, InsertType DEF InsertBare, TypeOK, Statuses, Setters
  <2>. QED
    BY <1>5, <2>2, <2>3 DEF InsertBare, TypeOK, Request
<1>. QED
  BY <1>1, <1>2, <1>3, <1>4, <1>5
-----------------------------------------------------------------------------
\* Charges and webhooks.
LEMMA WebhookType ==
    ASSUME TypeOK,
           \/ \E ref \in Refs : Charge(ref)
           \/ \E ref \in Refs, event \in {"charge.success", "charge.failed"} :
                 Ignore(event, ref) \/ \E r \in Requests : Lock(r, event, ref)
           \/ \E r \in Requests : Confirm(r) \/ ConfirmFails(r)
    PROVE  TypeOK'
<1>. USE DEF store, paystack, history
<1>1. ASSUME NEW ref \in Refs, Charge(ref)
      PROVE  TypeOK'
  BY <1>1 DEF Charge, TypeOK
<1>2. ASSUME NEW ref \in Refs, NEW event, Ignore(event, ref)
      PROVE  TypeOK'
  BY <1>2 DEF Ignore, Answer, Unused, TypeOK
<1>3. ASSUME NEW ref \in Refs, NEW event, NEW r \in Requests, Lock(r, event, ref)
      PROVE  TypeOK'
  <2>1. /\ [pc |-> "confirm", id |-> None, ref |-> ref, ids |-> {}, status |-> "none"] \in Request
        /\ \A s \in Statuses :
              [pc |-> "confirm", id |-> None, ref |-> ref, ids |-> WithRef(ref), status |-> s] \in Request
    BY DEF Request, Webhooks, WithRef, Rows
  <2>2. \A i \in WithRef(ref) : orders[i].status \in Statuses
    BY DEF TypeOK, WithRef, Rows, Row
  <2>3. req' \in [Requests -> Request]
    BY <1>3, <2>1, <2>2, RequestSteps DEF Lock
  <2>. QED
    BY <1>3, <2>3 DEF Lock, TypeOK, Request
<1>4. ASSUME NEW r \in Requests, Confirm(r)
      PROVE  TypeOK'
  <2>1. req[r].ref \in Refs
    BY <1>4, RequestParts DEF Confirm, Webhooks
  <2>2. req' \in [Requests -> Request]
    BY <1>4, RequestSteps DEF Confirm
  <2>3. \A i \in Rows : [orders[i] EXCEPT !.status = "confirmed", !.by = "webhook"] \in Row
    BY RowParts DEF Statuses, Setters
  <2>4. orders' \in [Ids -> Row \cup {None}]
    BY <1>4, <2>3 DEF Confirm, WithRef, TypeOK
  <2>. QED
    BY <1>4, <2>1, <2>2, <2>4 DEF Confirm, Answer, TypeOK, Request
<1>5. ASSUME NEW r \in Requests, ConfirmFails(r)
      PROVE  TypeOK'
  <2>1. req[r].ref \in Refs
    BY <1>5, RequestParts DEF ConfirmFails, Webhooks
  <2>2. req' \in [Requests -> Request]
    BY <1>5, RequestSteps DEF ConfirmFails
  <2>. QED
    BY <1>5, <2>1, <2>2 DEF ConfirmFails, Answer, Unused, TypeOK, Request
<1>. QED
  BY <1>1, <1>2, <1>3, <1>4, <1>5
-----------------------------------------------------------------------------
\* The administrator's updates.
LEMMA UpdateType ==
    ASSUME TypeOK, NEW r \in Requests,
           (\E S \in Matches, s \in Written : UpdateRows(r, S, s)) \/ UpdateList(r)
    PROVE  TypeOK'
<1>. USE DEF store, paystack, history
<1>1. ASSUME NEW S \in Matches, NEW s \in Written, UpdateRows(r, S, s)
      PROVE  TypeOK'
  <2>1. [pc |-> "list", id |-> None, ref |-> None, ids |-> S, status |-> s] \in Request
    BY DEF Request, Updates
  <2>2. req' \in [Requests -> Request]
    BY <1>1, <2>1, RequestSteps DEF UpdateRows
  <2>3. \A i \in Rows : [orders[i] EXCEPT !.status = s, !.by = "admin"] \in Row
    BY RowParts DEF Setters
  <2>4. orders' \in [Ids -> Row \cup {None}]
    <3>1. orders \in [Ids -> Row \cup {None}]
      BY DEF TypeOK
    <3>2. CASE orders' = orders
      BY <3>1, <3>2
    <3>3. CASE orders' # orders
      <4>. DEFINE written(i) == [orders[i] EXCEPT !.status = s, !.by = "admin"]
      <4>1. orders' = [i \in Ids |-> IF i \in S \cap Rows THEN written(i) ELSE orders[i]]
        BY <1>1, <3>3 DEF UpdateRows
      <4>2. \A i \in S \cap Rows : written(i) \in Row
        BY <2>3
      <4>. HIDE DEF written
      <4>. QED
        BY <3>1, <4>1, <4>2
    <3>. QED
      BY <3>2, <3>3
  <2>. QED
    BY <1>1, <2>2, <2>4 DEF UpdateRows, TypeOK, Request
<1>2. ASSUME UpdateList(r) PROVE TypeOK'
  <2>1. req[r].status \in Statuses
    BY <1>2, RequestParts DEF UpdateList, Updates
  <2>2. req' \in [Requests -> Request]
    BY <1>2, RequestSteps DEF UpdateList
  <2>3. \A n \in DOMAIN memoryOrders :
           memoryOrders[n] \in Entry /\ [memoryOrders[n] EXCEPT !.status = req[r].status] \in Entry
    <3>1. \A n \in DOMAIN memoryOrders : memoryOrders[n] \in Entry
      BY DEF TypeOK
    <3>2. \A e \in Entry : [e EXCEPT !.status = req[r].status] \in Entry
      BY <2>1 DEF Entry
    <3>. QED
      BY <3>1, <3>2
  <2>4. memoryOrders' \in Seq(Entry)
    <3>1. memoryOrders \in Seq(Entry) /\ Len(memoryOrders) \in Nat /\ DOMAIN memoryOrders = 1..Len(memoryOrders)
      BY DEF TypeOK
    <3>2. memoryOrders' \in [1..Len(memoryOrders) -> Entry]
      BY <1>2, <2>3, <3>1 DEF UpdateList
    <3>. QED
      BY <3>1, <3>2, SeqDef
  <2>. QED
    BY <1>2, <2>2, <2>4 DEF UpdateList, TypeOK, Request
<1>. QED
  BY <1>1, <1>2

LEMMA RestartType == TypeOK /\ Restart => TypeOK'
<1>1. <<>> \in Seq(Entry)
  OBVIOUS
<1>. QED
  BY <1>1 DEF Restart, TypeOK, paystack, history

LEMMA NextType == TypeOK /\ [Next]_vars => TypeOK'
<1>. SUFFICES ASSUME TypeOK, [Next]_vars
              PROVE  TypeOK'
  OBVIOUS
<1>1. CASE UNCHANGED vars
  BY <1>1 DEF vars, store, paystack, history, TypeOK
<1>2. CASE Next
  BY <1>2, OrderType, WebhookType, UpdateType, RestartType, Zenon DEF Next, Handle
<1>. QED
  BY <1>1, <1>2

\* Orders, list, requests and references keep their types.
THEOREM TypeCorrect == Spec => []TypeOK
BY InitType, NextType, PTL DEF Spec
-----------------------------------------------------------------------------
(* What a step does to the rows.  They are never removed and never change    *)
(* their reference, a lock keeps them as they are, and a new one is either   *)
(* confirmed or pending under a reference that has not left the process.     *)

Holding(r) == At(r, "insert") \/ At(r, "fallback")

\* The id that a request holds belongs to no row and to no other request.
HeldFresh ==
    \A r \in Requests : Holding(r) =>
        /\ req[r].id \notin Rows
        /\ \A q \in Requests \ {r} : Holding(q) => req[q].id # req[r].id

\* A transaction has locked rows of its reference, if there were any, and one of
\* them still has the status that it has read.
LocksHold ==
    \A r \in Requests : At(r, "confirm") =>
        /\ req[r].ids \subseteq WithRef(req[r].ref)
        /\ req[r].ids = {} => req[r].status = "none"
        /\ req[r].ids # {} => \E i \in req[r].ids : orders[i].status = req[r].status

Kept(i) ==
    /\ i \in Rows' /\ orders'[i].ref = orders[i].ref
    /\ orders'[i] = orders[i] \/ orders'[i].status = "confirmed" \/ orders'[i].by = "admin"
Locked(i) == \E q \in Requests : At(q, "confirm") /\ At(q, "confirm")' /\ req'[q] = req[q] /\ i \in req[q].ids
Added(i) ==
    \/ orders'[i].status = "confirmed"
    \/ orders'[i].status = "pending" /\ orders'[i].ref \in Refs \ issued
RowSteps ==
    /\ \A i \in Rows : Kept(i) /\ (Locked(i) => orders'[i] = orders[i])
    /\ \A i \in Rows' \ Rows : Added(i)

LEMMA RowsUnchanged ==
    ASSUME UNCHANGED orders
    PROVE  RowSteps /\ Rows' = Rows
BY DEF RowSteps, Kept, Rows

LEMMA RowInserted ==
    ASSUME TypeOK, NEW i \in Ids \ Rows, NEW ref, NEW s, NEW by, Insert(i, ref, s, by),
           s = "confirmed" \/ (s = "pending" /\ ref \in Refs \ issued),
           ref \in Refs \cup {Blank}, by \in Setters
    PROVE  RowSteps /\ Rows' = Rows \cup {i}
<1>1. [ref |-> ref, status |-> s, by |-> by] \in Row
  BY DEF Row, Statuses, Setters
<1>2. orders' = [orders EXCEPT ![i] = [ref |-> ref, status |-> s, by |-> by]] /\ orders \in [Ids -> Row \cup {None}]
  BY DEF Insert, TypeOK
<1>3. [ref |-> ref, status |-> s, by |-> by] # None
  BY <1>1 DEF Row
<1>4. Rows' = Rows \cup {i}
  BY <1>2, <1>3 DEF Rows
<1>5. \A j \in Rows : orders'[j] = orders[j]
  BY <1>2 DEF Rows
<1>6. Added(i)
  BY <1>2 DEF Added
<1>. QED
  BY <1>4, <1>5, <1>6 DEF RowSteps, Kept

LEMMA RowsWritten ==
    ASSUME TypeOK, NEW S \in SUBSET Rows, NEW s \in Statuses, NEW by \in Setters,
           s = "confirmed" \/ by = "admin",
           orders' = [i \in Ids |-> IF i \in S THEN [orders[i] EXCEPT !.status = s, !.by = by] ELSE orders[i]],
           \A i \in S : ~Locked(i)
    PROVE  RowSteps /\ Rows' = Rows
<1>. DEFINE written(i) == [orders[i] EXCEPT !.status = s, !.by = by]
<1>1. \A i \in Rows : /\ i \in Ids /\ written(i) \in Row /\ written(i).ref = orders[i].ref
                      /\ written(i).status = s /\ written(i).by = by
  <2>1. ASSUME NEW i \in Rows
        PROVE  /\ i \in Ids /\ written(i) \in Row /\ written(i).ref = orders[i].ref
               /\ written(i).status = s /\ written(i).by = by
    <3>1. i \in Ids /\ orders[i] \in Row
      BY DEF TypeOK, Rows
    <3>. QED
      BY <3>1 DEF Row, Setters
  <2>. QED
    BY <2>1, Zenon
<1>2. \A i \in Ids : orders'[i] = IF i \in S THEN written(i) ELSE orders[i]
  OBVIOUS
<1>. HIDE DEF written
<1>3. Rows' = Rows
  <2>1. None \notin Row
    BY Zenon DEF Row
  <2>2. \A i \in S : i \in Rows /\ written(i) # None
    BY <1>1, <2>1, Zenon
  <2>. QED
    BY <1>2, <2>2 DEF Rows
<1>4. \A i \in Rows : Kept(i) /\ (Locked(i) => orders'[i] = orders[i])
  BY <1>1, <1>2, <1>3 DEF Kept
<1>. QED
  BY <1>3, <1>4 DEF RowSteps

\* Which of them a step is: no action but these changes a row.
LEMMA NextRows ==
    ASSUME TypeOK, HeldFresh, [Next]_vars
    PROVE  RowSteps
<1>. USE DEF store, paystack, history
<1>1. CASE UNCHANGED orders
  BY <1>1, RowsUnchanged
<1>2. ASSUME NEW r \in Requests, NEW i \in Ids, NEW ref \in Refs, Checkout(r, i, ref), orders' # orders
      PROVE  RowSteps
  <2>1. Insert(i, ref, "pending", "checkout") /\ i \notin Rows /\ ref \notin issued
    BY <1>2 DEF Checkout, FreshId, FreshRef
  <2>. QED
    BY <2>1, RowInserted DEF Setters
<1>3. ASSUME NEW r \in Requests, InsertOrder(r) \/ InsertBare(r), orders' # orders
      PROVE  RowSteps
  <2>1. /\ req[r].id \in Ids \ Rows /\ req[r].ref \in Refs \cup {Blank}
    BY <1>3, RequestParts DEF InsertOrder, InsertBare, Inserts, HeldFresh, Holding
  <2>2. \E ref \in Refs \cup {Blank} : Insert(req[r].id, ref, "confirmed", "order")
    BY <1>3, <2>1 DEF InsertOrder, InsertBare
  <2>. QED
    BY <2>1, <2>2, RowInserted DEF Setters
<1>4. ASSUME NEW r \in Requests, Confirm(r)
      PROVE  RowSteps
  <2>. DEFINE S == IF Open(req[r].status) THEN WithRef(req[r].ref) ELSE {}
  <2>1. S \in SUBSET Rows
    BY DEF WithRef
  <2>2. \A i \in S : ~Locked(i)
    <3>1. ~At(r, "confirm")'
      BY <1>4 DEF Confirm, Done, At, Quiet, TypeOK
    <3>. QED
      BY <1>4, <3>1 DEF Confirm, Unlocked, Locked
  <2>. QED
    BY <1>4, <2>1, <2>2, RowsWritten DEF Confirm, Statuses, Setters
<1>5. ASSUME NEW r \in Requests, NEW X \in Matches, NEW s \in Written, UpdateRows(r, X, s), orders' # orders
      PROVE  RowSteps
  <2>1. /\ Unlocked(X, r)
        /\ orders' = [i \in Ids |-> IF i \in X \cap Rows THEN [orders[i] EXCEPT !.status = s, !.by = "admin"]
                                                        ELSE orders[i]]
    BY <1>5 DEF UpdateRows
  <2>2. \A i \in X \cap Rows : ~Locked(i)
    <3>1. ~At(r, "confirm")
      BY <1>5 DEF UpdateRows, Begin, At
    <3>. QED
      BY <2>1, <3>1 DEF Unlocked, Locked
  <2>. QED
    BY <2>1, <2>2, RowsWritten DEF Setters
<1>6. CASE Next
  <2>1. orders' = orders \/ RowSteps
    BY <1>6, <1>2, <1>3, <1>4, <1>5, Zenon
       DEF Next, Handle, Issue, ConfirmFails, UpdateList, Order, Charge, Ignore, Lock, Restart
  <2>. QED
    BY <2>1, RowsUnchanged
<1>. QED
  BY <1>1, <1>6 DEF vars
-----------------------------------------------------------------------------
(* What a step does to the requests: besides those that end or go on to a    *)
(* statement that needs nothing, one may take an order, repeat its INSERT,   *)
(* or open a transaction.                                                    *)

Alone(r) == \A q \in Requests \ {r} : req'[q] = req[q]
Leaves(r) == req'[r].pc \notin {"insert", "fallback", "confirm"}
Takes(r) ==
    /\ Alone(r) /\ req'[r].pc = "insert" /\ UNCHANGED orders /\ db
    /\ FreshId(req'[r].id) /\ req'[r].ref \in issued \cup {Blank}
Repeats(r) ==
    /\ Alone(r) /\ At(r, "insert") /\ req'[r].pc = "fallback" /\ UNCHANGED orders
    /\ req'[r].id = req[r].id /\ req'[r].ref = req[r].ref
Opens(r) ==
    /\ Alone(r) /\ req'[r].pc = "confirm" /\ UNCHANGED orders /\ db
    /\ req'[r].ref \in paid /\ req'[r].ids = WithRef(req'[r].ref)
    /\ Unlocked(WithRef(req'[r].ref), r)
    /\ req'[r].ids = {} => req'[r].status = "none"
    /\ req'[r].ids # {} => \E i \in req'[r].ids : orders[i].status = req'[r].status
RequestStep(r) == req'[r] = req[r] \/ Leaves(r) \/ Takes(r) \/ Repeats(r) \/ Opens(r)

LEMMA RequestChanges ==
    ASSUME TypeOK, NEW r \in Requests
    PROVE  /\ Done(r) => Alone(r) /\ req'[r] = Quiet
           /\ Goto(r, "fallback") =>
                 Alone(r) /\ req'[r].pc = "fallback" /\ req'[r].id = req[r].id /\ req'[r].ref = req[r].ref
           /\ \A pc, i, ref, X, s : Begin(r, pc, i, ref, X, s) =>
                 /\ Alone(r)
                 /\ req'[r].pc = pc /\ req'[r].id = i /\ req'[r].ref = ref
                 /\ req'[r].ids = X /\ req'[r].status = s
<1>1. req \in [Requests -> Request]
  BY DEF TypeOK, Request
<1>2. Done(r) => Alone(r) /\ req'[r] = Quiet
  BY <1>1 DEF Done, Alone
<1>3. ASSUME Goto(r, "fallback")
      PROVE  Alone(r) /\ req'[r].pc = "fallback" /\ req'[r].id = req[r].id /\ req'[r].ref = req[r].ref
  <2>1. req'[r] = [req[r] EXCEPT !.pc = "fallback"] /\ Alone(r)
    BY <1>1, <1>3 DEF Goto, Alone
  <2>2. req[r] \in Request
    BY <1>1
  <2>. QED
    BY <2>1, <2>2 DEF Request, Quiet, Checkouts, Inserts, Webhooks, Updates
<1>4. ASSUME NEW pc, NEW i, NEW ref, NEW X, NEW s, Begin(r, pc, i, ref, X, s)
      PROVE  /\ Alone(r)
             /\ req'[r].pc = pc /\ req'[r].id = i /\ req'[r].ref = ref
             /\ req'[r].ids = X /\ req'[r].status = s
  BY <1>1, <1>4 DEF Begin, Alone
<1>. QED
  BY <1>2, <1>3, <1>4

LEMMA NextRequests ==
    ASSUME TypeOK, [Next]_vars
    PROVE  \A q \in Requests : RequestStep(q)
<1>. USE DEF store
<1>1. ASSUME NEW r \in Requests, RequestStep(r), Alone(r)
      PROVE  \A q \in Requests : RequestStep(q)
  BY <1>1 DEF RequestStep, Alone
<1>2. ASSUME NEW r \in Requests, Handle(r)
      PROVE  RequestStep(r) /\ Alone(r)
  <2>1. CASE Done(r)
    BY <2>1, RequestChanges DEF RequestStep, Leaves, Quiet
  <2>2. CASE InsertOrder(r) /\ ~Done(r)
    <3>1. Goto(r, "fallback") /\ At(r, "insert") /\ UNCHANGED orders
      BY <2>2 DEF InsertOrder
    <3>. QED
      BY <3>1, RequestChanges DEF RequestStep, Repeats
  <2>. QED
    BY <1>2, <2>1, <2>2 DEF Handle, Issue, InsertOrder, InsertBare, Confirm, ConfirmFails, UpdateList
<1>3. ASSUME NEW r \in Requests, NEW i \in Ids, NEW ref \in Refs, Checkout(r, i, ref)
      PROVE  RequestStep(r) /\ Alone(r)
  <2>1. Begin(r, "issue", i, ref, {}, "none")
    BY <1>3 DEF Checkout
  <2>. QED
    BY <2>1, RequestChanges DEF RequestStep, Leaves
<1>4. ASSUME NEW r \in Requests, NEW i \in Ids, NEW ref \in issued \cup {Blank}, Order(r, i, ref), req' # req
      PROVE  RequestStep(r) /\ Alone(r)
  <2>1. Begin(r, "insert", i, ref, {}, "none") /\ FreshId(i) /\ UNCHANGED orders /\ db
    BY <1>4 DEF Order
  <2>. QED
    BY <2>1, RequestChanges DEF RequestStep, Takes
<1>5. ASSUME NEW r \in Requests, NEW ref \in Refs, NEW event, Lock(r, event, ref)
      PROVE  RequestStep(r) /\ Alone(r)
  <2>1. ref \in paid /\ UNCHANGED orders /\ db /\ Unlocked(WithRef(ref), r)
    BY <1>5 DEF Lock, Sent, Counts
  <2>2. CASE WithRef(ref) = {} /\ Begin(r, "confirm", None, ref, {}, "none")
    <3>1. req'[r].pc = "confirm" /\ req'[r].ref = ref /\ req'[r].ids = {} /\ req'[r].status = "none" /\ Alone(r)
      BY <2>2, RequestChanges
    <3>. QED
      BY <2>1, <2>2, <3>1 DEF RequestStep, Opens
  <2>3. ASSUME NEW i \in WithRef(ref), Begin(r, "confirm", None, ref, WithRef(ref), orders[i].status)
        PROVE  RequestStep(r) /\ Alone(r)
    <3>1. req'[r].pc = "confirm" /\ req'[r].ref = ref /\ req'[r].ids = WithRef(ref) /\ req'[r].status = orders[i].status /\ Alone(r)
      BY <2>3, RequestChanges
    <3>. QED
      BY <2>1, <3>1 DEF RequestStep, Opens
  <2>. QED
    BY <1>5, <2>2, <2>3 DEF Lock
<1>6. ASSUME NEW r \in Requests, NEW X, NEW s, UpdateRows(r, X, s)
      PROVE  RequestStep(r) /\ Alone(r)
  <2>1. Begin(r, "list", None, None, X, s)
    BY <1>6 DEF UpdateRows
  <2>. QED
    BY <2>1, RequestChanges DEF RequestStep, Leaves
<1>7. ASSUME Restart
      PROVE  \A q \in Requests : RequestStep(q)
  BY <1>7 DEF Restart, RequestStep, Leaves, Quiet
<1>8. CASE req' = req
  BY <1>8 DEF RequestStep
<1>9. CASE Next /\ req' # req
  <2>1. Restart \/ \E r \in Requests : RequestStep(r) /\ Alone(r)
    BY <1>9, <1>2, <1>3, <1>4, <1>5, <1>6, Zenon DEF Next, Charge, Ignore
  <2>. QED
    BY <2>1, <1>1, <1>7, Zenon
<1>. QED
  BY <1>8, <1>9 DEF vars

\* What becomes of charges and of committed webhooks.
LEMMA NextPayments ==
    ASSUME [Next]_vars
    PROVE  /\ paid \subseteq paid' /\ issued \subseteq issued'
           /\ settled' = settled \/ \E r \in Requests : Confirm(r) /\ settled' = settled \cup {req[r].ref}
<1>. USE DEF store, paystack, history, vars
<1>1. CASE UNCHANGED vars
  BY <1>1
<1>2. ASSUME NEW r \in Requests, Handle(r)
      PROVE  /\ paid \subseteq paid' /\ issued \subseteq issued'
             /\ settled' = settled \/ (Confirm(r) /\ settled' = settled \cup {req[r].ref})
  BY <1>2 DEF Handle, Issue, InsertOrder, InsertBare, Confirm, ConfirmFails, UpdateList, Unused
<1>3. ASSUME Next, ~\E r \in Requests : Handle(r)
      PROVE  paid \subseteq paid' /\ issued \subseteq issued' /\ settled' = settled
  BY <1>3 DEF Next, Checkout, Order, Charge, Ignore, Unused, Lock, UpdateRows, Restart
<1>. QED
  BY <1>1, <1>2, <1>3
-----------------------------------------------------------------------------
\* A webhook is under way only for a reference that was charged.
WebhooksPaid == \A r \in Requests : At(r, "confirm") => req[r].ref \in paid
PaidInv == TypeOK /\ WebhooksPaid /\ ConfirmedMeansPaid

LEMMA PaidInvInit == Init => PaidInv
BY InitType DEF Init, PaidInv, WebhooksPaid, ConfirmedMeansPaid, Rows, At, Quiet

LEMMA WebhooksPaidStep == TypeOK /\ WebhooksPaid /\ [Next]_vars => WebhooksPaid'
BY NextRequests, NextPayments
   DEF WebhooksPaid, At, RequestStep, Leaves, Takes, Repeats, Opens

\* The status that a step gives to a row, and who gave it.
LEMMA ConfirmedStep == PaidInv /\ [Next]_vars => ConfirmedMeansPaid'
<1>. SUFFICES ASSUME PaidInv, [Next]_vars
              PROVE  ConfirmedMeansPaid'
  OBVIOUS
<1>. USE DEF PaidInv, store, paystack, history
<1>. DEFINE Good(row) == row.by \in {"checkout", "webhook"} /\ row.status = "confirmed" => row.ref \in paid
<1>1. \A i \in Ids : orders[i] # None => Good(orders[i])
  BY DEF ConfirmedMeansPaid, Rows
<1>2. SUFFICES \A i \in Ids : orders'[i] = orders[i] \/ Good(orders'[i])
  BY <1>1, NextPayments DEF ConfirmedMeansPaid, Rows
<1>3. ASSUME NEW i \in Ids, NEW ref, NEW s, NEW by, Insert(i, ref, s, by), s # "confirmed" \/ by = "order"
      PROVE  \A j \in Ids : orders'[j] = orders[j] \/ Good(orders'[j])
  BY <1>3 DEF Insert, TypeOK
<1>4. ASSUME NEW r \in Requests, Handle(r)
      PROVE  \A i \in Ids : orders'[i] = orders[i] \/ Good(orders'[i])
  <2>1. CASE Confirm(r)
    <3>1. req[r].ref \in paid
      BY <2>1 DEF Confirm, WebhooksPaid
    <3>. DEFINE written(i) == [orders[i] EXCEPT !.status = "confirmed", !.by = "webhook"]
    <3>2. ASSUME NEW i \in WithRef(req[r].ref)
          PROVE  written(i).ref = req[r].ref
      <4>1. orders[i] \in Row /\ orders[i].ref = req[r].ref
        BY DEF WithRef, Rows, TypeOK
      <4>. QED
        BY <4>1 DEF Row
    <3>3. \A i \in Ids : orders'[i] = orders[i] \/ (i \in WithRef(req[r].ref) /\ orders'[i] = written(i))
      BY <2>1 DEF Confirm
    <3>4. \A i \in WithRef(req[r].ref) : written(i).ref \in paid
      BY <3>1, <3>2
    <3>. HIDE DEF written
    <3>. QED
      BY <3>3, <3>4
  <2>2. CASE InsertOrder(r) \/ InsertBare(r)
    <3>1. req[r].id \in Ids
      BY <2>2, RequestParts DEF InsertOrder, InsertBare, Inserts
    <3>2. orders' = orders \/ \E ref : Insert(req[r].id, ref, "confirmed", "order")
      BY <2>2 DEF InsertOrder, InsertBare
    <3>. QED
      BY <3>1, <3>2, <1>3
  <2>3. CASE orders' = orders
    BY <2>3
  <2>. QED
    BY <1>4, <2>1, <2>2, <2>3 DEF Handle, Issue, ConfirmFails, UpdateList
<1>5. ASSUME NEW r \in Requests, NEW i \in Ids, NEW ref \in Refs, Checkout(r, i, ref)
      PROVE  \A j \in Ids : orders'[j] = orders[j] \/ Good(orders'[j])
  BY <1>5, <1>3 DEF Checkout
<1>6. ASSUME NEW r \in Requests, NEW X \in Matches, NEW s \in Written, UpdateRows(r, X, s)
      PROVE  \A j \in Ids : orders'[j] = orders[j] \/ Good(orders'[j])
  <2>. DEFINE written(j) == [orders[j] EXCEPT !.status = s, !.by = "admin"]
  <2>2. \A j \in Ids : orders'[j] = orders[j] \/ (j \in Rows /\ orders'[j] = written(j))
    BY <1>6 DEF UpdateRows
  <2>3. ASSUME NEW j \in Rows
        PROVE  written(j).by = "admin"
    <3>1. orders[j] \in Row
      BY DEF Rows, TypeOK
    <3>. QED
      BY <3>1 DEF Row
  <2>. HIDE DEF written
  <2>. QED
    BY <2>2, <2>3
<1>7. CASE orders' = orders
  BY <1>7
<1>. QED
  BY <1>4, <1>5, <1>6, <1>7 DEF Next, vars, Order, Charge, Ignore, Lock, Restart

\* A checkout is confirmed only after its payment, if events are signed: the
\* only ones sent are those of charges (PAYSTACK_SECRET_KEY is set).
THEOREM PaidBeforeConfirmed == Spec => []ConfirmedMeansPaid
<1>1. PaidInv /\ [Next]_vars => PaidInv'
  BY NextType, WebhooksPaidStep, ConfirmedStep DEF PaidInv
<1>2. PaidInv => ConfirmedMeansPaid
  BY DEF PaidInv
<1>. QED
  BY PaidInvInit, <1>1, <1>2, PTL DEF Spec
-----------------------------------------------------------------------------
\* The invariant of the second theorem.
SettledPaid == settled \subseteq paid
AckInv == TypeOK /\ HeldFresh /\ LocksHold /\ WebhooksPaid /\ SettledPaid /\ PaidIsAcknowledged

LEMMA AckInvInit == Init => AckInv
BY InitType DEF Init, AckInv, HeldFresh, Holding, LocksHold, WebhooksPaid, SettledPaid,
                PaidIsAcknowledged, At, Quiet

\* A row is added by the statement of the request that holds its id.
LEMMA AddedRows ==
    ASSUME TypeOK, HeldFresh, [Next]_vars, NEW i \in Rows' \ Rows
    PROVE  \A q \in Requests : Holding(q) /\ Holding(q)' /\ req'[q] = req[q] => req[q].id # i
<1>. SUFFICES ASSUME NEW q \in Requests, Holding(q), Holding(q)', req'[q] = req[q], req[q].id = i
              PROVE  FALSE
  OBVIOUS
<1>. USE DEF store, paystack, history
<1>1. orders' # orders
  BY DEF Rows
<1>2. ASSUME NEW r \in Requests, NEW j \in Ids, NEW ref \in Refs, Checkout(r, j, ref)
      PROVE  FALSE
  <2>1. Insert(j, ref, "pending", "checkout") /\ req[q].id # j
    BY <1>1, <1>2 DEF Checkout, FreshId
  <2>. QED
    BY <2>1 DEF Insert, Rows, TypeOK
<1>3. ASSUME NEW r \in Requests, InsertOrder(r) \/ InsertBare(r)
      PROVE  FALSE
  <2>1. Done(r) /\ Holding(r) /\ \E ref : Insert(req[r].id, ref, "confirmed", "order")
    BY <1>1, <1>3 DEF InsertOrder, InsertBare, Holding
  <2>2. q # r
    BY <2>1, RequestChanges DEF Holding, At, Quiet
  <2>3. req[r].id # req[q].id
    BY <2>1, <2>2 DEF HeldFresh
  <2>. QED
    BY <2>1, <2>3 DEF Insert, Rows, TypeOK
<1>4. ASSUME NEW r \in Requests, Confirm(r)
      PROVE  FALSE
  BY <1>4 DEF Confirm, WithRef, Rows
<1>5. ASSUME NEW r \in Requests, NEW X \in Matches, NEW s \in Written, UpdateRows(r, X, s)
      PROVE  FALSE
  BY <1>1, <1>5 DEF UpdateRows, Rows
<1>. QED
  BY <1>1, <1>2, <1>3, <1>4, <1>5
     DEF Next, Handle, vars, Issue, ConfirmFails, UpdateList, Order, Charge, Ignore, Lock, Restart

LEMMA HeldFreshStep == TypeOK /\ HeldFresh /\ [Next]_vars => HeldFresh'
<1>. SUFFICES ASSUME TypeOK, HeldFresh, [Next]_vars, NEW r \in Requests, Holding(r)'
              PROVE  /\ req'[r].id \notin Rows'
                     /\ \A q \in Requests \ {r} : Holding(q)' => req'[q].id # req'[r].id
  BY DEF HeldFresh
<1>1. \A q \in Requests : RequestStep(q)
  BY NextRequests
<1>2. \A q \in Requests : (~Opens(q) /\ ~Leaves(q)) \/ ~Holding(q)'
  BY DEF Opens, Leaves, Holding, At
<1>3. \A q \in Requests : Holding(q)' => Takes(q) \/ (Holding(q) /\ req'[q].id = req[q].id)
  BY <1>1, <1>2 DEF RequestStep, Repeats, Holding, At
<1>4. req'[r].id \notin Rows'
  <2>1. CASE Takes(r)
    BY <2>1 DEF Takes, FreshId, Rows
  <2>2. CASE Repeats(r)
    BY <2>2 DEF Repeats, HeldFresh, Holding, Rows
  <2>3. CASE req'[r] = req[r]
    <3>1. Holding(r)
      BY <2>3 DEF Holding, At
    <3>. QED
      BY <2>3, <3>1, AddedRows DEF HeldFresh
  <2>. QED
    BY <1>1, <1>2, <2>1, <2>2, <2>3 DEF RequestStep
<1>5. ASSUME NEW q \in Requests \ {r}, Holding(q)'
      PROVE  req'[q].id # req'[r].id
  <2>1. CASE Takes(r)
    BY <2>1 DEF Takes, Alone, FreshId
  <2>2. CASE Takes(q)
    BY <2>2 DEF Takes, Alone, FreshId
  <2>3. CASE ~Takes(r) /\ ~Takes(q)
    BY <1>3, <1>5, <2>3 DEF HeldFresh
  <2>. QED
    BY <2>1, <2>2, <2>3
<1>. QED
  BY <1>4, <1>5

LEMMA LocksHoldStep == TypeOK /\ HeldFresh /\ LocksHold /\ [Next]_vars => LocksHold'
<1>. SUFFICES ASSUME TypeOK, HeldFresh, LocksHold, [Next]_vars, NEW r \in Requests, At(r, "confirm")'
              PROVE  /\ \A i \in req'[r].ids : i \in Rows' /\ orders'[i].ref = req'[r].ref
                     /\ req'[r].ids = {} => req'[r].status = "none"
                     /\ req'[r].ids # {} => \E i \in req'[r].ids : orders'[i].status = req'[r].status
  BY DEF LocksHold, WithRef
<1>1. CASE Opens(r)
  BY <1>1 DEF Opens, WithRef, Rows
<1>2. CASE req'[r] = req[r]
  <2>1. At(r, "confirm")
    BY <1>2 DEF At
  <2>2. \A i \in req[r].ids : i \in Rows /\ orders[i].ref = req[r].ref /\ Locked(i)
    BY <1>2, <2>1 DEF LocksHold, WithRef, Locked
  <2>3. \A i \in req[r].ids : i \in Rows' /\ orders'[i] = orders[i]
    BY <2>2, NextRows DEF RowSteps, Kept
  <2>. QED
    BY <1>2, <2>1, <2>2, <2>3 DEF LocksHold, WithRef
<1>. QED
  BY <1>1, <1>2, NextRequests DEF RequestStep, Leaves, Takes, Repeats, At

LEMMA AcknowledgedStep == AckInv /\ [Next]_vars => SettledPaid' /\ PaidIsAcknowledged'
<1>. SUFFICES ASSUME AckInv, [Next]_vars
              PROVE  SettledPaid' /\ PaidIsAcknowledged'
  OBVIOUS
<1>. USE DEF AckInv
<1>1. SettledPaid'
  <2>1. \A r \in Requests : Confirm(r) => req[r].ref \in paid
    BY DEF Confirm, WebhooksPaid
  <2>2. paid \subseteq paid' /\ settled \subseteq paid
    BY NextPayments DEF SettledPaid
  <2>3. settled' \subseteq paid
    BY <2>1, <2>2, NextPayments
  <2>. QED
    BY <2>2, <2>3 DEF SettledPaid
<1>2. RowSteps
  BY NextRows
<1>. DEFINE acknowledged(i) == orders[i].status # "pending" \/ orders[i].by = "admin"
<1>3. ASSUME NEW ref, NEW i \in WithRef(ref), acknowledged(i)
      PROVE  i \in WithRef(ref)' /\ acknowledged(i)'
  BY <1>2, <1>3 DEF RowSteps, Kept, WithRef
<1>4. ASSUME NEW ref \in settled, WithRef(ref)' # {}
      PROVE  \E i \in WithRef(ref)' : acknowledged(i)'
  <2>1. CASE WithRef(ref) # {}
    BY <1>3, <2>1 DEF PaidIsAcknowledged
  <2>2. CASE WithRef(ref) = {}
    <3>1. PICK i \in WithRef(ref)' : TRUE
      BY <1>4
    <3>2. i \in Rows' \ Rows /\ orders'[i].ref = ref
      BY <1>2, <2>2, <3>1 DEF WithRef, RowSteps, Kept
    <3>3. ref \in issued
      BY DEF SettledPaid, TypeOK
    <3>. QED
      BY <1>2, <3>1, <3>2, <3>3 DEF RowSteps, Added
  <2>. QED
    BY <2>1, <2>2
<1>5. ASSUME NEW r \in Requests, Confirm(r), NEW ref, ref = req[r].ref, WithRef(ref)' # {}
      PROVE  \E i \in WithRef(ref)' : acknowledged(i)'
  <2>1. CASE ~Open(req[r].status)
    <3>1. PICK i \in WithRef(ref) : ~Open(orders[i].status)
      BY <1>5, <2>1 DEF LocksHold, Confirm, Open
    <3>. QED
      BY <1>3, <3>1 DEF Open
  <2>2. CASE Open(req[r].status)
    <3>1. \A i \in Ids : i \notin WithRef(ref) => orders'[i] = orders[i]
      BY <1>5, <2>2 DEF Confirm
    <3>2. PICK i \in WithRef(ref) : TRUE
      BY <1>5, <3>1 DEF WithRef, Rows
    <3>3. i \in Ids /\ i \in Rows /\ orders[i] \in Row /\ orders[i].ref = ref
      BY <3>2 DEF WithRef, Rows, TypeOK
    <3>4. orders'[i] = [orders[i] EXCEPT !.status = "confirmed", !.by = "webhook"]
      BY <1>5, <2>2, <3>2, <3>3, Zenon DEF Confirm
    <3>5. orders'[i].status = "confirmed"
      BY <3>3, <3>4 DEF Row
    <3>6. i \in WithRef(ref)'
      BY <1>2, <3>3 DEF RowSteps, Kept, WithRef
    <3>. QED
      BY <3>5, <3>6
  <2>. QED
    BY <2>1, <2>2
<1>6. PaidIsAcknowledged'
  BY <1>4, <1>5, NextPayments DEF PaidIsAcknowledged
<1>. QED
  BY <1>1, <1>6

\* When a webhook has committed, its reference has an order that is not pending.
THEOREM PaymentsAcknowledged == Spec => []PaidIsAcknowledged
<1>1. AckInv /\ [Next]_vars => AckInv'
  BY NextType, HeldFreshStep, LocksHoldStep, WebhooksPaidStep, AcknowledgedStep DEF AckInv
<1>2. AckInv => PaidIsAcknowledged
  BY DEF AckInv
<1>. QED
  BY AckInvInit, <1>1, <1>2, PTL DEF Spec
-----------------------------------------------------------------------------
\* The invariant of the third theorem: rows of one reference are locked by one
\* transaction at a time, and no other transaction can lock a row that comes
\* later.
NoWaitInv == TypeOK /\ HeldFresh /\ LocksHold /\ HoldersNeverWait

LEMMA NoWaitStep == NoWaitInv /\ [Next]_vars => HoldersNeverWait'
<1>. SUFFICES ASSUME NoWaitInv, [Next]_vars,
                     NEW r \in Requests, At(r, "confirm")', req'[r].ids # {},
                     NEW q \in Requests \ {r}, At(q, "confirm")',
                     NEW i \in req'[q].ids \cap WithRef(req[r].ref)'
              PROVE  FALSE
  BY DEF HoldersNeverWait, Unlocked
<1>. USE DEF NoWaitInv
<1>1. \A p \in Requests : At(p, "confirm")' => req'[p] = req[p] \/ Opens(p)
  BY NextRequests DEF RequestStep, Leaves, Takes, Repeats, At
<1>2. req'[q].ref = req'[r].ref
  BY LocksHoldStep DEF LocksHold, WithRef
<1>3. CASE Opens(r)
  <2>1. req'[q] = req[q] /\ At(q, "confirm") /\ UNCHANGED orders
    BY <1>3 DEF Opens, Alone, At
  <2>. QED
    BY <1>3, <2>1 DEF Opens, Unlocked, WithRef, Rows
<1>4. CASE Opens(q)
  <2>1. req'[r] = req[r] /\ At(r, "confirm")
    BY <1>4 DEF Opens, Alone, At
  <2>2. req[r].ids \cap WithRef(req'[q].ref) = {}
    BY <1>4, <2>1 DEF Opens, Unlocked
  <2>3. req[r].ids \subseteq WithRef(req[r].ref)
    BY <2>1 DEF LocksHold
  <2>. QED
    BY <1>2, <2>1, <2>2, <2>3
<1>5. CASE req'[r] = req[r] /\ req'[q] = req[q]
  <2>1. At(r, "confirm") /\ At(q, "confirm")
    BY <1>5 DEF At
  <2>2. i \in WithRef(req[r].ref)
    BY <1>2, <1>5, <2>1 DEF LocksHold
  <2>. QED
    BY <1>5, <2>1, <2>2 DEF HoldersNeverWait, Unlocked
<1>. QED
  BY <1>1, <1>3, <1>4, <1>5

\* A webhook that already holds locks never waits for another one.
THEOREM HoldersGoOn == Spec => []HoldersNeverWait
<1>1. Init => NoWaitInv
  BY InitType DEF Init, NoWaitInv, HeldFresh, Holding, LocksHold, HoldersNeverWait, At, Quiet
<1>2. NoWaitInv /\ [Next]_vars => NoWaitInv'
  BY NextType, HeldFreshStep, LocksHoldStep, NoWaitStep DEF NoWaitInv
<1>3. NoWaitInv => HoldersNeverWait
  BY DEF NoWaitInv
<1>. QED
  BY <1>1, <1>2, <1>3, PTL DEF Spec
-----------------------------------------------------------------------------
(* That Orders implements Ledger.  The rows as the ledger sees them.         *)

Shelf == [i \in Ids |-> ToOrder(orders[i])]
BookVars == <<db, Shelf, issued, paid, outbox, settled, dropped>>

\* What is about to be inserted carries a reference that customers know, or
\* none, and only a database has statements and transactions.
Known ==
    \A r \in Requests :
        /\ Holding(r) => req[r].ref \in issued \cup {Blank}
        /\ Holding(r) \/ At(r, "confirm") => db
BookInv == TypeOK /\ HeldFresh /\ LocksHold /\ WebhooksPaid /\ Known

LEMMA KnownStep == TypeOK /\ Known /\ [Next]_vars => Known' /\ db' = db
<1>1. [Next]_vars => db' = db
  BY DEF Next, Handle, vars, store, Checkout, Order, Issue, InsertOrder, InsertBare, Charge, Ignore,
         Lock, Confirm, ConfirmFails, UpdateRows, UpdateList, Restart
<1>. QED
  BY <1>1, NextRequests, NextPayments
     DEF Known, Holding, At, RequestStep, Leaves, Takes, Repeats, Opens

LEMMA ToOrderRow ==
    ASSUME NEW row \in Row
    PROVE  /\ ToOrder(row) = [ref |-> row.ref, state |-> State(row.status)]
           /\ ToOrder(row).ref = row.ref
           /\ ToOrder(row).state = State(row.status)
           /\ ToOrder(row) # None
<1>1. row # None /\ row.ref \in Refs \cup {Blank} /\ State(row.status) \in {"open", "closed"}
  BY DEF Row, State
<1>2. ToOrder(row) = [ref |-> row.ref, state |-> State(row.status)]
  BY <1>1 DEF ToOrder
<1>. QED
  BY <1>1, <1>2

LEMMA ShelfRows ==
    ASSUME TypeOK
    PROVE  /\ \A i \in Rows : Shelf[i] = ToOrder(orders[i]) /\ orders[i] \in Row
           /\ \A i \in Ids \ Rows : Shelf[i] = None
           /\ Books!Orders = Rows
           /\ \A ref : Books!OrdersOf(ref) = WithRef(ref)
<1>1. \A i \in Rows : i \in Ids /\ orders[i] \in Row /\ Shelf[i] = ToOrder(orders[i])
  BY DEF TypeOK, Rows, Shelf
<1>2. \A i \in Ids \ Rows : Shelf[i] = None
  BY DEF Rows, Shelf, ToOrder
<1>3. \A i \in Rows : Shelf[i] # None /\ Shelf[i].ref = orders[i].ref
  BY <1>1, ToOrderRow
<1>4. Books!Orders = Rows
  BY <1>2, <1>3 DEF Books!Orders, Rows, Shelf
<1>5. \A ref : Books!OrdersOf(ref) = {i \in Books!Orders : Shelf[i].ref = ref}
  BY Zenon DEF Books!OrdersOf, Shelf
<1>6. \A ref : Books!OrdersOf(ref) = WithRef(ref)
  BY <1>3, <1>4, <1>5 DEF WithRef
<1>. QED
  BY <1>1, <1>2, <1>4, <1>6

\* What an INSERT and an UPDATE are for the ledger.
LEMMA ShelfPut ==
    ASSUME TypeOK, NEW i \in Ids \ Rows, NEW ref \in Refs \cup {Blank}, NEW s \in Statuses, NEW by \in Setters,
           Insert(i, ref, s, by), db, UNCHANGED <<db, issued, paid, outbox, settled, dropped>>
    PROVE  Books!Put(i, ref, State(s))
<1>. DEFINE row == [ref |-> ref, status |-> s, by |-> by]
<1>1. row \in Row /\ row.ref = ref /\ row.status = s
  BY DEF Row, Setters
<1>2. ToOrder(row) = [ref |-> ref, state |-> State(s)]
  BY <1>1, ToOrderRow
<1>3. orders \in [Ids -> Row \cup {None}] /\ orders' = [orders EXCEPT ![i] = row]
  BY DEF TypeOK, Insert
<1>. HIDE DEF row
<1>4. Shelf' = [Shelf EXCEPT ![i] = ToOrder(row)]
  BY <1>3 DEF Shelf
<1>5. i \notin Books!Orders
  BY ShelfRows
<1>. QED
  BY <1>2, <1>4, <1>5 DEF Books!Put, Shelf

LEMMA ShelfMark ==
    ASSUME TypeOK, NEW S \in SUBSET Rows, NEW s \in Statuses, NEW by \in Setters,
           orders' = [i \in Ids |-> IF i \in S THEN [orders[i] EXCEPT !.status = s, !.by = by] ELSE orders[i]]
    PROVE  Books!Mark(S, State(s))
<1>. DEFINE written(i) == [orders[i] EXCEPT !.status = s, !.by = by]
<1>1. ASSUME NEW i \in Rows
      PROVE  /\ i \in Ids /\ Shelf[i].ref = orders[i].ref
             /\ written(i) \in Row /\ written(i).ref = orders[i].ref /\ written(i).status = s
  <2>1. orders[i] \in Row /\ Shelf[i] = ToOrder(orders[i]) /\ i \in Ids
    BY ShelfRows DEF Rows
  <2>2. Shelf[i].ref = orders[i].ref
    BY <2>1, ToOrderRow
  <2>. QED
    BY <2>1, <2>2 DEF Row, Setters
<1>2. \A i \in Ids : orders'[i] = IF i \in S THEN written(i) ELSE orders[i]
  OBVIOUS
<1>. HIDE DEF written
<1>3. \A i \in S : ToOrder(orders'[i]) = [ref |-> Shelf[i].ref, state |-> State(s)]
  <2>. SUFFICES ASSUME NEW i \in S
                PROVE  ToOrder(orders'[i]) = [ref |-> Shelf[i].ref, state |-> State(s)]
    OBVIOUS
  <2>1. i \in Rows
    OBVIOUS
  <2>2. orders'[i] = written(i)
    BY <1>1, <1>2, <2>1
  <2>3. ToOrder(written(i)) = [ref |-> written(i).ref, state |-> State(written(i).status)]
    BY <1>1, <2>1, ToOrderRow
  <2>. QED
    BY <1>1, <2>1, <2>2, <2>3
<1>4. Shelf' = [i \in Ids |-> ToOrder(orders'[i])]
  BY DEF Shelf
<1>5. Shelf' = [i \in Ids |-> IF i \in S THEN [ref |-> Shelf[i].ref, state |-> State(s)] ELSE Shelf[i]]
  BY <1>2, <1>3, <1>4 DEF Shelf
<1>. QED
  BY <1>5 DEF Books!Mark, Shelf

\* The webhook: the row that it has read is still there, with the status it has
\* read; if it found none, all rows of the reference are newer, and closed or
\* still open.
LEMMA ConfirmSettles ==
    ASSUME BookInv, NEW r \in Requests, Confirm(r)
    PROVE  req[r].ref \in Refs /\ Books!Settle(req[r].ref)
<1>. DEFINE ref == req[r].ref
<1>. USE DEF BookInv
<1>1. At(r, "confirm") /\ ref \in Refs /\ ref \in paid /\ db
  BY RequestParts DEF Confirm, WebhooksPaid, Known, Webhooks
<1>2. \A i \in WithRef(ref) : i \in Rows /\ i \in Ids /\ Shelf[i].state = State(orders[i].status)
  BY ShelfRows, ToOrderRow DEF WithRef, Rows
<1>3. Books!OrdersOf(ref) = WithRef(ref)
  BY ShelfRows
<1>4. req[r].ids # {} => \E i \in WithRef(ref) : Shelf[i].state = State(req[r].status)
  BY <1>1, <1>2 DEF LocksHold
<1>5. \/ Books!Some(ref, "open") /\ Books!Mark(Books!OrdersOf(ref), "closed")
      \/ (Books!OrdersOf(ref) = {} \/ Books!Some(ref, "closed")) /\ Shelf' = Shelf
  <2>1. CASE ~Open(req[r].status)
    <3>1. req[r].ids # {}
      BY <1>1, <2>1 DEF LocksHold, Open
    <3>2. Books!Some(ref, "closed")
      BY <1>3, <1>4, <2>1, <3>1 DEF Books!Some, State, Shelf
    <3>3. orders' = orders
      BY <2>1 DEF Confirm, TypeOK
    <3>. QED
      BY <3>2, <3>3 DEF Shelf
  <2>2. CASE Open(req[r].status)
    <3>1. Books!Mark(WithRef(ref), "closed")
      <4>1. State("confirmed") = "closed"
        BY DEF State, Open
      <4>2. orders' = [i \in Ids |-> IF i \in WithRef(ref)
                        THEN [orders[i] EXCEPT !.status = "confirmed", !.by = "webhook"] ELSE orders[i]]
        BY <2>2 DEF Confirm
      <4>3. WithRef(ref) \in SUBSET Rows
        BY DEF WithRef
      <4>. QED
        BY <4>1, <4>2, <4>3, ShelfMark DEF Statuses, Setters
    <3>2. CASE \E i \in WithRef(ref) : Shelf[i].state = "open"
      BY <1>3, <3>1, <3>2 DEF Books!Some, Shelf
    <3>3. CASE \A i \in WithRef(ref) : Shelf[i].state # "open"
      <4>1. \A i \in WithRef(ref) : Shelf[i].state = "closed"
        BY <1>2, <3>3 DEF State
      <4>2. ASSUME NEW i \in WithRef(ref)
            PROVE  Shelf[i] = [ref |-> Shelf[i].ref, state |-> "closed"]
        <5>1. orders[i] \in Row /\ Shelf[i] = ToOrder(orders[i])
          BY <1>2, ShelfRows
        <5>2. ToOrder(orders[i]) = [ref |-> orders[i].ref, state |-> State(orders[i].status)]
          BY <5>1, ToOrderRow
        <5>3. State(orders[i].status) = "closed"
          BY <1>2, <4>1
        <5>. QED
          BY <5>1, <5>2, <5>3
      <4>3. Shelf' = [i \in Ids |-> IF i \in WithRef(ref) THEN [ref |-> Shelf[i].ref, state |-> "closed"] ELSE Shelf[i]]
        BY <3>1 DEF Books!Mark, Shelf
      <4>4. Shelf' = [i \in Ids |-> Shelf[i]]
        BY <4>2, <4>3
      <4>5. Shelf' = Shelf
        BY <4>4 DEF Shelf
      <4>. QED
        BY <1>3, <4>1, <4>5 DEF Books!Some, Shelf
    <3>. QED
      BY <3>2, <3>3
  <2>. QED
    BY <2>1, <2>2
<1>6. /\ settled' = settled \cup {ref} /\ outbox' = outbox \ {ref}
      /\ UNCHANGED <<db, issued, paid, dropped>>
  BY DEF Confirm, Answer
<1>. QED
  BY <1>1, <1>5, <1>6 DEF Books!Settle, Shelf

\* The other statements that the ledger sees.
LEMMA InsertsPut ==
    ASSUME BookInv, NEW r \in Requests, InsertOrder(r) \/ InsertBare(r), orders' # orders
    PROVE  \E i \in Ids, ref \in Refs \cup {Blank} : Books!Order(i, ref)
<1>. USE DEF BookInv
<1>1. Holding(r) /\ req[r] \in Inserts
  BY RequestParts DEF InsertOrder, InsertBare, Holding
<1>2. req[r].id \in Ids \ Rows /\ req[r].ref \in issued \cup {Blank} /\ db
  BY <1>1 DEF HeldFresh, Known, Inserts
<1>3. PICK ref \in issued \cup {Blank} : Insert(req[r].id, ref, "confirmed", "order")
  BY <1>2 DEF InsertOrder, InsertBare
<1>4. ref \in Refs \cup {Blank} /\ UNCHANGED <<db, issued, paid, outbox, settled, dropped>>
  BY <1>3 DEF TypeOK, InsertOrder, InsertBare, paystack, history
<1>5. Books!Put(req[r].id, ref, State("confirmed")) /\ State("confirmed") = "closed"
  BY <1>2, <1>3, <1>4, ShelfPut DEF Statuses, Setters, State, Open
<1>. QED
  BY <1>2, <1>3, <1>4, <1>5, Zenon DEF Books!Order

LEMMA CheckoutPuts ==
    ASSUME TypeOK, NEW r \in Requests, NEW i \in Ids, NEW ref \in Refs, Checkout(r, i, ref), orders' # orders
    PROVE  Books!Checkout(i, ref)
<1>1. /\ db /\ i \notin Rows /\ ref \notin issued /\ Insert(i, ref, "pending", "checkout")
      /\ UNCHANGED <<db, issued, paid, outbox, settled, dropped>>
  BY DEF Checkout, FreshId, FreshRef, paystack, history
<1>2. Books!Put(i, ref, State("pending")) /\ State("pending") = "open"
  BY <1>1, ShelfPut DEF Statuses, Setters, State, Open
<1>. QED
  BY <1>1, <1>2 DEF Books!Checkout

LEMMA UpdatesOverwrite ==
    ASSUME TypeOK, NEW r \in Requests, NEW S \in Matches, NEW s \in Written, UpdateRows(r, S, s), orders' # orders
    PROVE  Books!Overwrite(S \cap Rows, State(s))
<1>1. /\ db /\ UNCHANGED <<db, issued, paid, outbox, settled, dropped>>
      /\ orders' = [i \in Ids |-> IF i \in S \cap Rows THEN [orders[i] EXCEPT !.status = s, !.by = "admin"]
                                                         ELSE orders[i]]
  BY DEF UpdateRows, paystack, history
<1>2. s \in Statuses /\ S \cap Rows \in SUBSET Rows
  OBVIOUS
<1>3. Books!Mark(S \cap Rows, State(s))
  BY <1>1, <1>2, ShelfMark DEF Setters
<1>. QED
  BY <1>1, <1>3 DEF Books!Overwrite

\* Every step is a step of the ledger, or nothing that it sees.
LEMMA BookStep == BookInv /\ [Next]_vars => [Books!Next]_BookVars
<1>. SUFFICES ASSUME BookInv, [Next]_vars
              PROVE  Books!Next \/ UNCHANGED BookVars
  OBVIOUS
<1>. USE DEF BookInv, store, paystack, history
<1>. DEFINE Moves ==
       \/ \E ref \in Refs : Books!Issue(ref) \/ Books!Charge(ref) \/ Books!Settle(ref) \/ Books!Drop(ref)
       \/ \E i \in Ids : \/ \E ref \in Refs : Books!Checkout(i, ref)
                         \/ \E ref \in Refs \cup {Blank} : Books!Order(i, ref)
       \/ \E S \in SUBSET Books!Orders, state \in {"open", "closed"} : Books!Overwrite(S, state)
<1>1. Moves => Books!Next \/ UNCHANGED BookVars
  BY Zenon DEF Books!Next, Books!vars, BookVars, Shelf
<1>2. UNCHANGED <<db, orders, paystack, history>> => UNCHANGED BookVars
  BY DEF BookVars, Shelf
<1>3. ASSUME NEW r \in Requests, Handle(r)
      PROVE  Moves \/ UNCHANGED BookVars
  <2>1. CASE Issue(r)
    <3>1. req[r].ref \in Refs
      BY <2>1, RequestParts DEF Issue, Checkouts
    <3>2. Shelf' = Shelf
      BY <2>1 DEF Issue, Shelf
    <3>3. Books!Issue(req[r].ref)
      BY <2>1, <3>2 DEF Issue, Books!Issue, Shelf
    <3>. QED
      BY <3>1, <3>3
  <2>2. CASE InsertOrder(r) \/ InsertBare(r)
    <3>1. CASE orders' = orders
      BY <2>2, <3>1, <1>2 DEF InsertOrder, InsertBare
    <3>2. CASE orders' # orders
      BY <2>2, <3>2, InsertsPut
    <3>. QED
      BY <3>1, <3>2
  <2>3. CASE Confirm(r)
    BY <2>3, ConfirmSettles
  <2>4. CASE ConfirmFails(r)
    <3>1. req[r].ref \in Refs /\ req[r].ref \in paid
      BY <2>4, RequestParts DEF ConfirmFails, Webhooks, WebhooksPaid
    <3>2. Shelf' = Shelf
      BY <2>4 DEF ConfirmFails, Shelf
    <3>3. Books!Drop(req[r].ref)
      BY <2>4, <3>1, <3>2 DEF ConfirmFails, Answer, Unused, Books!Drop, Shelf
    <3>. QED
      BY <3>1, <3>3
  <2>5. CASE UpdateList(r)
    BY <2>5, <1>2 DEF UpdateList
  <2>. HIDE DEF Moves
  <2>. QED
    BY <1>3, <2>1, <2>2, <2>3, <2>4, <2>5, Zenon DEF Handle
<1>4. ASSUME NEW r \in Requests, NEW i \in Ids, NEW ref \in Refs, Checkout(r, i, ref)
      PROVE  Moves \/ UNCHANGED BookVars
  BY <1>4, <1>2, CheckoutPuts DEF Checkout
<1>5. ASSUME NEW ref \in Refs, Charge(ref)
      PROVE  Moves
  <2>1. Shelf' = Shelf
    BY <1>5 DEF Charge, Shelf
  <2>2. Books!Charge(ref)
    BY <1>5, <2>1 DEF Charge, Books!Charge, Shelf
  <2>. QED
    BY <2>2
<1>6. ASSUME NEW ref \in Refs, NEW event, Ignore(event, ref)
      PROVE  Moves \/ UNCHANGED BookVars
  <2>1. Shelf' = Shelf /\ orders' = orders
    BY <1>6 DEF Ignore, Shelf
  <2>2. CASE Counts(event)
    <3>1. Books!Drop(ref)
      BY <1>6, <2>1, <2>2 DEF Ignore, Sent, Counts, Answer, Unused, Books!Drop, Shelf
    <3>. QED
      BY <3>1
  <2>3. CASE ~Counts(event)
    BY <1>6, <2>3, <1>2 DEF Ignore, Counts, Answer
  <2>. QED
    BY <2>2, <2>3
<1>7. ASSUME NEW r \in Requests, NEW S \in Matches, NEW s \in Written, UpdateRows(r, S, s)
      PROVE  Moves \/ UNCHANGED BookVars
  <2>1. CASE orders' = orders
    BY <1>7, <2>1, <1>2 DEF UpdateRows
  <2>2. CASE orders' # orders
    <3>1. Books!Overwrite(S \cap Rows, State(s))
      BY <1>7, <2>2, UpdatesOverwrite
    <3>2. S \cap Rows \in SUBSET Books!Orders /\ State(s) \in {"open", "closed"}
      BY ShelfRows DEF State
    <3>. QED
      BY <3>1, <3>2
  <2>. QED
    BY <2>1, <2>2
<1>8. UNCHANGED <<db, orders, paystack, history>> => Moves \/ UNCHANGED BookVars
  BY <1>2
<1>. HIDE DEF Moves
<1>9. Next => Moves \/ UNCHANGED BookVars
  BY <1>3, <1>4, <1>5, <1>6, <1>7, <1>8, Zenon DEF Next, Order, Lock, Restart
<1>. QED
  BY <1>1, <1>2, <1>9 DEF vars

\* Orders implements Ledger: the transaction of a webhook is one step, although
\* checkouts, orders, updates and other webhooks come in between.
THEOREM OrdersKeepALedger == Spec => ImplementsLedger
<1>1. Init => Books!Init
  <2>1. Init => Shelf = [i \in Ids |-> None]
    BY DEF Init, Shelf, ToOrder
  <2>. QED
    BY <2>1 DEF Init, Books!Init, Shelf
<1>2. Init => BookInv
  BY InitType DEF Init, BookInv, HeldFresh, Holding, LocksHold, WebhooksPaid, Known, At, Quiet
<1>3. BookInv /\ [Next]_vars => BookInv'
  BY NextType, HeldFreshStep, LocksHoldStep, WebhooksPaidStep, KnownStep DEF BookInv
<1>. QED
  BY <1>1, <1>2, <1>3, BookStep, PTL DEF Spec, ImplementsLedger, Books!Spec, Books!vars, BookVars, Shelf

\* No charge is lost: as long as no webhook has settled it or was answered in
\* vain, Paystack has its event still to send, across all restarts and aborts.
THEOREM ChargesAreKept == Spec => []Books!NoChargeLost
<1>1. Books!Init => Books!NoChargeLost
  BY DEF Books!Init, Books!NoChargeLost
<1>2. Books!NoChargeLost /\ [Books!Next]_BookVars => Books!NoChargeLost'
  <2>. SUFFICES ASSUME Books!NoChargeLost, Books!Next \/ UNCHANGED BookVars
                PROVE  Books!NoChargeLost'
    OBVIOUS
  <2>. USE DEF Books!NoChargeLost
  <2>1. CASE UNCHANGED BookVars
    BY <2>1 DEF BookVars
  <2>2. ASSUME NEW ref \in Refs,
               Books!Issue(ref) \/ Books!Charge(ref) \/ Books!Settle(ref) \/ Books!Drop(ref)
        PROVE  Books!NoChargeLost'
    BY <2>2 DEF Books!Issue, Books!Charge, Books!Settle, Books!Drop
  <2>3. ASSUME NEW i, NEW ref, Books!Checkout(i, ref) \/ Books!Order(i, ref)
        PROVE  Books!NoChargeLost'
    BY <2>3 DEF Books!Checkout, Books!Order, Books!Put
  <2>4. ASSUME NEW S, NEW state, Books!Overwrite(S, state)
        PROVE  Books!NoChargeLost'
    BY <2>4 DEF Books!Overwrite
  <2>. QED
    BY <2>1, <2>2, <2>3, <2>4, Zenon DEF Books!Next
<1>. QED
  BY <1>1, <1>2, OrdersKeepALedger, PTL DEF ImplementsLedger, Books!Spec, Books!vars, BookVars, Shelf
=============================================================================
