------------------------------- MODULE Ledger -------------------------------
(***************************************************************************)
(* What the store promises of orders and payments, in one step per effect: *)
(* a webhook reads the orders of its reference and closes them in the same *)
(* instant, an order taken after a checkout is closed from the start, and  *)
(* a charge is owed until a webhook has settled or dropped it.  An order   *)
(* is closed if its status is confirmed or paid.  Nothing is said of       *)
(* requests, transactions, locks, the list in memory and restarts: those   *)
(* belong to Orders.                                                       *)
(***************************************************************************)
CONSTANTS Ids, Refs, None, Blank

VARIABLES
    durable,  \* there is a database
    rows,     \* the orders: reference, and whether open or closed
    issued,   \* references that customers know
    paid,     \* references that were charged
    owed,     \* charges whose webhook is still to be answered
    settled,  \* references whose webhook has taken effect
    dropped   \* references with a webhook that was answered without effect

vars == <<durable, rows, issued, paid, owed, settled, dropped>>

Init ==
    /\ durable \in BOOLEAN /\ rows = [i \in Ids |-> None]
    /\ issued = {} /\ paid = {} /\ owed = {} /\ settled = {} /\ dropped = {}

Orders == {i \in Ids : rows[i] # None}
OrdersOf(ref) == {i \in Orders : rows[i].ref = ref}
Put(i, ref, state) ==
    /\ durable /\ i \notin Orders
    /\ rows' = [rows EXCEPT ![i] = [ref |-> ref, state |-> state]]
    /\ UNCHANGED <<durable, issued, paid, owed, settled, dropped>>
Mark(S, state) ==
    rows' = [i \in Ids |-> IF i \in S THEN [ref |-> rows[i].ref, state |-> state] ELSE rows[i]]
Some(ref, state) == \E i \in OrdersOf(ref) : rows[i].state = state

\* A checkout is on record before anyone knows its reference.
Checkout(i, ref) == ref \notin issued /\ Put(i, ref, "open")
Issue(ref) ==
    /\ issued' = issued \cup {ref}
    /\ UNCHANGED <<durable, rows, paid, owed, settled, dropped>>
Order(i, ref) == ref \in issued \cup {Blank} /\ Put(i, ref, "closed")

Charge(ref) ==
    /\ ref \in issued \ paid
    /\ paid' = paid \cup {ref} /\ owed' = owed \cup {ref}
    /\ UNCHANGED <<durable, rows, issued, settled, dropped>>

\* One order of the reference decides for all, by what it is at this moment.
Settle(ref) ==
    /\ durable /\ ref \in paid
    /\ \/ Some(ref, "open") /\ Mark(OrdersOf(ref), "closed")
       \/ (OrdersOf(ref) = {} \/ Some(ref, "closed")) /\ UNCHANGED rows
    /\ settled' = settled \cup {ref} /\ owed' = owed \ {ref}
    /\ UNCHANGED <<durable, issued, paid, dropped>>

Drop(ref) ==
    /\ ref \in paid
    /\ dropped' = dropped \cup {ref} /\ owed' = owed \ {ref}
    /\ UNCHANGED <<durable, rows, issued, paid, settled>>

\* The administrator reopens or closes orders.
Overwrite(S, state) ==
    /\ durable /\ Mark(S, state)
    /\ UNCHANGED <<durable, issued, paid, owed, settled, dropped>>

Next ==
    /\ vars' # vars
    /\ \/ \E ref \in Refs : Issue(ref) \/ Charge(ref) \/ Settle(ref) \/ Drop(ref)
       \/ \E i \in Ids : \/ \E ref \in Refs : Checkout(i, ref)
                         \/ \E ref \in Refs \cup {Blank} : Order(i, ref)
       \/ \E S \in SUBSET Orders, state \in {"open", "closed"} : Overwrite(S, state)

Spec == Init /\ [][Next]_vars
-----------------------------------------------------------------------------
\* A charge is never lost: until a webhook has taken effect or was answered
\* without one, it is owed, whatever stops in between.
NoChargeLost == paid \subseteq owed \cup settled \cup dropped
=============================================================================
