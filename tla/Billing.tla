------------------------------ MODULE Billing ------------------------------
(***************************************************************************)
(* internal/billing: the annual subscription of a user.  Without a         *)
(* database it is an object in a map, written under a mutex; a handler     *)
(* goes on with a pointer to it and encodes it after the unlock.  With     *)
(* one, all statements lack their parameters and fail, so that nothing is  *)
(* ever stored and every answer is made up on the spot.                    *)
(*                                                                         *)
(* Time is counted in ticks, PerDay of them to the day.  Plans, amounts    *)
(* and features are left out: nothing depends on them.                     *)
(***************************************************************************)
EXTENDS Integers

CONSTANTS
    Users,
    References,  \* of payments, issued by InitializeSubscription
    Requests,    \* HTTP requests in flight
    PerDay,      \* ticks in a day
    Year,        \* ticks in the year of AddDate(1, 0, 0)
    Horizon,     \* bound: the clock stops here
    None,
    Shared       \* held by a handler: the object that the map points to

ASSUME TimeAssumption ==
    PerDay \in Nat \ {0} /\ Year \in Nat \ {0} /\ Horizon \in Nat

Status == {"active", "expired"}
Subscription == [end : Int, status : Status, auto : BOOLEAN]
ASSUME NoneAssumption == None \notin Subscription
ASSUME SharedAssumption == Shared \notin Subscription

VARIABLES
    db,         \* the process was started with a database (main.go)
    secret,     \* PAYSTACK_SECRET_KEY is set
    now,
    subs,       \* the map subscriptions (only without a database)
    issued,     \* references that Paystack knows
    paid,       \* references that Paystack calls a success
    req,        \* requests: where they are, and what they hold
    promised,   \* history: the latest end that a cancellation has answered
    lapsed      \* history: users who were answered that theirs has expired

vars == <<db, secret, now, subs, issued, paid, req, promised, lapsed>>

Quiet == [pc |-> "idle"]
Idle(r) == req[r].pc = "idle"
At(r, pc) == req[r].pc = pc

Init ==
    /\ db \in BOOLEAN /\ secret \in BOOLEAN
    /\ now = 0
    /\ subs = [u \in Users |-> None]
    /\ issued = {} /\ paid = {}
    /\ req = [r \in Requests |-> Quiet]
    /\ promised = [u \in Users |-> 0]
    /\ lapsed = {}

\* A year from t on.
NewSubscription(t) == [end |-> t + Year, status |-> "active", auto |-> TRUE]

\* int(ExpiresAt.Sub(now).Hours() / 24): Go truncates toward zero.
DaysRemaining(end) ==
    IF end >= now THEN (end - now) \div PerDay ELSE -((now - end) \div PerDay)

\* (mutants) no day left is taken for expired; only the days are clamped
LookedAtEarly(sub) ==
    IF DaysRemaining(sub.end) <= 0 THEN [sub EXCEPT !.status = "expired"] ELSE sub
LookedAtForDays(sub) == sub

\* What a lookup makes of the object that it finds.
LookedAt(sub) ==
    IF DaysRemaining(sub.end) < 0 THEN [sub EXCEPT !.status = "expired"] ELSE sub

\* (mutant) the handler finds the object again in the map
AnsweringFromMap(op, u, sub, status, over) ==
    [pc |-> "encode", op |-> op, user |-> u, sub |-> Shared, seen |-> status,
     since |-> promised[u], late |-> u \in lapsed, over |-> over]

\* The handler holds sub: Shared, or a subscription of its own.  The rest of
\* the record is history: what the user knew when the object was looked up.
Answering(op, u, sub, status, over) ==
    [pc |-> "encode", op |-> op, user |-> u, sub |-> sub, seen |-> status,
     since |-> promised[u], late |-> u \in lapsed, over |-> over]
-----------------------------------------------------------------------------
\* (mutant) a subscription that has expired is provisioned again
GetUserSubscriptionAnew(r, u) ==
    /\ ~db /\ Idle(r)
    /\ LET sub == IF subs[u] = None THEN NewSubscription(now)
                  ELSE IF subs[u].status = "expired" THEN NewSubscription(now)
                  ELSE LookedAt(subs[u])
       IN /\ subs' = [subs EXCEPT ![u] = sub]
          /\ req' = [req EXCEPT ![r] = Answering("get", u, Shared, sub.status, FALSE)]
    /\ UNCHANGED <<db, secret, now, issued, paid, promised, lapsed>>

\* HandleGetSubscription: the object, or a new one, under the mutex.
GetUserSubscription(r, u) ==
    /\ Idle(r)
    /\ IF db
       THEN /\ req' = [req EXCEPT ![r] =
                          Answering("get", u, NewSubscription(now), "active", FALSE)]
            /\ UNCHANGED subs
       ELSE LET sub == IF subs[u] = None THEN NewSubscription(now) ELSE LookedAt(subs[u])
                over == subs[u] # None /\ now >= subs[u].end + PerDay
            IN /\ subs' = [subs EXCEPT ![u] = sub]
               /\ req' = [req EXCEPT ![r] = Answering("get", u, Shared, sub.status, over)]
    /\ UNCHANGED <<db, secret, now, issued, paid, promised, lapsed>>

\* HandleCancelSubscription: the object is answered as it is found.  With a
\* database the UPDATE fails and 500 is answered.
CancelSubscription(r, u) ==
    /\ ~db /\ Idle(r) /\ subs[u] # None
    /\ subs' = [subs EXCEPT ![u].auto = FALSE]
    /\ req' = [req EXCEPT ![r] = Answering("cancel", u, Shared, subs[u].status, FALSE)]
    /\ UNCHANGED <<db, secret, now, issued, paid, promised, lapsed>>

\* HandleSubscribe: a reference nobody had; only Paystack remembers it, and is
\* not told of it without its key.
InitializeSubscription(f) ==
    /\ secret /\ f \notin issued
    /\ issued' = issued \cup {f}
    /\ UNCHANGED <<db, secret, now, subs, paid, req, promised, lapsed>>

\* The user pays at Paystack.
Pay(f) ==
    /\ f \in issued \ paid
    /\ paid' = paid \cup {f}
    /\ UNCHANGED <<db, secret, now, subs, issued, req, promised, lapsed>>

\* HandleVerifySubscription, with any reference.  Without the key of Paystack
\* it is taken for paid.
Verified(u, f) == [pc |-> "activate", user |-> u, reference |-> f, at |-> now]
VerifySubscription(r, u, f) ==
    /\ Idle(r)
    /\ req' = [req EXCEPT ![r] = IF secret
                                 THEN [pc |-> "paystack", user |-> u, reference |-> f]
                                 ELSE Verified(u, f)]
    /\ UNCHANGED <<db, secret, now, subs, issued, paid, promised, lapsed>>

\* Paystack answers that the payment is not a success: 400.
Refuse(r) ==
    /\ At(r, "paystack") /\ req[r].reference \notin paid
    /\ req' = [req EXCEPT ![r] = Quiet]
    /\ UNCHANGED <<db, secret, now, subs, issued, paid, promised, lapsed>>

\* Paystack answers that it is, or the request or the decoding fails.  The
\* time is taken before the mutex.
Accept(r) ==
    /\ At(r, "paystack")
    /\ req' = [req EXCEPT ![r] = Verified(req[r].user, req[r].reference)]
    /\ UNCHANGED <<db, secret, now, subs, issued, paid, promised, lapsed>>

\* A new object takes the place of the one in the map; who still holds that
\* one goes on with it.
Kept(q, u) ==
    IF At(q, "encode") /\ req[q].user = u /\ req[q].sub = Shared
    THEN [req[q] EXCEPT !.sub = subs[u]]
    ELSE req[q]

\* With a database the statements fail and a lookup follows.
Activate(r) ==
    LET u == req[r].user
        sub == NewSubscription(IF db THEN now ELSE req[r].at)
    IN
    /\ At(r, "activate")
    /\ subs' = IF db THEN subs ELSE [subs EXCEPT ![u] = sub]
    /\ lapsed' = lapsed \ {u}
    /\ req' = [q \in Requests |->
                  IF q = r
                  THEN Answering("verify", u, IF db THEN sub ELSE Shared, sub.status, FALSE)
                  ELSE Kept(q, u)]
    /\ UNCHANGED <<db, secret, now, issued, paid, promised>>

\* writeJSON, after the unlock: the fields are read while others may write
\* them.  A status that changes in the meantime, two words, may come out torn.
Held(r) == IF req[r].sub = Shared THEN subs[req[r].user] ELSE req[r].sub
Answers(r) ==
    {Held(r).status} \cup (IF Held(r).status # req[r].seen THEN {"torn"} ELSE {})

Later(s, t) == IF s < t THEN t ELSE s
Encode(r) ==
    LET u == req[r].user IN
    /\ At(r, "encode")
    /\ \/ /\ "expired" \in Answers(r) /\ req[r].sub = Shared
          /\ lapsed' = lapsed \cup {u}
       \/ /\ Answers(r) # {"expired"} \/ req[r].sub # Shared
          /\ UNCHANGED lapsed
    /\ promised' = IF req[r].op = "cancel"
                   THEN [promised EXCEPT ![u] = Later(@, Held(r).end)] ELSE promised
    /\ req' = [req EXCEPT ![r] = Quiet]
    /\ UNCHANGED <<db, secret, now, subs, issued, paid>>

\* ListAdminSubscribers: the map with the statuses as they are, or, since the
\* table stays empty, every user as an active subscriber.
Listed(u) ==
    IF db THEN {"active"} ELSE IF subs[u] = None THEN {} ELSE {subs[u].status}
-----------------------------------------------------------------------------
\* The process stops and is started again.
Restart ==
    /\ subs' = [u \in Users |-> None]
    /\ req' = [r \in Requests |-> Quiet]
    /\ lapsed' = {}
    /\ UNCHANGED <<db, secret, now, issued, paid, promised>>

\* Nobody waits a day for the mutex.
Tick ==
    /\ now < Horizon
    /\ \A r \in Requests : At(r, "activate") => now + 1 < req[r].at + PerDay
    /\ now' = now + 1
    /\ UNCHANGED <<db, secret, subs, issued, paid, req, promised, lapsed>>

Next ==
    \/ \E r \in Requests :
          \/ \E u \in Users :
                \/ GetUserSubscription(r, u)
                \/ CancelSubscription(r, u)
                \/ \E f \in References : VerifySubscription(r, u, f)
          \/ Refuse(r) \/ Accept(r) \/ Activate(r) \/ Encode(r)
    \/ \E f \in References : InitializeSubscription(f) \/ Pay(f)
    \/ Restart
    \/ Tick

Spec == Init /\ [][Next]_vars
-----------------------------------------------------------------------------
Waiting == [pc : {"paystack"}, user : Users, reference : References]
Activating == [pc : {"activate"}, user : Users, reference : References, at : Int]
Encoding == [pc : {"encode"}, op : {"get", "cancel", "verify"}, user : Users,
             sub : Subscription \cup {Shared}, seen : Status,
             since : Int, late : BOOLEAN, over : BOOLEAN]

TypeOK ==
    /\ db \in BOOLEAN /\ secret \in BOOLEAN /\ now \in Int
    /\ subs \in [Users -> Subscription \cup {None}]
    /\ issued \subseteq References /\ paid \subseteq issued
    /\ req \in [Requests -> {Quiet} \cup Waiting \cup Activating \cup Encoding]
    /\ \A r \in Requests :
          At(r, "encode") /\ req[r].sub = Shared => ~db /\ subs[req[r].user] # None
    /\ promised \in [Users -> Int]
    /\ lapsed \subseteq Users

\* "You will continue to have access until the end of your billing cycle."
\* (HandleCancelSubscription): before the end that a cancellation has answered,
\* no request that comes after it is answered "expired", whatever is verified,
\* cancelled or restarted in between.
AccessUntilEnd ==
    \A r \in Requests :
        At(r, "encode") /\ "expired" \in Answers(r) => req[r].since <= now

\* A day after its end at the latest a subscription is looked up as expired.
ExpiryNoticed ==
    \A r \in Requests : At(r, "encode") /\ req[r].over => Answers(r) = {"expired"}

\* Once a user was told that the subscription has expired, it takes a
\* verification (or a restart) to make it active: neither a lookup, nor a
\* cancellation, nor the list of the administrator says so before.
LapseIsFinal ==
    /\ \A r \in Requests :
          At(r, "encode") /\ req[r].op # "verify" /\ req[r].late => Answers(r) = {"expired"}
    /\ \A u \in lapsed : Listed(u) = {"expired"}

\* "VerifySubscription verifies Paystack payment and activates annual
\* subscription": what is activated was paid.  A verification whose request to
\* Paystack fails is accepted.
ActivatedIsPaid ==
    [][\A r \in Requests : Activate(r) /\ secret => req[r].reference \in paid]_vars
=============================================================================
