--------------------------- MODULE BillingProofs ---------------------------
(***************************************************************************)
(* For any number of users and requests, and any length of the day and the *)
(* year: access lasts until the end that a cancellation has answered,      *)
(* expiry is noticed, and it is final.                                     *)
(***************************************************************************)
EXTENDS Billing, TLAPS

USE TimeAssumption, NoneAssumption, SharedAssumption

\* Days are negative from a day after the end on, and not before.
LEMMA DaysAreNegative ==
    ASSUME now \in Int, NEW end \in Int
    PROVE  DaysRemaining(end) < 0 <=> end + PerDay <= now
<1>1. ASSUME NEW x \in Nat, NEW p \in Nat \ {0}
      PROVE  x \div p \in Int /\ (x \div p >= 1 <=> x >= p)
  <2>. DEFINE d == x \div p
              m == x % p
  <2>1. d \in Int /\ m \in 0 .. p - 1 /\ x = p * d + m
    BY <1>1, Z3
  <2>2. ASSUME x \div p >= 1
        PROVE  x >= p
    BY <1>1, <2>1, <2>2
  <2>3. ASSUME x >= p, ~(x \div p >= 1)
        PROVE  FALSE
    BY <1>1, <2>1, <2>3
  <2>. QED
    BY <2>1, <2>2, <2>3
<1>2. CASE end >= now
  BY <1>1, <1>2 DEF DaysRemaining
<1>3. CASE end < now
  <2>1. now - end \in Nat
    BY <1>3
  <2>. QED
    BY <1>1, <1>3, <2>1 DEF DaysRemaining
<1>. QED
  BY <1>2, <1>3

LEMMA LookedAtTyped ==
    ASSUME NEW s \in Subscription
    PROVE  LookedAt(s) \in Subscription
BY DEF LookedAt, Subscription, Status

LEMMA LookedAtParts ==
    ASSUME now \in Int, NEW s \in Subscription
    PROVE  /\ LookedAt(s).end = s.end
           /\ LookedAt(s).status = "expired" <=> s.status = "expired" \/ s.end + PerDay <= now
BY DaysAreNegative DEF LookedAt, Subscription, Status

LEMMA NewParts ==
    ASSUME NEW t \in Int
    PROVE  /\ NewSubscription(t) \in Subscription
           /\ NewSubscription(t).end = t + Year
           /\ NewSubscription(t).status = "active"
BY DEF NewSubscription, Subscription, Status

Request == {Quiet} \cup Waiting \cup Activating \cup Encoding

LEMMA RequestParts ==
    ASSUME TypeOK, NEW r \in Requests
    PROVE  /\ At(r, "paystack") => req[r] \in Waiting
           /\ At(r, "activate") => req[r] \in Activating
           /\ At(r, "encode") => req[r] \in Encoding
<1>1. req[r] \in Request
  BY DEF TypeOK, Request
<1>. QED
  BY <1>1 DEF Request, At, Quiet, Waiting, Activating, Encoding

LEMMA AnsweringTyped ==
    ASSUME TypeOK, NEW op \in {"get", "cancel", "verify"}, NEW u \in Users,
           NEW sub \in Subscription \cup {Shared}, NEW status \in Status, NEW over \in BOOLEAN
    PROVE  Answering(op, u, sub, status, over) \in Encoding
BY DEF TypeOK, Answering, Encoding

LEMMA KeptTyped ==
    ASSUME TypeOK, NEW q \in Requests, NEW u \in Users
    PROVE  Kept(q, u) \in Request
<1>1. CASE At(q, "encode") /\ req[q].user = u /\ req[q].sub = Shared
  <2>1. req[q] \in Encoding /\ subs[u] \in Subscription
    BY <1>1, RequestParts DEF TypeOK
  <2>2. [req[q] EXCEPT !.sub = subs[u]] \in Encoding
    BY <2>1 DEF Encoding
  <2>. QED
    BY <1>1, <2>2 DEF Kept, Request
<1>2. CASE ~(At(q, "encode") /\ req[q].user = u /\ req[q].sub = Shared)
  BY <1>2 DEF Kept, TypeOK, Request
<1>. QED
  BY <1>1, <1>2

LEMMA HeldTyped ==
    ASSUME TypeOK, NEW r \in Requests, At(r, "encode")
    PROVE  Held(r) \in Subscription /\ req[r].user \in Users
<1>1. req[r] \in Encoding
  BY RequestParts
<1>. QED
  BY <1>1 DEF Held, TypeOK, Encoding

\* A step that gives one request a new record, and no object to nobody.
LEMMA TypeMoved ==
    ASSUME TypeOK, NEW r \in Requests, NEW x \in Request, req' = [req EXCEPT ![r] = x],
           UNCHANGED db, \A u \in Users : subs[u] # None => subs'[u] # None,
           x.pc = "encode" /\ x.sub = Shared => ~db /\ subs'[x.user] # None
    PROVE  /\ req' \in [Requests -> Request]
           /\ \A q \in Requests :
                 At(q, "encode")' /\ req'[q].sub = Shared => ~db' /\ subs'[req'[q].user] # None
<1>1. req' \in [Requests -> Request]
  BY DEF TypeOK, Request
<1>2. ASSUME NEW q \in Requests, At(q, "encode")', req'[q].sub = Shared
      PROVE  ~db' /\ subs'[req'[q].user] # None
  <2>1. CASE q = r
    BY <1>2, <2>1 DEF At, TypeOK
  <2>2. CASE q # r
    <3>1. req'[q] = req[q]
      BY <2>2 DEF TypeOK
    <3>2. req[q] \in Encoding /\ ~db /\ subs[req[q].user] # None
      BY <1>2, <3>1, RequestParts DEF At, TypeOK
    <3>. QED
      BY <3>1, <3>2 DEF Encoding
  <2>. QED
    BY <2>1, <2>2
<1>. QED
  BY <1>1, <1>2

LEMMA TypeStep ==
    ASSUME TypeOK, [Next]_vars
    PROVE  TypeOK'
<1>. USE DEF Request
<1>1. ASSUME NEW r \in Requests, NEW u \in Users, GetUserSubscription(r, u)
      PROVE  TypeOK'
  <2>. DEFINE sub == IF subs[u] = None THEN NewSubscription(now) ELSE LookedAt(subs[u])
              over == subs[u] # None /\ now >= subs[u].end + PerDay
  <2>1. NewSubscription(now) \in Subscription /\ NewSubscription(now) # None /\ "active" \in Status
    BY NewParts DEF TypeOK, Status
  <2>2. CASE db
    <3>. DEFINE x == Answering("get", u, NewSubscription(now), "active", FALSE)
    <3>1. x \in Request /\ x.sub # Shared
      BY <2>1, AnsweringTyped DEF Answering
    <3>2. req' = [req EXCEPT ![r] = x] /\ UNCHANGED <<db, subs>>
      BY <1>1, <2>2 DEF GetUserSubscription
    <3>. HIDE DEF x
    <3>. QED
      BY <1>1, <3>1, <3>2, TypeMoved DEF TypeOK, GetUserSubscription
  <2>3. CASE ~db
    <3>1. sub \in Subscription
      BY <2>1, LookedAtTyped DEF TypeOK
    <3>. DEFINE x == Answering("get", u, Shared, sub.status, over)
    <3>2. x \in Request /\ x.user = u
      BY <3>1, AnsweringTyped DEF Answering, Subscription
    <3>3. req' = [req EXCEPT ![r] = x] /\ subs' = [subs EXCEPT ![u] = sub] /\ UNCHANGED db
      BY <1>1, <2>3 DEF GetUserSubscription
    <3>4. subs' \in [Users -> Subscription \cup {None}] /\ subs'[u] # None
          /\ \A v \in Users : subs[v] # None => subs'[v] # None
      BY <3>1, <3>3 DEF TypeOK
    <3>. HIDE DEF x, sub
    <3>. QED
      BY <1>1, <2>3, <3>2, <3>3, <3>4, TypeMoved DEF TypeOK, GetUserSubscription
  <2>. QED
    BY <2>2, <2>3
<1>2. ASSUME NEW r \in Requests, NEW u \in Users, CancelSubscription(r, u)
      PROVE  TypeOK'
  <2>. DEFINE x == Answering("cancel", u, Shared, subs[u].status, FALSE)
  <2>1. subs[u] \in Subscription
    BY <1>2 DEF CancelSubscription, TypeOK
  <2>2. x \in Request /\ x.user = u
    BY <2>1, AnsweringTyped DEF Answering, Subscription
  <2>3. [subs[u] EXCEPT !.auto = FALSE] \in Subscription
    BY <2>1 DEF Subscription
  <2>4. subs' = [subs EXCEPT ![u] = [subs[u] EXCEPT !.auto = FALSE]]
    BY <1>2 DEF CancelSubscription
  <2>5. subs' \in [Users -> Subscription \cup {None}] /\ subs'[u] # None
        /\ \A v \in Users : subs[v] # None => subs'[v] # None
    BY <2>3, <2>4 DEF TypeOK
  <2>. HIDE DEF x
  <2>6. req' = [req EXCEPT ![r] = x]
    BY <1>2 DEF CancelSubscription, x
  <2>. QED
    BY <1>2, <2>2, <2>5, <2>6, TypeMoved DEF TypeOK, CancelSubscription
<1>3. ASSUME NEW r \in Requests, NEW u \in Users, NEW f \in References, VerifySubscription(r, u, f)
      PROVE  TypeOK'
  <2>. DEFINE x == IF secret THEN [pc |-> "paystack", user |-> u, reference |-> f] ELSE Verified(u, f)
  <2>1. x \in Request /\ x.pc # "encode"
    BY DEF TypeOK, Verified, Waiting, Activating
  <2>. HIDE DEF x
  <2>2. req' = [req EXCEPT ![r] = x]
    BY <1>3 DEF VerifySubscription, x
  <2>. QED
    BY <1>3, <2>1, <2>2, TypeMoved DEF TypeOK, VerifySubscription
<1>4. ASSUME NEW r \in Requests, Refuse(r)
      PROVE  TypeOK'
  <2>1. Quiet \in Request /\ Quiet.pc # "encode"
    BY DEF Quiet
  <2>. QED
    BY <1>4, <2>1, TypeMoved DEF TypeOK, Refuse
<1>5. ASSUME NEW r \in Requests, Accept(r)
      PROVE  TypeOK'
  <2>. DEFINE x == Verified(req[r].user, req[r].reference)
  <2>1. req[r] \in Waiting
    BY <1>5, RequestParts DEF Accept
  <2>2. x \in Request /\ x.pc # "encode"
    BY <2>1 DEF TypeOK, Verified, Waiting, Activating
  <2>. HIDE DEF x
  <2>3. req' = [req EXCEPT ![r] = x]
    BY <1>5 DEF Accept, x
  <2>. QED
    BY <1>5, <2>2, <2>3, TypeMoved DEF TypeOK, Accept
<1>6. ASSUME NEW r \in Requests, Activate(r)
      PROVE  TypeOK'
  <2>. DEFINE u == req[r].user
              sub == NewSubscription(IF db THEN now ELSE req[r].at)
              x == Answering("verify", u, IF db THEN sub ELSE Shared, sub.status, FALSE)
  <2>1. req[r] \in Activating
    BY <1>6, RequestParts DEF Activate
  <2>2. u \in Users /\ sub \in Subscription /\ sub # None /\ sub # Shared
    BY <2>1, NewParts DEF Activating, TypeOK
  <2>3. x \in Request /\ x.user = u /\ (x.sub = Shared <=> ~db)
    BY <2>2, AnsweringTyped DEF Answering, Subscription, TypeOK
  <2>4. subs' \in [Users -> Subscription \cup {None}] /\ (~db => subs'[u] # None)
        /\ \A v \in Users : subs[v] # None => subs'[v] # None
    BY <1>6, <2>2 DEF Activate, TypeOK
  <2>5. \A q \in Requests : req'[q] = IF q = r THEN x ELSE Kept(q, u)
    BY <1>6 DEF Activate
  <2>6. req' \in [Requests -> Request]
    BY <1>6, <2>2, <2>3, KeptTyped DEF Activate
  <2>. HIDE DEF x, sub
  <2>7. ASSUME NEW q \in Requests, At(q, "encode")', req'[q].sub = Shared
        PROVE  ~db' /\ subs'[req'[q].user] # None
    <3>0. UNCHANGED db
      BY <1>6 DEF Activate
    <3>1. CASE q = r
      BY <2>3, <2>4, <2>5, <2>7, <3>0, <3>1
    <3>2. CASE q # r
      <4>1. req'[q] = Kept(q, u)
        BY <2>5, <3>2
      <4>2. ASSUME At(q, "encode"), req[q].user = u, req[q].sub = Shared
            PROVE  FALSE
        <5>1. req[q] \in Encoding /\ subs[u] \in Subscription
          BY <2>2, <4>2, RequestParts DEF TypeOK
        <5>2. Kept(q, u).sub = subs[u]
          BY <4>2, <5>1 DEF Kept, Encoding
        <5>. QED
          BY <2>7, <4>1, <5>1, <5>2
      <4>3. req'[q] = req[q]
        BY <4>1, <4>2 DEF Kept
      <4>4. req[q] \in Encoding /\ ~db /\ subs[req[q].user] # None
        BY <2>7, <4>3, RequestParts DEF At, TypeOK
      <4>. QED
        BY <2>4, <3>0, <4>3, <4>4 DEF Encoding
    <3>. QED
      BY <3>1, <3>2
  <2>8. lapsed' \subseteq Users
    BY <1>6 DEF Activate, TypeOK
  <2>. QED
    BY <1>6, <2>4, <2>6, <2>7, <2>8 DEF TypeOK, Activate
<1>7. ASSUME NEW r \in Requests, Encode(r)
      PROVE  TypeOK'
  <2>1. Quiet \in Request /\ Quiet.pc # "encode"
    BY DEF Quiet
  <2>2. Held(r) \in Subscription /\ req[r].user \in Users
    BY <1>7, HeldTyped DEF Encode
  <2>3. promised' \in [Users -> Int]
    <3>1. Later(promised[req[r].user], Held(r).end) \in Int
      BY <2>2 DEF Later, TypeOK, Subscription
    <3>2. \/ UNCHANGED promised
          \/ promised' = [promised EXCEPT ![req[r].user] = Later(promised[req[r].user], Held(r).end)]
      BY <1>7 DEF Encode
    <3>. QED
      BY <3>1, <3>2 DEF TypeOK
  <2>4. lapsed' \subseteq Users
    BY <1>7, <2>2 DEF Encode, TypeOK
  <2>. QED
    BY <1>7, <2>1, <2>3, <2>4, TypeMoved DEF TypeOK, Encode
<1>8. ASSUME NEW f \in References, InitializeSubscription(f) \/ Pay(f)
      PROVE  TypeOK'
  BY <1>8 DEF InitializeSubscription, Pay, TypeOK, At
<1>9. CASE Restart
  BY <1>9 DEF Restart, TypeOK, At, Quiet
<1>10. CASE Tick
  BY <1>10 DEF Tick, TypeOK, At
<1>11. CASE UNCHANGED vars
  BY <1>11 DEF vars, TypeOK, At
<1>. QED
  BY <1>1, <1>2, <1>3, <1>4, <1>5, <1>6, <1>7, <1>8, <1>9, <1>10, <1>11, Zenon DEF Next

THEOREM TypeCorrect == Spec => []TypeOK
<1>1. Init => TypeOK
  BY DEF Init, TypeOK, Quiet, At
<1>. QED
  BY <1>1, TypeStep, PTL DEF Spec
-----------------------------------------------------------------------------
(* A cancellation may answer the end of an object that a verification, which
   had taken its time before, replaces by one that ends earlier: but by less
   than the day that an object is active beyond its end. *)
SubInv(u) ==
    subs[u] # None =>
        /\ ~db
        /\ subs[u].status = "expired" => subs[u].end + PerDay <= now
        /\ subs[u].end <= now + Year
        /\ promised[u] < subs[u].end + PerDay

UserInv(u) ==
    /\ promised[u] <= now + Year
    /\ u \in lapsed => ~db /\ subs[u] # None /\ subs[u].status = "expired"

HeldInv(r) ==
    At(r, "encode") =>
        /\ Held(r).status = "expired" => Held(r).end + PerDay <= now
        /\ Held(r).end <= now + Year
        /\ req[r].since < Held(r).end + PerDay
        /\ subs[req[r].user] # None => Held(r).end < subs[req[r].user].end + PerDay
        /\ req[r].over \/ (req[r].late /\ req[r].op # "verify")
              => Held(r).status = "expired" /\ req[r].seen = "expired"

StallInv(r) == At(r, "activate") => req[r].at <= now /\ now < req[r].at + PerDay

BInv ==
    /\ TypeOK
    /\ \A u \in Users : SubInv(u) /\ UserInv(u)
    /\ \A r \in Requests : HeldInv(r) /\ StallInv(r)

\* What all steps but an activation and a restart do to an object.
ObjectKept(u) ==
    /\ subs[u] # None => /\ subs'[u] # None
                         /\ subs'[u].end = subs[u].end
                         /\ subs[u].status = "expired" => subs'[u].status = "expired"
                         /\ subs'[u].status = "expired" =>
                               subs[u].status = "expired" \/ subs[u].end + PerDay <= now
    /\ subs[u] = None /\ subs'[u] # None =>
          ~db /\ subs'[u].end = now + Year /\ subs'[u].status = "active"

LEMMA HeldStays ==
    ASSUME BInv, TypeOK', NEW r \in Requests, req'[r] = req[r], UNCHANGED db, now <= now',
           \A u \in Users : ObjectKept(u)
    PROVE  HeldInv(r)'
<1>1. SUFFICES ASSUME At(r, "encode")
               PROVE  HeldInv(r)'
  BY DEF HeldInv, At
<1>. DEFINE u == req[r].user
<1>2. req[r] \in Encoding /\ u \in Users /\ now \in Int /\ now' \in Int /\ req[r].since \in Int
  BY <1>1, RequestParts DEF BInv, TypeOK, Encoding
<1>3. HeldInv(r) /\ ObjectKept(u) /\ SubInv(u)
  BY <1>2 DEF BInv
<1>4. Held(r) \in Subscription /\ Held(r).end \in Int
  BY <1>1, HeldTyped DEF BInv, Subscription
<1>5. subs[u] # None => subs[u].end \in Int
  BY <1>2 DEF BInv, TypeOK, Subscription
<1>6. CASE req[r].sub = Shared
  <2>1. subs[u] # None /\ Held(r) = subs[u] /\ Held(r)' = subs'[u]
    BY <1>1, <1>6 DEF Held, BInv, TypeOK
  <2>. QED
    BY <1>1, <1>2, <1>3, <1>4, <1>5, <2>1 DEF HeldInv, ObjectKept
<1>7. CASE req[r].sub # Shared
  <2>1. Held(r)' = Held(r)
    BY <1>7 DEF Held
  <2>2. subs'[u] # None => Held(r).end < subs'[u].end + PerDay
    BY <1>1, <1>2, <1>3, <1>4, <1>5 DEF HeldInv, ObjectKept
  <2>. QED
    BY <1>1, <1>2, <1>3, <1>4, <2>1, <2>2 DEF HeldInv
<1>. QED
  BY <1>6, <1>7

LEMMA SubsStay ==
    ASSUME BInv, TypeOK', UNCHANGED <<db, promised, lapsed>>, now <= now', \A u \in Users : ObjectKept(u)
    PROVE  \A u \in Users : SubInv(u)' /\ UserInv(u)'
<1>. TAKE u \in Users
<1>1. SubInv(u) /\ UserInv(u) /\ ObjectKept(u)
  BY DEF BInv
<1>2. now \in Int /\ now' \in Int /\ promised[u] \in Int /\ (subs[u] # None => subs[u].end \in Int)
  BY DEF BInv, TypeOK, Subscription
<1>3. SubInv(u)'
  BY <1>1, <1>2 DEF SubInv, UserInv, ObjectKept
<1>4. UserInv(u)'
  BY <1>1, <1>2 DEF UserInv, ObjectKept
<1>. QED
  BY <1>3, <1>4

\* A request that now holds an object, or none; the others are as they were.
LEMMA OthersStay ==
    ASSUME BInv, TypeOK', UNCHANGED <<db, now, promised, lapsed>>, \A u \in Users : ObjectKept(u),
           NEW r \in Requests, NEW x, req' = [req EXCEPT ![r] = x],
           HeldInv(r)', StallInv(r)'
    PROVE  BInv'
<1>1. now \in Int
  BY DEF BInv, TypeOK
<1>2. ASSUME NEW q \in Requests, q # r
      PROVE  HeldInv(q)' /\ StallInv(q)'
  <2>1. req'[q] = req[q]
    BY <1>2 DEF BInv, TypeOK
  <2>2. StallInv(q)
    BY DEF BInv
  <2>. QED
    BY <1>1, <2>1, <2>2, HeldStays DEF StallInv, At
<1>. QED
  BY <1>1, <1>2, SubsStay DEF BInv

\* A request that has just looked up the object of u in the map.
LEMMA LookedUp ==
    ASSUME BInv, TypeOK', UNCHANGED <<db, now, promised, lapsed>>, \A v \in Users : ObjectKept(v),
           NEW r \in Requests, NEW u \in Users, NEW x, req' = [req EXCEPT ![r] = x],
           subs'[u] # None, x.pc = "encode", x.user = u, x.sub = Shared,
           x.seen = subs'[u].status, x.since = promised[u],
           x.over \/ x.late => subs'[u].status = "expired"
    PROVE  BInv'
<1>1. req'[r] = x
  BY DEF BInv, TypeOK
<1>2. Held(r)' = subs'[u]
  BY <1>1 DEF Held
<1>3. SubInv(u)' /\ UserInv(u)'
  <2>1. now <= now'
    BY DEF BInv, TypeOK
  <2>. QED
    BY <2>1, SubsStay
<1>4. subs'[u].end \in Int /\ promised[u] \in Int
  BY DEF TypeOK, BInv, Subscription
<1>5. HeldInv(r)'
  BY <1>1, <1>2, <1>3, <1>4 DEF HeldInv, SubInv, At
<1>6. StallInv(r)'
  BY <1>1 DEF StallInv, At
<1>. QED
  BY <1>5, <1>6, OthersStay

LEMMA GetStep ==
    ASSUME BInv, TypeOK', NEW r \in Requests, NEW u \in Users, GetUserSubscription(r, u)
    PROVE  BInv'
<1>1. now \in Int /\ promised[u] \in Int /\ SubInv(u) /\ UserInv(u)
  BY DEF BInv, TypeOK
<1>2. CASE db
  <2>. DEFINE sub == NewSubscription(now)
              x == Answering("get", u, sub, "active", FALSE)
  <2>1. sub.end = now + Year /\ sub.status = "active" /\ sub # Shared
    BY <1>1, NewParts
  <2>2. /\ x.pc = "encode" /\ x.op = "get" /\ x.user = u /\ x.sub = sub
        /\ x.since = promised[u] /\ x.late = (u \in lapsed) /\ x.over = FALSE
    BY DEF Answering
  <2>3. req' = [req EXCEPT ![r] = x] /\ UNCHANGED <<db, now, subs, promised, lapsed>>
    BY <1>2 DEF GetUserSubscription
  <2>. HIDE DEF x, sub
  <2>4. req'[r] = x
    BY <2>3 DEF BInv, TypeOK
  <2>5. Held(r)' = sub
    BY <2>1, <2>2, <2>4 DEF Held
  <2>6. \A v \in Users : ObjectKept(v)
    BY <2>3 DEF ObjectKept
  <2>7. HeldInv(r)'
    <3>1. subs[u] = None
      BY <1>2, <1>1 DEF SubInv
    <3>2. ~req'[r].late /\ ~req'[r].over
      BY <1>1, <1>2, <2>2, <2>4 DEF UserInv
    <3>3. subs'[req'[r].user] = None
      BY <2>2, <2>3, <2>4, <3>1
    <3>4. Held(r)'.status # "expired" /\ Held(r)'.end = now' + Year
      BY <2>1, <2>3, <2>5
    <3>5. req'[r].since < Held(r)'.end + PerDay
      BY <1>1, <2>2, <2>3, <2>4, <3>4 DEF UserInv
    <3>6. Held(r)'.end <= now' + Year
      BY <1>1, <2>3, <3>4
    <3>. QED
      BY <3>2, <3>3, <3>4, <3>5, <3>6 DEF HeldInv
  <2>8. StallInv(r)'
    BY <2>2, <2>4 DEF StallInv, At
  <2>. QED
    BY <2>3, <2>6, <2>7, <2>8, OthersStay
<1>3. CASE ~db
  <2>. DEFINE sub == IF subs[u] = None THEN NewSubscription(now) ELSE LookedAt(subs[u])
              over == subs[u] # None /\ now >= subs[u].end + PerDay
  <2>1. subs' = [subs EXCEPT ![u] = sub] /\ UNCHANGED <<db, now, promised, lapsed>>
        /\ req' = [req EXCEPT ![r] = Answering("get", u, Shared, sub.status, over)]
    BY <1>3 DEF GetUserSubscription
  <2>2. subs'[u] = sub /\ \A v \in Users \ {u} : subs'[v] = subs[v]
    BY <2>1 DEF BInv, TypeOK
  <2>3. CASE subs[u] = None
    <3>1. sub = NewSubscription(now)
      BY <2>3
    <3>2. sub # None /\ sub.end = now + Year /\ sub.status = "active"
      BY <3>1, <1>1, NewParts
    <3>3. u \notin lapsed /\ over \in BOOLEAN /\ ~over
      BY <1>1, <2>3 DEF UserInv
    <3>. HIDE DEF sub, over
    <3>4. \A v \in Users : ObjectKept(v)
      BY <1>3, <2>1, <2>2, <2>3, <3>2 DEF ObjectKept
    <3>. DEFINE x == Answering("get", u, Shared, sub.status, over)
    <3>5. /\ x.pc = "encode" /\ x.user = u /\ x.sub = Shared /\ x.seen = sub.status
          /\ x.since = promised[u] /\ (x.late <=> u \in lapsed) /\ (x.over <=> over)
      BY <3>3 DEF Answering
    <3>6. req' = [req EXCEPT ![r] = x]
      BY <2>1
    <3>. HIDE DEF x
    <3>7. subs'[u] # None /\ x.seen = subs'[u].status
      BY <2>2, <3>2, <3>5
    <3>8. x.over \/ x.late => subs'[u].status = "expired"
      BY <2>2, <3>2, <3>3, <3>5
    <3>. QED
      BY <2>1, <3>4, <3>5, <3>6, <3>7, <3>8, LookedUp
  <2>4. CASE subs[u] # None
    <3>1. sub = LookedAt(subs[u]) /\ subs[u] \in Subscription
      BY <2>4 DEF BInv, TypeOK
    <3>2. /\ sub # None /\ sub.end = subs[u].end
          /\ sub.status = "expired" <=> subs[u].status = "expired" \/ subs[u].end + PerDay <= now
      BY <3>1, <1>1, LookedAtParts, LookedAtTyped
    <3>3. over \in BOOLEAN /\ (over \/ u \in lapsed => sub.status = "expired")
      BY <1>1, <3>1, <3>2 DEF UserInv, Subscription
    <3>. HIDE DEF sub, over
    <3>4. \A v \in Users : ObjectKept(v)
      BY <2>2, <2>4, <3>2 DEF ObjectKept
    <3>. DEFINE x == Answering("get", u, Shared, sub.status, over)
    <3>5. /\ x.pc = "encode" /\ x.user = u /\ x.sub = Shared /\ x.seen = sub.status
          /\ x.since = promised[u] /\ (x.late <=> u \in lapsed) /\ (x.over <=> over)
      BY <3>3 DEF Answering
    <3>6. req' = [req EXCEPT ![r] = x]
      BY <2>1
    <3>. HIDE DEF x
    <3>7. subs'[u] # None /\ x.seen = subs'[u].status
      BY <2>2, <3>2, <3>5
    <3>8. x.over \/ x.late => subs'[u].status = "expired"
      BY <2>2, <3>2, <3>3, <3>5
    <3>. QED
      BY <2>1, <3>4, <3>5, <3>6, <3>7, <3>8, LookedUp
  <2>. QED
    BY <2>3, <2>4
<1>. QED
  BY <1>2, <1>3

LEMMA CancelStep ==
    ASSUME BInv, TypeOK', NEW r \in Requests, NEW u \in Users, CancelSubscription(r, u)
    PROVE  BInv'
<1>. DEFINE sub == [subs[u] EXCEPT !.auto = FALSE]
<1>1. subs[u] \in Subscription /\ subs[u] # None /\ UserInv(u)
  BY DEF CancelSubscription, BInv, TypeOK
<1>2. sub \in Subscription /\ sub.end = subs[u].end /\ sub.status = subs[u].status
  BY <1>1 DEF Subscription
<1>3. subs' = [subs EXCEPT ![u] = sub] /\ UNCHANGED <<db, now, promised, lapsed>>
      /\ req' = [req EXCEPT ![r] = Answering("cancel", u, Shared, subs[u].status, FALSE)]
  BY DEF CancelSubscription
<1>. HIDE DEF sub
<1>4. subs'[u] = sub /\ \A v \in Users \ {u} : subs'[v] = subs[v]
  BY <1>3 DEF BInv, TypeOK
<1>5. \A v \in Users : ObjectKept(v)
  BY <1>1, <1>2, <1>4 DEF ObjectKept
<1>6. u \in lapsed => subs[u].status = "expired"
  BY <1>1 DEF UserInv
<1>. DEFINE x == Answering("cancel", u, Shared, subs[u].status, FALSE)
<1>7. /\ x.pc = "encode" /\ x.user = u /\ x.sub = Shared /\ x.seen = subs[u].status
      /\ x.since = promised[u] /\ (x.late <=> u \in lapsed) /\ ~x.over
  BY DEF Answering
<1>8. req' = [req EXCEPT ![r] = x]
  BY <1>3
<1>. HIDE DEF x
<1>9. subs'[u] # None /\ x.seen = subs'[u].status
  BY <1>2, <1>4, <1>7
<1>10. x.over \/ x.late => subs'[u].status = "expired"
  BY <1>2, <1>4, <1>6, <1>7
<1>. QED
  BY <1>3, <1>5, <1>7, <1>8, <1>9, <1>10, LookedUp

\* A verification on its way holds no object.
LEMMA VerifyingStep ==
    ASSUME BInv, TypeOK', NEW r \in Requests,
           \/ \E u \in Users, f \in References : VerifySubscription(r, u, f)
           \/ Refuse(r)
           \/ Accept(r)
    PROVE  BInv'
<1>. DEFINE Goes(x) == /\ req' = [req EXCEPT ![r] = x]
                       /\ x.pc # "encode"
                       /\ x.pc = "activate" => x.at = now
<1>1. UNCHANGED <<db, now, subs, promised, lapsed>> /\ now \in Int
  BY DEF VerifySubscription, Refuse, Accept, BInv, TypeOK
<1>2. \E x : Goes(x)
  <2>1. ASSUME NEW u \in Users, NEW f \in References, VerifySubscription(r, u, f)
        PROVE  \E x : Goes(x)
    <3>. DEFINE y == IF secret THEN [pc |-> "paystack", user |-> u, reference |-> f] ELSE Verified(u, f)
    <3>1. Goes(y)
      BY <2>1 DEF VerifySubscription, Verified
    <3>. HIDE DEF y, Goes
    <3>. QED
      BY <3>1
  <2>2. ASSUME Refuse(r)
        PROVE  Goes(Quiet)
    BY <2>2 DEF Refuse, Quiet
  <2>3. ASSUME Accept(r)
        PROVE  Goes(Verified(req[r].user, req[r].reference))
    BY <2>3 DEF Accept, Verified
  <2>. HIDE DEF Goes
  <2>. QED
    BY <2>1, <2>2, <2>3
<1>3. PICK x : Goes(x)
  BY <1>2
<1>4. req'[r] = x
  BY <1>3 DEF BInv, TypeOK
<1>5. HeldInv(r)' /\ StallInv(r)'
  BY <1>1, <1>3, <1>4 DEF HeldInv, StallInv, At
<1>6. \A u \in Users : ObjectKept(u)
  BY <1>1 DEF ObjectKept
<1>. QED
  BY <1>1, <1>3, <1>5, <1>6, OthersStay

LEMMA EncodeStep ==
    ASSUME BInv, TypeOK', NEW r \in Requests, Encode(r)
    PROVE  BInv'
<1>. DEFINE u == req[r].user
            h == Held(r)
<1>1. h \in Subscription /\ u \in Users /\ At(r, "encode") /\ HeldInv(r) /\ h.end \in Int
  BY HeldTyped DEF Encode, BInv, Subscription
<1>2. UNCHANGED <<db, now, subs>> /\ req' = [req EXCEPT ![r] = Quiet]
  BY DEF Encode
<1>3. now \in Int /\ promised \in [Users -> Int] /\ subs' \in [Users -> Subscription \cup {None}]
  BY DEF BInv, TypeOK
<1>4. req'[r] = Quiet /\ \A q \in Requests \ {r} : req'[q] = req[q]
  BY <1>2 DEF BInv, TypeOK
<1>5. \A q \in Requests : HeldInv(q)' /\ StallInv(q)'
  <2>1. \A v \in Users : ObjectKept(v)
    BY <1>2 DEF ObjectKept
  <2>2. HeldInv(r)' /\ StallInv(r)'
    BY <1>4 DEF HeldInv, StallInv, At, Quiet
  <2>3. ASSUME NEW q \in Requests \ {r}
        PROVE  HeldInv(q)' /\ StallInv(q)'
    <3>1. req'[q] = req[q] /\ StallInv(q)
      BY <1>4 DEF BInv
    <3>. QED
      BY <1>2, <1>3, <2>1, <3>1, HeldStays DEF StallInv, At
  <2>. QED
    BY <2>2, <2>3
<1>6. ASSUME NEW v \in Users
      PROVE  SubInv(v)' /\ UserInv(v)'
  <2>1. SubInv(v) /\ UserInv(v) /\ (subs[v] # None => subs[v].end \in Int)
    BY DEF BInv, TypeOK, Subscription
  <2>2. promised'[v] = promised[v] \/ (v = u /\ promised'[v] = Later(promised[v], h.end))
    BY <1>1, <1>3 DEF Encode
  <2>3. promised'[v] = promised[v] \/ (v = u /\ promised'[v] = h.end)
    BY <2>2 DEF Later
  <2>4. h.end <= now + Year /\ (subs[u] # None => h.end < subs[u].end + PerDay)
    BY <1>1 DEF HeldInv
  <2>5. SubInv(v)'
    BY <1>2, <2>1, <2>3, <2>4 DEF SubInv
  <2>6. promised'[v] <= now' + Year
    BY <1>2, <2>1, <2>3, <2>4 DEF UserInv
  <2>7. v \in lapsed' => ~db /\ subs[v] # None /\ subs[v].status = "expired"
    <3>1. CASE v \in lapsed
      BY <2>1, <3>1 DEF UserInv
    <3>2. CASE v \notin lapsed /\ v \in lapsed'
      <4>1. v = u /\ "expired" \in Answers(r) /\ req[r].sub = Shared
        BY <3>2 DEF Encode
      <4>2. h.status = "expired" /\ h = subs[u]
        BY <4>1 DEF Answers, Held
      <4>. QED
        BY <1>1, <4>1, <4>2 DEF BInv, TypeOK
    <3>. QED
      BY <3>1, <3>2
  <2>. QED
    BY <1>2, <2>5, <2>6, <2>7 DEF UserInv
<1>. QED
  BY <1>5, <1>6 DEF BInv

LEMMA ActivateStep ==
    ASSUME BInv, TypeOK', NEW r \in Requests, Activate(r)
    PROVE  BInv'
<1>. DEFINE u == req[r].user
            t == IF db THEN now ELSE req[r].at
            sub == NewSubscription(t)
            x == Answering("verify", u, IF db THEN sub ELSE Shared, sub.status, FALSE)
<1>1. req[r] \in Activating /\ now \in Int /\ StallInv(r) /\ At(r, "activate")
  BY RequestParts DEF BInv, TypeOK, Activate
<1>2. u \in Users /\ t \in Int /\ t <= now /\ now < t + PerDay
  BY <1>1 DEF Activating, StallInv
<1>3. sub \in Subscription /\ sub.end = t + Year /\ sub.status = "active"
  BY <1>2, NewParts
<1>4. /\ x.pc = "encode" /\ x.op = "verify" /\ x.user = u /\ x.sub = (IF db THEN sub ELSE Shared)
      /\ x.since = promised[u] /\ x.over = FALSE
  BY DEF Answering
<1>5. /\ UNCHANGED <<db, now, promised>> /\ lapsed' = lapsed \ {u}
      /\ subs' = IF db THEN subs ELSE [subs EXCEPT ![u] = sub]
      /\ \A q \in Requests : req'[q] = IF q = r THEN x ELSE Kept(q, u)
  BY DEF Activate
<1>. HIDE DEF x, sub, t
<1>6. /\ \A v \in Users \ {u} : subs'[v] = subs[v]
      /\ db => subs' = subs
      /\ ~db => subs'[u] = sub
  BY <1>2, <1>5 DEF BInv, TypeOK
<1>7. \A v \in Users : SubInv(v) /\ UserInv(v) /\ promised[v] \in Int /\ (subs[v] # None => subs[v].end \in Int)
  BY DEF BInv, TypeOK, Subscription
<1>8. ASSUME NEW v \in Users
      PROVE  SubInv(v)' /\ UserInv(v)'
  <2>1. CASE v = u /\ ~db
    <3>1. SubInv(v)'
      BY <1>2, <1>3, <1>5, <1>6, <1>7, <2>1, <1>1 DEF SubInv, UserInv
    <3>2. UserInv(v)'
      BY <1>5, <1>7, <2>1 DEF UserInv
    <3>. QED
      BY <3>1, <3>2
  <2>2. CASE v # u \/ db
    <3>1. subs'[v] = subs[v]
      BY <1>6, <2>2
    <3>. QED
      BY <1>5, <1>7, <3>1 DEF SubInv, UserInv
  <2>. QED
    BY <2>1, <2>2
<1>9. HeldInv(r)' /\ StallInv(r)'
  <2>1. req'[r] = x
    BY <1>5
  <2>2. Held(r)' = sub
    <3>1. CASE db
      <4>1. sub # Shared
        BY <1>3
      <4>. QED
        BY <1>4, <2>1, <3>1, <4>1 DEF Held
    <3>2. CASE ~db
      BY <1>4, <1>6, <2>1, <3>2 DEF Held
    <3>. QED
      BY <3>1, <3>2
  <2>3. subs'[u] # None => sub.end < subs'[u].end + PerDay
    <3>1. CASE ~db
      BY <1>2, <1>3, <1>6, <3>1
    <3>2. CASE db
      <4>1. subs'[u] = None
        BY <3>2, <1>2, <1>6, <1>7 DEF SubInv
      <4>. QED
        BY <4>1
    <3>. QED
      BY <3>1, <3>2
  <2>4. HeldInv(r)'
    BY <1>1, <1>2, <1>3, <1>4, <1>5, <1>7, <2>1, <2>2, <2>3 DEF HeldInv, UserInv, At
  <2>. QED
    BY <1>4, <2>1, <2>4 DEF StallInv, At
<1>10. ASSUME NEW q \in Requests \ {r}
       PROVE  HeldInv(q)' /\ StallInv(q)'
  <2>. DEFINE w == req[q].user
  <2>1. req'[q] = Kept(q, u) /\ HeldInv(q) /\ StallInv(q)
    BY <1>5 DEF BInv
  <2>2. CASE ~At(q, "encode")
    <3>1. req'[q] = req[q]
      BY <2>1, <2>2 DEF Kept
    <3>. QED
      BY <1>5, <2>1, <2>2, <3>1 DEF HeldInv, StallInv, At
  <2>3. CASE At(q, "encode")
    <3>1. req[q] \in Encoding /\ Held(q) \in Subscription /\ w \in Users
      BY <2>3, RequestParts, HeldTyped DEF BInv
    <3>2. /\ req'[q].pc = "encode" /\ req'[q].user = w /\ req'[q].since = req[q].since
          /\ req'[q].over = req[q].over /\ req'[q].late = req[q].late /\ req'[q].op = req[q].op
          /\ req'[q].seen = req[q].seen
      BY <2>1, <2>3, <3>1 DEF Kept, Encoding, At
    <3>3. Held(q)' = Held(q)
      <4>1. CASE w = u /\ req[q].sub = Shared
        <5>1. subs[u] # None /\ subs[u] \in Subscription /\ subs[u] # Shared
          BY <2>3, <3>1, <4>1 DEF BInv, TypeOK
        <5>2. req'[q].sub = subs[u]
          BY <2>1, <2>3, <3>1, <4>1 DEF Kept, Encoding
        <5>. QED
          BY <4>1, <5>1, <5>2 DEF Held
      <4>2. CASE ~(w = u /\ req[q].sub = Shared)
        <5>1. req'[q] = req[q]
          BY <2>1, <4>2 DEF Kept
        <5>. QED
          BY <1>6, <3>1, <4>2, <5>1 DEF Held
      <4>. QED
        BY <4>1, <4>2
    <3>4. subs'[w] # None => Held(q).end < subs'[w].end + PerDay
      <4>1. CASE w = u /\ ~db
        <5>1. Held(q).end <= now + Year /\ Held(q).end \in Int
          BY <2>1, <2>3, <3>1 DEF HeldInv, Subscription
        <5>. QED
          BY <1>1, <1>2, <1>3, <1>6, <4>1, <5>1
      <4>2. CASE w # u \/ db
        BY <1>6, <2>1, <2>3, <3>1, <4>2 DEF HeldInv
      <4>. QED
        BY <4>1, <4>2
    <3>. QED
      BY <1>5, <2>1, <2>3, <3>2, <3>3, <3>4 DEF HeldInv, StallInv, At
  <2>. QED
    BY <2>2, <2>3
<1>. QED
  BY <1>8, <1>9, <1>10 DEF BInv

LEMMA BInvStep ==
    ASSUME BInv, [Next]_vars
    PROVE  BInv'
<1>1. TypeOK'
  BY TypeStep DEF BInv
<1>2. ASSUME NEW r \in Requests, NEW u \in Users,
             \/ GetUserSubscription(r, u)
             \/ CancelSubscription(r, u)
             \/ \E f \in References : VerifySubscription(r, u, f)
      PROVE  BInv'
  BY <1>1, <1>2, GetStep, CancelStep, VerifyingStep
<1>3. ASSUME NEW r \in Requests, Refuse(r) \/ Accept(r) \/ Activate(r) \/ Encode(r)
      PROVE  BInv'
  BY <1>1, <1>3, VerifyingStep, ActivateStep, EncodeStep
<1>4. ASSUME now <= now', UNCHANGED <<db, subs, req, promised, lapsed>>,
             \A r \in Requests : At(r, "activate") => now' < req[r].at + PerDay
      PROVE  BInv'
  <2>1. \A u \in Users : ObjectKept(u)
    BY <1>4 DEF ObjectKept
  <2>2. \A u \in Users : SubInv(u)' /\ UserInv(u)'
    BY <1>1, <1>4, <2>1, SubsStay
  <2>3. ASSUME NEW r \in Requests
        PROVE  HeldInv(r)' /\ StallInv(r)'
    <3>1. HeldInv(r)'
      BY <1>1, <1>4, <2>1, HeldStays
    <3>2. StallInv(r)'
      <4>1. ASSUME At(r, "activate")
            PROVE  req[r].at <= now' /\ now' < req[r].at + PerDay
        <5>1. req[r] \in Activating /\ req[r].at <= now /\ now \in Int /\ now' \in Int
          BY <1>1, <4>1, RequestParts DEF BInv, StallInv, TypeOK
        <5>. QED
          BY <1>4, <4>1, <5>1 DEF Activating
      <4>. QED
        BY <1>4, <4>1 DEF StallInv, At
    <3>. QED
      BY <3>1, <3>2
  <2>. QED
    BY <1>1, <2>2, <2>3 DEF BInv
<1>5. ASSUME NEW f \in References, InitializeSubscription(f) \/ Pay(f)
      PROVE  BInv'
  <2>1. UNCHANGED <<db, now, subs, req, promised, lapsed>> /\ now \in Int
    BY <1>5 DEF InitializeSubscription, Pay, BInv, TypeOK
  <2>2. \A r \in Requests : At(r, "activate") => now' < req[r].at + PerDay
    BY <2>1 DEF BInv, StallInv
  <2>. QED
    BY <1>4, <2>1, <2>2
<1>6. CASE Tick
  <2>1. UNCHANGED <<db, subs, req, promised, lapsed>> /\ now' = now + 1 /\ now \in Int
    BY <1>6 DEF Tick, BInv, TypeOK
  <2>2. \A r \in Requests : At(r, "activate") => now' < req[r].at + PerDay
    BY <1>6, <2>1 DEF Tick
  <2>. QED
    BY <1>4, <2>1, <2>2
<1>7. CASE Restart
  <2>1. /\ \A u \in Users : subs'[u] = None
        /\ \A r \in Requests : req'[r] = Quiet
        /\ lapsed' = {} /\ UNCHANGED <<db, now, promised>>
    BY <1>7 DEF Restart
  <2>2. \A u \in Users : SubInv(u)' /\ UserInv(u)'
    BY <2>1 DEF SubInv, UserInv, BInv
  <2>3. \A r \in Requests : HeldInv(r)' /\ StallInv(r)'
    BY <2>1 DEF HeldInv, StallInv, At, Quiet
  <2>. QED
    BY <1>1, <2>2, <2>3 DEF BInv
<1>8. CASE UNCHANGED vars
  <2>1. UNCHANGED <<db, now, subs, req, promised, lapsed>> /\ now \in Int
    BY <1>8 DEF vars, BInv, TypeOK
  <2>2. \A r \in Requests : At(r, "activate") => now' < req[r].at + PerDay
    BY <2>1 DEF BInv, StallInv
  <2>. QED
    BY <1>4, <2>1, <2>2
<1>. QED
  BY <1>2, <1>3, <1>5, <1>6, <1>7, <1>8, Zenon DEF Next

LEMMA BInvHolds == Spec => []BInv
<1>1. Init => BInv
  <2>1. ASSUME Init
        PROVE  TypeOK
    BY <2>1 DEF Init, TypeOK, Quiet, At
  <2>2. ASSUME Init
        PROVE  /\ \A u \in Users : SubInv(u) /\ UserInv(u)
               /\ \A r \in Requests : HeldInv(r) /\ StallInv(r)
    BY <2>2 DEF Init, SubInv, UserInv, HeldInv, StallInv, At, Quiet
  <2>. QED
    BY <2>1, <2>2 DEF BInv
<1>. QED
  BY <1>1, BInvStep, PTL DEF Spec

LEMMA AnswersHeld ==
    ASSUME BInv, NEW r \in Requests, At(r, "encode")
    PROVE  /\ "expired" \in Answers(r) => Held(r).status = "expired"
           /\ Held(r).status = "expired" /\ req[r].seen = "expired" => Answers(r) = {"expired"}
BY DEF Answers

\* Until the end that a cancellation has answered, no later request is
\* answered "expired".
THEOREM AccessIsKept == Spec => []AccessUntilEnd
<1>1. ASSUME BInv
      PROVE  AccessUntilEnd
  <2>1. ASSUME NEW r \in Requests, At(r, "encode"), "expired" \in Answers(r)
        PROVE  req[r].since <= now
    <3>1. Held(r).status = "expired" /\ HeldInv(r)
      BY <1>1, <2>1, AnswersHeld DEF BInv
    <3>2. Held(r) \in Subscription /\ req[r] \in Encoding /\ now \in Int
      BY <1>1, <2>1, HeldTyped, RequestParts DEF BInv, TypeOK
    <3>. QED
      BY <2>1, <3>1, <3>2 DEF HeldInv, Subscription, Encoding
  <2>. QED
    BY <2>1 DEF AccessUntilEnd
<1>. QED
  BY <1>1, BInvHolds, PTL

\* A lookup a day after the end is answered "expired".
THEOREM ExpiryIsNoticed == Spec => []ExpiryNoticed
<1>1. ASSUME BInv
      PROVE  ExpiryNoticed
  BY <1>1, AnswersHeld DEF ExpiryNoticed, BInv, HeldInv
<1>. QED
  BY <1>1, BInvHolds, PTL

\* What was answered to have expired stays so until it is verified again.
THEOREM LapsesAreFinal == Spec => []LapseIsFinal
<1>1. ASSUME BInv
      PROVE  LapseIsFinal
  <2>1. ASSUME NEW r \in Requests, At(r, "encode"), req[r].op # "verify", req[r].late
        PROVE  Answers(r) = {"expired"}
    BY <1>1, <2>1, AnswersHeld DEF BInv, HeldInv
  <2>2. ASSUME NEW u \in lapsed
        PROVE  Listed(u) = {"expired"}
    <3>1. u \in Users
      BY <1>1 DEF BInv, TypeOK
    <3>. QED
      BY <1>1, <3>1 DEF BInv, UserInv, Listed
  <2>. QED
    BY <2>1, <2>2 DEF LapseIsFinal
<1>. QED
  BY <1>1, BInvHolds, PTL
=============================================================================
