------------------------- MODULE RateLimiterProofs -------------------------
(***************************************************************************)
(* For every set of clients and every configuration that meets the         *)
(* assumptions: the limiter is a token bucket, a window never admits more  *)
(* than burst plus refill, and Retry-After is honest.                      *)
(***************************************************************************)
EXTENDS RateLimiter, TLAPS

USE NumbersAssumption, BurstAdmitsOne, AgeCapIsLarge, NoVisitorIsNone

\* A NoVisitor is not a visitor: the two kinds of entry are told apart.
LEMMA NoVisitorNotVisitor == NoVisitor \notin Visitor
BY DEF Visitor

\* One more tick is one more Rate: refilling lazily is refilling each tick.
LEMMA OneMoreTick ==
    ASSUME NEW n \in Nat
    PROVE  /\ n * Rate \in Nat
           /\ (n + 1) * Rate = n * Rate + Rate
OBVIOUS

\* A longer time refills at least as much.
LEMMA RefillMonotone ==
    ASSUME NEW m \in Nat, NEW n \in Nat, m <= n
    PROVE  m * Rate <= n * Rate
OBVIOUS

\* Past the ttl a bucket is full, whatever it held: forgetting it loses nothing.
LEMMA OldIsFull ==
    ASSUME NEW v \in Visitor, v.sinceUpdate >= TTL
    PROVE  Refilled(v) = Burst
<1>1. TTL * Rate <= v.sinceUpdate * Rate
  BY RefillMonotone DEF Visitor
<1>2. v.sinceUpdate * Rate \in Nat
  BY OneMoreTick DEF Visitor
<1>3. v.tokens + v.sinceUpdate * Rate >= Burst
  BY <1>1, <1>2, ForgetsOnlyFull, OneMoreTick DEF Visitor
<1>. QED
  BY <1>2, <1>3 DEF Refilled, AtMost, Visitor

\* A refill stays within the bucket.
LEMMA RefilledType ==
    ASSUME NEW v \in Visitor
    PROVE  Refilled(v) \in 0..Burst
<1>1. v.sinceUpdate * Rate \in Nat
  BY OneMoreTick DEF Visitor
<1>. QED
  BY <1>1 DEF Refilled, AtMost, Visitor

LEMMA AvailableType ==
    ASSUME TypeOK, NEW c \in Clients
    PROVE  Available(c) \in 0..Burst
BY RefilledType DEF TypeOK, Available, Tracked
-----------------------------------------------------------------------------
\* Types: every step keeps the counters within their ranges.
LEMMA AfterAllowType ==
    ASSUME TypeOK, NEW c \in Clients
    PROVE  AfterAllow(c) \in Visitor
<1>1. Tracked(c) => Refilled(visitors[c]) \in 0..Burst
  BY RefilledType DEF TypeOK, Tracked
<1>. QED
  BY <1>1 DEF AfterAllow, Granted, Seen, Visitor

LEMMA OlderType ==
    ASSUME NEW v \in Visitor
    PROVE  /\ Older(v) \in Visitor
           /\ Older(v).tokens = v.tokens
           /\ Older(v).sinceUpdate = AtMost(AgeCap, v.sinceUpdate + 1)
           /\ Older(v).sinceSeen = AtMost(AgeCap, v.sinceSeen + 1)
<1>1. /\ AtMost(AgeCap, v.sinceUpdate + 1) \in 0..AgeCap
      /\ AtMost(AgeCap, v.sinceSeen + 1) \in 0..AgeCap
  BY DEF AtMost, Visitor
<1>. QED
  BY <1>1 DEF Older, Visitor

LEMMA NoAuditType == NoAudit \in Audit
BY DEF NoAudit, Audit

\* What the steps do to the observed window stays an observed window.
LEMMA AuditType ==
    ASSUME audit \in Audit
    PROVE  /\ [audit EXCEPT !.spent = @ + Cost] \in Audit
           /\ audit.left > 0 => [audit EXCEPT !.left = @ - 1, !.budget = @ + Rate] \in Audit
           /\ \A c \in Clients : [open |-> TRUE, who |-> c, left |-> AuditTicks,
                                  budget |-> Burst, spent |-> 0] \in Audit
<1>1. [audit EXCEPT !.spent = @ + Cost] \in Audit
  BY DEF Audit
<1>2. ASSUME audit.left > 0
      PROVE  [audit EXCEPT !.left = @ - 1, !.budget = @ + Rate] \in Audit
  <2>1. audit.left - 1 \in 0..AuditTicks /\ audit.budget + Rate \in Nat
    BY <1>2 DEF Audit
  <2>. QED
    BY <2>1 DEF Audit
<1>3. \A c \in Clients : [open |-> TRUE, who |-> c, left |-> AuditTicks,
                          budget |-> Burst, spent |-> 0] \in Audit
  BY DEF Audit
<1>. QED
  BY <1>1, <1>2, <1>3

LEMMA NextType == TypeOK /\ [Next]_vars => TypeOK'
<1> SUFFICES ASSUME TypeOK, [Next]_vars PROVE TypeOK'
  OBVIOUS
<1>1. ASSUME NEW c \in Clients, Admit(c) PROVE TypeOK'
  <2>1. visitors' \in [Clients -> Visitor \cup {NoVisitor}]
    BY <1>1, AfterAllowType DEF Admit, TypeOK
  <2>2. waiting' \in [Clients -> -1..RetryAfter]
    BY <1>1 DEF Admit, TypeOK
  <2>. QED
    BY <1>1, <2>1, <2>2, AuditType DEF Admit, TypeOK
<1>2. ASSUME NEW c \in Clients, Refuse(c) PROVE TypeOK'
  <2>1. visitors' \in [Clients -> Visitor \cup {NoVisitor}]
    BY <1>2, AfterAllowType DEF Refuse, TypeOK
  <2>2. waiting' \in [Clients -> -1..RetryAfter]
    BY <1>2 DEF Refuse, TypeOK
  <2>. QED
    BY <1>2, <2>1, <2>2 DEF Refuse, TypeOK
<1>3. ASSUME NEW c \in Clients, OpenAudit(c) PROVE TypeOK'
  BY <1>3, AuditType DEF OpenAudit, TypeOK, limiter
<1>4. CASE Sweep
  BY <1>4 DEF Sweep, TypeOK
<1>5. CASE Close
  BY <1>5 DEF Close, TypeOK
<1>6. CASE LoopExit
  BY <1>6 DEF LoopExit, TypeOK
<1>7. CASE Tick
  <2>1. visitors' \in [Clients -> Visitor \cup {NoVisitor}]
    BY <1>7, OlderType DEF Tick, TypeOK, Tracked
  <2>2. waiting' \in [Clients -> -1..RetryAfter]
    BY <1>7 DEF Tick, TypeOK, AtMost
  <2>3. clock' \in 0..(SweepEvery - 1)
    BY <1>7 DEF Tick, TypeOK
  <2>4. audit' \in Audit
    BY <1>7, AuditType, NoAuditType DEF Tick, TypeOK
  <2>. QED
    BY <1>7, <2>1, <2>2, <2>3, <2>4 DEF Tick, TypeOK
<1>8. CASE UNCHANGED vars
  BY <1>8 DEF TypeOK, vars, limiter
<1>. QED
  BY <1>1, <1>2, <1>3, <1>4, <1>5, <1>6, <1>7, <1>8 DEF Next

\* The counters of the limiter never leave their ranges: a bucket never holds
\* more than burst nor less than nothing.
THEOREM TypeCorrect == Spec => []TypeOK
<1>1. ASSUME Init PROVE TypeOK
  <2>1. visitors \in [Clients -> Visitor \cup {NoVisitor}]
    BY <1>1 DEF Init
  <2>2. clock \in 0..(SweepEvery - 1)
    BY <1>1 DEF Init
  <2>3. waiting \in [Clients -> -1..RetryAfter]
    BY <1>1 DEF Init
  <2>. QED
    BY <1>1, <2>1, <2>2, <2>3, NoAuditType DEF Init, TypeOK
<1>2. QED
  BY <1>1, NextType, PTL DEF Spec
-----------------------------------------------------------------------------
\* Both timestamps are set together and never apart, so a visitor the clean-up
\* finds idle has also been refilling all that time.
SameAge == \A c \in Clients :
    Tracked(c) => visitors[c].sinceUpdate = visitors[c].sinceSeen

LEMMA SameAgeInit == Init => SameAge
BY DEF Init, SameAge, Tracked

LEMMA NextSameAge == TypeOK /\ SameAge /\ [Next]_vars => SameAge'
<1> SUFFICES ASSUME TypeOK, SameAge, [Next]_vars, NEW d \in Clients, Tracked(d)'
             PROVE  visitors'[d].sinceUpdate = visitors'[d].sinceSeen
  BY DEF SameAge, Tracked
<1>0. visitors \in [Clients -> Visitor \cup {NoVisitor}]
  BY DEF TypeOK
<1>1. \A c \in Clients : AfterAllow(c).sinceUpdate = AfterAllow(c).sinceSeen
  BY DEF AfterAllow, Seen
<1>2. ASSUME NEW c \in Clients, Admit(c) \/ Refuse(c)
      PROVE  visitors'[d].sinceUpdate = visitors'[d].sinceSeen
  BY <1>0, <1>1, <1>2 DEF Admit, Refuse, SameAge, Tracked
<1>3. ASSUME NEW c \in Clients, OpenAudit(c)
      PROVE  visitors'[d].sinceUpdate = visitors'[d].sinceSeen
  BY <1>3 DEF OpenAudit, limiter, SameAge, Tracked
<1>4. CASE Sweep
  BY <1>0, <1>4 DEF Sweep, SameAge, Tracked
<1>5. CASE Close \/ LoopExit
  BY <1>5 DEF Close, LoopExit, SameAge, Tracked
<1>6. CASE Tick
  <2>1. Tracked(d) /\ visitors'[d] = Older(visitors[d])
    BY <1>0, <1>6 DEF Tick, Tracked
  <2>. QED
    BY <1>0, <2>1, OlderType DEF SameAge, Tracked
<1>7. CASE UNCHANGED vars
  BY <1>7 DEF vars, limiter, SameAge, Tracked
<1>. QED
  BY <1>2, <1>3, <1>4, <1>5, <1>6, <1>7 DEF Next

THEOREM AgesAgree == Spec => []SameAge
<1>1. SameAge /\ TypeOK /\ [Next]_vars => SameAge'
  BY NextSameAge
<1>2. QED
  BY <1>1, SameAgeInit, TypeCorrect, PTL DEF Spec
-----------------------------------------------------------------------------
\* What each step does to the credit of every client.
LEMMA TickCredit ==
    ASSUME TypeOK, Tick, NEW c \in Clients
    PROVE  Available(c)' = AtMost(Burst, Available(c) + Rate)
<1>0. visitors \in [Clients -> Visitor \cup {NoVisitor}]
  BY DEF TypeOK
<1>1. CASE ~Tracked(c)
  BY <1>0, <1>1 DEF Tick, Tracked, Available, AtMost
<1>2. CASE Tracked(c)
  <2>. DEFINE v == visitors[c]
  <2>1. v \in Visitor /\ visitors'[c] = Older(v)
    BY <1>0, <1>2 DEF Tick, Tracked
  <2>2. Older(v) \in Visitor /\ Available(c)' = Refilled(Older(v))
    BY <2>1, OlderType, NoVisitorNotVisitor DEF Available, Tracked
  <2>3. CASE v.sinceUpdate = AgeCap
    <3>1. Older(v).sinceUpdate = AgeCap
      BY <2>1, <2>3, OlderType DEF AtMost
    <3>2. Refilled(v) = Burst /\ Refilled(Older(v)) = Burst
      BY <2>1, <2>2, <2>3, <3>1, OldIsFull
    <3>. QED
      BY <1>2, <2>2, <3>2 DEF Available, AtMost
  <2>4. CASE v.sinceUpdate # AgeCap
    <3>1. /\ Older(v).sinceUpdate = v.sinceUpdate + 1
          /\ Older(v).tokens = v.tokens
      BY <2>1, <2>4, OlderType DEF AtMost, Visitor
    <3>2. /\ v.sinceUpdate * Rate \in Nat
          /\ Older(v).sinceUpdate * Rate = v.sinceUpdate * Rate + Rate
      BY <2>1, <3>1, OneMoreTick DEF Visitor
    <3>3. Refilled(Older(v)) = AtMost(Burst, Refilled(v) + Rate)
      <4>. HIDE DEF v
      <4>1. v.tokens \in Nat
        BY <2>1 DEF Visitor
      <4>. QED
        BY <3>1, <3>2, <4>1 DEF Refilled, AtMost
    <3>. QED
      BY <1>2, <2>2, <3>3 DEF Available
  <2>. QED
    BY <2>3, <2>4
<1>. QED
  BY <1>1, <1>2

LEMMA SweepCredit ==
    ASSUME TypeOK, SameAge, Sweep, NEW c \in Clients
    PROVE  Available(c)' = Available(c)
<1>0. visitors \in [Clients -> Visitor \cup {NoVisitor}]
  BY DEF TypeOK
<1>1. CASE Tracked(c) /\ Expired(visitors[c])
  <2>1. visitors[c] \in Visitor /\ visitors[c].sinceUpdate >= TTL
    BY <1>0, <1>1 DEF Tracked, Expired, SameAge, Visitor
  <2>2. Available(c) = Burst
    BY <1>1, <2>1, OldIsFull DEF Available
  <2>3. ~Tracked(c)'
    BY <1>0, <1>1 DEF Sweep, Tracked
  <2>. QED
    BY <2>2, <2>3 DEF Available
<1>2. CASE ~(Tracked(c) /\ Expired(visitors[c]))
  <2>1. visitors'[c] = visitors[c]
    BY <1>0, <1>2 DEF Sweep
  <2>. QED
    BY <2>1 DEF Available, Tracked
<1>. QED
  BY <1>1, <1>2

\* A bucket just written is worth exactly what was written into it.
LEMMA SeenCredit ==
    ASSUME NEW n \in 0..Burst
    PROVE  Seen(n) \in Visitor /\ Refilled(Seen(n)) = n
<1>1. 0 * Rate = 0
  OBVIOUS
<1>. QED
  BY <1>1 DEF Seen, Refilled, AtMost, Visitor

LEMMA AdmitCredit ==
    ASSUME TypeOK, NEW c \in Clients, Admit(c), NEW d \in Clients
    PROVE  /\ Available(c) >= Cost
           /\ Available(d)' = IF d = c THEN Available(c) - Cost ELSE Available(d)
<1>0. visitors \in [Clients -> Visitor \cup {NoVisitor}] /\ Available(c) \in 0..Burst
  BY AvailableType DEF TypeOK
<1>1. Available(c) >= Cost
  BY DEF Admit, Granted, Available
<1>2. AfterAllow(c) = Seen(Available(c) - Cost)
  BY DEF Admit, AfterAllow, Available, Granted
<1>3. visitors' = [visitors EXCEPT ![c] = Seen(Available(c) - Cost)]
  BY <1>2 DEF Admit
<1>4. Available(c) - Cost \in 0..Burst
  BY <1>0, <1>1
<1>5. CASE d = c
  <2>1. visitors'[c] = Seen(Available(c) - Cost)
    BY <1>0, <1>3
  <2>2. Seen(Available(c) - Cost) # NoVisitor
    BY <1>4, SeenCredit, NoVisitorNotVisitor
  <2>. QED
    BY <1>1, <1>4, <1>5, <2>1, <2>2, SeenCredit DEF Available, Tracked
<1>6. CASE d # c
  <2>1. visitors'[d] = visitors[d]
    BY <1>0, <1>3, <1>6
  <2>. QED
    BY <1>1, <1>6, <2>1 DEF Available, Tracked
<1>. QED
  BY <1>1, <1>5, <1>6

LEMMA RefuseCredit ==
    ASSUME TypeOK, NEW c \in Clients, Refuse(c), NEW d \in Clients
    PROVE  Available(d)' = Available(d)
<1>0. visitors \in [Clients -> Visitor \cup {NoVisitor}] /\ Available(c) \in 0..Burst
  BY AvailableType DEF TypeOK
<1>1. Tracked(c) /\ AfterAllow(c) = Seen(Available(c))
  BY DEF Refuse, AfterAllow, Available, Granted
<1>2. visitors' = [visitors EXCEPT ![c] = Seen(Available(c))]
  BY <1>1 DEF Refuse
<1>3. CASE d = c
  <2>1. visitors'[c] = Seen(Available(c))
    BY <1>0, <1>2
  <2>2. Seen(Available(c)) # NoVisitor
    BY <1>0, SeenCredit, NoVisitorNotVisitor
  <2>. QED
    BY <1>0, <1>3, <2>1, <2>2, SeenCredit DEF Available, Tracked
<1>4. CASE d # c
  <2>1. visitors'[d] = visitors[d]
    BY <1>0, <1>2, <1>4
  <2>. QED
    BY <2>1 DEF Available, Tracked
<1>. QED
  BY <1>3, <1>4

\* The steps that neither pass time nor serve a request leave every credit.
LEMMA OtherCredit ==
    ASSUME UNCHANGED visitors, NEW d \in Clients
    PROVE  Available(d)' = Available(d)
BY DEF Available, Tracked
-----------------------------------------------------------------------------
\* Every step of the limiter is a step of the token bucket, or none.
LEMMA StepRefines ==
    TypeOK /\ SameAge /\ [Next]_vars => [Bucket!Next]_([c \in Clients |-> Available(c)])
<1>. DEFINE credit == [c \in Clients |-> Available(c)]
<1> SUFFICES ASSUME TypeOK, SameAge, [Next]_vars
             PROVE  Bucket!Next \/ credit' = credit
  OBVIOUS
<1>1. ASSUME NEW c \in Clients, Admit(c) PROVE Bucket!Next
  <2>1. credit' = [credit EXCEPT ![c] = @ - Cost] /\ credit[c] >= Cost
    BY <1>1, AdmitCredit
  <2>. QED
    BY <2>1 DEF Bucket!Next, Bucket!Admit
<1>2. ASSUME NEW c \in Clients, Refuse(c) PROVE credit' = credit
  BY <1>2, RefuseCredit
<1>3. CASE Sweep
  BY <1>3, SweepCredit
<1>4. CASE Tick
  <2>1. credit' = [c \in Clients |-> Bucket!AtMost(Burst, credit[c] + Rate)]
    BY <1>4, TickCredit DEF Bucket!AtMost, AtMost
  <2>. QED
    BY <2>1 DEF Bucket!Next, Bucket!Tick
<1>5. CASE UNCHANGED visitors
  BY <1>5, OtherCredit
<1>. QED
  BY <1>1, <1>2, <1>3, <1>4, <1>5
     DEF Next, OpenAudit, Close, LoopExit, vars, limiter

\* The limiter implements the token bucket: refilling only when a client is
\* seen and forgetting idle clients change nothing anyone can observe.
THEOREM Implementation == Spec => ImplementsTokenBucket
<1>1. Init => Bucket!Init
  BY DEF Init, Bucket!Init, Available, Tracked
<1>2. QED
  BY <1>1, StepRefines, TypeCorrect, AgesAgree, PTL
     DEF Spec, ImplementsTokenBucket, Bucket!Spec
-----------------------------------------------------------------------------
\* What is still affordable counts against the window: only spent + available
\* is preserved by admissions, so this, not WindowBound, is inductive.
AuditInv ==
    audit.open => \E d \in Clients : /\ audit.who = d
                                     /\ audit.spent + Available(d) <= audit.budget

LEMMA NextAuditInv == TypeOK /\ SameAge /\ AuditInv /\ [Next]_vars => AuditInv'
<1> SUFFICES ASSUME TypeOK, SameAge, AuditInv, [Next]_vars PROVE AuditInv'
  OBVIOUS
<1>0. audit \in Audit /\ audit.spent \in Nat /\ audit.budget \in Nat
  BY DEF TypeOK, Audit
<1>1. ASSUME audit' = audit, \A d \in Clients : Available(d)' = Available(d)
      PROVE  AuditInv'
  BY <1>1 DEF AuditInv
<1>2. ASSUME NEW c \in Clients, Admit(c) PROVE AuditInv'
  <2>1. \A d \in Clients : Available(d)' = IF d = c THEN Available(c) - Cost ELSE Available(d)
    BY <1>2, AdmitCredit
  <2>2. CASE audit.open /\ audit.who = c
    <3>1. audit' = [audit EXCEPT !.spent = @ + Cost]
      BY <1>2, <2>2 DEF Admit
    <3>2. /\ audit'.who = c /\ audit'.budget = audit.budget
          /\ audit'.spent = audit.spent + Cost
      BY <1>0, <2>2, <3>1 DEF Audit
    <3>3. Available(c) \in 0..Burst /\ audit.spent + Available(c) <= audit.budget
      BY <2>2, AvailableType DEF AuditInv
    <3>4. audit'.spent + Available(c)' <= audit'.budget
      BY <1>0, <2>1, <3>2, <3>3
    <3>. QED
      BY <3>2, <3>4 DEF AuditInv
  <2>3. CASE audit.open /\ audit.who # c
    <3>1. audit' = audit
      BY <1>2, <2>3 DEF Admit
    <3>. QED
      BY <2>1, <2>3, <3>1 DEF AuditInv
  <2>4. CASE ~audit.open
    BY <1>2, <2>4 DEF Admit, AuditInv
  <2>. QED
    BY <2>2, <2>3, <2>4
<1>3. ASSUME NEW c \in Clients, Refuse(c) PROVE AuditInv'
  BY <1>1, <1>3, RefuseCredit DEF Refuse
<1>4. CASE Sweep
  BY <1>1, <1>4, SweepCredit DEF Sweep
<1>5. CASE Close \/ LoopExit \/ UNCHANGED vars
  BY <1>1, <1>5, OtherCredit DEF Close, LoopExit, vars, limiter
<1>6. ASSUME NEW c \in Clients, OpenAudit(c) PROVE AuditInv'
  <2>1. audit'.who = c /\ audit'.spent = 0 /\ audit'.budget = Burst
    BY <1>6 DEF OpenAudit
  <2>2. Available(c)' = Available(c) /\ Available(c) \in 0..Burst
    BY <1>6, OtherCredit, AvailableType DEF OpenAudit, limiter
  <2>3. audit'.spent + Available(c)' <= audit'.budget
    BY <2>1, <2>2
  <2>. QED
    BY <2>1, <2>3 DEF AuditInv
<1>7. CASE Tick
  <2> SUFFICES ASSUME audit'.open PROVE AuditInv'
    BY DEF AuditInv
  <2>1. audit.open /\ audit' = [audit EXCEPT !.left = @ - 1, !.budget = @ + Rate]
    BY <1>7 DEF Tick, NoAudit
  <2>2. /\ audit'.who = audit.who /\ audit'.spent = audit.spent
        /\ audit'.budget = audit.budget + Rate
    BY <1>0, <2>1 DEF Audit
  <2>3. PICK d \in Clients : /\ audit.who = d
                             /\ audit.spent + Available(d) <= audit.budget
    BY <2>1 DEF AuditInv
  <2>4. Available(d)' = AtMost(Burst, Available(d) + Rate) /\ Available(d) \in 0..Burst
    BY <1>7, TickCredit, AvailableType
  <2>5. Available(d)' <= Available(d) + Rate /\ Available(d)' \in Nat
    BY <2>4 DEF AtMost
  <2>6. audit'.spent + Available(d)' <= audit'.budget
    BY <1>0, <2>2, <2>3, <2>4, <2>5
  <2>. QED
    BY <2>2, <2>3, <2>6 DEF AuditInv
<1>. QED
  BY <1>2, <1>3, <1>4, <1>5, <1>6, <1>7 DEF Next

\* No window of any length admits a client more than burst plus the refill of
\* that window.
THEOREM WindowsAreBounded == Spec => []WindowBound
<1>1. Init => AuditInv
  BY DEF Init, NoAudit, AuditInv
<1>2. TypeOK /\ SameAge /\ AuditInv => WindowBound
  <2> SUFFICES ASSUME TypeOK, AuditInv, audit.open PROVE audit.spent <= audit.budget
    BY DEF WindowBound
  <2>1. audit.spent \in Nat /\ audit.budget \in Nat
    BY DEF TypeOK, Audit
  <2>2. PICK d \in Clients : audit.spent + Available(d) <= audit.budget
    BY DEF AuditInv
  <2>. QED
    BY <2>1, <2>2, AvailableType
<1>3. QED
  BY <1>1, <1>2, NextAuditInv, TypeCorrect, AgesAgree, PTL DEF Spec
-----------------------------------------------------------------------------
\* A refused client owns at least what its waiting time refills, since retries
\* that are refused as well take nothing from it.
WaitInv ==
    \A c \in Clients :
        waiting[c] # -1 => Available(c) >= AtMost(Burst, waiting[c] * Rate)

LEMMA NextWaitInv == TypeOK /\ SameAge /\ WaitInv /\ [Next]_vars => WaitInv'
<1> SUFFICES ASSUME TypeOK, SameAge, WaitInv, [Next]_vars, NEW d \in Clients,
                    waiting'[d] # -1
             PROVE  Available(d)' >= AtMost(Burst, waiting'[d] * Rate)
  BY DEF WaitInv, AtMost
<1>0. waiting \in [Clients -> -1..RetryAfter] /\ Available(d) \in 0..Burst
  BY AvailableType DEF TypeOK
<1>1. ASSUME waiting'[d] = waiting[d], Available(d)' = Available(d)
      PROVE  Available(d)' >= AtMost(Burst, waiting'[d] * Rate)
  BY <1>1 DEF WaitInv
<1>2. ASSUME NEW c \in Clients, Admit(c)
      PROVE  Available(d)' >= AtMost(Burst, waiting'[d] * Rate)
  <2>1. d # c /\ waiting'[d] = waiting[d]
    BY <1>0, <1>2 DEF Admit
  <2>. QED
    BY <1>1, <1>2, <2>1, AdmitCredit
<1>3. ASSUME NEW c \in Clients, Refuse(c)
      PROVE  Available(d)' >= AtMost(Burst, waiting'[d] * Rate)
  <2>1. Available(d)' = Available(d)
    BY <1>3, RefuseCredit
  <2>2. CASE waiting'[d] = waiting[d]
    BY <1>1, <2>1, <2>2
  <2>3. CASE waiting'[d] # waiting[d]
    <3>1. waiting'[d] = 0
      BY <1>0, <1>3, <2>3 DEF Refuse
    <3>2. AtMost(Burst, 0 * Rate) = 0
      BY DEF AtMost
    <3>. QED
      BY <1>0, <2>1, <3>1, <3>2
  <2>. QED
    BY <2>2, <2>3
<1>4. CASE Sweep
  BY <1>1, <1>4, SweepCredit DEF Sweep
<1>5. CASE Close \/ LoopExit \/ UNCHANGED vars
  BY <1>1, <1>5, OtherCredit DEF Close, LoopExit, vars, limiter
<1>6. ASSUME NEW c \in Clients, OpenAudit(c)
      PROVE  Available(d)' >= AtMost(Burst, waiting'[d] * Rate)
  BY <1>1, <1>6, OtherCredit DEF OpenAudit, limiter
<1>7. CASE Tick
  <2>1. Available(d)' = AtMost(Burst, Available(d) + Rate)
    BY <1>7, TickCredit
  <2>2. waiting[d] # -1 /\ waiting'[d] = AtMost(RetryAfter, waiting[d] + 1)
    BY <1>0, <1>7 DEF Tick
  <2>3. waiting[d] \in 0..RetryAfter
    BY <1>0, <2>2
  <2>4. Available(d) >= AtMost(Burst, waiting[d] * Rate)
    BY <2>2 DEF WaitInv
  <2>5. /\ waiting[d] * Rate \in Nat /\ waiting'[d] * Rate \in Nat
        /\ waiting'[d] * Rate <= waiting[d] * Rate + Rate
    <3>1. waiting'[d] \in Nat /\ waiting'[d] <= waiting[d] + 1
      BY <2>2, <2>3 DEF AtMost
    <3>2. waiting'[d] * Rate <= (waiting[d] + 1) * Rate
      BY <2>3, <3>1, RefillMonotone
    <3>. QED
      BY <2>3, <3>1, <3>2, OneMoreTick
  <2>. QED
    BY <1>0, <2>1, <2>4, <2>5 DEF AtMost
<1>. QED
  BY <1>2, <1>3, <1>4, <1>5, <1>6, <1>7 DEF Next

\* A refused client that waits the Retry-After it was told is admitted.
THEOREM RetryAfterIsEnough == Spec => []RetryAfterHonoured
<1>1. Init => WaitInv
  BY DEF Init, WaitInv
<1>2. TypeOK /\ WaitInv => RetryAfterHonoured
  <2> SUFFICES ASSUME TypeOK, WaitInv, NEW c \in Clients, waiting[c] = RetryAfter
               PROVE  Available(c) >= Cost
    BY DEF RetryAfterHonoured
  <2>1. Available(c) >= AtMost(Burst, RetryAfter * Rate) /\ Available(c) \in 0..Burst
    BY AvailableType DEF WaitInv
  <2>2. RetryAfter * Rate \in Nat
    BY OneMoreTick
  <2>. QED
    BY <2>1, <2>2, RetryAfterRefills DEF AtMost
<1>3. QED
  BY <1>1, <1>2, NextWaitInv, TypeCorrect, AgesAgree, PTL DEF Spec
=============================================================================
