---------------------------- MODULE RateLimiter ----------------------------
(***************************************************************************)
(* internal/middleware/ratelimit.go: a token bucket per client address,    *)
(* refilled lazily when the client is seen, in a map that a background     *)
(* loop prunes.  Every step below runs under rl.mu, so each is atomic.     *)
(*                                                                         *)
(* Time advances in ticks.  Fractions of a token are kept by counting in   *)
(* units: a token is Cost units.  The two timestamps of a visitor are      *)
(* represented by their distance to now, capped at AgeCap, beyond which    *)
(* the code cannot tell two ages apart (ASSUME AgeCapIsLarge).             *)
(***************************************************************************)
EXTENDS Integers

CONSTANTS
    Clients,    \* client addresses, as getIP returns them
    NoVisitor,  \* an address absent from rl.visitors
    Cost,       \* units of one token
    Rate,       \* rl.rate, in units per tick
    Burst,      \* rl.burst, in units
    TTL,        \* rl.ttl, in ticks
    SweepEvery, \* period of the clean-up ticker, in ticks
    RetryAfter, \* the Retry-After header of a refusal, in ticks
    AgeCap,     \* bound on the ages that are told apart
    AuditTicks  \* bound on the length of an audited window

ASSUME NumbersAssumption ==
    /\ Cost \in Nat \ {0} /\ Rate \in Nat \ {0} /\ Burst \in Nat
    /\ TTL \in Nat /\ SweepEvery \in Nat \ {0} /\ RetryAfter \in Nat
    /\ AgeCap \in Nat /\ AuditTicks \in Nat
ASSUME BurstAdmitsOne == Burst >= Cost
ASSUME AgeCapIsLarge == AgeCap > TTL
ASSUME NoVisitorIsNone == NoVisitor \notin [tokens : Int, sinceUpdate : Int, sinceSeen : Int]

\* The configuration of DefaultAuthRateLimiter (5 per minute, burst 5, ttl 10
\* minutes, Retry-After 60 s) satisfies both; NewRateLimiter does not check them.
ASSUME ForgetsOnlyFull == TTL * Rate >= Burst
ASSUME RetryAfterRefills == RetryAfter * Rate >= Cost

VARIABLES
    visitors,   \* rl.visitors
    clock,      \* phase of the clean-up ticker
    sweepDue,   \* a tick waits in ticker.C (its buffer holds one)
    closed,     \* rl.stopCleanup is closed
    looping,    \* the goroutine of cleanupLoop has not returned
    waiting,    \* history: ticks since a refusal with no admission since, or -1
    audit       \* history: an observed window of one client

limiter == <<visitors, clock, sweepDue, closed, looping>>
vars == <<visitors, clock, sweepDue, closed, looping, waiting, audit>>

AtMost(limit, n) == IF n > limit THEN limit ELSE n
Tracked(c) == visitors[c] # NoVisitor

\* (mutant) the refill without its cap at burst
RefilledUncapped(v) == v.tokens + v.sinceUpdate * Rate

\* What Allow would find in c's bucket now, after its refill.
Refilled(v) == AtMost(Burst, v.tokens + v.sinceUpdate * Rate)
Available(c) == IF Tracked(c) THEN Refilled(visitors[c]) ELSE Burst

NoAudit == [open |-> FALSE, who |-> NoVisitor, left |-> 0, budget |-> 0, spent |-> 0]

Init ==
    /\ visitors = [c \in Clients |-> NoVisitor]
    /\ clock = 0 /\ sweepDue = FALSE
    /\ closed = FALSE /\ looping = TRUE
    /\ waiting = [c \in Clients |-> -1]
    /\ audit = NoAudit
-----------------------------------------------------------------------------
Seen(units) == [tokens |-> units, sinceUpdate |-> 0, sinceSeen |-> 0]

\* The bucket Allow leaves: a new visitor starts with burst-1 tokens, a known
\* one is refilled and pays if a whole token is there.
Granted(c) == IF Tracked(c) THEN Refilled(visitors[c]) >= Cost ELSE TRUE

\* (mutant) a refusal moves lastUpdate but drops the fraction refilled so far
AfterAllowLosingRefill(c) ==
    IF ~Tracked(c) THEN Seen(Burst - Cost)
    ELSE IF Granted(c) THEN Seen(Refilled(visitors[c]) - Cost)
    ELSE Seen(visitors[c].tokens)
\* (mutant) a new visitor starts with burst tokens and does not pay
AfterAllowFreeFirst(c) ==
    IF ~Tracked(c) THEN Seen(Burst)
    ELSE IF Granted(c) THEN Seen(Refilled(visitors[c]) - Cost)
    ELSE Seen(Refilled(visitors[c]))

AfterAllow(c) ==
    IF ~Tracked(c) THEN Seen(Burst - Cost)
    ELSE IF Granted(c) THEN Seen(Refilled(visitors[c]) - Cost)
    ELSE Seen(Refilled(visitors[c]))

Admit(c) ==
    /\ Granted(c)
    /\ visitors' = [visitors EXCEPT ![c] = AfterAllow(c)]
    /\ waiting' = [waiting EXCEPT ![c] = -1]
    /\ audit' = IF audit.open /\ audit.who = c
                THEN [audit EXCEPT !.spent = @ + Cost] ELSE audit
    /\ UNCHANGED <<clock, sweepDue, closed, looping>>

\* LimitFunc answers 429 with Retry-After.
Refuse(c) ==
    /\ ~Granted(c)
    /\ visitors' = [visitors EXCEPT ![c] = AfterAllow(c)]
    /\ waiting' = [waiting EXCEPT ![c] = IF @ = -1 THEN 0 ELSE @]
    /\ UNCHANGED <<clock, sweepDue, closed, looping, audit>>

\* (mutant) the clean-up drops a visitor that was not seen for one tick
ExpiredEarly(v) == v.sinceSeen > 0
Expired(v) == v.sinceSeen > TTL

\* (mutant) the loop waits for one timer instead of a ticker
SweepOnce ==
    /\ looping /\ sweepDue
    /\ sweepDue' = FALSE
    /\ looping' = FALSE
    /\ visitors' = [c \in Clients |->
                      IF Tracked(c) /\ Expired(visitors[c]) THEN NoVisitor ELSE visitors[c]]
    /\ UNCHANGED <<clock, closed, waiting, audit>>

\* One pass of cleanupLoop over the map.
Sweep ==
    /\ looping /\ sweepDue
    /\ sweepDue' = FALSE
    /\ visitors' = [c \in Clients |->
                      IF Tracked(c) /\ Expired(visitors[c]) THEN NoVisitor ELSE visitors[c]]
    /\ UNCHANGED <<clock, closed, looping, waiting, audit>>

Close ==
    /\ closed' = TRUE
    /\ UNCHANGED <<visitors, clock, sweepDue, looping, waiting, audit>>

\* With both channels ready the select may still take the ticker: Sweep stays
\* enabled until the loop has chosen stopCleanup.
LoopExit ==
    /\ looping /\ closed
    /\ looping' = FALSE
    /\ UNCHANGED <<visitors, clock, sweepDue, closed, waiting, audit>>
-----------------------------------------------------------------------------
Older(v) == [v EXCEPT !.sinceUpdate = AtMost(AgeCap, @ + 1),
                      !.sinceSeen = AtMost(AgeCap, @ + 1)]

\* Time: the ticker fires every SweepEvery ticks until the loop stops it.
Tick ==
    /\ visitors' = [c \in Clients |->
                      IF Tracked(c) THEN Older(visitors[c]) ELSE NoVisitor]
    /\ clock' = (clock + 1) % SweepEvery
    /\ sweepDue' = (sweepDue \/ (looping /\ clock' = 0))
    /\ waiting' = [c \in Clients |->
                     IF waiting[c] = -1 THEN -1 ELSE AtMost(RetryAfter, waiting[c] + 1)]
    /\ audit' = IF audit.open /\ audit.left > 0
                THEN [audit EXCEPT !.left = @ - 1, !.budget = @ + Rate] ELSE NoAudit
    /\ UNCHANGED <<closed, looping>>

\* The observer starts to count one client's admissions, at any moment.
OpenAudit(c) ==
    /\ ~audit.open
    /\ audit' = [open |-> TRUE, who |-> c, left |-> AuditTicks, budget |-> Burst, spent |-> 0]
    /\ UNCHANGED <<limiter, waiting>>

Next ==
    \/ \E c \in Clients : Admit(c) \/ Refuse(c) \/ OpenAudit(c)
    \/ Sweep \/ Close \/ LoopExit \/ Tick

Spec == Init /\ [][Next]_vars

\* The clock advances and the Go scheduler runs the clean-up goroutine.
FairSpec == Spec /\ WF_vars(Tick) /\ WF_vars(Sweep)
-----------------------------------------------------------------------------
Visitor == [tokens : 0..Burst, sinceUpdate : 0..AgeCap, sinceSeen : 0..AgeCap]
Audit == [open : BOOLEAN, who : Clients \cup {NoVisitor},
          left : 0..AuditTicks, budget : Nat, spent : Nat]

TypeOK ==
    /\ visitors \in [Clients -> Visitor \cup {NoVisitor}]
    /\ clock \in 0..(SweepEvery - 1)
    /\ sweepDue \in BOOLEAN /\ closed \in BOOLEAN /\ looping \in BOOLEAN
    /\ waiting \in [Clients -> -1..RetryAfter]
    /\ audit \in Audit

\* In any window of n ticks one client is admitted at most burst + n * rate
\* times, whatever the lazy refill and the clean-up of idle visitors do.
WindowBound == audit.open => audit.spent <= audit.budget

\* A client that was refused, was not admitted since and has waited the 60 s
\* of Retry-After is admitted, however often it retried in between.
RetryAfterHonoured ==
    \A c \in Clients : waiting[c] = RetryAfter => Available(c) >= Cost

\* Lazy refill and clean-up are invisible: the limiter is a token bucket per
\* client that is refilled at every tick and never forgotten.
Bucket == INSTANCE TokenBucket WITH credit <- [c \in Clients |-> Available(c)]
ImplementsTokenBucket == Bucket!Spec

\* A visitor that stays away longer than the ttl is dropped from the map, so
\* the map does not grow with every address ever seen (unless Close was called).
IdleVisitorsForgotten ==
    \A c \in Clients :
        (Tracked(c) /\ Expired(visitors[c]))
            ~> (~Tracked(c) \/ visitors[c].sinceSeen = 0 \/ closed)
=============================================================================
