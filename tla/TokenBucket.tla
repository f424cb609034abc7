---------------------------- MODULE TokenBucket ----------------------------
(***************************************************************************)
(* What internal/middleware promises to the routes it protects: every      *)
(* client has a bucket that holds at most Burst units, gains Rate units    *)
(* each tick and pays Cost units for each admitted request.  Nothing is    *)
(* said of maps, timestamps or clean-up: those belong to RateLimiter.      *)
(***************************************************************************)
EXTENDS Naturals

CONSTANTS
    Clients,    \* client addresses, as getIP returns them
    Cost,       \* units one request costs (the code's 1.0 token)
    Rate,       \* units gained per tick   (the code's rate)
    Burst       \* capacity in units       (the code's burst)

VARIABLE credit \* [Clients -> 0..Burst], what each client could spend now

AtMost(limit, n) == IF n > limit THEN limit ELSE n

Init == credit = [c \in Clients |-> Burst]

Tick == credit' = [c \in Clients |-> AtMost(Burst, credit[c] + Rate)]

Admit(c) ==
    /\ credit[c] >= Cost
    /\ credit' = [credit EXCEPT ![c] = @ - Cost]

\* A refused request leaves every bucket as it was: it is a stuttering step.
Next == Tick \/ \E c \in Clients : Admit(c)

Spec == Init /\ [][Next]_credit
=============================================================================
