------------------------------ MODULE MCCards ------------------------------
(* Cards with two users, two cards, whose uids are also the users' names, and *)
(* two requests at a time.                                                    *)
EXTENDS Cards, TLC

CONSTANTS u1, u2, c1, c2, blank, r1, r2
MCUsers == {u1, u2}
MCUids == {c1, c2}
MCRequests == {r1, r2}
MCNameOf == [u \in MCUsers |-> IF u = u1 THEN c1 ELSE c2]

\* The two users may change places, with their names.
Exchange == [x \in {u1, u2, c1, c2} |->
               CASE x = u1 -> u2 [] x = u2 -> u1 [] x = c1 -> c2 [] x = c2 -> c1]
Symmetric == {Exchange} \cup Permutations(MCRequests)
=============================================================================
