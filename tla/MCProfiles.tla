----------------------------- MODULE MCProfiles -----------------------------
(* Profiles with two users, two names, one handle, and ids for two rows.      *)
EXTENDS Profiles, TLC

CONSTANTS u1, u2, n1, n2, i1, i2, e1, r1, r2
MCUsers == {u1, u2}
MCNames == {n1, n2}
MCRowIds == {i1, i2}
MCEntries == {e1}
MCRequests == {r1, r2}
Symmetric ==
    Permutations(MCUsers) \cup Permutations(MCNames) \cup Permutations(MCRowIds)
        \cup Permutations(MCRequests)
=============================================================================
