----------------------------- MODULE MCSessions -----------------------------
(* Sessions on two users, two tokens and two requests at a time.  A session  *)
(* idles out after one tick and expires after two, so three ticks reach both *)
(* ends, before and after.                                                   *)
EXTENDS Sessions, TLC

CONSTANTS u1, u2, t1, t2, r1, r2
MCUsers == {u1, u2}
MCTokens == {t1, t2}
MCRequests == {r1, r2}
Symmetric == Permutations(MCUsers) \cup Permutations(MCTokens) \cup Permutations(MCRequests)
=============================================================================
