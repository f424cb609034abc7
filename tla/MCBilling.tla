----------------------------- MODULE MCBilling -----------------------------
(* Billing for one user with two requests at a time, days of two ticks and   *)
(* years of two days: long enough for a subscription to be cancelled,        *)
(* to end, to be noticed as expired a day later and to be bought again.      *)
EXTENDS Billing, TLC

CONSTANTS ann, f1, r1, r2
MCUsers == {ann}
MCReferences == {f1}
MCRequests == {r1, r2}
MCPerDay == 2
MCYear == 4
MCHorizon == 11
Symmetric == Permutations(MCRequests)
=============================================================================
