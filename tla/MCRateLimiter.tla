--------------------------- MODULE MCRateLimiter ---------------------------
(* RateLimiter on two clients.  Numbers that make a token refill in two      *)
(* ticks, the bucket hold a token and a half, and the ttl just long enough.  *)
EXTENDS RateLimiter, TLC

CONSTANTS c1, c2
MCClients == {c1, c2}
=============================================================================
