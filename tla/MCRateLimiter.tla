--------------------------- MODULE MCRateLimiter ---------------------------
(* A small instance of RateLimiter for TLC. *)
EXTENDS RateLimiter

CONSTANTS k1, r1, r2

OneKey      == {k1}
TwoRequests == {r1, r2}
=============================================================================
