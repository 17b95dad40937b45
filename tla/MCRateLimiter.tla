---------------------------- MODULE MCRateLimiter ----------------------------
(* Model values for checking RateLimiter. *)
EXTENDS RateLimiter

CONSTANTS c1, c2, c3
=============================================================================
