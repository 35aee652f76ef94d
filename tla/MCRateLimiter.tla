---------------------------- MODULE MCRateLimiter ----------------------------
(* The instances of RateLimiter that TLC checks.                            *)
EXTENDS RateLimiter

CONSTANT k1
=============================================================================
