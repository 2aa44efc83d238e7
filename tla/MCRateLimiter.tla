----------------------------- MODULE MCRateLimiter -----------------------------
(* An instance of RateLimiter for TLC.                                     *)
EXTENDS RateLimiter, TLC

CONSTANTS alice, bob

Symmetry == Permutations(Keys)
=============================================================================
