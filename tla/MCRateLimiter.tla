--------------------------- MODULE MCRateLimiter ---------------------------
(* RateLimiter on a small instance: the global bucket is smaller than what *)
(* the two listed addresses may spend together.                            *)
EXTENDS RateLimiter, TLC

CONSTANTS alice, bob, carol

MCSymmetry == Permutations(Slots) \cup Permutations({alice, bob})
=============================================================================
