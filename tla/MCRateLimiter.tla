--------------------------- MODULE MCRateLimiter ---------------------------
(* Symmetry for the instances of RateLimiter. *)
EXTENDS RateLimiter, TLC

Permutation == Permutations(Replicas) \cup Permutations(Keys) \cup Permutations(Slots)
=============================================================================
