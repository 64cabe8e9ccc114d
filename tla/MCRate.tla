------------------------------- MODULE MCRate -------------------------------
(* A small instance of RateLimiter for TLC. *)
EXTENDS RateLimiter, TLC

Symmetry == Permutations(Thread)

=============================================================================
