------------------------------ MODULE MCLimiter ------------------------------
(* The limiter for TLC. *)
EXTENDS AuthLimiter, TLC

Symmetry == Permutations(Clients) \cup Permutations(Calls)
=============================================================================
