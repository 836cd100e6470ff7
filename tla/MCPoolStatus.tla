----------------------------- MODULE MCPoolStatus -----------------------------
(* An instance of PoolStatus for TLC. *)
EXTENDS PoolStatus, TLC

Symmetry == Permutations(Jobs) \cup Permutations(Workers)
=============================================================================
