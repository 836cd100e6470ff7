----------------------------- MODULE MCPoolPlayer -----------------------------
(* Instances of PoolPlayer for TLC. *)
EXTENDS PoolPlayer, TLC

Symmetry == Permutations(Jobs) \cup Permutations(Workers) \cup Permutations(Stoppers)
=============================================================================
