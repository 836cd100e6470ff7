----------------------------- MODULE MCRelayFiles -----------------------------
(* The relay's files for TLC. *)
EXTENDS RelayFiles, TLC

Symmetry == Permutations(Tokens) \cup Permutations(Pairs) \cup Permutations(Rotators)
=============================================================================
