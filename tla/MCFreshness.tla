----------------------------- MODULE MCFreshness -----------------------------
(* Small instances of Freshness for TLC. *)
EXTENDS Freshness, TLC

Symmetry == Permutations(Refs) \cup Permutations(Workers)

=============================================================================
