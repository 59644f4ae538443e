---------------------------- MODULE MCImageLayer -----------------------------
(* Small instances of ImageLayer for TLC. *)
EXTENDS ImageLayer, TLC

Symmetry == Permutations(Refs) \cup Permutations(Workers)

=============================================================================
