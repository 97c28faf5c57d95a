------------------------------- MODULE MCDil -------------------------------
(* Two units, two programs. *)
EXTENDS Dil

Symmetry == Permutations(Units) \cup Permutations(Prgs)
=============================================================================
