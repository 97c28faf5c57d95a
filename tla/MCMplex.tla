------------------------------ MODULE MCMplex ------------------------------
(* Mplex with symmetric consoles, links and slots. *)
EXTENDS Mplex

Symmetry == Permutations(Consoles) \cup Permutations(Links) \cup Permutations(Slots)
=============================================================================
