----------------------------- MODULE MCSession -----------------------------
(* Session with symmetric descriptors, bodies and names. *)
EXTENDS Session, TLC

Symmetry == Permutations(Descs) \cup Permutations(Bodies) \cup Permutations(Names)
=============================================================================
