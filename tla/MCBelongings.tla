---------------------------- MODULE MCBelongings ----------------------------
EXTENDS Belongings, TLC

Symmetry == Permutations(Files)
=============================================================================
