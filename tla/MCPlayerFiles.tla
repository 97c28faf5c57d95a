--------------------------- MODULE MCPlayerFiles ---------------------------
EXTENDS PlayerFiles, TLC

Symmetry == Permutations(PCs)
=============================================================================
