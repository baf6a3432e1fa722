---------------------------- MODULE MCClientActors ----------------------------
EXTENDS ClientActors, TLC

Symmetry == Permutations(Cells)
=============================================================================
