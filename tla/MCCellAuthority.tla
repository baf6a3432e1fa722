--------------------------- MODULE MCCellAuthority ---------------------------
EXTENDS CellAuthority, TLC

Symmetry == Permutations(Players)
=============================================================================
