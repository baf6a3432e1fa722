--------------------------- MODULE MCServerSessions ---------------------------
EXTENDS ServerSessions, TLC

Symmetry == Permutations(Guids)
=============================================================================
