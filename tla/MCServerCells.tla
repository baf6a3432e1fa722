---------------------------- MODULE MCServerCells ----------------------------
EXTENDS ServerCells, TLC

CONSTANTS p, q,              \* players
          wild, coast, house \* two exterior cells and an interior one

\* The exterior cells differ in nothing but their coordinates, which are only
\* compared with each other.
Symmetry == Permutations(Players) \cup Permutations(Exteriors)

Names == wild :> "" @@ coast :> "" @@ house :> "House"

\* Every cell has coordinates of its own: all are Apart.
Grids == wild :> 1 @@ coast :> 2 @@ house :> 3
=============================================================================
