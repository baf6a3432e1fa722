--------------------------- MODULE MCNavMeshUpdates ---------------------------
EXTENDS NavMeshUpdates
=============================================================================
