--------------------------- MODULE MCPlayerDirectory ---------------------------
EXTENDS PlayerDirectory
=============================================================================
