--------------------------- MODULE MCServerListing ---------------------------
EXTENDS ServerListing
=============================================================================
