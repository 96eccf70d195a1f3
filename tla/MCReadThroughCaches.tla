------------------------- MODULE MCReadThroughCaches -------------------------
\* Instances of ReadThroughCaches for TLC.
EXTENDS ReadThroughCaches, TLC
=============================================================================
