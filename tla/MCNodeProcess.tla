--------------------------- MODULE MCNodeProcess ---------------------------
EXTENDS NodeProcess

CONSTANTS s1, s2, b1, b2
=============================================================================
