--------------------------- MODULE MCRootContact ---------------------------
EXTENDS RootContact

CONSTANTS r1, r2, r3, r4

\* Four root nodes: with three of them asked by a handshake and two by a request, both
\* selectors have a real choice.
FourNodes == <<r1, r2, r3, r4>>
=============================================================================
