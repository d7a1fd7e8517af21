--------------------------- MODULE MCGameResolver ---------------------------
EXTENDS GameResolver

CONSTANTS h1, p1, g1, g2, zero, r1, r2

MCHashes == {h1}
MCSubmitters == {p1}
MCGames == {g1, g2}
MCRoots == {r1, r2}
=============================================================================
