------------------------- MODULE MCExplicitProducer -------------------------
EXTENDS ExplicitProducer, TLC
CONSTANTS c1, c2
Symmetric == Permutations(Takers)
=============================================================================
