---------------------------- MODULE MCCodaMount ----------------------------
EXTENDS CodaMount, TLC
CONSTANTS d1, d2, m1, m2, m3

Symmetry == Permutations(Mounts)
=============================================================================
