-------------------------- MODULE MCRealNumberTable --------------------------
EXTENDS RealNumberTable, TLC

Symmetry == Permutations(Entries)
=============================================================================
