---------------------------- MODULE MCDDSIMDevice ----------------------------
EXTENDS DDSIMDevice, TLC

Symmetry == Permutations(Clients) \cup Permutations(Jobs)
=============================================================================
