----------------------------- MODULE MCDDPackage -----------------------------
EXTENDS DDPackage, TLC

\* The tables that garbageCollect does not mention.
ForgottenOps == {"vectorAddMagnitudes", "matrixAddMagnitudes", "conjugateVector"}

Symmetry == Permutations(VNodes) \cup Permutations(MNodes)
=============================================================================
