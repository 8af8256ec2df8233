----------------------------- MODULE MCQDMIDriver -----------------------------
EXTENDS QDMIDriver, TLC

Symmetry == Permutations(Handles) \cup Permutations(Sessions)
              \cup Permutations(Payloads)
=============================================================================
