---------------------------- MODULE MCZipHandles ----------------------------
EXTENDS ZipHandles, TLC
Symmetry == Permutations(Threads) \cup Permutations(Handles) \cup Permutations(Files)
=============================================================================
