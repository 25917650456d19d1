--------------------------- MODULE MCSaveMapping ---------------------------
EXTENDS SaveMapping, TLC
CONSTANTS p1, p2, p3, s1, s2, renamed1

\* Two spellings of one save, and a second save with the same renamed file.
MCSaveOf == p1 :> s1 @@ p2 :> s1 @@ p3 :> s2
MCTargetOf == s1 :> renamed1 @@ s2 :> renamed1
Symmetry == Permutations(Threads) \cup Permutations({p1, p2})
=============================================================================
