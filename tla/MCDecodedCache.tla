--------------------------- MODULE MCDecodedCache ---------------------------
(* Small instances of DecodedCache.  Sizes are in units of an entry part:   *)
(* `a` and `b` compete for the memory budget, and of what is left to        *)
(* temporary files only one stays idle; `odd` is empty in package p1 and    *)
(* too large to stay idle in p2, which overrides it.                        *)
EXTENDS DecodedCache

CONSTANTS p1, p2, a, b, odd

Sizes == [p \in Packages |-> [i \in Identities |->
            IF i # odd THEN 2 ELSE IF p = p1 THEN 0 ELSE 9]]

Symmetry == Permutations(Files) \cup Permutations(Caches)
=============================================================================
