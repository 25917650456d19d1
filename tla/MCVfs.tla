------------------------------- MODULE MCVfs -------------------------------
\* The VFS index and the hooks through which the game's devices see it.  They meet
\* in finished lookups only and share no state: a behaviour is one of either.
EXTENDS VfsIndex, AssetHooks, TLC

CONSTANTS a, b, loose, zip, twice, pb, bad

VARIABLE part

\* A directory, an archive that overrides it, and an archive with one name twice.
MCContent == loose :> <<b, a>> @@ zip :> <<a>> @@ twice :> <<a, b, a>>
\* A path of the name that the middle package lacks, and one that escapes the root.
MCNameOf == pb :> b @@ bad :> None

MCInit == part \in {"index", "hooks"} /\ Init /\ AssetInit

MCNext ==
    /\ UNCHANGED part
    /\ \/ part = "index" /\ Next /\ UNCHANGED assetVars
       \/ part = "hooks" /\ AssetNext /\ UNCHANGED vars

MCSpec == MCInit /\ [][MCNext]_<<part, vars, assetVars>>

Symmetry == Permutations(Threads) \cup Permutations(HookThreads) \cup Permutations(Opens)
=============================================================================
