------------------------------ MODULE MCParts ------------------------------
\* Components that share no state and need small instances only: a behaviour is one
\* of one part, while the others stay in an initial state.
EXTENDS ZipHandles, ZipStream, Launcher, ExtDllOrder, PathHooks,
        VfsFile, Win32Hooks, TLC

VARIABLE part

----------------------------------------------------------------------------
Folders == [kind : {"folder"}, holds : SUBSET Games]
Places == Folders \cup [kind : {"file"}, holds : Games \cup {Unknown}]
Nowhere == [kind |-> "folder", holds |-> {}]

\* Absolute and relative paths, to folders and files, the latter beside the launcher.
GivenPaths == [relative : {FALSE}, here : Places, beside : {Nowhere}]
         \cup [relative : {TRUE}, here : {Nowhere}, beside : Places]
         \cup [relative : {TRUE}, here : {[kind |-> "folder", holds |-> {Default}]},
               beside : {[kind |-> "folder", holds |-> Games]}]

MCArguments ==
    LET Lines(p, b) == [target : Games \cup {Nil, Unknown}, config : Games \cup {Nil, Unknown},
                        suspend : BOOLEAN, path : p, beside : b]
    IN Lines(GivenPaths, {Nowhere}) \cup Lines({Nil}, Folders)

\* Steam's own folder, a block that stands for it and one that is another library.
MCLibraries ==
    {[blocks |-> <<[own |-> TRUE, absolute |-> TRUE, apps |-> Games],
                   [own |-> FALSE, absolute |-> a, apps |-> s]>>, apps |-> t] :
        a \in BOOLEAN, s \in {{}, {Default}}, t \in {{}, Games}}

\* Every dependency relation over N entries, each loading normally, and every
\* relation over the first N - 1 entries with every assignment of the stages,
\* once as it is and once with each entry naming itself too; a delay entry
\* really waits.
Irreflexive == {r \in [Dlls -> SUBSET Dlls] : \A d \in Dlls : d \notin r[d]}
Small == {r \in Irreflexive : r[N] = {} /\ \A d \in Dlls : N \notin r[d]}
Reflexive == {[d \in Dlls |-> r[d] \cup {d}] : r \in Small}
With(rs, ss) == {[after |-> r, stage |-> s, delayed |-> [d \in Dlls |-> s[d] = Delay]] :
                    r \in rs, s \in ss}
Plain == [after |-> [d \in Dlls |-> {}], stage |-> [d \in Dlls |-> Normal],
          delayed |-> [d \in Dlls |-> FALSE]]
MCConfigurations ==
    With(Irreflexive, {[d \in Dlls |-> Normal]})
    \cup With(Small \cup Reflexive, {s \in [Dlls -> Stages] : s[N] = Normal})

\* Every short stream of compressed data, and stored ones.
Streams == UNION {[1..n -> {"byte", "skip", "end", "bad"}] : n \in 0..4}
MCStreamEntries ==
    [deflated : {TRUE}, size : 0..3, units : Streams, crc : BOOLEAN]
    \cup {e \in [deflated : {FALSE}, size : 0..3, units : UNION {[1..n -> {"byte"}] : n \in 0..3}, crc : BOOLEAN] :
            e.size = Len(e.units)}

\* Three functions, and one behind two of the slots.
MCOperators == {<<"p1", "p2", "p3">>, <<"p1", "p2", "p1">>}

----------------------------------------------------------------------------
MCInit ==
    /\ part \in {"handles", "stream", "launch", "order", "path", "cursor", "hooks"}
    /\ part # "order" => config = Plain
    /\ Init /\ StreamInit /\ LaunchInit /\ OrderInit /\ PathInit /\ VfsFileInit /\ Win32Init
    /\ part # "cursor" => size = 0 /\ open = Cached
    /\ part # "hooks" => ~zipMod

AllVars == <<vars, streamVars, launchVars, orderVars, pathVars, cursorVars, win32Vars>>

MCNext ==
    /\ UNCHANGED part
    /\ \/ part = "handles" /\ Next
          /\ UNCHANGED <<streamVars, launchVars, orderVars, pathVars, cursorVars, win32Vars>>
       \/ part = "stream" /\ StreamNext
          /\ UNCHANGED <<vars, launchVars, orderVars, pathVars, cursorVars, win32Vars>>
       \/ part = "launch" /\ LaunchNext
          /\ UNCHANGED <<vars, streamVars, orderVars, pathVars, cursorVars, win32Vars>>
       \/ part = "order" /\ OrderNext
          /\ UNCHANGED <<vars, streamVars, launchVars, pathVars, cursorVars, win32Vars>>
       \/ part = "path" /\ PathNext
          /\ UNCHANGED <<vars, streamVars, launchVars, orderVars, cursorVars, win32Vars>>
       \/ part = "cursor" /\ VfsFileNext
          /\ UNCHANGED <<vars, streamVars, launchVars, orderVars, pathVars, win32Vars>>
       \/ part = "hooks" /\ Win32Next
          /\ UNCHANGED <<vars, streamVars, launchVars, orderVars, pathVars, cursorVars>>

MCSpec == MCInit /\ [][MCNext]_<<part, AllVars>>

Symmetry == Permutations(Threads) \cup Permutations(Handles) \cup Permutations(Files)
=============================================================================
