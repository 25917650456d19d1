---------------------------- MODULE MCBootBoost ----------------------------
\* The mounts of the archives, the reader of Steam's texts and the allocators.  They
\* share no state: a behaviour is one of one of them.
EXTENDS BootBoost, Vdf, VdfConditionals, Allocators, TLC

CONSTANTS a1, a2, a3

VARIABLE part

\* The directories of two archives begin alike.
MCHeaders == [a \in Archives |-> IF a = a1 THEN 1 ELSE 2]

\* Conditionals with what they mean: operators from left to right, whatever they are,
\* "!" of the next factor only.
Plainly(v) == [written |-> <<IF v THEN "t" ELSE "f">>, meant |-> v]
Not(x) == [written |-> <<"!">> \o x.written, meant |-> ~x.meant]
Paren(x) == [written |-> <<"(">> \o x.written \o <<")">>, meant |-> x.meant]
Both(x, y) == [written |-> x.written \o <<"&">> \o y.written, meant |-> x.meant /\ y.meant]
Either(x, y) == [written |-> x.written \o <<"|">> \o y.written, meant |-> x.meant \/ y.meant]
MCConditionals ==
    LET T == Plainly(TRUE)
        F == Plainly(FALSE)
    IN {T, F, Both(Either(T, T), F), Either(Both(Not(T), F), Not(F)), Either(T, Paren(Both(T, F))),
        Not(Paren(Either(T, F))),
        [written |-> <<"t", "half", "f">>, meant |-> TRUE],
        [written |-> <<"t", "!", "t">>, meant |-> FALSE]}

MCHolds == [e \in MCConditionals |-> EvaluateConditional(e.written)]

\* Entries with conditionals, and shorter texts with whatever can be wrong in one.
Structure == [kinds |-> {"text", "cond", "{", "}", "="}, length |-> 8]
MCInputs == {Structure,
             [kinds |-> {"text", "cond", "{", "}", "include", "empty", "nul", "long", "open"},
              length |-> 6]}

\* Two sections side by side, and calls with ties, the more frequent target first and
\* last, and more targets than are counted.
MCSections == {{1, 2}, {3, 4}}
MCGetterCalls == {<<>>, <<1>>, <<1, 2>>, <<2, 1>>, <<1, 2, 1>>, <<2, 1, 1>>, <<2, 2, 1>>,
                  <<1, 2, 3>>, <<1, 2, 3, 2>>, <<1, 2, 3, 3>>}

MCInit ==
    /\ part \in {"mounts", "text", "memory"}
    /\ BootInit /\ (part # "mounts" => \A a \in Archives : cacheFiles[a] = NoArchive)
    /\ VdfInit /\ (part # "text" => input = Structure)
    /\ AllocatorInit
    /\ part # "memory" => mappingFile = "none" /\ mappingName = "none" /\ strategy = "sekiro"
    /\ mappingName # "invalid"

MCNext ==
    /\ UNCHANGED part
    /\ \/ part = "mounts" /\ BootNext /\ UNCHANGED <<vdfVars, allocatorVars>>
       \/ part = "text" /\ VdfNext /\ UNCHANGED <<bootVars, allocatorVars>>
       \/ part = "memory" /\ AllocatorNext /\ UNCHANGED <<bootVars, vdfVars>>

MCSpec == MCInit /\ [][MCNext]_<<part, bootVars, vdfVars, allocatorVars>>

Symmetry == Permutations(Mounters) \cup Permutations({a2, a3})
=============================================================================
