----------------------------- MODULE Selections -----------------------------
(***************************************************************************)
(* Two choices the loader makes from what it finds: the CPU sets a         *)
(* strategy gives the process (process/cpu_sets.c, util.c), and the        *)
(* override a sound file of Wwise is read from (patches/common.c,          *)
(* wwise_path.c).                                                          *)
(***************************************************************************)
EXTENDS Naturals, Sequences, FiniteSets, SequencesExt

CONSTANTS Machines,     \* the CPU sets a machine may have
          Sounds,       \* [wem, long, huge]: its extension, whether its name has two letters, and
                      \* whether the path of a candidate needs memory
          NotApplied

\* What the fields of a SYSTEM_CPU_SET_INFORMATION hold; no two CPU sets have one id.
CpuSets == [id : Nat, group : Nat, index : 0..255, class : 0..255,
            allocated : {"nobody", "us", "other"}]
ASSUME MachinesAssumption ==
    \A sets \in Machines : sets \subseteq CpuSets /\ \A s, t \in sets : s.id = t.id => s = t
ASSUME SoundsAssumption == Sounds \subseteq [wem : BOOLEAN, long : BOOLEAN, huge : BOOLEAN]

VARIABLES
    machine,    \* the CPU sets of this machine
    cpuSets,    \* what a strategy gave the process, or NotApplied
    overrides,  \* the paths mods replace
    sound       \* the last sound [asked, path, mode, done]

selectionVars == <<machine, cpuSets, overrides, sound>>

----------------------------------------------------------------------------
(* CPU sets *)

\* is_usable_cpu_set.
Usable(s) == s.allocated \in {"nobody", "us"}

\* is_lower_logical_cpu.
LowerCpu(a, b) ==
    \/ a.group < b.group
    \/ a.group = b.group /\ a.index < b.index
    \/ a.group = b.group /\ a.index = b.index /\ a.id < b.id

\* find_efficiency_classes.
ClassesOf(sets) == {s.class : s \in {t \in sets : Usable(t)}}
SelectedClass(strategy, sets) ==
    IF strategy = 2 THEN CHOOSE c \in ClassesOf(sets) : \A d \in ClassesOf(sets) : c <= d
                    ELSE CHOOSE c \in ClassesOf(sets) : \A d \in ClassesOf(sets) : d <= c

\* Mutant: the lowest of all is taken, whether it can be used or not.
FirstOfAll(strategy, sets) ==
    {s.id : s \in {t \in sets : strategy \in {1, 4} /\ \A u \in sets : ~LowerCpu(u, t)}}

\* find_first_matching_cpu_set: of any class, or of the selected one.
FirstMatching(strategy, sets) ==
    LET Matching == {s \in sets : /\ strategy \in {1, 4} /\ Usable(s)
                                  /\ strategy = 4 => s.class = SelectedClass(4, sets)}
    IN {s.id : s \in {t \in Matching : \A u \in Matching : ~LowerCpu(u, t)}}

\* should_select_cpu_set.
Selectable(strategy, sets, s) ==
    /\ Usable(s) /\ s.id \notin FirstMatching(strategy, sets)
    /\ strategy # 1 => s.class = SelectedClass(strategy, sets)

\* select_process_cpu_set_ids: classes must differ to be chosen from.
SelectIds(strategy, sets) ==
    IF ClassesOf(sets) = {} \/ (strategy >= 2 /\ Cardinality(ClassesOf(sets)) = 1) THEN {}
    ELSE {s.id : s \in {t \in sets : Selectable(strategy, sets, t)}}

\* set_process_cpu_affinity_strategy: an empty selection changes nothing, and so does
\* whatever fails.
ApplyStrategy(strategy) ==
    /\ cpuSets' \in {cpuSets, IF SelectIds(strategy, machine) = {} THEN cpuSets
                              ELSE [strategy |-> strategy, ids |-> SelectIds(strategy, machine)]}
    /\ UNCHANGED <<machine, overrides, sound>>

----------------------------------------------------------------------------
(* Sounds *)

SoundRoots == <<"sd/", "sd/enus/", "sd/ja/">>
Silent == [asked |-> [wem |-> FALSE, long |-> FALSE, huge |-> FALSE], path |-> "original",
           mode |-> "asked", done |-> FALSE]

\* wwise_lookup_candidate, of the candidates a call can see: the roots it is found under.
FoundAt(seen, middle) == {i \in 1..3 : <<SoundRoots[i], middle>> \in seen}
FirstOf(is) == CHOOSE i \in is : \A j \in is : i <= j

\* The game is given the file on the disk, to be read as such.
ReadIt(asked, seen, middle) ==
    sound' = [asked |-> asked, path |-> <<SoundRoots[FirstOf(FoundAt(seen, middle))], middle>>,
              mode |-> "read", done |-> TRUE]

\* Mutant: the bucket is asked first.
BucketFirst(asked, seen) ==
    \/ FoundAt(seen, "wem/xx/") # {} /\ ReadIt(asked, seen, "wem/xx/")
    \/ FoundAt(seen, "wem/xx/") = {} /\ FoundAt(seen, "wem/") # {} /\ ReadIt(asked, seen, "wem/")

\* A stream is looked for under wem/, then under its bucket wem/xx/.
OpenStream(asked, seen) ==
    \/ FoundAt(seen, "wem/") # {} /\ ReadIt(asked, seen, "wem/")
    \/ FoundAt(seen, "wem/") = {} /\ FoundAt(seen, "wem/xx/") # {} /\ ReadIt(asked, seen, "wem/xx/")

\* ak_file_location_resolver_open: without memory a candidate is passed over.
OpenSound(asked) ==
    /\ \E seen \in IF asked.huge THEN SUBSET overrides ELSE {overrides} :
          LET stream == /\ asked.wem /\ asked.long
                        /\ FoundAt(seen, "wem/") \cup FoundAt(seen, "wem/xx/") # {}
          IN \/ stream /\ OpenStream(asked, seen)
             \/ ~stream /\ FoundAt(seen, "") # {} /\ ReadIt(asked, seen, "")
             \/ /\ ~stream /\ FoundAt(seen, "") = {}
                /\ sound' = [asked |-> asked, path |-> "original", mode |-> "asked", done |-> TRUE]
    /\ UNCHANGED <<machine, cpuSets, overrides>>

SelectionInit ==
    /\ machine \in Machines /\ cpuSets = NotApplied
    /\ overrides \in SUBSET ({"sd/", "sd/enus/", "sd/ja/"} \X {"", "wem/", "wem/xx/"})
    /\ sound = Silent

SelectionNext ==
    \/ \E strategy \in 1..4 : ApplyStrategy(strategy)
    \/ \E asked \in Sounds : OpenSound(asked)

----------------------------------------------------------------------------
(* Properties *)

UsableIds == {s.id : s \in {t \in machine : Usable(t)}}
Efficient == {s.id : s \in {t \in machine : Usable(t) /\ \A u \in machine : Usable(u) => t.class <= u.class}}
Performing == {s.id : s \in {t \in machine : Usable(t) /\ \A u \in machine : Usable(u) => u.class <= t.class}}
LowestOf(ids) == CHOOSE s \in machine :
                    s.id \in ids /\ \A t \in machine : t.id \in ids => ~LowerCpu(t, s)

\* The process gets what the strategy is documented to give: all sets but the first,
\* the efficient ones, the performing ones, the performing ones but the first of those;
\* never a set of somebody else's, and never none.
CpuSetsAreRight ==
    cpuSets # NotApplied =>
        /\ cpuSets.ids # {}
        /\ cpuSets.ids =
              CASE cpuSets.strategy = 1 -> UsableIds \ {LowestOf(UsableIds).id}
                [] cpuSets.strategy = 2 -> Efficient
                [] cpuSets.strategy = 3 -> Performing
                [] cpuSets.strategy = 4 -> Performing \ {LowestOf(Performing).id}
        /\ cpuSets.strategy \in 2..4 => Efficient # Performing

\* How near a file is to how the game names the sound.
Rank(c) == 3 * (IF c[2] = "wem/" THEN 0 ELSE IF c[2] = "wem/xx/" THEN 1 ELSE 2)
           + (CHOOSE i \in 1..3 : SoundRoots[i] = c[1])

\* A sound that a mod replaces is read from the disk, the file nearest to how the game
\* names it, as long as there is memory; others are opened as the game asked.
SoundsAreReplaced ==
    sound.done =>
        LET Named == {c \in overrides : c[2] = "" \/ (sound.asked.wem /\ sound.asked.long)}
        IN IF sound.mode = "asked"
           THEN sound.path = "original" /\ (Named = {} \/ sound.asked.huge)
           ELSE /\ sound.mode = "read" /\ sound.path \in Named
                /\ ~sound.asked.huge => \A c \in Named : Rank(sound.path) <= Rank(c)
=============================================================================
