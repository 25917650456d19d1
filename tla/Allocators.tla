----------------------------- MODULE Allocators -----------------------------
(***************************************************************************)
(* The allocators the game is given (mimalloc_allocator.c, allocator.c):   *)
(* the dedicated heap and the memory it is made of, the hooks and the      *)
(* table of allocators that are replaced together, and the sizes that      *)
(* blocks are rounded to.                                                  *)
(***************************************************************************)
EXTENDS Integers, Sequences, FiniteSets

CONSTANTS Width,          \* bits of a size_t
          MinAlignment,   \* the least alignment of a block
          MaxTable,       \* number of entries a table has less than
          Sections,       \* writable sections of the image: sets of adjacent addresses
          Addresses,      \* what a signature can lead to
          GetterCalls,    \* the calls that look like the debug allocator's getter, in order
          MaxGetters,     \* number of different targets that are counted
          NoAddress

\* The powers of two a size_t goes up to.
PowerOfTwo[n \in 0..Width] == IF n = 0 THEN 1 ELSE 2 * PowerOfTwo[n - 1]
SizeMax == PowerOfTwo[Width] - 1

ASSUME SizesAssumption ==
    /\ Width \in Nat \ {0}
    /\ MinAlignment \in Nat \ {0} /\ MinAlignment <= SizeMax
    /\ MaxTable \in Nat /\ MaxGetters \in Nat \ {0}
ASSUME ImageAssumption ==
    /\ Addresses \subseteq Nat \ {NoAddress}
    /\ \A s \in Sections : s \subseteq Nat /\ \A a, b \in s : a..b \subseteq s
    /\ GetterCalls \subseteq Seq(Addresses)

Strategies == {"darkSouls3", "sekiro", "eldenRing"}

VARIABLES
    mappingFile, mappingName, \* what the environment asks for: "none", "invalid" or "given"
    held,      \* handles and memory the heap is made of
    arena,     \* how mimalloc's arena was made: "none", "mapped", "private"
    dedicated, \* there is a heap in the arena
    strategy,  \* of the game
    calls,     \* of what looks like the debug allocator's getter
    debugTarget, tableFirst, tableLast, \* what was found in the image
    hooked,    \* hooks that are in place
    stuck,     \* hooks that could not be removed
    written,   \* addresses that were overwritten
    stage      \* what is done next

heapVars  == <<mappingFile, mappingName, held, arena, dedicated>>
foundVars == <<calls, debugTarget, tableFirst, tableLast>>
allocatorVars == <<heapVars, strategy, foundVars, hooked, stuck, written, stage>>

AllocatorInit ==
    /\ mappingFile \in {"none", "invalid", "given"} /\ mappingName \in {"none", "invalid", "given"}
    /\ held = {} /\ arena = "none" /\ dedicated = FALSE
    /\ strategy \in Strategies
    /\ calls = <<>> /\ debugTarget = NoAddress /\ tableFirst = NoAddress /\ tableLast = NoAddress
    /\ hooked = {} /\ stuck = {} /\ written = {}
    /\ stage = "request"

----------------------------------------------------------------------------
(* The memory of the heap                                                   *)

UnchangedHooks == UNCHANGED <<strategy, foundVars, hooked, stuck, written>>
UnchangedHeap  == UNCHANGED <<mappingFile, mappingName, arena, dedicated>>

Request ==
    /\ stage = "request"
    /\ stage' = IF "given" \in {mappingFile, mappingName} THEN "file" ELSE "private"
    /\ UNCHANGED <<held, arena, dedicated, mappingFile, mappingName>> /\ UnchangedHooks

\* A file is created only if one is named; the system's paging file serves otherwise.
CreateMappingFile ==
    /\ stage = "file"
    /\ \/ mappingFile = "given" /\ held' = {"file"} /\ stage' = "mapping"
       \/ mappingFile # "given" /\ held' = {} /\ stage' = "mapping"
       \/ mappingFile = "given" /\ held' = {} /\ stage' = "private"
    /\ UnchangedHeap /\ UnchangedHooks

\* Mutant: the handle of a mapping that exists already is kept.
CreateMappingKept ==
    /\ stage = "mapping"
    /\ \/ held' = held \cup {"mapping"} /\ stage' = "view"
       \/ held' = {} /\ stage' = "private"
       \/ held' = {"mapping"} /\ stage' = "private"
    /\ UnchangedHeap /\ UnchangedHooks

\* No mapping, or one that somebody else has made: whatever is held is released.
CreateMapping ==
    /\ stage = "mapping"
    /\ \/ held' = held \cup {"mapping"} /\ stage' = "view"
       \/ held' = {} /\ stage' = "private"
    /\ UnchangedHeap /\ UnchangedHooks

MapView ==
    /\ stage = "view"
    /\ \/ held' = held \cup {"view"} /\ stage' = "manage"
       \/ held' = {} /\ stage' = "private"
    /\ UnchangedHeap /\ UnchangedHooks

AllocatePrivate ==
    /\ stage = "private"
    /\ \/ held' = held \cup {"private"} /\ stage' = "manage"
       \/ stage' = "prepared" /\ UNCHANGED held
    /\ UnchangedHeap /\ UnchangedHooks

\* mimalloc takes the memory over, or all of it is released.
ManageMemory ==
    /\ stage = "manage"
    /\ \/ /\ arena' = IF "private" \in held THEN "private" ELSE "mapped"
          /\ stage' = "heap" /\ UNCHANGED held
       \/ /\ held' = IF "private" \in held THEN held \ {"private"} ELSE {}
          /\ stage' = "prepared" /\ UNCHANGED arena
    /\ UNCHANGED <<mappingFile, mappingName, dedicated>> /\ UnchangedHooks

NewHeap ==
    /\ stage = "heap"
    /\ dedicated' \in BOOLEAN
    /\ stage' = "prepared"
    /\ UNCHANGED <<mappingFile, mappingName, held, arena>> /\ UnchangedHooks

----------------------------------------------------------------------------
(* What is found in the image                                               *)

\* The calls are counted in the order of the image; only so many targets are.
Counted(cs) ==
    LET Distinct(n) == {cs[i] : i \in 1..n}
    IN {cs[i] : i \in {i \in DOMAIN cs : Cardinality(Distinct(i)) <= MaxGetters}}
Calls(cs, a) == Cardinality({i \in DOMAIN cs : cs[i] = a})

\* Mutant: the first of the most frequent ones is taken.
MostFrequentFirst(cs) ==
    IF cs = <<>> THEN NoAddress
    ELSE CHOOSE a \in Counted(cs) : \A b \in Counted(cs) :
            Calls(cs, a) > Calls(cs, b) \/ (Calls(cs, a) = Calls(cs, b) /\ a <= b)

MostFrequent(cs) ==
    IF Counted(cs) = {} THEN NoAddress
    ELSE CHOOSE a \in Counted(cs) : \A b \in Counted(cs) :
            Calls(cs, a) > Calls(cs, b) \/ (Calls(cs, a) = Calls(cs, b) /\ a >= b)

\* Mutant: only the first entry is looked at.
IsTableLoose(first, last) ==
    /\ NoAddress \notin {first, last}
    /\ first <= last /\ last - first < MaxTable
    /\ \E s \in Sections : first \in s

\* A table lies in the one writable section its first entry lies in.
IsTable(first, last) ==
    /\ NoAddress \notin {first, last}
    /\ first <= last /\ last - first < MaxTable
    /\ \E s \in Sections : first \in s /\ \E a \in s : last <= a

----------------------------------------------------------------------------
(* Hooks                                                                    *)

\* The hooks that only stand together, in the order of the batch.
Required == IF strategy = "eldenRing" THEN <<"graphics", "memory">> ELSE <<"debug", "memory">>

UnchangedMemory == UNCHANGED <<heapVars, strategy>>

InstallBeforeMain ==
    /\ stage = "prepared"
    /\ \/ hooked' = {"system"} /\ stage' = "runtime"
       \/ hooked' = {} /\ stage' = "none"
    /\ UNCHANGED <<foundVars, stuck, written>> /\ UnchangedMemory

\* No table of methods, no table of allocators, no target: nothing is hooked.
Locate ==
    /\ stage = "runtime"
    /\ \E cs \in GetterCalls, d \in {NoAddress} \cup Addresses,
          first \in {NoAddress} \cup Addresses, last \in {NoAddress} \cup Addresses :
        LET target == CASE strategy = "sekiro" -> MostFrequent(cs)
                        [] strategy = "darkSouls3" -> d
                        [] OTHER -> NoAddress
            found == IsTable(first, last) /\ (strategy # "eldenRing" => target # NoAddress)
        IN /\ strategy # "darkSouls3" => d = NoAddress
           /\ strategy # "sekiro" => cs = <<>>
           /\ \/ /\ found /\ stage' = "install"
                 /\ calls' = cs /\ debugTarget' = target
                 /\ tableFirst' = first /\ tableLast' = last
              \/ stage' = "none" /\ UNCHANGED foundVars
    /\ UNCHANGED <<hooked, stuck, written>> /\ UnchangedMemory

NextRequired == {i \in DOMAIN Required : \A j \in 1..i : (j < i) <=> (Required[j] \in hooked)}

InstallRequired ==
    /\ stage = "install"
    /\ \E i \in NextRequired :
        \/ /\ hooked' = hooked \cup {Required[i]}
           /\ stage' = IF i = Len(Required) THEN "fill" ELSE "install"
        \/ stage' = "rollback" /\ UNCHANGED hooked
    /\ UNCHANGED <<foundVars, stuck, written>> /\ UnchangedMemory

\* Mutant: the hooks stay when the table cannot be written.
FillTableHooked ==
    /\ stage = "fill"
    /\ \/ written' = tableFirst..tableLast /\ stage' = "deinit"
       \/ stage' = "none" /\ UNCHANGED written
    /\ UNCHANGED <<foundVars, hooked, stuck>> /\ UnchangedMemory

FillTable ==
    /\ stage = "fill"
    /\ \/ written' = tableFirst..tableLast /\ stage' = "deinit"
       \/ stage' = "rollback" /\ UNCHANGED written
    /\ UNCHANGED <<foundVars, hooked, stuck>> /\ UnchangedMemory

\* All of the batch is taken out, also after one that cannot be.
RollBackRequired ==
    /\ stage = "rollback"
    /\ LET left == {h \in hooked \ stuck : h # "system"}
       IN IF left = {} THEN stage' = "none" /\ UNCHANGED <<hooked, stuck>>
          ELSE LET h == CHOOSE h \in left :
                            \A i, j \in DOMAIN Required :
                                Required[i] = h /\ Required[j] \in left => j <= i
               IN /\ \/ hooked' = hooked \ {h} /\ UNCHANGED stuck
                     \/ stuck' = stuck \cup {h} /\ UNCHANGED hooked
                  /\ UNCHANGED stage
    /\ UNCHANGED <<foundVars, written>> /\ UnchangedMemory

InstallDeinit ==
    /\ stage = "deinit"
    /\ \/ hooked' = hooked \cup {"deinit"}
       \/ UNCHANGED hooked
    /\ stage' = "applied"
    /\ UNCHANGED <<foundVars, stuck, written>> /\ UnchangedMemory

----------------------------------------------------------------------------
(* Blocks                                                                   *)

PowersOfTwo == {PowerOfTwo[n] : n \in 0..(Width - 1)}
NormalizedAlignment(alignment) == IF alignment < MinAlignment THEN MinAlignment ELSE alignment

\* Mutant: the sum is not checked.
RoundUpWrapped(size, alignment) ==
    IF alignment \notin PowersOfTwo THEN -1
    ELSE LET sum == (size + alignment - 1) % (SizeMax + 1) IN sum - (sum % alignment)

\* -1: refused.  A sum that would wrap is never formed.
RoundUpSize(size, alignment) ==
    IF alignment \notin PowersOfTwo THEN -1
    ELSE IF size > SizeMax - (alignment - 1) THEN -1
    ELSE LET sum == size + alignment - 1 IN sum - (sum % alignment)

AllocatorNext ==
    \/ Request \/ CreateMappingFile \/ CreateMapping \/ MapView \/ AllocatePrivate
    \/ ManageMemory \/ NewHeap
    \/ InstallBeforeMain \/ Locate \/ InstallRequired \/ FillTable \/ RollBackRequired
    \/ InstallDeinit

AllocatorSpec == AllocatorInit /\ [][AllocatorNext]_allocatorVars

----------------------------------------------------------------------------
(* Properties                                                               *)

\* Nothing of the heap is held that its arena does not need, however many attempts
\* failed before the one that led to it.
HeapHoldsWhatItNeeds ==
    stage \notin {"request", "file", "mapping", "view", "private", "manage"} =>
        /\ held = CASE arena = "none"    -> {}
                    [] arena = "private" -> {"private"}
                    [] arena = "mapped"  -> {"mapping", "view"}
                                            \cup IF mappingFile = "given" THEN {"file"} ELSE {}
        /\ dedicated => arena # "none"

\* The game's allocators are replaced together: once all is settled, either the table is
\* written and every required hook in place, or neither.
ReplacedTogether ==
    /\ stage \in {"deinit", "applied"} =>
          written # {} /\ {Required[i] : i \in DOMAIN Required} \cup {"system"} \subseteq hooked
    /\ stage = "none" => written = {} /\ hooked \ {"system"} = stuck

\* What is overwritten lies in one writable section, and a debug getter that is hooked is
\* the one most calls lead to.
TargetsAreRight ==
    /\ written # {} => \E s \in Sections : written \subseteq s
    /\ strategy = "sekiro" /\ debugTarget # NoAddress /\ Cardinality({calls[i] : i \in DOMAIN calls}) <= MaxGetters
          => \A i \in DOMAIN calls :
                /\ Calls(calls, calls[i]) <= Calls(calls, debugTarget)
                /\ Calls(calls, calls[i]) = Calls(calls, debugTarget) => calls[i] <= debugTarget

\* A block is as large as asked for and no larger than its alignment makes it; a size
\* without such a block is refused.
SizesAreRounded ==
    stage = "prepared" => \A size \in 0..SizeMax, asked \in 0..SizeMax :
        LET alignment == NormalizedAlignment(asked)
            fits == {s \in size..SizeMax : s % alignment = 0}
        IN RoundUpSize(size, alignment) =
              IF alignment \notin PowersOfTwo \/ fits = {} THEN -1
              ELSE CHOOSE s \in fits : \A t \in fits : s <= t

\* The game has its own allocators or complete ones, and memory that is not lost.
AllocatorsAreSound ==
    HeapHoldsWhatItNeeds /\ ReplacedTogether /\ TargetsAreRight /\ SizesAreRounded
=============================================================================
