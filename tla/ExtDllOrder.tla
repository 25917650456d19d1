---------------------------- MODULE ExtDllOrder ----------------------------
(***************************************************************************)
(* extdlls_prepare (src/src/modloader/extdll.c): the order and the stage   *)
(* in which the external DLLs of the configuration will be loaded.         *)
(*                                                                         *)
(* A DLL is its index in the configured array, 1..N.  `after` holds the    *)
(* dependencies that name an existing entry (extdll_index_by_name); the    *)
(* others only cause a warning.  The order in which one entry lists its    *)
(* dependencies does not matter to the code, so they are a set.            *)
(***************************************************************************)
EXTENDS Integers, Sequences, FiniteSetsExt

CONSTANTS N,                \* extdll_count
          Configurations    \* the configurations to prepare: after, stage

ASSUME NAssumption == N \in Nat \ {0}

Dlls == 1..N

\* extdll_stage_t, in the order of the enumerators; the text comes from
\* extdlls_add_spec.  "delay" stands for a delay of one millisecond or more,
\* a delay of 0 being a stage "delay" entry whose `delayed` is FALSE.
Early == 0
Normal == 1
DataReady == 2
Delay == 3
Stages == Early..Delay

ASSUME ConfigurationsAssumption ==
    Configurations \subseteq [after : [Dlls -> SUBSET Dlls],
                              stage : [Dlls -> Stages],
                              delayed : [Dlls -> BOOLEAN]]

VARIABLES config,     \* the configuration read by config_load
          stage,      \* extdll_t.stage
          delayed,    \* extdll_t.delay_ms # 0
          order,      \* order[], and afterwards the array of DLLs itself
          moves,      \* move_count
          cycle,      \* the dependency cycle was reported
          unsorted,   \* an allocation of the sorter failed
          main,       \* what the loader's thread does next
          pos         \* the loop variable i of its current pass
orderVars == <<config, stage, delayed, order, moves, cycle, unsorted, main, pos>>

after == config.after
Configured == [i \in Dlls |-> i]

\* stage_is_deferred: loaded by the worker.
Deferred(d) == stage[d] > Normal

OrderInit ==
    /\ config \in Configurations
    /\ stage = config.stage
    /\ delayed = config.delayed
    /\ order = Configured
    /\ moves = 0
    /\ cycle = FALSE
    /\ unsorted = FALSE
    /\ main = IF N < 2 THEN "early" ELSE "sort"
    /\ pos = 1

----------------------------------------------------------------------------
(* The sort: find the first entry with a dependency behind it and move the  *)
(* nearest such dependency directly before it.                              *)

\* Mutant: the entry right behind is not looked at.
LaterButOne(i) == {k \in Dlls : k > i + 1 /\ order[k] \in after[order[i]]}

LaterDependencies(i) == {k \in Dlls : k > i /\ order[k] \in after[order[i]]}
Misplaced == {i \in Dlls : LaterDependencies(i) # {}}

\* Mutant: the two entries are swapped.
MovedBySwap(i, k) == [order EXCEPT ![i] = order[k], ![k] = order[i]]

MovedBefore(i, k) ==
    [j \in Dlls |-> IF j = i THEN order[k]
                    ELSE IF i < j /\ j <= k THEN order[j - 1] ELSE order[j]]

\* Mutant: one move less than the longest chain of dependencies needs.
BudgetTooSmall == N - 2

\* The last move the budget allows reports a cycle; the array then keeps the
\* configured order.
Budget == N * N

Move ==
    /\ main = "sort"
    /\ Misplaced # {}
    /\ LET i == Min(Misplaced)
           moved == MovedBefore(i, Min(LaterDependencies(i)))
       IN IF moves < Budget
          THEN /\ order' = moved
               /\ moves' = moves + 1
               /\ UNCHANGED <<cycle, main>>
          ELSE /\ order' = Configured
               /\ cycle' = TRUE
               /\ main' = "promote"
               /\ UNCHANGED moves
    /\ UNCHANGED <<config, stage, delayed, unsorted, pos>>

Sorted ==
    /\ main = "sort"
    /\ Misplaced = {}
    /\ main' = "promote"
    /\ UNCHANGED <<config, stage, delayed, order, moves, cycle, unsorted, pos>>

\* `order` cannot be allocated: the function returns, the stages keep what
\* the configuration says.
NoSorter ==
    /\ main = "sort"
    /\ moves = 0
    /\ unsorted' = TRUE
    /\ main' = "early"
    /\ UNCHANGED <<config, stage, delayed, order, moves, cycle, pos>>

\* `sorted` cannot be allocated: the array stays as it is, the stages are
\* still adjusted.
NoSortedArray ==
    /\ main = "sort"
    /\ Misplaced = {}
    /\ unsorted' = TRUE
    /\ order' = Configured
    /\ main' = "promote"
    /\ UNCHANGED <<config, stage, delayed, moves, cycle, pos>>

----------------------------------------------------------------------------
(* Stages.  One step of Promote is one execution of the two inner loops'    *)
(* body for an early entry: the result of the outer loop, the closure, does *)
(* not depend on the order of these steps.                                  *)

\* Mutant: every normal entry in front.
NormalEntriesInFront(d) == {e \in Dlls : e < d /\ stage[e] = Normal}

NormalDependencies(d) == {e \in after[d] : stage[e] = Normal}

Promote ==
    /\ main = "promote"
    /\ \E d \in Dlls :
         /\ stage[d] = Early
         /\ NormalDependencies(d) # {}
         /\ stage' = [e \in Dlls |-> IF e \in NormalDependencies(d) THEN Early
                                     ELSE stage[e]]
    /\ UNCHANGED <<config, delayed, order, moves, cycle, unsorted, main, pos>>

\* Mutant: one pass, without the outer loop.
PromotedOnce ==
    /\ main = "promote"
    /\ main' = "defer"
    /\ pos' = 1
    /\ UNCHANGED <<config, stage, delayed, order, moves, cycle, unsorted>>

Promoted ==
    /\ main = "promote"
    /\ \A d \in Dlls : stage[d] = Early => NormalDependencies(d) = {}
    /\ main' = "defer"
    /\ pos' = 1
    /\ UNCHANGED <<config, stage, delayed, order, moves, cycle, unsorted>>

\* Mutant: the array is walked backwards.
DeferBackwards ==
    /\ main = "defer"
    /\ pos <= N
    /\ LET d == order[N + 1 - pos]
           later == {e \in after[d] : Deferred(e)}
       IN IF Deferred(d) \/ later = {}
          THEN UNCHANGED <<stage, delayed>>
          ELSE /\ stage' = [stage EXCEPT ![d] = Max({stage[e] : e \in later})]
               /\ delayed' = [delayed EXCEPT ![d] = FALSE]
    /\ pos' = pos + 1
    /\ UNCHANGED <<config, order, moves, cycle, unsorted, main>>

\* An entry of the main thread with a deferred dependency takes the latest
\* stage of its dependencies and no wait of its own.
Defer ==
    /\ main = "defer"
    /\ pos <= N
    /\ LET d == order[pos]
           later == {e \in after[d] : Deferred(e)}
       IN IF Deferred(d) \/ later = {}
          THEN UNCHANGED <<stage, delayed>>
          ELSE /\ stage' = [stage EXCEPT ![d] = Max({stage[e] : e \in later})]
               /\ delayed' = [delayed EXCEPT ![d] = FALSE]
    /\ pos' = pos + 1
    /\ UNCHANGED <<config, order, moves, cycle, unsorted, main>>

Prepared ==
    /\ main = "defer"
    /\ pos > N
    /\ main' = "early"
    /\ pos' = 1
    /\ UNCHANGED <<config, stage, delayed, order, moves, cycle, unsorted>>

PrepareStep ==
    \/ Move \/ Sorted \/ NoSorter \/ NoSortedArray
    \/ Promote \/ Promoted \/ Defer \/ Prepared

\* extdlls_prepare has returned.
Ready == main = "early" /\ UNCHANGED orderVars

OrderNext == PrepareStep \/ Ready
OrderSpec == OrderInit /\ [][OrderNext]_orderVars

----------------------------------------------------------------------------
(* Properties.                                                              *)

Preparing == main \in {"sort", "promote", "defer"}
Position(d) == CHOOSE i \in Dlls : order[i] = d

\* The dependencies of d and theirs, d itself only when it is on a cycle of
\* two DLLs or more (a DLL naming itself is never moved).
Grow(S) == S \cup UNION {after[e] \ {e} : e \in S}
Prerequisites(d) ==
    LET step[k \in 0..N] == IF k = 0 THEN after[d] \ {d} ELSE Grow(step[k - 1])
    IN step[N]
HasCycle == \E d \in Dlls : d \in Prerequisites(d)

\* Types of the variables; the array is always a permutation of the
\* configured entries (a lost or doubled entry would never or twice load).
OrderTypeOK ==
    /\ stage \in [Dlls -> Stages]
    /\ delayed \in [Dlls -> BOOLEAN]
    /\ order \in [Dlls -> Dlls]
    /\ \A i, j \in Dlls : order[i] = order[j] => i = j
    /\ moves \in 0..Budget
    /\ cycle \in BOOLEAN /\ unsorted \in BOOLEAN
    /\ pos \in 1..(N + 1)

\* The move budget of n*n (extdll.c:268, :295) is exact: it runs out when,
\* and only when, the dependencies really form a cycle.
CycleReportedExactly ==
    /\ cycle => HasCycle
    /\ main \in {"promote", "defer"} /\ ~unsorted => (HasCycle => cycle)

\* "the sort above put every dependency before its dependents" (extdll.c:328):
\* in an array without a reported cycle no dependency is behind its dependent.
DependenciesPrecede ==
    main # "sort" /\ ~cycle /\ ~unsorted =>
        \A i, j \in Dlls : i < j => order[j] \notin after[order[i]]

\* "This keeps unrelated entries in their original order" (extdll.c:264):
\* entries no other entry depends on are never overtaken by one another.
UnrelatedKeepOrder ==
    \A d, e \in Dlls :
        /\ d < e
        /\ \A f \in Dlls : {d, e} \cap (after[f] \ {f}) = {}
        => Position(d) < Position(e)

\* What extdll.c:264-299 says of the sort: dependencies first, nothing else moved,
\* given up exactly on cycles.
SortIsExact == CycleReportedExactly /\ DependenciesPrecede /\ UnrelatedKeepOrder

\* "A DLL can never load before its dependencies" (extdll.c:327) as far as
\* the stages go: when prepared, a dependency is loaded by an earlier phase
\* of the main thread than its dependent, or by the same pass over the array,
\* and a dependent of a deferred entry is deferred.
StagesRespectDependencies ==
    ~Preparing /\ ~cycle /\ ~unsorted =>
        \A d \in Dlls : \A e \in after[d] :
            IF Deferred(e) THEN Deferred(d) ELSE stage[e] <= stage[d]

\* Stages change for dependencies only: an entry becomes early as a prerequisite
\* of an entry configured early ("Promote only the prerequisite closure",
\* extdll.c:312), and one configured for the worker keeps the condition it was
\* configured with (extdll.c:330).
OnlyNeededStagesChange ==
    \A d \in Dlls :
        /\ stage[d] = Early /\ config.stage[d] # Early =>
              \E e \in Dlls : config.stage[e] = Early /\ d \in Prerequisites(e)
        /\ config.stage[d] > Normal =>
              stage[d] = config.stage[d] /\ delayed[d] = config.delayed[d]

\* Promotion and deferral move what dependencies need, and nothing else.
StagesFollowDependencies == StagesRespectDependencies /\ OnlyNeededStagesChange

============================================================================
