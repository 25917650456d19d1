---------------------------- MODULE LoadProofs ----------------------------
(***************************************************************************)
(* Proofs about how the game comes up with the loader and the DLLs in it.  *)
(*                                                                         *)
(* ExtDll, for any number of DLLs and any configurations of dependencies   *)
(* and stages: over the early pass, the normal pass and the worker no DLL  *)
(* is tried before what it depends on, before the game's data is read      *)
(* when it has to wait for that, or after a failed early stage, and none   *)
(* is freed before those that depend on it.  The sort that this rests on   *)
(* is exact: it ends in dependency order within its n*n moves unless the   *)
(* dependencies form a cycle, and moves nothing that no entry needs.       *)
(*                                                                         *)
(* Launcher, for any games, command lines and libraries: whatever call     *)
(* fails and whenever the game dies, the game runs initialised or not at   *)
(* all, and a launch leaves nothing behind.                                *)
(*                                                                         *)
(* Vdf, by which the launcher finds the games, for any text and any depth: *)
(* wherever it is malformed and whichever object there is no memory for,   *)
(* an object has one owner until it is freed, and is freed or the tree's.  *)
(***************************************************************************)
EXTENDS ExtDll, Launcher, Vdf, FiniteSetTheorems, SequenceTheorems, WellFoundedInduction, TLAPS

\* Stages of the loader's thread: extdlls_prepare, before_game_main, the observers of
\* AFTER_RUNTIME_INIT and what comes after them.
Phases == {"sort", "promote", "defer", "early", "runtime", "normal", "game"}

\* The types, the steps of the four threads included; the array holds every entry once.
Types ==
  /\ config \in Configurations
  /\ stage \in [Dlls -> Stages] /\ delayed \in [Dlls -> BOOLEAN]
  /\ order \in [Dlls -> Dlls]
  /\ \A i, j \in Dlls : order[i] = order[j] => i = j
  /\ \A d \in Dlls : \E i \in Dlls : order[i] = d
  /\ moves \in 0..Budget
  /\ cycle \in BOOLEAN /\ unsorted \in BOOLEAN
  /\ main \in Phases /\ pos \in 1..(N + 1)
  /\ beforeMain \in {-1, 0, 1} /\ allLoaded \in BOOLEAN
  /\ attempts \in Seq(Dlls) /\ modules \in Seq(Dlls) /\ initialized \subseteq Dlls
  /\ triggered \in BOOLEAN /\ dataReady \in BOOLEAN
  /\ events \in {{}, {"cancel"}, {"cancel", "data_ready"}}
  /\ cancel \in BOOLEAN /\ released \in BOOLEAN
  /\ worker \in {"none", "start", "walk", "checked", "load", "returned", "exited"}
  /\ wpos \in 1..(N + 1)
  /\ unload \in {"no", "join", "free", "done"}

\* The sort did its work.
InOrder == ~cycle /\ ~unsorted

\* Promotion has ended: no early entry needs a normal one.  Deferral has come to pos.
StageInv ==
  InOrder =>
    /\ main \notin {"sort", "promote"} =>
         \A d \in Dlls : \A e \in after[d] : stage[d] = Early => stage[e] # Normal
    /\ main = "defer" =>
         \A i \in Dlls : i < pos =>
           \A e \in after[order[i]] : Deferred(e) => Deferred(order[i])

\* Where the main thread stands, against the result of before_game_main and the worker.
MainInv ==
  /\ main \in {"sort", "promote", "defer", "early"} => beforeMain = 0
  /\ Preparing => attempts = <<>>
  /\ main = "sort" => pos = 1
  /\ main = "normal" => beforeMain = 1
  /\ worker # "none" => main = "game" /\ beforeMain = 1
  /\ main # "game" => wpos = 1
  /\ unload # "no" => main = "game"
  /\ unload \in {"free", "done"} => worker = "none"

\* Only early entries were tried before load_extdlls_after_runtime finds a success.
EarlyInv ==
  main \in {"early", "runtime"} \/ beforeMain # 1 =>
    \A i \in DOMAIN attempts : stage[attempts[i]] = Early

\* What each pass has behind it.
Tried(s, n) == \A i \in Dlls : i < n /\ stage[order[i]] = s => Attempted(order[i])
PassInv ==
  /\ main = "early" => Tried(Early, pos)
  /\ main \in {"runtime", "normal", "game"} /\ beforeMain = 1 => Tried(Early, N + 1)
  /\ main = "normal" => Tried(Normal, pos)
  /\ worker # "none" => Tried(Normal, N + 1)
  /\ worker \in {"start", "walk", "checked", "load"} =>
       \A i \in Dlls : i < wpos /\ Deferred(order[i]) => Attempted(order[i])

\* What the worker has seen before it loads an entry.
WaitInv ==
  /\ released => dataReady
  /\ worker \in {"checked", "load"} =>
       /\ wpos <= N /\ Deferred(order[wpos])
       /\ stage[order[wpos]] = DataReady => dataReady

\* Loaded modules were tried, an initialized one is loaded until the modules are freed,
\* and the list of modules has an initialized dependency before its dependent.
ModulesInv ==
  /\ \A i \in DOMAIN modules : Attempted(modules[i])
  /\ \A d \in initialized : Attempted(d) /\ (unload \in {"no", "join"} => Loaded(d))
  /\ InOrder =>
       \A i \in DOMAIN modules : \A e \in after[modules[i]] \ {modules[i]} :
         e \in initialized => \E j \in 1..(i - 1) : modules[j] = e

IInv ==
  /\ Types /\ DependenciesPrecede /\ StageInv /\ StagesRespectDependencies
  /\ MainInv /\ EarlyInv /\ PassInv /\ WaitInv
  /\ DependenciesLoadFirst /\ ModulesInv /\ NothingBeforeDataReady

----------------------------------------------------------------------------
(* The constants, and the library's operators.                              *)

\* What is assumed of the configurations.
LEMMA AfterIsRelation ==
  ASSUME config \in Configurations
  PROVE  /\ N \in Nat /\ N > 0
         /\ after \in [Dlls -> SUBSET Dlls] /\ config.stage \in [Dlls -> Stages]
         /\ config.delayed \in [Dlls -> BOOLEAN]
BY NAssumption, ConfigurationsAssumption DEF after

\* A set of naturals has a least element.
LEMMA MinIsMember ==
  ASSUME NEW S, S \subseteq Nat, S # {}
  PROVE  Min(S) \in S
<1>1. \E x \in S : \A y \in S : ~(<<y, x>> \in OpToRel(<, Nat))
  BY NatLessThanWellFounded, WFMin
<1>2. PICK x \in S : \A y \in S : ~(<<y, x>> \in OpToRel(<, Nat))
  BY <1>1
<1>3. \A y \in S : x <= y
  <2> SUFFICES ASSUME NEW y \in S PROVE x <= y
    OBVIOUS
  <2>1. ~(y < x)
    BY <1>2 DEF OpToRel
  <2> QED BY <2>1
<1> QED BY <1>3 DEF Min

\* It is not above any other.
LEMMA MinIsLeast ==
  ASSUME NEW S, S \subseteq Nat, S # {}
  PROVE  \A y \in S : Min(S) <= y
<1>1. \E x \in S : \A y \in S : ~(<<y, x>> \in OpToRel(<, Nat))
  BY NatLessThanWellFounded, WFMin
<1>2. PICK x \in S : \A y \in S : ~(<<y, x>> \in OpToRel(<, Nat))
  BY <1>1
<1>3. \A y \in S : x <= y
  <2> SUFFICES ASSUME NEW y \in S PROVE x <= y
    OBVIOUS
  <2>1. ~(y < x)
    BY <1>2 DEF OpToRel
  <2> QED BY <2>1
<1> QED BY <1>3 DEF Min

\* The latest of some deferred stages is one of them.
LEMMA MaxIsMember ==
  ASSUME NEW S, S \subseteq {DataReady, Delay}, S # {}
  PROVE  Max(S) \in S
<1> USE DEF DataReady, Delay
<1>1. CASE Delay \in S
  <2>1. \A y \in S : Delay >= y
    OBVIOUS
  <2> QED BY <1>1, <2>1 DEF Max
<1>2. CASE Delay \notin S
  <2>1. S = {DataReady}
    BY <1>2
  <2> QED BY <2>1 DEF Max
<1> QED BY <1>1, <1>2

LEMMA LatestIsDeferred ==
  ASSUME Types, NEW d \in Dlls, {e \in after[d] : Deferred(e)} # {}
  PROVE  Max({stage[e] : e \in {f \in after[d] : Deferred(f)}}) \in {DataReady, Delay}
<1> DEFINE S == {stage[e] : e \in {f \in after[d] : Deferred(f)}}
<1>0. after \in [Dlls -> SUBSET Dlls] /\ stage \in [Dlls -> Stages]
  BY AfterIsRelation DEF Types
<1>1. S \subseteq {DataReady, Delay} /\ S # {}
  BY <1>0 DEF Deferred, Stages, Early, Normal, DataReady, Delay
<1> QED BY <1>1, MaxIsMember

\* Appending one element.
LEMMA Appended ==
  ASSUME NEW S, NEW s \in Seq(S), NEW x \in S
  PROVE  /\ Append(s, x) \in Seq(S)
         /\ DOMAIN Append(s, x) = DOMAIN s \cup {Len(s) + 1}
         /\ DOMAIN s = 1..Len(s) /\ Len(s) \in Nat
         /\ \A i \in DOMAIN s : Append(s, x)[i] = s[i]
         /\ Append(s, x)[Len(s) + 1] = x
OBVIOUS

----------------------------------------------------------------------------
(* extdlls_prepare.                                                         *)

\* Moving an entry forward keeps every entry in the array, once.
LEMMA MovedIsPermutation ==
  ASSUME Types, NEW i \in Dlls, NEW k \in Dlls, i < k
  PROVE  LET moved == MovedBefore(i, k)
         IN /\ moved \in [Dlls -> Dlls]
            /\ \A j, m \in Dlls : moved[j] = moved[m] => j = m
            /\ \A d \in Dlls : \E j \in Dlls : moved[j] = d
<1> DEFINE from(j) == IF j = i THEN k ELSE IF i < j /\ j <= k THEN j - 1 ELSE j
<1>0. N \in Nat /\ order \in [Dlls -> Dlls]
  BY AfterIsRelation DEF Types
<1>1. \A j \in Dlls : from(j) \in Dlls /\ MovedBefore(i, k)[j] = order[from(j)]
  BY <1>0 DEF Dlls, MovedBefore
<1>2. \A j, m \in Dlls : from(j) = from(m) => j = m
  BY <1>0 DEF Dlls
<1>3. \A m \in Dlls : \E j \in Dlls : from(j) = m
  <2> SUFFICES ASSUME NEW m \in Dlls PROVE \E j \in Dlls : from(j) = m
    OBVIOUS
  <2>1. CASE m = k
    BY <2>1
  <2>2. CASE i <= m /\ m < k
    <3>1. m + 1 \in Dlls /\ from(m + 1) = m
      BY <1>0, <2>2 DEF Dlls
    <3> QED BY <3>1
  <2>3. CASE m < i \/ k < m
    <3>1. from(m) = m
      BY <1>0, <2>3 DEF Dlls
    <3> QED BY <3>1
  <2> QED BY <1>0, <2>1, <2>2, <2>3 DEF Dlls
<1> HIDE DEF from
<1>4. MovedBefore(i, k) \in [Dlls -> Dlls]
  BY <1>0, <1>1 DEF MovedBefore
<1>5. \A j, m \in Dlls : MovedBefore(i, k)[j] = MovedBefore(i, k)[m] => j = m
  BY <1>1, <1>2 DEF Types
<1>6. \A d \in Dlls : \E j \in Dlls : MovedBefore(i, k)[j] = d
  <2> SUFFICES ASSUME NEW d \in Dlls PROVE \E j \in Dlls : MovedBefore(i, k)[j] = d
    OBVIOUS
  <2>1. PICK m \in Dlls : order[m] = d
    BY DEF Types
  <2>2. PICK j \in Dlls : from(j) = m
    BY <1>3
  <2> QED BY <1>1, <2>1, <2>2
<1> QED BY <1>4, <1>5, <1>6

\* A step of the sort keeps the types.
LEMMA MoveTypes ==
  ASSUME Types, Move, UNCHANGED loadVars
  PROVE  Types'
<1> DEFINE i == Min(Misplaced)
           k == Min(LaterDependencies(i))
<1>0. N \in Nat /\ Dlls \subseteq Nat /\ Budget \in Nat
  BY AfterIsRelation DEF Types, Dlls, Budget
<1>1. i \in Misplaced
  BY <1>0, MinIsMember DEF Move, Misplaced
<1>2. k \in LaterDependencies(i)
  BY <1>0, <1>1, MinIsMember DEF Misplaced, LaterDependencies
<1>3. i \in Dlls /\ k \in Dlls /\ i < k
  BY <1>0, <1>1, <1>2 DEF Misplaced, LaterDependencies
<1>4. order' \in [Dlls -> Dlls] /\ (\A j, m \in Dlls : order'[j] = order'[m] => j = m)
      /\ \A d \in Dlls : \E j \in Dlls : order'[j] = d
  <2>1. CASE order' = MovedBefore(i, k)
    BY <1>3, <2>1, MovedIsPermutation
  <2>2. CASE order' = Configured
    BY <2>2 DEF Configured
  <2> QED BY <2>1, <2>2 DEF Move
<1>5. moves' \in 0..Budget /\ cycle' \in BOOLEAN /\ main' \in Phases
  <2>1. moves \in Nat /\ moves <= Budget /\ cycle \in BOOLEAN /\ main \in Phases
    BY <1>0 DEF Types
  <2>2. \/ moves < Budget /\ moves' = moves + 1 /\ UNCHANGED <<cycle, main>>
        \/ moves' = moves /\ cycle' = TRUE /\ main' = "promote"
    BY DEF Move
  <2>3. moves' \in Nat /\ moves' <= Budget
    BY <1>0, <2>1, <2>2
  <2>4. moves' \in 0..Budget
    BY <1>0, <2>3
  <2> QED BY <2>1, <2>2, <2>4 DEF Phases
<1>6. UNCHANGED <<config, stage, delayed, unsorted, pos, loadVars>>
  BY DEF Move
<1> QED BY <1>4, <1>5, <1>6 DEF Types, loadVars

\* The other steps of extdlls_prepare keep the types.
LEMMA PrepareTypes ==
  ASSUME Types, PrepareStep, UNCHANGED loadVars
  PROVE  Types'
<1> USE DEF Types, Phases, loadVars
<1>0. N \in Nat /\ Dlls \subseteq Nat
  BY AfterIsRelation DEF Dlls
<1>1. CASE Move
  BY <1>1, MoveTypes
<1>2. CASE Sorted \/ NoSorter
  <2>1. unsorted' \in BOOLEAN /\ main' \in Phases
    BY <1>2 DEF Sorted, NoSorter
  <2>2. UNCHANGED <<config, stage, delayed, order, moves, cycle, pos>>
    BY <1>2 DEF Sorted, NoSorter
  <2> QED BY <2>1, <2>2
<1>3. CASE NoSortedArray
  BY <1>3 DEF NoSortedArray, Configured
<1>4. CASE Promote
  <2>1. stage' \in [Dlls -> Stages]
    BY <1>4 DEF Promote, Stages, Early, Delay
  <2> QED BY <1>4, <2>1 DEF Promote
<1>5. CASE Promoted \/ Prepared
  <2>1. pos' \in 1..(N + 1) /\ main' \in Phases
    BY <1>0, <1>5 DEF Promoted, Prepared
  <2>2. UNCHANGED <<config, stage, delayed, order, moves, cycle, unsorted>>
    BY <1>5 DEF Promoted, Prepared
  <2> QED BY <2>1, <2>2
<1>6. CASE Defer
  <2> DEFINE d == order[pos]
             later == {e \in after[d] : Deferred(e)}
  <2>1. pos \in Dlls /\ d \in Dlls /\ pos' = pos + 1
    BY <1>0, <1>6 DEF Defer, Dlls
  <2>2. CASE Deferred(d) \/ later = {}
    <3>1. UNCHANGED <<config, stage, delayed, order, moves, cycle, unsorted, main>>
      BY <1>6, <2>2 DEF Defer
    <3>2. pos' \in 1..(N + 1)
      BY <1>0, <2>1 DEF Dlls
    <3> QED BY <3>1, <3>2
  <2>3. CASE ~Deferred(d) /\ later # {}
    <3>1. /\ stage' = [stage EXCEPT ![d] = Max({stage[e] : e \in later})]
          /\ delayed' = [delayed EXCEPT ![d] = FALSE]
          /\ UNCHANGED <<config, order, moves, cycle, unsorted, main>>
      BY <1>6, <2>3 DEF Defer
    <3>2. Max({stage[e] : e \in later}) \in {DataReady, Delay}
      BY <2>1, <2>3, LatestIsDeferred
    <3>3. stage' \in [Dlls -> Stages] /\ delayed' \in [Dlls -> BOOLEAN] /\ pos' \in 1..(N + 1)
      BY <1>0, <2>1, <3>1, <3>2 DEF Stages, Early, DataReady, Delay, Dlls
    <3> QED BY <3>1, <3>3
  <2> QED BY <2>2, <2>3
<1> QED BY <1>1, <1>2, <1>3, <1>4, <1>5, <1>6 DEF PrepareStep

\* When the sort ends by itself no dependency is behind its dependent.
LEMMA SortedInOrder ==
  ASSUME Types, DependenciesPrecede, PrepareStep, UNCHANGED loadVars
  PROVE  DependenciesPrecede'
<1> USE DEF DependenciesPrecede, after
<1>1. CASE Move
  BY <1>1 DEF Move
<1>2. CASE Sorted
  BY <1>2 DEF Sorted, Misplaced, LaterDependencies
<1>3. CASE NoSorter \/ NoSortedArray
  BY <1>3 DEF NoSorter, NoSortedArray
<1>4. CASE Promote \/ Promoted \/ Defer \/ Prepared
  BY <1>4 DEF Promote, Promoted, Defer, Prepared
<1> QED BY <1>1, <1>2, <1>3, <1>4 DEF PrepareStep

\* Deferral passes a DLL on to the worker once for all: its dependencies are before it.
LEMMA DeferKeepsStages ==
  ASSUME Types, DependenciesPrecede, StageInv, Defer
  PROVE  StageInv'
<1>0. /\ N \in Nat /\ Dlls \subseteq Nat /\ after \in [Dlls -> SUBSET Dlls]
      /\ stage \in [Dlls -> Stages] /\ order \in [Dlls -> Dlls]
  BY AfterIsRelation DEF Types, Dlls
<1>a. pos \in Dlls /\ main = "defer" /\ pos' = pos + 1
  BY <1>0 DEF Types, Defer, Dlls
<1>d. PICK d \in Dlls : d = order[pos]
  BY <1>0, <1>a
<1> DEFINE later == {e \in after[d] : Deferred(e)}
<1>1. pos \in Dlls /\ d = order[pos] /\ main = "defer" /\ pos' = pos + 1
  BY <1>a, <1>d
<1>2. UNCHANGED <<config, order, cycle, unsorted, main>>
  BY DEF Defer
<1> SUFFICES ASSUME InOrder PROVE StageInv'
  BY <1>2 DEF StageInv, InOrder
<1>3. /\ \A c \in Dlls : \A e \in after[c] : stage[c] = Early => stage[e] # Normal
      /\ \A i \in Dlls : i < pos => \A e \in after[order[i]] : Deferred(e) => Deferred(order[i])
      /\ \A i, j \in Dlls : i < j => order[j] \notin after[order[i]]
  BY <1>1 DEF StageInv, InOrder, DependenciesPrecede
<1>4. CASE Deferred(d) \/ later = {}
  <2>1. UNCHANGED stage
    BY <1>1, <1>4 DEF Defer
  <2>2. \A e \in after[d] : Deferred(e) => Deferred(d)
    BY <1>4
  <2>3. \A i \in Dlls : i < pos' => \A e \in after[order[i]] : Deferred(e) => Deferred(order[i])
    BY <1>0, <1>1, <1>3, <2>2
  <2> QED BY <1>2, <1>3, <2>1, <2>3 DEF StageInv, InOrder, Deferred, after
<1>5. CASE ~Deferred(d) /\ later # {}
  <2>1. stage' = [stage EXCEPT ![d] = Max({stage[e] : e \in later})]
    BY <1>1, <1>5 DEF Defer
  <2>2. Max({stage[e] : e \in later}) \in {DataReady, Delay}
    BY <1>1, <1>5, LatestIsDeferred
  <2>3. /\ stage'[d] \in {DataReady, Delay} /\ \A e \in Dlls \ {d} : stage'[e] = stage[e]
    BY <1>0, <1>1, <2>1, <2>2
  <2>4. stage'[d] > Normal
    BY <2>3 DEF DataReady, Delay, Normal
  <2>5. \A c \in Dlls : \A e \in after[c] : stage'[c] = Early => stage'[e] # Normal
    BY <1>0, <1>1, <1>3, <2>3 DEF DataReady, Delay, Normal, Early
  <2>6. \A i \in Dlls : i < pos' =>
          \A e \in after[order[i]] : stage'[e] > Normal => stage'[order[i]] > Normal
    <3> SUFFICES ASSUME NEW i \in Dlls, i < pos', NEW e \in after[order[i]], stage'[e] > Normal
                 PROVE  stage'[order[i]] > Normal
      OBVIOUS
    <3>1. order[i] \in Dlls /\ e \in Dlls
      BY <1>0
    <3>2. CASE order[i] = d
      BY <2>4, <3>2
    <3>3. CASE order[i] # d
      <4>1. i < pos
        BY <1>0, <1>1, <3>3
      <4>2. e # d
        BY <1>1, <1>3, <4>1
      <4>3. stage[e] > Normal
        BY <2>3, <3>1, <4>2
      <4> QED BY <1>3, <2>3, <3>1, <3>3, <4>1, <4>3 DEF Deferred
    <3> QED BY <3>2, <3>3
  <2> QED BY <1>2, <2>5, <2>6 DEF StageInv, InOrder, Deferred, after
<1> QED BY <1>4, <1>5

\* Promotion ends when it is closed, deferral when it has come to the end.
LEMMA PrepareStages ==
  ASSUME Types, DependenciesPrecede, StageInv, StagesRespectDependencies, PrepareStep, UNCHANGED loadVars
  PROVE  StageInv' /\ StagesRespectDependencies'
<1>0. /\ N \in Nat /\ Dlls \subseteq Nat /\ after \in [Dlls -> SUBSET Dlls]
      /\ stage \in [Dlls -> Stages] /\ order \in [Dlls -> Dlls]
  BY AfterIsRelation DEF Types, Dlls
<1>1. CASE Move \/ Sorted \/ NoSorter \/ NoSortedArray
  BY <1>1 DEF Move, Sorted, NoSorter, NoSortedArray, StageInv, StagesRespectDependencies,
     InOrder, Preparing
<1>2. CASE Promote
  BY <1>2 DEF Promote, StageInv, StagesRespectDependencies, Preparing
<1>3. CASE Promoted
  <2>1. \A d \in Dlls : \A e \in after[d] : stage[d] = Early => stage[e] # Normal
    BY <1>0, <1>3 DEF Promoted, NormalDependencies
  <2> QED BY <1>0, <1>3, <2>1 DEF Promoted, StageInv, StagesRespectDependencies, Preparing, after, Dlls
<1>4. CASE Defer
  BY <1>4, DeferKeepsStages DEF Defer, StagesRespectDependencies, Preparing
<1>5. CASE Prepared
  <2>1. UNCHANGED <<config, stage, order, cycle, unsorted>> /\ main = "defer" /\ main' = "early" /\ pos > N
    BY <1>5 DEF Prepared
  <2>2. StageInv'
    BY <2>1 DEF StageInv, InOrder, Deferred, after
  <2>3. ASSUME InOrder, NEW d \in Dlls, NEW e \in after[d]
        PROVE  IF Deferred(e) THEN Deferred(d) ELSE stage[e] <= stage[d]
    <3>1. PICK i \in Dlls : order[i] = d
      BY DEF Types
    <3>2. i < pos
      BY <1>0, <2>1 DEF Types, Dlls
    <3>3. Deferred(e) => Deferred(d)
      BY <2>1, <2>3, <3>1, <3>2 DEF StageInv
    <3>4. stage[d] = Early => stage[e] # Normal
      BY <2>1, <2>3 DEF StageInv
    <3>5. stage[d] \in Stages /\ stage[e] \in Stages
      BY <1>0
    <3> QED BY <3>3, <3>4, <3>5 DEF Deferred, Stages, Early, Normal, Delay
  <2>4. StagesRespectDependencies'
    BY <2>1, <2>3 DEF StagesRespectDependencies, InOrder, Deferred, after
  <2> QED BY <2>2, <2>4
<1> QED BY <1>1, <1>2, <1>3, <1>4, <1>5 DEF PrepareStep

\* Nothing has been tried while extdlls_prepare runs, so that what is said of attempts holds
\* however stages and array change.
LEMMA PrepareLists ==
  ASSUME Types, MainInv, ModulesInv, WaitInv, PrepareStep, UNCHANGED loadVars
  PROVE  /\ MainInv' /\ EarlyInv' /\ PassInv' /\ WaitInv'
         /\ DependenciesLoadFirst' /\ ModulesInv' /\ NothingBeforeDataReady'
<1>0. Types' /\ N \in Nat
  BY AfterIsRelation, PrepareTypes DEF Types
<1>a. order' \in [Dlls -> Dlls] /\ \A i \in Dlls : ~(i < 1)
  BY <1>0 DEF Types, Dlls
<1> USE DEF loadVars
<1>1. /\ Preparing /\ attempts = <<>> /\ beforeMain = 0 /\ worker = "none"
      /\ main' \in {"promote", "defer", "early"} \/ (main' = "sort" /\ UNCHANGED <<main, pos>>)
      /\ main' = "early" => pos' = 1
  BY DEF MainInv, Preparing, PrepareStep, Move, Sorted, NoSorter, NoSortedArray, Promote, Promoted,
         Defer, Prepared
<1>2. DOMAIN attempts' = {} /\ DOMAIN modules' = {} /\ initialized' = {}
  <2>1. DOMAIN attempts = {} /\ \A d : ~Attempted(d)
    BY <1>1 DEF Attempted
  <2>2. DOMAIN modules = {} /\ initialized = {}
    BY <2>1 DEF ModulesInv
  <2> QED BY <2>1, <2>2
<1>3. MainInv'
  BY <1>1 DEF MainInv, Preparing
<1>4. EarlyInv' /\ NothingBeforeDataReady' /\ DependenciesLoadFirst'
  BY <1>2 DEF EarlyInv, NothingBeforeDataReady, DependenciesLoadFirst
<1>5. PassInv'
  <2>1. main' \notin {"runtime", "normal", "game"} /\ worker' = "none"
    BY <1>1 DEF Preparing
  <2>2. main' = "early" => Tried(Early, 1)'
    BY <1>a DEF Tried
  <2> QED BY <1>1, <2>1, <2>2 DEF PassInv, Tried
<1>6. WaitInv'
  BY <1>1 DEF WaitInv
<1>7. ModulesInv'
  BY <1>2 DEF ModulesInv
<1> QED BY <1>3, <1>4, <1>5, <1>6, <1>7

----------------------------------------------------------------------------
(* The passes.                                                              *)

\* Once extdlls_prepare has returned, order and stages stay as they are.
LEMMA OrderKept ==
  ASSUME DependenciesPrecede, StageInv, StagesRespectDependencies, MainWalks,
         (~Preparing /\ ~Preparing') \/ UNCHANGED <<main, pos>>
  PROVE  DependenciesPrecede' /\ StageInv' /\ StagesRespectDependencies'
BY DEF DependenciesPrecede, StageInv, StagesRespectDependencies, InOrder, Deferred, Preparing,
       MainWalks, after

\* Steps that load nothing.
LEMMA ListsKept ==
  ASSUME DependenciesLoadFirst, ModulesInv, NothingBeforeDataReady, MainWalks,
         UNCHANGED <<attempts, modules, initialized>>,
         unload' \in {"no", "join"} => unload \in {"no", "join"}, dataReady => dataReady'
  PROVE  DependenciesLoadFirst' /\ ModulesInv' /\ NothingBeforeDataReady'
BY DEF DependenciesLoadFirst, ModulesInv, NothingBeforeDataReady, InOrder, Attempted, Loaded,
       MainWalks, after

\* What load_extdll_one and preload_extdll_one do to the lists, for a DLL whose dependencies
\* were tried and which need not wait.
LEMMA Loads ==
  ASSUME Types, DependenciesLoadFirst, ModulesInv, NothingBeforeDataReady, MainWalks,
         NEW d \in Dlls, NEW ok \in BOOLEAN, LoadExtdllOne(d, ok),
         InOrder => \A e \in after[d] \ {d} : Attempted(e),
         stage[d] = DataReady => dataReady, UNCHANGED dataReady,
         unload \in {"no", "join"}, UNCHANGED unload
  PROVE  /\ attempts' \in Seq(Dlls) /\ modules' \in Seq(Dlls) /\ initialized' \subseteq Dlls
         /\ Attempted(d)' /\ \A x : Attempted(x) => Attempted(x)'
         /\ \A i \in DOMAIN attempts' : attempts'[i] = d \/ \E j \in DOMAIN attempts : attempts'[i] = attempts[j]
         /\ DependenciesLoadFirst' /\ ModulesInv' /\ NothingBeforeDataReady'
<1>0. attempts \in Seq(Dlls) /\ modules \in Seq(Dlls) /\ initialized \subseteq Dlls
  BY DEF Types
<1>k. UNCHANGED <<config, stage, after>> /\ (InOrder' <=> InOrder)
  BY DEF MainWalks, after, InOrder
<1>1. CASE Attempted(d)
  <2>1. UNCHANGED <<attempts, modules, initialized>>
    BY <1>1 DEF LoadExtdllOne
  <2> QED BY <1>0, <1>1, <2>1, ListsKept DEF Attempted
<1>2. CASE ~Attempted(d)
  <2>1. /\ attempts' = Append(attempts, d)
        /\ \/ modules' = Append(modules, d) /\ initialized' \subseteq initialized \cup {d}
                                            /\ initialized \subseteq initialized'
           \/ modules' = modules /\ UNCHANGED initialized
    BY <1>2 DEF LoadExtdllOne
  <2>2. /\ attempts' \in Seq(Dlls) /\ DOMAIN attempts' = DOMAIN attempts \cup {Len(attempts) + 1}
        /\ DOMAIN attempts = 1..Len(attempts) /\ Len(attempts) \in Nat
        /\ \A i \in DOMAIN attempts : attempts'[i] = attempts[i]
        /\ attempts'[Len(attempts) + 1] = d
    BY <1>0, <2>1, Appended
  <2>3. Attempted(d)' /\ \A x : Attempted(x) => Attempted(x)'
    BY <2>2 DEF Attempted
  <2>4. \A i \in DOMAIN attempts' : attempts'[i] = d \/ \E j \in DOMAIN attempts : attempts'[i] = attempts[j]
    BY <2>2
  <2>5. DependenciesLoadFirst'
    <3> SUFFICES ASSUME InOrder, NEW i \in DOMAIN attempts', NEW e \in after[attempts'[i]] \
       {attempts'[i]}
                 PROVE  \E j \in 1..(i - 1) : attempts'[j] = e
      BY <1>k DEF DependenciesLoadFirst, InOrder
    <3>1. CASE i \in DOMAIN attempts
      <4>1. PICK j \in 1..(i - 1) : attempts[j] = e
        BY <2>2, <3>1 DEF DependenciesLoadFirst, InOrder
      <4>2. j \in DOMAIN attempts
        BY <2>2, <3>1
      <4> QED BY <2>2, <4>1, <4>2
    <3>2. CASE i = Len(attempts) + 1
      <4>1. PICK j \in DOMAIN attempts : attempts[j] = e
        BY <2>2, <3>2 DEF Attempted
      <4> QED BY <2>2, <3>2, <4>1
    <3> QED BY <2>2, <3>1, <3>2
  <2>6. NothingBeforeDataReady'
    BY <1>k, <2>4 DEF NothingBeforeDataReady
  <2>7. modules' \in Seq(Dlls) /\ initialized' \subseteq Dlls
    <3>1. Append(modules, d) \in Seq(Dlls)
      BY <1>0
    <3> QED BY <1>0, <2>1, <3>1
  <2>8. ModulesInv'
    <3>1. \A i \in DOMAIN modules : modules[i] # d
      BY <1>2 DEF ModulesInv
    <3>2. InOrder => \A i \in DOMAIN modules : d \notin after[modules[i]]
      <4> SUFFICES ASSUME InOrder, NEW i \in DOMAIN modules, d \in after[modules[i]] PROVE FALSE
        OBVIOUS
      <4>1. PICK k \in DOMAIN attempts : attempts[k] = modules[i]
        BY DEF ModulesInv, Attempted
      <4>2. PICK j \in 1..(k - 1) : attempts[j] = d
        BY <3>1, <4>1 DEF DependenciesLoadFirst, InOrder
      <4> QED BY <1>2, <2>2, <4>1, <4>2 DEF Attempted
    <3>3. CASE modules' = modules /\ UNCHANGED initialized
      BY <1>k, <2>3, <3>3 DEF ModulesInv, Loaded
    <3>4. CASE modules' = Append(modules, d) /\ initialized' \subseteq initialized \cup {d}
      <4>1. /\ DOMAIN modules' = DOMAIN modules \cup {Len(modules) + 1}
            /\ DOMAIN modules = 1..Len(modules) /\ Len(modules) \in Nat
            /\ \A i \in DOMAIN modules : modules'[i] = modules[i]
            /\ modules'[Len(modules) + 1] = d
        BY <1>0, <3>4, Appended
      <4>2. \A i \in DOMAIN modules' : \E j \in DOMAIN attempts' : attempts'[j] = modules'[i]
        <5> SUFFICES ASSUME NEW i \in DOMAIN modules'
            PROVE \E j \in DOMAIN attempts' : attempts'[j] = modules'[i]
          OBVIOUS
        <5>1. CASE i \in DOMAIN modules
          BY <2>2, <4>1, <5>1 DEF ModulesInv, Attempted
        <5>2. CASE i = Len(modules) + 1
          BY <2>2, <4>1, <5>2
        <5> QED BY <4>1, <5>1, <5>2
      <4>3. \A x \in initialized' : Attempted(x)' /\ Loaded(x)'
        <5>1. Loaded(d)' /\ \A x : Loaded(x) => Loaded(x)'
          BY <4>1 DEF Loaded
        <5> QED BY <2>3, <3>4, <5>1 DEF ModulesInv
      <4>4. ASSUME InOrder, NEW i \in DOMAIN modules', NEW e \in after[modules'[i]] \ {modules'[i]}, e \in initialized'
            PROVE  \E j \in 1..(i - 1) : modules'[j] = e
        <5>1. CASE i \in DOMAIN modules
          <6>1. e \in initialized
            BY <3>2, <3>4, <4>1, <4>4, <5>1
          <6>2. PICK j \in 1..(i - 1) : modules[j] = e
            BY <4>1, <4>4, <5>1, <6>1 DEF ModulesInv
          <6> QED BY <4>1, <5>1, <6>2
        <5>2. CASE i = Len(modules) + 1
          <6>1. e \in initialized
            BY <3>4, <4>1, <4>4, <5>2
          <6>2. PICK j \in DOMAIN modules : modules[j] = e
            BY <6>1 DEF ModulesInv, Loaded
          <6> QED BY <4>1, <5>2, <6>2
        <5> QED BY <4>1, <5>1, <5>2
      <4> QED BY <1>k, <4>2, <4>3, <4>4 DEF ModulesInv, Attempted, Loaded
    <3> QED BY <2>1, <3>3, <3>4
  <2> QED BY <2>2, <2>3, <2>4, <2>5, <2>6, <2>7, <2>8
<1> QED BY <1>1, <1>2

\* In the array a dependency comes before its dependent, in an earlier stage or the same.
LEMMA DependencyBefore ==
  ASSUME Types, DependenciesPrecede, StagesRespectDependencies, ~Preparing, InOrder,
         NEW i \in Dlls, NEW e \in after[order[i]] \ {order[i]}
  PROVE  /\ \E j \in Dlls : j < i /\ order[j] = e
         /\ IF Deferred(e) THEN Deferred(order[i]) ELSE stage[e] <= stage[order[i]]
<1>a. N \in Nat /\ order \in [Dlls -> Dlls] /\ after \in [Dlls -> SUBSET Dlls]
  BY AfterIsRelation DEF Types
<1>0. Dlls \subseteq Nat /\ order[i] \in Dlls /\ e \in Dlls
  BY <1>a DEF Dlls
<1>1. PICK j \in Dlls : order[j] = e
  BY <1>0 DEF Types
<1>2. main # "sort"
  BY DEF Preparing
<1>3. j < i
  <2>1. ~(i < j)
    BY <1>1, <1>2 DEF DependenciesPrecede, InOrder
  <2>2. i # j /\ i \in Nat /\ j \in Nat
    BY <1>0, <1>1
  <2> QED BY ONLY <2>1, <2>2
<1>4. IF Deferred(e) THEN Deferred(order[i]) ELSE stage[e] <= stage[order[i]]
  BY <1>0 DEF StagesRespectDependencies, InOrder
<1> QED BY <1>1, <1>3, <1>4

\* One turn of extdlls_load_stage, by the main thread.
LEMMA StageLoads ==
  ASSUME IInv, ~Preparing, main # "game", NEW s \in {Early, Normal}, LoadStage(s), MainWalks,
         Tried(s, pos), s = Normal => Tried(Early, N + 1),
         UNCHANGED <<dataReady, unload>>
  PROVE  /\ attempts' \in Seq(Dlls) /\ modules' \in Seq(Dlls) /\ initialized' \subseteq Dlls
         /\ allLoaded' \in BOOLEAN /\ pos' \in 1..(N + 1) /\ UNCHANGED <<main, beforeMain>>
         /\ \A x : Attempted(x) => Attempted(x)'
         /\ Tried(s, pos)'
         /\ s = Early /\ EarlyInv => EarlyInv'
         /\ DependenciesLoadFirst' /\ ModulesInv' /\ NothingBeforeDataReady'
<1> USE DEF IInv
<1>0. /\ N \in Nat /\ Dlls \subseteq Nat /\ stage \in [Dlls -> Stages] /\ allLoaded \in BOOLEAN
      /\ pos \in Dlls /\ pos' = pos + 1 /\ UNCHANGED <<main, beforeMain>>
  BY AfterIsRelation DEF Types, Dlls, LoadStage
<1>1. PICK d \in Dlls : d = order[pos]
  BY <1>0 DEF Types
<1>k. UNCHANGED <<stage, order, config, cycle, unsorted>>
  BY DEF MainWalks
<1>2. pos' \in 1..(N + 1) /\ \A i \in Dlls : i < pos' => i < pos \/ order[i] = d
  BY <1>0, <1>1 DEF Dlls
<1>3. CASE stage[d] # s
  <2>1. UNCHANGED <<attempts, modules, initialized, allLoaded>>
    BY <1>1, <1>3 DEF LoadStage
  <2>2. \A x : Attempted(x)' <=> Attempted(x)
    BY <2>1 DEF Attempted
  <2>3. Tried(s, pos)'
    BY <1>2, <1>3, <1>k, <2>2 DEF Tried
  <2>4. DependenciesLoadFirst' /\ ModulesInv' /\ NothingBeforeDataReady'
    BY <2>1, ListsKept
  <2>5. EarlyInv => EarlyInv'
    BY <1>0, <1>k, <2>1 DEF EarlyInv
  <2> QED BY <1>0, <1>2, <2>1, <2>2, <2>3, <2>4, <2>5 DEF Types
<1>4. CASE stage[d] = s
  <2>1. PICK ok \in BOOLEAN : LoadExtdllOne(d, ok) /\ allLoaded' = (allLoaded /\ ok)
    BY <1>1, <1>4 DEF LoadStage
  <2>2. InOrder => \A e \in after[d] \ {d} : Attempted(e)
    <3> SUFFICES ASSUME InOrder, NEW e \in after[d] \ {d} PROVE Attempted(e)
      OBVIOUS
    <3>1. PICK j \in Dlls : j < pos /\ order[j] = e
      BY <1>0, <1>1, DependencyBefore
    <3>2. stage[e] = Early \/ (s = Normal /\ stage[e] = Normal)
      <4>1. e \in Dlls
        BY <3>1 DEF Types
      <4>2. ~Deferred(d)
        BY <1>4 DEF Deferred, Early, Normal
      <4>3. ~Deferred(e) /\ stage[e] <= s
        BY <1>0, <1>1, <1>4, <4>2, DependencyBefore
      <4> QED BY <1>0, <4>1, <4>3 DEF Deferred, Early, Normal, Stages
    <3> QED BY <1>0, <3>1, <3>2 DEF Tried, Dlls
  <2>3. stage[d] # DataReady /\ unload \in {"no", "join"}
    BY <1>4 DEF MainInv, Early, Normal, DataReady
  <2>4. /\ attempts' \in Seq(Dlls) /\ modules' \in Seq(Dlls) /\ initialized' \subseteq Dlls
        /\ Attempted(d)' /\ \A x : Attempted(x) => Attempted(x)'
        /\ \A i \in DOMAIN attempts' : attempts'[i] = d \/ \E j \in DOMAIN attempts : attempts'[i] = attempts[j]
        /\ DependenciesLoadFirst' /\ ModulesInv' /\ NothingBeforeDataReady'
    BY <2>1, <2>2, <2>3, Loads
  <2>5. Tried(s, pos)'
    BY <1>2, <1>k, <2>4 DEF Tried
  <2>6. s = Early /\ EarlyInv => EarlyInv'
    BY <1>0, <1>4, <1>k, <2>4 DEF EarlyInv
  <2>7. allLoaded' \in BOOLEAN
    BY <1>0, <2>1
  <2> QED BY <1>0, <1>2, <2>4, <2>5, <2>6, <2>7
<1> QED BY <1>3, <1>4

\* A step of the early pass, or of the normal one.
LEMMA PassStep ==
  ASSUME IInv, LoadEarly \/ LoadNormal
  PROVE  IInv'
<1> USE DEF IInv
<1>0. /\ MainWalks /\ UNCHANGED <<triggered, dataReady, events, cancel, released, worker, wpos, unload>>
      /\ ~Preparing /\ worker = "none" /\ main \in {"early", "normal"}
      /\ unload = "no"
  BY DEF LoadEarly, LoadNormal, Preparing, MainInv
<1>1. /\ attempts' \in Seq(Dlls) /\ modules' \in Seq(Dlls) /\ initialized' \subseteq Dlls
      /\ allLoaded' \in BOOLEAN /\ pos' \in 1..(N + 1) /\ UNCHANGED <<main, beforeMain>>
      /\ \A x : Attempted(x) => Attempted(x)'
      /\ main = "early" => Tried(Early, pos)' /\ EarlyInv'
      /\ main = "normal" => Tried(Normal, pos)' 
      /\ DependenciesLoadFirst' /\ ModulesInv' /\ NothingBeforeDataReady'
  <2>1. CASE LoadEarly
    <3>1. Tried(Early, pos) /\ LoadStage(Early) /\ main = "early"
      BY <2>1 DEF PassInv, LoadEarly
    <3> QED BY <1>0, <3>1, StageLoads DEF Early, Normal
  <2>2. CASE LoadNormal
    <3>1. Tried(Normal, pos) /\ Tried(Early, N + 1) /\ LoadStage(Normal) /\ main = "normal"
      BY <2>2 DEF PassInv, MainInv, LoadNormal
    <3> QED BY <1>0, <3>1, StageLoads DEF Early, Normal
  <2> QED BY <2>1, <2>2
<1>2. Types'
  BY <1>0, <1>1 DEF Types, MainWalks
<1>3. ~Preparing'
  BY <1>0, <1>1 DEF Preparing
<1>4. DependenciesPrecede' /\ StageInv' /\ StagesRespectDependencies'
  BY <1>0, <1>3, OrderKept
<1>5. MainInv'
  BY <1>0, <1>1, <1>3 DEF MainInv
<1>6. EarlyInv'
  <2>1. main = "normal" => main' = "normal" /\ beforeMain' = 1
    BY <1>1 DEF MainInv
  <2> QED BY <1>0, <1>1, <2>1 DEF EarlyInv
<1>7. PassInv'
  <2>1. main = "normal" => Tried(Early, N + 1)'
    BY <1>0, <1>1 DEF PassInv, MainInv, Tried, MainWalks
  <2> QED BY <1>0, <1>1, <2>1 DEF PassInv
<1>8. WaitInv'
  BY <1>0 DEF WaitInv
<1> QED BY <1>1, <1>2, <1>4, <1>5, <1>6, <1>7, <1>8

\* The ends of the passes of the main thread, which load nothing.
LEMMA MainGoesOn ==
  ASSUME IInv, NoGameContext \/ BeforeMainDone \/ AfterRuntimeInit \/ StartWorker
  PROVE  IInv'
<1> USE DEF IInv
<1>0. /\ MainWalks /\ UNCHANGED <<attempts, modules, initialized, dataReady, cancel, released, wpos, unload>>
      /\ main \in {"early", "runtime", "normal"} /\ worker = "none" /\ unload = "no"
      /\ ~Preparing /\ ~Preparing'
  BY DEF NoGameContext, BeforeMainDone, AfterRuntimeInit, StartWorker, MainInv, Preparing
<1>k. UNCHANGED <<stage, order>> /\ \A x : Attempted(x)' <=> Attempted(x)
  BY <1>0 DEF MainWalks, Attempted
<1>n. N \in Nat
  BY AfterIsRelation DEF Types
<1>1. DependenciesPrecede' /\ StageInv' /\ StagesRespectDependencies'
  BY <1>0, OrderKept
<1>2. DependenciesLoadFirst' /\ ModulesInv' /\ NothingBeforeDataReady'
  BY <1>0, ListsKept
<1>3. CASE BeforeMainDone
  <2>1. /\ main = "early" /\ pos > N /\ main' = "runtime" /\ beforeMain' \in {1, -1}
        /\ UNCHANGED <<pos, allLoaded, triggered, events, worker>>
    BY <1>3 DEF BeforeMainDone
  <2>2. Types'
    BY <1>0, <2>1 DEF Types, Phases, MainWalks
  <2>3. MainInv' /\ EarlyInv'
    BY <1>0, <1>k, <2>1 DEF MainInv, EarlyInv
  <2>4. PassInv'
    <3>1. pos = N + 1
      BY <1>n, <2>1 DEF Types
    <3>2. Tried(Early, N + 1)'
      BY <1>k, <2>1, <3>1 DEF PassInv, Tried
    <3> QED BY <1>0, <2>1, <3>2 DEF PassInv
  <2>5. WaitInv'
    BY <1>0, <2>1 DEF WaitInv
  <2> QED BY <1>1, <1>2, <2>2, <2>3, <2>4, <2>5
<1>4. CASE AfterRuntimeInit
  <2>1. /\ main = "runtime" /\ UNCHANGED <<beforeMain, events, worker>> /\ triggered' \in BOOLEAN
        /\ \/ beforeMain = 1 /\ main' = "normal" /\ pos' = 1 /\ allLoaded' = TRUE
           \/ beforeMain # 1 /\ main' = "game" /\ UNCHANGED <<pos, allLoaded>>
    BY <1>4 DEF AfterRuntimeInit
  <2>2. Types'
    <3>1. pos \in 1..(N + 1) /\ allLoaded \in BOOLEAN /\ 1 \in 1..(N + 1)
      BY <1>n DEF Types
    <3>2. pos' \in 1..(N + 1) /\ allLoaded' \in BOOLEAN /\ main' \in Phases
      BY <2>1, <3>1 DEF Phases
    <3> QED BY <1>0, <2>1, <3>2 DEF Types, MainWalks
  <2>3. MainInv' /\ EarlyInv'
    BY <1>0, <1>k, <2>1 DEF MainInv, EarlyInv
  <2>4. PassInv'
    <3>1. (beforeMain = 1 => Tried(Early, N + 1)') /\ (main' = "normal" => Tried(Normal, 1)')
      BY <1>k, <2>1 DEF PassInv, Tried, Dlls
    <3> QED BY <1>0, <2>1, <3>1 DEF PassInv, Tried
  <2>5. WaitInv'
    BY <1>0, <2>1 DEF WaitInv
  <2> QED BY <1>1, <1>2, <2>2, <2>3, <2>4, <2>5
<1>5. CASE StartWorker
  <2>1. /\ main = "normal" /\ pos > N /\ main' = "game" /\ worker' \in {"none", "start"}
        /\ events' \in {{}, {"cancel"}, {"cancel", "data_ready"}}
        /\ UNCHANGED <<pos, beforeMain, allLoaded, triggered>>
    BY <1>0, <1>5 DEF StartWorker, Types
  <2>2. Types'
    BY <1>0, <2>1 DEF Types, Phases, MainWalks
  <2>3. MainInv' /\ EarlyInv'
    BY <1>0, <1>k, <2>1 DEF MainInv, EarlyInv
  <2>4. PassInv'
    <3>1. pos = N + 1
      BY <1>n, <2>1 DEF Types
    <3>2. Tried(Early, N + 1)' /\ Tried(Normal, N + 1)'
      BY <1>k, <2>1, <3>1 DEF PassInv, MainInv, Tried
    <3>3. wpos = 1
      BY <1>0 DEF MainInv
    <3>4. worker' = "start" => \A i \in Dlls : ~(i < wpos')
      BY <1>0, <3>3 DEF Dlls
    <3> QED BY <1>0, <2>1, <3>2, <3>4 DEF PassInv
  <2>5. WaitInv'
    BY <1>0, <2>1 DEF WaitInv
  <2> QED BY <1>1, <1>2, <2>2, <2>3, <2>4, <2>5
<1>6. CASE NoGameContext
  <2>1. /\ main = "early" /\ main' = "game" /\ beforeMain' = -1
        /\ UNCHANGED <<pos, allLoaded, triggered, events, worker>>
    BY <1>6 DEF NoGameContext
  <2>2. Types'
    BY <1>0, <2>1 DEF Types, Phases, MainWalks
  <2>3. MainInv' /\ EarlyInv'
    BY <1>0, <1>k, <2>1 DEF MainInv, EarlyInv
  <2>4. PassInv'
    BY <1>0, <2>1 DEF PassInv
  <2>5. WaitInv'
    BY <1>0, <2>1 DEF WaitInv
  <2> QED BY <1>1, <1>2, <2>2, <2>3, <2>4, <2>5
<1> QED BY <1>3, <1>4, <1>5, <1>6

\* The report of data readiness.
LEMMA ReportStep ==
  ASSUME IInv, ReportDataReady
  PROVE  IInv'
<1> USE DEF IInv
<1>0. /\ UNCHANGED <<orderVars, beforeMain, allLoaded, attempts, modules, initialized, triggered,
                     events, cancel, worker, wpos, unload>>
      /\ dataReady' = TRUE /\ released' \in BOOLEAN
  BY DEF ReportDataReady, Types
<1>1. MainWalks /\ UNCHANGED <<main, pos, stage, order>>
  BY <1>0 DEF orderVars, MainWalks
<1>2. Types'
  BY <1>0, <1>1 DEF Types, MainWalks
<1>3. DependenciesPrecede' /\ StageInv' /\ StagesRespectDependencies'
  BY <1>1, OrderKept
<1>4. DependenciesLoadFirst' /\ ModulesInv' /\ NothingBeforeDataReady'
  BY <1>0, <1>1, ListsKept
<1>5. MainInv' /\ EarlyInv'
  BY <1>0, <1>1 DEF MainInv, EarlyInv, Preparing
<1>6. PassInv'
  BY <1>0, <1>1 DEF PassInv, Tried, Attempted, Deferred
<1>7. WaitInv'
  BY <1>0, <1>1 DEF WaitInv, Deferred
<1> QED BY <1>2, <1>3, <1>4, <1>5, <1>6, <1>7

\* The worker's steps between loads.
LEMMA WorkerGoesOn ==
  ASSUME IInv, \/ WorkerStarts \/ WorkerSkip \/ WorkerWait \/ WorkerCancelled
               \/ WorkerProceeds \/ WorkerDone \/ WorkerExits
  PROVE  IInv'
<1> USE DEF IInv
<1>0. /\ UNCHANGED <<orderVars, beforeMain, allLoaded, triggered, dataReady, events, cancel, released, unload,
                     attempts, modules, initialized>>
      /\ worker \in {"start", "walk", "checked", "returned"}
      /\ worker' \in {"walk", "checked", "load", "returned", "exited"}
      /\ worker = "returned" => worker' = "exited"
  BY DEF WorkerStarts, WorkerSkip, WorkerWait, WorkerCancelled, WorkerProceeds, WorkerDone, WorkerExits,
     WorkerKeeps
<1>1. MainWalks /\ UNCHANGED <<main, pos, stage, order>> /\ \A x : Attempted(x)' <=> Attempted(x)
  BY <1>0 DEF orderVars, MainWalks, Attempted
<1>n. N \in Nat /\ wpos \in 1..(N + 1)
  BY AfterIsRelation DEF Types
<1>2. wpos' \in 1..(N + 1)
  BY <1>n DEF WorkerStarts, WorkerSkip, WorkerWait, WorkerCancelled, WorkerProceeds, WorkerDone, WorkerExits
<1>3. Types'
  BY <1>0, <1>1, <1>2 DEF Types, MainWalks
<1>4. DependenciesPrecede' /\ StageInv' /\ StagesRespectDependencies'
  BY <1>1, OrderKept
<1>5. DependenciesLoadFirst' /\ ModulesInv' /\ NothingBeforeDataReady'
  BY <1>0, <1>1, ListsKept
<1>6. MainInv' /\ EarlyInv'
  BY <1>0, <1>1 DEF MainInv, EarlyInv, Preparing
<1>7. PassInv'
  <2>1. /\ worker' # "none" => main = "game" /\ Tried(Early, N + 1) /\ Tried(Normal, N + 1)
    BY <1>0 DEF PassInv, MainInv
  <2>2. worker' \in {"walk", "checked", "load"} =>
          \A i \in Dlls : i < wpos' /\ Deferred(order[i]) => Attempted(order[i])
    <3>1. CASE wpos' = wpos
      BY <1>0, <3>1 DEF PassInv
    <3>2. CASE wpos' = wpos + 1 /\ ~Deferred(order[wpos])
      BY <1>0, <1>n, <3>2 DEF PassInv, Dlls
    <3> QED BY <3>1, <3>2 DEF WorkerStarts, WorkerSkip, WorkerWait, WorkerCancelled, WorkerProceeds,
                              WorkerDone, WorkerExits
  <2> QED BY <1>0, <1>1, <2>1, <2>2 DEF PassInv, Tried, Deferred
<1>8. WaitInv'
  <2>1. worker' \in {"checked", "load"} =>
          /\ wpos' <= N /\ Deferred(order[wpos'])
          /\ stage[order[wpos']] = DataReady => dataReady
    BY DEF WaitInv, WorkerStarts, WorkerSkip, WorkerWait, WorkerCancelled, WorkerProceeds, WorkerDone,
           WorkerExits
  <2> QED BY <1>0, <1>1, <2>1 DEF WaitInv, Deferred
<1> QED BY <1>3, <1>4, <1>5, <1>6, <1>7, <1>8

\* The worker loads an entry.
LEMMA WorkerLoads ==
  ASSUME IInv, WorkerLoad
  PROVE  IInv'
<1> USE DEF IInv
<1>0. /\ UNCHANGED <<orderVars, beforeMain, allLoaded, triggered, dataReady, events, cancel, released, unload>>
      /\ worker = "load" /\ worker' = "walk" /\ wpos' = wpos + 1
      /\ main = "game" /\ beforeMain = 1 /\ unload \in {"no", "join"}
  BY DEF WorkerLoad, WorkerKeeps, MainInv, Types
<1>1. MainWalks /\ UNCHANGED <<main, pos, stage, order>>
  BY <1>0 DEF orderVars, MainWalks
<1>a. /\ N \in Nat /\ stage \in [Dlls -> Stages] /\ order \in [Dlls -> Dlls]
      /\ wpos \in 1..(N + 1) /\ wpos <= N
  BY <1>0, AfterIsRelation DEF Types, WaitInv
<1>n. /\ N \in Nat /\ Dlls \subseteq Nat /\ stage \in [Dlls -> Stages] /\ order \in [Dlls -> Dlls]
      /\ wpos \in Dlls
  BY <1>a DEF Dlls
<1>d. PICK d \in Dlls : d = order[wpos]
  BY <1>n
<1>2. PICK ok \in BOOLEAN : LoadExtdllOne(d, ok)
  BY <1>d DEF WorkerLoad
<1>3. Deferred(d) /\ (stage[d] = DataReady => dataReady) /\ ~Preparing
  BY <1>0, <1>d DEF WaitInv, Preparing
<1>4. InOrder => \A e \in after[d] \ {d} : Attempted(e)
  <2> SUFFICES ASSUME InOrder, NEW e \in after[d] \ {d} PROVE Attempted(e)
    OBVIOUS
  <2>1. PICK j \in Dlls : j < wpos /\ order[j] = e
    BY <1>n, <1>d, <1>3, DependencyBefore
  <2>2. CASE Deferred(e)
    BY <1>0, <2>1, <2>2 DEF PassInv
  <2>3. CASE ~Deferred(e)
    <3>0. e \in Dlls /\ stage[e] \in Stages
      BY <1>n, <2>1
    <3>1. stage[e] \in {Early, Normal} /\ j < N + 1
      BY <1>n, <2>1, <2>3, <3>0 DEF Deferred, Stages, Early, Normal, Delay, Dlls
    <3> QED BY <1>0, <2>1, <3>1 DEF PassInv, Tried
  <2> QED BY <2>2, <2>3
<1>5. /\ attempts' \in Seq(Dlls) /\ modules' \in Seq(Dlls) /\ initialized' \subseteq Dlls
      /\ Attempted(d)' /\ \A x : Attempted(x) => Attempted(x)'
      /\ DependenciesLoadFirst' /\ ModulesInv' /\ NothingBeforeDataReady'
  BY <1>0, <1>1, <1>2, <1>3, <1>4, Loads
<1>6. Types'
  <2>1. wpos' \in 1..(N + 1)
    BY <1>0, <1>n DEF Dlls
  <2> QED BY <1>0, <1>1, <1>5, <2>1 DEF Types, MainWalks
<1>7. DependenciesPrecede' /\ StageInv' /\ StagesRespectDependencies'
  BY <1>1, OrderKept
<1>8. MainInv' /\ EarlyInv'
  BY <1>0, <1>1 DEF MainInv, EarlyInv, Preparing
<1>9. PassInv'
  <2>1. Tried(Early, N + 1)' /\ Tried(Normal, N + 1)'
    BY <1>0, <1>1, <1>5 DEF PassInv, Tried
  <2>2. \A i \in Dlls : i < wpos' => i < wpos \/ order[i] = d
    BY <1>0, <1>n, <1>d
  <2>3. \A i \in Dlls : i < wpos' /\ Deferred(order[i]) => Attempted(order[i])'
    <3> SUFFICES ASSUME NEW i \in Dlls, i < wpos', Deferred(order[i])
                 PROVE  \E j \in DOMAIN attempts' : attempts'[j] = order[i]
      BY <1>1 DEF Attempted
    <3>1. CASE order[i] = d
      BY <1>5, <3>1 DEF Attempted
    <3>2. CASE i < wpos
      <4>1. Attempted(order[i])
        BY <1>0, <3>2 DEF PassInv
      <4>2. PICK c : c = order[i]
        OBVIOUS
      <4> QED BY <1>5, <4>1, <4>2 DEF Attempted
    <3> QED BY <2>2, <3>1, <3>2
  <2> QED BY <1>0, <1>1, <2>1, <2>3 DEF PassInv, Deferred
<1>10. WaitInv'
  BY <1>0 DEF WaitInv
<1> QED BY <1>5, <1>6, <1>7, <1>8, <1>9, <1>10

\* extdlls_unload_all.
LEMMA UnloadStep ==
  ASSUME IInv, CancelWorker \/ Unload
  PROVE  IInv'
<1> USE DEF IInv
<1>0. /\ UNCHANGED <<orderVars, beforeMain, allLoaded, attempts, initialized, triggered, dataReady>>
      /\ wpos' = wpos /\ main = "game" /\ worker' \in {worker, "none"} /\ unload' # "no"
      /\ unload' \in {"free", "done"} => worker' = "none"
  BY DEF CancelWorker, Unload, JoinWorker, FreeLast, Unloaded, UnloadKeeps, MainInv
<1>1. MainWalks /\ UNCHANGED <<main, pos, stage, order>> /\ \A x : Attempted(x)' <=> Attempted(x)
  BY <1>0 DEF orderVars, MainWalks, Attempted
<1>2. unload' \in {"join", "free", "done"} /\ (unload' = "join" => unload = "no" /\ UNCHANGED modules)
  BY DEF CancelWorker, Unload, JoinWorker, FreeLast, Unloaded
<1>3. /\ DOMAIN modules' \subseteq DOMAIN modules /\ modules' \in Seq(Dlls)
      /\ \A i \in DOMAIN modules' : modules'[i] = modules[i]
  <2>1. CASE UNCHANGED modules
    BY <2>1 DEF Types
  <2>2. CASE FreeLast
    BY <2>2 DEF FreeLast, Types
  <2> QED BY <2>1, <2>2 DEF CancelWorker, Unload, JoinWorker, Unloaded
<1>4. Types'
  <2>1. /\ cancel' \in BOOLEAN /\ released' \in BOOLEAN
        /\ events' \in {{}, {"cancel"}, {"cancel", "data_ready"}}
    <3>1. /\ cancel \in BOOLEAN /\ released \in BOOLEAN
          /\ events \in {{}, {"cancel"}, {"cancel", "data_ready"}}
      BY DEF Types
    <3>2. cancel' \in BOOLEAN /\ released' \in {released, FALSE} /\ (events' = events \/ events' = {})
      <4>1. CASE CancelWorker
        <5>1. cancel' = ("cancel" \in events) /\ UNCHANGED <<events, released>>
          BY <4>1 DEF CancelWorker
        <5> QED BY <5>1
      <4>2. CASE Unload
        BY <3>1, <4>2 DEF Unload, JoinWorker, FreeLast, Unloaded
      <4> QED BY <4>1, <4>2
    <3> QED BY <3>1, <3>2
  <2> QED BY <1>0, <1>1, <1>2, <1>3, <2>1 DEF Types, MainWalks
<1>5. DependenciesPrecede' /\ StageInv' /\ StagesRespectDependencies'
  BY <1>1, OrderKept
<1>6. DependenciesLoadFirst' /\ NothingBeforeDataReady'
  BY <1>0, <1>1 DEF DependenciesLoadFirst, NothingBeforeDataReady, MainWalks, after
<1>7. ModulesInv'
  <2>1. \A i \in DOMAIN modules' : Attempted(modules[i])
    BY <1>3 DEF ModulesInv
  <2>2. \A d \in initialized : Attempted(d) /\ (unload' = "join" => Loaded(d)')
    BY <1>2 DEF ModulesInv, Loaded
  <2>3. ASSUME InOrder, NEW i \in DOMAIN modules', NEW e \in after[modules[i]] \ {modules[i]}, e \in initialized
        PROVE  \E j \in 1..(i - 1) : modules'[j] = e
    <3>1. PICK j \in 1..(i - 1) : modules[j] = e
      BY <1>3, <2>3 DEF ModulesInv
    <3>2. j \in DOMAIN modules'
      BY <1>3, <3>1
    <3> QED BY <1>3, <3>1, <3>2
  <2> QED BY <1>0, <1>1, <1>2, <1>3, <2>1, <2>2, <2>3 DEF ModulesInv, InOrder, MainWalks, after, Attempted
<1>8. MainInv' /\ EarlyInv'
  BY <1>0, <1>1 DEF MainInv, EarlyInv, Preparing
<1>9. PassInv'
  BY <1>0, <1>1 DEF PassInv, Tried, Deferred
<1>10. WaitInv'
  <2>1. released' => dataReady
    BY DEF WaitInv, CancelWorker, Unload, JoinWorker, FreeLast, Unloaded
  <2> QED BY <1>0, <1>1, <2>1 DEF WaitInv, Deferred
<1> QED BY <1>4, <1>5, <1>6, <1>7, <1>8, <1>9, <1>10

----------------------------------------------------------------------------
\* The configuration as it was read: nothing is sorted or tried.
LEMMA InitIInv == Init => IInv
<1> SUFFICES ASSUME Init PROVE IInv
  OBVIOUS
<1> USE DEF Init, OrderInit
<1>0. /\ N \in Nat /\ N > 0 /\ Dlls \subseteq Nat /\ after \in [Dlls -> SUBSET Dlls]
      /\ stage \in [Dlls -> Stages] /\ delayed \in [Dlls -> BOOLEAN]
  BY AfterIsRelation DEF Dlls
<1>1. Types
  <2>1. order \in [Dlls -> Dlls] /\ (\A i, j \in Dlls : order[i] = order[j] => i = j)
        /\ \A d \in Dlls : \E i \in Dlls : order[i] = d
    BY DEF Configured
  <2>2. 0 \in 0..Budget /\ 1 \in 1..(N + 1) /\ <<>> \in Seq(Dlls) /\ main \in Phases
    BY <1>0 DEF Budget, Phases
  <2> QED BY <1>0, <2>1, <2>2 DEF Types
<1>2. DependenciesPrecede /\ StageInv /\ StagesRespectDependencies
  <2>1. CASE N < 2
    <3>1. Dlls = {1} /\ main = "early"
      BY <1>0, <2>1 DEF Dlls
    <3> QED BY <1>0, <3>1 DEF DependenciesPrecede, StageInv, StagesRespectDependencies, Deferred, Early,
                              Normal, Stages, Delay, Preparing
  <2>2. CASE main = "sort"
    BY <2>2 DEF DependenciesPrecede, StageInv, StagesRespectDependencies, Preparing
  <2> QED BY <2>1, <2>2
<1>3. MainInv /\ EarlyInv /\ WaitInv
  BY DEF MainInv, EarlyInv, WaitInv
<1>4. PassInv
  <2>1. \A i \in Dlls : ~(i < 1)
    BY <1>0 DEF Dlls
  <2>2. pos = 1 /\ main \in {"sort", "early"} /\ worker = "none"
    OBVIOUS
  <2> QED BY <2>1, <2>2 DEF PassInv, Tried
<1>5. DependenciesLoadFirst /\ ModulesInv /\ NothingBeforeDataReady
  BY DEF DependenciesLoadFirst, ModulesInv, NothingBeforeDataReady
<1> QED BY <1>1, <1>2, <1>3, <1>4, <1>5 DEF IInv

\* Every step of the four threads keeps it.
LEMMA NextIInv == IInv /\ [Next]_vars => IInv'
<1> SUFFICES ASSUME IInv, [Next]_vars PROVE IInv'
  OBVIOUS
<1>1. CASE Prepare
  BY <1>1, PrepareTypes, SortedInOrder, PrepareStages, PrepareLists DEF IInv, Prepare
<1>2. CASE LoadEarly \/ LoadNormal
  BY <1>2, PassStep
<1>3. CASE NoGameContext \/ BeforeMainDone \/ AfterRuntimeInit \/ StartWorker
  BY <1>3, MainGoesOn
<1>4. CASE ReportDataReady
  BY <1>4, ReportStep
<1>5. CASE Worker
  BY <1>5, WorkerGoesOn, WorkerLoads DEF Worker
<1>6. CASE CancelWorker \/ Unload
  BY <1>6, UnloadStep
<1>7. CASE UNCHANGED vars
  BY <1>7 DEF vars, orderVars, loadVars, IInv, Types, DependenciesPrecede, StageInv,
     StagesRespectDependencies,
     MainInv, EarlyInv, PassInv, WaitInv, DependenciesLoadFirst, ModulesInv, NothingBeforeDataReady, InOrder,
     Deferred, Preparing, Tried, Attempted, Loaded, after
<1> QED BY <1>1, <1>2, <1>3, <1>4, <1>5, <1>6, <1>7 DEF Next, Main, InGame

\* IInv is inductive: it holds in every state of preparing, loading and unloading
\* (extdll.c:245-581).
THEOREM IInvAlways == Spec => []IInv
<1>1. IInv /\ [Next]_vars => IInv'
  BY NextIInv
<1> QED BY <1>1, InitIInv, PTL DEF Spec

\* For any configuration and any interleaving of the main thread, the worker, the game and
\* the unload: dependencies are tried before their dependents and freed after them, unless a
\* cycle was reported or memory failed; what waits for the game's data is tried after it was
\* reported; and a failed early DLL keeps every later stage from loading (extdll.c:327,
\* :447, modloader.c:47).
THEOREM PassesAreAlwaysOrdered == Spec => []PassesAreOrdered
<1>1. IInv => DependenciesAreKept
  <2> SUFFICES ASSUME IInv PROVE DependenciesAreKept
    OBVIOUS
  <2>1. DependenciesUnloadLast
    <3> SUFFICES ASSUME InOrder, NEW d \in Dlls, Loaded(d), NEW e \in after[d], e \in initialized
                 PROVE  Loaded(e)
      BY DEF DependenciesUnloadLast, InOrder
    <3>1. modules \in Seq(Dlls) /\ ModulesInv
      BY DEF IInv, Types
    <3>2. PICK i \in DOMAIN modules : modules[i] = d
      BY DEF Loaded
    <3>3. CASE e # d
      <4>1. PICK j \in 1..(i - 1) : modules[j] = e
        BY <3>1, <3>2, <3>3 DEF ModulesInv
      <4>2. j \in DOMAIN modules
        BY <3>1, <3>2, <4>1
      <4> QED BY <4>1, <4>2 DEF Loaded
    <3> QED BY <3>3
  <2> QED BY <2>1 DEF IInv, DependenciesAreKept
<1>2. IInv => StagesAreKept
  BY DEF IInv, EarlyInv, StagesAreKept, EarlyFailureStops
<1>3. IInv => PassesAreOrdered
  BY <1>1, <1>2 DEF PassesAreOrdered
<1> QED BY <1>3, IInvAlways, PTL

----------------------------------------------------------------------------
(* Prerequisites.                                                          *)

\* A set that contains 0 and, up to m, the successor of whatever it contains.
LEMMA UpTo ==
  ASSUME NEW m \in Nat, NEW S, 0 \in S, \A n \in Nat : n \in S /\ n < m => n + 1 \in S
  PROVE  \A n \in 0..m : n \in S
<1> DEFINE Missing == {n \in 0..m : n \notin S}
<1> SUFFICES ASSUME Missing # {} PROVE FALSE
  OBVIOUS
<1>1. PICK x \in Missing : \A y \in Missing : ~(<<y, x>> \in OpToRel(<, Nat))
  <2>1. Missing \subseteq Nat
    OBVIOUS
  <2> HIDE DEF Missing
  <2> QED BY <2>1, NatLessThanWellFounded, WFMin
<1>2. x \in Nat /\ x # 0 /\ x <= m /\ x \notin S
  OBVIOUS
<1> HIDE DEF Missing
<1>3. x - 1 \in Nat /\ x - 1 < m /\ x - 1 \in 0..m /\ (x - 1) + 1 = x
  BY <1>2
<1>4. x - 1 \notin Missing
  <2>1. x - 1 < x /\ x - 1 \in Nat
    BY <1>2
  <2> QED BY <1>1, <1>2, <2>1 DEF OpToRel
<1>5. x - 1 \in S
  BY <1>3, <1>4 DEF Missing
<1> QED BY <1>2, <1>3, <1>5


\* What the dependencies of an entry reach in each number of steps.
Reaches(f, d) ==
  f = [k \in 0..N |-> IF k = 0 THEN after[d] \ {d} ELSE Grow(f[k - 1])]

\* The recursion behind the prerequisites is defined.
LEMMA ReachExists ==
  ASSUME N \in Nat, NEW d
  PROVE  \E f : Reaches(f, d) /\ Prerequisites(d) = f[N]
<1> DEFINE Layer(f, n) == f = [k \in 0..n |-> IF k = 0 THEN after[d] \ {d} ELSE Grow(f[k - 1])]
           Sound == {n \in 0..N : \E f : Layer(f, n)}
<1> HIDE DEF Layer
<1>1. 0 \in Sound
  <2> DEFINE f == [k \in {0} |-> after[d] \ {d}]
  <2>1. Layer(f, 0)
    BY 0..0 = {0} DEF Layer
  <2> QED BY <2>1
<1>2. ASSUME NEW n \in Nat, n \in Sound, n < N PROVE n + 1 \in Sound
  <2>1. PICK f : Layer(f, n)
    BY <1>2
  <2> DEFINE g == [k \in 0..(n + 1) |-> IF k <= n THEN f[k] ELSE Grow(f[n])]
  <2>2. ASSUME NEW k \in 0..(n + 1)
        PROVE  g[k] = IF k = 0 THEN after[d] \ {d} ELSE Grow(g[k - 1])
    <3>1. CASE k = 0
      BY <2>1, <3>1 DEF Layer
    <3>2. CASE k \in 1..n
      <4>1. k - 1 \in 0..n /\ k \in 0..n /\ k - 1 \in 0..(n + 1) /\ k - 1 <= n /\ k <= n /\ k # 0
        BY <3>2
      <4>2. g[k] = f[k] /\ g[k - 1] = f[k - 1]
        BY <4>1
      <4>3. f[k] = Grow(f[k - 1])
        BY <2>1, <4>1 DEF Layer
      <4> QED BY <4>1, <4>2, <4>3
    <3>3. CASE k = n + 1
      <4>1. /\ ~(n + 1 <= n) /\ (n + 1) - 1 = n /\ n <= n /\ n + 1 # 0
            /\ n \in 0..(n + 1) /\ n + 1 \in 0..(n + 1)
        OBVIOUS
      <4>2. g[n] = f[n]
        BY <4>1
      <4>3. g[n + 1] = Grow(f[n])
        BY <4>1
      <4> HIDE DEF g
      <4> QED BY <3>3, <4>1, <4>2, <4>3
    <3> QED BY <3>1, <3>2, <3>3
  <2>3. Layer(g, n + 1)
    <3>1. g = [k \in 0..(n + 1) |-> g[k]]
      OBVIOUS
    <3> HIDE DEF g
    <3> QED BY <2>2, <3>1 DEF Layer
  <2> HIDE DEF g
  <2>4. n + 1 \in 0..N
    BY <1>2
  <2> QED BY <2>3, <2>4
<1>3. N \in Sound
  <2>1. \A n \in Nat : n \in Sound /\ n < N => n + 1 \in Sound
    BY <1>2
  <2>2. N \in 0..N
    OBVIOUS
  <2> HIDE DEF Sound
  <2>3. \A n \in 0..N : n \in Sound
    BY <1>1, <2>1, UpTo
  <2> QED BY <2>2, <2>3
<1>4. PICK f : Reaches(f, d)
  BY <1>3 DEF Layer, Reaches
<1> DEFINE F == CHOOSE h : Reaches(h, d)
<1>5. Reaches(F, d)
  BY <1>4
<1>6. Prerequisites(d) = F[N]
  BY DEF Prerequisites, Reaches
<1> HIDE DEF F
<1> QED BY <1>5, <1>6

\* S contains the dependencies of its entries, each entry's mention of itself aside.
Closed(S) == \A e \in S : after[e] \ {e} \subseteq S

\* One step adds the dependencies, and nothing when there is nothing to add.
LEMMA GrowFacts ==
  ASSUME config \in Configurations, NEW S \in SUBSET Dlls
  PROVE  /\ Grow(S) \in SUBSET Dlls /\ S \subseteq Grow(S)
         /\ \A e \in S : after[e] \ {e} \subseteq Grow(S)
         /\ Closed(S) <=> Grow(S) = S
         /\ \A T : S \subseteq T /\ Closed(T) => Grow(S) \subseteq T
<1>1. after \in [Dlls -> SUBSET Dlls]
  BY AfterIsRelation
<1>2. Grow(S) \in SUBSET Dlls
  BY <1>1 DEF Grow
<1>3. S \subseteq Grow(S) /\ \A e \in S : after[e] \ {e} \subseteq Grow(S)
  BY DEF Grow
<1>4. \A T : S \subseteq T /\ Closed(T) => Grow(S) \subseteq T
  BY DEF Grow, Closed
<1>5. Closed(S) <=> Grow(S) = S
  <2>1. Closed(S) => Grow(S) \subseteq S
    BY <1>4
  <2>2. Grow(S) = S => Closed(S)
    BY <1>3 DEF Closed
  <2> QED BY <1>3, <2>1, <2>2
<1> QED BY <1>2, <1>3, <1>4, <1>5

\* The prerequisites are the least set that contains the dependencies and theirs: N steps
\* reach all of it, for every step that adds nothing is the last that could.
LEMMA PrerequisitesAreLeast ==
  ASSUME config \in Configurations, NEW d \in Dlls
  PROVE  /\ Prerequisites(d) \in SUBSET Dlls
         /\ after[d] \ {d} \subseteq Prerequisites(d)
         /\ Closed(Prerequisites(d))
         /\ \A S : after[d] \ {d} \subseteq S /\ Closed(S) => Prerequisites(d) \subseteq S
<1>1. N \in Nat /\ N > 0 /\ after \in [Dlls -> SUBSET Dlls]
  BY AfterIsRelation
<1>2. PICK f : Reaches(f, d) /\ Prerequisites(d) = f[N]
  BY <1>1, ReachExists
<1>3. f[0] = after[d] \ {d} /\ \A n \in Nat : n < N => f[n + 1] = Grow(f[n])
  <2>1. 0 \in 0..N /\ \A n \in Nat : n < N => n + 1 \in 0..N /\ (n + 1) - 1 = n /\ n + 1 # 0
    BY <1>1
  <2> QED BY <1>2, <2>1 DEF Reaches
<1>4. IsFiniteSet(Dlls) /\ Cardinality(Dlls) = N
  <2>1. 1 \in Int /\ N \in Int /\ ~(1 > N) /\ N - 1 + 1 = N
    BY <1>1
  <2> QED BY <2>1, FS_Interval DEF Dlls
<1> DEFINE Good(T, n) == /\ T \in SUBSET Dlls /\ after[d] \ {d} \subseteq T
                         /\ Closed(T) \/ Cardinality(T) >= n
                         /\ \A S : after[d] \ {d} \subseteq S /\ Closed(S) => T \subseteq S
           Sound == {n \in 0..N : Good(f[n], n)}
<1>a. \A n \in Sound : Good(f[n], n)
  <2> HIDE DEF Good
  <2> QED OBVIOUS
<1>5. 0 \in Sound
  <2>1. f[0] \in SUBSET Dlls
    BY <1>1, <1>3
  <2>2. Cardinality(f[0]) >= 0
    <3>1. IsFiniteSet(f[0])
      BY <1>4, <2>1, FS_Subset
    <3>2. Cardinality(f[0]) \in Nat
      BY <3>1, FS_CardinalityType
    <3> QED BY <3>2
  <2>3. 0 \in 0..N
    BY <1>1
  <2> QED BY <1>3, <2>1, <2>2, <2>3
<1>6. ASSUME NEW n \in Nat, n \in Sound, n < N PROVE n + 1 \in Sound
  <2> DEFINE T == f[n]
  <2>1. /\ T \in SUBSET Dlls /\ after[d] \ {d} \subseteq T /\ (Closed(T) \/ Cardinality(T) >= n)
        /\ \A S : after[d] \ {d} \subseteq S /\ Closed(S) => T \subseteq S
    <3>1. Good(T, n)
      BY <1>6, <1>a
    <3> HIDE DEF T
    <3> QED BY <3>1
  <2>2. f[n + 1] = Grow(T)
    BY <1>3, <1>6
  <2> HIDE DEF T
  <2>3. /\ Grow(T) \in SUBSET Dlls /\ T \subseteq Grow(T)
        /\ Closed(T) <=> Grow(T) = T
        /\ \A S : T \subseteq S /\ Closed(S) => Grow(T) \subseteq S
    BY <2>1, GrowFacts
  <2>4. Closed(Grow(T)) \/ Cardinality(Grow(T)) >= n + 1
    <3>1. CASE Closed(T)
      BY <2>3, <3>1
    <3>2. CASE ~Closed(T)
      <4>1. IsFiniteSet(T) /\ IsFiniteSet(Grow(T))
        BY <1>4, <2>1, <2>3, FS_Subset
      <4>2. Cardinality(T) \in Nat /\ Cardinality(Grow(T)) \in Nat
        BY <4>1, FS_CardinalityType
      <4>3. Cardinality(T) <= Cardinality(Grow(T)) /\ Cardinality(T) # Cardinality(Grow(T))
        BY <2>3, <3>2, <4>1, FS_Subset
      <4>4. Cardinality(T) >= n
        BY <2>1, <3>2
      <4> QED BY <4>2, <4>3, <4>4, <1>6
    <3> QED BY <3>1, <3>2
  <2>5. n + 1 \in 0..N
    BY <1>1, <1>6
  <2>6. \A S : after[d] \ {d} \subseteq S /\ Closed(S) => Grow(T) \subseteq S
    BY <2>1, <2>3
  <2>7. after[d] \ {d} \subseteq Grow(T)
    BY <2>1, <2>3
  <2> QED BY <2>2, <2>3, <2>4, <2>5, <2>6, <2>7
<1>7. N \in Sound
  <2>1. \A n \in Nat : n \in Sound /\ n < N => n + 1 \in Sound
    BY <1>6
  <2>2. N \in 0..N
    BY <1>1
  <2> HIDE DEF Sound
  <2>3. \A n \in 0..N : n \in Sound
    BY <1>1, <1>5, <2>1, UpTo
  <2> QED BY <2>2, <2>3
<1> DEFINE T == f[N]
<1>b. Good(T, N)
  BY <1>7, <1>a
<1> HIDE DEF T, Sound
<1>c. T \in SUBSET Dlls
  BY <1>b
<1>d. Closed(T) \/ Cardinality(T) >= N
  BY <1>b
<1>8. Closed(T)
  <2>1. CASE Cardinality(T) >= N
    <3>2. IsFiniteSet(T) /\ Cardinality(T) <= N
      BY <1>4, <1>c, FS_Subset
    <3>3. Cardinality(T) \in Nat
      BY <3>2, FS_CardinalityType
    <3>4. Cardinality(T) = Cardinality(Dlls)
      BY <1>1, <1>4, <2>1, <3>2, <3>3
    <3>5. T = Dlls
      BY <1>4, <1>c, <3>4, FS_Subset
    <3> QED BY <1>1, <3>5 DEF Closed
  <2> QED BY <1>d, <2>1
<1>9. Prerequisites(d) = T
  BY <1>2 DEF T
<1> QED BY <1>8, <1>9, <1>b

\* N moves for each position before the h-th are no more than for those before the i-th.
LEMMA RowsAreAhead ==
  ASSUME NEW n \in Nat, NEW h \in Nat, NEW i \in Nat, h < i
  PROVE  (h - 1) * n + n <= (i - 1) * n
<1> DEFINE c == i - h - 1
<1>1. c \in Nat /\ i - 1 = h + c
  OBVIOUS
<1>2. (h + c) * n = h * n + c * n
  OBVIOUS
<1>3. c * n \in Nat
  OBVIOUS
<1>4. (h - 1) * n + n = h * n
  OBVIOUS
<1>5. h * n \in Nat
  OBVIOUS
<1> HIDE DEF c
<1> QED BY <1>1, <1>2, <1>3, <1>4, <1>5

----------------------------------------------------------------------------
(* The sort of extdlls_prepare, and what stages change.                     *)

\* The entries before position i have no dependency behind them.
Settled(i) == \A j, p \in Dlls : j < i /\ j < p => order[p] \notin after[order[j]]

\* The last m moves went before position i, each for the one before it, and the
\* positions before i took at most N moves each.
Chain(i, m) ==
  /\ i + m <= N /\ moves <= (i - 1) * N + m
  /\ \A j \in 1..m : order[i + j - 1] \in after[order[i + j]]
SortInv == main = "sort" /\ ~HasCycle => \E i \in Dlls : \E m \in Nat : Settled(i) /\ Chain(i, m)

\* Entries nothing else depends on are in the order of the configuration.
Needed(d) == \E f \in Dlls : d \in after[f] \ {f}
KeepInv ==
  \A p, q \in Dlls : p < q /\ ~Needed(order[p]) /\ ~Needed(order[q]) => order[p] < order[q]

OrderInv == SortInv /\ KeepInv /\ CycleReportedExactly /\ OnlyNeededStagesChange

\* The prerequisites are a matter of the configuration.
LEMMA PrerequisitesKept ==
  ASSUME config' = config
  PROVE  /\ \A d : Prerequisites(d)' = Prerequisites(d)
         /\ HasCycle' <=> HasCycle
<1>1. \A d : Prerequisites(d)' = Prerequisites(d)
  BY DEF Prerequisites, Grow, after
<1> QED BY <1>1 DEF HasCycle

\* Entries each of which depends on the one before it, the first of them on the last.
LEMMA ChainIsCycle ==
  ASSUME Types, NEW i \in Dlls, NEW k \in Dlls, i < k, order[k] \in after[order[i]],
         \A j \in Dlls : i < j /\ j <= k => order[j - 1] \in after[order[j]]
  PROVE  HasCycle
<1>0. /\ N \in Nat /\ config \in Configurations /\ after \in [Dlls -> SUBSET Dlls]
      /\ order \in [Dlls -> Dlls]
  BY AfterIsRelation DEF Types
<1> DEFINE d == order[k]
           P == Prerequisites(d)
           Sound == {n \in 0..(k - 1 - i) : order[k - 1 - n] \in P}
<1>1. d \in Dlls
  BY <1>0
<1>2. after[d] \ {d} \subseteq P /\ \A e \in P : after[e] \ {e} \subseteq P
  BY <1>0, <1>1, PrerequisitesAreLeast DEF Closed
<1>3. i \in Nat /\ k \in Nat /\ k <= N /\ i > 0
  BY <1>0 DEF Dlls
<1>4. \A j \in Dlls : i < j /\ j <= k => order[j - 1] \in after[order[j]] \ {order[j]}
  <2> SUFFICES ASSUME NEW j \in Dlls, i < j, j <= k PROVE order[j - 1] # order[j]
    OBVIOUS
  <2>1. j - 1 \in Dlls /\ j - 1 # j
    BY <1>0, <1>3 DEF Dlls
  <2> QED BY <2>1 DEF Types
<1> HIDE DEF P
<1>5. 0 \in Sound
  <2>1. k - 1 - 0 = k - 1 /\ 0 \in 0..(k - 1 - i)
    BY <1>3
  <2>2. order[k - 1] \in after[order[k]] \ {order[k]}
    BY <1>3, <1>4
  <2> QED BY <1>2, <2>1, <2>2
<1>6. ASSUME NEW n \in Nat, n \in Sound, n < k - 1 - i PROVE n + 1 \in Sound
  <2>1. /\ k - 1 - n \in Dlls /\ i < k - 1 - n /\ k - 1 - n <= k
        /\ (k - 1 - n) - 1 = k - 1 - (n + 1) /\ n + 1 \in 0..(k - 1 - i)
    BY <1>0, <1>3, <1>6 DEF Dlls
  <2>2. order[k - 1 - (n + 1)] \in after[order[k - 1 - n]] \ {order[k - 1 - n]}
    BY <1>4, <2>1
  <2> QED BY <1>2, <1>6, <2>1, <2>2
<1>7. order[i] \in P
  <2>1. \A n \in Nat : n \in Sound /\ n < k - 1 - i => n + 1 \in Sound
    BY <1>6
  <2>2. k - 1 - i \in Nat /\ k - 1 - i \in 0..(k - 1 - i) /\ k - 1 - (k - 1 - i) = i
    BY <1>3
  <2>3. \A n \in Sound : order[k - 1 - n] \in P
    OBVIOUS
  <2> HIDE DEF Sound
  <2>4. \A n \in 0..(k - 1 - i) : n \in Sound
    BY <1>5, <2>1, <2>2, UpTo
  <2> QED BY <2>2, <2>3, <2>4
<1>8. d \in after[order[i]] \ {order[i]}
  <2>1. d # order[i]
    BY <1>3 DEF Types
  <2> QED BY <2>1
<1>9. d \in P
  BY <1>2, <1>7, <1>8
<1> QED BY <1>1, <1>9 DEF P, HasCycle

\* An array in which every dependency is before its dependent shows that there is no cycle.
LEMMA SortedHasNoCycle ==
  ASSUME Types, Misplaced = {}
  PROVE  ~HasCycle
<1> SUFFICES ASSUME NEW d \in Dlls, d \in Prerequisites(d) PROVE FALSE
  BY DEF HasCycle
<1>0. /\ N \in Nat /\ config \in Configurations /\ after \in [Dlls -> SUBSET Dlls]
      /\ order \in [Dlls -> Dlls]
  BY AfterIsRelation DEF Types
<1>1. PICK i \in Dlls : order[i] = d
  BY DEF Types
<1> DEFINE S == {e \in Dlls : \E j \in Dlls : j < i /\ order[j] = e}
<1>2. \A j \in Dlls : \A e \in after[order[j]] \ {order[j]} : \E p \in Dlls : p < j /\ order[p] = e
  <2> SUFFICES ASSUME NEW j \in Dlls, NEW e \in after[order[j]] \ {order[j]}
               PROVE  \E p \in Dlls : p < j /\ order[p] = e
    OBVIOUS
  <2>1. e \in Dlls
    BY <1>0
  <2>2. PICK p \in Dlls : order[p] = e
    BY <2>1 DEF Types
  <2>3. p # j /\ ~(p > j)
    BY <2>2 DEF Misplaced, LaterDependencies
  <2> QED BY <1>0, <2>2, <2>3 DEF Dlls
<1>3. after[d] \ {d} \subseteq S
  BY <1>0, <1>1, <1>2
<1>4. Closed(S)
  <2> SUFFICES ASSUME NEW e \in S, NEW f \in after[e] \ {e} PROVE f \in S
    BY DEF Closed
  <2>1. PICK j \in Dlls : j < i /\ order[j] = e
    OBVIOUS
  <2>2. PICK p \in Dlls : p < j /\ order[p] = f
    BY <1>2, <2>1
  <2>3. p < i /\ f \in Dlls
    BY <1>0, <2>1, <2>2 DEF Dlls
  <2> QED BY <2>2, <2>3
<1> HIDE DEF S
<1>5. Prerequisites(d) \subseteq S
  BY <1>0, <1>3, <1>4, PrerequisitesAreLeast
<1>6. d \notin S
  BY <1>0, <1>1 DEF S, Types, Dlls
<1> QED BY <1>5, <1>6

\* What a move does to the positions: those between i and k go back by one.
LEMMA MovedPlaces ==
  ASSUME N \in Nat, order \in [Dlls -> Dlls], NEW i \in Dlls, NEW k \in Dlls, i < k
  PROVE  LET moved == MovedBefore(i, k)
         IN /\ moved[i] = order[k]
            /\ \A j \in Dlls : i < j /\ j <= k => j - 1 \in Dlls /\ moved[j] = order[j - 1]
            /\ \A j \in Dlls : j < i \/ k < j => moved[j] = order[j]
BY DEF MovedBefore, Dlls

\* A move for an entry whose own dependencies were moved before it settles nothing but
\* lengthens the chain; one whose dependency is in the chain already has found a cycle.
LEMMA MoveHolds ==
  ASSUME Types, SortInv, KeepInv, Move
  PROVE  /\ HasCycle \/ moves < Budget
         /\ moves < Budget => SortInv' /\ KeepInv'
<1>0. /\ N \in Nat /\ N > 0 /\ Dlls \subseteq Nat /\ after \in [Dlls -> SUBSET Dlls]
      /\ order \in [Dlls -> Dlls] /\ moves \in Nat
  BY AfterIsRelation DEF Types, Dlls
<1>a. Min(Misplaced) \in Misplaced /\ \A j \in Misplaced : Min(Misplaced) <= j
  BY <1>0, MinIsMember, MinIsLeast DEF Move, Misplaced
<1>i. PICK i \in Dlls : i = Min(Misplaced)
  BY <1>a DEF Misplaced
<1>1. i \in Misplaced /\ \A j \in Misplaced : i <= j
  BY <1>a, <1>i
<1>b. Min(LaterDependencies(i)) \in LaterDependencies(i)
  BY <1>0, <1>1, MinIsMember DEF Misplaced, LaterDependencies
<1>k. PICK k \in Dlls : k = Min(LaterDependencies(i))
  BY <1>b DEF LaterDependencies
<1>3. i < k /\ order[k] \in after[order[i]]
  BY <1>b, <1>k DEF LaterDependencies
<1>m. /\ config' = config /\ main = "sort"
      /\ moves < Budget => order' = MovedBefore(i, k) /\ moves' = moves + 1
  BY <1>i, <1>k DEF Move
<1>4. Settled(i)
  <2> SUFFICES ASSUME NEW j \in Dlls, NEW p \in Dlls, j < i, j < p, order[p] \in after[order[j]]
               PROVE  FALSE
    BY DEF Settled
  <2>1. j \in Misplaced
    BY <1>0 DEF Misplaced, LaterDependencies
  <2> QED BY <1>0, <1>1, <1>3, <2>1
<1>5. ~HasCycle => \E m \in Nat : i + m < k /\ Chain(i, m)
  <2> SUFFICES ASSUME ~HasCycle PROVE \E m \in Nat : i + m < k /\ Chain(i, m)
    OBVIOUS
  <2>1. PICK h \in Dlls : \E m \in Nat : Settled(h) /\ Chain(h, m)
    BY <1>m DEF SortInv
  <2>2. PICK m \in Nat : Settled(h) /\ Chain(h, m)
    BY <2>1
  <2>3. h <= i
    <3> SUFFICES ASSUME i < h PROVE FALSE
      BY <1>0, <1>3
    <3> QED BY <1>3, <2>2 DEF Settled
  <2>4. CASE h = i
    <3> SUFFICES ASSUME k <= i + m PROVE FALSE
      BY <1>0, <1>3, <2>2, <2>4
    <3>1. ASSUME NEW j \in Dlls, i < j, j <= k PROVE order[j - 1] \in after[order[j]]
      <4>1. j - i \in 1..m /\ i + (j - i) - 1 = j - 1 /\ i + (j - i) = j
        BY <1>0, <1>3, <3>1
      <4> QED BY <2>2, <2>4, <4>1 DEF Chain
    <3>2. HasCycle
      BY <1>3, <3>1, ChainIsCycle
    <3> QED BY <3>2
  <2>5. CASE h < i
    <3>1. moves <= (h - 1) * N + m /\ h + m <= N
      BY <2>2 DEF Chain
    <3>2. h \in Nat /\ h > 0 /\ i \in Nat /\ i > 0
      BY <1>0, <1>3 DEF Dlls
    <3>3. (h - 1) * N + N <= (i - 1) * N
      BY <1>0, <2>5, <3>2, RowsAreAhead
    <3>4. moves <= (i - 1) * N + 0
      BY <1>0, <3>1, <3>2, <3>3
    <3>5. Chain(i, 0) /\ i + 0 < k /\ i + 0 <= N
      BY <1>0, <1>3, <3>4 DEF Chain, Dlls
    <3> QED BY <3>5
  <2> QED BY <1>0, <1>3, <2>3, <2>4, <2>5
<1>6. HasCycle \/ moves < Budget
  <2> SUFFICES ASSUME ~HasCycle PROVE moves < Budget
    OBVIOUS
  <2>1. PICK m \in Nat : i + m < k /\ Chain(i, m)
    BY <1>5
  <2>2. moves <= (i - 1) * N + m /\ m < N
    BY <1>0, <1>3, <2>1 DEF Chain, Dlls
  <2>3. (i - 1) * N + N <= (N + 1 - 1) * N
    BY <1>0, <1>3, RowsAreAhead DEF Dlls
  <2>4. (i - 1) * N \in Int /\ (N + 1 - 1) * N = N * N
    BY <1>0, <1>3
  <2> QED BY <1>0, <2>2, <2>3, <2>4 DEF Budget
<1>7. ASSUME moves < Budget PROVE SortInv'
  <2> SUFFICES ASSUME ~HasCycle PROVE \E h \in Dlls : \E m \in Nat : Settled(h)' /\ Chain(h, m)'
    BY <1>m, PrerequisitesKept DEF SortInv
  <2>1. PICK m \in Nat : i + m < k /\ Chain(i, m)
    BY <1>5
  <2>2. /\ order'[i] = order[k]
        /\ \A j \in Dlls : i < j /\ j <= k => j - 1 \in Dlls /\ order'[j] = order[j - 1]
        /\ \A j \in Dlls : j < i \/ k < j => order'[j] = order[j]
    BY <1>0, <1>3, <1>7, <1>m, MovedPlaces
  <2>3. Settled(i)'
    <3> SUFFICES ASSUME NEW j \in Dlls, NEW p \in Dlls, j < i, j < p
                 PROVE  order'[p] \notin after[order'[j]]
      BY <1>m DEF Settled, after
    <3>1. order'[j] = order[j]
      BY <2>2
    <3>2. \E q \in Dlls : j < q /\ order'[p] = order[q]
      <4>1. CASE p = i
        BY <1>0, <1>3, <2>2, <4>1
      <4>2. CASE i < p /\ p <= k
        BY <1>0, <1>3, <2>2, <4>2
      <4>3. CASE p < i \/ k < p
        BY <2>2, <4>3
      <4> QED BY <1>0, <1>3, <4>1, <4>2, <4>3
    <3> QED BY <1>4, <3>1, <3>2 DEF Settled
  <2>4. \A j \in 1..(m + 1) : order'[i + j - 1] \in after[order'[i + j]]
    <3> SUFFICES ASSUME NEW j \in 1..(m + 1) PROVE order'[i + j - 1] \in after[order'[i + j]]
      OBVIOUS
    <3>1. i + j \in Dlls /\ i < i + j /\ i + j <= k /\ i \in Nat /\ k \in Nat
      BY <1>0, <1>3, <2>1 DEF Dlls
    <3>2. order'[i + j] = order[i + j - 1]
      BY <2>2, <3>1
    <3>3. CASE j = 1
      <4>1. i + j - 1 = i
        BY <3>1, <3>3
      <4> QED BY <1>3, <2>2, <3>2, <4>1
    <3>4. CASE j # 1
      <4>1. /\ i + j - 1 \in Dlls /\ i < i + j - 1 /\ i + j - 1 <= k /\ j - 1 \in 1..m
            /\ i + (j - 1) = i + j - 1 /\ i + (j - 1) - 1 = (i + j - 1) - 1
        BY <1>0, <3>1, <3>4 DEF Dlls
      <4>2. order'[i + j - 1] = order[(i + j - 1) - 1]
        BY <2>2, <4>1
      <4>3. order[i + (j - 1) - 1] \in after[order[i + (j - 1)]]
        BY <2>1, <4>1 DEF Chain
      <4> QED BY <3>2, <4>1, <4>2, <4>3
    <3> QED BY <3>3, <3>4
  <2>5. Chain(i, m + 1)'
    <3>1. moves <= (i - 1) * N + m
      BY <2>1 DEF Chain
    <3>2. moves' <= (i - 1) * N + (m + 1)
      BY <1>0, <1>3, <1>7, <1>m, <3>1
    <3>3. i + (m + 1) <= N
      BY <1>0, <1>3, <2>1 DEF Dlls
    <3> QED BY <1>m, <2>4, <3>2, <3>3 DEF Chain, after
  <2> QED BY <1>3, <2>3, <2>5
<1>8. ASSUME moves < Budget PROVE KeepInv'
  <2>1. /\ order'[i] = order[k]
        /\ \A j \in Dlls : i < j /\ j <= k => j - 1 \in Dlls /\ order'[j] = order[j - 1]
        /\ \A j \in Dlls : j < i \/ k < j => order'[j] = order[j]
    BY <1>0, <1>3, <1>8, <1>m, MovedPlaces
  <2>2. Needed(order[k])
    <3>1. order[k] # order[i] /\ order[i] \in Dlls
      BY <1>0, <1>3 DEF Types
    <3> QED BY <1>3, <3>1 DEF Needed
  <2> SUFFICES ASSUME NEW p \in Dlls, NEW q \in Dlls, p < q, ~Needed(order'[p]), ~Needed(order'[q])
               PROVE  order'[p] < order'[q]
    BY <1>m DEF KeepInv, Needed, after
  <2>3. p # i /\ q # i
    BY <2>1, <2>2
  <2> DEFINE from(j) == IF i < j /\ j <= k THEN j - 1 ELSE j
  <2>4. from(p) \in Dlls /\ from(q) \in Dlls /\ from(p) < from(q)
    BY <1>0, <1>3, <2>3 DEF Dlls
  <2>5. order'[p] = order[from(p)] /\ order'[q] = order[from(q)]
    BY <1>0, <1>3, <2>1, <2>3
  <2> HIDE DEF from
  <2> QED BY <2>4, <2>5 DEF KeepInv
<1> QED BY <1>6, <1>7, <1>8

\* The sort as a whole, whichever way it ends.
LEMMA SortHolds ==
  ASSUME Types, Types', OrderInv, Move \/ Sorted \/ NoSorter \/ NoSortedArray
  PROVE  OrderInv'
<1> USE DEF OrderInv
<1>0. /\ N \in Nat /\ Dlls \subseteq Nat /\ UNCHANGED <<config, stage, delayed>>
      /\ main = "sort"
  BY AfterIsRelation DEF Types, Dlls, Move, Sorted, NoSorter, NoSortedArray
<1>1. HasCycle' <=> HasCycle
  BY <1>0, PrerequisitesKept
<1>2. OnlyNeededStagesChange'
  BY <1>0, PrerequisitesKept DEF OnlyNeededStagesChange
<1>3. ASSUME order' = Configured PROVE KeepInv'
  BY <1>0, <1>3 DEF KeepInv, Configured
<1>4. CASE Move /\ moves < Budget
  <2>1. SortInv' /\ KeepInv'
    BY <1>4, MoveHolds
  <2>2. CycleReportedExactly'
    BY <1>0, <1>1, <1>4 DEF Move, CycleReportedExactly
  <2> QED BY <1>2, <2>1, <2>2
<1>5. CASE Move /\ ~(moves < Budget)
  <2>1. order' = Configured /\ cycle' = TRUE /\ main' = "promote"
    BY <1>5 DEF Move
  <2>2. HasCycle
    BY <1>5, MoveHolds
  <2>3. CycleReportedExactly' /\ SortInv'
    BY <1>1, <2>1, <2>2 DEF CycleReportedExactly, SortInv
  <2> QED BY <1>2, <1>3, <2>1, <2>3
<1>6. CASE Sorted
  <2>1. ~HasCycle
    BY <1>6, SortedHasNoCycle DEF Sorted
  <2>2. CycleReportedExactly' /\ SortInv' /\ KeepInv'
    BY <1>0, <1>1, <1>6, <2>1 DEF Sorted, CycleReportedExactly, SortInv, KeepInv, Needed, after
  <2> QED BY <1>2, <2>2
<1>7. CASE NoSorter
  <2>1. CycleReportedExactly' /\ SortInv' /\ KeepInv'
    BY <1>0, <1>1, <1>7 DEF NoSorter, CycleReportedExactly, SortInv, KeepInv, Needed, after
  <2> QED BY <1>2, <2>1
<1>8. CASE NoSortedArray
  <2>1. CycleReportedExactly' /\ SortInv' /\ order' = Configured
    BY <1>1, <1>8 DEF NoSortedArray, CycleReportedExactly, SortInv
  <2> QED BY <1>2, <1>3, <2>1
<1> QED BY <1>4, <1>5, <1>6, <1>7, <1>8

\* An early entry's dependencies are prerequisites of whatever made it early.
LEMMA PromoteHolds ==
  ASSUME Types, OnlyNeededStagesChange, Promote
  PROVE  OnlyNeededStagesChange'
<1>0. /\ config \in Configurations /\ after \in [Dlls -> SUBSET Dlls]
      /\ stage \in [Dlls -> Stages] /\ config.stage \in [Dlls -> Stages]
      /\ UNCHANGED <<config, delayed>>
  BY AfterIsRelation DEF Types, Promote
<1>1. PICK c \in Dlls :
        /\ stage[c] = Early
        /\ stage' = [e \in Dlls |-> IF e \in NormalDependencies(c) THEN Early ELSE stage[e]]
  BY DEF Promote
<1> SUFFICES ASSUME NEW d \in Dlls
             PROVE  /\ stage'[d] = Early /\ config.stage[d] # Early =>
                         \E e \in Dlls : config.stage[e] = Early /\ d \in Prerequisites(e)
                    /\ config.stage[d] > Normal =>
                         stage'[d] = config.stage[d] /\ delayed'[d] = config.delayed[d]
  BY <1>0, PrerequisitesKept DEF OnlyNeededStagesChange
<1>2. CASE d \notin NormalDependencies(c)
  BY <1>0, <1>1, <1>2 DEF OnlyNeededStagesChange
<1>3. CASE d \in NormalDependencies(c)
  <2>1. d \in after[c] \ {c} /\ stage[d] = Normal
    BY <1>1, <1>3 DEF NormalDependencies, Early, Normal
  <2>2. ~(config.stage[d] > Normal)
    <3>1. config.stage[d] > Normal => stage[d] = config.stage[d]
      BY DEF OnlyNeededStagesChange
    <3> QED BY <2>1, <3>1 DEF Normal
  <2>3. \E e \in Dlls : config.stage[e] = Early /\ d \in Prerequisites(e)
    <3>1. CASE config.stage[c] = Early
      <4>1. d \in Prerequisites(c)
        BY <1>0, <2>1, PrerequisitesAreLeast
      <4> QED BY <3>1, <4>1
    <3>2. CASE config.stage[c] # Early
      <4>1. PICK e \in Dlls : config.stage[e] = Early /\ c \in Prerequisites(e)
        BY <1>1, <3>2 DEF OnlyNeededStagesChange
      <4>2. Closed(Prerequisites(e))
        BY <1>0, PrerequisitesAreLeast
      <4>3. d \in Prerequisites(e)
        BY <2>1, <4>1, <4>2 DEF Closed
      <4> QED BY <4>1, <4>3
    <3> QED BY <3>1, <3>2
  <2> QED BY <2>2, <2>3
<1> QED BY <1>2, <1>3

\* Deferral changes no entry that was early or deferred.
LEMMA DeferHolds ==
  ASSUME Types, OnlyNeededStagesChange, Defer
  PROVE  OnlyNeededStagesChange'
<1>0. /\ N \in Nat /\ Dlls \subseteq Nat /\ order \in [Dlls -> Dlls]
      /\ stage \in [Dlls -> Stages] /\ delayed \in [Dlls -> BOOLEAN]
  BY AfterIsRelation DEF Types, Dlls
<1>c. config.stage \in [Dlls -> Stages] /\ config' = config
  BY AfterIsRelation DEF Types, Defer
<1>1. pos \in Dlls
  BY <1>0 DEF Types, Defer, Dlls
<1>d. PICK c \in Dlls : c = order[pos]
  BY <1>0, <1>1
<1>2. CASE UNCHANGED <<stage, delayed>>
  BY <1>c, <1>2, PrerequisitesKept DEF OnlyNeededStagesChange
<1>3. CASE ~UNCHANGED <<stage, delayed>>
  <2> DEFINE later == {e \in after[c] : Deferred(e)}
  <2>1. /\ ~Deferred(c) /\ later # {}
        /\ stage' = [stage EXCEPT ![c] = Max({stage[e] : e \in later})]
        /\ delayed' = [delayed EXCEPT ![c] = FALSE]
    BY <1>3, <1>d DEF Defer
  <2>2. Max({stage[e] : e \in later}) \in {DataReady, Delay}
    BY <2>1, LatestIsDeferred
  <2>3. /\ stage'[c] # Early
        /\ \A d \in Dlls \ {c} : stage'[d] = stage[d] /\ delayed'[d] = delayed[d]
    BY <1>0, <2>1, <2>2 DEF DataReady, Delay, Early
  <2>4. ~(config.stage[c] > Normal)
    BY <2>1 DEF OnlyNeededStagesChange, Deferred
  <2> HIDE DEF later
  <2>5. ASSUME NEW d \in Dlls, stage'[d] = Early, config.stage[d] # Early
        PROVE  \E e \in Dlls : config.stage[e] = Early /\ d \in Prerequisites(e)
    BY <2>3, <2>5 DEF OnlyNeededStagesChange
  <2>6. ASSUME NEW d \in Dlls, config.stage[d] > Normal
        PROVE  stage'[d] = config.stage[d] /\ delayed'[d] = config.delayed[d]
    BY <2>3, <2>4, <2>6 DEF OnlyNeededStagesChange
  <2> QED BY <1>c, <2>5, <2>6, PrerequisitesKept DEF OnlyNeededStagesChange
<1> QED BY <1>2, <1>3

\* Once extdlls_prepare has returned nothing of this changes.
LEMMA OrderInvKept ==
  ASSUME OrderInv, MainWalks,
         (~Preparing /\ ~Preparing') \/ UNCHANGED <<main, pos>>
  PROVE  OrderInv'
<1>1. /\ HasCycle' <=> HasCycle
      /\ \A d : Prerequisites(d)' = Prerequisites(d)
  BY PrerequisitesKept DEF MainWalks
<1>2. SortInv'
  BY <1>1 DEF OrderInv, SortInv, Settled, Chain, MainWalks, Preparing, after
<1>3. KeepInv'
  BY DEF OrderInv, KeepInv, Needed, MainWalks, after
<1>4. CycleReportedExactly'
  BY <1>1 DEF OrderInv, CycleReportedExactly, MainWalks, Preparing
<1>5. OnlyNeededStagesChange'
  BY <1>1 DEF OrderInv, OnlyNeededStagesChange, MainWalks
<1> QED BY <1>2, <1>3, <1>4, <1>5 DEF OrderInv

\* The later steps of extdlls_prepare.
LEMMA StagesHold ==
  ASSUME Types, OrderInv, Promote \/ Promoted \/ Defer \/ Prepared
  PROVE  OrderInv'
<1>0. /\ UNCHANGED <<config, order, cycle, unsorted>> /\ main # "sort" /\ main' # "sort"
      /\ main \in {"promote", "defer"}
  BY DEF Promote, Promoted, Defer, Prepared
<1>1. SortInv' /\ KeepInv'
  BY <1>0 DEF OrderInv, SortInv, KeepInv, Needed, after
<1>2. CycleReportedExactly'
  BY <1>0, PrerequisitesKept DEF OrderInv, CycleReportedExactly
<1>3. OnlyNeededStagesChange'
  <2>1. CASE Promoted \/ Prepared
    BY <1>0, <2>1, PrerequisitesKept DEF OrderInv, OnlyNeededStagesChange, Promoted, Prepared
  <2> QED BY <2>1, PromoteHolds, DeferHolds DEF OrderInv
<1> QED BY <1>1, <1>2, <1>3 DEF OrderInv

\* Every step of the loader keeps what is said of the order and of the stages.
LEMMA OrderStepHolds ==
  ASSUME IInv, IInv', OrderInv, [Next]_vars
  PROVE  OrderInv'
<1>1. CASE Prepare
  <2>1. Types /\ Types'
    BY DEF IInv
  <2>2. PrepareStep
    BY <1>1 DEF Prepare
  <2> QED BY <2>1, <2>2, SortHolds, StagesHold DEF PrepareStep
<1>2. CASE ~Prepare
  <2>1. MainWalks
    BY <1>2 DEF Next, Main, LoadEarly, NoGameContext, BeforeMainDone, AfterRuntimeInit, LoadNormal, StartWorker,
       ReportDataReady, Worker, WorkerStarts, WorkerExits, WorkerSkip, WorkerWait, WorkerCancelled, WorkerProceeds, WorkerLoad,
       WorkerDone, WorkerKeeps, CancelWorker, Unload, JoinWorker, FreeLast, Unloaded, UnloadKeeps,
       InGame, MainWalks, orderVars, vars
  <2>2. (~Preparing /\ ~Preparing') \/ UNCHANGED <<main, pos>>
    BY <1>2 DEF Next, Main, LoadEarly, NoGameContext, BeforeMainDone, AfterRuntimeInit, LoadNormal, StartWorker,
       ReportDataReady, Worker, WorkerStarts, WorkerExits, WorkerSkip, WorkerWait, WorkerCancelled, WorkerProceeds, WorkerLoad,
       WorkerDone, WorkerKeeps, CancelWorker, Unload, JoinWorker, FreeLast, Unloaded, UnloadKeeps,
       InGame, Preparing, LoadStage, orderVars, vars
  <2> QED BY <2>1, <2>2, OrderInvKept
<1> QED BY <1>1, <1>2

\* Before the first move nothing is settled, and no stage has changed.
LEMMA InitOrderInv ==
  ASSUME Init
  PROVE  OrderInv
<1>0. /\ N \in Nat /\ N > 0 /\ config \in Configurations /\ after \in [Dlls -> SUBSET Dlls]
      /\ order = Configured /\ stage = config.stage /\ delayed = config.delayed /\ moves = 0
      /\ cycle = FALSE /\ main \in {"early", "sort"}
  BY AfterIsRelation DEF Init, OrderInit
<1>1. SortInv
  <2>1. 1 \in Dlls /\ 0 \in Nat /\ 1 + 0 <= N /\ (1 - 1) * N + 0 = 0 /\ 1..0 = {}
    BY <1>0 DEF Dlls
  <2>2. Settled(1)
    BY <1>0 DEF Settled, Dlls
  <2>3. Chain(1, 0)
    BY <1>0, <2>1 DEF Chain
  <2> QED BY <2>1, <2>2, <2>3 DEF SortInv
<1>2. KeepInv
  BY <1>0 DEF KeepInv, Configured
<1>3. CycleReportedExactly
  BY <1>0 DEF CycleReportedExactly
<1>4. OnlyNeededStagesChange
  BY <1>0 DEF OnlyNeededStagesChange
<1> QED BY <1>1, <1>2, <1>3, <1>4 DEF OrderInv

\* extdll.c:262-345: the invariant of the sort and of the stages.
LEMMA OrderInvAlways == Spec => []OrderInv
<1>1. Init => OrderInv
  BY InitOrderInv
<1>2. IInv /\ IInv' /\ OrderInv /\ [Next]_vars => OrderInv'
  BY OrderStepHolds
<1> QED BY <1>1, <1>2, IInvAlways, PTL DEF Spec

\* The position of an entry is where it is.
LEMMA PositionIs ==
  ASSUME Types, NEW d \in Dlls
  PROVE  Position(d) \in Dlls /\ order[Position(d)] = d
<1>1. \E i \in Dlls : order[i] = d
  BY DEF Types
<1> QED BY <1>1 DEF Position

\* extdll.c:264-299: for any number of DLLs and any dependencies, the sort puts every
\* dependency before its dependents, leaves the entries nothing depends on in the order of
\* the configuration, and runs out of its n*n moves when and only when there is a cycle.
THEOREM SortIsAlwaysExact == Spec => []SortIsExact
<1>1. IInv /\ OrderInv => SortIsExact
  <2> SUFFICES ASSUME IInv, OrderInv PROVE SortIsExact
    OBVIOUS
  <2>1. UnrelatedKeepOrder
    <3> SUFFICES ASSUME NEW d \in Dlls, NEW e \in Dlls, d < e,
                        \A f \in Dlls : {d, e} \cap (after[f] \ {f}) = {}
                 PROVE  Position(d) < Position(e)
      BY DEF UnrelatedKeepOrder
    <3>1. PICK p \in Dlls : p = Position(d) /\ order[p] = d
      BY PositionIs DEF IInv
    <3>2. PICK q \in Dlls : q = Position(e) /\ order[q] = e
      BY PositionIs DEF IInv
    <3>3. ~Needed(d) /\ ~Needed(e)
      BY DEF Needed
    <3>4. N \in Nat /\ Dlls \subseteq Nat
      BY AfterIsRelation DEF IInv, Types, Dlls
    <3>5. q < p => e < d
      BY <3>1, <3>2, <3>3 DEF OrderInv, KeepInv
    <3>6. p < q
      <4>1. p # q
        BY <3>1, <3>2, <3>4
      <4>2. p \in Nat /\ q \in Nat /\ d \in Nat /\ e \in Nat
        BY <3>4
      <4> QED BY <3>5, <4>1, <4>2
    <3> QED BY <3>1, <3>2, <3>6
  <2> QED BY <2>1 DEF SortIsExact, IInv, OrderInv
<1> QED BY <1>1, IInvAlways, OrderInvAlways, PTL

\* extdll.c:310-345: a dependency is never in a later stage than its dependent, and no entry
\* leaves the stage it was configured with unless a dependency needs it.
THEOREM StagesAlwaysFollowDependencies == Spec => []StagesFollowDependencies
<1>1. IInv /\ OrderInv => StagesFollowDependencies
  BY DEF StagesFollowDependencies, IInv, OrderInv
<1> QED BY <1>1, IInvAlways, OrderInvAlways, PTL

----------------------------------------------------------------------------
(* The launch.                                                             *)

\* The places of a launch, in their order.
Searching == {"start", "resolve", "config", "locate", "agree", "proxy", "export"}
Creating == Searching \cup {"begin locale", "create"}
Injecting == {"allocate", "write", "start loader", "wait loader", "free", "find", "start init",
              "wait init", "resume"}
Failed == {"not created", "not injected"}
LaunchPlaces == Creating \cup {"end locale"} \cup Injecting \cup Failed \cup {"success", "done"}

\* Nothing has failed before a place that says so, and what failed there is the last error.
CauseInv ==
  /\ at \notin {"end locale", "free", "done"} \cup Failed => cause = Nil
  /\ at = "end locale" => IF process = "none" THEN cause = "create" /\ lastError = "create"
                          ELSE cause = Nil
  /\ at = "free" => cause \in {Nil, "write", "start loader", "aborted", "wait"}
                    /\ (cause # Nil => lastError = cause)
  /\ at \in Failed => cause \in LaunchSteps \ {"memory"} /\ lastError = cause
  /\ at # "done" => dialogs = <<>>
  /\ FailureNamesItsCause

ProcessInv ==
  /\ process \in {"none", "suspended", "running", "dead"}
  /\ at \in Creating \cup {"not created"} => process = "none"
  /\ process = "none" => at \in Creating \cup {"end locale", "not created", "done"}
  /\ process = "running" => at \in {"success", "done"} /\ loader = "loaded" /\ init = "ok"
  /\ at = "success" /\ process = "suspended" => args.suspend
  /\ at = "done" /\ process = "suspended" => args.suspend /\ result = 0

\* The loading thread reads its path only while the launcher waits for it, unless that failed.
LoaderInv ==
  /\ at \in Creating \cup {"end locale", "not created", "allocate", "write", "start loader"} =>
       loader = "none"
  /\ Alive /\ loader = "reading" /\ cause # "wait" => at = "wait loader"
  /\ at \in {"start init", "wait init", "resume", "success"} => loader = "loaded"

\* The DLL's path is in the game until it is freed, which comes before the game is searched
\* for the loader and before any end that leaves the game alive.
PathInv ==
  /\ at \in {"write", "start loader", "wait loader", "free"} => remotePath = "there"
  /\ at \in {"find", "start init", "wait init", "resume", "success"} => remotePath = "freed"
  /\ at = "done" /\ Alive => remotePath = "freed"

\* The game of the executable, the one exported and the explicit target are one.
AgreedInv ==
  /\ at \notin {"start", "done"} /\ args.target # Nil => game = args.target
  /\ at \notin {"start", "resolve", "config", "locate", "agree", "done"} /\ exe \in Games => game = exe
  /\ at \notin Searching \cup {"done"} => env = game

\* The initialisation runs after the export and has succeeded before the game may run.
InitInv ==
  /\ init \in {"none", "running", "ok", "failed"}
  /\ init # "none" => at \in {"wait init", "resume", "not injected", "success", "done"}
  /\ at \in {"resume", "success"} => init = "ok"
  /\ init # "none" => /\ args.target # Nil => env = args.target
                      /\ exe \in Games => env = exe
  /\ init = "ok" => context = ContextOf

\* The locale is away only under the guard, which holds around the creation.
LocaleInv ==
  /\ guard \in BOOLEAN
  /\ locale = "cleared" => guard = TRUE
  /\ guard = TRUE => at \in {"create", "end locale"}

LaunchInv == /\ at \in LaunchPlaces /\ CauseInv /\ ProcessInv /\ LoaderInv /\ PathInv /\ AgreedInv
             /\ InitInv /\ LocaleInv

\* The first dialog is the only one.
LEMMA AppendFirst == ASSUME NEW s PROVE Append(<<>>, s) = <<s>>
OBVIOUS

\* A failed launch has told why, but for want of memory.
LEMMA FailureTold ==
  ASSUME at' = "done", result' = 1, dialogs' = IF cause' = "memory" THEN <<>> ELSE <<cause'>>
  PROVE  CauseInv'
BY DEF CauseInv, Failed, FailureNamesItsCause

\* A launch that ends before there is a process.
LEMMA StopsHolds ==
  ASSUME LaunchInv, at \in Searching, NEW s \in LaunchSteps \ {"memory"}, StopsAt(s),
         UNCHANGED remoteVars, UNCHANGED guard, locale' = "cleared" => locale = "cleared"
  PROVE  LaunchInv'
<1>1. /\ cause' = s /\ dialogs' = <<s>> /\ at' = "done" /\ result' = 1
      /\ UNCHANGED <<process, loader, remotePath, init, context, guard>>
  BY AppendFirst DEF StopsAt, LaunchInv, CauseInv, Searching, remoteVars
<1>2. process = "none" /\ loader = "none" /\ init = "none" /\ guard = FALSE
  BY DEF LaunchInv, ProcessInv, LoaderInv, InitInv, LocaleInv, Creating, Searching
<1>3. CauseInv'
  BY <1>1, FailureTold
<1>4. ProcessInv' /\ LoaderInv' /\ PathInv' /\ InitInv'
  BY <1>1, <1>2 DEF ProcessInv, LoaderInv, PathInv, InitInv, Alive, Creating, Searching
<1>5. AgreedInv'
  BY <1>1 DEF AgreedInv, Searching
<1>6. LocaleInv'
  BY <1>1, <1>2 DEF LaunchInv, LocaleInv
<1> QED BY <1>1, <1>3, <1>4, <1>5, <1>6 DEF LaunchInv, LaunchPlaces

\* One that goes on to the next of the places before there is a process.
LEMMA GoesHolds ==
  ASSUME LaunchInv, at \in Searching, NEW l \in Creating, l # "create", Goes(l),
         UNCHANGED remoteVars, UNCHANGED guard, locale' = "cleared" => locale = "cleared", AgreedInv'
  PROVE  LaunchInv'
<1>1. /\ at' = l /\ UNCHANGED <<cause, dialogs, lastError, result>>
      /\ UNCHANGED <<process, loader, remotePath, init, context, guard>>
  BY DEF Goes, errorVars, remoteVars
<1>2. process = "none" /\ loader = "none" /\ init = "none" /\ guard = FALSE /\ cause = Nil /\ dialogs = <<>>
  BY DEF LaunchInv, CauseInv, ProcessInv, LoaderInv, InitInv, LocaleInv, Failed, Creating, Searching
<1>3. CauseInv'
  BY <1>1, <1>2 DEF CauseInv, Failed, FailureNamesItsCause, Creating, Searching
<1>4. LocaleInv'
  BY <1>1, <1>2 DEF LaunchInv, LocaleInv
<1>5. ProcessInv' /\ LoaderInv'
  BY <1>1, <1>2 DEF ProcessInv, LoaderInv, Alive, Creating, Searching
<1>6. PathInv' /\ InitInv'
  BY <1>1, <1>2 DEF PathInv, InitInv, Alive, Creating, Searching
<1> QED BY <1>1, <1>3, <1>4, <1>5, <1>6 DEF LaunchInv, LaunchPlaces, Creating, Searching

\* The search for the game ends the launch or goes on to its next step.
LEMMA SearchingHolds ==
  ASSUME LaunchInv, ParseArgs \/ Resolve \/ SelectConfigGame \/ Locate \/ Agree \/ CheckProxy
  PROVE  LaunchInv'
<1> USE DEF LaunchInv, AgreedInv, Searching, Creating, LaunchSteps
<1>1. CASE ParseArgs
  <2>1. CASE Goes("resolve")
    <3>1. at' = "resolve" /\ (args'.target # Nil => game' = args'.target)
      <4>1. PICK a \in Arguments :
              /\ args' = a /\ game' = IF a.target \in Games THEN a.target ELSE Nil
              /\ IF a.target \in Games \cup {Nil} THEN Goes("resolve") ELSE StopsAt("arguments")
        BY <1>1 DEF ParseArgs
      <4>2. at' = "resolve"
        BY <2>1 DEF Goes
      <4>3. a.target \in Games \cup {Nil}
        BY <4>1, <4>2 DEF StopsAt
      <4> QED BY <4>1, <4>2, <4>3
    <3> QED BY <1>1, <2>1, <3>1, GoesHolds DEF ParseArgs
  <2>2. CASE StopsAt("arguments")
    BY <1>1, <2>2, StopsHolds DEF ParseArgs
  <2> QED BY <1>1, <2>1, <2>2 DEF ParseArgs
<1>2. CASE Resolve
  <2>1. CASE Goes("config")
    BY <1>2, <2>1, GoesHolds DEF Resolve, choiceVars, localeVars, Goes
  <2>2. CASE StopsAt("resolve")
    BY <1>2, <2>2, StopsHolds DEF Resolve, localeVars
  <2> QED BY <1>2, <2>1, <2>2 DEF Resolve
<1>3. CASE SelectConfigGame
  <2>1. CASE Goes("locate")
    <3>1. at' = "locate" /\ UNCHANGED args /\ (args.target # Nil => game' = args.target)
      BY <1>3, <2>1 DEF SelectConfigGame, Goes
    <3> QED BY <1>3, <2>1, <3>1, GoesHolds DEF SelectConfigGame, localeVars
  <2>2. CASE StopsAt("config")
    BY <1>3, <2>2, StopsHolds DEF SelectConfigGame, localeVars
  <2> QED BY <1>3, <2>1, <2>2 DEF SelectConfigGame
<1>4. CASE Locate
  <2>1. CASE Goes("agree")
    BY <1>4, <2>1, GoesHolds DEF Locate, localeVars, Goes
  <2>2. CASE StopsAt("locate")
    BY <1>4, <2>2, StopsHolds DEF Locate, localeVars
  <2> QED BY <1>4, <2>1, <2>2 DEF Locate
<1>5. CASE Agree
  <2>1. CASE Goes("proxy")
    <3>1. at' = "proxy" /\ UNCHANGED <<args, exe>> /\ (exe \in Games => game' = exe)
      BY <1>5, <2>1 DEF Agree, Goes, StopsAt
    <3>2. args.target # Nil => game' = args.target
      BY <1>5, <2>1 DEF Agree, Goes, StopsAt
    <3> QED BY <1>5, <2>1, <3>1, <3>2, GoesHolds DEF Agree, localeVars
  <2>2. CASE StopsAt("agree")
    BY <1>5, <2>2, StopsHolds DEF Agree, localeVars
  <2> QED BY <1>5, <2>1, <2>2 DEF Agree
<1>6. CASE CheckProxy
  <2>1. CASE Goes("export")
    BY <1>6, <2>1, GoesHolds DEF CheckProxy, choiceVars, localeVars, Goes
  <2>2. CASE StopsAt("proxy")
    BY <1>6, <2>2, StopsHolds DEF CheckProxy, localeVars
  <2>3. CASE at' = "done" /\ result' = 1 /\ cause' = "memory" /\ UNCHANGED <<lastError, dialogs>>
    <3>1. at = "proxy" /\ UNCHANGED <<choiceVars, localeVars, remoteVars>>
      BY <1>6 DEF CheckProxy
    <3>2. process = "none" /\ loader = "none" /\ init = "none" /\ guard = FALSE /\ dialogs = <<>>
      BY <3>1 DEF CauseInv, ProcessInv, LoaderInv, InitInv, LocaleInv
    <3>3. CauseInv'
      BY <2>3, <3>2, FailureTold
    <3>4. ProcessInv' /\ LoaderInv' /\ PathInv'
      BY <2>3, <3>1, <3>2 DEF ProcessInv, LoaderInv, PathInv, Alive, remoteVars
    <3>5. InitInv' /\ AgreedInv'
      BY <2>3, <3>1, <3>2 DEF InitInv, AgreedInv, remoteVars
    <3>6. LocaleInv'
      BY <3>1, <3>2 DEF LocaleInv, localeVars
    <3> QED BY <2>3, <3>3, <3>4, <3>5, <3>6 DEF LaunchPlaces
  <2> QED BY <1>6, <2>1, <2>2, <2>3 DEF CheckProxy
<1> QED BY <1>1, <1>2, <1>3, <1>4, <1>5, <1>6

\* Without the guard nothing is created.
LEMMA BeginLocaleHolds ==
  ASSUME LaunchInv, BeginLocale
  PROVE  LaunchInv'
<1> USE DEF LaunchInv, Searching, Creating
<1>1. at = "begin locale" /\ UNCHANGED <<choiceVars, remoteVars>>
  BY DEF BeginLocale
<1>2. process = "none" /\ loader = "none" /\ init = "none" /\ guard = FALSE /\ cause = Nil /\ dialogs = <<>>
  BY <1>1 DEF CauseInv, ProcessInv, LoaderInv, InitInv, LocaleInv, Failed
<1>3. \/ at' = "create" /\ UNCHANGED errorVars
      \/ at' = "not created" /\ cause' = "create" /\ lastError' = "create" /\ UNCHANGED dialogs
  BY <1>2 DEF BeginLocale, Goes, FailsWith
<1>4. CauseInv'
  BY <1>2, <1>3 DEF CauseInv, Failed, FailureNamesItsCause, errorVars, LaunchSteps
<1>5. ProcessInv' /\ LoaderInv' /\ PathInv' /\ InitInv'
  BY <1>1, <1>2, <1>3 DEF ProcessInv, LoaderInv, PathInv, InitInv, Alive, remoteVars
<1>6. AgreedInv'
  BY <1>1, <1>3 DEF AgreedInv, choiceVars
<1>7. LocaleInv'
  BY <1>1, <1>2 DEF BeginLocale, LocaleInv, localeVars, Goes, FailsWith
<1> QED BY <1>3, <1>4, <1>5, <1>6, <1>7 DEF LaunchPlaces, Failed

\* The dialog of a launch that failed is about its cause.
LEMMA ReportHolds ==
  ASSUME LaunchInv, at \in Failed, dialogs' = Append(dialogs, lastError), at' = "done", result' = 1,
         UNCHANGED <<cause, choiceVars, localeVars, loader, remotePath, init, context>>,
         process' = IF at = "not created" THEN process ELSE "dead"
  PROVE  LaunchInv'
<1> USE DEF LaunchInv, Searching, Creating, Failed
<1>1. cause \in LaunchSteps \ {"memory"} /\ dialogs' = <<cause>> /\ process' \in {"none", "dead"}
  <2>1. cause \in LaunchSteps \ {"memory"} /\ lastError = cause /\ dialogs = <<>>
    BY DEF CauseInv
  <2>2. process' \in {"none", "dead"}
    BY DEF ProcessInv
  <2> QED BY <2>1, <2>2, AppendFirst
<1>2. CauseInv'
  BY <1>1, FailureTold
<1>3. ProcessInv' /\ LoaderInv' /\ PathInv'
  BY <1>1 DEF ProcessInv, LoaderInv, PathInv, Alive
<1>4. AgreedInv' /\ InitInv' /\ LocaleInv'
  BY DEF AgreedInv, InitInv, LocaleInv, ContextOf, choiceVars, localeVars
<1> QED BY <1>2, <1>3, <1>4 DEF LaunchPlaces

\* The game initialises itself while the launcher waits, or after it gave up.
LEMMA InitInGameHolds ==
  ASSUME LaunchInv, InitInGame
  PROVE  LaunchInv'
<1> USE DEF LaunchInv, InitInGame, choiceVars, localeVars, errorVars
<1>1. CauseInv' /\ LocaleInv' /\ AgreedInv'
  BY DEF CauseInv, LocaleInv, AgreedInv, FailureNamesItsCause
<1>2. ProcessInv' /\ LoaderInv' /\ PathInv'
  BY DEF ProcessInv, LoaderInv, PathInv, Alive
<1>3. InitInv'
  BY DEF InitInv, ContextOf
<1> QED BY <1>1, <1>2, <1>3

\* A dead game needs nothing any more.
LEMMA GameDiesHolds ==
  ASSUME LaunchInv, GameDies
  PROVE  LaunchInv'
<1> USE DEF LaunchInv, GameDies, choiceVars, localeVars, errorVars
<1>1. CauseInv'
  BY DEF CauseInv, FailureNamesItsCause, Alive
<1>2. LocaleInv' /\ AgreedInv'
  BY DEF LocaleInv, AgreedInv
<1>3. InitInv'
  BY DEF InitInv, ContextOf
<1>4. ProcessInv' /\ LoaderInv' /\ PathInv'
  BY DEF ProcessInv, LoaderInv, PathInv, Alive, Creating, Searching
<1> QED BY <1>1, <1>2, <1>3, <1>4

\* Every step of the launcher and of the game keeps the invariant.
LEMMA LaunchStepHolds ==
  ASSUME LaunchInv, [LaunchNext]_launchVars
  PROVE  LaunchInv'
<1>1. CASE ParseArgs \/ Resolve \/ SelectConfigGame \/ Locate \/ Agree \/ CheckProxy
  BY <1>1, SearchingHolds
<1>2. CASE BeginLocale
  BY <1>2, BeginLocaleHolds
<1>3. CASE ReportNotCreated \/ ReportFailure
  <2>1. at \in Failed /\ dialogs' = Append(dialogs, lastError) /\ at' = "done" /\ result' = 1
    BY <1>3 DEF ReportNotCreated, ReportFailure, Failed
  <2>2. UNCHANGED <<cause, choiceVars, localeVars, loader, remotePath, init, context>>
    BY <1>3 DEF ReportNotCreated, ReportFailure, remoteVars
  <2>3. process' = IF at = "not created" THEN process ELSE "dead"
    BY <1>3 DEF ReportNotCreated, ReportFailure, remoteVars
  <2> QED BY <2>1, <2>2, <2>3, ReportHolds
<1>4. CASE InitInGame
  BY <1>4, InitInGameHolds
<1>5. CASE GameDies
  BY <1>5, GameDiesHolds
<1>6. CASE UNCHANGED launchVars
  <2>1. CauseInv' /\ ProcessInv'
    BY <1>6 DEF launchVars, LaunchInv, CauseInv, ProcessInv, FailureNamesItsCause
  <2>2. LoaderInv' /\ PathInv' /\ AgreedInv'
    BY <1>6 DEF launchVars, LaunchInv, LoaderInv, PathInv, AgreedInv, Alive
  <2>3. InitInv' /\ LocaleInv'
    BY <1>6 DEF launchVars, LaunchInv, InitInv, LocaleInv, ContextOf
  <2> QED BY <1>6, <2>1, <2>2, <2>3 DEF launchVars, LaunchInv
<1> USE NilAssumption DEF LaunchInv, LaunchPlaces, Failed, Injecting, Creating, Searching,
    CauseInv, ProcessInv, LoaderInv, PathInv, AgreedInv, InitInv, LocaleInv,
    FailureNamesItsCause, Alive, ContextOf, LaunchSteps, Goes, FailsWith, CleansUp, choiceVars, remoteVars, localeVars, errorVars
<1>7. CASE Export
  BY <1>7 DEF Export
<1>8. CASE Create
  BY <1>8 DEF Create
<1>9. CASE EndLocale
  BY <1>9 DEF EndLocale
<1>10. CASE Allocate
  BY <1>10 DEF Allocate
<1>11. CASE Write
  BY <1>11 DEF Write
<1>12. CASE StartLoader
  BY <1>12 DEF StartLoader
<1>13. CASE WaitLoader
  BY <1>13 DEF WaitLoader
<1>14. CASE Free
  BY <1>14 DEF Free
<1>15. CASE Find
  BY <1>15 DEF Find
<1>16. CASE StartInit
  BY <1>16 DEF StartInit
<1>17. CASE WaitInit
  BY <1>17 DEF WaitInit
<1>18. CASE Resume
  BY <1>18 DEF Resume
<1>19. CASE Succeed
  BY <1>19 DEF Succeed
<1>20. CASE LoadInGame
  BY <1>20 DEF LoadInGame
<1> QED
  BY <1>1, <1>2, <1>3, <1>4, <1>5, <1>6, <1>7, <1>8, <1>9, <1>10, <1>11, <1>12, <1>13, <1>14,
     <1>15, <1>16, <1>17, <1>18, <1>19, <1>20 DEF LaunchNext, Launch

\* A launch starts with no process.
LEMMA LaunchInitHolds ==
  ASSUME LaunchInit
  PROVE  LaunchInv
BY NilAssumption DEF LaunchInit, LaunchInv, LaunchPlaces, Failed, Injecting, Creating, Searching,
   CauseInv, ProcessInv,
   LoaderInv, PathInv, AgreedInv, InitInv, LocaleInv, FailureNamesItsCause, Alive

\* launcher.c:386-434: the invariant of the launch.
LEMMA LaunchInvAlways == LaunchSpec => []LaunchInv
<1>1. LaunchInit => LaunchInv
  BY LaunchInitHolds
<1>2. LaunchInv /\ [LaunchNext]_launchVars => LaunchInv'
  BY LaunchStepHolds
<1> QED BY <1>1, <1>2, PTL DEF LaunchSpec

\* launcher.c:386, launch_process.c:281: for any games, command lines and libraries, and
\* whenever the game's process dies: the game's own code runs only when the loader in it was
\* loaded and has initialised itself, the loading thread reads its path only while it is
\* there, and the loader takes itself to be in the game that was launched.
THEOREM GamesAreAlwaysPrepared == LaunchSpec => []GameIsPrepared
<1>1. LaunchInv => GameIsPrepared
  <2> SUFFICES ASSUME LaunchInv PROVE GameIsPrepared
    OBVIOUS
  <2>1. GameRunsInitialised
    BY DEF LaunchInv, ProcessInv, LoaderInv, PathInv, GameRunsInitialised, Alive
  <2>2. GameKnowsItself
    BY DEF LaunchInv, InitInv, ContextOf, GameKnowsItself
  <2> QED BY <2>1, <2>2 DEF GameIsPrepared
<1> QED BY <1>1, LaunchInvAlways, PTL

\* launcher.c:401, launch_process.c:140: however a launch ends, no game stays suspended that
\* was not asked for, no path stays in its memory, the locale is back, and the one dialog
\* names the step that failed first although cleaning up overwrites the last error.
THEOREM LaunchesAlwaysEndClean == LaunchSpec => []LaunchEndsClean
<1>1. LaunchInv => LaunchEndsClean
  BY DEF LaunchInv, CauseInv, ProcessInv, PathInv, LocaleInv, LaunchEndsClean, NothingStaysBehind
<1> QED BY <1>1, LaunchInvAlways, PTL

----------------------------------------------------------------------------
(* Vdf: the objects of a tree, and what is below them.                      *)

\* Objects as the reader has them: a child is allocated after what it is a child of, and
\* is a child once.
ObjectTypes == {"none", "array", "string"}
ObjectKeys == {"none"} \cup {Text(t) : t \in Tokens}
ObjectRecords == [key : ObjectKeys, type : ObjectTypes, children : Seq(Nat)]
Kids(objs, p) == DOMAIN objs[p].children
Forest(objs) ==
  /\ DOMAIN objs \subseteq Nat \ {0} /\ objs \in [DOMAIN objs -> ObjectRecords]
  /\ \A p \in DOMAIN objs : \A i \in Kids(objs, p) :
       objs[p].children[i] \in DOMAIN objs /\ p < objs[p].children[i]
  /\ \A p, q \in DOMAIN objs : \A i \in Kids(objs, p) : \A j \in Kids(objs, q) :
       objs[p].children[i] = objs[q].children[j] => p = q /\ i = j

\* Those that are nobody's child.
IsChild(objs, x) == \E p \in DOMAIN objs : \E i \in Kids(objs, p) : objs[p].children[i] = x
Tops(objs) == {o \in DOMAIN objs : ~IsChild(objs, o)}

\* What is below an object: itself, and with every object its children, and no more.
LEMMA BelowIs ==
  ASSUME NEW objs, Forest(objs), NEW o \in DOMAIN objs
  PROVE  /\ o \in Below(objs, o) /\ Below(objs, o) \subseteq DOMAIN objs
         /\ \A p \in Below(objs, o) : \A i \in Kids(objs, p) : objs[p].children[i] \in Below(objs, o)
         /\ \A x \in Below(objs, o) : x # o =>
              \E p \in Below(objs, o) : \E i \in Kids(objs, p) : objs[p].children[i] = x
<1> DEFINE B == Below(objs, o)
<1>1. o \in B /\ B \subseteq DOMAIN objs
  BY DEF Below
<1>2. ASSUME NEW p \in B, NEW i \in Kids(objs, p) PROVE objs[p].children[i] \in B
  <2>1. objs[p].children[i] \in DOMAIN objs
    BY <1>1, <1>2 DEF Forest
  <2>2. ASSUME NEW S \in SUBSET DOMAIN objs, o \in S, ClosedBelow(objs, S)
        PROVE  objs[p].children[i] \in S
    <3>1. p \in S
      BY <2>2 DEF Below
    <3> QED BY <2>2, <3>1, <1>2 DEF ClosedBelow, Kids
  <2> QED BY <2>1, <2>2 DEF Below
<1>3. ASSUME NEW x \in B, x # o
      PROVE  \E p \in B : \E i \in Kids(objs, p) : objs[p].children[i] = x
  <2> SUFFICES ASSUME \A p \in B : \A i \in Kids(objs, p) : objs[p].children[i] # x PROVE FALSE
    OBVIOUS
  <2> DEFINE S == B \ {x}
  <2>1. S \in SUBSET DOMAIN objs /\ o \in S
    BY <1>1, <1>3
  <2>2. ClosedBelow(objs, S)
    BY <1>2 DEF ClosedBelow, Kids
  <2>3. x \in S
    <3> HIDE DEF S
    <3> QED BY <2>1, <2>2, <1>3 DEF Below
  <2> QED BY <2>3
<1> QED BY <1>1, <1>2, <1>3

\* Freeing one that is nobody's child takes out what is below it and leaves the rest as
\* it is.
LEMMA FreedTop ==
  ASSUME NEW objs, Forest(objs), NEW o \in Tops(objs)
  PROVE  /\ Forest(FreeObject(objs, o)) /\ Tops(FreeObject(objs, o)) = Tops(objs) \ {o}
         /\ DOMAIN FreeObject(objs, o) \subseteq DOMAIN objs \ {o}
         /\ \A x \in DOMAIN FreeObject(objs, o) : FreeObject(objs, o)[x] = objs[x]
<1> DEFINE B == Below(objs, o)
           left == FreeObject(objs, o)
<1>0. o \in DOMAIN objs /\ ~IsChild(objs, o)
  BY DEF Tops
<1>1. /\ o \in B /\ B \subseteq DOMAIN objs
      /\ \A p \in B : \A i \in Kids(objs, p) : objs[p].children[i] \in B
      /\ \A x \in B : x # o => \E p \in B : \E i \in Kids(objs, p) : objs[p].children[i] = x
  BY <1>0, BelowIs
<1>2. DOMAIN left = DOMAIN objs \ B /\ \A x \in DOMAIN objs \ B : left[x] = objs[x]
  BY DEF FreeObject
<1> HIDE DEF B, left
<1>3. \A x \in DOMAIN left : x \in DOMAIN objs /\ left[x] = objs[x] /\ Kids(left, x) = Kids(objs, x)
  BY <1>2 DEF Kids
<1>4. ASSUME NEW p \in DOMAIN left, NEW i \in Kids(left, p)
      PROVE  left[p].children[i] \in DOMAIN left /\ p < left[p].children[i]
  <2> DEFINE c == left[p].children[i]
  <2>1. c = objs[p].children[i] /\ i \in Kids(objs, p) /\ p \in DOMAIN objs /\ p \notin B
    BY <1>2, <1>3
  <2>2. c \in DOMAIN objs /\ p < c
    BY <2>1 DEF Forest
  <2>3. c # o
    BY <1>0, <2>1 DEF IsChild
  <2>4. c \notin B
    <3> SUFFICES ASSUME c \in B PROVE FALSE
      OBVIOUS
    <3>1. PICK q \in B : \E j \in Kids(objs, q) : objs[q].children[j] = c
      BY <1>1, <2>3
    <3>2. PICK j \in Kids(objs, q) : objs[q].children[j] = c
      BY <3>1
    <3>3. p = q
      BY <1>1, <2>1, <3>2 DEF Forest
    <3> QED BY <2>1, <3>3
  <2> QED BY <1>2, <2>2, <2>4
<1>5. \A p, q \in DOMAIN left : \A i \in Kids(left, p) : \A j \in Kids(left, q) :
        left[p].children[i] = left[q].children[j] => p = q /\ i = j
  BY <1>3 DEF Forest
<1>6. Forest(left)
  <2>1. DOMAIN left \subseteq Nat \ {0}
    BY <1>3 DEF Forest
  <2>2. left \in [DOMAIN left -> ObjectRecords]
    <3>1. left = [x \in DOMAIN left |-> left[x]]
      BY DEF left, FreeObject
    <3>2. \A x \in DOMAIN left : left[x] \in ObjectRecords
      BY <1>3 DEF Forest
    <3> QED BY <3>1, <3>2
  <2> QED BY <1>4, <1>5, <2>1, <2>2 DEF Forest
<1>7. ASSUME NEW x PROVE x \in Tops(left) <=> x \in Tops(objs) \ {o}
  <2>1. ASSUME x \in Tops(left) PROVE x \in Tops(objs) \ {o}
    <3>1. x \in DOMAIN objs /\ x \notin B /\ ~IsChild(left, x)
      BY <1>2, <2>1 DEF Tops
    <3>2. ~IsChild(objs, x)
      <4> SUFFICES ASSUME NEW p \in DOMAIN objs, NEW i \in Kids(objs, p), objs[p].children[i] = x
          PROVE FALSE
        BY DEF IsChild
      <4>1. p \notin B
        BY <1>1, <3>1
      <4>2. p \in DOMAIN left
        BY <1>2, <4>1
      <4> QED BY <1>3, <3>1, <4>2 DEF IsChild
    <3> QED BY <1>1, <3>1, <3>2 DEF Tops
  <2>2. ASSUME x \in Tops(objs), x # o PROVE x \in Tops(left)
    <3>1. x \in DOMAIN objs /\ ~IsChild(objs, x)
      BY <2>2 DEF Tops
    <3>2. x \notin B
      BY <1>1, <2>2, <3>1 DEF IsChild
    <3>3. ~IsChild(left, x)
      BY <1>3, <3>1 DEF IsChild
    <3> QED BY <1>2, <3>1, <3>2, <3>3 DEF Tops
  <2> QED BY <2>1, <2>2
<1> QED BY <1>1, <1>2, <1>6, <1>7 DEF left

\* Every object is below one that is nobody's child.
LEMMA BelowTops ==
  ASSUME NEW objs, Forest(objs), NEW x \in DOMAIN objs
  PROVE  \E t \in Tops(objs) : x \in Below(objs, t)
<1> DEFINE Lost == {y \in DOMAIN objs : \A t \in Tops(objs) : y \notin Below(objs, t)}
<1> SUFFICES ASSUME x \in Lost PROVE FALSE
  OBVIOUS
<1>1. PICK y \in Lost : \A z \in Lost : y <= z
  <2>1. Lost \subseteq Nat /\ Lost # {}
    BY DEF Forest
  <2> HIDE DEF Lost
  <2>2. \E y \in Lost : \A z \in Lost : ~(<<z, y>> \in OpToRel(<, Nat))
    BY <2>1, NatLessThanWellFounded, WFMin
  <2>3. PICK y \in Lost : \A z \in Lost : ~(<<z, y>> \in OpToRel(<, Nat))
    BY <2>2
  <2>4. ASSUME NEW z \in Lost PROVE y <= z
    <3>1. ~(z < y)
      BY <2>1, <2>3 DEF OpToRel
    <3> QED BY <2>1, <3>1
  <2> QED BY <2>4
<1>2. y \notin Tops(objs)
  <2> SUFFICES ASSUME y \in Tops(objs) PROVE FALSE
    OBVIOUS
  <2>1. y \in Below(objs, y)
    BY BelowIs DEF Tops
  <2> QED BY <2>1
<1>3. PICK p \in DOMAIN objs : \E i \in Kids(objs, p) : objs[p].children[i] = y
  BY <1>2 DEF Tops, IsChild
<1>4. p < y
  BY <1>3 DEF Forest
<1>5. p \in Nat /\ y \in Nat
  BY DEF Forest
<1>6. p \notin Lost
  BY <1>1, <1>4, <1>5
<1>7. PICK t \in Tops(objs) : p \in Below(objs, t)
  BY <1>6
<1>8. y \in Below(objs, t)
  BY <1>3, <1>7, BelowIs DEF Tops
<1> QED BY <1>8

\* Objects that have the children they had.
LEMMA SameKids ==
  ASSUME NEW objs, Forest(objs), NEW news, DOMAIN news = DOMAIN objs,
         news \in [DOMAIN news -> ObjectRecords],
         \A x \in DOMAIN objs : news[x].children = objs[x].children
  PROVE  Forest(news) /\ Tops(news) = Tops(objs)
<1>1. \A x \in DOMAIN objs : Kids(news, x) = Kids(objs, x)
  BY DEF Kids
<1>2. Forest(news)
  BY <1>1 DEF Forest
<1>3. \A x : IsChild(news, x) <=> IsChild(objs, x)
  BY <1>1 DEF IsChild
<1> QED BY <1>2, <1>3 DEF Tops

\* With a new object.
Added(objs, o, k) == [x \in DOMAIN objs \cup {o} |-> IF x = o THEN NewObject(k) ELSE objs[x]]

\* A new object is nobody's child (vdf.c:346).
LEMMA NewTop ==
  ASSUME NEW objs, Forest(objs), NEW o \in Nat \ {0}, o \notin DOMAIN objs, NEW k \in ObjectKeys,
         NEW news,
         news = Added(objs, o, k)
  PROVE  Forest(news) /\ Tops(news) = Tops(objs) \cup {o} /\ DOMAIN news = DOMAIN objs \cup {o}
<1>1. /\ DOMAIN news = DOMAIN objs \cup {o} /\ news[o] = NewObject(k)
      /\ \A x \in DOMAIN objs : news[x] = objs[x]
  BY DEF Added
<1>2. NewObject(k) \in ObjectRecords /\ NewObject(k).children = <<>>
  BY DEF NewObject, ObjectRecords, ObjectTypes
<1>3. Kids(news, o) = {} /\ \A x \in DOMAIN objs : Kids(news, x) = Kids(objs, x)
  BY <1>1, <1>2 DEF Kids
<1>4. Forest(news)
  <2>1. DOMAIN news \subseteq Nat \ {0}
    BY <1>1 DEF Forest
  <2>2. news \in [DOMAIN news -> ObjectRecords]
    <3>1. \A x \in DOMAIN news : news[x] \in ObjectRecords
      BY <1>1, <1>2 DEF Forest
    <3>2. news = [x \in DOMAIN news |-> news[x]]
      BY <1>1 DEF Added
    <3> QED BY <3>1, <3>2
  <2>3. \A p \in DOMAIN news : \A i \in Kids(news, p) :
          /\ p \in DOMAIN objs /\ i \in Kids(objs, p)
          /\ news[p].children[i] = objs[p].children[i]
    BY <1>1, <1>3
  <2>4. ASSUME NEW p \in DOMAIN news, NEW i \in Kids(news, p)
        PROVE  news[p].children[i] \in DOMAIN news /\ p < news[p].children[i]
    <3>1. objs[p].children[i] \in DOMAIN objs /\ p < objs[p].children[i]
      BY <2>3 DEF Forest
    <3> QED BY <1>1, <2>3, <3>1
  <2>5. ASSUME NEW p \in DOMAIN news, NEW q \in DOMAIN news, NEW i \in Kids(news, p),
               NEW j \in Kids(news, q),
               news[p].children[i] = news[q].children[j]
        PROVE  p = q /\ i = j
    <3>1. p \in DOMAIN objs /\ i \in Kids(objs, p) /\ news[p].children[i] = objs[p].children[i]
      BY <2>3
    <3>2. q \in DOMAIN objs /\ j \in Kids(objs, q) /\ news[q].children[j] = objs[q].children[j]
      BY <2>3
    <3>3. objs[p].children[i] = objs[q].children[j]
      BY <2>5, <3>1, <3>2
    <3> QED BY <3>1, <3>2, <3>3 DEF Forest
  <2> QED BY <2>1, <2>2, <2>4, <2>5 DEF Forest
<1>5. \A x : IsChild(news, x) <=> IsChild(objs, x)
  BY <1>1, <1>3 DEF IsChild
<1>6. ~IsChild(objs, o)
  BY DEF IsChild, Forest
<1> QED BY <1>1, <1>4, <1>5, <1>6 DEF Tops

\* With a child more.
Taken(objs, b, c) == [objs EXCEPT ![b].children = Append(@, c)]

\* An older object takes one that is nobody's child (vdf.c:383).
LEMMA TakenTop ==
  ASSUME NEW objs, Forest(objs), NEW b \in DOMAIN objs, NEW c \in Tops(objs), b < c, NEW news,
         news = Taken(objs, b, c)
  PROVE  /\ Forest(news) /\ Tops(news) = Tops(objs) \ {c} /\ DOMAIN news = DOMAIN objs
         /\ \A x \in DOMAIN objs : news[x].key = objs[x].key
<1>0. c \in DOMAIN objs /\ ~IsChild(objs, c) /\ c \in Nat /\ b \in Nat
  BY DEF Tops, Forest
<1>1. objs \in [DOMAIN objs -> ObjectRecords]
  BY DEF Forest
<1> DEFINE n == Len(objs[b].children) + 1
<1>2. /\ objs[b] \in ObjectRecords /\ objs[b].children \in Seq(Nat) /\ n \in Nat
      /\ Kids(objs, b) = 1..(n - 1) /\ n \notin Kids(objs, b)
  <2>1. objs[b] \in ObjectRecords /\ objs[b].children \in Seq(Nat)
    BY <1>1 DEF ObjectRecords
  <2>2. n \in Nat /\ Kids(objs, b) = 1..(n - 1)
    BY <2>1 DEF Kids
  <2>3. n \notin 1..(n - 1)
    BY ONLY <2>2
  <2> QED BY <2>1, <2>2, <2>3
<1>3. /\ DOMAIN news = DOMAIN objs
      /\ \A x \in DOMAIN objs : x # b => news[x] = objs[x]
      /\ news[b] = [objs[b] EXCEPT !.children = Append(objs[b].children, c)]
  BY DEF Taken
<1>4. PICK s : s = objs[b].children
  OBVIOUS
<1>5. /\ Append(s, c) \in Seq(Nat) /\ DOMAIN Append(s, c) = Kids(objs, b) \cup {n}
      /\ \A i \in Kids(objs, b) : Append(s, c)[i] = s[i]
      /\ Append(s, c)[n] = c
  BY <1>0, <1>2, <1>4 DEF Kids
<1>6. /\ news[b] \in ObjectRecords /\ news[b].children = Append(s, c)
      /\ news[b].key = objs[b].key
  BY <1>2, <1>3, <1>4, <1>5 DEF ObjectRecords
<1>7. /\ Kids(news, b) = Kids(objs, b) \cup {n}
      /\ \A x \in DOMAIN objs : x # b => Kids(news, x) = Kids(objs, x)
      /\ \A x \in DOMAIN objs : \A i \in Kids(objs, x) :
           i \in Kids(news, x) /\ news[x].children[i] = objs[x].children[i]
      /\ news[b].children[n] = c
  <2>1. Kids(news, b) = Kids(objs, b) \cup {n} /\ news[b].children[n] = c
    BY <1>5, <1>6 DEF Kids
  <2>2. \A x \in DOMAIN objs : x # b => Kids(news, x) = Kids(objs, x)
    BY <1>3 DEF Kids
  <2>3. ASSUME NEW x \in DOMAIN objs, NEW i \in Kids(objs, x)
        PROVE  i \in Kids(news, x) /\ news[x].children[i] = objs[x].children[i]
    <3>1. CASE x = b
      <4>1. i \in Kids(objs, b)
        BY <3>1
      <4>2. Append(s, c)[i] = s[i]
        BY ONLY <1>5, <4>1
      <4> QED BY <1>4, <1>6, <2>1, <3>1, <4>1, <4>2
    <3>2. CASE x # b
      BY <1>3, <2>2, <3>2
    <3> QED BY <3>1, <3>2
  <2> QED BY <2>1, <2>2, <2>3
<1>8. ASSUME NEW p \in DOMAIN news, NEW i \in Kids(news, p)
      PROVE  (p = b /\ i = n /\ news[p].children[i] = c)
             \/ (i \in Kids(objs, p) /\ news[p].children[i] = objs[p].children[i])
  BY <1>3, <1>7
<1>9. Forest(news)
  <2>1. news \in [DOMAIN news -> ObjectRecords]
    <3>1. \A x \in DOMAIN news : news[x] \in ObjectRecords
      BY <1>1, <1>3, <1>6
    <3>2. news = [x \in DOMAIN news |-> news[x]]
      BY DEF Taken
    <3> QED BY <3>1, <3>2
  <2>2. ASSUME NEW p \in DOMAIN news, NEW i \in Kids(news, p)
        PROVE  news[p].children[i] \in DOMAIN news /\ p < news[p].children[i]
    <3>1. CASE p = b /\ i = n /\ news[p].children[i] = c
      BY <1>0, <1>3, <3>1
    <3>2. CASE i \in Kids(objs, p) /\ news[p].children[i] = objs[p].children[i]
      <4>1. p \in DOMAIN objs
        BY <1>3
      <4>2. objs[p].children[i] \in DOMAIN objs /\ p < objs[p].children[i]
        BY <3>2, <4>1 DEF Forest
      <4> QED BY <1>3, <3>2, <4>2
    <3> QED BY <1>8, <3>1, <3>2
  <2>3. ASSUME NEW p \in DOMAIN news, NEW q \in DOMAIN news, NEW i \in Kids(news, p),
               NEW j \in Kids(news, q),
               news[p].children[i] = news[q].children[j]
        PROVE  p = q /\ i = j
    <3>0. p \in DOMAIN objs /\ q \in DOMAIN objs
      BY <1>3
    <3>1. /\ i \in Kids(objs, p) => objs[p].children[i] # c
          /\ j \in Kids(objs, q) => objs[q].children[j] # c
      BY <1>0, <3>0 DEF IsChild
    <3>2. \/ p = b /\ i = n /\ news[p].children[i] = c
          \/ i \in Kids(objs, p) /\ news[p].children[i] = objs[p].children[i]
      BY <1>8
    <3>3. \/ q = b /\ j = n /\ news[q].children[j] = c
          \/ j \in Kids(objs, q) /\ news[q].children[j] = objs[q].children[j]
      BY <1>8
    <3>4. CASE p = b /\ i = n /\ news[p].children[i] = c
      BY <2>3, <3>1, <3>3, <3>4
    <3>5. CASE i \in Kids(objs, p) /\ news[p].children[i] = objs[p].children[i]
      <4>1. j \in Kids(objs, q) /\ news[q].children[j] = objs[q].children[j]
        BY <2>3, <3>1, <3>3, <3>5
      <4>2. objs[p].children[i] = objs[q].children[j]
        BY <2>3, <3>5, <4>1
      <4> QED BY <3>0, <3>5, <4>1, <4>2 DEF Forest
    <3> QED BY <3>2, <3>4, <3>5
  <2> QED BY <1>3, <2>1, <2>2, <2>3 DEF Forest
<1>10. \A x : IsChild(news, x) <=> IsChild(objs, x) \/ x = c
  <2>1. ASSUME NEW x, IsChild(news, x) PROVE IsChild(objs, x) \/ x = c
    <3>1. PICK p \in DOMAIN news : \E i \in Kids(news, p) : news[p].children[i] = x
      BY <2>1 DEF IsChild
    <3>2. PICK i \in Kids(news, p) : news[p].children[i] = x
      BY <3>1
    <3>3. \/ news[p].children[i] = c
          \/ i \in Kids(objs, p) /\ news[p].children[i] = objs[p].children[i]
      BY <1>8
    <3> QED BY <1>3, <3>2, <3>3 DEF IsChild
  <2>2. ASSUME NEW x, IsChild(objs, x) PROVE IsChild(news, x)
    BY <1>3, <1>7, <2>2 DEF IsChild
  <2>3. IsChild(news, c)
    BY <1>3, <1>7 DEF IsChild
  <2> QED BY <2>1, <2>2, <2>3
<1>11. Tops(news) = Tops(objs) \ {c}
  BY <1>3, <1>10 DEF Tops
<1> QED BY <1>3, <1>6, <1>9, <1>11

\* Clearing an object that is nobody's child takes out what is below it, but for itself.
LEMMA ClearedTop ==
  ASSUME NEW objs, Forest(objs), NEW o \in Tops(objs)
  PROVE  /\ Forest(ClearObject(objs, o)) /\ Tops(ClearObject(objs, o)) = Tops(objs)
         /\ DOMAIN ClearObject(objs, o) \subseteq DOMAIN objs
<1> DEFINE B == Below(objs, o)
           left == FreeObject(objs, o)
           k == objs[o].key
           news == [x \in DOMAIN left \cup {o} |-> IF x = o THEN NewObject(k) ELSE left[x]]
<1>1. /\ Forest(left) /\ Tops(left) = Tops(objs) \ {o} /\ DOMAIN left \subseteq DOMAIN objs \ {o}
  BY FreedTop
<1>2. o \in DOMAIN objs /\ o \in Nat \ {0} /\ k \in ObjectKeys
  BY DEF Tops, Forest, ObjectRecords
<1>3. o \in B
  BY <1>2, BelowIs
<1>4. ClearObject(objs, o) = news
  BY <1>2, <1>3 DEF ClearObject, FreeObject
<1>5. news = Added(left, o, k)
  BY DEF Added
<1> HIDE DEF left
<1>6. Forest(news) /\ Tops(news) = Tops(left) \cup {o} /\ DOMAIN news = DOMAIN left \cup {o}
  <2> HIDE DEF k, news
  <2> QED BY <1>1, <1>2, <1>5, NewTop
<1>7. o \in Tops(objs)
  OBVIOUS
<1> HIDE DEF news
<1> QED BY <1>1, <1>2, <1>4, <1>6, <1>7

\* What is left of a sequence without one of its elements.
LEMMA RemovedFrom ==
  ASSUME NEW T, NEW s \in Seq(T), NEW i \in DOMAIN s
  PROVE  /\ RemoveAt(s, i) \in Seq(T)
         /\ DOMAIN RemoveAt(s, i) = 1..(Len(s) - 1)
         /\ \A k \in DOMAIN RemoveAt(s, i) :
               RemoveAt(s, i)[k] = IF k < i THEN s[k] ELSE s[k + 1]
<1>1. Len(s) \in Nat /\ DOMAIN s = 1..Len(s) /\ i \in 1..Len(s)
  OBVIOUS
<1>2. PICK l : l = SubSeq(s, 1, i - 1)
  OBVIOUS
<1>3. PICK r : r = SubSeq(s, i + 1, Len(s))
  OBVIOUS
<1>4. l \in Seq(T) /\ Len(l) = i - 1 /\ \A k \in 1..(i - 1) : l[k] = s[k]
  BY <1>1, <1>2
<1>5. r \in Seq(T) /\ Len(r) = Len(s) - i /\ \A k \in 1..(Len(s) - i) : r[k] = s[i + k]
  BY <1>1, <1>3
<1>6. RemoveAt(s, i) = l \o r
  BY <1>2, <1>3 DEF RemoveAt
<1>7. /\ l \o r \in Seq(T) /\ Len(l \o r) = Len(l) + Len(r)
      /\ \A k \in 1..(Len(l) + Len(r)) : (l \o r)[k] = IF k <= Len(l) THEN l[k] ELSE r[k - Len(l)]
  BY ONLY <1>4, <1>5, ConcatProperties
<1>9. Len(l \o r) = Len(s) - 1
  BY <1>1, <1>4, <1>5, <1>7
<1>10. DOMAIN (l \o r) = 1..(Len(s) - 1)
  BY <1>7, <1>9
<1>11. ASSUME NEW k \in DOMAIN (l \o r) PROVE (l \o r)[k] = IF k < i THEN s[k] ELSE s[k + 1]
  <2>0. k \in 1..(Len(s) - 1)
    BY <1>10, <1>11
  <2>1. CASE k < i
    BY <1>1, <1>4, <1>5, <1>7, <2>0, <2>1
  <2>2. CASE ~(k < i)
    <3>1. (l \o r)[k] = r[k - (i - 1)]
      BY <1>1, <1>4, <1>5, <1>7, <2>0, <2>2
    <3>2. k - (i - 1) \in 1..(Len(s) - i) /\ i + (k - (i - 1)) = k + 1
      BY <1>1, <2>0, <2>2
    <3>3. r[k - (i - 1)] = s[i + (k - (i - 1))]
      BY <1>5, <3>2
    <3> QED BY <2>2, <3>1, <3>2, <3>3
  <2> QED BY <2>1, <2>2
<1> QED BY <1>6, <1>7, <1>10, <1>11

\* With a child less.
CutOut(objs, b, i) == [objs EXCEPT ![b].children = RemoveAt(objs[b].children, i)]

\* Taking a child out of an object makes it nobody's (vdf.c:396).
LEMMA CutChild ==
  ASSUME NEW objs, Forest(objs), NEW b \in DOMAIN objs, NEW i \in Kids(objs, b), NEW news,
         news = CutOut(objs, b, i)
  PROVE  /\ Forest(news) /\ Tops(news) = Tops(objs) \cup {objs[b].children[i]}
         /\ DOMAIN news = DOMAIN objs /\ objs[b].children[i] \in Tops(news)
<1> DEFINE Shift(k) == IF k < i THEN k ELSE k + 1
<1>1. objs \in [DOMAIN objs -> ObjectRecords] /\ objs[b] \in ObjectRecords
      /\ objs[b].children \in Seq(Nat)
  BY DEF Forest, ObjectRecords
<1>2. PICK s \in Seq(Nat) : s = objs[b].children
  BY <1>1
<1>3. PICK c : c = objs[b].children[i]
  OBVIOUS
<1>4. i \in DOMAIN s /\ c = s[i] /\ Len(s) \in Nat /\ DOMAIN s = 1..Len(s)
  BY <1>2, <1>3 DEF Kids
<1>5. PICK r : r = RemoveAt(s, i)
  OBVIOUS
<1>6. /\ r \in Seq(Nat) /\ DOMAIN r = 1..(Len(s) - 1)
      /\ \A k \in DOMAIN r : r[k] = IF k < i THEN s[k] ELSE s[k + 1]
  BY <1>4, <1>5, RemovedFrom
<1>7. \A k \in DOMAIN r : Shift(k) \in DOMAIN s /\ Shift(k) # i /\ r[k] = s[Shift(k)]
  <2> SUFFICES ASSUME NEW k \in DOMAIN r
      PROVE Shift(k) \in DOMAIN s /\ Shift(k) # i /\ r[k] = s[Shift(k)]
    OBVIOUS
  <2>1. k \in 1..(Len(s) - 1) /\ i \in 1..Len(s)
    BY <1>4, <1>6
  <2>2. Shift(k) \in 1..Len(s) /\ Shift(k) # i
    BY <1>4, <2>1
  <2> QED BY <1>4, <1>6, <2>2
<1>8. \A k, l \in DOMAIN r : Shift(k) = Shift(l) => k = l
  <2> SUFFICES ASSUME NEW k \in DOMAIN r, NEW l \in DOMAIN r, Shift(k) = Shift(l) PROVE k = l
    OBVIOUS
  <2>1. k \in Int /\ l \in Int /\ i \in Int
    BY <1>4, <1>6
  <2> QED BY <2>1
<1>9. \A j \in DOMAIN s : j # i => \E k \in DOMAIN r : Shift(k) = j
  <2> SUFFICES ASSUME NEW j \in DOMAIN s, j # i PROVE \E k \in DOMAIN r : Shift(k) = j
    OBVIOUS
  <2>1. j \in 1..Len(s) /\ i \in 1..Len(s)
    BY <1>4
  <2>2. CASE j < i
    <3>1. j \in 1..(Len(s) - 1) /\ Shift(j) = j
      BY <1>4, <2>1, <2>2
    <3> HIDE DEF Shift
    <3> QED BY <1>6, <3>1
  <2>3. CASE ~(j < i)
    <3>1. j - 1 \in 1..(Len(s) - 1) /\ Shift(j - 1) = j
      BY <1>4, <2>1, <2>3
    <3> HIDE DEF Shift
    <3> QED BY <1>6, <3>1
  <2> QED BY <2>2, <2>3
<1> HIDE DEF Shift
<1>10. /\ DOMAIN news = DOMAIN objs
       /\ \A x \in DOMAIN objs : x # b => news[x] = objs[x] /\ Kids(news, x) = Kids(objs, x)
       /\ news[b] = [objs[b] EXCEPT !.children = r]
  BY <1>2, <1>5 DEF Kids, CutOut
<1>11. news[b] \in ObjectRecords /\ news[b].children = r
  BY <1>1, <1>6, <1>10 DEF ObjectRecords
<1>12. Kids(news, b) = DOMAIN r /\ Kids(objs, b) = DOMAIN s /\ objs[b].children = s
  BY <1>2, <1>11 DEF Kids
<1> DEFINE From(p, k) == IF p = b THEN Shift(k) ELSE k
<1>13. ASSUME NEW p \in DOMAIN news, NEW k \in Kids(news, p)
       PROVE  /\ p \in DOMAIN objs /\ From(p, k) \in Kids(objs, p)
              /\ news[p].children[k] = objs[p].children[From(p, k)]
              /\ ~(p = b /\ From(p, k) = i)
  <2>1. CASE p = b
    <3>1. k \in DOMAIN r
      BY <1>12, <2>1
    <3> QED BY <1>7, <1>10, <1>11, <1>12, <2>1, <3>1
  <2>2. CASE p # b
    BY <1>10, <2>2
  <2> QED BY <2>1, <2>2
<1>14. ASSUME NEW p \in DOMAIN objs, NEW j \in Kids(objs, p), ~(p = b /\ j = i)
       PROVE  p \in DOMAIN news /\ \E k \in Kids(news, p) : news[p].children[k] = objs[p].children[j]
  <2>1. CASE p = b
    <3>1. PICK k \in DOMAIN r : Shift(k) = j
      BY <1>9, <1>12, <1>14, <2>1
    <3>2. r[k] = s[j]
      BY <1>7, <3>1
    <3> QED BY <1>10, <1>11, <1>12, <2>1, <3>1, <3>2
  <2>2. CASE p # b
    BY <1>10, <2>2
  <2> QED BY <2>1, <2>2
<1>15. Forest(news)
  <2>1. DOMAIN news \subseteq Nat \ {0}
    BY <1>10 DEF Forest
  <2>2. news \in [DOMAIN news -> ObjectRecords]
    <3>1. \A x \in DOMAIN news : news[x] \in ObjectRecords
      BY <1>1, <1>10, <1>11
    <3>2. news = [x \in DOMAIN news |-> news[x]]
      BY DEF CutOut
    <3> QED BY <3>1, <3>2
  <2>3. ASSUME NEW p \in DOMAIN news, NEW k \in Kids(news, p)
        PROVE  news[p].children[k] \in DOMAIN news /\ p < news[p].children[k]
    <3> DEFINE f == From(p, k)
    <3>0. p \in DOMAIN objs /\ f \in Kids(objs, p) /\ news[p].children[k] = objs[p].children[f]
      BY <1>13
    <3> HIDE DEF f
    <3>1. PICK j \in Kids(objs, p) : p \in DOMAIN objs /\ news[p].children[k] = objs[p].children[j]
      BY <3>0
    <3>2. objs[p].children[j] \in DOMAIN objs /\ p < objs[p].children[j]
      BY <3>1 DEF Forest
    <3> QED BY <1>10, <3>1, <3>2
  <2>4. ASSUME NEW p \in DOMAIN news, NEW q \in DOMAIN news, NEW k \in Kids(news, p),
               NEW l \in Kids(news, q),
               news[p].children[k] = news[q].children[l]
        PROVE  p = q /\ k = l
    <3> DEFINE f == From(p, k)
               g == From(q, l)
    <3>1. p \in DOMAIN objs /\ f \in Kids(objs, p) /\ news[p].children[k] = objs[p].children[f]
      BY <1>13
    <3>2. q \in DOMAIN objs /\ g \in Kids(objs, q) /\ news[q].children[l] = objs[q].children[g]
      BY <1>13
    <3>3. p = q /\ f = g
      <4> HIDE DEF f, g
      <4>1. objs[p].children[f] = objs[q].children[g]
        BY <2>4, <3>1, <3>2
      <4> QED BY <3>1, <3>2, <4>1 DEF Forest
    <3>4. k = l
      <4>1. CASE p = b
        BY <1>8, <1>12, <3>3, <4>1
      <4>2. CASE p # b
        BY <3>3, <4>2
      <4> QED BY <4>1, <4>2
    <3> QED BY <3>3, <3>4
  <2> QED BY <2>1, <2>2, <2>3, <2>4 DEF Forest
<1>16. c \in DOMAIN objs
  BY <1>3 DEF Forest
<1>17. ~IsChild(news, c)
  <2> SUFFICES ASSUME NEW p \in DOMAIN news, NEW k \in Kids(news, p), news[p].children[k] = c
      PROVE FALSE
    BY DEF IsChild
  <2> DEFINE f == From(p, k)
  <2>1. /\ p \in DOMAIN objs /\ f \in Kids(objs, p) /\ c = objs[p].children[f]
        /\ ~(p = b /\ f = i)
    BY <1>13
  <2> HIDE DEF f
  <2>2. objs[p].children[f] = objs[b].children[i]
    BY <1>3, <2>1
  <2> QED BY <2>1, <2>2 DEF Forest
<1>18. ASSUME NEW x, x # c PROVE IsChild(news, x) <=> IsChild(objs, x)
  <2>1. ASSUME IsChild(news, x) PROVE IsChild(objs, x)
    <3>1. PICK p \in DOMAIN news : \E k \in Kids(news, p) : news[p].children[k] = x
      BY <2>1 DEF IsChild
    <3>2. PICK k \in Kids(news, p) : news[p].children[k] = x
      BY <3>1
    <3> DEFINE f == From(p, k)
    <3>3. p \in DOMAIN objs /\ f \in Kids(objs, p) /\ news[p].children[k] = objs[p].children[f]
      BY <1>13
    <3> HIDE DEF f
    <3> QED BY <3>2, <3>3 DEF IsChild
  <2>2. ASSUME IsChild(objs, x) PROVE IsChild(news, x)
    <3>1. PICK p \in DOMAIN objs : \E j \in Kids(objs, p) : objs[p].children[j] = x
      BY <2>2 DEF IsChild
    <3>2. PICK j \in Kids(objs, p) : objs[p].children[j] = x
      BY <3>1
    <3>3. ~(p = b /\ j = i)
      BY <1>3, <1>18, <3>2
    <3>4. p \in DOMAIN news /\ \E k \in Kids(news, p) : news[p].children[k] = objs[p].children[j]
      BY ONLY <1>14, <3>2, <3>3
    <3>5. PICK k \in Kids(news, p) : news[p].children[k] = objs[p].children[j]
      BY <3>4
    <3> QED BY <3>2, <3>4, <3>5 DEF IsChild
  <2> QED BY <2>1, <2>2
<1>19. c \in Tops(news)
  BY <1>10, <1>16, <1>17 DEF Tops
<1>20. Tops(news) = Tops(objs) \cup {c}
  BY <1>10, <1>18, <1>19 DEF Tops
<1> QED BY <1>3, <1>10, <1>15, <1>19, <1>20

\* The first of some positions is one of them.
LEMMA MinOf ==
  ASSUME NEW S, S \subseteq Nat, S # {}
  PROVE  Min(S) \in S
<1>1. \E x \in S : \A y \in S : ~(<<y, x>> \in OpToRel(<, Nat))
  BY NatLessThanWellFounded, WFMin
<1>2. PICK x \in S : \A y \in S : ~(<<y, x>> \in OpToRel(<, Nat))
  BY <1>1
<1>3. \A y \in S : x <= y
  <2> SUFFICES ASSUME NEW y \in S PROVE x <= y
    OBVIOUS
  <2>1. ~(y < x)
    BY <1>2 DEF OpToRel
  <2> QED BY <2>1
<1> QED BY <1>3 DEF Min

\* Removing a child frees it with what is below it, and nothing else.
LEMMA RemovedChild ==
  ASSUME NEW objs, Forest(objs), NEW o \in DOMAIN objs, NEW key
  PROVE  /\ Forest(RemoveFirstNamed(objs, o, key)) /\ Tops(RemoveFirstNamed(objs, o, key)) = Tops(objs)
         /\ DOMAIN RemoveFirstNamed(objs, o, key) \subseteq DOMAIN objs
<1> DEFINE children == objs[o].children
           named == {i \in DOMAIN children : objs[children[i]].key = key}
           first == Min(named)
           cut == [objs EXCEPT ![o].children = RemoveAt(children, first)]
           child == children[first]
<1>1. CASE named = {}
  BY <1>1 DEF RemoveFirstNamed
<1>2. CASE named # {}
  <2>1. RemoveFirstNamed(objs, o, key) = FreeObject(cut, child)
    BY <1>2 DEF RemoveFirstNamed
  <2>2. first \in Kids(objs, o)
    <3>1. children \in Seq(Nat)
      BY DEF Forest, ObjectRecords
    <3>2. named \subseteq Nat /\ named \subseteq Kids(objs, o)
      BY <3>1 DEF Kids
    <3> HIDE DEF named
    <3> QED BY <1>2, <3>2, MinOf
  <2> HIDE DEF first
  <2>3. Forest(cut) /\ Tops(cut) = Tops(objs) \cup {child} /\ DOMAIN cut = DOMAIN objs
        /\ child \in Tops(cut)
    <3>0. PICK i \in Kids(objs, o) : i = first
      BY <2>2
    <3>1. PICK news : news = CutOut(objs, o, i)
      OBVIOUS
    <3>2. /\ Forest(news) /\ Tops(news) = Tops(objs) \cup {objs[o].children[i]}
          /\ DOMAIN news = DOMAIN objs /\ objs[o].children[i] \in Tops(news)
      <4> HIDE DEF cut, child, named, children
      <4> QED BY <3>1, CutChild
    <3> QED BY <3>0, <3>1, <3>2 DEF CutOut
  <2>4. child \notin Tops(objs)
    BY <2>2 DEF Tops, IsChild
  <2> HIDE DEF cut, child
  <2>5. /\ Forest(FreeObject(cut, child)) /\ Tops(FreeObject(cut, child)) = Tops(cut) \ {child}
        /\ DOMAIN FreeObject(cut, child) \subseteq DOMAIN cut \ {child}
    BY <2>3, FreedTop
  <2> QED BY <2>1, <2>3, <2>4, <2>5
<1> QED BY <1>1, <1>2

----------------------------------------------------------------------------
(* Vdf: what always holds of the blocks and the objects.                    *)

\* Blocks that are open: each but the first is the object of the child that the one
\* around it reads, and a child is younger than what it is read into.
Entries == [object : Nat, key : ObjectKeys, meant : BOOLEAN, drops : Nat]
BlockRecords == [object : Nat, child : Nat, kept : BOOLEAN, meant : BOOLEAN, drops : Nat,
                 written : Seq(Entries)]
Children(bs) == {bs[i].child : i \in DOMAIN bs} \ {0}
BlockChain(bs, top) ==
  /\ bs \in Seq(BlockRecords)
  /\ \A i \in DOMAIN bs : bs[i].object = IF i = 1 THEN top ELSE bs[i - 1].child
  /\ \A i \in DOMAIN bs : bs[i].object # 0 /\ (bs[i].child # 0 => bs[i].object < bs[i].child)
  /\ \A i, j \in DOMAIN bs : i < j => bs[i].child # 0 /\ bs[i].child <= bs[j].object

OutsideBlock == {"entry", "include", "brace", "braceOnly", "entered", "finish", "done"}
BetweenEntries == {"name", "leave"}
InsideEntry == {"value", "valueOnly", "assigned", "assignedOnly", "peek"}

VdfTypes ==
  /\ ahead \in Tokens \cup {NoToken}
  /\ freshObject \in Nat /\ Root < freshObject /\ DOMAIN objects \subseteq 1..(freshObject - 1)
  /\ current \in Nat /\ vdfError \in BOOLEAN

\* Where the reader is tells what is open.
BlocksOpen ==
  /\ BlockChain(blocks, current)
  /\ expects \in OutsideBlock \cup BetweenEntries \cup InsideEntry
  /\ expects \in OutsideBlock <=> blocks = <<>>
  /\ expects \in BetweenEntries => blocks[Len(blocks)].child = 0
  /\ expects \in InsideEntry => blocks[Len(blocks)].child # 0
  /\ expects \notin {"entry", "include", "finish", "done"} => current # 0
  /\ expects = "done" => current = 0

\* What nobody's child is, is what the caller, the entry and the blocks hold.
HeldObjects ==
  (IF expects = "done" /\ vdfError THEN {} ELSE {Root}) \cup ({current} \ {0}) \cup Children(blocks)
TreeInv == Forest(objects) /\ Tops(objects) = HeldObjects

VdfInv == VdfTypes /\ BlocksOpen /\ TreeInv

LastOf(bs) == bs[Len(bs)]

\* What the blocks read are children each, once.
LEMMA ChainIs ==
  ASSUME NEW top, NEW bs, BlockChain(bs, top), bs # <<>>
  PROVE  /\ Len(bs) \in Nat \ {0} /\ DOMAIN bs = 1..Len(bs) /\ bs[1].object = top /\ top # 0
         /\ \A i \in DOMAIN bs : bs[i] \in BlockRecords /\ bs[i].object \in Nat /\ bs[i].child \in Nat
         /\ \A i \in DOMAIN bs : bs[i].child # 0 => bs[i].child \in Children(bs)
         /\ \A i \in DOMAIN bs : bs[i].object \in {top} \cup Children(bs)
         /\ \A i, j \in DOMAIN bs : bs[i].child # 0 /\ bs[i].child = bs[j].child => i = j
         /\ \A i, j \in DOMAIN bs : bs[j].child # 0 /\ i <= j => bs[i].object < bs[j].child
         /\ \A c \in Children(bs) : c \in Nat /\ top < c
<1>1. Len(bs) \in Nat \ {0} /\ DOMAIN bs = 1..Len(bs)
  BY EmptySeq DEF BlockChain
<1>2. \A i \in DOMAIN bs : bs[i] \in BlockRecords /\ bs[i].object \in Nat /\ bs[i].child \in Nat
  <2> SUFFICES ASSUME NEW i \in DOMAIN bs
               PROVE  bs[i] \in BlockRecords /\ bs[i].object \in Nat /\ bs[i].child \in Nat
    OBVIOUS
  <2>1. bs[i] \in BlockRecords
    BY DEF BlockChain
  <2> QED BY <2>1 DEF BlockRecords
<1>3. bs[1].object = top /\ top # 0 /\ 1 \in DOMAIN bs
  BY <1>1 DEF BlockChain
<1>4. \A i \in DOMAIN bs : bs[i].child # 0 => bs[i].child \in Children(bs)
  BY DEF Children
<1>5. \A i \in DOMAIN bs : bs[i].object \in {top} \cup Children(bs)
  <2> SUFFICES ASSUME NEW i \in DOMAIN bs, i # 1 PROVE bs[i].object \in Children(bs)
    BY <1>3
  <2>1. i - 1 \in DOMAIN bs
    BY <1>1
  <2>2. bs[i].object = bs[i - 1].child /\ bs[i].object # 0
    BY DEF BlockChain
  <2> QED BY <1>4, <2>1, <2>2
<1>6. \A i, j \in DOMAIN bs : bs[j].child # 0 /\ i <= j => bs[i].object < bs[j].child
  <2> SUFFICES ASSUME NEW i \in DOMAIN bs, NEW j \in DOMAIN bs, bs[j].child # 0, i <= j
               PROVE  bs[i].object < bs[j].child
    OBVIOUS
  <2>1. bs[j].object < bs[j].child
    BY DEF BlockChain
  <2>2. CASE i = j
    BY <2>1, <2>2
  <2>3. CASE i < j
    <3>1. bs[i].child # 0 /\ bs[i].child <= bs[j].object
      BY <2>3 DEF BlockChain
    <3>2. bs[i].object < bs[i].child
      BY <3>1 DEF BlockChain
    <3>3. /\ bs[i].object \in Nat /\ bs[i].child \in Nat
          /\ bs[j].object \in Nat /\ bs[j].child \in Nat
      BY <1>2
    <3> QED BY ONLY <2>1, <3>1, <3>2, <3>3
  <2>4. i \in Nat /\ j \in Nat
    BY <1>1
  <2>5. i = j \/ i < j
    BY ONLY <2>4, i <= j
  <2> QED BY <2>2, <2>3, <2>5
<1>7. \A i, j \in DOMAIN bs : i < j /\ bs[j].child # 0 => bs[i].child < bs[j].child
  <2> SUFFICES ASSUME NEW i \in DOMAIN bs, NEW j \in DOMAIN bs, i < j, bs[j].child # 0
               PROVE  bs[i].child < bs[j].child
    OBVIOUS
  <2>1. bs[i].child <= bs[j].object
    BY DEF BlockChain
  <2>2. bs[j].object < bs[j].child
    BY DEF BlockChain
  <2>3. bs[i].child \in Nat /\ bs[j].object \in Nat /\ bs[j].child \in Nat
    BY <1>2
  <2> QED BY ONLY <2>1, <2>2, <2>3
<1>8. \A i, j \in DOMAIN bs : bs[i].child # 0 /\ bs[i].child = bs[j].child => i = j
  <2> SUFFICES ASSUME NEW i \in DOMAIN bs, NEW j \in DOMAIN bs,
                      bs[i].child # 0, bs[i].child = bs[j].child
               PROVE  i = j
    OBVIOUS
  <2>1. ~(i < j) /\ ~(j < i)
    <3>1. bs[i].child \in Nat /\ bs[j].child \in Nat
      BY <1>2
    <3>2. ~(bs[i].child < bs[j].child) /\ ~(bs[j].child < bs[i].child)
      BY ONLY <3>1, bs[i].child = bs[j].child
    <3> QED BY <1>7, <3>2
  <2>2. i \in Nat /\ j \in Nat
    BY <1>1
  <2> QED BY ONLY <2>1, <2>2
<1>9. \A c \in Children(bs) : c \in Nat /\ top < c
  <2> SUFFICES ASSUME NEW c \in Children(bs) PROVE c \in Nat /\ top < c
    OBVIOUS
  <2>1. PICK i \in DOMAIN bs : bs[i].child = c /\ c # 0
    BY DEF Children
  <2>2. 1 <= i
    BY <1>1
  <2>3. bs[1].object < bs[i].child
    BY <1>3, <1>6, <2>1, <2>2
  <2> QED BY <1>2, <1>3, <2>1, <2>3
<1> QED BY <1>1, <1>2, <1>3, <1>4, <1>5, <1>6, <1>8, <1>9

\* With another innermost block.
Relast(bs, b) == [bs EXCEPT ![Len(bs)] = b]

\* The innermost block lets its child go, or reads one.
LEMMA ChainUpdated ==
  ASSUME NEW top, NEW bs, BlockChain(bs, top), bs # <<>>, NEW b \in BlockRecords,
         b.object = LastOf(bs).object, b.child = 0 \/ b.object < b.child,
         NEW news, news = Relast(bs, b)
  PROVE  /\ BlockChain(news, top) /\ news # <<>> /\ LastOf(news) = b
         /\ Children(news) = (Children(bs) \ {LastOf(bs).child}) \cup ({b.child} \ {0})
<1> DEFINE n == Len(bs)
<1>1. /\ n \in Nat \ {0} /\ DOMAIN bs = 1..n
      /\ \A i \in DOMAIN bs : bs[i] \in BlockRecords
      /\ \A i, j \in DOMAIN bs : bs[i].child # 0 /\ bs[i].child = bs[j].child => i = j
  BY ChainIs
<1>2. n \in DOMAIN bs /\ LastOf(bs) = bs[n]
  BY <1>1 DEF LastOf
<1>3. bs \in Seq(BlockRecords)
  BY DEF BlockChain
<1>4. /\ news \in Seq(BlockRecords) /\ Len(news) = n /\ DOMAIN news = DOMAIN bs
      /\ news[n] = b /\ \A i \in DOMAIN bs : i # n => news[i] = bs[i]
  BY <1>1, <1>2, <1>3 DEF Relast
<1> HIDE DEF n
<1>5. news # <<>> /\ LastOf(news) = b
  BY <1>1, <1>4 DEF LastOf
<1>6. /\ \A i \in DOMAIN bs : news[i].object = bs[i].object
      /\ \A i \in DOMAIN bs : i # n => news[i].child = bs[i].child
      /\ news[n].child = b.child
  <2>1. b.object = bs[n].object
    BY <1>2
  <2> QED BY <1>4, <2>1
<1>7. BlockChain(news, top)
  <2>1. ASSUME NEW i \in DOMAIN news
        PROVE  news[i].object = IF i = 1 THEN top ELSE news[i - 1].child
    <3>1. bs[i].object = IF i = 1 THEN top ELSE bs[i - 1].child
      BY <1>4 DEF BlockChain
    <3>2. i # 1 => i - 1 \in DOMAIN bs /\ i - 1 # n
      BY <1>1, <1>4
    <3> QED BY <1>4, <1>6, <3>1, <3>2
  <2>2. ASSUME NEW i \in DOMAIN news
        PROVE  news[i].object # 0 /\ (news[i].child # 0 => news[i].object < news[i].child)
    <3>1. bs[i].object # 0 /\ (bs[i].child # 0 => bs[i].object < bs[i].child)
      BY <1>4 DEF BlockChain
    <3>2. CASE i = n
      BY <1>4, <1>6, <3>1, <3>2
    <3>3. CASE i # n
      BY <1>4, <1>6, <3>1, <3>3
    <3> QED BY <3>2, <3>3
  <2>3. ASSUME NEW i \in DOMAIN news, NEW j \in DOMAIN news, i < j
        PROVE  news[i].child # 0 /\ news[i].child <= news[j].object
    <3>1. bs[i].child # 0 /\ bs[i].child <= bs[j].object
      BY <1>4, <2>3 DEF BlockChain
    <3>2. i # n
      BY <1>1, <1>4, <2>3
    <3> QED BY <1>4, <1>6, <3>1, <3>2
  <2> QED BY <1>4, <2>1, <2>2, <2>3 DEF BlockChain
<1>8. ASSUME NEW c
      PROVE  c \in Children(news) <=> c \in (Children(bs) \ {LastOf(bs).child}) \cup ({b.child} \ {0})
  <2>1. ASSUME c \in Children(news)
        PROVE c \in (Children(bs) \ {LastOf(bs).child}) \cup ({b.child} \ {0})
    <3>1. PICK i \in DOMAIN bs : news[i].child = c /\ c # 0
      BY <1>4, <2>1 DEF Children
    <3>2. CASE i = n
      BY <1>6, <3>1, <3>2
    <3>3. CASE i # n
      <4>1. bs[i].child = c
        BY <1>6, <3>1, <3>3
      <4>2. bs[n].child # c
        BY <1>1, <1>2, <3>1, <3>3, <4>1
      <4> QED BY <1>2, <3>1, <4>1, <4>2 DEF Children
    <3> QED BY <3>2, <3>3
  <2>2. ASSUME c \in Children(bs), c # LastOf(bs).child PROVE c \in Children(news)
    <3>1. PICK i \in DOMAIN bs : bs[i].child = c /\ c # 0
      BY <2>2 DEF Children
    <3>2. i # n
      BY <1>2, <2>2, <3>1
    <3> QED BY <1>4, <1>6, <3>1, <3>2 DEF Children
  <2>3. ASSUME c \in {b.child} \ {0} PROVE c \in Children(news)
    BY <1>2, <1>4, <1>6, <2>3 DEF Children
  <2> QED BY <2>1, <2>2, <2>3
<1>9. Children(news) = (Children(bs) \ {LastOf(bs).child}) \cup ({b.child} \ {0})
  BY <1>8
<1> QED BY <1>5, <1>7, <1>9

\* A block of the child that is read is opened.
LEMMA ChainPushed ==
  ASSUME NEW top, NEW bs, BlockChain(bs, top), bs # <<>>, LastOf(bs).child # 0,
         NEW news, news = Append(bs, Block(LastOf(bs).child))
  PROVE  /\ BlockChain(news, top) /\ news # <<>> /\ LastOf(news).child = 0
         /\ Children(news) = Children(bs)
<1>0. PICK n : n = Len(bs)
  OBVIOUS
<1>1. /\ n \in Nat \ {0} /\ DOMAIN bs = 1..n
      /\ \A i \in DOMAIN bs : bs[i] \in BlockRecords /\ bs[i].object \in Nat /\ bs[i].child \in Nat
      /\ \A i, j \in DOMAIN bs : bs[j].child # 0 /\ i <= j => bs[i].object < bs[j].child
  BY <1>0, ChainIs
<1>2. n \in DOMAIN bs /\ LastOf(bs) = bs[n]
  BY <1>0, <1>1 DEF LastOf
<1>3. PICK c \in Nat : c = LastOf(bs).child
  BY <1>1, <1>2
<1>4. PICK b : b = Block(c)
  OBVIOUS
<1>5. b \in BlockRecords /\ b.object = c /\ b.child = 0 /\ c # 0
  <2>1. <<>> \in Seq(Entries)
    OBVIOUS
  <2> QED BY <1>3, <1>4, <2>1 DEF Block, BlockRecords
<1>6. bs \in Seq(BlockRecords)
  BY DEF BlockChain
<1>7. /\ news \in Seq(BlockRecords) /\ Len(news) = n + 1 /\ DOMAIN news = 1..(n + 1)
      /\ news[n + 1] = b /\ \A i \in DOMAIN bs : news[i] = bs[i]
  BY <1>0, <1>1, <1>3, <1>4, <1>5, <1>6
<1>8. news # <<>> /\ LastOf(news) = b
  BY <1>1, <1>7 DEF LastOf
<1>9. \A i \in DOMAIN news : i \in DOMAIN bs \/ i = n + 1
  BY <1>1, <1>7
<1>10. bs[n].child = c
  BY <1>2, <1>3
<1>11. BlockChain(news, top)
  <2>1. ASSUME NEW i \in DOMAIN news
        PROVE  news[i].object = IF i = 1 THEN top ELSE news[i - 1].child
    <3>1. CASE i \in DOMAIN bs
      <4>1. bs[i].object = IF i = 1 THEN top ELSE bs[i - 1].child
        BY <3>1 DEF BlockChain
      <4>2. i # 1 => i - 1 \in DOMAIN bs
        BY <1>1, <3>1
      <4> QED BY <1>7, <3>1, <4>1, <4>2
    <3>2. CASE i = n + 1
      <4>1. i # 1 /\ i - 1 = n
        BY <1>1, <3>2
      <4>2. news[i].object = c
        BY <1>5, <1>7, <3>2
      <4>3. news[n].child = c
        BY <1>2, <1>7, <1>10
      <4> QED BY <4>1, <4>2, <4>3
    <3> QED BY <1>9, <3>1, <3>2
  <2>2. ASSUME NEW i \in DOMAIN news
        PROVE  news[i].object # 0 /\ (news[i].child # 0 => news[i].object < news[i].child)
    <3>1. CASE i \in DOMAIN bs
      <4>1. bs[i].object # 0 /\ (bs[i].child # 0 => bs[i].object < bs[i].child)
        BY <3>1 DEF BlockChain
      <4> QED BY <1>7, <3>1, <4>1
    <3>2. CASE i = n + 1
      BY <1>5, <1>7, <3>2
    <3> QED BY <1>9, <3>1, <3>2
  <2>3. ASSUME NEW i \in DOMAIN news, NEW j \in DOMAIN news, i < j
        PROVE  news[i].child # 0 /\ news[i].child <= news[j].object
    <3>0. i \in DOMAIN bs
      BY <1>1, <1>7, <2>3
    <3>1. CASE j \in DOMAIN bs
      <4>1. bs[i].child # 0 /\ bs[i].child <= bs[j].object
        BY <2>3, <3>0, <3>1 DEF BlockChain
      <4> QED BY <1>7, <3>0, <3>1, <4>1
    <3>2. CASE j = n + 1
      <4>1. news[j].object = c
        BY <1>5, <1>7, <3>2
      <4>2. CASE i = n
        <5>1. news[i].child = c
          BY <1>2, <1>7, <1>10, <4>2
        <5> QED BY <1>3, <1>5, <4>1, <5>1
      <4>3. CASE i # n
        <5>1. i < n
          BY <1>1, <3>0, <4>3
        <5>2. bs[i].child # 0 /\ bs[i].child <= bs[n].object
          BY <1>2, <3>0, <5>1 DEF BlockChain
        <5>3. bs[n].object < bs[n].child
          BY <1>2, <1>5, <1>10 DEF BlockChain
        <5>4. bs[i].child \in Nat /\ bs[n].object \in Nat
          BY <1>1, <1>2, <3>0
        <5>5. bs[i].child <= c
          BY <1>3, <1>10, <5>2, <5>3, <5>4
        <5> QED BY <1>7, <3>0, <4>1, <5>2, <5>5
      <4> QED BY <4>2, <4>3
    <3> QED BY <1>9, <3>1, <3>2
  <2> QED BY <1>7, <2>1, <2>2, <2>3 DEF BlockChain
<1>12. ASSUME NEW x PROVE x \in Children(news) <=> x \in Children(bs)
  <2>1. ASSUME x \in Children(news) PROVE x \in Children(bs)
    <3>1. PICK i \in DOMAIN news : news[i].child = x /\ x # 0
      BY <2>1 DEF Children
    <3>2. i \in DOMAIN bs
      BY <1>5, <1>7, <1>9, <3>1
    <3> QED BY <1>7, <3>1, <3>2 DEF Children
  <2>2. ASSUME x \in Children(bs) PROVE x \in Children(news)
    <3>1. PICK i \in DOMAIN bs : bs[i].child = x /\ x # 0
      BY <2>2 DEF Children
    <3>2. i \in DOMAIN news
      BY <1>1, <1>7
    <3> QED BY <1>7, <3>1, <3>2 DEF Children
  <2> QED BY <2>1, <2>2
<1> QED BY <1>5, <1>8, <1>11, <1>12

\* The innermost block is left.
LEMMA ChainPopped ==
  ASSUME NEW top, NEW bs, BlockChain(bs, top), bs # <<>>, Len(bs) # 1, LastOf(bs).child = 0,
         NEW news, news = SubSeq(bs, 1, Len(bs) - 1)
  PROVE  /\ BlockChain(news, top) /\ news # <<>> /\ Len(news) = Len(bs) - 1
         /\ Len(bs) - 1 \in DOMAIN bs
         /\ LastOf(news) = bs[Len(bs) - 1] /\ LastOf(news).child # 0
         /\ Children(news) = Children(bs)
<1>0. PICK n : n = Len(bs)
  OBVIOUS
<1>1. n \in Nat \ {0} /\ DOMAIN bs = 1..n
  BY <1>0, ChainIs
<1>2. n # 1 /\ bs[n].child = 0 /\ n \in DOMAIN bs /\ n - 1 \in DOMAIN bs /\ n - 1 \in Nat
  BY <1>0, <1>1 DEF LastOf
<1>3. bs \in Seq(BlockRecords)
  BY DEF BlockChain
<1>4. /\ news \in Seq(BlockRecords) /\ Len(news) = n - 1 /\ DOMAIN news = 1..(n - 1)
      /\ \A i \in 1..(n - 1) : news[i] = bs[i]
  BY <1>0, <1>1, <1>2, <1>3
<1>5. /\ \A i \in DOMAIN news : i \in DOMAIN bs /\ news[i] = bs[i]
      /\ \A i \in DOMAIN bs : i \in DOMAIN news \/ i = n
  BY <1>1, <1>4
<1>6. news # <<>> /\ LastOf(news) = bs[n - 1]
  <2>1. n - 1 \in 1..(n - 1)
    BY <1>1, <1>2
  <2> QED BY <1>2, <1>4, <2>1 DEF LastOf
<1>7. bs[n - 1].child # 0
  <2>1. n - 1 < n
    BY <1>1
  <2> QED BY <1>2, <2>1 DEF BlockChain
<1>8. BlockChain(news, top)
  <2>1. ASSUME NEW i \in DOMAIN news
        PROVE  news[i].object = IF i = 1 THEN top ELSE news[i - 1].child
    <3>1. bs[i].object = IF i = 1 THEN top ELSE bs[i - 1].child
      BY <1>5 DEF BlockChain
    <3>2. i # 1 => i - 1 \in DOMAIN news
      BY <1>4
    <3> QED BY <1>5, <3>1, <3>2
  <2>2. ASSUME NEW i \in DOMAIN news
        PROVE  news[i].object # 0 /\ (news[i].child # 0 => news[i].object < news[i].child)
    BY <1>5 DEF BlockChain
  <2>3. ASSUME NEW i \in DOMAIN news, NEW j \in DOMAIN news, i < j
        PROVE  news[i].child # 0 /\ news[i].child <= news[j].object
    <3>1. bs[i].child # 0 /\ bs[i].child <= bs[j].object
      BY <1>5, <2>3 DEF BlockChain
    <3> QED BY <1>5, <3>1
  <2> QED BY <1>4, <2>1, <2>2, <2>3 DEF BlockChain
<1>9. ASSUME NEW x PROVE x \in Children(news) <=> x \in Children(bs)
  <2>1. ASSUME x \in Children(news) PROVE x \in Children(bs)
    BY <1>5, <2>1 DEF Children
  <2>2. ASSUME x \in Children(bs) PROVE x \in Children(news)
    <3>1. PICK i \in DOMAIN bs : bs[i].child = x /\ x # 0
      BY <2>2 DEF Children
    <3>2. i \in DOMAIN news
      BY <1>2, <1>5, <3>1
    <3> QED BY <1>5, <3>1, <3>2 DEF Children
  <2> QED BY <2>1, <2>2
<1> QED BY <1>0, <1>2, <1>4, <1>6, <1>7, <1>8, <1>9

----------------------------------------------------------------------------
(* Vdf: the steps.                                                          *)

\* What a token can be.
LEMMA TokenIs ==
  ASSUME VdfTypes, NEW t \in Upcoming
  PROVE  /\ t \in Tokens /\ Text(t) \in ObjectKeys
         /\ t.kind = "cond" => Holds[t.text] \in BOOLEAN /\ t.text.meant \in BOOLEAN
<1>1. Token("end") \in Tokens
  BY DEF Tokens
<1>2. ahead # NoToken => ahead \in Tokens
  BY DEF VdfTypes
<1>3. t \in Tokens
  BY <1>1, <1>2 DEF Upcoming
<1>4. Text(t) \in ObjectKeys
  BY <1>3 DEF ObjectKeys
<1>5. ASSUME t.kind = "cond" PROVE t.text \in Conditionals
  <2>1. t \notin {[kind |-> "text", text |-> n] : n \in Names}
    BY <1>5
  <2>2. CASE t \in {[kind |-> "cond", text |-> e] : e \in Conditionals}
    BY <2>2
  <2>3. t \notin {Token(k) : k \in {"{", "}", "=", "include", "empty", "nul", "long", "open", "end"}}
    <3>1. \A k \in {"{", "}", "=", "include", "empty", "nul", "long", "open", "end"} :
            Token(k).kind = k /\ k # "cond"
      BY DEF Token
    <3> QED BY <1>5, <3>1
  <2> QED BY <1>3, <2>1, <2>2, <2>3 DEF Tokens
<1> QED BY <1>3, <1>4, <1>5, VdfAssumption

\* A token that is pushed back is one.
LEMMA AheadStays ==
  ASSUME VdfTypes, NEW t \in Upcoming, ReadToken(t) \/ PeekToken(t)
  PROVE  ahead' \in Tokens \cup {NoToken}
BY TokenIs DEF ReadToken, PeekToken

\* With another type, and with another key.
Retyping(objs, o, y) == [objs EXCEPT ![o].type = y]
Rekeying(objs, o, k) == [objs EXCEPT ![o].key = k]

\* An object gets a type.
LEMMA Retyped ==
  ASSUME NEW objs, Forest(objs), NEW o \in DOMAIN objs, NEW y \in ObjectTypes, NEW news,
         news = Retyping(objs, o, y)
  PROVE  Forest(news) /\ Tops(news) = Tops(objs) /\ DOMAIN news = DOMAIN objs
<1>1. DOMAIN news = DOMAIN objs /\ objs[o] \in ObjectRecords
  BY DEF Forest, Retyping
<1>2. /\ \A x \in DOMAIN objs : x # o => news[x] = objs[x]
      /\ news[o] = [objs[o] EXCEPT !.type = y]
  BY DEF Retyping
<1>3. news[o] \in ObjectRecords /\ news[o].children = objs[o].children
  BY <1>1, <1>2 DEF ObjectRecords
<1>4. \A x \in DOMAIN news : news[x] \in ObjectRecords
  BY <1>1, <1>2, <1>3 DEF Forest
<1>5. news = [x \in DOMAIN news |-> news[x]]
  BY DEF Retyping
<1>6. news \in [DOMAIN news -> ObjectRecords]
  BY <1>4, <1>5
<1>7. \A x \in DOMAIN objs : news[x].children = objs[x].children
  BY <1>2, <1>3
<1> HIDE DEF ObjectRecords
<1> QED BY <1>1, <1>6, <1>7, SameKids

\* An object gets a key.
LEMMA Rekeyed ==
  ASSUME NEW objs, Forest(objs), NEW o \in DOMAIN objs, NEW k \in ObjectKeys, NEW news,
         news = Rekeying(objs, o, k)
  PROVE  Forest(news) /\ Tops(news) = Tops(objs) /\ DOMAIN news = DOMAIN objs
<1>1. DOMAIN news = DOMAIN objs /\ objs[o] \in ObjectRecords
  BY DEF Forest, Rekeying
<1>2. /\ \A x \in DOMAIN objs : x # o => news[x] = objs[x]
      /\ news[o] = [objs[o] EXCEPT !.key = k]
  BY DEF Rekeying
<1>3. news[o] \in ObjectRecords /\ news[o].children = objs[o].children
  BY <1>1, <1>2 DEF ObjectRecords
<1>4. \A x \in DOMAIN news : news[x] \in ObjectRecords
  BY <1>1, <1>2, <1>3 DEF Forest
<1>5. news = [x \in DOMAIN news |-> news[x]]
  BY DEF Rekeying
<1>6. news \in [DOMAIN news -> ObjectRecords]
  BY <1>4, <1>5
<1>7. \A x \in DOMAIN objs : news[x].children = objs[x].children
  BY <1>2, <1>3
<1> QED BY <1>1, <1>6, <1>7, SameKids

\* A child that is done is its block's, or is nobody's and freed.
LEMMA ChildAppended ==
  ASSUME NEW objs, Forest(objs), NEW b \in BlockRecords, b.object \in DOMAIN objs,
         b.child \in Tops(objs), b.object < b.child, NEW failed \in BOOLEAN, AppendChild(objs, b, failed)
  PROVE  /\ Forest(objects') /\ Tops(objects') = Tops(objs) \ {b.child}
         /\ DOMAIN objects' \subseteq DOMAIN objs /\ vdfError' \in BOOLEAN
<1>1. CASE objects' = [objs EXCEPT ![b.object].children = Append(@, b.child)] /\ vdfError' = FALSE
  <2>1. PICK o \in DOMAIN objs : o = b.object
    OBVIOUS
  <2>2. PICK c \in Tops(objs) : c = b.child
    OBVIOUS
  <2>3. objects' = Taken(objs, o, c) /\ o < c
    BY <1>1, <2>1, <2>2 DEF Taken
  <2>4. Forest(objects') /\ Tops(objects') = Tops(objs) \ {c} /\ DOMAIN objects' = DOMAIN objs
    BY <2>3, TakenTop
  <2> QED BY <1>1, <2>2, <2>4
<1>2. CASE objects' = FreeObject(objs, b.child) /\ vdfError' \in BOOLEAN
  <2>1. /\ Forest(FreeObject(objs, b.child)) /\ Tops(FreeObject(objs, b.child)) = Tops(objs) \ {b.child}
        /\ DOMAIN FreeObject(objs, b.child) \subseteq DOMAIN objs
    BY FreedTop
  <2> QED BY <1>2, <2>1
<1> QED BY <1>1, <1>2 DEF AppendChild

\* InsideEntry a block all is held by the caller, the entry, and the blocks.
LEMMA WithinBlock ==
  ASSUME VdfInv, expects \in BetweenEntries \cup InsideEntry
  PROVE  /\ blocks # <<>> /\ current # 0 /\ BlockChain(blocks, current) /\ Innermost = LastOf(blocks)
         /\ Innermost \in BlockRecords /\ Innermost.object \in DOMAIN objects
         /\ expects \in BetweenEntries => Innermost.child = 0
         /\ expects \in InsideEntry => /\ Innermost.child \in Tops(objects)
                                  /\ Innermost.object < Innermost.child /\ Innermost.child # 0
         /\ Forest(objects) /\ Tops(objects) = {Root} \cup {current} \cup Children(blocks)
         /\ current \in Nat /\ vdfError \in BOOLEAN
<1>1. blocks # <<>> /\ current # 0 /\ BlockChain(blocks, current)
  BY DEF VdfInv, BlocksOpen, BetweenEntries, InsideEntry, OutsideBlock
<1>2. /\ Len(blocks) \in DOMAIN blocks
      /\ \A i \in DOMAIN blocks : blocks[i] \in BlockRecords
      /\ \A i \in DOMAIN blocks : blocks[i].child # 0 => blocks[i].child \in Children(blocks)
      /\ \A i \in DOMAIN blocks : blocks[i].object \in {current} \cup Children(blocks)
  BY <1>1, ChainIs
<1>3. Innermost = LastOf(blocks) /\ Innermost = blocks[Len(blocks)]
  BY DEF Innermost, LastOf
<1>4. Forest(objects) /\ Tops(objects) = {Root} \cup {current} \cup Children(blocks)
  BY <1>1 DEF VdfInv, TreeInv, HeldObjects, BetweenEntries, InsideEntry
<1>5. Innermost \in BlockRecords /\ Innermost.object \in DOMAIN objects
  BY <1>2, <1>3, <1>4 DEF Tops
<1>6. expects \in BetweenEntries => Innermost.child = 0
  BY <1>3 DEF VdfInv, BlocksOpen
<1>7. ASSUME expects \in InsideEntry
      PROVE  Innermost.child \in Tops(objects) /\ Innermost.object < Innermost.child /\ Innermost.child # 0
  <2>1. Innermost.child # 0
    BY <1>3, <1>7 DEF VdfInv, BlocksOpen
  <2>2. Innermost.object < Innermost.child
    BY <1>1, <1>2, <1>3, <2>1 DEF BlockChain
  <2> QED BY <1>2, <1>3, <1>4, <2>1, <2>2
<1> QED BY <1>1, <1>3, <1>4, <1>5, <1>6, <1>7 DEF VdfInv, VdfTypes

\* A step that stays in a block.
LEMMA StaysWithin ==
  ASSUME VdfTypes, ahead' \in Tokens \cup {NoToken}, UNCHANGED <<freshObject, current>>, current # 0,
         vdfError' \in BOOLEAN, Forest(objects'), DOMAIN objects' \subseteq DOMAIN objects,
         Tops(objects') = {Root} \cup {current} \cup Children(blocks'),
         BlockChain(blocks', current), blocks' # <<>>, expects' \in BetweenEntries \cup InsideEntry,
         expects' \in BetweenEntries => LastOf(blocks').child = 0,
         expects' \in InsideEntry => LastOf(blocks').child # 0
  PROVE  VdfInv'
<1>1. VdfTypes'
  BY DEF VdfTypes
<1>2. BlocksOpen'
  BY DEF BlocksOpen, LastOf, BetweenEntries, InsideEntry, OutsideBlock
<1>3. TreeInv'
  BY DEF TreeInv, HeldObjects, BetweenEntries, InsideEntry
<1> QED BY <1>1, <1>2, <1>3 DEF VdfInv

\* The innermost block as it is, but for what is decided on its child.
LEMMA BlockUpdated ==
  ASSUME VdfInv, expects \in BetweenEntries \cup InsideEntry, NEW b \in BlockRecords,
         b.object = Innermost.object, b.child = Innermost.child
  PROVE  /\ BlockChain(Update(b), current) /\ Update(b) # <<>> /\ LastOf(Update(b)) = b
         /\ Children(Update(b)) = Children(blocks)
<1>1. /\ blocks # <<>> /\ BlockChain(blocks, current) /\ Innermost = LastOf(blocks)
      /\ Innermost.child = 0 \/ (Innermost.object < Innermost.child /\ Innermost.child # 0)
  BY WithinBlock
<1>2. Update(b) = Relast(blocks, b)
  BY DEF Update, Relast
<1>3. Innermost.child # 0 => Innermost.child \in Children(blocks)
  BY <1>1, ChainIs DEF LastOf
<1>4. 0 \notin Children(blocks)
  BY DEF Children
<1>5. /\ BlockChain(Update(b), current) /\ Update(b) # <<>> /\ LastOf(Update(b)) = b
      /\ Children(Update(b)) = (Children(blocks) \ {LastOf(blocks).child}) \cup ({b.child} \ {0})
  BY <1>1, <1>2, ChainUpdated
<1> QED BY <1>1, <1>3, <1>4, <1>5

\* The innermost block that has let its child go.
LEMMA BlockReleased ==
  ASSUME VdfInv, expects \in InsideEntry, NEW b \in BlockRecords,
         b.object = Innermost.object, b.child = 0
  PROVE  /\ BlockChain(Update(b), current) /\ Update(b) # <<>> /\ LastOf(Update(b)) = b
         /\ Tops(objects) \ {Innermost.child} = {Root} \cup {current} \cup Children(Update(b))
<1>1. /\ blocks # <<>> /\ BlockChain(blocks, current) /\ Innermost = LastOf(blocks)
      /\ Innermost.child # 0 /\ Innermost.object < Innermost.child /\ current # 0
      /\ Tops(objects) = {Root} \cup {current} \cup Children(blocks)
  BY WithinBlock
<1>2. Update(b) = Relast(blocks, b)
  BY DEF Update, Relast
<1>3. Innermost.child \in Children(blocks) /\ Innermost.child \in Nat /\ current < Innermost.child
  BY <1>1, ChainIs DEF LastOf
<1>4. current \in Nat
  BY DEF VdfInv, VdfTypes
<1>5. Innermost.child # Root /\ Innermost.child # current
  BY <1>1, <1>3, <1>4 DEF Root
<1>6. /\ BlockChain(Update(b), current) /\ Update(b) # <<>> /\ LastOf(Update(b)) = b
      /\ Children(Update(b)) = (Children(blocks) \ {LastOf(blocks).child}) \cup ({b.child} \ {0})
  BY <1>1, <1>2, ChainUpdated
<1> QED BY <1>1, <1>5, <1>6

\* What becomes of the innermost block with its child.
LEMMA BlockFields ==
  ASSUME NEW b \in BlockRecords
  PROVE  /\ \A t : Holds[t.text] \in BOOLEAN /\ t.text.meant \in BOOLEAN =>
                Decide(b, t) \in BlockRecords /\ Decide(b, t).object = b.object /\ Decide(b, t).child = b.child
         /\ Dropping(b) \in BlockRecords /\ Dropping(b).object = b.object /\ Dropping(b).child = b.child
         /\ [b EXCEPT !.child = 0] \in BlockRecords /\ [b EXCEPT !.child = 0].object = b.object
         /\ [b EXCEPT !.child = 0].child = 0
<1>1. ASSUME NEW t, Holds[t.text] \in BOOLEAN, t.text.meant \in BOOLEAN
      PROVE  Decide(b, t) \in BlockRecords /\ Decide(b, t).object = b.object /\ Decide(b, t).child = b.child
  BY <1>1 DEF Decide, BlockRecords
<1>2. b.drops + (IF b.meant THEN 1 ELSE 0) \in Nat
  BY DEF BlockRecords
<1>3. Dropping(b) \in BlockRecords /\ Dropping(b).object = b.object /\ Dropping(b).child = b.child
  <2>1. PICK d \in Nat : d = b.drops + (IF b.meant THEN 1 ELSE 0)
    BY <1>2
  <2>2. Dropping(b) = [b EXCEPT !.drops = d]
    BY <2>1 DEF Dropping
  <2>3. [b EXCEPT !.drops = d] \in BlockRecords
    BY DEF BlockRecords
  <2> QED BY <2>2, <2>3 DEF BlockRecords
<1>4. /\ [b EXCEPT !.child = 0] \in BlockRecords /\ [b EXCEPT !.child = 0].object = b.object
      /\ [b EXCEPT !.child = 0].child = 0
  BY DEF BlockRecords
<1> QED BY <1>1, <1>3, <1>4

\* A child that is done.
LEMMA BlockDone ==
  ASSUME NEW objs, Forest(objs), NEW b \in BlockRecords, b.child \in DOMAIN objs
  PROVE  Done(objs, b) \in BlockRecords /\ Done(objs, b).object = b.object /\ Done(objs, b).child = 0
<1>1. objs[b.child] \in ObjectRecords
  BY DEF Forest
<1>2. objs[b.child].key \in ObjectKeys
  BY <1>1 DEF ObjectRecords
<1>3. PICK e : e = [object |-> b.child, key |-> objs[b.child].key, meant |-> b.meant, drops |-> b.drops]
  OBVIOUS
<1>4. e \in Entries
  BY <1>2, <1>3 DEF Entries, BlockRecords
<1>5. b.written \in Seq(Entries)
  BY DEF BlockRecords
<1>6. PICK w : w = Append(b.written, e)
  OBVIOUS
<1>7. w \in Seq(Entries)
  BY <1>4, <1>5, <1>6
<1>8. Done(objs, b) = [b EXCEPT !.child = 0, !.written = w]
  BY <1>3, <1>6 DEF Done
<1>9. /\ [b EXCEPT !.child = 0, !.written = w] \in BlockRecords
      /\ [b EXCEPT !.child = 0, !.written = w].object = b.object
      /\ [b EXCEPT !.child = 0, !.written = w].child = 0
  BY <1>7 DEF BlockRecords
<1> QED BY <1>8, <1>9

\* What a conditional takes out.
LEMMA ChildDropped ==
  ASSUME Forest(objects), NEW b, b.object \in DOMAIN objects
  PROVE  /\ Forest(Drop(b)) /\ Tops(Drop(b)) = Tops(objects) /\ DOMAIN Drop(b) \subseteq DOMAIN objects
<1>1. CASE b.kept
  <2>1. Drop(b) = RemoveFirstNamed(objects, b.object, objects[b.child].key)
    BY <1>1 DEF Drop
  <2> QED BY <2>1, RemovedChild
<1>2. CASE ~b.kept
  BY <1>2 DEF Drop
<1> QED BY <1>1, <1>2

\* What follows a key: a block, a value, or what is none (vdf.c:411).
LEMMA ValueTaken ==
  ASSUME VdfInv, expects \in InsideEntry, NEW objs, Forest(objs), Tops(objs) = Tops(objects),
         DOMAIN objs \subseteq DOMAIN objects, NEW b \in BlockRecords,
         b.object = Innermost.object, b.child = Innermost.child, NEW t, TakeValue(t, objs, b),
         ahead' \in Tokens \cup {NoToken}, UNCHANGED <<freshObject, current>>
  PROVE  VdfInv'
<1>0. /\ Innermost.child \in Tops(objects) /\ Innermost.child # 0 /\ current # 0 /\ VdfTypes
      /\ Tops(objects) = {Root} \cup {current} \cup Children(blocks) /\ vdfError \in BOOLEAN
  BY WithinBlock DEF VdfInv
<1>1. b.child \in Tops(objs) /\ b.child \in DOMAIN objs
  BY <1>0 DEF Tops
<1>2. /\ Forest(FreeObject(objs, b.child)) /\ Tops(FreeObject(objs, b.child)) = Tops(objs) \ {b.child}
      /\ DOMAIN FreeObject(objs, b.child) \subseteq DOMAIN objects
  BY <1>1, FreedTop
<1>3. ASSUME objects' = FreeObject(objs, b.child), blocks' = Update([b EXCEPT !.child = 0]),
             vdfError' = TRUE, expects' \in BetweenEntries
      PROVE  VdfInv'
  <2>1. PICK e \in BlockRecords : e = [b EXCEPT !.child = 0] /\ e.object = b.object /\ e.child = 0
    BY BlockFields
  <2>2. /\ BlockChain(Update(e), current) /\ Update(e) # <<>> /\ LastOf(Update(e)) = e
        /\ Tops(objects) \ {Innermost.child} = {Root} \cup {current} \cup Children(Update(e))
    BY <2>1, BlockReleased
  <2>3. expects' \notin InsideEntry
    BY <1>3 DEF BetweenEntries, InsideEntry
  <2> QED BY <1>0, <1>2, <1>3, <2>1, <2>2, <2>3, StaysWithin
<1>4. ASSUME NEW y \in ObjectTypes, objects' = [objs EXCEPT ![b.child].type = y]
      PROVE  Forest(objects') /\ Tops(objects') = Tops(objects) /\ DOMAIN objects' \subseteq DOMAIN objects
  <2>1. PICK o \in DOMAIN objs : o = b.child
    BY <1>1
  <2>2. objects' = Retyping(objs, o, y)
    BY <1>4, <2>1 DEF Retyping
  <2> QED BY <2>2, Retyped
<1>5. /\ BlockChain(Update(b), current) /\ Update(b) # <<>> /\ LastOf(Update(b)) = b
      /\ Children(Update(b)) = Children(blocks)
  BY BlockUpdated
<1>6. CASE /\ objects' = [objs EXCEPT ![b.child].type = "array"]
           /\ blocks' = Append(Update(b), Block(b.child))
           /\ vdfError' \in BOOLEAN /\ expects' \in BetweenEntries
  <2>1. Forest(objects') /\ Tops(objects') = Tops(objects) /\ DOMAIN objects' \subseteq DOMAIN objects
    BY <1>4, <1>6 DEF ObjectTypes
  <2>2. /\ BlockChain(blocks', current) /\ blocks' # <<>> /\ LastOf(blocks').child = 0
        /\ Children(blocks') = Children(blocks)
    <3>1. PICK bs : bs = Update(b)
      OBVIOUS
    <3>2. LastOf(bs).child # 0 /\ blocks' = Append(bs, Block(LastOf(bs).child))
      BY <1>0, <1>5, <1>6, <3>1
    <3>3. BlockChain(bs, current) /\ bs # <<>> /\ Children(bs) = Children(blocks)
      BY <1>5, <3>1
    <3> QED BY <3>2, <3>3, ChainPushed
  <2>3. expects' \notin InsideEntry
    BY <1>6 DEF BetweenEntries, InsideEntry
  <2> QED BY <1>0, <1>6, <2>1, <2>2, <2>3, StaysWithin
<1>7. CASE /\ objects' = [objs EXCEPT ![b.child].type = "string"]
           /\ blocks' = Update(b) /\ vdfError' \in BOOLEAN /\ expects' = "peek"
  <2>1. Forest(objects') /\ Tops(objects') = Tops(objects) /\ DOMAIN objects' \subseteq DOMAIN objects
    BY <1>4, <1>7 DEF ObjectTypes
  <2>2. expects' \in InsideEntry /\ expects' \notin BetweenEntries
    BY <1>7 DEF BetweenEntries, InsideEntry
  <2> QED BY <1>0, <1>5, <1>7, <2>1, <2>2, StaysWithin
<1>8. "leave" \in BetweenEntries /\ "name" \in BetweenEntries
  BY DEF BetweenEntries
<1>9. CASE t.kind \in {"end", "}", "cond"} /\ objects' = FreeObject(objs, b.child)
           /\ blocks' = Update([b EXCEPT !.child = 0]) /\ vdfError' = TRUE /\ expects' = "leave"
  BY <1>3, <1>8, <1>9
<1>10. CASE t.kind \notin {"end", "}", "cond", "{"} /\ objects' = FreeObject(objs, b.child)
           /\ blocks' = Update([b EXCEPT !.child = 0]) /\ vdfError' = TRUE /\ expects' = "name"
  BY <1>3, <1>8, <1>10
<1> QED
  <2>1. CASE /\ t.kind = "{"
             /\ objects' = [objs EXCEPT ![b.child].type = "array"]
             /\ blocks' = Append(Update(b), Block(b.child))
             /\ IF Len(blocks) + 1 > VdfMaxDepth
                THEN vdfError' = TRUE /\ expects' = "leave"
                ELSE expects' = "name" /\ UNCHANGED vdfError
    BY <1>0, <1>6, <1>8, <2>1
  <2>2. CASE /\ t.kind \notin {"end", "}", "cond", "{"}
             /\ objects' = [objs EXCEPT ![b.child].type = "string"]
             /\ blocks' = Update(b)
             /\ vdfError' = (vdfError \/ TooLong(t)) /\ expects' = "peek"
    BY <1>7, <2>2
  <2> QED BY <1>9, <1>10, <2>1, <2>2 DEF TakeValue

\* Without blocks nothing is read into one.
LEMMA NoBlocks == ASSUME NEW top PROVE BlockChain(<<>>, top) /\ Children(<<>>) = {}
BY DEF BlockChain, Children

\* OutsideBlock of blocks all is held by the caller and the entry.
LEMMA OutsideBlocks ==
  ASSUME VdfInv, expects \in OutsideBlock, expects # "done"
  PROVE  /\ blocks = <<>> /\ Forest(objects) /\ Tops(objects) = {Root} \cup ({current} \ {0})
         /\ current \in Nat /\ freshObject \in Nat /\ Root < freshObject
         /\ DOMAIN objects \subseteq 1..(freshObject - 1) /\ vdfError \in BOOLEAN
<1>1. blocks = <<>>
  BY DEF VdfInv, BlocksOpen
<1> QED BY <1>1, NoBlocks DEF VdfInv, VdfTypes, TreeInv, HeldObjects

\* A step that stays outside of blocks.
LEMMA StaysOutside ==
  ASSUME ahead' \in Tokens \cup {NoToken}, freshObject' \in Nat, Root < freshObject',
         DOMAIN objects' \subseteq 1..(freshObject' - 1), current' \in Nat, vdfError' \in BOOLEAN,
         Forest(objects'), blocks' = <<>>, expects' \in OutsideBlock,
         Tops(objects') = (IF expects' = "done" /\ vdfError' THEN {} ELSE {Root}) \cup ({current'} \ {0}),
         expects' \notin {"entry", "include", "finish", "done"} => current' # 0,
         expects' = "done" => current' = 0
  PROVE  VdfInv'
<1>1. VdfTypes'
  BY DEF VdfTypes
<1>2. expects' \notin BetweenEntries /\ expects' \notin InsideEntry
  BY DEF BetweenEntries, InsideEntry, OutsideBlock
<1>3. BlockChain(blocks', current') /\ Children(blocks') = {}
  BY NoBlocks
<1>4. BlocksOpen'
  BY <1>2, <1>3 DEF BlocksOpen
<1>5. TreeInv'
  BY <1>3 DEF TreeInv, HeldObjects
<1> QED BY <1>1, <1>4, <1>5 DEF VdfInv

\* The root is all there is at first, and is the first entry's.
LEMMA TextBegins == VdfInit => VdfInv
<1> SUFFICES ASSUME VdfInit PROVE VdfInv
  OBVIOUS
<1>1. /\ DOMAIN objects = {Root} /\ objects[Root] = NewObject("none")
      /\ freshObject = 2 /\ current = 1 /\ Root = 1
  BY DEF VdfInit, Root
<1>2. NewObject("none") \in ObjectRecords /\ NewObject("none").children = <<>>
  BY DEF NewObject, ObjectRecords, ObjectTypes, ObjectKeys
<1>3. Kids(objects, Root) = {}
  BY <1>1, <1>2 DEF Kids
<1>4. objects \in [DOMAIN objects -> ObjectRecords]
  <2>1. \A x \in DOMAIN objects : objects[x] \in ObjectRecords
    BY <1>1, <1>2
  <2>2. objects = [x \in DOMAIN objects |-> objects[x]]
    BY DEF VdfInit
  <2> QED BY <2>1, <2>2
<1>5. Forest(objects)
  BY <1>1, <1>3, <1>4 DEF Forest
<1>6. Tops(objects) = {Root}
  BY <1>1, <1>3 DEF Tops, IsChild
<1>7. blocks = <<>> /\ BlockChain(blocks, current) /\ Children(blocks) = {}
  BY NoBlocks DEF VdfInit
<1>8. expects = "entry"
  BY DEF VdfInit
<1>9. VdfTypes
  <2>1. ahead \in Tokens \cup {NoToken} /\ vdfError \in BOOLEAN
    BY DEF VdfInit
  <2>2. /\ freshObject \in Nat /\ Root < freshObject /\ current \in Nat
        /\ DOMAIN objects \subseteq 1..(freshObject - 1)
    BY <1>1
  <2> QED BY <2>1, <2>2 DEF VdfTypes
<1>10. BlocksOpen
  BY <1>1, <1>7, <1>8 DEF BlocksOpen, OutsideBlock, BetweenEntries, InsideEntry
<1>11. TreeInv
  BY <1>1, <1>5, <1>6, <1>7, <1>8 DEF TreeInv, HeldObjects
<1> QED BY <1>9, <1>10, <1>11 DEF VdfInv

\* An entry is read into a new object, or into the one of an entry that was rejected.
LEMMA EntryBegun ==
  ASSUME VdfInv, expects = "entry", NEW t \in Upcoming, BeginEntry(t), blocks' = blocks,
         ahead' \in Tokens \cup {NoToken}
  PROVE  VdfInv'
<1>1. /\ blocks = <<>> /\ Forest(objects) /\ Tops(objects) = {Root} \cup ({current} \ {0})
      /\ current \in Nat /\ freshObject \in Nat /\ Root < freshObject
      /\ DOMAIN objects \subseteq 1..(freshObject - 1) /\ vdfError \in BOOLEAN
  BY OutsideBlocks DEF OutsideBlock
<1>2. Text(t) \in ObjectKeys
  BY TokenIs DEF VdfInv
<1>3. CASE expects' = "finish" /\ vdfError' = TRUE /\ UNCHANGED treeVars
  <2>1. objects' = objects /\ freshObject' = freshObject /\ current' = current
    BY <1>3 DEF treeVars
  <2> QED BY <1>1, <1>3, <2>1, StaysOutside DEF OutsideBlock
<1>4. ASSUME expects' = "brace", vdfError' = (vdfError \/ TooLong(t)), current = 0,
             current' = freshObject, freshObject' = freshObject + 1,
             objects' = [o \in DOMAIN objects \cup {freshObject} |->
                                IF o = freshObject THEN NewObject(Text(t)) ELSE objects[o]]
      PROVE  VdfInv'
  <2>1. freshObject \in Nat \ {0} /\ freshObject \notin DOMAIN objects
    BY <1>1 DEF Root
  <2>2. /\ Forest(objects') /\ Tops(objects') = Tops(objects) \cup {freshObject}
        /\ DOMAIN objects' = DOMAIN objects \cup {freshObject}
    <3>1. PICK k \in ObjectKeys : k = Text(t)
      BY <1>2
    <3>2. PICK o \in Nat \ {0} : o = freshObject
      BY <2>1
    <3>3. objects' = Added(objects, o, k)
      BY <1>4, <3>1, <3>2 DEF Added
    <3>4. Forest(objects') /\ Tops(objects') = Tops(objects) \cup {o}
          /\ DOMAIN objects' = DOMAIN objects \cup {o}
      <4>1. Forest(objects) /\ o \notin DOMAIN objects
        BY <1>1, <2>1, <3>2
      <4> QED BY ONLY <3>1, <3>2, <3>3, <4>1, NewTop
    <3> QED BY <3>2, <3>4
  <2>3. Tops(objects') = {Root} \cup ({current'} \ {0})
    BY <1>1, <1>4, <2>1, <2>2
  <2>4. DOMAIN objects' \subseteq 1..(freshObject' - 1) /\ Root < freshObject' /\ freshObject' \in Nat
    BY <1>1, <1>4, <2>1, <2>2 DEF Root
  <2>5. vdfError' \in BOOLEAN /\ current' \in Nat /\ current' # 0
    BY <1>1, <1>4, <2>1
  <2> QED BY <1>1, <1>4, <2>2, <2>3, <2>4, <2>5, StaysOutside DEF OutsideBlock
<1>5. ASSUME expects' = "brace", vdfError' = (vdfError \/ TooLong(t)), current # 0,
             UNCHANGED <<current, freshObject>>, objects' = [objects EXCEPT ![current].key = Text(t)]
      PROVE  VdfInv'
  <2>1. current \in DOMAIN objects
    BY <1>1, <1>5 DEF Tops
  <2>2. objects' = Rekeying(objects, current, Text(t))
    BY <1>5 DEF Rekeying
  <2>3. Forest(objects') /\ Tops(objects') = Tops(objects) /\ DOMAIN objects' = DOMAIN objects
    BY <1>1, <1>2, <2>1, <2>2, Rekeyed
  <2>4. vdfError' \in BOOLEAN
    BY <1>1, <1>5
  <2> QED BY <1>1, <1>5, <2>3, <2>4, StaysOutside DEF OutsideBlock
<1> QED BY <1>3, <1>4, <1>5 DEF BeginEntry

\* Each step of the reader keeps the invariant.
LEMMA ReadEntryInv == ASSUME VdfInv, ReadEntry PROVE VdfInv'
<1>1. PICK t \in Upcoming :
        /\ ReadToken(t)
        /\ \/ /\ overflow' \/ t.kind \in {"nul", "end"}
              /\ expects' = "finish" /\ UNCHANGED <<vdfError, treeVars>>
           \/ ~overflow' /\ t.kind = "include" /\ ReadInclude(t)
           \/ ~overflow' /\ t.kind \notin {"nul", "include"} /\ BeginEntry(t)
  BY DEF ReadEntry
<1>2. ahead' \in Tokens \cup {NoToken}
  BY <1>1, AheadStays DEF VdfInv
<1>3. expects = "entry" /\ blocks' = blocks
  BY DEF ReadEntry
<1>4. /\ blocks = <<>> /\ Forest(objects) /\ Tops(objects) = {Root} \cup ({current} \ {0})
      /\ current \in Nat /\ freshObject \in Nat /\ Root < freshObject
      /\ DOMAIN objects \subseteq 1..(freshObject - 1) /\ vdfError \in BOOLEAN
  BY <1>3, OutsideBlocks DEF OutsideBlock
<1>5. CASE UNCHANGED treeVars /\ vdfError' \in BOOLEAN /\ expects' \in {"finish", "include"}
  <2>1. objects' = objects /\ freshObject' = freshObject /\ current' = current
    BY <1>5 DEF treeVars
  <2> QED BY <1>2, <1>3, <1>4, <1>5, <2>1, StaysOutside DEF OutsideBlock
<1>6. CASE expects' = "finish" /\ UNCHANGED <<vdfError, treeVars>>
  BY <1>4, <1>5, <1>6
<1>7. CASE ReadInclude(t)
  <2>1. UNCHANGED treeVars /\ expects' \in {"finish", "include"}
    BY <1>7 DEF ReadInclude
  <2>2. vdfError' \in BOOLEAN
    BY <1>7 DEF ReadInclude
  <2> QED BY <1>5, <2>1, <2>2
<1>8. CASE BeginEntry(t)
  BY <1>2, <1>3, <1>8, EntryBegun
<1> QED BY <1>1, <1>6, <1>7, <1>8

LEMMA ReadIncludedInv == ASSUME VdfInv, ReadIncluded PROVE VdfInv'
<1>1. PICK t \in Upcoming :
        /\ ReadToken(t)
        /\ vdfError' = (vdfError \/ t.kind \in {"end", "nul", "empty", "long"})
        /\ expects' = IF overflow' \/ vdfError' THEN "finish" ELSE "entry"
  BY DEF ReadIncluded
<1>2. ahead' \in Tokens \cup {NoToken}
  BY <1>1, AheadStays DEF VdfInv
<1>3. /\ expects = "include" /\ blocks' = blocks /\ objects' = objects
      /\ freshObject' = freshObject /\ current' = current
  BY DEF ReadIncluded, treeVars
<1>4. /\ blocks = <<>> /\ Forest(objects) /\ Tops(objects) = {Root} \cup ({current} \ {0})
      /\ current \in Nat /\ freshObject \in Nat /\ Root < freshObject
      /\ DOMAIN objects \subseteq 1..(freshObject - 1)
  BY <1>3, OutsideBlocks DEF OutsideBlock
<1>5. vdfError' \in BOOLEAN
  BY <1>1
<1>6. expects' \in {"finish", "entry"}
  BY <1>1
<1> QED BY <1>2, <1>3, <1>4, <1>5, <1>6, StaysOutside DEF OutsideBlock

LEMMA ReadBraceInv == ASSUME VdfInv, ReadBrace PROVE VdfInv'
<1>1. PICK t \in Upcoming :
        /\ ReadToken(t)
        /\ \/ /\ t.kind = "cond" /\ expects = "brace"
              /\ entryKept' = Holds[t.text]
              /\ expects' = "braceOnly" /\ UNCHANGED <<vdfError, objects, blocks>>
           \/ /\ t.kind = "{"
              /\ objects' = [objects EXCEPT ![current].type = "array"]
              /\ blocks' = <<Block(current)>>
              /\ expects' = "name" /\ UNCHANGED <<vdfError, entryKept>>
           \/ /\ t.kind # "{" /\ ~(t.kind = "cond" /\ expects = "brace")
              /\ vdfError' = TRUE
              /\ expects' = "entered" /\ UNCHANGED <<objects, entryKept, blocks>>
  BY DEF ReadBrace
<1>2. ahead' \in Tokens \cup {NoToken}
  BY <1>1, AheadStays DEF VdfInv
<1>3. expects \in {"brace", "braceOnly"} /\ freshObject' = freshObject /\ current' = current
  BY DEF ReadBrace
<1>4. /\ blocks = <<>> /\ Forest(objects) /\ Tops(objects) = {Root} \cup ({current} \ {0})
      /\ current \in Nat /\ freshObject \in Nat /\ Root < freshObject
      /\ DOMAIN objects \subseteq 1..(freshObject - 1) /\ vdfError \in BOOLEAN
  BY <1>3, OutsideBlocks DEF OutsideBlock
<1>5. current # 0
  BY <1>3 DEF VdfInv, BlocksOpen
<1>6. CASE expects' \in {"braceOnly", "entered"} /\ UNCHANGED <<objects, blocks>> /\ vdfError' \in BOOLEAN
  BY <1>2, <1>3, <1>4, <1>5, <1>6, StaysOutside DEF OutsideBlock
<1>7. CASE /\ objects' = [objects EXCEPT ![current].type = "array"] /\ blocks' = <<Block(current)>>
           /\ expects' = "name" /\ UNCHANGED vdfError
  <2>1. current \in DOMAIN objects
    BY <1>4, <1>5 DEF Tops
  <2>2. objects' = Retyping(objects, current, "array")
    BY <1>7 DEF Retyping
  <2>3. Forest(objects') /\ Tops(objects') = Tops(objects) /\ DOMAIN objects' = DOMAIN objects
    BY <1>4, <2>1, <2>2, Retyped DEF ObjectTypes
  <2>4. /\ BlockChain(blocks', current) /\ blocks' # <<>> /\ LastOf(blocks').child = 0
        /\ Children(blocks') = {}
    <3>1. PICK b : b = Block(current)
      OBVIOUS
    <3>2. b \in BlockRecords /\ b.object = current /\ b.child = 0
      <4>1. <<>> \in Seq(Entries)
        OBVIOUS
      <4> QED BY <1>4, <3>1, <4>1 DEF Block, BlockRecords
    <3>3. PICK bs : bs = <<b>>
      OBVIOUS
    <3>4. bs \in Seq(BlockRecords) /\ DOMAIN bs = {1} /\ bs[1] = b /\ Len(bs) = 1 /\ bs # <<>>
      BY <3>2, <3>3
    <3>5. BlockChain(bs, current)
      BY <1>5, <3>2, <3>4 DEF BlockChain
    <3>6. LastOf(bs).child = 0 /\ Children(bs) = {}
      BY <3>2, <3>4 DEF LastOf, Children
    <3> QED BY <1>7, <3>1, <3>3, <3>4, <3>5, <3>6
  <2>5. VdfTypes
    BY DEF VdfInv
  <2>6. Tops(objects') = {Root} \cup {current} \cup Children(blocks')
    BY <1>4, <1>5, <2>3, <2>4
  <2> QED BY <1>2, <1>3, <1>4, <1>5, <1>7, <2>3, <2>4, <2>5, <2>6, StaysWithin DEF BetweenEntries, InsideEntry
<1> QED BY <1>1, <1>4, <1>6, <1>7

LEMMA EndEntryInv == ASSUME VdfInv, EndEntry PROVE VdfInv'
<1>1. /\ expects = "entered" /\ blocks' = blocks /\ vdfError' = vdfError /\ ahead' = ahead
      /\ freshObject' = freshObject /\ expects' \in {"finish", "entry"}
  BY DEF EndEntry, inputVars
<1>2. /\ blocks = <<>> /\ Forest(objects) /\ Tops(objects) = {Root} \cup ({current} \ {0})
      /\ current \in Nat /\ freshObject \in Nat /\ Root < freshObject
      /\ DOMAIN objects \subseteq 1..(freshObject - 1) /\ vdfError \in BOOLEAN
  BY <1>1, OutsideBlocks DEF OutsideBlock
<1>3. ahead' \in Tokens \cup {NoToken}
  BY <1>1 DEF VdfInv, VdfTypes
<1>4. current # 0
  BY <1>1 DEF VdfInv, BlocksOpen
<1>5. current \in Tops(objects)
  BY <1>2, <1>4
<1>6. ASSUME Forest(objects'), DOMAIN objects' \subseteq DOMAIN objects, current' \in Nat,
             Tops(objects') = {Root} \cup ({current'} \ {0})
      PROVE  VdfInv'
  BY <1>1, <1>2, <1>3, <1>6, StaysOutside DEF OutsideBlock
<1>7. CASE objects' = ClearObject(objects, current) /\ UNCHANGED current
  <2>1. /\ Forest(ClearObject(objects, current)) /\ Tops(ClearObject(objects, current)) = Tops(objects)
        /\ DOMAIN ClearObject(objects, current) \subseteq DOMAIN objects
    BY <1>2, <1>5, ClearedTop
  <2> QED BY <1>2, <1>6, <1>7, <2>1
<1>8. CASE objects' = FreeObject(objects, current) /\ current # Root /\ current' = 0
  <2>1. /\ Forest(FreeObject(objects, current)) /\ Tops(FreeObject(objects, current)) = Tops(objects) \ {current}
        /\ DOMAIN FreeObject(objects, current) \subseteq DOMAIN objects
    BY <1>2, <1>5, FreedTop
  <2>2. Tops(objects') = {Root} \cup ({current'} \ {0})
    BY <1>2, <1>8, <2>1
  <2> QED BY <1>2, <1>6, <1>8, <2>1, <2>2
<1>9. CASE objects' = objects /\ current = Root /\ current' = 0
  <2>1. Tops(objects') = {Root} \cup ({current'} \ {0})
    BY <1>2, <1>9
  <2> QED BY <1>2, <1>6, <1>9, <2>1
<1> QED BY <1>7, <1>8, <1>9 DEF EndEntry

LEMMA FinishInv == ASSUME VdfInv, Finish PROVE VdfInv'
<1>1. /\ expects = "finish" /\ blocks' = blocks /\ vdfError' = vdfError /\ ahead' = ahead
      /\ freshObject' = freshObject /\ expects' = "done" /\ current' = 0
  BY DEF Finish, inputVars
<1>2. /\ blocks = <<>> /\ Forest(objects) /\ Tops(objects) = {Root} \cup ({current} \ {0})
      /\ current \in Nat /\ freshObject \in Nat /\ Root < freshObject
      /\ DOMAIN objects \subseteq 1..(freshObject - 1) /\ vdfError \in BOOLEAN
  BY <1>1, OutsideBlocks DEF OutsideBlock
<1>3. ahead' \in Tokens \cup {NoToken}
  BY <1>1 DEF VdfInv, VdfTypes
<1>4. PICK left : left = IF current \notin {0, Root} THEN FreeObject(objects, current) ELSE objects
  OBVIOUS
<1>5. objects' = IF vdfError THEN FreeObject(left, Root) ELSE left
  BY <1>4 DEF Finish
<1>6. Forest(left) /\ Tops(left) = {Root} /\ DOMAIN left \subseteq DOMAIN objects
  <2>1. CASE current \notin {0, Root}
    <3>1. current \in Tops(objects)
      BY <1>2, <2>1
    <3>2. /\ Forest(FreeObject(objects, current))
          /\ Tops(FreeObject(objects, current)) = Tops(objects) \ {current}
          /\ DOMAIN FreeObject(objects, current) \subseteq DOMAIN objects
      BY <1>2, <3>1, FreedTop
    <3> QED BY <1>2, <1>4, <2>1, <3>2
  <2>2. CASE current \in {0, Root}
    BY <1>2, <1>4, <2>2 DEF Root
  <2> QED BY <2>1, <2>2
<1>7. /\ Forest(objects') /\ DOMAIN objects' \subseteq DOMAIN objects
      /\ Tops(objects') = IF vdfError THEN {} ELSE {Root}
  <2>1. CASE vdfError
    <3>1. /\ Forest(FreeObject(left, Root)) /\ Tops(FreeObject(left, Root)) = Tops(left) \ {Root}
          /\ DOMAIN FreeObject(left, Root) \subseteq DOMAIN left
      BY <1>6, FreedTop
    <3> QED BY <1>5, <1>6, <2>1, <3>1
  <2>2. CASE ~vdfError
    BY <1>5, <1>6, <2>2
  <2> QED BY <2>1, <2>2
<1>8. Tops(objects') = (IF expects' = "done" /\ vdfError' THEN {} ELSE {Root}) \cup ({current'} \ {0})
  BY <1>1, <1>7
<1>9. DOMAIN objects' \subseteq 1..(freshObject' - 1) /\ current' \in Nat
  BY <1>1, <1>2, <1>7
<1> QED BY <1>1, <1>2, <1>3, <1>7, <1>8, <1>9, StaysOutside DEF OutsideBlock

LEMMA ReadNameInv == ASSUME VdfInv, ReadName PROVE VdfInv'
<1>1. PICK t \in Upcoming :
        /\ ReadToken(t)
        /\ \/ /\ vdfError' = TRUE
              /\ expects' = "leave" /\ UNCHANGED <<objects, freshObject, blocks>>
           \/ /\ expects' = "leave" /\ UNCHANGED <<vdfError, objects, freshObject, blocks>>
           \/ /\ objects' = [o \in DOMAIN objects \cup {freshObject} |->
                                IF o = freshObject THEN NewObject(Text(t)) ELSE objects[o]]
              /\ blocks' = Update([Innermost EXCEPT !.child = freshObject, !.kept = TRUE,
                                                    !.meant = TRUE, !.drops = 0])
              /\ freshObject' = freshObject + 1
              /\ expects' = "value" /\ UNCHANGED vdfError
  BY DEF ReadName
<1>2. ahead' \in Tokens \cup {NoToken}
  BY <1>1, AheadStays DEF VdfInv
<1>3. expects = "name" /\ current' = current
  BY DEF ReadName
<1>4. /\ blocks # <<>> /\ current # 0 /\ BlockChain(blocks, current) /\ Innermost = LastOf(blocks)
      /\ Innermost \in BlockRecords /\ Innermost.object \in DOMAIN objects
      /\ Innermost.child = 0
      /\ Forest(objects) /\ Tops(objects) = {Root} \cup {current} \cup Children(blocks)
      /\ current \in Nat /\ vdfError \in BOOLEAN
  BY <1>3, WithinBlock DEF BetweenEntries
<1>5. VdfTypes
  BY DEF VdfInv
<1>6. CASE vdfError' \in BOOLEAN /\ expects' = "leave" /\ UNCHANGED <<objects, freshObject, blocks>>
  <2>1. LastOf(blocks').child = 0
    BY <1>4, <1>6
  <2>2. expects' \in BetweenEntries /\ expects' \notin InsideEntry
    BY <1>6 DEF BetweenEntries, InsideEntry
  <2> QED BY <1>2, <1>3, <1>4, <1>5, <1>6, <2>1, <2>2, StaysWithin
<1>7. ASSUME objects' = [o \in DOMAIN objects \cup {freshObject} |->
                                IF o = freshObject THEN NewObject(Text(t)) ELSE objects[o]],
             blocks' = Update([Innermost EXCEPT !.child = freshObject, !.kept = TRUE,
                                                !.meant = TRUE, !.drops = 0]),
             freshObject' = freshObject + 1, expects' = "value", UNCHANGED vdfError
      PROVE  VdfInv'
  <2>1. PICK o \in Nat \ {0} : o = freshObject
    BY <1>5 DEF VdfTypes, Root
  <2>2. PICK k \in ObjectKeys : k = Text(t)
    BY <1>5, TokenIs
  <2>3. objects' = Added(objects, o, k)
    BY <1>7, <2>1, <2>2 DEF Added
  <2>4. DOMAIN objects \subseteq 1..(o - 1) /\ Root < o
    BY <1>5, <2>1 DEF VdfTypes
  <2>5. o \notin DOMAIN objects
    BY <2>1, <2>4
  <2>6. Forest(objects') /\ Tops(objects') = Tops(objects) \cup {o}
        /\ DOMAIN objects' = DOMAIN objects \cup {o}
    <3>1. Forest(objects)
      BY <1>4
    <3> QED BY ONLY <2>1, <2>2, <2>3, <2>5, <3>1, NewTop
  <2>7. PICK b : b = [Innermost EXCEPT !.child = o, !.kept = TRUE, !.meant = TRUE, !.drops = 0]
    OBVIOUS
  <2>8. b \in BlockRecords /\ b.object = Innermost.object /\ b.child = o
    BY <1>4, <2>1, <2>7 DEF BlockRecords
  <2>9. b.object < b.child
    <3>1. Innermost.object \in 1..(o - 1)
      BY <1>4, <2>4
    <3> QED BY <2>1, <2>8, <3>1
  <2>10. blocks' = Relast(blocks, b)
    BY <1>7, <2>1, <2>7 DEF Update, Relast
  <2>11. /\ BlockChain(blocks', current) /\ blocks' # <<>> /\ LastOf(blocks') = b
         /\ Children(blocks') = (Children(blocks) \ {LastOf(blocks).child}) \cup ({b.child} \ {0})
    BY <1>4, <2>8, <2>9, <2>10, ChainUpdated
  <2>12. Children(blocks') = Children(blocks) \cup {o}
    <3>1. 0 \notin Children(blocks)
      BY DEF Children
    <3> QED BY <1>4, <2>1, <2>8, <2>11, <3>1
  <2>13. freshObject' = o + 1
    BY <1>7, <2>1
  <2>14. VdfTypes'
    <3>1. /\ freshObject' \in Nat /\ Root < freshObject'
          /\ DOMAIN objects' \subseteq 1..(freshObject' - 1)
      BY <2>1, <2>4, <2>6, <2>13 DEF Root
    <3>2. current' \in Nat /\ vdfError' \in BOOLEAN
      BY <1>3, <1>4, <1>7
    <3> QED BY <1>2, <3>1, <3>2 DEF VdfTypes
  <2>15. BlocksOpen'
    <3>1. blocks'[Len(blocks')].child # 0
      BY <2>1, <2>8, <2>11 DEF LastOf
    <3> QED BY <1>3, <1>4, <1>7, <2>11, <3>1 DEF BlocksOpen, BetweenEntries, InsideEntry, OutsideBlock
  <2>16. TreeInv'
    <3>1. Tops(objects') = {Root} \cup {current} \cup Children(blocks')
      BY <1>4, <2>6, <2>12
    <3> QED BY <1>3, <1>4, <1>7, <2>6, <3>1 DEF TreeInv, HeldObjects
  <2> QED BY <2>14, <2>15, <2>16 DEF VdfInv
<1> QED BY <1>1, <1>4, <1>6, <1>7

LEMMA ReadValueInv == ASSUME VdfInv, ReadValue PROVE VdfInv'
<1>1. PICK t \in Upcoming :
        /\ ReadToken(t)
        /\ \/ /\ t.kind = "cond" /\ expects = "value"
              /\ blocks' = Update(Decide(Innermost, t))
              /\ expects' = "valueOnly" /\ UNCHANGED <<vdfError, objects>>
           \/ /\ t.kind = "=" /\ expects' = "assigned" /\ UNCHANGED <<vdfError, objects, blocks>>
           \/ /\ t.kind # "=" /\ ~(t.kind = "cond" /\ expects = "value")
              /\ TakeValue(t, objects, Innermost)
  BY DEF ReadValue
<1>2. ahead' \in Tokens \cup {NoToken}
  BY <1>1, AheadStays DEF VdfInv
<1>3. expects \in InsideEntry /\ current' = current /\ freshObject' = freshObject
  BY DEF ReadValue, InsideEntry
<1>4. /\ blocks # <<>> /\ current # 0 /\ BlockChain(blocks, current) /\ Innermost = LastOf(blocks)
      /\ Innermost \in BlockRecords /\ Innermost.child # 0
      /\ Forest(objects) /\ Tops(objects) = {Root} \cup {current} \cup Children(blocks)
      /\ vdfError \in BOOLEAN /\ VdfTypes
  BY <1>3, WithinBlock DEF VdfInv
<1>5. CASE /\ t.kind = "cond" /\ blocks' = Update(Decide(Innermost, t))
           /\ expects' = "valueOnly" /\ UNCHANGED <<vdfError, objects>>
  <2>1. PICK b \in BlockRecords : b = Decide(Innermost, t)
                                  /\ b.object = Innermost.object /\ b.child = Innermost.child
    BY <1>4, <1>5, TokenIs, BlockFields
  <2>2. /\ BlockChain(Update(b), current) /\ Update(b) # <<>> /\ LastOf(Update(b)) = b
        /\ Children(Update(b)) = Children(blocks)
    BY <1>3, <2>1, BlockUpdated
  <2>3. expects' \in InsideEntry /\ expects' \notin BetweenEntries
    BY <1>5 DEF BetweenEntries, InsideEntry
  <2> QED BY <1>2, <1>3, <1>4, <1>5, <2>1, <2>2, <2>3, StaysWithin
<1>6. CASE expects' = "assigned" /\ UNCHANGED <<vdfError, objects, blocks>>
  <2>1. expects' \in InsideEntry /\ expects' \notin BetweenEntries
    BY <1>6 DEF BetweenEntries, InsideEntry
  <2> QED BY <1>2, <1>3, <1>4, <1>6, <2>1, StaysWithin
<1>7. CASE TakeValue(t, objects, Innermost)
  BY <1>2, <1>3, <1>4, <1>7, ValueTaken
<1> QED BY <1>1, <1>5, <1>6, <1>7

LEMMA ReadAssignedInv == ASSUME VdfInv, ReadAssigned PROVE VdfInv'
<1>1. PICK t \in Upcoming :
        /\ ReadToken(t)
        /\ \/ /\ expects = "assigned" /\ t.kind = "cond"
              /\ blocks' = Update(Decide(Innermost, t))
              /\ expects' = "assignedOnly" /\ UNCHANGED <<vdfError, objects>>
           \/ /\ expects = "assigned" /\ t.kind # "cond"
              /\ TakeValue(t, objects, Innermost)
           \/ /\ expects = "assignedOnly"
              /\ TakeValue(t, Drop(Innermost), Dropping(Innermost))
  BY DEF ReadAssigned
<1>2. ahead' \in Tokens \cup {NoToken}
  BY <1>1, AheadStays DEF VdfInv
<1>3. expects \in InsideEntry /\ current' = current /\ freshObject' = freshObject
  BY DEF ReadAssigned, InsideEntry
<1>4. /\ blocks # <<>> /\ current # 0 /\ BlockChain(blocks, current) /\ Innermost = LastOf(blocks)
      /\ Innermost \in BlockRecords /\ Innermost.child # 0 /\ Innermost.object \in DOMAIN objects
      /\ Forest(objects) /\ Tops(objects) = {Root} \cup {current} \cup Children(blocks)
      /\ vdfError \in BOOLEAN /\ VdfTypes
  BY <1>3, WithinBlock DEF VdfInv
<1>5. CASE /\ t.kind = "cond" /\ blocks' = Update(Decide(Innermost, t))
           /\ expects' = "assignedOnly" /\ UNCHANGED <<vdfError, objects>>
  <2>1. PICK b \in BlockRecords : b = Decide(Innermost, t)
                                  /\ b.object = Innermost.object /\ b.child = Innermost.child
    BY <1>4, <1>5, TokenIs, BlockFields
  <2>2. /\ BlockChain(Update(b), current) /\ Update(b) # <<>> /\ LastOf(Update(b)) = b
        /\ Children(Update(b)) = Children(blocks)
    BY <1>3, <2>1, BlockUpdated
  <2>3. expects' \in InsideEntry /\ expects' \notin BetweenEntries
    BY <1>5 DEF BetweenEntries, InsideEntry
  <2> QED BY <1>2, <1>3, <1>4, <1>5, <2>1, <2>2, <2>3, StaysWithin
<1>6. CASE TakeValue(t, objects, Innermost)
  BY <1>2, <1>3, <1>4, <1>6, ValueTaken
<1>7. CASE TakeValue(t, Drop(Innermost), Dropping(Innermost))
  <2>1. PICK b \in BlockRecords : b = Dropping(Innermost)
                                  /\ b.object = Innermost.object /\ b.child = Innermost.child
    BY <1>4, BlockFields
  <2>2. PICK objs : objs = Drop(Innermost)
    OBVIOUS
  <2>3. Forest(objs) /\ Tops(objs) = Tops(objects) /\ DOMAIN objs \subseteq DOMAIN objects
    BY <1>4, <2>2, ChildDropped
  <2>4. TakeValue(t, objs, b)
    BY <1>7, <2>1, <2>2
  <2> QED BY <1>2, <1>3, <2>1, <2>3, <2>4, ValueTaken
<1> QED BY <1>1, <1>5, <1>6, <1>7

LEMMA LookAheadInv == ASSUME VdfInv, LookAhead PROVE VdfInv'
<1>1. PICK t \in Upcoming :
        LET b == IF t.kind = "cond" THEN Decide(Innermost, t) ELSE Innermost
            told == IF t.kind = "cond" THEN Dropping(b) ELSE b
            left == IF t.kind = "cond" THEN Drop(b) ELSE objects
        IN /\ PeekToken(t)
           /\ AppendChild(left, b, vdfError \/ TooLong(t))
           /\ blocks' = Update(Done(left, told))
           /\ expects' = "name"
  BY DEF LookAhead
<1> DEFINE b == IF t.kind = "cond" THEN Decide(Innermost, t) ELSE Innermost
           told == IF t.kind = "cond" THEN Dropping(b) ELSE b
           left == IF t.kind = "cond" THEN Drop(b) ELSE objects
<1>2. /\ PeekToken(t) /\ AppendChild(left, b, vdfError \/ TooLong(t))
      /\ blocks' = Update(Done(left, told)) /\ expects' = "name"
  BY <1>1
<1>3. ahead' \in Tokens \cup {NoToken}
  BY <1>2, AheadStays DEF VdfInv
<1>4. expects \in InsideEntry /\ current' = current /\ freshObject' = freshObject
  BY DEF LookAhead, InsideEntry
<1>5. /\ current # 0 /\ Innermost \in BlockRecords /\ Innermost.object \in DOMAIN objects
      /\ Innermost.child \in Tops(objects) /\ Innermost.object < Innermost.child
      /\ Forest(objects) /\ vdfError \in BOOLEAN /\ VdfTypes
  BY <1>4, WithinBlock DEF VdfInv
<1>6. b \in BlockRecords /\ b.object = Innermost.object /\ b.child = Innermost.child
  <2>1. CASE t.kind = "cond"
    BY <1>5, <2>1, TokenIs, BlockFields
  <2>2. CASE t.kind # "cond"
    BY <1>5, <2>2
  <2> QED BY <2>1, <2>2
<1> HIDE DEF b
<1>7. told \in BlockRecords /\ told.object = Innermost.object /\ told.child = Innermost.child
  BY <1>6, BlockFields
<1>8. Forest(left) /\ Tops(left) = Tops(objects) /\ DOMAIN left \subseteq DOMAIN objects
  BY <1>5, <1>6, ChildDropped
<1> HIDE DEF told, left
<1>9. b.child \in Tops(left) /\ b.child \in DOMAIN left
  BY <1>5, <1>6, <1>8 DEF Tops
<1>10. b.object \in DOMAIN left
  <2>1. Innermost.object \in Nat /\ Innermost.object \in {current} \cup Children(blocks)
    BY <1>4, WithinBlock, ChainIs DEF LastOf
  <2>2. Innermost.object \in Tops(objects)
    BY <1>4, <2>1, WithinBlock
  <2> QED BY <1>6, <1>8, <2>2 DEF Tops
<1>11. PICK failed \in BOOLEAN : failed = (vdfError \/ TooLong(t))
  OBVIOUS
<1>12. /\ Forest(objects') /\ Tops(objects') = Tops(left) \ {b.child}
       /\ DOMAIN objects' \subseteq DOMAIN left /\ vdfError' \in BOOLEAN
  <2>1. AppendChild(left, b, failed)
    BY <1>2, <1>11
  <2>2. b.object < b.child
    BY <1>5, <1>6
  <2> QED BY <1>6, <1>8, <1>9, <1>10, <2>1, <2>2, ChildAppended
<1>13. PICK e \in BlockRecords : e = Done(left, told) /\ e.object = Innermost.object /\ e.child = 0
  BY <1>6, <1>7, <1>8, <1>9, BlockDone
<1>14. /\ BlockChain(Update(e), current) /\ Update(e) # <<>> /\ LastOf(Update(e)) = e
       /\ Tops(objects) \ {Innermost.child} = {Root} \cup {current} \cup Children(Update(e))
  BY <1>4, <1>13, BlockReleased
<1>15. expects' \in BetweenEntries /\ expects' \notin InsideEntry
  BY <1>2 DEF BetweenEntries, InsideEntry
<1>16. Tops(objects') = {Root} \cup {current} \cup Children(blocks')
  BY <1>2, <1>6, <1>8, <1>12, <1>13, <1>14
<1>17. blocks' = Update(e) /\ DOMAIN objects' \subseteq DOMAIN objects
  BY <1>2, <1>8, <1>12, <1>13
<1> QED BY <1>3, <1>4, <1>5, <1>12, <1>13, <1>14, <1>15, <1>16, <1>17, StaysWithin

LEMMA LeaveBlockInv == ASSUME VdfInv, LeaveBlock PROVE VdfInv'
<1>1. /\ expects = "leave" /\ freshObject' = freshObject /\ current' = current /\ ahead' = ahead
  BY DEF LeaveBlock, inputVars
<1>2. /\ blocks # <<>> /\ current # 0 /\ BlockChain(blocks, current) /\ Innermost = LastOf(blocks)
      /\ Innermost.child = 0 /\ Forest(objects)
      /\ Tops(objects) = {Root} \cup {current} \cup Children(blocks)
      /\ current \in Nat /\ vdfError \in BOOLEAN /\ VdfTypes
  BY <1>1, WithinBlock DEF BetweenEntries, VdfInv
<1>3. ahead' \in Tokens \cup {NoToken}
  BY <1>1, <1>2 DEF VdfTypes
<1>4. CASE Len(blocks) = 1
  <2>1. blocks' = <<>> /\ expects' = "entered" /\ vdfError' = vdfError /\ objects' = objects
    BY <1>4 DEF LeaveBlock
  <2>2. Children(blocks) = {}
    <3>1. DOMAIN blocks = 1..Len(blocks)
      BY <1>2, ChainIs
    <3>2. \A i \in DOMAIN blocks : blocks[i].child = 0
      BY <1>2, <1>4, <3>1 DEF LastOf
    <3> QED BY <3>2 DEF Children
  <2>3. freshObject' \in Nat /\ Root < freshObject' /\ DOMAIN objects' \subseteq 1..(freshObject' - 1)
    BY <1>1, <1>2, <2>1 DEF VdfTypes
  <2>4. Tops(objects') = {Root} \cup ({current'} \ {0})
    BY <1>1, <1>2, <2>1, <2>2
  <2> QED BY <1>1, <1>2, <1>3, <2>1, <2>3, <2>4, StaysOutside DEF OutsideBlock
<1>5. CASE Len(blocks) # 1
  <2>1. PICK outer : outer = blocks[Len(blocks) - 1]
    OBVIOUS
  <2>2. PICK bs : bs = SubSeq(blocks, 1, Len(blocks) - 1)
    OBVIOUS
  <2>3. /\ AppendChild(objects, outer, vdfError)
        /\ blocks' = [bs EXCEPT ![Len(blocks) - 1] = Done(objects, outer)]
        /\ expects' = "name"
    BY <1>5, <2>1, <2>2 DEF LeaveBlock
  <2>4. /\ BlockChain(bs, current) /\ bs # <<>> /\ Len(bs) = Len(blocks) - 1
        /\ LastOf(bs) = outer /\ outer.child # 0 /\ Children(bs) = Children(blocks)
    BY <1>2, <1>5, <2>1, <2>2, ChainPopped
  <2>5. /\ outer \in BlockRecords /\ outer.child \in Children(bs)
        /\ outer.object \in {current} \cup Children(bs) /\ outer.object < outer.child
        /\ outer.child \in Nat /\ current < outer.child
    <3>1. /\ Len(bs) \in DOMAIN bs
          /\ \A i \in DOMAIN bs : bs[i] \in BlockRecords
          /\ \A i \in DOMAIN bs : bs[i].child # 0 => bs[i].child \in Children(bs)
          /\ \A i \in DOMAIN bs : bs[i].object \in {current} \cup Children(bs)
          /\ \A c \in Children(bs) : c \in Nat /\ current < c
      BY <2>4, ChainIs
    <3>2. outer = bs[Len(bs)]
      BY <2>4 DEF LastOf
    <3>3. outer.object < outer.child
      BY <2>4, <3>1, <3>2 DEF BlockChain
    <3> QED BY <2>4, <3>1, <3>2, <3>3
  <2>6. outer.child \in Tops(objects) /\ outer.object \in Tops(objects)
    BY <1>2, <2>4, <2>5
  <2>7. outer.child \in DOMAIN objects /\ outer.object \in DOMAIN objects
    BY <2>6 DEF Tops
  <2>8. /\ Forest(objects') /\ Tops(objects') = Tops(objects) \ {outer.child}
        /\ DOMAIN objects' \subseteq DOMAIN objects /\ vdfError' \in BOOLEAN
    BY <1>2, <2>3, <2>5, <2>6, <2>7, ChildAppended
  <2>9. PICK e \in BlockRecords : e = Done(objects, outer) /\ e.object = outer.object /\ e.child = 0
    BY <1>2, <2>5, <2>7, BlockDone
  <2>10. blocks' = Relast(bs, e)
    BY <2>3, <2>4, <2>9 DEF Relast
  <2>11. /\ BlockChain(blocks', current) /\ blocks' # <<>> /\ LastOf(blocks') = e
         /\ Children(blocks') = (Children(bs) \ {LastOf(bs).child}) \cup ({e.child} \ {0})
    BY <2>4, <2>9, <2>10, ChainUpdated
  <2>12. Children(blocks') = Children(blocks) \ {outer.child}
    BY <2>4, <2>9, <2>11
  <2>13. outer.child # Root /\ outer.child # current
    BY <1>2, <2>5 DEF Root
  <2>14. Tops(objects') = {Root} \cup {current} \cup Children(blocks')
    BY <1>2, <2>8, <2>12, <2>13
  <2>15. expects' \in BetweenEntries /\ expects' \notin InsideEntry
    BY <2>3 DEF BetweenEntries, InsideEntry
  <2> QED BY <1>1, <1>2, <1>3, <2>8, <2>9, <2>11, <2>14, <2>15, StaysWithin
<1> QED BY <1>4, <1>5

\* The steps are all there are.
LEMMA TextStepHolds == VdfInv /\ [VdfNext]_vdfVars => VdfInv'
<1> SUFFICES ASSUME VdfInv, [VdfNext]_vdfVars PROVE VdfInv'
  OBVIOUS
<1>1. CASE UNCHANGED vdfVars
  BY <1>1 DEF vdfVars, inputVars, treeVars, VdfInv, VdfTypes, BlocksOpen, TreeInv, HeldObjects
<1> QED
  BY <1>1, ReadEntryInv, ReadIncludedInv, ReadBraceInv, EndEntryInv, FinishInv, ReadNameInv,
     ReadValueInv, ReadAssignedInv, LookAheadInv, LeaveBlockInv DEF VdfNext

\* vdf.c:340-583: for any names, conditionals, inputs and depth: in every state of the reader
\* the objects form a forest, where a child is younger than its parent and has one, and
\* those without a parent are what the caller, the entry and the open blocks hold.
THEOREM VdfInvAlways == VdfSpec => []VdfInv
<1>1. VdfInit => VdfInv
  BY TextBegins
<1>2. VdfInv /\ [VdfNext]_vdfVars => VdfInv'
  BY TextStepHolds
<1> QED BY <1>1, <1>2, PTL DEF VdfSpec

----------------------------------------------------------------------------
(* Vdf: who owns the objects.                                               *)

\* An object that is nobody's child has one holder.
LEMMA HeldOnce ==
  ASSUME VdfInv, NEW o \in Tops(objects)
  PROVE  \E w : Owners(o) = {w}
<1> DEFINE R == IF o = Root THEN {<<"root">>} ELSE {}
           E == IF o = current /\ o # Root THEN {<<"entry">>} ELSE {}
           I == {i \in DOMAIN blocks : blocks[i].child = o}
           C == {<<"child", i>> : i \in I}
           P == UNION {{<<p, i>> : i \in {i \in DOMAIN objects[p].children : objects[p].children[i] = o}} :
                          p \in DOMAIN objects}
<1>1. Owners(o) = R \cup E \cup C \cup P
  BY DEF Owners
<1>2. P = {}
  BY DEF Tops, IsChild, Kids
<1>3. o \in {Root} \cup ({current} \ {0}) \cup Children(blocks)
  BY DEF VdfInv, TreeInv, HeldObjects
<1>4. BlockChain(blocks, current) /\ current \in Nat
  BY DEF VdfInv, BlocksOpen, VdfTypes
<1>5. \A c \in Children(blocks) : c # Root /\ c # current
  <2> SUFFICES ASSUME NEW c \in Children(blocks) PROVE c # Root /\ c # current
    OBVIOUS
  <2>1. blocks # <<>>
    BY NoBlocks
  <2>2. current # 0 /\ c \in Nat /\ current < c
    BY <1>4, <2>1, ChainIs
  <2> QED BY <1>4, <2>2 DEF Root
<1>6. o # 0
  BY DEF Tops, VdfInv, TreeInv, Forest
<1>7. CASE o \in Children(blocks)
  <2>1. PICK i \in DOMAIN blocks : blocks[i].child = o
    BY <1>7 DEF Children
  <2>2. blocks # <<>>
    BY <1>7, NoBlocks
  <2>3. \A j \in DOMAIN blocks : blocks[j].child = o => j = i
    BY <1>4, <1>6, <2>1, <2>2, ChainIs
  <2>4. I = {i}
    BY <2>1, <2>3
  <2>5. R = {} /\ E = {} /\ C = {<<"child", i>>}
    BY <1>5, <1>7, <2>4
  <2> HIDE DEF R, E, C, P
  <2>6. Owners(o) = {<<"child", i>>}
    BY <1>1, <1>2, <2>5
  <2> QED BY <2>6
<1>8. CASE o \notin Children(blocks)
  <2>1. I = {}
    BY <1>6, <1>8 DEF Children
  <2>2. C = {}
    BY <2>1
  <2>3. CASE o = Root
    <3>1. R = {<<"root">>} /\ E = {}
      BY <2>3
    <3> HIDE DEF R, E, C, P
    <3>2. Owners(o) = {<<"root">>}
      BY <1>1, <1>2, <2>2, <3>1
    <3> QED BY <3>2
  <2>4. CASE o # Root
    <3>1. R = {} /\ E = {<<"entry">>}
      BY <1>3, <1>8, <2>4
    <3> HIDE DEF R, E, C, P
    <3>2. Owners(o) = {<<"entry">>}
      BY <1>1, <1>2, <2>2, <3>1
    <3> QED BY <3>2
  <2> QED BY <2>3, <2>4
<1> QED BY <1>7, <1>8

\* An object that is a child is so once, and nobody else holds it.
LEMMA ChildOnce ==
  ASSUME VdfInv, expects # "done" \/ ~vdfError, NEW o \in DOMAIN objects, o \notin Tops(objects)
  PROVE  \E w : Owners(o) = {w}
<1>1. PICK p \in DOMAIN objects : \E i \in Kids(objects, p) : objects[p].children[i] = o
  BY DEF Tops, IsChild
<1>2. PICK i \in Kids(objects, p) : objects[p].children[i] = o
  BY <1>1
<1>3. o # Root /\ (o = current => o = 0) /\ o \notin Children(blocks)
  BY DEF VdfInv, TreeInv, HeldObjects
<1>4. o # 0 /\ Forest(objects)
  BY DEF VdfInv, TreeInv, Forest
<1>5. \A q \in DOMAIN objects : \A j \in Kids(objects, q) : objects[q].children[j] = o => q = p
      /\ j = i
  BY <1>2, <1>4 DEF Forest
<1> DEFINE K(q) == {j \in DOMAIN objects[q].children : objects[q].children[j] = o}
           P == UNION {{<<q, j>> : j \in K(q)} : q \in DOMAIN objects}
           C == {<<"child", j>> : j \in {j \in DOMAIN blocks : blocks[j].child = o}}
<1>6. C = {}
  BY <1>3, <1>4 DEF Children
<1>7. \A q \in DOMAIN objects : K(q) = IF q = p THEN {i} ELSE {}
  BY <1>2, <1>5 DEF Kids
<1>8. P = {<<p, i>>}
  <2> HIDE DEF K
  <2> QED BY <1>7
<1>9. Owners(o) = (IF o = Root THEN {<<"root">>} ELSE {})
                   \cup (IF o = current /\ o # Root THEN {<<"entry">>} ELSE {}) \cup C \cup P
  BY DEF Owners
<1>10. Owners(o) = {<<p, i>>}
  <2> HIDE DEF C, P
  <2> QED BY <1>3, <1>4, <1>6, <1>8, <1>9
<1> QED BY <1>10

\* An object that was freed, or never was, has none.
LEMMA FreedNever ==
  ASSUME VdfInv, NEW o \in Nat \ {0}, o \notin DOMAIN objects
  PROVE  Owners(o) = IF o = Root THEN {<<"root">>} ELSE {}
<1>1. o \notin Tops(objects)
  BY DEF Tops
<1>2. (o = current => o = 0) /\ o \notin Children(blocks)
  BY <1>1 DEF VdfInv, TreeInv, HeldObjects
<1>3. \A p \in DOMAIN objects : \A i \in DOMAIN objects[p].children : objects[p].children[i] # o
  BY DEF VdfInv, TreeInv, Forest, Kids
<1> DEFINE P == UNION {{<<p, i>> : i \in {i \in DOMAIN objects[p].children : objects[p].children[i] = o}} :
                          p \in DOMAIN objects}
           C == {<<"child", j>> : j \in {j \in DOMAIN blocks : blocks[j].child = o}}
<1>4. P = {}
  BY <1>3
<1>5. C = {}
  BY <1>2 DEF Children
<1>6. Owners(o) = (IF o = Root THEN {<<"root">>} ELSE {})
                   \cup (IF o = current /\ o # Root THEN {<<"entry">>} ELSE {}) \cup C \cup P
  BY DEF Owners
<1> HIDE DEF C, P
<1> QED BY <1>2, <1>4, <1>5, <1>6

\* When the reader is done nothing is left but what is below the root.
LEMMA DoneIs ==
  ASSUME VdfInv, expects = "done"
  PROVE  DOMAIN objects = IF vdfError THEN {} ELSE Below(objects, Root)
<1>1. Forest(objects) /\ Tops(objects) = HeldObjects
  BY DEF VdfInv, TreeInv
<1>2. current = 0 /\ blocks = <<>>
  BY DEF VdfInv, BlocksOpen, OutsideBlock
<1>3. Tops(objects) = IF vdfError THEN {} ELSE {Root}
  BY <1>1, <1>2, NoBlocks DEF HeldObjects
<1>4. \A x \in DOMAIN objects : \E t \in Tops(objects) : x \in Below(objects, t)
  BY <1>1, BelowTops
<1>5. CASE vdfError
  BY <1>3, <1>4, <1>5
<1>6. CASE ~vdfError
  <2>1. DOMAIN objects \subseteq Below(objects, Root)
    BY <1>3, <1>4, <1>6
  <2>2. Below(objects, Root) \subseteq DOMAIN objects
    BY DEF Below
  <2> QED BY <1>6, <2>1, <2>2
<1> QED BY <1>5, <1>6

\* What is held, or is a child, is owned once; when the reader is done only the root is held.
LEMMA InvOwned == VdfInv => TreesAreOwned
<1> SUFFICES ASSUME VdfInv PROVE TreesAreOwned
  OBVIOUS
<1>1. expects # "done" => Root \in DOMAIN objects
  BY DEF VdfInv, TreeInv, HeldObjects, Tops
<1>2. ASSUME NEW o \in 1..(freshObject - 1)
      PROVE  Cardinality(Owners(o)) = IF o \in DOMAIN objects THEN 1 ELSE IF o = Root THEN 1 ELSE 0
  <2>1. o \in Nat \ {0}
    BY DEF VdfInv, VdfTypes
  <2>2. CASE o \in DOMAIN objects
    <3>1. expects # "done" \/ ~vdfError
      BY <2>2, DoneIs
    <3>2. PICK w : Owners(o) = {w}
      BY <2>2, <3>1, HeldOnce, ChildOnce
    <3> QED BY <2>2, <3>2, FS_Singleton
  <2>3. CASE o \notin DOMAIN objects
    <3>1. Owners(o) = IF o = Root THEN {<<"root">>} ELSE {}
      BY <2>1, <2>3, FreedNever
    <3> QED BY <2>3, <3>1, FS_Singleton, FS_EmptySet
  <2> QED BY <2>2, <2>3
<1>3. ObjectsAreOwnedOnce
  BY <1>1, <1>2 DEF ObjectsAreOwnedOnce
<1>4. NothingElseIsLeft
  BY DoneIs DEF NothingElseIsLeft
<1> QED BY <1>3, <1>4 DEF TreesAreOwned

\* vdf.c:340-583, for any names, conditionals, inputs and depth: wherever the text is
\* malformed and whichever object there is no memory for, every object that was read has
\* one owner until it is freed, a rejected text leaves none, and any other leaves the
\* first entry that is kept and what is in it.
THEOREM TreesAreAlwaysOwned == VdfSpec => []TreesAreOwned
<1>1. VdfInv => TreesAreOwned
  BY InvOwned
<1> QED BY <1>1, VdfInvAlways, PTL

============================================================================
