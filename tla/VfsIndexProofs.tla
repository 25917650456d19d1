--------------------------- MODULE VfsIndexProofs ---------------------------
(***************************************************************************)
(* Proofs about VfsIndex, for any threads, paths, packages, names and      *)
(* bounds.                                                                 *)
(*                                                                         *)
(* The lookup caches: a cached answer belongs to the present generation    *)
(* and is what the index says.  Entries change only while a package is     *)
(* added or the session ends.  The first happens before the index is       *)
(* frozen, and a generation other than 0 is only given to a frozen index;  *)
(* so no lookup that may cache its answer, and no cached answer, sees      *)
(* entries change.                                                         *)
(*                                                                         *)
(* The packages: the index and what it owns are whole halfway through a    *)
(* package and its undoing, entry numbers keep their names, shared decoded *)
(* files are of the present entries, and packages are applied as a whole   *)
(* or not at all, which is the refinement of OverrideMap.                  *)
(***************************************************************************)
EXTENDS VfsIndex, SequenceTheorems, TLAPS

Labels == {"idle", "cached", "search", "insert"}

\* The variables of the lookups are functions.
Functional ==
  /\ cache = [r \in Requests |-> cache[r]]
  /\ pc \in [Threads -> Labels]
  /\ request = [t \in Threads |-> request[t]]
  /\ seen = [t \in Threads |-> seen[t]]
  /\ result = [t \in Threads |-> result[t]]
  /\ sequence \in Nat

\* What is frozen stays: no package is being added to a frozen index, and
\* only a frozen index has a generation (vfs.c:428, 602).
FrozenInv ==
  /\ frozen => step = "idle"
  /\ generation # 0 => frozen

\* A lookup keeps the entries still; one that has seen a generation runs on a
\* frozen index, and holds the index's answer when it comes to cache it.
LookupInv ==
  \A t \in Threads :
    /\ pc[t] # "idle" => step = "idle" /\ request[t] \in Requests
    /\ pc[t] \in {"cached", "insert"} => seen[t] # 0
    /\ pc[t] # "idle" /\ seen[t] # 0 => frozen
    /\ pc[t] = "insert" => result[t] = Answer(request[t][1], NameOf[request[t][2]])

\* Lookups and caches together are inductive.
IInv == Functional /\ FrozenInv /\ LookupInv /\ CachesAreCurrent

-----------------------------------------------------------------------------
\* vfs_init: nothing is cached and nobody looks anything up.
LEMMA InitIInv == Init => IInv
  BY DEF Init, IInv, Functional, FrozenInv, LookupInv, CachesAreCurrent, Labels

\* While a package is added nothing is frozen, so nothing is cached and no
\* lookup runs (vfs.c:428).
LEMMA NothingCachedWhileLoading ==
  ASSUME IInv, step # "idle"
  PROVE  /\ ~frozen /\ generation = 0
         /\ \A r \in Requests : cache[r] = Absent
         /\ \A t \in Threads : pc[t] = "idle"
  BY DEF IInv, FrozenInv, LookupInv, CachesAreCurrent

\* Steps of adding a package (vfs_insert_package) preserve the invariant: they
\* leave the lookups and the caches alone, and there are none to contradict.
LEMMA LoadingStep ==
  ASSUME IInv, Loading
  PROVE  IInv'
<1>1. UNCHANGED <<cacheVars, callVars>>
  BY DEF Loading, AddPackage, Insert, InsertFails, Undo, GiveUp, Commit
<1>2. /\ ~frozen /\ generation = 0
      /\ \A t \in Threads : pc[t] = "idle"
  <2>1. CASE \E p \in Packages : AddPackage(p)
    BY <2>1 DEF AddPackage, NoLookup, IInv, FrozenInv
  <2>2. CASE Insert \/ InsertFails \/ Undo \/ GiveUp \/ Commit
    <3>1. step # "idle"
      BY <2>2 DEF Insert, InsertFails, Undo, GiveUp, Commit
    <3> QED BY <3>1, NothingCachedWhileLoading
  <2> QED BY <2>1, <2>2 DEF Loading
<1>3. \A r \in Requests : cache[r] = Absent
  BY <1>2 DEF IInv, CachesAreCurrent
<1>4. Functional'
  BY <1>1 DEF IInv, Functional, cacheVars, callVars
<1>5. FrozenInv' /\ LookupInv'
  BY <1>1, <1>2 DEF FrozenInv, LookupInv, cacheVars, callVars
<1>6. CachesAreCurrent'
  BY <1>1, <1>3 DEF CachesAreCurrent, cacheVars
<1> QED BY <1>4, <1>5, <1>6 DEF IInv

\* Opening a file changes decoded files only.
LEMMA OpenFileStep ==
  ASSUME IInv, NEW i \in Numbers, OpenFile(i)
  PROVE  IInv'
<1>1. UNCHANGED <<loadVars, cacheVars, callVars>>
  BY DEF OpenFile
<1>2. \A k, n : Answer(k, n)' = Answer(k, n)
  BY <1>1 DEF Answer, loadVars
<1>3. Functional' /\ FrozenInv'
  BY <1>1 DEF IInv, Functional, FrozenInv, loadVars, cacheVars, callVars
<1>4. LookupInv'
  BY <1>1, <1>2 DEF IInv, LookupInv, loadVars, cacheVars, callVars
<1>5. CachesAreCurrent'
  BY <1>1, <1>2 DEF IInv, CachesAreCurrent, cacheVars
<1> QED BY <1>3, <1>4, <1>5 DEF IInv

\* The steps of a lookup (vfs_lookup_domain, vfs_virtual_to_uid) preserve the
\* invariant; the one that caches its answer checks the generation again
\* (vfs.c:548) and holds what the index still says.
LEMMA CallStep ==
  ASSUME IInv, NEW t \in Threads, Calls(t)
  PROVE  IInv'
<1>1. UNCHANGED <<loadVars, frozen, generation, sequence>>
  BY DEF Calls, Lookup, LookInCache, Search, CacheAnswer, cacheVars
<1>2. \A k, n : Answer(k, n)' = Answer(k, n)
  BY <1>1 DEF Answer, loadVars
<1>3. FrozenInv'
  BY <1>1 DEF IInv, FrozenInv, loadVars
<1>4. Functional'
  BY <1>1 DEF IInv, Functional, Labels, Calls, Lookup, LookInCache, Search, CacheAnswer, Return,
              cacheVars
<1>5. LookupInv'
  <2>1. CASE \E r \in Requests : Lookup(t, r)
    BY <1>1, <1>2, <2>1 DEF IInv, Functional, FrozenInv, LookupInv, Lookup, loadVars, Labels
  <2>2. CASE LookInCache(t)
    BY <1>1, <1>2, <2>2 DEF IInv, Functional, LookupInv, LookInCache, Return, loadVars, Labels
  <2>3. CASE Search(t)
    BY <1>1, <1>2, <2>3 DEF IInv, Functional, LookupInv, Search, Return, loadVars, Labels
  <2>4. CASE CacheAnswer(t)
    <3>1. Return(t)
      BY <2>4 DEF CacheAnswer
    <3>2. \A u \in Threads :
            /\ pc'[u] = IF u = t THEN "idle" ELSE pc[u]
            /\ u # t => request'[u] = request[u] /\ seen'[u] = seen[u] /\ result'[u] = result[u]
      BY <3>1 DEF Return, IInv, Functional
    <3> QED BY <1>1, <1>2, <3>2 DEF IInv, LookupInv, loadVars
  <2> QED BY <2>1, <2>2, <2>3, <2>4 DEF Calls
<1>6. CachesAreCurrent'
  <2>1. CASE UNCHANGED cache
    BY <1>1, <1>2, <2>1 DEF IInv, CachesAreCurrent
  <2>2. CASE cache' # cache
    <3>1. /\ pc[t] = "insert" /\ generation = seen[t]
          /\ cache' = [cache EXCEPT ![request[t]] = [answer |-> result[t], from |-> seen[t]]]
      BY <2>2 DEF Calls, Lookup, LookInCache, Search, CacheAnswer, cacheVars
    <3>2. /\ seen[t] # 0 /\ request[t] \in Requests
          /\ result[t] = Answer(request[t][1], NameOf[request[t][2]])
      BY <3>1 DEF IInv, LookupInv
    <3>3. \A r \in Requests :
            cache'[r] = IF r = request[t] THEN [answer |-> result[t], from |-> seen[t]] ELSE cache[r]
      BY <3>1, <3>2 DEF IInv, Functional
    <3> QED BY <1>1, <1>2, <3>1, <3>2, <3>3 DEF IInv, CachesAreCurrent
  <2> QED BY <2>1, <2>2
<1> QED BY <1>3, <1>4, <1>5, <1>6 DEF IInv

\* vfs_begin_lookup_reset and vfs_reset_lookup_caches empty the caches; a
\* lookup that is under way keeps the generation it has seen.
LEMMA ResetStep ==
  ASSUME IInv, Freeze \/ BeginLookupReset \/ ResetLookupCaches
  PROVE  IInv'
<1>1. UNCHANGED <<loadVars, callVars>> /\ frozen' /\ step = "idle"
  BY DEF Freeze, BeginLookupReset, ResetLookupCaches, IInv, FrozenInv
<1>2. \A k, n : Answer(k, n)' = Answer(k, n)
  BY <1>1 DEF Answer, loadVars
<1>3. FrozenInv'
  BY <1>1 DEF FrozenInv, loadVars
<1>4. Functional'
  <2>1. sequence' \in Nat
    BY DEF IInv, Functional, Freeze, BeginLookupReset, ResetLookupCaches
  <2>2. cache' = [r \in Requests |-> cache'[r]]
    <3>1. CASE Freeze
      BY <3>1 DEF IInv, Functional, Freeze
    <3>2. CASE BeginLookupReset \/ ResetLookupCaches
      <4>1. cache' = [r \in Requests |-> Absent]
        BY <3>2 DEF BeginLookupReset, ResetLookupCaches
      <4> QED BY <4>1
    <3> QED BY <3>1, <3>2
  <2> QED BY <1>1, <2>1, <2>2 DEF IInv, Functional, callVars
<1>5. LookupInv'
  BY <1>1, <1>2 DEF IInv, LookupInv, loadVars, callVars
<1>6. CachesAreCurrent'
  <2>1. CASE Freeze
    BY <1>2, <2>1 DEF IInv, CachesAreCurrent, Freeze
  <2>2. CASE BeginLookupReset \/ ResetLookupCaches
    <3>1. \A r \in Requests : cache'[r] = Absent
      BY <2>2 DEF BeginLookupReset, ResetLookupCaches
    <3> QED BY <3>1 DEF CachesAreCurrent
  <2> QED BY <2>1, <2>2
<1> QED BY <1>3, <1>4, <1>5, <1>6 DEF IInv

\* vfs_uninit runs when no lookup does, and empties the caches.
LEMMA UninitStep ==
  ASSUME IInv, Uninit
  PROVE  IInv'
<1>1. \A r \in Requests : cache'[r] = Absent
  BY DEF Uninit
<1>2. CachesAreCurrent'
  BY <1>1 DEF CachesAreCurrent
<1>3. Functional' /\ FrozenInv' /\ LookupInv'
  BY DEF IInv, Functional, FrozenInv, LookupInv, Uninit, NoLookup, callVars
<1> QED BY <1>2, <1>3 DEF IInv

-----------------------------------------------------------------------------
\* The lookups, the caches and the index stay consistent: the inductive
\* invariant holds in every state.
THEOREM LookupsStayConsistent == Spec => []IInv
<1>1. Init => IInv
  BY InitIInv
<1>2. IInv /\ [Next]_vars => IInv'
  <2> SUFFICES ASSUME IInv, [Next]_vars PROVE IInv'
    OBVIOUS
  <2>1. CASE Loading
    BY <2>1, LoadingStep
  <2>2. CASE \E i \in Numbers : OpenFile(i)
    BY <2>2, OpenFileStep
  <2>3. CASE \E t \in Threads : Calls(t)
    BY <2>3, CallStep
  <2>4. CASE Freeze \/ BeginLookupReset \/ ResetLookupCaches
    BY <2>4, ResetStep
  <2>5. CASE Uninit
    BY <2>5, UninitStep
  <2>6. CASE UNCHANGED vars
    <3>1. \A k, n : Answer(k, n)' = Answer(k, n)
      BY <2>6 DEF Answer, vars, loadVars
    <3> QED BY <2>6, <3>1 DEF IInv, Functional, FrozenInv, LookupInv, CachesAreCurrent,
                 vars, loadVars, cacheVars, callVars
  <2> QED BY <2>1, <2>2, <2>3, <2>4, <2>5, <2>6 DEF Next
<1> QED BY <1>1, <1>2, PTL DEF Spec

\* A cached answer was computed in the present generation, however late the
\* lookup that began before a reset comes to cache it (vfs.c:548), and is what
\* the index says: nothing is added behind the caches (vfs.c:428).
THEOREM CachesAreAlwaysCurrent == Spec => []CachesAreCurrent
<1>1. IInv => CachesAreCurrent
  BY DEF IInv
<1> QED BY <1>1, LookupsStayConsistent, PTL

----------------------------------------------------------------------------
(* Packages.                                                                *)

EntryType == [key : Names, path : {None} \cup (Nat \X Nat), zip : {None} \cup Nat, file : Nat]
UndoRecord == [entry : EntryType \cup {None}, touched : Nat]

\* The types of the variables of loading, and where it stands.
LoadTypes ==
  /\ index \in [Names -> {None} \cup Nat]
  /\ entries \in Seq(EntryType)
  /\ heap \subseteq Nat \X Nat
  /\ zipPackages \in Seq(Nat)
  /\ decoded = [i \in Numbers |-> decoded[i]]
  /\ committed = [n \in Names |-> committed[n]]
  /\ load \in 0..MaxLoads
  /\ previous \in Seq(UndoRecord)
  /\ step \in {"idle", "insert", "undo"}
  /\ step = "idle" => previous = <<>>
  /\ step # "idle" => package \in Packages /\ load > 0 /\ Applied <= Len(Content[package])

\* Undo records that re-pointed an entry, or appended it.
Repoints(k) == previous[k].entry # None

FirstTouch(k) == \A j \in DOMAIN previous : j < k => previous[j].touched # previous[k].touched
LastTouch(k)  == \A j \in DOMAIN previous : j > k => previous[j].touched # previous[k].touched
Untouched(i)  == \A k \in DOMAIN previous : previous[k].touched # i

\* The undo records name the files applied so far, in order; new entries come after all
\* others, the last one last.
RecordsInv ==
  /\ \A k \in DOMAIN previous :
       /\ index[Content[package][k]] = previous[k].touched
       /\ Repoints(k) => previous[k].entry.key = Content[package][k]
       /\ ~Repoints(k) => FirstTouch(k)
  /\ \A k \in DOMAIN previous, i \in DOMAIN entries :
       ~Repoints(k) /\ i > previous[k].touched =>
         \E j \in DOMAIN previous : j > k /\ ~Repoints(j) /\ previous[j].touched = i

\* What the names led to is kept: by the entries that were not touched, and by the first
\* record of each that was.
CommittedInv ==
  /\ \A n \in Names : index[n] = None => committed[n] = None
  /\ step # "idle" =>
       /\ \A i \in DOMAIN entries : Untouched(i) =>
            File(entries[i]) = committed[entries[i].key] /\ entries[i].zip # load
       /\ \A k \in DOMAIN previous : FirstTouch(k) =>
            /\ ~Repoints(k) => committed[Content[package][k]] = None
            /\ Repoints(k) => /\ File(previous[k].entry) = committed[Content[package][k]]
                              /\ previous[k].entry.zip # load

\* A touched entry is the file that touched it last, and there is one.
AppliedInv ==
  step = "insert" => \A k \in DOMAIN previous :
    /\ LastTouch(k) => File(entries[previous[k].touched]) = <<load, k>>
    /\ \E j \in DOMAIN previous : LastTouch(j) /\ previous[j].touched = previous[k].touched

\* Paths of the file that comes next are not allocated yet.
FreshInv ==
  \A p \in heap : p[1] <= load /\ (step = "insert" /\ p[1] = load => p[2] <= Applied)

\* Undo records keep archives that are open, and the list is older than the package.
ArchivesInv ==
  /\ \A k \in DOMAIN previous :
       Repoints(k) /\ previous[k].entry.zip # None => previous[k].entry.zip \in archives
  /\ \A i \in DOMAIN zipPackages : zipPackages[i] <= load /\ (step # "idle" => zipPackages[i] < load)

\* Nothing is decoded while entries are re-pointed.
DecodedInv == step # "idle" /\ Content[package] # <<>> => \A i \in Numbers : decoded[i] = None

LoadInv ==
  /\ LoadTypes /\ RecordsInv /\ CommittedInv /\ AppliedInv /\ FreshInv /\ ArchivesInv /\ DecodedInv
  /\ IndexIsWhole /\ DecodedDataIsCurrent


-----------------------------------------------------------------------------
\* PathsAndArchivesAreOwned, owner by owner.
Keeps(k) == Repoints(k) /\ previous[k].entry.path # None
EntryPath(p) == \E i \in DOMAIN entries : entries[i].path # None /\ entries[i].path = p
UndoPath(p) == \E k \in DOMAIN previous : Keeps(k) /\ previous[k].entry.path = p

PathsOwned ==
  /\ \A p : p \in heap <=> EntryPath(p) \/ UndoPath(p)
  /\ \A i, j \in DOMAIN entries : entries[i].path # None /\ entries[i].path = entries[j].path => i = j
  /\ \A j, k \in DOMAIN previous :
       Keeps(j) /\ Keeps(k) /\ previous[j].entry.path = previous[k].entry.path => j = k
  /\ \A i \in DOMAIN entries, k \in DOMAIN previous :
       entries[i].path # None /\ Keeps(k) => entries[i].path # previous[k].entry.path

ArchivesOwned ==
  /\ \A i \in DOMAIN entries : entries[i].zip # None => entries[i].zip \in archives
  /\ archives = {zipPackages[i] : i \in DOMAIN zipPackages}
                \cup (IF step # "idle" /\ package \in IsZip THEN {load} ELSE {})

\* An entry and an undo record are different owners, and each is one of its number.
LEMMA OwnersOneByOne ==
  /\ \A p : p \in {Owned(o) : o \in Owners} <=> EntryPath(p) \/ UndoPath(p)
  /\ (\A o, q \in Owners : Owned(o) = Owned(q) => o = q)
       <=> /\ \A i, j \in DOMAIN entries :
                entries[i].path # None /\ entries[i].path = entries[j].path => i = j
           /\ \A j, k \in DOMAIN previous :
                Keeps(j) /\ Keeps(k) /\ previous[j].entry.path = previous[k].entry.path => j = k
           /\ \A i \in DOMAIN entries, k \in DOMAIN previous :
                entries[i].path # None /\ Keeps(k) => entries[i].path # previous[k].entry.path
<1>1. \A o : o \in Owners <=>
        \/ \E i \in DOMAIN entries : entries[i].path # None /\ o = <<"entry", i>>
        \/ \E k \in DOMAIN previous : Keeps(k) /\ o = <<"undo", k>>
  BY DEF Owners, Keeps, Repoints
<1>2. /\ \A i : Owned(<<"entry", i>>) = entries[i].path
      /\ \A k : Owned(<<"undo", k>>) = previous[k].entry.path
  BY DEF Owned
<1>3. \A p : p \in {Owned(o) : o \in Owners} <=> EntryPath(p) \/ UndoPath(p)
  <2> SUFFICES ASSUME NEW p
               PROVE  (\E o \in Owners : p = Owned(o)) <=> EntryPath(p) \/ UndoPath(p)
    OBVIOUS
  <2>1. ASSUME NEW o \in Owners, p = Owned(o) PROVE EntryPath(p) \/ UndoPath(p)
    <3>1. CASE \E i \in DOMAIN entries : entries[i].path # None /\ o = <<"entry", i>>
      BY <1>2, <2>1, <3>1 DEF EntryPath
    <3>2. CASE \E k \in DOMAIN previous : Keeps(k) /\ o = <<"undo", k>>
      BY <1>2, <2>1, <3>2 DEF UndoPath
    <3> QED BY <1>1, <3>1, <3>2
  <2>2. ASSUME EntryPath(p) PROVE \E o \in Owners : p = Owned(o)
    <3>1. PICK i \in DOMAIN entries : entries[i].path # None /\ entries[i].path = p
      BY <2>2 DEF EntryPath
    <3>2. <<"entry", i>> \in Owners /\ p = Owned(<<"entry", i>>)
      BY <1>1, <1>2, <3>1
    <3> QED BY <3>2
  <2>3. ASSUME UndoPath(p) PROVE \E o \in Owners : p = Owned(o)
    <3>1. PICK k \in DOMAIN previous : Keeps(k) /\ previous[k].entry.path = p
      BY <2>3 DEF UndoPath
    <3>2. <<"undo", k>> \in Owners /\ p = Owned(<<"undo", k>>)
      BY <1>1, <1>2, <3>1
    <3> QED BY <3>2
  <2> QED BY <2>1, <2>2, <2>3
<1>4. ASSUME \A o, q \in Owners : Owned(o) = Owned(q) => o = q
      PROVE  /\ \A i, j \in DOMAIN entries :
                  entries[i].path # None /\ entries[i].path = entries[j].path => i = j
             /\ \A j, k \in DOMAIN previous :
                  Keeps(j) /\ Keeps(k) /\ previous[j].entry.path = previous[k].entry.path => j = k
             /\ \A i \in DOMAIN entries, k \in DOMAIN previous :
                  entries[i].path # None /\ Keeps(k) => entries[i].path # previous[k].entry.path
  <2>1. ASSUME NEW i \in DOMAIN entries, NEW j \in DOMAIN entries,
               entries[i].path # None, entries[i].path = entries[j].path
        PROVE  i = j
    <3>1. <<"entry", i>> \in Owners /\ <<"entry", j>> \in Owners
      BY <1>1, <2>1
    <3>2. Owned(<<"entry", i>>) = Owned(<<"entry", j>>)
      BY <1>2, <2>1
    <3> QED BY <3>1, <3>2, <1>4
  <2>2. ASSUME NEW j \in DOMAIN previous, NEW k \in DOMAIN previous,
               Keeps(j), Keeps(k), previous[j].entry.path = previous[k].entry.path
        PROVE  j = k
    <3>1. <<"undo", j>> \in Owners /\ <<"undo", k>> \in Owners
      BY <1>1, <2>2
    <3>2. Owned(<<"undo", j>>) = Owned(<<"undo", k>>)
      BY <1>2, <2>2
    <3> QED BY <3>1, <3>2, <1>4
  <2>3. ASSUME NEW i \in DOMAIN entries, NEW k \in DOMAIN previous,
               entries[i].path # None, Keeps(k), entries[i].path = previous[k].entry.path
        PROVE  FALSE
    <3>1. <<"entry", i>> \in Owners /\ <<"undo", k>> \in Owners
      BY <1>1, <2>3
    <3>2. Owned(<<"entry", i>>) = Owned(<<"undo", k>>)
      BY <1>2, <2>3
    <3> QED BY <3>1, <3>2, <1>4
  <2> QED BY <2>1, <2>2, <2>3
<1>5. ASSUME \A i, j \in DOMAIN entries :
               entries[i].path # None /\ entries[i].path = entries[j].path => i = j,
             \A j, k \in DOMAIN previous :
               Keeps(j) /\ Keeps(k) /\ previous[j].entry.path = previous[k].entry.path => j = k,
             \A i \in DOMAIN entries, k \in DOMAIN previous :
               entries[i].path # None /\ Keeps(k) => entries[i].path # previous[k].entry.path,
             NEW o \in Owners, NEW q \in Owners, Owned(o) = Owned(q)
      PROVE  o = q
  BY <1>1, <1>2, <1>5 DEF Keeps
<1> QED BY <1>3, <1>4, <1>5

\* So the property is the two parts above, in this state and in the next.
LEMMA OwnershipInParts ==
  /\ PathsAndArchivesAreOwned <=> PathsOwned /\ ArchivesOwned
  /\ (PathsAndArchivesAreOwned <=> PathsOwned /\ ArchivesOwned)'
<1>1. PathsAndArchivesAreOwned <=> PathsOwned /\ ArchivesOwned
  BY OwnersOneByOne DEF PathsAndArchivesAreOwned, PathsOwned, ArchivesOwned
<1> QED BY <1>1, PTL

\* The sequences of loading, element by element.
LEMMA LoadFacts ==
  ASSUME LoadInv
  PROVE  /\ Len(entries) \in Nat /\ DOMAIN entries = 1..Len(entries)
         /\ \A i \in DOMAIN entries : entries[i] \in EntryType
         /\ Applied \in Nat /\ DOMAIN previous = 1..Applied
         /\ \A k \in DOMAIN previous :
              /\ previous[k] \in UndoRecord
              /\ Content[package][k] \in Names /\ k \in DOMAIN Content[package]
              /\ previous[k].touched \in DOMAIN entries
              /\ entries[previous[k].touched].key = Content[package][k]
              /\ previous[k].touched # None
         /\ step # "idle" => Content[package] \in Seq(Names) /\ package \in Packages
         /\ \A n \in Names : index[n] # None =>
              index[n] \in DOMAIN entries /\ entries[index[n]].key = n
         /\ \A i \in DOMAIN entries : index[entries[i].key] = i /\ i # None
         /\ load \in Nat
<1>1. /\ Len(entries) \in Nat /\ DOMAIN entries = 1..Len(entries)
      /\ \A i \in DOMAIN entries : entries[i] \in EntryType
      /\ Applied \in Nat /\ DOMAIN previous = 1..Applied
      /\ \A k \in DOMAIN previous :
           previous[k] \in UndoRecord
  <2>1. entries \in Seq(EntryType) /\ previous \in Seq(UndoRecord) /\ Applied = Len(previous)
    BY DEF LoadInv, LoadTypes, Applied
  <2>2. /\ Len(entries) \in Nat /\ DOMAIN entries = 1..Len(entries)
        /\ \A i \in DOMAIN entries : entries[i] \in EntryType
    BY <2>1
  <2>3. /\ Applied \in Nat /\ DOMAIN previous = 1..Applied
        /\ \A k \in DOMAIN previous : previous[k] \in UndoRecord
    BY <2>1
  <2> QED BY <2>2, <2>3
<1>2. step # "idle" => Content[package] \in Seq(Names) /\ package \in Packages
  BY ContentAssumption DEF LoadInv, LoadTypes
<1>3. load \in Nat
  BY BoundsAssumption DEF LoadInv, LoadTypes
<1>4. IndexAgreesWithEntries
  BY DEF LoadInv, IndexIsWhole
<1>5. ASSUME NEW k \in DOMAIN previous
      PROVE  /\ Content[package][k] \in Names /\ k \in DOMAIN Content[package]
             /\ index[Content[package][k]] = previous[k].touched
             /\ previous[k].touched # None /\ previous[k].touched \in Nat
  <2>1. step # "idle"
    BY <1>1, <1>5 DEF LoadInv, LoadTypes, Applied
  <2>2. k \in 1..Len(Content[package])
    BY <1>1, <1>2, <2>1 DEF LoadInv, LoadTypes
  <2>3. Content[package][k] \in Names /\ k \in DOMAIN Content[package]
    BY <1>2, <2>1, <2>2
  <2>4. previous[k].touched \in Nat
    BY <1>1, <1>5 DEF UndoRecord
  <2>5. None \notin Nat
    BY NoneAssumption
  <2> QED BY <2>3, <2>4, <2>5, <1>5 DEF LoadInv, RecordsInv
<1>6. \A i \in DOMAIN entries : i # None
  <2>1. None \notin Nat
    BY NoneAssumption
  <2> QED BY <1>1, <2>1
<1> QED BY <1>1, <1>2, <1>3, <1>4, <1>5, <1>6 DEF IndexAgreesWithEntries

-----------------------------------------------------------------------------
\* What a file leads to once it is applied: the path of the file itself, or
\* its archive and its number there.
LEMMA NewEntryFacts ==
  ASSUME NEW n \in Names, load \in Nat, Applied \in Nat
  PROVE  /\ NewEntry(n) \in EntryType /\ NewEntry(n) # None
         /\ NewEntry(n).key = n /\ File(NewEntry(n)) = <<load, Applied + 1>>
         /\ NewEntry(n).path = IF package \in IsZip THEN None ELSE <<load, Applied + 1>>
         /\ NewEntry(n).zip = IF package \in IsZip THEN load ELSE None
         /\ <<load, Applied + 1>> # None /\ load # None
<1>1. <<load, Applied + 1>> \in Nat \X Nat /\ <<load, Applied + 1>> # None /\ load # None
  <2>1. <<load, Applied + 1>> \in Nat \X Nat
    OBVIOUS
  <2> QED BY <2>1, NoneAssumption
<1>2. None \notin EntryType
  BY NoneAssumption DEF EntryType
<1>3. CASE package \in IsZip
  <2>1. NewEntry(n) = [key |-> n, path |-> None, zip |-> load, file |-> Applied + 1]
    BY <1>3 DEF NewEntry
  <2>2. NewEntry(n) \in EntryType
    BY <2>1 DEF EntryType
  <2>3. File(NewEntry(n)) = <<load, Applied + 1>>
    BY <2>1, <1>1 DEF File
  <2> QED BY <1>1, <1>2, <1>3, <2>1, <2>2, <2>3
<1>4. CASE package \notin IsZip
  <2>1. NewEntry(n) = [key |-> n, path |-> <<load, Applied + 1>>, zip |-> None, file |-> Applied + 1]
    BY <1>4 DEF NewEntry
  <2>2. NewEntry(n) \in EntryType
    BY <2>1, <1>1 DEF EntryType
  <2>3. File(NewEntry(n)) = <<load, Applied + 1>>
    BY <2>1 DEF File
  <2> QED BY <1>1, <1>2, <1>4, <2>1, <2>2, <2>3
<1> QED BY <1>3, <1>4

\* The next file is applied: the entry i of its name n, re-pointed or new, is
\* the file now, and the undo record that comes last names it.
Applies(n, i, old) ==
  /\ n = Content[package][Applied + 1] /\ Applied + 1 \in DOMAIN Content[package]
  /\ \/ index[n] = i /\ i \in DOMAIN entries /\ old = entries[i] /\ old # None
     \/ index[n] = None /\ i = Len(entries) + 1 /\ old = None
  /\ index' \in [Names -> {None} \cup Nat]
  /\ \A m \in Names : index'[m] = IF m = n THEN i ELSE index[m]
  /\ entries' \in Seq(EntryType) /\ DOMAIN entries' = DOMAIN entries \cup {i}
  /\ \A j \in DOMAIN entries' : entries'[j] = IF j = i THEN NewEntry(n) ELSE entries[j]
  /\ previous' \in Seq(UndoRecord)
  /\ Len(previous') = Applied + 1 /\ DOMAIN previous' = DOMAIN previous \cup {Applied + 1}
  /\ \A k \in DOMAIN previous : previous'[k] = previous[k]
  /\ previous'[Applied + 1] = [entry |-> old, touched |-> i]
  /\ heap' = heap \cup ({NewEntry(n).path} \ {None})

\* That is what vfs_insert does.
LEMMA InsertEffect ==
  ASSUME LoadInv, Insert
  PROVE  \E n \in Names, i \in Nat \ {0}, old \in EntryType \cup {None} : Applies(n, i, old)
<1> DEFINE n == Content[package][Applied + 1]
<1>1. /\ Content[package] \in Seq(Names) /\ Applied \in Nat /\ Applied < Len(Content[package])
      /\ Len(entries) \in Nat /\ DOMAIN entries = 1..Len(entries)
      /\ \A i \in DOMAIN entries : entries[i] \in EntryType
      /\ load \in Nat /\ step = "insert"
  BY LoadFacts DEF Insert
<1>2. n \in Names /\ Applied + 1 \in DOMAIN Content[package]
  BY <1>1
<1>3. NewEntry(n) \in EntryType
  BY <1>1, <1>2, NewEntryFacts
<1>4. /\ index \in [Names -> {None} \cup Nat] /\ entries \in Seq(EntryType)
      /\ previous \in Seq(UndoRecord) /\ Applied = Len(previous)
  BY DEF LoadInv, LoadTypes, Applied, UndoRecord
<1>5. None \notin EntryType
  BY NoneAssumption DEF EntryType
<1>6. heap' = heap \cup ({NewEntry(n).path} \ {None})
  BY DEF Insert
<1>7. ASSUME NEW i \in Nat \ {0}, NEW old \in EntryType \cup {None},
             previous' = Append(previous, [entry |-> old, touched |-> i])
      PROVE  /\ previous' \in Seq(UndoRecord)
             /\ Len(previous') = Applied + 1 /\ DOMAIN previous' = DOMAIN previous \cup {Applied + 1}
             /\ \A k \in DOMAIN previous : previous'[k] = previous[k]
             /\ previous'[Applied + 1] = [entry |-> old, touched |-> i]
  <2> DEFINE u == [entry |-> old, touched |-> i]
  <2>1. u \in UndoRecord
    BY DEF UndoRecord
  <2> HIDE DEF u
  <2>2. previous' = Append(previous, u)
    BY <1>7 DEF u
  <2>3. /\ previous' \in Seq(UndoRecord) /\ Len(previous') = Applied + 1
        /\ DOMAIN previous' = DOMAIN previous \cup {Applied + 1}
        /\ \A k \in DOMAIN previous : previous'[k] = previous[k]
        /\ previous'[Applied + 1] = u
    BY <2>1, <2>2, <1>4
  <2> QED BY <2>3 DEF u
<1>8. CASE index[n] # None
  <2>1. PICK i \in DOMAIN entries : i = index[n]
    BY <1>2, <1>8, LoadFacts
  <2>2. PICK old \in EntryType : old = entries[i]
    BY <1>1
  <2>3. i \in Nat \ {0} /\ old # None
    BY <1>1, <1>5
  <2>4. /\ entries' = [entries EXCEPT ![i] = NewEntry(n)] /\ UNCHANGED index
        /\ previous' = Append(previous, [entry |-> old, touched |-> i])
    BY <1>8, <2>1, <2>2 DEF Insert
  <2> HIDE DEF n
  <2>5. /\ entries' \in Seq(EntryType) /\ DOMAIN entries' = DOMAIN entries \cup {i}
        /\ \A j \in DOMAIN entries' : entries'[j] = IF j = i THEN NewEntry(n) ELSE entries[j]
    <3>1. /\ entries' \in Seq(EntryType) /\ DOMAIN entries' = DOMAIN entries
          /\ \A j \in DOMAIN entries : entries'[j] = IF j = i THEN NewEntry(n) ELSE entries[j]
      BY <1>3, <1>4, <2>4
    <3>2. DOMAIN entries = DOMAIN entries \cup {i}
      OBVIOUS
    <3> QED BY <3>1, <3>2
  <2>6. /\ index' \in [Names -> {None} \cup Nat]
        /\ \A m \in Names : index'[m] = IF m = n THEN i ELSE index[m]
    BY <1>4, <2>1, <2>4
  <2>7. /\ previous' \in Seq(UndoRecord)
        /\ Len(previous') = Applied + 1 /\ DOMAIN previous' = DOMAIN previous \cup {Applied + 1}
        /\ \A k \in DOMAIN previous : previous'[k] = previous[k]
        /\ previous'[Applied + 1] = [entry |-> old, touched |-> i]
    BY <1>7, <2>3, <2>4
  <2>8. n = Content[package][Applied + 1]
    BY DEF n
  <2>9. Applies(n, i, old)
    BY <1>2, <1>6, <2>1, <2>2, <2>3, <2>5, <2>6, <2>7, <2>8 DEF Applies
  <2> QED BY <1>2, <2>3, <2>9
<1>9. CASE index[n] = None
  <2>1. PICK i \in Nat \ {0} : i = Len(entries) + 1
    BY <1>1
  <2>2. /\ entries' = Append(entries, NewEntry(n)) /\ index' = [index EXCEPT ![n] = i]
        /\ previous' = Append(previous, [entry |-> None, touched |-> i])
    BY <1>9, <2>1 DEF Insert
  <2> HIDE DEF n
  <2>3. /\ entries' \in Seq(EntryType) /\ DOMAIN entries' = 1..i
        /\ entries'[i] = NewEntry(n)
        /\ \A j \in 1..Len(entries) : entries'[j] = entries[j]
    BY <1>3, <1>4, <2>1, <2>2
  <2>4. /\ DOMAIN entries' = DOMAIN entries \cup {i}
        /\ \A j \in DOMAIN entries' : entries'[j] = IF j = i THEN NewEntry(n) ELSE entries[j]
    BY <1>1, <2>1, <2>3
  <2>5. /\ index' \in [Names -> {None} \cup Nat]
        /\ \A m \in Names : index'[m] = IF m = n THEN i ELSE index[m]
    BY <1>2, <1>4, <2>2
  <2>6. /\ previous' \in Seq(UndoRecord)
        /\ Len(previous') = Applied + 1 /\ DOMAIN previous' = DOMAIN previous \cup {Applied + 1}
        /\ \A k \in DOMAIN previous : previous'[k] = previous[k]
        /\ previous'[Applied + 1] = [entry |-> None, touched |-> i]
    BY <1>7, <2>2
  <2>7. n = Content[package][Applied + 1]
    BY DEF n
  <2>8. Applies(n, i, None)
    BY <1>2, <1>6, <1>9, <2>1, <2>3, <2>4, <2>5, <2>6, <2>7 DEF Applies
  <2> QED BY <1>2, <2>8
<1> QED BY <1>8, <1>9

\* Applying a file preserves the invariant (vfs.c:172-229).
LEMMA InsertStep ==
  ASSUME LoadInv, Insert
  PROVE  LoadInv'
<1>a. PICK n \in Names, i \in Nat \ {0}, old \in EntryType \cup {None} : Applies(n, i, old)
  BY InsertEffect
<1>l. PICK last \in Nat : last = Applied + 1
  BY LoadFacts
<1>n. PICK new : new = NewEntry(n)
  OBVIOUS
<1>1. /\ n = Content[package][last] /\ last \in DOMAIN Content[package]
      /\ \/ index[n] = i /\ i \in DOMAIN entries /\ old = entries[i] /\ old # None
         \/ index[n] = None /\ i = Len(entries) + 1 /\ old = None
      /\ index' \in [Names -> {None} \cup Nat]
      /\ \A m \in Names : index'[m] = IF m = n THEN i ELSE index[m]
      /\ entries' \in Seq(EntryType) /\ DOMAIN entries' = DOMAIN entries \cup {i}
      /\ \A j \in DOMAIN entries' : entries'[j] = IF j = i THEN new ELSE entries[j]
      /\ previous' \in Seq(UndoRecord)
      /\ Len(previous') = last /\ DOMAIN previous' = DOMAIN previous \cup {last}
      /\ \A k \in DOMAIN previous : previous'[k] = previous[k]
      /\ previous'[last] = [entry |-> old, touched |-> i]
      /\ heap' = heap \cup ({new.path} \ {None})
  BY <1>a, <1>l, <1>n DEF Applies
<1>2. /\ step = "insert" /\ UNCHANGED <<archives, zipPackages, decoded, step, package, load, committed>>
      /\ package \in Packages /\ load \in Nat /\ load > 0
  BY LoadFacts DEF Insert, LoadInv, LoadTypes
<1>3. /\ Len(entries) \in Nat /\ DOMAIN entries = 1..Len(entries)
      /\ Applied \in Nat /\ DOMAIN previous = 1..Applied
      /\ last \notin DOMAIN previous /\ \A k \in DOMAIN previous : k \in Nat /\ k < last
  BY <1>l, LoadFacts
<1>4. /\ \A k \in DOMAIN previous :
           /\ previous[k] \in UndoRecord
           /\ Content[package][k] \in Names /\ previous[k].touched \in DOMAIN entries
           /\ entries[previous[k].touched].key = Content[package][k]
           /\ previous[k].touched # None
      /\ \A j \in DOMAIN entries : entries[j] \in EntryType
      /\ \A m \in Names : index[m] # None => index[m] \in DOMAIN entries /\ entries[index[m]].key = m
      /\ \A j \in DOMAIN entries : index[entries[j].key] = j /\ j # None
  BY LoadFacts
<1>5. /\ new \in EntryType /\ new # None /\ new.key = n /\ File(new) = <<load, last>>
      /\ new.path = IF package \in IsZip THEN None ELSE <<load, last>>
      /\ new.zip = IF package \in IsZip THEN load ELSE None
      /\ <<load, last>> # None /\ load # None
  BY <1>2, <1>3, <1>l, <1>n, NewEntryFacts
<1>6. i # None
  BY NoneAssumption
<1>7. /\ \A k \in DOMAIN previous : (Repoints(k)' <=> Repoints(k)) /\ (Keeps(k)' <=> Keeps(k))
      /\ Repoints(last)' <=> old # None
      /\ Keeps(last)' <=> old # None /\ old.path # None
  BY <1>1 DEF Repoints, Keeps
<1>8. /\ \A k \in DOMAIN previous : (FirstTouch(k)' <=> FirstTouch(k))
      /\ FirstTouch(last)' <=> Untouched(i)
  BY <1>1, <1>3 DEF FirstTouch, Untouched
<1>9. /\ \A k \in DOMAIN previous : (LastTouch(k)' <=> LastTouch(k) /\ previous[k].touched # i)
      /\ LastTouch(last)'
  BY <1>1, <1>3 DEF LastTouch
<1>10. \A j : (Untouched(j)' <=> Untouched(j) /\ j # i)
  BY <1>1, <1>3 DEF Untouched
<1>11. old # None => i \in DOMAIN entries /\ old = entries[i] /\ index[n] = i /\ old.key = n
  BY <1>1, <1>4
<1>12. old = None => i \notin DOMAIN entries /\ i = Len(entries) + 1 /\ index[n] = None
  BY <1>1, <1>3, <1>4
<1>13. /\ \A m \in Names : index'[m] = IF m = n THEN i ELSE index[m]
       /\ DOMAIN entries' = DOMAIN entries \cup {i}
       /\ \A j \in DOMAIN entries' : entries'[j] = IF j = i THEN new ELSE entries[j]
       /\ DOMAIN previous' = DOMAIN previous \cup {last}
       /\ \A k \in DOMAIN previous : previous'[k] = previous[k]
       /\ previous'[last] = [entry |-> old, touched |-> i]
       /\ heap' = heap \cup ({new.path} \ {None})
       /\ Applied' = last
       /\ n = Content[package][last]
  BY <1>1 DEF Applied
<1>14. LoadTypes'
  <2>1. heap' \subseteq Nat \X Nat
    <3>1. heap \subseteq Nat \X Nat
      BY DEF LoadInv, LoadTypes
    <3>2. new.path \in {None} \cup (Nat \X Nat)
      BY <1>5 DEF EntryType
    <3> QED BY <3>1, <3>2, <1>13
  <2>2. Applied' <= Len(Content[package])
    BY <1>1, <1>2, <1>3, <1>13, <1>l, ContentAssumption
  <2>3. LoadTypes
    BY DEF LoadInv
  <2> QED BY <1>1, <1>2, <2>1, <2>2, <2>3 DEF LoadTypes
<1>15. RecordsInv'
  <2>1. ASSUME NEW k \in DOMAIN previous
        PROVE  /\ index'[Content[package][k]] = previous'[k].touched
               /\ Repoints(k)' => previous'[k].entry.key = Content[package][k]
               /\ ~Repoints(k)' => FirstTouch(k)'
    <3>1. /\ index[Content[package][k]] = previous[k].touched
          /\ Repoints(k) => previous[k].entry.key = Content[package][k]
          /\ ~Repoints(k) => FirstTouch(k)
      BY DEF LoadInv, RecordsInv
    <3>2. index'[Content[package][k]] = previous[k].touched
      BY <3>1, <1>4, <1>11, <1>12, <1>13
    <3> QED BY <3>1, <3>2, <1>7, <1>8, <1>13
  <2>2. /\ index'[Content[package][last]] = previous'[last].touched
        /\ Repoints(last)' => previous'[last].entry.key = Content[package][last]
    BY <1>7, <1>11, <1>13
  <2>3. ~Repoints(last)' => FirstTouch(last)'
    <3>1. old = None => Untouched(i)
      BY <1>4, <1>12 DEF Untouched
    <3> QED BY <3>1, <1>7, <1>8
  <2>4. ASSUME NEW k \in DOMAIN previous', NEW j \in DOMAIN entries',
               ~Repoints(k)', j > previous'[k].touched
        PROVE  \E w \in DOMAIN previous' : w > k /\ ~Repoints(w)' /\ previous'[w].touched = j
    <3>1. CASE k = last
      BY <3>1, <2>4, <1>3, <1>7, <1>12, <1>13
    <3>2. CASE k # last /\ j \in DOMAIN entries
      <4>1. k \in DOMAIN previous /\ ~Repoints(k) /\ j > previous[k].touched
        BY <3>2, <2>4, <1>7, <1>13
      <4>2. PICK w \in DOMAIN previous : w > k /\ ~Repoints(w) /\ previous[w].touched = j
        BY <4>1, <3>2 DEF LoadInv, RecordsInv
      <4> QED BY <4>2, <1>7, <1>13
    <3>3. CASE k # last /\ j \notin DOMAIN entries
      <4>1. j = i /\ old = None /\ k \in DOMAIN previous
        BY <3>3, <2>4, <1>11, <1>13
      <4>2. last > k /\ ~Repoints(last)' /\ previous'[last].touched = j /\ last \in DOMAIN previous'
        BY <4>1, <1>3, <1>7, <1>13
      <4> QED BY <4>2
    <3> QED BY <3>1, <3>2, <3>3
  <2>5. \A k \in DOMAIN previous' :
          /\ index'[Content[package'][k]] = previous'[k].touched
          /\ Repoints(k)' => previous'[k].entry.key = Content[package'][k]
          /\ ~Repoints(k)' => FirstTouch(k)'
    BY <2>1, <2>2, <2>3, <1>2, <1>13
  <2> QED BY <2>4, <2>5 DEF RecordsInv
<1>16. CommittedInv'
  <2>1. /\ \A m \in Names : index[m] = None => committed[m] = None
        /\ \A j \in DOMAIN entries : Untouched(j) =>
             File(entries[j]) = committed[entries[j].key] /\ entries[j].zip # load
        /\ \A k \in DOMAIN previous : FirstTouch(k) =>
             /\ ~Repoints(k) => committed[Content[package][k]] = None
             /\ Repoints(k) => /\ File(previous[k].entry) = committed[Content[package][k]]
                               /\ previous[k].entry.zip # load
    BY <1>2 DEF LoadInv, CommittedInv
  <2>2. \A m \in Names : index'[m] = None => committed'[m] = None
    BY <2>1, <1>2, <1>6, <1>13
  <2>3. \A j \in DOMAIN entries' : Untouched(j)' =>
          File(entries'[j]) = committed'[entries'[j].key] /\ entries'[j].zip # load'
    BY <2>1, <1>2, <1>10, <1>13
  <2>4. \A k \in DOMAIN previous : FirstTouch(k)' =>
             /\ ~Repoints(k)' => committed[Content[package][k]] = None
             /\ Repoints(k)' => /\ File(previous'[k].entry) = committed[Content[package][k]]
                                /\ previous'[k].entry.zip # load
    BY <2>1, <1>7, <1>8, <1>13
  <2>5. Untouched(i) /\ old # None => File(old) = committed[n] /\ old.zip # load
    BY <2>1, <1>11
  <2>6. FirstTouch(last)' =>
             /\ ~Repoints(last)' => committed[Content[package][last]] = None
             /\ Repoints(last)' => /\ File(previous'[last].entry) = committed[Content[package][last]]
                                   /\ previous'[last].entry.zip # load
    BY <2>1, <2>5, <1>7, <1>8, <1>12, <1>13
  <2>7. \A k \in DOMAIN previous' : FirstTouch(k)' =>
             /\ ~Repoints(k)' => committed'[Content[package'][k]] = None
             /\ Repoints(k)' => /\ File(previous'[k].entry) = committed'[Content[package'][k]]
                                /\ previous'[k].entry.zip # load'
    BY <2>4, <2>6, <1>2, <1>13
  <2>8. \A e : File(e)' = File(e)
    BY DEF File
  <2> QED BY <2>2, <2>3, <2>7, <2>8 DEF CommittedInv
<1>17. AppliedInv'
  <2>1. \A k \in DOMAIN previous :
          /\ LastTouch(k) => File(entries[previous[k].touched]) = <<load, k>>
          /\ \E j \in DOMAIN previous : LastTouch(j) /\ previous[j].touched = previous[k].touched
    BY <1>2 DEF LoadInv, AppliedInv
  <2>2. ASSUME NEW k \in DOMAIN previous', LastTouch(k)'
        PROVE  File(entries'[previous'[k].touched]) = <<load', k>>
    <3>1. CASE k = last
      BY <3>1, <1>2, <1>5, <1>13
    <3>2. CASE k # last
      <4>1. k \in DOMAIN previous /\ LastTouch(k) /\ previous[k].touched # i
        BY <3>2, <2>2, <1>9, <1>13
      <4>2. previous[k].touched \in DOMAIN entries
        BY <4>1, <1>4
      <4> QED BY <4>1, <4>2, <2>1, <1>2, <1>13
    <3> QED BY <3>1, <3>2
  <2>3. ASSUME NEW k \in DOMAIN previous'
        PROVE  \E j \in DOMAIN previous' : LastTouch(j)' /\ previous'[j].touched = previous'[k].touched
    <3>1. CASE previous'[k].touched = i
      BY <3>1, <1>9, <1>13
    <3>2. CASE previous'[k].touched # i
      <4>1. k \in DOMAIN previous /\ previous'[k].touched = previous[k].touched
        BY <3>2, <1>13
      <4>2. PICK j \in DOMAIN previous : LastTouch(j) /\ previous[j].touched = previous[k].touched
        BY <4>1, <2>1
      <4> QED BY <4>1, <4>2, <3>2, <1>9, <1>13
    <3> QED BY <3>1, <3>2
  <2>4. \A e : File(e)' = File(e)
    BY DEF File
  <2> QED BY <2>2, <2>3, <2>4 DEF AppliedInv
<1>18. FreshInv'
  <2>1. \A p \in heap : p[1] <= load /\ (p[1] = load => p[2] <= Applied)
    BY <1>2 DEF LoadInv, FreshInv
  <2>2. heap \subseteq Nat \X Nat
    BY DEF LoadInv, LoadTypes
  <2>3. \A p \in heap' : p[1] <= load /\ (p[1] = load => p[2] <= last)
    <3> SUFFICES ASSUME NEW p \in heap' PROVE p[1] <= load /\ (p[1] = load => p[2] <= last)
      OBVIOUS
    <3>1. CASE p \in heap
      <4>1. p[1] <= load /\ (p[1] = load => p[2] <= Applied) /\ p[2] \in Nat
        BY <3>1, <2>1, <2>2
      <4> QED BY <4>1, <1>3, <1>l
    <3>2. CASE p = <<load, last>>
      BY <3>2, <1>2, <1>3, <1>l
    <3> QED BY <3>1, <3>2, <1>5, <1>13
  <2> QED BY <2>3, <1>2, <1>13 DEF FreshInv
<1>19. ArchivesInv' /\ ArchivesOwned'
  <2>1. /\ ArchivesInv /\ ArchivesOwned
    BY OwnershipInParts DEF LoadInv, IndexIsWhole
  <2>2. package \in IsZip => load \in archives
    BY <2>1, <1>2 DEF ArchivesOwned
  <2>3. \A j \in DOMAIN entries' : entries'[j].zip # None => entries'[j].zip \in archives
    BY <2>1, <2>2, <1>5, <1>13 DEF ArchivesOwned
  <2>4. \A k \in DOMAIN previous' :
          Repoints(k)' /\ previous'[k].entry.zip # None => previous'[k].entry.zip \in archives
    BY <2>1, <1>7, <1>11, <1>13 DEF ArchivesInv, ArchivesOwned
  <2> QED BY <2>1, <2>3, <2>4, <1>2 DEF ArchivesInv, ArchivesOwned
<1>20. /\ \A j \in Numbers : decoded[j] = None
       /\ DecodedInv' /\ DecodedDataIsCurrent'
  <2>1. Content[package] # <<>>
    BY <1>1
  <2>2. \A j \in Numbers : decoded[j] = None
    BY <2>1, <1>2 DEF LoadInv, DecodedInv
  <2> QED BY <2>2, <1>2 DEF DecodedInv, DecodedDataIsCurrent
<1>21. IndexAgreesWithEntries'
  <2>1. ASSUME NEW m \in Names, index'[m] # None
        PROVE  index'[m] \in DOMAIN entries' /\ entries'[index'[m]].key = m
    BY <2>1, <1>4, <1>5, <1>11, <1>12, <1>13
  <2>2. ASSUME NEW j \in DOMAIN entries'
        PROVE  index'[entries'[j].key] = j
    <3>1. CASE j = i
      BY <3>1, <1>5, <1>13
    <3>2. CASE j # i
      <4>1. j \in DOMAIN entries /\ entries'[j] = entries[j] /\ entries[j].key \in Names
        BY <3>2, <1>4, <1>13 DEF EntryType
      <4>2. index[entries[j].key] = j /\ j # None
        BY <4>1, <1>4
      <4>3. entries[j].key # n
        BY <4>2, <3>2, <1>11, <1>12
      <4> QED BY <4>1, <4>2, <4>3, <1>13
    <3> QED BY <3>1, <3>2
  <2> QED BY <2>1, <2>2 DEF IndexAgreesWithEntries
<1>22. PathsOwned'
  <2>1. PathsOwned
    BY OwnershipInParts DEF LoadInv, IndexIsWhole
  <2>2. new.path # None => new.path \notin heap
    <3>1. <<load, last>> \notin heap
      <4>1. \A p \in heap : p[1] = load => p[2] <= Applied
        BY <1>2 DEF LoadInv, FreshInv
      <4>2. ~(last <= Applied)
        BY <1>3, <1>l
      <4> QED BY <4>1, <4>2
    <3> QED BY <3>1, <1>5
  <2>3. /\ \A j \in DOMAIN entries : entries[j].path # None => entries[j].path \in heap
        /\ \A k \in DOMAIN previous : Keeps(k) => previous[k].entry.path \in heap
    BY <2>1 DEF PathsOwned, EntryPath, UndoPath
  <2>4. \A j \in DOMAIN entries' :
          \/ j = i /\ entries'[j].path = new.path
          \/ j # i /\ j \in DOMAIN entries /\ entries'[j].path = entries[j].path
    BY <1>13
  <2>5. \A k \in DOMAIN previous' : Keeps(k)' =>
          \/ /\ k = last /\ old # None /\ i \in DOMAIN entries
             /\ previous'[k].entry.path = entries[i].path /\ entries[i].path # None
          \/ k # last /\ k \in DOMAIN previous /\ Keeps(k) /\ previous'[k].entry.path = previous[k].entry.path
    BY <1>7, <1>11, <1>13
  <2>6. \A p : p \in heap' <=> EntryPath(p)' \/ UndoPath(p)'
    <3> SUFFICES ASSUME NEW p PROVE p \in heap' <=> EntryPath(p)' \/ UndoPath(p)'
      OBVIOUS
    <3>1. p \in heap => EntryPath(p)' \/ UndoPath(p)'
      <4>1. CASE UndoPath(p)
        BY <4>1, <1>7, <1>13 DEF UndoPath
      <4>2. CASE EntryPath(p)
        <5>1. PICK j \in DOMAIN entries : entries[j].path # None /\ entries[j].path = p
          BY <4>2 DEF EntryPath
        <5>2. CASE j = i
          <6>1. old # None /\ old = entries[i]
            BY <5>1, <5>2, <1>11, <1>12
          <6>2. Keeps(last)' /\ last \in DOMAIN previous' /\ previous'[last].entry.path = p
            BY <6>1, <5>1, <5>2, <1>7, <1>13
          <6> QED BY <6>2 DEF UndoPath
        <5>3. CASE j # i
          BY <5>1, <5>3, <1>13 DEF EntryPath
        <5> QED BY <5>2, <5>3
      <4> QED BY <4>1, <4>2, <2>1 DEF PathsOwned
    <3>2. p = new.path /\ p # None => EntryPath(p)'
      BY <1>13 DEF EntryPath
    <3>3. EntryPath(p)' => p \in heap'
      <4>1. EntryPath(p)' => \E j \in DOMAIN entries' : entries'[j].path # None /\ entries'[j].path = p
        BY DEF EntryPath
      <4> QED BY <4>1, <2>3, <2>4, <1>13
    <3>4. UndoPath(p)' => p \in heap'
      <4>1. UndoPath(p)' => \E k \in DOMAIN previous' : Keeps(k)' /\ previous'[k].entry.path = p
        BY DEF UndoPath
      <4> QED BY <4>1, <2>3, <2>5, <1>13
    <3> QED BY <3>1, <3>2, <3>3, <3>4, <1>13
  <2>7. \A j, k \in DOMAIN entries' :
          entries'[j].path # None /\ entries'[j].path = entries'[k].path => j = k
    BY <2>1, <2>2, <2>3, <2>4 DEF PathsOwned
  <2>8. \A j, k \in DOMAIN previous' :
          Keeps(j)' /\ Keeps(k)' /\ previous'[j].entry.path = previous'[k].entry.path => j = k
    BY <2>1, <2>5 DEF PathsOwned
  <2>9. \A j \in DOMAIN entries', k \in DOMAIN previous' :
          entries'[j].path # None /\ Keeps(k)' => entries'[j].path # previous'[k].entry.path
    BY <2>1, <2>2, <2>3, <2>4, <2>5 DEF PathsOwned
  <2> QED BY <2>6, <2>7, <2>8, <2>9 DEF PathsOwned
<1>23. IndexIsWhole'
  BY <1>19, <1>21, <1>22, OwnershipInParts DEF IndexIsWhole
<1> QED BY <1>14, <1>15, <1>16, <1>17, <1>18, <1>19, <1>20, <1>23 DEF LoadInv

-----------------------------------------------------------------------------
\* The last record is undone: it names the entry i of its name n; one that was
\* re-pointed gets its file back, a new one is the last entry and goes with its slot.
Undoes(n, i, old) ==
  /\ Applied \in DOMAIN previous /\ n = Content[package][Applied]
  /\ entries[i].key = n /\ index[n] = i
  /\ previous[Applied].touched = i /\ previous[Applied].entry = old
  /\ old # None => old.key = n
  /\ index' \in [Names -> {None} \cup Nat]
  /\ \A m \in Names : index'[m] = IF m = n /\ old = None THEN None ELSE index[m]
  /\ entries' \in Seq(EntryType)
  /\ DOMAIN entries' = IF old = None THEN DOMAIN entries \ {i} ELSE DOMAIN entries
  /\ \A j \in DOMAIN entries' : entries'[j] = IF j = i THEN old ELSE entries[j]
  /\ previous' \in Seq(UndoRecord)
  /\ Len(previous') = Applied - 1 /\ DOMAIN previous' = DOMAIN previous \ {Applied}
  /\ \A k \in DOMAIN previous' : previous'[k] = previous[k]
  /\ heap' = heap \ {entries[i].path}

\* That is what undoing a file does (vfs.c:322-347).
LEMMA UndoEffect ==
  ASSUME LoadInv, Undo
  PROVE  \E n \in Names, i \in DOMAIN entries, old \in EntryType \cup {None} : Undoes(n, i, old)
<1>1. /\ Len(entries) \in Nat /\ DOMAIN entries = 1..Len(entries)
      /\ \A j \in DOMAIN entries : entries[j] \in EntryType
      /\ Applied \in Nat /\ DOMAIN previous = 1..Applied
  BY LoadFacts
<1>2. /\ index \in [Names -> {None} \cup Nat] /\ entries \in Seq(EntryType)
      /\ previous \in Seq(UndoRecord) /\ Applied = Len(previous)
  BY DEF LoadInv, LoadTypes, Applied, UndoRecord
<1>3. PICK m \in DOMAIN previous : m = Applied
  <2>1. Applied # 0
    BY <1>2 DEF Undo
  <2> QED BY <2>1, <1>1
<1>4. PICK u \in UndoRecord : u = previous[m]
  BY <1>3, LoadFacts DEF UndoRecord
<1>5. PICK n \in Names : n = Content[package][m]
  BY <1>3, LoadFacts
<1>6. PICK i \in DOMAIN entries : i = u.touched /\ entries[i].key = n
  BY <1>3, <1>4, <1>5, LoadFacts
<1>7. PICK old \in EntryType \cup {None} : old = u.entry
  BY DEF UndoRecord
<1>8. index[n] = i /\ (old # None => old.key = n)
  BY <1>3, <1>4, <1>5, <1>6, <1>7 DEF LoadInv, RecordsInv, Repoints
<1>9. old = None => i = Len(entries)
  <2> SUFFICES ASSUME old = None, i # Len(entries) PROVE FALSE
    OBVIOUS
  <2>1. /\ Len(entries) \in DOMAIN entries /\ Len(entries) > previous[m].touched
        /\ ~Repoints(m)
    BY <1>1, <1>4, <1>6, <1>7 DEF Repoints
  <2>2. \E j \in DOMAIN previous : j > m
    BY <2>1, <1>3 DEF LoadInv, RecordsInv
  <2> QED BY <2>2, <1>1, <1>3
<1>10. /\ previous' \in Seq(UndoRecord)
       /\ Len(previous') = Applied - 1 /\ DOMAIN previous' = DOMAIN previous \ {Applied}
       /\ \A k \in DOMAIN previous' : previous'[k] = previous[k]
  <2>1. previous' = SubSeq(previous, 1, Applied - 1)
    BY DEF Undo
  <2>2. /\ previous' \in Seq(UndoRecord) /\ Len(previous') = Applied - 1
        /\ DOMAIN previous' = 1..Applied - 1 /\ \A k \in 1..Applied - 1 : previous'[k] = previous[k]
    BY <2>1, <1>1, <1>2, <1>3
  <2>3. 1..Applied - 1 = DOMAIN previous \ {Applied}
    BY <1>1
  <2> QED BY <2>2, <2>3
<1>11. heap' = heap \ {entries[i].path}
  BY <1>3, <1>4, <1>6 DEF Undo
<1>12. /\ entries' \in Seq(EntryType)
       /\ DOMAIN entries' = IF old = None THEN DOMAIN entries \ {i} ELSE DOMAIN entries
       /\ \A j \in DOMAIN entries' : entries'[j] = IF j = i THEN old ELSE entries[j]
       /\ index' \in [Names -> {None} \cup Nat]
       /\ \A k \in Names : index'[k] = IF k = n /\ old = None THEN None ELSE index[k]
  <2>1. CASE old # None
    <3>1. entries' = [entries EXCEPT ![i] = old] /\ UNCHANGED index
      BY <2>1, <1>3, <1>4, <1>6, <1>7 DEF Undo
    <3>2. old \in EntryType
      BY <2>1
    <3> QED BY <2>1, <3>1, <3>2, <1>2
  <2>2. CASE old = None
    <3>1. index' = [index EXCEPT ![n] = None] /\ entries' = SubSeq(entries, 1, Len(entries) - 1)
      BY <2>2, <1>3, <1>4, <1>6, <1>7 DEF Undo
    <3>2. /\ entries' \in Seq(EntryType) /\ DOMAIN entries' = 1..Len(entries) - 1
          /\ \A j \in 1..Len(entries) - 1 : entries'[j] = entries[j]
      BY <1>1, <1>2, <3>1
    <3>3. 1..Len(entries) - 1 = DOMAIN entries \ {i}
      BY <2>2, <1>1, <1>9
    <3>4. /\ index' \in [Names -> {None} \cup Nat]
          /\ \A k \in Names : index'[k] = IF k = n THEN None ELSE index[k]
      BY <1>2, <3>1
    <3> QED BY <2>2, <3>2, <3>3, <3>4
  <2> QED BY <2>1, <2>2
<1>13. Undoes(n, i, old)
  BY <1>3, <1>4, <1>5, <1>6, <1>7, <1>8, <1>10, <1>11, <1>12 DEF Undoes
<1> QED BY <1>13

\* Undoing a file preserves the invariant.
LEMMA UndoStep ==
  ASSUME LoadInv, Undo
  PROVE  LoadInv'
<1>a. PICK n \in Names, i \in DOMAIN entries, old \in EntryType \cup {None} : Undoes(n, i, old)
  BY UndoEffect
<1>l. PICK last \in Nat : last = Applied
  BY LoadFacts
<1>1. /\ last \in DOMAIN previous /\ n = Content[package][last]
      /\ entries[i].key = n /\ index[n] = i
      /\ previous[last].touched = i /\ previous[last].entry = old
      /\ old # None => old.key = n
      /\ index' \in [Names -> {None} \cup Nat]
      /\ \A m \in Names : index'[m] = IF m = n /\ old = None THEN None ELSE index[m]
      /\ entries' \in Seq(EntryType)
      /\ DOMAIN entries' = IF old = None THEN DOMAIN entries \ {i} ELSE DOMAIN entries
      /\ \A j \in DOMAIN entries' : entries'[j] = IF j = i THEN old ELSE entries[j]
      /\ previous' \in Seq(UndoRecord)
      /\ Len(previous') = last - 1 /\ DOMAIN previous' = DOMAIN previous \ {last}
      /\ \A k \in DOMAIN previous' : previous'[k] = previous[k]
      /\ heap' = heap \ {entries[i].path}
  BY <1>a, <1>l DEF Undoes
<1>2. /\ step = "undo" /\ UNCHANGED <<archives, zipPackages, decoded, step, package, load, committed>>
      /\ package \in Packages /\ load \in Nat
  BY LoadFacts DEF Undo
<1>3. /\ last \in Nat /\ DOMAIN previous = 1..last /\ last \in DOMAIN previous
      /\ \A k \in DOMAIN previous' : k \in DOMAIN previous /\ k \in Nat /\ k < last
      /\ \A j \in DOMAIN entries' : j \in DOMAIN entries /\ j \in Nat
  BY <1>1, <1>l, LoadFacts
<1>4. /\ \A k \in DOMAIN previous :
           /\ Content[package][k] \in Names /\ previous[k].touched \in DOMAIN entries
           /\ entries[previous[k].touched].key = Content[package][k]
      /\ \A j \in DOMAIN entries : entries[j] \in EntryType
      /\ \A m \in Names : index[m] # None => index[m] \in DOMAIN entries /\ entries[index[m]].key = m
      /\ \A j \in DOMAIN entries : index[entries[j].key] = j /\ j # None
  BY LoadFacts
<1>5. /\ Repoints(last) <=> old # None
      /\ Keeps(last) <=> old # None /\ old.path # None
  BY <1>1 DEF Repoints, Keeps
<1>6. \A k \in DOMAIN previous' : (Repoints(k)' <=> Repoints(k)) /\ (Keeps(k)' <=> Keeps(k))
  BY <1>1 DEF Repoints, Keeps
<1>7. \A k \in DOMAIN previous' : (FirstTouch(k)' <=> FirstTouch(k))
  BY <1>1, <1>3 DEF FirstTouch
<1>8. \A j : Untouched(j)' => Untouched(j) \/ (j = i /\ FirstTouch(last))
  BY <1>1, <1>3 DEF Untouched, FirstTouch
<1>9. \A k \in DOMAIN previous :
        /\ index[Content[package][k]] = previous[k].touched
        /\ Repoints(k) => previous[k].entry.key = Content[package][k]
        /\ ~Repoints(k) => FirstTouch(k)
  BY DEF LoadInv, RecordsInv
<1>10. old = None => FirstTouch(last)
  BY <1>3, <1>5, <1>9
<1>11. /\ Applied' = last - 1 /\ n = Content[package][last] /\ previous[last].touched = i
       /\ previous[last].entry = old /\ DOMAIN previous' = DOMAIN previous \ {last}
  BY <1>1 DEF Applied
<1>12. LoadTypes'
  <2>1. LoadTypes
    BY DEF LoadInv
  <2>2. Applied' <= Len(Content[package])
    <3>1. Applied <= Len(Content[package]) /\ Len(Content[package]) \in Nat
      BY <2>1, <1>2, ContentAssumption DEF LoadTypes
    <3> QED BY <3>1, <1>3, <1>11, <1>l
  <2> QED BY <1>1, <1>2, <2>1, <2>2 DEF LoadTypes
<1>13. RecordsInv'
  <2>1. ASSUME NEW k \in DOMAIN previous'
        PROVE  /\ index'[Content[package'][k]] = previous'[k].touched
               /\ Repoints(k)' => previous'[k].entry.key = Content[package'][k]
               /\ ~Repoints(k)' => FirstTouch(k)'
    <3>1. old = None => previous[k].touched # i
      BY <1>3, <1>10, <1>11 DEF FirstTouch
    <3>2. old = None => Content[package][k] # n
      BY <3>1, <1>1, <1>3, <1>9
    <3> QED BY <3>2, <1>1, <1>2, <1>3, <1>4, <1>6, <1>7, <1>9
  <2>2. ASSUME NEW k \in DOMAIN previous', NEW j \in DOMAIN entries',
               ~Repoints(k)', j > previous'[k].touched
        PROVE  \E w \in DOMAIN previous' : w > k /\ ~Repoints(w)' /\ previous'[w].touched = j
    <3>1. k \in DOMAIN previous /\ j \in DOMAIN entries /\ ~Repoints(k) /\ j > previous[k].touched
      BY <2>2, <1>1, <1>3, <1>6
    <3>2. PICK w \in DOMAIN previous : w > k /\ ~Repoints(w) /\ previous[w].touched = j
      BY <3>1 DEF LoadInv, RecordsInv
    <3>3. w # last
      <4>1. w = last => old = None /\ j = i
        BY <3>2, <1>5, <1>11
      <4> QED BY <4>1, <1>1
    <3> QED BY <3>2, <3>3, <1>1, <1>6, <1>11
  <2> QED BY <2>1, <2>2 DEF RecordsInv
<1>14. CommittedInv'
  <2>1. /\ \A m \in Names : index[m] = None => committed[m] = None
        /\ \A j \in DOMAIN entries : Untouched(j) =>
             File(entries[j]) = committed[entries[j].key] /\ entries[j].zip # load
        /\ \A k \in DOMAIN previous : FirstTouch(k) =>
             /\ ~Repoints(k) => committed[Content[package][k]] = None
             /\ Repoints(k) => /\ File(previous[k].entry) = committed[Content[package][k]]
                               /\ previous[k].entry.zip # load
    BY <1>2 DEF LoadInv, CommittedInv
  <2>2. /\ FirstTouch(last) /\ old = None => committed[n] = None
        /\ FirstTouch(last) /\ old # None => File(old) = committed[n] /\ old.zip # load
    BY <2>1, <1>3, <1>5, <1>11
  <2>3. \A m \in Names : index'[m] = None => committed'[m] = None
    BY <2>1, <2>2, <1>1, <1>2, <1>10
  <2>4. ASSUME NEW j \in DOMAIN entries', Untouched(j)'
        PROVE  File(entries'[j]) = committed'[entries'[j].key] /\ entries'[j].zip # load'
    <3>1. CASE j # i
      BY <3>1, <2>1, <2>4, <1>1, <1>2, <1>3, <1>8
    <3>2. CASE j = i
      <4>1. old # None /\ entries'[j] = old /\ old.key = n
        BY <3>2, <1>1
      <4>2. ~Untouched(i)
        BY <1>3, <1>11 DEF Untouched
      <4>3. FirstTouch(last)
        BY <3>2, <4>2, <2>4, <1>8
      <4> QED BY <4>1, <4>3, <2>2, <1>2
    <3> QED BY <3>1, <3>2
  <2>5. \A k \in DOMAIN previous' : FirstTouch(k)' =>
             /\ ~Repoints(k)' => committed'[Content[package'][k]] = None
             /\ Repoints(k)' => /\ File(previous'[k].entry) = committed'[Content[package'][k]]
                                /\ previous'[k].entry.zip # load'
    BY <2>1, <1>1, <1>2, <1>3, <1>6, <1>7
  <2>6. \A e : File(e)' = File(e)
    BY DEF File
  <2> QED BY <2>3, <2>4, <2>5, <2>6 DEF CommittedInv
<1>15. AppliedInv' /\ FreshInv'
  <2>1. \A p \in heap' : p[1] <= load
    BY <1>1 DEF LoadInv, FreshInv
  <2> QED BY <2>1, <1>2 DEF AppliedInv, FreshInv
<1>16. ArchivesInv' /\ ArchivesOwned'
  <2>1. ArchivesInv /\ ArchivesOwned
    BY OwnershipInParts DEF LoadInv, IndexIsWhole
  <2>2. old # None /\ old.zip # None => old.zip \in archives
    BY <2>1, <1>3, <1>5, <1>11 DEF ArchivesInv
  <2>3. \A j \in DOMAIN entries' : entries'[j].zip # None => entries'[j].zip \in archives
    <3> SUFFICES ASSUME NEW j \in DOMAIN entries', entries'[j].zip # None
                 PROVE  entries'[j].zip \in archives
      OBVIOUS
    <3>1. CASE j = i
      BY <3>1, <2>2, <1>1
    <3>2. CASE j # i
      BY <3>2, <2>1, <1>1, <1>3 DEF ArchivesOwned
    <3> QED BY <3>1, <3>2
  <2>4. \A k \in DOMAIN previous' :
          Repoints(k)' /\ previous'[k].entry.zip # None => previous'[k].entry.zip \in archives
    BY <2>1, <1>1, <1>3, <1>6 DEF ArchivesInv
  <2> QED BY <2>1, <2>3, <2>4, <1>2 DEF ArchivesInv, ArchivesOwned
<1>17. DecodedInv' /\ DecodedDataIsCurrent'
  <2>1. Content[package] # <<>>
    <3>1. last <= Len(Content[package]) /\ last > 0
      BY <1>2, <1>3, <1>l DEF LoadInv, LoadTypes
    <3> QED BY <3>1
  <2>2. \A j \in Numbers : decoded[j] = None
    BY <2>1, <1>2 DEF LoadInv, DecodedInv
  <2> QED BY <2>2, <1>2 DEF DecodedInv, DecodedDataIsCurrent
<1>18. IndexAgreesWithEntries'
  <2>1. ASSUME NEW m \in Names, index'[m] # None
        PROVE  index'[m] \in DOMAIN entries' /\ entries'[index'[m]].key = m
    <3>1. index'[m] = index[m] /\ (m = n => old # None)
      BY <2>1, <1>1
    <3>2. index[m] \in DOMAIN entries /\ entries[index[m]].key = m
      BY <3>1, <2>1, <1>4
    <3>3. index[m] = i <=> m = n
      BY <3>2, <1>1
    <3> QED BY <3>1, <3>2, <3>3, <1>1
  <2>2. ASSUME NEW j \in DOMAIN entries'
        PROVE  index'[entries'[j].key] = j
    <3>1. entries'[j].key = entries[j].key /\ j \in DOMAIN entries /\ (old = None => j # i)
      BY <1>1, <1>3
    <3>2. index[entries[j].key] = j /\ entries[j].key \in Names
      BY <3>1, <1>4 DEF EntryType
    <3>3. entries[j].key = n => old # None
      BY <3>1, <3>2, <1>1
    <3> QED BY <3>1, <3>2, <3>3, <1>1
  <2> QED BY <2>1, <2>2 DEF IndexAgreesWithEntries
<1>19. PathsOwned'
  <2>1. PathsOwned
    BY OwnershipInParts DEF LoadInv, IndexIsWhole
  <2>2. \A j \in DOMAIN entries' : entries'[j].path # None =>
          \/ j = i /\ old # None /\ Keeps(last) /\ entries'[j].path = previous[last].entry.path
          \/ j # i /\ j \in DOMAIN entries /\ entries'[j].path = entries[j].path
    BY <1>1, <1>3, <1>5, <1>11
  <2>3. \A k \in DOMAIN previous' :
          /\ k \in DOMAIN previous /\ k # last /\ (Keeps(k)' <=> Keeps(k))
          /\ previous'[k].entry.path = previous[k].entry.path
    BY <1>1, <1>6, <1>11
  <2>4. \A p : p \in heap' <=> EntryPath(p)' \/ UndoPath(p)'
    <3> SUFFICES ASSUME NEW p PROVE p \in heap' <=> EntryPath(p)' \/ UndoPath(p)'
      OBVIOUS
    <3>1. ASSUME p \in heap, p # entries[i].path PROVE EntryPath(p)' \/ UndoPath(p)'
      <4>1. CASE EntryPath(p)
        <5>1. PICK j \in DOMAIN entries : entries[j].path # None /\ entries[j].path = p
          BY <4>1 DEF EntryPath
        <5>2. j # i /\ j \in DOMAIN entries' /\ entries'[j] = entries[j]
          BY <5>1, <3>1, <1>1
        <5> QED BY <5>1, <5>2 DEF EntryPath
      <4>2. CASE UndoPath(p)
        <5>1. PICK k \in DOMAIN previous : Keeps(k) /\ previous[k].entry.path = p
          BY <4>2 DEF UndoPath
        <5>2. CASE k = last
          <6>1. old # None /\ old.path = p /\ p # None
            BY <5>1, <5>2, <1>5, <1>11
          <6>2. i \in DOMAIN entries' /\ entries'[i].path = p
            BY <6>1, <1>1
          <6> QED BY <6>1, <6>2 DEF EntryPath
        <5>3. CASE k # last
          <6>1. k \in DOMAIN previous'
            BY <5>3, <1>11
          <6> QED BY <6>1, <5>1, <2>3 DEF UndoPath
        <5> QED BY <5>2, <5>3
      <4> QED BY <4>1, <4>2, <3>1, <2>1 DEF PathsOwned
    <3>2. EntryPath(p)' => p \in heap /\ p # entries[i].path
      <4> SUFFICES ASSUME NEW j \in DOMAIN entries', entries'[j].path # None, entries'[j].path = p
                   PROVE  p \in heap /\ p # entries[i].path
        BY DEF EntryPath
      <4>1. CASE j = i
        <5>1. Keeps(last) /\ p = previous[last].entry.path /\ last \in DOMAIN previous
          BY <4>1, <2>2, <1>3
        <5>2. UndoPath(p)
          BY <5>1 DEF UndoPath
        <5>3. entries[i].path # None => entries[i].path # p
          BY <5>1, <2>1 DEF PathsOwned
        <5> QED BY <5>2, <5>3, <2>1 DEF PathsOwned
      <4>2. CASE j # i
        <5>1. j \in DOMAIN entries /\ p = entries[j].path
          BY <4>2, <2>2
        <5>2. EntryPath(p)
          BY <5>1 DEF EntryPath
        <5>3. p # entries[i].path
          BY <5>1, <4>2, <2>1 DEF PathsOwned
        <5> QED BY <5>2, <5>3, <2>1 DEF PathsOwned
      <4> QED BY <4>1, <4>2
    <3>3. UndoPath(p)' => p \in heap /\ p # entries[i].path
      <4> SUFFICES ASSUME NEW k \in DOMAIN previous', Keeps(k)', previous'[k].entry.path = p
                   PROVE  p \in heap /\ p # entries[i].path
        BY DEF UndoPath
      <4>1. k \in DOMAIN previous /\ Keeps(k) /\ previous[k].entry.path = p
        BY <2>3
      <4>2. UndoPath(p)
        BY <4>1 DEF UndoPath
      <4>3. p # None
        BY <4>1 DEF Keeps
      <4>4. entries[i].path # None => entries[i].path # p
        BY <4>1, <2>1 DEF PathsOwned
      <4> QED BY <4>2, <4>3, <4>4, <2>1 DEF PathsOwned
    <3> QED BY <3>1, <3>2, <3>3, <1>1
  <2>5. \A j, k \in DOMAIN entries' :
          entries'[j].path # None /\ entries'[j].path = entries'[k].path => j = k
    BY <2>1, <2>2, <1>3 DEF PathsOwned
  <2>6. \A j, k \in DOMAIN previous' :
          Keeps(j)' /\ Keeps(k)' /\ previous'[j].entry.path = previous'[k].entry.path => j = k
    BY <2>1, <2>3 DEF PathsOwned
  <2>7. \A j \in DOMAIN entries', k \in DOMAIN previous' :
          entries'[j].path # None /\ Keeps(k)' => entries'[j].path # previous'[k].entry.path
    BY <2>1, <2>2, <2>3, <1>3 DEF PathsOwned
  <2> QED BY <2>4, <2>5, <2>6, <2>7 DEF PathsOwned
<1>20. IndexIsWhole'
  BY <1>16, <1>18, <1>19, OwnershipInParts DEF IndexIsWhole
<1> QED BY <1>12, <1>13, <1>14, <1>15, <1>16, <1>17, <1>20 DEF LoadInv

-----------------------------------------------------------------------------
\* What the invariant rests on: none of it mentions the caches and the lookups.
LEMMA SameLoadInv ==
  ASSUME LoadInv, UNCHANGED <<loadVars, decoded>>
  PROVE  LoadInv'
<1>1. UNCHANGED <<index, entries, heap, archives, zipPackages, decoded, step, package, load,
                  previous, committed>>
  BY DEF loadVars
<1>2. /\ \A k : (Repoints(k)' <=> Repoints(k)) /\ (FirstTouch(k)' <=> FirstTouch(k))
      /\ \A k : (LastTouch(k)' <=> LastTouch(k)) /\ (Untouched(k)' <=> Untouched(k))
      /\ \A k : (Keeps(k)' <=> Keeps(k))
      /\ \A e : File(e)' = File(e)
      /\ \A p : (EntryPath(p)' <=> EntryPath(p)) /\ (UndoPath(p)' <=> UndoPath(p))
  BY <1>1 DEF Repoints, FirstTouch, LastTouch, Untouched, Keeps, File, EntryPath, UndoPath
<1>3. PathsOwned /\ ArchivesOwned
  BY OwnershipInParts DEF LoadInv, IndexIsWhole
<1>4. PathsOwned' /\ ArchivesOwned'
  BY <1>1, <1>2, <1>3 DEF PathsOwned, ArchivesOwned
<1>5. IndexIsWhole'
  BY <1>1, <1>4, OwnershipInParts DEF LoadInv, IndexIsWhole, IndexAgreesWithEntries
<1>6. LoadTypes' /\ RecordsInv' /\ CommittedInv'
  BY <1>1, <1>2 DEF LoadInv, LoadTypes, RecordsInv, CommittedInv, Applied
<1>7. AppliedInv' /\ FreshInv' /\ ArchivesInv' /\ DecodedInv' /\ DecodedDataIsCurrent'
  BY <1>1, <1>2 DEF LoadInv, AppliedInv, FreshInv, ArchivesInv, DecodedInv, DecodedDataIsCurrent, Applied
<1> QED BY <1>5, <1>6, <1>7 DEF LoadInv

\* Between packages there are no undo records, and the names lead where the
\* entries say.
LEMMA IdleFacts ==
  ASSUME LoadInv
  PROVE  /\ Current = [n \in Names |-> Current[n]]
         /\ \A n \in Names : Current[n] = IF index[n] = None THEN None ELSE File(entries[index[n]])
         /\ \A i \in DOMAIN entries :
              entries[i].key \in Names /\ Current[entries[i].key] = File(entries[i])
         /\ previous = <<>> =>
              /\ DOMAIN previous = {}
              /\ \A i \in DOMAIN entries : entries[i].path # None => entries[i].path \in heap
              /\ \A p \in heap : \E i \in DOMAIN entries : entries[i].path # None /\ entries[i].path = p
<1>1. Current = [n \in Names |-> Current[n]]
  BY DEF Current
<1>2. \A n \in Names : Current[n] = IF index[n] = None THEN None ELSE File(entries[index[n]])
  BY DEF Current
<1>3. \A i \in DOMAIN entries :
        entries[i].key \in Names /\ Current[entries[i].key] = File(entries[i])
  <2> SUFFICES ASSUME NEW i \in DOMAIN entries
               PROVE  entries[i].key \in Names /\ Current[entries[i].key] = File(entries[i])
    OBVIOUS
  <2>1. entries[i].key \in Names
    BY LoadFacts DEF EntryType
  <2>2. index[entries[i].key] = i /\ i # None
    BY LoadFacts
  <2> QED BY <2>1, <2>2, <1>2
<1>4. ASSUME previous = <<>>
      PROVE  /\ DOMAIN previous = {}
             /\ \A i \in DOMAIN entries : entries[i].path # None => entries[i].path \in heap
             /\ \A p \in heap : \E i \in DOMAIN entries : entries[i].path # None /\ entries[i].path = p
  <2>1. DOMAIN previous = {}
    BY <1>4
  <2>2. PathsOwned
    BY OwnershipInParts DEF LoadInv, IndexIsWhole
  <2> QED BY <2>1, <2>2 DEF PathsOwned, EntryPath, UndoPath
<1> QED BY <1>1, <1>2, <1>3, <1>4

\* vfs_add_package: the decoded files go before the first entry is re-pointed
\* (vfs.c:318-319).
LEMMA AddPackageStep ==
  ASSUME LoadInv, NEW p \in Packages, AddPackage(p)
  PROVE  LoadInv'
<1>1. /\ step = "idle" /\ step' = "insert" /\ load' = load + 1 /\ package' = p
      /\ previous = <<>> /\ previous' = <<>> /\ DOMAIN previous' = {} /\ Applied' = 0
      /\ UNCHANGED <<index, entries, heap, zipPackages>>
      /\ committed' = Current /\ load \in 0..MaxLoads /\ load < MaxLoads /\ load \in Nat
      /\ archives' = IF p \in IsZip THEN archives \cup {load + 1} ELSE archives
  BY LoadFacts DEF AddPackage, LoadInv, LoadTypes, Applied
<1>2. /\ Len(entries) \in Nat /\ DOMAIN entries = 1..Len(entries)
      /\ \A i \in DOMAIN entries : entries[i] \in EntryType /\ index[entries[i].key] = i /\ i # None
  BY LoadFacts
<1>3. \A i \in DOMAIN entries : entries[i].zip # None => entries[i].zip \in archives
  BY DEF LoadInv, IndexIsWhole, PathsAndArchivesAreOwned
<1>4. archives = {zipPackages[i] : i \in DOMAIN zipPackages}
  BY <1>1 DEF LoadInv, IndexIsWhole, PathsAndArchivesAreOwned
<1>5. \A i \in DOMAIN zipPackages : zipPackages[i] <= load /\ zipPackages[i] \in Nat
  <2>1. zipPackages \in Seq(Nat)
    BY DEF LoadInv, LoadTypes
  <2> QED BY <2>1 DEF LoadInv, ArchivesInv
<1>6. LoadTypes'
  <2>1. decoded' = [i \in Numbers |-> decoded'[i]]
    <3>1. CASE UNCHANGED decoded
      BY <3>1 DEF LoadInv, LoadTypes
    <3>2. CASE decoded' = [i \in Numbers |-> None]
      BY <3>2
    <3> QED BY <3>1, <3>2 DEF AddPackage, DropCaches
  <2>2. committed' = [n \in Names |-> committed'[n]]
    BY <1>1, IdleFacts
  <2>3. load' \in 0..MaxLoads /\ load' > 0
    BY <1>1, BoundsAssumption
  <2>4. Applied' <= Len(Content[package'])
    BY <1>1, ContentAssumption
  <2>5. previous' \in Seq(UndoRecord)
    BY <1>1
  <2> QED BY <1>1, <2>1, <2>2, <2>3, <2>4, <2>5 DEF LoadInv, LoadTypes
<1>7. RecordsInv' /\ AppliedInv'
  BY <1>1 DEF RecordsInv, AppliedInv
<1>8. CommittedInv'
  <2>1. \A n \in Names : index'[n] = None => committed'[n] = None
    BY <1>1, IdleFacts
  <2>2. \A i \in DOMAIN entries :
          File(entries[i]) = committed'[entries[i].key] /\ entries[i].zip # load'
    <3> SUFFICES ASSUME NEW i \in DOMAIN entries
                 PROVE  File(entries[i]) = committed'[entries[i].key] /\ entries[i].zip # load'
      OBVIOUS
    <3>1. File(entries[i]) = committed'[entries[i].key]
      BY <1>1, IdleFacts
    <3>2. entries[i].zip # None => \E j \in DOMAIN zipPackages : entries[i].zip = zipPackages[j]
      BY <1>3, <1>4
    <3>3. load' \in Nat /\ load' > load /\ None \notin Nat
      BY <1>1, NoneAssumption
    <3>4. \A j \in DOMAIN zipPackages : zipPackages[j] # load'
      BY <1>1, <1>5
    <3> QED BY <3>1, <3>2, <3>3, <3>4
  <2>3. \A e : File(e)' = File(e)
    BY DEF File
  <2> QED BY <1>1, <2>1, <2>2, <2>3 DEF CommittedInv
<1>9. FreshInv'
  <2>1. \A q \in heap : q[1] <= load /\ q[1] \in Nat
    BY DEF LoadInv, LoadTypes, FreshInv
  <2> QED BY <1>1, <2>1 DEF FreshInv
<1>10. ArchivesInv'
  BY <1>1, <1>5 DEF ArchivesInv
<1>11. DecodedInv' /\ DecodedDataIsCurrent'
  <2>1. CASE Content[p] = <<>>
    <3>1. UNCHANGED decoded
      BY <2>1 DEF AddPackage
    <3>2. \A e : File(e)' = File(e)
      BY DEF File
    <3> QED BY <1>1, <2>1, <3>1, <3>2 DEF LoadInv, DecodedInv, DecodedDataIsCurrent
  <2>2. CASE Content[p] # <<>>
    <3>1. \A i \in Numbers : decoded'[i] = None
      BY <2>2 DEF AddPackage, DropCaches
    <3> QED BY <3>1 DEF DecodedInv, DecodedDataIsCurrent
  <2> QED BY <2>1, <2>2
<1>12. IndexIsWhole'
  <2>1. PathsOwned /\ ArchivesOwned /\ IndexAgreesWithEntries
    BY OwnershipInParts DEF LoadInv, IndexIsWhole
  <2>2. DOMAIN previous = {}
    BY <1>1
  <2>3. \A q : (EntryPath(q)' <=> EntryPath(q)) /\ (UndoPath(q)' <=> UndoPath(q))
    BY <1>1, <2>2 DEF EntryPath, UndoPath
  <2>4. PathsOwned'
    BY <1>1, <2>1, <2>3 DEF PathsOwned
  <2>5. ArchivesOwned'
    BY <1>1, <1>3, <1>4 DEF ArchivesOwned
  <2> QED BY <1>1, <2>1, <2>4, <2>5, OwnershipInParts DEF IndexIsWhole, IndexAgreesWithEntries
<1> QED BY <1>6, <1>7, <1>8, <1>9, <1>10, <1>11, <1>12 DEF LoadInv

\* A file that cannot be applied leaves everything as it was.
LEMMA InsertFailsStep ==
  ASSUME LoadInv, InsertFails
  PROVE  LoadInv'
<1>1. /\ step = "insert" /\ step' = "undo"
      /\ UNCHANGED <<index, entries, heap, archives, zipPackages, decoded, package, load, previous,
                     committed>>
  BY DEF InsertFails
<1>2. /\ \A k : (Repoints(k)' <=> Repoints(k)) /\ (FirstTouch(k)' <=> FirstTouch(k))
      /\ \A k : (Untouched(k)' <=> Untouched(k)) /\ (Keeps(k)' <=> Keeps(k))
      /\ \A e : File(e)' = File(e)
      /\ \A p : (EntryPath(p)' <=> EntryPath(p)) /\ (UndoPath(p)' <=> UndoPath(p))
  BY <1>1 DEF Repoints, FirstTouch, Untouched, Keeps, File, EntryPath, UndoPath
<1>3. PathsOwned /\ ArchivesOwned
  BY OwnershipInParts DEF LoadInv, IndexIsWhole
<1>4. PathsOwned' /\ ArchivesOwned'
  BY <1>1, <1>2, <1>3 DEF PathsOwned, ArchivesOwned
<1>5. IndexIsWhole'
  BY <1>1, <1>4, OwnershipInParts DEF LoadInv, IndexIsWhole, IndexAgreesWithEntries
<1>6. LoadTypes' /\ RecordsInv' /\ CommittedInv'
  BY <1>1, <1>2 DEF LoadInv, LoadTypes, RecordsInv, CommittedInv, Applied
<1>7. AppliedInv' /\ FreshInv' /\ ArchivesInv' /\ DecodedInv' /\ DecodedDataIsCurrent'
  BY <1>1, <1>2 DEF LoadInv, AppliedInv, FreshInv, ArchivesInv, DecodedInv, DecodedDataIsCurrent, Applied
<1> QED BY <1>5, <1>6, <1>7 DEF LoadInv

\* Once everything is undone no entry reads from the archive that is closed, and the
\* names lead where they led before.
LEMMA GiveUpStep ==
  ASSUME LoadInv, GiveUp
  PROVE  LoadInv' /\ Current' = committed
<1>1. /\ step = "undo" /\ previous = <<>> /\ DOMAIN previous = {}
      /\ step' = "idle" /\ previous' = <<>> /\ DOMAIN previous' = {}
      /\ archives' = archives \ {load}
      /\ UNCHANGED <<index, entries, heap, zipPackages, decoded, load, committed>>
  BY DEF GiveUp, Leave
<1>2. PathsOwned /\ ArchivesOwned /\ IndexAgreesWithEntries
  BY OwnershipInParts DEF LoadInv, IndexIsWhole
<1>3. \A i \in DOMAIN entries :
        File(entries[i]) = committed[entries[i].key] /\ entries[i].zip # load
  BY <1>1 DEF LoadInv, CommittedInv, Untouched
<1>4. LoadTypes' /\ RecordsInv' /\ AppliedInv'
  BY <1>1 DEF LoadInv, LoadTypes, RecordsInv, AppliedInv
<1>5. CommittedInv' /\ FreshInv' /\ DecodedInv'
  BY <1>1 DEF LoadInv, CommittedInv, FreshInv, DecodedInv
<1>6. DecodedDataIsCurrent'
  <2>1. \A e : File(e)' = File(e)
    BY DEF File
  <2> QED BY <1>1, <2>1 DEF LoadInv, DecodedDataIsCurrent
<1>7. \A i \in DOMAIN zipPackages : zipPackages[i] \in Nat /\ zipPackages[i] < load
  <2>1. zipPackages \in Seq(Nat)
    BY DEF LoadInv, LoadTypes
  <2> QED BY <1>1, <2>1 DEF LoadInv, ArchivesInv
<1>8. ArchivesInv' /\ ArchivesOwned'
  <2>1. load \in Nat
    BY LoadFacts
  <2>2. archives' = {zipPackages[i] : i \in DOMAIN zipPackages}
    BY <1>1, <1>2, <1>7, <2>1 DEF ArchivesOwned
  <2>3. \A i \in DOMAIN entries : entries[i].zip # None => entries[i].zip \in archives'
    BY <1>1, <1>2, <1>3 DEF ArchivesOwned
  <2> QED BY <1>1, <1>7, <2>1, <2>2, <2>3 DEF ArchivesInv, ArchivesOwned
<1>9. PathsOwned'
  <2>1. \A p : (EntryPath(p)' <=> EntryPath(p)) /\ (UndoPath(p)' <=> UndoPath(p))
    BY <1>1 DEF EntryPath, UndoPath
  <2> QED BY <1>1, <1>2, <2>1 DEF PathsOwned
<1>10. LoadInv'
  BY <1>1, <1>2, <1>4, <1>5, <1>6, <1>8, <1>9, OwnershipInParts
     DEF LoadInv, IndexIsWhole, IndexAgreesWithEntries
<1>11. Current' = committed
  <2>1. Current' = Current
    BY <1>1 DEF Current, File
  <2>2. \A n \in Names : Current[n] = committed[n]
    <3> SUFFICES ASSUME NEW n \in Names PROVE Current[n] = committed[n]
      OBVIOUS
    <3>1. CASE index[n] = None
      BY <3>1, IdleFacts DEF LoadInv, CommittedInv
    <3>2. CASE index[n] # None
      <4>1. index[n] \in DOMAIN entries /\ entries[index[n]].key = n
        BY <3>2, LoadFacts
      <4> QED BY <3>2, <4>1, <1>3, IdleFacts
    <3> QED BY <3>1, <3>2
  <2>3. committed = [n \in Names |-> committed[n]]
    BY DEF LoadInv, LoadTypes
  <2>4. Current = [n \in Names |-> Current[n]]
    BY IdleFacts
  <2> QED BY <2>1, <2>2, <2>3, <2>4
<1> QED BY <1>10, <1>11

\* Commit frees what was replaced and keeps the rest: a name of the package leads
\* to the last of its files, any other where it led before.
LEMMA CommitStep ==
  ASSUME LoadInv, Commit
  PROVE  /\ LoadInv'
         /\ \A n \in Names : Current'[n] = IF Abstract!Files(package, n) = {} THEN committed[n]
                                           ELSE <<load, Abstract!Last(Abstract!Files(package, n))>>
<1>1. /\ step = "insert" /\ step' = "idle" /\ previous' = <<>> /\ DOMAIN previous' = {}
      /\ Applied = Len(Content[package]) /\ Content[package] \in Seq(Names)
      /\ package \in Packages /\ load \in Nat
      /\ zipPackages' = (IF package \in IsZip THEN <<load>> \o zipPackages ELSE zipPackages)
      /\ UNCHANGED <<index, entries, archives, decoded, load, committed>>
  BY LoadFacts DEF Commit, Leave
<1>2. /\ PathsOwned /\ ArchivesOwned /\ IndexAgreesWithEntries
      /\ zipPackages \in Seq(Nat) /\ heap \subseteq Nat \X Nat
  BY OwnershipInParts DEF LoadInv, IndexIsWhole, LoadTypes
<1>3. DOMAIN previous = DOMAIN Content[package]
  BY <1>1, LoadFacts
<1>4. /\ zipPackages' \in Seq(Nat)
      /\ {zipPackages'[i] : i \in DOMAIN zipPackages'}
           = {zipPackages[i] : i \in DOMAIN zipPackages}
             \cup (IF package \in IsZip THEN {load} ELSE {})
      /\ \A i \in DOMAIN zipPackages' : zipPackages'[i] <= load
  <2>1. \A i \in DOMAIN zipPackages : zipPackages[i] <= load
    BY DEF LoadInv, ArchivesInv
  <2>2. CASE package \notin IsZip
    BY <1>1, <1>2, <2>1, <2>2
  <2>3. CASE package \in IsZip
    <3>1. zipPackages' = <<load>> \o zipPackages
      BY <1>1, <2>3
    <3>2. /\ zipPackages' \in Seq(Nat) /\ Len(zipPackages) \in Nat
          /\ DOMAIN zipPackages = 1..Len(zipPackages)
          /\ DOMAIN zipPackages' = 1..Len(zipPackages) + 1
          /\ zipPackages'[1] = load
          /\ \A i \in 1..Len(zipPackages) : zipPackages'[i + 1] = zipPackages[i]
      BY <1>1, <1>2, <3>1
    <3>3. \A i \in DOMAIN zipPackages' :
            i = 1 \/ (i - 1 \in DOMAIN zipPackages /\ zipPackages'[i] = zipPackages[i - 1])
      BY <3>2
    <3>4. /\ 1 \in DOMAIN zipPackages'
          /\ \A i \in DOMAIN zipPackages : i + 1 \in DOMAIN zipPackages'
      BY <3>2
    <3>5. \A a : (\E i \in DOMAIN zipPackages' : a = zipPackages'[i])
                   <=> a = load \/ \E i \in DOMAIN zipPackages : a = zipPackages[i]
      BY <3>2, <3>3, <3>4
    <3>6. {zipPackages'[i] : i \in DOMAIN zipPackages'}
           = {zipPackages[i] : i \in DOMAIN zipPackages} \cup {load}
      BY <3>5
    <3>7. \A i \in DOMAIN zipPackages' : zipPackages'[i] <= load
      BY <1>1, <2>1, <3>2, <3>3
    <3> QED BY <2>3, <3>2, <3>6, <3>7
  <2> QED BY <2>2, <2>3
<1>5. LoadTypes' /\ RecordsInv' /\ CommittedInv' /\ AppliedInv'
  <2>1. heap' \subseteq Nat \X Nat
    BY <1>2 DEF Commit
  <2>2. \A n \in Names : index[n] = None => committed[n] = None
    BY DEF LoadInv, CommittedInv
  <2>3. previous' \in Seq(UndoRecord)
    BY <1>1
  <2> QED BY <1>1, <1>4, <2>1, <2>2, <2>3 DEF LoadInv, LoadTypes, RecordsInv, CommittedInv, AppliedInv
<1>6. FreshInv' /\ ArchivesInv' /\ DecodedInv'
  <2>1. \A p \in heap' : p \in heap
    BY DEF Commit
  <2> QED BY <1>1, <1>4, <2>1 DEF LoadInv, FreshInv, ArchivesInv, DecodedInv
<1>7. DecodedDataIsCurrent'
  <2>1. \A e : File(e)' = File(e)
    BY DEF File
  <2> QED BY <1>1, <2>1 DEF LoadInv, DecodedDataIsCurrent
<1>8. PathsOwned'
  <2>1. \A p : p \in heap' <=>
          p \in heap /\ ~\E k \in DOMAIN previous : Repoints(k) /\ previous[k].entry.path = p
    BY DEF Commit, Repoints
  <2>2. \A p : EntryPath(p)' <=> EntryPath(p)
    BY <1>1 DEF EntryPath
  <2>3. \A p : ~UndoPath(p)'
    BY <1>1 DEF UndoPath
  <2>4. \A p : p \in heap' <=> EntryPath(p)
    <3> SUFFICES ASSUME NEW p PROVE p \in heap' <=> EntryPath(p)
      OBVIOUS
    <3>1. ASSUME p \in heap' PROVE EntryPath(p)
      <4>1. ~UndoPath(p)
        BY <2>1, <3>1 DEF UndoPath, Keeps
      <4> QED BY <2>1, <3>1, <4>1, <1>2 DEF PathsOwned
    <3>2. ASSUME EntryPath(p) PROVE p \in heap'
      <4>1. PICK i \in DOMAIN entries : entries[i].path # None /\ entries[i].path = p
        BY <3>2 DEF EntryPath
      <4>2. p \in heap
        BY <3>2, <1>2 DEF PathsOwned
      <4>3. \A k \in DOMAIN previous : Repoints(k) => previous[k].entry.path # p
        BY <4>1, <1>2 DEF PathsOwned, Keeps
      <4> QED BY <4>2, <4>3, <2>1
    <3> QED BY <3>1, <3>2
  <2> QED BY <2>2, <2>3, <2>4, <1>1, <1>2 DEF PathsOwned
<1>9. ArchivesOwned'
  <2>1. archives' = {zipPackages'[i] : i \in DOMAIN zipPackages'}
    BY <1>1, <1>2, <1>4 DEF ArchivesOwned
  <2> QED BY <1>1, <1>2, <2>1 DEF ArchivesOwned
<1>10. LoadInv'
  BY <1>1, <1>2, <1>5, <1>6, <1>7, <1>8, <1>9, OwnershipInParts
     DEF LoadInv, IndexIsWhole, IndexAgreesWithEntries
<1>11. ASSUME NEW n \in Names
       PROVE  Current'[n] = IF Abstract!Files(package, n) = {} THEN committed[n]
                            ELSE <<load, Abstract!Last(Abstract!Files(package, n))>>
  <2>1. Current'[n] = Current[n]
    BY <1>1 DEF Current, File
  <2>2. \A k \in DOMAIN previous : k \in Abstract!Files(package, n) <=> Content[package][k] = n
    BY <1>3 DEF Abstract!Files
  <2>3. \A k : k \in Abstract!Files(package, n) => k \in DOMAIN previous /\ k \in Nat
    BY <1>1, <1>3 DEF Abstract!Files
  <2>4. \A k \in DOMAIN previous :
          /\ previous[k].touched \in DOMAIN entries
          /\ entries[previous[k].touched].key = Content[package][k]
          /\ index[Content[package][k]] = previous[k].touched /\ previous[k].touched # None
    BY LoadFacts DEF LoadInv, RecordsInv
  <2>5. CASE Abstract!Files(package, n) = {}
    <3>1. CASE index[n] = None
      BY <2>1, <2>5, <3>1, IdleFacts DEF LoadInv, CommittedInv
    <3>2. CASE index[n] # None
      <4>1. index[n] \in DOMAIN entries /\ entries[index[n]].key = n
        BY <3>2, LoadFacts
      <4>2. Untouched(index[n])
        BY <2>2, <2>4, <2>5, <4>1 DEF Untouched
      <4>3. File(entries[index[n]]) = committed[n]
        BY <4>1, <4>2, <1>1 DEF LoadInv, CommittedInv
      <4> QED BY <2>1, <2>5, <3>2, <4>3, IdleFacts
    <3> QED BY <3>1, <3>2
  <2>6. CASE Abstract!Files(package, n) # {}
    <3>1. PICK k \in DOMAIN previous : Content[package][k] = n
      BY <2>2, <2>3, <2>6
    <3>2. PICK j \in DOMAIN previous : LastTouch(j) /\ previous[j].touched = previous[k].touched
      BY <1>1 DEF LoadInv, AppliedInv
    <3>3. Content[package][j] = n /\ index[n] = previous[j].touched
      BY <2>4, <3>1, <3>2
    <3>4. File(entries[previous[j].touched]) = <<load, j>>
      BY <1>1, <3>2 DEF LoadInv, AppliedInv
    <3>5. j \in Abstract!Files(package, n) /\ \A i \in Abstract!Files(package, n) : i <= j
      <4> SUFFICES ASSUME NEW i \in Abstract!Files(package, n) PROVE i <= j
        BY <2>2, <3>3
      <4>1. i \in DOMAIN previous /\ i \in Nat /\ Content[package][i] = n /\ j \in Nat
        BY <2>2, <2>3, <3>3
      <4>2. previous[i].touched = previous[j].touched
        BY <2>4, <3>3, <4>1
      <4>3. ~(i > j)
        BY <3>2, <4>1, <4>2 DEF LastTouch
      <4> QED BY <4>1, <4>3
    <3>6. Abstract!Last(Abstract!Files(package, n)) = j
      <4>1. \A i \in Abstract!Files(package, n) :
              (\A q \in Abstract!Files(package, n) : q <= i) => i = j
        BY <2>3, <3>5
      <4> QED BY <3>5, <4>1 DEF Abstract!Last
    <3>7. Current[n] = <<load, j>>
      BY <2>4, <3>3, <3>4, IdleFacts
    <3> QED BY <2>1, <2>6, <3>6, <3>7
  <2> QED BY <2>5, <2>6
<1> QED BY <1>10, <1>11

\* vfs_file_open shares the decoded file of the entry, or decodes it (vfs_file.c).
LEMMA OpenFileKeepsLoadInv ==
  ASSUME LoadInv, NEW i \in Numbers, OpenFile(i)
  PROVE  LoadInv'
<1>1. /\ step = "idle" /\ i \in DOMAIN entries /\ UNCHANGED loadVars
      /\ decoded' = [decoded EXCEPT ![i] = IF @ = None THEN File(entries[i]) ELSE @]
  BY DEF OpenFile
<1>2. decoded = [j \in Numbers |-> decoded[j]]
  BY DEF LoadInv, LoadTypes
<1>3. \A j \in Numbers :
        decoded'[j] = IF j = i /\ decoded[i] = None THEN File(entries[i]) ELSE decoded[j]
  BY <1>1, <1>2
<1>4. decoded' = [j \in Numbers |-> decoded'[j]]
  BY <1>1, <1>2
<1>5. UNCHANGED <<index, entries, heap, archives, zipPackages, step, package, load, previous, committed>>
  BY <1>1 DEF loadVars
<1>6. /\ \A k : (Repoints(k)' <=> Repoints(k)) /\ (FirstTouch(k)' <=> FirstTouch(k))
      /\ \A k : (LastTouch(k)' <=> LastTouch(k)) /\ (Untouched(k)' <=> Untouched(k))
      /\ \A k : (Keeps(k)' <=> Keeps(k))
      /\ \A e : File(e)' = File(e)
      /\ \A p : (EntryPath(p)' <=> EntryPath(p)) /\ (UndoPath(p)' <=> UndoPath(p))
  BY <1>5 DEF Repoints, FirstTouch, LastTouch, Untouched, Keeps, File, EntryPath, UndoPath
<1>7. PathsOwned' /\ ArchivesOwned'
  <2>1. PathsOwned /\ ArchivesOwned
    BY OwnershipInParts DEF LoadInv, IndexIsWhole
  <2> QED BY <1>5, <1>6, <2>1 DEF PathsOwned, ArchivesOwned
<1>8. IndexIsWhole'
  BY <1>5, <1>7, OwnershipInParts DEF LoadInv, IndexIsWhole, IndexAgreesWithEntries
<1>9. LoadTypes' /\ RecordsInv' /\ CommittedInv'
  BY <1>4, <1>5, <1>6 DEF LoadInv, LoadTypes, RecordsInv, CommittedInv, Applied
<1>10. AppliedInv' /\ FreshInv' /\ ArchivesInv' /\ DecodedInv'
  BY <1>1, <1>5, <1>6 DEF LoadInv, AppliedInv, FreshInv, ArchivesInv, DecodedInv, Applied
<1>11. DecodedDataIsCurrent'
  BY <1>1, <1>3, <1>5, <1>6 DEF LoadInv, DecodedDataIsCurrent
<1> QED BY <1>8, <1>9, <1>10, <1>11 DEF LoadInv

\* vfs_uninit frees what the entries own and closes the archives of the list: nothing
\* else is allocated or open then.
LEMMA UninitEndsLoading ==
  ASSUME LoadInv, Uninit
  PROVE  LoadInv' /\ Current' = [n \in Names |-> None]
<1>1. /\ step = "idle" /\ step' = "idle" /\ package' = package
      /\ previous = <<>> /\ previous' = <<>> /\ DOMAIN previous' = {}
      /\ index' = [n \in Names |-> None] /\ entries' = <<>> /\ DOMAIN entries' = {}
      /\ zipPackages' = <<>> /\ DOMAIN zipPackages' = {}
      /\ load' = 0 /\ committed' = [n \in Names |-> None]
      /\ decoded' = [i \in Numbers |-> None]
  BY DEF Uninit, DropCaches, LoadInv, LoadTypes
<1>2. heap' = {}
  <2>1. \A p \in heap : \E i \in DOMAIN entries : entries[i].path = p
    BY <1>1, IdleFacts
  <2> QED BY <2>1 DEF Uninit
<1>3. archives' = {}
  <2>1. archives = {zipPackages[i] : i \in DOMAIN zipPackages}
    BY <1>1 DEF LoadInv, IndexIsWhole, PathsAndArchivesAreOwned
  <2> QED BY <2>1 DEF Uninit
<1>4. LoadTypes'
  <2>1. index' \in [Names -> {None} \cup Nat]
    BY <1>1
  <2>2. load' \in 0..MaxLoads
    BY <1>1, BoundsAssumption
  <2>3. entries' \in Seq(EntryType) /\ zipPackages' \in Seq(Nat) /\ previous' \in Seq(UndoRecord)
    BY <1>1
  <2>4. /\ committed' = [n \in Names |-> committed'[n]]
        /\ decoded' = [i \in Numbers |-> decoded'[i]]
    BY <1>1
  <2> QED BY <1>1, <1>2, <2>1, <2>2, <2>3, <2>4 DEF LoadTypes
<1>5. RecordsInv' /\ CommittedInv' /\ AppliedInv' /\ FreshInv' /\ ArchivesInv' /\ DecodedInv'
  BY <1>1, <1>2 DEF RecordsInv, CommittedInv, AppliedInv, FreshInv, ArchivesInv, DecodedInv
<1>6. IndexAgreesWithEntries' /\ DecodedDataIsCurrent'
  BY <1>1 DEF IndexAgreesWithEntries, DecodedDataIsCurrent
<1>7. PathsOwned' /\ ArchivesOwned'
  BY <1>1, <1>2, <1>3 DEF PathsOwned, ArchivesOwned, EntryPath, UndoPath
<1>8. Current' = [n \in Names |-> None]
  BY <1>1 DEF Current
<1> QED BY <1>4, <1>5, <1>6, <1>7, <1>8, OwnershipInParts DEF LoadInv, IndexIsWhole

-----------------------------------------------------------------------------
\* vfs_init: there are no names, entries, paths or archives.
LEMMA InitLoadInv == Init => LoadInv
<1> SUFFICES ASSUME Init PROVE LoadInv
  OBVIOUS
<1>1. /\ index = [n \in Names |-> None] /\ entries = <<>> /\ DOMAIN entries = {} /\ heap = {}
      /\ archives = {} /\ zipPackages = <<>> /\ DOMAIN zipPackages = {}
      /\ decoded = [i \in Numbers |-> None] /\ committed = [n \in Names |-> None]
      /\ step = "idle" /\ load = 0 /\ previous = <<>> /\ DOMAIN previous = {}
  BY DEF Init
<1>2. LoadTypes
  <2>1. index \in [Names -> {None} \cup Nat]
    BY <1>1
  <2>2. load \in 0..MaxLoads
    BY <1>1, BoundsAssumption
  <2>3. entries \in Seq(EntryType) /\ zipPackages \in Seq(Nat) /\ previous \in Seq(UndoRecord)
    BY <1>1
  <2>4. /\ committed = [n \in Names |-> committed[n]]
        /\ decoded = [i \in Numbers |-> decoded[i]]
    BY <1>1
  <2> QED BY <1>1, <2>1, <2>2, <2>3, <2>4 DEF LoadTypes
<1>3. RecordsInv /\ CommittedInv /\ AppliedInv /\ FreshInv /\ ArchivesInv /\ DecodedInv
  BY <1>1 DEF RecordsInv, CommittedInv, AppliedInv, FreshInv, ArchivesInv, DecodedInv
<1>4. IndexAgreesWithEntries /\ DecodedDataIsCurrent
  BY <1>1 DEF IndexAgreesWithEntries, DecodedDataIsCurrent
<1>5. PathsOwned /\ ArchivesOwned
  BY <1>1 DEF PathsOwned, ArchivesOwned, EntryPath, UndoPath
<1> QED BY <1>2, <1>3, <1>4, <1>5, OwnershipInParts DEF LoadInv, IndexIsWhole

\* Lookups and resets of the caches leave the packages alone.
LEMMA CachesKeepPackages ==
  ASSUME (\E t \in Threads : Calls(t)) \/ Freeze \/ BeginLookupReset \/ ResetLookupCaches
  PROVE  UNCHANGED <<loadVars, decoded>>
BY DEF Calls, Lookup, LookInCache, Search, CacheAnswer, Freeze, BeginLookupReset, ResetLookupCaches

\* Every step preserves the invariant.
LEMMA NextLoadInv == LoadInv /\ [Next]_vars => LoadInv'
<1> SUFFICES ASSUME LoadInv, [Next]_vars PROVE LoadInv'
  OBVIOUS
<1>1. CASE \E p \in Packages : AddPackage(p)
  BY <1>1, AddPackageStep
<1>2. CASE Insert
  BY <1>2, InsertStep
<1>3. CASE InsertFails
  BY <1>3, InsertFailsStep
<1>4. CASE Undo
  BY <1>4, UndoStep
<1>5. CASE GiveUp
  BY <1>5, GiveUpStep
<1>6. CASE Commit
  BY <1>6, CommitStep
<1>7. CASE \E i \in Numbers : OpenFile(i)
  BY <1>7, OpenFileKeepsLoadInv
<1>8. CASE Uninit
  BY <1>8, UninitEndsLoading
<1>9. CASE (\E t \in Threads : Calls(t)) \/ Freeze \/ BeginLookupReset \/ ResetLookupCaches
  BY <1>9, CachesKeepPackages, SameLoadInv
<1>10. CASE UNCHANGED vars
  BY <1>10, SameLoadInv DEF vars
<1> QED BY <1>1, <1>2, <1>3, <1>4, <1>5, <1>6, <1>7, <1>8, <1>9, <1>10 DEF Next, Loading

\* Between any two steps of any session: the undo records, the entries and what they
\* own fit together.
THEOREM LoadInvAlways == Spec => []LoadInv
<1> QED BY InitLoadInv, NextLoadInv, PTL DEF Spec

\* Between any two steps, also halfway through a package or its undoing, the table and
\* the entries agree, every path string has one owner and every archive that is read
\* from is open (vfs.c:325-347).
THEOREM IndexIsAlwaysWhole == Spec => []IndexIsWhole
<1>1. LoadInv => IndexIsWhole
  BY DEF LoadInv
<1> QED BY <1>1, LoadInvAlways, PTL

\* A decoded file that opens share is the file its entry names now (vfs.c:318-319).
THEOREM DecodedDataIsAlwaysCurrent == Spec => []DecodedDataIsCurrent
<1>1. LoadInv => DecodedDataIsCurrent
  BY DEF LoadInv
<1> QED BY <1>1, LoadInvAlways, PTL

\* A step takes no number from a name that had one before the package, and gives it no
\* other: what undoing removes is new.
LEMMA UidStep ==
  ASSUME LoadInv, [Next]_vars, NEW n \in Names, committed[n] # None, load' >= load
  PROVE  index'[n] = index[n] /\ index[n] # None
<1>1. index[n] # None
  BY DEF LoadInv, CommittedInv
<1>2. CASE UNCHANGED index
  BY <1>1, <1>2
<1>3. CASE Insert
  <2>1. PICK m \in Names, i \in Nat \ {0}, old \in EntryType \cup {None} : Applies(m, i, old)
    BY <1>3, InsertEffect
  <2>2. index'[n] = IF n = m THEN i ELSE index[n]
    BY <2>1 DEF Applies
  <2>3. n = m => index[n] = i
    BY <1>1, <2>1 DEF Applies
  <2> QED BY <1>1, <2>2, <2>3
<1>4. CASE Undo
  <2>1. PICK m \in Names, i \in DOMAIN entries, old \in EntryType \cup {None} : Undoes(m, i, old)
    BY <1>4, UndoEffect
  <2>2. index'[n] = IF n = m /\ old = None THEN None ELSE index[n]
    BY <2>1 DEF Undoes
  <2>3. n # m \/ old # None
    <3> SUFFICES ASSUME n = m, old = None PROVE FALSE
      OBVIOUS
    <3>1. Applied \in DOMAIN previous /\ ~Repoints(Applied) /\ Content[package][Applied] = n
      BY <2>1 DEF Undoes, Repoints
    <3>2. FirstTouch(Applied) /\ step # "idle"
      BY <1>4, <3>1 DEF LoadInv, RecordsInv, Undo
    <3>3. committed[n] = None
      BY <3>1, <3>2 DEF LoadInv, CommittedInv
    <3> QED BY <3>3
  <2> QED BY <1>1, <2>2, <2>3
<1>5. CASE Uninit
  <2>1. load > 0 /\ load' = 0
    BY <1>5 DEF Uninit
  <2> QED BY <2>1, LoadFacts
<1>6. CASE (\E t \in Threads : Calls(t)) \/ Freeze \/ BeginLookupReset \/ ResetLookupCaches
  BY <1>1, <1>6, CachesKeepPackages DEF loadVars
<1> QED BY <1>2, <1>3, <1>4, <1>5, <1>6
        DEF Next, Loading, AddPackage, InsertFails, GiveUp, Commit, OpenFile, vars, loadVars

\* A UID handed out stays the UID of its name until vfs_uninit (vfs.c:192-200, 338).
THEOREM UidsAlwaysKeepTheirNames == Spec => UidsKeepTheirNames
<1>1. LoadInv /\ [Next]_vars =>
        [\A n \in Names :
           committed[n] # None /\ load' >= load => index'[n] = index[n] /\ index[n] # None]_vars
  BY UidStep
<1> QED BY <1>1, LoadInvAlways, PTL DEF Spec, UidsKeepTheirNames

-----------------------------------------------------------------------------
\* The names as OverrideMap sees them.
View == IF step = "idle" THEN Current ELSE committed

\* A session starts without mod files.
LEMMA InitRefines == Init => Abstract!Init
<1> SUFFICES ASSUME Init PROVE Abstract!Init
  OBVIOUS
<1>1. Current = [n \in Names |-> None] /\ step = "idle" /\ ~frozen
  BY DEF Init, Current
<1> QED BY <1>1 DEF Abstract!Init, Init

\* Adding a package becomes visible when it commits, and is an Add of OverrideMap then;
\* until it does, and when it is undone, the names lead where they led.
LEMMA LoadingRefines ==
  ASSUME LoadInv, IInv, Loading
  PROVE  Abstract!Next \/ UNCHANGED Abstract!vars
<1>1. UNCHANGED frozen
  BY DEF Loading, AddPackage, Insert, InsertFails, Undo, GiveUp, Commit, cacheVars
<1>2. CASE \E p \in Packages : AddPackage(p)
  <2>1. step = "idle" /\ step' # "idle" /\ committed' = Current
    BY <1>2 DEF AddPackage
  <2>2. View' = View
    BY <2>1 DEF View
  <2> QED BY <1>1, <2>2 DEF View, Abstract!vars
<1>3. CASE Insert \/ InsertFails \/ Undo
  <2>1. step # "idle" /\ step' # "idle" /\ committed' = committed
    BY <1>3 DEF Insert, InsertFails, Undo
  <2>2. View' = View
    BY <2>1 DEF View
  <2> QED BY <1>1, <2>2 DEF View, Abstract!vars
<1>4. CASE GiveUp
  <2>1. step # "idle" /\ step' = "idle" /\ Current' = committed
    BY <1>4, GiveUpStep DEF GiveUp, Leave
  <2>2. View' = View
    BY <2>1 DEF View
  <2> QED BY <1>1, <2>2 DEF View, Abstract!vars
<1>5. CASE Commit
  <2>1. step # "idle" /\ step' = "idle" /\ package \in Packages
    BY <1>5 DEF Commit, Leave, LoadInv, LoadTypes
  <2>2. ~frozen
    BY <2>1 DEF IInv, FrozenInv
  <2>3. load \in 1..MaxLoads
    BY <2>1, BoundsAssumption DEF LoadInv, LoadTypes
  <2>4. \A n \in Names : Current'[n] = IF Abstract!Files(package, n) = {} THEN committed[n]
                                       ELSE <<load, Abstract!Last(Abstract!Files(package, n))>>
    BY <1>5, CommitStep
  <2>5. Current' = [n \in Names |-> Current'[n]]
    BY DEF Current
  <2>6. Current' = [n \in Names |-> IF Abstract!Files(package, n) = {} THEN committed[n]
                                    ELSE <<load, Abstract!Last(Abstract!Files(package, n))>>]
    BY <2>4, <2>5
  <2>7. Abstract!Add(package, load)
    BY <1>1, <2>1, <2>2, <2>6 DEF Abstract!Add
  <2> QED BY <2>1, <2>3, <2>7 DEF Abstract!Next
<1> QED BY <1>2, <1>3, <1>4, <1>5 DEF Loading

\* Every step is one of OverrideMap, or changes neither the names nor the freeze.
LEMMA NextRefines ==
  LoadInv /\ IInv /\ [Next]_vars => [Abstract!Next]_(Abstract!vars)
<1> SUFFICES ASSUME LoadInv, IInv, [Next]_vars
             PROVE  Abstract!Next \/ UNCHANGED Abstract!vars
  OBVIOUS
<1>1. CASE Loading
  BY <1>1, LoadingRefines
<1>2. ASSUME UNCHANGED <<index, entries, step, committed>>
      PROVE  View' = View
  BY <1>2 DEF View, Current, File
<1>3. CASE Freeze \/ ResetLookupCaches
  <2>1. step = "idle" /\ frozen' = TRUE /\ UNCHANGED <<index, entries, step, committed>>
    BY <1>3, CachesKeepPackages DEF Freeze, ResetLookupCaches, loadVars
  <2>2. Abstract!Freeze
    BY <1>2, <2>1 DEF View, Abstract!Freeze
  <2> QED BY <2>2 DEF Abstract!Next
<1>4. CASE Uninit
  <2>1. step = "idle" /\ step' = "idle" /\ frozen' = FALSE
    BY <1>4 DEF Uninit
  <2>2. Current' = [n \in Names |-> None]
    BY <1>4, UninitEndsLoading
  <2>3. Abstract!Uninit
    BY <2>1, <2>2 DEF Abstract!Uninit
  <2> QED BY <2>3 DEF Abstract!Next
<1>5. CASE (\E t \in Threads : Calls(t)) \/ BeginLookupReset
  <2>1. UNCHANGED <<index, entries, step, committed>>
    BY <1>5, CachesKeepPackages DEF loadVars
  <2>2. UNCHANGED frozen
    BY <1>5 DEF Calls, Lookup, LookInCache, Search, CacheAnswer, BeginLookupReset, cacheVars
  <2> QED BY <1>2, <2>1, <2>2 DEF View, Abstract!vars
<1>6. CASE \E i \in Numbers : OpenFile(i)
  <2>1. UNCHANGED <<index, entries, step, committed, frozen>>
    BY <1>6 DEF OpenFile, loadVars, cacheVars
  <2> QED BY <1>2, <2>1 DEF View, Abstract!vars
<1>7. CASE UNCHANGED vars
  <2>1. UNCHANGED <<index, entries, step, committed, frozen>>
    BY <1>7 DEF vars, loadVars, cacheVars
  <2> QED BY <1>2, <2>1 DEF View, Abstract!vars
<1> QED BY <1>1, <1>3, <1>4, <1>5, <1>6, <1>7 DEF Next

\* Packages are applied as a whole or not at all, later ones win, and nothing is added
\* after the freeze: the index implements OverrideMap (vfs.c:300-303).
THEOREM IndexImplementsOverrideMap == Spec => PackagesAreAtomic
<1>1. Spec => [](LoadInv /\ IInv)
  BY LoadInvAlways, LookupsStayConsistent, PTL
<1> QED BY <1>1, InitRefines, NextRefines, PTL DEF Spec, PackagesAreAtomic, Abstract!Spec
=============================================================================
