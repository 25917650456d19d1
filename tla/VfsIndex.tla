------------------------------ MODULE VfsIndex ------------------------------
(***************************************************************************)
(* The index of the virtual file system (src/src/modloader/vfs.c): the     *)
(* packages of the configuration are added one after the other, each as a  *)
(* whole or not at all; then the index is frozen and the game's threads    *)
(* look names up through caches that carry a generation.                   *)
(*                                                                         *)
(* The code takes no lock for the entries: nobody looks anything up while  *)
(* a package is added, and nobody adds one while a lookup runs (vfs.c:672).*)
(* vfs_file_drop_caches and the shared decoded files are those of module   *)
(* DecodedCache; here a decoded file is only the file it was decoded from. *)
(***************************************************************************)
EXTENDS Naturals, Sequences, FiniteSets

CONSTANTS Names, Packages, Content, MaxLoads, None,
          IsZip,       \* the packages that are archives
          Spellings,   \* paths the game asks for
          NameOf,      \* vfs_normalize_path; None if it refuses the path
          Threads,
          MaxResets    \* bound: resets of the lookup caches in one session

ASSUME ContentAssumption == Content \in [Packages -> Seq(Names)]
ASSUME NameOfAssumption == NameOf \in [Spellings -> Names \cup {None}]
ASSUME IsZipAssumption == IsZip \subseteq Packages
ASSUME BoundsAssumption == MaxLoads \in Nat /\ MaxResets \in Nat
ASSUME NoneAssumption ==
  None \notin Nat /\ None \notin Nat \X Nat /\ None \notin Packages
  /\ None \notin [key : Names, path : {None} \cup (Nat \X Nat), zip : {None} \cup Nat, file : Nat]

VARIABLES
  index,       \* name -> entry number, or None
  entries,     \* entries[]: [key, path, zip, file]; the number is the UID
  heap,        \* the path strings that are allocated
  archives,    \* the archives that are open
  zipPackages, \* zip_packages
  decoded,     \* entry number -> file of a shared decoded file, or None
  \* vfs_insert_package: "idle", "insert" or "undo"
  step, package, load,
  previous,    \* previous[] and touched[] of the files applied so far
  \* lookup caches
  frozen, generation, sequence,
  cache,       \* [kind, spelling] -> answer, with the generation it is from
  \* the running lookup of each thread
  pc, request, seen, result,
  committed    \* history: what the names led to before the package

loadVars == <<index, entries, heap, archives, zipPackages, step, package, load, previous, committed>>
cacheVars == <<frozen, generation, sequence, cache>>
callVars == <<pc, request, seen, result>>
vars == <<loadVars, decoded, cacheVars, callVars>>

Kinds == {"path", "uid"}   \* vfs_lookup_domain and vfs_virtual_to_uid
Requests == Kinds \X Spellings
Numbers == 1..(MaxLoads * Cardinality(Names))
Absent == [answer |-> None, from |-> 0]
Sources == (1..MaxLoads) \X Nat
File(e) == IF e.zip # None THEN <<e.zip, e.file>> ELSE e.path
Current == [n \in Names |-> IF index[n] = None THEN None ELSE File(entries[index[n]])]

\* vfs_init.
Init ==
  /\ index = [n \in Names |-> None] /\ entries = <<>> /\ heap = {}
  /\ archives = {} /\ zipPackages = <<>> /\ decoded = [i \in Numbers |-> None]
  /\ step = "idle" /\ package = None /\ load = 0 /\ previous = <<>>
  /\ frozen = FALSE /\ generation = 0 /\ sequence = 0
  /\ cache = [r \in Requests |-> Absent]
  /\ pc = [t \in Threads |-> "idle"] /\ request = [t \in Threads |-> None]
  /\ seen = [t \in Threads |-> 0] /\ result = [t \in Threads |-> None]
  /\ committed = [n \in Names |-> None]

NoLookup == \A t \in Threads : pc[t] = "idle"

-----------------------------------------------------------------------------
(* vfs_add_package and vfs_insert_package.                                  *)

\* Mutant: the shared decoded files are kept.
DropNothing == UNCHANGED decoded
DropCaches == decoded' = [i \in Numbers |-> None]

\* The package exists and could be scanned or opened; otherwise nothing
\* happens.  Overriding re-points entry numbers, so the decoded files go first.
AddPackage(p) ==
  /\ step = "idle" /\ NoLookup /\ ~frozen /\ load < MaxLoads
  /\ load' = load + 1 /\ package' = p /\ step' = "insert" /\ previous' = <<>>
  /\ archives' = IF p \in IsZip THEN archives \cup {load + 1} ELSE archives
  /\ committed' = Current
  /\ IF Content[p] = <<>> THEN UNCHANGED decoded ELSE DropCaches
  /\ UNCHANGED <<index, entries, heap, zipPackages, cacheVars, callVars>>

Applied == Len(previous)
NewEntry(key) ==
  IF package \in IsZip THEN [key |-> key, path |-> None, zip |-> load, file |-> Applied + 1]
  ELSE [key |-> key, path |-> <<load, Applied + 1>>, zip |-> None, file |-> Applied + 1]

\* Mutant: the path that is replaced is freed at once.
InsertFreesPath ==
  LET name  == Content[package][Applied + 1]
      entry == NewEntry(name)
      i     == index[name] IN
  /\ step = "insert" /\ Applied < Len(Content[package])
  /\ IF i # None
       THEN /\ entries' = [entries EXCEPT ![i] = entry]
            /\ previous' = Append(previous, [entry |-> entries[i], touched |-> i])
            /\ heap' = (heap \ {entries[i].path}) \cup ({entry.path} \ {None})
            /\ UNCHANGED index
       ELSE /\ entries' = Append(entries, entry)
            /\ previous' = Append(previous, [entry |-> None, touched |-> Len(entries) + 1])
            /\ heap' = heap \cup ({entry.path} \ {None})
            /\ index' = [index EXCEPT ![name] = Len(entries) + 1]
  /\ UNCHANGED <<archives, zipPackages, decoded, step, package, load, committed, cacheVars, callVars>>

\* vfs_insert of the next file: an entry of the name is re-pointed and keeps
\* its number, a new one is appended.
Insert ==
  LET name  == Content[package][Applied + 1]
      entry == NewEntry(name)
      i     == index[name] IN
  /\ step = "insert" /\ Applied < Len(Content[package])
  /\ heap' = heap \cup ({entry.path} \ {None})
  /\ IF i # None
       THEN /\ entries' = [entries EXCEPT ![i] = entry]
            /\ previous' = Append(previous, [entry |-> entries[i], touched |-> i])
            /\ UNCHANGED index
       ELSE /\ entries' = Append(entries, entry)
            /\ previous' = Append(previous, [entry |-> None, touched |-> Len(entries) + 1])
            /\ index' = [index EXCEPT ![name] = Len(entries) + 1]
  /\ UNCHANGED <<archives, zipPackages, decoded, step, package, load, committed, cacheVars, callVars>>

\* Mutant: the files before it stay.
InsertFailsKeepsFiles ==
  /\ step = "insert" /\ Applied < Len(Content[package])
  /\ step' = "undo" /\ previous' = <<>>
  /\ UNCHANGED <<index, entries, heap, archives, zipPackages, decoded, package, load, committed,
                 cacheVars, callVars>>

\* No memory for the path, the key, its slot, the entry or the UID: everything
\* of this file is taken back, and the files before it are to be undone.
InsertFails ==
  /\ step = "insert" /\ Applied < Len(Content[package])
  /\ step' = "undo"
  /\ UNCHANGED <<index, entries, heap, archives, zipPackages, decoded, package, load, previous,
                 committed, cacheVars, callVars>>

\* Mutant: the slot of a new entry is left in the index.
UndoKeepsSlot ==
  LET u == previous[Applied] IN
  /\ step = "undo" /\ previous # <<>>
  /\ previous' = SubSeq(previous, 1, Applied - 1)
  /\ heap' = heap \ {entries[u.touched].path}
  /\ entries' = IF u.entry # None THEN [entries EXCEPT ![u.touched] = u.entry]
                ELSE SubSeq(entries, 1, Len(entries) - 1)
  /\ UNCHANGED <<index, archives, zipPackages, decoded, step, package, load, committed, cacheVars,
                 callVars>>

\* Mutant: an entry that was re-pointed is removed like a new one.
UndoRemovesEntry ==
  LET u == previous[Applied] IN
  /\ step = "undo" /\ previous # <<>>
  /\ previous' = SubSeq(previous, 1, Applied - 1)
  /\ heap' = heap \ {entries[Len(entries)].path}
  /\ index' = [index EXCEPT ![entries[Len(entries)].key] = None]
  /\ entries' = SubSeq(entries, 1, Len(entries) - 1)
  /\ UNCHANGED <<archives, zipPackages, decoded, step, package, load, committed, cacheVars, callVars>>

\* One file is undone, the last one first: a new entry is the last entry then.
Undo ==
  LET u == previous[Applied] IN
  /\ step = "undo" /\ previous # <<>>
  /\ previous' = SubSeq(previous, 1, Applied - 1)
  /\ heap' = heap \ {entries[u.touched].path}
  /\ IF u.entry # None
       THEN entries' = [entries EXCEPT ![u.touched] = u.entry] /\ UNCHANGED index
       ELSE /\ index' = [index EXCEPT ![entries[u.touched].key] = None]
            /\ entries' = SubSeq(entries, 1, Len(entries) - 1)
  /\ UNCHANGED <<archives, zipPackages, decoded, step, package, load, committed, cacheVars, callVars>>

Leave == step' = "idle" /\ package' = None /\ previous' = <<>>

\* The package could not be added; its archive is closed.
GiveUp ==
  /\ step = "undo" /\ previous = <<>>
  /\ Leave
  /\ archives' = archives \ {load}
  /\ UNCHANGED <<index, entries, heap, zipPackages, decoded, load, committed, cacheVars, callVars>>

\* All files are applied: the paths they replaced are freed.
Commit ==
  /\ step = "insert" /\ Applied = Len(Content[package])
  /\ Leave
  /\ heap' = heap \ {previous[k].entry.path : k \in {j \in DOMAIN previous : previous[j].entry # None}}
  /\ zipPackages' = IF package \in IsZip THEN <<load>> \o zipPackages ELSE zipPackages
  /\ UNCHANGED <<index, entries, archives, decoded, load, committed, cacheVars, callVars>>

\* vfs_file_open of an entry of an archive: it shares the decoded file of the
\* entry number, or decodes one.
OpenFile(i) ==
  /\ step = "idle" /\ i \in DOMAIN entries /\ entries[i].zip # None
  /\ decoded' = [decoded EXCEPT ![i] = IF @ = None THEN File(entries[i]) ELSE @]
  /\ UNCHANGED <<loadVars, cacheVars, callVars>>

-----------------------------------------------------------------------------
(* Lookups.                                                                 *)

\* The generation is read without the lock.  (A path that is a UID is answered
\* from its entry at once and changes nothing.)
Lookup(t, r) ==
  /\ step = "idle" /\ pc[t] = "idle"
  /\ request' = [request EXCEPT ![t] = r]
  /\ seen' = [seen EXCEPT ![t] = generation]
  /\ pc' = [pc EXCEPT ![t] = IF generation = 0 THEN "search" ELSE "cached"]
  /\ UNCHANGED <<loadVars, decoded, cacheVars, result>>

Return(t) ==
  /\ pc' = [pc EXCEPT ![t] = "idle"]
  /\ request' = [request EXCEPT ![t] = None]
  /\ seen' = [seen EXCEPT ![t] = 0]
  /\ result' = [result EXCEPT ![t] = None]

\* Under the shared lock.
LookInCache(t) ==
  /\ pc[t] = "cached"
  /\ IF cache[request[t]] # Absent THEN Return(t)
     ELSE pc' = [pc EXCEPT ![t] = "search"] /\ UNCHANGED <<request, seen, result>>
  /\ UNCHANGED <<loadVars, decoded, cacheVars>>

\* What the index says of a name: its UID, or the path to read it by, which
\* is the UID too for a file of an archive (vfs_entry_read_path).
Answer(kind, n) ==
  IF n = None \/ index[n] = None THEN None
  ELSE IF kind = "uid" \/ entries[index[n]].zip # None THEN <<"uid", index[n]>>
  ELSE <<"path", entries[index[n]].path>>

\* Without a lock.  A path that cannot be normalized is not cached, and
\* nothing is while the caches are being reset.
Search(t) ==
  LET n == NameOf[request[t][2]] IN
  /\ pc[t] = "search"
  /\ IF seen[t] = 0 \/ n = None THEN Return(t)
     ELSE /\ pc' = [pc EXCEPT ![t] = "insert"]
          /\ result' = [result EXCEPT ![t] = Answer(request[t][1], n)]
          /\ UNCHANGED <<request, seen>>
  /\ UNCHANGED <<loadVars, decoded, cacheVars>>

\* Mutant: the generation is not compared again.
CacheUnchecked(t) ==
  /\ pc[t] = "insert"
  /\ cache' = IF cache[request[t]] # Absent THEN cache
              ELSE [cache EXCEPT ![request[t]] = [answer |-> result[t], from |-> seen[t]]]
  /\ Return(t)
  /\ UNCHANGED <<loadVars, decoded, frozen, generation, sequence>>

\* Under the exclusive lock: an answer of an earlier generation is not cached,
\* nor one that another thread has cached meanwhile, nor one without memory.
CacheAnswer(t) ==
  /\ pc[t] = "insert"
  /\ \/ /\ generation = seen[t] /\ cache[request[t]] = Absent
        /\ cache' = [cache EXCEPT ![request[t]] = [answer |-> result[t], from |-> seen[t]]]
     \/ UNCHANGED cache
  /\ Return(t)
  /\ UNCHANGED <<loadVars, decoded, frozen, generation, sequence>>

-----------------------------------------------------------------------------
(* Resets of the caches, from the hooked FileStep.                          *)

\* vfs_begin_lookup_reset: `frozen` first, then the rest under the lock.
Freeze ==
  /\ step = "idle" /\ ~frozen
  /\ frozen' = TRUE
  /\ UNCHANGED <<loadVars, decoded, generation, sequence, cache, callVars>>

BeginLookupReset ==
  /\ frozen
  /\ generation' = 0
  /\ cache' = [r \in Requests |-> Absent]
  /\ UNCHANGED <<loadVars, decoded, frozen, sequence, callVars>>

\* vfs_reset_lookup_caches: a generation number is never used twice.
ResetLookupCaches ==
  /\ step = "idle" /\ sequence < MaxResets
  /\ frozen' = TRUE
  /\ cache' = [r \in Requests |-> Absent]
  /\ sequence' = sequence + 1
  /\ generation' = sequence + 1
  /\ UNCHANGED <<loadVars, decoded, callVars>>

\* vfs_uninit, and vfs_init for a new session.  The heap is what vfs_uninit
\* does not free: it frees the paths of the entries, and closes the archives
\* of the list.
Uninit ==
  /\ step = "idle" /\ NoLookup /\ load > 0
  /\ index' = [n \in Names |-> None] /\ entries' = <<>>
  /\ heap' = heap \ {entries[i].path : i \in DOMAIN entries}
  /\ archives' = archives \ {zipPackages[i] : i \in DOMAIN zipPackages}
  /\ zipPackages' = <<>> /\ DropCaches
  /\ load' = 0 /\ committed' = [n \in Names |-> None]
  /\ frozen' = FALSE /\ generation' = 0 /\ sequence' = 0
  /\ cache' = [r \in Requests |-> Absent]
  /\ UNCHANGED <<step, package, previous, callVars>>

-----------------------------------------------------------------------------
Loading ==
  \/ \E p \in Packages : AddPackage(p)
  \/ Insert \/ InsertFails \/ Undo \/ GiveUp \/ Commit

Calls(t) == (\E r \in Requests : Lookup(t, r)) \/ LookInCache(t) \/ Search(t) \/ CacheAnswer(t)

Next ==
  \/ Loading \/ (\E i \in Numbers : OpenFile(i))
  \/ \E t \in Threads : Calls(t)
  \/ Freeze \/ BeginLookupReset \/ ResetLookupCaches \/ Uninit

Spec == Init /\ [][Next]_vars

-----------------------------------------------------------------------------
Paths == {None} \cup Sources
Entry == [key : Names, path : Paths, zip : {None} \cup 1..MaxLoads, file : Nat]
Answers == {None} \cup ({"uid"} \X Numbers) \cup ({"path"} \X Sources)

\* Entry numbers, paths, archives and generations stay in their ranges.
TypeOK ==
  /\ index \in [Names -> {None} \cup Numbers]
  /\ entries \in Seq(Entry) /\ heap \subseteq Sources
  /\ archives \subseteq 1..MaxLoads /\ zipPackages \in Seq(1..MaxLoads)
  /\ decoded \in [Numbers -> Paths]
  /\ step \in {"idle", "insert", "undo"} /\ package \in Packages \cup {None}
  /\ load \in 0..MaxLoads
  /\ previous \in Seq([entry : Entry \cup {None}, touched : Numbers])
  /\ frozen \in BOOLEAN /\ generation \in 0..MaxResets /\ sequence \in 0..MaxResets
  /\ cache \in [Requests -> [answer : Answers, from : 0..MaxResets]]
  /\ pc \in [Threads -> {"idle", "cached", "search", "insert"}]
  /\ request \in [Threads -> Requests \cup {None}]
  /\ seen \in [Threads -> 0..MaxResets] /\ result \in [Threads -> Answers]
  /\ committed \in [Names -> Paths]

\* The table and the array agree in every step of adding and undoing a
\* package: a name leads to the entry that carries it, every entry has its
\* name in the table, and entry numbers stay dense (vfs.c:331-341).
IndexAgreesWithEntries ==
  /\ \A n \in Names : index[n] # None => index[n] \in DOMAIN entries /\ entries[index[n]].key = n
  /\ \A i \in DOMAIN entries : index[entries[i].key] = i

\* What points to a path string: entries and undo records.
Owners == {<<"entry", i>> : i \in {j \in DOMAIN entries : entries[j].path # None}}
     \cup {<<"undo", k>> : k \in {j \in DOMAIN previous :
                                    previous[j].entry # None /\ previous[j].entry.path # None}}
Owned(o) == IF o[1] = "entry" THEN entries[o[2]].path ELSE previous[o[2]].entry.path

\* Every path string has one owner, an entry or an undo record, and every
\* owner's string is allocated: none is leaked, freed twice or used after it
\* was freed, whichever file of a package fails (vfs.c:325-341).  The archives
\* entries read from are open, and only those of the list and of the package
\* being added are: a package that fails closes its archive.
PathsAndArchivesAreOwned ==
  /\ heap = {Owned(o) : o \in Owners}
  /\ \A o, q \in Owners : Owned(o) = Owned(q) => o = q
  /\ \A i \in DOMAIN entries : entries[i].zip # None => entries[i].zip \in archives
  /\ archives = {zipPackages[i] : i \in DOMAIN zipPackages}
                \cup (IF step # "idle" /\ package \in IsZip THEN {load} ELSE {})

\* Between any two steps, also halfway through a package or its undoing, the index
\* and what it owns are whole (vfs.c:325-347).
IndexIsWhole == IndexAgreesWithEntries /\ PathsAndArchivesAreOwned

\* A decoded file that opens share is the file its entry names now, although
\* overrides re-point entry numbers and undoing a package reuses them
\* (vfs.c:318-319).
DecodedDataIsCurrent ==
  \A i \in Numbers : decoded[i] # None => i \in DOMAIN entries /\ decoded[i] = File(entries[i])

\* Every cached answer, a negative one too, was computed in the generation the
\* caches are in, and there is none while they are being reset, however late a
\* lookup that began before a reset comes to cache its answer (vfs.c:548); and
\* it is what the index says, for no package is added behind the caches
\* (vfs.c:428).
CachesAreCurrent ==
  \A r \in Requests : cache[r] # Absent =>
    /\ generation # 0 /\ cache[r].from = generation
    /\ cache[r].answer = Answer(r[1], NameOf[r[2]])

\* A UID handed out stays the UID of its name until vfs_uninit, whatever is
\* added and whatever fails (vfs.c:192-200, 338).
UidsKeepTheirNames ==
  [][\A n \in Names :
       committed[n] # None /\ load' >= load => index'[n] = index[n] /\ index[n] # None]_vars

\* While a package is added, the names lead where they led before.
Abstract == INSTANCE OverrideMap WITH map <- IF step = "idle" THEN Current ELSE committed

\* Packages are applied as a whole or not at all, later ones win, and nothing
\* is added after the freeze: the index implements OverrideMap
\* (vfs_insert_package, vfs.c:300-303).
PackagesAreAtomic == Abstract!Spec
=============================================================================
