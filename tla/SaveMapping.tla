---------------------------- MODULE SaveMapping ----------------------------
(***************************************************************************)
(* Renamed saves (src/src/modloader/patches/save_mapping.c) on top of the  *)
(* table of writable paths (vfs.c), as the hooked CreateFile uses them     *)
(* (route_wide, win32_hooks.c).                                            *)
(*                                                                         *)
(* One extension is requested by the configuration.  The paths are the     *)
(* spellings the game uses for its save files; a save has an original file *)
(* and the file its override name gives (two saves of one directory can    *)
(* share it).  writable_lock is held for one step at a time; mapping_lock  *)
(* is held across the whole registration and therefore a variable.         *)
(***************************************************************************)
EXTENDS Naturals, FiniteSets

CONSTANTS Threads, Paths, Saves, Targets,
          SaveOf,       \* the save a path names (vfs_normalize_path)
          TargetOf,     \* build_override_name in the directory of the save
          None

ASSUME SaveOfAssumption == SaveOf \in [Paths -> Saves]
ASSUME TargetOfAssumption == TargetOf \in [Saves -> Targets]
ASSUME NoneAssumption ==
  None \notin Threads \cup Targets \cup Paths /\ "absent" \notin Targets \cup {None}

VARIABLES root,         \* save_root was resolved
          mapped,       \* the extension is in mappings
          failedToMap,  \* the extension is in failed_extensions
          mappingLock,  \* mapping_lock held exclusively: the owner or None
          writable,     \* writable_entries: save -> target or None
          cache,        \* writable_cache: path -> target, None, or "absent"
          original,     \* content of the original files
          target,       \* content of the renamed files
          pc, path, back, found, snapshot,
          scarce        \* memory may run out: canonicalize_path, the copy of
                        \* save_root and the lookups of the table may fail
mappingVars == <<root, mapped, failedToMap>>
writableVars == <<writable, cache>>
fileVars == <<original, target>>
threadVars == <<path, back, found, snapshot>>
vars == <<mappingVars, mappingLock, writableVars, fileVars, pc, threadVars, scarce>>

NoSnapshot == [root |-> FALSE, mapped |-> FALSE, failed |-> FALSE]

\* common_install_file_routing: the root may be missing, the extension is
\* then a failed one.
Init ==
    /\ root \in BOOLEAN
    /\ mapped = root
    /\ failedToMap = ~root
    /\ mappingLock = None
    /\ writable = [s \in Saves |-> None]
    /\ cache = [p \in Paths |-> "absent"]
    /\ original \in [Saves -> {"missing", "original"}]
    /\ target \in [Targets -> {"missing", "game"}]
    /\ pc = [t \in Threads |-> "idle"]
    /\ path = [t \in Threads |-> None]
    /\ back = [t \in Threads |-> None]
    /\ found = [t \in Threads |-> None]
    /\ snapshot = [t \in Threads |-> NoSnapshot]
    /\ scarce \in BOOLEAN

Goto(t, l) == pc' = [pc EXCEPT ![t] = l]
Save(t) == SaveOf[path[t]]

----------------------------------------------------------------------------
(* vfs_route_writable_path; the caller goes on at `to` with `found`.        *)

CallRoute(t, to) ==
    /\ Goto(t, "look")
    /\ back' = [back EXCEPT ![t] = to]

Answer(t, result) ==
    /\ found' = [found EXCEPT ![t] = result]
    /\ back' = [back EXCEPT ![t] = None]
    /\ Goto(t, back[t])

\* Under the shared lock: an empty table, the cache, the prefilter (which lets
\* every path with the last segment of a registered one through).
Look(t) ==
    /\ pc[t] = "look"
    /\ IF \A s \in Saves : writable[s] = None
       THEN Answer(t, None)
       ELSE IF cache[path[t]] # "absent"
       THEN Answer(t, cache[path[t]])
       ELSE Goto(t, "search") /\ UNCHANGED <<found, back>>
    /\ UNCHANGED <<mappingVars, mappingLock, writableVars, fileVars, path, snapshot>>

\* No last segment of the table equals the one of this path.
Prefiltered(t) ==
    /\ pc[t] = "look"
    /\ writable[Save(t)] = None
    /\ \E s \in Saves : writable[s] # None
    /\ cache[path[t]] = "absent"
    /\ Answer(t, None)
    /\ UNCHANGED <<mappingVars, mappingLock, writableVars, fileVars, path, snapshot>>

\* Under the exclusive lock: the cache again, the table, and the new cache
\* entry, which may be a negative one.
Search(t) ==
    /\ pc[t] = "search"
    /\ LET result == IF cache[path[t]] # "absent" THEN cache[path[t]]
                     ELSE writable[Save(t)]
       IN /\ \/ cache' = [cache EXCEPT ![path[t]] = result]
             \/ scarce /\ UNCHANGED cache
          /\ Answer(t, result)
    /\ UNCHANGED <<mappingVars, mappingLock, writable, fileVars, path, snapshot>>

\* No memory for the normalized path or the key of the cache entry: the answer
\* is NULL, whatever the table holds.
SearchFails(t) ==
    /\ scarce
    /\ pc[t] = "search"
    /\ Answer(t, None)
    /\ UNCHANGED <<mappingVars, mappingLock, writableVars, fileVars, path, snapshot>>

----------------------------------------------------------------------------
(* ml_save_mapping_route.                                                   *)

\* The call; mapping_active is read without the lock.
Route(t, p) ==
    /\ pc[t] = "idle"
    /\ path' = [path EXCEPT ![t] = p]
    /\ Goto(t, IF mapped \/ failedToMap THEN "snapshot" ELSE "unmapped")
    /\ UNCHANGED <<mappingVars, mappingLock, writableVars, fileVars, back, found, snapshot>>

\* Under the shared lock.  The copy of the root may be NULL for want of memory,
\* or because there is no root.  A path that goes through a link is denied;
\* links come and go, so path_contains_link may find one any time.
Snapshot(t) ==
    /\ pc[t] = "snapshot"
    /\ mappingLock = None
    /\ \E r \in IF scarce THEN {root, FALSE} ELSE {root} :
         /\ snapshot' = [snapshot EXCEPT ![t] =
                            [root |-> r, mapped |-> mapped, failed |-> failedToMap]]
         /\ \/ ~r /\ Goto(t, "decide") /\ UNCHANGED back
            \/ r /\ Goto(t, "denied") /\ UNCHANGED back
            \/ r /\ CallRoute(t, "registered")
    /\ UNCHANGED <<mappingVars, mappingLock, writableVars, fileVars, path, found>>

\* canonicalize_path fails: the path counts as no save.
NoSource(t) ==
    /\ scarce
    /\ pc[t] = "snapshot"
    /\ mappingLock = None
    /\ Goto(t, "unmapped")
    /\ UNCHANGED <<mappingVars, mappingLock, writableVars, fileVars, threadVars>>

\* A path that is registered already keeps its target.
Registered(t) ==
    /\ pc[t] = "registered"
    /\ IF found[t] # None
       THEN Goto(t, "open") /\ snapshot' = [snapshot EXCEPT ![t] = NoSnapshot]
       ELSE Goto(t, "decide") /\ UNCHANGED snapshot
    /\ UNCHANGED <<mappingVars, mappingLock, writableVars, fileVars, path, back, found>>

Decide(t) ==
    /\ pc[t] = "decide"
    /\ \/ Goto(t, "denied")     \* no memory for the logical source
       \/ Goto(t, IF snapshot[t].failed THEN "denied"
                  ELSE IF snapshot[t].root /\ snapshot[t].mapped THEN "lock"
                  ELSE "unmapped")
       \/ /\ ~snapshot[t].failed /\ snapshot[t].root /\ snapshot[t].mapped
          /\ Goto(t, "fail")    \* no target path
    /\ snapshot' = [snapshot EXCEPT ![t] = NoSnapshot]
    /\ UNCHANGED <<mappingVars, mappingLock, writableVars, fileVars, path, back, found>>

\* remember_failed_extension, for a target that could not be built.
RememberFailed(t) ==
    /\ pc[t] = "fail"
    /\ mappingLock = None
    /\ failedToMap' = TRUE
    /\ Goto(t, "denied")
    /\ UNCHANGED <<root, mapped, mappingLock, writableVars, fileVars, threadVars>>

Lock(t) ==
    /\ pc[t] = "lock"
    /\ mappingLock = None
    /\ mappingLock' = t
    /\ CallRoute(t, "exists")
    /\ UNCHANGED <<mappingVars, writableVars, fileVars, path, found, snapshot>>

\* The seed is needed when the renamed file is missing and the original there.
Exists(t) ==
    /\ pc[t] = "exists"
    /\ Goto(t, IF found[t] # None THEN "unlock"
               ELSE IF target[TargetOf[Save(t)]] = "missing" /\ original[Save(t)] # "missing"
               THEN "copy" ELSE "register")
    /\ UNCHANGED <<mappingVars, mappingLock, writableVars, fileVars, threadVars>>

\* Mutant: CopyFileW without bFailIfExists.
CopyOver(t) ==
    /\ pc[t] = "copy"
    /\ target' = [target EXCEPT ![TargetOf[Save(t)]] = original[Save(t)]]
    /\ Goto(t, "register")
    /\ UNCHANGED <<mappingVars, mappingLock, writableVars, original, threadVars>>

\* CopyFileW with bFailIfExists: a file that has appeared meanwhile is kept.
Copy(t) ==
    /\ pc[t] = "copy"
    /\ LET renamed == TargetOf[Save(t)]
       IN target' = IF target[renamed] = "missing"
                    THEN [target EXCEPT ![renamed] = original[Save(t)]] ELSE target
    /\ Goto(t, "register")
    /\ UNCHANGED <<mappingVars, mappingLock, writableVars, original, threadVars>>

\* Mutants: a failed copy is ignored; its save is left to the caller.
CopyFailureIgnored(t) ==
    /\ pc[t] = "copy"
    /\ Goto(t, "register")
    /\ UNCHANGED <<mappingVars, mappingLock, writableVars, fileVars, threadVars>>
CopyFailureUnmapped(t) ==
    /\ pc[t] = "copy"
    /\ mappingLock' = None
    /\ Goto(t, "unmapped")
    /\ UNCHANGED <<mappingVars, writableVars, fileVars, threadVars>>

\* Any other error denies this access and all later ones.
CopyFails(t) ==
    /\ pc[t] = "copy"
    /\ failedToMap' = TRUE
    /\ mappingLock' = None
    /\ Goto(t, "denied")
    /\ UNCHANGED <<root, mapped, writableVars, fileVars, threadVars>>

\* Mutant: the cache keeps its negative answers.
RegisterCached(t) ==
    /\ pc[t] = "register"
    /\ writable' = [writable EXCEPT ![Save(t)] = TargetOf[Save(t)]]
    /\ CallRoute(t, "check")
    /\ UNCHANGED <<mappingVars, mappingLock, cache, fileVars, path, found, snapshot>>

\* vfs_register_writable_path: an entry of the same key is kept; a new one
\* empties the cache.
Register(t) ==
    /\ pc[t] = "register"
    /\ IF writable[Save(t)] = None
       THEN /\ writable' = [writable EXCEPT ![Save(t)] = TargetOf[Save(t)]]
            /\ cache' = [p \in Paths |-> "absent"]
       ELSE UNCHANGED writableVars
    /\ CallRoute(t, "check")
    /\ UNCHANGED <<mappingVars, mappingLock, fileVars, path, found, snapshot>>

\* No memory for the entry.
RegisterFails(t) ==
    /\ pc[t] = "register"
    /\ failedToMap' = TRUE
    /\ mappingLock' = None
    /\ Goto(t, "denied")
    /\ UNCHANGED <<root, mapped, writableVars, fileVars, threadVars>>

\* The registration asks for its own entry.
Check(t) ==
    /\ pc[t] = "check"
    /\ failedToMap' = (failedToMap \/ found[t] = None)
    /\ Goto(t, "unlock")
    /\ UNCHANGED <<root, mapped, mappingLock, writableVars, fileVars, threadVars>>

UnlockMapping(t) ==
    /\ pc[t] = "unlock"
    /\ mappingLock' = None
    /\ Goto(t, IF found[t] # None THEN "open" ELSE "denied")
    /\ UNCHANGED <<mappingVars, writableVars, fileVars, threadVars>>

----------------------------------------------------------------------------
(* route_wide and the open itself.                                          *)

\* PATH_ROUTE_DENIED: the open fails.
Denied(t) ==
    /\ pc[t] = "denied"
    /\ path' = [path EXCEPT ![t] = None]
    /\ found' = [found EXCEPT ![t] = None]
    /\ Goto(t, "idle")
    /\ UNCHANGED <<mappingVars, mappingLock, writableVars, fileVars, back, snapshot>>

\* Not a save for ml_save_mapping_route: the writable table is asked again.
Unmapped(t) ==
    /\ pc[t] = "unmapped"
    /\ CallRoute(t, "open")
    /\ UNCHANGED <<mappingVars, mappingLock, writableVars, fileVars, path, found, snapshot>>

\* The game opens the routed file, or the one it asked for, and may write it.
Open(t) ==
    /\ pc[t] = "open"
    /\ \/ UNCHANGED fileVars
       \/ /\ found[t] # None
          /\ target' = [target EXCEPT ![found[t]] = "game"]
          /\ UNCHANGED original
       \/ /\ found[t] = None
          /\ original' = [original EXCEPT ![Save(t)] = "game"]
          /\ UNCHANGED target
    /\ path' = [path EXCEPT ![t] = None]
    /\ found' = [found EXCEPT ![t] = None]
    /\ Goto(t, "idle")
    /\ UNCHANGED <<mappingVars, mappingLock, writableVars, back, snapshot>>

Step(t) ==
    \/ Look(t) \/ Prefiltered(t) \/ Search(t) \/ SearchFails(t)
    \/ Snapshot(t) \/ NoSource(t) \/ Registered(t) \/ Decide(t) \/ RememberFailed(t)
    \/ Lock(t) \/ Exists(t) \/ Copy(t) \/ CopyFails(t)
    \/ Register(t) \/ RegisterFails(t) \/ Check(t) \/ UnlockMapping(t)
    \/ Denied(t) \/ Unmapped(t) \/ Open(t)

Next == \E t \in Threads : (Step(t) \/ \E p \in Paths : Route(t, p)) /\ UNCHANGED scarce

Spec == Init /\ [][Next]_vars

----------------------------------------------------------------------------
Labels == {"idle", "look", "search", "snapshot", "registered", "decide", "fail",
           "lock", "exists", "copy", "register", "check", "unlock", "denied",
           "unmapped", "open"}

\* The tables, the files and the calls keep their types: a route never answers
\* with anything but a renamed file or NULL.
TypeOK ==
    /\ root \in BOOLEAN /\ mapped \in BOOLEAN /\ failedToMap \in BOOLEAN
    /\ mappingLock \in Threads \cup {None}
    /\ writable \in [Saves -> Targets \cup {None}]
    /\ cache \in [Paths -> Targets \cup {None, "absent"}]
    /\ original \in [Saves -> {"missing", "original", "game"}]
    /\ target \in [Targets -> {"missing", "original", "game"}]
    /\ pc \in [Threads -> Labels]
    /\ path \in [Threads -> Paths \cup {None}]
    /\ found \in [Threads -> Targets \cup {None}]
    /\ scarce \in BOOLEAN
    /\ back \in [Threads -> Labels \cup {None}]
    /\ snapshot \in [Threads -> [root : BOOLEAN, mapped : BOOLEAN, failed : BOOLEAN]]

\* "Requested extensions whose mapping could not be set up; their saves fail
\* closed instead of opening the original files" (save_mapping.c:29): the game
\* never writes an original save once its extension is configured.
OriginalsAreProtected == \A s \in Saves : original[s] # "game"

\* The same as long as there is memory for the paths the hook itself builds,
\* whatever else fails: links, the target path, the copy, the registration.
OriginalsAreProtectedWithMemory == scarce \/ OriginalsAreProtected

\* A renamed save the game has written is never replaced by a copy of the
\* original again, whichever thread seeds it (save_mapping.c:423).
ProgressIsKept ==
    [][\A f \in Targets : target[f] = "game" => target'[f] = "game"]_vars

\* A renamed save starts from the original: no path is routed to a file that
\* does not exist while the original does (save_mapping.c:416-436).
SeededBeforeRouted ==
    \A s \in Saves : writable[s] # None /\ original[s] = "original" =>
        target[writable[s]] # "missing"

\* No cached answer contradicts the table: an entry registered later is never
\* hidden by the negative answer of an earlier look (vfs.c:506), so the thread
\* that registers always finds its own entry (vfs.c:787-791).
CacheAgreesWithTable ==
    /\ \A p \in Paths : cache[p] # "absent" => cache[p] = writable[SaveOf[p]]
    /\ \A t \in Threads : pc[t] = "check" /\ ~scarce => found[t] = TargetOf[Save(t)]

\* A route leads to a seeded save, every thread sees the same route, and none leads to the
\* original as long as there is memory.
RoutesAreSound == SeededBeforeRouted /\ CacheAgreesWithTable /\ OriginalsAreProtectedWithMemory

=============================================================================
