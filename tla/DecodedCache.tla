---------------------------- MODULE DecodedCache ----------------------------
(***************************************************************************)
(* The cache of decoded ZIP entries that all seekable mod files share      *)
(* (modloader/vfs_file.c).  The first read through any file decodes the    *)
(* whole entry into memory, when the budget allows it, or into a temporary *)
(* file.  Files opened for the same entry number share one cache; the last *)
(* one to close leaves the data idle for later opens.  Idle memory is      *)
(* evicted when another decode needs the room, idle temporary files when   *)
(* they exceed their limit, and everything is dropped before the VFS       *)
(* re-points its entry numbers.                                            *)
(*                                                                         *)
(* One action is one critical section of cache_lock, one interlocked       *)
(* operation, or one call that may fail.  Operations on one file are       *)
(* serialised by its caller (zip_hooks.c holds file->lock), so a file is   *)
(* also the thread of control of the operation running on it.              *)
(*                                                                         *)
(* cache->state is `published`: CACHE_MEMORY and CACHE_DISK only record    *)
(* what `data` already tells.  An allocation failure inside cache_acquire  *)
(* changes nothing and is left out.                                        *)
(***************************************************************************)
EXTENDS Integers, FiniteSets, Sequences, SequencesExt

CONSTANTS
  Files,           \* vfs_file_t objects, each with the thread using it
  Caches,          \* vfs_cache_t objects the allocator can hand out (bound)
  Identities,      \* VFS entry numbers
  Packages,        \* ZIP archives that can be added to the VFS
  FirstPackage,    \* the archive that is indexed at the start
  SizeOf,          \* uncompressed size of an entry: SizeOf[package][identity]
  MemoryFileLimit, \* memory_file_limit
  MemoryTotalLimit,\* memory_total_limit
  IdleDiskLimit,   \* idle_disk_limit
  Loader,          \* the thread that changes the VFS index
  None             \* a null pointer

ASSUME ConstantsAssumption ==
  /\ IsFiniteSet(Files) /\ Identities # {}
  /\ Loader \notin Files /\ None \notin Files /\ None \notin Caches
  /\ None \notin Packages /\ FirstPackage \in Packages
  /\ SizeOf \in [Packages -> [Identities -> Nat]]
  /\ MemoryFileLimit \in Nat /\ MemoryTotalLimit \in Nat /\ IdleDiskLimit \in Nat

VARIABLES
  \* fields of a cache object; origin = None while it is not allocated
  ident,      \* cache->identity
  origin,     \* the archive cache->package named when it was created
  retained,   \* cache->package # NULL: the archive is retained
  owner,      \* holder of cache->lock
  published,  \* cache->state # CACHE_EMPTY
  data,       \* "none", or the decoded copy is in "memory" or on "disk"
  refs,       \* cache->references
  idle,       \* cache->idle
  detached,   \* cache->detached
  \* globals
  table,      \* caches, the table from entry number to cache
  idleList,   \* idle_memory and idle_disk, least recently released first
  idleBytes,  \* their byte counters
  memoryUsed, \* memory_used
  lock,       \* holder of cache_lock, when it is held across several steps
  \* fields and operation of a file, and of the loader
  pc,         \* the step a file's operation is at
  cache,      \* file->cache
  store,      \* storage a running decode has set up
  failed,     \* file->error # ERROR_SUCCESS
  doomed,     \* caches an operation took out and destroys after unlocking
  \* the VFS index as far as it matters here, and the thread that changes it
  loader,
  target,     \* the archive each entry number names
  packageRefs,\* reference count of each archive
  zipPackages,\* zip_packages, the archives the VFS keeps open
  pending     \* the archive being inserted

cacheVars == <<ident, origin, retained, owner, published, data, refs, idle, detached>>
listVars  == <<idleList, idleBytes>>
fileVars  == <<pc, cache, store, failed, doomed>>
indexVars == <<loader, target, packageRefs, zipPackages, pending>>
vars == <<cacheVars, table, listVars, memoryUsed, lock, fileVars, indexVars>>

Actors  == Files \cup {Loader}
Backend == {"memory", "disk"}
Held    == {"reserve", "makeroom", "evict", "allocate", "todisk", "decode", "store", "publish"}
FilePC  == {"closed", "open", "wait", "read", "trim", "destroy"} \cup Held
LoaderPC == {"idle", "insert", "uninit", "gone"}

Allocated(c) == origin[c] # None
Size(c) == SizeOf[origin[c]][ident[c]]

-----------------------------------------------------------------------------
(* The helpers of vfs_file.c that run with cache_lock held.                *)

ListOf(c) == IF data[c] = "memory" THEN "memory" ELSE "disk"

Unlink(list, c) == RemoveAt(list, CHOOSE k \in DOMAIN list : list[k] = c)

IdleUnlink(c) ==
  /\ idleList'  = [idleList EXCEPT ![ListOf(c)] = Unlink(@, c)]
  /\ idleBytes' = [idleBytes EXCEPT ![ListOf(c)] = @ - Size(c)]
  /\ idle' = [idle EXCEPT ![c] = FALSE]

IdlePush(c) ==
  /\ idleList'  = [idleList EXCEPT ![ListOf(c)] = Append(@, c)]
  /\ idleBytes' = [idleBytes EXCEPT ![ListOf(c)] = @ + Size(c)]
  /\ idle' = [idle EXCEPT ![c] = TRUE]

CacheForget(c) == table' = [table EXCEPT ![ident[c]] = None]

\* Mutant: the table keeps naming the evicted cache.
IdleEvictKeepsEntry(c) == IdleUnlink(c) /\ UNCHANGED table
IdleEvict(c) == IdleUnlink(c) /\ CacheForget(c)

-----------------------------------------------------------------------------
Init ==
  /\ ident     = [c \in Caches |-> CHOOSE i \in Identities : TRUE]
  /\ origin    = [c \in Caches |-> None]
  /\ retained  = [c \in Caches |-> FALSE]
  /\ owner     = [c \in Caches |-> None]
  /\ published = [c \in Caches |-> FALSE]
  /\ data      = [c \in Caches |-> "none"]
  /\ refs      = [c \in Caches |-> 0]
  /\ idle      = [c \in Caches |-> FALSE]
  /\ detached  = [c \in Caches |-> FALSE]
  /\ table     = [i \in Identities |-> None]
  /\ idleList  = [b \in Backend |-> <<>>]
  /\ idleBytes = [b \in Backend |-> 0]
  /\ memoryUsed = 0
  /\ lock   = None
  /\ pc     = [f \in Files |-> "closed"]
  /\ cache  = [f \in Files |-> None]
  /\ store  = [f \in Files |-> "none"]
  /\ failed = [f \in Files |-> FALSE]
  /\ doomed = [a \in Actors |-> {}]
  /\ loader = "idle"
  /\ target = [i \in Identities |-> FirstPackage]
  /\ packageRefs = [p \in Packages |-> IF p = FirstPackage THEN 1 ELSE 0]
  /\ zipPackages = {FirstPackage}
  /\ pending = None

Goto(f, l) == pc' = [pc EXCEPT ![f] = l]

-----------------------------------------------------------------------------
(* vfs_file_create and cache_acquire.  Packages are added before the hooks *)
(* that open files are installed (config_load precedes gamehook_install),  *)
(* so no file is created while the loader is changing the index.           *)

CreateCache(i, c) ==
  /\ ident'     = [ident EXCEPT ![c] = i]
  /\ origin'    = [origin EXCEPT ![c] = target[i]]
  /\ retained'  = [retained EXCEPT ![c] = TRUE]
  /\ published' = [published EXCEPT ![c] = FALSE]
  /\ data'      = [data EXCEPT ![c] = "none"]
  /\ refs'      = [refs EXCEPT ![c] = 1]
  /\ idle'      = [idle EXCEPT ![c] = FALSE]
  /\ detached'  = [detached EXCEPT ![c] = FALSE]
  /\ packageRefs' = [packageRefs EXCEPT ![target[i]] = @ + 1]

OpenFile(f, c) ==
  /\ pc[f] = "closed" /\ loader = "idle" /\ lock = None
  /\ cache'  = [cache EXCEPT ![f] = c]
  /\ failed' = [failed EXCEPT ![f] = FALSE]
  /\ Goto(f, "open")
  /\ UNCHANGED <<owner, memoryUsed, lock, store, doomed, loader, target, zipPackages, pending>>

OpenNew(f, i, c) ==
  /\ table[i] = None /\ ~Allocated(c)
  /\ OpenFile(f, c)
  /\ CreateCache(i, c)
  /\ table' = [table EXCEPT ![i] = c]
  /\ UNCHANGED listVars

\* Mutant: the reference is not counted.
OpenSharedUncounted(f, i) ==
  /\ table[i] # None
  /\ OpenFile(f, table[i])
  /\ IF idle[table[i]] THEN IdleUnlink(table[i]) ELSE UNCHANGED <<listVars, idle>>
  /\ UNCHANGED <<ident, origin, retained, published, data, refs, detached, table, packageRefs>>

OpenShared(f, i) ==
  /\ table[i] # None
  /\ OpenFile(f, table[i])
  /\ refs' = [refs EXCEPT ![table[i]] = @ + 1]
  /\ IF idle[table[i]] THEN IdleUnlink(table[i]) ELSE UNCHANGED <<listVars, idle>>
  /\ UNCHANGED <<ident, origin, retained, published, data, detached, table, packageRefs>>

-----------------------------------------------------------------------------
(* vfs_file_read_at, cache_prepare and cache_decode.                       *)

\* The unlocked check of cache_prepare.
Prepare(f) ==
  /\ pc[f] = "open" /\ ~failed[f]
  /\ Goto(f, IF published[cache[f]] THEN "read" ELSE "wait")
  /\ UNCHANGED <<cacheVars, table, listVars, memoryUsed, lock, cache, store, failed, doomed, indexVars>>

\* Mutant: the state is not looked at again under the lock.
LockCacheUnchecked(f) ==
  LET c == cache[f] IN
  /\ pc[f] = "wait" /\ owner[c] = None
  /\ owner' = [owner EXCEPT ![c] = f]
  /\ Goto(f, IF Size(c) = 0 THEN "decode" ELSE IF Size(c) > MemoryFileLimit THEN "todisk" ELSE "reserve")
  /\ UNCHANGED <<ident, origin, retained, published, data, refs, idle, detached,
                 table, listVars, memoryUsed, lock, cache, store, failed, doomed, indexVars>>

\* cache->lock is taken and the state checked again; cache_decode starts.
LockCache(f) ==
  LET c == cache[f] IN
  /\ pc[f] = "wait" /\ owner[c] = None
  /\ IF published[c]
       THEN Goto(f, "read") /\ UNCHANGED owner
       ELSE /\ owner' = [owner EXCEPT ![c] = f]
            /\ Goto(f, IF Size(c) = 0 THEN "decode"
                       ELSE IF Size(c) > MemoryFileLimit \/ Size(c) > MemoryTotalLimit THEN "todisk"
                       ELSE "reserve")
  /\ UNCHANGED <<ident, origin, retained, published, data, refs, idle, detached,
                 table, listVars, memoryUsed, lock, cache, store, failed, doomed, indexVars>>

\* try_reserve_memory: its compare-and-swap loop is one step.
TryReserve(f) ==
  LET size == Size(cache[f]) IN
  /\ pc[f] = "reserve"
  /\ IF memoryUsed > MemoryTotalLimit - size
       THEN Goto(f, "makeroom") /\ UNCHANGED memoryUsed
       ELSE Goto(f, "allocate") /\ memoryUsed' = memoryUsed + size
  /\ UNCHANGED <<cacheVars, table, listVars, lock, cache, store, failed, doomed, indexVars>>

RoomCanBeMade(size) ==
  /\ idleList["memory"] # <<>>
  /\ memoryUsed >= idleBytes["memory"]
  /\ memoryUsed - idleBytes["memory"] <= MemoryTotalLimit - size

\* Mutant: without victims the loop goes on.
MakeRoomRetriesAlways(f) ==
  /\ pc[f] = "makeroom" /\ lock = None
  /\ IF RoomCanBeMade(Size(cache[f]))
       THEN LET victim == Head(idleList["memory"]) IN
            /\ IdleEvict(victim)
            /\ doomed' = [doomed EXCEPT ![f] = {victim}]
            /\ Goto(f, "evict")
       ELSE /\ Goto(f, "reserve")
            /\ UNCHANGED <<listVars, idle, table, doomed>>
  /\ UNCHANGED <<ident, origin, retained, owner, published, data, refs, detached,
                 memoryUsed, lock, cache, store, failed, indexVars>>

\* The critical section of reserve_memory that picks a victim.
MakeRoom(f) ==
  /\ pc[f] = "makeroom" /\ lock = None
  /\ IF RoomCanBeMade(Size(cache[f]))
       THEN LET victim == Head(idleList["memory"]) IN
            /\ IdleEvict(victim)
            /\ doomed' = [doomed EXCEPT ![f] = {victim}]
            /\ Goto(f, "evict")
       ELSE /\ Goto(f, "todisk")
            /\ UNCHANGED <<listVars, idle, table, doomed>>
  /\ UNCHANGED <<ident, origin, retained, owner, published, data, refs, detached,
                 memoryUsed, lock, cache, store, failed, indexVars>>

\* Mutant: a failed allocation keeps its reservation.
AllocateKeepsBudget(f) ==
  /\ pc[f] = "allocate"
  /\ \/ store' = [store EXCEPT ![f] = "memory"] /\ Goto(f, "decode")
     \/ Goto(f, "todisk") /\ UNCHANGED store
  /\ UNCHANGED <<cacheVars, table, listVars, memoryUsed, lock, cache, failed, doomed, indexVars>>

\* Allocating the reserved memory; a failure gives the budget back.
Allocate(f) ==
  /\ pc[f] = "allocate"
  /\ \/ /\ store' = [store EXCEPT ![f] = "memory"]
        /\ Goto(f, "decode")
        /\ UNCHANGED memoryUsed
     \/ /\ memoryUsed' = memoryUsed - Size(cache[f])
        /\ Goto(f, "todisk")
        /\ UNCHANGED store
  /\ UNCHANGED <<cacheVars, table, listVars, lock, cache, failed, doomed, indexVars>>

\* cache_decode failed: the storage is released and the file keeps the error.
DecodeFailed(f) ==
  /\ memoryUsed' = IF store[f] = "memory" THEN memoryUsed - Size(cache[f]) ELSE memoryUsed
  /\ store'  = [store EXCEPT ![f] = "none"]
  /\ owner'  = [owner EXCEPT ![cache[f]] = None]
  /\ failed' = [failed EXCEPT ![f] = TRUE]
  /\ Goto(f, "open")

\* create_disk_cache and the staging buffer.
CreateDisk(f) ==
  /\ pc[f] = "todisk"
  /\ \/ /\ store' = [store EXCEPT ![f] = "disk"]
        /\ Goto(f, "decode")
        /\ UNCHANGED <<memoryUsed, owner, failed>>
     \/ DecodeFailed(f)
  /\ UNCHANGED <<ident, origin, retained, published, data, refs, idle, detached,
                 table, listVars, lock, cache, doomed, indexVars>>

\* Opening the ZIP stream and decoding, checking and writing every byte.
Decode(f) ==
  /\ pc[f] = "decode"
  /\ \/ Goto(f, "store") /\ UNCHANGED <<store, memoryUsed, owner, failed>>
     \/ DecodeFailed(f)
  /\ UNCHANGED <<ident, origin, retained, published, data, refs, idle, detached,
                 table, listVars, lock, cache, doomed, indexVars>>

\* Mutant: the archive is released, the pointer to it is kept.
StoreDataKeepsPointer(f) ==
  LET c == cache[f] IN
  /\ pc[f] = "store"
  /\ data' = [data EXCEPT ![c] = store[f]]
  /\ packageRefs' = [packageRefs EXCEPT ![origin[c]] = @ - 1]
  /\ store' = [store EXCEPT ![f] = "none"]
  /\ Goto(f, "publish")
  /\ UNCHANGED <<ident, origin, retained, owner, published, refs, idle, detached, table, listVars,
                 memoryUsed, lock, cache, failed, doomed, loader, target, zipPackages, pending>>

\* The decoded data is handed to the cache, which no longer needs its archive.
StoreData(f) ==
  LET c == cache[f] IN
  /\ pc[f] = "store"
  /\ data' = [data EXCEPT ![c] = store[f]]
  /\ retained' = [retained EXCEPT ![c] = FALSE]
  /\ packageRefs' = [packageRefs EXCEPT ![origin[c]] = @ - 1]
  /\ store' = [store EXCEPT ![f] = "none"]
  /\ Goto(f, "publish")
  /\ UNCHANGED <<ident, origin, owner, published, refs, idle, detached, table, listVars,
                 memoryUsed, lock, cache, failed, doomed, loader, target, zipPackages, pending>>

\* The state is exchanged last; cache->lock is released.
Publish(f) ==
  /\ pc[f] = "publish"
  /\ published' = [published EXCEPT ![cache[f]] = TRUE]
  /\ owner' = [owner EXCEPT ![cache[f]] = None]
  /\ Goto(f, "read")
  /\ UNCHANGED <<ident, origin, retained, data, refs, idle, detached, table, listVars,
                 memoryUsed, lock, cache, store, failed, doomed, indexVars>>

\* cache_read, which takes no lock.
Read(f) ==
  /\ pc[f] = "read"
  /\ Goto(f, "open")
  /\ UNCHANGED <<cacheVars, table, listVars, memoryUsed, lock, cache, store, failed, doomed, indexVars>>

-----------------------------------------------------------------------------
(* vfs_file_close, cache_release and cache_destroy.                        *)

\* Mutant: temporary files of any size stay idle.
KeepableAnySize(c) == data[c] # "none"
Keepable(c) == data[c] = "memory" \/ (data[c] = "disk" /\ Size(c) <= IdleDiskLimit)

\* The count stays above zero: another file still uses the cache.
CloseShared(f) ==
  LET c == cache[f] IN
  /\ pc[f] = "open" /\ lock = None
  /\ refs[c] # 1
  /\ refs' = [refs EXCEPT ![c] = @ - 1]
  /\ cache' = [cache EXCEPT ![f] = None]
  /\ Goto(f, "closed")
  /\ UNCHANGED <<ident, origin, retained, owner, published, data, idle, detached,
                 table, listVars, memoryUsed, lock, store, failed, doomed, indexVars>>

\* The last file leaves the data idle, and holds the lock while it trims.
CloseIdle(f) ==
  LET c == cache[f] IN
  /\ pc[f] = "open" /\ lock = None
  /\ refs[c] = 1 /\ ~detached[c] /\ Keepable(c)
  /\ refs' = [refs EXCEPT ![c] = 0]
  /\ cache' = [cache EXCEPT ![f] = None]
  /\ IdlePush(c)
  /\ IF idleBytes'["disk"] > IdleDiskLimit
       THEN lock' = f /\ Goto(f, "trim")
       ELSE UNCHANGED lock /\ Goto(f, "closed")
  /\ UNCHANGED <<ident, origin, retained, owner, published, data, detached,
                 table, memoryUsed, store, failed, doomed, indexVars>>

\* One round of the trimming loop; the lock is released with the last one.
\* The code does not look for an empty list; IdleBytesExact says it need not.
Trim(f) ==
  LET victim == Head(idleList["disk"]) IN
  /\ pc[f] = "trim" /\ lock = f /\ idleList["disk"] # <<>>
  /\ IdleEvict(victim)
  /\ doomed' = [doomed EXCEPT ![f] = @ \cup {victim}]
  /\ IF idleBytes'["disk"] > IdleDiskLimit
       THEN UNCHANGED <<lock, pc>>
       ELSE lock' = None /\ Goto(f, "destroy")
  /\ UNCHANGED <<ident, origin, retained, owner, published, data, refs, detached,
                 memoryUsed, cache, store, failed, indexVars>>

\* Undecoded, empty, too large to keep, or named by a dropped table.
CloseUnused(f) ==
  LET c == cache[f] IN
  /\ pc[f] = "open" /\ lock = None
  /\ refs[c] = 1 /\ (detached[c] \/ ~Keepable(c))
  /\ refs' = [refs EXCEPT ![c] = 0]
  /\ cache' = [cache EXCEPT ![f] = None]
  /\ IF detached[c] THEN UNCHANGED table ELSE CacheForget(c)
  /\ doomed' = [doomed EXCEPT ![f] = {c}]
  /\ Goto(f, "destroy")
  /\ UNCHANGED <<ident, origin, retained, owner, published, data, idle, detached,
                 listVars, memoryUsed, lock, store, failed, indexVars>>

\* Where an operation goes once its chain is destroyed.
AfterDestroy == [l \in {"evict", "destroy"} |-> IF l = "evict" THEN "reserve" ELSE "closed"]

\* cache_destroy of one cache of a chain, with cache_lock released.
Destroy(a, c) ==
  /\ c \in doomed[a] /\ lock # a
  /\ doomed' = [doomed EXCEPT ![a] = @ \ {c}]
  /\ memoryUsed' = IF data[c] = "memory" THEN memoryUsed - Size(c) ELSE memoryUsed
  /\ packageRefs' = IF retained[c] THEN [packageRefs EXCEPT ![origin[c]] = @ - 1] ELSE packageRefs
  /\ origin' = [origin EXCEPT ![c] = None]
  /\ retained' = [retained EXCEPT ![c] = FALSE]
  /\ data' = [data EXCEPT ![c] = "none"]
  /\ published' = [published EXCEPT ![c] = FALSE]
  /\ detached' = [detached EXCEPT ![c] = FALSE]
  /\ IF a \in Files /\ doomed[a] = {c}
       THEN Goto(a, AfterDestroy[pc[a]])
       ELSE UNCHANGED pc
  /\ UNCHANGED <<ident, owner, refs, idle, table, listVars, lock, cache, store,
                 failed, loader, target, zipPackages, pending>>

-----------------------------------------------------------------------------
(* The loader: vfs_insert_package and vfs_uninit.                          *)

\* Mutant: caches in use stay in the table.
DropIdleCaches ==
  /\ lock = None /\ doomed[Loader] = {}
  /\ table' = [i \in Identities |-> IF table[i] # None /\ idle[table[i]] THEN None ELSE table[i]]
  /\ doomed' = [doomed EXCEPT ![Loader] = {c \in Caches : idle[c]}]
  /\ idle' = [c \in Caches |-> FALSE]
  /\ idleList'  = [b \in Backend |-> <<>>]
  /\ idleBytes' = [b \in Backend |-> 0]
  /\ UNCHANGED detached

\* Mutant: caches in use are not detached.
DropWithoutDetaching ==
  /\ lock = None /\ doomed[Loader] = {}
  /\ table' = [i \in Identities |-> None]
  /\ doomed' = [doomed EXCEPT ![Loader] = {c \in Caches : idle[c]}]
  /\ idle' = [c \in Caches |-> FALSE]
  /\ idleList'  = [b \in Backend |-> <<>>]
  /\ idleBytes' = [b \in Backend |-> 0]
  /\ UNCHANGED detached

\* vfs_file_drop_caches, up to the point where it unlocks.
DropCaches ==
  /\ lock = None /\ doomed[Loader] = {}
  /\ table' = [i \in Identities |-> None]
  /\ detached' = [c \in Caches |-> detached[c] \/ (\E i \in Identities : table[i] = c /\ ~idle[c])]
  /\ doomed' = [doomed EXCEPT ![Loader] = {c \in Caches : idle[c]}]
  /\ idle' = [c \in Caches |-> FALSE]
  /\ idleList'  = [b \in Backend |-> <<>>]
  /\ idleBytes' = [b \in Backend |-> 0]

\* A package is opened, and inserting it first drops the decoded caches.
InsertPackage(p) ==
  /\ loader = "idle" /\ p \notin zipPackages
  /\ pending' = p
  /\ packageRefs' = [packageRefs EXCEPT ![p] = @ + 1]
  /\ DropCaches
  /\ loader' = "insert"
  /\ UNCHANGED <<ident, origin, retained, owner, published, data, refs, memoryUsed, lock,
                 pc, cache, store, failed, target, zipPackages>>

\* The entries it overrides are re-pointed; or all of it is undone and the
\* package closed.
PointEntries(overridden) ==
  /\ loader = "insert" /\ doomed[Loader] = {}
  /\ \/ /\ target' = [i \in Identities |-> IF i \in overridden THEN pending ELSE target[i]]
        /\ zipPackages' = zipPackages \cup {pending}
        /\ UNCHANGED packageRefs
     \/ /\ packageRefs' = [packageRefs EXCEPT ![pending] = @ - 1]
        /\ UNCHANGED <<target, zipPackages>>
  /\ pending' = None
  /\ loader' = "idle"
  /\ UNCHANGED <<cacheVars, table, listVars, memoryUsed, lock, fileVars>>

\* vfs_uninit drops the caches, then closes the archives.
Uninit ==
  /\ loader = "idle"
  /\ DropCaches
  /\ loader' = "uninit"
  /\ UNCHANGED <<ident, origin, retained, owner, published, data, refs, memoryUsed, lock,
                 pc, cache, store, failed, target, packageRefs, zipPackages, pending>>

ClosePackages ==
  /\ loader = "uninit" /\ doomed[Loader] = {}
  /\ packageRefs' = [p \in Packages |-> IF p \in zipPackages THEN packageRefs[p] - 1 ELSE packageRefs[p]]
  /\ zipPackages' = {}
  /\ loader' = "gone"
  /\ UNCHANGED <<cacheVars, table, listVars, memoryUsed, lock, fileVars, target, pending>>

-----------------------------------------------------------------------------
FileStep(f) ==
  \/ Prepare(f) \/ LockCache(f) \/ TryReserve(f) \/ MakeRoom(f) \/ Allocate(f)
  \/ CreateDisk(f) \/ Decode(f) \/ StoreData(f) \/ Publish(f) \/ Read(f)
  \/ CloseShared(f) \/ CloseIdle(f) \/ Trim(f) \/ CloseUnused(f)

Open(f) ==
  \E i \in Identities : OpenShared(f, i) \/ \E c \in Caches : OpenNew(f, i, c)

LoaderStep ==
  \/ \E p \in Packages : InsertPackage(p)
  \/ \E overridden \in SUBSET Identities : PointEntries(overridden)
  \/ Uninit \/ ClosePackages

Next ==
  \/ \E f \in Files : Open(f) \/ FileStep(f)
  \/ \E a \in Actors, c \in Caches : Destroy(a, c)
  \/ LoaderStep

Spec == Init /\ [][Next]_vars

(***************************************************************************)
(* Fairness.  The code of one operation runs without waiting for anything  *)
(* but the two locks, so the system's scheduler keeps each running step    *)
(* going.  Nothing obliges a game to read, open or close a file, and no    *)
(* step is promised a success.  An SRW lock makes no promise of order, so  *)
(* a waiter is only promised that it is served if the lock is free often   *)
(* enough (strong fairness).                                               *)
(***************************************************************************)
Running(f) ==
  \/ TryReserve(f) \/ Allocate(f) \/ CreateDisk(f) \/ Decode(f) \/ StoreData(f)
  \/ Publish(f) \/ Read(f) \/ Trim(f) \/ \E c \in Caches : Destroy(f, c)

Fairness ==
  \A f \in Files : WF_vars(Running(f)) /\ SF_vars(LockCache(f)) /\ SF_vars(MakeRoom(f))

FairSpec == Spec /\ Fairness
-----------------------------------------------------------------------------
CacheTypes ==
  /\ ident \in [Caches -> Identities]
  /\ origin \in [Caches -> Packages \cup {None}]
  /\ retained \in [Caches -> BOOLEAN]
  /\ owner \in [Caches -> Files \cup {None}]
  /\ published \in [Caches -> BOOLEAN]
  /\ data \in [Caches -> Backend \cup {"none"}]
  /\ refs \in [Caches -> Nat]
  /\ idle \in [Caches -> BOOLEAN]
  /\ detached \in [Caches -> BOOLEAN]

ListTypes ==
  /\ table \in [Identities -> Caches \cup {None}]
  /\ idleList \in [Backend -> Seq(Caches)]
  /\ idleBytes \in [Backend -> Int]
  /\ memoryUsed \in Int
  /\ lock \in Files \cup {None}

FileTypes ==
  /\ pc \in [Files -> FilePC]
  /\ cache \in [Files -> Caches \cup {None}]
  /\ store \in [Files -> Backend \cup {"none"}]
  /\ failed \in [Files -> BOOLEAN]
  /\ doomed \in [Actors -> SUBSET Caches]

IndexTypes ==
  /\ loader \in LoaderPC
  /\ target \in [Identities -> Packages]
  /\ packageRefs \in [Packages -> Int]
  /\ zipPackages \in SUBSET Packages
  /\ pending \in Packages \cup {None}

\* Every field of vfs_cache_t and vfs_file_t, the lists and the table keep their
\* types; the references of a cache never fall below zero.
TypeOK == CacheTypes /\ ListTypes /\ FileTypes /\ IndexTypes

Users(c) == {f \in Files : cache[f] = c}
Doomed(c) == \E a \in Actors : c \in doomed[a]
Elements(b) == {idleList[b][k] : k \in DOMAIN idleList[b]}
Total(set) == SumFunctionOnSet([c \in Caches |-> Size(c)], set)

\* The reference count of a cache is the number of files that use it, so a
\* cache is destroyed neither while a file may read it (use after free) nor
\* by two operations, and none that nobody can reach again is kept (leak).
\* Every acquire, release, eviction and drop has to agree for this.
ReferencesAreExact ==
  \A c \in Caches :
    /\ Allocated(c) => refs[c] = Cardinality(Users(c))
    /\ Users(c) # {} => Allocated(c) /\ ~Doomed(c)
    /\ Doomed(c) => /\ Allocated(c)
                    /\ \A a, b \in Actors : c \in doomed[a] \cap doomed[b] => a = b
    /\ Allocated(c) /\ Users(c) = {} => Doomed(c) \/ table[ident[c]] = c

\* "A cache in the table that no file uses is idle" (vfs_file.c:67): the idle
\* caches are exactly the unused ones of the table, each linked once, in the
\* list of the backend that holds its data, whatever happened since.
TableAndIdleAgree ==
  /\ \A i \in Identities : table[i] # None =>
       /\ Allocated(table[i]) /\ ident[table[i]] = i
       /\ ~detached[table[i]] /\ ~Doomed(table[i])
  /\ \A c \in Caches : idle[c] <=> Allocated(c) /\ table[ident[c]] = c /\ refs[c] = 0
  /\ \A b \in Backend :
       /\ IsInjective(idleList[b])
       /\ Elements(b) = {c \in Caches : idle[c] /\ data[c] = b}

\* memory_used counts every byte of decoded memory, of running decodes and of
\* evicted caches that are not freed yet, and stays within the total limit
\* however reservations, failures and evictions interleave.
MemoryBudgetExact ==
  /\ memoryUsed = Total({c \in Caches : data[c] = "memory"})
                + Total({cache[f] : f \in {g \in Files : store[g] = "memory" \/ pc[g] = "allocate"}})
  /\ memoryUsed <= MemoryTotalLimit

\* The byte counters of the idle lists match the linked caches, so the
\* trimming loop never runs out of caches, and outside of it the idle
\* temporary files fit their limit.
IdleBytesExact ==
  /\ \A b \in Backend : idleBytes[b] = Total(Elements(b))
  /\ lock = None => idleBytes["disk"] <= IdleDiskLimit
  /\ lock # None => Len(idleList["disk"]) > 1

\* No reservation, failure, eviction or trim loses a byte of the two accounts the
\* limits are enforced by (vfs_file.c:143-170, 348-366).
BytesAreExact == MemoryBudgetExact /\ IdleBytesExact

\* One decode at a time per cache, by a file that uses it, and only while the
\* cache has no data yet: no second decode can replace what others read, and a
\* read only starts on a cache whose whole entry is decoded, although
\* cache_read takes no lock (vfs_file.c:278-284).
OneDecoder ==
  \A f \in Files :
    /\ pc[f] \in Held => /\ owner[cache[f]] = f /\ ~published[cache[f]]
                         /\ data[cache[f]] # "none" => pc[f] = "publish"
    /\ pc[f] = "read" => /\ published[cache[f]]
                         /\ Size(cache[f]) # 0 => data[cache[f]] # "none"

\* An archive stays open exactly as long as the VFS, an insertion or a cache
\* that is still to be decoded needs it, across drops and vfs_uninit; so a
\* failed decode "can be retried" (vfs_file.c:25) through another file.
PackagesStayOpen ==
  /\ \A p \in Packages :
       packageRefs[p] = Cardinality({c \in Caches : retained[c] /\ origin[c] = p})
                      + (IF p \in zipPackages THEN 1 ELSE 0) + (IF p = pending THEN 1 ELSE 0)
  /\ \A c \in Caches : Allocated(c) =>
       (retained[c] <=> ~published[c] /\ \A f \in Users(c) : pc[f] # "publish")

\* Decoding has one writer and an open archive (vfs_file.c:196, :278).
DecodesAreSafe == OneDecoder /\ PackagesStayOpen

\* The detailed state seen by module PrivateFiles.
Private == INSTANCE PrivateFiles WITH
  view <- [f \in Files |-> IF cache[f] = None THEN <<>>
                           ELSE <<ident[cache[f]], origin[cache[f]]>>]

\* What a file reads is private to it: for as long as it is open, it sees the
\* archive entry its number named when it was opened, although it shares a
\* cache with others and the number may be re-pointed (vfs_file.c:370-393).
SharingIsInvisible == Private!Spec

AnyOpen == \E f \in Files : Open(f)

\* Once no more files are opened, every read that started finishes: neither
\* the eviction loop (vfs_file.c:151-166) nor the wait for another decoder
\* goes on forever.
ReadsComplete ==
  []<><<AnyOpen>>_vars \/ \A f \in Files : pc[f] \in Held \cup {"wait"} ~> pc[f] \in {"open", "read"}

=============================================================================
