# Verification of YAFSML

TLA+ specifications of YAFSML, the FromSoftware mod loader of this repository. The modules are translated from
the C sources under `src/src/`, model-checked with TLC on small instances, and in part proved with TLAPS for
every value of their constants. `PROJECT.json` is the index: the components, the runs, the source lines each
definition stands for, the mutated definitions that show each property can fail, the hazards and the theorems.
Paths below are relative to `src/src/modloader/` unless they begin with `src/`.

    tlc -workers 2 -config DecodedCache.cfg MCDecodedCache           # model-check one run
    tlapm DecodedCacheProofs.tla                                     # check the proofs of one module

## 1. Inventory

YAFSML is a DLL that is loaded into a game (Elden Ring, Nightreign, Dark Souls III, ...) by a launcher or as a
proxy of a system DLL. It redirects the game's file accesses to mods (directories and ZIP archives), loads
further DLLs at defined points of the start-up, renames save files and installs a number of hooks and patches.

| component | source | state it keeps | operations | what is hard about it |
|---|---|---|---|---|
| Decoded cache of ZIP entries | `vfs_file.c` | a table from entry number to a reference-counted decoded copy, two idle lists with byte counts, the memory budget, one lock | open, first read (decode), close, evict, trim, drop all | every thread of the game; a lock per cache and a global lock; decodes fail; archives are released early |
| ZIP packages and streams | `zip_package.c` | a reference count per archive; a cursor, a CRC and an error per stream | open, retain, release, read, decode | errors after data was returned; the end marker |
| VFS index and lookup caches | `vfs.c`, `mod.c` | the entries with their numbers, the table from name to number, archives, two lookup caches with a generation | add a package, undo it, freeze, look up, reset the caches, uninit | undo after a failure in the middle; cached answers that outlive a reset |
| Writable paths | `vfs.c` | a table from save path to file and a cache of its answers | register, route | registration races the lookups that cache negative answers |
| ZIP file handles | `patches/zip_hooks.c` | a table from handle value to file object, counts, the running calls | open, read, map, duplicate, close, close all | handle values are reused, also behind the hooks; shutdown with calls inside |
| Win32 file hooks | `patches/win32_hooks.c`, `hook.c`, `hook_batch.c` | which hooks are installed | install, remove, route an open | partial installation, removal while calls run |
| Save mapping | `patches/save_mapping.c` | mapped and failed extensions, the resolved save folder, one lock | resolve the folder, route a save, seed the renamed file | every step may fail; a failure must not open the original |
| External DLLs | `extdll.c`, `modloader.c` | the array of DLLs with stages and dependencies, load order, worker and its events | sort, promote, defer, load by stage, unload | order over two threads and three passes; data readiness at any time |
| Lifecycle phases | `lifecycle.c` | observers and reached phases | register, advance, reset | callbacks register and advance; the phase is marked without the lock |
| Game hooks, runtime and data readiness | `gamehook.c`, `patches/adapter.c`, `patches/runtime_ready.c`, `patches/data_ready.c` | set-up state 0/1/2, per hook a counter of callers, a lock and the original | install, retry, report, remove | the set-up is tried again from the hook; a hook is removed while the game runs through it |
| Asset hooks and game devices | `patches/asset_hooks.c`, `patches/asset_sig.c`, `patches/dl_device.c` | hooked methods of game objects in a growing table, decrypted directories in cache files | mount with a stub and a cached directory, redirect opens, install, roll back | the game mounts while the manager is unlocked; opens run while the table grows; every step may fail after the stub is mounted |
| Common game set-up | `patches/common.c` and one file per patch | bytes written over the game's code, one worker, hooked functions | install, defer, restore | what failed half-way must be known to the unload; consumers before the assets |
| Allocators | `patches/allocator.c`, `mimalloc_allocator.c` | the dedicated heap and its arena, a table of the game and two hooks | create with fallbacks, replace together, roll back | a fallback must give back what the attempt before it took |
| CPU sets | `src/src/process/cpu_sets.c`, `util.c` | what the process was given | choose the cores of the game | classes, groups and sets of other processes |
| Configuration | `config.c`, `path_convert.c` | the options | parse | text |
| Proxy DLLs | `proxy/*.c` | a table of forwarded functions | forward | none |
| Log | `src/src/common/log.c` | a file | append | none |
| Launcher | `src/src/launcher/*.c` | one launch: arguments, the suspended game, remote threads and memory | find the game, create, load the DLL, initialise, resume | every call may fail and the game may die; nothing of it may stay |
| Steam library | `src/src/steam/*.c` | tokens, open blocks, the tree | parse VDF texts, find a game in the libraries | conditionals, malformed text and missing memory at any token |
| Process analysis | `src/src/process/*.c` | none | pattern and type searches | sequential, input is the game's image |
| Arxan removal | `src/src/dearxan/*.c` | callbacks of several DLLs in shared memory, patched code | schedule, drain, suspend, analyse, patch | who drains the queue depends on how the process was made; several modules race |
| Game registry | `src/src/game/*.c` | constants | look up | none |

How they interact. `modloader.c` runs the lifecycle: before the game's `main` the configuration is read, the
DLLs are prepared and the early ones loaded, packages are added to the VFS and the file hooks are installed. A
hook on `SteamAPI_Init` advances the next phase; its observers install the game's hooks and load the normal
DLLs; a step of the game reports that its data are read, which releases the worker that loads the deferred
DLLs. From then on the game's threads enter through the Win32 hooks: a path goes through the save mapping, the
writable table and the VFS index, and for an entry of an archive a ZIP handle is opened that reads from the
decoded cache, which decodes through the archive. The VFS index drops the decoded cache when it re-points
entries; unloading closes all handles, then the index, then the archives.

What makes each part correct:

* **Decoded cache**: no cache is freed under a user and none is leaked; a read returns the entry's bytes of
  the archive that was current when the file was opened; the memory budget is kept; the entry is decoded by
  one thread; idle data is bounded; reads end.
* **VFS index**: a package is added as a whole or not at all; numbers given to the game keep their meaning; a
  cached answer is never that of an earlier index.
* **ZIP handles**: a handle leads to its own file for as long as the program may use it; the share modes of
  the files that are open are compatible; shutdown waits for running calls and leaves nothing.
* **Save mapping**: an original save is never written once its extension is configured; a renamed one is
  seeded before it is used and never seeded again over progress.
* **External DLLs**: no DLL is tried before its dependencies; stages are respected; a failing early DLL stops
  the rest; unloading ends and goes against the load order.
* **Archive mounts**: an archive the game is told is mounted is there once, with its own directory, whatever
  failed and whatever an earlier start left in the cache.
* **File hooks and handles**: ZIP handles are only given out while every hook on handles is in; a hook that
  could not be removed is known; a save whose mapping is wanted never reaches the original.
* **Readiness**: the set-up runs on one thread at a time, a phase means what its name says, no trampoline is
  freed under a caller that is counted, and the removal ends.
* **Start-up**: later DLLs need the early ones, consumers run before the assets are hooked, what is reported
  as done is done, and no patched byte is forgotten.
* **Arxan removal**: scheduled callbacks run once, in order and before `main`; who waits is served; the
  neutering is done once.
* **Launcher**: the game runs initialised or not at all; a failed launch leaves no process and names its
  cause.
* **Lifecycle**: every accepted observer is called once, in order, also when its phase is reached at that
  moment.

The hazards that matter most, with their lines and the properties that cover them, are `hazards` in
`PROJECT.json`; section 4 has those the code is exposed to and no property covers.

## 2. Modules and how they correspond to the code

    MCDecodedCache  DecodedCache --refines--> PrivateFiles            DecodedCacheProofs
    MCVfs           VfsIndex --refines--> OverrideMap, AssetHooks     VfsIndexProofs, HookProofs
    MCSaveMapping   SaveMapping (for the finding)
    MCExtDll        ExtDll --extends--> ExtDllOrder                   LoadProofs
    Lifecycle       (its own run)                                     BootProofs
    Readiness       (its own run)                                     ReadinessProofs
    MCParts         ZipHandles, ZipStream, VfsFile, Launcher,         ZipProofs, HookProofs,
                    ExtDllOrder, PathHooks, Win32Hooks            LoadProofs
    MCBootBoost     BootBoost, Vdf (with VdfConditionals), Allocators BootProofs, LoadProofs,
                                                                      HookProofs
    MCStartup       ArxanSchedule, Startup --extends--> Selections,   StartupProofs, HookProofs
                    SaveMapping

The modules behind one MC module on a line share no state. `MCVfs`, `MCParts`, `MCBootBoost` and
`MCStartup` choose one of them in the initial state (`part`) and explore it alone, so that such a run is the sum of the runs of its
modules, not their product; the variables of the others keep an initial value. What makes a part smaller than
its module (settings, worlds, callers) is in the initial predicate of the MC module, with a comment.
`MCZipHandles` runs ZipHandles alone for the finding about share modes.

A definition whose comment begins with "Mutant:" is not part of any specification: it is a mutated form of a
definition that follows it, kept to show that a property depends on that line of the code. The pairs are
listed under `mutants`.

### DecodedCache (`vfs_file.c`)

One action is one critical section of `cache_lock`, one interlocked operation or one call that may fail.
Operations on one file are serialised by its caller (`zip_hooks.c` holds `file->lock`), so a file is also the
thread of its running operation and `pc[f]` is where that operation stands.

| code | model |
|---|---|
| `vfs_file_create`, `cache_acquire` | `OpenNew`, `OpenShared` (an idle cache leaves the idle list) |
| `cache_prepare`: the unlocked look at `state`, `cache->lock`, the second look | `Prepare`, `LockCache` |
| `memory_reserve` with its eviction loop | `TryReserve`, `MakeRoom`, `Destroy` from "evict", again `TryReserve` |
| allocation, temporary file, decoding, storing, publication | `Allocate`, `CreateDisk`, `DecodeFailed`, `Decode`, `StoreData`, `Publish` |
| `vfs_file_read` | `Read` |
| `cache_release`: shared, idle with trimming, unused | `CloseShared`, `CloseIdle`, `Trim`, `CloseUnused`, `Destroy` |
| `vfs_file_drop_caches`, called by `vfs_insert_package` | `DropCaches`, then `PointEntries` |
| `vfs_uninit` | `Uninit`, `DropCaches`, `ClosePackages` |

`cache->state` is `published`; which of the two storages is used is `data`. `doomed` holds the caches an
operation has taken out of the table under the lock and destroys after it. Contents are abstracted to the
archive they come from, sizes to small numbers.

`PrivateFiles` is what the sharing must be invisible against: every file reads the entry of the archive that
was indexed when it was opened. `SharingIsInvisible` is the refinement.

### VfsIndex (`vfs.c`), and OverrideMap

`AddPackage`, `Insert`, `InsertFails`, `Undo`, `GiveUp` and `Commit` are `vfs_add_package` and
`vfs_insert_package` with its undo loop; `Freeze`, `BeginLookupReset` and `ResetLookupCaches` are the change
of generation. A lookup is `Lookup`, `LookInCache`, `Search` and `CacheAnswer`, because it reads the
generation, searches without a lock and inserts under one. `OpenFile` is an open that shares a decoded file,
`Uninit` the end of the session. `heap` is the set of allocated path strings, `previous` the undo records.
`OverrideMap` says what adding packages is for: a function from name to the last package that carries it,
changed by a whole package at a time. `PackagesAreAtomic` is the refinement, with the mapping that hides the
package in progress.

### ZipHandles (`patches/zip_hooks.c`)

A call of a hook is a chain of actions over `pc[t]`: `handle_get` (lookup and reference in one critical
section of `handles_lock`), the work, the release, `operation_leave` and its wake-up. An open creates its
event outside the lock and inserts under it, checking share modes; `duplicate_hooked` looks up, duplicates the
event and inserts in three steps; `close_hooked` removes the entry, releases and closes.
`ml_zip_file_close_all` is `phase`: it stops accepting, waits until no call is inside (`asleep` is its wait on
the condition variable), takes the entries and releases them. The environment may close a handle behind the
hooks (`NtClose`), after which the system may give its value to the next open.

### SaveMapping (`patches/save_mapping.c`, writable table of `vfs.c`, `route_wide` of `patches/win32_hooks.c`)

A call of the hooked `CreateFile` looks in the writable table, takes a snapshot of the mapping state, looks
again, and if the save is mapped and not registered takes `mapping_lock`, looks a third time, seeds the
renamed file and registers it. Every call into the system may fail; `scarce` says whether memory may run out
in this behaviour. Link resolution is nondeterministic.

### ExtDllOrder and ExtDll (`extdll.c`, callbacks of `modloader.c`, trigger of `gamehook.c`)

`ExtDllOrder` is `extdlls_prepare`: one action is one move of the sort, one turn of the promotion loop, one
turn of the deferral loop, or a failure of the allocations. `ExtDll` adds the passes of the main thread over
the array, the worker with its two events, the report of data readiness and `extdlls_unload_all`. A DLL is its
index in the configuration. `NoGameContext` is the early return of `extdlls_load`: the game is not recognised, and
nothing is loaded at all. `extdlls_unload_all` is called by `DllMain` when the loader is freed while the process
lives (`modloader.c:184-192`), and so under the loader lock of Windows: `LoaderLocked` is true from `CancelWorker`
until `Unloaded`, and the steps of the worker that need that lock, to begin (`WorkerStarts`), to load
(`WorkerLoad`) and to end (`WorkerExits`), are disabled meanwhile. Its other steps are not: it still sees the
cancel event, and returns.

### Lifecycle (`lifecycle.c`)

`OnPhase` takes the lock, `Accept`/`Refuse` look at `reached` under it; `Advance` marks the phase without the
lock, `Take` takes the next observer under it, and the callback runs without it and may itself use the
registry (`walk` is the stack of loops a thread is in). `Reset` is `ml_lifecycle_uninit`.

### VfsFile (`vfs_file.c`) and ZipStream (`zip_package.c`)

`VfsFile` is the cursor of an open file: `vfs_file_seek` and `vfs_file_read` with integers of at most `MaxInt`, so
that the comparisons of signed with unsigned values, the wrap-around and the ends of the range all occur;
cached files share one cache whose decode may fail for one file and succeed for the next, a streaming file
reads on from where it is and keeps its error. `ZipStream` is `zip_package_stream_open` and the loop of
`zip_package_stream_read`: an entry is a sequence of units that yield a byte, nothing, the end marker or
damage, read in requests of several sizes through a buffer of `Chunk` units.

### AssetHooks and PathHooks (`patches/asset_hooks.c`)

`FileStep` installs the disk hooks before the original and the mount hooks after it, with the rollback of
each; `MountArchive` ... `Unlock` is a mount that hooks the open function of a device it has not seen: it is
published in the table before it is enabled (`Publish`, `Create`, `Enable`), and `OpenEbl`, `LookUp`,
`Redirect` is an open that searches the table without the lock. `PathHooks` is the disk device: the first
thread that gets a file operator hooks its SetPath functions while the others wait for the answer
(`set_path_hook`).

### Win32Hooks (`patches/win32_hooks.c`, `hook.c`, `hook_batch.c`)

`Install` ... `PathHooksRolledBack` are `ml_win32_file_hooks_install` with both batches; `Uninstall` ...
`SaveMappingUninit` the removal, which is tried again when a hook stays. The calls of the game
(`BeginCreateFile`, `EndCreateFile`, `DeleteFile`, `MoveLike`, ...) go through whatever is hooked when they
begin. A path is the kind of file it names.

### Readiness (`patches/runtime_ready.c`, `patches/adapter.c`, `patches/data_ready.c`, steps of `patches/asset_hooks.c`)

`BeginsAgain` and `InitSucceeds` are the hook of `SteamAPI_Init`, `SetUp` what its callback installs and when
it gives up. A detour is `CallStep`, `Count`, `Share`, `RunOriginal`, `Report`, `Unshare`, `Uncount`, one
action per counter, lock or call. The removal locks, disables, waits for the counter and frees, hook after
hook. `late` marks a thread that read the detour before the hook was disabled and counts itself in after the
drain: the code cannot see it, and `CountedCallersKeepTheirOriginal` is about the others.

### Startup and Selections (`modloader.c`, `gamehook.c`, `patches/common.c`, `patches/adapter.c` and the small patches)

`LoaderStep` is the thread in `modloader_init`: attach, registration (`Wanted`), file routing, IME, Wwise,
adapter, the scheduler, the external DLLs. Five threads of the game advance a phase each (`PhaseOf`) and call
what is registered for it in turn (`CallNext`); what a callback does is an action named after it. Registration
may fail: only for a first part of the list, because the observer array grows at the first and the ninth
registration. `UnloadAdapter`, `UnloadCommon`, `UnloadRest` is `DLL_PROCESS_DETACH` of a module that is not
pinned; it begins when no thread is inside the module, since nothing in the code waits for one. `Selections`
has the two choices made from data: the CPU sets of a strategy and the file a Wwise sound is read from.

### ArxanSchedule (`src/src/dearxan/disabler.c`, `entry_point.c`, `patch.c`, `steamstub.c`)

Three calls of `dearxan_schedule_after_arxan` or `dearxan_neuter_arxan` by two threads (one may be made from a
callback) share the queue. `Worlds` is how the process was made: main thread suspended or not, found or not,
the security cookie found or not, SteamStub, Arxan. `Probe`, `DecideHook`, `InstallHook`, `WrapSteamStub`,
`StartWorker` decide who drains; the game's thread goes through its stub, its entry point and the call of
`__security_init_cookie`. `Suspend` ... `Publish` is the neutering: `Analyze` finds stubs, of which one may
hide another until that one is decrypted, `Decrypt` and `Jump` patch them. The analysis itself is the set it
returns.

### Allocators (`mimalloc_allocator.c`, `patches/allocator.c`)

The heap is created with a file mapping of the host, an anonymous mapping or private memory, each with its
failures; then the hooks and the table of the game's allocators are replaced together or rolled back. Rounding
of sizes is computed in a `size_t` of `Width` bits, of which `SizeMax` is the largest value, and compared with its
definition; a power of two is one of the `Width` values with a single bit.

### Vdf (`src/src/steam/vdf.c`) and Launcher (`src/src/launcher/*.c`, `src/src/steam/app.c`)

`Vdf` is the reader: one action per token, a token that is pushed back, the open blocks, and the objects of
the tree, for any of which there may be no memory. `written` remembers what the text said, which the tree is
compared with. What a conditional evaluates to is a constant of Vdf, `Holds`, so that its theorems are about any
evaluation; the run gives it the one of the code, `EvaluateConditional` of `VdfConditionals`, whose recursive operators
are `evaluate_conditional` and the functions it calls. `Launcher` is one launch from the arguments to the end of the process: the search for the game
(arguments, configuration, Steam's libraries, the folder of the launcher), the creation of the suspended
process, the remote threads that load the DLL and run `YAFSMLInit`, and the clean-up; `GameDies` is enabled at
any time.

### BootBoost (`boot_boost_mount` and `mount_ebl_hooked` of `patches/asset_hooks.c`, `patches/dl_device.c`)

What the code does between locking and unlocking the device manager is one action: `Prepare` up to the
snapshot, `Adopt`, `AdoptFails`, `Miss` or `StubStays` after the stub is mounted, `Store` or `StoreSkipped`
after the archive is. The game's `MountEbl` is called without the lock and is an action of its own each time
(`MountStub`, `MountFull`, `MountPlain`). The manager is the sequence of its mounts, each with the directory
its device holds; `Taken` and `Left` are `ml_dl_device_extract_new`, which takes elements `Among` a sequence. A directory is the archive it belongs to
and whether it is whole or a stub; what identifies it to `ml_boot_boost_cache_load` is its header
(`HeaderOf`). Key collisions are left out. `Restart` ends the process at any point and keeps the cache files;
a file is replaced as a whole (`MoveFileExW`). The game mounts an archive once, from any thread.

## 3. Runs

| run | question | bounds |
|---|---|---|
| `cache` | Do counts, budget and decoding survive every interleaving of decodes, evictions, failures and closes; are table and idle lists consistent and is sharing invisible, also with a second package and `vfs_uninit`? | 2 files and the loader, 3 caches (two in use, one idle, evicted or detached), 6 entries: one of two fits the memory budget, the other goes to a temporary file, of which one may stay idle; one entry is empty, one too large to stay idle. That counts, table and lists agree is proved for any number |
| `cache_live` | Do reads end, are evicted caches destroyed? | 2 files compete for room for one entry, the smallest instance in which the eviction loop can starve; a third cache is there to be evicted |
| `vfs` | Are packages atomic, are cached answers current, and does every open through the hooks find its original? | a directory, an archive overriding it, an archive with a name twice; 3 loads, 2 threads, 3 resets, so a lookup can see two generations go by. Beside it, 2 threads with `FileStep`, 3 archives and a table that holds 2, so that it overflows |
| `parts` | Seven components with small instances, see below. | below |
| `zip_share_modes` | Finding: share modes of open handles. | 2 threads, 2 handle values, 2 file objects, 1 entry |
| `startup` | The set-up of the loader, Arxan's scheduling, the choices and the saves, see below. | below |
| `save_mapping_memory` | Finding: are originals protected without memory? | 2 threads, 3 spellings of 2 saves that share one renamed file |
| `extdll` | Do the passes, the worker and the unload keep the order, and how does an unload under the loader lock end? | 3 DLLs, 7 shapes of relation with all 64 stages, every load may fail |
| `extdll_cycle` | Finding: entries that have nothing to do with a cycle. | 5 DLLs, one configuration |
| `boot_boost` | The mounts, the reader and the allocators, see below. | below |
| `readiness` | Does the removal of the hooks free nothing under a caller, does it end, and is the set-up run by one thread? | 2 threads of the game, two kinds of game (hooks on the file and render steps, or on render and data), both ways to see that the params are loaded |
| `lifecycle` | Is no observer lost, called twice or forgotten? | 3 threads, 2 phases, 4 observers: one thread registers while two advance different phases, each from a callback |

`parts` is the sum of

| part | question | bounds |
|---|---|---|
| handles | Do handles name their files and does shutdown wait and leave nothing? | 2 threads beside the one that closes all, 2 handle values (reuse is forced), 2 file objects, 1 entry |
| stream | Is an entry delivered when, and only when, its data, end marker and CRC are right? | every stream of up to 4 units, declared sizes to 3, a buffer of 2, requests of 0, 1, 2 and 4 bytes |
| launch | Does the game run initialised or not at all, and do errors name their cause? | 2 games, arguments and configuration of every kind, a failure of every call, death at any time |
| order | Is the move budget exact, are order and stages right? | all 4096 relations over 4 DLLs, and all over 3 with all 64 stages, with and without self-dependencies. Four is the least at which a move can break an earlier pair and be repaired later |
| path | Do all openers get one answer? | 3 openers, operators with two of three functions the same, and an invalid one |
| cursor | Are seeks and reads exact over the whole range of integers? | 3-bit integers, every distance, offset and size; two files over one cache and a stream |
| hooks | Are hooks and handles consistent through failed installations and removals? | 2 ZIP hooks, 3 path hooks, one call in progress beside the loader, one- and two-path functions |

`boot_boost` is the sum of

| part | question | bounds |
|---|---|---|
| mounts | Is an archive whole and mounted once when reported, and is a directory only given to a device it fits? | 2 threads, 3 archives of which two have the same header, so that an archive mounted alone meets two that overlap; restarts at any point |
| text | Is a block what its text says, and every object owned once? The latter is proved for any text | 8 tokens of those that make structure and conditionals, 6 of those with which something is wrong; depth 2; nested and mixed conditionals |
| memory | Are allocators replaced together and fallbacks clean? | every failure, sizes to 31, tables shorter than 3, ten sequences of calls to debug getters with ties and overflow |

and `startup` the sum of

| part | question | bounds |
|---|---|---|
| saves | Are originals protected and renamed saves seeded once? | those of `save_mapping_memory`, with memory |
| arxan | Do callbacks run once, in order, before main; is everybody who waits served; is Arxan neutered once? | 3 calls (one from a callback) by 2 threads and the main thread, 2 stubs of which one hides in the other, the worlds of `MCWorld` |
| startup | Does the loader keep to its order, whatever is refused or fails? | six settings with one group of features each, so that each meets what it interacts with; failing file routing and the unload in the one with saves; 2 writers of the regulation |
| cpu, sounds | Is the documented choice made? | 4 machines with two classes, groups, sets of others and none; every set of overrides under 3 roots and 3 forms of a name |

Bounds are in the constants of the modules: `Caches`, `Handles`, `Files` are pools (an operation that needs a
fresh object waits while none is free, which removes behaviours and adds none), `MaxObservers`, `MaxLoads`,
`MaxResets`, `MaxOpens` bound counters the code does not bound. The code has `MaxTable` and `MaxGetters` too,
as larger numbers (the length of an allocator table, 64 getters): small ones make the limit happen.

**Deadlock.** It is checked in `startup` for the saves, and in `extdll` and `lifecycle`. In the others the system may really
stop: a session has ended with every file closed, a launch is over, a text is read, the hooks are removed,
every caller is through.

**Symmetry.** It is used for threads, files, caches and handles in runs without liveness properties, over sets
no definition tells apart.

**Fairness.** Only what the scheduler and the program give:

* DecodedCache: weak fairness of a running operation; strong fairness of taking `cache->lock` and of making
  room, because an SRW lock promises no order but a thread that keeps asking gets it in the end. Nothing makes
  a game open or close a file.
* Lifecycle: strong fairness of taking `observers_lock` in the loop and of a callback's return, weak fairness
  of the steps inside the lock. A callback that never returns blocks its thread, and the property would
  rightly fail.
* Readiness: weak fairness of the set-up once a thread is in it, strong fairness of a thread in a detour and
  of the thread that removes the hooks, which both take an SRW lock that others take again and again; nothing
  makes the game call a step. `RemovalEnds` says that the removal ends unless a hook that could not be
  disabled keeps being entered (`StillEntered`).
* ExtDll: weak fairness of the main thread, of the worker and of the unload once it runs. A thread that waits
  for the loader lock has no step that is enabled while `DllMain` holds it, and fairness promises it nothing.
  `ReportDataReady` is weakly fair: a game that starts reaches its data. The unload is not made to happen.
  `UnloadSettles` says how an unload ends, also where readiness never came: either nothing is loaded any more,
  for good, or `DllMain` waits for ever, and then for a worker that wants the loader lock and never for one that
  waits for data. Both happen: TLC refutes the first alternative alone with an unload that begins before the
  worker has ended. That the join hangs then follows from the code and from what Windows does; no line of the
  repository says otherwise, and so it is part of the property and no finding.

## 4. What the runs found

Three runs end with a violation; each is listed under `findings`.

1. `save_mapping_memory`. `save_mapping.c:29-30` says that saves whose mapping could not be set up "fail
   closed instead of opening the original files". Without memory for the canonical path (`:322`) or for the
   copy of `save_root` (`:315`, `:366-376`) the route reports "not mapped", and the game opens the original
   save. `OriginalsAreProtectedWithMemory`, a part of `RoutesAreSound`, shows that memory is the only way.
2. `extdll_cycle`. `extdll.c:327-330` says a DLL never loads before its dependencies "except within a reported
   cycle". A cycle drops the sort for all entries (`:296`), and the single pass of the deferral then misses
   dependents of unrelated chains.
3. `zip_share_modes`. `DuplicateHandle` inserts its entry without the share check (`zip_hooks.c:569-572`).
   When the file's last handle is closed between its lookup and its insertion, a conflicting open succeeds.

Two more cases were found in BootBoost. They are no runs of their own: `MountsAloneAreComplete` holds except
for the archives collected in `excepted`, and without that exception TLC shows how it fails.

* `asset_hooks.c:276-277`. When `ml_dl_device_extract_new` has no memory for the new mounts, `result` is still
  that of the stub mount. The hook returns true ("Returns whether the archive is mounted", `:223`), and the
  device keeps a directory of which only the first block is decrypted.
* `asset_hooks.c:270-276` and `:332-338`. If the game mounted a second archive on another thread meanwhile,
  that mount is new to the snapshot as well. It is taken out, and on a cache miss stays out although the other
  thread has reported it: "Mounts stay resident" (`:682`) fails. The first of the mounts taken out may also be
  the other one's: its directory is stored under the wrong key, even a stub's, since `ml_bhd5_header_valid`
  only looks at the header. The comparison of headers in `ml_boot_boost_cache_load` keeps such a file from the
  wrong device (`AdoptedDirectoriesFit`), but a stub's directory can come back under its own key. Whether the
  games mount from two threads is not known from this repository.

Further cases came up while the code was translated. None is a run of its own; where a property needs it, the
model excepts or allows the case by name.

* File hooks. A failed installation takes all hooks out (`patches/win32_hooks.c`, `patches/common.c:323`), and
  saves then go to the originals although their mapping was asked for; so they do after
  `common_uninstall_file_routing` (`patches/common.c:330-333`), which drops the mapping also when hooks on
  paths stayed. `SavesFailClosed` is about hooks that are in. When the ZIP hooks cannot be installed, the
  asset hooks have already put a UID in the place of the path, so the open fails instead of falling back to
  the game's own file.
* Removal. A thread that has entered a detour but is not counted yet when the drain looks (`late`) may read an
  original that is gone (`patches/data_ready.c:60-73`, `:226-231`). If a hook cannot be disabled, the drain
  still waits for its callers (`:229`). `steam_api_init_hooked` (`patches/runtime_ready.c:20`) is not counted
  at all.
* Start-up. External DLLs are registered before the allocator's second stage when `before_game_main` comes
  later than `modloader_init`, so they are loaded first: `patches/adapter.c:28-30` lists the heap allocator
  first. If `SteamAPI_Init` runs before `before_main_result` is set, normal DLLs are skipped for good
  (`modloader.c:44-62`). A second thread may return from the game's property initializer before the first has
  set the property.
* Arxan. While threads are suspended the analysis and `dearxan_suspend_other_threads` use the heap
  (`src/src/dearxan/entry_point.c:354`), although `src/src/dearxan/disabler.c:502-504` avoids workers because
  one "could block on the loader or heap lock". A thread that cannot be suspended or whose handle cannot be
  duplicated keeps running (`src/src/dearxan/entry_point.c:349`, `:366`). In a process created suspended whose
  cookie is not found, the main thread may wait for its own drain (`src/src/dearxan/disabler.c:447`):
  `WaitersAreServed` assumes that the main thread and the cookie are found.
* Launcher. Without memory for the folder of the game the launch ends without a message
  (`src/src/launcher/launcher.c:360`), although `src/tests/smoke_launcher_startup.c:129` says "Each failed
  launch reports exactly one error dialog." When the wait for the remote thread fails, the path it may still
  read is freed.
* VDF. An unterminated string as a top-level name ends the text as a success. A conditional after `=` removes
  an earlier entry of the name also when the new one is dropped, and two of them when both conditionals hold;
  `BlocksAreAsWritten` states what is kept.
* Allocators. When `mi_heap_new_in_arena` fails, the arena stays committed and unused. Getters beyond 64
  distinct ones are not counted; `TargetsAreRight` is about fewer.

## 5. Theorems

**DecodedCacheProofs**, from `ConstantsAssumption` only (finitely many files, sizes and limits natural
numbers): `TypesAlways`, `ReferencesAlwaysExact`, `TableAndIdleAlwaysAgree`. The references of a cache are
counted against the set of files that use it, which no step can show by itself: that the closing file is the
last one depends on who may hold a cache that is in the table, that is idle, or that is already doomed. The
inductive invariant `IInv` therefore adds to the types

* `PcInv`: where an operation stands against what it holds (only an open file has a cache, only an evicting or
  closing one has caches to destroy, only a trimming one holds the lock);
* `PendingInv`: an insertion has its package in hand;
* `CountInv`: references are the users; `UseInv`: a used cache is allocated and not about to be destroyed;
* `DoomInv`: a cache to be destroyed is allocated and on one chain only;
* `ReachInv`, `AttachInv`: an allocated cache without users is on such a chain or registered, and a used one
  is registered unless it was dropped;
* `TableInv`, `IdleInv`: the table names allocated, attached caches of its own entry numbers, and the idle
  caches are exactly the registered ones without users;
* `ListInv`: each idle list is an injective sequence of the idle caches of its storage, without which
  unlinking would not be known to remove the cache.

`IInvAlways` is the induction; there is one lemma per action. `IInv` was first checked as an invariant by TLC.

The same module proves the refinement, `CachesImplementPrivateFiles`: hidden behind the mapping `View` (an open
file shows its entry number and the archive its cache comes from) an open of either kind is PrivateFiles' `Open`,
closes are its `Close`, `PointEntries` is its `Retarget`, and all the rest, decoding and eviction included, is
stuttering. It
needs one fact `IInv` does not have, `TargetInv`: what an open finds in the table comes from the archive its entry
number names now, and while an insertion or the end of the session changes the index the table is empty. That is
what dropping the caches before re-pointing entries is for.

Its last part is about decoding: `DecodesAreAlwaysSafe`. Reads look at the state of a cache without its lock, so
the theorem needs what each step of a decode has already done. `DecInv`, inductive together with `IInv`, says

* `OwnInv`: who decodes holds the lock of its own cache, and nobody else holds one;
* `EntryInv`: under a held lock the data is not published; only at the exchange of the state is it there
  unpublished; what is published is complete; and the archive is retained until that exchange;
* `ReadInv`: who reads found the state published, and who decodes into a storage has one;
* `PackageInv`: the references of an archive are the caches that retain it, the index and the insertion under
  way.

And about bytes: `BytesAreAlwaysExact`. The counters are compared with sums over sets of caches of
unknown size, so the module first proves what such a sum is. `SumFunctionOnSet` is a recursive function over the
subsets of a set: it exists (`SumsExist`, an induction over layers of subsets), it does not depend on the order in which
elements are taken out (`SumsInAnyOrder`), and so one element more or less counts its own value (`SumMore`,
`SumLess`) and only the values of the elements matter (`SumSame`). `BytesInv`, inductive beside `IInv` and
`DecInv`, then says

* `StoreInv`: a decode has a storage only while it fills it;
* `FilledInv`: finitely many caches hold data, all of them allocated;
* `BudgetInv`: the account of the memory, where a running decode is counted by its file until the data is its
  cache's. That no two files count the same cache is what one decoder per cache (`OwnInv`) is needed for;
* `IdleSumInv`: the accounts of the lists; each idle temporary file fits the limit by itself, and the lists are over
  it only while a closing file holds the lock to trim them. So that file always finds another one to take out, and
  the code need not ask (vfs_file.c:358).

**BootProofs**, for Lifecycle from `NoneAssumption` only: `ObserversAreCalledOnce`. A
phase is reached without the lock, so a registration may be accepted for a phase that is reached before the
observer is appended. `IInv` says who holds the lock and with which phase (`LockInv`, `PhaseInv`), that a
thread in the loop walks phases that were reached (`WalkInv`), that a registration accepted before its phase
was reached still finds a thread walking it, because that thread needs the lock to see that there are no more
(`AcceptInv`), and that the called observers of a phase come before the others (`PrefixInv`). That the loop
takes the first one is the least element of a set of naturals (`FirstIsLeast`).

The same module proves `MountsAreAlwaysSound` of BootBoost, from `NoArchiveAssumption`: a mount that is reported to
the game is there, once and with its whole directory. The stub and the archive are mounted without the lock, and
what is taken out of the manager is whatever the snapshot does not name, so the theorem is about what the
snapshot may miss. Two threads that mount at once take out each other's mounts; these archives are `excepted`, as in
the property, and the invariant shows that they do no harm to any other. `BootInv` is

* `ActiveInv`, `AloneInv`: a thread in the hook has an archive of its own, and while it mounts one that is not
  excepted no other thread is in the hook;
* `MountInv`: an archive that is not excepted is mounted once and whole from its report on, as a stub between the
  two mounts, whole before it is stored, and not at all elsewhere, in particular where a plain mount follows;
* `RootsInv`: a snapshot that is still to be used names every archive reported, so that none of them is taken
  out, and of the rest leaves only the thread's own to be taken out;
* `CacheInv`: the cache file of an archive that is not excepted has its own directory, if any. With the comparison of
  headers alone an archive that begins like another one could adopt that one's directory;
* `AdoptedDirectoriesFit`, which holds for excepted archives too.

It was checked by TLC on two threads and three archives (7.7 million states) before it was proved. What is taken
out of a sequence is described by `AmongPicks`: every element of the set, no others, each from a place of its own, in
their order. It is shown for the recursive function `Among` by an induction over places (`UpTo`, itself proved from
the well-foundedness of the naturals), since the library's induction theorems cannot be used with the provers
here.

**VfsIndexProofs**: `CachesAreAlwaysCurrent`. The inductive invariant `IInv` adds to the property that only a
frozen index has a generation and that nothing is being added to it (`FrozenInv`), and that a lookup which has
seen a generation runs on a frozen index and comes to its insertion with the index's answer (`LookupInv`): so
no lookup that may cache, and no cached answer, sees entries change. From `NoneAssumption`.

The second half of the module is the loading of packages, from `NoneAssumption`, `ContentAssumption` and
`BoundsAssumption` (what packages contain, and that bounds are natural numbers): `IndexIsAlwaysWhole`,
`DecodedDataIsAlwaysCurrent`, `UidsAlwaysKeepTheirNames` and the refinement `IndexImplementsOverrideMap`. All four
are about a package that fails after any number of its files, with names that occur in it several times, and is
undone file by file; what must then be true of an entry is what the undo records still to be applied say. `LoadInv`
adds to `IndexIsWhole` and `DecodedDataIsCurrent`

* `RecordsInv`: the records are the files applied so far, in order; a record that appended an entry is the first
  to touch it, and the entries after it were appended by later records, so that undoing in reverse order always
  removes the last one;
* `CommittedInv`: an entry no record touches leads where it led before the package, and the first record of a
  touched one keeps that;
* `AppliedInv`: while files are applied, a touched entry is the file that touched it last;
* `FreshInv`, `ArchivesInv`: the path of the next file is not allocated yet, records keep open archives, and the
  package's own archive is not in the list;
* `DecodedInv`: nothing decoded is shared while a package with files is added.

At the commit `AppliedInv` gives that the map changes as `OverrideMap`'s `Add` says; at the end of an undo
`CommittedInv` gives that it did not change; every other step is stuttering.

**ZipProofs**, for ZipHandles from `ConstantsAssumption` only: `CountsAreAlwaysExact`, `HandlesAlwaysNameTheirFile`,
`ShutdownIsAlwaysClean`. A handle value is in several hands over its life: the system's, an open's that has not
inserted it, the program's, a close's that has not closed it, and again an open's. The inductive invariant `IInv`
is

* `CallInv`: what a thread holds at each step of its call;
* `OwnerInv`: an open handle value has exactly one owner, which is the program, one thread that created it or is
  going to close it, or nobody when the hooks could not close it (`orphans`); so no close frees a value that the
  system has already given to somebody else;
* `PhaseInv`: nothing is accepted after `close_all` has begun, and once it has seen no call the table stays empty;
* `NoLostWakeup` and `CountsAreExact`, where counts are the cardinalities of the sets of those that hold
  something, so that a step is shown to add one element to a set or to take one away.

The same module proves `StreamsAreAlwaysSound` of ZipStream, from `ChunkAssumption`, `RequestsAssumption` and
`EntriesAssumption` (what an entry is, and that `NoEntry` is none), for entries of any length. A stream learns whether an
entry is sound from three places that may lie several calls apart: the inflater's status, the declared size and the
crc. `StreamInv` is

* `InflaterInv`: as long as nothing failed, the units taken yield bytes or nothing, up to an end marker when the
  inflater has seen one, and their bytes are the ones delivered plus the ones decoded ahead. The last part is what
  makes the count at the end marker meaningful: the inflater may have seen the marker while bytes are still
  `pending`, so a read that reaches the declared size is not at the end of the stream yet;
* `StoredInv`, checked by the open: a stored entry has the data it declares;
* `ReadInv`: a read under way has met no error and stays within the declared size, and a failed one is what later
  reads repeat;
* `ClosedInv`: a stream that is closed knows nothing.

`BytesAhead` counts the bytes of the units one call takes on top of those taken before, and `NoEnd`, `Damaged`,
`TooLong` and `AtTheEnd` say what each of the inflater's findings means for the entry: these are the four
reasons for which an entry is refused or accepted.

And `CursorsAreAlwaysExact` of VfsFile, from `MaxIntAssumption` and `KindsAssumption` (a file has a cache or a
stream, not both). `SeekDecides` is its core: with `-(distance + 1) + 1` computed unsigned and `distance > INT64_MAX -
base`, the code decides exactly as unbounded integers would, for every base and distance in range, the
smallest integer included. `CursorInv` adds that cursors lie in `0..MaxInt`, that what a stream has delivered is where
it is (`reached = taken`), and that a file which returned nothing for want of data remembers it (`RefusedInv`).

**LoadProofs**, for ExtDll from `NAssumption` and `ConfigurationsAssumption`: `PassesAreAlwaysOrdered`, for any number of
DLLs, any dependencies (cycles included) and any stages. The order of loading is the work of four stages of
code on two threads: the sort, the promotion of what early entries need and the deferral of what needs waiting
ones, the two passes of the loader's thread, and the worker. The inductive invariant `IInv` is

* `DependenciesPrecede`: after the sort, where it found no cycle, an entry follows what it depends on, and
  the array still holds every entry once (`Types`);
* `StageInv`, `StagesRespectDependencies`: when the promotion ends no early entry needs a normal one, and the
  deferral has made waiting what needs a waiting one, up to where it stands. It needs `DependenciesPrecede`:
  a single pass suffices because it meets dependencies first;
* `PassInv`: what each pass has behind it, which is why an entry's dependencies of earlier stages were tried;
* `EarlyInv`, `MainInv`: until the result of the early pass is a success only early entries were tried;
* `WaitInv`: the worker loads an entry of "data_ready" after it saw the event, which the game's report set;
* `ModulesInv`: the list of modules has an initialised dependency before its dependent, so that freeing it from
  its end frees dependents first.

`SortIsAlwaysExact` and `StagesAlwaysFollowDependencies` are about the sort itself, and hold for the whole
behaviour of ExtDll. `PrerequisitesAreLeast`, by induction over the recursion of `Prerequisites`, is what they
rest on: N steps reach the least set closed under dependencies, because a step that is not the last adds an
entry. `OrderInv` then says

* `SortInv`: unless there is a cycle, the sort stands at a position *i* before which everything is settled, its
  last *m* moves formed a chain of dependencies from *i* on, and the moves so far are at most *(i - 1)N + m*. A
  move either lengthens the chain or finds a dependency in it, and then the chain closes a cycle
  (`ChainIsCycle`); a new position starts a new row of N moves. This is why n*n moves are enough, and why
  running out of them is a cycle. Conversely a sorted array shows that there is none (`SortedHasNoCycle`);
* `KeepInv`: entries that nothing depends on stay in the order of the configuration, since only a dependency
  of another entry is moved;
* `OnlyNeededStagesChange` is inductive by itself: what is promoted is a prerequisite of what made its
  dependent early.

`UnloadSettles` and `EveryDllIsTried` are liveness and stay with TLC.

The same module proves `GamesAreAlwaysPrepared` and `LaunchesAlwaysEndClean` of Launcher, from `NilAssumption`: no
step of a launch, which is how errors are named, is `Nil`, the absence of one. Three actors share a launch: the
launcher, the thread that loads the DLL and the one that runs `YAFSMLInit`, and the process may die under all of
them. Every call of the launcher may fail, and what it calls to clean up may fail as well. `LaunchInv` is

* `CauseInv`: until a place that reports a failure nothing failed, and there the last error is still the one of
  the step that failed first. This is what `launch_process.c` keeps the error for over its clean-up, and without
  it the dialog would name the step that cleaned up;
* `ProcessInv`: there is a process from its creation on, it runs only after a success, and it stays suspended
  only if that was asked for;
* `LoaderInv`, `PathInv`: the loading thread reads its path only while the launcher waits for it, or after
  that wait failed, since the path is freed whatever came of it, before the launcher goes on;
* `AgreedInv`, `InitInv`: the explicit target, the executable and the game exported to the loader are one from
  the agreement on, so the loader, which sees only the export and its own executable, decides alike;
* `LocaleInv`: a cleared locale is guarded, and the guard ends with the creation.

It was checked by TLC on the launches of the run `parts` first.

And it proves `TreesAreAlwaysOwned` of Vdf, from `VdfAssumption` (lengths are natural numbers, a conditional is true or
false): for any text, any depth and any evaluation of conditionals, every object that is allocated has one owner, and
at the end a rejected text leaves nothing, any other only what is below the root. That no object is lost or freed twice
is hard to see in the code: the object that is read is owned by its parent's call on the stack until `append_child`
succeeds, a conditional behind it may take out an earlier sibling with all that is below it, and a failure at any depth
unwinds through calls that each free what is theirs. `VdfInv` is

* `BlocksOpen`: the blocks form a chain (`BlockChain`): each but the first is the object of the child the block around it
  reads, and is younger than what it is read into; and from `expects` follows whether a block is open and has a child;
* `TreeInv`: the objects form a forest (`Forest`), where a child is allocated after its parent, is there, and is a child
  once; and the objects without a parent are exactly those the caller, the entry and the blocks hold (`HeldObjects`).

The age of the objects is what makes it go through: it shows that the child of a block is none of the objects further
out, so that freeing it takes nothing from them, and that the forest has no circles (`BelowTops`, by the well-foundedness
of the naturals: every object is below one without a parent), so that with the last of those the last object is freed.
What the functions do to a forest is a lemma each: `NewTop`, `TakenTop`, `FreedTop`, `ClearedTop`, `CutChild` and
`RemovedChild`. `VdfInv` was checked by TLC on the texts of `boot_boost` first.

**HookProofs** is about four modules whose hooks come and go, three of them while the game calls, and about the saves.

* `SetPathAnswersAlwaysAgree` (PathHooks), without assumptions, from `AttemptInv`, by which one thread tries, once,
  and stores the result before it says so, and `AnswerInv`, by which a settled good answer means hooked slots.
* `FileHooksAreAlwaysSound` (Win32Hooks), from `ZipHooksAssumption` (there is an I/O hook). A batch goes up or down one
  hook at a time and may stop anywhere, and a removal may leave hooks in, so `BatchInv` says which hooks are in at
  each place of a batch, `LiveInv` that those that stayed are known, and `ServeInv` that ZIP entries are served
  only between the end of the first batch and the removal. `RouteInv` is what was found for the calls under way,
  which a removal of the mapping overtakes.
* `ArchivesAreAlwaysServed` (AssetHooks), from `MaxOpensAssumption` and `OpensAssumption` (an open function is none of
  the tags that name a stage's hook or a thread's work). `WhereInv` says that one thread is in FileStep and
  one has the device manager's lock, `StageInv` that a stage's hooks are in when its flag is set and otherwise only
  while a thread is at the stage or where removing failed. `ServedInv` holds as long as no entry had to be taken
  back: every entry leads to an enabled hook but for the last one, and that only while the thread with the lock
  is at it; every enabled open has its original in the table, since that is stored before the hook is enabled;
  and the lock is given back with all mounts hooked. It was checked by TLC on three threads and three classes of
  devices first.
* `AllocatorsAreAlwaysSound` (Allocators), from `SizesAssumption` (a `size_t` has bits, the least alignment is one of
  its values, at least one getter is counted) and `ImageAssumption` (addresses are natural numbers other than the
  null pointer, a section is an interval of them, and calls lead to addresses). `HeapInv` gives what is held at each
  stage of the attempts, `HooksInv` which hooks are in at each stage of the replacement, where a hook that cannot be
  removed is `stuck`, and `FoundInv` that the table and the getter are as the search left them. The rest is about the
  operators: `BestExists` and `BestIsTaken`, that the loop over at most `MaxGetters` targets finds the one called
  most; `PowersDivide`, that each power of two divides the later ones, by induction over a set of bits; and from it
  `LeastMultiple` and `SizesRounded`, that a size is refused exactly when no multiple of the alignment holds it.

HookProofs proves of SaveMapping, from `SaveOfAssumption`, `TargetOfAssumption` and `NoneAssumption` (`None` and
"absent" are no thread, path or renamed file): `RoutesAreAlwaysSound`, the protection of the originals included, and the
action property `ProgressIsAlwaysKept`. Calls of several threads for one save interleave between any two of their steps. The
inductive invariant does not say who holds `mapping_lock`, so neither rests on the exclusion it gives:
they follow from the order of the steps and from their ways to fail. `IInv` is

* `CallInv`: where a call stands, and to whom `vfs_route_writable_path` returns;
* `TableInv`: a save is registered under its own renamed file, and stays registered while the thread that
  registered it looks its entry up again. That look may not find an older negative answer;
* `SeedInv`: who is about to register has a renamed file, so a save is seeded before it can be found;
* `MemoryInv`: while memory suffices, a call whose extension is mapped or failed cannot leave the route as if
  its path were no save: its snapshot of the mappings shows one or the other. This is what fails when memory
  runs out, the finding of the run `save_mapping_memory`.

`ProgressIsAlwaysKept` is a matter of single steps: only a copy and the game write a renamed file, and
`CopyFileW` leaves a file alone that has appeared since the thread looked for it.

**ReadinessProofs**, from `GamesAssumption`, `StrategiesAssumption` and `ThreadsAssumption` (finitely many
threads of the game): `HookedCallersAreSafe` and `SetUpAlwaysSound`. That a counted detour finds its original
is a matter of four actors: the set-up that hooked the step, the detour's own counter, the threads that entered
before the hook was disabled, and the removal, which sees only the counter. The inductive invariant `IInv` is

* `CountInv`: a counter is the number of the threads between `Count` and `Uncount`, so that a drain that reads
  0 knows that nobody is inside;
* `HookInv`: a hook the loader knows has its original, a hook that is in pins the module and, until its callers
  were drained, has its original;
* `DetourInv`: until the drain a thread inside a detour finds the hook in and has read its original; who is
  inside afterwards is `late`;
* `SetUpInv`: `after_runtime_state` is 1 exactly while one thread sets up, and never beside the removal;
* `LoadInv`: a thread that is to report the data step runs with complete params.

`IInvAlways` is the induction, with one lemma for the set-up, for each way through a detour and for the steps of
the removal; it was first checked by TLC on the run's instance.

**StartupProofs** is about the two modules of the start of the process.

`SchedulingIsAlwaysSound` of ArxanSchedule, from `OtherThreadsAssumption` (the other threads are neither the main thread
nor the worker nor "none"), `RequestsAssumption` (a neutering is a request, `NoCall` is none, and what a callback
schedules is another request) and `StubsAssumption` (no stubs hide each other in a circle: the program itself
decrypts them). Who drains the queue is decided by a race between calls, workers and the main thread on its way
through the stub, the entry point and the cookie. `ArxanInv` is

* `Types` and `CalledInv`: what the variables are, and who is at which call and callback;
* `QueueRan`: the batch of the one who drains and the queue are the end of what was queued (`QueueInv`), nothing of
  which was called yet (`DrainInv`), and what ran did so in that order (`RanInv`);
* `PlacesInv`, `DrainerInv`, `ComesInv`: one call or hook prepares a drain, what the main thread will meet at each of
  its places, who is at a drain, and that one comes as long as nothing is published;
* `FrameInv`, `ExecutingInv`: a thread is at one call or in one callback and its others wait, since a callback may
  schedule again, and only the main thread's drain counts as the entry point's;
* `WaitInv`: whoever waits does not keep the main thread from draining;
* `NeuteredInv`: one neuters, does not suspend itself, and has patched every stub it has decrypted when it says so.

`StartupIsAlwaysSound` of Startup with Selections, from `SettingsAssumption` (what a configuration is),
`MachinesAssumption` (CPU sets have the ids of one machine) and `SoundsAssumption`. The loader's
thread and five of the game take part, each of which may come late, and registrations and installations may fail.
`StartupInv` is

* `EarlyInv`: nothing of the game reaches the loader before its first hook, so what is registered then is called;
* `PhaseInv`: who is through with a phase has called every observer of it. It is what `ConsumersPrecedeAssets` needs:
  a registration for a phase that is reached is refused, so nothing can come in behind;
* `DllInv`: the early result is a success only when the early DLLs are in, which the unload takes out again;
* `AssetsInv`, `CpuInv`: where the assets are in, the thread is behind the phase; a strategy is asked for;
* `OfflineInv`: asking, hooking, scheduling and setting the property are one chain in which nothing is twice, and
  a reported property that is not set yet is scheduled or being set. It rests on `FirstInv`: the first thread in
  the initializer advances the phase, and goes on when its observers were called.

`SelectionInv` goes with it. `SelectedIdsAreRight` shows, for any CPU sets with distinct ids, that each strategy
selects what its documentation says: `LowestExists` that there is a lowest set by group, index and id, and
`LowestIsFirst` that the one left out is it. `OpenedIsNearest` is about a sound: the order of the look-ups gives the
file nearest to the sound's name unless a candidate had no memory.

Both invariants were checked by TLC first, `StartupInv` on all steps of Startup and not only on those of the run.

Only model-checked: all liveness, which is beyond the provers used, and one invariant, `BlocksAreAsWritten` of Vdf. It
compares a block with what its text says, which is defined by recursion over the text (`LeftOf`), and rests on the
recursive operators of `VdfConditionals`; what a recursion computes for every input would take the library's induction
theorems, whose operators as parameters the provers cannot instantiate. An induction has to be stated for a set, as for
`Among`, the sums, the prerequisites, the powers of two and the forests above. TLC evaluates `BlocksAreAsWritten` for the
texts listed.

## 6. What is left out

* Lifecycle registration in Startup is one step; how observers are kept and called is Lifecycle's.
* Mapping views of ZIP entries, overlapped reads, and the bytes of reads: contents are abstracted to the
  archive they come from. The ZIP handles of Win32Hooks are one set.
* The loader lock, outside ExtDll. There it is modelled, because `extdll.c:538` waits for a thread under it. The
  wait at `patches/common.c:288`, for a worker whose beginning and end may need the lock, is not: it may last for
  ever. A module that the scheduler or a step hook has pinned is not unloaded.
* Duplicate DLL names, the scan of directories, comparison of path prefixes, normalisation of text: a spelling
  is a value with a name or without one.
* The analysis of Arxan's code (`analysis.c`, `vm.c`, `decoder.c`) and the process analysis
  (`src/src/process`): sequential functions of the image of the game, one of them an x86 emulator. A model of
  them would be a second implementation; ArxanSchedule takes the set of stubs that the analysis returns, each
  of which another may hide, and Startup a search as found or not.
* Configuration, the proxies, the log, the game registry: text, forwarded functions, a constant table.
  Launcher and Startup take their results.

## 7. Plan

1. Proofs: that a block of Vdf is what its text says.
2. Composition: a route of Win32Hooks through the VFS index and the handle table, with package loading beside
   it.
3. The views and overlapped reads of ZIP handles; the directory of an archive.
4. The configuration's options against what Startup assumes of them.
