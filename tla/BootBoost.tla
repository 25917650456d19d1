----------------------------- MODULE BootBoost -----------------------------
(***************************************************************************)
(* Mounting an archive through the MountEbl hook with BootBoost            *)
(* (src/src/modloader/patches/asset_hooks.c, dl_device.c).                 *)
(*                                                                         *)
(* Decrypting the directory of an archive takes long.  The hook mounts a   *)
(* stub, the first RSA block of the directory, takes the new mount out of  *)
(* the game's device manager, and gives its device the decrypted directory *)
(* an earlier start left in a cache file; without one it mounts the whole  *)
(* archive and stores its directory.                                       *)
(*                                                                         *)
(* What the code does between locking and unlocking the device manager is  *)
(* one action.  The game's MountEbl runs without the lock, and another     *)
(* thread may mount an archive of its own meanwhile.  A crash or a new     *)
(* start keeps the cache files only.                                       *)
(***************************************************************************)
EXTENDS Sequences, FiniteSets, Naturals

CONSTANTS Mounters,     \* threads that mount archives
          Archives,     \* an archive, its mount name (root) and its cache key
          HeaderOf,     \* the 24 bytes a directory begins with, by archive
          Damaged,      \* what a cache file with a wrong checksum holds
          NoArchive

ASSUME NoArchiveAssumption == NoArchive \notin Archives

VARIABLES mounts,     \* bnd4_mounts of the manager, with their devices
          mounting,   \* where a thread is in mount_ebl_hooked
          archive,    \* the archive it mounts
          rootsBefore,   \* snapshot.roots
          handled,    \* a mount that succeeded must not be retried
          cacheFiles, \* the cache file of each key
          reported,   \* history: archives whose mount was reported to the game
          excepted    \* history: archives mounted while another one was, or
                      \* whose stub could not be taken out
bootVars == <<mounts, mounting, archive, rootsBefore, handled, cacheFiles, reported, excepted>>

\* A directory in memory or in a cache file: whose it is, and whether it is
\* all of it.
Directory == [of : Archives, whole : BOOLEAN]
Whole(a) == [of |-> a, whole |-> TRUE]
Stub(a) == [of |-> a, whole |-> FALSE]
Mount == [root : Archives, dir : Directory]

\* Earlier starts without an overlap left whole directories; a file may have
\* been damaged since.
BootInit ==
    /\ mounts = <<>>
    /\ mounting = [t \in Mounters |-> "game"]
    /\ archive = [t \in Mounters |-> NoArchive]
    /\ rootsBefore = [t \in Mounters |-> {}]
    /\ handled = [t \in Mounters |-> FALSE]
    /\ reported = {}
    /\ cacheFiles \in [Archives -> Directory \cup {NoArchive, Damaged}]
    /\ \A a \in Archives : cacheFiles[a] \in {NoArchive, Damaged, Whole(a)}
    /\ excepted = {}

GoOn(t, l) == mounting' = [mounting EXCEPT ![t] = l]
Active == {t \in Mounters : mounting[t] # "game"}
Roots(ms) == {ms[i].root : i \in DOMAIN ms}

\* The elements of s that are in S, in their order.
Among(s, S) ==
    LET f[n \in 0..Len(s)] == IF n = 0 THEN <<>>
                              ELSE IF s[n] \in S THEN Append(f[n - 1], s[n]) ELSE f[n - 1]
    IN f[Len(s)]

\* ml_dl_device_extract_new: mounts with a root the snapshot does not name are
\* taken out, in their order.
Named(t) == {m \in Mount : m.root \in rootsBefore[t]}
New(t) == {m \in Mount : m.root \notin rootsBefore[t]}
Taken(t) == Among(mounts, New(t))
Left(t) == Among(mounts, Named(t))

\* Leaving boot_boost_mount: a mount that was neither reported nor handled is
\* done again by the plain MountEbl.
ReturnFromMount(t, result, final) ==
    /\ handled' = [handled EXCEPT ![t] = FALSE]
    /\ rootsBefore' = [rootsBefore EXCEPT ![t] = {}]
    /\ IF result \/ final
       THEN /\ GoOn(t, "game")
            /\ archive' = [archive EXCEPT ![t] = NoArchive]
            /\ reported' = IF result THEN reported \cup {archive[t]} ELSE reported
       ELSE GoOn(t, "plain") /\ UNCHANGED <<archive, reported>>

----------------------------------------------------------------------------
\* The game mounts an archive it has not mounted yet.
MountEbl(t, a) ==
    /\ mounting[t] = "game"
    /\ a \notin reported
    /\ \A u \in Mounters : archive[u] # a
    /\ archive' = [archive EXCEPT ![t] = a]
    /\ GoOn(t, "prepare")
    /\ excepted' = IF Active = {} THEN excepted
                   ELSE excepted \cup {a} \cup {archive[u] : u \in Active}
    /\ UNCHANGED <<mounts, rootsBefore, handled, cacheFiles, reported>>

\* Key, path, source, cache path, stub file and rootsBefore, each of which can
\* fail, under one lock.
Prepare(t) ==
    /\ mounting[t] = "prepare"
    /\ \/ /\ rootsBefore' = [rootsBefore EXCEPT ![t] = Roots(mounts)]
          /\ GoOn(t, "stub")
          /\ UNCHANGED <<archive, handled, reported>>
       \/ ReturnFromMount(t, FALSE, FALSE)
    /\ UNCHANGED <<mounts, cacheFiles, excepted>>

\* The game's MountEbl on the stub file.
MountStub(t) ==
    /\ mounting[t] = "stub"
    /\ \/ /\ mounts' = Append(mounts, [root |-> archive[t], dir |-> Stub(archive[t])])
          /\ handled' = [handled EXCEPT ![t] = TRUE]
          /\ GoOn(t, "adopt")
          /\ UNCHANGED <<archive, rootsBefore, reported>>
       \/ ReturnFromMount(t, FALSE, FALSE) /\ UNCHANGED mounts
    /\ UNCHANGED <<cacheFiles, excepted>>

\* No memory for the extracted mounts: the result of the stub mount stands.
StubStays(t) ==
    /\ mounting[t] = "adopt"
    /\ Taken(t) # <<>>
    /\ ReturnFromMount(t, TRUE, TRUE)
    /\ excepted' = excepted \cup {archive[t]}
    /\ UNCHANGED <<mounts, cacheFiles>>

\* Mutant: the checksum is enough.
CacheIntact(t, dir) == cacheFiles[archive[t]] \notin {NoArchive, Damaged}

\* ml_boot_boost_cache_load: the file is intact and begins like the directory
\* the device already has.
CacheFits(t, dir) ==
    /\ cacheFiles[archive[t]] \notin {NoArchive, Damaged}
    /\ HeaderOf[cacheFiles[archive[t]].of] = HeaderOf[dir.of]

\* The cached directory replaces that of the first mount taken out, and all of
\* them go back.
Adopt(t) ==
    /\ mounting[t] = "adopt"
    /\ Taken(t) # <<>>
    /\ CacheFits(t, Taken(t)[1].dir)
    /\ mounts' = Left(t) \o [Taken(t) EXCEPT ![1].dir = cacheFiles[archive[t]]]
    /\ ReturnFromMount(t, TRUE, TRUE)
    /\ UNCHANGED <<cacheFiles, excepted>>

\* The manager's vectors cannot grow: what was taken out is gone, and the plain
\* MountEbl follows.
AdoptFails(t) ==
    /\ mounting[t] = "adopt"
    /\ Taken(t) # <<>>
    /\ CacheFits(t, Taken(t)[1].dir)
    /\ mounts' = Left(t)
    /\ ReturnFromMount(t, FALSE, FALSE)
    /\ UNCHANGED <<cacheFiles, excepted>>

\* Nothing was taken out, the holder is not recognised, there is no memory for
\* the directory, or the file is not loaded: it does not fit, or there is no
\* memory for its contents, or it cannot be read, each of which deletes it.
\* What was taken out stays out, and the rest is the new rootsBefore, if it can
\* be made.
Miss(t) ==
    /\ mounting[t] = "adopt"
    /\ \/ cacheFiles' = cacheFiles
       \/ /\ Taken(t) # <<>>
          /\ cacheFiles' = [cacheFiles EXCEPT ![archive[t]] = NoArchive]
    /\ mounts' = Left(t)
    /\ \/ /\ rootsBefore' = IF Taken(t) = <<>> THEN rootsBefore
                         ELSE [rootsBefore EXCEPT ![t] = Roots(Left(t))]
          /\ GoOn(t, "full")
          /\ UNCHANGED <<archive, handled, reported>>
       \/ Taken(t) # <<>> /\ ReturnFromMount(t, FALSE, FALSE)
    /\ UNCHANGED excepted

\* The game's MountEbl on the archive itself; its failure is final, because the
\* stub was mounted.
MountFull(t) ==
    /\ mounting[t] = "full"
    /\ \/ /\ mounts' = Append(mounts, [root |-> archive[t], dir |-> Whole(archive[t])])
          /\ GoOn(t, "store")
          /\ UNCHANGED <<archive, rootsBefore, handled, reported>>
       \/ ReturnFromMount(t, FALSE, handled[t]) /\ UNCHANGED mounts
    /\ UNCHANGED <<cacheFiles, excepted>>

\* No memory for the extracted mounts, or none: "failures only skip the cache".
StoreSkipped(t) ==
    /\ mounting[t] = "store"
    /\ ReturnFromMount(t, TRUE, TRUE)
    /\ UNCHANGED <<mounts, cacheFiles, excepted>>

\* Mutant: nothing goes back.
StoredOnly(t) ==
    /\ mounting[t] = "store"
    /\ Taken(t) # <<>>
    /\ cacheFiles' \in {cacheFiles, [cacheFiles EXCEPT ![archive[t]] = Taken(t)[1].dir]}
    /\ mounts' = Left(t)
    /\ ReturnFromMount(t, TRUE, TRUE)
    /\ UNCHANGED excepted

\* The directory of the first mount taken out is stored, if its file can be
\* replaced; then all go back.  When they cannot, the plain MountEbl follows.
Store(t) ==
    /\ mounting[t] = "store"
    /\ Taken(t) # <<>>
    /\ cacheFiles' \in {cacheFiles, [cacheFiles EXCEPT ![archive[t]] = Taken(t)[1].dir]}
    /\ \/ mounts' = Left(t) \o Taken(t) /\ ReturnFromMount(t, TRUE, TRUE)
       \/ mounts' = Left(t) /\ ReturnFromMount(t, FALSE, FALSE)
    /\ UNCHANGED excepted

\* The original call, as if there were no BootBoost.
MountPlain(t) ==
    /\ mounting[t] = "plain"
    /\ \/ /\ mounts' = Append(mounts, [root |-> archive[t], dir |-> Whole(archive[t])])
          /\ ReturnFromMount(t, TRUE, TRUE)
       \/ ReturnFromMount(t, FALSE, TRUE) /\ UNCHANGED mounts
    /\ UNCHANGED <<cacheFiles, excepted>>

\* The process ends, at any point, and is started again.
Restart ==
    /\ mounts' = <<>>
    /\ mounting' = [t \in Mounters |-> "game"]
    /\ archive' = [t \in Mounters |-> NoArchive]
    /\ rootsBefore' = [t \in Mounters |-> {}]
    /\ handled' = [t \in Mounters |-> FALSE]
    /\ reported' = {}
    /\ UNCHANGED <<cacheFiles, excepted>>

MountStep(t) == \/ Prepare(t) \/ MountStub(t) \/ StubStays(t) \/ Adopt(t)
           \/ AdoptFails(t) \/ Miss(t) \/ MountFull(t) \/ StoreSkipped(t)
           \/ Store(t) \/ MountPlain(t)
BootNext == \/ \E t \in Mounters : MountStep(t) \/ \E a \in Archives : MountEbl(t, a)
        \/ Restart

BootSpec == BootInit /\ [][BootNext]_bootVars

----------------------------------------------------------------------------
\* The manager, the files and the calls keep their types.
BootTypeOK ==
    /\ mounts \in Seq(Mount)
    /\ mounting \in [Mounters -> {"game", "prepare", "stub", "adopt", "full", "store", "plain"}]
    /\ archive \in [Mounters -> Archives \cup {NoArchive}]
    /\ rootsBefore \in [Mounters -> SUBSET Archives]
    /\ handled \in [Mounters -> BOOLEAN]
    /\ cacheFiles \in [Archives -> Directory \cup {NoArchive, Damaged}]
    /\ reported \subseteq Archives /\ excepted \subseteq Archives

\* No device is ever given a directory that begins otherwise than its own,
\* however the mounts of several threads get mixed and whatever an earlier
\* start stored: the comparison with the stub's header (dl_device.c:650)
\* decides, not the key the file is stored under.
AdoptedDirectoriesFit ==
    \A i \in DOMAIN mounts : HeaderOf[mounts[i].dir.of] = HeaderOf[mounts[i].root]

\* "Returns whether the archive is mounted" and "the caller must not retry the
\* plain one" (asset_hooks.c:223), for an archive that is never mounted along
\* with another one and whose stub could be taken out: when reported to the
\* game it is mounted, once and with its whole directory, through every
\* failure, damaged cache file and restart.
MountsAloneAreComplete ==
    \A a \in reported \ excepted :
        LET mine == {i \in DOMAIN mounts : mounts[i].root = a}
        IN /\ Cardinality(mine) = 1
           /\ \A i \in mine : mounts[i].dir = Whole(a)

\* What BootBoost leaves in the game's device manager is usable (asset_hooks.c:225).
MountsAreSound == AdoptedDirectoriesFit /\ MountsAloneAreComplete

=============================================================================
