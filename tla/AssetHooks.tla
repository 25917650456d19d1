----------------------------- MODULE AssetHooks -----------------------------
(***************************************************************************)
(* The hooks through which the game's devices see the mods' files          *)
(* (asset_hooks.c): those installed around the original FileStep, the      *)
(* table of open functions of mounted archives, which grows with every     *)
(* mount while other threads open files through it.  An open that is       *)
(* redirected to the disk device goes on in module PathHooks.              *)
(*                                                                         *)
(* Installing a hook creates it, which stores the original, and enables    *)
(* it; either may fail.  Removing one may fail too, and then it stays.     *)
(* Nothing is uninstalled: the hook on FileStep pins the module.           *)
(***************************************************************************)
EXTENDS Naturals, FiniteSets

CONSTANTS HookThreads,
          Opens,        \* open functions of the classes of archive devices
          MaxOpens      \* entries of ebl_open_hooks (64)

ASSUME MaxOpensAssumption == MaxOpens \in Nat
\* Functions are told apart from what else a hook or a thread is named by.
ASSUME OpensAssumption == Opens \cap {"none", "step", "mount", "disk", "make"} = {}

VARIABLES
    enabled,        \* functions whose hook is enabled
    pre, post,      \* pre_hooks_installed, post_hooks_installed
    table,          \* ebl_open_hooks: targets and whether the original is stored
    count,          \* ebl_open_hook_count
    mounted,        \* open functions of the devices in the device manager
    manager,        \* whether the device manager is locked
    doing,          \* where each thread is
    local,          \* what it works on: step or mount, an index, an outcome
    witnessed,      \* mounts that went through the hook, or were there before post
    missed,         \* an open found no original for its device
    failed,         \* entries of the table could not be installed
    kept            \* single hooks whose removal failed

assetVars == <<enabled, pre, post, table, count, mounted, manager, doing, local, witnessed, missed, failed, kept>>

tableVars == <<table, count>>
mountVars == <<mounted, manager, witnessed>>
stageVars  == <<pre, post>>

Free == [target |-> "none", original |-> FALSE]
Idle == [what |-> "none", start |-> 0, index |-> 0, entry |-> 0, target |-> "none", ok |-> TRUE]

AssetInit ==
    /\ enabled = {} /\ pre = FALSE /\ post = FALSE
    /\ table = [i \in 1..MaxOpens |-> Free] /\ count = 0
    /\ mounted = {} /\ manager = FALSE
    /\ doing = [t \in HookThreads |-> "game"]
    /\ local = [t \in HookThreads |-> Idle]
    /\ witnessed = {} /\ missed = FALSE /\ failed = FALSE /\ kept = {}

On(t, l) == doing[t] = l
Turns(t, l) == doing' = [doing EXCEPT ![t] = l]
Sets(t, r) == local' = [local EXCEPT ![t] = r]
Returns(t) == Turns(t, "game") /\ Sets(t, Idle)

\* remove_asset_hook; a function that is not hooked counts as removed.
Remove(f) == \/ enabled' = enabled \ {f} /\ UNCHANGED kept
             \/ f \in enabled /\ kept' = kept \cup ({f} \cap {"disk", "make"}) /\ UNCHANGED enabled

----------------------------------------------------------------------------
(* FileStep: hooks before and after the original step.                      *)

InFileStep == {t \in HookThreads : local[t].what = "step"}

\* The game runs the step on one thread at a time.
FileStep(t) ==
    /\ On(t, "game") /\ InFileStep = {}
    /\ Turns(t, IF pre THEN "step" ELSE "pre disk")
    /\ Sets(t, [Idle EXCEPT !.what = "step"])
    /\ UNCHANGED <<enabled, stageVars, tableVars, mountVars, missed, failed, kept>>

\* install_pre_hooks: without device manager and MountEbl nothing is tried.
InstallDisk(t) ==
    /\ On(t, "pre disk")
    /\ \/ Turns(t, "step") /\ UNCHANGED enabled
       \/ "disk" \notin enabled /\ enabled' = enabled \cup {"disk"} /\ Turns(t, "pre mount")
    /\ UNCHANGED <<local, stageVars, tableVars, mountVars, missed, failed, kept>>

\* Mutant: the hook on the disk device is not taken back.
InstallMountOnly(t) ==
    /\ On(t, "pre mount")
    /\ \/ "mount" \notin enabled /\ enabled' = enabled \cup {"mount"} /\ pre' = TRUE
       \/ UNCHANGED <<enabled, pre>>
    /\ Turns(t, "step")
    /\ UNCHANGED <<local, post, tableVars, mountVars, missed, failed, kept>>

InstallMount(t) ==
    /\ On(t, "pre mount")
    /\ \/ /\ "mount" \notin enabled /\ enabled' = enabled \cup {"mount"}
          /\ pre' = TRUE /\ UNCHANGED kept
       \/ Remove("disk") /\ UNCHANGED pre
    /\ Turns(t, "step")
    /\ UNCHANGED <<local, post, tableVars, mountVars, missed, failed>>

\* The original step runs; the hooks after it need those before it.
OriginalStep(t) ==
    /\ On(t, "step")
    /\ IF ~pre \/ post THEN Returns(t) ELSE Turns(t, "post make") /\ UNCHANGED local
    /\ UNCHANGED <<enabled, stageVars, tableVars, mountVars, missed, failed, kept>>

\* install_post_hooks: MakeEblObject, and the length of the table is read,
\* before the lock is taken.
InstallMake(t) ==
    /\ On(t, "post make")
    /\ \/ Returns(t) /\ UNCHANGED enabled
       \/ /\ "make" \notin enabled /\ enabled' = enabled \cup {"make"}
          /\ Turns(t, "lock")
          /\ Sets(t, [local[t] EXCEPT !.start = count])
    /\ UNCHANGED <<stageVars, tableVars, mountVars, missed, failed, kept>>

\* remove_ebl_device_opens_from, one entry, which is forgotten in any case.
DropLast ==
    /\ Remove(table[count].target)
    /\ table' = [table EXCEPT ![count] = Free]
    /\ count' = count - 1

\* Success, or everything is taken back, without the lock.
EndPost(t) ==
    /\ On(t, "post end")
    /\ IF local[t].ok
       THEN post' = TRUE /\ Returns(t) /\ UNCHANGED <<enabled, tableVars, kept>>
       ELSE /\ UNCHANGED post
            /\ IF count > local[t].start THEN DropLast /\ UNCHANGED <<doing, local>>
               ELSE Remove("make") /\ Returns(t) /\ UNCHANGED tableVars
    /\ UNCHANGED <<pre, mountVars, missed, failed>>

----------------------------------------------------------------------------
(* A mount, and hook_ebl_device_opens under the device manager's lock.      *)

\* Mutant: the opens of a device mounted later are not looked at.
MountArchiveOnly(t, o) ==
    /\ On(t, "game") /\ ~manager
    /\ o \notin mounted
    /\ mounted' = mounted \cup {o}
    /\ witnessed' = IF "mount" \in enabled THEN witnessed \cup {o} ELSE witnessed
    /\ UNCHANGED <<doing, local, enabled, stageVars, tableVars, manager, missed, failed, kept>>

\* Through the hook the opens are hooked next.
MountArchive(t, o) ==
    /\ On(t, "game") /\ ~manager
    /\ o \notin mounted
    /\ mounted' = mounted \cup {o}
    /\ IF "mount" \in enabled
       THEN /\ Turns(t, "lock") /\ Sets(t, [Idle EXCEPT !.what = "mount"])
            /\ witnessed' = witnessed \cup {o}
       ELSE UNCHANGED <<doing, local, witnessed>>
    /\ UNCHANGED <<enabled, stageVars, tableVars, manager, missed, failed, kept>>

\* The lock is not had where the device manager has none that is valid.
LockManager(t) ==
    /\ On(t, "lock")
    /\ \/ /\ ~manager /\ manager' = TRUE
          /\ Turns(t, "scan")
          /\ Sets(t, [local[t] EXCEPT !.index = count])
          /\ witnessed' = IF local[t].what = "step" THEN witnessed \cup mounted ELSE witnessed
          /\ UNCHANGED failed
       \/ /\ UNCHANGED <<manager, witnessed>>
          /\ Turns(t, IF local[t].what = "step" THEN "post end" ELSE "mounted")
          /\ Sets(t, [local[t] EXCEPT !.ok = FALSE])
          /\ failed' = TRUE
    /\ UNCHANGED <<enabled, stageVars, tableVars, mounted, missed, kept>>

Unhooked == mounted \ {table[i].target : i \in 1..count}

\* Mutant: the entry is written but not counted yet.
PublishLate(t) ==
    /\ On(t, "scan")
    /\ IF Unhooked = {} THEN Turns(t, "unlock") /\ UNCHANGED <<local, table>>
       ELSE \E o \in Unhooked :
              /\ table' = [table EXCEPT ![1] = [Free EXCEPT !.target = o]]
              /\ Sets(t, [local[t] EXCEPT !.entry = 1, !.target = o])
              /\ Turns(t, "create")
    /\ UNCHANGED <<count, failed, enabled, stageVars, mountVars, missed, kept>>

\* The next device's function gets an entry, which is published, or there is no
\* room for it.
Publish(t) ==
    /\ On(t, "scan")
    /\ IF Unhooked = {} THEN Turns(t, "unlock") /\ UNCHANGED <<local, tableVars, failed>>
       ELSE IF count = MaxOpens
            THEN /\ Turns(t, "roll back") /\ Sets(t, [local[t] EXCEPT !.ok = FALSE])
                 /\ failed' = TRUE /\ UNCHANGED tableVars
            ELSE /\ \E o \in Unhooked :
                        /\ table' = [table EXCEPT ![count + 1] = [Free EXCEPT !.target = o]]
                        /\ Sets(t, [local[t] EXCEPT !.entry = count + 1, !.target = o])
                 /\ count' = count + 1
                 /\ Turns(t, "create") /\ UNCHANGED failed
    /\ UNCHANGED <<enabled, stageVars, mountVars, missed, kept>>

\* The entry of a hook that could not be installed.
TakeBack(t) ==
    /\ table' = [table EXCEPT ![local[t].entry] = Free] /\ count' = local[t].entry - 1
    /\ Turns(t, "roll back") /\ Sets(t, [local[t] EXCEPT !.ok = FALSE])
    /\ failed' = TRUE

\* MH_CreateHook stores the original in the entry.
Create(t) ==
    /\ On(t, "create")
    /\ \/ /\ local[t].target \notin enabled
          /\ table' = [table EXCEPT ![local[t].entry].original = TRUE]
          /\ Turns(t, "enable") /\ UNCHANGED <<count, local, failed>>
       \/ TakeBack(t)
    /\ UNCHANGED <<enabled, stageVars, mountVars, missed, kept>>

Enable(t) ==
    /\ On(t, "enable")
    /\ \/ /\ enabled' = enabled \cup {local[t].target}
          /\ Turns(t, "scan") /\ UNCHANGED <<tableVars, local, failed>>
       \/ TakeBack(t) /\ UNCHANGED enabled
    /\ UNCHANGED <<stageVars, mountVars, missed, kept>>

\* Only the entries added under this lock are taken back.
RollBack(t) ==
    /\ On(t, "roll back")
    /\ IF count > local[t].index THEN DropLast /\ UNCHANGED doing
       ELSE Turns(t, "unlock") /\ UNCHANGED <<enabled, tableVars, kept>>
    /\ UNCHANGED <<local, stageVars, mountVars, missed, failed>>

Unlock(t) ==
    /\ On(t, "unlock")
    /\ manager' = FALSE
    /\ Turns(t, IF local[t].what = "step" THEN "post end" ELSE "mounted")
    /\ UNCHANGED <<local, enabled, stageVars, tableVars, mounted, witnessed, missed, failed, kept>>

Mounted(t) ==
    /\ On(t, "mounted") /\ Returns(t)
    /\ UNCHANGED <<enabled, stageVars, tableVars, mountVars, missed, failed, kept>>

----------------------------------------------------------------------------
(* Opening files.                                                           *)

\* The jump into the detour of an archive device.
OpenEbl(t, o) ==
    /\ On(t, "game") /\ o \in enabled
    /\ Turns(t, "look up")
    /\ Sets(t, [Idle EXCEPT !.what = o])
    /\ UNCHANGED <<enabled, stageVars, tableVars, mountVars, missed, failed, kept>>

\* ebl_open_original, without a lock.
LookUp(t) ==
    /\ On(t, "look up")
    /\ Sets(t, [local[t] EXCEPT !.ok = \E i \in 1..count :
                                          table[i].target = local[t].what /\ table[i].original])
    /\ Turns(t, "open")
    /\ UNCHANGED <<enabled, stageVars, tableVars, mountVars, missed, failed, kept>>

\* An overridden file, for whose path make_override_path took the lock, is opened
\* on the disk device, any other one by the original.
Redirect(t) ==
    /\ On(t, "open")
    /\ \/ ~manager /\ missed' = (missed \/ "disk" \notin enabled)
       \/ missed' = (missed \/ ~local[t].ok)
    /\ Returns(t)
    /\ UNCHANGED <<enabled, stageVars, tableVars, mountVars, failed, kept>>

AssetNext ==
    \E t \in HookThreads :
        \/ FileStep(t) \/ InstallDisk(t) \/ InstallMount(t) \/ OriginalStep(t)
        \/ InstallMake(t) \/ EndPost(t)
        \/ LockManager(t) \/ Publish(t) \/ Create(t) \/ Enable(t) \/ RollBack(t)
        \/ Unlock(t) \/ Mounted(t)
        \/ \E o \in Opens : MountArchive(t, o) \/ OpenEbl(t, o)
        \/ LookUp(t) \/ Redirect(t)

AssetSpec == AssetInit /\ [][AssetNext]_assetVars

----------------------------------------------------------------------------
\* One detour serves every class of device and finds its original by its target:
\* it never comes away without, although the table grows under it, as long as no
\* entry had to be taken back (asset_hooks.c:139).
OpensFindTheirOriginal == ~failed => ~missed

\* Once FileStep has succeeded, every archive whose mount it saw or went through
\* the hook is opened through the detour as soon as that mount is back
\* (asset_hooks.c:682), whichever mounts and opens ran at the same time.
MountedDevicesAreHooked ==
    post /\ ~failed /\ (\A t \in HookThreads : local[t].what # "mount") => witnessed \subseteq enabled

\* Outside of FileStep the hooks of one stage are all there or none is, but for
\* those that could not be removed again.
AllOrNothing ==
    InFileStep = {} =>
        /\ IF pre THEN {"disk", "mount"} \subseteq enabled
           ELSE enabled \cap {"disk", "mount"} \subseteq kept
        /\ IF post THEN "make" \in enabled ELSE "make" \in enabled => "make" \in kept

\* The hooks stand as a whole: stages complete, every mounted archive's opens
\* through the detour, and from there to the device (asset_hooks.c:682-830).
ArchivesAreServed == OpensFindTheirOriginal /\ MountedDevicesAreHooked /\ AllOrNothing

=============================================================================
