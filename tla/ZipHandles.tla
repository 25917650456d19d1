----------------------------- MODULE ZipHandles -----------------------------
(***************************************************************************)
(* The handles of files inside ZIP mods (modloader/patches/zip_hooks.c).   *)
(* The program gets a real kernel event as the handle of such a file; a    *)
(* table maps the handle values to reference-counted zip_file_t objects,   *)
(* and every hooked call looks its handle up there.  Opening checks the    *)
(* share modes of all open handles, DuplicateHandle adds entries,          *)
(* CloseHandle removes them, and ml_zip_file_close_all stops the table     *)
(* while calls of other threads are still running in it.                   *)
(*                                                                         *)
(* One action is one critical section of handles_lock, one interlocked     *)
(* operation, or a stretch of code that touches nothing shared.  A handle  *)
(* value of the model stands for the event handle and for its tagged form. *)
(* `handles == NULL` is the empty table: an insertion that finds NULL      *)
(* follows an open that creates it, or a handle that is in it.             *)
(***************************************************************************)
EXTENDS Integers, FiniteSets

CONSTANTS
  Threads,   \* threads of the program
  Handles,   \* handle values the system can hand out (bound)
  Files,     \* zip_file_t objects the allocator can hand out (bound)
  Entries,   \* entry numbers in the VFS, the identity of a file
  None

ASSUME ConstantsAssumption ==
  IsFiniteSet(Threads) /\ IsFiniteSet(Handles) /\ None \notin Files \cup Handles \cup Entries

VARIABLES
  \* globals
  table,       \* handles: the file each handle value names
  handleCount, \* handle_count
  accepting,
  active,      \* active_operations
  phase,       \* where ml_zip_file_close_all is; "up" while it does not run
  asleep,      \* it sleeps on operations_idle
  remaining,   \* the entries it has taken and releases
  \* fields of a zip_file_t; identity = None while it is not allocated
  refs, identity, reads, shares,
  event,       \* file->event # NULL
  \* the running call of each thread
  pc,
  op,          \* "open", "use", "dup", "dupclose" (DUPLICATE_CLOSE_SOURCE), "close"
  handle,      \* the handle it was called with
  file,        \* the file it holds a reference to
  other,       \* a file of which it releases a table entry's reference
  fresh,       \* the kernel handle it has created
  \* the system and the program
  kernel,      \* handle values that are open
  given,       \* the file the program was given each handle for
  orphans      \* handles the program still has from before close_all

tableVars == <<table, handleCount>>
fileVars  == <<refs, identity, reads, shares, event>>
downVars  == <<accepting, phase, asleep, remaining>>
callVars  == <<pc, op, handle, file, other, fresh>>
userVars  == <<kernel, given, orphans>>
vars == <<tableVars, fileVars, downVars, callVars, userVars, active>>

Ops == {"none", "open", "use", "dup", "dupclose", "close"}
PC == {"idle", "event", "insert", "openfail", "get", "work", "dupinsert", "stale",
       "close", "closerelease", "closeleave", "closewake", "release", "leave", "wake"}
Phase == {"up", "waiting", "releasing", "down"}

Init ==
  /\ table = [h \in Handles |-> None] /\ handleCount = 0
  /\ accepting = TRUE /\ active = 0
  /\ phase = "up" /\ asleep = FALSE /\ remaining = [h \in Handles |-> None]
  /\ refs = [f \in Files |-> 0] /\ identity = [f \in Files |-> None]
  /\ reads = [f \in Files |-> FALSE] /\ shares = [f \in Files |-> FALSE]
  /\ event = [f \in Files |-> FALSE]
  /\ pc = [t \in Threads |-> "idle"] /\ op = [t \in Threads |-> "none"]
  /\ handle = [t \in Threads |-> None] /\ file = [t \in Threads |-> None]
  /\ other = [t \in Threads |-> None] /\ fresh = [t \in Threads |-> None]
  /\ kernel = {} /\ given = [h \in Handles |-> None] /\ orphans = {}

Goto(t, l) == pc' = [pc EXCEPT ![t] = l]

\* zip_file_release of one reference; the last one frees the file.
ZipFileRelease(f) ==
  /\ refs' = [refs EXCEPT ![f] = @ - 1]
  /\ identity' = IF refs[f] = 1 THEN [identity EXCEPT ![f] = None] ELSE identity
  /\ event' = IF refs[f] = 1 THEN [event EXCEPT ![f] = FALSE] ELSE event
  /\ reads' = IF refs[f] = 1 THEN [reads EXCEPT ![f] = FALSE] ELSE reads
  /\ shares' = IF refs[f] = 1 THEN [shares EXCEPT ![f] = FALSE] ELSE shares

\* Mutant: an entry that exists is kept.
InsertKeepsStale(h, f) ==
  /\ table' = [table EXCEPT ![h] = IF @ = None THEN f ELSE @]
  /\ handleCount' = IF table[h] = None THEN handleCount + 1 ELSE handleCount

\* Mutant: a stale entry that is replaced is counted again.
InsertCountsStale(h, f) ==
  /\ table' = [table EXCEPT ![h] = f]
  /\ handleCount' = handleCount + 1

\* zip_handle_insert: an entry that NtClose left behind is replaced.
ZipHandleInsert(h, f) ==
  /\ table' = [table EXCEPT ![h] = f]
  /\ handleCount' = IF table[h] = None THEN handleCount + 1 ELSE handleCount

-----------------------------------------------------------------------------
(* ml_zip_file_open.                                                       *)

OpenBegin(t, e, f, read, share) ==
  /\ pc[t] = "idle" /\ accepting /\ identity[f] = None
  /\ active' = active + 1
  /\ op' = [op EXCEPT ![t] = "open"]
  /\ identity' = [identity EXCEPT ![f] = e]
  /\ refs'   = [refs EXCEPT ![f] = 1]
  /\ reads'  = [reads EXCEPT ![f] = read]
  /\ shares' = [shares EXCEPT ![f] = share]
  /\ file'   = [file EXCEPT ![t] = f]
  /\ Goto(t, "event")
  /\ UNCHANGED <<tableVars, downVars, userVars, event, handle, other, fresh>>

\* vfs_file_open, CreateEventW and the duplicate for file->event.
OpenEvent(t, h) ==
  /\ pc[t] = "event" /\ h \notin kernel
  /\ kernel' = kernel \cup {h}
  /\ fresh' = [fresh EXCEPT ![t] = h]
  /\ \/ event' = [event EXCEPT ![file[t]] = TRUE] /\ Goto(t, "insert")
     \/ UNCHANGED event /\ Goto(t, "openfail")
  /\ UNCHANGED <<tableVars, downVars, refs, identity, reads, shares, op, handle, file, other,
                 given, orphans, active>>

OpenNoEvent(t) ==
  /\ pc[t] = "event"
  /\ Goto(t, "openfail")
  /\ UNCHANGED <<tableVars, downVars, fileVars, op, handle, file, other, fresh, userVars, active>>

\* The share modes of two files of one entry exclude each other.
Conflicts(f, g) ==
  identity[f] = identity[g] /\ ((reads[f] /\ ~shares[g]) \/ (reads[g] /\ ~shares[f]))

\* The check and the insertion are one critical section.
OpenInsert(t) ==
  LET f == file[t]
      h == fresh[t] IN
  /\ pc[t] = "insert"
  /\ \/ /\ accepting
        /\ \A k \in Handles : table[k] # None => ~Conflicts(f, table[k])
        /\ ZipHandleInsert(h, f)
        /\ other' = [other EXCEPT ![t] = table[h]]
        /\ file'  = [file EXCEPT ![t] = None]
        /\ given' = [given EXCEPT ![h] = f]
        /\ Goto(t, "stale")
     \/ /\ Goto(t, "openfail")   \* refused, or no memory for the entry
        /\ UNCHANGED <<tableVars, other, file, given>>
  /\ UNCHANGED <<downVars, fileVars, op, handle, fresh, kernel, orphans, active>>

OpenFail(t) ==
  /\ pc[t] = "openfail"
  /\ kernel' = kernel \ {fresh[t]}
  /\ fresh'  = [fresh EXCEPT ![t] = None]
  /\ Goto(t, "release")
  /\ UNCHANGED <<tableVars, downVars, fileVars, op, handle, file, other, given, orphans, active>>

-----------------------------------------------------------------------------
(* A hooked call on a handle: zip_handle_get, the work, zip_handle_release.*)

\* The program uses handles it was given and has not closed.
Known(h) == given[h] # None /\ \A t \in Threads : fresh[t] # h

\* The unlocked checks of zip_handle_get, in the caller's detour.  A call
\* that closes its handle is the last one the program makes with it.
Call(t, h, o) ==
  /\ pc[t] = "idle" /\ Known(h) /\ o \in {"use", "dup", "dupclose"}
  /\ handleCount # 0 /\ accepting
  /\ op' = [op EXCEPT ![t] = o]
  /\ handle' = [handle EXCEPT ![t] = h]
  /\ given' = IF o = "dupclose" THEN [given EXCEPT ![h] = None] ELSE given
  /\ Goto(t, "get")
  /\ UNCHANGED <<tableVars, downVars, fileVars, file, other, fresh, kernel, orphans, active>>

\* A miss goes to the real API, which closes the source of a "dupclose".
Get(t) ==
  LET h == handle[t]
      f == table[h] IN
  /\ pc[t] = "get"
  /\ IF f # None
       THEN /\ refs' = [refs EXCEPT ![f] = @ + 1]
            /\ active' = active + 1
            /\ file' = [file EXCEPT ![t] = f]
            /\ Goto(t, "work")
            /\ UNCHANGED <<op, handle, kernel>>
       ELSE /\ kernel' = IF op[t] = "dupclose" THEN kernel \ {h} ELSE kernel
            /\ op' = [op EXCEPT ![t] = "none"]
            /\ handle' = [handle EXCEPT ![t] = None]
            /\ Goto(t, "idle")
            /\ UNCHANGED <<refs, active, file>>
  /\ UNCHANGED <<tableVars, downVars, identity, reads, shares, event, other, fresh, given, orphans>>

\* A query on the file; a read or a seek holds it in the same way.
Work(t) ==
  /\ pc[t] = "work" /\ op[t] = "use"
  /\ Goto(t, "release")
  /\ UNCHANGED <<tableVars, downVars, fileVars, op, handle, file, other, fresh, userVars, active>>

AfterDuplicate(t) == IF op[t] = "dupclose" THEN "close" ELSE "release"

\* duplicate_hooked up to the new kernel handle.
Duplicate(t, h) ==
  /\ pc[t] = "work" /\ op[t] \in {"dup", "dupclose"} /\ h \notin kernel
  /\ kernel' = kernel \cup {h}
  /\ fresh' = [fresh EXCEPT ![t] = h]
  /\ Goto(t, "dupinsert")
  /\ UNCHANGED <<tableVars, downVars, fileVars, op, handle, file, other, given, orphans, active>>

\* Refused arguments, or no kernel handle; the source is closed all the same.
NoDuplicate(t) ==
  /\ pc[t] = "work" /\ op[t] \in {"dup", "dupclose"}
  /\ Goto(t, AfterDuplicate(t))
  /\ UNCHANGED <<tableVars, downVars, fileVars, op, handle, file, other, fresh, userVars, active>>

\* Mutant: the new entry takes no reference.
DupInsertUncounted(t) ==
  LET f == file[t]
      h == fresh[t] IN
  /\ pc[t] = "dupinsert"
  /\ \/ /\ accepting
        /\ ZipHandleInsert(h, f)
        /\ other' = [other EXCEPT ![t] = table[h]]
        /\ given' = [given EXCEPT ![h] = f]
        /\ Goto(t, "stale")
        /\ UNCHANGED <<kernel, fresh>>
     \/ /\ kernel' = kernel \ {h}
        /\ fresh' = [fresh EXCEPT ![t] = None]
        /\ Goto(t, AfterDuplicate(t))
        /\ UNCHANGED <<tableVars, other, given>>
  /\ UNCHANGED <<downVars, fileVars, op, handle, file, orphans, active>>

\* The critical section; without an entry the new handle is closed again.
DupInsert(t) ==
  LET f == file[t]
      h == fresh[t] IN
  /\ pc[t] = "dupinsert"
  /\ \/ /\ accepting
        /\ ZipHandleInsert(h, f)
        /\ refs' = [refs EXCEPT ![f] = @ + 1]
        /\ other' = [other EXCEPT ![t] = table[h]]
        /\ given' = [given EXCEPT ![h] = f]
        /\ Goto(t, "stale")
        /\ UNCHANGED <<kernel, fresh>>
     \/ /\ kernel' = kernel \ {h}
        /\ fresh' = [fresh EXCEPT ![t] = None]
        /\ Goto(t, AfterDuplicate(t))
        /\ UNCHANGED <<tableVars, other, given, refs>>
  /\ UNCHANGED <<downVars, identity, reads, shares, event, op, handle, file, orphans, active>>

\* The file of a replaced entry is released after unlocking.
ReleaseStale(t) ==
  /\ pc[t] = "stale"
  /\ IF other[t] # None THEN ZipFileRelease(other[t]) ELSE UNCHANGED fileVars
  /\ other' = [other EXCEPT ![t] = None]
  /\ Goto(t, IF op[t] = "open" THEN "leave" ELSE AfterDuplicate(t))
  /\ UNCHANGED <<tableVars, downVars, op, handle, file, fresh, userVars, active>>

\* zip_handle_release: the reference first, then zip_operation_leave.
Release(t) ==
  /\ pc[t] = "release"
  /\ ZipFileRelease(file[t])
  /\ file' = [file EXCEPT ![t] = None]
  /\ Goto(t, "leave")
  /\ UNCHANGED <<tableVars, downVars, op, handle, other, fresh, userVars, active>>

\* zip_operation_leave: the decrement, then the look at `accepting`.
Leave(t) ==
  /\ pc[t] = "leave"
  /\ active' = active - 1
  /\ Goto(t, "wake")
  /\ UNCHANGED <<tableVars, downVars, fileVars, op, handle, file, other, fresh, userVars>>

\* Mutant: the last call wakes nobody.
WakeNobody == UNCHANGED asleep
WakeTeardown == asleep' = IF accepting THEN asleep ELSE FALSE

\* The call returns; a new handle is the program's from here on.
Wake(t) ==
  /\ pc[t] = "wake"
  /\ WakeTeardown
  /\ op' = [op EXCEPT ![t] = "none"]
  /\ handle' = [handle EXCEPT ![t] = None]
  /\ fresh' = [fresh EXCEPT ![t] = None]
  /\ Goto(t, "idle")
  /\ UNCHANGED <<tableVars, accepting, phase, remaining, fileVars, file, other, userVars, active>>

-----------------------------------------------------------------------------
(* close_handle_hooked, called by the program or for a "dupclose".         *)

CloseCall(t, h) ==
  /\ pc[t] = "idle" /\ Known(h)
  /\ given' = [given EXCEPT ![h] = None]
  /\ op' = [op EXCEPT ![t] = "close"]
  /\ handle' = [handle EXCEPT ![t] = h]
  /\ Goto(t, "close")
  /\ UNCHANGED <<tableVars, downVars, fileVars, file, other, fresh, kernel, orphans, active>>

\* Handles without an entry, since close_all, go to the real CloseHandle.
CloseMiss(t) ==
  LET h == handle[t] IN
  /\ pc[t] = "close" /\ table[h] = None
  /\ kernel' = kernel \ {h}
  /\ IF op[t] = "close"
       THEN /\ op' = [op EXCEPT ![t] = "none"]
            /\ handle' = [handle EXCEPT ![t] = None]
            /\ Goto(t, "idle")
       ELSE Goto(t, "release") /\ UNCHANGED <<op, handle>>
  /\ UNCHANGED <<tableVars, downVars, fileVars, file, other, fresh, given, orphans, active>>

\* The kernel handle is closed and the entry removed under one lock, so the
\* value cannot be handed out again in between.  The system may refuse to
\* close a handle; the program then still has it.
CloseLocked(t) ==
  LET h == handle[t] IN
  /\ pc[t] = "close" /\ table[h] # None
  /\ active' = active + 1
  /\ \/ /\ kernel' = kernel \ {h}
        /\ other' = [other EXCEPT ![t] = table[h]]
        /\ table' = [table EXCEPT ![h] = None]
        /\ handleCount' = handleCount - 1
        /\ UNCHANGED given
     \/ /\ given' = [given EXCEPT ![h] = table[h]]
        /\ UNCHANGED <<kernel, other, tableVars>>
  /\ Goto(t, "closerelease")
  /\ UNCHANGED <<downVars, fileVars, op, handle, file, fresh, orphans>>

CloseRelease(t) ==
  /\ pc[t] = "closerelease"
  /\ IF other[t] # None THEN ZipFileRelease(other[t]) ELSE UNCHANGED fileVars
  /\ other' = [other EXCEPT ![t] = None]
  /\ Goto(t, "closeleave")
  /\ UNCHANGED <<tableVars, downVars, op, handle, file, fresh, userVars, active>>

CloseLeave(t) ==
  /\ pc[t] = "closeleave"
  /\ active' = active - 1
  /\ Goto(t, IF op[t] = "close" THEN "wake" ELSE "closewake")
  /\ UNCHANGED <<tableVars, downVars, fileVars, op, handle, file, other, fresh, userVars>>

\* A "dupclose" goes on with its own release.
CloseWake(t) ==
  /\ pc[t] = "closewake"
  /\ WakeTeardown
  /\ Goto(t, "release")
  /\ UNCHANGED <<tableVars, accepting, phase, remaining, fileVars, op, handle, file, other, fresh,
                 userVars, active>>

\* The program closes a handle without the hooks seeing it.
NtClose(h) ==
  /\ Known(h)
  /\ kernel' = kernel \ {h}
  /\ given' = [given EXCEPT ![h] = None]
  /\ UNCHANGED <<tableVars, downVars, fileVars, callVars, orphans, active>>

\* A handle that close_all left behind is an ordinary event.
CloseOrphan(h) ==
  /\ h \in orphans
  /\ kernel' = kernel \ {h}
  /\ orphans' = orphans \ {h}
  /\ UNCHANGED <<tableVars, downVars, fileVars, callVars, given, active>>

-----------------------------------------------------------------------------
(* ml_zip_file_close_all, and ml_zip_file_hooks_prepare for the next time. *)

CloseAll ==
  /\ phase = "up"
  /\ accepting' = FALSE
  /\ phase' = "waiting"
  /\ asleep' = (active # 0)
  /\ UNCHANGED <<tableVars, fileVars, callVars, userVars, active, remaining>>

TakeTable ==
  /\ remaining' = table
  /\ table' = [h \in Handles |-> None]
  /\ handleCount' = 0
  /\ phase' = "releasing"
  /\ given' = [h \in Handles |-> None]
  /\ orphans' = orphans \cup {h \in Handles : given[h] # None}
  /\ UNCHANGED asleep

\* Mutant: the count is looked at once.
CheckOnce == phase = "waiting" /\ ~asleep /\ TakeTable

\* It is awake, and looks at the count again.
Check ==
  /\ phase = "waiting" /\ ~asleep
  /\ IF active # 0
       THEN asleep' = TRUE /\ UNCHANGED <<tableVars, phase, remaining, given, orphans>>
       ELSE TakeTable

CheckAndTake ==
  /\ Check
  /\ UNCHANGED <<accepting, fileVars, callVars, kernel, active>>

ReleaseEntry(h) ==
  /\ phase = "releasing" /\ remaining[h] # None
  /\ ZipFileRelease(remaining[h])
  /\ remaining' = [remaining EXCEPT ![h] = None]
  /\ UNCHANGED <<tableVars, accepting, phase, asleep, callVars, userVars, active>>

Return ==
  /\ phase = "releasing" /\ \A h \in Handles : remaining[h] = None
  /\ phase' = "down"
  /\ UNCHANGED <<tableVars, accepting, asleep, remaining, fileVars, callVars, userVars, active>>

ZipFileHooksPrepare ==
  /\ phase = "down"
  /\ accepting' = TRUE
  /\ phase' = "up"
  /\ UNCHANGED <<tableVars, asleep, remaining, fileVars, callVars, userVars, active>>

-----------------------------------------------------------------------------
Start(t) ==
  \/ \E e \in Entries, f \in Files, read, share \in BOOLEAN : OpenBegin(t, e, f, read, share)
  \/ \E h \in Handles, o \in Ops : Call(t, h, o)
  \/ \E h \in Handles : CloseCall(t, h)

Step(t) ==
  \/ \E h \in Handles : OpenEvent(t, h) \/ Duplicate(t, h)
  \/ OpenNoEvent(t) \/ OpenInsert(t) \/ OpenFail(t) \/ Get(t) \/ NoDuplicate(t) \/ Work(t) \/ DupInsert(t) \/ ReleaseStale(t)
  \/ Release(t) \/ Leave(t) \/ Wake(t)
  \/ CloseMiss(t) \/ CloseLocked(t) \/ CloseRelease(t) \/ CloseLeave(t) \/ CloseWake(t)

CloseAllStep ==
  CheckAndTake \/ (\E h \in Handles : ReleaseEntry(h)) \/ Return

Next ==
  \/ \E t \in Threads : Start(t) \/ Step(t)
  \/ \E h \in Handles : NtClose(h) \/ CloseOrphan(h)
  \/ CloseAll \/ CloseAllStep \/ ZipFileHooksPrepare

Spec == Init /\ [][Next]_vars

-----------------------------------------------------------------------------
\* Handle values, file objects and call states keep their types; no count of
\* references, handles or running calls falls below zero.
TypeOK ==
  /\ table \in [Handles -> Files \cup {None}]
  /\ handleCount \in Nat /\ accepting \in BOOLEAN /\ active \in Nat
  /\ phase \in Phase /\ asleep \in BOOLEAN
  /\ remaining \in [Handles -> Files \cup {None}]
  /\ refs \in [Files -> Nat]
  /\ identity \in [Files -> Entries \cup {None}]
  /\ reads \in [Files -> BOOLEAN] /\ shares \in [Files -> BOOLEAN]
  /\ event \in [Files -> BOOLEAN]
  /\ pc \in [Threads -> PC] /\ op \in [Threads -> Ops]
  /\ handle \in [Threads -> Handles \cup {None}]
  /\ file \in [Threads -> Files \cup {None}]
  /\ other \in [Threads -> Files \cup {None}]
  /\ fresh \in [Threads -> Handles \cup {None}]
  /\ kernel \in SUBSET Handles
  /\ given \in [Handles -> Files \cup {None}]
  /\ orphans \in SUBSET Handles

Holding(var, f) == {x \in DOMAIN var : var[x] = f}

\* A file has one reference per table entry, running call and entry still to
\* be released, so it is freed by the last of them and never under a call
\* that reads it, however closes, duplicates and the teardown interleave.
ReferencesAreExact ==
  \A f \in Files :
    /\ refs[f] = Cardinality(Holding(table, f)) + Cardinality(Holding(file, f))
               + Cardinality(Holding(other, f)) + Cardinality(Holding(remaining, f))
    /\ refs[f] = 0 <=> identity[f] = None
    /\ refs[f] = 0 => ~event[f]

\* The threads in a call that close_all has to wait for, and those in the part of
\* close_handle_hooked that counts by itself; a "dupclose" in its close is in both.
Calling ==
  {t \in Threads :
     \/ pc[t] \in {"event", "insert", "openfail", "work", "dupinsert", "stale", "release", "leave"}
     \/ pc[t] \in {"close", "closerelease", "closeleave", "closewake"} /\ file[t] # None}
Closing == {t \in Threads : pc[t] \in {"closerelease", "closeleave"}}

\* handle_count, which calls read without the lock, is the number of entries,
\* and active_operations the number of calls close_all has to wait for
\* (zip_hooks.c:115-160).
CountersAreExact ==
  /\ handleCount = Cardinality({h \in Handles : table[h] # None})
  /\ active = Cardinality(Calling) + Cardinality(Closing)

\* The counts that decide when a file is freed and when the hooks may go are exact
\* in every interleaving (zip_hooks.c:115-160).
CountsAreExact == ReferencesAreExact /\ CountersAreExact

\* A handle the program has leads to the file it was opened or duplicated
\* for, whatever handle values the system reuses after CloseHandle or after
\* NtClose behind the hooks, until close_all ends the session.
HandleNamesItsFile ==
  \A h \in Handles : given[h] # None => table[h] = given[h] /\ h \in kernel

\* Two files of one entry are never open against each other's share mode.
ShareModesHold ==
  \A h, k \in Handles :
    table[h] # None /\ table[k] # None /\ table[h] # table[k] => ~Conflicts(table[h], table[k])

\* close_all returns only after every file is freed and no call can reach
\* one any more: the VFS is closed next.  And failed opens and duplicates leave
\* no kernel handle behind: every one that is open is the program's or belongs
\* to a running call.
NothingIsLeftBehind ==
  /\ phase = "down" =>
       /\ active = 0 /\ \A f \in Files : identity[f] = None
       /\ \A h \in Handles : table[h] = None
  /\ \A h \in kernel :
       \/ given[h] # None \/ h \in orphans
       \/ \E t \in Threads : fresh[t] = h \/ (handle[t] = h /\ pc[t] # "wake")

\* The wake-up of the last call is never lost between its decrement and its
\* look at `accepting`: while close_all sleeps, some call that will wake it is
\* running, or is about to.
NoLostWakeup ==
  phase = "waiting" /\ asleep =>
    active > 0 \/ \E t \in Threads : pc[t] \in {"wake", "closewake"}

\* Closing everything neither waits for ever nor leaves anything (zip_hooks.c:734).
ShutdownIsClean == NothingIsLeftBehind /\ NoLostWakeup

=============================================================================
