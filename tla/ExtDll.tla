------------------------------- MODULE ExtDll -------------------------------
(***************************************************************************)
(* Loading and unloading the external DLLs (src/src/modloader/extdll.c,    *)
(* the callbacks of modloader.c that drive it, gamehook.c's data-ready     *)
(* trigger), after extdlls_prepare (ExtDllOrder).                          *)
(*                                                                         *)
(* Three threads: the game's main thread runs before_game_main and the     *)
(* observers of AFTER_RUNTIME_INIT; a step of the game reports data        *)
(* readiness; the worker loads the deferred entries.  A fourth one unloads *)
(* everything, in DllMain, under the loader lock of Windows.               *)
(***************************************************************************)
EXTENDS ExtDllOrder

VARIABLES beforeMain,   \* before_main_result: 0, 1 or -1
          allLoaded,    \* `loaded` of extdlls_load_stage
          attempts,     \* DLLs in the order of module_load_attempted
          modules,      \* loaded DLLs by load_order
          initialized,  \* load_extdll_one returned true
          triggered,    \* the data-ready trigger is installed
          dataReady,    \* AFTER_DATA_READY was reached
          events,       \* which of cancel_event, data_ready_event exist
          cancel,       \* cancel_event is set
          released,     \* data_ready_event is set
          worker,       \* deferred_worker
          wpos,         \* the worker's loop variable i
          unload        \* extdlls_unload_all
loadVars == <<beforeMain, allLoaded, attempts, modules, initialized, triggered,
              dataReady, events, cancel, released, worker, wpos, unload>>
vars == <<orderVars, loadVars>>

Init ==
    /\ OrderInit
    /\ beforeMain = 0
    /\ allLoaded = TRUE
    /\ attempts = <<>>
    /\ modules = <<>>
    /\ initialized = {}
    /\ triggered = FALSE
    /\ dataReady = FALSE
    /\ events = {}
    /\ cancel = FALSE
    /\ released = FALSE
    /\ worker = "none"
    /\ wpos = 1
    /\ unload = "no"

Attempted(d) == \E i \in DOMAIN attempts : attempts[i] = d
Loaded(d) == \E i \in DOMAIN modules : modules[i] = d

\* DllMain holds the loader lock while it unloads (modloader.c:184-192).  A thread that
\* begins, returns or calls LoadLibraryW waits for that lock.
LoaderLocked == unload \in {"join", "free"}

\* What the main thread leaves alone while it walks the array.
MainWalks == UNCHANGED <<config, stage, delayed, order, moves, cycle, unsorted>>

----------------------------------------------------------------------------
(* load_extdll_one and preload_extdll_one; `ok` is the result.  A second    *)
(* call only tells whether the module is loaded; a missing initializer      *)
(* makes the call fail, one that returns false does not.                    *)

LoadExtdllOne(d, ok) ==
    IF Attempted(d)
    THEN ok = Loaded(d) /\ UNCHANGED <<attempts, modules, initialized>>
    ELSE /\ attempts' = Append(attempts, d)
         /\ \/ ok /\ modules' = Append(modules, d) /\ initialized' = initialized \cup {d}
            \/ ~ok /\ modules' \in {modules, Append(modules, d)} /\ UNCHANGED initialized

\* One turn of the loop of extdlls_load_stage.
LoadStage(s) ==
    /\ pos <= N
    /\ IF stage[order[pos]] = s
       THEN \E ok \in BOOLEAN :
              /\ LoadExtdllOne(order[pos], ok)
              /\ allLoaded' = (allLoaded /\ ok)
       ELSE UNCHANGED <<attempts, modules, initialized, allLoaded>>
    /\ pos' = pos + 1
    /\ UNCHANGED <<main, beforeMain>>

----------------------------------------------------------------------------
(* The main thread.                                                         *)

\* before_game_main: the early stage ...
LoadEarly ==
    /\ main = "early"
    /\ LoadStage(Early)
    /\ MainWalks
    /\ UNCHANGED <<triggered, dataReady, events, cancel, released, worker, wpos, unload>>

\* Without a game context no DLL is tried, and nothing observes the later phases.
NoGameContext ==
    /\ main = "early"
    /\ pos = 1
    /\ beforeMain' = -1
    /\ main' = "game"
    /\ MainWalks
    /\ UNCHANGED <<pos, allLoaded, attempts, modules, initialized, triggered,
                   dataReady, events, cancel, released, worker, wpos, unload>>

\* ... and its result.
BeforeMainDone ==
    /\ main = "early"
    /\ pos > N
    /\ beforeMain' = IF allLoaded THEN 1 ELSE -1
    /\ main' = "runtime"
    /\ MainWalks
    /\ UNCHANGED <<pos, allLoaded, attempts, modules, initialized, triggered,
                   dataReady, events, cancel, released, worker, wpos, unload>>

\* Mutant: any result of before_game_main is good enough.
AfterRuntimeInitUnchecked ==
    /\ main = "runtime"
    /\ triggered' \in BOOLEAN
    /\ IF beforeMain # 0
       THEN main' = "normal" /\ pos' = 1 /\ allLoaded' = TRUE
       ELSE main' = "game" /\ UNCHANGED <<pos, allLoaded>>
    /\ MainWalks
    /\ UNCHANGED <<beforeMain, attempts, modules, initialized, dataReady,
                   events, cancel, released, worker, wpos, unload>>

\* AFTER_RUNTIME_INIT: gamehook's observer, registered first, tries to install
\* the data-ready trigger; then load_extdlls_after_runtime.
AfterRuntimeInit ==
    /\ main = "runtime"
    /\ triggered' \in BOOLEAN
    /\ IF beforeMain = 1
       THEN main' = "normal" /\ pos' = 1 /\ allLoaded' = TRUE
       ELSE main' = "game" /\ UNCHANGED <<pos, allLoaded>>
    /\ MainWalks
    /\ UNCHANGED <<beforeMain, attempts, modules, initialized, dataReady,
                   events, cancel, released, worker, wpos, unload>>

LoadNormal ==
    /\ main = "normal"
    /\ LoadStage(Normal)
    /\ MainWalks
    /\ UNCHANGED <<triggered, dataReady, events, cancel, released, worker, wpos, unload>>

\* The end of extdlls_load(false): extdlls_ensure_events and CreateThread,
\* each of which may fail.
StartWorker ==
    /\ main = "normal"
    /\ pos > N
    /\ main' = "game"
    /\ IF \E d \in Dlls : Deferred(d)
       THEN \/ events' \in {{}, {"cancel"}} /\ UNCHANGED worker
            \/ /\ events' = {"cancel", "data_ready"}
               /\ worker' \in {"none", "start"}
       ELSE UNCHANGED <<events, worker>>
    /\ MainWalks
    /\ UNCHANGED <<pos, beforeMain, allLoaded, attempts, modules, initialized,
                   triggered, dataReady, cancel, released, wpos, unload>>

----------------------------------------------------------------------------
(* The game's step, once (phase_reached): advance_data_ready,               *)
(* load_extdlls_after_data_ready, extdlls_load_data_ready.                  *)

ReportDataReady ==
    /\ triggered /\ ~dataReady
    /\ dataReady' = TRUE
    /\ released' = (released \/ (beforeMain = 1 /\ "data_ready" \in events))
    /\ UNCHANGED <<orderVars, beforeMain, allLoaded, attempts, modules,
                   initialized, triggered, events, cancel, worker, wpos, unload>>

----------------------------------------------------------------------------
(* The worker: extdlls_load_deferred.                                       *)

WorkerKeeps == UNCHANGED <<orderVars, beforeMain, allLoaded, triggered,
                           dataReady, events, cancel, released, unload>>

\* The new thread begins.
WorkerStarts ==
    /\ worker = "start"
    /\ ~LoaderLocked
    /\ worker' = "walk"
    /\ WorkerKeeps /\ UNCHANGED <<attempts, modules, initialized, wpos>>

\* An entry of the main thread is passed over.
WorkerSkip ==
    /\ worker = "walk" /\ wpos <= N
    /\ ~Deferred(order[wpos])
    /\ wpos' = wpos + 1
    /\ WorkerKeeps /\ UNCHANGED <<attempts, modules, initialized, worker>>

\* Mutant: every deferred entry only has its delay.
WorkerWaitNever ==
    /\ worker = "walk" /\ wpos <= N
    /\ Deferred(order[wpos])
    /\ ~cancel
    /\ worker' = "checked"
    /\ WorkerKeeps /\ UNCHANGED <<attempts, modules, initialized, wpos>>

\* Mutant: data_ready_event is an auto-reset event.
WorkerWaitResets ==
    /\ worker = "walk" /\ wpos <= N
    /\ Deferred(order[wpos])
    /\ ~cancel
    /\ stage[order[wpos]] = DataReady => released
    /\ released' = (released /\ stage[order[wpos]] # DataReady)
    /\ worker' = "checked"
    /\ UNCHANGED <<orderVars, beforeMain, allLoaded, attempts, modules, initialized,
                   triggered, dataReady, events, cancel, wpos, unload>>

\* wait_for_data_ready, or the entry's own delay, which may elapse at any
\* time.  A signalled cancel_event comes first in either wait.
WorkerWait ==
    /\ worker = "walk" /\ wpos <= N
    /\ Deferred(order[wpos])
    /\ ~cancel
    /\ stage[order[wpos]] = DataReady => released
    /\ worker' = "checked"
    /\ WorkerKeeps /\ UNCHANGED <<attempts, modules, initialized, wpos>>

\* The wait, or for an entry without one extdlls_cancelled, sees the event.
\* Between the wait and extdlls_cancelled it may be set as well.
WorkerCancelled ==
    /\ worker \in {"walk", "checked"} /\ wpos <= N
    /\ Deferred(order[wpos])
    /\ cancel
    /\ worker' = "returned"
    /\ WorkerKeeps /\ UNCHANGED <<attempts, modules, initialized, wpos>>

\* extdlls_cancelled was false: nothing stops this load any more.
WorkerProceeds ==
    /\ worker = "checked"
    /\ ~cancel
    /\ worker' = "load"
    /\ WorkerKeeps /\ UNCHANGED <<attempts, modules, initialized, wpos>>

WorkerLoad ==
    /\ worker = "load"
    /\ ~LoaderLocked
    /\ \E ok \in BOOLEAN : LoadExtdllOne(order[wpos], ok)
    /\ worker' = "walk"
    /\ wpos' = wpos + 1
    /\ WorkerKeeps

WorkerDone ==
    /\ worker = "walk" /\ wpos > N
    /\ worker' = "returned"
    /\ WorkerKeeps /\ UNCHANGED <<attempts, modules, initialized, wpos>>

\* The thread has ended; only then is its handle signalled.
WorkerExits ==
    /\ worker = "returned"
    /\ ~LoaderLocked
    /\ worker' = "exited"
    /\ WorkerKeeps /\ UNCHANGED <<attempts, modules, initialized, wpos>>

Worker == \/ WorkerStarts \/ WorkerSkip \/ WorkerWait \/ WorkerCancelled
          \/ WorkerProceeds \/ WorkerLoad \/ WorkerDone \/ WorkerExits

----------------------------------------------------------------------------
(* extdlls_unload_all, once the main thread is in the game: a FreeLibrary   *)
(* of the loader calls it from DllMain; at the end of the process nothing   *)
(* does.                                                                    *)

UnloadKeeps == UNCHANGED <<orderVars, beforeMain, allLoaded, attempts,
                           initialized, triggered, dataReady>>

\* Mutant: the worker is joined without being cancelled.
CancelForgotten ==
    /\ main = "game"
    /\ unload = "no"
    /\ unload' = "join"
    /\ UnloadKeeps /\ UNCHANGED <<modules, events, cancel, released, worker, wpos>>

CancelWorker ==
    /\ main = "game"
    /\ unload = "no"
    /\ unload' = "join"
    /\ cancel' = ("cancel" \in events)
    /\ UnloadKeeps /\ UNCHANGED <<modules, events, released, worker, wpos>>

\* The worker is gone: its handle and the events are closed.
JoinWorker ==
    /\ unload = "join"
    /\ worker \in {"none", "exited"}
    /\ unload' = "free"
    /\ worker' = "none"
    /\ events' = {}
    /\ cancel' = FALSE
    /\ released' = FALSE
    /\ UnloadKeeps /\ UNCHANGED <<modules, wpos>>

\* Mutant: the lowest load_order first.
FreeFirst ==
    /\ unload = "free"
    /\ modules # <<>>
    /\ modules' = Tail(modules)
    /\ UnloadKeeps /\ UNCHANGED <<events, cancel, released, worker, wpos, unload>>

\* FreeLibrary of the module with the highest load_order.
FreeLast ==
    /\ unload = "free"
    /\ modules # <<>>
    /\ modules' = SubSeq(modules, 1, Len(modules) - 1)
    /\ UnloadKeeps /\ UNCHANGED <<events, cancel, released, worker, wpos, unload>>

Unloaded ==
    /\ unload = "free"
    /\ modules = <<>>
    /\ unload' = "done"
    /\ UnloadKeeps /\ UNCHANGED <<modules, events, cancel, released, worker, wpos>>

Prepare == PrepareStep /\ UNCHANGED loadVars
Main == \/ Prepare \/ LoadEarly \/ NoGameContext \/ BeforeMainDone
        \/ AfterRuntimeInit \/ LoadNormal \/ StartWorker
Unload == JoinWorker \/ FreeLast \/ Unloaded

\* The game goes on without the loader doing anything.
InGame == main = "game" /\ UNCHANGED vars

Next == Main \/ ReportDataReady \/ Worker \/ CancelWorker \/ Unload \/ InGame

\* Every thread runs on unless it waits, for the loader lock too: while DllMain holds
\* it the steps that need it are disabled, and fairness promises nothing of them.  The
\* game reaches its data-ready step once the hook is in place.  Nothing forces an unload.
Spec == /\ Init /\ [][Next]_vars
        /\ WF_vars(Main) /\ WF_vars(Worker) /\ WF_vars(Unload) /\ WF_vars(ReportDataReady)

----------------------------------------------------------------------------
(* Properties.                                                              *)

\* The passes, the worker and the unloading keep their states and lists typed.
TypeOK ==
    /\ OrderTypeOK
    /\ beforeMain \in {-1, 0, 1}
    /\ allLoaded \in BOOLEAN
    /\ attempts \in Seq(Dlls) /\ modules \in Seq(Dlls)
    /\ initialized \subseteq Dlls
    /\ triggered \in BOOLEAN /\ dataReady \in BOOLEAN
    /\ events \in {{}, {"cancel"}, {"cancel", "data_ready"}}
    /\ cancel \in BOOLEAN /\ released \in BOOLEAN
    /\ worker \in {"none", "start", "walk", "checked", "load", "returned", "exited"}
    /\ wpos \in 1..(N + 1)
    /\ unload \in {"no", "join", "free", "done"}

\* "A DLL can never load before its dependencies" (extdll.c:327), over the
\* three passes and the two threads, when the sort did its work.
DependenciesLoadFirst ==
    ~cycle /\ ~unsorted =>
        \A i \in DOMAIN attempts : \A e \in after[attempts[i]] \ {attempts[i]} :
            \E j \in 1..(i - 1) : attempts[j] = e

\* The same comment makes an exception for entries "within a reported cycle"
\* only: a DLL none of whose prerequisites is on a cycle loads after them.
UnrelatedToCyclesLoadInOrder ==
    ~unsorted =>
        \A i \in DOMAIN attempts :
            (\A p \in Prerequisites(attempts[i]) \cup {attempts[i]} :
                                                      p \notin Prerequisites(p)) =>
            \A e \in after[attempts[i]] \ {attempts[i]} :
                \E j \in 1..(i - 1) : attempts[j] = e

\* Unloading goes against the load order: as long as a DLL is loaded, a
\* dependency that had been loaded for it is loaded as well.
DependenciesUnloadLast ==
    ~cycle /\ ~unsorted =>
        \A d \in Dlls : Loaded(d) =>
            \A e \in after[d] : e \in initialized => Loaded(e)

\* A DLL lives between its dependencies' loading and unloading, over all passes.
DependenciesAreKept == DependenciesLoadFirst /\ DependenciesUnloadLast

\* A DLL configured or moved to data_ready never loads before the game has
\* reported that every param is read (extdll.c:447, "instead of loading at an
\* unverified point").
NothingBeforeDataReady ==
    \A i \in DOMAIN attempts : stage[attempts[i]] = DataReady => dataReady

\* A failed early DLL keeps every later stage from loading (modloader.c:47,
\* :57): only early entries have been tried then.
EarlyFailureStops ==
    beforeMain = -1 => \A i \in DOMAIN attempts : stage[attempts[i]] = Early

\* No stage begins before what it waits for, on either thread.
StagesAreKept == NothingBeforeDataReady /\ EarlyFailureStops

\* Over all passes, threads and failures the DLLs load in the order of the
\* configuration's dependencies and stages (extdll.c:425-560).
PassesAreOrdered == DependenciesAreKept /\ StagesAreKept

\* An unload that begins has one of two ends.  Either nothing is left loaded, and neither
\* the worker nor a late observer loads anything any more; or DllMain waits for ever
\* (extdll.c:538), and then for a thread that wants the loader lock, to begin, to load or
\* to end: the cancel event always takes the worker out of its wait for the game's data.
UnloadSettles ==
    unload = "join" ~> \/ [](unload = "done" /\ modules = <<>>)
                       \/ [](unload = "join" /\ worker \in {"start", "load", "returned"})

\* Once the worker runs and the data-ready trigger is in place every entry is
\* tried, unless the loader is unloaded before.  A report the game makes before
\* the events exist is lost (extdll.c:530), hence the premise ~dataReady.
EveryDllIsTried ==
    worker # "none" /\ triggered /\ ~dataReady ~> (\A d \in Dlls : Attempted(d)) \/ unload # "no"

=============================================================================
