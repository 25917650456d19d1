------------------------------ MODULE Startup ------------------------------
(***************************************************************************)
(* The order in which the loader sets itself up in the game (modloader.c,  *)
(* gamehook.c, adapter.c, common.c and the small patches): what is done    *)
(* at the entry point, what is registered for a phase of the lifecycle,    *)
(* and what each phase then does, on whichever thread of the game reaches  *)
(* it.  How observers are kept and called is Lifecycle's; here it is one   *)
(* sequence of what is still to be called, in the order of registration.   *)
(***************************************************************************)
EXTENDS Selections

CONSTANTS Settings,         \* the configuration and the game: see below
          Writers,          \* functions that write the regulation in an SPRJ game
          InitThreads       \* threads that run the game's property initializer

\* What is asked of the loader: the parts of Features, the CPU strategy, how the
\* regulation is kept from being saved, how the IME is, when Wwise is hooked.
Features == {"game", "logo", "memory", "data ready", "assets", "save", "ER"}
ASSUME SettingsAssumption ==
    Settings \subseteq [features : SUBSET Features, cpu : 0..4,
                        regulation : {"none", "FD4", "SPRJ"},
                        ime : {"off", "hook", "filter"}, wwise : {"none", "install", "runtime"}]

VARIABLES
    setting,
    loader,         \* where modloader_init is
    reachedPhases,  \* reached_phases
    observers,      \* what is registered [phase, what], in order
    doing,          \* for each thread that advances a phase, what it is at
    beforeMain,     \* before_main_result
    dlls,           \* stages of external DLLs that were loaded
    installed,      \* hooks and patches in place
    steamState,     \* after_runtime_state: 0, 1, 2
    settingsWorker, \* process_settings_worker: "none", "running", "over"
    ime,            \* [hook, bytes, pointer, applied]: ime_character_filter_*
    props,          \* [setter, hook, reported, seen, set]
    initAt,         \* for each of InitThreads: "before", "first", "after", "past"
    regulation,     \* [hooked, reported, slot, length]
    routing,        \* [registered, hooked, reported]
    pinned,         \* the module cannot be unloaded
    unloading       \* how far DLL_PROCESS_DETACH is: "no", ..., "done"

startupVars == <<setting, loader, reachedPhases, observers, doing, beforeMain, dlls, installed,
                 steamState,
                 settingsWorker, ime, props, initAt, regulation, routing, pinned, unloading>>

\* The threads that advance a phase, and the phase.
PhaseOf == [before |-> "main", steam |-> "runtime", init |-> "properties",
            render |-> "render", data |-> "data"]
Advancers == DOMAIN PhaseOf

Asked(f) == f \in setting.features

StartupInit ==
    /\ setting \in Settings
    /\ loader = "attach" /\ reachedPhases = {} /\ observers = <<>>
    /\ doing = [a \in Advancers |-> "idle"]
    /\ beforeMain = "none" /\ dlls = {} /\ installed = {}
    /\ steamState = 0 /\ settingsWorker = "none"
    /\ ime = [hook |-> FALSE, bytes |-> "original", pointer |-> FALSE, applied |-> FALSE]
    /\ props = [setter |-> FALSE, hook |-> "none", reported |-> FALSE, seen |-> FALSE, set |-> 0]
    /\ initAt \in [InitThreads -> {"before", "past"}]    \* some before the loader came
    /\ regulation = [hooked |-> {}, reported |-> FALSE, slot |-> FALSE, length |-> 0]
    /\ routing = [registered |-> {}, hooked |-> FALSE, reported |-> FALSE]
    /\ pinned = FALSE /\ unloading = "no"

loaderVars == <<setting, pinned, unloading>>
partVars == <<settingsWorker, ime, props, initAt, regulation, routing>>
dllVars == <<beforeMain, dlls>>
phaseVars == <<reachedPhases, observers, doing>>

\* ml_lifecycle_on_phase: refused once the phase is reached, or without memory.
Registers(phase, what) ==
    /\ phase \notin reachedPhases
    /\ observers' = Append(observers, [phase |-> phase, what |-> what])
Refused == UNCHANGED observers

----------------------------------------------------------------------------
(* modloader_init and gamehook_install, on one thread *)

\* DllMain or YAFSMLInit, then modloader_init up to gamehook_install; without MinHook or
\* its hook on the entry point the game runs as it is.
Attach ==
    /\ loader = "attach"
    /\ \/ loader' = "hooks" /\ reachedPhases' = {"entry"}
          /\ installed' \in {{}, {"window class"}}
       \/ loader' = "inert" /\ UNCHANGED <<reachedPhases, installed>>
    /\ UNCHANGED <<loaderVars, observers, doing, dllVars, steamState, partVars, selectionVars>>

\* What gamehook_install registers, in its order.
If(b, phase, what) == IF b THEN <<[phase |-> phase, what |-> what]>> ELSE <<>>
Wanted ==
    If(Asked("logo"), "runtime", "logo") \o If(Asked("memory"), "main", "allocator")
    \o If(setting.cpu # 0, "render", "cpu") \o If(Asked("data ready"), "runtime", "data hook")
    \o If(TRUE, "runtime", "properties")
    \o If(setting.regulation # "none", "runtime", "regulation")

\* The first registrations may fail for want of memory.
Schedule ==
    /\ loader = "hooks"
    /\ \/ /\ Asked("game") /\ loader' = "routing"
          /\ \E from \in 1..(Len(Wanted) + 1) : observers' = SubSeq(Wanted, from, Len(Wanted))
       \/ ~Asked("game") /\ loader' = "arxan" /\ UNCHANGED observers
    /\ UNCHANGED <<loaderVars, reachedPhases, doing, dllVars, installed, steamState, partVars,
                   selectionVars>>

\* common_install_file_routing: extensions are registered even without a root.
InstallRouting ==
    /\ loader = "routing" /\ loader' = "ime"
    /\ \E registered \in SUBSET (IF Asked("save") THEN {"sl2"} ELSE {}),
          rooted, hooks \in BOOLEAN :
          LET wanted == Asked("save") \/ Asked("assets")
          IN routing' = [registered |-> registered, hooked |-> wanted /\ hooks,
                         reported |-> /\ wanted => hooks
                                      /\ Asked("save") => rooted /\ registered = {"sl2"}]
    /\ UNCHANGED <<loaderVars, phaseVars, dllVars, installed, steamState, settingsWorker, ime,
                   props, initAt, regulation, selectionVars>>

\* write_code_bytes: what it says, and what is there then.
Written(old, new) == {[ok |-> TRUE, bytes |-> new], [ok |-> FALSE, bytes |-> new],
                      [ok |-> FALSE, bytes |-> old]}

\* Mutant: a patch that failed is forgotten.
FilterForgotten ==
    {[pointer |-> w.ok, applied |-> w.ok, bytes |-> w.bytes] : w \in Written("original", "patched")}

\* patch_character_filter: what was not written wholly is written back, and forgotten
\* only when that could be.
FilterPatched ==
    {[pointer |-> FALSE, applied |-> FALSE, bytes |-> "original"]}      \* no such code
    \cup {[pointer |-> TRUE, applied |-> TRUE, bytes |-> "patched"]}
    \cup UNION {{[pointer |-> ~back.ok, applied |-> FALSE, bytes |-> back.bytes] :
                 back \in Written(w.bytes, "original")} :
                w \in {v \in Written("original", "patched") : ~v.ok}}

\* patch_ime_disable, then the filter; common_install_ime.
InstallIme ==
    /\ loader = "ime" /\ loader' = "wwise"
    /\ \/ UNCHANGED ime                             \* not asked for, or the hook failed
       \/ /\ setting.ime = "hook"
          /\ ime' = [ime EXCEPT !.hook = TRUE]
       \/ /\ setting.ime = "filter"
          /\ \E f \in FilterPatched :
                ime' = [hook |-> TRUE, bytes |-> f.bytes, pointer |-> f.pointer,
                        applied |-> f.applied]
    /\ UNCHANGED <<loaderVars, phaseVars, dllVars, installed, steamState, settingsWorker, props,
                   initAt, regulation, routing, selectionVars>>

\* hook_wwise_archive_position_resolver, now or with the assets.
WwiseHook(when) ==
    \/ setting.wwise = when /\ installed' = installed \cup {"wwise"}
    \/ UNCHANGED installed

InstallWwise ==
    /\ loader = "wwise" /\ loader' = "adapter"
    /\ WwiseHook("install")
    /\ UNCHANGED <<loaderVars, phaseVars, dllVars, steamState, partVars, selectionVars>>

\* ml_adapter_install, ml_runtime_ready_hook_install: from now on SteamAPI_Init is seen.
InstallAdapter ==
    /\ loader = "adapter" /\ loader' = "arxan"
    /\ \E resolver \in SUBSET (IF Asked("ER") /\ Asked("assets") THEN {"resolver"} ELSE {}) :
          installed' \in {installed, installed \cup {"steam"} \cup resolver}
    /\ UNCHANGED <<loaderVars, phaseVars, dllVars, steamState, partVars, selectionVars>>

\* dearxan_neuter_arxan or dearxan_schedule_after_arxan: before_game_main is called at
\* once or later; the module is pinned unless there was nothing to schedule with.
ScheduleBeforeMain ==
    /\ loader = "arxan"
    /\ \/ pinned' \in BOOLEAN /\ loader' = "inline"
       \/ pinned' = TRUE /\ loader' = "runtime dlls"
    /\ UNCHANGED <<setting, unloading, phaseVars, dllVars, installed, steamState, partVars,
                   selectionVars>>

InlineReturns ==
    /\ loader = "inline" /\ beforeMain # "none"
    /\ loader' = "runtime dlls"
    /\ UNCHANGED <<loaderVars, phaseVars, dllVars, installed, steamState, partVars, selectionVars>>

\* The external DLLs are registered last.
RegisterDlls(phase, what, to) ==
    /\ \/ Asked("game") /\ Registers(phase, what) /\ loader' = to
       \/ Refused /\ loader' = IF Asked("game") THEN to ELSE "done"
    /\ UNCHANGED <<loaderVars, reachedPhases, doing, dllVars, installed, steamState, partVars,
                   selectionVars>>

LoaderStep ==
    \/ Attach \/ Schedule \/ InstallRouting \/ InstallIme \/ InstallWwise \/ InstallAdapter
    \/ ScheduleBeforeMain \/ InlineReturns
    \/ loader = "runtime dlls" /\ RegisterDlls("runtime", "dlls", "data dlls")
    \/ loader = "data dlls" /\ RegisterDlls("data", "late dlls", "done")

----------------------------------------------------------------------------
(* A phase is advanced: its observers are called one after the other *)

Advance(a) == /\ reachedPhases' = reachedPhases \cup {PhaseOf[a]}
              /\ doing' = [doing EXCEPT ![a] = "next"]
Goes(a, to) == doing' = [doing EXCEPT ![a] = to]

Mine(a) == {i \in DOMAIN observers : observers[i].phase = PhaseOf[a]}

CallNext(a) ==
    /\ doing[a] = "next"
    /\ \/ Mine(a) = {} /\ Goes(a, "advanced") /\ UNCHANGED observers
       \/ /\ Mine(a) # {}
          /\ LET i == FirstOf(Mine(a))
             IN Goes(a, observers[i].what) /\ observers' = RemoveAt(observers, i)
    /\ UNCHANGED <<loaderVars, loader, reachedPhases, dllVars, installed, steamState, partVars,
                   selectionVars>>

\* install_*_after_runtime of what is only there or not: the logo's redirect, the hook of
\* the data step (which pins the module), the tables of the allocators.
InstallFeature(a, what) ==
    /\ doing[a] = what /\ Goes(a, "next")
    /\ \/ /\ installed' = installed \cup {what}
          /\ pinned' = (pinned \/ what = "data hook")
       \/ UNCHANGED <<installed, pinned>>
    /\ UNCHANGED <<setting, unloading, loader, reachedPhases, observers, dllVars, steamState,
                   partVars,
                   selectionVars>>

\* install_allocator_before_main: the second stage follows the first.
InstallAllocator(a) ==
    /\ doing[a] = "allocator" /\ Goes(a, "next")
    /\ \/ /\ installed' = installed \cup {"system allocator"}
          /\ \/ Registers("runtime", "allocator tables")
             \/ Refused
       \/ UNCHANGED installed /\ Refused
    /\ UNCHANGED <<loaderVars, loader, reachedPhases, dllVars, steamState, partVars, selectionVars>>

\* common_schedule_process_settings: one worker, ever.
StartSettingsWorker(a) ==
    /\ doing[a] = "cpu" /\ Goes(a, "next")
    /\ settingsWorker' \in IF settingsWorker = "none" THEN {"none", "running"} ELSE {settingsWorker}
    /\ UNCHANGED <<loaderVars, loader, reachedPhases, observers, dllVars, installed,
                   steamState, ime,
                   props, initAt, regulation, routing, selectionVars>>

SettingsWorkerRuns ==
    /\ settingsWorker = "running" /\ settingsWorker' = "over"
    /\ ApplyStrategy(setting.cpu)
    /\ UNCHANGED <<loaderVars, loader, phaseVars, dllVars, installed, steamState, ime, props,
                   initAt,
                   regulation, routing>>

\* ml_regulation_install: the step of an FD4 game, or each writer of an SPRJ game.
InstallRegulation(a) ==
    /\ doing[a] = "regulation" /\ Goes(a, "next")
    /\ \/ /\ setting.regulation = "FD4"
          /\ regulation' = [regulation EXCEPT !.hooked = {"step"}, !.reported = TRUE]
       \/ /\ setting.regulation = "SPRJ"
          /\ \E hooked \in SUBSET Writers :
                regulation' = [regulation EXCEPT !.hooked = hooked,
                                                 !.reported = Writers # {} /\ hooked = Writers]
       \/ UNCHANGED regulation
    /\ UNCHANGED <<loaderVars, loader, reachedPhases, observers, dllVars, installed, steamState,
                   settingsWorker, ime, props, initAt, routing, selectionVars>>

\* regulation_step_idle_hooked: the manager is named late.
RegulationTick ==
    /\ "step" \in regulation.hooked
    /\ \E length \in {regulation.length, 1}, resolves \in BOOLEAN :
          LET slot == regulation.slot \/ resolves
          IN regulation' = [regulation EXCEPT !.slot = slot, !.length = IF slot THEN 0 ELSE length]
    /\ UNCHANGED <<loaderVars, loader, phaseVars, dllVars, installed, steamState,
                   settingsWorker, ime,
                   props, initAt, routing, selectionVars>>

\* ml_properties_install: the setter is found, then the hook is live, then what it
\* should do is registered.
HookProperties(a) ==
    /\ doing[a] = "properties"
    /\ \/ props' \in {props, [props EXCEPT !.setter = TRUE]} /\ Goes(a, "next")
       \/ props' = [props EXCEPT !.setter = TRUE, !.hook = "on"] /\ Goes(a, "offline")
    /\ UNCHANGED <<loaderVars, loader, reachedPhases, observers, dllVars, installed, steamState,
                   settingsWorker, ime, initAt, regulation, routing, selectionVars>>

\* Mutant: the property is believed to be scheduled.
ScheduleUnchecked(a) ==
    /\ doing[a] = "offline" /\ Goes(a, "next")
    /\ \/ Registers("properties", "set offline")
       \/ Refused
    /\ props' = [props EXCEPT !.reported = TRUE]
    /\ UNCHANGED <<loaderVars, loader, reachedPhases, dllVars, installed, steamState,
                   settingsWorker, ime, initAt, regulation, routing, selectionVars>>

ScheduleOffline(a) ==
    /\ doing[a] = "offline" /\ Goes(a, "next")
    /\ \/ Registers("properties", "set offline") /\ props' = [props EXCEPT !.reported = TRUE]
       \/ Refused /\ UNCHANGED props
    /\ UNCHANGED <<loaderVars, loader, reachedPhases, dllVars, installed, steamState,
                   settingsWorker, ime, initAt, regulation, routing, selectionVars>>

\* apply_offline_property.
SetOffline(a) ==
    /\ doing[a] = "set offline" /\ Goes(a, "next")
    /\ props' = [props EXCEPT !.set = IF props.setter THEN @ + 1 ELSE @]
    /\ UNCHANGED <<loaderVars, loader, reachedPhases, observers, dllVars, installed, steamState,
                   settingsWorker, ime, initAt, regulation, routing, selectionVars>>

\* Mutant: they are loaded whatever became of the early ones.
LoadAnyway(a, what) ==
    /\ doing[a] = what /\ Goes(a, "next")
    /\ dlls' = dlls \cup {what}
    /\ UNCHANGED <<loaderVars, loader, reachedPhases, observers, beforeMain, installed, steamState,
                   partVars, selectionVars>>

\* load_extdlls_after_runtime, load_extdlls_after_data_ready.
LoadDlls(a, what) ==
    /\ doing[a] = what /\ Goes(a, "next")
    /\ dlls' = IF beforeMain = "loaded" THEN dlls \cup {what} ELSE dlls
    /\ UNCHANGED <<loaderVars, loader, reachedPhases, observers, beforeMain, installed, steamState,
                   partVars, selectionVars>>

----------------------------------------------------------------------------
(* The threads of the game *)

\* before_game_main, called by the scheduler: the phase, then the early DLLs.
ReachMain ==
    /\ doing["before"] = "idle" /\ loader \in {"inline", "runtime dlls", "data dlls", "done"}
    /\ Advance("before")
    /\ UNCHANGED <<loaderVars, loader, observers, dllVars, installed, steamState, partVars,
                   selectionVars>>

LoadEarly ==
    /\ doing["before"] = "advanced" /\ Goes("before", "finished")
    /\ \/ beforeMain' = "loaded" /\ dlls' = dlls \cup {"early"}
       \/ beforeMain' = "failed" /\ UNCHANGED dlls
    /\ UNCHANGED <<loaderVars, loader, reachedPhases, observers, installed, steamState, partVars,
                   selectionVars>>

\* steam_api_init_hooked and install_after_runtime: the render hook (which pins the
\* module) and the phase; a call after a failure does not repeat the phase.
SteamInit ==
    /\ "steam" \in installed /\ steamState = 0 /\ doing["steam"] = "idle"
    /\ steamState' = 1
    /\ \/ installed' = installed \cup {"render hook"} /\ pinned' = TRUE
       \/ UNCHANGED <<installed, pinned>>
    /\ IF "runtime" \in reachedPhases THEN Goes("steam", "advanced") /\ UNCHANGED reachedPhases
                                 ELSE Advance("steam")
    /\ UNCHANGED <<setting, unloading, loader, observers, dllVars, partVars, selectionVars>>

\* What install_after_runtime installs itself.
Deferred == (IF Asked("assets") THEN {"assets"} ELSE {})
            \cup (IF setting.wwise = "runtime" THEN {"wwise"} ELSE {})

\* Mutant: the assets do not wait for what was registered for the phase.
InstallAssetsFirst ==
    /\ doing["steam"] \in {"next", "advanced"}
    /\ installed' = installed \cup Deferred
    /\ steamState' = 2 /\ Goes("steam", "over")
    /\ UNCHANGED <<loaderVars, loader, reachedPhases, observers, dllVars, partVars, selectionVars>>

\* The assets (which pin the module) and Wwise; when one fails, the next SteamAPI_Init
\* tries again what is not there yet.
InstallAssets ==
    /\ doing["steam"] = "advanced"
    /\ \E got \in SUBSET Deferred :
          /\ Deferred \cap installed \subseteq got
          /\ installed' = installed \cup got
          /\ pinned' \in {pinned \/ "assets" \in got, pinned \/ Asked("assets")}
          /\ IF got = Deferred THEN steamState' = 2 /\ Goes("steam", "over")
                               ELSE steamState' = 0 /\ Goes("steam", "idle")
    /\ UNCHANGED <<setting, unloading, loader, reachedPhases, observers, dllVars, partVars,
                   selectionVars>>

\* The hooked steps of the game.
StepReached(a, hook) ==
    /\ hook \in installed /\ doing[a] = "idle"
    /\ Advance(a)
    /\ UNCHANGED <<loaderVars, loader, observers, dllVars, installed, steamState, partVars,
                   selectionVars>>

\* The property initializer: the first thread in its hook advances the phase.
Initialize(t) ==
    /\ initAt[t] = "before"
    /\ \/ /\ props.hook = "on" /\ ~props.seen
          /\ props' = [props EXCEPT !.seen = TRUE]
          /\ initAt' = [initAt EXCEPT ![t] = "first"]
          /\ Advance("init")
       \/ /\ props.hook # "on" \/ props.seen
          /\ initAt' = [initAt EXCEPT ![t] = "past"]
          /\ UNCHANGED <<props, reachedPhases, doing>>
    /\ UNCHANGED <<loaderVars, loader, observers, dllVars, installed, steamState,
                   settingsWorker, ime,
                   regulation, routing, selectionVars>>

Initialized(t) ==
    /\ initAt[t] = "first" /\ doing["init"] = "advanced"
    /\ initAt' = [initAt EXCEPT ![t] = "after"]
    /\ props' \in {[props EXCEPT !.hook = "off"], props}
    /\ UNCHANGED <<loaderVars, loader, phaseVars, dllVars, installed, steamState,
                   settingsWorker, ime,
                   regulation, routing, selectionVars>>

----------------------------------------------------------------------------
(* DLL_PROCESS_DETACH of a module that is not pinned, when no thread is inside it *)

Quiet == /\ \A a \in Advancers : doing[a] \in {"idle", "advanced", "finished", "over"}
         /\ steamState # 1 /\ \A t \in InitThreads : initAt[t] # "first"

\* extdlls_unload_all, ml_adapter_uninstall, ml_data_ready_uninstall: a hook may refuse
\* to go.
UnloadAdapter ==
    /\ unloading = "no" /\ ~pinned /\ loader = "done" /\ Quiet
    /\ unloading' = "adapter"
    /\ installed' \in {installed, installed \ {"steam", "resolver"}} /\ dlls' = {}
    /\ UNCHANGED <<setting, pinned, loader, phaseVars, beforeMain, steamState, partVars,
                   selectionVars>>

\* Mutant: only a filter that counts as applied is written back.
RestoreApplied ==
    \/ /\ ime.applied
       /\ \E w \in Written(ime.bytes, "original") :
             ime' = [ime EXCEPT !.bytes = w.bytes, !.pointer = @ /\ ~w.ok, !.applied = @ /\ ~w.ok]
    \/ ~ime.applied /\ ime' = [ime EXCEPT !.pointer = FALSE]

\* common_uninstall: what is still written in the game's code is written back.
RestoreFilter ==
    \/ /\ ime.pointer
       /\ \E w \in Written(ime.bytes, "original") :
             ime' = [ime EXCEPT !.bytes = w.bytes, !.pointer = ~w.ok, !.applied = @ /\ ~w.ok]
    \/ ~ime.pointer /\ UNCHANGED ime

\* The worker is waited for first.
UnloadCommon ==
    /\ unloading = "adapter" /\ unloading' = "common"
    /\ settingsWorker # "running" /\ settingsWorker' = "none"
    /\ RestoreFilter
    /\ installed' \in {installed, installed \ {"wwise"}}
    /\ UNCHANGED <<setting, pinned, loader, phaseVars, dllVars, steamState, props, initAt,
                   regulation,
                   routing, selectionVars>>

\* common_uninstall_file_routing, then MH_Uninitialize removes every hook that is left:
\* not what was written over a slot or a table of the game.
UnloadRest ==
    /\ unloading = "common" /\ unloading' = "done"
    /\ routing' = [routing EXCEPT !.registered = {}, !.hooked = FALSE]
    /\ installed' = installed \cap {"logo"}
    /\ ime' = [ime EXCEPT !.hook = FALSE]
    /\ props' = [props EXCEPT !.hook = "none"]
    /\ regulation' = [regulation EXCEPT !.hooked = {}]
    /\ reachedPhases' = {} /\ observers' = <<>>
    /\ UNCHANGED <<setting, pinned, loader, doing, dllVars, steamState, settingsWorker, initAt,
                   selectionVars>>

----------------------------------------------------------------------------

ObserverStep(a) ==
    \/ CallNext(a)
    \/ \E what \in {"logo", "data hook", "allocator tables"} : InstallFeature(a, what)
    \/ InstallAllocator(a) \/ StartSettingsWorker(a) \/ InstallRegulation(a)
    \/ HookProperties(a) \/ ScheduleOffline(a) \/ SetOffline(a)
    \/ \E what \in {"dlls", "late dlls"} : LoadDlls(a, what)

GameStep ==
    \/ ReachMain \/ LoadEarly \/ SteamInit \/ InstallAssets
    \/ StepReached("render", "render hook") \/ StepReached("data", "data hook")
    \/ SettingsWorkerRuns \/ RegulationTick
    \/ \E t \in InitThreads : Initialize(t) \/ Initialized(t)

StartupNext ==
    \/ unloading = "no" /\ LoaderStep
    \/ unloading = "no" /\ GameStep
    \/ unloading = "no" /\ \E a \in Advancers : ObserverStep(a)
    \/ UnloadAdapter \/ UnloadCommon \/ UnloadRest

\* The choices are made at any time.
StartupSpec ==
    /\ StartupInit /\ SelectionInit
    /\ [][StartupNext \/ (SelectionNext /\ UNCHANGED startupVars)]_<<startupVars, selectionVars>>

----------------------------------------------------------------------------
(* Properties *)

StartupTypeOK ==
    /\ reachedPhases \subseteq {"entry", "main", "runtime", "properties", "render", "data"}
    /\ dlls \subseteq {"early", "dlls", "late dlls"}
    /\ beforeMain \in {"none", "loaded", "failed"} /\ steamState \in 0..2
    /\ settingsWorker \in {"none", "running", "over"} /\ props.set \in 0..1
    /\ regulation.hooked \subseteq Writers \cup {"step"}

\* A mod's DLL of a later stage never runs unless the early ones are in, which is before
\* the game's main (modloader.c: the DLLs of a later stage may need them).
LaterDllsNeedEarly ==
    dlls \cap {"dlls", "late dlls"} # {} => "early" \in dlls /\ "main" \in reachedPhases

\* adapter.c: the consumers of the runtime phase ran before the assets are hooked, on
\* whichever thread they were registered.
ConsumersPrecedeAssets ==
    "assets" \in installed =>
        /\ "runtime" \in reachedPhases
        /\ Mine("steam") = {} /\ doing["steam"] \in {"idle", "advanced", "over"}

\* When the loader says that the property is taken care of, the game is offline as soon
\* as the first thread has run through the initializer; and nothing is set twice.
OfflineIsApplied ==
    \A t \in InitThreads : props.reported /\ initAt[t] = "after" => props.set = 1

\* The loader never loses track of code of the game it has written over, through failed
\* writes, failed restores and the unload.
ImePatchIsRemembered == ime.bytes = "patched" => ime.pointer

StartupIsSound ==
    /\ StartupTypeOK /\ LaterDllsNeedEarly /\ ConsumersPrecedeAssets /\ OfflineIsApplied
    /\ ImePatchIsRemembered /\ CpuSetsAreRight /\ SoundsAreReplaced
=============================================================================
