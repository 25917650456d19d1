----------------------------- MODULE Readiness -----------------------------
(***************************************************************************)
(* When the loader learns how far the game has started: the hook on        *)
(* SteamAPI_Init whose callback sets the rest up (runtime_ready.c,         *)
(* adapter.c) and may have to be tried again, and the hooks on steps of    *)
(* the game (data_ready.c, asset_hooks.c) that advance the later phases,   *)
(* with their removal while the game's threads run through them.           *)
(*                                                                         *)
(* A detour counts itself in, takes its lock shared, reads the original    *)
(* and calls it.  The removal takes the lock exclusively to disable the    *)
(* hook, waits until nobody is counted, and only then frees the            *)
(* trampoline.                                                             *)
(***************************************************************************)
EXTENDS Naturals, FiniteSets

CONSTANTS GameThreads,
          Games,        \* for each game the steps that are hooked in it
          Strategies    \* how data readiness is seen: "named", "sprj"

ASSUME GamesAssumption == Games \subseteq SUBSET {"file", "render", "data"}
ASSUME ThreadsAssumption == IsFiniteSet(GameThreads)
ASSUME StrategiesAssumption == Strategies \subseteq {"named", "sprj"}

VARIABLES
    runtimeHook,    \* the hook on SteamAPI_Init is in place
    runtimeState,   \* after_runtime_state: 0 pending, 1 running, 2 done
    hook,           \* MinHook's view of a step: "none", "on" or "off" (disabled)
    original,       \* old_*: steps whose original pointer is set
    known,          \* *_hook_target: steps the loader believes are hooked
    pinned,         \* the loader's module is pinned
    counted,        \* *_hook_active
    sharing,        \* *_hook_lock: who holds it shared
    exclusive,      \* *_hook_lock: held by the removal
    shutting,       \* *_shutting_down
    latch,          \* phase_reached of data_ready.c
    phases,        \* phases of the lifecycle
    loaded,         \* the game's params are complete (a negative step index)
    strategy,       \* data_ready_strategy of this game
    at,             \* where a game thread is in the loader
    step,           \* the step whose detour it is in
    kept,           \* what it has read: the original, the index before, latch
    late,           \* it counted itself after the removal had seen nobody
    removal         \* where the removal stands

readyVars == <<runtimeHook, runtimeState, hook, original, known, pinned, counted,
          sharing, exclusive, shutting, latch, phases, loaded, strategy,
          at, step, kept, late, removal>>

runtimeVars == <<runtimeHook, runtimeState, pinned>>
hookVars    == <<hook, original, known>>
lockVars    == <<counted, sharing, exclusive>>
gameVars    == <<latch, phases, loaded>>
threadVars  == <<at, step, kept, late>>

Steps == DOMAIN hook
NoStep == "none"
Nothing == [original |-> FALSE, before |-> FALSE, track |-> FALSE]

ReadyInit ==
    /\ runtimeHook = TRUE /\ runtimeState = 0
    /\ hook \in {[h \in S |-> "none"] : S \in Games}
    /\ original = {} /\ known = {}
    /\ pinned = FALSE
    /\ counted = [h \in Steps |-> 0]
    /\ sharing = [h \in Steps |-> {}]
    /\ exclusive = {}
    /\ shutting = {} /\ latch = FALSE /\ phases = {} /\ loaded = FALSE
    /\ strategy \in Strategies
    /\ "data" \in Steps \/ strategy = "named"     \* it does not matter there
    /\ at = [t \in GameThreads |-> "game"]
    /\ step = [t \in GameThreads |-> NoStep]
    /\ kept = [t \in GameThreads |-> Nothing]
    /\ late = {}
    /\ removal = "none"

GoesTo(t, l) == at' = [at EXCEPT ![t] = l]
Moves(t, l) == GoesTo(t, l) /\ UNCHANGED <<step, kept, late>>

----------------------------------------------------------------------------
(* SteamAPI_Init (steam_api_init_hooked) and the set-up it runs.            *)

\* Mutant: the state is read and written without the interlocked exchange's test.
BeginsAgain(t) ==
    /\ at[t] = "game"
    /\ removal = "none"
    /\ runtimeHook
    /\ runtimeState # 2
    /\ runtimeState' = 1
    /\ Moves(t, "render hook")
    /\ UNCHANGED <<runtimeHook, pinned, hookVars, lockVars, gameVars, shutting, strategy, removal>>

\* The game's function has succeeded and this call is the first to take
\* 0 to 1; every other call, a nested one of a DLL loaded by the set-up too,
\* passes through.
InitSucceeds(t) ==
    /\ at[t] = "game"
    /\ removal = "none"
    /\ runtimeHook
    /\ runtimeState = 0
    /\ runtimeState' = 1
    /\ Moves(t, "render hook")
    /\ UNCHANGED <<runtimeHook, pinned, hookVars, lockVars, gameVars, shutting, strategy, removal>>

\* Mutant: the module is not pinned.
HookedUnpinned(h) ==
    /\ hook[h] = "none"
    /\ hook' = [hook EXCEPT ![h] = "on"]
    /\ original' = original \cup {h}
    /\ known' = known \cup {h}
    /\ UNCHANGED pinned

\* ml_hook_pin_module and ml_hook_install: creating a hook fails where one
\* exists, and may fail for other reasons.
Hooked(h) ==
    /\ hook[h] = "none"
    /\ hook' = [hook EXCEPT ![h] = "on"]
    /\ original' = original \cup {h}
    /\ known' = known \cup {h}
    /\ pinned' = TRUE

NotHooked == UNCHANGED <<hook, original, known>> /\ pinned' \in {pinned, TRUE}

\* One of the install functions for step h: nothing to do when it is known.
Install(h) ==
    IF h \notin Steps \/ h \in known
    THEN UNCHANGED <<hook, original, known, pinned>>
    ELSE Hooked(h) \/ NotHooked

\* install_after_runtime: a missing render hook is only logged.
SetUpRender(t) ==
    /\ at[t] = "render hook"
    /\ Install("render")
    /\ Moves(t, "advance runtime")
    /\ UNCHANGED <<runtimeHook, runtimeState, lockVars, gameVars, shutting, strategy, removal>>

\* The phase is advanced once; its observers hook the data step, at the first
\* attempt only.
SetUpObservers(t) ==
    /\ at[t] = "advance runtime"
    /\ phases' = phases \cup {"runtime"}
    /\ IF "runtime" \in phases THEN UNCHANGED <<hook, original, known, pinned>>
       ELSE Install("data")
    /\ Moves(t, "file hook")
    /\ UNCHANGED <<runtimeHook, runtimeState, lockVars, latch, loaded, shutting, strategy, removal>>

\* The hook on the file step; the Wwise hooks that follow it in some games may
\* fail as well.
SetUpFile(t) ==
    /\ at[t] = "file hook"
    /\ Install("file")
    /\ \/ Moves(t, "fails")
       \/ ("file" \in Steps => "file" \in known') /\ Moves(t, "succeeds")
    /\ UNCHANGED <<runtimeHook, runtimeState, lockVars, gameVars, shutting, strategy, removal>>

\* Mutant: a failed set-up is not tried again.
SetUpEndsForGood(t) ==
    /\ at[t] \in {"succeeds", "fails"}
    /\ runtimeState' = IF at[t] = "succeeds" THEN 2 ELSE runtimeState
    /\ Moves(t, "game")
    /\ UNCHANGED <<runtimeHook, pinned, hookVars, lockVars, gameVars, shutting, strategy, removal>>

SetUpEnds(t) ==
    /\ at[t] \in {"succeeds", "fails"}
    /\ runtimeState' = IF at[t] = "succeeds" THEN 2 ELSE 0
    /\ Moves(t, "game")
    /\ UNCHANGED <<runtimeHook, pinned, hookVars, lockVars, gameVars, shutting, strategy, removal>>

SetUp(t) == SetUpRender(t) \/ SetUpObservers(t) \/ SetUpFile(t) \/ SetUpEnds(t)

SettingUp == {t \in GameThreads :
                at[t] \in {"render hook", "advance runtime", "file hook", "succeeds", "fails"}}

----------------------------------------------------------------------------
(* The detours of the steps.                                                *)

\* The game only waits in the named step once its params are complete.
MayStep(h) == h = "data" /\ strategy = "named" => loaded

\* The game loads its params (in its own step, when that is not hooked).
GameLoads ==
    /\ "data" \in Steps
    /\ ~loaded
    /\ strategy = "sprj" => hook["data"] # "on"
    /\ loaded' = TRUE
    /\ UNCHANGED <<runtimeVars, hookVars, lockVars, latch, phases, shutting, strategy, threadVars, removal>>

\* The jump into the detour, before anything is counted.
CallStep(t, h) ==
    /\ at[t] = "game"
    /\ hook[h] = "on"
    /\ MayStep(h)
    /\ GoesTo(t, "enter")
    /\ step' = [step EXCEPT ![t] = h]
    /\ UNCHANGED <<kept, late, runtimeVars, hookVars, lockVars, gameVars, shutting, strategy, removal>>

\* The removal waits for the detours of h to end.
Waits(h) == \/ h = "file" /\ removal = "drain file"
            \/ h = "render" /\ removal = "drain render"
            \/ h = "data" /\ removal = "data drain"

BeforeDrain == {"none", "file lock", "file unlock", "render lock", "render unlock", "drain file"}

\* The removal of step h has seen that nobody is counted.
Drained(h) ==
    CASE h = "file"   -> removal \notin BeforeDrain
      [] h = "render" -> removal \notin BeforeDrain \cup {"drain render"}
      [] h = "data"   -> removal \in {"data remove", "done"}

\* Mutant: the detour takes the lock without counting itself.
CountNobody(t) ==
    /\ at[t] = "enter"
    /\ late' = IF Drained(step[t]) THEN late \cup {t} ELSE late
    /\ GoesTo(t, "counted")
    /\ UNCHANGED <<counted, sharing, exclusive, step, kept, runtimeVars, hookVars, gameVars, shutting, strategy, removal>>

Count(t) ==
    /\ at[t] = "enter"
    /\ counted' = [counted EXCEPT ![step[t]] = @ + 1]
    /\ late' = IF Drained(step[t]) THEN late \cup {t} ELSE late
    /\ GoesTo(t, "counted")
    /\ UNCHANGED <<sharing, exclusive, step, kept, runtimeVars, hookVars, gameVars, shutting, strategy, removal>>

\* The removal asks for the lock of h: an SRW lock does not let new readers
\* join while a writer waits.
Asked(h) == \/ h = "file" /\ removal = "file lock"
            \/ h = "render" /\ removal = "render lock"
            \/ h = "data" /\ removal = "data lock"

\* The lock, then the original, the latch and the step index before the call.
Share(t) ==
    LET h == step[t] IN
    /\ at[t] = "counted"
    /\ h \notin exclusive
    /\ Asked(h) => sharing[h] = {}
    /\ sharing' = [sharing EXCEPT ![h] = @ \cup {t}]
    /\ kept' = [kept EXCEPT ![t] =
                  [original |-> h \in original,
                   track    |-> h = "data" /\ strategy = "sprj" /\ ~latch,
                   before   |-> h = "data" /\ strategy = "sprj" /\ ~latch /\ ~loaded]]
    /\ GoesTo(t, "sharing")
    /\ UNCHANGED <<step, late, counted, exclusive, runtimeVars, hookVars, gameVars, shutting, strategy, removal>>

\* Mutant: the transition of the step index is not looked at.
ReportsAtOnce(t) ==
    CASE step[t] = "render" -> "render" \notin shutting
      [] step[t] = "data" /\ strategy = "named" -> ~latch /\ "data" \notin shutting
      [] step[t] = "data" /\ strategy = "sprj" -> kept[t].track /\ "data" \notin shutting
      [] OTHER -> FALSE

\* Whether the detour goes on to advance its phase.
Reports(t) ==
    CASE step[t] = "render" -> "render" \notin shutting
      [] step[t] = "data" /\ strategy = "named" -> ~latch /\ "data" \notin shutting
      [] step[t] = "data" /\ strategy = "sprj" ->
            kept[t].track /\ "data" \notin shutting /\ kept[t].before /\ loaded'
      [] OTHER -> FALSE

\* The original runs, in which the param step may finish loading, and the detour
\* looks at what has changed.
RunOriginal(t) ==
    /\ at[t] = "sharing"
    /\ loaded' \in IF step[t] = "data" /\ strategy = "sprj" /\ kept[t].original
                   THEN {loaded, TRUE} ELSE {loaded}
    /\ Moves(t, IF Reports(t) THEN "report" ELSE "unshare")
    /\ UNCHANGED <<runtimeVars, hookVars, lockVars, latch, phases, shutting, strategy, removal>>

\* advance_data_ready (its own latch first), or ml_lifecycle_advance.
Report(t) ==
    /\ at[t] = "report"
    /\ latch' = (latch \/ step[t] = "data")
    /\ phases' = IF step[t] = "data" /\ latch THEN phases ELSE phases \cup {step[t]}
    /\ Moves(t, "unshare")
    /\ UNCHANGED <<runtimeVars, hookVars, lockVars, loaded, shutting, strategy, removal>>

Unshare(t) ==
    /\ at[t] = "unshare"
    /\ sharing' = [sharing EXCEPT ![step[t]] = @ \ {t}]
    /\ kept' = [kept EXCEPT ![t] = Nothing]
    /\ GoesTo(t, "uncount")
    /\ UNCHANGED <<step, late, counted, exclusive, runtimeVars, hookVars, gameVars, shutting, strategy, removal>>

Uncount(t) ==
    /\ at[t] = "uncount"
    /\ counted' = [counted EXCEPT ![step[t]] = @ - 1]
    /\ late' = late \ {t}
    /\ step' = [step EXCEPT ![t] = NoStep]
    /\ GoesTo(t, "game")
    /\ UNCHANGED <<kept, sharing, exclusive, runtimeVars, hookVars, gameVars, shutting, strategy, removal>>

Detour(t) == \/ Count(t) \/ Share(t) \/ RunOriginal(t)
             \/ Report(t) \/ Unshare(t) \/ Uncount(t)

----------------------------------------------------------------------------
(* gamehook_uninstall: the asset hooks, the SteamAPI hook, the data step.   *)
(* Nothing waits for a thread inside SteamAPI_Init, whose original may be   *)
(* gone when it gets there; the removal is taken to start with none inside. *)

Unmoved == UNCHANGED <<runtimeVars, gameVars, strategy, threadVars>>

BeginRemoval ==
    /\ removal = "none"
    /\ SettingUp = {}
    /\ shutting' = shutting \cup {"render"}
    /\ removal' = "file lock"
    /\ Unmoved /\ UNCHANGED <<hookVars, lockVars>>

\* The place that follows, over the steps this game has hooks for.
Lock(h, from, to) ==
    /\ removal = from
    /\ h \in Steps => sharing[h] = {}
    /\ exclusive' = exclusive \cup {h}
    /\ removal' = to
    /\ Unmoved /\ UNCHANGED <<hookVars, counted, sharing, shutting>>

\* Mutant: the lock is not given back after the hook was disabled.
DisableLocked(h, from, to) ==
    /\ removal = from
    /\ hook' \in IF h \in known THEN {hook, [hook EXCEPT ![h] = "off"]} ELSE {hook}
    /\ removal' = to
    /\ Unmoved /\ UNCHANGED <<original, known, exclusive, counted, sharing, shutting>>

\* ml_hook_disable, which may fail, and the lock is given back.
Disable(h, from, to) ==
    /\ removal = from
    /\ hook' \in IF h \in known THEN {hook, [hook EXCEPT ![h] = "off"]} ELSE {hook}
    /\ exclusive' = exclusive \ {h}
    /\ removal' = to
    /\ Unmoved /\ UNCHANGED <<original, known, counted, sharing, shutting>>

\* Mutant: nobody waits for the counted detours.
NoDrain(h, from, to) ==
    /\ removal = from
    /\ removal' = to
    /\ Unmoved /\ UNCHANGED <<hookVars, lockVars, shutting>>

\* The loop over Sleep(0) until the counter is seen to be zero.
Drain(h, from, to) ==
    /\ removal = from
    /\ h \in Steps => counted[h] = 0
    /\ removal' = to
    /\ Unmoved /\ UNCHANGED <<hookVars, lockVars, shutting>>

\* The hooks among hs that the loader knows of are all disabled.
AllOff(hs) == \A h \in hs \cap known : hook[h] = "off"

\* ml_hook_remove of hs: what is removed has no trampoline any more.  The
\* pointers are cleared only when all could be removed, the flag when the other
\* asset hooks, which are not here, are removed too.
RemoveHooks(hs, from, to) ==
    /\ removal = from
    /\ \/ /\ AllOff(hs)
          /\ \E gone \in SUBSET (hs \cap known) :
                /\ hook' = [h \in Steps |-> IF h \in gone THEN "none" ELSE hook[h]]
                /\ IF gone = hs \cap known
                   THEN /\ original' = original \ hs
                        /\ known' = known \ hs
                        /\ shutting' \in {shutting, shutting \ hs}
                   ELSE UNCHANGED <<original, known, shutting>>
       \/ /\ ~AllOff(hs)
          /\ UNCHANGED <<hookVars, shutting>>
    /\ removal' = to
    /\ Unmoved /\ UNCHANGED lockVars

\* ml_runtime_ready_hook_uninstall: everything is reset when the hook is gone.
RemoveRuntime ==
    /\ removal = "runtime"
    /\ \/ runtimeHook' = FALSE /\ runtimeState' = 0
       \/ UNCHANGED <<runtimeHook, runtimeState>>
    /\ removal' = "data shut"
    /\ UNCHANGED <<pinned, hookVars, lockVars, gameVars, shutting, strategy, threadVars>>

ShutData ==
    /\ removal = "data shut"
    /\ shutting' = IF "data" \in known THEN shutting \cup {"data"} ELSE shutting
    /\ removal' = "data lock"
    /\ Unmoved /\ UNCHANGED <<hookVars, lockVars>>

\* With the hook of the data step its latch is reset.
RemoveData ==
    /\ removal = "data remove"
    /\ \/ /\ AllOff({"data"})
          /\ hook' = [h \in Steps |-> IF h = "data" THEN "none" ELSE hook[h]]
          /\ original' = original \ {"data"} /\ known' = known \ {"data"}
          /\ shutting' = shutting \ {"data"}
          /\ latch' = FALSE
       \/ "data" \in known /\ UNCHANGED <<hookVars, shutting, latch>>
    /\ removal' = "done"
    /\ UNCHANGED <<runtimeVars, lockVars, phases, loaded, strategy, threadVars>>

RemovalStep ==
    \/ Lock("file", "file lock", "file unlock") \/ Disable("file", "file unlock", "render lock")
    \/ Lock("render", "render lock", "render unlock") \/ Disable("render", "render unlock", "drain file")
    \/ Drain("file", "drain file", "drain render") \/ Drain("render", "drain render", "remove")
    \/ RemoveHooks({"file", "render"}, "remove", "runtime")
    \/ RemoveRuntime \/ ShutData
    \/ Lock("data", "data lock", "data unlock") \/ Disable("data", "data unlock", "data drain")
    \/ Drain("data", "data drain", "data remove")
    \/ RemoveData

----------------------------------------------------------------------------
ReadyNext ==
    \/ GameLoads
    \/ \E t \in GameThreads :
         \/ InitSucceeds(t) \/ SetUp(t)
         \/ \E h \in Steps : CallStep(t, h)
         \/ Detour(t)
    \/ BeginRemoval \/ RemovalStep

\* A thread runs, an original returns, and a lock that is free again and again
\* is had in the end.  Nothing makes the game call a step, or anyone
\* remove the hooks.
ReadyFairness ==
    /\ \A t \in GameThreads : WF_readyVars(SetUp(t)) /\ SF_readyVars(Detour(t))
    /\ SF_readyVars(RemovalStep)

ReadySpec == ReadyInit /\ [][ReadyNext]_readyVars /\ ReadyFairness

----------------------------------------------------------------------------
\* A detour that was counted before the removal looked never finds its original
\* gone, neither the pointer (data_ready.c:64, asset_hooks.c:838) nor the
\* trampoline behind it, while it is to call it.
CountedCallersKeepTheirOriginal ==
    \A t \in GameThreads \ late :
        at[t] = "sharing" => kept[t].original /\ hook[step[t]] # "none"

\* AFTER_DATA_READY says that the params are complete (lifecycle.h:27,
\* gamehook.c: "fail closed"), also when steps run on two threads at once and
\* the hook is removed meanwhile.
DataReadyMeansLoaded == "data" \in phases => loaded

\* The set-up runs on one thread at a time, is never run again once it has
\* succeeded, and is not marked as running when nobody runs it.
OneSetUp ==
    /\ Cardinality(SettingUp) <= 1
    /\ runtimeState = 1 <=> SettingUp # {}

\* Set-up runs once, and what waits for its end may rely on it (runtime_ready.c:30).
SetUpIsSound == DataReadyMeansLoaded /\ OneSetUp

\* While a step can still jump into the loader, the loader stays mapped, whatever
\* could not be removed (hook.h:30).
HookedIsPinned == \A h \in Steps : hook[h] # "none" => pinned

\* What a hooked step runs through stays: the original, its trampoline, the loader.
HooksOutliveTheirCallers == CountedCallersKeepTheirOriginal /\ HookedIsPinned

\* The removal comes to an end, although the game goes on calling its steps: it
\* may only wait for ever where a hook could not be disabled (data_ready.c:226,
\* asset_hooks.c:928, which wait all the same).
StillEntered == \E h \in known : Waits(h) /\ hook[h] = "on"
RemovalEnds == removal = "file lock" ~> (removal = "done" \/ StillEntered)

=============================================================================
