--------------------------- MODULE ReadinessProofs ---------------------------
(***************************************************************************)
(* Proofs about Readiness for any number of the game's threads and any     *)
(* game: no detour that was counted finds its original gone, a hooked      *)
(* module stays mapped, the set-up has one thread, and data readiness is   *)
(* not reported too early.                                                 *)
(***************************************************************************)
EXTENDS Readiness, FiniteSetTheorems, TLAPS

SetUpPlaces == {"render hook", "advance runtime", "file hook", "succeeds", "fails"}
InsidePlaces == {"counted", "sharing", "report", "unshare", "uncount"}
DetourPlaces == {"enter"} \cup InsidePlaces

\* The threads that *_hook_active counts.
Inside(h) == {t \in GameThreads : at[t] \in InsidePlaces /\ step[t] = h}

TypeInv ==
    /\ Steps \subseteq {"file", "render", "data"}
    /\ hook \in [Steps -> {"none", "on", "off"}]
    /\ at \in [GameThreads -> {"game"} \cup SetUpPlaces \cup DetourPlaces]
    /\ step \in [GameThreads -> Steps \cup {NoStep}]
    /\ kept \in [GameThreads -> [original : BOOLEAN, before : BOOLEAN, track : BOOLEAN]]
    /\ counted \in [Steps -> Nat]
    /\ pinned \in BOOLEAN /\ loaded \in BOOLEAN /\ latch \in BOOLEAN
    /\ strategy \in {"named", "sprj"} /\ runtimeState \in {0, 1, 2}
    /\ \A t \in GameThreads : at[t] \in DetourPlaces => step[t] \in Steps

\* The counters count.
CountInv == \A h \in Steps : counted[h] = Cardinality(Inside(h))

\* A hook the loader knows has its original, and so has every hook that is in until the
\* removal has drained its callers; hooks pin the module.
HookInv ==
    /\ known \subseteq original /\ known \subseteq Steps
    /\ known # {} => pinned
    /\ \A h \in Steps : hook[h] # "none" => pinned /\ (~Drained(h) => h \in original)

\* Who is in a detour that was not drained finds the hook in; who is still inside when
\* it was drained came late.
DetourInv ==
    \A t \in GameThreads :
        /\ at[t] \in DetourPlaces /\ ~Drained(step[t]) => hook[step[t]] # "none"
        /\ at[t] \in InsidePlaces /\ Drained(step[t]) => t \in late
        /\ at[t] = "sharing" /\ ~Drained(step[t]) => kept[t].original

\* The set-up is the one thread's that took the state from 0 to 1, before any removal.
SetUpInv ==
    /\ \A t, u \in SettingUp : t = u
    /\ runtimeState = 1 <=> SettingUp # {}
    /\ SettingUp # {} => removal = "none"

\* A step that means that the params are loaded runs only then, and only then is its
\* phase advanced.
LoadInv ==
    /\ "data" \in phases => loaded
    /\ \A t \in GameThreads : step[t] = "data" =>
          /\ at[t] \in DetourPlaces /\ strategy = "named" => loaded
          /\ at[t] = "report" => loaded

IInv == TypeInv /\ CountInv /\ HookInv /\ DetourInv /\ SetUpInv /\ LoadInv

----------------------------------------------------------------------------
\* The game starts with no hook in and no thread in the loader.
LEMMA InitIInv == ReadyInit => IInv
<1> SUFFICES ASSUME ReadyInit PROVE IInv
  OBVIOUS
<1> USE DEF ReadyInit, Steps
<1>1. TypeInv
  BY GamesAssumption, StrategiesAssumption DEF TypeInv, Nothing, SetUpPlaces, DetourPlaces, InsidePlaces
<1>2. CountInv
  <2> SUFFICES ASSUME NEW h \in Steps PROVE counted[h] = Cardinality(Inside(h))
    BY DEF CountInv
  <2>1. Inside(h) = {}
    BY DEF Inside, InsidePlaces
  <2> QED BY <2>1, FS_EmptySet
<1>3. HookInv /\ DetourInv /\ LoadInv
  BY DEF HookInv, DetourInv, LoadInv, DetourPlaces, InsidePlaces
<1>4. SetUpInv
  <2>1. SettingUp = {}
    BY DEF SettingUp
  <2> QED BY <2>1 DEF SetUpInv
<1> QED BY <1>1, <1>2, <1>3, <1>4 DEF IInv

----------------------------------------------------------------------------
\* What a hook that is installed, or is not, does to the invariant's parts about hooks.
LEMMA InstallKeeps ==
  ASSUME TypeInv, HookInv, NEW h, Install(h)
  PROVE /\ Steps' = Steps /\ hook' \in [Steps -> {"none", "on", "off"}] /\ pinned' \in BOOLEAN
        /\ known' \subseteq original' /\ known' \subseteq Steps /\ (known' # {} => pinned')
        /\ \A g \in Steps : /\ hook[g] # "none" => hook'[g] # "none"
                            /\ g \in original => g \in original'
                            /\ hook'[g] # "none" => /\ pinned'
                                                    /\ hook[g] # "none" \/ g \in original'
<1>1. CASE h \notin Steps \/ h \in known
  <2>1. UNCHANGED <<hook, original, known, pinned>>
    BY <1>1 DEF Install
  <2> QED BY <2>1 DEF TypeInv, HookInv, Steps
<1>2. CASE h \in Steps /\ h \notin known /\ Hooked(h)
  <2> USE <1>2
  <2>1. /\ hook' = [hook EXCEPT ![h] = "on"] /\ pinned' = TRUE
        /\ original' = original \cup {h} /\ known' = known \cup {h}
    BY DEF Hooked
  <2>2. Steps' = Steps /\ hook' \in [Steps -> {"none", "on", "off"}]
    BY <2>1 DEF TypeInv, Steps
  <2>3. \A g \in Steps : hook'[g] = IF g = h THEN "on" ELSE hook[g]
    BY <2>1 DEF TypeInv
  <2>4. known' \subseteq original' /\ known' \subseteq Steps /\ pinned' \in BOOLEAN
    BY <2>1 DEF HookInv
  <2> QED BY <2>1, <2>2, <2>3, <2>4
<1>3. CASE h \in Steps /\ h \notin known /\ NotHooked
  <2>1. UNCHANGED <<hook, original, known>>
    BY <1>3 DEF NotHooked
  <2>2. pinned' \in BOOLEAN /\ (pinned => pinned')
    <3>1. pinned' = pinned \/ pinned' = TRUE
      BY <1>3 DEF NotHooked
    <3>2. pinned \in BOOLEAN
      BY DEF TypeInv
    <3>3. CASE pinned' = TRUE
      BY <3>3, Zenon
    <3>4. CASE pinned' = pinned
      BY <3>2, <3>4
    <3> QED BY <3>1, <3>3, <3>4
  <2> QED BY <2>1, <2>2 DEF TypeInv, HookInv, Steps
<1> QED BY <1>1, <1>2, <1>3 DEF Install

\* The counters stay exact when no thread comes in or goes out.
LEMMA SameInside ==
  ASSUME CountInv, Steps' = Steps, counted' = counted,
         \A t \in GameThreads : /\ at'[t] \in InsidePlaces <=> at[t] \in InsidePlaces
                                /\ at[t] \in InsidePlaces => step'[t] = step[t]
  PROVE CountInv'
<1> SUFFICES ASSUME NEW h \in Steps PROVE counted[h] = Cardinality(Inside(h)')
  BY DEF CountInv
<1>1. Inside(h)' = Inside(h)
  BY DEF Inside
<1> QED BY <1>1 DEF CountInv

\* The set-up of one thread, of which the others see the hooks it installs.
LEMMA SetUpStep ==
  ASSUME IInv, NEW t \in GameThreads, InitSucceeds(t) \/ SetUp(t)
  PROVE IInv'
<1> USE DEF IInv
<1>1. CASE InitSucceeds(t)
  <2> USE <1>1 DEF InitSucceeds, Moves, GoesTo, hookVars, lockVars, gameVars
  <2>1. Steps' = Steps
    BY DEF Steps
  <2>2. TypeInv'
    BY <2>1 DEF TypeInv, SetUpPlaces, DetourPlaces, InsidePlaces
  <2>3. CountInv'
    BY <2>1, SameInside DEF TypeInv, InsidePlaces
  <2>4. HookInv'
    BY <2>1 DEF HookInv, Drained, BeforeDrain
  <2>8. LoadInv'
    BY <2>1 DEF LoadInv, TypeInv, DetourPlaces, InsidePlaces
  <2>5. DetourInv'
    BY <2>1 DEF DetourInv, Drained, BeforeDrain, TypeInv, DetourPlaces, InsidePlaces
  <2>6. SettingUp = {} /\ SettingUp' = {t}
    <3>1. SettingUp = {}
      <4> HIDE DEF InitSucceeds
      <4>1. runtimeState = 0
        BY DEF InitSucceeds
      <4> QED BY <4>1 DEF SetUpInv
    <3>2. \A u \in GameThreads : at'[u] = IF u = t THEN "render hook" ELSE at[u]
      BY DEF TypeInv
    <3> QED BY <3>1, <3>2 DEF SettingUp
  <2>7. SetUpInv'
    BY <2>6 DEF SetUpInv
  <2> QED BY <2>2, <2>3, <2>4, <2>5, <2>7, <2>8
<1>2. ASSUME NEW h, Install(h), at[t] \in SetUpPlaces, NEW l \in SetUpPlaces, Moves(t, l),
             UNCHANGED <<runtimeHook, runtimeState, lockVars, loaded, shutting, strategy, removal, latch>>,
             phases' \subseteq phases \cup {"runtime"}
      PROVE IInv'
  <2> USE <1>2
  <2>1. /\ Steps' = Steps /\ hook' \in [Steps -> {"none", "on", "off"}] /\ pinned' \in BOOLEAN
        /\ known' \subseteq original' /\ known' \subseteq Steps /\ (known' # {} => pinned')
        /\ \A g \in Steps : /\ hook[g] # "none" => hook'[g] # "none"
                            /\ g \in original => g \in original'
                            /\ hook'[g] # "none" => /\ pinned'
                                                    /\ hook[g] # "none" \/ g \in original'
    BY InstallKeeps
  <2>2. /\ at' = [at EXCEPT ![t] = l]
        /\ UNCHANGED <<step, kept, late, counted, runtimeState, loaded, latch, strategy, removal>>
    BY DEF Moves, GoesTo, lockVars
  <2>3. at' \in [GameThreads -> {"game"} \cup SetUpPlaces \cup DetourPlaces]
    BY <2>2 DEF TypeInv
  <2>4. /\ \A u \in GameThreads : at'[u] = IF u = t THEN l ELSE at[u]
        /\ \A p \in DetourPlaces : at[t] # p /\ l # p
        /\ InsidePlaces \subseteq DetourPlaces
    BY <2>2 DEF TypeInv, SetUpPlaces, DetourPlaces, InsidePlaces
  <2> HIDE <1>2
  <2>5. TypeInv'
    BY <2>1, <2>2, <2>3, <2>4 DEF TypeInv
  <2>6. CountInv'
    BY <2>1, <2>2, <2>4, SameInside
  <2>7. \A g : Drained(g)' <=> Drained(g)
    BY <2>2 DEF Drained, BeforeDrain
  <2>8. HookInv'
    BY <2>1, <2>7 DEF HookInv
  <2>9. LoadInv'
    BY <1>2, <2>1, <2>2, <2>4 DEF LoadInv, DetourPlaces, InsidePlaces
  <2>10. DetourInv'
    <3>1. \A u \in GameThreads : at'[u] \in DetourPlaces => at'[u] = at[u] /\ step[u] \in Steps
      BY <2>4 DEF TypeInv
    <3>2. "sharing" \in DetourPlaces
      BY DEF DetourPlaces, InsidePlaces
    <3> QED BY <2>1, <2>2, <2>4, <2>7, <3>1, <3>2 DEF DetourInv
  <2>11. SettingUp' = SettingUp
    BY <1>2, <2>4 DEF SettingUp, SetUpPlaces
  <2>12. SetUpInv'
    BY <2>2, <2>11 DEF SetUpInv
  <2> QED BY <2>5, <2>6, <2>8, <2>9, <2>10, <2>12
<1>3. CASE SetUpRender(t)
  BY <1>2, <1>3 DEF SetUpRender, gameVars, SetUpPlaces
<1>4. CASE SetUpObservers(t)
  <2>1. Install("data") \/ UNCHANGED <<hook, original, known, pinned>>
    BY <1>4 DEF SetUpObservers
  <2>2. CASE Install("data")
    BY <1>2, <1>4, <2>2 DEF SetUpObservers, SetUpPlaces
  <2>3. CASE UNCHANGED <<hook, original, known, pinned>>
    <3>1. Install("nothing")
      BY <2>3 DEF Install, TypeInv
    <3> QED BY <1>2, <1>4, <3>1 DEF SetUpObservers, SetUpPlaces
  <2> QED BY <2>1, <2>2, <2>3
<1>5. CASE SetUpFile(t)
  BY <1>2, <1>5 DEF SetUpFile, gameVars, SetUpPlaces
<1>6. CASE SetUpEnds(t)
  <2> USE <1>6 DEF SetUpEnds, Moves, GoesTo, hookVars, lockVars, gameVars
  <2>1. Steps' = Steps
    BY DEF Steps
  <2>2. TypeInv'
    BY <2>1 DEF TypeInv, SetUpPlaces, DetourPlaces, InsidePlaces
  <2>3. CountInv'
    BY <2>1, SameInside DEF TypeInv, InsidePlaces
  <2>4. HookInv'
    BY <2>1 DEF HookInv, Drained, BeforeDrain
  <2>8. LoadInv'
    BY <2>1 DEF LoadInv, TypeInv, DetourPlaces, InsidePlaces
  <2>5. DetourInv'
    BY <2>1 DEF DetourInv, Drained, BeforeDrain, TypeInv, DetourPlaces, InsidePlaces
  <2>6. SettingUp' = {}
    <3>1. \A u \in SettingUp : u = t
      BY DEF SetUpInv, SettingUp
    <3>2. \A u \in GameThreads : at'[u] = IF u = t THEN "game" ELSE at[u]
      BY DEF TypeInv
    <3>3. ASSUME NEW u \in SettingUp' PROVE FALSE
      <4>1. u \in GameThreads /\ at'[u] # "game"
        BY DEF SettingUp
      <4>2. u # t /\ at'[u] = at[u]
        BY <3>2, <4>1
      <4>3. u \in SettingUp
        BY <4>1, <4>2 DEF SettingUp
      <4> QED BY <3>1, <4>2, <4>3
    <3> QED BY <3>3
  <2>7. SetUpInv'
    BY <2>6 DEF SetUpInv
  <2> QED BY <2>2, <2>3, <2>4, <2>5, <2>7, <2>8
<1> QED BY <1>1, <1>3, <1>4, <1>5, <1>6 DEF SetUp

\* A thread of the game jumps into a detour.
LEMMA CallStepKeeps ==
  ASSUME IInv, NEW t \in GameThreads, NEW h \in Steps, CallStep(t, h)
  PROVE IInv'
<1> USE DEF IInv, CallStep, GoesTo, runtimeVars, hookVars, lockVars, gameVars
<1>1. Steps' = Steps
  BY DEF Steps
<1>2. TypeInv'
  BY <1>1 DEF TypeInv, SetUpPlaces, DetourPlaces, InsidePlaces
<1>3. CountInv'
  BY <1>1, SameInside DEF TypeInv, InsidePlaces
<1>4. HookInv'
  BY <1>1 DEF HookInv, Drained, BeforeDrain
<1>5. LoadInv'
  BY <1>1 DEF LoadInv, TypeInv, DetourPlaces, InsidePlaces, MayStep
<1>6. \A g : Drained(g)' <=> Drained(g)
  BY DEF Drained, BeforeDrain
<1>7. DetourInv'
  BY <1>1, <1>6 DEF DetourInv, TypeInv, DetourPlaces, InsidePlaces
<1>8. SettingUp' = SettingUp
  BY DEF SettingUp, TypeInv
<1>9. SetUpInv'
  BY <1>8 DEF SetUpInv
<1> QED BY <1>2, <1>3, <1>4, <1>5, <1>7, <1>9

\* The detour counts itself in.
LEMMA CountStep ==
  ASSUME IInv, NEW t \in GameThreads, Count(t)
  PROVE IInv'
<1> DEFINE h == step[t]
<1> USE DEF IInv
<1>0. /\ at[t] = "enter" /\ h \in Steps /\ Steps' = Steps /\ UNCHANGED <<step, kept>>
      /\ at' = [at EXCEPT ![t] = "counted"]
      /\ counted' = [counted EXCEPT ![h] = @ + 1]
      /\ late' = IF Drained(h) THEN late \cup {t} ELSE late
      /\ UNCHANGED <<runtimeHook, runtimeState, pinned, hook, original, known, latch, phases, loaded,
                     strategy, removal>>
  BY DEF Count, GoesTo, runtimeVars, hookVars, gameVars, TypeInv, DetourPlaces, Steps
<1> HIDE DEF h
<1>1. TypeInv'
  <2>1. counted' \in [Steps -> Nat]
    <3>1. h \in Steps /\ counted \in [Steps -> Nat] /\ counted[h] + 1 \in Nat
      BY <1>0 DEF TypeInv
    <3> QED BY <1>0, <3>1
  <2> QED BY <1>0, <2>1 DEF h, TypeInv, SetUpPlaces, DetourPlaces, InsidePlaces
<1>2. CountInv'
  <2> SUFFICES ASSUME NEW g \in Steps PROVE counted'[g] = Cardinality(Inside(g)')
    BY <1>0 DEF CountInv
  <2>1. IsFiniteSet(Inside(g))
    BY ThreadsAssumption, FS_Subset DEF Inside
  <2>2. t \notin Inside(g)
    BY <1>0 DEF Inside, InsidePlaces
  <2>3. Inside(g)' = IF g = h THEN Inside(g) \cup {t} ELSE Inside(g)
    BY <1>0 DEF Inside, TypeInv, InsidePlaces, h
  <2>4. counted[g] = Cardinality(Inside(g)) /\ counted[g] \in Nat
    BY DEF CountInv, TypeInv
  <2>5. counted'[g] = IF g = h THEN counted[g] + 1 ELSE counted[g]
    BY <1>0 DEF TypeInv
  <2>6. Cardinality(Inside(g) \cup {t}) = Cardinality(Inside(g)) + 1
    BY <2>1, <2>2, FS_AddElement
  <2>7. CASE g = h
    BY <2>3, <2>4, <2>5, <2>6, <2>7
  <2>8. CASE g # h
    BY <2>3, <2>4, <2>5, <2>8
  <2> QED BY <2>7, <2>8
<1>3. \A g : Drained(g)' <=> Drained(g)
  BY <1>0 DEF Drained, BeforeDrain
<1>4. HookInv'
  BY <1>0, <1>3 DEF HookInv
<1>5. LoadInv'
  BY <1>0 DEF LoadInv, TypeInv, DetourPlaces, InsidePlaces
<1>6. DetourInv'
  BY <1>0, <1>3 DEF h, DetourInv, TypeInv, DetourPlaces, InsidePlaces
<1>7. SettingUp' = SettingUp
  BY <1>0 DEF SettingUp, TypeInv
<1>8. SetUpInv'
  BY <1>0, <1>7 DEF SetUpInv
<1> QED BY <1>1, <1>2, <1>4, <1>5, <1>6, <1>8

\* The detour counts itself out.
LEMMA UncountStep ==
  ASSUME IInv, NEW t \in GameThreads, Uncount(t)
  PROVE IInv'
<1> DEFINE h == step[t]
<1> USE DEF IInv
<1>0. /\ at[t] = "uncount" /\ h \in Steps /\ Steps' = Steps /\ UNCHANGED kept
      /\ at' = [at EXCEPT ![t] = "game"]
      /\ step' = [step EXCEPT ![t] = NoStep]
      /\ counted' = [counted EXCEPT ![h] = @ - 1]
      /\ late' = late \ {t}
      /\ UNCHANGED <<runtimeHook, runtimeState, pinned, hook, original, known, latch, phases, loaded,
                     strategy, removal>>
  BY DEF Uncount, GoesTo, runtimeVars, hookVars, gameVars, TypeInv, DetourPlaces, InsidePlaces, Steps
<1> HIDE DEF h
<1>2. \A g \in Steps : counted'[g] = Cardinality(Inside(g)') /\ counted'[g] \in Nat
  <2> SUFFICES ASSUME NEW g \in Steps
               PROVE counted'[g] = Cardinality(Inside(g)') /\ counted'[g] \in Nat
    OBVIOUS
  <2>1. IsFiniteSet(Inside(g))
    BY ThreadsAssumption, FS_Subset DEF Inside
  <2>2. Inside(g)' = IF g = h THEN Inside(g) \ {t} ELSE Inside(g)
    BY <1>0 DEF Inside, TypeInv, InsidePlaces, h
  <2>3. g = h => t \in Inside(g)
    BY <1>0 DEF Inside, InsidePlaces, h
  <2>4. counted[g] = Cardinality(Inside(g)) /\ counted[g] \in Nat
    BY DEF CountInv, TypeInv
  <2>5. counted'[g] = IF g = h THEN counted[g] - 1 ELSE counted[g]
    BY <1>0 DEF TypeInv
  <2>6. IsFiniteSet(Inside(g)') /\ Cardinality(Inside(g)') \in Nat
    BY <2>1, <2>2, FS_Subset, FS_CardinalityType
  <2>7. CASE g = h
    <3>1. Cardinality(Inside(g) \ {t}) = Cardinality(Inside(g)) - 1
      BY <2>1, <2>3, <2>7, FS_RemoveElement
    <3> QED BY <2>2, <2>4, <2>5, <2>6, <2>7, <3>1
  <2>8. CASE g # h
    BY <2>2, <2>4, <2>5, <2>8
  <2> QED BY <2>7, <2>8
<1>1. TypeInv'
  <2>1. counted' \in [Steps -> Nat]
    <3>1. DOMAIN counted' = Steps /\ counted' = [g \in Steps |-> counted'[g]]
      BY <1>0 DEF TypeInv
    <3> QED BY <1>2, <3>1
  <2> QED BY <1>0, <2>1 DEF h, TypeInv, SetUpPlaces, DetourPlaces, InsidePlaces
<1>3. \A g : Drained(g)' <=> Drained(g)
  BY <1>0 DEF Drained, BeforeDrain
<1>4. HookInv'
  BY <1>0, <1>3 DEF HookInv
<1>5. LoadInv'
  BY <1>0 DEF LoadInv, TypeInv, DetourPlaces, InsidePlaces
<1>6. DetourInv'
  BY <1>0, <1>3 DEF h, DetourInv, TypeInv, DetourPlaces, InsidePlaces
<1>7. SettingUp' = SettingUp
  BY <1>0 DEF SettingUp, TypeInv
<1>8. SetUpInv'
  BY <1>0, <1>7 DEF SetUpInv
<1> QED BY <1>0, <1>1, <1>2, <1>4, <1>5, <1>6, <1>8 DEF CountInv

\* What a thread inside a detour may do without touching the hooks and the counters.
LEMMA InsideStep ==
  ASSUME IInv, NEW t \in GameThreads, at[t] \in InsidePlaces,
         NEW l \in InsidePlaces, at' = [at EXCEPT ![t] = l],
         UNCHANGED <<runtimeState, pinned, hook, original, known, counted, strategy,
                     step, late, removal>>,
         latch' \in BOOLEAN, loaded' \in BOOLEAN, loaded => loaded',
         kept' \in [GameThreads -> [original : BOOLEAN, before : BOOLEAN, track : BOOLEAN]],
         \A u \in GameThreads \ {t} : kept'[u] = kept[u],
         l = "sharing" /\ ~Drained(step[t]) => kept'[t].original,
         l = "report" /\ step[t] = "data" => loaded',
         "data" \in phases' => loaded'
  PROVE IInv'
<1> USE DEF IInv
<1>0. /\ Steps' = Steps
      /\ at'[t] = l
      /\ \A u \in GameThreads \ {t} : at'[u] = at[u]
  BY DEF Steps, TypeInv
<1>1. TypeInv'
  BY <1>0 DEF TypeInv, SetUpPlaces, DetourPlaces, InsidePlaces
<1>2. CountInv'
  BY <1>0, SameInside DEF TypeInv
<1>3. \A g : Drained(g)' <=> Drained(g)
  BY DEF Drained, BeforeDrain
<1>4. HookInv'
  BY <1>0, <1>3 DEF HookInv
<1>5. LoadInv'
  BY <1>0 DEF LoadInv, DetourPlaces, InsidePlaces
<1>6. DetourInv'
  BY <1>0, <1>3 DEF DetourInv, DetourPlaces
<1>7. SettingUp' = SettingUp
  BY <1>0 DEF SettingUp, InsidePlaces
<1>8. SetUpInv'
  BY <1>7 DEF SetUpInv
<1> QED BY <1>1, <1>2, <1>4, <1>5, <1>6, <1>8

\* The rest of a detour: the lock and the original are had, the original runs, the phase is
\* advanced, the lock is given back.
LEMMA DetourStep ==
  ASSUME IInv, NEW t \in GameThreads, Detour(t)
  PROVE IInv'
<1>0. /\ kept \in [GameThreads -> [original : BOOLEAN, before : BOOLEAN, track : BOOLEAN]]
      /\ latch \in BOOLEAN /\ loaded \in BOOLEAN
      /\ "data" \in phases => loaded
  BY DEF IInv, TypeInv, LoadInv
<1>1. CASE Share(t)
  <2> DEFINE h == step[t]
             seen == [original |-> h \in original,
                      track    |-> h = "data" /\ strategy = "sprj" /\ ~latch,
                      before   |-> h = "data" /\ strategy = "sprj" /\ ~latch /\ ~loaded]
  <2>1. /\ at[t] = "counted" /\ at' = [at EXCEPT ![t] = "sharing"]
        /\ kept' = [kept EXCEPT ![t] = seen]
        /\ UNCHANGED <<runtimeState, pinned, hook, original, known, counted, strategy,
                       step, late, removal, latch, loaded, phases>>
    BY <1>1 DEF Share, GoesTo, runtimeVars, hookVars, gameVars
  <2>2. seen \in [original : BOOLEAN, before : BOOLEAN, track : BOOLEAN]
    OBVIOUS
  <2>3. ~Drained(h) => h \in original
    BY <2>1 DEF IInv, TypeInv, DetourInv, HookInv, DetourPlaces, InsidePlaces
  <2>4. ~Drained(h) => seen.original
    BY <2>3
  <2> HIDE DEF seen
  <2>5. /\ kept' \in [GameThreads -> [original : BOOLEAN, before : BOOLEAN, track : BOOLEAN]]
        /\ kept'[t] = seen
        /\ \A u \in GameThreads \ {t} : kept'[u] = kept[u]
    BY <1>0, <2>1, <2>2
  <2>6. "sharing" \in InsidePlaces /\ at[t] \in InsidePlaces
    BY <2>1 DEF InsidePlaces
  <2> QED BY <1>0, <2>1, <2>4, <2>5, <2>6, InsideStep
<1>2. CASE RunOriginal(t)
  <2>1. PICK l \in {"report", "unshare"} :
          /\ at[t] = "sharing" /\ at' = [at EXCEPT ![t] = l]
          /\ l = "report" => Reports(t)
          /\ loaded' = loaded \/ loaded' = TRUE
          /\ UNCHANGED <<runtimeState, pinned, hook, original, known, counted, strategy,
                         step, late, kept, removal, latch, phases>>
    BY <1>2 DEF RunOriginal, Moves, GoesTo, runtimeVars, hookVars, lockVars
  <2>2. loaded' \in BOOLEAN /\ (loaded => loaded')
    <3>1. CASE loaded' = loaded
      BY <1>0, <3>1
    <3>2. CASE loaded' = TRUE
      BY <3>2, Zenon
    <3> QED BY <2>1, <3>1, <3>2
  <2>3. ASSUME l = "report", step[t] = "data" PROVE loaded'
    <3>1. Reports(t) /\ strategy \in {"named", "sprj"}
      BY <2>1, <2>3 DEF IInv, TypeInv
    <3>2. CASE strategy = "named"
      <4>1. loaded
        BY <2>1, <2>3, <3>2 DEF IInv, LoadInv, DetourPlaces, InsidePlaces
      <4> QED BY <2>2, <4>1
    <3>3. CASE strategy = "sprj"
      BY <2>3, <3>1, <3>3 DEF Reports
    <3> QED BY <3>1, <3>2, <3>3
  <2>4. l \in InsidePlaces /\ at[t] \in InsidePlaces /\ l # "sharing"
    BY <2>1 DEF InsidePlaces
  <2> QED BY <1>0, <2>1, <2>2, <2>3, <2>4, InsideStep
<1>3. CASE Report(t)
  <2>1. /\ at[t] = "report" /\ at' = [at EXCEPT ![t] = "unshare"]
        /\ latch' = (latch \/ step[t] = "data")
        /\ phases' = IF step[t] = "data" /\ latch THEN phases ELSE phases \cup {step[t]}
        /\ UNCHANGED <<runtimeState, pinned, hook, original, known, counted, strategy,
                       step, late, kept, removal, loaded>>
    BY <1>3 DEF Report, Moves, GoesTo, runtimeVars, hookVars, lockVars
  <2>2. "data" \in phases' => loaded
    BY <1>0, <2>1 DEF IInv, LoadInv
  <2>3. latch' \in BOOLEAN
    BY <2>1
  <2>4. "unshare" \in InsidePlaces /\ at[t] \in InsidePlaces
    BY <2>1 DEF InsidePlaces
  <2> QED BY <1>0, <2>1, <2>2, <2>3, <2>4, InsideStep
<1>4. CASE Unshare(t)
  <2>1. /\ at[t] = "unshare" /\ at' = [at EXCEPT ![t] = "uncount"]
        /\ kept' = [kept EXCEPT ![t] = Nothing]
        /\ UNCHANGED <<runtimeState, pinned, hook, original, known, counted, strategy,
                       step, late, removal, latch, loaded, phases>>
    BY <1>4 DEF Unshare, GoesTo, runtimeVars, hookVars, gameVars
  <2>2. /\ kept' \in [GameThreads -> [original : BOOLEAN, before : BOOLEAN, track : BOOLEAN]]
        /\ \A u \in GameThreads \ {t} : kept'[u] = kept[u]
    BY <1>0, <2>1 DEF Nothing
  <2>3. "uncount" \in InsidePlaces /\ at[t] \in InsidePlaces
    BY <2>1 DEF InsidePlaces
  <2> QED BY <1>0, <2>1, <2>2, <2>3, InsideStep
<1> QED BY <1>1, <1>2, <1>3, <1>4, CountStep, UncountStep DEF Detour

\* A step of the removal moves none of the game's threads.
LEMMA RemovalMovesNobody ==
  ASSUME IInv, removal # "none", removal' # "none",
         UNCHANGED <<threadVars, counted, pinned, phases, loaded, strategy>>,
         Steps' = Steps, hook' \in [Steps -> {"none", "on", "off"}],
         latch' \in BOOLEAN, runtimeState' \in {0, runtimeState},
         known' \subseteq original', known' \subseteq known,
         \A g \in Steps : /\ ~Drained(g)' => ~Drained(g) /\ (g \in original => g \in original')
                          /\ hook'[g] # "none" => hook[g] # "none" \/ g \in known
                          /\ hook[g] # "none" /\ ~Drained(g)' => hook'[g] # "none"
                          /\ Drained(g)' => Drained(g) \/ Inside(g) = {}
  PROVE IInv'
<1> USE DEF IInv
<1>0. UNCHANGED <<at, step, kept, late>>
  BY DEF threadVars
<1>1. TypeInv'
  BY <1>0 DEF TypeInv
<1>2. CountInv'
  BY <1>0, SameInside
<1>3. HookInv'
  BY DEF HookInv
<1>4. LoadInv'
  BY <1>0 DEF LoadInv
<1>5. DetourInv'
  <2> SUFFICES ASSUME NEW t \in GameThreads
               PROVE /\ at[t] \in DetourPlaces /\ ~Drained(step[t])' => hook'[step[t]] # "none"
                     /\ at[t] \in InsidePlaces /\ Drained(step[t])' => t \in late
                     /\ at[t] = "sharing" /\ ~Drained(step[t])' => kept[t].original
    BY <1>0 DEF DetourInv
  <2>1. at[t] \in DetourPlaces => step[t] \in Steps
    BY DEF TypeInv
  <2>2. at[t] \in InsidePlaces => t \in Inside(step[t])
    BY DEF Inside
  <2>3. ASSUME NEW h \in Steps, step[t] = h, at[t] \in DetourPlaces
        PROVE /\ ~Drained(h)' => hook'[h] # "none"
              /\ at[t] \in InsidePlaces /\ Drained(h)' => t \in late
              /\ at[t] = "sharing" /\ ~Drained(h)' => kept[t].original
    <3>1. /\ ~Drained(h) => hook[h] # "none"
          /\ at[t] \in InsidePlaces /\ Drained(h) => t \in late
          /\ at[t] = "sharing" /\ ~Drained(h) => kept[t].original
      BY <2>3 DEF DetourInv
    <3>2. at[t] \in InsidePlaces => Inside(h) # {}
      BY <2>2, <2>3
    <3> QED BY <3>1, <3>2
  <2> QED BY <1>0, <2>1, <2>3 DEF DetourPlaces, InsidePlaces
<1>6. SettingUp' = SettingUp /\ SettingUp = {} /\ runtimeState' # 1
  <2>1. SettingUp = {} /\ runtimeState # 1
    BY DEF SetUpInv
  <2>2. SettingUp' = SettingUp
    BY <1>0 DEF SettingUp
  <2> QED BY <2>1, <2>2
<1>7. SetUpInv'
  BY <1>6 DEF SetUpInv
<1> QED BY <1>1, <1>2, <1>3, <1>4, <1>5, <1>7

\* Counting nobody means that nobody is inside.
LEMMA NobodyInside ==
  ASSUME IInv, NEW h \in Steps, counted[h] = 0
  PROVE Inside(h) = {}
<1>1. IsFiniteSet(Inside(h))
  BY ThreadsAssumption, FS_Subset DEF Inside
<1> QED BY <1>1, FS_EmptySet DEF IInv, CountInv

\* The game loads its params, or the removal begins: no thread is moved by it.
LEMMA OtherSteps ==
  ASSUME IInv, GameLoads \/ BeginRemoval \/ UNCHANGED readyVars
  PROVE IInv'
<1> USE DEF IInv
<1>0. /\ UNCHANGED <<at, step, kept, late, counted, hook, original, known, pinned, phases,
                     latch, strategy, runtimeState>>
      /\ loaded' = loaded \/ loaded' = TRUE
      /\ \/ removal' = removal
         \/ SettingUp = {} /\ removal = "none" /\ removal' = "file lock"
  BY DEF GameLoads, BeginRemoval, Unmoved, readyVars, runtimeVars, hookVars, lockVars, gameVars,
         threadVars
<1>1. loaded' \in BOOLEAN /\ (loaded => loaded') /\ Steps' = Steps
  <2>1. loaded \in BOOLEAN
    BY DEF TypeInv
  <2>2. CASE loaded' = loaded
    BY <1>0, <2>1, <2>2 DEF Steps
  <2>3. CASE loaded' = TRUE
    <3>1. Steps' = Steps
      BY <1>0 DEF Steps
    <3> QED BY <2>3, <3>1, Zenon
  <2> QED BY <1>0, <2>2, <2>3
<1>2. TypeInv'
  BY <1>0, <1>1 DEF TypeInv
<1>3. CountInv'
  BY <1>0, <1>1, SameInside
<1>4. \A g \in Steps : Drained(g)' <=> Drained(g)
  BY <1>0 DEF Drained, BeforeDrain, TypeInv
<1>5. HookInv'
  BY <1>0, <1>1, <1>4 DEF HookInv
<1>6. LoadInv'
  BY <1>0, <1>1 DEF LoadInv
<1>7. DetourInv'
  <2> SUFFICES ASSUME NEW t \in GameThreads
               PROVE /\ at[t] \in DetourPlaces /\ ~Drained(step[t])' => hook[step[t]] # "none"
                     /\ at[t] \in InsidePlaces /\ Drained(step[t])' => t \in late
                     /\ at[t] = "sharing" /\ ~Drained(step[t])' => kept[t].original
    BY <1>0 DEF DetourInv
  <2>1. at[t] \in DetourPlaces => step[t] \in Steps
    BY DEF TypeInv
  <2>2. ASSUME NEW h \in Steps, step[t] = h
        PROVE /\ at[t] \in DetourPlaces /\ ~Drained(h)' => hook[h] # "none"
              /\ at[t] \in InsidePlaces /\ Drained(h)' => t \in late
              /\ at[t] = "sharing" /\ ~Drained(h)' => kept[t].original
    BY <1>4, <2>2 DEF DetourInv
  <2> QED BY <1>0, <2>1, <2>2 DEF DetourPlaces, InsidePlaces
<1>8. SettingUp' = SettingUp
  BY <1>0 DEF SettingUp
<1>9. SetUpInv'
  BY <1>0, <1>8 DEF SetUpInv
<1> QED BY <1>2, <1>3, <1>5, <1>6, <1>7, <1>9

\* The steps that only take or give back a lock, disable a hook or wait.
LEMMA RemovalWaits ==
  ASSUME IInv, removal # "none", removal' # "none",
         UNCHANGED <<threadVars, counted, pinned, phases, loaded, strategy, latch, original, known>>,
         runtimeState' \in {0, runtimeState},
         hook' = hook \/ \E h \in known : hook' = [hook EXCEPT ![h] = "off"],
         \A g \in Steps : /\ Drained(g) => Drained(g)'
                          /\ Drained(g)' => Drained(g) \/ counted[g] = 0
  PROVE IInv'
<1>1. hook \in [Steps -> {"none", "on", "off"}] /\ known \subseteq original /\ known \subseteq Steps
      /\ latch \in BOOLEAN
  BY DEF IInv, TypeInv, HookInv
<1>2. Steps' = Steps /\ hook' \in [Steps -> {"none", "on", "off"}]
  BY <1>1 DEF Steps
<1>3. \A g \in Steps : /\ hook[g] # "none" => hook'[g] # "none"
                       /\ hook'[g] # "none" => hook[g] # "none" \/ g \in known
  BY <1>1
<1>4. \A g \in Steps : Drained(g)' => Drained(g) \/ Inside(g) = {}
  BY NobodyInside
<1> QED BY <1>1, <1>2, <1>3, <1>4, RemovalMovesNobody

\* Every step of the removal.
LEMMA RemovalKeeps ==
  ASSUME IInv, RemovalStep
  PROVE IInv'
<1>0. /\ Steps \subseteq {"file", "render", "data"} /\ latch \in BOOLEAN /\ runtimeState \in {0, 1, 2}
      /\ hook \in [Steps -> {"none", "on", "off"}]
      /\ known \subseteq original /\ known \subseteq Steps
  BY DEF IInv, TypeInv, HookInv
<1> DEFINE Quiet == UNCHANGED <<threadVars, counted, pinned, phases, loaded, strategy, latch,
                                original, known>>
<1>1. CASE \/ Lock("file", "file lock", "file unlock") \/ Lock("render", "render lock", "render unlock")
           \/ Lock("data", "data lock", "data unlock")
  <2>1. Quiet /\ hook' = hook /\ runtimeState' = runtimeState
    BY <1>1 DEF Lock, Unmoved, runtimeVars, hookVars, gameVars
  <2>2. removal # "none" /\ removal' # "none" /\ \A g \in Steps : Drained(g)' <=> Drained(g)
    BY <1>0, <1>1 DEF Lock, Drained, BeforeDrain
  <2> QED BY <2>1, <2>2, RemovalWaits
<1>2. CASE \/ Disable("file", "file unlock", "render lock")
           \/ Disable("render", "render unlock", "drain file")
           \/ Disable("data", "data unlock", "data drain")
  <2>1. Quiet /\ runtimeState' = runtimeState
    BY <1>2 DEF Disable, Unmoved, runtimeVars, gameVars
  <2>2. hook' = hook \/ \E h \in known : hook' = [hook EXCEPT ![h] = "off"]
    BY <1>2 DEF Disable
  <2>3. removal # "none" /\ removal' # "none" /\ \A g \in Steps : Drained(g)' <=> Drained(g)
    BY <1>0, <1>2 DEF Disable, Drained, BeforeDrain
  <2> QED BY <2>1, <2>2, <2>3, RemovalWaits
<1>3. CASE \/ Drain("file", "drain file", "drain render") \/ Drain("render", "drain render", "remove")
           \/ Drain("data", "data drain", "data remove")
  <2>1. Quiet /\ hook' = hook /\ runtimeState' = runtimeState
    BY <1>3 DEF Drain, Unmoved, runtimeVars, hookVars, lockVars, gameVars
  <2>2. /\ removal # "none" /\ removal' # "none"
        /\ \A g \in Steps : /\ Drained(g) => Drained(g)'
                            /\ Drained(g)' => Drained(g) \/ counted[g] = 0
    BY <1>0, <1>3 DEF Drain, Drained, BeforeDrain
  <2> QED BY <2>1, <2>2, RemovalWaits
<1>4. CASE RemoveRuntime
  <2>1. Quiet /\ hook' = hook /\ runtimeState' \in {0, runtimeState}
    BY <1>4 DEF RemoveRuntime, hookVars, gameVars, lockVars
  <2>2. removal # "none" /\ removal' # "none" /\ \A g \in Steps : Drained(g)' <=> Drained(g)
    BY <1>0, <1>4 DEF RemoveRuntime, Drained, BeforeDrain
  <2> QED BY <2>1, <2>2, RemovalWaits
<1>5. CASE ShutData
  <2>1. Quiet /\ hook' = hook /\ runtimeState' = runtimeState
    BY <1>5 DEF ShutData, Unmoved, runtimeVars, hookVars, lockVars, gameVars
  <2>2. removal # "none" /\ removal' # "none" /\ \A g \in Steps : Drained(g)' <=> Drained(g)
    BY <1>0, <1>5 DEF ShutData, Drained, BeforeDrain
  <2> QED BY <2>1, <2>2, RemovalWaits
<1>6. ASSUME NEW gone \in SUBSET known,
             hook' = [h \in Steps |-> IF h \in gone THEN "none" ELSE hook[h]],
             removal # "none", removal' # "none",
             \A g \in gone : Drained(g)',
             \A g \in Steps : Drained(g)' <=> Drained(g),
             UNCHANGED <<threadVars, counted, pinned, phases, loaded, strategy>>,
             latch' \in BOOLEAN, runtimeState' = runtimeState,
             known' \subseteq original', known' \subseteq known,
             \A g \in Steps : ~Drained(g) /\ g \in original => g \in original'
      PROVE IInv'
  <2>1. Steps' = Steps /\ hook' \in [Steps -> {"none", "on", "off"}]
    BY <1>0, <1>6 DEF Steps
  <2>2. \A g \in Steps : hook'[g] = IF g \in gone THEN "none" ELSE hook[g]
    BY <1>6
  <2> QED BY <1>6, <2>1, <2>2, RemovalMovesNobody
<1>7. CASE RemoveHooks({"file", "render"}, "remove", "runtime")
  <2>1. /\ removal = "remove" /\ removal' = "runtime"
        /\ UNCHANGED <<threadVars, counted, pinned, phases, loaded, strategy, latch, runtimeState>>
    BY <1>7 DEF RemoveHooks, Unmoved, runtimeVars, gameVars, lockVars
  <2>2. \A g \in Steps : (Drained(g)' <=> Drained(g)) /\ (g \in {"file", "render"} => Drained(g)')
    BY <1>0, <2>1 DEF Drained, BeforeDrain
  <2>3. \/ \E gone \in SUBSET ({"file", "render"} \cap known) :
              /\ hook' = [h \in Steps |-> IF h \in gone THEN "none" ELSE hook[h]]
              /\ \/ original' = original \ {"file", "render"} /\ known' = known \ {"file", "render"}
                 \/ original' = original /\ known' = known
        \/ UNCHANGED <<hook, original, known>>
    BY <1>7 DEF RemoveHooks, hookVars
  <2>4. CASE UNCHANGED <<hook, original, known>>
    BY <1>0, <2>1, <2>2, <2>4, RemovalWaits
  <2>5. ASSUME NEW gone \in SUBSET ({"file", "render"} \cap known),
               hook' = [h \in Steps |-> IF h \in gone THEN "none" ELSE hook[h]],
               \/ original' = original \ {"file", "render"} /\ known' = known \ {"file", "render"}
               \/ original' = original /\ known' = known
        PROVE IInv'
    <3>1. /\ known' \subseteq original' /\ known' \subseteq known
          /\ \A g \in Steps : ~Drained(g) /\ g \in original => g \in original'
      BY <1>0, <2>2, <2>5
    <3>2. \A g \in gone : Drained(g)'
      BY <1>0, <2>2
    <3> QED BY <1>0, <1>6, <2>1, <2>2, <2>5, <3>1, <3>2
  <2> QED BY <2>3, <2>4, <2>5
<1>8. CASE RemoveData
  <2>1. /\ removal = "data remove" /\ removal' = "done" /\ latch' \in BOOLEAN
        /\ UNCHANGED <<threadVars, counted, pinned, phases, loaded, strategy, runtimeState>>
    BY <1>0, <1>8 DEF RemoveData, runtimeVars, lockVars
  <2>2. \A g \in Steps : Drained(g)' /\ Drained(g)
    BY <1>0, <2>1 DEF Drained, BeforeDrain
  <2>3. \/ /\ hook' = [h \in Steps |-> IF h = "data" THEN "none" ELSE hook[h]]
           /\ original' = original \ {"data"} /\ known' = known \ {"data"}
        \/ UNCHANGED <<hook, original, known>>
    BY <1>8 DEF RemoveData, hookVars
  <2>4. Steps' = Steps /\ hook' \in [Steps -> {"none", "on", "off"}]
    BY <1>0, <2>3 DEF Steps
  <2>5. \A g \in Steps : hook'[g] # "none" => hook[g] # "none"
    BY <1>0, <2>3
  <2>6. known' \subseteq original' /\ known' \subseteq known
    BY <1>0, <2>3
  <2> QED BY <1>0, <2>1, <2>2, <2>4, <2>5, <2>6, RemovalMovesNobody
<1> QED BY <1>1, <1>2, <1>3, <1>4, <1>5, <1>7, <1>8 DEF RemovalStep

\* No step of the game, the loader or the removal breaks the invariant.
LEMMA NextIInv == IInv /\ [ReadyNext]_readyVars => IInv'
<1> SUFFICES ASSUME IInv, [ReadyNext]_readyVars PROVE IInv'
  OBVIOUS
<1>1. CASE GameLoads \/ BeginRemoval \/ UNCHANGED readyVars
  BY <1>1, OtherSteps
<1>2. CASE RemovalStep
  BY <1>2, RemovalKeeps
<1>3. ASSUME NEW t \in GameThreads,
             InitSucceeds(t) \/ SetUp(t) \/ (\E h \in Steps : CallStep(t, h)) \/ Detour(t)
      PROVE IInv'
  BY <1>3, SetUpStep, CallStepKeeps, DetourStep
<1> QED BY <1>1, <1>2, <1>3 DEF ReadyNext

\* The counters, the hooks and the threads agree in every state: the inductive invariant of
\* the detours (data_ready.c, asset_hooks.c) and of the set-up (runtime_ready.c).
THEOREM IInvAlways == ReadySpec => []IInv
BY InitIInv, NextIInv, PTL DEF ReadySpec

\* A detour that was counted before the removal looked finds its original and the trampoline
\* (data_ready.c, asset_hooks.c), and what is hooked pins the module (hook.h), for any number
\* of the game's threads and any of the three steps.
THEOREM HookedCallersAreSafe == ReadySpec => []HooksOutliveTheirCallers
<1>1. IInv => HooksOutliveTheirCallers
  <2> SUFFICES ASSUME IInv PROVE CountedCallersKeepTheirOriginal /\ HookedIsPinned
    BY DEF HooksOutliveTheirCallers
  <2>1. HookedIsPinned
    BY DEF IInv, HookInv, HookedIsPinned
  <2>2. CountedCallersKeepTheirOriginal
    BY DEF IInv, DetourInv, DetourPlaces, InsidePlaces, CountedCallersKeepTheirOriginal
  <2> QED BY <2>1, <2>2
<1> QED BY <1>1, IInvAlways, PTL

\* The set-up that SteamAPI_Init's hook runs has at most one thread, whose state says so
\* (runtime_ready.c), and the data phase is reported only with complete params (data_ready.c).
THEOREM SetUpAlwaysSound == ReadySpec => []SetUpIsSound
<1>1. IInv => SetUpIsSound
  <2> SUFFICES ASSUME IInv PROVE DataReadyMeansLoaded /\ OneSetUp
    BY DEF SetUpIsSound
  <2>1. DataReadyMeansLoaded
    BY DEF IInv, LoadInv, DataReadyMeansLoaded
  <2>2. runtimeState = 1 <=> SettingUp # {}
    BY DEF IInv, SetUpInv
  <2>3. Cardinality(SettingUp) <= 1
    <3>1. CASE SettingUp = {}
      <4>1. Cardinality(SettingUp) = 0
        BY <3>1, FS_EmptySet
      <4> QED BY <4>1
    <3>2. CASE SettingUp # {}
      <4>1. PICK t \in SettingUp : SettingUp = {t}
        BY <3>2 DEF IInv, SetUpInv
      <4>2. Cardinality(SettingUp) = 1
        BY <4>1, FS_Singleton
      <4> QED BY <4>2
    <3> QED BY <3>1, <3>2
  <2> QED BY <2>1, <2>2, <2>3 DEF OneSetUp
<1> QED BY <1>1, IInvAlways, PTL

=============================================================================
