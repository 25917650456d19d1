----------------------------- MODULE MCStartup -----------------------------
\* The loader's own start-up with the two choices it makes, what waits for Arxan's
\* start-up code before it, and the routes of the saves, which it sets up.  They share
\* no state: a behaviour is one of one of them.
EXTENDS SaveMapping, ArxanSchedule, Startup, TLC

CONSTANTS p1, p2, p3, s1, s2, renamed1, c1, c2, c3, t1, t2, i1, i2, w1, w2

VARIABLE part

\* Two spellings of one save, and a second save with the same renamed file.
MCSaveOf == p1 :> s1 @@ p2 :> s1 @@ p3 :> s2
MCTargetOf == s1 :> renamed1 @@ s2 :> renamed1

\* The main thread's callback schedules another, which hides in the first stub.
MCInnerCall == [c \in Requests |-> IF c = c1 THEN c3 ELSE NoCall]
MCHiddenIn == [s \in Stubs |-> 1]
\* A process that is started as usual, with all that can be found; one with a suspended
\* main thread may lack one of the two.
MCWorld ==
    \/ world.mainFound /\ world.cookieFound /\ (world.arxan \/ world.created = "running")
    \/ /\ world.created = "suspended" /\ world.steam = "absent" /\ world.arxan
       /\ world.mainFound \/ world.cookieFound
\* The second of two like threads only calls second.
MCCallers == /\ call[c3].thread = "main" /\ call[c1].thread # t2
             /\ call[c2].thread = t2 => call[c1].thread = t1

\* CPU sets of two classes and two groups, some of another process; of one class; none
\* to be had; and one of each class.
CpuSet(id, group, index, class, allocated) ==
    [id |-> id, group |-> group, index |-> index, class |-> class, allocated |-> allocated]
PlainMachine == {CpuSet(1, 0, 1, 0, "nobody"), CpuSet(0, 0, 0, 0, "nobody")}
MCMachines ==
    {{CpuSet(3, 0, 1, 1, "nobody"), CpuSet(2, 0, 0, 1, "other"), CpuSet(5, 1, 0, 0, "us"),
      CpuSet(1, 0, 2, 1, "us"), CpuSet(0, 1, 0, 0, "nobody")},
     PlainMachine,
     {CpuSet(0, 0, 0, 0, "other")},
     {CpuSet(4, 0, 1, 1, "us"), CpuSet(3, 0, 0, 0, "nobody")}}
MCSounds == [wem : BOOLEAN, long : BOOLEAN, huge : BOOLEAN]

\* Each part of the start-up is asked for in one of the settings, with what it interacts
\* with.
Setting(features, cpuStrategy, protect, imeKind, wwiseWhen) ==
    [features |-> features, cpu |-> cpuStrategy, regulation |-> protect, ime |-> imeKind,
     wwise |-> wwiseWhen]
SavesOnly == Setting({"game", "save"}, 0, "none", "filter", "none")
NoGame == Setting({}, 0, "none", "off", "none")
MCSettings ==
    {Setting({"game", "assets", "ER"}, 0, "none", "off", "runtime"),
     Setting({"game", "assets"}, 0, "SPRJ", "hook", "install"),
     Setting({"game", "logo", "memory"}, 0, "FD4", "off", "none"),
     Setting({"game", "data ready"}, 1, "none", "off", "none"),
     SavesOnly, NoGame}

\* One thread initializes the properties under the hook, in one of the settings.
MCInitAt == initAt = [i \in InitThreads |->
                          IF i = i1 /\ Asked("data ready") THEN "before" ELSE "past"]

\* What fails of the file routing and the window class, and the unload, are followed in
\* one setting; the choices are made on their own.
StartupPart ==
    /\ StartupNext
    /\ \/ setting = SavesOnly
       \/ /\ unloading' = "no"
          /\ loader' \notin {"attach", "inert"} => "window class" \in installed'
          /\ loader' = "ime" => routing'.reported
CpuPart == (\E s \in 1..4 : ApplyStrategy(s)) /\ UNCHANGED startupVars
SoundPart == ~sound.done /\ (\E asked \in Sounds : OpenSound(asked)) /\ UNCHANGED startupVars

\* In the behaviours of another part Arxan and the saves stay as they were at first.
ArxanOff == /\ world = [created |-> "running", steam |-> "absent", arxan |-> FALSE,
                        mainFound |-> TRUE, cookieFound |-> TRUE]
            /\ \A c \in Requests : call[c].thread = "main"
SavesOff == /\ root /\ ~scarce
            /\ \A s \in Saves : original[s] = "missing"
            /\ \A r \in Targets : target[r] = "missing"

MCInit ==
    /\ part \in {"saves", "arxan", "startup", "cpu", "sounds"}
    /\ Init /\ (part # "saves" => SavesOff)
    /\ ArxanInit /\ IF part = "arxan" THEN MCWorld /\ MCCallers ELSE ArxanOff
    /\ StartupInit /\ MCInitAt /\ (part # "startup" => setting = NoGame)
    /\ SelectionInit /\ (part # "cpu" => machine = PlainMachine)
    /\ part # "sounds" => overrides = {}

loaderStateVars == <<startupVars, selectionVars>>

\* The other parts may stop; the saves never do.
Stopped == part # "saves" /\ UNCHANGED <<vars, arxanVars, loaderStateVars>>

MCNext ==
    /\ UNCHANGED part
    /\ \/ part = "saves" /\ Next /\ UNCHANGED <<arxanVars, loaderStateVars>>
       \/ part = "arxan" /\ ArxanNext /\ UNCHANGED <<vars, loaderStateVars>>
       \/ part = "startup" /\ StartupPart /\ UNCHANGED <<vars, arxanVars>>
       \/ part = "cpu" /\ CpuPart /\ UNCHANGED <<vars, arxanVars>>
       \/ part = "sounds" /\ SoundPart /\ UNCHANGED <<vars, arxanVars>>
       \/ Stopped

MCSpec == MCInit /\ [][MCNext]_<<part, vars, arxanVars, loaderStateVars>>

Symmetry == Permutations(Threads) \cup Permutations({p1, p2})
=============================================================================
