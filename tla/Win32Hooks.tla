----------------------------- MODULE Win32Hooks -----------------------------
(***************************************************************************)
(* The hooks on the file functions of Windows (win32_hooks.c): their       *)
(* installation in two batches with rollback (hook_batch.c), removal and   *)
(* its retry, and the routing of the calls the game makes meanwhile.       *)
(*                                                                         *)
(* A path of the game is "plain"; a "save" that must be renamed; "own", a  *)
(* writable file of a mod; overridden by a "loose" file or by a "zip"      *)
(* entry; or the "uid" the asset hooks put in the place of an asset that   *)
(* is overridden by a ZIP entry.  What the path becomes is named likewise. *)
(***************************************************************************)
EXTENDS Integers, Sequences, FiniteSets

CONSTANTS ZipHooks,   \* number of hooks on I/O functions
          Callers,    \* threads of the game
          OpenPaths,  \* kinds of paths that are opened, deleted and made
          CopyPaths,  \* kinds of paths that are copied, moved and replaced
          NoCall

ASSUME PathsAssumption ==
    OpenPaths \cup CopyPaths \subseteq {"plain", "save", "own", "loose", "zip", "uid"}
ASSUME ZipHooksAssumption == ZipHooks \in Nat \ {0}

\* The path hooks in the order of their batch; one stands for the functions of a kind:
\* opens, deletions and directories, copies with moves and replacements.
PathFunctions == <<"CreateFile", "DeleteFile", "CopyFile">>

VARIABLES
    zipMod,        \* the mods have ZIP entries
    mapping,       \* saves are mapped
    zipHooked,     \* ZIP I/O hooks in place, in the order of their batch
    pathsHooked,   \* path hooks in place
    hooksInstalled, pathHooksLive, zipHooksLive, zipIoReady,
    serving,       \* zip_hooks.c opens handles
    batch, place, complete, \* of the thread that installs or removes: what it does, the hook, all removed
    call,          \* CreateFile calls between their routing and their end
    handles,       \* callers with a handle on a ZIP entry that is served
    outcome        \* the call the last step brought to an end

flagVars  == <<hooksInstalled, pathHooksLive, zipHooksLive, zipIoReady>>
managerVars == <<batch, place, complete>>
hookVars  == <<zipHooked, pathsHooked>>
routedVars  == <<call, outcome>>
win32Vars == <<zipMod, mapping, hookVars, flagVars, serving, managerVars, routedVars, handles>>

Win32Init ==
    /\ zipMod \in BOOLEAN
    /\ mapping = TRUE
    /\ zipHooked = {} /\ pathsHooked = {}
    /\ hooksInstalled = FALSE /\ pathHooksLive = FALSE /\ zipHooksLive = FALSE /\ zipIoReady = FALSE
    /\ serving = FALSE
    /\ batch = "idle" /\ place = 0 /\ complete = TRUE
    /\ call = [c \in Callers |-> NoCall]
    /\ handles = {}
    /\ outcome = NoCall

----------------------------------------------------------------------------
(* Batches: hooks are installed one after the other; the first that cannot  *)
(* be takes those before it out again.                                      *)

Proceed(s, n) == batch' = s /\ place' = n /\ complete' = TRUE

\* ml_zip_file_close_all: handles are no longer served, and none is opened.
CloseEntries == serving' = FALSE /\ handles' = {}

\* A step of the installing thread.
NoneEnds == outcome' = NoCall /\ UNCHANGED call

\* ml_win32_file_hooks_install up to its first hook.  The program installs once, before
\* the game runs; only tests install again, when no call is under way.
Install ==
    /\ batch = "idle" /\ ~hooksInstalled /\ ~pathHooksLive /\ ~zipHooksLive
    /\ \A c \in Callers : call[c] = NoCall
    /\ IF zipMod
       THEN \/ serving' = TRUE /\ Proceed("zip", 0) /\ UNCHANGED handles
            \/ CloseEntries /\ Proceed("path", 0)
       ELSE Proceed("path", 0) /\ UNCHANGED <<serving, handles>>
    /\ UNCHANGED <<zipMod, mapping, hookVars, flagVars>> /\ NoneEnds

InstallZipHook ==
    /\ batch = "zip" /\ place < ZipHooks
    /\ \/ zipHooked' = zipHooked \cup {place + 1} /\ Proceed("zip", place + 1)
       \/ Proceed("zipBack", place) /\ UNCHANGED zipHooked
    /\ UNCHANGED <<zipMod, mapping, pathsHooked, flagVars, serving, handles>> /\ NoneEnds

ZipHooksInstalled ==
    /\ batch = "zip" /\ place = ZipHooks
    /\ zipIoReady' = TRUE /\ zipHooksLive' = TRUE
    /\ Proceed("path", 0)
    /\ UNCHANGED <<zipMod, mapping, hookVars, hooksInstalled, pathHooksLive, serving, handles>> /\ NoneEnds

\* A hook of a batch is removed, or stays because the hook library fails.
TakeOut(hooked, h) ==
    \/ hooked' = hooked \ {h} /\ UNCHANGED complete
    \/ h \in hooked /\ complete' = FALSE /\ UNCHANGED hooked

RollBackZipHook ==
    /\ batch = "zipBack" /\ place > 0
    /\ TakeOut(zipHooked, place)
    /\ place' = place - 1
    /\ UNCHANGED <<zipMod, mapping, pathsHooked, flagVars, serving, batch, handles>> /\ NoneEnds

ZipHooksRolledBack ==
    /\ batch = "zipBack" /\ place = 0
    /\ zipHooksLive' = ~complete
    /\ CloseEntries
    /\ Proceed("path", 0)
    /\ UNCHANGED <<zipMod, mapping, hookVars, hooksInstalled, pathHooksLive, zipIoReady>> /\ NoneEnds

InstallPathHook ==
    /\ batch = "path" /\ place < Len(PathFunctions)
    /\ \/ pathsHooked' = pathsHooked \cup {PathFunctions[place + 1]} /\ Proceed("path", place + 1)
       \/ Proceed("pathBack", place) /\ UNCHANGED pathsHooked
    /\ UNCHANGED <<zipMod, mapping, zipHooked, flagVars, serving, handles>> /\ NoneEnds

PathHooksInstalled ==
    /\ batch = "path" /\ place = Len(PathFunctions)
    /\ hooksInstalled' = TRUE /\ pathHooksLive' = TRUE
    /\ Proceed("idle", 0)
    /\ UNCHANGED <<zipMod, mapping, hookVars, zipHooksLive, zipIoReady, serving, handles>> /\ NoneEnds

RollBackPathHook ==
    /\ batch = "pathBack" /\ place > 0
    /\ TakeOut(pathsHooked, PathFunctions[place])
    /\ place' = place - 1
    /\ UNCHANGED <<zipMod, mapping, zipHooked, flagVars, serving, batch, handles>> /\ NoneEnds

\* remove_zip_hooks up to its first hook.
RemoveZipHooks ==
    /\ zipIoReady' = FALSE
    /\ CloseEntries
    /\ Proceed("unzip", ZipHooks)

\* Path hooks that stayed keep the ZIP I/O hooks they route to.
PathHooksRolledBack ==
    /\ batch = "pathBack" /\ place = 0
    /\ pathHooksLive' = ~complete /\ hooksInstalled' = FALSE
    /\ IF complete /\ zipHooksLive THEN RemoveZipHooks
       ELSE Proceed("idle", 0) /\ UNCHANGED <<zipIoReady, serving, handles>>
    /\ UNCHANGED <<zipMod, mapping, hookVars, zipHooksLive>> /\ NoneEnds

\* Mutant: the I/O hooks go first.
UninstallZipFirst ==
    /\ batch = "idle" /\ (pathHooksLive \/ zipHooksLive)
    /\ hooksInstalled' = FALSE
    /\ Proceed("unzip", ZipHooks)
    /\ UNCHANGED <<zipMod, mapping, hookVars, pathHooksLive, zipHooksLive, zipIoReady, serving, handles>> /\ NoneEnds

\* ml_win32_file_hooks_uninstall.
Uninstall ==
    /\ batch = "idle" /\ (pathHooksLive \/ zipHooksLive)
    /\ hooksInstalled' = FALSE
    /\ IF pathHooksLive THEN Proceed("unpath", Len(PathFunctions)) /\ UNCHANGED <<zipIoReady, serving, handles>>
       ELSE RemoveZipHooks
    /\ UNCHANGED <<zipMod, mapping, hookVars, pathHooksLive, zipHooksLive>> /\ NoneEnds

RemovePathHook ==
    /\ batch = "unpath" /\ place > 0
    /\ TakeOut(pathsHooked, PathFunctions[place])
    /\ place' = place - 1
    /\ UNCHANGED <<zipMod, mapping, zipHooked, flagVars, serving, batch, handles>> /\ NoneEnds

\* Mutant: the ZIP I/O hooks are removed although path hooks stayed.
PathHooksRemovedRegardless ==
    /\ batch = "unpath" /\ place = 0
    /\ pathHooksLive' = FALSE
    /\ IF zipHooksLive THEN RemoveZipHooks ELSE Proceed("idle", 0) /\ UNCHANGED <<zipIoReady, serving, handles>>
    /\ UNCHANGED <<zipMod, mapping, hookVars, hooksInstalled, zipHooksLive>> /\ NoneEnds

PathHooksRemoved ==
    /\ batch = "unpath" /\ place = 0
    /\ pathHooksLive' = ~complete
    /\ IF complete /\ zipHooksLive THEN RemoveZipHooks
       ELSE Proceed("idle", 0) /\ UNCHANGED <<zipIoReady, serving, handles>>
    /\ UNCHANGED <<zipMod, mapping, hookVars, hooksInstalled, zipHooksLive>> /\ NoneEnds

RemoveZipHook ==
    /\ batch = "unzip" /\ place > 0
    /\ TakeOut(zipHooked, place)
    /\ place' = place - 1
    /\ UNCHANGED <<zipMod, mapping, pathsHooked, flagVars, serving, batch, handles>> /\ NoneEnds

ZipHooksRemoved ==
    /\ batch = "unzip" /\ place = 0
    /\ zipHooksLive' = ~complete
    /\ Proceed("idle", 0)
    /\ UNCHANGED <<zipMod, mapping, hookVars, hooksInstalled, pathHooksLive, zipIoReady, serving, handles>> /\ NoneEnds

\* ml_save_mapping_uninit follows the removal, also one that failed.
SaveMappingUninit ==
    /\ batch = "idle" /\ ~hooksInstalled /\ mapping
    /\ mapping' = FALSE
    /\ UNCHANGED <<zipMod, hookVars, flagVars, serving, managerVars, handles>> /\ NoneEnds

----------------------------------------------------------------------------
(* Calls of the game that enter a hook.                                     *)

\* ml_save_mapping_route: the paths it may give for p; "none" leaves p alone, and
\* "denied" is a save without its copy.
SaveRoutes(p) == IF p = "save" /\ mapping THEN {"saveCopy", "denied"} ELSE {"none"}

WritableRoute(p) == IF p = "own" THEN "ownCopy" ELSE "none"

\* mods_file_route_read gives a ZIP entry by its identifier.
ReadRoute(p, read) ==
    IF p = "uid" \/ (p = "zip" /\ read) THEN "entry"
    ELSE IF p = "loose" /\ read THEN "looseFile" ELSE "none"

Or(route, p) == IF route = "none" THEN p ELSE route

\* Mutant: a save whose copy is missing is opened as other files are.
RouteWideOpen(p, read) ==
    LET further == IF WritableRoute(p) # "none" THEN WritableRoute(p) ELSE ReadRoute(p, read)
    IN {IF s \in {"none", "denied"} THEN (IF further = "entry" /\ ~zipIoReady THEN "none" ELSE further) ELSE s :
          s \in SaveRoutes(p)}

\* route_wide, outside the modloader's own file operations.
RouteWide(p, read) ==
    LET further == IF WritableRoute(p) # "none" THEN WritableRoute(p) ELSE ReadRoute(p, read)
    IN {IF s = "none" THEN (IF further = "entry" /\ ~zipIoReady THEN "none" ELSE further) ELSE s :
          s \in SaveRoutes(p)}

\* route_copy_paths and route_save_path, for the paths of one call.
RouteAll(args) ==
    {s \in [DOMAIN args -> {"none", "saveCopy", "denied"}] : \A i \in DOMAIN args : s[i] \in SaveRoutes(args[i])}

\* A call of the modloader itself, and one whose ANSI path cannot be converted, go
\* to the function as they are.
Straight(given) == given.how # "routed"

Ends(given, passed, answer) ==
    outcome' = [given |-> given, passed |-> passed, answer |-> answer, mapped |-> mapping]

\* create_file_w_hooked and its two relatives, up to the routing; what goes straight
\* to the function ends there.
BeginCreateFile(c, given, read) ==
    /\ call[c] = NoCall /\ c \notin handles /\ "CreateFile" \in pathsHooked
    /\ IF Straight(given) THEN Ends(given, given.args, "passed") /\ UNCHANGED call
       ELSE /\ \E r \in RouteWide(given.args[1], read) :
                 call' = [call EXCEPT ![c] = [given |-> given, route |-> r]]
            /\ outcome' = NoCall
    /\ UNCHANGED <<zipMod, mapping, hookVars, flagVars, serving, managerVars, handles>>

\* A ZIP entry becomes a handle, unless the handles are being closed.
EndCreateFile(c) ==
    /\ call[c] # NoCall
    /\ LET given == call[c].given
           r == call[c].route
       IN
       CASE r = "denied" -> Ends(given, <<>>, "denied") /\ UNCHANGED handles
         [] r = "entry"  -> IF serving THEN /\ Ends(given, <<>>, "handle")
                                              /\ handles' = handles \cup {c}
                            ELSE Ends(given, <<>>, "aborted") /\ UNCHANGED handles
         [] OTHER        -> Ends(given, <<Or(r, given.args[1])>>, "passed") /\ UNCHANGED handles
    /\ call' = [call EXCEPT ![c] = NoCall]
    /\ UNCHANGED <<zipMod, mapping, hookVars, flagVars, serving, managerVars>>

CloseHandle(c) ==
    /\ c \in handles
    /\ handles' = handles \ {c}
    /\ UNCHANGED <<zipMod, mapping, hookVars, flagVars, serving, managerVars>> /\ NoneEnds

Passed(given, routes) ==
    Ends(given, [i \in DOMAIN given.args |-> Or(routes[i], given.args[i])], "passed")

\* delete_file_w_hooked: the save's copy, the mod's writable file or the file.
DeleteFile(given) ==
    /\ "DeleteFile" \in pathsHooked
    /\ \E s \in IF Straight(given) THEN {"none"} ELSE SaveRoutes(given.args[1]) :
         IF s = "denied" THEN Ends(given, <<>>, "denied")
         ELSE Passed(given, <<IF s # "none" \/ Straight(given) THEN s ELSE WritableRoute(given.args[1])>>)
    /\ UNCHANGED <<zipMod, mapping, hookVars, flagVars, serving, managerVars, call, handles>>

\* create_directory_w_hooked looks at the writable paths only, also in a call of the
\* modloader itself.
CreateDirectory(given) ==
    /\ "DeleteFile" \in pathsHooked
    /\ Passed(given, <<IF given.how = "unconverted" THEN "none" ELSE WritableRoute(given.args[1])>>)
    /\ UNCHANGED <<zipMod, mapping, hookVars, flagVars, serving, managerVars, call, handles>>

\* Mutant: only a call none of whose paths is known is refused.
MoveLikeHalf(given) ==
    /\ "CopyFile" \in pathsHooked
    /\ \E s \in IF Straight(given) THEN {[i \in DOMAIN given.args |-> "none"]} ELSE RouteAll(given.args) :
         IF \A i \in DOMAIN s : s[i] = "denied" THEN Ends(given, <<>>, "denied")
         ELSE Passed(given, [i \in DOMAIN s |-> IF s[i] = "denied" THEN "none" ELSE s[i]])
    /\ UNCHANGED <<zipMod, mapping, hookVars, flagVars, serving, managerVars, call, handles>>

\* The copies, moves and replacements: every path of the call that is a save must
\* have its copy.
MoveLike(given) ==
    /\ "CopyFile" \in pathsHooked
    /\ \E s \in IF Straight(given) THEN {[i \in DOMAIN given.args |-> "none"]} ELSE RouteAll(given.args) :
         IF \E i \in DOMAIN s : s[i] = "denied" THEN Ends(given, <<>>, "denied")
         ELSE Passed(given, s)
    /\ UNCHANGED <<zipMod, mapping, hookVars, flagVars, serving, managerVars, call, handles>>

Args(name) ==
    LET Pairs == {<<p, q>> : p, q \in CopyPaths} IN
    IF name \in {"CopyFile", "MoveFileEx"} THEN Pairs
    ELSE IF name = "ReplaceFile" THEN {<<p, q, r>> : p, q, r \in CopyPaths}
    ELSE {<<p>> : p \in OpenPaths}

\* Moves and replacements have no ANSI hook of their own.
Given(name) ==
    [function : {name}, args : Args(name),
     how : {"routed", "guarded"} \cup (IF name \in {"MoveFileEx", "ReplaceFile"} THEN {} ELSE {"unconverted"})]

ManageHooks ==
    \/ Install \/ InstallZipHook \/ ZipHooksInstalled \/ RollBackZipHook \/ ZipHooksRolledBack
    \/ InstallPathHook \/ PathHooksInstalled \/ RollBackPathHook \/ PathHooksRolledBack
    \/ Uninstall \/ RemovePathHook \/ PathHooksRemoved \/ RemoveZipHook \/ ZipHooksRemoved
    \/ SaveMappingUninit

CallFunction ==
    \/ \E c \in Callers :
         \/ \E given \in Given("CreateFile"), read \in BOOLEAN : BeginCreateFile(c, given, read)
         \/ EndCreateFile(c)
         \/ CloseHandle(c)
    \/ \E given \in Given("DeleteFile") : DeleteFile(given)
    \/ \E given \in Given("CreateDirectory") : CreateDirectory(given)
    \/ \E name \in {"CopyFile", "MoveFileEx", "ReplaceFile"} : \E given \in Given(name) : MoveLike(given)

\* Nothing depends on an outcome but its caller.
Forget ==
    /\ outcome' = NoCall
    /\ UNCHANGED <<zipMod, mapping, hookVars, flagVars, serving, managerVars, call, handles>>

Win32Next ==
    \/ outcome = NoCall /\ (ManageHooks \/ CallFunction)
    \/ outcome # NoCall /\ Forget

Win32Spec == Win32Init /\ [][Win32Next]_win32Vars

----------------------------------------------------------------------------
\* A handle on a ZIP entry is served as long as every I/O hook is in place, in every
\* order of installation, rollback, removal and opens under way (win32_hooks.c:22).
HandlesHaveTheirHooks == handles # {} => zipHooked = 1..ZipHooks

\* Between installations and removals, hooks left in place are known for the retry,
\* all of them or none count as installed, and opens are routed to ZIP entries only
\* where they succeed (win32_hooks.c:452, :483).
HooksAreRemembered ==
    batch = "idle" =>
        /\ pathsHooked # {} => pathHooksLive
        /\ zipHooked # {} => zipHooksLive
        /\ hooksInstalled => \A i \in DOMAIN PathFunctions : PathFunctions[i] \in pathsHooked
        /\ zipIoReady => serving /\ zipHooked = 1..ZipHooks

\* While saves are mapped, a call of the game that entered a hook never reaches an
\* original save, neither alone nor beside other paths, and a call with a save that
\* has no copy reaches nothing at all (win32_hooks.c:28).
SavesFailClosed ==
    outcome # NoCall =>
        LET given == outcome.given IN
        /\ outcome.mapped /\ ~Straight(given) /\ given.function # "CreateDirectory" =>
             \A i \in DOMAIN outcome.passed : outcome.passed[i] # "save"
        /\ outcome.answer = "passed" =>
             \A i \in DOMAIN given.args : outcome.passed[i] # given.args[i] => given.args[i] # "plain"

\* What the file hooks promise while they come and go.
FileHooksAreSound == HandlesHaveTheirHooks /\ HooksAreRemembered /\ SavesFailClosed

=============================================================================
