------------------------------ MODULE Launcher ------------------------------
(***************************************************************************)
(* YAFSML.exe: one launch from its arguments to the running game           *)
(* (launcher.c, launch_config.c, launch_process.c, steam/app.c), together  *)
(* with what happens in the game's process meanwhile: the thread that      *)
(* loads the loader's DLL, the thread that runs YAFSMLInit, and the death  *)
(* of the process at any time.                                             *)
(*                                                                         *)
(* Every call of the system may fail.  An error is named after the step    *)
(* that failed; a call made while cleaning up overwrites the last error.   *)
(***************************************************************************)
EXTENDS Naturals, Sequences, FiniteSets

CONSTANTS Games,          \* the games of the registry
          Default,        \* the one launched when nothing names another
          Unknown,        \* an executable under no known name
          Nil,
          Arguments,      \* command lines, with what they find on the disk
          Libraries       \* what Steam's library folders may hold

ASSUME DefaultAssumption == Default \in Games
ASSUME UnknownAssumption == Unknown \notin Games \cup {Nil} /\ Nil \notin Games

\* What a launch may fail at.
LaunchSteps == {"arguments", "resolve", "config", "locate", "agree", "proxy", "memory", "create",
                "allocate", "write", "start loader", "wait", "aborted", "find", "start init",
                "init", "resume"}
ASSUME NilAssumption == Nil \notin LaunchSteps

VARIABLES
    args,       \* the arguments, the configuration and the disk
    at,         \* the next step of the launcher
    game,       \* launch_game
    exe,        \* the game of the executable found, Unknown or Nil
    env,        \* what is exported to the game: its key, or Nil
    locale,     \* Wine's LC_ALL
    guard,      \* the locale guard is active
    process,    \* "none", "suspended", "running" or "dead"
    loader,     \* the loading thread in the game: "none", "reading", "loaded", "failed"
    remotePath, \* the DLL's path in the game's memory: "none", "there" or "freed"
    init,       \* YAFSMLInit in the game: "none", "running", "ok", "failed"
    context,    \* the game the loader takes itself to be in
    lastError,  \* GetLastError of the launcher's thread
    cause,      \* the step that failed first
    dialogs,   \* the steps error dialogs have named
    result      \* the exit code, Nil while it runs

launchVars == <<args, at, game, exe, env, locale, guard, process, loader,
                remotePath, init, context, lastError, cause, dialogs, result>>

choiceVars == <<args, game, exe, env>>
remoteVars == <<process, loader, remotePath, init, context>>
localeVars == <<locale, guard>>
errorVars  == <<lastError, cause, dialogs, result>>

LaunchInit ==
    /\ args = Nil /\ at = "start"
    /\ game = Nil /\ exe = Nil /\ env = Nil
    /\ locale = "C" /\ guard = FALSE
    /\ process = "none" /\ loader = "none" /\ remotePath = "none"
    /\ init = "none" /\ context = Nil
    /\ lastError = Nil /\ cause = Nil /\ dialogs = <<>> /\ result = Nil

\* The launcher stops with an error dialog about step s, before there is a process.
StopsAt(s) ==
    /\ cause' = s
    /\ dialogs' = Append(dialogs, s)
    /\ at' = "done" /\ result' = 1
    /\ UNCHANGED lastError

Goes(l) == at' = l /\ UNCHANGED errorVars

----------------------------------------------------------------------------
(* Which game, and where.                                                   *)

\* parse_args; a target that is no game ends the launch.  Wine's host locale may
\* or may not be set.
ParseArgs ==
    /\ at = "start"
    /\ \E a \in Arguments :
         /\ args' = a
         /\ game' = IF a.target \in Games THEN a.target ELSE Nil
         /\ IF a.target \in Games \cup {Nil} THEN Goes("resolve") ELSE StopsAt("arguments")
    /\ locale' \in {"C", "unset"}
    /\ UNCHANGED <<exe, env, guard, remoteVars>>

\* init_launcher_dir, resolve_modloader_dll and resolve_config.
Resolve ==
    /\ at = "resolve"
    /\ \/ Goes("config") \/ StopsAt("resolve")
    /\ UNCHANGED <<choiceVars, localeVars, remoteVars>>

\* select_config_game, without an explicit target: a setting that cannot be
\* read or names no game is an error.
SelectConfigGame ==
    /\ at = "config"
    /\ IF args.target # Nil THEN game' = game /\ Goes("locate")
       ELSE IF args.config \in Games \cup {Nil}
            THEN /\ game' = IF args.config = Nil THEN Default ELSE args.config
                 /\ Goes("locate")
            ELSE game' = game /\ StopsAt("config")
    /\ UNCHANGED <<args, exe, env, localeVars, remoteVars>>

\* find_game_executable: a file, or a folder with the wanted game in it.
FindIn(place, g) ==
    CASE place.kind = "file" -> place.holds
      [] place.kind = "folder" /\ g \in place.holds -> g
      [] OTHER -> Nil

\* app_find_game_path: from the last block back, leaving out what stands for
\* Steam's own folder and what is no absolute path, then Steam's own folder.
SteamHas(libraries, g) ==
    \/ \E i \in 1..Len(libraries.blocks) :
          LET b == libraries.blocks[i] IN ~b.own /\ b.absolute /\ g \in b.apps
    \/ g \in libraries.apps

FirstOf(choices) ==
    LET good == {i \in 1..Len(choices) : choices[i] # Nil} IN
    IF good = {} THEN Nil ELSE choices[CHOOSE i \in good : \A j \in good : i <= j]

\* locate_game_executable: Steam is not asked when a path was given.
Located(libraries) ==
    IF args.path # Nil
    THEN FirstOf(<<FindIn(args.path.here, game),
                   IF args.path.relative THEN FindIn(args.path.beside, game) ELSE Nil>>)
    ELSE FirstOf(<<FindIn(args.beside, game),
                   IF SteamHas(libraries, game) THEN game ELSE Nil>>)

Locate ==
    /\ at = "locate"
    /\ \E libraries \in IF args.path = Nil THEN Libraries ELSE {[blocks |-> <<>>, apps |-> {}]} :
         LET found == Located(libraries) IN
         /\ exe' = found
         /\ IF found = Nil THEN StopsAt("locate") ELSE Goes("agree")
    /\ UNCHANGED <<args, game, env, localeVars, remoteVars>>

\* Mutant: the executable does not outrank the configuration.
AgreeAlways ==
    /\ at = "agree"
    /\ IF exe \notin Games \/ exe = game \/ args.target = Nil
       THEN game' = game /\ Goes("proxy")
       ELSE game' = game /\ StopsAt("agree")
    /\ UNCHANGED <<args, exe, env, localeVars, remoteVars>>

\* select_executable_game: it outranks the configuration, not the explicit target.
Agree ==
    /\ at = "agree"
    /\ IF exe \notin Games \/ exe = game THEN game' = game /\ Goes("proxy")
       ELSE IF args.target # Nil THEN game' = game /\ StopsAt("agree")
            ELSE game' = exe /\ Goes("proxy")
    /\ UNCHANGED <<args, exe, env, localeVars, remoteVars>>

\* A copy of the loader in the game's folder is an error.  Without memory for
\* the folder's name the launcher ends without a word.
CheckProxy ==
    /\ at = "proxy"
    /\ \/ Goes("export")
       \/ StopsAt("proxy")
       \/ /\ at' = "done" /\ result' = 1 /\ cause' = "memory"
          /\ UNCHANGED <<lastError, dialogs>>
    /\ UNCHANGED <<choiceVars, localeVars, remoteVars>>

Export ==
    /\ at = "export"
    /\ env' = game
    /\ Goes("begin locale")
    /\ UNCHANGED <<args, game, exe, localeVars, remoteVars>>

----------------------------------------------------------------------------
(* The process, under a locale that Wine can use.                           *)

\* The error of the step that failed becomes the last error.
FailsWith(s, l) ==
    /\ lastError' = s /\ cause' = IF cause = Nil THEN s ELSE cause
    /\ at' = l
    /\ UNCHANGED <<dialogs, result>>

\* Cleaning up may change the last error, and what follows restores it or not.
CleansUp(error, l) ==
    /\ lastError' = error
    /\ at' = l
    /\ UNCHANGED <<cause, dialogs, result>>

\* begin_wine_locale: not under Wine, or where a call fails, nothing is changed.
\* Before it, a path that is too long or cannot be copied fails the creation.
BeginLocale ==
    /\ at = "begin locale"
    /\ \/ guard' = TRUE /\ locale' = "cleared" /\ Goes("create")
       \/ UNCHANGED localeVars /\ (Goes("create") \/ FailsWith("create", "not created"))
    /\ UNCHANGED <<choiceVars, remoteVars>>

Create ==
    /\ at = "create"
    /\ \/ process' = "suspended" /\ Goes("end locale")
       \/ process' = process /\ FailsWith("create", "end locale")
    /\ UNCHANGED <<choiceVars, localeVars, loader, remotePath, init, context>>

\* end_wine_locale; restoring may fail too, which is only logged.
EndLocale ==
    /\ at = "end locale"
    /\ \/ locale' = IF guard THEN "restored" ELSE locale
       \/ guard /\ locale' = "not restored"
    /\ guard' = FALSE
    /\ IF process = "none" THEN CleansUp(lastError, "not created") ELSE Goes("allocate")
    /\ UNCHANGED <<choiceVars, remoteVars>>

ReportNotCreated ==
    /\ at = "not created"
    /\ dialogs' = Append(dialogs, lastError)
    /\ at' = "done" /\ result' = 1
    /\ UNCHANGED <<lastError, cause, choiceVars, localeVars, remoteVars>>

----------------------------------------------------------------------------
(* ml_launcher_inject_dll.                                                  *)

\* The path in the game's memory, and the thread that reads it there.  What
\* fails after the allocation frees it again and restores the error.
Allocate ==
    /\ at = "allocate"
    /\ \/ /\ process # "dead"
          /\ remotePath' = "there" /\ Goes("write")
       \/ remotePath' = remotePath /\ FailsWith("allocate", "not injected")
    /\ UNCHANGED <<choiceVars, localeVars, process, loader, init, context>>

Write ==
    /\ at = "write"
    /\ \/ process # "dead" /\ Goes("start loader")
       \/ FailsWith("write", "free")
    /\ UNCHANGED <<choiceVars, localeVars, remoteVars>>

StartLoader ==
    /\ at = "start loader"
    /\ \/ /\ process # "dead"
          /\ loader' = "reading" /\ Goes("wait loader")
       \/ loader' = loader /\ FailsWith("start loader", "free")
    /\ UNCHANGED <<choiceVars, localeVars, process, remotePath, init, context>>

\* ml_launcher_wait_for_remote_thread: the process is looked at first.
WaitLoader ==
    /\ at = "wait loader"
    /\ \/ process = "dead" /\ FailsWith("aborted", "free")
       \/ process # "dead" /\ loader # "reading" /\ Goes("free")
       \/ FailsWith("wait", "free")
    /\ UNCHANGED <<choiceVars, localeVars, remoteVars>>

\* Mutant: the error is not kept over the cleaning up.
FreeForgets ==
    /\ at = "free"
    /\ remotePath' = "freed"
    /\ CleansUp("freed", IF cause = Nil THEN "find" ELSE "not injected")
    /\ UNCHANGED <<choiceVars, localeVars, process, loader, init, context>>

Free ==
    /\ at = "free"
    /\ remotePath' = "freed"
    /\ CleansUp(lastError, IF cause = Nil THEN "find" ELSE "not injected")
    /\ UNCHANGED <<choiceVars, localeVars, process, loader, init, context>>

\* ml_launcher_find_remote_module, whose buffer grows with the modules, and the
\* address of YAFSMLInit in a local mapping of the DLL.
Find ==
    /\ at = "find"
    /\ \/ process # "dead" /\ loader = "loaded" /\ Goes("start init")
       \/ FailsWith("find", "not injected")
    /\ UNCHANGED <<choiceVars, localeVars, remoteVars>>

StartInit ==
    /\ at = "start init"
    /\ \/ process # "dead" /\ init' = "running" /\ Goes("wait init")
       \/ init' = init /\ FailsWith("start init", "not injected")
    /\ UNCHANGED <<choiceVars, localeVars, process, loader, remotePath, context>>

\* Mutant: the exit code of YAFSMLInit is not looked at.
WaitInitOnly ==
    /\ at = "wait init"
    /\ \/ process = "dead" /\ FailsWith("aborted", "not injected")
       \/ process # "dead" /\ init # "running" /\ Goes("resume")
       \/ FailsWith("wait", "not injected")
    /\ UNCHANGED <<choiceVars, localeVars, remoteVars>>

WaitInit ==
    /\ at = "wait init"
    /\ \/ process = "dead" /\ FailsWith("aborted", "not injected")
       \/ process # "dead" /\ init = "ok" /\ Goes("resume")
       \/ process # "dead" /\ init = "failed" /\ FailsWith("init", "not injected")
       \/ FailsWith("wait", "not injected")
    /\ UNCHANGED <<choiceVars, localeVars, remoteVars>>

\* The game goes on unless it is to stay suspended; one that died in the meantime
\* cannot be resumed, or is and nobody notices.
Resume ==
    /\ at = "resume"
    /\ \/ args.suspend /\ UNCHANGED process /\ Goes("success")
       \/ /\ ~args.suspend
          /\ process' = IF process = "dead" THEN process ELSE "running"
          /\ Goes("success")
       \/ ~args.suspend /\ UNCHANGED process /\ FailsWith("resume", "not injected")
    /\ UNCHANGED <<choiceVars, localeVars, loader, remotePath, init, context>>

\* Mutant: a game that could not be prepared is left alone.
ReportFailureOnly ==
    /\ at = "not injected"
    /\ dialogs' = Append(dialogs, lastError)
    /\ at' = "done" /\ result' = 1
    /\ UNCHANGED <<lastError, cause, choiceVars, localeVars, remoteVars>>

\* The dialog, then TerminateProcess.
ReportFailure ==
    /\ at = "not injected"
    /\ dialogs' = Append(dialogs, lastError)
    /\ process' = "dead"
    /\ at' = "done" /\ result' = 1
    /\ UNCHANGED <<lastError, cause, choiceVars, localeVars, loader, remotePath, init, context>>

Succeed ==
    /\ at = "success"
    /\ at' = "done" /\ result' = 0
    /\ UNCHANGED <<lastError, cause, dialogs, choiceVars, localeVars, remoteVars>>

Launch ==
    \/ ParseArgs \/ Resolve \/ SelectConfigGame \/ Locate \/ Agree \/ CheckProxy \/ Export
    \/ BeginLocale \/ Create \/ EndLocale \/ ReportNotCreated
    \/ Allocate \/ Write \/ StartLoader \/ WaitLoader \/ Free \/ Find
    \/ StartInit \/ WaitInit \/ Resume \/ ReportFailure \/ Succeed

----------------------------------------------------------------------------
(* The game's process.                                                      *)

Alive == process \in {"suspended", "running"}

\* LoadLibraryW; with YAFSML_REMOTE_INIT exported DllMain leaves the rest to
\* YAFSMLInit.
LoadInGame ==
    /\ Alive /\ loader = "reading"
    /\ loader' \in {"loaded", "failed"}
    /\ UNCHANGED <<at, choiceVars, localeVars, errorVars, process, remotePath, init, context>>

\* ml_game_context_init: the executable's game, which must be the one exported.
ContextOf == IF exe \in Games /\ env = exe THEN exe ELSE Nil

\* YAFSMLInit: without a game context it still reports success.
InitInGame ==
    /\ Alive /\ init = "running"
    /\ \/ init' = "ok" /\ context' = ContextOf
       \/ init' = "failed" /\ context' = context
    /\ UNCHANGED <<at, choiceVars, localeVars, errorVars, process, loader, remotePath>>

GameDies ==
    /\ Alive
    /\ process' = "dead"
    /\ UNCHANGED <<at, choiceVars, localeVars, errorVars, loader, remotePath, init, context>>

LaunchNext == Launch \/ LoadInGame \/ InitInGame \/ GameDies

LaunchSpec == LaunchInit /\ [][LaunchNext]_launchVars

----------------------------------------------------------------------------
\* The game's own code runs only with a loader that has initialised itself
\* (launch_process.c:281, launcher.c:386), whatever fails or dies in between, and
\* the loading thread never reads a path that is freed already, unless waiting
\* for it failed.
GameRunsInitialised ==
    /\ process = "running" => loader = "loaded" /\ init = "ok"
    /\ Alive /\ loader = "reading" /\ cause # "wait" => remotePath = "there"

\* However the launch ends, no game is left suspended that was not asked for, its
\* memory does not keep the path, and the launcher's own environment has its
\* locale again (unless restoring it failed).
NothingStaysBehind ==
    at = "done" =>
        /\ process = "suspended" => args.suspend /\ result = 0
        /\ Alive => remotePath = "freed"
        /\ locale # "cleared" /\ ~guard

\* A failed launch says what failed first, once ("Each failed launch reports
\* exactly one error dialog", smoke_launcher_startup.c:129), also after the
\* cleaning up; only lack of memory for the game's folder goes unreported.
FailureNamesItsCause ==
    at = "done" =>
        IF result = 0 THEN cause = Nil /\ dialogs = <<>>
        ELSE IF cause = "memory" THEN dialogs = <<>>
             ELSE dialogs = <<cause>>

\* However a launch ends, it leaves nothing behind and says what failed.
LaunchEndsClean == NothingStaysBehind /\ FailureNamesItsCause

\* The loader in a started game knows the game it is in, whether the executable,
\* the target or the configuration named it; under an unknown name it stays out.
GameKnowsItself ==
    init = "ok" =>
        /\ context = IF exe \in Games THEN exe ELSE Nil
        /\ args.target # Nil => env = args.target

\* A game that runs was prepared by a loader that knows it.
GameIsPrepared == GameRunsInitialised /\ GameKnowsItself

=============================================================================
