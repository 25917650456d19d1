----------------------------- MODULE HookProofs -----------------------------
(***************************************************************************)
(* Proofs about the hooks that come and go while the game calls: PathHooks *)
(* for any number of threads and slots, Win32Hooks for any number of       *)
(* callers and I/O hooks, AssetHooks for any number of threads and of      *)
(* classes of devices and any room in the table, Allocators, whose hooks   *)
(* come before any of them, for any image and any width of a size_t, and   *)
(* SaveMapping, which the file hooks route the saves by, for any number of *)
(* threads, paths, saves and renamed files.                                *)
(***************************************************************************)
EXTENDS Win32Hooks, PathHooks, AssetHooks, Allocators, SaveMapping, FiniteSetTheorems,
        WellFoundedInduction, TLAPS
----------------------------------------------------------------------------
(* PathHooks: the one attempt at the SetPath functions, and its answer.     *)

\* The thread whose attempt it is.
Trying(t) == opening[t] \in {"slots", "settle"}

\* A good answer would be true.
AllHooked == \A i \in Slots : operator[i] \in pathHooked

PathTypes ==
  /\ opening \in [Openers -> {"game", "disk", "slots", "settle", "answered"}]
  /\ told \in [Openers -> BOOLEAN]
  /\ attempted \in BOOLEAN /\ settled \in BOOLEAN /\ pathResult \in BOOLEAN

\* One thread tries, once, before it is settled; the result is stored before that is said,
\* and is what that thread has found out.
AttemptInv ==
  /\ ~attempted => ~settled /\ ~pathResult
  /\ \A t \in Openers : Trying(t) => attempted /\ ~settled
  /\ \A t, u \in Openers : Trying(t) /\ Trying(u) => t = u
  /\ \A t \in Openers : opening[t] = "slots" => ~pathResult
  /\ \A t \in Openers : opening[t] = "settle" =>
       /\ told[t] => AllHooked
       /\ pathResult => told[t]

\* The answer is read only when it is settled, and then stays.
AnswerInv ==
  /\ settled /\ pathResult => AllHooked
  /\ \A t \in Openers : opening[t] = "answered" => settled /\ told[t] = pathResult

PathInv == PathTypes /\ AttemptInv /\ AnswerInv

LEMMA PathInitHolds == PathInit => PathInv
BY DEF PathInit, PathInv, PathTypes, AttemptInv, AnswerInv, Trying

LEMMA PathStepHolds ==
  ASSUME PathInv, [PathNext]_pathVars
  PROVE  PathInv'
<1> USE DEF PathInv, PathTypes, AttemptInv, AnswerInv, Trying, AllHooked, OpeningAt, OpeningGoes, Told
<1>1. CASE UNCHANGED pathVars
  BY <1>1 DEF pathVars
<1>2. ASSUME NEW t \in Openers, OpenDisk(t) PROVE PathInv'
  BY <1>2 DEF OpenDisk
<1>3. ASSUME NEW t \in Openers, Answered(t) PROVE PathInv'
  BY <1>3 DEF Answered
<1>4. ASSUME NEW t \in Openers, Attempt(t) PROVE PathInv'
  <2>1. PICK f \in Operators \cup {Invalid} :
          IF f = Invalid
          THEN settled' = TRUE /\ OpeningGoes(t, "answered") /\ Told(t, FALSE)
          ELSE OpeningGoes(t, "slots") /\ UNCHANGED <<settled, told>>
    BY <1>4 DEF Attempt
  <2>2. /\ opening[t] = "disk" /\ ~attempted /\ attempted' = TRUE
        /\ UNCHANGED <<pathHooked, pathResult>>
    BY <1>4 DEF Attempt
  <2>3. ~settled /\ ~pathResult /\ \A u \in Openers : opening[u] \in {"game", "disk"}
    BY <2>2
  <2>4. CASE f = Invalid
    BY <2>1, <2>2, <2>3, <2>4
  <2>5. CASE f # Invalid
    BY <2>1, <2>2, <2>3, <2>5
  <2> QED BY <2>4, <2>5
<1>5. ASSUME NEW t \in Openers, HookSlots(t) PROVE PathInv'
  <2>1. PICK went \in SUBSET Slots :
          LET shared(i) == \E j \in went : j < i /\ operator[j] = operator[i] IN
          /\ pathHooked' = pathHooked \cup {operator[i] : i \in went}
          /\ Told(t, \A i \in Slots : i \in went \/ shared(i))
    BY <1>5 DEF HookSlots
  <2>2. /\ opening[t] = "slots" /\ opening' = [opening EXCEPT ![t] = "settle"]
        /\ UNCHANGED <<attempted, settled, pathResult, operator>>
    BY <1>5 DEF HookSlots
  <2>3. told'[t] => AllHooked'
    BY <2>1, <2>2
  <2>4. told' \in [Openers -> BOOLEAN] /\ \A u \in Openers \ {t} : told'[u] = told[u]
    BY <2>1
  <2>5. AllHooked => AllHooked'
    BY <2>1, <2>2
  <2> HIDE DEF AllHooked
  <2> QED BY <2>2, <2>3, <2>4, <2>5
<1>6. ASSUME NEW t \in Openers, Settle(t) PROVE PathInv'
  <2>1. AllHooked' <=> AllHooked
    BY <1>6 DEF Settle
  <2> HIDE DEF AllHooked
  <2> QED BY <1>6, <2>1 DEF Settle
<1>7. ASSUME NEW t \in Openers, Opened(t) PROVE PathInv'
  BY <1>7 DEF Opened
<1> QED
  BY <1>1, <1>2, <1>3, <1>4, <1>5, <1>6, <1>7 DEF PathNext

\* Everybody who opens a file gets the one answer about the SetPath hooks, and a good one
\* means that all three functions are hooked (asset_hooks.c:605-653), for any number of
\* threads and whatever functions operators share between their slots.
THEOREM SetPathAnswersAlwaysAgree == PathSpec => []SetPathAnswersAgree
<1>1. PathInv => SetPathAnswersAgree
  BY DEF PathInv, PathTypes, AttemptInv, AnswerInv, AllHooked, SetPathAnswersAgree, OpeningAt
<1> QED
  BY <1>1, PathInitHolds, PathStepHolds, PTL DEF PathSpec

----------------------------------------------------------------------------
(* Win32Hooks: batches of hooks that come and go, with calls under way.     *)

Functions == {"CreateFile", "DeleteFile", "CopyFile"}
OpenCalls == [given : Given("CreateFile"),
              route : {"none", "saveCopy", "denied", "ownCopy", "entry", "looseFile"}]

\* What the installing thread knows and does.
FlagTypes ==
  /\ mapping \in BOOLEAN /\ hooksInstalled \in BOOLEAN /\ pathHooksLive \in BOOLEAN
  /\ zipHooksLive \in BOOLEAN /\ zipIoReady \in BOOLEAN /\ serving \in BOOLEAN
  /\ complete \in BOOLEAN
HookTypes ==
  /\ zipHooked \subseteq 1..ZipHooks /\ pathsHooked \subseteq Functions
  /\ batch \in {"idle", "zip", "zipBack", "unzip", "path", "pathBack", "unpath"}
  /\ place \in Nat
ManagerTypes == FlagTypes /\ HookTypes
Win32Types == ManagerTypes /\ call \in [Callers -> OpenCalls \cup {NoCall}]

\* The first hooks of a batch are in; those from the last to be taken out are gone, unless
\* one of them stayed.
BatchInv ==
  /\ batch = "zip" => place <= ZipHooks /\ zipHooked = 1..place
  /\ batch \in {"zipBack", "unzip"} /\ complete => \A i \in zipHooked : i <= place
  /\ batch \in {"zipBack", "unzip"} => place <= ZipHooks
  /\ batch = "path" => place <= 3 /\ pathsHooked = {PathFunctions[i] : i \in 1..place}
  /\ batch \in {"pathBack", "unpath"} =>
       /\ place <= 3
       /\ complete => \A i \in 1..3 : PathFunctions[i] \in pathsHooked => i <= place

\* Hooks that are in are known, but for those of the batch that is being installed.
LiveInv ==
  /\ batch \notin {"zip", "zipBack"} /\ zipHooked # {} => zipHooksLive
  /\ batch = "unzip" => zipHooksLive
  /\ batch \notin {"path", "pathBack"} /\ pathsHooked # {} => pathHooksLive
  /\ batch \in {"path", "pathBack", "zip", "zipBack"} => ~pathHooksLive
  /\ batch \in {"zip", "zipBack"} => ~zipHooksLive
  /\ batch = "unpath" => pathHooksLive
  /\ hooksInstalled => batch = "idle" /\ pathsHooked = Functions

\* ZIP entries are routed to and served while every I/O hook is in; the I/O hooks come
\* before the path hooks and go after them, so nobody calls beside the first batch.
ServeInv ==
  /\ zipIoReady => /\ serving /\ zipHooked = 1..ZipHooks /\ zipHooksLive
                   /\ batch \in {"idle", "path", "pathBack", "unpath"}
  /\ batch = "zip" => serving
  /\ batch \notin {"zip", "zipBack"} /\ serving => zipIoReady
  /\ handles # {} => serving
  /\ batch \in {"zip", "zipBack"} =>
       pathsHooked = {} /\ handles = {} /\ \A c \in Callers : call[c] = NoCall

\* What was routed: a save is renamed or denied while saves are mapped, and a plain path
\* is left alone.
RouteInv ==
  \A c \in Callers : call[c] # NoCall =>
    LET p == call[c].given.args[1] IN
    /\ ~Straight(call[c].given)
    /\ p = "save" /\ mapping => call[c].route \in {"saveCopy", "denied"}
    /\ p = "plain" => call[c].route = "none"

Win32Inv == Win32Types /\ BatchInv /\ LiveInv /\ ServeInv /\ RouteInv /\ SavesFailClosed

LEMMA FunctionsInOrder ==
  /\ Len(PathFunctions) = 3 /\ DOMAIN PathFunctions = 1..3
  /\ PathFunctions[1] = "CreateFile" /\ PathFunctions[2] = "DeleteFile" /\ PathFunctions[3] = "CopyFile"
  /\ Functions = {PathFunctions[i] : i \in 1..3}
  /\ \A i, j \in 1..3 : PathFunctions[i] = PathFunctions[j] => i = j
<1>1. /\ Len(PathFunctions) = 3 /\ DOMAIN PathFunctions = 1..3
      /\ PathFunctions[1] = "CreateFile" /\ PathFunctions[2] = "DeleteFile"
      /\ PathFunctions[3] = "CopyFile"
  BY DEF PathFunctions
<1>2. \A i \in 1..3 : i = 1 \/ i = 2 \/ i = 3
  OBVIOUS
<1>3. {PathFunctions[i] : i \in 1..3} = Functions
  BY <1>1, <1>2 DEF Functions
<1> QED BY <1>1, <1>2, <1>3

LEMMA Win32InitHolds == Win32Init => Win32Inv
<1> SUFFICES ASSUME Win32Init PROVE Win32Inv
  OBVIOUS
<1> USE DEF Win32Init
<1>1. FlagTypes
  BY DEF FlagTypes
<1>2. HookTypes
  <2>1. zipHooked \subseteq 1..ZipHooks /\ pathsHooked \subseteq Functions
    OBVIOUS
  <2> QED BY <2>1 DEF HookTypes
<1>3. Win32Types
  BY <1>1, <1>2 DEF Win32Types, ManagerTypes
<1>4. BatchInv /\ LiveInv /\ ServeInv
  BY DEF BatchInv, LiveInv, ServeInv
<1>5. RouteInv /\ SavesFailClosed
  BY DEF RouteInv, SavesFailClosed
<1> QED BY <1>3, <1>4, <1>5 DEF Win32Inv

\* Steps that manage hooks end no call and start none.
LEMMA ManagerRoutes ==
  ASSUME Win32Inv, NoneEnds, mapping' = mapping \/ mapping' = FALSE
  PROVE  RouteInv' /\ SavesFailClosed' /\ (call \in [Callers -> OpenCalls \cup {NoCall}])'
BY DEF Win32Inv, Win32Types, RouteInv, NoneEnds, SavesFailClosed, Straight

\* The I/O hooks come and go.
LEMMA ZipBatchHolds ==
  ASSUME Win32Inv,
         \/ Install \/ InstallZipHook \/ ZipHooksInstalled \/ RollBackZipHook
         \/ ZipHooksRolledBack \/ RemoveZipHook \/ ZipHooksRemoved
  PROVE  Win32Inv'
<1> USE ZipHooksAssumption DEF Proceed, CloseEntries, TakeOut, hookVars, flagVars, NoneEnds
<1>1. RouteInv' /\ SavesFailClosed' /\ (call \in [Callers -> OpenCalls \cup {NoCall}])'
  <2>1. NoneEnds /\ UNCHANGED mapping
    BY DEF Install, InstallZipHook, ZipHooksInstalled, RollBackZipHook, ZipHooksRolledBack,
       RemoveZipHook, ZipHooksRemoved
  <2> QED BY <2>1, ManagerRoutes DEF Win32Inv, Win32Types, ManagerTypes, FlagTypes
<1> SUFFICES ManagerTypes' /\ BatchInv' /\ LiveInv' /\ ServeInv'
  BY <1>1 DEF Win32Inv, Win32Types
<1> USE DEF Win32Inv, Win32Types, ManagerTypes, FlagTypes, HookTypes
<1>2. CASE Install
  <2>1. ManagerTypes'
    <3>1. FlagTypes'
      BY <1>2 DEF Install
    <3>2. (zipHooked \subseteq 1..ZipHooks)' /\ (pathsHooked \subseteq Functions)'
      BY <1>2 DEF Install, BatchInv
    <3>3. (batch \in {"idle", "zip", "zipBack", "unzip", "path", "pathBack", "unpath"} /\ place \in Nat)'
      BY <1>2 DEF Install
    <3> QED BY <3>1, <3>2, <3>3
  <2>2. BatchInv'
    <3>1. zipHooked = {} /\ pathsHooked = {} /\ 1..0 = {}
      BY <1>2 DEF Install, LiveInv
    <3>2. place' = 0 /\ batch' \in {"zip", "path"} /\ UNCHANGED <<zipHooked, pathsHooked>>
      BY <1>2 DEF Install
    <3> QED BY <3>1, <3>2 DEF BatchInv
  <2>3. LiveInv'
    BY <1>2 DEF Install, BatchInv, LiveInv, ServeInv
  <2>4. ServeInv'
    BY <1>2 DEF Install, BatchInv, LiveInv, ServeInv
  <2> QED BY <2>1, <2>2, <2>3, <2>4
<1>3. CASE InstallZipHook
  <2>1. ManagerTypes'
    <3>1. FlagTypes'
      BY <1>3 DEF InstallZipHook
    <3>2. (zipHooked \subseteq 1..ZipHooks)' /\ (pathsHooked \subseteq Functions)'
      BY <1>3 DEF InstallZipHook, BatchInv
    <3>3. (batch \in {"idle", "zip", "zipBack", "unzip", "path", "pathBack", "unpath"} /\ place \in Nat)'
      BY <1>3 DEF InstallZipHook
    <3> QED BY <3>1, <3>2, <3>3
  <2>2. BatchInv'
    <3>1. place + 1 <= ZipHooks /\ zipHooked = 1..place /\ (1..place) \cup {place + 1} = 1..(place + 1)
      BY <1>3 DEF InstallZipHook, BatchInv
    <3>2. CASE zipHooked' = zipHooked \cup {place + 1} /\ Proceed("zip", place + 1)
      BY <3>1, <3>2 DEF BatchInv
    <3>3. CASE Proceed("zipBack", place) /\ UNCHANGED zipHooked
      BY <3>1, <3>3 DEF BatchInv
    <3> QED BY <1>3, <3>2, <3>3 DEF InstallZipHook
  <2>3. LiveInv'
    BY <1>3 DEF InstallZipHook, BatchInv, LiveInv, ServeInv
  <2>4. ServeInv'
    BY <1>3 DEF InstallZipHook, BatchInv, LiveInv, ServeInv
  <2> QED BY <2>1, <2>2, <2>3, <2>4
<1>4. CASE ZipHooksInstalled
  <2>1. ManagerTypes'
    <3>1. FlagTypes'
      BY <1>4 DEF ZipHooksInstalled
    <3>2. (zipHooked \subseteq 1..ZipHooks)' /\ (pathsHooked \subseteq Functions)'
      BY <1>4 DEF ZipHooksInstalled, BatchInv
    <3>3. (batch \in {"idle", "zip", "zipBack", "unzip", "path", "pathBack", "unpath"} /\ place \in Nat)'
      BY <1>4 DEF ZipHooksInstalled
    <3> QED BY <3>1, <3>2, <3>3
  <2>2. BatchInv'
    BY <1>4 DEF ZipHooksInstalled, BatchInv, LiveInv, ServeInv
  <2>3. LiveInv'
    BY <1>4 DEF ZipHooksInstalled, BatchInv, LiveInv, ServeInv
  <2>4. ServeInv'
    BY <1>4 DEF ZipHooksInstalled, BatchInv, LiveInv, ServeInv
  <2> QED BY <2>1, <2>2, <2>3, <2>4
<1>5. CASE RollBackZipHook
  <2>1. ManagerTypes'
    <3>1. FlagTypes'
      BY <1>5 DEF RollBackZipHook
    <3>2. (zipHooked \subseteq 1..ZipHooks)' /\ (pathsHooked \subseteq Functions)'
      BY <1>5 DEF RollBackZipHook, BatchInv
    <3>3. (batch \in {"idle", "zip", "zipBack", "unzip", "path", "pathBack", "unpath"} /\ place \in Nat)'
      BY <1>5 DEF RollBackZipHook
    <3> QED BY <3>1, <3>2, <3>3
  <2>2. BatchInv'
    <3>1. place' = place - 1 /\ place \in Nat /\ place <= ZipHooks /\ batch = "zipBack" /\ UNCHANGED batch
      BY <1>5 DEF RollBackZipHook, BatchInv
    <3>2. CASE zipHooked' = zipHooked \ {place} /\ UNCHANGED complete
      <4>1. complete => \A i \in zipHooked' : i <= place - 1
        BY <3>1, <3>2 DEF BatchInv
      <4> QED BY <3>1, <3>2, <4>1 DEF BatchInv
    <3>3. CASE complete' = FALSE
      BY <3>1, <3>3 DEF BatchInv
    <3> QED BY <1>5, <3>2, <3>3 DEF RollBackZipHook
  <2>3. LiveInv'
    BY <1>5 DEF RollBackZipHook, BatchInv, LiveInv, ServeInv
  <2>4. ServeInv'
    BY <1>5 DEF RollBackZipHook, BatchInv, LiveInv, ServeInv
  <2> QED BY <2>1, <2>2, <2>3, <2>4
<1>6. CASE ZipHooksRolledBack
  <2>1. ManagerTypes'
    <3>1. FlagTypes'
      BY <1>6 DEF ZipHooksRolledBack
    <3>2. (zipHooked \subseteq 1..ZipHooks)' /\ (pathsHooked \subseteq Functions)'
      BY <1>6 DEF ZipHooksRolledBack, BatchInv
    <3>3. (batch \in {"idle", "zip", "zipBack", "unzip", "path", "pathBack", "unpath"} /\ place \in Nat)'
      BY <1>6 DEF ZipHooksRolledBack
    <3> QED BY <3>1, <3>2, <3>3
  <2>2. BatchInv'
    BY <1>6 DEF ZipHooksRolledBack, BatchInv, LiveInv, ServeInv
  <2>3. LiveInv'
    <3>1. complete => zipHooked = {}
      BY <1>6 DEF ZipHooksRolledBack, BatchInv
    <3> QED BY <1>6, <3>1 DEF ZipHooksRolledBack, LiveInv, ServeInv
  <2>4. ServeInv'
    BY <1>6 DEF ZipHooksRolledBack, BatchInv, LiveInv, ServeInv
  <2> QED BY <2>1, <2>2, <2>3, <2>4
<1>7. CASE RemoveZipHook
  <2>1. ManagerTypes'
    <3>1. FlagTypes'
      BY <1>7 DEF RemoveZipHook
    <3>2. (zipHooked \subseteq 1..ZipHooks)' /\ (pathsHooked \subseteq Functions)'
      BY <1>7 DEF RemoveZipHook, BatchInv
    <3>3. (batch \in {"idle", "zip", "zipBack", "unzip", "path", "pathBack", "unpath"} /\ place \in Nat)'
      BY <1>7 DEF RemoveZipHook
    <3> QED BY <3>1, <3>2, <3>3
  <2>2. BatchInv'
    <3>1. place' = place - 1 /\ place \in Nat /\ place <= ZipHooks /\ batch = "unzip" /\ UNCHANGED batch
      BY <1>7 DEF RemoveZipHook, BatchInv
    <3>2. CASE zipHooked' = zipHooked \ {place} /\ UNCHANGED complete
      <4>1. complete => \A i \in zipHooked' : i <= place - 1
        BY <3>1, <3>2 DEF BatchInv
      <4> QED BY <3>1, <3>2, <4>1 DEF BatchInv
    <3>3. CASE complete' = FALSE
      BY <3>1, <3>3 DEF BatchInv
    <3> QED BY <1>7, <3>2, <3>3 DEF RemoveZipHook
  <2>3. LiveInv'
    BY <1>7 DEF RemoveZipHook, BatchInv, LiveInv, ServeInv
  <2>4. ServeInv'
    BY <1>7 DEF RemoveZipHook, BatchInv, LiveInv, ServeInv
  <2> QED BY <2>1, <2>2, <2>3, <2>4
<1>8. CASE ZipHooksRemoved
  <2>1. ManagerTypes'
    <3>1. FlagTypes'
      BY <1>8 DEF ZipHooksRemoved
    <3>2. (zipHooked \subseteq 1..ZipHooks)' /\ (pathsHooked \subseteq Functions)'
      BY <1>8 DEF ZipHooksRemoved, BatchInv
    <3>3. (batch \in {"idle", "zip", "zipBack", "unzip", "path", "pathBack", "unpath"} /\ place \in Nat)'
      BY <1>8 DEF ZipHooksRemoved
    <3> QED BY <3>1, <3>2, <3>3
  <2>2. BatchInv'
    BY <1>8 DEF ZipHooksRemoved, BatchInv, LiveInv, ServeInv
  <2>3. LiveInv'
    <3>1. complete => zipHooked = {}
      BY <1>8 DEF ZipHooksRemoved, BatchInv
    <3> QED BY <1>8, <3>1 DEF ZipHooksRemoved, LiveInv, ServeInv
  <2>4. ServeInv'
    BY <1>8 DEF ZipHooksRemoved, BatchInv, LiveInv, ServeInv
  <2> QED BY <2>1, <2>2, <2>3, <2>4
<1> QED BY <1>2, <1>3, <1>4, <1>5, <1>6, <1>7, <1>8

\* The path hooks come and go.
LEMMA PathBatchHolds ==
  ASSUME Win32Inv,
         \/ InstallPathHook \/ PathHooksInstalled \/ RollBackPathHook \/ PathHooksRolledBack
         \/ Uninstall \/ RemovePathHook \/ PathHooksRemoved \/ SaveMappingUninit
  PROVE  Win32Inv'
<1> USE ZipHooksAssumption, FunctionsInOrder
    DEF Proceed, CloseEntries, TakeOut, RemoveZipHooks, hookVars, flagVars, managerVars, NoneEnds
<1>1. RouteInv' /\ SavesFailClosed' /\ (call \in [Callers -> OpenCalls \cup {NoCall}])'
  <2>1. NoneEnds
    BY DEF InstallPathHook, PathHooksInstalled, RollBackPathHook, PathHooksRolledBack,
       Uninstall, RemovePathHook, PathHooksRemoved, SaveMappingUninit
  <2>2. mapping' = mapping \/ mapping' = FALSE
    BY DEF InstallPathHook, PathHooksInstalled, RollBackPathHook, PathHooksRolledBack,
       Uninstall, RemovePathHook, PathHooksRemoved, SaveMappingUninit
  <2> QED BY <2>1, <2>2, ManagerRoutes DEF Win32Inv, Win32Types, ManagerTypes, FlagTypes
<1> SUFFICES ManagerTypes' /\ BatchInv' /\ LiveInv' /\ ServeInv'
  BY <1>1 DEF Win32Inv, Win32Types
<1> USE DEF Win32Inv, Win32Types, ManagerTypes, FlagTypes, HookTypes
<1>2. CASE InstallPathHook
  <2>1. ManagerTypes'
    <3>1. FlagTypes'
      BY <1>2 DEF InstallPathHook
    <3>2. (zipHooked \subseteq 1..ZipHooks)' /\ (pathsHooked \subseteq Functions)'
      BY <1>2 DEF InstallPathHook, BatchInv
    <3>3. (batch \in {"idle", "zip", "zipBack", "unzip", "path", "pathBack", "unpath"} /\ place \in Nat)'
      BY <1>2 DEF InstallPathHook
    <3> QED BY <3>1, <3>2, <3>3
  <2>2. BatchInv'
    BY <1>2 DEF InstallPathHook, BatchInv, LiveInv, ServeInv
  <2>3. LiveInv'
    BY <1>2 DEF InstallPathHook, BatchInv, LiveInv, ServeInv
  <2>4. ServeInv'
    BY <1>2 DEF InstallPathHook, BatchInv, LiveInv, ServeInv
  <2> QED BY <2>1, <2>2, <2>3, <2>4
<1>3. CASE PathHooksInstalled
  <2>1. ManagerTypes'
    <3>1. FlagTypes'
      BY <1>3 DEF PathHooksInstalled
    <3>2. (zipHooked \subseteq 1..ZipHooks)' /\ (pathsHooked \subseteq Functions)'
      BY <1>3 DEF PathHooksInstalled, BatchInv
    <3>3. (batch \in {"idle", "zip", "zipBack", "unzip", "path", "pathBack", "unpath"} /\ place \in Nat)'
      BY <1>3 DEF PathHooksInstalled
    <3> QED BY <3>1, <3>2, <3>3
  <2>2. BatchInv'
    BY <1>3 DEF PathHooksInstalled, BatchInv, LiveInv, ServeInv
  <2>3. LiveInv'
    BY <1>3 DEF PathHooksInstalled, BatchInv, LiveInv, ServeInv
  <2>4. ServeInv'
    BY <1>3 DEF PathHooksInstalled, BatchInv, LiveInv, ServeInv
  <2> QED BY <2>1, <2>2, <2>3, <2>4
<1>4. CASE RollBackPathHook
  <2>1. ManagerTypes'
    <3>1. FlagTypes'
      BY <1>4 DEF RollBackPathHook
    <3>2. (zipHooked \subseteq 1..ZipHooks)' /\ (pathsHooked \subseteq Functions)'
      BY <1>4 DEF RollBackPathHook, BatchInv
    <3>3. (batch \in {"idle", "zip", "zipBack", "unzip", "path", "pathBack", "unpath"} /\ place \in Nat)'
      BY <1>4 DEF RollBackPathHook
    <3> QED BY <3>1, <3>2, <3>3
  <2>2. BatchInv'
    BY <1>4 DEF RollBackPathHook, BatchInv, LiveInv, ServeInv
  <2>3. LiveInv'
    BY <1>4 DEF RollBackPathHook, BatchInv, LiveInv, ServeInv
  <2>4. ServeInv'
    BY <1>4 DEF RollBackPathHook, BatchInv, LiveInv, ServeInv
  <2> QED BY <2>1, <2>2, <2>3, <2>4
<1>5. CASE PathHooksRolledBack
  <2>1. ManagerTypes'
    <3>1. FlagTypes'
      BY <1>5 DEF PathHooksRolledBack
    <3>2. (zipHooked \subseteq 1..ZipHooks)' /\ (pathsHooked \subseteq Functions)'
      BY <1>5 DEF PathHooksRolledBack, BatchInv
    <3>3. (batch \in {"idle", "zip", "zipBack", "unzip", "path", "pathBack", "unpath"} /\ place \in Nat)'
      BY <1>5 DEF PathHooksRolledBack
    <3> QED BY <3>1, <3>2, <3>3
  <2>2. BatchInv'
    BY <1>5 DEF PathHooksRolledBack, BatchInv, LiveInv, ServeInv
  <2>3. LiveInv'
    <3>1. complete => pathsHooked = {}
      <4>1. complete => \A i \in 1..3 : PathFunctions[i] \notin pathsHooked
        BY <1>5 DEF PathHooksRolledBack, BatchInv
      <4> QED BY <4>1, FunctionsInOrder
    <3> QED BY <1>5, <3>1 DEF PathHooksRolledBack, LiveInv, ServeInv
  <2>4. ServeInv'
    BY <1>5 DEF PathHooksRolledBack, BatchInv, LiveInv, ServeInv
  <2> QED BY <2>1, <2>2, <2>3, <2>4
<1>6. CASE Uninstall
  <2>1. ManagerTypes'
    <3>1. FlagTypes'
      BY <1>6 DEF Uninstall
    <3>2. (zipHooked \subseteq 1..ZipHooks)' /\ (pathsHooked \subseteq Functions)'
      BY <1>6 DEF Uninstall, BatchInv
    <3>3. (batch \in {"idle", "zip", "zipBack", "unzip", "path", "pathBack", "unpath"} /\ place \in Nat)'
      BY <1>6 DEF Uninstall
    <3> QED BY <3>1, <3>2, <3>3
  <2>2. BatchInv'
    BY <1>6 DEF Uninstall, BatchInv, LiveInv, ServeInv
  <2>3. LiveInv'
    BY <1>6 DEF Uninstall, BatchInv, LiveInv, ServeInv
  <2>4. ServeInv'
    BY <1>6 DEF Uninstall, BatchInv, LiveInv, ServeInv
  <2> QED BY <2>1, <2>2, <2>3, <2>4
<1>7. CASE RemovePathHook
  <2>1. ManagerTypes'
    <3>1. FlagTypes'
      BY <1>7 DEF RemovePathHook
    <3>2. (zipHooked \subseteq 1..ZipHooks)' /\ (pathsHooked \subseteq Functions)'
      BY <1>7 DEF RemovePathHook, BatchInv
    <3>3. (batch \in {"idle", "zip", "zipBack", "unzip", "path", "pathBack", "unpath"} /\ place \in Nat)'
      BY <1>7 DEF RemovePathHook
    <3> QED BY <3>1, <3>2, <3>3
  <2>2. BatchInv'
    BY <1>7 DEF RemovePathHook, BatchInv, LiveInv, ServeInv
  <2>3. LiveInv'
    BY <1>7 DEF RemovePathHook, BatchInv, LiveInv, ServeInv
  <2>4. ServeInv'
    BY <1>7 DEF RemovePathHook, BatchInv, LiveInv, ServeInv
  <2> QED BY <2>1, <2>2, <2>3, <2>4
<1>8. CASE PathHooksRemoved
  <2>1. ManagerTypes'
    <3>1. FlagTypes'
      BY <1>8 DEF PathHooksRemoved
    <3>2. (zipHooked \subseteq 1..ZipHooks)' /\ (pathsHooked \subseteq Functions)'
      BY <1>8 DEF PathHooksRemoved, BatchInv
    <3>3. (batch \in {"idle", "zip", "zipBack", "unzip", "path", "pathBack", "unpath"} /\ place \in Nat)'
      BY <1>8 DEF PathHooksRemoved
    <3> QED BY <3>1, <3>2, <3>3
  <2>2. BatchInv'
    BY <1>8 DEF PathHooksRemoved, BatchInv, LiveInv, ServeInv
  <2>3. LiveInv'
    <3>1. complete => pathsHooked = {}
      <4>1. complete => \A i \in 1..3 : PathFunctions[i] \notin pathsHooked
        BY <1>8 DEF PathHooksRemoved, BatchInv
      <4> QED BY <4>1, FunctionsInOrder
    <3> QED BY <1>8, <3>1 DEF PathHooksRemoved, LiveInv, ServeInv
  <2>4. ServeInv'
    BY <1>8 DEF PathHooksRemoved, BatchInv, LiveInv, ServeInv
  <2> QED BY <2>1, <2>2, <2>3, <2>4
<1>9. CASE SaveMappingUninit
  <2>1. ManagerTypes'
    <3>1. FlagTypes'
      BY <1>9 DEF SaveMappingUninit
    <3>2. (zipHooked \subseteq 1..ZipHooks)' /\ (pathsHooked \subseteq Functions)'
      BY <1>9 DEF SaveMappingUninit, BatchInv
    <3>3. (batch \in {"idle", "zip", "zipBack", "unzip", "path", "pathBack", "unpath"} /\ place \in Nat)'
      BY <1>9 DEF SaveMappingUninit
    <3> QED BY <3>1, <3>2, <3>3
  <2>2. BatchInv'
    BY <1>9 DEF SaveMappingUninit, BatchInv, LiveInv, ServeInv
  <2>3. LiveInv'
    BY <1>9 DEF SaveMappingUninit, BatchInv, LiveInv, ServeInv
  <2>4. ServeInv'
    BY <1>9 DEF SaveMappingUninit, BatchInv, LiveInv, ServeInv
  <2> QED BY <2>1, <2>2, <2>3, <2>4
<1> QED BY <1>2, <1>3, <1>4, <1>5, <1>6, <1>7, <1>8, <1>9

\* What calls have to keep, hooks and batches being left alone.
LEMMA CallsKeepHooks ==
  ASSUME Win32Inv, UNCHANGED <<zipMod, mapping, hookVars, flagVars, serving, managerVars>>,
         call' \in [Callers -> OpenCalls \cup {NoCall}],
         handles' # {} => serving,
         batch \in {"zip", "zipBack"} => handles' = {} /\ \A c \in Callers : call'[c] = NoCall
  PROVE  (Win32Types /\ BatchInv /\ LiveInv /\ ServeInv)'
BY DEF Win32Inv, Win32Types, ManagerTypes, FlagTypes, HookTypes, BatchInv, LiveInv, ServeInv, hookVars, flagVars, managerVars

\* The routes of a save, of a plain path, and of any.
LEMMA SaveRoutesAre ==
  ASSUME NEW p
  PROVE  /\ SaveRoutes(p) \subseteq {"none", "saveCopy", "denied"}
         /\ p = "save" /\ mapping => SaveRoutes(p) = {"saveCopy", "denied"}
         /\ p = "plain" => SaveRoutes(p) = {"none"}
         /\ p = "plain" => WritableRoute(p) = "none"
         /\ WritableRoute(p) \in {"none", "ownCopy"}
BY DEF SaveRoutes, WritableRoute

LEMMA WideRoutesAre ==
  ASSUME NEW p, NEW read \in BOOLEAN, NEW r \in RouteWide(p, read)
  PROVE  /\ r \in {"none", "saveCopy", "denied", "ownCopy", "entry", "looseFile"}
         /\ p = "save" /\ mapping => r \in {"saveCopy", "denied"}
         /\ p = "plain" => r = "none"
BY DEF RouteWide, SaveRoutes, WritableRoute, ReadRoute

\* An answer whose paths were routed one by one.
LEMMA PassedIsClosed ==
  ASSUME NEW name, NEW given \in Given(name), NEW routes,
         DOMAIN routes = DOMAIN given.args, Passed(given, routes), UNCHANGED mapping,
         \A i \in DOMAIN given.args :
           /\ routes[i] # "save"
           /\ given.args[i] = "plain" => routes[i] = "none"
           /\ mapping /\ ~Straight(given) /\ given.function # "CreateDirectory"
                => (given.args[i] = "save" => routes[i] # "none")
  PROVE  SavesFailClosed'
BY DEF Passed, Ends, SavesFailClosed, Or, Straight

LEMMA ArgsAreSequences ==
  ASSUME NEW name, NEW given \in Given(name)
  PROVE  /\ given = [function |-> name, args |-> given.args, how |-> given.how]
         /\ name = "CreateFile" \/ name = "DeleteFile" \/ name = "CreateDirectory" =>
              given.args = <<given.args[1]>> /\ DOMAIN given.args = {1}
<1>1. given.function = name /\ given.args \in Args(name)
  BY DEF Given
<1>2. given = [function |-> name, args |-> given.args, how |-> given.how]
  BY <1>1 DEF Given
<1>3. ASSUME name = "CreateFile" \/ name = "DeleteFile" \/ name = "CreateDirectory"
      PROVE given.args = <<given.args[1]>> /\ DOMAIN given.args = {1}
  <2>1. PICK p \in OpenPaths : given.args = <<p>>
    BY <1>1, <1>3 DEF Args
  <2> QED BY <2>1
<1> QED BY <1>1, <1>2, <1>3

LEMMA CreateFileHolds ==
  ASSUME Win32Inv, NEW c \in Callers,
         \/ \E given \in Given("CreateFile"), read \in BOOLEAN : BeginCreateFile(c, given, read)
         \/ EndCreateFile(c) \/ CloseHandle(c)
  PROVE  Win32Inv'
<1>1. ASSUME NEW given \in Given("CreateFile"), NEW read \in BOOLEAN,
             BeginCreateFile(c, given, read)
      PROVE  Win32Inv'
  <2>1. /\ call[c] = NoCall /\ "CreateFile" \in pathsHooked
        /\ UNCHANGED <<zipMod, mapping, hookVars, flagVars, serving, managerVars, handles>>
    BY <1>1 DEF BeginCreateFile
  <2>2. batch \notin {"zip", "zipBack"}
    BY <2>1 DEF Win32Inv, ServeInv
  <2>3. given.args = <<given.args[1]>> /\ DOMAIN given.args = {1}
    BY ArgsAreSequences
  <2>4. CASE Straight(given)
    <3>1. Ends(given, given.args, "passed") /\ UNCHANGED call
      BY <1>1, <2>4 DEF BeginCreateFile
    <3>2. (Win32Types /\ BatchInv /\ LiveInv /\ ServeInv)'
      BY <2>1, <2>2, <3>1, CallsKeepHooks DEF Win32Inv, Win32Types, ServeInv
    <3>3. RouteInv'
      BY <2>1, <3>1 DEF Win32Inv, RouteInv, Straight
    <3>4. SavesFailClosed'
      BY <2>1, <2>4, <3>1 DEF SavesFailClosed, Ends, Straight
    <3> QED BY <3>2, <3>3, <3>4 DEF Win32Inv
  <2>5. CASE ~Straight(given)
    <3>1. PICK r \in RouteWide(given.args[1], read) :
            call' = [call EXCEPT ![c] = [given |-> given, route |-> r]]
      BY <1>1, <2>5 DEF BeginCreateFile
    <3>2. outcome' = NoCall
      BY <1>1, <2>5 DEF BeginCreateFile
    <3>3. [given |-> given, route |-> r] \in OpenCalls
      BY WideRoutesAre DEF OpenCalls
    <3>4. call' \in [Callers -> OpenCalls \cup {NoCall}]
      BY <3>1, <3>3 DEF Win32Inv, Win32Types
    <3>5. (Win32Types /\ BatchInv /\ LiveInv /\ ServeInv)'
      BY <2>1, <2>2, <3>4, CallsKeepHooks DEF Win32Inv, Win32Types, ServeInv
    <3>6. RouteInv'
      <4> SUFFICES ASSUME NEW d \in Callers, call'[d] # NoCall
                   PROVE  LET p == call'[d].given.args[1] IN
                          /\ ~Straight(call'[d].given)
                          /\ p = "save" /\ mapping' => call'[d].route \in {"saveCopy", "denied"}
                          /\ p = "plain" => call'[d].route = "none"
        BY DEF RouteInv, Straight
      <4>1. CASE d = c
        <5>1. call'[d] = [given |-> given, route |-> r]
          BY <3>1, <4>1 DEF Win32Inv, Win32Types
        <5> QED BY <2>1, <2>5, <5>1, WideRoutesAre
      <4>2. CASE d # c
        <5>1. call'[d] = call[d]
          BY <3>1, <4>2 DEF Win32Inv, Win32Types
        <5> QED BY <2>1, <5>1 DEF Win32Inv, RouteInv
      <4> QED BY <4>1, <4>2
    <3>7. SavesFailClosed'
      BY <3>2 DEF SavesFailClosed
    <3> QED BY <3>5, <3>6, <3>7 DEF Win32Inv
  <2> QED BY <2>4, <2>5
<1>2. CASE EndCreateFile(c)
  <2> DEFINE given == call[c].given
             r == call[c].route
  <2>1. /\ call[c] # NoCall /\ call' = [call EXCEPT ![c] = NoCall]
        /\ UNCHANGED <<zipMod, mapping, hookVars, flagVars, serving, managerVars>>
        /\ CASE r = "denied" -> Ends(given, <<>>, "denied") /\ UNCHANGED handles
             [] r = "entry"  -> IF serving THEN /\ Ends(given, <<>>, "handle")
                                                /\ handles' = handles \cup {c}
                                ELSE Ends(given, <<>>, "aborted") /\ UNCHANGED handles
             [] OTHER        -> Ends(given, <<Or(r, given.args[1])>>, "passed") /\ UNCHANGED handles
    BY <1>2 DEF EndCreateFile
  <2>2. call[c] \in OpenCalls /\ batch \notin {"zip", "zipBack"}
    BY <2>1 DEF Win32Inv, Win32Types, ServeInv
  <2>3. given \in Given("CreateFile")
        /\ r \in {"none", "saveCopy", "denied", "ownCopy", "entry", "looseFile"}
    BY <2>2 DEF OpenCalls
  <2>4. given.args = <<given.args[1]>> /\ DOMAIN given.args = {1}
    BY <2>3, ArgsAreSequences
  <2>5. call' \in [Callers -> OpenCalls \cup {NoCall}]
    BY <2>1 DEF Win32Inv, Win32Types
  <2>6. handles' # {} => serving
    BY <2>1 DEF Win32Inv, ServeInv
  <2>7. (Win32Types /\ BatchInv /\ LiveInv /\ ServeInv)'
    BY <2>1, <2>2, <2>5, <2>6, CallsKeepHooks
  <2>8. RouteInv'
    BY <2>1 DEF Win32Inv, Win32Types, RouteInv, Straight
  <2>9. SavesFailClosed'
    <3>1. /\ given.args[1] = "save" /\ mapping => r \in {"saveCopy", "denied"}
          /\ given.args[1] = "plain" => r = "none"
      BY <2>1 DEF Win32Inv, RouteInv
    <3>2. CASE r \in {"denied", "entry"}
      BY <2>1, <3>2 DEF Ends, SavesFailClosed
    <3>3. CASE r \notin {"denied", "entry"}
      <4>1. Ends(given, <<Or(r, given.args[1])>>, "passed")
        BY <2>1, <3>3
      <4> HIDE DEF given, r
      <4> QED BY <2>1, <2>3, <2>4, <3>1, <3>3, <4>1 DEF Ends, SavesFailClosed, Or
    <3> QED BY <3>2, <3>3
  <2> QED BY <2>7, <2>8, <2>9 DEF Win32Inv
<1>3. CASE CloseHandle(c)
  <2>1. /\ handles' = handles \ {c} /\ c \in handles /\ NoneEnds
        /\ UNCHANGED <<zipMod, mapping, hookVars, flagVars, serving, managerVars>>
    BY <1>3 DEF CloseHandle
  <2>2. RouteInv' /\ SavesFailClosed' /\ (call \in [Callers -> OpenCalls \cup {NoCall}])'
    BY <2>1, ManagerRoutes DEF Win32Inv, Win32Types, ManagerTypes, FlagTypes
  <2>3. (Win32Types /\ BatchInv /\ LiveInv /\ ServeInv)'
    BY <2>1, <2>2, CallsKeepHooks DEF Win32Inv, ServeInv, NoneEnds
  <2> QED BY <2>2, <2>3 DEF Win32Inv
<1> QED BY <1>1, <1>2, <1>3

\* The functions that open nothing.
LEMMA OtherCallsHold ==
  ASSUME Win32Inv,
         \/ \E given \in Given("DeleteFile") : DeleteFile(given)
         \/ \E given \in Given("CreateDirectory") : CreateDirectory(given)
         \/ \E name \in {"CopyFile", "MoveFileEx", "ReplaceFile"} :
              \E given \in Given(name) : MoveLike(given)
         \/ Forget
  PROVE  Win32Inv'
<1>1. UNCHANGED <<zipMod, mapping, hookVars, flagVars, serving, managerVars, call, handles>>
  BY DEF DeleteFile, CreateDirectory, MoveLike, Forget
<1>2. (Win32Types /\ BatchInv /\ LiveInv /\ ServeInv)' /\ RouteInv'
  <2>1. (Win32Types /\ BatchInv /\ LiveInv /\ ServeInv)'
    BY <1>1, CallsKeepHooks DEF Win32Inv, Win32Types, ServeInv
  <2>2. RouteInv'
    BY <1>1 DEF Win32Inv, RouteInv, Straight
  <2> QED BY <2>1, <2>2
<1>3. ASSUME NEW given \in Given("DeleteFile"), DeleteFile(given) PROVE SavesFailClosed'
  <2>1. PICK s \in IF Straight(given) THEN {"none"} ELSE SaveRoutes(given.args[1]) :
         IF s = "denied" THEN Ends(given, <<>>, "denied")
         ELSE Passed(given, <<IF s # "none" \/ Straight(given) THEN s ELSE WritableRoute(given.args[1])>>)
    BY <1>3 DEF DeleteFile
  <2>2. given.args = <<given.args[1]>> /\ DOMAIN given.args = {1}
    BY ArgsAreSequences
  <2>3. CASE s = "denied"
    BY <2>1, <2>3 DEF Ends, SavesFailClosed
  <2>4. CASE s # "denied"
    <3> DEFINE routes == <<IF s # "none" \/ Straight(given) THEN s ELSE WritableRoute(given.args[1])>>
    <3>1. Passed(given, routes) /\ DOMAIN routes = {1}
      BY <2>1, <2>4
    <3>2. /\ routes[1] # "save"
          /\ given.args[1] = "plain" => routes[1] = "none"
          /\ mapping /\ ~Straight(given) /\ given.args[1] = "save" => routes[1] # "none"
      BY <2>1, <2>4, SaveRoutesAre
    <3> HIDE DEF routes
    <3> QED BY <1>1, <2>2, <3>1, <3>2, PassedIsClosed
  <2> QED BY <2>3, <2>4
<1>4. ASSUME NEW given \in Given("CreateDirectory"), CreateDirectory(given) PROVE SavesFailClosed'
  <2>1. given.args = <<given.args[1]>> /\ DOMAIN given.args = {1}
        /\ given.function = "CreateDirectory"
    BY ArgsAreSequences DEF Given
  <2> DEFINE routes == <<IF given.how = "unconverted" THEN "none" ELSE WritableRoute(given.args[1])>>
  <2>2. Passed(given, routes) /\ DOMAIN routes = {1}
    BY <1>4 DEF CreateDirectory
  <2>3. routes[1] # "save" /\ (given.args[1] = "plain" => routes[1] = "none")
    BY SaveRoutesAre
  <2> HIDE DEF routes
  <2> QED BY <1>1, <2>1, <2>2, <2>3, PassedIsClosed
<1>5. ASSUME NEW name \in {"CopyFile", "MoveFileEx", "ReplaceFile"}, NEW given \in Given(name),
             MoveLike(given)
      PROVE  SavesFailClosed'
  <2>1. PICK s \in IF Straight(given) THEN {[i \in DOMAIN given.args |-> "none"]} ELSE RouteAll(given.args) :
          IF \E i \in DOMAIN s : s[i] = "denied" THEN Ends(given, <<>>, "denied") ELSE Passed(given, s)
    BY <1>5 DEF MoveLike
  <2>2. DOMAIN s = DOMAIN given.args
    BY <2>1 DEF RouteAll
  <2>3. \A i \in DOMAIN s :
          /\ s[i] # "save"
          /\ given.args[i] = "plain" => s[i] = "none"
          /\ mapping /\ ~Straight(given) /\ given.args[i] = "save" => s[i] # "none"
    BY <2>1, <2>2, SaveRoutesAre DEF RouteAll
  <2>4. CASE \E i \in DOMAIN s : s[i] = "denied"
    BY <2>1, <2>4 DEF Ends, SavesFailClosed
  <2>5. CASE ~\E i \in DOMAIN s : s[i] = "denied"
    BY <1>1, <2>1, <2>2, <2>3, <2>5, PassedIsClosed
  <2> QED BY <2>4, <2>5
<1>6. CASE Forget
  BY <1>2, <1>6 DEF Forget, SavesFailClosed, Win32Inv
<1> QED BY <1>2, <1>3, <1>4, <1>5, <1>6 DEF Win32Inv

LEMMA Win32StepHolds ==
  ASSUME Win32Inv, [Win32Next]_win32Vars
  PROVE  Win32Inv'
<1>1. CASE ManageHooks
  BY <1>1, ZipBatchHolds, PathBatchHolds DEF ManageHooks
<1>2. CASE CallFunction
  BY <1>2, CreateFileHolds, OtherCallsHold DEF CallFunction
<1>3. CASE Forget
  BY <1>3, OtherCallsHold
<1>4. CASE UNCHANGED win32Vars
  BY <1>4 DEF win32Vars, hookVars, flagVars, managerVars, routedVars, Win32Inv, Win32Types, ManagerTypes, FlagTypes, HookTypes,
     BatchInv, LiveInv, ServeInv, RouteInv, SavesFailClosed, Straight
<1> QED
  BY <1>1, <1>2, <1>3, <1>4 DEF Win32Next

\* A handle on a ZIP entry is served as long as every I/O hook is in place, hooks left in
\* place are known for the retry, and no original save is reached while saves are mapped
\* (win32_hooks.c:22, :28, :452), in every order of installation, rollback, removal and
\* calls, for any number of I/O hooks and callers.
THEOREM FileHooksAreAlwaysSound == Win32Spec => []FileHooksAreSound
<1>1. Win32Inv => HandlesHaveTheirHooks
  BY DEF Win32Inv, ServeInv, HandlesHaveTheirHooks
<1>2. Win32Inv => HooksAreRemembered
  BY FunctionsInOrder DEF Win32Inv, LiveInv, ServeInv, HooksAreRemembered
<1>3. Win32Inv => FileHooksAreSound
  BY <1>1, <1>2 DEF Win32Inv, FileHooksAreSound
<1> QED
  BY <1>3, Win32InitHolds, Win32StepHolds, PTL DEF Win32Spec

----------------------------------------------------------------------------
(* AssetHooks: stages of hooks around FileStep, and the table that grows.   *)

Names == Opens \cup {"none"}
Entries == [target : Names, original : BOOLEAN]
Locals == [what : Names \cup {"step", "mount"}, start : 0..MaxOpens, index : 0..MaxOpens,
           entry : 0..MaxOpens, target : Names, ok : BOOLEAN]
Places == {"game", "pre disk", "pre mount", "step", "post make", "post end", "lock", "scan",
           "create", "enable", "roll back", "unlock", "mounted", "look up", "open"}

\* Who hooks the opens of devices, and who does it under the device manager's lock.
Hooking == {"lock", "scan", "create", "enable", "roll back", "unlock"}
Locked == {"scan", "create", "enable", "roll back", "unlock"}

DeviceTypes ==
  /\ enabled \subseteq Opens \cup {"disk", "mount", "make"}
  /\ mounted \subseteq Opens /\ witnessed \subseteq mounted /\ kept \subseteq {"disk", "make"}
  /\ count \in 0..MaxOpens /\ table \in [1..MaxOpens -> Entries]
ThreadTypes ==
  /\ doing \in [HookThreads -> Places] /\ local \in [HookThreads -> Locals]
SwitchTypes ==
  /\ pre \in BOOLEAN /\ post \in BOOLEAN /\ manager \in BOOLEAN
  /\ failed \in BOOLEAN /\ missed \in BOOLEAN
AssetTypes == DeviceTypes /\ ThreadTypes /\ SwitchTypes

\* What a thread works on, where it stands.
WhereAt(t) ==
  /\ doing[t] = "game" => local[t].what = "none"
  /\ doing[t] \in {"pre disk", "pre mount", "step", "post make", "post end"} => local[t].what = "step"
  /\ doing[t] \in Hooking => local[t].what \in {"step", "mount"}
  /\ doing[t] = "mounted" => local[t].what = "mount"
  /\ doing[t] \in {"look up", "open"} => local[t].what \in Opens
  /\ doing[t] \in {"create", "enable"} => local[t].entry >= 1 /\ local[t].target \in Opens

\* One thread runs FileStep, and one has the lock.
WhereInv ==
  /\ \A t \in HookThreads : WhereAt(t)
  /\ \A t \in HookThreads : doing[t] \in Locked => manager
  /\ \A t, u \in HookThreads : local[t].what = "step" /\ local[u].what = "step" => t = u
  /\ \A t, u \in HookThreads : doing[t] \in Locked /\ doing[u] \in Locked => t = u

\* How far the stages have come where a thread stands.
StageAt(t) ==
  /\ doing[t] \in {"pre disk", "pre mount"} => ~pre
  /\ doing[t] = "pre mount" => "disk" \in enabled
  /\ doing[t] \in {"post make", "post end", "look up", "open"} \cup Hooking => pre
  /\ doing[t] \in {"post make", "post end"} => ~post
  /\ doing[t] \in Hooking /\ local[t].what = "step" => ~post /\ "make" \in enabled
  /\ doing[t] = "post end" => "make" \in enabled

\* Threads between the first hook of a stage and its end.
InPre(t)  == doing[t] = "pre mount"
InPost(t) == doing[t] = "post end" \/ (doing[t] \in Hooking /\ local[t].what = "step")

\* The hooks of a stage are in when its flag says so; otherwise a thread is at the stage, or
\* they are those that could not be removed.
StageInv ==
  /\ pre => {"disk", "mount"} \subseteq enabled
  /\ ~pre => enabled \subseteq {"disk"}
  /\ ~pre /\ "disk" \in enabled => "disk" \in kept \/ \E t \in HookThreads : InPre(t)
  /\ post => "make" \in enabled
  /\ ~post /\ "make" \in enabled => "make" \in kept \/ \E t \in HookThreads : InPost(t)
  /\ \A t \in HookThreads : StageAt(t)

\* As long as nothing had to be taken back: an open finds its original, a hook is installed
\* for the entry that was added last, and the lock is left with every mount hooked.
ServedAt(t) ==
  /\ doing[t] # "roll back"
  /\ local[t].what \in {"step", "mount"} => local[t].ok
  /\ doing[t] \in {"create", "enable"} => local[t].entry = count /\ local[t].target = table[count].target
  /\ doing[t] = "enable" => table[count].original
  /\ doing[t] = "look up" => local[t].what \in enabled
  /\ doing[t] = "open" => local[t].ok
  /\ doing[t] = "unlock" => mounted \subseteq enabled

\* An enabled open has its original in the table, the table leads to enabled opens but for
\* the entry under way, and so does every mount nobody is still at.
HasOriginal(o) == \E i \in 1..count : table[i].target = o /\ table[i].original
UnderWay == \E t \in HookThreads : doing[t] \in {"create", "enable"}
MountsUnderWay == \E t \in HookThreads : doing[t] \in {"lock", "scan", "create", "enable"}
ServedInv ==
  ~failed =>
    /\ ~missed
    /\ \A t \in HookThreads : ServedAt(t)
    /\ \A i \in 1..count : table[i].target \in enabled \/ (i = count /\ UnderWay)
    /\ \A o \in Opens : o \in enabled => HasOriginal(o)
    /\ witnessed \subseteq enabled \/ MountsUnderWay

AssetInv == AssetTypes /\ WhereInv /\ StageInv /\ ServedInv

----------------------------------------------------------------------------
\* A thread goes on and the others stay where they are.
OthersStay(t) ==
  /\ ThreadTypes'
  /\ \A u \in HookThreads : u # t => doing'[u] = doing[u] /\ local'[u] = local[u]

\* It goes to p, and works on w with outcome b at entry e for o.
Goes(t, p, w, b, e, o) ==
  /\ OthersStay(t) /\ doing'[t] = p
  /\ local'[t].what = w /\ local'[t].ok = b /\ local'[t].entry = e /\ local'[t].target = o

LEMMA LocalIs ==
  ASSUME ThreadTypes, NEW t \in HookThreads
  PROVE  /\ local[t] \in Locals /\ local[t].what \in Names \cup {"step", "mount"}
         /\ local[t].start \in 0..MaxOpens /\ local[t].index \in 0..MaxOpens
         /\ local[t].entry \in 0..MaxOpens /\ local[t].target \in Names /\ local[t].ok \in BOOLEAN
BY DEF ThreadTypes, Locals

LEMMA GoesTo ==
  ASSUME ThreadTypes, NEW t \in HookThreads, NEW p \in Places, NEW l \in Locals, Turns(t, p), Sets(t, l)
  PROVE  OthersStay(t) /\ doing'[t] = p /\ local'[t] = l
BY DEF OthersStay, ThreadTypes, Turns, Sets

LEMMA GoesOn ==
  ASSUME ThreadTypes, NEW t \in HookThreads, NEW p \in Places, Turns(t, p), UNCHANGED local
  PROVE  Goes(t, p, local[t].what, local[t].ok, local[t].entry, local[t].target)
BY DEF Goes, OthersStay, ThreadTypes, Turns

LEMMA GoesIdle ==
  ASSUME ThreadTypes, NEW t \in HookThreads, Returns(t)
  PROVE  Goes(t, "game", "none", TRUE, 0, "none")
<1>1. Idle \in Locals /\ "game" \in Places
  BY MaxOpensAssumption DEF Idle, Locals, Names, Places
<1>2. OthersStay(t) /\ doing'[t] = "game" /\ local'[t] = Idle
  BY <1>1, GoesTo DEF Returns
<1> QED BY <1>2 DEF Goes, Idle

LEMMA GoesWith ==
  ASSUME ThreadTypes, NEW t \in HookThreads, NEW p \in Places, NEW w \in Names \cup {"step", "mount"},
         Turns(t, p), Sets(t, [Idle EXCEPT !.what = w])
  PROVE  Goes(t, p, w, TRUE, 0, "none")
<1>1. Idle \in Locals /\ Idle.ok = TRUE /\ Idle.entry = 0 /\ Idle.target = "none"
  BY MaxOpensAssumption DEF Locals, Names, Idle
<1>2. PICK r : r = Idle
  OBVIOUS
<1>3. PICK l : l = [r EXCEPT !.what = w]
  OBVIOUS
<1>4. l \in Locals /\ l.what = w /\ l.ok = r.ok /\ l.entry = r.entry /\ l.target = r.target
  BY <1>1, <1>2, <1>3 DEF Locals
<1>5. Sets(t, l)
  BY <1>2, <1>3
<1> QED BY <1>1, <1>2, <1>4, <1>5, GoesTo DEF Goes

LEMMA GoesCounted ==
  ASSUME ThreadTypes, NEW t \in HookThreads, NEW p \in Places, NEW n \in 0..MaxOpens, Turns(t, p),
         Sets(t, [local[t] EXCEPT !.start = n]) \/ Sets(t, [local[t] EXCEPT !.index = n])
  PROVE  Goes(t, p, local[t].what, local[t].ok, local[t].entry, local[t].target)
<1>1. local[t] \in Locals
  BY LocalIs
<1>2. ASSUME NEW l, l = [local[t] EXCEPT !.start = n] \/ l = [local[t] EXCEPT !.index = n], Sets(t, l)
      PROVE  Goes(t, p, local[t].what, local[t].ok, local[t].entry, local[t].target)
  <2>1. l \in Locals /\ l.what = local[t].what /\ l.ok = local[t].ok /\ l.entry = local[t].entry
        /\ l.target = local[t].target
    BY <1>1, <1>2 DEF Locals
  <2> QED BY <1>2, <2>1, GoesTo DEF Goes
<1> QED BY <1>2

LEMMA GoesDecided ==
  ASSUME ThreadTypes, NEW t \in HookThreads, NEW p \in Places, NEW b \in BOOLEAN, Turns(t, p),
         Sets(t, [local[t] EXCEPT !.ok = b])
  PROVE  Goes(t, p, local[t].what, b, local[t].entry, local[t].target)
<1>1. local[t] \in Locals
  BY LocalIs
<1>2. PICK l : l = [local[t] EXCEPT !.ok = b]
  OBVIOUS
<1>3. l \in Locals /\ l.what = local[t].what /\ l.ok = b /\ l.entry = local[t].entry
      /\ l.target = local[t].target
  BY <1>1, <1>2 DEF Locals
<1> QED BY <1>2, <1>3, GoesTo DEF Goes

LEMMA GoesAdding ==
  ASSUME ThreadTypes, NEW t \in HookThreads, NEW p \in Places, NEW n \in 0..MaxOpens, NEW o \in Names,
         Turns(t, p), Sets(t, [local[t] EXCEPT !.entry = n, !.target = o])
  PROVE  Goes(t, p, local[t].what, local[t].ok, n, o)
<1>1. local[t] \in Locals
  BY LocalIs
<1>2. PICK l : l = [local[t] EXCEPT !.entry = n, !.target = o]
  OBVIOUS
<1>3. l \in Locals /\ l.what = local[t].what /\ l.ok = local[t].ok /\ l.entry = n /\ l.target = o
  BY <1>1, <1>2 DEF Locals
<1> QED BY <1>2, <1>3, GoesTo DEF Goes

\* The parts of the invariant hold after a step of t, provided what they say of t does.
LEMMA WhereKept ==
  ASSUME WhereInv, NEW t \in HookThreads, OthersStay(t), WhereAt(t)',
         doing'[t] \in Locked => manager' /\ (doing[t] \in Locked \/ ~manager),
         manager' = manager \/ doing[t] \in Locked \/ ~manager,
         local'[t].what = "step" => local[t].what = "step" \/ \A u \in HookThreads : local[u].what # "step"
  PROVE  WhereInv'
<1>1. ASSUME NEW u \in HookThreads, u # t PROVE WhereAt(u)'
  BY <1>1 DEF WhereInv, WhereAt, OthersStay
<1>2. ASSUME NEW u \in HookThreads, doing'[u] \in Locked PROVE manager'
  <2>1. CASE u = t
    BY <1>2, <2>1
  <2>2. CASE u # t
    <3>1. doing[u] \in Locked /\ manager /\ doing[t] \notin Locked
      BY <1>2, <2>2 DEF WhereInv, OthersStay
    <3> QED BY <3>1
  <2> QED BY <2>1, <2>2
<1>3. ASSUME NEW v \in HookThreads, NEW u \in HookThreads, local'[v].what = "step", local'[u].what = "step"
      PROVE  v = u
  BY <1>3 DEF WhereInv, OthersStay
<1>4. ASSUME NEW v \in HookThreads, NEW u \in HookThreads, doing'[v] \in Locked, doing'[u] \in Locked
      PROVE  v = u
  BY <1>4 DEF WhereInv, OthersStay
<1> QED BY <1>1, <1>2, <1>3, <1>4 DEF WhereInv

LEMMA StageKept ==
  ASSUME StageInv, NEW t \in HookThreads, OthersStay(t), StageAt(t)',
         UNCHANGED <<pre, post>>, kept \subseteq kept',
         \A f \in {"disk", "mount", "make"} : f \in enabled' <=> f \in enabled,
         pre \/ enabled' = enabled,
         InPre(t) => "disk" \in kept' \/ "disk" \notin enabled,
         InPost(t) => InPost(t)' \/ "make" \in kept'
  PROVE  StageInv'
<1>1. ASSUME NEW u \in HookThreads, u # t
      PROVE  StageAt(u)' /\ (InPre(u) => InPre(u)') /\ (InPost(u) => InPost(u)')
  BY <1>1 DEF StageInv, StageAt, OthersStay, InPre, InPost
<1>2. /\ (pre => {"disk", "mount"} \subseteq enabled)'
      /\ (~pre => enabled \subseteq {"disk"})'
      /\ (post => "make" \in enabled)'
  BY DEF StageInv
<1>3. (~pre /\ "disk" \in enabled => "disk" \in kept \/ \E u \in HookThreads : InPre(u))'
  BY <1>1 DEF StageInv
<1>4. (~post /\ "make" \in enabled => "make" \in kept \/ \E u \in HookThreads : InPost(u))'
  BY <1>1 DEF StageInv
<1> QED BY <1>1, <1>2, <1>3, <1>4 DEF StageInv

LEMMA ServedKept ==
  ASSUME ServedInv, WhereInv, DeviceTypes, NEW t \in HookThreads, OthersStay(t),
         ~failed => ServedAt(t)',
         UNCHANGED <<table, count, failed>>, mounted' = mounted \/ ~manager,
         \A f \in Opens : f \in enabled => f \in enabled',
         ~failed => \A f \in Opens : f \in enabled' => f \in enabled \/ HasOriginal(f),
         ~failed => missed' = missed,
         ~failed /\ doing[t] \in {"create", "enable"} => table[count].target \in enabled',
         ~failed => \/ doing'[t] \in {"lock", "scan", "create", "enable"}
                    \/ witnessed' = witnessed /\ doing[t] \notin {"lock", "scan", "create", "enable"}
                    \/ witnessed' \subseteq enabled'
  PROVE  ServedInv'
<1> USE MaxOpensAssumption
<1> SUFFICES ASSUME ~failed' PROVE ServedInv'
  BY DEF ServedInv
<1>1. ~failed
  OBVIOUS
<1> USE OpensAssumption
<1>2. ASSUME NEW u \in HookThreads, u # t PROVE ServedAt(u)'
  <2>1. ServedAt(u)
    BY <1>1 DEF ServedInv
  <2>2. doing'[u] = "look up" => local'[u].what \in enabled'
    BY <1>2, <2>1 DEF ServedAt, OthersStay, WhereInv, WhereAt
  <2>3. doing'[u] = "unlock" => mounted' \subseteq enabled'
    <3> SUFFICES ASSUME doing[u] = "unlock" PROVE mounted' \subseteq enabled'
      BY <1>2 DEF OthersStay
    <3>1. manager
      BY DEF WhereInv, Locked
    <3>2. mounted \subseteq enabled
      BY <2>1 DEF ServedAt
    <3> QED BY <3>1, <3>2 DEF DeviceTypes
  <2> QED BY <1>2, <2>1, <2>2, <2>3 DEF ServedAt, OthersStay
<1>3. UnderWay => UnderWay' \/ doing[t] \in {"create", "enable"}
  BY DEF UnderWay, OthersStay
<1>4. ASSUME NEW i \in 1..count' PROVE (table[i].target)' \in enabled' \/ (i = count' /\ UnderWay')
  <2>1. i \in 1..count /\ i \in 1..MaxOpens
    BY DEF DeviceTypes
  <2>2. table[i].target \in Names
    BY <2>1 DEF DeviceTypes, Entries
  <2>3. table[i].target \in enabled => table[i].target \in enabled'
    BY <2>2 DEF DeviceTypes, Names
  <2> QED BY <1>1, <1>3, <2>1, <2>3 DEF ServedInv
<1>5. ASSUME NEW o \in Opens, o \in enabled' PROVE HasOriginal(o)'
  <2>1. HasOriginal(o)
    BY <1>1, <1>5 DEF ServedInv
  <2> QED BY <2>1 DEF HasOriginal
<1>6. (witnessed \subseteq enabled \/ MountsUnderWay)'
  <2>1. CASE doing'[t] \in {"lock", "scan", "create", "enable"}
    BY <2>1 DEF MountsUnderWay
  <2>2. CASE witnessed' = witnessed /\ doing[t] \notin {"lock", "scan", "create", "enable"}
    <3>1. MountsUnderWay => MountsUnderWay'
      BY <2>2 DEF MountsUnderWay, OthersStay
    <3> QED BY <1>1, <2>2, <3>1 DEF ServedInv, DeviceTypes
  <2> QED BY <1>1, <2>1, <2>2
<1> QED BY <1>1, <1>2, <1>4, <1>5, <1>6 DEF ServedInv


\* A step that changes nothing but where its thread stands, and is no one's turn to hook.
LEMMA QuietStep ==
  ASSUME AssetInv, NEW t \in HookThreads, OthersStay(t),
         UNCHANGED <<enabled, pre, post, table, count, mounted, manager, witnessed, missed, failed, kept>>,
         WhereAt(t)', StageAt(t)', ~failed => ServedAt(t)',
         doing[t] \notin Hooking \cup {"pre mount", "post end"}, doing'[t] \notin Hooking,
         local'[t].what = "step" => local[t].what = "step" \/ \A u \in HookThreads : local[u].what # "step"
  PROVE  AssetInv'
<1>1. DeviceTypes /\ ThreadTypes' /\ WhereInv /\ StageInv /\ ServedInv
  BY DEF AssetInv, AssetTypes, OthersStay
<1>2. AssetTypes'
  BY <1>1 DEF AssetInv, AssetTypes, DeviceTypes, SwitchTypes
<1>3. doing[t] \notin Locked /\ doing'[t] \notin Locked
  BY DEF Hooking, Locked
<1>4. WhereInv'
  BY <1>1, <1>3, WhereKept
<1>5. StageInv'
  BY <1>1, StageKept DEF InPre, InPost
<1>6. ServedInv'
  BY <1>1, ServedKept DEF Hooking
<1> QED BY <1>2, <1>4, <1>5, <1>6 DEF AssetInv

\* What the three parts of the invariant say of a thread.
LEMMA PartsOf ==
  ASSUME AssetInv, NEW t \in HookThreads
  PROVE  /\ DeviceTypes /\ ThreadTypes /\ SwitchTypes /\ WhereInv /\ StageInv /\ ServedInv
         /\ WhereAt(t) /\ StageAt(t) /\ (~failed => ServedAt(t))
BY DEF AssetInv, AssetTypes, WhereInv, StageInv, ServedInv

----------------------------------------------------------------------------
(* FileStep, and the hooks of its two stages.                             *)

LEMMA FileStepHolds ==
  ASSUME AssetInv, NEW t \in HookThreads, FileStep(t)
  PROVE  AssetInv'
<1>1. /\ doing[t] = "game" /\ \A u \in HookThreads : local[u].what # "step"
      /\ UNCHANGED <<enabled, pre, post, table, count, mounted, manager, witnessed, missed, failed, kept>>
  BY DEF FileStep, On, InFileStep, stageVars, tableVars, mountVars
<1>2. Goes(t, IF pre THEN "step" ELSE "pre disk", "step", TRUE, 0, "none")
  BY PartsOf, GoesWith DEF FileStep, Places
<1>3. WhereAt(t)'
  BY <1>1, <1>2 DEF Goes, WhereAt, Hooking
<1>4. StageAt(t)'
  BY <1>1, <1>2 DEF Goes, StageAt, Hooking
<1>5. ServedAt(t)'
  BY <1>1, <1>2 DEF Goes, ServedAt
<1> QED BY <1>1, <1>2, <1>3, <1>4, <1>5, QuietStep DEF Goes, Hooking

LEMMA InstallDiskHolds ==
  ASSUME AssetInv, NEW t \in HookThreads, InstallDisk(t)
  PROVE  AssetInv'
<1>1. /\ doing[t] = "pre disk"
      /\ UNCHANGED <<local, pre, post, table, count, mounted, manager, witnessed, missed, failed, kept>>
      /\ local[t].what = "step" /\ ~pre /\ (~failed => local[t].ok)
  BY PartsOf DEF InstallDisk, On, stageVars, tableVars, mountVars, WhereAt, StageAt, ServedAt
<1>2. CASE Turns(t, "step") /\ UNCHANGED enabled
  <2>1. Goes(t, "step", local[t].what, local[t].ok, local[t].entry, local[t].target)
    BY <1>1, <1>2, PartsOf, GoesOn DEF Places
  <2>2. WhereAt(t)' /\ StageAt(t)' /\ (~failed => ServedAt(t)')
    BY <1>1, <2>1 DEF Goes, WhereAt, StageAt, ServedAt, Hooking
  <2> QED BY <1>1, <1>2, <2>1, <2>2, QuietStep DEF Goes, Hooking
<1>3. CASE "disk" \notin enabled /\ enabled' = enabled \cup {"disk"} /\ Turns(t, "pre mount")
  <2>1. Goes(t, "pre mount", local[t].what, local[t].ok, local[t].entry, local[t].target)
    BY <1>1, <1>3, PartsOf, GoesOn DEF Places
  <2>2. AssetTypes'
    BY <1>1, <1>3, <2>1, PartsOf DEF AssetTypes, DeviceTypes, SwitchTypes, Goes, OthersStay
  <2>3. WhereAt(t)' /\ StageAt(t)' /\ (~failed => ServedAt(t)')
    BY <1>1, <1>3, <2>1 DEF Goes, WhereAt, StageAt, ServedAt, Hooking
  <2>4. WhereInv'
    BY <1>1, <2>1, <2>3, PartsOf, WhereKept DEF Goes, Locked
  <2>5. StageInv'
    <3>1. \A u \in HookThreads : u # t => StageAt(u)'
      BY <1>1, <1>3, <2>1, PartsOf DEF StageInv, StageAt, Goes, OthersStay
    <3>2. enabled = {} /\ InPre(t)'
      BY <1>1, <1>3, <2>1, PartsOf DEF StageInv, InPre, Goes
    <3> QED BY <1>1, <1>3, <2>1, <2>3, <3>1, <3>2, PartsOf DEF StageInv, Goes
  <2>6. ServedInv'
    BY <1>1, <1>3, <2>1, <2>3, PartsOf, ServedKept, OpensAssumption DEF Goes
  <2> QED BY <2>2, <2>4, <2>5, <2>6 DEF AssetInv
<1> QED BY <1>2, <1>3 DEF InstallDisk

LEMMA InstallMountHolds ==
  ASSUME AssetInv, NEW t \in HookThreads, InstallMount(t)
  PROVE  AssetInv'
<1>1. /\ doing[t] = "pre mount"
      /\ UNCHANGED <<local, post, table, count, mounted, manager, witnessed, missed, failed>>
      /\ local[t].what = "step" /\ ~pre /\ enabled = {"disk"} /\ (~failed => local[t].ok)
  BY PartsOf DEF InstallMount, On, stageVars, tableVars, mountVars, WhereAt, StageAt, ServedAt, StageInv
<1>2. \/ enabled' = {"disk", "mount"} /\ pre' = TRUE /\ UNCHANGED kept
      \/ enabled' = {} /\ UNCHANGED <<pre, kept>>
      \/ enabled' = enabled /\ kept' = kept \cup {"disk"} /\ UNCHANGED pre
  BY <1>1 DEF InstallMount, Remove
<1>3. Goes(t, "step", local[t].what, local[t].ok, local[t].entry, local[t].target)
  BY <1>1, PartsOf, GoesOn DEF InstallMount, Places
<1>4. AssetTypes'
  BY <1>1, <1>2, <1>3, PartsOf DEF AssetTypes, DeviceTypes, SwitchTypes, Goes, OthersStay
<1>5. WhereAt(t)' /\ StageAt(t)' /\ (~failed => ServedAt(t)')
  BY <1>1, <1>3 DEF Goes, WhereAt, StageAt, ServedAt, Hooking
<1>6. WhereInv'
  BY <1>1, <1>3, <1>5, PartsOf, WhereKept DEF Goes, Locked
<1>7. StageInv'
  <2>1. \A u \in HookThreads : u # t => local[u].what # "step"
    BY <1>1, PartsOf DEF WhereInv
  <2>2. \A u \in HookThreads : u # t => StageAt(u)'
    BY <1>1, <1>2, <1>3, <2>1, PartsOf DEF StageInv, StageAt, WhereInv, WhereAt, Goes, OthersStay
  <2>3. ~post
    BY <1>1, PartsOf DEF StageInv
  <2>4. /\ pre' => enabled' = {"disk", "mount"}
        /\ ~pre' => enabled' \subseteq {"disk"} /\ ("disk" \in enabled' => "disk" \in kept')
    <3>1. CASE enabled' = {"disk", "mount"} /\ pre' = TRUE
      BY <3>1
    <3>2. CASE enabled' = {} /\ UNCHANGED pre
      BY <1>1, <3>2
    <3>3. CASE enabled' = enabled /\ kept' = kept \cup {"disk"} /\ UNCHANGED pre
      BY <1>1, <3>3
    <3> QED BY <1>2, <3>1, <3>2, <3>3
  <2>5. ~post' /\ "make" \notin enabled'
    BY <1>1, <1>2, <2>3
  <2> QED BY <1>5, <2>2, <2>4, <2>5 DEF StageInv
<1>8. ServedInv'
  BY <1>1, <1>2, <1>3, <1>5, PartsOf, ServedKept, OpensAssumption DEF Goes
<1> QED BY <1>4, <1>6, <1>7, <1>8 DEF AssetInv

LEMMA OriginalStepHolds ==
  ASSUME AssetInv, NEW t \in HookThreads, OriginalStep(t)
  PROVE  AssetInv'
<1>1. /\ doing[t] = "step" /\ local[t].what = "step" /\ (~failed => local[t].ok)
      /\ UNCHANGED <<enabled, pre, post, table, count, mounted, manager, witnessed, missed, failed, kept>>
  BY PartsOf DEF OriginalStep, On, stageVars, tableVars, mountVars, WhereAt, ServedAt
<1>2. CASE ~pre \/ post
  <2>1. Goes(t, "game", "none", TRUE, 0, "none")
    BY <1>2, PartsOf, GoesIdle DEF OriginalStep
  <2>2. WhereAt(t)' /\ StageAt(t)' /\ (~failed => ServedAt(t)')
    BY <1>1, <2>1 DEF Goes, WhereAt, StageAt, ServedAt, Hooking
  <2> QED BY <1>1, <2>1, <2>2, QuietStep DEF Goes, Hooking
<1>3. CASE pre /\ ~post
  <2>1. Goes(t, "post make", local[t].what, local[t].ok, local[t].entry, local[t].target)
    BY <1>3, PartsOf, GoesOn DEF OriginalStep, Places
  <2>2. WhereAt(t)' /\ StageAt(t)' /\ (~failed => ServedAt(t)')
    BY <1>1, <1>3, <2>1 DEF Goes, WhereAt, StageAt, ServedAt, Hooking
  <2> QED BY <1>1, <2>1, <2>2, QuietStep DEF Goes, Hooking
<1> QED BY <1>2, <1>3, PartsOf DEF SwitchTypes

LEMMA MountedHolds ==
  ASSUME AssetInv, NEW t \in HookThreads, Mounted(t)
  PROVE  AssetInv'
<1>1. /\ doing[t] = "mounted"
      /\ UNCHANGED <<enabled, pre, post, table, count, mounted, manager, witnessed, missed, failed, kept>>
  BY DEF Mounted, On, stageVars, tableVars, mountVars
<1>2. Goes(t, "game", "none", TRUE, 0, "none")
  BY PartsOf, GoesIdle DEF Mounted
<1>3. WhereAt(t)' /\ StageAt(t)' /\ (~failed => ServedAt(t)')
  BY <1>1, <1>2 DEF Goes, WhereAt, StageAt, ServedAt, Hooking
<1> QED BY <1>1, <1>2, <1>3, QuietStep DEF Goes, Hooking

LEMMA InstallMakeHolds ==
  ASSUME AssetInv, NEW t \in HookThreads, InstallMake(t)
  PROVE  AssetInv'
<1>1. /\ doing[t] = "post make" /\ local[t].what = "step" /\ pre /\ ~post /\ (~failed => local[t].ok)
      /\ UNCHANGED <<pre, post, table, count, mounted, manager, witnessed, missed, failed, kept>>
  BY PartsOf DEF InstallMake, On, stageVars, tableVars, mountVars, WhereAt, StageAt, ServedAt
<1>2. CASE Returns(t) /\ UNCHANGED enabled
  <2>1. Goes(t, "game", "none", TRUE, 0, "none")
    BY <1>2, PartsOf, GoesIdle
  <2>2. WhereAt(t)' /\ StageAt(t)' /\ (~failed => ServedAt(t)')
    BY <1>1, <2>1 DEF Goes, WhereAt, StageAt, ServedAt, Hooking
  <2> QED BY <1>1, <1>2, <2>1, <2>2, QuietStep DEF Goes, Hooking
<1>3. CASE /\ "make" \notin enabled /\ enabled' = enabled \cup {"make"}
           /\ Turns(t, "lock") /\ Sets(t, [local[t] EXCEPT !.start = count])
  <2>1. Goes(t, "lock", local[t].what, local[t].ok, local[t].entry, local[t].target)
    BY <1>3, PartsOf, GoesCounted DEF Places, DeviceTypes
  <2>2. AssetTypes'
    BY <1>1, <1>3, <2>1, PartsOf DEF AssetTypes, DeviceTypes, SwitchTypes, Goes, OthersStay
  <2>3. WhereAt(t)' /\ StageAt(t)' /\ (~failed => ServedAt(t)')
    BY <1>1, <1>3, <2>1 DEF Goes, WhereAt, StageAt, ServedAt, Hooking
  <2>4. WhereInv'
    BY <1>1, <2>1, <2>3, PartsOf, WhereKept DEF Goes, Locked
  <2>5. StageInv'
    <3>1. \A u \in HookThreads : u # t => StageAt(u)'
      BY <1>1, <1>3, <2>1, PartsOf DEF StageInv, StageAt, Goes, OthersStay
    <3>2. InPost(t)'
      BY <1>1, <2>1 DEF InPost, Goes, Hooking
    <3>3. {"disk", "mount"} \subseteq enabled'
      BY <1>1, <1>3, PartsOf DEF StageInv
    <3> QED BY <1>1, <1>3, <2>3, <3>1, <3>2, <3>3 DEF StageInv
  <2>6. ServedInv'
    BY <1>1, <1>3, <2>1, <2>3, PartsOf, ServedKept, OpensAssumption DEF Goes
  <2> QED BY <2>2, <2>4, <2>5, <2>6 DEF AssetInv
<1> QED BY <1>2, <1>3 DEF InstallMake

\* An entry that is dropped is no hook of a stage.
LEMMA DroppedStages ==
  ASSUME AssetInv, DropLast, count >= 1, UNCHANGED <<mounted, witnessed>>
  PROVE  /\ \A f \in {"disk", "mount", "make"} : f \in enabled' <=> f \in enabled
         /\ kept' = kept /\ enabled' \subseteq enabled /\ DeviceTypes'
<1>1. DeviceTypes
  BY DEF AssetInv, AssetTypes
<1>2. count \in 1..MaxOpens
  BY <1>1 DEF DeviceTypes
<1>3. table[count].target \in Names
  BY <1>1, <1>2 DEF DeviceTypes, Entries
<1>4. table[count].target \notin {"disk", "mount", "make"}
  BY <1>3, OpensAssumption DEF Names
<1>5. kept' = kept /\ enabled' \in {enabled, enabled \ {table[count].target}}
  BY <1>4 DEF DropLast, Remove
<1>6. count' \in 0..MaxOpens
  BY <1>2, MaxOpensAssumption DEF DropLast
<1>7. Free \in Entries
  BY DEF Free, Entries, Names
<1>8. table' \in [1..MaxOpens -> Entries]
  BY <1>1, <1>2, <1>7 DEF DropLast, DeviceTypes
<1>9. enabled' \subseteq enabled
  BY <1>5
<1>10. DeviceTypes'
  BY <1>1, <1>5, <1>6, <1>8, <1>9 DEF DeviceTypes
<1> QED BY <1>4, <1>5, <1>9, <1>10

LEMMA EndPostHolds ==
  ASSUME AssetInv, NEW t \in HookThreads, EndPost(t)
  PROVE  AssetInv'
<1>1. /\ doing[t] = "post end" /\ local[t].what = "step" /\ pre /\ ~post /\ "make" \in enabled
      /\ (~failed => local[t].ok)
      /\ UNCHANGED <<pre, mounted, manager, witnessed, missed, failed>>
  BY PartsOf DEF EndPost, On, mountVars, WhereAt, StageAt, ServedAt
<1>2. ASSUME NEW u \in HookThreads, u # t
      PROVE  /\ local[u].what # "step" /\ doing[u] \notin {"post make", "post end", "pre disk", "pre mount"}
             /\ ~InPost(u) /\ StageAt(u)
  BY <1>1, <1>2, PartsOf DEF WhereInv, WhereAt, InPost, StageInv
<1>3. CASE local[t].ok
  <2>1. post' = TRUE /\ UNCHANGED <<enabled, table, count, kept>>
    BY <1>3 DEF EndPost, tableVars
  <2>2. Goes(t, "game", "none", TRUE, 0, "none")
    BY <1>3, PartsOf, GoesIdle DEF EndPost
  <2>3. AssetTypes'
    BY <1>1, <2>1, <2>2, PartsOf DEF AssetTypes, DeviceTypes, SwitchTypes, Goes, OthersStay
  <2>4. WhereAt(t)' /\ StageAt(t)' /\ (~failed => ServedAt(t)')
    BY <2>1, <2>2 DEF Goes, WhereAt, StageAt, ServedAt, Hooking
  <2>5. WhereInv'
    BY <1>1, <2>2, <2>4, PartsOf, WhereKept DEF Goes, Locked
  <2>6. StageInv'
    <3>1. \A u \in HookThreads : u # t => StageAt(u)'
      BY <1>1, <1>2, <2>1, <2>2 DEF StageAt, Goes, OthersStay
    <3> QED BY <1>1, <2>1, <2>4, <3>1, PartsOf DEF StageInv
  <2>7. ServedInv'
    BY <1>1, <2>1, <2>2, <2>4, PartsOf, ServedKept DEF Goes
  <2> QED BY <2>3, <2>5, <2>6, <2>7 DEF AssetInv
<1>4. CASE ~local[t].ok /\ count > local[t].start
  <2>1. DropLast /\ UNCHANGED <<doing, local, post>> /\ failed
    BY <1>1, <1>4 DEF EndPost
  <2>2. count >= 1
    BY <1>4, PartsOf, LocalIs DEF DeviceTypes
  <2>3. AssetTypes'
    BY <1>1, <2>1, <2>2, PartsOf, DroppedStages DEF AssetTypes, ThreadTypes, SwitchTypes
  <2>4. WhereInv'
    BY <1>1, <2>1, PartsOf DEF WhereInv, WhereAt
  <2>5. StageInv'
    BY <1>1, <2>1, <2>2, PartsOf, DroppedStages DEF StageInv, StageAt, InPre, InPost
  <2>6. ServedInv'
    BY <1>1, <2>1 DEF ServedInv
  <2> QED BY <2>3, <2>4, <2>5, <2>6 DEF AssetInv
<1>5. CASE ~local[t].ok /\ ~(count > local[t].start)
  <2>1. /\ \/ enabled' = enabled \ {"make"} /\ UNCHANGED kept
           \/ enabled' = enabled /\ kept' = kept \cup {"make"}
        /\ UNCHANGED <<post, table, count>> /\ failed
    BY <1>1, <1>5 DEF EndPost, Remove, tableVars
  <2>2. Goes(t, "game", "none", TRUE, 0, "none")
    BY <1>5, PartsOf, GoesIdle DEF EndPost
  <2>3. AssetTypes'
    BY <1>1, <2>1, <2>2, PartsOf DEF AssetTypes, DeviceTypes, SwitchTypes, Goes, OthersStay
  <2>4. WhereAt(t)' /\ StageAt(t)'
    BY <2>2 DEF Goes, WhereAt, StageAt, Hooking
  <2>5. WhereInv'
    BY <1>1, <2>2, <2>4, PartsOf, WhereKept DEF Goes, Locked
  <2>6. StageInv'
    <3>1. \A u \in HookThreads : u # t => StageAt(u)'
      BY <1>1, <1>2, <2>1, <2>2 DEF StageAt, Goes, OthersStay
    <3>2. /\ {"disk", "mount"} \subseteq enabled' /\ pre' /\ ~post'
          /\ "make" \in enabled' => "make" \in kept'
      BY <1>1, <2>1, PartsOf DEF StageInv
    <3> QED BY <2>4, <3>1, <3>2 DEF StageInv
  <2>7. ServedInv'
    BY <1>1, <2>1 DEF ServedInv
  <2> QED BY <2>3, <2>5, <2>6, <2>7 DEF AssetInv
<1> QED BY <1>3, <1>4, <1>5

LEMMA RollBackHolds ==
  ASSUME AssetInv, NEW t \in HookThreads, RollBack(t)
  PROVE  AssetInv'
<1>1. /\ doing[t] = "roll back" /\ failed
      /\ UNCHANGED <<local, pre, post, mounted, manager, witnessed, missed, failed>>
  BY PartsOf DEF RollBack, On, stageVars, mountVars, ServedAt
<1>2. CASE count > local[t].index
  <2>1. DropLast /\ UNCHANGED doing
    BY <1>2 DEF RollBack
  <2>2. count >= 1
    BY <1>2, PartsOf, LocalIs DEF DeviceTypes
  <2>3. AssetTypes'
    BY <1>1, <2>1, <2>2, PartsOf, DroppedStages DEF AssetTypes, ThreadTypes, SwitchTypes
  <2>4. WhereInv'
    BY <1>1, <2>1, PartsOf DEF WhereInv, WhereAt
  <2>5. StageInv'
    BY <1>1, <2>1, <2>2, PartsOf, DroppedStages DEF StageInv, StageAt, InPre, InPost
  <2>6. ServedInv'
    BY <1>1, <2>1 DEF ServedInv
  <2> QED BY <2>3, <2>4, <2>5, <2>6 DEF AssetInv
<1>3. CASE ~(count > local[t].index)
  <2>1. UNCHANGED <<enabled, table, count, kept>>
    BY <1>3 DEF RollBack, tableVars
  <2>2. Goes(t, "unlock", local[t].what, local[t].ok, local[t].entry, local[t].target)
    BY <1>1, <1>3, PartsOf, GoesOn DEF RollBack, Places
  <2>3. AssetTypes'
    BY <1>1, <2>1, <2>2, PartsOf DEF AssetTypes, DeviceTypes, SwitchTypes, Goes, OthersStay
  <2>4. WhereAt(t)' /\ StageAt(t)'
    BY <1>1, <2>1, <2>2, PartsOf DEF Goes, WhereAt, StageAt, Hooking
  <2>5. WhereInv'
    BY <1>1, <2>2, <2>4, PartsOf, WhereKept DEF Goes, Locked, WhereInv
  <2>6. StageInv'
    BY <1>1, <2>1, <2>2, <2>4, PartsOf, StageKept DEF Goes, InPre, InPost, Hooking
  <2>7. ServedInv'
    BY <1>1 DEF ServedInv
  <2> QED BY <2>3, <2>5, <2>6, <2>7 DEF AssetInv
<1> QED BY <1>2, <1>3

LEMMA UnlockHolds ==
  ASSUME AssetInv, NEW t \in HookThreads, Unlock(t)
  PROVE  AssetInv'
<1>1. /\ doing[t] = "unlock" /\ manager' = FALSE
      /\ UNCHANGED <<local, enabled, pre, post, table, count, mounted, witnessed, missed, failed, kept>>
  BY DEF Unlock, On, stageVars, tableVars
<1>2. Goes(t, IF local[t].what = "step" THEN "post end" ELSE "mounted",
           local[t].what, local[t].ok, local[t].entry, local[t].target)
  BY <1>1, PartsOf, GoesOn DEF Unlock, Places
<1>3. AssetTypes'
  BY <1>1, <1>2, PartsOf DEF AssetTypes, DeviceTypes, SwitchTypes, Goes, OthersStay
<1>4. WhereAt(t)' /\ StageAt(t)' /\ (~failed => ServedAt(t)')
  BY <1>1, <1>2, PartsOf DEF Goes, WhereAt, StageAt, ServedAt, Hooking
<1>5. WhereInv'
  BY <1>1, <1>2, <1>4, PartsOf, WhereKept DEF Goes, Locked
<1>6. StageInv'
  BY <1>1, <1>2, <1>4, PartsOf, StageKept DEF Goes, InPre, InPost, Hooking
<1>7. ServedInv'
  BY <1>1, <1>2, <1>4, PartsOf, ServedKept DEF Goes
<1> QED BY <1>3, <1>5, <1>6, <1>7 DEF AssetInv

----------------------------------------------------------------------------
(* The mounts of the device manager, under its lock.                      *)

LEMMA LockManagerHolds ==
  ASSUME AssetInv, NEW t \in HookThreads, LockManager(t)
  PROVE  AssetInv'
<1>1. /\ doing[t] = "lock" /\ local[t].what \in {"step", "mount"} /\ (~failed => local[t].ok)
      /\ UNCHANGED <<enabled, pre, post, table, count, mounted, missed, kept>>
  BY PartsOf DEF LockManager, On, stageVars, tableVars, WhereAt, ServedAt, Hooking
<1>2. CASE /\ ~manager /\ manager' = TRUE /\ Turns(t, "scan")
           /\ Sets(t, [local[t] EXCEPT !.index = count]) /\ UNCHANGED failed
           /\ witnessed' = IF local[t].what = "step" THEN witnessed \cup mounted ELSE witnessed
  <2>1. Goes(t, "scan", local[t].what, local[t].ok, local[t].entry, local[t].target)
    BY <1>2, PartsOf, GoesCounted DEF Places, DeviceTypes
  <2>2. DeviceTypes'
    BY <1>1, <1>2, PartsOf DEF DeviceTypes
  <2>3. AssetTypes'
    BY <1>1, <1>2, <2>1, <2>2, PartsOf DEF AssetTypes, SwitchTypes, Goes, OthersStay
  <2>4. WhereAt(t)' /\ StageAt(t)' /\ (~failed => ServedAt(t)')
    BY <1>1, <2>1, PartsOf DEF Goes, WhereAt, StageAt, ServedAt, Hooking
  <2>5. WhereInv'
    BY <1>1, <1>2, <2>1, <2>4, PartsOf, WhereKept DEF Goes, Locked
  <2>6. StageInv'
    BY <1>1, <2>1, <2>4, PartsOf, StageKept DEF Goes, InPre, InPost, Hooking
  <2>7. ServedInv'
    BY <1>1, <1>2, <2>1, <2>4, PartsOf, ServedKept DEF Goes
  <2> QED BY <2>3, <2>5, <2>6, <2>7 DEF AssetInv
<1>3. CASE /\ UNCHANGED <<manager, witnessed>> /\ failed' = TRUE
           /\ Turns(t, IF local[t].what = "step" THEN "post end" ELSE "mounted")
           /\ Sets(t, [local[t] EXCEPT !.ok = FALSE])
  <2>1. Goes(t, IF local[t].what = "step" THEN "post end" ELSE "mounted",
             local[t].what, FALSE, local[t].entry, local[t].target)
    BY <1>3, PartsOf, GoesDecided DEF Places
  <2>2. AssetTypes'
    BY <1>1, <1>3, <2>1, PartsOf DEF AssetTypes, DeviceTypes, SwitchTypes, Goes, OthersStay
  <2>3. WhereAt(t)' /\ StageAt(t)'
    BY <1>1, <2>1, PartsOf DEF Goes, WhereAt, StageAt, Hooking
  <2>4. WhereInv'
    BY <1>1, <1>3, <2>1, <2>3, PartsOf, WhereKept DEF Goes, Locked
  <2>5. StageInv'
    BY <1>1, <2>1, <2>3, PartsOf, StageKept DEF Goes, InPre, InPost, Hooking
  <2>6. ServedInv'
    BY <1>3 DEF ServedInv
  <2> QED BY <2>2, <2>4, <2>5, <2>6 DEF AssetInv
<1> QED BY <1>2, <1>3 DEF LockManager

\* Nobody else adds an entry while a thread has the lock.
LEMMA LockedAlone ==
  ASSUME WhereInv, NEW t \in HookThreads, doing[t] \in Locked, NEW u \in HookThreads, u # t
  PROVE  doing[u] \notin Locked
BY DEF WhereInv

\* When every mounted open has an entry, it has an enabled hook.
LEMMA EveryMountHooked ==
  ASSUME AssetInv, NEW t \in HookThreads, doing[t] = "scan", Unhooked = {}, ~failed
  PROVE  mounted \subseteq enabled
<1>1. ~UnderWay
  BY PartsOf, LockedAlone DEF UnderWay, Locked
<1>2. ASSUME NEW o \in mounted PROVE o \in enabled
  <2>1. PICK i \in 1..count : table[i].target = o
    BY DEF Unhooked
  <2> QED BY <1>1, <2>1, PartsOf DEF ServedInv
<1> QED BY <1>2

LEMMA PublishHolds ==
  ASSUME AssetInv, NEW t \in HookThreads, Publish(t)
  PROVE  AssetInv'
<1>1. /\ doing[t] = "scan" /\ local[t].what \in {"step", "mount"} /\ (~failed => local[t].ok)
      /\ UNCHANGED <<enabled, pre, post, mounted, manager, witnessed, missed, kept>>
  BY PartsOf DEF Publish, On, stageVars, mountVars, WhereAt, ServedAt, Hooking
<1>2. CASE Unhooked = {}
  <2>1. Turns(t, "unlock") /\ UNCHANGED <<local, table, count, failed>>
    BY <1>2 DEF Publish, tableVars
  <2>2. Goes(t, "unlock", local[t].what, local[t].ok, local[t].entry, local[t].target)
    BY <2>1, PartsOf, GoesOn DEF Places
  <2>3. ~failed => mounted \subseteq enabled /\ witnessed \subseteq enabled
    BY <1>1, <1>2, EveryMountHooked, PartsOf DEF DeviceTypes
  <2>4. AssetTypes'
    BY <1>1, <2>1, <2>2, PartsOf DEF AssetTypes, DeviceTypes, SwitchTypes, Goes, OthersStay
  <2>5. WhereAt(t)' /\ StageAt(t)' /\ (~failed => ServedAt(t)')
    BY <1>1, <2>2, <2>3, PartsOf DEF Goes, WhereAt, StageAt, ServedAt, Hooking
  <2>6. WhereInv'
    BY <1>1, <2>2, <2>5, PartsOf, WhereKept DEF Goes, Locked, WhereInv
  <2>7. StageInv'
    BY <1>1, <2>2, <2>5, PartsOf, StageKept DEF Goes, InPre, InPost, Hooking
  <2>8. ServedInv'
    BY <1>1, <2>1, <2>2, <2>3, <2>5, PartsOf, ServedKept DEF Goes
  <2> QED BY <2>4, <2>6, <2>7, <2>8 DEF AssetInv
<1>3. CASE Unhooked # {} /\ count = MaxOpens
  <2>1. /\ Turns(t, "roll back") /\ Sets(t, [local[t] EXCEPT !.ok = FALSE])
        /\ failed' = TRUE /\ UNCHANGED <<table, count>>
    BY <1>3 DEF Publish, tableVars
  <2>2. Goes(t, "roll back", local[t].what, FALSE, local[t].entry, local[t].target)
    BY <2>1, PartsOf, GoesDecided DEF Places
  <2>3. AssetTypes'
    BY <1>1, <2>1, <2>2, PartsOf DEF AssetTypes, DeviceTypes, SwitchTypes, Goes, OthersStay
  <2>4. WhereAt(t)' /\ StageAt(t)'
    BY <1>1, <2>2, PartsOf DEF Goes, WhereAt, StageAt, Hooking
  <2>5. WhereInv'
    BY <1>1, <2>2, <2>4, PartsOf, WhereKept DEF Goes, Locked, WhereInv
  <2>6. StageInv'
    BY <1>1, <2>2, <2>4, PartsOf, StageKept DEF Goes, InPre, InPost, Hooking
  <2>7. ServedInv'
    BY <2>1 DEF ServedInv
  <2> QED BY <2>3, <2>5, <2>6, <2>7 DEF AssetInv
<1>4. CASE Unhooked # {} /\ count # MaxOpens
  <2>1. PICK o \in Unhooked :
             /\ table' = [table EXCEPT ![count + 1] = [Free EXCEPT !.target = o]]
             /\ Sets(t, [local[t] EXCEPT !.entry = count + 1, !.target = o])
    BY <1>4 DEF Publish
  <2>2. count' = count + 1 /\ Turns(t, "create") /\ UNCHANGED failed
    BY <1>4 DEF Publish
  <2>3. o \in Opens /\ count + 1 \in 1..MaxOpens /\ count \in Nat
    BY <1>4, PartsOf, MaxOpensAssumption DEF Unhooked, DeviceTypes
  <2>4. Goes(t, "create", local[t].what, local[t].ok, count + 1, o)
    <3>1. "create" \in Places /\ o \in Names /\ count + 1 \in 0..MaxOpens
      BY <2>3, MaxOpensAssumption DEF Places, Names
    <3> QED BY <2>1, <2>2, <3>1, PartsOf, GoesAdding
  <2>5. /\ table' \in [1..MaxOpens -> Entries] /\ table'[count + 1].target = o
        /\ \A i \in 1..count : table'[i] = table[i]
    <3>1. PICK m : m = [Free EXCEPT !.target = o]
      OBVIOUS
    <3>2. m \in Entries /\ m.target = o
      BY <2>3, <3>1 DEF Free, Entries, Names
    <3>3. table' = [table EXCEPT ![count + 1] = m] /\ table \in [1..MaxOpens -> Entries]
      BY <2>1, <3>1, PartsOf DEF DeviceTypes
    <3>4. \A i \in 1..count : i \in 1..MaxOpens /\ i # count + 1
      BY <2>3, MaxOpensAssumption
    <3>5. table' \in [1..MaxOpens -> Entries]
      BY <3>2, <3>3
    <3>6. table'[count + 1] = m
      BY <2>3, <3>3
    <3>7. \A i \in 1..count : table'[i] = table[i]
      BY <3>3, <3>4
    <3> QED BY <3>2, <3>5, <3>6, <3>7
  <2>6. DeviceTypes'
    BY <1>1, <2>2, <2>3, <2>5, PartsOf DEF DeviceTypes
  <2>7. AssetTypes'
    BY <1>1, <2>2, <2>4, <2>6, PartsOf DEF AssetTypes, SwitchTypes, Goes, OthersStay
  <2>8. WhereAt(t)' /\ StageAt(t)' /\ (~failed => ServedAt(t)')
    <3>1. WhereAt(t)'
      BY <1>1, <2>3, <2>4 DEF Goes, WhereAt, Hooking
    <3>2. StageAt(t)'
      BY <1>1, <2>4, PartsOf DEF Goes, StageAt, Hooking
    <3>3. ~failed => ServedAt(t)'
      BY <1>1, <2>2, <2>4, <2>5 DEF Goes, ServedAt
    <3> QED BY <3>1, <3>2, <3>3
  <2>9. WhereInv'
    BY <1>1, <2>4, <2>8, PartsOf, WhereKept DEF Goes, Locked, WhereInv
  <2>10. StageInv'
    BY <1>1, <2>4, <2>8, PartsOf, StageKept DEF Goes, InPre, InPost, Hooking
  <2>11. ServedInv'
    <3> SUFFICES ASSUME ~failed' PROVE ServedInv'
      BY DEF ServedInv
    <3>1. ~failed /\ ServedInv /\ WhereInv
      BY <2>2, PartsOf
    <3>2. UnderWay' /\ MountsUnderWay'
      BY <2>4 DEF UnderWay, MountsUnderWay, Goes
    <3>3. ASSUME NEW u \in HookThreads, u # t PROVE ServedAt(u)' /\ doing[u] \notin {"create", "enable"}
      BY <1>1, <2>4, <3>1, <3>3, LockedAlone DEF ServedInv, ServedAt, Goes, OthersStay, Locked
    <3>4. ASSUME NEW i \in 1..count' PROVE (table[i].target)' \in enabled' \/ i = count'
      <4>1. CASE i \in 1..count
        BY <1>1, <2>5, <3>1, <3>3, <4>1 DEF ServedInv, UnderWay
      <4> QED BY <2>2, <2>3, <4>1
    <3>5. ASSUME NEW f \in Opens, f \in enabled' PROVE HasOriginal(f)'
      BY <1>1, <2>2, <2>3, <2>5, <3>1, <3>5 DEF ServedInv, HasOriginal
    <3> QED BY <1>1, <2>8, <3>1, <3>2, <3>3, <3>4, <3>5 DEF ServedInv
  <2> QED BY <2>7, <2>9, <2>10, <2>11 DEF AssetInv
<1> QED BY <1>2, <1>3, <1>4

\* The entry a thread completes, which is the last one as long as nothing failed.
LEMMA AddingIs ==
  ASSUME AssetInv, NEW t \in HookThreads, doing[t] \in {"create", "enable"}
  PROVE  /\ local[t].what \in {"step", "mount"} /\ local[t].target \in Opens
         /\ local[t].entry \in 1..MaxOpens /\ local[t].entry - 1 \in 0..MaxOpens
         /\ ~failed => local[t].ok /\ local[t].entry = count /\ local[t].target = table[count].target
<1>1. local[t].what \in {"step", "mount"} /\ local[t].target \in Opens /\ local[t].entry >= 1
  BY PartsOf DEF WhereAt, Hooking
<1>2. local[t].entry \in 0..MaxOpens
  BY PartsOf, LocalIs
<1>3. local[t].entry \in 1..MaxOpens /\ local[t].entry - 1 \in 0..MaxOpens
  BY <1>1, <1>2, MaxOpensAssumption
<1>4. ASSUME ~failed PROVE local[t].ok /\ local[t].entry = count /\ local[t].target = table[count].target
  <2>1. ServedAt(t)
    BY <1>4, PartsOf
  <2>2. local[t].ok
    BY <1>1, <2>1 DEF ServedAt
  <2>3. local[t].entry = count /\ local[t].target = table[count].target
    BY <2>1 DEF ServedAt
  <2> QED BY <2>2, <2>3
<1> QED BY <1>1, <1>3, <1>4

LEMMA TakeBackHolds ==
  ASSUME AssetInv, NEW t \in HookThreads, TakeBack(t), doing[t] \in {"create", "enable"},
         UNCHANGED <<enabled, pre, post, mounted, manager, witnessed, missed, kept>>
  PROVE  AssetInv'
<1>1. local[t].what \in {"step", "mount"} /\ local[t].entry \in 1..MaxOpens
  BY AddingIs
<1>2. failed' = TRUE /\ count' \in 0..MaxOpens
  BY AddingIs DEF TakeBack
<1>3. Goes(t, "roll back", local[t].what, FALSE, local[t].entry, local[t].target)
  BY PartsOf, GoesDecided DEF TakeBack, Places
<1>4. table' \in [1..MaxOpens -> Entries]
  <2>1. Free \in Entries
    BY DEF Free, Entries, Names
  <2> QED BY <1>1, <2>1, PartsOf DEF TakeBack, DeviceTypes
<1>5. DeviceTypes'
  BY <1>2, <1>4, PartsOf DEF DeviceTypes
<1>6. AssetTypes'
  BY <1>2, <1>3, <1>5, PartsOf DEF AssetTypes, SwitchTypes, Goes, OthersStay
<1>7. WhereAt(t)' /\ StageAt(t)'
  BY <1>1, <1>3, PartsOf DEF Goes, WhereAt, StageAt, Hooking
<1>8. WhereInv'
  BY <1>3, <1>7, PartsOf, WhereKept DEF Goes, Locked, WhereInv
<1>9. StageInv'
  BY <1>3, <1>7, PartsOf, StageKept DEF Goes, InPre, InPost, Hooking
<1>10. ServedInv'
  BY <1>2 DEF ServedInv
<1> QED BY <1>6, <1>8, <1>9, <1>10 DEF AssetInv

LEMMA CreateHolds ==
  ASSUME AssetInv, NEW t \in HookThreads, Create(t)
  PROVE  AssetInv'
<1>1. /\ doing[t] = "create" /\ local[t].what \in {"step", "mount"}
      /\ local[t].entry \in 1..MaxOpens /\ local[t].target \in Opens
      /\ ~failed => local[t].ok /\ local[t].entry = count /\ local[t].target = table[count].target
      /\ UNCHANGED <<enabled, pre, post, mounted, manager, witnessed, missed, kept>>
  BY AddingIs DEF Create, On, stageVars, mountVars
<1>2. CASE TakeBack(t)
  BY <1>1, <1>2, TakeBackHolds
<1>3. CASE /\ table' = [table EXCEPT ![local[t].entry].original = TRUE]
           /\ Turns(t, "enable") /\ UNCHANGED <<count, local, failed>>
  <2>1. Goes(t, "enable", local[t].what, local[t].ok, local[t].entry, local[t].target)
    BY <1>3, PartsOf, GoesOn DEF Places
  <2>2. /\ table' \in [1..MaxOpens -> Entries] /\ table'[local[t].entry].original = TRUE
        /\ \A i \in 1..MaxOpens : /\ table'[i].target = table[i].target
                                  /\ table[i].original => table'[i].original
    <3>1. table \in [1..MaxOpens -> Entries]
      BY PartsOf DEF DeviceTypes
    <3>2. PICK e : e = table[local[t].entry]
      OBVIOUS
    <3>3. PICK m : m = [e EXCEPT !.original = TRUE]
      OBVIOUS
    <3>4. m \in Entries /\ m.target = e.target /\ m.original = TRUE
      BY <1>1, <3>1, <3>2, <3>3 DEF Entries
    <3>5. table' = [table EXCEPT ![local[t].entry] = m]
      BY <1>3, <3>2, <3>3
    <3>6. table' \in [1..MaxOpens -> Entries] /\ table'[local[t].entry] = m
      BY <1>1, <3>1, <3>4, <3>5
    <3>7. \A i \in 1..MaxOpens : i # local[t].entry => table'[i] = table[i]
      BY <3>1, <3>5
    <3> QED BY <3>2, <3>4, <3>6, <3>7
  <2>3. DeviceTypes'
    BY <1>1, <1>3, <2>2, PartsOf DEF DeviceTypes
  <2>4. AssetTypes'
    BY <1>1, <1>3, <2>1, <2>3, PartsOf DEF AssetTypes, SwitchTypes, Goes, OthersStay
  <2>5. WhereAt(t)' /\ StageAt(t)' /\ (~failed => ServedAt(t)')
    BY <1>1, <1>3, <2>1, <2>2, PartsOf DEF Goes, WhereAt, StageAt, ServedAt, Hooking
  <2>6. WhereInv'
    BY <1>1, <2>1, <2>5, PartsOf, WhereKept DEF Goes, Locked, WhereInv
  <2>7. StageInv'
    BY <1>1, <2>1, <2>5, PartsOf, StageKept DEF Goes, InPre, InPost, Hooking
  <2>8. ServedInv'
    <3> SUFFICES ASSUME ~failed' PROVE ServedInv'
      BY DEF ServedInv
    <3>1. ~failed /\ ServedInv /\ WhereInv
      BY <1>3, PartsOf
    <3>2. UnderWay' /\ MountsUnderWay'
      BY <2>1 DEF UnderWay, MountsUnderWay, Goes
    <3>3. ASSUME NEW u \in HookThreads, u # t PROVE ServedAt(u)'
      BY <1>1, <2>1, <3>1, <3>3, LockedAlone DEF ServedInv, ServedAt, Goes, OthersStay, Locked
    <3>4. 1..count \subseteq 1..MaxOpens /\ count' = count
      BY <1>3, PartsOf, MaxOpensAssumption DEF DeviceTypes
    <3>5. ASSUME NEW i \in 1..count' PROVE (table[i].target)' \in enabled' \/ i = count'
      BY <1>1, <2>2, <3>1, <3>4 DEF ServedInv
    <3>6. ASSUME NEW f \in Opens, f \in enabled' PROVE HasOriginal(f)'
      BY <1>1, <2>2, <3>1, <3>4, <3>6 DEF ServedInv, HasOriginal
    <3> QED BY <1>1, <2>5, <3>1, <3>2, <3>3, <3>5, <3>6 DEF ServedInv
  <2> QED BY <2>4, <2>6, <2>7, <2>8 DEF AssetInv
<1> QED BY <1>2, <1>3 DEF Create

LEMMA EnableHolds ==
  ASSUME AssetInv, NEW t \in HookThreads, Enable(t)
  PROVE  AssetInv'
<1>1. /\ doing[t] = "enable" /\ local[t].what \in {"step", "mount"}
      /\ local[t].entry \in 1..MaxOpens /\ local[t].target \in Opens
      /\ ~failed => /\ local[t].ok /\ local[t].entry = count /\ local[t].target = table[count].target
                    /\ table[count].original
      /\ UNCHANGED <<pre, post, mounted, manager, witnessed, missed, kept>>
  <2>1. doing[t] = "enable" /\ (~failed => table[count].original)
    BY PartsOf DEF Enable, On, ServedAt
  <2> QED BY <2>1, AddingIs DEF Enable, stageVars, mountVars
<1>2. CASE TakeBack(t) /\ UNCHANGED enabled
  BY <1>1, <1>2, TakeBackHolds
<1>3. CASE /\ enabled' = enabled \cup {local[t].target}
           /\ Turns(t, "scan") /\ UNCHANGED <<tableVars, local, failed>>
  <2>1. Goes(t, "scan", local[t].what, local[t].ok, local[t].entry, local[t].target)
    BY <1>3, PartsOf, GoesOn DEF Places
  <2>2. UNCHANGED <<table, count, failed>> /\ pre
    BY <1>1, <1>3, PartsOf DEF tableVars, StageAt, Hooking
  <2>3. DeviceTypes'
    BY <1>1, <1>3, <2>2, PartsOf DEF DeviceTypes
  <2>4. AssetTypes'
    BY <1>1, <2>1, <2>2, <2>3, PartsOf DEF AssetTypes, SwitchTypes, Goes, OthersStay
  <2>5. \A f \in {"disk", "mount", "make"} : f \in enabled' <=> f \in enabled
    BY <1>1, <1>3, OpensAssumption
  <2>6. WhereAt(t)' /\ StageAt(t)' /\ (~failed => ServedAt(t)')
    BY <1>1, <2>1, <2>2, <2>5, PartsOf DEF Goes, WhereAt, StageAt, ServedAt, Hooking
  <2>7. WhereInv'
    BY <1>1, <2>1, <2>6, PartsOf, WhereKept DEF Goes, Locked, WhereInv
  <2>8. StageInv'
    BY <1>1, <2>1, <2>2, <2>5, <2>6, PartsOf, StageKept DEF Goes, InPre, InPost, Hooking
  <2>9. ~failed => HasOriginal(local[t].target) /\ table[count].target \in enabled'
    BY <1>1, <1>3 DEF HasOriginal
  <2>10. ServedInv'
    BY <1>1, <1>3, <2>1, <2>2, <2>6, <2>9, PartsOf, ServedKept DEF Goes
  <2> QED BY <2>4, <2>7, <2>8, <2>10 DEF AssetInv
<1> QED BY <1>2, <1>3 DEF Enable

LEMMA MountArchiveHolds ==
  ASSUME AssetInv, NEW t \in HookThreads, NEW o \in Opens, MountArchive(t, o)
  PROVE  AssetInv'
<1>1. /\ doing[t] = "game" /\ ~manager /\ local[t].what = "none" /\ mounted' = mounted \cup {o}
      /\ UNCHANGED <<enabled, pre, post, table, count, manager, missed, failed, kept>>
  BY PartsOf DEF MountArchive, On, stageVars, tableVars, WhereAt
<1>2. CASE "mount" \in enabled
  <2>1. Goes(t, "lock", "mount", TRUE, 0, "none") /\ witnessed' = witnessed \cup {o}
    BY <1>2, PartsOf, GoesWith DEF MountArchive, Places
  <2>2. pre
    BY <1>2, PartsOf DEF StageInv, SwitchTypes
  <2>3. DeviceTypes'
    BY <1>1, <2>1, PartsOf DEF DeviceTypes
  <2>4. AssetTypes'
    BY <1>1, <2>1, <2>3, PartsOf DEF AssetTypes, SwitchTypes, Goes, OthersStay
  <2>5. WhereAt(t)' /\ StageAt(t)' /\ ServedAt(t)'
    BY <1>1, <2>1, <2>2 DEF Goes, WhereAt, StageAt, ServedAt, Hooking
  <2>6. WhereInv'
    BY <1>1, <2>1, <2>5, PartsOf, WhereKept DEF Goes, Locked
  <2>7. StageInv'
    BY <1>1, <2>1, <2>5, PartsOf, StageKept DEF Goes, InPre, InPost, Hooking
  <2>8. ServedInv'
    BY <1>1, <2>1, <2>5, PartsOf, ServedKept DEF Goes
  <2> QED BY <2>4, <2>6, <2>7, <2>8 DEF AssetInv
<1>3. CASE "mount" \notin enabled
  <2>1. OthersStay(t) /\ UNCHANGED <<doing, local, witnessed>>
    BY <1>3, PartsOf DEF MountArchive, OthersStay, ThreadTypes
  <2>2. DeviceTypes'
    BY <1>1, <2>1, PartsOf DEF DeviceTypes
  <2>3. AssetTypes'
    BY <1>1, <2>1, <2>2, PartsOf DEF AssetTypes, SwitchTypes, OthersStay
  <2>4. WhereAt(t)' /\ StageAt(t)' /\ (~failed => ServedAt(t)')
    BY <1>1, <2>1, PartsOf DEF WhereAt, StageAt, ServedAt, Hooking
  <2>5. WhereInv'
    BY <1>1, <2>1, <2>4, PartsOf, WhereKept DEF Locked
  <2>6. StageInv'
    BY <1>1, <2>1, <2>4, PartsOf, StageKept DEF InPre, InPost, Hooking
  <2>7. ServedInv'
    BY <1>1, <2>1, <2>4, PartsOf, ServedKept
  <2> QED BY <2>3, <2>5, <2>6, <2>7 DEF AssetInv
<1> QED BY <1>2, <1>3

----------------------------------------------------------------------------
(* Opening files.                                                         *)

LEMMA OpenEblHolds ==
  ASSUME AssetInv, NEW t \in HookThreads, NEW o \in Opens, OpenEbl(t, o)
  PROVE  AssetInv'
<1>1. /\ doing[t] = "game" /\ o \in enabled
      /\ UNCHANGED <<enabled, pre, post, table, count, mounted, manager, witnessed, missed, failed, kept>>
  BY DEF OpenEbl, On, stageVars, tableVars, mountVars
<1>2. o \in Names /\ o \notin {"step", "mount", "disk"}
  BY OpensAssumption DEF Names
<1>3. Goes(t, "look up", o, TRUE, 0, "none")
  BY <1>2, PartsOf, GoesWith DEF OpenEbl, Places
<1>4. pre
  BY <1>1, <1>2, PartsOf DEF StageInv
<1>5. WhereAt(t)' /\ StageAt(t)' /\ (~failed => ServedAt(t)')
  BY <1>1, <1>2, <1>3, <1>4 DEF Goes, WhereAt, StageAt, ServedAt, Hooking
<1> QED BY <1>1, <1>2, <1>3, <1>5, QuietStep DEF Goes, Hooking

LEMMA LookUpHolds ==
  ASSUME AssetInv, NEW t \in HookThreads, LookUp(t)
  PROVE  AssetInv'
<1>1. /\ doing[t] = "look up" /\ local[t].what \in Opens /\ (~failed => local[t].what \in enabled)
      /\ UNCHANGED <<enabled, pre, post, table, count, mounted, manager, witnessed, missed, failed, kept>>
  BY PartsOf DEF LookUp, On, stageVars, tableVars, mountVars, WhereAt, ServedAt
<1>2. PICK b \in BOOLEAN : b <=> HasOriginal(local[t].what)
  OBVIOUS
<1>3. Goes(t, "open", local[t].what, b, local[t].entry, local[t].target)
  <2>1. Sets(t, [local[t] EXCEPT !.ok = b])
    BY <1>2 DEF LookUp, HasOriginal
  <2> QED BY <2>1, PartsOf, GoesDecided DEF LookUp, Places
<1>4. ~failed => b
  BY <1>1, <1>2, PartsOf DEF ServedInv
<1>5. WhereAt(t)' /\ StageAt(t)' /\ (~failed => ServedAt(t)')
  BY <1>1, <1>3, <1>4, PartsOf DEF Goes, WhereAt, StageAt, ServedAt, Hooking
<1> QED BY <1>1, <1>3, <1>5, QuietStep DEF Goes, Hooking

LEMMA RedirectHolds ==
  ASSUME AssetInv, NEW t \in HookThreads, Redirect(t)
  PROVE  AssetInv'
<1>1. /\ doing[t] = "open" /\ "disk" \in enabled /\ (~failed => local[t].ok)
      /\ UNCHANGED <<enabled, pre, post, table, count, mounted, manager, witnessed, failed, kept>>
  BY PartsOf DEF Redirect, On, stageVars, tableVars, mountVars, StageAt, StageInv, ServedAt
<1>2. missed' \in BOOLEAN /\ (~failed => missed' = missed)
  BY <1>1, PartsOf DEF Redirect, SwitchTypes
<1>3. Goes(t, "game", "none", TRUE, 0, "none")
  BY PartsOf, GoesIdle DEF Redirect
<1>4. AssetTypes'
  BY <1>1, <1>2, <1>3, PartsOf DEF AssetTypes, DeviceTypes, SwitchTypes, Goes, OthersStay
<1>5. WhereAt(t)' /\ StageAt(t)' /\ ServedAt(t)'
  BY <1>1, <1>3 DEF Goes, WhereAt, StageAt, ServedAt, Hooking
<1>6. WhereInv'
  BY <1>1, <1>3, <1>5, PartsOf, WhereKept DEF Goes, Locked
<1>7. StageInv'
  BY <1>1, <1>3, <1>5, PartsOf, StageKept DEF Goes, InPre, InPost, Hooking
<1>8. ServedInv'
  BY <1>1, <1>2, <1>3, <1>5, PartsOf, ServedKept DEF Goes
<1> QED BY <1>4, <1>6, <1>7, <1>8 DEF AssetInv

LEMMA AssetInitHolds == AssetInit => AssetInv
<1> SUFFICES ASSUME AssetInit PROVE AssetInv
  OBVIOUS
<1> USE MaxOpensAssumption, OpensAssumption DEF AssetInit
<1>1. DeviceTypes
  BY DEF DeviceTypes, Free, Entries, Names
<1>2. ThreadTypes
  BY DEF ThreadTypes, Places, Locals, Names, Idle
<1>3. SwitchTypes
  BY DEF SwitchTypes
<1>4. WhereInv
  BY DEF WhereInv, WhereAt, Idle, Hooking, Locked
<1>5. StageInv
  BY DEF StageInv, StageAt, Hooking
<1>6. ServedInv
  BY DEF ServedInv, ServedAt, Idle, HasOriginal
<1> QED BY <1>1, <1>2, <1>3, <1>4, <1>5, <1>6 DEF AssetInv, AssetTypes

LEMMA AssetStepHolds == AssetInv /\ [AssetNext]_assetVars => AssetInv'
<1> SUFFICES ASSUME AssetInv, [AssetNext]_assetVars PROVE AssetInv'
  OBVIOUS
<1>1. CASE UNCHANGED assetVars
  <2> USE <1>1 DEF assetVars
  <2>1. AssetTypes' /\ WhereInv'
    BY DEF AssetInv, AssetTypes, DeviceTypes, ThreadTypes, SwitchTypes, WhereInv, WhereAt
  <2>2. StageInv'
    BY DEF AssetInv, StageInv, StageAt, InPre, InPost
  <2>3. ServedInv'
    BY DEF AssetInv, ServedInv, ServedAt, HasOriginal, UnderWay, MountsUnderWay
  <2> QED BY <2>1, <2>2, <2>3 DEF AssetInv
<1>2. CASE AssetNext
  BY <1>2, FileStepHolds, InstallDiskHolds, InstallMountHolds, OriginalStepHolds, InstallMakeHolds,
     EndPostHolds, LockManagerHolds, PublishHolds, CreateHolds, EnableHolds, RollBackHolds,
     UnlockHolds, MountedHolds, MountArchiveHolds, OpenEblHolds, LookUpHolds, RedirectHolds
  DEF AssetNext
<1> QED BY <1>1, <1>2

\* asset_hooks.c:682-830 with :139, for any number of threads and of classes of
\* devices and any room in the table: an open through the detour finds its original
\* and an enabled disk device, the mounts that went through the hook, or that
\* FileStep found, have their opens hooked once the mount is back, and the hooks of
\* a stage are all there or none is.
THEOREM ArchivesAreAlwaysServed == AssetSpec => []ArchivesAreServed
<1>1. ASSUME AssetInv PROVE ArchivesAreServed
  <2>1. OpensFindTheirOriginal
    BY <1>1 DEF AssetInv, ServedInv, OpensFindTheirOriginal
  <2>2. MountedDevicesAreHooked
    <3> SUFFICES ASSUME post, ~failed, \A t \in HookThreads : local[t].what # "mount"
                 PROVE  witnessed \subseteq enabled
      BY DEF MountedDevicesAreHooked
    <3>1. ASSUME NEW t \in HookThreads PROVE doing[t] \notin {"lock", "scan", "create", "enable"}
      BY <1>1, <3>1, PartsOf DEF WhereAt, StageAt, Hooking
    <3> QED BY <1>1, <3>1 DEF AssetInv, ServedInv, MountsUnderWay
  <2>3. AllOrNothing
    <3> SUFFICES ASSUME InFileStep = {}
                 PROVE  /\ IF pre THEN {"disk", "mount"} \subseteq enabled
                           ELSE enabled \cap {"disk", "mount"} \subseteq kept
                        /\ IF post THEN "make" \in enabled ELSE "make" \in enabled => "make" \in kept
      BY DEF AllOrNothing
    <3>1. ASSUME NEW t \in HookThreads PROVE ~InPre(t) /\ ~InPost(t)
      BY <1>1, PartsOf DEF InFileStep, InPre, InPost, WhereAt
    <3> QED BY <1>1, <3>1 DEF AssetInv, AssetTypes, SwitchTypes, StageInv
  <2> QED BY <2>1, <2>2, <2>3 DEF ArchivesAreServed
<1> QED BY <1>1, AssetInitHolds, AssetStepHolds, PTL DEF AssetSpec

----------------------------------------------------------------------------
(* Allocators: the heap, the hooks that replace the game's, and the sizes.  *)

\* A set that contains 0 and, up to m, the successor of whatever it contains.
LEMMA UpTo ==
  ASSUME NEW m \in Nat, NEW S, 0 \in S, \A n \in Nat : n \in S /\ n < m => n + 1 \in S
  PROVE  \A n \in 0..m : n \in S
<1> DEFINE Missing == {n \in 0..m : n \notin S}
<1> SUFFICES ASSUME Missing # {} PROVE FALSE
  OBVIOUS
<1>1. PICK x \in Missing : \A y \in Missing : ~(<<y, x>> \in OpToRel(<, Nat))
  <2>1. Missing \subseteq Nat
    OBVIOUS
  <2> HIDE DEF Missing
  <2> QED BY <2>1, NatLessThanWellFounded, WFMin
<1>2. x \in Nat /\ x # 0 /\ x <= m /\ x \notin S
  OBVIOUS
<1> HIDE DEF Missing
<1>3. x - 1 \in Nat /\ x - 1 < m /\ x - 1 \in 0..m /\ (x - 1) + 1 = x
  BY <1>2
<1>4. x - 1 \notin Missing
  <2>1. x - 1 < x /\ x - 1 \in Nat
    BY <1>2
  <2> QED BY <1>1, <1>2, <2>1 DEF OpToRel
<1>5. x - 1 \in S
  BY <1>3, <1>4 DEF Missing
<1> QED BY <1>2, <1>3, <1>5


----------------------------------------------------------------------------
(* Sizes.                                                                   *)

\* The recursion of the powers is defined.
LEMMA PowersExist ==
  ASSUME Width \in Nat
  PROVE  PowerOfTwo = [n \in 0..Width |-> IF n = 0 THEN 1 ELSE 2 * PowerOfTwo[n - 1]]
<1> DEFINE Layer(f, m) == f = [n \in 0..m |-> IF n = 0 THEN 1 ELSE 2 * f[n - 1]]
           Sound == {m \in 0..Width : \E f : Layer(f, m)}
<1> HIDE DEF Layer
<1>1. 0 \in Sound
  <2> DEFINE f == [n \in {0} |-> 1]
  <2>1. Layer(f, 0)
    BY 0..0 = {0} DEF Layer
  <2> QED BY <2>1
<1>2. ASSUME NEW m \in Nat, m \in Sound, m < Width PROVE m + 1 \in Sound
  <2>1. PICK f : Layer(f, m)
    BY <1>2
  <2> DEFINE g == [n \in 0..(m + 1) |-> IF n <= m THEN f[n] ELSE 2 * f[m]]
  <2>2. ASSUME NEW n \in 0..(m + 1)
        PROVE  g[n] = IF n = 0 THEN 1 ELSE 2 * g[n - 1]
    <3>1. CASE n = 0
      BY <2>1, <3>1 DEF Layer
    <3>2. CASE n \in 1..m
      <4>1. n - 1 \in 0..m /\ n \in 0..m /\ n - 1 \in 0..(m + 1) /\ n - 1 <= m /\ n <= m /\ n # 0
        BY <3>2
      <4>2. g[n] = f[n] /\ g[n - 1] = f[n - 1]
        BY <4>1
      <4>3. f[n] = 2 * f[n - 1]
        BY <2>1, <4>1 DEF Layer
      <4> QED BY <4>1, <4>2, <4>3
    <3>3. CASE n = m + 1
      <4>1. /\ ~(m + 1 <= m) /\ (m + 1) - 1 = m /\ m <= m /\ m + 1 # 0
            /\ m \in 0..(m + 1) /\ m + 1 \in 0..(m + 1)
        OBVIOUS
      <4>2. g[m] = f[m]
        BY <4>1
      <4>3. g[m + 1] = 2 * f[m]
        BY <4>1
      <4> HIDE DEF g
      <4> QED BY <3>3, <4>1, <4>2, <4>3
    <3> QED BY <3>1, <3>2, <3>3
  <2>3. Layer(g, m + 1)
    <3>1. g = [n \in 0..(m + 1) |-> g[n]]
      OBVIOUS
    <3> HIDE DEF g
    <3> QED BY <2>2, <3>1 DEF Layer
  <2> HIDE DEF g
  <2>4. m + 1 \in 0..Width
    BY <1>2
  <2> QED BY <2>3, <2>4
<1>3. Width \in Sound
  <2>1. \A m \in Nat : m \in Sound /\ m < Width => m + 1 \in Sound
    BY <1>2
  <2>2. Width \in 0..Width
    OBVIOUS
  <2> HIDE DEF Sound
  <2>3. \A m \in 0..Width : m \in Sound
    BY <1>1, <2>1, UpTo
  <2> QED BY <2>2, <2>3
<1>4. PICK f : Layer(f, Width)
  BY <1>3
<1> QED BY <1>4 DEF Layer, PowerOfTwo

\* Each power divides the later ones.
LEMMA PowersDivide ==
  ASSUME Width \in Nat, NEW n \in 0..Width
  PROVE  /\ PowerOfTwo[n] \in Nat /\ PowerOfTwo[n] > 0
         /\ \E c \in Nat : PowerOfTwo[Width] = c * PowerOfTwo[n]
<1>0. /\ PowerOfTwo[0] = 1
      /\ \A m \in Nat : m < Width => PowerOfTwo[m + 1] = 2 * PowerOfTwo[m]
  <2>1. /\ 0 \in 0..Width
        /\ \A m \in Nat : m < Width => m + 1 \in 0..Width /\ m + 1 # 0 /\ (m + 1) - 1 = m
    OBVIOUS
  <2> QED BY <2>1, PowersExist
<1> DEFINE Sound == {m \in 0..Width : PowerOfTwo[m] \in Nat /\ PowerOfTwo[m] > 0}
           Down == {k \in 0..Width : \E c \in Nat : PowerOfTwo[Width] = c * PowerOfTwo[Width - k]}
<1>1. 0 \in Sound
  BY <1>0
<1>2. \A m \in Nat : m \in Sound /\ m < Width => m + 1 \in Sound
  BY <1>0
<1>3. \A m \in 0..Width : m \in Sound
  <2> HIDE DEF Sound
  <2> QED BY <1>1, <1>2, UpTo
<1>4. \A m \in 0..Width : PowerOfTwo[m] \in Nat /\ PowerOfTwo[m] > 0
  BY <1>3
<1>5. 0 \in Down
  <2>1. Width - 0 = Width /\ 0 \in 0..Width /\ Width \in 0..Width
    OBVIOUS
  <2>2. PowerOfTwo[Width] = 1 * PowerOfTwo[Width - 0]
    BY <1>4, <2>1
  <2> QED BY <2>1, <2>2
<1>6. ASSUME NEW k \in Nat, k \in Down, k < Width PROVE k + 1 \in Down
  <2>1. PICK c \in Nat : PowerOfTwo[Width] = c * PowerOfTwo[Width - k]
    BY <1>6
  <2> DEFINE m == Width - (k + 1)
  <2>2. m \in Nat /\ m < Width /\ m + 1 = Width - k /\ k + 1 \in 0..Width /\ m \in 0..Width
    BY <1>6
  <2>3. PowerOfTwo[Width - k] = 2 * PowerOfTwo[m]
    BY <1>0, <2>2
  <2> HIDE DEF m
  <2>4. PowerOfTwo[m] \in Nat
    BY <1>4, <2>2
  <2>5. PICK p \in Nat : p = PowerOfTwo[m]
    BY <2>4
  <2>6. c * (2 * p) = (2 * c) * p
    OBVIOUS
  <2>7. PowerOfTwo[Width] = (2 * c) * PowerOfTwo[m] /\ 2 * c \in Nat
    BY <2>1, <2>3, <2>5, <2>6
  <2>8. \E e \in Nat : PowerOfTwo[Width] = e * PowerOfTwo[m]
    BY <2>7
  <2> QED BY <2>2, <2>8 DEF m
<1>7. \A k \in 0..Width : k \in Down
  <2>1. \A k \in Nat : k \in Down /\ k < Width => k + 1 \in Down
    BY <1>6
  <2> HIDE DEF Down
  <2> QED BY <1>5, <2>1, UpTo
<1>8. Width - n \in 0..Width /\ Width - (Width - n) = n
  OBVIOUS
<1>9. Width - n \in Down
  BY <1>7, <1>8
<1> QED BY <1>4, <1>8, <1>9

\* What remains of a division.
LEMMA Division ==
  ASSUME NEW s \in Nat, NEW a \in Nat, a > 0
  PROVE  /\ s % a \in 0..(a - 1)
         /\ s = (s \div a) * a + (s % a) /\ s \div a \in Nat
         /\ \A q \in Nat : (q * a) % a = 0
OBVIOUS

\* The multiples of a that are s or more, where all numbers are below a multiple of a:
\* the least of them is reached from s + a - 1, and there is none where that wraps.
LEMMA LeastMultiple ==
  ASSUME NEW a \in Nat, a > 0, NEW c \in Nat, NEW s \in Nat, s < c * a
  PROVE  LET sum == s + a - 1
             r == sum - (sum % a)
         IN /\ s > c * a - a => \A t \in s..(c * a - 1) : t % a # 0
            /\ s <= c * a - a =>
                 /\ r \in s..(c * a - 1) /\ r % a = 0
                 /\ \A t \in s..(c * a - 1) : t % a = 0 => r <= t
<1> DEFINE sum == s + a - 1
           r == sum - (sum % a)
<1>1. sum \in Nat /\ s <= sum /\ c * a \in Nat
  OBVIOUS
<1>2. ASSUME NEW q \in Nat, NEW p \in Nat, q > p PROVE q * a >= p * a + a
  <2>1. PICK d \in Nat : q = p + 1 + d
    <3>1. q - p - 1 \in Nat /\ q = p + 1 + (q - p - 1)
      BY <1>2
    <3> QED BY <3>1
  <2>2. (p + 1 + d) * a = p * a + a + d * a
    OBVIOUS
  <2>3. d * a \in Nat /\ p * a \in Nat
    OBVIOUS
  <2> QED BY <2>1, <2>2, <2>3
<1>3. ASSUME s > c * a - a, NEW t \in s..(c * a - 1), t % a = 0 PROVE FALSE
  <2>1. t \in Nat /\ t < c * a /\ t > c * a - a
    BY <1>1, <1>3
  <2>2. PICK q \in Nat : t = q * a
    <3>1. t = (t \div a) * a + (t % a) /\ t \div a \in Nat
      BY <2>1, Division
    <3>2. (t \div a) * a \in Nat
      BY <3>1
    <3>3. t = (t \div a) * a
      BY <1>3, <3>1, <3>2
    <3> QED BY <3>1, <3>3
  <2>3. q * a \in Nat
    OBVIOUS
  <2>4. ~(q > c) /\ q # c
    <3>1. q > c => q * a >= c * a + a
      BY <1>2
    <3> QED BY <1>1, <2>1, <2>2, <2>3, <3>1
  <2>5. c > q
    BY <2>4
  <2>6. c * a >= q * a + a
    BY <1>2, <2>5
  <2> QED BY <1>1, <2>1, <2>2, <2>3, <2>6
<1>4. ASSUME s <= c * a - a
      PROVE  /\ r \in s..(c * a - 1) /\ r % a = 0
             /\ \A t \in s..(c * a - 1) : t % a = 0 => r <= t
  <2>1. sum % a \in 0..(a - 1) /\ sum = (sum \div a) * a + (sum % a) /\ sum \div a \in Nat
    BY <1>1, Division
  <2>2. PICK q \in Nat : q = sum \div a
    BY <2>1
  <2>3. q * a \in Nat
    OBVIOUS
  <2>4. PICK m \in 0..(a - 1) : m = sum % a
    BY <2>1
  <2>5. sum = q * a + m
    BY <2>1, <2>2, <2>4
  <2>6. r = q * a
    BY <1>1, <2>3, <2>4, <2>5
  <2>7. r \in s..(c * a - 1)
    BY <1>1, <1>4, <2>3, <2>5, <2>6
  <2>8. r % a = 0
    BY <2>6, Division
  <2>9. ASSUME NEW t \in s..(c * a - 1), t % a = 0, t < r PROVE FALSE
    <3>1. t \in Nat
      BY <2>9
    <3>2. PICK p \in Nat : t = p * a
      <4>1. t = (t \div a) * a + (t % a) /\ t \div a \in Nat
        BY <3>1, Division
      <4>2. (t \div a) * a \in Nat
        BY <4>1
      <4>3. t = (t \div a) * a
        BY <2>9, <4>1, <4>2
      <4> QED BY <4>1, <4>3
    <3>3. p * a \in Nat
      OBVIOUS
    <3>4. ~(p > q) /\ p # q
      <4>1. p > q => p * a >= q * a + a
        BY <1>2
      <4> QED BY <2>3, <2>6, <2>9, <3>2, <3>3, <4>1
    <3>5. q * a >= p * a + a
      BY <1>2, <3>4
    <3> QED BY <2>3, <2>5, <2>6, <2>9, <3>2, <3>3, <3>5
  <2> QED BY <1>1, <2>7, <2>8, <2>9
<1> QED BY <1>3, <1>4

\* mimalloc_allocator.c:248: a size is rounded to the least multiple that holds it, and
\* refused when a size_t has none.
LEMMA SizesRounded == SizesAreRounded
<1> SUFFICES ASSUME NEW size \in 0..SizeMax, NEW asked \in 0..SizeMax
             PROVE  LET alignment == NormalizedAlignment(asked)
                        fits == {s \in size..SizeMax : s % alignment = 0}
                    IN RoundUpSize(size, alignment) =
                          IF alignment \notin PowersOfTwo \/ fits = {} THEN -1
                          ELSE CHOOSE s \in fits : \A t \in fits : s <= t
  BY DEF SizesAreRounded
<1> DEFINE a == NormalizedAlignment(asked)
           fits == {s \in size..SizeMax : s % a = 0}
<1>1. CASE a \notin PowersOfTwo
  BY <1>1 DEF RoundUpSize
<1>2. CASE a \in PowersOfTwo
  <2>0. Width \in Nat
    BY SizesAssumption
  <2>1. PICK n \in 0..Width : a = PowerOfTwo[n]
    BY <1>2, <2>0 DEF PowersOfTwo
  <2>2. /\ a \in Nat /\ a > 0 /\ \E c \in Nat : PowerOfTwo[Width] = c * a
        /\ PowerOfTwo[Width] \in Nat /\ PowerOfTwo[Width] > 0
    <3>1. Width \in 0..Width
      BY <2>0
    <3> QED BY <2>0, <2>1, <3>1, PowersDivide
  <2>3. PICK c \in Nat : PowerOfTwo[Width] = c * a
    BY <2>2
  <2> HIDE DEF a
  <2>4. SizeMax = c * a - 1 /\ c * a \in Nat /\ size \in Nat /\ size < c * a
    BY <2>2, <2>3 DEF SizeMax
  <2> DEFINE sum == size + a - 1
             r == sum - (sum % a)
  <2>5. /\ size > c * a - a => \A t \in size..SizeMax : t % a # 0
        /\ size <= c * a - a =>
             /\ r \in size..SizeMax /\ r % a = 0
             /\ \A t \in size..SizeMax : t % a = 0 => r <= t
    BY <2>2, <2>4, LeastMultiple
  <2>6. CASE size > c * a - a
    <3>1. fits = {}
      BY <2>5, <2>6
    <3>2. size > SizeMax - (a - 1)
      BY <2>2, <2>4, <2>6
    <3> QED BY <1>2, <3>1, <3>2 DEF RoundUpSize, a
  <2>7. CASE size <= c * a - a
    <3>1. ~(size > SizeMax - (a - 1))
      BY <2>2, <2>4, <2>7
    <3>2. RoundUpSize(size, a) = r
      BY <1>2, <3>1 DEF RoundUpSize
    <3>3. r \in fits /\ \A t \in fits : r <= t
      BY <2>5, <2>7
    <3> HIDE DEF r
    <3>4. \A x \in fits : (\A t \in fits : x <= t) => x = r
      <4>1. fits \subseteq Int
        BY <2>4
      <4> HIDE DEF fits
      <4> QED BY <3>3, <4>1
    <3> HIDE DEF fits
    <3>5. (CHOOSE s \in fits : \A t \in fits : s <= t) = r
      BY <3>3, <3>4
    <3>6. fits # {}
      BY <3>3
    <3> QED BY <1>2, <3>2, <3>5, <3>6 DEF a, fits
  <2> QED BY <2>2, <2>4, <2>6, <2>7
<1> QED BY <1>1, <1>2
----------------------------------------------------------------------------
(* The most frequent target.                                                *)

\* The better of two: more calls, or as many and the higher address.
AtLeast(cs, a, b) ==
  Calls(cs, a) > Calls(cs, b) \/ (Calls(cs, a) = Calls(cs, b) /\ a >= b)

LEMMA CallsAreCounted ==
  ASSUME NEW cs \in Seq(Addresses), NEW a
  PROVE  Calls(cs, a) \in Nat
<1>1. IsFiniteSet(1..Len(cs))
  <2>1. Len(cs) \in Int /\ 1 \in Int
    OBVIOUS
  <2> QED BY <2>1, FS_Interval
<1>2. {i \in DOMAIN cs : cs[i] = a} \in SUBSET (1..Len(cs))
  OBVIOUS
<1> QED BY <1>1, <1>2, FS_Subset, FS_CardinalityType DEF Calls

\* Among the first n calls of a sequence one leads to the best target.
LEMMA BestExists ==
  ASSUME NEW cs \in Seq(Addresses), cs # <<>>
  PROVE  \E i \in DOMAIN cs : \A j \in DOMAIN cs : AtLeast(cs, cs[i], cs[j])
<1>1. DOMAIN cs = 1..Len(cs) /\ Len(cs) \in Nat /\ Len(cs) > 0
  OBVIOUS
<1>2. \A i \in 1..Len(cs) : cs[i] \in Nat /\ Calls(cs, cs[i]) \in Nat
  <2> SUFFICES ASSUME NEW i \in 1..Len(cs) PROVE cs[i] \in Nat /\ Calls(cs, cs[i]) \in Nat
    OBVIOUS
  <2>1. cs[i] \in Addresses
    BY <1>1
  <2> QED BY <2>1, CallsAreCounted, ImageAssumption
<1> DEFINE Sound == {n \in 0..Len(cs) :
                       n = 0 \/ \E i \in 1..n : \A j \in 1..n : AtLeast(cs, cs[i], cs[j])}
<1>3. 0 \in Sound
  BY <1>1
<1>4. ASSUME NEW n \in Nat, n \in Sound, n < Len(cs) PROVE n + 1 \in Sound
  <2>1. n + 1 \in 0..Len(cs) /\ n + 1 \in 1..(n + 1) /\ n + 1 \in 1..Len(cs)
        /\ \A j \in 1..(n + 1) : j \in 1..n \/ j = n + 1
    BY <1>1, <1>4
  <2>2. AtLeast(cs, cs[n + 1], cs[n + 1])
    BY <1>2, <2>1 DEF AtLeast
  <2>3. CASE n = 0
    <3>1. \A j \in 1..(n + 1) : j = n + 1
      BY <2>3
    <3> QED BY <2>1, <2>2, <3>1
  <2>4. CASE n # 0
    <3>1. PICK i \in 1..n : \A j \in 1..n : AtLeast(cs, cs[i], cs[j])
      BY <1>4, <2>4
    <3>2. i \in 1..(n + 1) /\ i \in 1..Len(cs) /\ \A j \in 1..n : j \in 1..Len(cs)
      BY <1>1, <1>4
    <3>3. CASE AtLeast(cs, cs[i], cs[n + 1])
      <4>1. \A j \in 1..(n + 1) : AtLeast(cs, cs[i], cs[j])
        BY <2>1, <3>1, <3>3
      <4> QED BY <2>1, <3>2, <4>1
    <3>4. CASE ~AtLeast(cs, cs[i], cs[n + 1])
      <4>1. AtLeast(cs, cs[n + 1], cs[i])
        BY <1>2, <2>1, <3>2, <3>4 DEF AtLeast
      <4>2. ASSUME NEW j \in 1..n PROVE AtLeast(cs, cs[n + 1], cs[j])
        <5>1. AtLeast(cs, cs[i], cs[j])
          BY <3>1
        <5> QED BY <1>2, <2>1, <3>2, <4>1, <5>1 DEF AtLeast
      <4>3. \A j \in 1..(n + 1) : AtLeast(cs, cs[n + 1], cs[j])
        BY <2>1, <2>2, <4>2
      <4> QED BY <2>1, <4>3
    <3> QED BY <3>3, <3>4
  <2> QED BY <2>3, <2>4
<1>5. Len(cs) \in Sound
  <2>1. \A n \in Nat : n \in Sound /\ n < Len(cs) => n + 1 \in Sound
    BY <1>4
  <2>2. Len(cs) \in 0..Len(cs)
    BY <1>1
  <2> HIDE DEF Sound
  <2>3. \A n \in 0..Len(cs) : n \in Sound
    BY <1>1, <1>3, <2>1, UpTo
  <2> QED BY <2>2, <2>3
<1>6. Len(cs) = 0 \/ \E i \in 1..Len(cs) : \A j \in 1..Len(cs) : AtLeast(cs, cs[i], cs[j])
  BY <1>5
<1>7. Len(cs) # 0
  BY <1>1
<1> HIDE DEF Sound
<1> QED BY ONLY <1>1, <1>6, <1>7

\* allocator.c:127: where no target is left uncounted, the one taken is the best.
LEMMA BestIsTaken ==
  ASSUME NEW cs \in Seq(Addresses), cs # <<>>, Cardinality({cs[i] : i \in DOMAIN cs}) <= MaxGetters
  PROVE  \A j \in DOMAIN cs : AtLeast(cs, MostFrequent(cs), cs[j])
<1> DEFINE T == {cs[i] : i \in DOMAIN cs}
<1>1. DOMAIN cs = 1..Len(cs) /\ Len(cs) \in Nat /\ Len(cs) > 0
  OBVIOUS
<1>2. IsFiniteSet(T)
  <2>1. IsFiniteSet(1..Len(cs))
    BY <1>1, FS_Interval
  <2> DEFINE f == [i \in 1..Len(cs) |-> cs[i]]
  <2>2. f \in Surjection(1..Len(cs), T)
    BY <1>1 DEF Surjection
  <2> QED BY <2>1, <2>2, FS_Surjection
<1>3. Counted(cs) = T
  <2> SUFFICES ASSUME NEW i \in DOMAIN cs
               PROVE  Cardinality({cs[j] : j \in 1..i}) <= MaxGetters
    BY DEF Counted
  <2>1. {cs[j] : j \in 1..i} \in SUBSET T
    BY <1>1
  <2>2. /\ IsFiniteSet({cs[j] : j \in 1..i})
        /\ Cardinality({cs[j] : j \in 1..i}) <= Cardinality(T)
    BY <1>2, <2>1, FS_Subset
  <2>3. Cardinality({cs[j] : j \in 1..i}) \in Nat /\ Cardinality(T) \in Nat
    BY <1>2, <2>2, FS_CardinalityType
  <2>4. MaxGetters \in Nat
    BY SizesAssumption
  <2> HIDE DEF T
  <2>5. Cardinality(T) <= MaxGetters
    BY DEF T
  <2> QED BY <2>2, <2>3, <2>4, <2>5
<1>4. T # {} /\ \E a \in T : \A b \in T : AtLeast(cs, a, b)
  BY <1>1, BestExists
<1>5. MostFrequent(cs) = CHOOSE a \in T : \A b \in T : AtLeast(cs, a, b)
  BY <1>3, <1>4 DEF MostFrequent, AtLeast
<1>6. \A b \in T : AtLeast(cs, MostFrequent(cs), b)
  BY <1>4, <1>5
<1> QED BY <1>6

----------------------------------------------------------------------------
(* The heap and the hooks.                                                  *)

Asked == {"none", "invalid", "given"}
FileHeld == IF mappingFile = "given" THEN {"file"} ELSE {}
Searching == {"request", "file", "mapping", "view", "private", "manage"}
AllocatorStages == Searching \cup {"heap", "prepared", "runtime", "none", "install", "fill",
                                   "rollback", "deinit", "applied"}

\* What is held at each step of making the heap, on either way.
HeapInv ==
  /\ stage \in AllocatorStages /\ mappingFile \in Asked /\ mappingName \in Asked
  /\ stage \in Searching => arena = "none"
  /\ stage \in Searching \cup {"heap"} => dedicated = FALSE
  /\ stage \in {"request", "file", "private"} => held = {}
  /\ stage = "mapping" => held = FileHeld
  /\ stage = "view" => held = FileHeld \cup {"mapping"}
  /\ stage = "manage" => held = {"private"} \/ held = FileHeld \cup {"mapping", "view"}
  /\ stage = "heap" => arena # "none"
  /\ stage \notin Searching =>
       /\ \/ arena = "none" /\ held = {}
          \/ arena = "private" /\ held = {"private"}
          \/ arena = "mapped" /\ held = FileHeld \cup {"mapping", "view"}
       /\ dedicated => arena # "none"

First == Required[1]
Second == Required[2]

\* Which hooks are in place at each step, and that nothing is written before both.
HooksInv ==
  /\ strategy \in Strategies
  /\ stage \in Searching \cup {"heap", "prepared"} => hooked = {}
  /\ stage = "runtime" => hooked = {"system"}
  /\ stage = "install" => hooked = {"system"} \/ hooked = {"system", First}
  /\ stage = "fill" => hooked = {"system", First, Second}
  /\ stage = "rollback" => hooked \subseteq {"system", First, Second} /\ stuck \subseteq hooked \ {"system"}
  /\ stage = "none" => hooked \ {"system"} = stuck
  /\ stage \in {"deinit", "applied"} => {"system", First, Second} \subseteq hooked
  /\ stage \notin {"rollback", "none"} => stuck = {}
  /\ IF stage \in {"deinit", "applied"} THEN written = tableFirst..tableLast ELSE written = {}

\* What was found is a table, and for Sekiro the target that is called most.
FoundInv ==
  /\ stage \in {"install", "fill", "rollback", "deinit", "applied"} =>
       tableFirst \in Addresses /\ tableLast \in Addresses /\ IsTable(tableFirst, tableLast)
  /\ strategy = "sekiro" /\ debugTarget # NoAddress =>
       calls \in Seq(Addresses) /\ debugTarget = MostFrequent(calls)

AllocatorInv == HeapInv /\ HooksInv /\ FoundInv

\* The heap's memory.
LEMMA HeapStep ==
  ASSUME AllocatorInv,
         Request \/ CreateMappingFile \/ CreateMapping \/ MapView \/ AllocatePrivate \/ ManageMemory
         \/ NewHeap
  PROVE  AllocatorInv'
<1> USE DEF AllocatorInv, Searching
<1>0. /\ UNCHANGED <<strategy, foundVars, hooked, stuck, written, mappingFile, mappingName>>
      /\ stage \in Searching \cup {"heap"} /\ stage' \in Searching \cup {"heap", "prepared"}
  BY DEF Request, CreateMappingFile, CreateMapping, MapView, AllocatePrivate, ManageMemory, NewHeap,
     UnchangedHooks, UnchangedHeap
<1>1. HooksInv'
  BY <1>0 DEF HooksInv, First, Second, Required
<1>2. FoundInv'
  BY <1>0 DEF FoundInv, foundVars
<1>3. HeapInv'
  <2> USE DEF HeapInv, FileHeld, AllocatorStages, UnchangedHooks, UnchangedHeap
  <2>1. CASE Request
    BY <2>1 DEF Request
  <2>2. CASE CreateMappingFile
    BY <2>2 DEF CreateMappingFile
  <2>3. CASE CreateMapping
    BY <2>3 DEF CreateMapping
  <2>4. CASE MapView
    BY <2>4 DEF MapView
  <2>5. CASE AllocatePrivate
    BY <2>5 DEF AllocatePrivate
  <2>6. CASE ManageMemory
    BY <2>6 DEF ManageMemory
  <2>7. CASE NewHeap
    BY <2>7 DEF NewHeap
  <2> QED BY <2>1, <2>2, <2>3, <2>4, <2>5, <2>6, <2>7
<1> QED BY <1>1, <1>2, <1>3

\* The hooks of either game are two different ones.
LEMMA RequiredAre ==
  /\ DOMAIN Required = {1, 2} /\ Len(Required) = 2
  /\ First # "system" /\ Second # "system" /\ First # Second
  /\ {Required[i] : i \in DOMAIN Required} = {First, Second}
<1>1. Required = <<"graphics", "memory">> \/ Required = <<"debug", "memory">>
  BY DEF Required
<1>2. DOMAIN Required = {1, 2} /\ Len(Required) = 2
  <2>1. 1..2 = {1, 2}
    OBVIOUS
  <2> QED BY <1>1, <2>1
<1>3. First # "system" /\ Second # "system" /\ First # Second
  BY <1>1 DEF First, Second
<1> QED BY <1>2, <1>3 DEF First, Second

\* The required hooks go in one after the other.
LEMMA InstallHolds ==
  ASSUME AllocatorInv, InstallRequired
  PROVE  HooksInv'
<1>0. /\ UNCHANGED <<strategy, stuck, written>> /\ stage = "install"
      /\ Required' = Required /\ First' = First /\ Second' = Second
  BY DEF InstallRequired, UnchangedMemory, Required, First, Second
<1>1. PICK i \in NextRequired :
        \/ hooked' = hooked \cup {Required[i]}
           /\ stage' = IF i = Len(Required) THEN "fill" ELSE "install"
        \/ stage' = "rollback" /\ UNCHANGED hooked
  BY DEF InstallRequired
<1>2. /\ DOMAIN Required = {1, 2} /\ Len(Required) = 2
      /\ First # "system" /\ Second # "system" /\ First # Second
  BY RequiredAre
<1>3. hooked = {"system"} \/ hooked = {"system", First}
  BY <1>0 DEF AllocatorInv, HooksInv
<1>4. \/ i = 1 /\ hooked = {"system"}
      \/ i = 2 /\ hooked = {"system", First}
  <2>1. i \in {1, 2} /\ \A j \in 1..i : (j < i) <=> (Required[j] \in hooked)
    BY <1>2 DEF NextRequired
  <2>2. CASE i = 1
    <3>1. 1 \in 1..i /\ ~(1 < i)
      BY <2>2
    <3>2. First \notin hooked
      BY <2>1, <3>1 DEF First
    <3> QED BY <1>3, <2>2, <3>2
  <2>3. CASE i = 2
    <3>1. 1 \in 1..i /\ 1 < i
      BY <2>3
    <3>2. First \in hooked
      BY <2>1, <3>1 DEF First
    <3> QED BY <1>2, <1>3, <2>3, <3>2
  <2> QED BY <2>1, <2>2, <2>3
<1>5. stuck = {} /\ written = {} /\ strategy \in Strategies
  BY <1>0 DEF AllocatorInv, HooksInv
<1>6. CASE stage' = "rollback" /\ UNCHANGED hooked
  BY <1>0, <1>2, <1>3, <1>5, <1>6 DEF HooksInv, Searching
<1>7. CASE hooked' = hooked \cup {Required[i]} /\ i = 1 /\ stage' = "install"
  <2>1. hooked' = {"system", First}
    BY <1>4, <1>7 DEF First
  <2> QED BY <1>0, <1>5, <1>7, <2>1 DEF HooksInv, Searching
<1>8. CASE hooked' = hooked \cup {Required[i]} /\ i = 2 /\ stage' = "fill"
  <2>1. hooked' = {"system", First, Second}
    BY <1>4, <1>8 DEF Second
  <2> QED BY <1>0, <1>5, <1>8, <2>1 DEF HooksInv, Searching
<1> QED BY <1>1, <1>2, <1>4, <1>6, <1>7, <1>8

\* Taking the hooks out leaves those that cannot be.
LEMMA RequiredRollBackHolds ==
  ASSUME AllocatorInv, RollBackRequired
  PROVE  HooksInv'
<1> DEFINE left == {h \in hooked \ stuck : h # "system"}
           h == CHOOSE h \in left : \A i, j \in DOMAIN Required :
                                       Required[i] = h /\ Required[j] \in left => j <= i
<1>0. /\ UNCHANGED <<strategy, written>> /\ stage = "rollback"
      /\ Required' = Required /\ First' = First /\ Second' = Second
  BY DEF RollBackRequired, UnchangedMemory, Required, First, Second
<1>1. /\ DOMAIN Required = {1, 2}
      /\ First # "system" /\ Second # "system" /\ First # Second
  BY RequiredAre
<1>2. /\ hooked \subseteq {"system", First, Second} /\ stuck \subseteq hooked \ {"system"}
      /\ written = {} /\ strategy \in Strategies
  BY <1>0 DEF AllocatorInv, HooksInv
<1>3. CASE left = {}
  <2>1. stage' = "none" /\ UNCHANGED <<hooked, stuck>>
    BY <1>3 DEF RollBackRequired
  <2>2. hooked \ {"system"} = stuck
    BY <1>2, <1>3
  <2> QED BY <1>0, <1>2, <2>1, <2>2 DEF HooksInv, Searching
<1>4. CASE left # {}
  <2>1. h \in left
    <3>1. CASE Second \in left
      <4>1. \A i, j \in DOMAIN Required : Required[i] = Second /\ Required[j] \in left => j <= i
        BY <1>1 DEF First, Second
      <4> QED BY <3>1, <4>1
    <3>2. CASE Second \notin left
      <4>1. First \in left
        BY <1>2, <1>4, <3>2
      <4>2. \A i, j \in DOMAIN Required : Required[i] = First /\ Required[j] \in left => j <= i
        BY <1>1, <3>2 DEF First, Second
      <4> QED BY <4>1, <4>2
    <3> QED BY <3>1, <3>2
  <2>2. /\ UNCHANGED stage
        /\ \/ hooked' = hooked \ {h} /\ UNCHANGED stuck
           \/ stuck' = stuck \cup {h} /\ UNCHANGED hooked
    BY <1>4 DEF RollBackRequired
  <2>3. h \in hooked \ stuck /\ h # "system"
    BY <2>1
  <2> HIDE DEF h
  <2>4. hooked' \subseteq {"system", First, Second} /\ stuck' \subseteq hooked' \ {"system"}
    BY <1>2, <2>2, <2>3
  <2> QED BY <1>0, <1>2, <2>2, <2>4 DEF HooksInv, Searching
<1> QED BY <1>3, <1>4

\* The hooks and the table.
LEMMA HooksStep ==
  ASSUME AllocatorInv,
         InstallBeforeMain \/ Locate \/ InstallRequired \/ FillTable \/ RollBackRequired \/ InstallDeinit
  PROVE  AllocatorInv'
<1>0. /\ UNCHANGED <<heapVars, strategy>>
      /\ stage \notin Searching \cup {"heap"} /\ stage' \notin Searching \cup {"heap"}
      /\ stage' \in AllocatorStages
  BY DEF InstallBeforeMain, Locate, InstallRequired, FillTable, RollBackRequired, InstallDeinit,
     UnchangedMemory, AllocatorStages, Searching
<1>1. HeapInv'
  <2>1. UNCHANGED <<mappingFile, mappingName, held, arena, dedicated>> /\ FileHeld' = FileHeld
    BY <1>0 DEF heapVars, FileHeld
  <2>2. /\ "heap" \notin Searching
        /\ stage' \notin {"request", "file", "private"} /\ stage' \notin {"mapping", "view", "manage", "heap"}
    BY <1>0 DEF Searching
  <2> QED BY <1>0, <2>1, <2>2 DEF AllocatorInv, HeapInv
<1>r. Required' = Required /\ First' = First /\ Second' = Second /\ strategy \in Strategies
  BY <1>0 DEF Required, First, Second, AllocatorInv, HooksInv
<1>2. CASE InstallBeforeMain
  <2>1. stage = "prepared" /\ UNCHANGED <<foundVars, stuck, written>>
        /\ \/ (hooked' = {"system"} /\ stage' = "runtime")
           \/ (hooked' = {} /\ stage' = "none")
    BY <1>2 DEF InstallBeforeMain
  <2>2. stuck = {} /\ written = {}
    BY <2>1 DEF AllocatorInv, HooksInv
  <2>3. HooksInv'
    BY <1>0, <1>r, <2>1, <2>2 DEF HooksInv, Searching
  <2>4. FoundInv'
    BY <1>0, <2>1 DEF AllocatorInv, FoundInv, foundVars
  <2> QED BY <1>1, <2>3, <2>4 DEF AllocatorInv
<1>3. CASE Locate
  <2>1. stage = "runtime" /\ UNCHANGED <<hooked, stuck, written>> /\ stage' \in {"install", "none"}
    BY <1>3 DEF Locate
  <2>2. hooked = {"system"} /\ stuck = {} /\ written = {}
    BY <2>1 DEF AllocatorInv, HooksInv
  <2>3. HooksInv'
    BY <1>0, <1>r, <2>1, <2>2 DEF HooksInv, Searching
  <2>4. FoundInv'
    <3>1. CASE stage' = "none" /\ UNCHANGED foundVars
      BY <1>0, <3>1 DEF AllocatorInv, FoundInv, foundVars
    <3>2. CASE stage' = "install"
      <4>1. PICK cs \in GetterCalls : \E d \in {NoAddress} \cup Addresses,
              first \in {NoAddress} \cup Addresses, last \in {NoAddress} \cup Addresses :
                LET sought == CASE strategy = "sekiro" -> MostFrequent(cs)
                                [] strategy = "darkSouls3" -> d
                                [] OTHER -> NoAddress
                IN /\ IsTable(first, last)
                   /\ calls' = cs /\ debugTarget' = sought
                   /\ tableFirst' = first /\ tableLast' = last
        BY <1>3, <3>2 DEF Locate
      <4>2. PICK d \in {NoAddress} \cup Addresses, first \in {NoAddress} \cup Addresses,
                 last \in {NoAddress} \cup Addresses :
              /\ IsTable(first, last) /\ calls' = cs /\ tableFirst' = first /\ tableLast' = last
              /\ strategy = "sekiro" => debugTarget' = MostFrequent(cs)
        BY <4>1
      <4>3. first \in Addresses /\ last \in Addresses
        BY <4>2 DEF IsTable
      <4>4. cs \in Seq(Addresses)
        BY ImageAssumption
      <4> QED BY <1>0, <4>2, <4>3, <4>4 DEF FoundInv, IsTable
    <3> QED BY <1>3, <3>1, <3>2 DEF Locate
  <2> QED BY <1>1, <2>3, <2>4 DEF AllocatorInv
<1>4. CASE InstallRequired
  <2>1. stage = "install" /\ UNCHANGED foundVars
    BY <1>4 DEF InstallRequired
  <2>2. FoundInv'
    BY <1>0, <2>1 DEF AllocatorInv, FoundInv, foundVars
  <2> QED BY <1>1, <1>4, <2>2, InstallHolds DEF AllocatorInv
<1>5. CASE RollBackRequired
  <2>1. stage = "rollback" /\ UNCHANGED foundVars
    BY <1>5 DEF RollBackRequired
  <2>2. FoundInv'
    BY <1>0, <2>1 DEF AllocatorInv, FoundInv, foundVars
  <2> QED BY <1>1, <1>5, <2>2, RequiredRollBackHolds DEF AllocatorInv
<1>6. CASE FillTable
  <2>1. /\ stage = "fill" /\ UNCHANGED <<foundVars, hooked, stuck>>
        /\ \/ written' = tableFirst..tableLast /\ stage' = "deinit"
           \/ stage' = "rollback" /\ UNCHANGED written
    BY <1>6 DEF FillTable
  <2>2. hooked = {"system", First, Second} /\ stuck = {} /\ written = {}
    BY <2>1 DEF AllocatorInv, HooksInv
  <2>3. FoundInv'
    BY <1>0, <2>1 DEF AllocatorInv, FoundInv, foundVars
  <2>4. HooksInv'
    BY <1>0, <1>r, <2>1, <2>2, RequiredAre DEF HooksInv, Searching, foundVars
  <2> QED BY <1>1, <2>3, <2>4 DEF AllocatorInv
<1>7. CASE InstallDeinit
  <2>1. /\ stage = "deinit" /\ stage' = "applied" /\ UNCHANGED <<foundVars, stuck, written>>
        /\ hooked \subseteq hooked'
    BY <1>7 DEF InstallDeinit
  <2>2. FoundInv'
    BY <1>0, <2>1 DEF AllocatorInv, FoundInv, foundVars
  <2>3. /\ {"system", First, Second} \subseteq hooked /\ stuck = {}
        /\ written = tableFirst..tableLast
    BY <2>1 DEF AllocatorInv, HooksInv
  <2>4. HooksInv'
    BY <1>0, <1>r, <2>1, <2>3 DEF HooksInv, Searching, foundVars
  <2> QED BY <1>1, <2>2, <2>4 DEF AllocatorInv
<1> QED BY <1>2, <1>3, <1>4, <1>5, <1>6, <1>7

\* The game starts with nothing of this.
LEMMA AllocatorInitHolds ==
  ASSUME AllocatorInit
  PROVE  AllocatorInv
BY DEF AllocatorInit, AllocatorInv, HeapInv, HooksInv, FoundInv, Searching, AllocatorStages, Asked

\* mimalloc_allocator.c:48-242, allocator.c:175-275: the invariant of heap, hooks and table.
THEOREM AllocatorInvAlways == AllocatorSpec => []AllocatorInv
<1>1. AllocatorInit => AllocatorInv
  BY AllocatorInitHolds
<1>2. AllocatorInv /\ [AllocatorNext]_allocatorVars => AllocatorInv'
  <2> SUFFICES ASSUME AllocatorInv, [AllocatorNext]_allocatorVars PROVE AllocatorInv'
    OBVIOUS
  <2>1. CASE UNCHANGED allocatorVars
    <3>1. UNCHANGED <<mappingFile, mappingName, held, arena, dedicated, strategy, calls, debugTarget,
                      tableFirst, tableLast, hooked, stuck, written, stage>>
      BY <2>1 DEF allocatorVars, heapVars, foundVars
    <3>2. HeapInv'
      BY <3>1 DEF AllocatorInv, HeapInv, FileHeld
    <3>3. HooksInv'
      BY <3>1 DEF AllocatorInv, HooksInv, First, Second, Required
    <3>4. FoundInv'
      BY <3>1 DEF AllocatorInv, FoundInv
    <3> QED BY <3>2, <3>3, <3>4 DEF AllocatorInv
  <2> QED BY <2>1, HeapStep, HooksStep DEF AllocatorNext
<1> QED BY <1>1, <1>2, PTL DEF AllocatorSpec

\* mimalloc_allocator.c:98-242, :248, allocator.c:78, :127, :248-258: for any sections, calls
\* and addresses and any failures: the heap holds what its arena needs and nothing else, the
\* game's allocators are replaced by the table together with both hooks or not at all, what
\* is overwritten is in one writable section, the getter that is hooked is the one called
\* most, and blocks are rounded to the least size that their alignment allows.
THEOREM AllocatorsAreAlwaysSound == AllocatorSpec => []AllocatorsAreSound
<1>1. AllocatorInv => HeapHoldsWhatItNeeds
  <2> SUFFICES ASSUME AllocatorInv PROVE HeapHoldsWhatItNeeds
    OBVIOUS
  <2>1. Searching = {"request", "file", "mapping", "view", "private", "manage"}
    BY DEF Searching
  <2>2. FileHeld \cup {"mapping", "view"} = {"mapping", "view"} \cup IF mappingFile = "given" THEN {"file"} ELSE {}
    BY DEF FileHeld
  <2> QED BY <2>1, <2>2 DEF AllocatorInv, HeapInv, HeapHoldsWhatItNeeds
<1>2. AllocatorInv => ReplacedTogether
  <2> SUFFICES ASSUME AllocatorInv PROVE ReplacedTogether
    OBVIOUS
  <2>1. stage \in {"deinit", "applied"} => written # {}
    <3> SUFFICES ASSUME stage \in {"deinit", "applied"} PROVE tableFirst \in written
      OBVIOUS
    <3>1. tableFirst \in Nat /\ tableLast \in Nat /\ tableFirst <= tableLast
      BY ImageAssumption DEF AllocatorInv, FoundInv, IsTable
    <3>2. written = tableFirst..tableLast
      BY DEF AllocatorInv, HooksInv
    <3> QED BY <3>1, <3>2
  <2>2. {Required[i] : i \in DOMAIN Required} \cup {"system"} = {"system", First, Second}
    BY RequiredAre
  <2> QED BY <2>1, <2>2 DEF AllocatorInv, HooksInv, ReplacedTogether
<1>3. AllocatorInv => TargetsAreRight
  <2> SUFFICES ASSUME AllocatorInv PROVE TargetsAreRight
    OBVIOUS
  <2>1. ASSUME written # {} PROVE \E s \in Sections : written \subseteq s
    <3>1. written = tableFirst..tableLast /\ stage \in {"deinit", "applied"}
      BY <2>1 DEF AllocatorInv, HooksInv
    <3>2. tableFirst \in Nat /\ tableLast \in Nat /\ IsTable(tableFirst, tableLast)
      BY <3>1, ImageAssumption DEF AllocatorInv, FoundInv
    <3>3. PICK s \in Sections : tableFirst \in s /\ \E a \in s : tableLast <= a
      BY <3>2 DEF IsTable
    <3>4. PICK a \in s : tableLast <= a
      BY <3>3
    <3>5. a \in Nat /\ tableFirst..a \subseteq s
      BY <3>3, ImageAssumption
    <3> QED BY <3>1, <3>2, <3>4, <3>5
  <2>2. ASSUME strategy = "sekiro", debugTarget # NoAddress,
               Cardinality({calls[i] : i \in DOMAIN calls}) <= MaxGetters, NEW i \in DOMAIN calls
        PROVE  /\ Calls(calls, calls[i]) <= Calls(calls, debugTarget)
               /\ Calls(calls, calls[i]) = Calls(calls, debugTarget) => calls[i] <= debugTarget
    <3>1. calls \in Seq(Addresses) /\ debugTarget = MostFrequent(calls)
      BY <2>2 DEF AllocatorInv, FoundInv
    <3>2. calls # <<>>
      BY <2>2
    <3>3. AtLeast(calls, debugTarget, calls[i])
      BY <2>2, <3>1, <3>2, BestIsTaken
    <3>4. Calls(calls, calls[i]) \in Nat /\ Calls(calls, debugTarget) \in Nat
      BY <3>1, CallsAreCounted
    <3> QED BY <3>3, <3>4 DEF AtLeast
  <2> QED BY <2>1, <2>2 DEF TargetsAreRight
<1> QED BY <1>1, <1>2, <1>3, SizesRounded, AllocatorInvAlways, PTL DEF AllocatorsAreSound

----------------------------------------------------------------------------
(* SaveMapping: routes lead to seeded files and no cached answer hides a    *)
(* registration, progress is never overwritten by a seed, and as long as    *)
(* there is memory the originals of a mapped extension are not written.     *)

\* Where a call stands: only a call has a path, and vfs_route_writable_path
\* returns to one of its callers.
CallInv ==
  \A t \in Threads :
    /\ path[t] = None <=> pc[t] = "idle"
    /\ pc[t] \in {"look", "search"} => back[t] \in {"registered", "exists", "check", "open"}

\* A registered save leads to its own renamed file, and is registered while
\* the registration asks for its entry.
TableInv ==
  /\ \A s \in Saves : writable[s] \in {None, TargetOf[s]}
  /\ \A t \in Threads :
       pc[t] \in {"look", "search"} /\ back[t] = "check" => writable[Save(t)] # None

\* Before the entry is registered the renamed file was seeded, if it had to be.
SeedInv ==
  \A t \in Threads : pc[t] = "register" /\ original[Save(t)] = "original" =>
    target[TargetOf[Save(t)]] # "missing"

\* What Decide sends to the registration or denies.
Routable(r) == r.failed \/ (r.root /\ r.mapped)

\* While there is memory no call leaves ml_save_mapping_route as if its path were no save:
\* the extension is mapped under a root or failed, and a snapshot shows it.
MemoryInv ==
  /\ mapped = root /\ (failedToMap \/ root)
  /\ ~scarce => \A t \in Threads :
       /\ pc[t] # "unmapped"
       /\ pc[t] \in {"look", "search"} => back[t] # "open"
       /\ pc[t] = "open" => found[t] # None
       /\ pc[t] \in {"registered", "decide"} \/ (pc[t] \in {"look", "search"} /\ back[t] = "registered")
            => Routable(snapshot[t])

IInv ==
  /\ TypeOK /\ CallInv /\ TableInv /\ SeedInv /\ MemoryInv
  /\ SeededBeforeRouted /\ CacheAgreesWithTable /\ OriginalsAreProtectedWithMemory
----------------------------------------------------------------------------
\* What is assumed of the constants.
Constants ==
  /\ SaveOf \in [Paths -> Saves] /\ TargetOf \in [Saves -> Targets]
  /\ None \notin Threads \cup Targets \cup Paths /\ "absent" \notin Targets \cup {None}

LEMMA ConstantsAreSound == Constants
BY SaveOfAssumption, TargetOfAssumption, NoneAssumption DEF Constants

Snapshots == [root : BOOLEAN, mapped : BOOLEAN, failed : BOOLEAN]

\* A step of one thread.
StepOf(t) == (Step(t) \/ \E p \in Paths : Route(t, p)) /\ UNCHANGED scarce

\* Types, and where calls stand.
LEMMA TypesKept ==
  ASSUME TypeOK, CallInv, NEW t \in Threads, StepOf(t)
  PROVE  TypeOK' /\ CallInv'
<1> USE ConstantsAreSound DEF Constants, Goto, CallRoute, Answer, Save, mappingVars, writableVars,
   fileVars, threadVars
<1> USE DEF TypeOK, CallInv, Labels
<1>0. UNCHANGED scarce
  BY DEF StepOf
<1>1. CASE Look(t)
  <2>1. UNCHANGED <<mappingVars, mappingLock, writableVars, fileVars, path, snapshot>> /\ pc[t] = "look"
    BY <1>1 DEF Look
  <2>2. CASE pc' = [pc EXCEPT ![t] = "search"] /\ UNCHANGED <<found, back>>
    BY <1>0, <2>1, <2>2
  <2>3. CASE \E r \in Targets \cup {None} : Answer(t, r)
    BY <1>0, <2>1, <2>3
  <2>. QED
    BY <1>1, <2>2, <2>3 DEF Look
<1>2. CASE Prefiltered(t)
  BY <1>0, <1>2 DEF Prefiltered
<1>3. CASE Search(t)
  BY <1>0, <1>3 DEF Search
<1>4. CASE SearchFails(t)
  BY <1>0, <1>4 DEF SearchFails
<1>5. CASE Snapshot(t)
  <2>1. UNCHANGED <<mappingVars, mappingLock, writableVars, fileVars, path, found>> /\ pc[t] = "snapshot"
    BY <1>5 DEF Snapshot
  <2>2. PICK r \in IF scarce THEN {root, FALSE} ELSE {root} :
          snapshot' = [snapshot EXCEPT ![t] = [root |-> r, mapped |-> mapped, failed |-> failedToMap]]
    BY <1>5 DEF Snapshot
  <2>3. [root |-> r, mapped |-> mapped, failed |-> failedToMap] \in Snapshots
    BY <2>2 DEF Snapshots
  <2>4. snapshot' \in [Threads -> Snapshots]
    BY <2>2, <2>3 DEF Snapshots
  <2>5. CASE \E l \in {"decide", "denied"} : pc' = [pc EXCEPT ![t] = l] /\ UNCHANGED back
    BY <1>0, <2>1, <2>4, <2>5 DEF Snapshots
  <2>6. CASE CallRoute(t, "registered")
    BY <1>0, <2>1, <2>4, <2>6 DEF Snapshots
  <2>. QED
    BY <1>5, <2>5, <2>6 DEF Snapshot
<1>6. CASE NoSource(t)
  BY <1>0, <1>6 DEF NoSource
<1>7. CASE Registered(t)
  <2>1. UNCHANGED <<mappingVars, mappingLock, writableVars, fileVars, path, back, found>> /\ pc[t] = "registered"
    BY <1>7 DEF Registered
  <2>2. NoSnapshot \in Snapshots
    BY DEF NoSnapshot, Snapshots
  <2>3. snapshot' = snapshot \/ snapshot' = [snapshot EXCEPT ![t] = NoSnapshot]
    BY <1>7 DEF Registered
  <2>4. snapshot' \in [Threads -> Snapshots]
    BY <2>2, <2>3 DEF Snapshots
  <2>5. PICK l \in {"open", "decide"} : pc' = [pc EXCEPT ![t] = l]
    BY <1>7 DEF Registered
  <2>6. TypeOK'
    BY <1>0, <2>1, <2>4, <2>5 DEF Snapshots
  <2>7. CallInv'
    BY <2>1, <2>5
  <2>. QED
    BY <2>6, <2>7
<1>8. CASE Decide(t)
  <2>1. UNCHANGED <<mappingVars, mappingLock, writableVars, fileVars, path, back, found>> /\ pc[t] = "decide"
    BY <1>8 DEF Decide
  <2>2. NoSnapshot \in Snapshots
    BY DEF NoSnapshot, Snapshots
  <2>3. snapshot' \in [Threads -> Snapshots]
    BY <1>8, <2>2 DEF Decide, Snapshots
  <2>4. PICK l \in {"denied", "lock", "unmapped", "fail"} : pc' = [pc EXCEPT ![t] = l]
    BY <1>8 DEF Decide
  <2>5. TypeOK'
    BY <1>0, <2>1, <2>3, <2>4 DEF Snapshots
  <2>6. CallInv'
    BY <2>1, <2>4
  <2>. QED
    BY <2>5, <2>6
<1>9. CASE RememberFailed(t)
  BY <1>0, <1>9 DEF RememberFailed
<1>10. CASE Lock(t)
  BY <1>0, <1>10 DEF Lock
<1>11. CASE Exists(t)
  BY <1>0, <1>11 DEF Exists
<1>12. CASE Copy(t)
  BY <1>0, <1>12 DEF Copy
<1>13. CASE CopyFails(t)
  BY <1>0, <1>13 DEF CopyFails
<1>14. CASE Register(t)
  BY <1>0, <1>14 DEF Register
<1>15. CASE RegisterFails(t)
  BY <1>0, <1>15 DEF RegisterFails
<1>16. CASE Check(t)
  BY <1>0, <1>16 DEF Check
<1>17. CASE UnlockMapping(t)
  BY <1>0, <1>17 DEF UnlockMapping
<1>18. CASE Denied(t)
  BY <1>0, <1>18 DEF Denied
<1>19. CASE Unmapped(t)
  BY <1>0, <1>19 DEF Unmapped
<1>20. CASE Open(t)
  BY <1>0, <1>20 DEF Open
<1>21. ASSUME NEW p \in Paths, Route(t, p) PROVE TypeOK' /\ CallInv'
  BY <1>0, <1>21 DEF Route
<1>. QED
  BY <1>1, <1>2, <1>3, <1>4, <1>5, <1>6, <1>7, <1>8, <1>9, <1>10, <1>11, <1>12, <1>13, <1>14,
     <1>15, <1>16, <1>17, <1>18, <1>19, <1>20, <1>21 DEF StepOf, Step

\* Only Register changes the table, and only it asks for its own entry.
LEMMA TableKept ==
  ASSUME TypeOK, CallInv, TableInv, NEW t \in Threads, StepOf(t)
  PROVE  TableInv'
<1> USE ConstantsAreSound DEF Constants, Goto, CallRoute, Answer, Save, mappingVars, writableVars,
   fileVars, threadVars
<1> USE DEF TypeOK, CallInv, Labels, TableInv
<1>0. UNCHANGED scarce
  BY DEF StepOf
<1>1. CASE Look(t)
  BY <1>0, <1>1 DEF Look
<1>2. CASE Prefiltered(t)
  BY <1>0, <1>2 DEF Prefiltered
<1>3. CASE Search(t)
  BY <1>0, <1>3 DEF Search
<1>4. CASE SearchFails(t)
  BY <1>0, <1>4 DEF SearchFails
<1>5. CASE Snapshot(t)
  BY <1>0, <1>5 DEF Snapshot
<1>6. CASE NoSource(t)
  BY <1>0, <1>6 DEF NoSource
<1>7. CASE Registered(t)
  BY <1>0, <1>7 DEF Registered
<1>8. CASE Decide(t)
  BY <1>0, <1>8 DEF Decide
<1>9. CASE RememberFailed(t)
  BY <1>0, <1>9 DEF RememberFailed
<1>10. CASE Lock(t)
  BY <1>0, <1>10 DEF Lock
<1>11. CASE Exists(t)
  BY <1>0, <1>11 DEF Exists
<1>12. CASE Copy(t)
  BY <1>0, <1>12 DEF Copy
<1>13. CASE CopyFails(t)
  BY <1>0, <1>13 DEF CopyFails
<1>14. CASE Register(t)
  BY <1>0, <1>14 DEF Register
<1>15. CASE RegisterFails(t)
  BY <1>0, <1>15 DEF RegisterFails
<1>16. CASE Check(t)
  BY <1>0, <1>16 DEF Check
<1>17. CASE UnlockMapping(t)
  BY <1>0, <1>17 DEF UnlockMapping
<1>18. CASE Denied(t)
  BY <1>0, <1>18 DEF Denied
<1>19. CASE Unmapped(t)
  BY <1>0, <1>19 DEF Unmapped
<1>20. CASE Open(t)
  BY <1>0, <1>20 DEF Open
<1>21. ASSUME NEW p \in Paths, Route(t, p) PROVE TableInv'
  BY <1>0, <1>21 DEF Route
<1>. QED
  BY <1>1, <1>2, <1>3, <1>4, <1>5, <1>6, <1>7, <1>8, <1>9, <1>10, <1>11, <1>12, <1>13, <1>14,
     <1>15, <1>16, <1>17, <1>18, <1>19, <1>20, <1>21 DEF StepOf, Step

\* Exists and Copy let a registration go on only to a file that is there.
LEMMA SeedKept ==
  ASSUME TypeOK, CallInv, SeedInv, NEW t \in Threads, StepOf(t)
  PROVE  SeedInv'
<1> USE ConstantsAreSound DEF Constants, Goto, CallRoute, Answer, Save, mappingVars, writableVars,
   fileVars, threadVars
<1> USE DEF TypeOK, CallInv, Labels, SeedInv
<1>0. UNCHANGED scarce
  BY DEF StepOf
<1>1. CASE Look(t)
  BY <1>0, <1>1 DEF Look
<1>2. CASE Prefiltered(t)
  BY <1>0, <1>2 DEF Prefiltered
<1>3. CASE Search(t)
  BY <1>0, <1>3 DEF Search
<1>4. CASE SearchFails(t)
  BY <1>0, <1>4 DEF SearchFails
<1>5. CASE Snapshot(t)
  BY <1>0, <1>5 DEF Snapshot
<1>6. CASE NoSource(t)
  BY <1>0, <1>6 DEF NoSource
<1>7. CASE Registered(t)
  BY <1>0, <1>7 DEF Registered
<1>8. CASE Decide(t)
  BY <1>0, <1>8 DEF Decide
<1>9. CASE RememberFailed(t)
  BY <1>0, <1>9 DEF RememberFailed
<1>10. CASE Lock(t)
  BY <1>0, <1>10 DEF Lock
<1>11. CASE Exists(t)
  BY <1>0, <1>11 DEF Exists
<1>12. CASE Copy(t)
  BY <1>0, <1>12 DEF Copy
<1>13. CASE CopyFails(t)
  BY <1>0, <1>13 DEF CopyFails
<1>14. CASE Register(t)
  BY <1>0, <1>14 DEF Register
<1>15. CASE RegisterFails(t)
  BY <1>0, <1>15 DEF RegisterFails
<1>16. CASE Check(t)
  BY <1>0, <1>16 DEF Check
<1>17. CASE UnlockMapping(t)
  BY <1>0, <1>17 DEF UnlockMapping
<1>18. CASE Denied(t)
  BY <1>0, <1>18 DEF Denied
<1>19. CASE Unmapped(t)
  BY <1>0, <1>19 DEF Unmapped
<1>20. CASE Open(t)
  BY <1>0, <1>20 DEF Open
<1>21. ASSUME NEW p \in Paths, Route(t, p) PROVE SeedInv'
  BY <1>0, <1>21 DEF Route
<1>. QED
  BY <1>1, <1>2, <1>3, <1>4, <1>5, <1>6, <1>7, <1>8, <1>9, <1>10, <1>11, <1>12, <1>13, <1>14,
     <1>15, <1>16, <1>17, <1>18, <1>19, <1>20, <1>21 DEF StepOf, Step

\* A snapshot is of a state that is Routable.
LEMMA MemoryKept ==
  ASSUME TypeOK, CallInv, MemoryInv, NEW t \in Threads, StepOf(t)
  PROVE  MemoryInv'
<1> USE ConstantsAreSound DEF Constants, Goto, CallRoute, Answer, Save, mappingVars, writableVars,
   fileVars, threadVars
<1> USE DEF TypeOK, CallInv, Labels, MemoryInv, Routable
<1>0. UNCHANGED scarce
  BY DEF StepOf
<1>1. CASE Look(t)
  BY <1>0, <1>1 DEF Look
<1>2. CASE Prefiltered(t)
  BY <1>0, <1>2 DEF Prefiltered
<1>3. CASE Search(t)
  BY <1>0, <1>3 DEF Search
<1>4. CASE SearchFails(t)
  BY <1>0, <1>4 DEF SearchFails
<1>5. CASE Snapshot(t)
  <2>1. PICK r \in IF scarce THEN {root, FALSE} ELSE {root} :
          /\ snapshot' = [snapshot EXCEPT ![t] = [root |-> r, mapped |-> mapped, failed |-> failedToMap]]
          /\ \/ ~r /\ Goto(t, "decide") /\ UNCHANGED back
             \/ r /\ Goto(t, "denied") /\ UNCHANGED back
             \/ r /\ CallRoute(t, "registered")
    BY <1>5 DEF Snapshot
  <2>2. UNCHANGED <<mappingVars, mappingLock, writableVars, fileVars, path, found>> /\ pc[t] = "snapshot"
    BY <1>5 DEF Snapshot
  <2>3. ~scarce => Routable(snapshot'[t])
    BY <2>1
  <2>4. \A u \in Threads \ {t} :
          pc'[u] = pc[u] /\ back'[u] = back[u] /\ snapshot'[u] = snapshot[u]
    BY <2>1
  <2>5. pc'[t] \in {"decide", "denied", "look"} /\ (pc'[t] = "look" => back'[t] = "registered")
    BY <2>1
  <2>. QED
    BY <1>0, <2>2, <2>3, <2>4, <2>5
<1>6. CASE NoSource(t)
  BY <1>0, <1>6 DEF NoSource
<1>7. CASE Registered(t)
  BY <1>0, <1>7 DEF Registered
<1>8. CASE Decide(t)
  BY <1>0, <1>8 DEF Decide
<1>9. CASE RememberFailed(t)
  BY <1>0, <1>9 DEF RememberFailed
<1>10. CASE Lock(t)
  BY <1>0, <1>10 DEF Lock
<1>11. CASE Exists(t)
  BY <1>0, <1>11 DEF Exists
<1>12. CASE Copy(t)
  BY <1>0, <1>12 DEF Copy
<1>13. CASE CopyFails(t)
  BY <1>0, <1>13 DEF CopyFails
<1>14. CASE Register(t)
  BY <1>0, <1>14 DEF Register
<1>15. CASE RegisterFails(t)
  BY <1>0, <1>15 DEF RegisterFails
<1>16. CASE Check(t)
  BY <1>0, <1>16 DEF Check
<1>17. CASE UnlockMapping(t)
  BY <1>0, <1>17 DEF UnlockMapping
<1>18. CASE Denied(t)
  BY <1>0, <1>18 DEF Denied
<1>19. CASE Unmapped(t)
  BY <1>0, <1>19 DEF Unmapped
<1>20. CASE Open(t)
  BY <1>0, <1>20 DEF Open
<1>21. ASSUME NEW p \in Paths, Route(t, p) PROVE MemoryInv'
  BY <1>0, <1>21 DEF Route
<1>. QED
  BY <1>1, <1>2, <1>3, <1>4, <1>5, <1>6, <1>7, <1>8, <1>9, <1>10, <1>11, <1>12, <1>13, <1>14,
     <1>15, <1>16, <1>17, <1>18, <1>19, <1>20, <1>21 DEF StepOf, Step

\* Registering routes to a file that was seeded; files appear and are written, never removed.
LEMMA SeededKept ==
  ASSUME TypeOK, CallInv, TableInv, SeedInv, SeededBeforeRouted, NEW t \in Threads, StepOf(t)
  PROVE  SeededBeforeRouted'
<1> USE ConstantsAreSound DEF Constants, Goto, CallRoute, Answer, Save, mappingVars, writableVars,
   fileVars, threadVars
<1> USE DEF TypeOK, CallInv, Labels, TableInv, SeedInv, SeededBeforeRouted
<1>0. UNCHANGED scarce
  BY DEF StepOf
<1>1. ASSUME UNCHANGED <<writable, original, target>> PROVE SeededBeforeRouted'
  BY <1>0, <1>1
<1>2. CASE Copy(t)
  BY <1>0, <1>2 DEF Copy
<1>3. CASE Register(t)
  <2>1. /\ UNCHANGED fileVars /\ pc[t] = "register" /\ path[t] \in Paths
        /\ \A s \in Saves : writable'[s] = writable[s] \/ (s = Save(t) /\ writable'[s] = TargetOf[s])
    BY <1>3 DEF Register
  <2>. QED
    BY <2>1
<1>4. CASE Open(t)
  BY <1>0, <1>4 DEF Open
<1>. QED
  BY <1>1, <1>2, <1>3, <1>4 DEF StepOf, Step, Look, Prefiltered, Search, SearchFails, Snapshot,
     NoSource, Registered, Decide, RememberFailed, Lock, Exists, CopyFails, RegisterFails,
     Check, UnlockMapping, Denied, Unmapped, Route

\* A registration empties the cache; what is cached after it is the table's answer.
LEMMA AgreesKept ==
  ASSUME TypeOK, CallInv, TableInv, CacheAgreesWithTable, NEW t \in Threads, StepOf(t)
  PROVE  CacheAgreesWithTable'
<1> USE ConstantsAreSound DEF Constants, Goto, CallRoute, Answer, Save, mappingVars, writableVars,
   fileVars, threadVars
<1> USE DEF TypeOK, CallInv, Labels, TableInv, CacheAgreesWithTable
<1>0. UNCHANGED scarce
  BY DEF StepOf
<1>1. CASE Look(t)
  BY <1>0, <1>1 DEF Look
<1>2. CASE Prefiltered(t)
  BY <1>0, <1>2 DEF Prefiltered
<1>3. CASE Search(t)
  BY <1>0, <1>3 DEF Search
<1>4. CASE SearchFails(t)
  BY <1>0, <1>4 DEF SearchFails
<1>5. CASE Snapshot(t)
  BY <1>0, <1>5 DEF Snapshot
<1>6. CASE NoSource(t)
  BY <1>0, <1>6 DEF NoSource
<1>7. CASE Registered(t)
  BY <1>0, <1>7 DEF Registered
<1>8. CASE Decide(t)
  BY <1>0, <1>8 DEF Decide
<1>9. CASE RememberFailed(t)
  BY <1>0, <1>9 DEF RememberFailed
<1>10. CASE Lock(t)
  BY <1>0, <1>10 DEF Lock
<1>11. CASE Exists(t)
  BY <1>0, <1>11 DEF Exists
<1>12. CASE Copy(t)
  BY <1>0, <1>12 DEF Copy
<1>13. CASE CopyFails(t)
  BY <1>0, <1>13 DEF CopyFails
<1>14. CASE Register(t)
  BY <1>0, <1>14 DEF Register
<1>15. CASE RegisterFails(t)
  BY <1>0, <1>15 DEF RegisterFails
<1>16. CASE Check(t)
  BY <1>0, <1>16 DEF Check
<1>17. CASE UnlockMapping(t)
  BY <1>0, <1>17 DEF UnlockMapping
<1>18. CASE Denied(t)
  BY <1>0, <1>18 DEF Denied
<1>19. CASE Unmapped(t)
  BY <1>0, <1>19 DEF Unmapped
<1>20. CASE Open(t)
  BY <1>0, <1>20 DEF Open
<1>21. ASSUME NEW p \in Paths, Route(t, p) PROVE CacheAgreesWithTable'
  BY <1>0, <1>21 DEF Route
<1>. QED
  BY <1>1, <1>2, <1>3, <1>4, <1>5, <1>6, <1>7, <1>8, <1>9, <1>10, <1>11, <1>12, <1>13, <1>14,
     <1>15, <1>16, <1>17, <1>18, <1>19, <1>20, <1>21 DEF StepOf, Step

\* With memory an open that comes to the end of its routing has a route.
LEMMA OriginalsKept ==
  ASSUME TypeOK, CallInv, MemoryInv, OriginalsAreProtectedWithMemory, NEW t \in Threads, StepOf(t)
  PROVE  OriginalsAreProtectedWithMemory'
<1> USE ConstantsAreSound DEF Constants, Goto, CallRoute, Answer, Save, mappingVars, writableVars,
   fileVars, threadVars
<1> USE DEF TypeOK, CallInv, Labels, MemoryInv, OriginalsAreProtectedWithMemory,
   OriginalsAreProtected
<1>0. UNCHANGED scarce
  BY DEF StepOf
<1>1. ASSUME UNCHANGED original PROVE OriginalsAreProtectedWithMemory'
  BY <1>0, <1>1
<1>2. CASE Open(t)
  BY <1>0, <1>2 DEF Open
<1>. QED
  BY <1>1, <1>2 DEF StepOf, Step, Look, Prefiltered, Search, SearchFails, Snapshot, NoSource,
     Registered, Decide, RememberFailed, Lock, Exists, Copy, CopyFails, Register, RegisterFails,
     Check, UnlockMapping, Denied, Unmapped, Route

----------------------------------------------------------------------------
\* Nothing is registered and nobody calls; the extension is mapped or failed.
LEMMA InitIInv == Init => IInv
<1> SUFFICES ASSUME Init PROVE IInv
  OBVIOUS
<1> USE ConstantsAreSound DEF Constants, Init
<1>1. TypeOK /\ CallInv
  BY DEF TypeOK, CallInv, Labels, NoSnapshot
<1>2. TableInv /\ SeedInv /\ MemoryInv
  BY DEF TableInv, SeedInv, MemoryInv
<1>3. SeededBeforeRouted /\ CacheAgreesWithTable /\ OriginalsAreProtectedWithMemory
  BY DEF SeededBeforeRouted, CacheAgreesWithTable, OriginalsAreProtectedWithMemory,
     OriginalsAreProtected
<1> QED BY <1>1, <1>2, <1>3 DEF IInv

\* Every step is one of one thread and keeps each part.
LEMMA NextIInv == IInv /\ [Next]_vars => IInv'
<1> SUFFICES ASSUME IInv, [Next]_vars PROVE IInv'
  OBVIOUS
<1> USE DEF IInv
<1>1. CASE Next
  <2>1. PICK t \in Threads : StepOf(t)
    BY <1>1 DEF Next, StepOf
  <2>2. TypeOK' /\ CallInv'
    BY <2>1, TypesKept
  <2>3. TableInv' /\ SeedInv' /\ MemoryInv'
    BY <2>1, TableKept, SeedKept, MemoryKept
  <2>4. SeededBeforeRouted' /\ CacheAgreesWithTable' /\ OriginalsAreProtectedWithMemory'
    BY <2>1, SeededKept, AgreesKept, OriginalsKept
  <2> QED BY <2>2, <2>3, <2>4
<1>2. CASE UNCHANGED vars
  BY <1>2 DEF vars, mappingVars, writableVars, fileVars, threadVars, TypeOK, CallInv, TableInv,
     SeedInv,
     MemoryInv, Routable, SeededBeforeRouted, CacheAgreesWithTable, OriginalsAreProtectedWithMemory,
     OriginalsAreProtected, Save
<1> QED BY <1>1, <1>2

\* IInv is inductive: for any threads, paths, saves and renamed files it holds in every
\* state of the routing (save_mapping.c:362-440).
THEOREM IInvAlways == Spec => []IInv
<1>1. IInv /\ [Next]_vars => IInv'
  BY NextIInv
<1> QED BY <1>1, InitIInv, PTL DEF Spec

\* A registered save was seeded before anything was routed to it, the negative answers of
\* earlier looks never hide a registration, and with memory for the paths the hook builds
\* the game never writes an original (save_mapping.c:29, 416-436, vfs.c:506).
THEOREM RoutesAreAlwaysSound == Spec => []RoutesAreSound
<1>1. IInv => RoutesAreSound
  BY DEF IInv, RoutesAreSound
<1> QED BY <1>1, IInvAlways, PTL

\* Only Copy and Open change a renamed save: Copy one that is missing, Open to what the game
\* writes (save_mapping.c:423).
LEMMA StepKeepsProgress ==
  ASSUME IInv, NEW t \in Threads, StepOf(t), NEW f \in Targets, target[f] = "game"
  PROVE  target'[f] = "game"
<1> USE ConstantsAreSound DEF Constants, IInv, TypeOK, CallInv, Save, fileVars
<1>1. CASE Copy(t)
  BY <1>1 DEF Copy
<1>2. CASE Open(t)
  BY <1>2 DEF Open
<1>3. CASE UNCHANGED target
  BY <1>3
<1> QED
  BY <1>1, <1>2, <1>3 DEF StepOf, Step, Look, Prefiltered, Search, SearchFails, Snapshot,
     NoSource, Registered, Decide, RememberFailed, Lock, Exists, CopyFails, Register,
     RegisterFails, Check, UnlockMapping, Denied, Unmapped, Route

\* A renamed save the game has written is never replaced by a copy of the original again,
\* whichever thread seeds it (save_mapping.c:423).
THEOREM ProgressIsAlwaysKept == Spec => ProgressIsKept
<1>1. ASSUME IInv, [Next]_vars, NEW f \in Targets, target[f] = "game"
      PROVE  target'[f] = "game"
  <2>1. CASE Next
    BY <1>1, <2>1, StepKeepsProgress DEF Next, StepOf
  <2>2. CASE UNCHANGED vars
    BY <1>1, <2>2 DEF vars, fileVars
  <2> QED BY <1>1, <2>1, <2>2
<1>2. IInv /\ [Next]_vars => [\A f \in Targets : target[f] = "game" => target'[f] = "game"]_vars
  BY <1>1
<1> QED BY <1>2, IInvAlways, PTL DEF Spec, ProgressIsKept
=============================================================================
