--------------------------- MODULE ArxanSchedule ---------------------------
(***************************************************************************)
(* What must run after Arxan's own start-up code (dearxan/disabler.c,      *)
(* entry_point.c): callbacks of several modules of the process share one   *)
(* queue in named memory.  The first call decides how the queue will be    *)
(* drained: by the main thread, when the call of __security_init_cookie in *)
(* its entry point is re-routed before it is made (below SteamStub, when   *)
(* the decrypted entry point is reached), by a worker when the entry point *)
(* has been passed, or at once when neither can be set up.                 *)
(*                                                                         *)
(* A callback may neuter Arxan (patch.c): one module of the process does   *)
(* it, with the other threads suspended unless it runs in the entry point, *)
(* and the others take its result.  What the sections of the shared mutex  *)
(* do is one action each: nothing blocks inside them.                      *)
(***************************************************************************)
EXTENDS Naturals, Sequences, FiniteSets, SequencesExt

CONSTANTS OtherThreads, \* that other modules call from
          Requests,     \* of dearxan_schedule_after_arxan
          Neuters,      \* those of dearxan_neuter_arxan
          InnerCall,    \* the call a callback makes itself, or NoCall
          NoCall,
          Stubs,        \* Arxan stubs of the image
          HiddenIn      \* the stub whose encrypted region hides it, or itself

ASSUME OtherThreadsAssumption == OtherThreads \cap {"main", "worker", "none"} = {}
ASSUME RequestsAssumption ==
    /\ Neuters \subseteq Requests /\ NoCall \notin Requests
    /\ InnerCall \in [Requests -> Requests \cup {NoCall}]
\* Stubs do not hide each other in a circle: the program itself decrypts them.
ASSUME StubsAssumption ==
    /\ HiddenIn \in [Stubs -> Stubs]
    /\ \A S \in SUBSET Stubs : S # {} => \E s \in S : HiddenIn[s] = s \/ HiddenIn[s] \notin S

VARIABLES
    world,      \* what never changes: see Worlds
    game,       \* the main thread's [at, suspended], the image's [steam, target, cookie, hooked]
    sched,      \* the shared [state, queue, detected, image, original]
    worker,     \* post_entry_worker: "none", "waiting", "draining", "over"
    call,       \* for each call [at, pre, thread]
    invoked,    \* for each call its callback [at, thread, executing, detected]
    drain,      \* for each thread [on, batch, executing, detected]
    neuter,     \* [state, result, frozen, found, decrypted, jumped]
    queued,     \* ghost: the calls in the order they were queued in
    ran,        \* ghost: the calls in the order their callbacks were called in
    given       \* ghost: what a callback of Neuters was told

arxanVars == <<world, game, sched, worker, call, invoked, drain, neuter, queued, ran, given>>

Actors == OtherThreads \cup {"main", "worker"}
Inner == {InnerCall[c] : c \in Requests} \ {NoCall}

\* How the process was made: with its main thread suspended, below SteamStub, with
\* Arxan in the image; whether its main thread and its cookie can be found.
Worlds == [created : {"running", "suspended"}, steam : {"absent", "present"}, arxan : BOOLEAN,
           mainFound : BOOLEAN, cookieFound : BOOLEAN]

NotDraining == [on |-> FALSE, batch |-> <<>>, executing |-> FALSE, detected |-> FALSE]

ArxanInit ==
    /\ world \in Worlds
    /\ game = [at |-> "early", suspended |-> world.created = "suspended", steam |-> world.steam,
               target |-> "original", cookie |-> FALSE, hooked |-> FALSE]
    /\ sched = [state |-> 0, queue |-> <<>>, detected |-> FALSE, image |-> FALSE,
                original |-> FALSE]
    /\ worker = "none"
    /\ call \in [Requests -> [at : {"new"}, pre : {FALSE}, thread : OtherThreads \cup {"main"}]]
    /\ invoked = [c \in Requests |-> [at |-> "none", thread |-> "none", executing |-> FALSE,
                                   detected |-> FALSE]]
    /\ drain = [a \in Actors |-> NotDraining]
    /\ neuter = [state |-> 0, result |-> "none", frozen |-> {}, found |-> {}, decrypted |-> {},
                 jumped |-> {}]
    /\ queued = <<>> /\ ran = <<>> /\ given = [c \in Requests |-> "none"]

Free(a) == a \notin neuter.frozen /\ (a = "main" => ~game.suspended)

Callbacks(a) == {c \in Requests : invoked[c].thread = a /\ invoked[c].at # "over"}
Underway(a) == {c \in Requests : call[c].thread = a /\ call[c].at \notin {"new", "done", "served"}}

At(c, place) == call' = [call EXCEPT ![c].at = place]
Waiting(c, place) == call[c].at = place /\ Free(call[c].thread)
CallbackAt(c, place) == invoked' = [invoked EXCEPT ![c].at = place]
Running(c, place) == invoked[c].at = place /\ Free(invoked[c].thread)

ghosts == <<queued, ran, given>>

----------------------------------------------------------------------------
(* The place of the entry point *)

\* process_main_thread: by the address its thread started at.
MainThreadFound == world.mainFound
\* thread_created_suspended.
MainCreatedSuspended == game.suspended
\* get_gs_cookie: by the references to it, or in the load configuration.
CookieFound == world.cookieFound

\* Mutant: whoever asks, only a suspended main thread has not reached its entry point.
PreSuspendedOnly(a) == MainThreadFound => MainCreatedSuspended

\* dearxan_is_pre_entry_point: the main thread looks at the cookie, the others whether
\* the main thread was created suspended.
PreEntryPoint(a) ==
    MainThreadFound =>
        IF a = "main" THEN CookieFound /\ ~game.cookie ELSE MainCreatedSuspended

\* dearxan_wait_for_gs_cookie, or a second's sleep when there is none to wait for.
CookieAwaited == CookieFound => game.cookie

----------------------------------------------------------------------------
(* A call of dearxan_schedule_after_arxan *)

\* A thread makes one call at a time; the main thread makes its own before its entry
\* point.
Call(c) ==
    LET a == call[c].thread
    IN /\ call[c].at = "new" /\ c \notin Inner
       /\ Free(a) /\ Underway(a) = {}
       /\ a = "main" => game.at = "early"
       /\ At(c, "started")
       /\ UNCHANGED <<world, game, sched, worker, invoked, drain, neuter, ghosts>>

\* Whether the entry point is still ahead is asked before the mutex is taken.
Ask(c) ==
    /\ Waiting(c, "started")
    /\ call' = [call EXCEPT ![c].at = "asked",
                            ![c].pre = sched.image => PreEntryPoint(call[c].thread)]
    /\ UNCHANGED <<world, game, sched, worker, invoked, drain, neuter, ghosts>>

Invoke(c, a, executing, detected) ==
    invoked' = [invoked EXCEPT ![c] = [at |-> "begun", thread |-> a, executing |-> executing,
                                       detected |-> detected]]

\* Without the shared memory, or memory for the node, the callback is called at once.
CallAtOnce(c) ==
    /\ Waiting(c, "started")
    /\ At(c, "calling")
    /\ Invoke(c, call[c].thread, FALSE, FALSE)
    /\ UNCHANGED <<world, game, sched, worker, drain, neuter, ghosts>>

\* dearxan_neuter_arxan without memory for its context.
NoContext(c) ==
    /\ Waiting(c, "started") /\ c \in Neuters
    /\ At(c, "calling")
    /\ invoked' = [invoked EXCEPT ![c].at = "body", ![c].thread = call[c].thread]
    /\ ran' = Append(ran, c) /\ given' = [given EXCEPT ![c] = "no memory"]
    /\ UNCHANGED <<world, game, sched, worker, drain, neuter, queued>>

Enqueue(c) ==
    /\ Waiting(c, "asked")
    /\ \/ /\ sched.state = 3
          /\ At(c, "calling")
          /\ Invoke(c, call[c].thread, FALSE, sched.detected)
          /\ UNCHANGED <<sched, queued>>
       \/ /\ sched.state # 3
          /\ sched' = [sched EXCEPT !.queue = Append(@, c), !.state = IF @ = 0 THEN 1 ELSE @]
          /\ queued' = Append(queued, c)
          /\ At(c, IF sched.state = 0 THEN "first" ELSE "queued")
          /\ UNCHANGED invoked
    /\ UNCHANGED <<world, game, worker, drain, neuter, ran, given>>

CalledAtOnce(c) ==
    /\ Waiting(c, "calling") /\ invoked[c].at = "over"
    /\ At(c, "done")
    /\ UNCHANGED <<world, game, sched, worker, invoked, drain, neuter, ghosts>>

\* Past the entry point a call waits for the drain, unless it is made from one.
AfterEnqueue(c) ==
    /\ Waiting(c, "queued")
    /\ At(c, IF ~call[c].pre /\ sched.state # 2 THEN "waiting" ELSE "done")
    /\ UNCHANGED <<world, game, sched, worker, invoked, drain, neuter, ghosts>>

Served(c) ==
    /\ Waiting(c, "waiting") /\ sched.state = 3
    /\ At(c, "served")
    /\ UNCHANGED <<world, game, sched, worker, invoked, drain, neuter, ghosts>>

----------------------------------------------------------------------------
(* initialize_schedule, by the first call *)

\* The image is known, and whether SteamStub covers it.
Probe(c) ==
    /\ Waiting(c, "first")
    /\ \/ sched' = [sched EXCEPT !.image = TRUE] /\ At(c, "probed")
       \/ sched' \in {sched, [sched EXCEPT !.image = TRUE]} /\ At(c, "failed")
    /\ UNCHANGED <<world, game, worker, invoked, drain, neuter, ghosts>>

\* Past the entry point the image is only looked at; what cannot be parsed fails,
\* except below SteamStub.
DecideHook(c) ==
    /\ Waiting(c, "probed")
    /\ \/ /\ PreEntryPoint(call[c].thread)
          /\ At(c, IF world.steam = "present" THEN "wrap" ELSE "hook")
          /\ UNCHANGED sched
       \/ /\ ~PreEntryPoint(call[c].thread)
          /\ \/ sched' = [sched EXCEPT !.detected = world.arxan] /\ At(c, "post")
             \/ UNCHANGED sched /\ At(c, IF world.steam = "present" THEN "post" ELSE "failed")
    /\ UNCHANGED <<world, game, worker, invoked, drain, neuter, ghosts>>

StartWorker(c) ==
    /\ Waiting(c, "post")
    /\ \/ worker' = "waiting" /\ At(c, "done")
       \/ UNCHANGED worker /\ At(c, "failed")
    /\ UNCHANGED <<world, game, sched, invoked, drain, neuter, ghosts>>

\* install_schedule_hook: the entry point can be parsed, then its call be re-routed.
Hooked ==
    /\ sched' = [sched EXCEPT !.original = TRUE, !.detected = world.arxan]
    /\ game' = [game EXCEPT !.target = "detour", !.hooked = TRUE]
NotHooked ==
    /\ sched' \in {sched, [sched EXCEPT !.original = TRUE, !.detected = world.arxan]}
    /\ UNCHANGED game

InstallHook(c) ==
    /\ Waiting(c, "hook")
    /\ \/ Hooked /\ At(c, "done")
       \/ NotHooked /\ At(c, "failed")
    /\ UNCHANGED <<world, worker, invoked, drain, neuter, ghosts>>

\* dearxan_steamstub_patch: the header may be written and its strings not.
WrapSteamStub(c) ==
    /\ Waiting(c, "wrap")
    /\ \/ game' = [game EXCEPT !.steam = "patched"] /\ At(c, "done")
       \/ game' \in {game, [game EXCEPT !.steam = "broken"]} /\ At(c, "failed")
    /\ UNCHANGED <<world, sched, worker, invoked, drain, neuter, ghosts>>

----------------------------------------------------------------------------
(* flush_callbacks *)

\* Mutant: the queue is taken without the state being told.
FlushUntold(a, executing, detected) ==
    /\ sched' = [sched EXCEPT !.queue = <<>>, !.detected = detected]
    /\ drain' = [drain EXCEPT ![a] = [on |-> TRUE, batch |-> sched.queue, executing |-> executing,
                                      detected |-> detected]]

Flush(a, executing, detected) ==
    /\ sched' = [sched EXCEPT !.state = 2, !.queue = <<>>, !.detected = detected]
    /\ drain' = [drain EXCEPT ![a] = [on |-> TRUE, batch |-> sched.queue, executing |-> executing,
                                      detected |-> detected]]

FlushFailed(c) ==
    /\ Waiting(c, "failed")
    /\ Flush(call[c].thread, FALSE, FALSE)
    /\ At(c, "flushing")
    /\ UNCHANGED <<world, game, worker, invoked, neuter, ghosts>>

Flushed(c) ==
    /\ Waiting(c, "flushing") /\ ~drain[call[c].thread].on
    /\ At(c, "done")
    /\ UNCHANGED <<world, game, sched, worker, invoked, drain, neuter, ghosts>>

Draining(a) == drain[a].on /\ Free(a) /\ Callbacks(a) = {}

InvokeNext(a) ==
    /\ Draining(a) /\ drain[a].batch # <<>>
    /\ Invoke(Head(drain[a].batch), a, drain[a].executing, drain[a].detected)
    /\ drain' = [drain EXCEPT ![a].batch = Tail(@)]
    /\ UNCHANGED <<world, game, sched, worker, call, neuter, ghosts>>

\* Mutant: what was queued during the drain is left.
FinishAtOnce(a) ==
    /\ Draining(a) /\ drain[a].batch = <<>>
    /\ sched' = [sched EXCEPT !.state = 3]
    /\ drain' = [drain EXCEPT ![a] = NotDraining]
    /\ UNCHANGED <<world, game, worker, call, invoked, neuter, ghosts>>

\* Callbacks queued meanwhile are taken as well; the drain is over when there are none.
DrainMore(a) ==
    /\ Draining(a) /\ drain[a].batch = <<>>
    /\ \/ /\ sched.queue # <<>>
          /\ sched' = [sched EXCEPT !.queue = <<>>]
          /\ drain' = [drain EXCEPT ![a].batch = sched.queue]
       \/ /\ sched.queue = <<>>
          /\ sched' = [sched EXCEPT !.state = 3]
          /\ drain' = [drain EXCEPT ![a] = NotDraining]
    /\ UNCHANGED <<world, game, worker, call, invoked, neuter, ghosts>>

----------------------------------------------------------------------------
(* The main thread, and the worker *)

\* The launcher resumes the main thread when its remote thread has returned.
Resume ==
    /\ game.suspended
    /\ \A a \in OtherThreads : Underway(a) = {}
    /\ game' = [game EXCEPT !.suspended = FALSE]
    /\ UNCHANGED <<world, sched, worker, call, invoked, drain, neuter, ghosts>>

\* SteamStub decrypts the image and goes to the entry point its header names.
LeaveLoader ==
    /\ game.at = "early" /\ Free("main") /\ Underway("main") = {} /\ game.steam # "broken"
    /\ game' = [game EXCEPT !.at = IF game.steam = "patched" THEN "stub" ELSE "entry"]
    /\ UNCHANGED <<world, sched, worker, call, invoked, drain, neuter, ghosts>>

\* steamstub_entrypoint_detour: only now the entry point can be parsed.
StubDetour ==
    /\ game.at = "stub" /\ Free("main")
    /\ \/ /\ game' = [game EXCEPT !.at = "entry", !.target = "detour", !.hooked = TRUE]
          /\ sched' = [sched EXCEPT !.original = TRUE, !.detected = world.arxan]
          /\ UNCHANGED drain
       \/ /\ Flush("main", TRUE, FALSE)
          /\ game' = [game EXCEPT !.at = "stub drain"]
    /\ UNCHANGED <<world, worker, call, invoked, neuter, ghosts>>

StubDrained ==
    /\ game.at = "stub drain" /\ Free("main") /\ ~drain["main"].on
    /\ game' = [game EXCEPT !.at = "entry"]
    /\ UNCHANGED <<world, sched, worker, call, invoked, drain, neuter, ghosts>>

\* The first call of the entry point; the detour puts it back first.
InitCookie ==
    /\ game.at = "entry" /\ Free("main")
    /\ \/ /\ game.target = "original"
          /\ game' = [game EXCEPT !.at = "main", !.cookie = TRUE]
       \/ /\ game.target = "detour"
          /\ \E target \in {"original", "detour"} :
                game' = [game EXCEPT !.at = "cookie", !.cookie = TRUE, !.target = target]
    /\ UNCHANGED <<world, sched, worker, call, invoked, drain, neuter, ghosts>>

CookieDetour ==
    /\ game.at = "cookie" /\ Free("main")
    /\ Flush("main", TRUE, sched.detected)
    /\ game' = [game EXCEPT !.at = "drain"]
    /\ UNCHANGED <<world, worker, call, invoked, neuter, ghosts>>

EnterMain ==
    /\ game.at = "drain" /\ Free("main") /\ ~drain["main"].on
    /\ game' = [game EXCEPT !.at = "main"]
    /\ UNCHANGED <<world, sched, worker, call, invoked, drain, neuter, ghosts>>

\* post_entry_worker.
WorkerFlush ==
    /\ worker = "waiting" /\ Free("worker")
    /\ CookieAwaited
    /\ Flush("worker", FALSE, sched.detected)
    /\ worker' = "draining"
    /\ UNCHANGED <<world, game, call, invoked, neuter, ghosts>>

WorkerEnds ==
    /\ worker = "draining" /\ Free("worker") /\ ~drain["worker"].on
    /\ worker' = "over"
    /\ UNCHANGED <<world, game, sched, call, invoked, drain, neuter, ghosts>>

----------------------------------------------------------------------------
(* A callback *)

\* The user's own callback is reached.
Reached(c, told) == ran' = Append(ran, c) /\ given' = [given EXCEPT ![c] = told]

\* Mutant: whoever comes neuters.
BeginEveryone(c) ==
    /\ Running(c, "begun")
    /\ \/ /\ c \in Neuters /\ invoked[c].detected
          /\ neuter' = [neuter EXCEPT !.state = 1]
          /\ CallbackAt(c, "neuter")
          /\ UNCHANGED <<ran, given>>
       \/ /\ ~(c \in Neuters /\ invoked[c].detected)
          /\ CallbackAt(c, "body")
          /\ Reached(c, IF c \in Neuters THEN "absent" ELSE "plain")
          /\ UNCHANGED neuter
    /\ UNCHANGED <<world, game, sched, worker, call, drain, queued>>

\* neuter_after_arxan, get_neuter_result: the first one neuters.
Begin(c) ==
    /\ Running(c, "begun")
    /\ \/ /\ c \in Neuters /\ invoked[c].detected
          /\ neuter' = [neuter EXCEPT !.state = IF @ = 0 THEN 1 ELSE @]
          /\ CallbackAt(c, IF neuter.state = 0 THEN "neuter" ELSE "await")
          /\ UNCHANGED <<ran, given>>
       \/ /\ ~(c \in Neuters /\ invoked[c].detected)
          /\ CallbackAt(c, "body")
          /\ Reached(c, IF c \in Neuters THEN "absent" ELSE "plain")
          /\ UNCHANGED neuter
    /\ UNCHANGED <<world, game, sched, worker, call, drain, queued>>

Await(c) ==
    /\ Running(c, "await") /\ neuter.state = 2
    /\ CallbackAt(c, "body") /\ Reached(c, neuter.result)
    /\ UNCHANGED <<world, game, sched, worker, call, drain, neuter, queued>>

\* A callback may schedule another one, and goes on when that call has returned.
CallInner(c) ==
    LET n == InnerCall[c]
    IN /\ Running(c, "body") /\ n # NoCall /\ call[n].at = "new"
       /\ call' = [call EXCEPT ![n].at = "started", ![n].thread = invoked[c].thread]
       /\ CallbackAt(c, "inner")
       /\ UNCHANGED <<world, game, sched, worker, drain, neuter, ghosts>>

Return(c) ==
    /\ \/ Running(c, "body") /\ InnerCall[c] = NoCall
       \/ Running(c, "inner") /\ call[InnerCall[c]].at \in {"done", "served"}
    /\ CallbackAt(c, "over")
    /\ UNCHANGED <<world, game, sched, worker, call, drain, neuter, ghosts>>

----------------------------------------------------------------------------
(* neuter_once, dearxan_apply_stub_patches *)

\* Outside the entry point the other threads are suspended, but one that could not be is
\* passed over; without memory it fails.
Suspend(c) ==
    /\ Running(c, "neuter")
    /\ \/ /\ invoked[c].executing
          /\ CallbackAt(c, "analyze")
          /\ UNCHANGED neuter
       \/ /\ ~invoked[c].executing
          /\ \E missed \in {{}} \cup {{a} : a \in Actors} :
                neuter' = [neuter EXCEPT !.frozen = Actors \ ({invoked[c].thread} \cup missed)]
          /\ CallbackAt(c, "analyze")
       \/ /\ ~invoked[c].executing
          /\ neuter' = [neuter EXCEPT !.result = "error"]
          /\ CallbackAt(c, "publish")
    /\ UNCHANGED <<world, game, sched, worker, call, drain, ghosts>>

\* What can be seen of the stubs and has not been patched yet.
Seen == {s \in Stubs : HiddenIn[s] = s \/ HiddenIn[s] \in neuter.decrypted} \ neuter.jumped

\* The image, its sections or the analysis may fail.
AnalysisFails(c) ==
    /\ Running(c, "analyze")
    /\ neuter' = [neuter EXCEPT !.result = "error"]
    /\ CallbackAt(c, "resume")
    /\ UNCHANGED <<world, game, sched, worker, call, drain, ghosts>>

\* Mutant: one pass is believed to have seen all stubs.
AnalyzeOnce(c) ==
    /\ Running(c, "analyze")
    /\ neuter' = [neuter EXCEPT !.found = IF neuter.found = {} THEN Seen ELSE {},
                                !.result = IF neuter.found = {} /\ Seen # {} THEN @ ELSE "ok"]
    /\ CallbackAt(c, IF neuter.found = {} /\ Seen # {} THEN "decrypt" ELSE "resume")
    /\ UNCHANGED <<world, game, sched, worker, call, drain, ghosts>>

\* The image is analyzed again until a pass finds no stub: regions that were decrypted
\* may hold others.
Analyze(c) ==
    /\ Running(c, "analyze")
    /\ neuter' = [neuter EXCEPT !.found = Seen, !.result = IF Seen = {} THEN "ok" ELSE @]
    /\ CallbackAt(c, IF Seen = {} THEN "resume" ELSE "decrypt")
    /\ UNCHANGED <<world, game, sched, worker, call, drain, ghosts>>

\* All regions of a pass are written before its first jump; either may stop half-way.
Decrypt(c) ==
    /\ Running(c, "decrypt")
    /\ \E some \in SUBSET neuter.found :
          /\ neuter' = [neuter EXCEPT !.decrypted = @ \cup some,
                                      !.result = IF some = neuter.found THEN @ ELSE "error"]
          /\ CallbackAt(c, IF some = neuter.found THEN "jump" ELSE "resume")
    /\ UNCHANGED <<world, game, sched, worker, call, drain, ghosts>>

Jump(c) ==
    /\ Running(c, "jump")
    /\ \E some \in SUBSET neuter.found :
          /\ neuter' = [neuter EXCEPT !.jumped = @ \cup some,
                                      !.result = IF some = neuter.found THEN @ ELSE "error"]
          /\ CallbackAt(c, IF some = neuter.found THEN "analyze" ELSE "resume")
    /\ UNCHANGED <<world, game, sched, worker, call, drain, ghosts>>

ResumeOthers(c) ==
    /\ Running(c, "resume")
    /\ neuter' = [neuter EXCEPT !.frozen = {}]
    /\ CallbackAt(c, "publish")
    /\ UNCHANGED <<world, game, sched, worker, call, drain, ghosts>>

Publish(c) ==
    /\ Running(c, "publish")
    /\ neuter' = [neuter EXCEPT !.state = 2]
    /\ CallbackAt(c, "body") /\ Reached(c, neuter.result)
    /\ UNCHANGED <<world, game, sched, worker, call, drain, queued>>

----------------------------------------------------------------------------
CallStep(c) ==
    \/ Call(c) \/ Ask(c) \/ CallAtOnce(c) \/ NoContext(c) \/ Enqueue(c) \/ CalledAtOnce(c)
    \/ AfterEnqueue(c) \/ Served(c) \/ Probe(c) \/ DecideHook(c) \/ StartWorker(c)
    \/ InstallHook(c) \/ WrapSteamStub(c)
    \/ FlushFailed(c) \/ Flushed(c)

CallbackStep(c) ==
    \/ Begin(c) \/ Await(c) \/ CallInner(c) \/ Return(c)
    \/ Suspend(c) \/ AnalysisFails(c) \/ Analyze(c) \/ Decrypt(c) \/ Jump(c) \/ ResumeOthers(c)
    \/ Publish(c)

ArxanNext ==
    \/ \E c \in Requests : CallStep(c) \/ CallbackStep(c)
    \/ \E a \in Actors : InvokeNext(a) \/ DrainMore(a)
    \/ Resume \/ LeaveLoader \/ StubDetour \/ StubDrained
    \/ InitCookie \/ CookieDetour \/ EnterMain
    \/ WorkerFlush \/ WorkerEnds

ArxanSpec == ArxanInit /\ [][ArxanNext]_arxanVars

----------------------------------------------------------------------------
(* Properties *)

CallPlaces == {"new", "started", "asked", "calling", "first", "queued", "waiting", "served",
               "probed", "wrap", "hook", "post", "failed", "flushing", "done"}
CallbackPlaces == {"none", "begun", "neuter", "analyze", "decrypt", "jump", "resume", "publish",
                   "await", "body", "inner", "over"}

\* The type invariant.
ArxanTypeOK ==
    /\ world \in Worlds
    /\ game.at \in {"early", "stub", "stub drain", "entry", "cookie", "drain", "main"}
    /\ game.steam \in {"absent", "present", "patched", "broken"}
    /\ sched.state \in 0..3 /\ ToSet(sched.queue) \subseteq Requests
    /\ \A c \in Requests : call[c].at \in CallPlaces /\ invoked[c].at \in CallbackPlaces
    /\ neuter.frozen \subseteq Actors /\ neuter.state \in 0..2

\* The callbacks in the queue are called once each, in the order they were queued in, by
\* one drain; when it is complete none is left, and none is queued after it.
QueuedCallbacksRunInOrder ==
    /\ IsInjective(ran)
    /\ \A i, j \in DOMAIN queued : i < j /\ queued[j] \in ToSet(ran) =>
          \E k, l \in DOMAIN ran : k < l /\ ran[k] = queued[i] /\ ran[l] = queued[j]
    /\ Cardinality({a \in Actors : drain[a].on}) <= 1
    /\ sched.state = 3 => /\ sched.queue = <<>>
                          /\ \A c \in ToSet(queued) : invoked[c].at = "over"

\* The game's own main begins when the callbacks have run that were to run before it, and
\* a callback is told it runs in the entry point only there.
CallbacksPrecedeMain ==
    /\ world.mainFound /\ game.hooked /\ game.at = "main" => sched.state = 3
    /\ \A c \in Requests : invoked[c].executing /\ invoked[c].at # "over" =>
          invoked[c].thread = "main" /\ game.at \in {"stub drain", "drain"}

\* Somebody will drain the queue: is at it, is about to set it up, or will get there
\* without those that wait for it.
MainWaits == \E c \in Requests : call[c].thread = "main" /\ call[c].at = "waiting"
DrainIsComing ==
    \/ \E a \in Actors : drain[a].on
    \/ \E c \in Requests : call[c].at \in {"first", "probed", "wrap", "hook", "post", "failed"}
    \/ worker = "waiting" /\ (game.cookie \/ ~MainWaits)
    \/ /\ ~MainWaits
       /\ \/ game.target = "detour" /\ game.at \in {"early", "stub", "entry"}
          \/ game.steam = "patched" /\ game.at \in {"early", "stub"}
          \/ game.at = "cookie"

\* Who waits for the drain is served, and is not the one to do it.
WaitersAreServed ==
    world.mainFound /\ world.cookieFound /\ game.steam # "broken" =>
        \A c \in Requests : call[c].at = "waiting" /\ sched.state # 3 =>
            DrainIsComing /\ ~drain[call[c].thread].on

Neutering == {c \in Requests : invoked[c].at \in {"neuter", "analyze", "decrypt", "jump", "resume",
                                               "publish"}}

\* Arxan is neutered once, by a thread that runs, and nobody stays suspended; all who
\* asked are told the same; it is not called a success while a stub is left.
NeuteredOnceAndWhole ==
    /\ Cardinality(Neutering) <= 1
    /\ \A c \in Neutering : Free(invoked[c].thread)
    /\ Neutering = {} => neuter.frozen = {}
    /\ \A c \in Requests :
          given[c] \in {"ok", "error"} => neuter.state = 2 /\ given[c] = neuter.result
    /\ neuter.result = "ok" => neuter.jumped = Stubs
    /\ neuter.jumped \subseteq neuter.decrypted

\* What the modules of a process may rely on of dearxan_schedule_after_arxan and
\* dearxan_neuter_arxan.
SchedulingIsSound ==
    /\ ArxanTypeOK
    /\ QueuedCallbacksRunInOrder
    /\ CallbacksPrecedeMain
    /\ WaitersAreServed
    /\ NeuteredOnceAndWhole
=============================================================================
