---------------------------- MODULE StartupProofs ----------------------------
(***************************************************************************)
(* Proofs about the start of the process: ArxanSchedule, for any modules   *)
(* that schedule any callbacks, in every way the process can be made; and  *)
(* Startup with Selections, for every configuration the loader has, every  *)
(* machine and every set of overrides.                                     *)
(***************************************************************************)
EXTENDS ArxanSchedule, Startup, FiniteSetTheorems, SequenceTheorems, WellFoundedInduction, TLAPS

----------------------------------------------------------------------------
(* ArxanSchedule: what always holds of its variables.                       *)

GamePlaces == {"early", "stub", "stub drain", "entry", "cookie", "drain", "main"}
Told == {"none", "plain", "no memory", "absent", "ok", "error"}

\* What the variables are.
GameType ==
  game \in [at : GamePlaces, suspended : BOOLEAN,
            steam : {"absent", "present", "patched", "broken"},
            target : {"original", "detour"}, cookie : BOOLEAN, hooked : BOOLEAN]
SchedType ==
  sched \in [state : 0..3, queue : Seq(Requests), detected : BOOLEAN, image : BOOLEAN,
             original : BOOLEAN]
CallType == call \in [Requests -> [at : CallPlaces, pre : BOOLEAN, thread : Actors]]
InvokedType ==
  invoked \in [Requests -> [at : CallbackPlaces, thread : Actors \cup {"none"},
                            executing : BOOLEAN, detected : BOOLEAN]]
DrainType ==
  drain \in [Actors -> [on : BOOLEAN, batch : Seq(Requests), executing : BOOLEAN,
                        detected : BOOLEAN]]
NeuterType ==
  neuter \in [state : 0..2, result : {"none", "ok", "error"}, frozen : SUBSET Actors,
              found : SUBSET Stubs, decrypted : SUBSET Stubs, jumped : SUBSET Stubs]
GhostType == queued \in Seq(Requests) /\ ran \in Seq(Requests) /\ given \in [Requests -> Told]
WorkerType == worker \in {"none", "waiting", "draining", "over"}
Types == /\ world \in Worlds /\ GameType /\ SchedType /\ WorkerType /\ CallType /\ InvokedType
         /\ DrainType /\ NeuterType /\ GhostType

\* A call that prepares the drain.
Preparing == {"first", "probed", "wrap", "hook", "post", "failed"}
\* Where a call is before it has found out whether it is queued.
Undecided == {"new", "started", "asked"}
\* Where a thread is at the call, not at a callback it makes.
AtCall == {"started", "asked", "queued", "waiting"} \cup Preparing
\* Where a callback is not under way.
Idle == {"none", "over"}
IsQueued(c) == c \in ToSet(queued)
IsUnderway(c) == call[c].at \notin {"new", "done", "served"}

\* The call of a callback.
CalledAt(c) ==
  /\ call[c].at \in Undecided => invoked[c].at = "none" /\ ~IsQueued(c)
  /\ call[c].at = "calling" =>
       ~IsQueued(c) /\ invoked[c].at # "none" /\ invoked[c].thread = call[c].thread
  /\ call[c].at \in Preparing \cup {"queued", "waiting", "served", "flushing"} => IsQueued(c)
  /\ call[c].at = "done" /\ ~IsQueued(c) => invoked[c].at = "over"
  /\ call[c].at = "new" => call[c].thread \in OtherThreads \cup {"main"}
  /\ invoked[c].at # "none" => invoked[c].thread \in Actors
  /\ invoked[c].at = "none" => ~invoked[c].executing
CalledInv == \A c \in Requests : CalledAt(c)

\* How many calls were queued that the batch of a and the queue do not hold.
Taken(a) == Len(queued) - Len(sched.queue) - Len(drain[a].batch)

\* The queue and the batch are the end of what was queued, which was not called yet.
QueueInv ==
  /\ IsInjective(queued)
  /\ Len(sched.queue) <= Len(queued)
  /\ \A i \in DOMAIN sched.queue : sched.queue[i] = queued[Len(queued) - Len(sched.queue) + i]
  /\ \A a \in Actors :
       /\ Taken(a) >= 0
       /\ \A i \in DOMAIN drain[a].batch : drain[a].batch[i] = queued[Taken(a) + i]
  /\ \A i \in DOMAIN queued :
       invoked[queued[i]].at = "none" <=> \E a \in Actors : i > Taken(a)

\* A callback that was queued is called by the one drain, one at a time.
DrainInv ==
  /\ \A a, b \in Actors : drain[a].on /\ drain[b].on => a = b
  /\ \A a \in Actors : ~drain[a].on => drain[a] = NotDraining
  /\ sched.state = 2 <=> \E a \in Actors : drain[a].on
  /\ \A c \in Requests : IsQueued(c) /\ invoked[c].at \notin Idle => drain[invoked[c].thread].on
  /\ \A c, d \in Requests : /\ IsQueued(c) /\ invoked[c].at \notin Idle
                            /\ IsQueued(d) /\ invoked[d].at \notin Idle
                            => c = d
  /\ sched.state = 0 => queued = <<>>
  /\ sched.state = 3 => \A c \in Requests : IsQueued(c) => invoked[c].at = "over"

\* The callbacks that were reached.
RanInv ==
  /\ IsInjective(ran)
  /\ \A c \in Requests : c \in ToSet(ran) <=> invoked[c].at \in {"body", "inner", "over"}
  /\ \A i, j \in DOMAIN queued : i < j /\ queued[j] \in ToSet(ran) =>
        \E k, l \in DOMAIN ran : k < l /\ ran[k] = queued[i] /\ ran[l] = queued[j]

\* One call or hook is to drain the queue.
Prepares == \E c \in Requests : call[c].at \in Preparing
PrepareInv ==
  /\ \A c, d \in Requests : call[c].at \in Preparing /\ call[d].at \in Preparing => c = d
  /\ Prepares => /\ sched.state = 1 /\ worker = "none" /\ game.target = "original"
                 /\ game.at \in {"early", "entry", "main"} /\ game.steam # "patched"
                 /\ ~game.hooked
  /\ world.mainFound => \A c \in Requests : call[c].at \in {"wrap", "hook"} =>
       game.at = "early" /\ (call[c].thread = "main" \/ game.suspended)

\* Where the main thread is, and what it will meet.
SteamIsAhead == game.steam = "patched" /\ game.at \in {"early", "stub"}
UnscheduledInv ==
  sched.state = 0 => /\ game.target = "original" /\ game.steam # "patched" /\ ~game.hooked
                     /\ game.at \in {"early", "entry", "main"} /\ worker = "none"
WorkerInv ==
  /\ worker = "waiting" => /\ sched.state = 1 /\ game.target = "original"
                           /\ game.at \in {"early", "entry", "main"} /\ game.steam # "patched"
  /\ worker \in {"draining", "over"} => sched.state \in {2, 3}
AheadInv ==
  /\ SteamIsAhead => sched.state = 1 /\ game.target = "original" /\ worker = "none"
  /\ game.target = "detour" => worker = "none"
  /\ game.target = "detour" /\ game.at \in {"early", "stub", "entry"} => sched.state = 1
  /\ game.at = "cookie" => sched.state = 1 /\ worker = "none"
DrainPlaceInv ==
  game.at \in {"stub drain", "drain"} =>
    sched.state \in {2, 3} /\ (sched.state = 2 => drain["main"].on)
GameInv ==
  /\ game.at = "stub" => game.steam = "patched"
  /\ game.at = "stub drain" => game.target = "original"
  /\ game.hooked => game.target = "detour" \/ game.at \in {"cookie", "drain", "main"}
  /\ game.cookie => game.at \in {"cookie", "drain", "main"}
  /\ game.suspended => game.at = "early"
HookedInv == world.mainFound /\ game.hooked /\ game.at = "main" => sched.state = 3
PlaceInv == /\ UnscheduledInv /\ WorkerInv /\ AheadInv /\ DrainPlaceInv /\ GameInv /\ HookedInv

\* Who is at a drain.
DrainerInv ==
  \A a \in Actors : drain[a].on =>
    \/ a = "worker" /\ worker = "draining"
    \/ a = "main" /\ game.at \in {"stub drain", "drain"}
    \/ \E c \in Requests : call[c].thread = a /\ call[c].at = "flushing"

\* A thread is at one call or in one callback; the others of it wait.
Busy(c) == invoked[c].at \notin Idle \cup {"inner"}
OneFrameInv ==
  /\ \A c, d \in Requests :
       call[c].at \in AtCall /\ call[d].at \in AtCall /\ call[c].thread = call[d].thread => c = d
  /\ \A c, d \in Requests : Busy(c) /\ Busy(d) /\ invoked[c].thread = invoked[d].thread => c = d
  /\ \A c, d \in Requests : ~(call[c].at \in AtCall /\ Busy(d) /\ call[c].thread = invoked[d].thread)
ParentInv ==
  \A c \in Requests : IsUnderway(c) /\ c \in Inner =>
    \E p \in Requests : /\ InnerCall[p] = c /\ invoked[p].at = "inner"
                        /\ invoked[p].thread = call[c].thread
\* The calls of a thread that drains are those of the callbacks, and all are of those that
\* cannot call before the entry point.
NestedInv ==
  \A c \in Requests : call[c].at \in AtCall /\ drain[call[c].thread].on => c \in Inner
LateInv ==
  \A c \in Requests :
    IsUnderway(c) /\ (call[c].thread = "worker" \/ (call[c].thread = "main" /\ game.at # "early")) =>
      drain[call[c].thread].on /\ c \in Inner
AwakeInv ==
  game.suspended => /\ \A c \in Requests : IsUnderway(c) => call[c].thread # "main"
                    /\ \A c \in Requests : invoked[c].thread # "main"
                    /\ ~drain["main"].on
FrameInv == /\ OneFrameInv /\ ParentInv /\ NestedInv /\ LateInv /\ AwakeInv

\* A callback that is told it runs in the entry point.
ExecutingInv ==
  /\ \A a \in Actors : drain[a].executing => a = "main" /\ game.at \in {"stub drain", "drain"}
  /\ \A c \in Requests : invoked[c].executing /\ invoked[c].at # "over" =>
       invoked[c].thread = "main" /\ drain["main"].on /\ drain["main"].executing

\* Whoever waits does not keep the main thread from draining.
WaitInv ==
  /\ \A c \in Requests : call[c].at = "waiting" /\ sched.state # 3 => ~drain[call[c].thread].on
  /\ world.mainFound /\ world.cookieFound => \A c \in Requests : call[c].thread = "main" =>
       /\ call[c].at \in {"asked", "queued"} /\ game.at = "early" => call[c].pre
       /\ call[c].at = "waiting" => sched.state = 3
ComesInv ==
  world.mainFound /\ sched.state = 1 =>
    \/ Prepares \/ worker = "waiting"
    \/ game.target = "detour" /\ game.at \in {"early", "stub", "entry"}
    \/ SteamIsAhead
    \/ game.at = "cookie"

\* Who neuters.
NeuterInv ==
  /\ \A c, d \in Neutering : c = d
  /\ neuter.state = 1 <=> Neutering # {}
  /\ \A c \in Neutering : invoked[c].thread \notin neuter.frozen
  /\ neuter.frozen # {} => \E c \in Neutering : invoked[c].at \notin {"neuter", "publish"}
  /\ \A c \in Neutering : invoked[c].at \in {"resume", "publish"} <=> neuter.result # "none"
  /\ neuter.state = 2 <=> (neuter.result # "none" /\ Neutering = {})
  /\ \A c \in Requests : given[c] \in {"ok", "error"} => neuter.state = 2 /\ given[c] = neuter.result

PatchInv ==
  /\ neuter.result = "ok" => neuter.jumped = Stubs
  /\ neuter.jumped \subseteq neuter.decrypted
  /\ \A c \in Neutering :
       /\ invoked[c].at \in {"neuter", "analyze", "decrypt"} => neuter.jumped = neuter.decrypted
       /\ invoked[c].at = "jump" => neuter.decrypted = neuter.jumped \cup neuter.found
  /\ neuter.state = 0 => neuter.jumped = {} /\ neuter.decrypted = {}

----------------------------------------------------------------------------
(* Types.                                                                   *)

\* A process before its entry point has variables of their types.
LEMMA TypesInit == ASSUME ArxanInit PROVE Types
<1> USE OtherThreadsAssumption DEF ArxanInit
<1>1. GameType
  BY DEF Worlds, GamePlaces, GameType
<1>2. CallType
  BY DEF CallPlaces, Actors, CallType
<1>3. InvokedType
  BY DEF CallbackPlaces, InvokedType
<1>4. DrainType
  BY DEF NotDraining, DrainType
<1>5. NeuterType
  BY DEF NeuterType
<1>6. SchedType /\ WorkerType
  BY DEF SchedType, WorkerType
<1>7. GhostType
  BY DEF Told, GhostType
<1> QED BY <1>1, <1>2, <1>3, <1>4, <1>5, <1>6, <1>7 DEF Types

\* A step of a call keeps the types.
LEMMA CallTypes ==
  ASSUME Types, NEW c \in Requests, CallStep(c)
  PROVE  Types'
<1> USE DEF CallStep, Call, Ask, CallAtOnce, NoContext, Enqueue, CalledAtOnce, AfterEnqueue,
            Served, Probe, DecideHook, StartWorker, InstallHook, Hooked, NotHooked, WrapSteamStub,
            FlushFailed, Flush, Flushed, At, Waiting, ghosts, Invoke
<1>1. world' \in Worlds /\ WorkerType'
  BY DEF Types, WorkerType
<1>2. GameType'
  BY DEF Types, GameType
<1> DEFINE a == call[c].thread
<1>0. a \in Actors /\ SchedType /\ world.arxan \in BOOLEAN
  BY DEF Types, CallType, Worlds
<1>3. SchedType'
  <2>1. \/ sched' = sched \/ sched' = [sched EXCEPT !.image = TRUE]
        \/ sched' = [sched EXCEPT !.detected = world.arxan]
        \/ sched' = [sched EXCEPT !.original = TRUE, !.detected = world.arxan]
        \/ sched' = [sched EXCEPT !.queue = Append(@, c), !.state = IF @ = 0 THEN 1 ELSE @]
        \/ sched' = [sched EXCEPT !.state = 2, !.queue = <<>>, !.detected = FALSE]
    OBVIOUS
  <2>2. SchedType /\ Append(sched.queue, c) \in Seq(Requests) /\ <<>> \in Seq(Requests)
        /\ (IF sched.state = 0 THEN 1 ELSE sched.state) \in 0..3
    BY ONLY <1>0, c \in Requests DEF SchedType
  <2>3. CASE sched' = sched \/ sched' = [sched EXCEPT !.image = TRUE]
             \/ sched' = [sched EXCEPT !.detected = world.arxan]
    BY ONLY <1>0, <2>3 DEF SchedType
  <2>4. CASE sched' = [sched EXCEPT !.original = TRUE, !.detected = world.arxan]
    BY ONLY <1>0, <2>4 DEF SchedType
  <2>5. CASE sched' = [sched EXCEPT !.queue = Append(@, c), !.state = IF @ = 0 THEN 1 ELSE @]
    BY ONLY <2>2, <2>5 DEF SchedType
  <2>6. CASE sched' = [sched EXCEPT !.state = 2, !.queue = <<>>, !.detected = FALSE]
    <3>1. 2 \in 0..3 /\ FALSE \in BOOLEAN
      BY ONLY TRUE
    <3> QED BY ONLY <2>2, <2>6, <3>1 DEF SchedType
  <2> QED BY ONLY <2>1, <2>3, <2>4, <2>5, <2>6
<1>4. CallType'
  <2>1. \/ call' = call
        \/ \E p \in CallPlaces : call' = [call EXCEPT ![c].at = p]
        \/ Ask(c)
    BY DEF CallPlaces
  <2>2. CASE Ask(c)
    <3>1. PreEntryPoint(a) \in BOOLEAN /\ sched.image \in BOOLEAN
      BY <1>0 DEF Types, PreEntryPoint, MainCreatedSuspended, CookieFound, MainThreadFound, Worlds, GameType,
         SchedType
    <3>2. call' = [call EXCEPT ![c].at = "asked", ![c].pre = sched.image => PreEntryPoint(a)]
      BY <2>2
    <3> QED BY ONLY <3>1, <3>2, Types, c \in Requests DEF Types, CallType, CallPlaces
  <2> QED BY ONLY <2>1, <2>2, Types, c \in Requests DEF Types, CallType
<1>5. InvokedType'
  <2>1. \/ UNCHANGED invoked
        \/ Invoke(c, a, FALSE, FALSE) \/ Invoke(c, a, FALSE, sched.detected)
        \/ invoked' = [invoked EXCEPT ![c].at = "body", ![c].thread = a]
    OBVIOUS
  <2>2. InvokedType /\ a \in Actors /\ sched.detected \in BOOLEAN
    BY <1>0 DEF Types, SchedType
  <2> HIDE DEF a
  <2>3. CASE UNCHANGED invoked
    BY ONLY <2>2, <2>3 DEF InvokedType
  <2>4. CASE Invoke(c, a, FALSE, FALSE)
    BY ONLY <2>2, <2>4, c \in Requests DEF InvokedType, CallbackPlaces, Invoke
  <2>5. CASE Invoke(c, a, FALSE, sched.detected)
    BY ONLY <2>2, <2>5, c \in Requests DEF InvokedType, CallbackPlaces, Invoke
  <2>6. CASE invoked' = [invoked EXCEPT ![c].at = "body", ![c].thread = a]
    BY ONLY <2>2, <2>6, c \in Requests DEF InvokedType, CallbackPlaces
  <2> QED BY <2>1, <2>3, <2>4, <2>5, <2>6
<1>6. DrainType'
  <2>1. \/ UNCHANGED drain
        \/ drain' = [drain EXCEPT ![a] = [on |-> TRUE, batch |-> sched.queue, executing |-> FALSE,
                                          detected |-> FALSE]]
    OBVIOUS
  <2>2. DrainType /\ a \in Actors /\ sched.queue \in Seq(Requests)
    BY <1>0 DEF Types, SchedType
  <2> HIDE DEF a
  <2>3. CASE UNCHANGED drain
    BY ONLY <2>2, <2>3 DEF DrainType
  <2>4. CASE drain' = [drain EXCEPT ![a] = [on |-> TRUE, batch |-> sched.queue, executing |-> FALSE,
                                           detected |-> FALSE]]
    BY ONLY <2>2, <2>4 DEF DrainType
  <2> QED BY <2>1, <2>3, <2>4
<1>7. NeuterType'
  BY DEF Types, NeuterType
<1>8. GhostType'
  <2>1. /\ queued' = queued \/ queued' = Append(queued, c)
        /\ \/ UNCHANGED <<ran, given>>
           \/ ran' = Append(ran, c) /\ given' = [given EXCEPT ![c] = "no memory"]
    OBVIOUS
  <2>2. GhostType /\ Append(ran, c) \in Seq(Requests) /\ Append(queued, c) \in Seq(Requests)
    BY ONLY Types, c \in Requests DEF Types, GhostType
  <2> QED BY ONLY <2>1, <2>2, c \in Requests DEF GhostType, Told
<1> QED BY <1>1, <1>2, <1>3, <1>4, <1>5, <1>6, <1>7, <1>8 DEF Types

\* A step of a callback keeps the types.
LEMMA CallbackTypes ==
  ASSUME Types, CalledInv, NEW c \in Requests, CallbackStep(c)
  PROVE  Types'
<1> USE DEF CallbackStep, Begin, Await, CallInner, Return, Suspend, AnalysisFails, Analyze, Seen,
            Decrypt, Jump, ResumeOthers, Publish, Running, CallbackAt, ghosts, Reached
<1>1. world' \in Worlds /\ WorkerType' /\ GameType' /\ SchedType' /\ DrainType'
  BY DEF Types, WorkerType, GameType, SchedType, DrainType
<1>2. CallType'
  <2>1. CASE UNCHANGED call
    BY <2>1 DEF Types, CallType
  <2>2. CASE CallInner(c)
    <3>1. InnerCall[c] \in Requests /\ invoked[c].thread \in Actors
      <4>1. invoked[c].thread \in Actors
        BY <2>2 DEF Types, CalledInv, CalledAt
      <4> QED BY <2>2, <4>1, RequestsAssumption
    <3> QED BY <2>2, <3>1 DEF Types, CallType, CallPlaces
  <2> QED BY <2>1, <2>2
<1>3. InvokedType'
  <2>1. \E p \in CallbackPlaces : invoked' = [invoked EXCEPT ![c].at = p]
    BY DEF CallbackPlaces
  <2> QED BY ONLY <2>1, Types, c \in Requests DEF Types, InvokedType
<1>4. NeuterType'
  <2>0. Seen \subseteq Stubs /\ NeuterType /\ Actors \subseteq Actors
    BY DEF Types
  <2>1. \/ UNCHANGED neuter
        \/ \E n \in 1..2 : neuter' = [neuter EXCEPT !.state = n]
        \/ \E F \in SUBSET Actors : neuter' = [neuter EXCEPT !.frozen = F]
        \/ neuter' = [neuter EXCEPT !.result = "error"]
        \/ \E o \in {"ok", neuter.result} : neuter' = [neuter EXCEPT !.found = Seen, !.result = o]
        \/ Decrypt(c) \/ Jump(c) \/ Begin(c)
    <3>1. CASE Suspend(c)
      <4>1. \A F : Actors \ F \in SUBSET Actors
        OBVIOUS
      <4> QED BY ONLY <3>1, <4>1 DEF Suspend
    <3>2. CASE ResumeOthers(c)
      BY ONLY <3>2 DEF ResumeOthers
    <3>3. CASE AnalysisFails(c)
      BY ONLY <3>3 DEF AnalysisFails
    <3>6. CASE Publish(c)
      <4>1. neuter' = [neuter EXCEPT !.state = 2] /\ 2 \in 1..2
        BY ONLY <3>6 DEF Publish
      <4> QED BY ONLY <4>1
    <3>4. CASE Analyze(c)
      <4>1. neuter' = [neuter EXCEPT !.found = Seen, !.result = IF Seen = {} THEN "ok" ELSE @]
        BY ONLY <3>4 DEF Analyze
      <4> HIDE DEF Seen
      <4>2. CASE Seen = {}
        BY ONLY <4>1, <4>2
      <4>3. CASE Seen # {}
        BY ONLY <4>1, <4>3
      <4> QED BY ONLY <4>2, <4>3
    <3>5. CASE Await(c) \/ CallInner(c) \/ Return(c)
      BY ONLY <3>5 DEF Await, CallInner, Return
    <3> QED BY ONLY <3>1, <3>2, <3>3, <3>4, <3>5, <3>6, CallbackStep(c) DEF CallbackStep
  <2>2. CASE Decrypt(c)
    <3>1. PICK some \in SUBSET neuter.found :
            neuter' = [neuter EXCEPT !.decrypted = @ \cup some,
                                     !.result = IF some = neuter.found THEN @ ELSE "error"]
      BY <2>2
    <3> QED BY ONLY <2>0, <3>1 DEF NeuterType
  <2>3. CASE Jump(c)
    <3>1. PICK some \in SUBSET neuter.found :
            neuter' = [neuter EXCEPT !.jumped = @ \cup some,
                                     !.result = IF some = neuter.found THEN @ ELSE "error"]
      BY <2>3
    <3> QED BY ONLY <2>0, <3>1 DEF NeuterType
  <2>4. CASE Begin(c)
    <3>1. neuter' = neuter \/ neuter' = [neuter EXCEPT !.state = IF @ = 0 THEN 1 ELSE @]
      BY <2>4
    <3> QED BY ONLY <2>0, <3>1 DEF NeuterType
  <2> HIDE DEF Seen
  <2>5. CASE \E o \in {"ok", neuter.result} : neuter' = [neuter EXCEPT !.found = Seen, !.result = o]
    BY ONLY <2>0, <2>5 DEF NeuterType
  <2>6. CASE \E F \in SUBSET Actors : neuter' = [neuter EXCEPT !.frozen = F]
    BY ONLY <2>0, <2>6 DEF NeuterType
  <2>7. CASE UNCHANGED neuter \/ (\E n \in 1..2 : neuter' = [neuter EXCEPT !.state = n])
             \/ neuter' = [neuter EXCEPT !.result = "error"]
    BY ONLY <2>0, <2>7 DEF NeuterType
  <2> QED BY ONLY <2>1, <2>2, <2>3, <2>4, <2>5, <2>6, <2>7
<1>5. GhostType'
  <2>1. /\ queued' = queued
        /\ \/ UNCHANGED <<ran, given>>
           \/ \E told \in {"absent", "plain", neuter.result} :
                ran' = Append(ran, c) /\ given' = [given EXCEPT ![c] = told]
    OBVIOUS
  <2>2. neuter.result \in Told
    BY DEF Types, NeuterType, Told
  <2>3. GhostType /\ Append(ran, c) \in Seq(Requests)
    BY ONLY Types, c \in Requests DEF Types, GhostType
  <2> QED BY ONLY <2>1, <2>2, <2>3, c \in Requests DEF GhostType, Told
<1> QED BY <1>1, <1>2, <1>3, <1>4, <1>5 DEF Types

ImageStep == \/ Resume \/ LeaveLoader \/ StubDetour \/ StubDrained
            \/ InitCookie \/ CookieDetour \/ EnterMain \/ WorkerFlush \/ WorkerEnds

\* A step of the main thread or of the worker keeps the types.
LEMMA GameTypes ==
  ASSUME Types, ImageStep
  PROVE  Types'
<1> USE DEF ImageStep, Resume, LeaveLoader, StubDetour, StubDrained, InitCookie, CookieDetour,
            EnterMain, WorkerFlush, WorkerEnds, Flush, ghosts
<1>1. world' \in Worlds /\ CallType' /\ InvokedType' /\ NeuterType' /\ GhostType'
  BY DEF Types, CallType, InvokedType, NeuterType, GhostType
<1>2. GameType' /\ WorkerType'
  BY DEF Types, GameType, GamePlaces, WorkerType
<1>0. SchedType /\ world.arxan \in BOOLEAN /\ {"main", "worker"} \subseteq Actors
  BY DEF Types, Worlds, Actors
<1>3. SchedType'
  <2>1. \/ UNCHANGED sched
        \/ sched' = [sched EXCEPT !.original = TRUE, !.detected = world.arxan]
        \/ \E d \in {FALSE, sched.detected} :
             sched' = [sched EXCEPT !.state = 2, !.queue = <<>>, !.detected = d]
    OBVIOUS
  <2>2. <<>> \in Seq(Requests) /\ sched.detected \in BOOLEAN /\ 2 \in 0..3
    BY ONLY <1>0 DEF SchedType
  <2>3. CASE \E d \in {FALSE, sched.detected} :
               sched' = [sched EXCEPT !.state = 2, !.queue = <<>>, !.detected = d]
    BY ONLY <1>0, <2>2, <2>3 DEF SchedType
  <2> QED BY ONLY <1>0, <2>1, <2>3 DEF SchedType
<1>4. DrainType'
  <2>1. \/ UNCHANGED drain
        \/ \E a \in {"main", "worker"}, e \in BOOLEAN, d \in {FALSE, sched.detected} :
             drain' = [drain EXCEPT ![a] = [on |-> TRUE, batch |-> sched.queue, executing |-> e,
                                            detected |-> d]]
    OBVIOUS
  <2>2. DrainType /\ sched.queue \in Seq(Requests) /\ sched.detected \in BOOLEAN
    BY ONLY <1>0, Types DEF Types, SchedType
  <2>3. ASSUME NEW a \in {"main", "worker"}, NEW e \in BOOLEAN, NEW d \in {FALSE, sched.detected},
               drain' = [drain EXCEPT ![a] = [on |-> TRUE, batch |-> sched.queue, executing |-> e,
                                              detected |-> d]]
        PROVE  DrainType'
    BY ONLY <1>0, <2>2, <2>3 DEF DrainType
  <2>4. CASE UNCHANGED drain
    BY ONLY <2>2, <2>4 DEF DrainType
  <2> QED BY ONLY <2>1, <2>3, <2>4
<1> QED BY <1>1, <1>2, <1>3, <1>4 DEF Types

\* A step of a drain keeps the types: the batch is what was queued.
LEMMA DrainTypes ==
  ASSUME Types, NEW a \in Actors, InvokeNext(a) \/ DrainMore(a)
  PROVE  Types'
<1> USE DEF InvokeNext, DrainMore, Invoke, ghosts
<1>1. world' \in Worlds /\ WorkerType' /\ GameType' /\ NeuterType' /\ GhostType' /\ CallType'
  BY DEF Types, WorkerType, GameType, NeuterType, GhostType, CallType
<1>2. drain[a].batch \in Seq(Requests)
  BY DEF Types, DrainType
<1>3. SchedType'
  <2>1. \/ UNCHANGED sched \/ sched' = [sched EXCEPT !.queue = <<>>]
        \/ sched' = [sched EXCEPT !.state = 3]
    OBVIOUS
  <2>2. SchedType /\ <<>> \in Seq(Requests)
    BY ONLY Types DEF Types
  <2>3. CASE sched' = [sched EXCEPT !.queue = <<>>]
    BY ONLY <2>2, <2>3 DEF SchedType
  <2>4. CASE sched' = [sched EXCEPT !.state = 3]
    BY ONLY <2>2, <2>4 DEF SchedType
  <2>5. CASE UNCHANGED sched
    BY ONLY <2>2, <2>5 DEF SchedType
  <2> QED BY ONLY <2>1, <2>3, <2>4, <2>5
<1>4. DrainType'
  <2>1. \/ drain[a].batch # <<>> /\ drain' = [drain EXCEPT ![a].batch = Tail(@)]
        \/ drain' = [drain EXCEPT ![a].batch = sched.queue]
        \/ drain' = [drain EXCEPT ![a] = NotDraining]
    OBVIOUS
  <2>2. DrainType /\ sched.queue \in Seq(Requests) /\ <<>> \in Seq(Requests)
        /\ (drain[a].batch # <<>> => Tail(drain[a].batch) \in Seq(Requests))
    BY <1>2 DEF Types, SchedType
  <2>3. CASE drain' = [drain EXCEPT ![a] = NotDraining]
    BY ONLY <2>2, <2>3, a \in Actors DEF DrainType, NotDraining
  <2>4. CASE drain' = [drain EXCEPT ![a].batch = sched.queue]
    BY ONLY <2>2, <2>4, a \in Actors DEF DrainType
  <2>5. CASE drain[a].batch # <<>> /\ drain' = [drain EXCEPT ![a].batch = Tail(@)]
    BY ONLY <2>2, <2>5, a \in Actors DEF DrainType
  <2> QED BY <2>1, <2>3, <2>4, <2>5
<1>5. InvokedType'
  <2>1. CASE UNCHANGED invoked
    BY <2>1 DEF Types, InvokedType
  <2>2. CASE InvokeNext(a)
    <3>1. Head(drain[a].batch) \in Requests
      BY <1>2, <2>2
    <3> QED BY <2>2, <3>1 DEF Types, InvokedType, CallbackPlaces, DrainType
  <2> QED BY <2>1, <2>2
<1> QED BY <1>1, <1>3, <1>4, <1>5 DEF Types

----------------------------------------------------------------------------
(* What an update leaves.                                                   *)

\* At moves one call and leaves the others.
LEMMA CallMoves ==
  ASSUME Types, NEW c \in Requests, NEW p, At(c, p)
  PROVE  /\ call'[c].at = p /\ call'[c].thread = call[c].thread /\ call'[c].pre = call[c].pre
         /\ \A d \in Requests : d # c => call'[d] = call[d]
BY DEF Types, CallType, At

\* CallbackAt moves one callback and leaves the others.
LEMMA CallbackMoves ==
  ASSUME Types, NEW c \in Requests, NEW p, CallbackAt(c, p)
  PROVE  /\ invoked'[c].at = p /\ invoked'[c].thread = invoked[c].thread
         /\ invoked'[c].executing = invoked[c].executing
         /\ \A d \in Requests : d # c => invoked'[d] = invoked[d]
BY DEF Types, InvokedType, CallbackAt

\* Invoke begins one callback, on a thread.
LEMMA Invokes ==
  ASSUME Types, NEW c \in Requests, NEW a, NEW e, NEW f, Invoke(c, a, e, f)
  PROVE  /\ invoked'[c].at = "begun" /\ invoked'[c].thread = a
         /\ invoked'[c].executing = e
         /\ \A d \in Requests : d # c => invoked'[d] = invoked[d]
BY DEF Types, InvokedType, Invoke

\* What Append adds to a sequence of calls, and what it leaves.
LEMMA Appended ==
  ASSUME NEW s \in Seq(Requests), NEW c \in Requests
  PROVE  /\ Len(Append(s, c)) = Len(s) + 1 /\ Len(s) \in Nat
         /\ DOMAIN s = 1..Len(s) /\ DOMAIN Append(s, c) = 1..(Len(s) + 1)
         /\ \A i \in 1..Len(s) : Append(s, c)[i] = s[i]
         /\ Append(s, c)[Len(s) + 1] = c
         /\ ToSet(Append(s, c)) = ToSet(s) \cup {c}
         /\ IsInjective(s) /\ c \notin ToSet(s) => IsInjective(Append(s, c))
<1>1. /\ Len(Append(s, c)) = Len(s) + 1 /\ Len(s) \in Nat
      /\ DOMAIN s = 1..Len(s) /\ DOMAIN Append(s, c) = 1..(Len(s) + 1)
      /\ \A i \in 1..Len(s) : Append(s, c)[i] = s[i]
      /\ Append(s, c)[Len(s) + 1] = c
  OBVIOUS
<1>2. ToSet(Append(s, c)) = ToSet(s) \cup {c}
  <2>1. \A i \in 1..(Len(s) + 1) : i \in 1..Len(s) \/ i = Len(s) + 1
    BY <1>1
  <2>2. \A i \in 1..Len(s) : i \in 1..(Len(s) + 1)
    BY <1>1
  <2>3. Len(s) + 1 \in 1..(Len(s) + 1)
    BY <1>1
  <2> DEFINE r == Append(s, c)
             n == Len(s)
  <2>4. DOMAIN r = 1..(n + 1) /\ DOMAIN s = 1..n /\ r[n + 1] = c /\ \A i \in 1..n : r[i] = s[i]
    BY <1>1
  <2> HIDE DEF r, n
  <2>5. {r[i] : i \in 1..(n + 1)} = {s[i] : i \in 1..n} \cup {c}
    BY <2>1, <2>2, <2>3, <2>4 DEF n
  <2> QED BY <2>4, <2>5 DEF ToSet, r
<1>3. ASSUME IsInjective(s), c \notin ToSet(s) PROVE IsInjective(Append(s, c))
  <2>1. \A i \in 1..Len(s) : s[i] # c
    BY <1>1, <1>3 DEF ToSet
  <2>2. \A i \in 1..(Len(s) + 1) : i \in 1..Len(s) \/ i = Len(s) + 1
    BY <1>1
  <2> QED BY <1>1, <1>3, <2>1, <2>2 DEF IsInjective
<1> QED BY <1>1, <1>2, <1>3

----------------------------------------------------------------------------
(* The queue, the batch, and what ran.                                      *)

QueueRan == QueueInv /\ DrainInv /\ RanInv

\* The queue stays as it is, and so do the callbacks but for where one is in its course.
CallbackGoes(c) ==
  /\ UNCHANGED <<queued, ran, drain>> /\ sched'.queue = sched.queue /\ sched'.state = sched.state
  /\ \A d \in Requests : d # c => invoked'[d] = invoked[d]
  /\ invoked'[c].thread = invoked[c].thread
  /\ invoked[c].at = "none" <=> invoked'[c].at = "none"
  /\ invoked[c].at = "over" => invoked'[c].at = "over"
  /\ invoked[c].at \in {"body", "inner", "over"} <=> invoked'[c].at \in {"body", "inner", "over"}

\* A callback in its course, before the user's own one is reached or after that one
\* returned, disturbs neither the queue nor the order.
LEMMA QueueRanGoes ==
  ASSUME Types, QueueRan, NEW c \in Requests, CallbackGoes(c)
  PROVE  QueueRan'
<1>1. QueueInv'
  <2>1. \A a \in Actors : Taken(a)' = Taken(a)
    BY DEF CallbackGoes, Taken
  <2>2. \A d \in Requests : invoked'[d].at = "none" <=> invoked[d].at = "none"
    BY DEF CallbackGoes
  <2>3. \A i \in DOMAIN queued : queued[i] \in Requests
    BY DEF Types, GhostType
  <2> QED BY <2>1, <2>2, <2>3 DEF CallbackGoes, QueueRan, QueueInv
<1>2. DrainInv'
  <2>1. \A d \in Requests : /\ IsQueued(d)' <=> IsQueued(d)
                            /\ invoked'[d].at \notin Idle => invoked[d].at \notin Idle
                            /\ invoked[d].at = "over" => invoked'[d].at = "over"
                            /\ invoked'[d].thread = invoked[d].thread
    BY DEF CallbackGoes, IsQueued, Idle
  <2> QED BY <2>1 DEF CallbackGoes, QueueRan, DrainInv
<1>3. RanInv'
  BY DEF CallbackGoes, QueueRan, RanInv
<1> QED BY <1>1, <1>2, <1>3 DEF QueueRan

\* Before a queued callback that is under way are only those that are over.
LEMMA EarlierAreOver ==
  ASSUME Types, QueueRan, NEW i \in DOMAIN queued, NEW j \in DOMAIN queued, i < j,
         invoked[queued[j]].at \notin Idle
  PROVE  invoked[queued[i]].at = "over"
<1>1. queued[i] \in Requests /\ queued[j] \in Requests /\ IsQueued(queued[i]) /\ IsQueued(queued[j])
  BY DEF Types, GhostType, IsQueued, ToSet
<1>2. queued[i] # queued[j]
  <2>1. i # j
    BY DEF Types, GhostType
  <2> QED BY <2>1 DEF QueueRan, QueueInv, IsInjective
<1>3. invoked[queued[i]].at # "none"
  <2>1. \A a \in Actors : ~(j > Taken(a))
    BY DEF QueueRan, QueueInv, Idle
  <2>2. \A a \in Actors : Taken(a) \in Int
    BY DEF Taken, Types, GhostType, SchedType, DrainType
  <2>3. i \in Nat /\ j \in Nat
    BY DEF Types, GhostType
  <2>4. \A a \in Actors : ~(i > Taken(a))
    BY <2>1, <2>2, <2>3
  <2> QED BY <2>4 DEF QueueRan, QueueInv
<1>4. invoked[queued[i]].at \in Idle
  BY <1>1, <1>2 DEF QueueRan, DrainInv
<1> QED BY <1>3, <1>4 DEF Idle

\* The user's callback of c is reached.
CallbackReached(c) ==
  /\ UNCHANGED <<queued, drain>> /\ sched'.queue = sched.queue /\ sched'.state = sched.state
  /\ ran' = Append(ran, c)
  /\ \A d \in Requests : d # c => invoked'[d] = invoked[d]
  /\ invoked'[c].at = "body"
  /\ \/ IsQueued(c) /\ invoked'[c].thread = invoked[c].thread /\ invoked[c].at # "none"
     \/ ~IsQueued(c)
  /\ invoked[c].at \notin {"body", "inner", "over"}

\* The user's callback is reached after those of all that were queued before.
LEMMA QueueRanReached ==
  ASSUME Types, QueueRan, NEW c \in Requests, CallbackReached(c)
  PROVE  QueueRan'
<1>0. \A i \in DOMAIN queued : queued[i] \in Requests /\ IsQueued(queued[i])
  BY DEF Types, GhostType, IsQueued, ToSet
<1>1. QueueInv'
  <2>1. \A a \in Actors : Taken(a)' = Taken(a)
    BY DEF CallbackReached, Taken
  <2>2. \A d \in Requests : IsQueued(d) => (invoked'[d].at = "none" <=> invoked[d].at = "none")
    BY DEF CallbackReached
  <2> QED BY <1>0, <2>1, <2>2 DEF CallbackReached, QueueRan, QueueInv
<1>2. DrainInv'
  <2>1. \A d \in Requests : /\ IsQueued(d)' <=> IsQueued(d)
                            /\ IsQueued(d) =>
                                 /\ invoked'[d].at \notin Idle => invoked[d].at \notin Idle
                                 /\ invoked[d].at = "over" => invoked'[d].at = "over"
                                 /\ invoked'[d].thread = invoked[d].thread
    BY DEF CallbackReached, IsQueued, Idle
  <2> QED BY <2>1 DEF CallbackReached, QueueRan, DrainInv
<1>3. RanInv'
  <2>0. ran \in Seq(Requests) /\ c \notin ToSet(ran) /\ IsInjective(ran)
    BY DEF Types, GhostType, QueueRan, RanInv, CallbackReached
  <2>1. IsInjective(ran') /\ ToSet(ran') = ToSet(ran) \cup {c}
    BY <2>0, Appended DEF CallbackReached
  <2>2. \A d \in Requests : d \in ToSet(ran') <=> invoked'[d].at \in {"body", "inner", "over"}
    BY <2>1 DEF QueueRan, RanInv, CallbackReached
  <2>3. ASSUME NEW i \in DOMAIN queued, NEW j \in DOMAIN queued, i < j, queued[j] \in ToSet(ran')
        PROVE  \E k, l \in DOMAIN ran' : k < l /\ ran'[k] = queued[i] /\ ran'[l] = queued[j]
    <3> DEFINE n == Len(ran)
    <3>0. /\ n \in Nat /\ DOMAIN ran = 1..n /\ DOMAIN ran' = 1..(n + 1)
          /\ ran'[n + 1] = c /\ \A k \in 1..n : ran'[k] = ran[k]
      BY <2>0, Appended DEF CallbackReached
    <3> HIDE DEF n
    <3>1. CASE queued[j] \in ToSet(ran)
      <4>1. PICK k, l \in DOMAIN ran : k < l /\ ran[k] = queued[i] /\ ran[l] = queued[j]
        BY <2>3, <3>1 DEF QueueRan, RanInv
      <4> QED BY <3>0, <4>1
    <3>2. CASE queued[j] = c
      <4>1. invoked[c].at \notin Idle
        BY <1>0, <3>2 DEF CallbackReached, Idle
      <4>2. invoked[queued[i]].at = "over"
        BY <2>3, <3>2, <4>1, EarlierAreOver
      <4>3. queued[i] \in ToSet(ran)
        BY <1>0, <4>2 DEF QueueRan, RanInv
      <4>4. PICK k \in DOMAIN ran : ran[k] = queued[i]
        BY <4>3 DEF ToSet
      <4> QED BY <3>0, <3>2, <4>4
    <3> QED BY <2>1, <2>3, <3>1, <3>2
  <2>4. UNCHANGED queued
    BY DEF CallbackReached
  <2> QED BY <2>1, <2>2, <2>3, <2>4 DEF RanInv
<1> QED BY <1>1, <1>2, <1>3 DEF QueueRan

\* The facts about the queue are about its variables alone.
LEMMA QueueRanStays ==
  ASSUME Types, QueueRan, UNCHANGED <<queued, ran, drain, invoked>>,
         sched'.queue = sched.queue, sched'.state = sched.state
  PROVE  QueueRan'
<1>1. QueueInv'
  <2>1. \A a \in Actors : Taken(a)' = Taken(a)
    BY DEF Taken
  <2> QED BY <2>1 DEF QueueRan, QueueInv
<1>2. DrainInv'
  BY DEF QueueRan, DrainInv, IsQueued
<1>3. RanInv'
  BY DEF QueueRan, RanInv
<1> QED BY <1>1, <1>2, <1>3 DEF QueueRan

\* A callback that was not queued is called.
LEMMA QueueRanInvoked ==
  ASSUME Types, QueueRan, NEW c \in Requests, ~IsQueued(c), invoked[c].at = "none",
         UNCHANGED <<queued, ran, drain, sched>>,
         invoked'[c].at = "begun", \A d \in Requests : d # c => invoked'[d] = invoked[d]
  PROVE  QueueRan'
<1>0. \A i \in DOMAIN queued : queued[i] \in Requests /\ queued[i] # c
  BY DEF Types, GhostType, IsQueued, ToSet
<1>1. QueueInv'
  <2>1. \A a \in Actors : Taken(a)' = Taken(a)
    BY DEF Taken
  <2> QED BY <1>0, <2>1 DEF QueueRan, QueueInv
<1>2. DrainInv'
  <2>1. \A d \in Requests : (IsQueued(d)' <=> IsQueued(d)) /\ (IsQueued(d) => invoked'[d] = invoked[d])
    BY DEF IsQueued
  <2> QED BY <2>1 DEF QueueRan, DrainInv
<1>3. RanInv'
  BY DEF QueueRan, RanInv
<1> QED BY <1>1, <1>2, <1>3 DEF QueueRan

\* What is typed of the queue and the batches.
LEMMA Counts ==
  ASSUME Types
  PROVE  /\ Len(queued) \in Nat /\ DOMAIN queued = 1..Len(queued)
         /\ Len(sched.queue) \in Nat /\ DOMAIN sched.queue = 1..Len(sched.queue)
         /\ \A a \in Actors : /\ Len(drain[a].batch) \in Nat
                              /\ DOMAIN drain[a].batch = 1..Len(drain[a].batch)
                              /\ Taken(a) \in Int
                              /\ drain[a].on \in BOOLEAN
         /\ \A i \in DOMAIN queued : queued[i] \in Requests /\ IsQueued(queued[i])
         /\ Actors # {}
<1>1. queued \in Seq(Requests) /\ sched.queue \in Seq(Requests)
      /\ \A a \in Actors : drain[a].batch \in Seq(Requests) /\ drain[a].on \in BOOLEAN
  BY DEF Types, GhostType, SchedType, DrainType
<1> QED BY <1>1 DEF Taken, IsQueued, ToSet, Actors

\* What is not being drained has an empty batch.
LEMMA NoBatch ==
  ASSUME Types, QueueRan, NEW a \in Actors, ~drain[a].on
  PROVE  Len(drain[a].batch) = 0 /\ Taken(a) = Len(queued) - Len(sched.queue)
<1>1. drain[a].batch = <<>>
  BY DEF QueueRan, DrainInv, NotDraining
<1>2. Len(drain[a].batch) = 0
  BY <1>1
<1> QED BY <1>2, Counts DEF Taken

\* The drain takes the next of its batch: what it holds is still the end of what was
\* queued, and the callback it calls is the only one of the queue under way.
LEMMA QueueRanInvokeNext ==
  ASSUME Types, CalledInv, QueueRan, NEW a \in Actors, InvokeNext(a)
  PROVE  QueueRan'
<1> DEFINE L == Len(queued)
           b == Head(drain[a].batch)
           m == Len(drain[a].batch)
           t == Taken(a)
<1>0. /\ drain[a].on /\ drain[a].batch # <<>> /\ drain[a].batch \in Seq(Requests) /\ Callbacks(a) = {}
      /\ UNCHANGED <<sched, queued, ran>> /\ sched.queue \in Seq(Requests)
      /\ drain' = [drain EXCEPT ![a].batch = Tail(@)]
  BY DEF InvokeNext, Draining, Types, DrainType, SchedType, ghosts
<1>1. /\ m \in Nat /\ m > 0 /\ b = drain[a].batch[1] /\ b \in Requests /\ Len(Tail(drain[a].batch)) = m - 1
      /\ \A i \in 1..(m - 1) : Tail(drain[a].batch)[i] = drain[a].batch[i + 1]
      /\ DOMAIN Tail(drain[a].batch) = 1..(m - 1) /\ DOMAIN drain[a].batch = 1..m
  BY <1>0
<1>2. /\ drain'[a].batch = Tail(drain[a].batch) /\ drain'[a].on = drain[a].on
      /\ \A x \in Actors : x # a => drain'[x] = drain[x]
      /\ \A x \in Actors : drain'[x].on = drain[x].on
  BY <1>0 DEF Types, DrainType
<1>3. /\ invoked'[b].at = "begun" /\ invoked'[b].thread = a
      /\ \A d \in Requests : d # b => invoked'[d] = invoked[d]
  BY <1>1, Invokes DEF InvokeNext
<1>4. L \in Nat /\ DOMAIN queued = 1..L /\ t \in Int /\ t >= 0 /\ t + m + Len(sched.queue) = L
      /\ Len(sched.queue) \in Nat
  <2>1. L \in Nat /\ DOMAIN queued = 1..L /\ t \in Int /\ t >= 0 /\ Len(sched.queue) \in Nat
    BY Counts DEF QueueRan, QueueInv
  <2>2. t = L - Len(sched.queue) - m
    BY DEF Taken
  <2> HIDE DEF L, m, t
  <2> QED BY ONLY <1>1, <2>1, <2>2
<1>5. t + 1 \in DOMAIN queued /\ queued[t + 1] = b
  <2>1. 1 \in DOMAIN drain[a].batch
    BY <1>1
  <2> QED BY <1>1, <1>4, <2>1 DEF QueueRan, QueueInv
<1>6. invoked[b].at = "none" /\ IsQueued(b)
  <2>1. t + 1 > t
    BY <1>4
  <2> QED BY <1>5, <2>1, Counts DEF QueueRan, QueueInv
<1>7. \A x \in Actors : x # a => ~drain[x].on
  BY <1>0 DEF QueueRan, DrainInv
<1>8. \A x \in Actors : x # a => Taken(x) >= t + 1
  <2> SUFFICES ASSUME NEW x \in Actors, x # a PROVE Taken(x) >= t + 1
    OBVIOUS
  <2>1. Taken(x) = L - Len(sched.queue)
    BY <1>7, NoBatch
  <2> QED BY <1>1, <1>4, <2>1
<1>9. \A x \in Actors : Taken(x)' = IF x = a THEN t + 1 ELSE Taken(x)
  <2>1. \A x \in Actors : x # a => Taken(x)' = Taken(x)
    BY <1>0, <1>2 DEF Taken
  <2>2. Taken(a)' = t + 1
    <3>1. Taken(a)' = Len(queued) - Len(sched.queue) - Len(Tail(drain[a].batch))
      BY <1>0, <1>2 DEF Taken
    <3>2. Taken(a)' = L - Len(sched.queue) - (m - 1)
      BY <1>1, <3>1
    <3>3. L - Len(sched.queue) - (m - 1) = t + 1
      <4>1. L \in Nat /\ t \in Int /\ m \in Nat /\ Len(sched.queue) \in Nat /\ t + m + Len(sched.queue) = L
        BY <1>1, <1>4
      <4>2. \A w, x, y, z \in Int : x + y + z = w => w - z - (y - 1) = x + 1
        OBVIOUS
      <4> DEFINE q == Len(sched.queue)
      <4>3. L \in Int /\ t \in Int /\ m \in Int /\ q \in Int /\ t + m + q = L
        BY <4>1
      <4> HIDE DEF L, m, t, q
      <4>4. L - q - (m - 1) = t + 1
        BY <4>2, <4>3
      <4> QED BY <4>4 DEF q
    <3> QED BY <3>2, <3>3
  <2> QED BY <2>1, <2>2
<1>10. \A c \in Requests : IsQueued(c) => invoked[c].at \in Idle
  <2> SUFFICES ASSUME NEW c \in Requests, IsQueued(c), invoked[c].at \notin Idle PROVE FALSE
    OBVIOUS
  <2>1. drain[invoked[c].thread].on /\ invoked[c].thread \in Actors
    BY DEF QueueRan, DrainInv, CalledInv, CalledAt, Idle
  <2>2. c \in Callbacks(a)
    BY <1>7, <2>1 DEF Callbacks, Idle
  <2> QED BY <1>0, <2>2
<1> HIDE DEF L, b, m, t
<1>11. QueueInv'
  <2>1. \A x \in Actors : Taken(x)' >= 0
    BY <1>4, <1>9 DEF QueueRan, QueueInv
  <2>2. ASSUME NEW x \in Actors, NEW i \in DOMAIN drain'[x].batch
        PROVE  drain'[x].batch[i] = queued[Taken(x)' + i]
    <3>1. CASE x # a
      BY <1>2, <1>9, <2>2, <3>1 DEF QueueRan, QueueInv
    <3>2. CASE x = a
      <4>0. i \in 1..(m - 1)
        BY <1>1, <1>2, <2>2, <3>2
      <4>1. i \in 1..(m - 1) /\ i + 1 \in 1..m
        BY <1>1, <4>0
      <4>2. drain'[a].batch[i] = drain[a].batch[i + 1]
        BY <1>1, <1>2, <4>1
      <4>3. drain[a].batch[i + 1] = queued[t + (i + 1)]
        BY <1>1, <4>1 DEF QueueRan, QueueInv, t
      <4>4. t + (i + 1) = Taken(a)' + i
        BY <1>4, <1>9, <4>1
      <4> QED BY <3>2, <4>2, <4>3, <4>4
    <3> QED BY <3>1, <3>2
  <2>3. ASSUME NEW i \in DOMAIN queued
        PROVE  invoked'[queued[i]].at = "none" <=> \E x \in Actors : i > Taken(x)'
    <3>1. invoked[queued[i]].at = "none" <=> \E x \in Actors : i > Taken(x)
      BY <2>3 DEF QueueRan, QueueInv
    <3>2. i \in 1..L /\ \A x \in Actors : Taken(x) \in Int
      BY <1>4, <2>3, Counts DEF L
    <3>3. (\E x \in Actors : i > Taken(x)') <=> i > t + 1
      BY <1>4, <1>8, <1>9, <3>2
    <3>4. (\E x \in Actors : i > Taken(x)) <=> i > t
      <4>1. Taken(a) = t
        BY DEF t
      <4>2. ASSUME NEW x \in Actors, i > Taken(x) PROVE i > t
        <5>1. CASE x = a
          BY <4>1, <4>2, <5>1
        <5>2. CASE x # a
          BY <1>4, <1>8, <3>2, <4>2, <5>2
        <5> QED BY <5>1, <5>2
      <4> QED BY <4>1, <4>2
    <3>5. CASE i = t + 1
      BY <1>3, <1>4, <1>5, <3>3, <3>5
    <3>6. CASE i # t + 1
      <4>1. queued[i] # b
        BY <1>5, <2>3, <3>6 DEF QueueRan, QueueInv, IsInjective
      <4>2. i > t + 1 <=> i > t
        BY <1>4, <3>2, <3>6
      <4>3. invoked'[queued[i]] = invoked[queued[i]]
        BY <1>3, <4>1, <2>3, Counts
      <4> QED BY <3>1, <3>3, <3>4, <4>2, <4>3
    <3> QED BY <3>5, <3>6
  <2>4. UNCHANGED <<queued, sched>>
    BY <1>0
  <2>5. \A i \in DOMAIN queued' :
           invoked'[queued'[i]].at = "none" <=> \E x \in Actors : i > Taken(x)'
    BY <2>3, <2>4
  <2>6. \A x \in Actors : /\ Taken(x)' >= 0
                          /\ \A i \in DOMAIN drain'[x].batch : drain'[x].batch[i] = queued'[Taken(x)' + i]
    BY <2>1, <2>2, <2>4
  <2> QED BY <2>4, <2>5, <2>6 DEF QueueInv, QueueRan
<1>12. DrainInv'
  <2>1. \A c \in Requests : (IsQueued(c)' <=> IsQueued(c))
                            /\ (IsQueued(c) /\ invoked'[c].at \notin Idle => c = b)
    BY <1>0, <1>3, <1>10 DEF IsQueued
  <2>2. \A x \in Actors : ~drain'[x].on => drain'[x] = NotDraining
    BY <1>0, <1>2 DEF QueueRan, DrainInv
  <2>3. sched.state = 2 /\ sched' = sched
    BY <1>0 DEF QueueRan, DrainInv
  <2>4. \A x, y \in Actors : drain'[x].on /\ drain'[y].on => x = y
    BY <1>2 DEF QueueRan, DrainInv
  <2>5. sched'.state = 2 <=> \E x \in Actors : drain'[x].on
    BY <1>0, <1>2, <2>3
  <2>6. \A c \in Requests : IsQueued(c)' /\ invoked'[c].at \notin Idle => drain'[invoked'[c].thread].on
    BY <1>0, <1>2, <1>3, <2>1
  <2>7. sched'.state # 0 /\ sched'.state # 3
    BY <2>3
  <2> QED BY <2>1, <2>2, <2>4, <2>5, <2>6, <2>7 DEF DrainInv
<1>13. RanInv'
  <2>1. \A d \in Requests : d \in ToSet(ran) <=> invoked'[d].at \in {"body", "inner", "over"}
    BY <1>3, <1>6 DEF QueueRan, RanInv
  <2> QED BY <1>0, <2>1 DEF QueueRan, RanInv
<1> QED BY <1>11, <1>12, <1>13 DEF QueueRan

\* Nothing of the queue is under way when no drain is on, or the one that is on is not
\* at a callback.
LEMMA NoneUnderway ==
  ASSUME Types, CalledInv, QueueRan,
         \A a \in Actors : drain[a].on => Callbacks(a) = {}
  PROVE  \A c \in Requests : IsQueued(c) => invoked[c].at \in Idle
<1> SUFFICES ASSUME NEW c \in Requests, IsQueued(c), invoked[c].at \notin Idle PROVE FALSE
  OBVIOUS
<1>1. drain[invoked[c].thread].on /\ invoked[c].thread \in Actors
  BY DEF QueueRan, DrainInv, CalledInv, CalledAt, Idle
<1>2. c \in Callbacks(invoked[c].thread)
  BY DEF Callbacks, Idle
<1> QED BY <1>1, <1>2

\* The queue becomes the batch of a.
Batched(a) ==
  /\ UNCHANGED <<queued, ran, invoked>>
  /\ sched'.queue = <<>> /\ sched'.state = 2
  /\ \A x \in Actors : x # a => drain'[x] = drain[x] /\ ~drain[x].on
  /\ drain'[a].on /\ drain'[a].batch = sched.queue
  /\ drain[a].batch = <<>>
  /\ \A c \in Requests : IsQueued(c) => invoked[c].at \in Idle

\* A drain takes the whole queue for its batch: nothing is lost or held twice.
LEMMA QueueRanBatched ==
  ASSUME Types, QueueRan, NEW a \in Actors, Batched(a)
  PROVE  QueueRan'
<1> DEFINE L == Len(queued)
           q == Len(sched.queue)
<1>1. L \in Nat /\ q \in Nat /\ q <= L /\ DOMAIN queued = 1..L /\ DOMAIN sched.queue = 1..q
  BY Counts DEF QueueRan, QueueInv
<1>2. Len(drain[a].batch) = 0 /\ \A x \in Actors : x # a => Len(drain[x].batch) = 0
  <2>1. \A x \in Actors : x # a => Len(drain[x].batch) = 0
    BY NoBatch DEF Batched
  <2> QED BY <2>1 DEF Batched
<1>3. \A x \in Actors : Taken(x) = L - q
  <2>1. \A x \in Actors : Taken(x) = L - q - 0
    BY <1>2 DEF Taken
  <2> HIDE DEF L, q
  <2> QED BY <1>1, <2>1
<1>4. \A x \in Actors : Taken(x)' = IF x = a THEN L - q ELSE L
  <2>1. Len(queued') = L /\ Len(sched'.queue) = 0
    BY DEF Batched
  <2>2. \A x \in Actors : Len(drain'[x].batch) = IF x = a THEN q ELSE 0
    BY <1>2 DEF Batched
  <2>3. \A x \in Actors : Taken(x)' = L - 0 - (IF x = a THEN q ELSE 0)
    BY <2>1, <2>2 DEF Taken
  <2> HIDE DEF L, q
  <2> QED BY <1>1, <2>3
<1>5. \A i \in 1..q : sched.queue[i] = queued[(L - q) + i]
  BY <1>1 DEF QueueRan, QueueInv
<1> HIDE DEF L, q
<1>6. QueueInv'
  <2>1. \A x \in Actors : Taken(x)' >= 0
    BY <1>1, <1>4
  <2>2. \A x \in Actors : \A i \in DOMAIN drain'[x].batch : drain'[x].batch[i] = queued'[Taken(x)' + i]
    <3> SUFFICES ASSUME NEW x \in Actors, NEW i \in DOMAIN drain'[x].batch
                 PROVE  drain'[x].batch[i] = queued[Taken(x)' + i]
      BY DEF Batched
    <3>1. CASE x = a
      BY <1>1, <1>4, <1>5, <3>1 DEF Batched
    <3>2. CASE x # a
      <4>1. DOMAIN drain[x].batch = {}
        BY <1>2, <3>2, Counts
      <4> QED BY <3>2, <4>1 DEF Batched
    <3> QED BY <3>1, <3>2
  <2>3. \A i \in DOMAIN queued' : invoked'[queued'[i]].at = "none" <=> \E x \in Actors : i > Taken(x)'
    <3> SUFFICES ASSUME NEW i \in 1..L
                 PROVE  invoked[queued[i]].at = "none" <=> \E x \in Actors : i > Taken(x)'
      BY <1>1 DEF Batched
    <3>1. invoked[queued[i]].at = "none" <=> i > L - q
      BY <1>1, <1>3 DEF QueueRan, QueueInv
    <3>2. ~(i > L) /\ i \in Nat
      BY <1>1
    <3>3. (\E x \in Actors : i > Taken(x)') <=> i > L - q
      BY <1>1, <1>4, <3>2
    <3> QED BY <3>1, <3>3
  <2>4. IsInjective(queued') /\ Len(sched'.queue) <= Len(queued')
        /\ \A i \in DOMAIN sched'.queue :
              sched'.queue[i] = queued'[Len(queued') - Len(sched'.queue) + i]
    <3>1. sched'.queue = <<>> /\ Len(queued') = L /\ queued' = queued
      BY DEF Batched, L
    <3>2. Len(<<>>) = 0 /\ DOMAIN <<>> = {}
      OBVIOUS
    <3> QED BY <1>1, <3>1, <3>2 DEF QueueRan, QueueInv
  <2> QED BY <2>1, <2>2, <2>3, <2>4 DEF QueueInv
<1>7. DrainInv'
  <2>1. \A c \in Requests : (IsQueued(c)' <=> IsQueued(c)) /\ invoked'[c] = invoked[c]
    BY DEF Batched, IsQueued
  <2>2. \A x \in Actors : drain'[x].on <=> x = a
    BY DEF Batched
  <2>3. \A x \in Actors : ~drain'[x].on => drain'[x] = NotDraining
    BY <2>2 DEF Batched, QueueRan, DrainInv
  <2>4. sched'.state = 2
    BY DEF Batched
  <2>5. \A c \in Requests : IsQueued(c)' => invoked'[c].at \in Idle
    BY <2>1 DEF Batched
  <2> QED BY <2>2, <2>3, <2>4, <2>5 DEF DrainInv
<1>8. RanInv'
  BY DEF Batched, QueueRan, RanInv
<1> QED BY <1>6, <1>7, <1>8 DEF QueueRan

\* flush_callbacks begins a drain; there is none before it.
LEMMA QueueRanFlush ==
  ASSUME Types, CalledInv, QueueRan, sched.state = 1, NEW a \in Actors, NEW e, NEW f, Flush(a, e, f),
         UNCHANGED <<queued, ran, invoked>>
  PROVE  QueueRan'
<1>1. \A x \in Actors : ~drain[x].on
  BY DEF QueueRan, DrainInv
<1>2. \A c \in Requests : IsQueued(c) => invoked[c].at \in Idle
  BY <1>1, NoneUnderway
<1>3. Batched(a)
  <2>1. sched'.queue = <<>> /\ sched'.state = 2
    BY DEF Flush, Types, SchedType
  <2>2. /\ \A x \in Actors : x # a => drain'[x] = drain[x]
        /\ drain'[a].on /\ drain'[a].batch = sched.queue
    BY DEF Flush, Types, DrainType
  <2>3. drain[a].batch = <<>>
    BY <1>1 DEF QueueRan, DrainInv, NotDraining
  <2> QED BY <1>1, <1>2, <2>1, <2>2, <2>3 DEF Batched
<1> QED BY <1>3, QueueRanBatched

\* A drain takes what was queued meanwhile, or ends when nothing was: then every callback
\* that was queued is over.
LEMMA QueueRanDrainMore ==
  ASSUME Types, CalledInv, QueueRan, NEW a \in Actors, DrainMore(a)
  PROVE  QueueRan'
<1>0. /\ drain[a].on /\ Callbacks(a) = {} /\ drain[a].batch = <<>>
      /\ UNCHANGED <<queued, ran, invoked>>
  BY DEF DrainMore, Draining, ghosts
<1>1. \A x \in Actors : drain[x].on <=> x = a
  BY <1>0 DEF QueueRan, DrainInv
<1>2. \A c \in Requests : IsQueued(c) => invoked[c].at \in Idle
  BY <1>0, <1>1, NoneUnderway
<1>3. sched.state = 2
  BY <1>0 DEF QueueRan, DrainInv
<1>4. CASE sched.queue # <<>>
  <2>1. sched'.queue = <<>> /\ sched'.state = 2
    BY <1>3, <1>4 DEF DrainMore, Types, SchedType
  <2>2. /\ \A x \in Actors : x # a => drain'[x] = drain[x]
        /\ drain'[a].on /\ drain'[a].batch = sched.queue
    BY <1>0, <1>4 DEF DrainMore, Types, DrainType
  <2>3. Batched(a)
    BY <1>0, <1>1, <1>2, <2>1, <2>2 DEF Batched
  <2> QED BY <2>3, QueueRanBatched
<1>5. CASE sched.queue = <<>>
  <2>1. sched'.queue = sched.queue /\ sched'.state = 3
    BY <1>5 DEF DrainMore, Types, SchedType
  <2>2. /\ \A x \in Actors : x # a => drain'[x] = drain[x]
        /\ drain'[a] = NotDraining
    BY <1>5 DEF DrainMore, Types, DrainType
  <2>3. \A x \in Actors : ~drain'[x].on /\ drain'[x].batch = drain[x].batch /\ drain'[x] = NotDraining
    BY <1>0, <1>1, <2>2 DEF NotDraining, QueueRan, DrainInv
  <2>4. \A x \in Actors : Taken(x)' = Taken(x)
    BY <1>0, <2>1, <2>3 DEF Taken
  <2>5. QueueInv'
    BY <1>0, <2>1, <2>3, <2>4 DEF QueueRan, QueueInv
  <2>6. \A c \in Requests : IsQueued(c) => invoked[c].at = "over"
    <3> DEFINE L == Len(queued)
    <3>1. L \in Nat /\ DOMAIN queued = 1..L
      BY Counts
    <3>2. Len(drain[a].batch) = 0 /\ \A x \in Actors : x # a => Len(drain[x].batch) = 0
      BY <1>0, <1>1, NoBatch
    <3>3. \A x \in Actors : Taken(x) = L - 0 - 0
      BY <1>5, <3>2 DEF Taken
    <3> HIDE DEF L
    <3>4. \A x \in Actors : Taken(x) = L
      BY <3>1, <3>3
    <3>5. \A i \in DOMAIN queued : invoked[queued[i]].at # "none"
      BY <3>1, <3>4 DEF QueueRan, QueueInv
    <3> QED BY <1>2, <3>5 DEF IsQueued, ToSet, Idle
  <2>7. DrainInv'
    <3>1. \A c \in Requests : (IsQueued(c)' <=> IsQueued(c)) /\ invoked'[c] = invoked[c]
      BY <1>0 DEF IsQueued
    <3>2. \A c \in Requests : IsQueued(c)' => invoked'[c].at = "over"
      BY <2>6, <3>1
    <3> QED BY <2>1, <2>3, <3>2 DEF DrainInv, Idle
  <2>8. RanInv'
    BY <1>0 DEF QueueRan, RanInv
  <2> QED BY <2>5, <2>7, <2>8 DEF QueueRan
<1> QED BY <1>4, <1>5

\* A call is queued.
LEMMA QueueRanQueued ==
  ASSUME Types, QueueRan, NEW c \in Requests, ~IsQueued(c), invoked[c].at = "none",
         UNCHANGED <<ran, drain, invoked>>,
         sched.state # 3, sched'.state = IF sched.state = 0 THEN 1 ELSE sched.state,
         sched'.queue = Append(sched.queue, c), queued' = Append(queued, c)
  PROVE  QueueRan'
<1> DEFINE L == Len(queued)
           q == Len(sched.queue)
<1>0. queued \in Seq(Requests) /\ sched.queue \in Seq(Requests) /\ c \notin ToSet(queued)
  BY DEF Types, GhostType, SchedType, IsQueued
<1>1. L \in Nat /\ q \in Nat /\ q <= L /\ DOMAIN queued = 1..L /\ DOMAIN sched.queue = 1..q
  BY Counts DEF QueueRan, QueueInv
<1>2. /\ Len(queued') = L + 1 /\ DOMAIN queued' = 1..(L + 1) /\ queued'[L + 1] = c
      /\ \A i \in 1..L : queued'[i] = queued[i]
      /\ ToSet(queued') = ToSet(queued) \cup {c} /\ IsInjective(queued')
  BY <1>0, Appended DEF QueueRan, QueueInv
<1>3. /\ Len(sched'.queue) = q + 1 /\ DOMAIN sched'.queue = 1..(q + 1) /\ sched'.queue[q + 1] = c
      /\ \A i \in 1..q : sched'.queue[i] = sched.queue[i]
  BY <1>0, Appended
<1>4. \A x \in Actors : Taken(x)' = Taken(x) /\ Taken(x) \in Int /\ Taken(x) >= 0
  <2> SUFFICES ASSUME NEW x \in Actors PROVE Taken(x)' = Taken(x) /\ Taken(x) \in Int /\ Taken(x) >= 0
    OBVIOUS
  <2> DEFINE m == Len(drain[x].batch)
  <2>1. m \in Nat /\ Taken(x) = L - q - m /\ Taken(x) \in Int /\ Taken(x) >= 0
    BY Counts DEF Taken, QueueRan, QueueInv
  <2>2. Taken(x)' = (L + 1) - (q + 1) - m
    BY <1>2, <1>3 DEF Taken
  <2> HIDE DEF L, q, m
  <2> QED BY <1>1, <2>1, <2>2
<1>5. \A x \in Actors : Taken(x) <= L
  <2> SUFFICES ASSUME NEW x \in Actors PROVE Taken(x) <= L
    OBVIOUS
  <2> DEFINE m == Len(drain[x].batch)
  <2>1. m \in Nat /\ Taken(x) = L - q - m
    BY Counts DEF Taken
  <2> HIDE DEF L, q, m
  <2> QED BY <1>1, <2>1
<1>6. \A x \in Actors : \A i \in DOMAIN drain[x].batch : Taken(x) + i \in 1..L
  <2> SUFFICES ASSUME NEW x \in Actors, NEW i \in DOMAIN drain[x].batch PROVE Taken(x) + i \in 1..L
    OBVIOUS
  <2> DEFINE m == Len(drain[x].batch)
             t == Taken(x)
  <2>1. m \in Nat /\ t = L - q - m /\ i \in 1..m
    BY Counts DEF Taken
  <2>2. t \in Int /\ t >= 0
    BY <1>4
  <2> HIDE DEF L, q, m, t
  <2>3. t + i \in 1..L
    BY <1>1, <2>1, <2>2
  <2> QED BY <2>3 DEF t
<1>7. \A i \in 1..q : sched.queue[i] = queued[(L - q) + i]
  BY <1>1 DEF QueueRan, QueueInv
<1> HIDE DEF L, q
<1>8. QueueInv'
  <2>1. Len(sched'.queue) <= Len(queued')
    BY <1>1, <1>2, <1>3
  <2>2. \A i \in DOMAIN sched'.queue :
           sched'.queue[i] = queued'[Len(queued') - Len(sched'.queue) + i]
    <3> SUFFICES ASSUME NEW i \in 1..(q + 1) PROVE sched'.queue[i] = queued'[((L + 1) - (q + 1)) + i]
      BY <1>2, <1>3
    <3>1. (L + 1) - (q + 1) = L - q
      BY <1>1
    <3>2. CASE i = q + 1
      <4>1. (L - q) + i = L + 1
        BY <1>1, <3>2
      <4> QED BY <1>2, <1>3, <3>1, <3>2, <4>1
    <3>3. CASE i # q + 1
      <4>1. i \in 1..q /\ (L - q) + i \in 1..L
        BY <1>1, <3>3
      <4> QED BY <1>2, <1>3, <1>7, <3>1, <4>1
    <3> QED BY <3>2, <3>3
  <2>3. \A x \in Actors : /\ Taken(x)' >= 0
                          /\ \A i \in DOMAIN drain'[x].batch : drain'[x].batch[i] = queued'[Taken(x)' + i]
    BY <1>2, <1>4, <1>6 DEF QueueRan, QueueInv
  <2>4. \A i \in DOMAIN queued' : invoked'[queued'[i]].at = "none" <=> \E x \in Actors : i > Taken(x)'
    <3> SUFFICES ASSUME NEW i \in 1..(L + 1)
                 PROVE  invoked[queued'[i]].at = "none" <=> \E x \in Actors : i > Taken(x)
      BY <1>2, <1>4
    <3>1. CASE i = L + 1
      <4>1. \A x \in Actors : i > Taken(x)
        BY <1>1, <1>4, <1>5, <3>1
      <4> QED BY <1>2, <3>1, <4>1, Counts
    <3>2. CASE i # L + 1
      <4>1. i \in DOMAIN queued /\ queued'[i] = queued[i]
        BY <1>1, <1>2, <3>2
      <4> QED BY <4>1 DEF QueueRan, QueueInv
    <3> QED BY <3>1, <3>2
  <2> QED BY <1>2, <2>1, <2>2, <2>3, <2>4 DEF QueueInv
<1>9. DrainInv'
  <2>1. \A d \in Requests : IsQueued(d)' <=> IsQueued(d) \/ d = c
    BY <1>2 DEF IsQueued
  <2>2. \A d \in Requests : IsQueued(d)' /\ invoked'[d].at \notin Idle => IsQueued(d) /\ invoked[d].at \notin Idle
    BY <2>1 DEF Idle
  <2>3. sched'.state = 2 <=> sched.state = 2
    BY DEF Types, SchedType
  <2>4. sched'.state # 3 /\ sched'.state # 0
    BY DEF Types, SchedType
  <2> QED BY <2>2, <2>3, <2>4 DEF QueueRan, DrainInv
<1>10. RanInv'
  <2>1. ASSUME NEW i \in DOMAIN queued', NEW j \in DOMAIN queued', i < j, queued'[j] \in ToSet(ran)
        PROVE  \E k, l \in DOMAIN ran : k < l /\ ran[k] = queued'[i] /\ ran[l] = queued'[j]
    <3>1. c \notin ToSet(ran)
      BY DEF QueueRan, RanInv
    <3>2. j # L + 1
      BY <1>2, <2>1, <3>1
    <3>3. i \in 1..L /\ j \in 1..L
      BY <1>1, <1>2, <2>1, <3>2
    <3> QED BY <1>1, <1>2, <2>1, <3>3 DEF QueueRan, RanInv
  <2> QED BY <2>1 DEF QueueRan, RanInv
<1> QED BY <1>8, <1>9, <1>10 DEF QueueRan

----------------------------------------------------------------------------
(* What the steps of calls and callbacks have in common.                    *)

\* A call goes on, and neither queues nor calls anything.
CallPasses(c) ==
  /\ UNCHANGED <<world, invoked, queued, ran, given, drain, neuter>>
  /\ sched'.queue = sched.queue /\ sched'.state = sched.state
  /\ game'.at = game.at /\ game'.suspended = game.suspended /\ game'.cookie = game.cookie
  /\ call'[c].thread = call[c].thread
  /\ \A d \in Requests : d # c => call'[d] = call[d]
  /\ \/ Call(c) /\ call'[c].at = "started"
     \/ call[c].at = "started" /\ call'[c].at = "asked"
     \/ call[c].at = "calling" /\ call'[c].at = "done" /\ invoked[c].at = "over"
     \/ /\ call[c].at = "queued" /\ call'[c].at \in {"waiting", "done"}
        /\ call'[c].at = "waiting" => ~call[c].pre /\ sched.state # 2
     \/ call[c].at = "waiting" /\ call'[c].at = "served" /\ sched.state = 3
     \/ call[c].at \in Preparing /\ call'[c].at \in Preparing \cup {"done"}
     \/ call[c].at = "flushing" /\ call'[c].at = "done" /\ ~drain[call[c].thread].on

Passing(c) ==
  \/ Call(c) \/ Ask(c) \/ CalledAtOnce(c) \/ AfterEnqueue(c) \/ Served(c) \/ Probe(c) \/ DecideHook(c)
  \/ StartWorker(c) \/ InstallHook(c) \/ WrapSteamStub(c) \/ Flushed(c)

\* The steps of a call pass on, but for those that call, queue or drain.
LEMMA CallSteps ==
  ASSUME Types, NEW c \in Requests, CallStep(c)
  PROVE  \/ CallPasses(c) /\ Passing(c)
         \/ CallAtOnce(c) \/ NoContext(c) \/ Enqueue(c) \/ FlushFailed(c)
<1>1. CASE Call(c) \/ CalledAtOnce(c) \/ AfterEnqueue(c) \/ Served(c) \/ Flushed(c)
  <2>1. CallPasses(c)
    <3>1. PICK p : At(c, p)
      BY <1>1 DEF Call, CalledAtOnce, AfterEnqueue, Served, Flushed
    <3>2. /\ call'[c].at = p /\ call'[c].thread = call[c].thread
          /\ \A d \in Requests : d # c => call'[d] = call[d]
      BY <3>1, CallMoves
    <3>3. CASE Call(c)
      <4>1. p = "started"
        BY <3>1, <3>2, <3>3, CallMoves DEF Call
      <4> QED BY <3>2, <3>3, <4>1 DEF Call, CallPasses, ghosts
    <3>4. CASE CalledAtOnce(c)
      <4>1. p = "done"
        BY <3>1, <3>2, <3>4, CallMoves DEF CalledAtOnce
      <4> QED BY <3>2, <3>4, <4>1 DEF CalledAtOnce, Waiting, CallPasses, ghosts
    <3>5. CASE AfterEnqueue(c)
      <4>1. p = IF ~call[c].pre /\ sched.state # 2 THEN "waiting" ELSE "done"
        BY <3>1, <3>2, <3>5, CallMoves DEF AfterEnqueue
      <4> QED BY <3>2, <3>5, <4>1 DEF AfterEnqueue, Waiting, CallPasses, ghosts
    <3>6. CASE Served(c)
      <4>1. p = "served"
        BY <3>1, <3>2, <3>6, CallMoves DEF Served
      <4> QED BY <3>2, <3>6, <4>1 DEF Served, Waiting, CallPasses, ghosts
    <3>7. CASE Flushed(c)
      <4>1. p = "done"
        BY <3>1, <3>2, <3>7, CallMoves DEF Flushed
      <4> QED BY <3>2, <3>7, <4>1 DEF Flushed, Waiting, CallPasses, ghosts
    <3> QED BY <1>1, <3>3, <3>4, <3>5, <3>6, <3>7
  <2> QED BY <1>1, <2>1 DEF Passing
<1>2. CASE Ask(c)
  <2>1. /\ call'[c].at = "asked" /\ call'[c].thread = call[c].thread
        /\ \A d \in Requests : d # c => call'[d] = call[d]
    BY <1>2 DEF Ask, Types, CallType
  <2> QED BY <1>2, <2>1 DEF Ask, Waiting, CallPasses, Passing, ghosts
<1>3. CASE Probe(c) \/ DecideHook(c) \/ StartWorker(c) \/ InstallHook(c) \/ WrapSteamStub(c)
  <2>1. \E p \in Preparing \cup {"done"} : At(c, p)
    BY <1>3 DEF Probe, DecideHook, StartWorker, InstallHook, WrapSteamStub, Preparing
  <2>2. PICK p \in Preparing \cup {"done"} : At(c, p)
    BY <2>1
  <2>3. /\ call'[c].at \in Preparing \cup {"done"} /\ call'[c].thread = call[c].thread
        /\ \A d \in Requests : d # c => call'[d] = call[d]
    BY <2>2, CallMoves
  <2>4. call[c].at \in Preparing
    BY <1>3 DEF Probe, DecideHook, StartWorker, InstallHook, WrapSteamStub, Preparing, Waiting
  <2>5. sched'.queue = sched.queue /\ sched'.state = sched.state
    BY <1>3 DEF Probe, DecideHook, StartWorker, InstallHook, WrapSteamStub, Hooked, NotHooked,
       Types, SchedType
  <2>6. game'.at = game.at /\ game'.suspended = game.suspended /\ game'.cookie = game.cookie
    BY <1>3 DEF Probe, DecideHook, StartWorker, InstallHook, WrapSteamStub, Hooked, NotHooked,
       Types, GameType
  <2>7. UNCHANGED <<world, invoked, queued, ran, given, drain, neuter>>
    BY <1>3 DEF Probe, DecideHook, StartWorker, InstallHook, WrapSteamStub, ghosts
  <2>8. CallPasses(c)
    BY ONLY <2>3, <2>4, <2>5, <2>6, <2>7 DEF CallPasses
  <2>9. Passing(c)
    BY ONLY <1>3 DEF Passing
  <2> QED BY <2>8, <2>9
<1> QED BY <1>1, <1>2, <1>3 DEF CallStep

\* A call calls its callback itself.
CallInvokes(c) ==
  /\ UNCHANGED <<world, game, sched, worker, queued, drain, neuter>>
  /\ call[c].at \in {"started", "asked"} /\ Free(call[c].thread)
  /\ call'[c].at = "calling" /\ call'[c].thread = call[c].thread
  /\ \A d \in Requests : d # c => call'[d] = call[d] /\ invoked'[d] = invoked[d]
  /\ invoked'[c].at \in {"begun", "body"} /\ invoked'[c].thread = call[c].thread
  /\ ~invoked'[c].executing
  /\ \/ invoked'[c].at = "begun" /\ UNCHANGED <<ran, given>>
     \/ invoked'[c].at = "body" /\ Reached(c, "no memory")

\* A call is queued.
CallQueued(c) ==
  /\ UNCHANGED <<world, game, worker, invoked, drain, neuter, ran, given>>
  /\ call[c].at = "asked"
  /\ sched.state # 3 /\ sched'.state = IF sched.state = 0 THEN 1 ELSE sched.state
  /\ sched'.queue = Append(sched.queue, c) /\ queued' = Append(queued, c)
  /\ call'[c].at = (IF sched.state = 0 THEN "first" ELSE "queued")
  /\ call'[c].thread = call[c].thread /\ call'[c].pre = call[c].pre
  /\ \A d \in Requests : d # c => call'[d] = call[d]

\* A call that is decided has its callback called at once, or queued.
LEMMA CallsInvoke ==
  ASSUME Types, CalledInv, NEW c \in Requests, CallAtOnce(c) \/ NoContext(c) \/ Enqueue(c)
  PROVE  CallInvokes(c) \/ CallQueued(c)
<1>0. call[c].at \in Undecided /\ invoked[c].at = "none" /\ ~invoked[c].executing
  BY DEF CallAtOnce, NoContext, Enqueue, Waiting, Undecided, CalledInv, CalledAt
<1>1. CASE CallAtOnce(c)
  <2>1. Invoke(c, call[c].thread, FALSE, FALSE) /\ At(c, "calling")
    BY <1>1 DEF CallAtOnce
  <2>2. /\ invoked'[c].at = "begun" /\ invoked'[c].thread = call[c].thread /\ ~invoked'[c].executing
        /\ \A d \in Requests : d # c => invoked'[d] = invoked[d]
    BY <2>1, Invokes
  <2>3. /\ call'[c].at = "calling" /\ call'[c].thread = call[c].thread
        /\ \A d \in Requests : d # c => call'[d] = call[d]
    BY <2>1, CallMoves
  <2> QED BY <1>1, <2>2, <2>3 DEF CallAtOnce, Waiting, CallInvokes, ghosts
<1>2. CASE NoContext(c)
  <2>1. At(c, "calling")
    BY <1>2 DEF NoContext
  <2>2. /\ invoked'[c].at = "body" /\ invoked'[c].thread = call[c].thread
        /\ invoked'[c].executing = invoked[c].executing
        /\ \A d \in Requests : d # c => invoked'[d] = invoked[d]
    BY <1>2 DEF NoContext, Types, InvokedType
  <2>3. /\ call'[c].at = "calling" /\ call'[c].thread = call[c].thread
        /\ \A d \in Requests : d # c => call'[d] = call[d]
    BY <2>1, CallMoves
  <2> QED BY <1>0, <1>2, <2>2, <2>3 DEF NoContext, Waiting, CallInvokes, Reached
<1>3. CASE Enqueue(c) /\ sched.state = 3
  <2>1. Invoke(c, call[c].thread, FALSE, sched.detected) /\ At(c, "calling")
    BY <1>3 DEF Enqueue
  <2>2. /\ invoked'[c].at = "begun" /\ invoked'[c].thread = call[c].thread /\ ~invoked'[c].executing
        /\ \A d \in Requests : d # c => invoked'[d] = invoked[d]
    BY <2>1, Invokes
  <2>3. /\ call'[c].at = "calling" /\ call'[c].thread = call[c].thread
        /\ \A d \in Requests : d # c => call'[d] = call[d]
    BY <2>1, CallMoves
  <2> QED BY <1>3, <2>2, <2>3 DEF Enqueue, Waiting, CallInvokes
<1>4. CASE Enqueue(c) /\ sched.state # 3
  <2>1. At(c, IF sched.state = 0 THEN "first" ELSE "queued")
    BY <1>4 DEF Enqueue
  <2>2. /\ call'[c].at = (IF sched.state = 0 THEN "first" ELSE "queued")
        /\ call'[c].thread = call[c].thread /\ call'[c].pre = call[c].pre
        /\ \A d \in Requests : d # c => call'[d] = call[d]
    BY <2>1, CallMoves
  <2>3. sched' = [sched EXCEPT !.queue = Append(@, c), !.state = IF @ = 0 THEN 1 ELSE @]
    BY <1>4 DEF Enqueue
  <2>4. sched'.state = (IF sched.state = 0 THEN 1 ELSE sched.state)
    BY <2>3 DEF Types, SchedType
  <2>5. sched'.queue = Append(sched.queue, c)
    BY <2>3 DEF Types, SchedType
  <2> QED BY <1>4, <2>2, <2>4, <2>5 DEF Enqueue, Waiting, CallQueued
<1> QED BY <1>1, <1>2, <1>3, <1>4

\* Where a callback is that neither begins nor was reached.
Amid == {"begun", "neuter", "analyze", "decrypt", "jump", "resume", "publish", "await"}

\* A callback goes on before the user's own one is reached.
CallbackPasses(c) ==
  /\ UNCHANGED <<world, game, sched, worker, call, drain, queued, ran, given>>
  /\ \A d \in Requests : d # c => invoked'[d] = invoked[d]
  /\ invoked'[c].thread = invoked[c].thread /\ invoked'[c].executing = invoked[c].executing
  /\ invoked[c].at \in Amid /\ invoked'[c].at \in Amid

\* The user's own callback is reached.
CallbackReaches(c) ==
  /\ UNCHANGED <<world, game, sched, worker, call, drain, queued>>
  /\ \A d \in Requests : d # c => invoked'[d] = invoked[d]
  /\ invoked'[c].thread = invoked[c].thread /\ invoked'[c].executing = invoked[c].executing
  /\ invoked[c].at \in Amid /\ invoked'[c].at = "body"
  /\ ran' = Append(ran, c)

Amids(c) == \/ Begin(c) \/ Suspend(c) \/ AnalysisFails(c) \/ Analyze(c) \/ Decrypt(c) \/ Jump(c)
            \/ ResumeOthers(c) \/ Await(c) \/ Publish(c)

\* The steps of a callback pass on or reach the user's own one, but for what that does.
LEMMA CallbackSteps ==
  ASSUME Types, NEW c \in Requests, CallbackStep(c)
  PROVE  \/ (CallbackPasses(c) \/ CallbackReaches(c)) /\ Amids(c)
         \/ CallInner(c) \/ Return(c)
<1> SUFFICES ASSUME Amids(c) PROVE CallbackPasses(c) \/ CallbackReaches(c)
  BY DEF CallbackStep, Amids
<1>1. invoked[c].at \in Amid
  BY DEF Amids, Begin, Suspend, AnalysisFails, Analyze, Decrypt, Jump, ResumeOthers, Await, Publish,
     Running, Amid
<1>2. \/ \E p \in Amid : CallbackAt(c, p) /\ UNCHANGED <<ran, given>>
      \/ CallbackAt(c, "body") /\ ran' = Append(ran, c)
  BY DEF Amids, Begin, Suspend, AnalysisFails, Analyze, Decrypt, Jump, ResumeOthers, Await, Publish,
     Amid, Reached, ghosts
<1>3. UNCHANGED <<world, game, sched, worker, call, drain, queued>>
  BY DEF Amids, Begin, Suspend, AnalysisFails, Analyze, Decrypt, Jump, ResumeOthers, Await, Publish,
     ghosts
<1>4. CASE \E p \in Amid : CallbackAt(c, p) /\ UNCHANGED <<ran, given>>
  <2>1. PICK p \in Amid : CallbackAt(c, p) /\ UNCHANGED <<ran, given>>
    BY <1>4
  <2>2. /\ invoked'[c].at = p /\ invoked'[c].thread = invoked[c].thread
        /\ invoked'[c].executing = invoked[c].executing
        /\ \A d \in Requests : d # c => invoked'[d] = invoked[d]
    BY <2>1, CallbackMoves
  <2> QED BY <1>1, <1>3, <2>1, <2>2 DEF CallbackPasses
<1>5. CASE CallbackAt(c, "body") /\ ran' = Append(ran, c)
  <2>2. /\ invoked'[c].at = "body" /\ invoked'[c].thread = invoked[c].thread
        /\ invoked'[c].executing = invoked[c].executing
        /\ \A d \in Requests : d # c => invoked'[d] = invoked[d]
    BY <1>5, CallbackMoves
  <2> QED BY <1>1, <1>3, <1>5, <2>2 DEF CallbackReaches
<1> QED BY <1>2, <1>4, <1>5

\* A callback that was reached calls another, or is over.
CallbackEnds(c) ==
  /\ UNCHANGED <<world, game, sched, worker, drain, neuter, queued, ran, given>>
  /\ \A d \in Requests : d # c => invoked'[d] = invoked[d]
  /\ invoked'[c].thread = invoked[c].thread /\ invoked'[c].executing = invoked[c].executing
  /\ invoked[c].at \in {"body", "inner"} /\ Free(invoked[c].thread)
  /\ \/ /\ UNCHANGED call /\ invoked'[c].at = "over"
        /\ \/ invoked[c].at = "body"
           \/ invoked[c].at = "inner" /\ ~IsUnderway(InnerCall[c])
     \/ /\ invoked[c].at = "body" /\ invoked'[c].at = "inner"
        /\ InnerCall[c] \in Requests /\ InnerCall[c] \in Inner /\ call[InnerCall[c]].at = "new"
        /\ call'[InnerCall[c]].at = "started" /\ call'[InnerCall[c]].thread = invoked[c].thread
        /\ \A d \in Requests : d # InnerCall[c] => call'[d] = call[d]

\* The user's callback makes a call of its own, or returns.
LEMMA CallbacksEnd ==
  ASSUME Types, NEW c \in Requests, CallInner(c) \/ Return(c)
  PROVE  CallbackEnds(c)
<1>1. CASE CallInner(c)
  <2>1. InnerCall[c] \in Requests /\ InnerCall[c] \in Inner
    BY <1>1, RequestsAssumption DEF CallInner, Inner
  <2>2. /\ invoked'[c].at = "inner" /\ invoked'[c].thread = invoked[c].thread
        /\ invoked'[c].executing = invoked[c].executing
        /\ \A d \in Requests : d # c => invoked'[d] = invoked[d]
    BY <1>1, CallbackMoves DEF CallInner
  <2>3. /\ call'[InnerCall[c]].at = "started" /\ call'[InnerCall[c]].thread = invoked[c].thread
        /\ \A d \in Requests : d # InnerCall[c] => call'[d] = call[d]
    BY <1>1, <2>1 DEF CallInner, Types, CallType
  <2> QED BY <1>1, <2>1, <2>2, <2>3 DEF CallInner, Running, CallbackEnds, ghosts
<1>2. CASE Return(c)
  <2>2. /\ invoked'[c].at = "over" /\ invoked'[c].thread = invoked[c].thread
        /\ invoked'[c].executing = invoked[c].executing
        /\ \A d \in Requests : d # c => invoked'[d] = invoked[d]
    BY <1>2, CallbackMoves DEF Return
  <2> QED BY <1>2, <2>2 DEF Return, Running, CallbackEnds, IsUnderway, ghosts
<1> QED BY <1>1, <1>2

\* What a drain leaves of the others.
LEMMA Flushes ==
  ASSUME Types, NEW a \in Actors, NEW e, NEW f, Flush(a, e, f)
  PROVE  /\ drain'[a].on /\ drain'[a].executing = e
         /\ \A x \in Actors : x # a => drain'[x] = drain[x]
         /\ sched'.state = 2 /\ sched'.queue = <<>>
BY DEF Flush, Types, DrainType, SchedType

\* A step of the main thread outside of calls and callbacks, or of the worker.
ImageGoes ==
  /\ UNCHANGED <<world, invoked, call, neuter, queued, ran, given, drain>>
  /\ sched'.queue = sched.queue /\ sched'.state = sched.state
ImageFlushes(a) ==
  /\ UNCHANGED <<world, invoked, call, neuter, queued, ran, given>>
  /\ sched.state = 1 /\ \E e \in BOOLEAN : \E f : Flush(a, e, f) /\ (e => a = "main")
  /\ Free(a)
  /\ \/ a = "main" /\ game.at \in {"stub", "cookie"} /\ game'.at \in {"stub drain", "drain"}
        /\ game'.suspended = game.suspended
     \/ a = "worker" /\ UNCHANGED game /\ worker = "waiting" /\ worker' = "draining"

\* The main thread and the worker go on, or begin the drain when the state is 1.
LEMMA ImageSteps ==
  ASSUME Types, PlaceInv, ImageStep
  PROVE  ImageGoes \/ (\E a \in {"main", "worker"} : ImageFlushes(a))
<1>1. CASE Resume \/ LeaveLoader \/ StubDrained \/ InitCookie \/ EnterMain \/ WorkerEnds
  BY <1>1 DEF Resume, LeaveLoader, StubDrained, InitCookie, EnterMain, WorkerEnds, ImageGoes, ghosts
<1>2. CASE StubDetour
  <2>1. CASE sched' = [sched EXCEPT !.original = TRUE, !.detected = world.arxan] /\ UNCHANGED drain
    <3>1. sched'.queue = sched.queue /\ sched'.state = sched.state
      BY <2>1 DEF Types, SchedType
    <3> QED BY <1>2, <2>1, <3>1 DEF StubDetour, ImageGoes, ghosts
  <2>2. CASE Flush("main", TRUE, FALSE) /\ game' = [game EXCEPT !.at = "stub drain"]
    <3>1. sched.state = 1
      BY <1>2 DEF StubDetour, PlaceInv, UnscheduledInv, WorkerInv, AheadInv, DrainPlaceInv, GameInv, HookedInv, SteamIsAhead
    <3>2. game'.at = "stub drain" /\ game'.suspended = game.suspended
      BY <2>2 DEF Types, GameType
    <3> QED BY <1>2, <2>2, <3>1, <3>2 DEF StubDetour, ImageFlushes, ghosts
  <2> QED BY <1>2, <2>1, <2>2 DEF StubDetour
<1>3. CASE CookieDetour
  <2>1. sched.state = 1
    BY <1>3 DEF CookieDetour, PlaceInv, UnscheduledInv, WorkerInv, AheadInv, DrainPlaceInv, GameInv, HookedInv
  <2>2. game'.at = "drain" /\ game'.suspended = game.suspended
    BY <1>3 DEF CookieDetour, Types, GameType
  <2> QED BY <1>3, <2>1, <2>2 DEF CookieDetour, ImageFlushes, ghosts
<1>4. CASE WorkerFlush
  <2>1. sched.state = 1
    BY <1>4 DEF WorkerFlush, PlaceInv, UnscheduledInv, WorkerInv, AheadInv, DrainPlaceInv, GameInv, HookedInv
  <2> QED BY <1>4, <2>1 DEF WorkerFlush, ImageFlushes, ghosts
<1> QED BY <1>1, <1>2, <1>3, <1>4 DEF ImageStep

\* Every step keeps the facts about the queue and the order of the callbacks.
LEMMA QueueRanNext ==
  ASSUME Types, CalledInv, QueueRan, PrepareInv, PlaceInv, ArxanNext
  PROVE  QueueRan'
<1>1. ASSUME NEW c \in Requests, CallStep(c) PROVE QueueRan'
  <2>1. CASE CallPasses(c)
    BY <2>1, QueueRanStays DEF CallPasses
  <2>2. CASE CallInvokes(c)
    <3>1. ~IsQueued(c) /\ invoked[c].at = "none"
      BY <2>2 DEF CallInvokes, CalledInv, CalledAt, Undecided
    <3>2. CASE invoked'[c].at = "begun"
      BY <2>2, <3>1, <3>2, QueueRanInvoked DEF CallInvokes
    <3>3. CASE invoked'[c].at = "body"
      <4>1. CallbackReached(c)
        BY <2>2, <3>1, <3>3 DEF CallInvokes, CallbackReached, Reached
      <4> QED BY <4>1, QueueRanReached
    <3> QED BY <2>2, <3>2, <3>3 DEF CallInvokes
  <2>3. CASE CallQueued(c)
    <3>1. ~IsQueued(c) /\ invoked[c].at = "none"
      BY <2>3 DEF CallQueued, CalledInv, CalledAt, Undecided
    <3> QED BY <2>3, <3>1, QueueRanQueued DEF CallQueued
  <2>4. CASE FlushFailed(c)
    <3>1. sched.state = 1
      BY <2>4 DEF FlushFailed, Waiting, PrepareInv, Prepares, Preparing
    <3>2. call[c].thread \in Actors
      BY DEF Types, CallType
    <3>3. Flush(call[c].thread, FALSE, FALSE) /\ UNCHANGED <<queued, ran, invoked>>
      BY <2>4 DEF FlushFailed, ghosts
    <3> QED BY <3>1, <3>2, <3>3, QueueRanFlush
  <2> QED BY <1>1, <2>1, <2>2, <2>3, <2>4, CallSteps, CallsInvoke
<1>2. ASSUME NEW c \in Requests, CallbackStep(c) PROVE QueueRan'
  <2>1. CASE CallbackPasses(c)
    <3>1. CallbackGoes(c)
      BY <2>1 DEF CallbackPasses, CallbackGoes, Amid
    <3> QED BY <3>1, QueueRanGoes
  <2>2. CASE CallbackReaches(c)
    <3>1. CallbackReached(c)
      BY <2>2 DEF CallbackReaches, CallbackReached, Amid
    <3> QED BY <3>1, QueueRanReached
  <2>3. CASE CallbackEnds(c)
    <3>1. CallbackGoes(c)
      BY <2>3 DEF CallbackEnds, CallbackGoes
    <3> QED BY <3>1, QueueRanGoes
  <2> QED BY <1>2, <2>1, <2>2, <2>3, CallbackSteps, CallbacksEnd
<1>3. ASSUME NEW a \in Actors, InvokeNext(a) \/ DrainMore(a) PROVE QueueRan'
  BY <1>3, QueueRanInvokeNext, QueueRanDrainMore
<1>4. CASE ImageStep
  <2>1. CASE ImageGoes
    BY <2>1, QueueRanStays DEF ImageGoes
  <2>2. ASSUME NEW a \in {"main", "worker"}, ImageFlushes(a) PROVE QueueRan'
    <3>1. a \in Actors
      BY DEF Actors
    <3>2. PICK e, f : Flush(a, e, f)
      BY <2>2 DEF ImageFlushes
    <3> QED BY <2>2, <3>1, <3>2, QueueRanFlush DEF ImageFlushes
  <2> QED BY <1>4, <2>1, <2>2, ImageSteps
<1> QED BY <1>1, <1>2, <1>3, <1>4 DEF ArxanNext, ImageStep

----------------------------------------------------------------------------
(* The call of a callback.                                                  *)

\* What InvokeNext calls.
LEMMA InvokesNext ==
  ASSUME Types, CalledInv, QueueRan, NEW a \in Actors, InvokeNext(a)
  PROVE  \E b \in Requests :
           /\ invoked[b].at = "none" /\ IsQueued(b)
           /\ invoked'[b].at = "begun" /\ invoked'[b].thread = a
           /\ invoked'[b].executing = drain[a].executing
           /\ \A d \in Requests : d # b => invoked'[d] = invoked[d]
           /\ drain[a].on /\ Free(a) /\ Callbacks(a) = {}
           /\ \A x \in Actors : drain'[x].on = drain[x].on /\ drain'[x].executing = drain[x].executing
           /\ UNCHANGED <<world, game, sched, worker, call, neuter, queued, ran, given>>
<1> DEFINE L == Len(queued)
           b == Head(drain[a].batch)
           m == Len(drain[a].batch)
           q == Len(sched.queue)
           t == Taken(a)
<1>0. /\ drain[a].on /\ drain[a].batch # <<>> /\ drain[a].batch \in Seq(Requests) /\ Callbacks(a) = {}
      /\ UNCHANGED <<world, game, sched, worker, call, neuter, queued, ran, given>> /\ Free(a)
      /\ drain' = [drain EXCEPT ![a].batch = Tail(@)]
  BY DEF InvokeNext, Draining, Types, DrainType, ghosts
<1>1. m \in Nat /\ m > 0 /\ b = drain[a].batch[1] /\ b \in Requests /\ DOMAIN drain[a].batch = 1..m
  BY <1>0
<1>2. \A x \in Actors : drain'[x].on = drain[x].on /\ drain'[x].executing = drain[x].executing
  BY <1>0 DEF Types, DrainType
<1>3. /\ invoked'[b].at = "begun" /\ invoked'[b].thread = a /\ invoked'[b].executing = drain[a].executing
      /\ \A d \in Requests : d # b => invoked'[d] = invoked[d]
  BY <1>1, Invokes DEF InvokeNext
<1>4. L \in Nat /\ DOMAIN queued = 1..L /\ t \in Int /\ t >= 0 /\ q \in Nat /\ t = L - q - m
  BY Counts DEF QueueRan, QueueInv, Taken
<1>5. t + 1 \in DOMAIN queued /\ queued[t + 1] = b
  <2>1. 1 \in DOMAIN drain[a].batch
    BY <1>1
  <2>2. queued[t + 1] = b
    BY <1>1, <2>1 DEF QueueRan, QueueInv
  <2> HIDE DEF L, m, q, t, b
  <2>3. t + 1 \in 1..L
    BY <1>1, <1>4
  <2> QED BY <1>4, <2>2, <2>3
<1>6. invoked[b].at = "none" /\ IsQueued(b)
  <2>1. t + 1 > t
    <3> HIDE DEF L, m, q, t
    <3> QED BY <1>4
  <2> QED BY <1>5, <2>1, Counts DEF QueueRan, QueueInv
<1> HIDE DEF b
<1> QED BY <1>0, <1>1, <1>2, <1>3, <1>6

\* Every step keeps what a call and its callback have to do with each other.
LEMMA CalledNext ==
  ASSUME Types, CalledInv, QueueRan, PrepareInv, PlaceInv, ArxanNext
  PROVE  CalledInv'
<1>0. UNCHANGED queued => \A d \in Requests : IsQueued(d)' <=> IsQueued(d)
  BY DEF IsQueued
<1> USE DEF Undecided, Preparing
<1>1. ASSUME NEW c \in Requests, CallStep(c) PROVE CalledInv'
  <2>1. CASE CallPasses(c)
    <3>1. UNCHANGED <<queued, invoked>>
      BY <2>1 DEF CallPasses
    <3>2. ASSUME NEW d \in Requests, d # c PROVE call'[d] = call[d]
      BY <2>1, <3>2 DEF CallPasses
    <3>3. call[c].at = "new" => call'[c].at = "started"
      BY <2>1 DEF CallPasses
    <3>4. /\ call'[c].at \in {"started", "asked"} => call[c].at \in {"new", "started"}
          /\ call'[c].at \notin {"new", "calling"}
          /\ call'[c].at \in {"first", "probed", "wrap", "hook", "post", "failed", "queued", "waiting",
                              "served", "flushing"} =>
               call[c].at \in {"first", "probed", "wrap", "hook", "post", "failed", "queued", "waiting",
                              "served", "flushing"}
          /\ call'[c].at = "done" => \/ invoked[c].at = "over"
                                     \/ call[c].at \in {"first", "probed", "wrap", "hook", "post", "failed",
                                                        "queued", "waiting", "served", "flushing"}
      BY <2>1 DEF CallPasses, Call
    <3>5. CalledAt(c)'
      BY <1>0, <3>1, <3>4 DEF CalledInv, CalledAt
    <3> QED BY <1>0, <3>1, <3>2, <3>5 DEF CalledInv, CalledAt
  <2>2. CASE CallInvokes(c)
    <3>1. call[c].thread \in Actors /\ ~IsQueued(c)
      BY <2>2 DEF CallInvokes, Types, CallType, CalledInv, CalledAt
    <3> QED BY <1>0, <2>2, <3>1 DEF CallInvokes, CalledInv, CalledAt
  <2>3. CASE CallQueued(c)
    <3>1. ToSet(queued') = ToSet(queued) \cup {c}
      BY <2>3, Appended DEF CallQueued, Types, GhostType
    <3>2. \A d \in Requests : IsQueued(d)' <=> IsQueued(d) \/ d = c
      BY <3>1 DEF IsQueued
    <3> QED BY <2>3, <3>2 DEF CallQueued, CalledInv, CalledAt
  <2>4. CASE FlushFailed(c)
    <3>1. At(c, "flushing") /\ UNCHANGED <<queued, invoked>> /\ call[c].at = "failed"
      BY <2>4 DEF FlushFailed, ghosts, Waiting
    <3>2. /\ call'[c].at = "flushing" /\ \A d \in Requests : d # c => call'[d] = call[d]
      BY <3>1, CallMoves
    <3> QED BY <1>0, <3>1, <3>2 DEF CalledInv, CalledAt
  <2> QED BY <1>1, <2>1, <2>2, <2>3, <2>4, CallSteps, CallsInvoke
<1>2. ASSUME NEW c \in Requests, CallbackStep(c) PROVE CalledInv'
  <2>1. CASE CallbackPasses(c)
    BY <1>0, <2>1 DEF CallbackPasses, CalledInv, CalledAt, Amid
  <2>2. CASE CallbackReaches(c)
    BY <1>0, <2>2 DEF CallbackReaches, CalledInv, CalledAt, Amid
  <2>3. CASE CallbackEnds(c)
    <3>1. CASE UNCHANGED call
      BY <1>0, <2>3, <3>1 DEF CallbackEnds, CalledInv, CalledAt
    <3>2. CASE invoked'[c].at = "inner"
      <4>1. InnerCall[c] # c
        BY <2>3, <3>2 DEF CallbackEnds, CalledInv, CalledAt
      <4> QED BY <1>0, <2>3, <3>2, <4>1 DEF CallbackEnds, CalledInv, CalledAt
    <3> QED BY <2>3, <3>1, <3>2 DEF CallbackEnds
  <2> QED BY <1>2, <2>1, <2>2, <2>3, CallbackSteps, CallbacksEnd
<1>3. ASSUME NEW a \in Actors, InvokeNext(a) PROVE CalledInv'
  <2>1. PICK b \in Requests :
           /\ invoked[b].at = "none" /\ IsQueued(b)
           /\ invoked'[b].at = "begun" /\ invoked'[b].thread = a
           /\ \A d \in Requests : d # b => invoked'[d] = invoked[d]
           /\ UNCHANGED <<call, queued>>
    BY <1>3, InvokesNext
  <2> QED BY <1>0, <2>1 DEF CalledInv, CalledAt
<1>4. CASE (\E a \in Actors : DrainMore(a)) \/ ImageGoes \/ \E a \in {"main", "worker"} : ImageFlushes(a)
  <2>1. UNCHANGED <<call, invoked, queued>>
    BY <1>4 DEF DrainMore, ImageGoes, ImageFlushes, ghosts
  <2> QED BY <1>0, <2>1 DEF CalledInv, CalledAt
<1> QED BY <1>1, <1>2, <1>3, <1>4, ImageSteps DEF ArxanNext, ImageStep

----------------------------------------------------------------------------
(* Who prepares the drain, and where the main thread is.                    *)

PlacesInv == PrepareInv /\ PlaceInv

\* Where the threads are when nothing is prepared, nor flushed.
Aside ==
  /\ UNCHANGED <<world, game, worker>> /\ sched'.state = sched.state
  /\ \A a \in Actors : drain'[a].on = drain[a].on
  /\ \A d \in Requests : call'[d].at \in Preparing \/ call[d].at \in Preparing => call'[d] = call[d]

\* Steps that neither prepare a drain nor move the game keep who prepares.
LEMMA PlacesAside == ASSUME Types, PlacesInv, Aside PROVE PlacesInv'
<1>1. PrepareInv'
  <2>1. Prepares' => Prepares
    BY DEF Prepares, Aside
  <2>2. \A c \in Requests : call'[c].at \in {"wrap", "hook"} => call'[c] = call[c]
    BY DEF Aside, Preparing
  <2> QED BY <2>1, <2>2 DEF PlacesInv, PrepareInv, Aside
<1>2. PlaceInv'
  <2>1. drain'["main"].on = drain["main"].on
    BY DEF Aside, Actors
  <2> QED BY <2>1 DEF PlacesInv, PlaceInv, UnscheduledInv, WorkerInv, AheadInv, DrainPlaceInv, GameInv, HookedInv, SteamIsAhead, Aside
<1> QED BY <1>1, <1>2 DEF PlacesInv

\* A call that does not prepare keeps who prepares.
LEMMA PlacesPassing ==
  ASSUME Types, PlacesInv, NEW c \in Requests, CallPasses(c),
         Call(c) \/ Ask(c) \/ CalledAtOnce(c) \/ AfterEnqueue(c) \/ Served(c) \/ Flushed(c)
  PROVE  PlacesInv'
<1>1. call[c].at \in {"new", "started", "calling", "queued", "waiting", "flushing"}
  BY DEF Call, Ask, CalledAtOnce, AfterEnqueue, Served, Flushed, Waiting
<1>2. UNCHANGED <<world, game, worker, drain>> /\ sched'.state = sched.state
  BY DEF Call, Ask, CalledAtOnce, AfterEnqueue, Served, Flushed
<1>3. call[c].at \notin Preparing /\ call'[c].at \notin Preparing
  BY <1>1 DEF CallPasses, Preparing
<1>4. \A d \in Requests : d # c => call'[d] = call[d]
  BY DEF CallPasses
<1>5. Aside
  BY <1>2, <1>3, <1>4 DEF Aside
<1> QED BY <1>5, PlacesAside

\* A callback's steps keep who prepares.
LEMMA PlacesCallback ==
  ASSUME Types, CalledInv, PlacesInv, NEW c \in Requests,
         CallInvokes(c) \/ CallbackPasses(c) \/ CallbackReaches(c) \/ CallbackEnds(c)
  PROVE  PlacesInv'
<1>1. CASE CallInvokes(c)
  <2>1. Aside
    BY <1>1 DEF CallInvokes, Aside, Preparing
  <2> QED BY <2>1, PlacesAside
<1>2. CASE CallbackPasses(c) \/ CallbackReaches(c)
  <2>1. Aside
    BY <1>2 DEF CallbackPasses, CallbackReaches, Aside
  <2> QED BY <2>1, PlacesAside
<1>3. CASE CallbackEnds(c)
  <2>1. Aside
    BY <1>3 DEF CallbackEnds, Aside, Preparing
  <2> QED BY <2>1, PlacesAside
<1> QED BY <1>1, <1>2, <1>3

\* Calling the next callback keeps who prepares.
LEMMA PlacesInvokeNext ==
  ASSUME Types, CalledInv, QueueRan, PlacesInv, NEW a \in Actors, InvokeNext(a)
  PROVE  PlacesInv'
<1>1. /\ \A x \in Actors : drain'[x].on = drain[x].on
      /\ UNCHANGED <<world, game, sched, worker, call>>
  BY InvokesNext
<1>2. Aside
  BY <1>1 DEF Aside
<1> QED BY <1>2, PlacesAside

\* Who drains no longer has it prepared.
LEMMA PlacesDrainMore ==
  ASSUME Types, QueueRan, PlacesInv, NEW a \in Actors, DrainMore(a)
  PROVE  PlacesInv'
<1>0. drain[a].on /\ UNCHANGED <<world, game, worker, call>>
  BY DEF DrainMore, Draining
<1>1. sched.state = 2
  BY <1>0 DEF QueueRan, DrainInv
<1>2. CASE sched.queue # <<>>
  <2>1. sched'.state = sched.state
    BY <1>2 DEF DrainMore, Types, SchedType
  <2>2. \A x \in Actors : drain'[x].on = drain[x].on
    <3>1. drain' = [drain EXCEPT ![a].batch = sched.queue]
      BY <1>2 DEF DrainMore
    <3> QED BY <3>1 DEF Types, DrainType
  <2>3. Aside
    BY <1>0, <2>1, <2>2 DEF Aside
  <2> QED BY <2>3, PlacesAside
<1>3. CASE sched.queue = <<>>
  <2>1. sched'.state = 3
    BY <1>3 DEF DrainMore, Types, SchedType
  <2>2. ~Prepares
    BY <1>1 DEF PlacesInv, PrepareInv
  <2>3. PrepareInv'
    <3>1. ~Prepares' /\ \A c \in Requests : call'[c].at \notin Preparing
      BY <1>0, <2>2 DEF Prepares
    <3> QED BY <3>1 DEF PrepareInv, Preparing
  <2>4. PlaceInv'
    <3>1. UnscheduledInv' /\ DrainPlaceInv'
      BY ONLY <2>1 DEF UnscheduledInv, DrainPlaceInv
    <3>2. WorkerInv'
      <4>1. worker # "waiting"
        BY <1>1 DEF PlacesInv, PlaceInv, WorkerInv
      <4> QED BY ONLY <1>0, <2>1, <4>1 DEF WorkerInv
    <3>3. AheadInv'
      <4>1. AheadInv /\ sched.state # 1
        BY <1>1 DEF PlacesInv, PlaceInv
      <4> QED BY ONLY <1>0, <4>1 DEF AheadInv, SteamIsAhead
    <3>4. GameInv' /\ HookedInv'
      BY <1>0, <2>1 DEF PlacesInv, PlaceInv, GameInv, HookedInv
    <3> QED BY <3>1, <3>2, <3>3, <3>4 DEF PlaceInv
  <2> QED BY <2>3, <2>4 DEF PlacesInv
<1> QED BY <1>2, <1>3

\* The first call that is queued is the only one that prepares.
LEMMA PlacesQueued ==
  ASSUME Types, PlacesInv, NEW c \in Requests, CallQueued(c)
  PROVE  PlacesInv'
<1>1. CASE sched.state # 0
  <2>1. Aside
    BY <1>1 DEF CallQueued, Aside, Preparing
  <2> QED BY <2>1, PlacesAside
<1>2. CASE sched.state = 0
  <2>0. /\ UNCHANGED <<world, game, worker, drain>> /\ sched'.state = 1
        /\ call'[c].at = "first" /\ \A d \in Requests : d # c => call'[d] = call[d]
    BY <1>2 DEF CallQueued
  <2>1. \A d \in Requests : call[d].at \notin Preparing
    BY <1>2 DEF PlacesInv, PrepareInv, Prepares
  <2>2. \A d \in Requests : call'[d].at \in Preparing => d = c
    BY <2>0, <2>1
  <2>3. \A d \in Requests : call'[d].at \notin {"wrap", "hook"}
    BY <2>0, <2>2 DEF Preparing
  <2>4. worker = "none"
    BY <1>2 DEF PlacesInv, PlaceInv, UnscheduledInv
  <2>5. PrepareInv'
    BY <1>2, <2>0, <2>2, <2>3, <2>4 DEF PlacesInv, PlaceInv, UnscheduledInv, WorkerInv, AheadInv, DrainPlaceInv, GameInv, HookedInv, PrepareInv
  <2>6. PlaceInv'
    BY <1>2, <2>0, <2>4 DEF PlacesInv, PlaceInv, UnscheduledInv, WorkerInv, AheadInv, DrainPlaceInv, GameInv, HookedInv, SteamIsAhead
  <2> QED BY <2>5, <2>6 DEF PlacesInv
<1> QED BY <1>1, <1>2

\* The call that prepares goes on.
LEMMA PlacesPrepares ==
  ASSUME Types, QueueRan, FrameInv, PlacesInv, NEW c \in Requests, CallPasses(c),
         Probe(c) \/ DecideHook(c) \/ StartWorker(c) \/ InstallHook(c) \/ WrapSteamStub(c)
  PROVE  PlacesInv'
<1>0. /\ call[c].at \in Preparing /\ UNCHANGED <<world, drain>>
      /\ sched'.state = sched.state /\ game'.at = game.at /\ game'.suspended = game.suspended
      /\ game'.cookie = game.cookie
      /\ call'[c].thread = call[c].thread
      /\ \A d \in Requests : d # c => call'[d] = call[d]
  BY DEF CallPasses, Probe, DecideHook, StartWorker, InstallHook, WrapSteamStub, Waiting, Preparing
<1>1. /\ sched.state = 1 /\ worker = "none" /\ game.target = "original"
      /\ game.at \in {"early", "entry", "main"} /\ game.steam # "patched" /\ ~game.hooked
  BY <1>0 DEF PlacesInv, PrepareInv, Prepares
<1>2. \A d \in Requests : call'[d].at \in Preparing => d = c
  BY <1>0 DEF PlacesInv, PrepareInv
<1>3. \A x \in Actors : ~drain[x].on
  BY <1>1 DEF QueueRan, DrainInv
<1>12. /\ game.cookie => game.at \in {"cookie", "drain", "main"}
       /\ game.suspended => game.at = "early"
  BY DEF PlacesInv, PlaceInv, UnscheduledInv, WorkerInv, AheadInv, DrainPlaceInv, GameInv, HookedInv
<1>4. CASE Probe(c)
  <2>1. UNCHANGED <<game, worker>> /\ call'[c].at \notin {"wrap", "hook"}
    BY <1>4, CallMoves DEF Probe
  <2>2. PrepareInv'
    BY <1>0, <1>1, <1>2, <2>1 DEF PrepareInv, Preparing
  <2>3. PlaceInv'
    BY <1>0, <1>1, <2>1 DEF PlacesInv, PlaceInv, UnscheduledInv, WorkerInv, AheadInv, DrainPlaceInv, GameInv, HookedInv, SteamIsAhead
  <2> QED BY <2>2, <2>3 DEF PlacesInv
<1>5. CASE DecideHook(c)
  <2>1. UNCHANGED <<game, worker>>
    BY <1>5 DEF DecideHook
  <2>2. call'[c].at \in {"wrap", "hook"} => PreEntryPoint(call[c].thread)
    BY <1>5, CallMoves DEF DecideHook
  <2>3. ASSUME world.mainFound, PreEntryPoint(call[c].thread)
        PROVE  game.at = "early" /\ (call[c].thread = "main" \/ game.suspended)
    <3>1. CASE call[c].thread = "main"
      <4>1. ~drain["main"].on /\ IsUnderway(c)
        BY <1>0, <1>3 DEF Actors, IsUnderway, Preparing
      <4> QED BY <3>1, <4>1 DEF FrameInv, LateInv
    <3>2. CASE call[c].thread # "main"
      BY <2>3, <3>2 DEF PreEntryPoint, MainThreadFound, MainCreatedSuspended, PlacesInv, PlaceInv, UnscheduledInv, WorkerInv, AheadInv, DrainPlaceInv, GameInv, HookedInv
    <3> QED BY <3>1, <3>2
  <2>4. PrepareInv'
    <3>1. \A d \in Requests : call'[d].at \in {"wrap", "hook"} => d = c
      BY <1>2 DEF Preparing
    <3> QED BY <1>0, <1>1, <1>2, <2>1, <2>2, <2>3, <3>1 DEF PrepareInv
  <2>5. PlaceInv'
    BY <1>0, <1>1, <2>1 DEF PlacesInv, PlaceInv, UnscheduledInv, WorkerInv, AheadInv, DrainPlaceInv, GameInv, HookedInv, SteamIsAhead
  <2> QED BY <2>4, <2>5 DEF PlacesInv
<1>6. CASE StartWorker(c) /\ worker' = "waiting" /\ At(c, "done")
  <2>1. UNCHANGED game /\ call'[c].at = "done"
    BY <1>6, CallMoves DEF StartWorker
  <2>2. \A d \in Requests : call'[d].at \notin Preparing
    BY <1>2, <2>1 DEF Preparing
  <2>3. PrepareInv'
    BY <2>2 DEF PrepareInv, Prepares, Preparing
  <2>4. PlaceInv'
    <3>1. UnscheduledInv'
      BY ONLY <1>0, <1>1, <1>12, <1>6, <2>1 DEF UnscheduledInv
    <3>2. DrainPlaceInv'
      BY ONLY <1>0, <1>1, <1>12, <1>6, <2>1 DEF DrainPlaceInv
    <3>3. WorkerInv'
      BY ONLY <1>0, <1>1, <1>12, <1>6, <2>1 DEF WorkerInv
    <3>4. AheadInv'
      BY ONLY <1>0, <1>1, <1>12, <1>6, <2>1 DEF AheadInv, SteamIsAhead
    <3>5. GameInv'
      BY ONLY <1>0, <1>1, <1>12, <1>6, <2>1 DEF GameInv
    <3>6. HookedInv'
      BY ONLY <1>0, <1>1, <1>12, <1>6, <2>1 DEF HookedInv
    <3> QED BY <3>1, <3>2, <3>3, <3>4, <3>5, <3>6 DEF PlaceInv
  <2> QED BY <2>3, <2>4 DEF PlacesInv
<1>7. CASE StartWorker(c) /\ UNCHANGED worker /\ At(c, "failed")
  <2>1. UNCHANGED <<game, worker>> /\ call'[c].at = "failed"
    BY <1>7, CallMoves DEF StartWorker
  <2>2. PrepareInv'
    BY <1>0, <1>1, <1>2, <2>1 DEF PrepareInv, Preparing
  <2>3. PlaceInv'
    BY <1>0, <1>1, <2>1 DEF PlacesInv, PlaceInv, UnscheduledInv, WorkerInv, AheadInv, DrainPlaceInv, GameInv, HookedInv, SteamIsAhead
  <2> QED BY <2>2, <2>3 DEF PlacesInv
<1>8. CASE InstallHook(c) /\ Hooked /\ At(c, "done")
  <2>1. call'[c].at = "done" /\ UNCHANGED worker
    BY <1>8, CallMoves DEF InstallHook
  <2>2. game'.target = "detour" /\ game'.hooked = TRUE /\ game'.steam = game.steam
    BY <1>8 DEF Hooked, Types, GameType
  <2>3. \A d \in Requests : call'[d].at \notin Preparing
    BY <1>2, <2>1 DEF Preparing
  <2>4. PrepareInv'
    BY <2>3 DEF PrepareInv, Prepares, Preparing
  <2>5. world.mainFound => game.at = "early"
    BY <1>8 DEF InstallHook, Waiting, PlacesInv, PrepareInv
  <2>6. PlaceInv'
    <3>1. UnscheduledInv'
      BY ONLY <1>0, <1>1, <1>12, <2>1, <2>2, <2>5 DEF UnscheduledInv
    <3>2. DrainPlaceInv'
      BY ONLY <1>0, <1>1, <1>12, <2>1, <2>2, <2>5 DEF DrainPlaceInv
    <3>3. WorkerInv'
      BY ONLY <1>0, <1>1, <1>12, <2>1, <2>2, <2>5 DEF WorkerInv
    <3>4. AheadInv'
      BY ONLY <1>0, <1>1, <1>12, <2>1, <2>2, <2>5 DEF AheadInv, SteamIsAhead
    <3>5. GameInv'
      BY ONLY <1>0, <1>1, <1>12, <2>1, <2>2, <2>5 DEF GameInv
    <3>6. HookedInv'
      BY ONLY <1>0, <1>1, <1>12, <2>1, <2>2, <2>5 DEF HookedInv
    <3> QED BY <3>1, <3>2, <3>3, <3>4, <3>5, <3>6 DEF PlaceInv
  <2> QED BY <2>4, <2>6 DEF PlacesInv
<1>9. CASE InstallHook(c) /\ NotHooked /\ At(c, "failed")
  <2>1. UNCHANGED <<game, worker>> /\ call'[c].at = "failed"
    BY <1>9, CallMoves DEF InstallHook, NotHooked
  <2>2. PrepareInv'
    BY <1>0, <1>1, <1>2, <2>1 DEF PrepareInv, Preparing
  <2>3. PlaceInv'
    BY <1>0, <1>1, <2>1 DEF PlacesInv, PlaceInv, UnscheduledInv, WorkerInv, AheadInv, DrainPlaceInv, GameInv, HookedInv, SteamIsAhead
  <2> QED BY <2>2, <2>3 DEF PlacesInv
<1>10. CASE WrapSteamStub(c) /\ game' = [game EXCEPT !.steam = "patched"] /\ At(c, "done")
  <2>1. call'[c].at = "done" /\ UNCHANGED worker
    BY <1>10, CallMoves DEF WrapSteamStub
  <2>2. game'.target = "original" /\ ~game'.hooked /\ game'.steam = "patched"
    BY <1>1, <1>10 DEF Types, GameType
  <2>3. \A d \in Requests : call'[d].at \notin Preparing
    BY <1>2, <2>1 DEF Preparing
  <2>4. PrepareInv'
    BY <2>3 DEF PrepareInv, Prepares, Preparing
  <2>5. PlaceInv'
    <3>1. UnscheduledInv'
      BY ONLY <1>0, <1>1, <1>12, <2>1, <2>2 DEF UnscheduledInv
    <3>2. DrainPlaceInv'
      BY ONLY <1>0, <1>1, <1>12, <2>1, <2>2 DEF DrainPlaceInv
    <3>3. WorkerInv'
      BY ONLY <1>0, <1>1, <1>12, <2>1, <2>2 DEF WorkerInv
    <3>4. AheadInv'
      BY ONLY <1>0, <1>1, <1>12, <2>1, <2>2 DEF AheadInv, SteamIsAhead
    <3>5. GameInv'
      BY ONLY <1>0, <1>1, <1>12, <2>1, <2>2 DEF GameInv
    <3>6. HookedInv'
      BY ONLY <1>0, <1>1, <1>12, <2>1, <2>2 DEF HookedInv
    <3> QED BY <3>1, <3>2, <3>3, <3>4, <3>5, <3>6 DEF PlaceInv
  <2> QED BY <2>4, <2>5 DEF PlacesInv
<1>11. CASE WrapSteamStub(c) /\ game' \in {game, [game EXCEPT !.steam = "broken"]} /\ At(c, "failed")
  <2>1. call'[c].at = "failed" /\ UNCHANGED worker
    BY <1>11, CallMoves DEF WrapSteamStub
  <2>2. game'.target = "original" /\ ~game'.hooked /\ game'.steam # "patched"
    BY <1>1, <1>11 DEF Types, GameType
  <2>3. PrepareInv'
    BY <1>0, <1>1, <1>2, <2>1, <2>2 DEF PrepareInv, Preparing
  <2>4. PlaceInv'
    BY <1>0, <1>1, <2>1, <2>2 DEF PlacesInv, PlaceInv, UnscheduledInv, WorkerInv, AheadInv, DrainPlaceInv, GameInv, HookedInv, SteamIsAhead
  <2> QED BY <2>3, <2>4 DEF PlacesInv
<1> QED BY <1>4, <1>5, <1>6, <1>7, <1>8, <1>9, <1>10, <1>11
        DEF StartWorker, InstallHook, WrapSteamStub

\* When nothing could be prepared the call drains itself, and nobody else will.
LEMMA PlacesFlushFailed ==
  ASSUME Types, PlacesInv, NEW c \in Requests, FlushFailed(c)
  PROVE  PlacesInv'
<1>0. /\ call[c].at = "failed" /\ At(c, "flushing") /\ UNCHANGED <<world, game, worker>>
      /\ Flush(call[c].thread, FALSE, FALSE)
  BY DEF FlushFailed, Waiting
<1>1. /\ sched.state = 1 /\ worker = "none" /\ game.target = "original"
      /\ game.at \in {"early", "entry", "main"} /\ game.steam # "patched" /\ ~game.hooked
  BY <1>0 DEF PlacesInv, PrepareInv, Prepares, Preparing
<1>2. call'[c].at = "flushing" /\ \A d \in Requests : d # c => call'[d] = call[d]
  BY <1>0, CallMoves
<1>3. \A d \in Requests : call'[d].at \notin Preparing
  BY <1>0, <1>2 DEF PlacesInv, PrepareInv, Preparing
<1>4. PrepareInv'
  BY <1>3 DEF PrepareInv, Prepares, Preparing
<1>5. sched'.state = 2
  BY <1>0 DEF Flush, Types, SchedType
<1>6. PlaceInv'
  BY <1>0, <1>1, <1>5 DEF PlacesInv, PlaceInv, UnscheduledInv, WorkerInv, AheadInv, DrainPlaceInv, GameInv, HookedInv, SteamIsAhead
<1> QED BY <1>4, <1>6 DEF PlacesInv

\* Where no call prepares a drain nothing is said of one.
LEMMA NothingPrepared ==
  ASSUME \A d \in Requests : call'[d].at \notin Preparing
  PROVE  PrepareInv'
BY DEF PrepareInv, Prepares, Preparing

\* The main thread is resumed after the calls of the remote threads.
LEMMA PlacesResume ==
  ASSUME Types, QueueRan, FrameInv, PlacesInv, Resume
  PROVE  PlacesInv'
<1>1. /\ UNCHANGED <<world, sched, worker, call, drain>>
      /\ game'.at = game.at /\ game'.steam = game.steam /\ game'.target = game.target
      /\ game'.cookie = game.cookie /\ game'.hooked = game.hooked /\ ~game'.suspended
  BY DEF Resume, Types, GameType
<1>2. ASSUME NEW c \in Requests, call[c].at \in {"wrap", "hook"}, world.mainFound
      PROVE  game.at = "early" /\ call[c].thread = "main"
  <2>1. sched.state = 1 /\ IsUnderway(c)
    BY <1>2 DEF PlacesInv, PrepareInv, Prepares, Preparing, IsUnderway
  <2>2. call[c].thread \in Actors
    BY DEF Types, CallType
  <2>3. call[c].thread \notin OtherThreads
    BY <2>1 DEF Resume, Underway, IsUnderway
  <2>4. call[c].thread # "worker"
    <3>1. ~drain[call[c].thread].on
      BY <2>1, <2>2 DEF QueueRan, DrainInv
    <3> QED BY <2>1, <3>1 DEF FrameInv, LateInv
  <2> QED BY <1>2, <2>2, <2>3, <2>4 DEF PlacesInv, PrepareInv, Actors
<1>3. PrepareInv'
  <2>1. \A c, d \in Requests : call'[c].at \in Preparing /\ call'[d].at \in Preparing => c = d
    BY <1>1 DEF PlacesInv, PrepareInv
  <2>2. Prepares' => Prepares
    BY <1>1 DEF Prepares
  <2>3. Prepares => /\ sched.state = 1 /\ worker = "none" /\ game.target = "original"
                    /\ game.at \in {"early", "entry", "main"} /\ game.steam # "patched"
                    /\ ~game.hooked
    BY DEF PlacesInv, PrepareInv
  <2>4. \A c \in Requests : call'[c].at \in {"wrap", "hook"} /\ world'.mainFound =>
          game'.at = "early" /\ call'[c].thread = "main"
    BY <1>1, <1>2
  <2> QED BY ONLY <1>1, <2>1, <2>2, <2>3, <2>4 DEF PrepareInv
<1>4. PlaceInv'
  BY <1>1 DEF PlacesInv, PrepareInv, PlaceInv, UnscheduledInv, WorkerInv, AheadInv, DrainPlaceInv, GameInv, HookedInv, SteamIsAhead
<1> QED BY <1>3, <1>4 DEF PlacesInv

\* The main thread goes to the stub or to the entry point; what is hooked stays ahead.
LEMMA PlacesLeaveLoader ==
  ASSUME Types, QueueRan, FrameInv, PlacesInv, LeaveLoader
  PROVE  PlacesInv'
<1>1. /\ UNCHANGED <<world, sched, worker, call, drain>>
      /\ game.at = "early" /\ ~game.suspended /\ Underway("main") = {}
      /\ game'.at = IF game.steam = "patched" THEN "stub" ELSE "entry"
      /\ game'.suspended = game.suspended /\ game'.steam = game.steam /\ game'.target = game.target
      /\ game'.cookie = game.cookie /\ game'.hooked = game.hooked
  BY DEF LeaveLoader, Free, Types, GameType
<1>2. world.mainFound => \A c \in Requests : call[c].at \notin {"wrap", "hook"}
  <2> SUFFICES ASSUME world.mainFound, NEW c \in Requests, call[c].at \in {"wrap", "hook"} PROVE FALSE
    OBVIOUS
  <2>1. call[c].thread = "main"
    BY <1>1 DEF PlacesInv, PrepareInv
  <2> QED BY <1>1, <2>1 DEF Underway
<1>3. PrepareInv'
  <2>1. Prepares' => Prepares
    BY <1>1 DEF Prepares
  <2> QED BY <1>1, <1>2, <2>1 DEF PlacesInv, PrepareInv
<1>4. PlaceInv
  BY DEF PlacesInv
<1>5. /\ SteamIsAhead <=> game.steam = "patched"
      /\ SteamIsAhead' <=> game.steam = "patched"
  BY <1>1 DEF SteamIsAhead
<1>6. UnscheduledInv' /\ DrainPlaceInv' /\ HookedInv'
  BY <1>1, <1>4 DEF PlaceInv, UnscheduledInv, DrainPlaceInv, HookedInv
<1>7. WorkerInv'
  BY <1>1, <1>4 DEF PlaceInv, WorkerInv
<1>8. AheadInv'
  BY <1>1, <1>4, <1>5 DEF PlaceInv, AheadInv
<1>9. GameInv'
  BY <1>1, <1>4 DEF PlaceInv, GameInv
<1> QED BY <1>3, <1>6, <1>7, <1>8, <1>9 DEF PlacesInv, PlaceInv

\* SteamStub's detour re-routes the entry point's first call.
LEMMA PlacesStubHooked ==
  ASSUME Types, QueueRan, FrameInv, PlacesInv, StubDetour, UNCHANGED drain,
         game' = [game EXCEPT !.at = "entry", !.target = "detour", !.hooked = TRUE],
         sched' = [sched EXCEPT !.original = TRUE, !.detected = world.arxan]
  PROVE  PlacesInv'
<1>1. /\ UNCHANGED <<world, worker, call, drain>> /\ sched'.state = sched.state
      /\ game.at = "stub" /\ game'.at = "entry" /\ game'.target = "detour" /\ game'.hooked
      /\ game'.suspended = game.suspended /\ game'.steam = game.steam /\ game'.cookie = game.cookie
  BY DEF StubDetour, Types, GameType, SchedType
<1>2. /\ game.steam = "patched" /\ sched.state = 1 /\ worker = "none" /\ ~Prepares
      /\ ~game.cookie /\ ~game.suspended
  BY <1>1 DEF PlacesInv, PrepareInv, PlaceInv, AheadInv, SteamIsAhead, GameInv
<1>3. PrepareInv'
  <2>1. \A d \in Requests : call'[d].at \notin Preparing
    BY <1>1, <1>2 DEF Prepares
  <2> QED BY <2>1, NothingPrepared
<1>4. PlaceInv'
  <2>1. UnscheduledInv'
    BY ONLY <1>1, <1>2 DEF UnscheduledInv
  <2>2. DrainPlaceInv'
    BY ONLY <1>1, <1>2 DEF DrainPlaceInv
  <2>3. WorkerInv'
    BY ONLY <1>1, <1>2 DEF WorkerInv
  <2>4. AheadInv'
    BY ONLY <1>1, <1>2 DEF AheadInv, SteamIsAhead
  <2>5. GameInv'
    BY ONLY <1>1, <1>2 DEF GameInv
  <2>6. HookedInv'
    BY ONLY <1>1, <1>2 DEF HookedInv
  <2> QED BY <2>1, <2>2, <2>3, <2>4, <2>5, <2>6 DEF PlaceInv
<1> QED BY <1>3, <1>4 DEF PlacesInv

\* SteamStub's detour drains when the entry point cannot be parsed.
LEMMA PlacesStubFlushed ==
  ASSUME Types, QueueRan, FrameInv, PlacesInv, StubDetour, Flush("main", TRUE, FALSE), game' = [game EXCEPT !.at = "stub drain"]
  PROVE  PlacesInv'
<1>1. /\ UNCHANGED <<world, worker, call>> /\ sched'.state = 2 /\ sched'.state # 0 /\ drain'["main"].on
      /\ game.at = "stub" /\ game'.at = "stub drain"
      /\ game'.suspended = game.suspended /\ game'.steam = game.steam /\ game'.target = game.target /\ game'.cookie = game.cookie /\ game'.hooked = game.hooked
  <2>1. /\ UNCHANGED <<world, worker, call>> /\ sched'.state = 2 /\ drain'["main"].on
        /\ game.at = "stub" /\ game'.at = "stub drain"
        /\ game'.suspended = game.suspended /\ game'.steam = game.steam /\ game'.target = game.target /\ game'.cookie = game.cookie /\ game'.hooked = game.hooked
    BY Flushes DEF StubDetour, Types, GameType, Actors
  <2>2. sched'.state # 0
    <3>1. sched'.state = 2
      BY <2>1
    <3> QED BY ONLY <3>1
  <2> QED BY ONLY <2>1, <2>2
<1>2. /\ game.steam = "patched" /\ game.target = "original" /\ worker = "none" /\ ~Prepares /\ ~game.hooked
      /\ ~game.cookie /\ ~game.suspended
  BY <1>1 DEF PlacesInv, PrepareInv, PlaceInv, AheadInv, SteamIsAhead, GameInv
<1>3. PrepareInv'
  <2>1. \A d \in Requests : call'[d].at \notin Preparing
    BY <1>1, <1>2 DEF Prepares
  <2> QED BY <2>1, NothingPrepared
<1>4. PlaceInv'
  <2>1. UnscheduledInv'
    BY ONLY <1>1, <1>2 DEF UnscheduledInv
  <2>2. DrainPlaceInv'
    BY ONLY <1>1, <1>2 DEF DrainPlaceInv
  <2>3. WorkerInv'
    BY ONLY <1>1, <1>2 DEF WorkerInv
  <2>4. AheadInv'
    BY ONLY <1>1, <1>2 DEF AheadInv, SteamIsAhead
  <2>5. GameInv'
    BY ONLY <1>1, <1>2 DEF GameInv
  <2>6. HookedInv'
    BY ONLY <1>1, <1>2 DEF HookedInv
  <2> QED BY <2>1, <2>2, <2>3, <2>4, <2>5, <2>6 DEF PlaceInv
<1> QED BY <1>3, <1>4 DEF PlacesInv

\* After its drain SteamStub's detour goes to the entry point.
LEMMA PlacesStubDrained ==
  ASSUME Types, QueueRan, FrameInv, PlacesInv, StubDrained
  PROVE  PlacesInv'
<1>1. /\ UNCHANGED <<world, worker, call, sched, drain>>
      /\ game.at = "stub drain" /\ game'.at = "entry"
      /\ game'.suspended = game.suspended /\ game'.steam = game.steam /\ game'.target = game.target /\ game'.cookie = game.cookie /\ game'.hooked = game.hooked
  BY DEF StubDrained, Types, GameType
<1>2. /\ game.target = "original" /\ sched.state \in {2, 3} /\ sched.state # 0 /\ ~Prepares /\ ~game.hooked
      /\ worker # "waiting" /\ ~game.cookie /\ ~game.suspended
  <2>1. sched.state \in {2, 3}
    BY <1>1 DEF PlacesInv, PlaceInv, DrainPlaceInv
  <2>2. ~Prepares
    BY <2>1 DEF PlacesInv, PrepareInv
  <2>3. worker # "waiting"
    BY <2>1 DEF PlacesInv, PlaceInv, WorkerInv
  <2>4. game.target = "original" /\ ~game.hooked /\ ~game.cookie /\ ~game.suspended
    BY <1>1 DEF PlacesInv, PlaceInv, GameInv
  <2> QED BY <2>1, <2>2, <2>3, <2>4
<1>3. PrepareInv'
  <2>1. \A d \in Requests : call'[d].at \notin Preparing
    BY <1>1, <1>2 DEF Prepares
  <2> QED BY <2>1, NothingPrepared
<1>4. PlaceInv'
  <2>1. UnscheduledInv'
    BY ONLY <1>1, <1>2 DEF UnscheduledInv
  <2>2. DrainPlaceInv'
    BY ONLY <1>1, <1>2 DEF DrainPlaceInv
  <2>3. WorkerInv'
    BY ONLY <1>1, <1>2 DEF WorkerInv
  <2>4. AheadInv'
    BY ONLY <1>1, <1>2 DEF AheadInv, SteamIsAhead
  <2>5. GameInv'
    BY ONLY <1>1, <1>2 DEF GameInv
  <2>6. HookedInv'
    BY ONLY <1>1, <1>2 DEF HookedInv
  <2> QED BY <2>1, <2>2, <2>3, <2>4, <2>5, <2>6 DEF PlaceInv
<1> QED BY <1>3, <1>4 DEF PlacesInv

\* The detour of the first call drains, once.
LEMMA PlacesCookieFlushed ==
  ASSUME Types, QueueRan, FrameInv, PlacesInv, CookieDetour
  PROVE  PlacesInv'
<1>1. /\ UNCHANGED <<world, worker, call>> /\ sched'.state = 2 /\ sched'.state # 0 /\ drain'["main"].on
      /\ game.at = "cookie" /\ game'.at = "drain"
      /\ game'.suspended = game.suspended /\ game'.steam = game.steam /\ game'.target = game.target /\ game'.cookie = game.cookie /\ game'.hooked = game.hooked
  <2>1. /\ UNCHANGED <<world, worker, call>> /\ sched'.state = 2 /\ drain'["main"].on
        /\ game.at = "cookie" /\ game'.at = "drain"
        /\ game'.suspended = game.suspended /\ game'.steam = game.steam /\ game'.target = game.target /\ game'.cookie = game.cookie /\ game'.hooked = game.hooked
    BY Flushes DEF CookieDetour, Types, GameType, Actors
  <2>2. sched'.state # 0
    <3>1. sched'.state = 2
      BY <2>1
    <3> QED BY ONLY <3>1
  <2> QED BY ONLY <2>1, <2>2
<1>2. /\ worker = "none" /\ ~Prepares /\ ~game.suspended
  BY <1>1 DEF PlacesInv, PrepareInv, PlaceInv, AheadInv, GameInv
<1>3. PrepareInv'
  <2>1. \A d \in Requests : call'[d].at \notin Preparing
    BY <1>1, <1>2 DEF Prepares
  <2> QED BY <2>1, NothingPrepared
<1>4. PlaceInv'
  <2>1. UnscheduledInv'
    BY ONLY <1>1, <1>2 DEF UnscheduledInv
  <2>2. DrainPlaceInv'
    BY ONLY <1>1, <1>2 DEF DrainPlaceInv
  <2>3. WorkerInv'
    BY ONLY <1>1, <1>2 DEF WorkerInv
  <2>4. AheadInv'
    BY ONLY <1>1, <1>2 DEF AheadInv, SteamIsAhead
  <2>5. GameInv'
    BY ONLY <1>1, <1>2 DEF GameInv
  <2>6. HookedInv'
    BY ONLY <1>1, <1>2 DEF HookedInv
  <2> QED BY <2>1, <2>2, <2>3, <2>4, <2>5, <2>6 DEF PlaceInv
<1> QED BY <1>3, <1>4 DEF PlacesInv

\* Main begins when the drain of the detour is over.
LEMMA PlacesEnterMain ==
  ASSUME Types, QueueRan, FrameInv, PlacesInv, EnterMain
  PROVE  PlacesInv'
<1>1. /\ UNCHANGED <<world, worker, call, sched, drain>>
      /\ game.at = "drain" /\ game'.at = "main" /\ ~drain["main"].on
      /\ game'.suspended = game.suspended /\ game'.steam = game.steam /\ game'.target = game.target /\ game'.cookie = game.cookie /\ game'.hooked = game.hooked
  BY DEF EnterMain, Types, GameType
<1>2. /\ sched.state = 3 /\ sched.state # 0 /\ worker # "waiting" /\ ~Prepares /\ ~game.suspended
      /\ (game.target = "detour" => worker = "none")
  BY <1>1 DEF PlacesInv, PrepareInv, PlaceInv, DrainPlaceInv, AheadInv, WorkerInv, GameInv
<1>3. PrepareInv'
  <2>1. \A d \in Requests : call'[d].at \notin Preparing
    BY <1>1, <1>2 DEF Prepares
  <2> QED BY <2>1, NothingPrepared
<1>4. PlaceInv'
  <2>1. UnscheduledInv'
    BY ONLY <1>1, <1>2 DEF UnscheduledInv
  <2>2. DrainPlaceInv'
    BY ONLY <1>1, <1>2 DEF DrainPlaceInv
  <2>3. WorkerInv'
    BY ONLY <1>1, <1>2 DEF WorkerInv
  <2>4. AheadInv'
    BY ONLY <1>1, <1>2 DEF AheadInv, SteamIsAhead
  <2>5. GameInv'
    BY ONLY <1>1, <1>2 DEF GameInv
  <2>6. HookedInv'
    BY ONLY <1>1, <1>2 DEF HookedInv
  <2> QED BY <2>1, <2>2, <2>3, <2>4, <2>5, <2>6 DEF PlaceInv
<1> QED BY <1>3, <1>4 DEF PlacesInv

\* The entry point's first call runs into the detour, which may put it back.
LEMMA PlacesCookieHooked ==
  ASSUME Types, QueueRan, FrameInv, PlacesInv, InitCookie, game.target = "detour"
  PROVE  PlacesInv'
<1>1. /\ UNCHANGED <<world, worker, call, sched, drain>>
      /\ game.at = "entry" /\ game'.at = "cookie" /\ game'.target \in {"original", "detour"}
      /\ game'.suspended = game.suspended /\ game'.steam = game.steam /\ game'.hooked = game.hooked
  BY DEF InitCookie, Types, GameType
<1>2. /\ sched.state = 1 /\ worker = "none" /\ ~Prepares /\ ~game.suspended
  BY <1>1 DEF PlacesInv, PrepareInv, PlaceInv, AheadInv, GameInv
<1>3. PrepareInv'
  <2>1. \A d \in Requests : call'[d].at \notin Preparing
    BY <1>1, <1>2 DEF Prepares
  <2> QED BY <2>1, NothingPrepared
<1>4. PlaceInv'
  <2>1. UnscheduledInv'
    BY ONLY <1>1, <1>2 DEF UnscheduledInv
  <2>2. DrainPlaceInv'
    BY ONLY <1>1, <1>2 DEF DrainPlaceInv
  <2>3. WorkerInv'
    BY ONLY <1>1, <1>2 DEF WorkerInv
  <2>4. AheadInv'
    BY ONLY <1>1, <1>2 DEF AheadInv, SteamIsAhead
  <2>5. GameInv'
    BY ONLY <1>1, <1>2 DEF GameInv
  <2>6. HookedInv'
    BY ONLY <1>1, <1>2 DEF HookedInv
  <2> QED BY <2>1, <2>2, <2>3, <2>4, <2>5, <2>6 DEF PlaceInv
<1> QED BY <1>3, <1>4 DEF PlacesInv

\* The worker drains once the cookie is there.
LEMMA PlacesWorkerFlushed ==
  ASSUME Types, QueueRan, FrameInv, PlacesInv, WorkerFlush
  PROVE  PlacesInv'
<1>1. /\ UNCHANGED <<world, game, call>> /\ sched'.state = 2
      /\ worker = "waiting" /\ worker' = "draining"
  BY Flushes DEF WorkerFlush, Types, Actors
<1>2. /\ ~Prepares /\ game.target = "original" /\ game.at \in {"early", "entry", "main"}
      /\ game.steam # "patched" /\ ~(world.mainFound /\ game.hooked /\ game.at = "main")
      /\ GameInv
  BY <1>1 DEF PlacesInv, PrepareInv, PlaceInv, WorkerInv, HookedInv
<1>3. PrepareInv'
  <2>1. \A d \in Requests : call'[d].at \notin Preparing
    BY <1>1, <1>2 DEF Prepares
  <2> QED BY <2>1, NothingPrepared
<1>4. PlaceInv'
  <2>1. UnscheduledInv'
    BY ONLY <1>1, <1>2 DEF UnscheduledInv
  <2>2. DrainPlaceInv'
    BY ONLY <1>1, <1>2 DEF DrainPlaceInv
  <2>3. WorkerInv'
    BY ONLY <1>1, <1>2 DEF WorkerInv
  <2>4. AheadInv'
    BY ONLY <1>1, <1>2 DEF AheadInv, SteamIsAhead
  <2>5. GameInv'
    BY ONLY <1>1, <1>2 DEF GameInv
  <2>6. HookedInv'
    BY ONLY <1>1, <1>2 DEF HookedInv
  <2> QED BY <2>1, <2>2, <2>3, <2>4, <2>5, <2>6 DEF PlaceInv
<1> QED BY <1>3, <1>4 DEF PlacesInv

\* The worker ends with its drain.
LEMMA PlacesWorkerEnds ==
  ASSUME Types, QueueRan, FrameInv, PlacesInv, WorkerEnds
  PROVE  PlacesInv'
<1>1. /\ UNCHANGED <<world, game, call, sched, drain>>
      /\ worker = "draining" /\ worker' = "over"
  BY DEF WorkerEnds
<1>2. /\ ~Prepares /\ sched.state \in {2, 3} /\ sched.state # 1 /\ sched.state # 0
      /\ ~SteamIsAhead /\ game.target # "detour" /\ game.at # "cookie"
      /\ GameInv /\ HookedInv /\ DrainPlaceInv
  BY <1>1 DEF PlacesInv, PrepareInv, PlaceInv, WorkerInv, AheadInv
<1>3. PrepareInv'
  <2>1. \A d \in Requests : call'[d].at \notin Preparing
    BY <1>1, <1>2 DEF Prepares
  <2> QED BY <2>1, NothingPrepared
<1>4. PlaceInv'
  <2>1. UnscheduledInv'
    BY ONLY <1>1, <1>2 DEF UnscheduledInv
  <2>2. DrainPlaceInv'
    BY ONLY <1>1, <1>2 DEF DrainPlaceInv
  <2>3. WorkerInv'
    BY ONLY <1>1, <1>2 DEF WorkerInv
  <2>4. AheadInv'
    BY ONLY <1>1, <1>2 DEF AheadInv, SteamIsAhead
  <2>5. GameInv'
    BY ONLY <1>1, <1>2 DEF GameInv
  <2>6. HookedInv'
    BY ONLY <1>1, <1>2 DEF HookedInv
  <2> QED BY <2>1, <2>2, <2>3, <2>4, <2>5, <2>6 DEF PlaceInv
<1> QED BY <1>3, <1>4 DEF PlacesInv

\* Without a detour the entry point goes to main: nothing was hooked.
LEMMA PlacesEntered ==
  ASSUME Types, QueueRan, FrameInv, PlacesInv, InitCookie, game.target = "original"
  PROVE  PlacesInv'
<1>1. /\ UNCHANGED <<world, sched, worker, call, drain>>
      /\ game.at = "entry" /\ game.target = "original" /\ game'.at = "main"
      /\ game'.suspended = game.suspended /\ game'.steam = game.steam /\ game'.target = game.target /\ game'.hooked = game.hooked
  BY DEF InitCookie, Types, GameType
<1>2. ~game.hooked /\ ~game.suspended /\ PlaceInv
  BY <1>1 DEF PlacesInv, PlaceInv, GameInv
<1>3. PrepareInv'
  <2>1. Prepares' => Prepares
    BY <1>1 DEF Prepares
  <2>2. world.mainFound => \A c \in Requests : call[c].at \notin {"wrap", "hook"}
    BY <1>1 DEF PlacesInv, PrepareInv
  <2> QED BY <1>1, <2>1, <2>2 DEF PlacesInv, PrepareInv
<1>4. UnscheduledInv' /\ DrainPlaceInv' /\ HookedInv' /\ WorkerInv'
  BY <1>1, <1>2 DEF PlaceInv, UnscheduledInv, DrainPlaceInv, HookedInv, WorkerInv
<1>5. AheadInv'
  BY <1>1 DEF AheadInv, SteamIsAhead
<1>6. GameInv'
  BY <1>1, <1>2 DEF GameInv
<1> QED BY <1>3, <1>4, <1>5, <1>6 DEF PlacesInv, PlaceInv

\* Every step keeps who prepares the drain and where the main thread is.
LEMMA PlacesNext ==
  ASSUME Types, CalledInv, QueueRan, FrameInv, PlacesInv, ArxanNext
  PROVE  PlacesInv'
<1>1. ASSUME NEW c \in Requests, CallStep(c) PROVE PlacesInv'
  <2>1. CASE CallPasses(c) /\ Passing(c)
    BY <2>1, PlacesPassing, PlacesPrepares DEF Passing
  <2>2. CASE CallInvokes(c)
    BY <2>2, PlacesCallback
  <2>3. CASE CallQueued(c)
    BY <2>3, PlacesQueued
  <2>4. CASE FlushFailed(c)
    BY <2>4, PlacesFlushFailed
  <2> QED BY <1>1, <2>1, <2>2, <2>3, <2>4, CallSteps, CallsInvoke
<1>2. ASSUME NEW c \in Requests, CallbackStep(c) PROVE PlacesInv'
  BY <1>2, CallbackSteps, CallbacksEnd, PlacesCallback
<1>3. ASSUME NEW a \in Actors, InvokeNext(a) \/ DrainMore(a) PROVE PlacesInv'
  BY <1>3, PlacesInvokeNext, PlacesDrainMore
<1>4. CASE ImageStep
  <2>1. CASE Resume \/ LeaveLoader
    BY <2>1, PlacesResume, PlacesLeaveLoader
  <2>2. CASE StubDetour
    BY <2>2, PlacesStubHooked, PlacesStubFlushed DEF StubDetour
  <2>3. CASE StubDrained \/ CookieDetour \/ EnterMain \/ WorkerFlush \/ WorkerEnds
    BY <2>3, PlacesStubDrained, PlacesCookieFlushed, PlacesEnterMain, PlacesWorkerFlushed,
       PlacesWorkerEnds
  <2>4. CASE InitCookie
    BY <2>4, PlacesCookieHooked, PlacesEntered DEF InitCookie
  <2> QED BY <1>4, <2>1, <2>2, <2>3, <2>4 DEF ImageStep
<1> QED BY <1>1, <1>2, <1>3, <1>4 DEF ArxanNext, ImageStep

----------------------------------------------------------------------------
(* The calls and callbacks of a thread.                                     *)

\* No thread is at more than it was.
FrameKept ==
  /\ \A d \in Requests : /\ call'[d].thread = call[d].thread
                         /\ call'[d].at \in AtCall => call[d].at \in AtCall
                         /\ IsUnderway(d)' => IsUnderway(d)
  /\ \A d \in Requests : /\ invoked'[d].thread = invoked[d].thread
                         /\ Busy(d)' => Busy(d)
                         /\ invoked[d].at = "inner" =>
                              invoked'[d].at = "inner" \/ ~IsUnderway(InnerCall[d])'
  /\ \A a \in Actors : drain'[a].on = drain[a].on
  /\ game'.at = "early" <=> game.at = "early"
  /\ game'.suspended => game.suspended

\* Where no thread begins anything new and no drain begins the frames stay.
LEMMA FrameStays == ASSUME Types, FrameInv, FrameKept PROVE FrameInv'
<1>0. \A d \in Requests : call[d].thread \in Actors
  BY DEF Types, CallType
<1>1. OneFrameInv'
  BY DEF FrameInv, OneFrameInv, FrameKept
<1>2. ParentInv'
  <2> SUFFICES ASSUME NEW c \in Requests, IsUnderway(c)', c \in Inner
               PROVE  \E p \in Requests : /\ InnerCall[p] = c /\ invoked'[p].at = "inner"
                                          /\ invoked'[p].thread = call'[c].thread
    BY DEF ParentInv
  <2>1. PICK p \in Requests : /\ InnerCall[p] = c /\ invoked[p].at = "inner"
                              /\ invoked[p].thread = call[c].thread
    BY DEF FrameInv, ParentInv, FrameKept
  <2> QED BY <2>1 DEF FrameKept
<1>3. NestedInv'
  BY <1>0 DEF FrameInv, NestedInv, FrameKept
<1>4. LateInv'
  BY <1>0 DEF FrameInv, LateInv, FrameKept
<1>5. AwakeInv'
  BY DEF FrameInv, AwakeInv, FrameKept, Actors
<1> QED BY <1>1, <1>2, <1>3, <1>4, <1>5 DEF FrameInv

\* A thread that is called on has nothing else underway.
LEMMA FrameCall ==
  ASSUME Types, CalledInv, QueueRan, DrainerInv, FrameInv, NEW c \in Requests, CallPasses(c), Call(c)
  PROVE  FrameInv'
<1> DEFINE a == call[c].thread
<1>0. /\ call[c].at = "new" /\ c \notin Inner /\ Free(a) /\ Underway(a) = {}
      /\ a = "main" => game.at = "early"
      /\ UNCHANGED <<game, invoked, drain>>
      /\ call'[c].at = "started" /\ call'[c].thread = a
      /\ \A d \in Requests : d # c => call'[d] = call[d]
  <2>1. At(c, "started") /\ call[c].at = "new" /\ c \notin Inner /\ Free(a) /\ Underway(a) = {}
        /\ (a = "main" => game.at = "early") /\ UNCHANGED <<game, invoked, drain>>
    BY DEF Call
  <2>2. /\ call'[c].at = "started" /\ call'[c].thread = a
        /\ \A d \in Requests : d # c => call'[d] = call[d]
    BY <2>1, CallMoves
  <2> QED BY <2>1, <2>2
<1>1. a \in OtherThreads \cup {"main"} /\ a # "worker"
  BY <1>0, OtherThreadsAssumption DEF CalledInv, CalledAt
<1>2. a \in Actors
  BY <1>1 DEF Actors
<1>3. ~drain[a].on
  <2> SUFFICES ASSUME drain[a].on PROVE FALSE
    OBVIOUS
  <2>1. ~(\E d \in Requests : call[d].thread = a /\ call[d].at = "flushing")
    BY <1>0 DEF Underway
  <2>2. ~(a = "main" /\ game.at \in {"stub drain", "drain"})
    BY <1>0
  <2> QED BY <1>1, <1>2, <2>1, <2>2 DEF DrainerInv
<1>4. \A d \in Requests : Busy(d) => invoked[d].thread # a
  <2> SUFFICES ASSUME NEW d \in Requests, Busy(d), invoked[d].thread = a PROVE FALSE
    OBVIOUS
  <2>1. ~IsQueued(d)
    BY <1>3 DEF QueueRan, DrainInv, Busy, Idle
  <2>2. call[d].at = "calling"
    <3>1. call[d].at \notin Undecided \cup Preparing \cup {"queued", "waiting", "served", "flushing", "done"}
      BY <2>1 DEF CalledInv, CalledAt, Busy, Idle
    <3> QED BY <3>1 DEF Types, CallType, CallPlaces, Undecided, Preparing
  <2>3. call[d].thread = a
    BY <2>2 DEF CalledInv, CalledAt
  <2> QED BY <1>0, <2>2, <2>3 DEF Underway
<1>5. \A d \in Requests : call[d].thread = a => call[d].at \notin AtCall
  BY <1>0 DEF Underway, AtCall, Preparing
<1> HIDE DEF a
<1>6. OneFrameInv'
  BY <1>0, <1>4, <1>5 DEF FrameInv, OneFrameInv, Busy
<1>7. ParentInv'
  BY <1>0 DEF FrameInv, ParentInv, IsUnderway
<1>8. NestedInv'
  BY <1>0, <1>3 DEF FrameInv, NestedInv
<1>9. LateInv'
  BY <1>0, <1>1 DEF FrameInv, LateInv, IsUnderway
<1>10. AwakeInv'
  BY <1>0 DEF FrameInv, AwakeInv, Free, IsUnderway
<1> QED BY <1>6, <1>7, <1>8, <1>9, <1>10 DEF FrameInv

\* A callback called at once is in the frame of its call.
LEMMA FrameInvokes ==
  ASSUME Types, CalledInv, FrameInv, NEW c \in Requests, CallInvokes(c)
  PROVE  FrameInv'
<1> DEFINE a == call[c].thread
<1>0. /\ UNCHANGED <<game, drain>> /\ call[c].at \in AtCall /\ IsUnderway(c) /\ Free(a)
      /\ call'[c].at = "calling" /\ call'[c].thread = a
      /\ \A d \in Requests : d # c => call'[d] = call[d] /\ invoked'[d] = invoked[d]
      /\ invoked'[c].at \in {"begun", "body"} /\ invoked'[c].thread = a
      /\ invoked[c].at = "none"
  BY DEF CallInvokes, AtCall, IsUnderway, CalledInv, CalledAt, Undecided
<1>1. \A d \in Requests : call'[d].at \in AtCall => d # c /\ call[d].at \in AtCall
  BY <1>0 DEF AtCall, Preparing
<1>2. \A d \in Requests : Busy(d)' /\ d # c => Busy(d) /\ invoked[d].thread # a
  BY <1>0 DEF Busy, FrameInv, OneFrameInv
<1>3. \A d \in Requests : call[d].at \in AtCall /\ d # c => call[d].thread # a
  BY <1>0 DEF FrameInv, OneFrameInv
<1>4. \A d \in Requests : call'[d].thread = call[d].thread /\ (IsUnderway(d)' => IsUnderway(d))
  BY <1>0 DEF IsUnderway
<1> HIDE DEF a
<1>6. OneFrameInv'
  BY <1>0, <1>1, <1>2, <1>3 DEF FrameInv, OneFrameInv
<1>7. ParentInv'
  <2> SUFFICES ASSUME NEW d \in Requests, IsUnderway(d)', d \in Inner
               PROVE  \E p \in Requests : /\ InnerCall[p] = d /\ invoked'[p].at = "inner"
                                          /\ invoked'[p].thread = call'[d].thread
    BY DEF ParentInv
  <2>1. PICK p \in Requests : /\ InnerCall[p] = d /\ invoked[p].at = "inner"
                              /\ invoked[p].thread = call[d].thread
    BY <1>4 DEF FrameInv, ParentInv
  <2>2. p # c
    BY <1>0, <2>1
  <2> QED BY <1>0, <1>4, <2>1, <2>2
<1>8. NestedInv'
  BY <1>0, <1>1 DEF FrameInv, NestedInv
<1>9. LateInv'
  BY <1>0, <1>4 DEF FrameInv, LateInv
<1>10. AwakeInv'
  <2> SUFFICES ASSUME game.suspended
               PROVE  /\ \A d \in Requests : IsUnderway(d)' => call'[d].thread # "main"
                      /\ \A d \in Requests : invoked'[d].thread # "main"
                      /\ ~drain["main"].on
    BY <1>0 DEF AwakeInv
  <2>1. a # "main"
    BY <1>0 DEF FrameInv, AwakeInv, a
  <2> QED BY <1>0, <1>4, <2>1 DEF FrameInv, AwakeInv
<1> QED BY <1>6, <1>7, <1>8, <1>9, <1>10 DEF FrameInv

\* The parent of what a callback of a drain calls is among the callbacks.
LEMMA NoCallsOf ==
  ASSUME Types, FrameInv, NEW a \in Actors, Callbacks(a) = {}
  PROVE  \A d \in Requests : call[d].thread = a /\ d \in Inner => ~IsUnderway(d)
<1> SUFFICES ASSUME NEW d \in Requests, call[d].thread = a, d \in Inner, IsUnderway(d) PROVE FALSE
  OBVIOUS
<1>1. PICK p \in Requests : invoked[p].at = "inner" /\ invoked[p].thread = a
  BY DEF FrameInv, ParentInv
<1>2. p \in Callbacks(a)
  BY <1>1 DEF Callbacks
<1> QED BY <1>2

\* A drain calls a callback only when its thread is in none.
LEMMA FrameInvokeNext ==
  ASSUME Types, CalledInv, QueueRan, FrameInv, NEW a \in Actors, InvokeNext(a)
  PROVE  FrameInv'
<1>1. PICK b \in Requests :
           /\ invoked[b].at = "none" /\ IsQueued(b)
           /\ invoked'[b].at = "begun" /\ invoked'[b].thread = a
           /\ \A d \in Requests : d # b => invoked'[d] = invoked[d]
           /\ drain[a].on /\ Free(a) /\ Callbacks(a) = {}
           /\ \A x \in Actors : drain'[x].on = drain[x].on
           /\ UNCHANGED <<game, call>>
  BY InvokesNext
<1>0. \A d \in Requests : call[d].thread \in Actors
  BY DEF Types, CallType
<1>2. \A d \in Requests : Busy(d)' /\ d # b => Busy(d) /\ invoked[d].thread # a
  BY <1>1 DEF Busy, Callbacks, Idle
<1>3. \A d \in Requests : call[d].at \in AtCall => call[d].thread # a
  <2> SUFFICES ASSUME NEW d \in Requests, call[d].at \in AtCall, call[d].thread = a PROVE FALSE
    OBVIOUS
  <2>1. d \in Inner /\ IsUnderway(d)
    BY <1>1 DEF FrameInv, NestedInv, IsUnderway, AtCall, Preparing
  <2> QED BY <1>1, <2>1, NoCallsOf
<1>6. OneFrameInv'
  BY <1>1, <1>2, <1>3 DEF FrameInv, OneFrameInv
<1>7. ParentInv'
  <2> SUFFICES ASSUME NEW d \in Requests, IsUnderway(d)', d \in Inner
               PROVE  \E p \in Requests : /\ InnerCall[p] = d /\ invoked'[p].at = "inner"
                                          /\ invoked'[p].thread = call'[d].thread
    BY DEF ParentInv
  <2>1. PICK p \in Requests : /\ InnerCall[p] = d /\ invoked[p].at = "inner"
                              /\ invoked[p].thread = call[d].thread
    BY <1>1 DEF FrameInv, ParentInv, IsUnderway
  <2> QED BY <1>1, <2>1
<1>8. NestedInv' /\ LateInv'
  BY <1>0, <1>1 DEF FrameInv, NestedInv, LateInv, IsUnderway
<1>10. AwakeInv'
  BY <1>1 DEF FrameInv, AwakeInv, Free, IsUnderway, Actors
<1> QED BY <1>6, <1>7, <1>8, <1>10 DEF FrameInv

\* A callback's own call is made on its thread, inside it.
LEMMA FrameCallInner ==
  ASSUME Types, CalledInv, QueueRan, FrameInv, NEW c \in Requests, CallbackEnds(c),
         invoked'[c].at = "inner", invoked[c].at = "body"
  PROVE  FrameInv'
<1> DEFINE a == invoked[c].thread
           n == InnerCall[c]
<1>0. /\ UNCHANGED <<game, drain>> /\ Free(a) /\ Busy(c) /\ invoked'[c].thread = a
      /\ \A d \in Requests : d # c => invoked'[d] = invoked[d]
      /\ n \in Requests /\ n \in Inner /\ call[n].at = "new"
      /\ call'[n].at = "started" /\ call'[n].thread = a
      /\ \A d \in Requests : d # n => call'[d] = call[d]
  BY DEF CallbackEnds, Busy, Idle
<1>1. \A d \in Requests : Busy(d)' => Busy(d) /\ invoked[d].thread # a /\ d # c
  BY <1>0 DEF FrameInv, OneFrameInv, Busy
<1>2. \A d \in Requests : call[d].at \in AtCall => call[d].thread # a
  BY <1>0 DEF FrameInv, OneFrameInv
<1>3. a = "worker" \/ (a = "main" /\ game.at # "early") => drain[a].on
  <2> SUFFICES ASSUME a = "worker" \/ (a = "main" /\ game.at # "early") PROVE drain[a].on
    OBVIOUS
  <2>1. CASE IsQueued(c)
    BY <2>1 DEF QueueRan, DrainInv, Idle
  <2>2. CASE ~IsQueued(c)
    <3>1. call[c].at \notin Undecided \cup Preparing \cup {"queued", "waiting", "served", "flushing", "done"}
      BY <2>2 DEF CalledInv, CalledAt
    <3>2. call[c].at = "calling"
      BY <3>1 DEF Types, CallType, CallPlaces, Undecided, Preparing
    <3>3. call[c].thread = a /\ IsUnderway(c)
      BY <3>2 DEF CalledInv, CalledAt, IsUnderway
    <3> QED BY <3>3 DEF FrameInv, LateInv
  <2> QED BY <2>1, <2>2
<1>4. \A d \in Requests : invoked[d].at = "inner" => invoked'[d].at = "inner" /\ invoked'[d].thread = invoked[d].thread
  BY <1>0
<1> HIDE DEF a, n
<1>6. OneFrameInv'
  BY <1>0, <1>1, <1>2 DEF FrameInv, OneFrameInv, Busy
<1>7. ParentInv'
  <2> SUFFICES ASSUME NEW d \in Requests, IsUnderway(d)', d \in Inner
               PROVE  \E p \in Requests : /\ InnerCall[p] = d /\ invoked'[p].at = "inner"
                                          /\ invoked'[p].thread = call'[d].thread
    BY DEF ParentInv
  <2>1. CASE d = n
    BY <1>0, <2>1 DEF n
  <2>2. CASE d # n
    <3>1. PICK p \in Requests : /\ InnerCall[p] = d /\ invoked[p].at = "inner"
                                /\ invoked[p].thread = call[d].thread
      BY <1>0, <2>2 DEF FrameInv, ParentInv, IsUnderway
    <3> QED BY <1>0, <1>4, <2>2, <3>1
  <2> QED BY <2>1, <2>2
<1>8. NestedInv'
  BY <1>0 DEF FrameInv, NestedInv
<1>9. LateInv'
  BY <1>0, <1>3 DEF FrameInv, LateInv, IsUnderway
<1>10. AwakeInv'
  BY <1>0 DEF FrameInv, AwakeInv, Free, IsUnderway
<1> QED BY <1>6, <1>7, <1>8, <1>9, <1>10 DEF FrameInv

\* A drain ends when no callback of its thread is left, so none of its calls is.
LEMMA FrameDrainMore ==
  ASSUME Types, QueueRan, FrameInv, NEW a \in Actors, DrainMore(a)
  PROVE  FrameInv'
<1>0. drain[a].on /\ Callbacks(a) = {} /\ UNCHANGED <<game, call, invoked>>
  BY DEF DrainMore, Draining
<1>1. CASE sched.queue # <<>>
  <2>1. \A x \in Actors : drain'[x].on = drain[x].on
    <3>1. drain' = [drain EXCEPT ![a].batch = sched.queue]
      BY <1>1 DEF DrainMore
    <3> QED BY <3>1 DEF Types, DrainType
  <2>2. FrameKept
    BY <1>0, <2>1 DEF FrameKept, IsUnderway, Busy
  <2> QED BY <2>2, FrameStays
<1>2. CASE sched.queue = <<>>
  <2>1. ~drain'[a].on /\ \A x \in Actors : x # a => drain'[x] = drain[x]
    <3>1. drain' = [drain EXCEPT ![a] = NotDraining]
      BY <1>2 DEF DrainMore
    <3> QED BY <3>1 DEF Types, DrainType, NotDraining
  <2>2. \A d \in Requests : call[d].thread \in Actors
    BY DEF Types, CallType
  <2>3. \A d \in Requests : call[d].thread = a /\ d \in Inner => ~IsUnderway(d)
    BY <1>0, NoCallsOf
  <2>4. OneFrameInv' /\ ParentInv'
    BY <1>0 DEF FrameInv, OneFrameInv, ParentInv, IsUnderway, Busy
  <2>5. NestedInv'
    BY <1>0, <2>1, <2>2 DEF FrameInv, NestedInv
  <2>6. LateInv'
    BY <1>0, <2>1, <2>2, <2>3 DEF FrameInv, LateInv, IsUnderway
  <2>7. AwakeInv'
    BY <1>0, <2>1 DEF FrameInv, AwakeInv, IsUnderway, Actors
  <2> QED BY <2>4, <2>5, <2>6, <2>7 DEF FrameInv
<1> QED BY <1>1, <1>2

\* A call that drains is no longer counted as one that is on its way.
LEMMA FrameFlushFailed ==
  ASSUME Types, FrameInv, NEW c \in Requests, FlushFailed(c)
  PROVE  FrameInv'
<1> DEFINE a == call[c].thread
<1>0. /\ call[c].at = "failed" /\ Free(a) /\ At(c, "flushing") /\ UNCHANGED <<game, invoked>>
      /\ Flush(a, FALSE, FALSE) /\ a \in Actors /\ IsUnderway(c)
  BY DEF FlushFailed, Waiting, Types, CallType, IsUnderway
<1>1. /\ call'[c].at = "flushing" /\ call'[c].thread = a
      /\ \A d \in Requests : d # c => call'[d] = call[d]
  BY <1>0, CallMoves
<1>2. drain'[a].on /\ \A x \in Actors : x # a => drain'[x] = drain[x]
  BY <1>0, Flushes
<1>3. \A d \in Requests : call[d].at \in AtCall /\ d # c => call[d].thread # a
  BY <1>0 DEF FrameInv, OneFrameInv, AtCall, Preparing
<1>4. \A d \in Requests : call[d].thread \in Actors
  BY DEF Types, CallType
<1>5. \A d \in Requests : /\ call'[d].thread = call[d].thread /\ (IsUnderway(d)' => IsUnderway(d))
                          /\ call'[d].at \in AtCall => d # c /\ call[d].at \in AtCall
  BY <1>0, <1>1 DEF IsUnderway, AtCall, Preparing
<1> HIDE DEF a
<1>6. OneFrameInv'
  BY <1>0, <1>5 DEF FrameInv, OneFrameInv, Busy
<1>7. ParentInv'
  BY <1>0, <1>5 DEF FrameInv, ParentInv
<1>8. NestedInv'
  BY <1>2, <1>3, <1>4, <1>5 DEF FrameInv, NestedInv
<1>9. LateInv'
  BY <1>0, <1>2, <1>4, <1>5 DEF FrameInv, LateInv
<1>10. AwakeInv'
  BY <1>0, <1>2, <1>5 DEF FrameInv, AwakeInv, Free, Actors
<1> QED BY <1>6, <1>7, <1>8, <1>9, <1>10 DEF FrameInv

\* The main thread leaves the loader with no call under way.
LEMMA FrameLeaveLoader ==
  ASSUME Types, FrameInv, LeaveLoader
  PROVE  FrameInv'
<1>0. Underway("main") = {} /\ UNCHANGED <<call, invoked, drain>> /\ game'.suspended = game.suspended
  BY DEF LeaveLoader, Types, GameType, ghosts
<1>1. \A d \in Requests : IsUnderway(d) => call[d].thread # "main"
  BY <1>0 DEF Underway, IsUnderway
<1>2. OneFrameInv' /\ ParentInv' /\ NestedInv' /\ AwakeInv'
  BY <1>0 DEF FrameInv, OneFrameInv, ParentInv, NestedInv, AwakeInv, IsUnderway, Busy
<1>3. LateInv'
  BY <1>0, <1>1 DEF FrameInv, LateInv, IsUnderway
<1> QED BY <1>2, <1>3 DEF FrameInv

\* The thread of a drain has no other call.
LEMMA FrameFlushes ==
  ASSUME Types, QueueRan, PlacesInv, FrameInv, NEW a \in {"main", "worker"}, ImageFlushes(a)
  PROVE  FrameInv'
<1>0. /\ UNCHANGED <<call, invoked>> /\ sched.state = 1 /\ (\E e, f : Flush(a, e, f)) /\ Free(a)
      /\ a \in Actors /\ (a = "main" => game.at \in {"stub", "cookie"} /\ game'.at # "early" /\ ~game'.suspended)
      /\ (a = "worker" => UNCHANGED game)
  <2>1. game.at \in {"stub", "cookie"} => ~game.suspended
    BY DEF PlacesInv, PlaceInv, GameInv
  <2>2. CASE a = "main"
    <3>1. game'.suspended = game.suspended
      BY <2>2 DEF ImageFlushes
    <3> QED BY <2>1, <2>2, <3>1 DEF ImageFlushes, Actors
  <2>3. CASE a = "worker"
    BY <2>3 DEF ImageFlushes, Actors
  <2> QED BY <2>2, <2>3
<1>1. drain'[a].on /\ \A x \in Actors : x # a => drain'[x] = drain[x]
  BY <1>0, Flushes
<1>2. \A x \in Actors : ~drain[x].on
  BY <1>0 DEF QueueRan, DrainInv
<1>3. \A d \in Requests : IsUnderway(d) => call[d].thread # a
  BY <1>0, <1>2 DEF FrameInv, LateInv
<1>4. \A d \in Requests : call[d].thread \in Actors
  BY DEF Types, CallType
<1>6. OneFrameInv' /\ ParentInv'
  BY <1>0 DEF FrameInv, OneFrameInv, ParentInv, IsUnderway, Busy
<1>8. NestedInv'
  BY <1>0, <1>1, <1>3, <1>4 DEF FrameInv, NestedInv, IsUnderway, AtCall, Preparing
<1>9. LateInv'
  BY <1>0, <1>1, <1>2, <1>3, <1>4 DEF FrameInv, LateInv, IsUnderway
<1>10. AwakeInv'
  BY <1>0, <1>1 DEF FrameInv, AwakeInv, IsUnderway, Actors
<1> QED BY <1>6, <1>8, <1>9, <1>10 DEF FrameInv

\* Every step keeps the frames of the threads.
LEMMA FrameNext ==
  ASSUME Types, CalledInv, QueueRan, PlacesInv, DrainerInv, FrameInv, ArxanNext
  PROVE  FrameInv'
<1>1. ASSUME NEW c \in Requests, CallStep(c) PROVE FrameInv'
  <2>1. CASE CallPasses(c) /\ call[c].at # "new"
    <3>1. /\ UNCHANGED <<invoked, drain>> /\ call'[c].thread = call[c].thread
          /\ game'.at = game.at /\ game'.suspended = game.suspended
          /\ \A d \in Requests : d # c => call'[d] = call[d]
      BY <2>1 DEF CallPasses
    <3>2. call'[c].at \in AtCall => call[c].at \in AtCall
      BY <2>1 DEF CallPasses, Call, AtCall, Preparing
    <3>3. IsUnderway(c)
      BY <2>1 DEF CallPasses, Call, IsUnderway, Preparing
    <3>4. FrameKept
      BY <3>1, <3>2, <3>3 DEF FrameKept, IsUnderway, Busy
    <3> QED BY <3>4, FrameStays
  <2>5. CASE CallPasses(c) /\ call[c].at = "new"
    <3>1. Call(c)
      BY <2>5 DEF CallPasses, Preparing
    <3> QED BY <2>5, <3>1, FrameCall
  <2>2. CASE CallInvokes(c)
    BY <2>2, FrameInvokes
  <2>3. CASE CallQueued(c)
    <3>1. FrameKept
      BY <2>3 DEF CallQueued, FrameKept, IsUnderway, Busy, AtCall
    <3> QED BY <3>1, FrameStays
  <2>4. CASE FlushFailed(c)
    BY <2>4, FrameFlushFailed
  <2> QED BY <1>1, <2>1, <2>2, <2>3, <2>4, <2>5, CallSteps, CallsInvoke
<1>2. ASSUME NEW c \in Requests, CallbackStep(c) PROVE FrameInv'
  <2>1. CASE CallbackPasses(c) \/ CallbackReaches(c)
    <3>1. FrameKept
      BY <2>1 DEF CallbackPasses, CallbackReaches, FrameKept, IsUnderway, Busy, Amid, Idle
    <3> QED BY <3>1, FrameStays
  <2>2. CASE CallbackEnds(c) /\ UNCHANGED call
    <3>1. FrameKept
      BY <2>2 DEF CallbackEnds, FrameKept, IsUnderway, Busy, Idle
    <3> QED BY <3>1, FrameStays
  <2>3. CASE CallbackEnds(c) /\ invoked'[c].at = "inner" /\ invoked[c].at = "body"
    BY <2>3, FrameCallInner
  <2>4. CallbackEnds(c) => UNCHANGED call \/ (invoked'[c].at = "inner" /\ invoked[c].at = "body")
    BY DEF CallbackEnds
  <2> QED BY <1>2, <2>1, <2>2, <2>3, <2>4, CallbackSteps, CallbacksEnd
<1>3. ASSUME NEW a \in Actors, InvokeNext(a) \/ DrainMore(a) PROVE FrameInv'
  BY <1>3, FrameInvokeNext, FrameDrainMore
<1>4. CASE ImageStep
  <2>1. CASE ImageGoes /\ ~LeaveLoader
    <3>1. (game'.at = "early" <=> game.at = "early") /\ (game'.suspended => game.suspended)
      BY <1>4, <2>1 DEF ImageStep, Resume, StubDetour, StubDrained, InitCookie, CookieDetour, EnterMain,
         WorkerFlush, WorkerEnds, Types, GameType
    <3>2. FrameKept
      BY <2>1, <3>1 DEF ImageGoes, FrameKept, IsUnderway, Busy
    <3> QED BY <3>2, FrameStays
  <2> QED BY <1>4, <2>1, ImageSteps, FrameLeaveLoader, FrameFlushes DEF PlacesInv
<1> QED BY <1>1, <1>2, <1>3, <1>4 DEF ArxanNext, ImageStep

\* Who is at a drain stays there.
LEMMA DrainerStays ==
  ASSUME DrainerInv,
         \A x \in Actors : drain'[x].on => drain[x].on,
         worker = "draining" => worker' = "draining" \/ ~drain'["worker"].on,
         game.at \in {"stub drain", "drain"} => game'.at = game.at \/ ~drain'["main"].on,
         \A d \in Requests : call[d].at = "flushing" =>
           (call'[d].at = "flushing" /\ call'[d].thread = call[d].thread) \/ ~drain'[call[d].thread].on
  PROVE  DrainerInv'
<1> SUFFICES ASSUME NEW a \in Actors, drain'[a].on
             PROVE  \/ a = "worker" /\ worker' = "draining"
                    \/ a = "main" /\ game'.at \in {"stub drain", "drain"}
                    \/ \E c \in Requests : call'[c].thread = a /\ call'[c].at = "flushing"
  BY DEF DrainerInv
<1>0. \/ a = "worker" /\ worker = "draining"
      \/ a = "main" /\ game.at \in {"stub drain", "drain"}
      \/ \E c \in Requests : call[c].thread = a /\ call[c].at = "flushing"
  BY DEF DrainerInv
<1>1. CASE a = "worker" /\ worker = "draining"
  BY <1>1
<1>2. CASE a = "main" /\ game.at \in {"stub drain", "drain"}
  BY <1>2
<1>3. CASE \E c \in Requests : call[c].thread = a /\ call[c].at = "flushing"
  BY <1>3
<1> QED BY <1>0, <1>1, <1>2, <1>3

\* Every step keeps who is at a drain.
LEMMA DrainerNext ==
  ASSUME Types, CalledInv, QueueRan, PlacesInv, DrainerInv, ArxanNext
  PROVE  DrainerInv'
<1>1. ASSUME NEW c \in Requests, CallStep(c) PROVE DrainerInv'
  <2>1. CASE CallPasses(c) /\ Passing(c)
    <3>1. /\ UNCHANGED drain /\ call'[c].thread = call[c].thread
          /\ game'.at = game.at
          /\ \A d \in Requests : d # c => call'[d] = call[d]
          /\ call[c].at = "flushing" => ~drain[call[c].thread].on
      BY <2>1 DEF CallPasses, Call, Preparing
    <3>2. worker = "draining" => worker' = "draining"
      <4>1. CASE StartWorker(c)
        <5>1. sched.state = 1
          BY <4>1 DEF StartWorker, Waiting, PlacesInv, PrepareInv, Prepares, Preparing
        <5>2. worker # "draining"
          BY <5>1 DEF PlacesInv, PlaceInv, WorkerInv
        <5> QED BY <5>2
      <4>2. CASE ~StartWorker(c)
        BY <2>1, <4>2 DEF Passing, Call, Ask, CalledAtOnce, AfterEnqueue, Served, Probe, DecideHook,
           InstallHook, WrapSteamStub, Flushed
      <4> QED BY <4>1, <4>2
    <3> QED BY <3>1, <3>2, DrainerStays
  <2>2. CASE CallInvokes(c)
    BY <2>2, DrainerStays DEF CallInvokes
  <2>3. CASE CallQueued(c)
    BY <2>3, DrainerStays DEF CallQueued
  <2>4. CASE FlushFailed(c)
    <3>1. /\ UNCHANGED <<game, worker>> /\ At(c, "flushing") /\ call[c].thread \in Actors
          /\ Flush(call[c].thread, FALSE, FALSE) /\ call[c].at = "failed"
      BY <2>4 DEF FlushFailed, Types, CallType, Waiting
    <3>2. /\ call'[c].at = "flushing" /\ call'[c].thread = call[c].thread
          /\ \A d \in Requests : d # c => call'[d] = call[d]
      BY <3>1, CallMoves
    <3>3. \A x \in Actors : x # call[c].thread => drain'[x] = drain[x]
      BY <3>1, Flushes
    <3>4. ASSUME NEW x \in Actors, drain'[x].on
          PROVE  \/ x = "worker" /\ worker' = "draining"
                 \/ x = "main" /\ game'.at \in {"stub drain", "drain"}
                 \/ \E d \in Requests : call'[d].thread = x /\ call'[d].at = "flushing"
      <4>1. CASE x = call[c].thread
        BY <3>2, <4>1
      <4>2. CASE x # call[c].thread
        <5>1. drain[x].on
          BY <3>3, <3>4, <4>2
        <5>2. \A d \in Requests : call[d].thread = x /\ call[d].at = "flushing" =>
                call'[d].thread = x /\ call'[d].at = "flushing"
          BY <3>1, <3>2, <4>2
        <5> QED BY <3>1, <5>1, <5>2 DEF DrainerInv
      <4> QED BY <4>1, <4>2
    <3> QED BY <3>4 DEF DrainerInv
  <2> QED BY <1>1, <2>1, <2>2, <2>3, <2>4, CallSteps, CallsInvoke
<1>2. ASSUME NEW c \in Requests, CallbackStep(c) PROVE DrainerInv'
  <2>1. /\ UNCHANGED <<game, worker, drain>>
        /\ \A d \in Requests : call[d].at = "flushing" => call'[d] = call[d]
    <3>1. CASE CallbackPasses(c) \/ CallbackReaches(c)
      BY <3>1 DEF CallbackPasses, CallbackReaches
    <3>2. CASE CallbackEnds(c)
      BY <3>2 DEF CallbackEnds
    <3> QED BY <1>2, <3>1, <3>2, CallbackSteps, CallbacksEnd
  <2> QED BY <2>1, DrainerStays
<1>3. ASSUME NEW a \in Actors, InvokeNext(a) \/ DrainMore(a) PROVE DrainerInv'
  <2>1. CASE InvokeNext(a)
    <3>1. UNCHANGED <<game, worker, call>> /\ \A x \in Actors : drain'[x].on = drain[x].on
      BY <2>1, InvokesNext
    <3> QED BY <3>1, DrainerStays
  <2>2. CASE DrainMore(a)
    <3>1. UNCHANGED <<game, worker, call>> /\ drain[a].on
      BY <2>2 DEF DrainMore, Draining
    <3>2. drain' = [drain EXCEPT ![a].batch = sched.queue] \/ drain' = [drain EXCEPT ![a] = NotDraining]
      BY <2>2 DEF DrainMore
    <3>3. \A x \in Actors : drain'[x].on => drain[x].on
      BY <3>1, <3>2 DEF Types, DrainType
    <3> QED BY <3>1, <3>3, DrainerStays
  <2> QED BY <1>3, <2>1, <2>2
<1>4. CASE ImageStep
  <2>1. CASE ImageGoes
    <3>1. /\ UNCHANGED <<drain, call>>
          /\ (game.at \in {"stub drain", "drain"} => game'.at = game.at \/ ~drain["main"].on)
          /\ (worker = "draining" => worker' = worker \/ ~drain["worker"].on)
      BY <1>4, <2>1 DEF ImageGoes, ImageStep, Resume, LeaveLoader, StubDetour, StubDrained, InitCookie,
         CookieDetour, EnterMain, WorkerFlush, WorkerEnds, Types, GameType
    <3> QED BY <3>1, DrainerStays
  <2>2. ASSUME NEW a \in {"main", "worker"}, ImageFlushes(a) PROVE DrainerInv'
    <3>1. \A x \in Actors : ~drain[x].on
      <4>1. sched.state = 1
        BY <2>2 DEF ImageFlushes
      <4> QED BY <4>1 DEF QueueRan, DrainInv
    <3>2. a \in Actors
      BY DEF Actors
    <3>3. \A x \in Actors : x # a => drain'[x] = drain[x]
      BY <2>2, <3>2, Flushes DEF ImageFlushes
    <3> QED BY <2>2, <3>1, <3>2, <3>3 DEF DrainerInv, ImageFlushes
  <2> QED BY <1>4, <2>1, <2>2, ImageSteps DEF PlacesInv
<1> QED BY <1>1, <1>2, <1>3, <1>4 DEF ArxanNext, ImageStep

----------------------------------------------------------------------------
(* Callbacks in the entry point.                                            *)

\* Callbacks in their course are told the same.
LEMMA ExecutingStays ==
  ASSUME ExecutingInv, UNCHANGED drain, game'.at = game.at,
         \A d \in Requests : /\ invoked'[d].executing => invoked[d].executing /\ invoked'[d].thread = invoked[d].thread
                             /\ invoked[d].at = "over" => invoked'[d].at = "over"
  PROVE  ExecutingInv'
BY DEF ExecutingInv

\* When no drain is on nothing is told that it runs in the entry point.
LEMMA NoneExecuting ==
  ASSUME Types, QueueRan, ExecutingInv, sched.state = 1
  PROVE  /\ \A x \in Actors : ~drain[x].on /\ ~drain[x].executing
         /\ \A c \in Requests : ~(invoked[c].executing /\ invoked[c].at # "over")
<1>1. \A x \in Actors : ~drain[x].on
  BY DEF QueueRan, DrainInv
<1>2. \A x \in Actors : ~drain[x].executing
  BY <1>1 DEF QueueRan, DrainInv, NotDraining
<1>3. "main" \in Actors
  BY DEF Actors
<1> QED BY <1>1, <1>2, <1>3 DEF ExecutingInv

\* Every step keeps that only the detours' drain says it runs in the entry point.
LEMMA ExecutingNext ==
  ASSUME Types, CalledInv, QueueRan, PlacesInv, ExecutingInv, ArxanNext
  PROVE  ExecutingInv'
<1>1. ASSUME NEW c \in Requests, CallStep(c) PROVE ExecutingInv'
  <2>1. CASE CallPasses(c) \/ CallQueued(c)
    BY <2>1, ExecutingStays DEF CallPasses, CallQueued
  <2>3. CASE CallInvokes(c)
    <3>1. invoked[c].at # "over"
      BY <2>3 DEF CallInvokes, CalledInv, CalledAt, Undecided
    <3> QED BY <2>3, <3>1, ExecutingStays DEF CallInvokes
  <2>2. CASE FlushFailed(c)
    <3>1. sched.state = 1
      BY <2>2 DEF FlushFailed, Waiting, PlacesInv, PrepareInv, Prepares, Preparing
    <3>2. /\ UNCHANGED <<game, invoked>> /\ call[c].thread \in Actors
          /\ Flush(call[c].thread, FALSE, FALSE)
      BY <2>2 DEF FlushFailed, Types, CallType
    <3>3. ~drain'[call[c].thread].executing /\ \A x \in Actors : x # call[c].thread => drain'[x] = drain[x]
      BY <3>2, Flushes
    <3>4. \A x \in Actors : ~drain'[x].executing
      BY <3>1, <3>3, NoneExecuting
    <3>5. \A d \in Requests : ~(invoked'[d].executing /\ invoked'[d].at # "over")
      BY <3>1, <3>2, NoneExecuting
    <3> QED BY <3>4, <3>5 DEF ExecutingInv
  <2> QED BY <1>1, <2>1, <2>2, <2>3, CallSteps, CallsInvoke
<1>2. ASSUME NEW c \in Requests, CallbackStep(c) PROVE ExecutingInv'
  <2>1. CASE CallbackPasses(c) \/ CallbackReaches(c)
    BY <2>1, ExecutingStays DEF CallbackPasses, CallbackReaches, Amid
  <2>2. CASE CallbackEnds(c)
    BY <2>2, ExecutingStays DEF CallbackEnds
  <2> QED BY <1>2, <2>1, <2>2, CallbackSteps, CallbacksEnd
<1>3. ASSUME NEW a \in Actors, InvokeNext(a) PROVE ExecutingInv'
  <2>1. PICK b \in Requests :
           /\ invoked'[b].thread = a /\ invoked'[b].executing = drain[a].executing
           /\ \A d \in Requests : d # b => invoked'[d] = invoked[d]
           /\ drain[a].on
           /\ \A x \in Actors : drain'[x].on = drain[x].on /\ drain'[x].executing = drain[x].executing
           /\ UNCHANGED game
    BY <1>3, InvokesNext
  <2>2. \A x \in Actors : drain'[x].executing => x = "main" /\ game'.at \in {"stub drain", "drain"}
    BY <2>1 DEF ExecutingInv
  <2>3. invoked'[b].executing => a = "main" /\ drain'["main"].on /\ drain'["main"].executing
    BY <2>1 DEF ExecutingInv
  <2>4. "main" \in Actors
    BY DEF Actors
  <2> QED BY <2>1, <2>2, <2>3, <2>4 DEF ExecutingInv
<1>4. ASSUME NEW a \in Actors, DrainMore(a) PROVE ExecutingInv'
  <2>1. drain[a].on /\ Callbacks(a) = {} /\ UNCHANGED <<game, invoked>>
    BY <1>4 DEF DrainMore, Draining
  <2>2. CASE drain' = [drain EXCEPT ![a].batch = sched.queue]
    <3>1. \A x \in Actors : drain'[x].on = drain[x].on /\ drain'[x].executing = drain[x].executing
      BY <2>2 DEF Types, DrainType
    <3>2. "main" \in Actors
      BY DEF Actors
    <3> QED BY <2>1, <3>1, <3>2 DEF ExecutingInv
  <2>3. CASE drain' = [drain EXCEPT ![a] = NotDraining]
    <3>1. ~drain'[a].executing /\ \A x \in Actors : x # a => drain'[x] = drain[x]
      BY <2>3 DEF Types, DrainType, NotDraining
    <3>2. \A x \in Actors : drain'[x].executing => x = "main" /\ game'.at \in {"stub drain", "drain"}
      BY <2>1, <3>1 DEF ExecutingInv
    <3>3. \A d \in Requests : invoked[d].at # "over" => invoked[d].thread # a
      BY <2>1 DEF Callbacks
    <3>4. "main" \in Actors
      BY DEF Actors
    <3>5. \A d \in Requests : invoked'[d].executing /\ invoked'[d].at # "over" =>
             invoked'[d].thread = "main" /\ drain'["main"].on /\ drain'["main"].executing
      BY <2>1, <3>1, <3>3, <3>4 DEF ExecutingInv
    <3> QED BY <3>2, <3>5 DEF ExecutingInv
  <2> QED BY <1>4, <2>2, <2>3 DEF DrainMore
<1>5. CASE ImageStep
  <2>1. CASE ImageGoes
    <3>1. /\ UNCHANGED <<drain, invoked>>
          /\ game.at \in {"stub drain", "drain"} => game'.at = game.at \/ ~drain["main"].on
      BY <1>5, <2>1 DEF ImageGoes, ImageStep, Resume, LeaveLoader, StubDetour, StubDrained, InitCookie,
         CookieDetour, EnterMain, WorkerFlush, WorkerEnds, Types, GameType
    <3>2. ~drain["main"].on => ~drain["main"].executing
      BY DEF QueueRan, DrainInv, NotDraining, Actors
    <3> QED BY <3>1, <3>2 DEF ExecutingInv
  <2>2. ASSUME NEW a \in {"main", "worker"}, ImageFlushes(a) PROVE ExecutingInv'
    <3>1. sched.state = 1 /\ UNCHANGED invoked /\ a \in Actors
      BY <2>2 DEF ImageFlushes, Actors
    <3>0. PICK e \in BOOLEAN : \E f : Flush(a, e, f) /\ (e => a = "main")
      BY <2>2 DEF ImageFlushes
    <3>2. PICK f : Flush(a, e, f) /\ (e => a = "main")
      BY <3>0
    <3>3. drain'[a].executing = e /\ \A x \in Actors : x # a => drain'[x] = drain[x]
      BY <3>1, <3>2, Flushes
    <3>4. a = "main" => game'.at \in {"stub drain", "drain"}
      BY <2>2 DEF ImageFlushes
    <3>5. \A x \in Actors : drain'[x].executing => x = "main" /\ game'.at \in {"stub drain", "drain"}
      BY <3>1, <3>2, <3>3, <3>4, NoneExecuting
    <3>6. \A d \in Requests : ~(invoked'[d].executing /\ invoked'[d].at # "over")
      BY <3>1, NoneExecuting
    <3> QED BY <3>5, <3>6 DEF ExecutingInv
  <2> QED BY <1>5, <2>1, <2>2, ImageSteps DEF PlacesInv
<1> QED BY <1>1, <1>2, <1>3, <1>4, <1>5 DEF ArxanNext, ImageStep

----------------------------------------------------------------------------
(* Those that wait, and who will drain.                                     *)

\* Who waits, waits on.
LEMMA WaitStays ==
  ASSUME Types, WaitInv, world' = world,
         \A d \in Requests : /\ call'[d].at = "waiting" => call[d].at = "waiting"
                             /\ call'[d].at \in {"asked", "queued"} =>
                                  call[d].at \in {"asked", "queued"} /\ call'[d].pre = call[d].pre
                             /\ call'[d].at \in {"asked", "queued", "waiting"} =>
                                  call'[d].thread = call[d].thread,
         \A a \in Actors : drain'[a].on => drain[a].on,
         sched.state = 3 => sched'.state = 3,
         game'.at = "early" => game.at = "early"
  PROVE  WaitInv'
<1>1. \A c \in Requests : call'[c].at = "waiting" /\ sched'.state # 3 => ~drain'[call'[c].thread].on
  <2>1. \A c \in Requests : call[c].thread \in Actors
    BY DEF Types, CallType
  <2> QED BY <2>1 DEF WaitInv
<1>2. world'.mainFound /\ world'.cookieFound => \A c \in Requests : call'[c].thread = "main" =>
       /\ call'[c].at \in {"asked", "queued"} /\ game'.at = "early" => call'[c].pre
       /\ call'[c].at = "waiting" => sched'.state = 3
  BY DEF WaitInv
<1> QED BY <1>1, <1>2 DEF WaitInv

\* Every step keeps that the main thread does not wait for its own drain.
LEMMA WaitNext ==
  ASSUME Types, CalledInv, QueueRan, PlacesInv, FrameInv, WaitInv, ArxanNext
  PROVE  WaitInv'
<1>0. \A c \in Requests : call[c].thread \in Actors
  BY DEF Types, CallType
<1>1. ASSUME NEW c \in Requests, CallStep(c) PROVE WaitInv'
  <2>1. CASE CallPasses(c) /\ Passing(c)
    <3>0. /\ UNCHANGED <<world, drain>> /\ sched'.state = sched.state /\ game'.at = game.at
          /\ call'[c].thread = call[c].thread
          /\ \A d \in Requests : d # c => call'[d] = call[d]
      BY <2>1 DEF CallPasses
    <3>1. CASE call'[c].at \notin {"asked", "waiting"}
      <4>1. call'[c].at # "queued"
        BY <2>1, <3>1 DEF CallPasses, Preparing
      <4> QED BY <3>0, <3>1, <4>1, WaitStays
    <3>2. CASE call'[c].at = "asked"
      <4>1. Ask(c)
        BY <2>1, <3>2, CallMoves DEF CallPasses, Passing, Preparing, Call, CalledAtOnce, AfterEnqueue, Served,
           Probe, DecideHook, StartWorker, InstallHook, WrapSteamStub, Flushed
      <4>2. call'[c].pre = (sched.image => PreEntryPoint(call[c].thread))
        BY <4>1 DEF Ask, Types, CallType
      <4>3. world.cookieFound /\ call[c].thread = "main" /\ game.at = "early" => PreEntryPoint(call[c].thread)
        BY DEF PreEntryPoint, CookieFound, MainThreadFound, PlacesInv, PlaceInv, GameInv
      <4>4. call[c].thread = "main" /\ game.at = "early" /\ world.cookieFound => call'[c].pre
        BY <4>2, <4>3
      <4>5. \A d \in Requests : call'[d].at = "waiting" /\ sched'.state # 3 => ~drain'[call'[d].thread].on
        BY <3>0, <3>2 DEF WaitInv
      <4> QED BY <3>0, <3>2, <4>4, <4>5 DEF WaitInv
    <3>3. CASE call'[c].at = "waiting"
      <4>1. call[c].at = "queued" /\ ~call[c].pre /\ sched.state # 2
        BY <2>1, <3>3 DEF CallPasses, Preparing
      <4>2. ~drain[call[c].thread].on
        BY <1>0, <4>1 DEF QueueRan, DrainInv
      <4>3. IsUnderway(c)
        BY <4>1 DEF IsUnderway
      <4>4. ~(world.mainFound /\ world.cookieFound /\ call[c].thread = "main")
        BY <4>1, <4>2, <4>3 DEF WaitInv, FrameInv, LateInv
      <4>5. \A d \in Requests : call'[d].at = "waiting" /\ sched'.state # 3 => ~drain'[call'[d].thread].on
        BY <3>0, <4>2 DEF WaitInv
      <4> QED BY <3>0, <4>4, <4>5 DEF WaitInv
    <3> QED BY <3>1, <3>2, <3>3
  <2>2. CASE CallInvokes(c)
    BY <2>2, WaitStays DEF CallInvokes
  <2>3. CASE CallQueued(c)
    BY <2>3, WaitStays DEF CallQueued
  <2>4. CASE FlushFailed(c)
    <3>1. sched.state = 1 /\ call[c].at = "failed"
      BY <2>4 DEF FlushFailed, Waiting, PlacesInv, PrepareInv, Prepares, Preparing
    <3>2. /\ UNCHANGED <<world, game>> /\ At(c, "flushing") /\ Flush(call[c].thread, FALSE, FALSE)
      BY <2>4 DEF FlushFailed
    <3>3. \A x \in Actors : x # call[c].thread => drain'[x] = drain[x]
      BY <1>0, <3>2, Flushes
    <3>4. /\ call'[c].at = "flushing" /\ call'[c].thread = call[c].thread
          /\ \A d \in Requests : d # c => call'[d] = call[d]
      BY <3>2, CallMoves
    <3>5. \A d \in Requests : call[d].at = "waiting" => call[d].thread # call[c].thread
      BY <3>1 DEF FrameInv, OneFrameInv, AtCall, Preparing
    <3>6. \A d \in Requests : call'[d].at = "waiting" /\ sched'.state # 3 => ~drain'[call'[d].thread].on
      <4> SUFFICES ASSUME NEW d \in Requests, call'[d].at = "waiting" PROVE ~drain'[call'[d].thread].on
        OBVIOUS
      <4>1. d # c /\ call'[d] = call[d]
        BY <3>4
      <4>2. ~drain[call[d].thread].on
        <5>1. sched.state # 3
          BY <3>1
        <5> QED BY <4>1, <5>1 DEF WaitInv
      <4> QED BY <1>0, <3>3, <3>5, <4>1, <4>2
    <3>7. \A d \in Requests : world.mainFound /\ world.cookieFound /\ call[d].at = "waiting" => call[d].thread # "main"
      BY <3>1 DEF WaitInv
    <3>8. world'.mainFound /\ world'.cookieFound => \A d \in Requests : call'[d].thread = "main" =>
             /\ call'[d].at \in {"asked", "queued"} /\ game'.at = "early" => call'[d].pre
             /\ call'[d].at = "waiting" => sched'.state = 3
      BY <3>2, <3>4, <3>7 DEF WaitInv
    <3> QED BY <3>6, <3>8 DEF WaitInv
  <2> QED BY <1>1, <2>1, <2>2, <2>3, <2>4, CallSteps, CallsInvoke
<1>2. ASSUME NEW c \in Requests, CallbackStep(c) PROVE WaitInv'
  <2>1. CASE CallbackPasses(c) \/ CallbackReaches(c)
    BY <2>1, WaitStays DEF CallbackPasses, CallbackReaches
  <2>2. CASE CallbackEnds(c)
    BY <2>2, WaitStays DEF CallbackEnds
  <2> QED BY <1>2, <2>1, <2>2, CallbackSteps, CallbacksEnd
<1>3. ASSUME NEW a \in Actors, InvokeNext(a) PROVE WaitInv'
  <2>1. UNCHANGED <<world, game, sched, call>> /\ \A x \in Actors : drain'[x].on = drain[x].on
    BY <1>3, InvokesNext
  <2> QED BY <2>1, WaitStays
<1>4. ASSUME NEW a \in Actors, DrainMore(a) PROVE WaitInv'
  <2>1. drain[a].on /\ UNCHANGED <<world, game, call>>
    BY <1>4 DEF DrainMore, Draining
  <2>2. drain' = [drain EXCEPT ![a].batch = sched.queue] \/ drain' = [drain EXCEPT ![a] = NotDraining]
    BY <1>4 DEF DrainMore
  <2>3. \A x \in Actors : drain'[x].on => drain[x].on
    BY <2>1, <2>2 DEF Types, DrainType
  <2>4. sched.state # 3
    <3>1. sched.state = 2
      BY <2>1 DEF QueueRan, DrainInv
    <3> QED BY ONLY <3>1
  <2> QED BY <2>1, <2>3, <2>4, WaitStays
<1>5. CASE ImageStep
  <2>1. CASE ImageGoes
    <3>1. game'.at = "early" => game.at = "early"
      BY <1>5, <2>1 DEF ImageGoes, ImageStep, Resume, LeaveLoader, StubDetour, StubDrained, InitCookie,
         CookieDetour, EnterMain, WorkerFlush, WorkerEnds, Types, GameType
    <3> QED BY <2>1, <3>1, WaitStays DEF ImageGoes
  <2>2. ASSUME NEW a \in {"main", "worker"}, ImageFlushes(a) PROVE WaitInv'
    <3>1. sched.state = 1 /\ UNCHANGED <<world, call>> /\ a \in Actors
          /\ (game'.at = "early" => game.at = "early")
          /\ (a = "main" => game.at # "early") /\ \E e, f : Flush(a, e, f)
      BY <2>2 DEF ImageFlushes, Actors
    <3>2. \A x \in Actors : x # a => drain'[x] = drain[x]
      BY <3>1, Flushes
    <3>3. \A x \in Actors : ~drain[x].on
      BY <3>1 DEF QueueRan, DrainInv
    <3>4. \A d \in Requests : call[d].at = "waiting" => call[d].thread # a
      BY <3>1, <3>3 DEF FrameInv, LateInv, IsUnderway
    <3>5. \A d \in Requests : call'[d].at = "waiting" /\ sched'.state # 3 => ~drain'[call'[d].thread].on
      BY <1>0, <3>1, <3>2, <3>3, <3>4
    <3>6. \A d \in Requests : world.mainFound /\ world.cookieFound /\ call[d].at = "waiting" => call[d].thread # "main"
      BY <3>1 DEF WaitInv
    <3>7. world'.mainFound /\ world'.cookieFound => \A d \in Requests : call'[d].thread = "main" =>
             /\ call'[d].at \in {"asked", "queued"} /\ game'.at = "early" => call'[d].pre
             /\ call'[d].at = "waiting" => sched'.state = 3
      BY <3>1, <3>6 DEF WaitInv
    <3> QED BY <3>5, <3>7 DEF WaitInv
  <2> QED BY <1>5, <2>1, <2>2, ImageSteps DEF PlacesInv
<1> QED BY <1>1, <1>2, <1>3, <1>4, <1>5 DEF ArxanNext, ImageStep

\* What will drain the queue stays so.
LEMMA ComesStays ==
  ASSUME ComesInv, world' = world, game' = game, worker' = worker, sched'.state = sched.state,
         Prepares => Prepares'
  PROVE  ComesInv'
BY DEF ComesInv, SteamIsAhead

\* Outside of the state 1 nothing has to come.
LEMMA ComesDone == ASSUME sched'.state # 1 PROVE ComesInv'
BY DEF ComesInv

\* A call that prepares a drain hands over to a hook or to the worker, or drains.
LEMMA ComesCall ==
  ASSUME Types, CalledInv, PlacesInv, ComesInv, NEW c \in Requests, CallStep(c)
  PROVE  ComesInv'
<1>1. CASE CallInvokes(c)
  <2>1. /\ world' = world /\ game' = game /\ worker' = worker /\ sched' = sched
        /\ \A d \in Requests : call[d].at \in Preparing => call'[d] = call[d]
    BY <1>1 DEF CallInvokes, Preparing
  <2>2. Prepares => Prepares'
    BY <2>1 DEF Prepares
  <2> QED BY <2>1, <2>2, ComesStays
<1>2. CASE CallQueued(c)
  <2>1. CASE sched.state = 0
    <3>1. call'[c].at \in Preparing
      BY <1>2, <2>1 DEF CallQueued, Preparing
    <3>2. Prepares'
      BY <3>1 DEF Prepares
    <3> QED BY <3>2 DEF ComesInv
  <2>2. CASE sched.state # 0
    <3>1. /\ world' = world /\ game' = game /\ worker' = worker /\ sched'.state = sched.state
          /\ \A d \in Requests : call[d].at \in Preparing => call'[d] = call[d]
      BY <1>2, <2>2 DEF CallQueued, Preparing
    <3>2. Prepares => Prepares'
      BY <3>1 DEF Prepares
    <3> QED BY <3>1, <3>2, ComesStays
  <2> QED BY <2>1, <2>2
<1>3. CASE FlushFailed(c)
  <2>1. Flush(call[c].thread, FALSE, FALSE) /\ call[c].thread \in Actors
    BY <1>3 DEF FlushFailed, Types, CallType
  <2>2. sched'.state = 2
    BY <2>1, Flushes
  <2>3. sched'.state # 1
    BY ONLY <2>2
  <2> QED BY <2>3, ComesDone
<1>4. CASE CallPasses(c) /\ Passing(c)
  <2>0. /\ world' = world /\ sched'.state = sched.state /\ game'.at = game.at
        /\ \A d \in Requests : d # c => call'[d] = call[d]
    BY <1>4 DEF CallPasses
  <2>1. CASE call'[c].at \in Preparing
    <3>1. Prepares'
      BY <2>1 DEF Prepares
    <3> QED BY <3>1 DEF ComesInv
  <2>2. CASE call[c].at \notin Preparing
    <3>1. Prepares => Prepares'
      BY <2>0, <2>2 DEF Prepares
    <3>2. worker' = worker /\ game' = game
      BY <1>4, <2>2 DEF Passing, Call, Ask, CalledAtOnce, AfterEnqueue, Served, Probe, DecideHook,
         StartWorker, InstallHook, WrapSteamStub, Flushed, Waiting, Preparing
    <3> QED BY <2>0, <3>1, <3>2, ComesStays
  <2>3. CASE call[c].at \in Preparing /\ call'[c].at \notin Preparing
    <3>1. \/ StartWorker(c) /\ worker' = "waiting"
          \/ InstallHook(c) /\ Hooked
          \/ WrapSteamStub(c) /\ game' = [game EXCEPT !.steam = "patched"]
      <4>1. \A p \in Preparing : ~At(c, p)
        BY <2>3, CallMoves
      <4>2. StartWorker(c) \/ InstallHook(c) \/ WrapSteamStub(c)
        BY <1>4, <2>3, <4>1 DEF Passing, Call, Ask, CalledAtOnce, AfterEnqueue, Served, Probe, DecideHook,
           Flushed, Waiting, Preparing
      <4> QED BY <4>1, <4>2 DEF StartWorker, InstallHook, WrapSteamStub, Preparing
    <3>2. CASE StartWorker(c) /\ worker' = "waiting"
      BY <3>2 DEF ComesInv
    <3>3. CASE InstallHook(c) /\ Hooked
      <4>1. world.mainFound => game.at = "early"
        BY <3>3 DEF InstallHook, Waiting, PlacesInv, PrepareInv
      <4>2. game'.target = "detour"
        BY <3>3 DEF Hooked, Types, GameType
      <4> QED BY <2>0, <4>1, <4>2 DEF ComesInv
    <3>4. CASE WrapSteamStub(c) /\ game' = [game EXCEPT !.steam = "patched"]
      <4>1. world.mainFound => game.at = "early"
        BY <3>4 DEF WrapSteamStub, Waiting, PlacesInv, PrepareInv
      <4>2. game'.steam = "patched"
        BY <3>4 DEF Types, GameType
      <4> QED BY <2>0, <4>1, <4>2 DEF ComesInv, SteamIsAhead
    <3> QED BY <3>1, <3>2, <3>3, <3>4
  <2> QED BY <2>1, <2>2, <2>3
<1> QED BY <1>1, <1>2, <1>3, <1>4, CallSteps, CallsInvoke

\* The hook that the main thread runs into drains, or leads to the next.
LEMMA ComesImage ==
  ASSUME Types, QueueRan, PlacesInv, ComesInv, ImageStep
  PROVE  ComesInv'
<1>1. ASSUME NEW a \in {"main", "worker"}, ImageFlushes(a) PROVE ComesInv'
  <2>1. a \in Actors /\ \E e, f : Flush(a, e, f)
    BY <1>1 DEF ImageFlushes, Actors
  <2>2. sched'.state = 2
    BY <2>1, Flushes
  <2>3. sched'.state # 1
    BY ONLY <2>2
  <2> QED BY <2>3, ComesDone
<1>2. CASE ImageGoes /\ sched.state = 1
  <2>0. sched'.state = sched.state /\ UNCHANGED <<call, world>> /\ (Prepares' <=> Prepares)
    BY <1>2 DEF ImageGoes, Prepares
  <2>1. CASE Resume
    <3>1. UNCHANGED worker /\ game'.at = game.at /\ game'.steam = game.steam /\ game'.target = game.target
      BY <2>1 DEF Resume, Types, GameType
    <3> QED BY <2>0, <3>1 DEF ComesInv, SteamIsAhead
  <2>2. CASE LeaveLoader
    <3>1. UNCHANGED worker /\ game.at = "early" /\ game'.steam = game.steam /\ game'.target = game.target
          /\ game'.at = IF game.steam = "patched" THEN "stub" ELSE "entry"
      BY <2>2 DEF LeaveLoader, Types, GameType
    <3> QED BY <2>0, <3>1 DEF ComesInv, SteamIsAhead
  <2>3. CASE StubDetour
    <3>1. game'.at = "entry" /\ game'.target = "detour"
      <4>1. ~\E f : Flush("main", TRUE, f)
        <5> SUFFICES ASSUME NEW f, Flush("main", TRUE, f) PROVE FALSE
          OBVIOUS
        <5>1. sched'.state = 2
          BY Flushes DEF Actors
        <5> QED BY ONLY <5>1, <2>0, <1>2
      <4> QED BY <2>3, <4>1 DEF StubDetour, Types, GameType
    <3> QED BY <3>1 DEF ComesInv
  <2>4. CASE StubDrained \/ EnterMain
    <3>1. game.at \in {"stub drain", "drain"}
      BY <2>4 DEF StubDrained, EnterMain
    <3>2. sched.state \in {2, 3}
      BY <3>1 DEF PlacesInv, PlaceInv, DrainPlaceInv
    <3> QED BY ONLY <3>2, <1>2
  <2>5. CASE InitCookie
    <3>1. UNCHANGED worker /\ game.at = "entry"
          /\ ((game.target = "detour" /\ game'.at = "cookie") \/ (game.target = "original" /\ game'.at = "main"))
      BY <2>5 DEF InitCookie, Types, GameType
    <3> QED BY <2>0, <3>1 DEF ComesInv, SteamIsAhead
  <2>6. CASE WorkerEnds
    <3>1. sched.state \in {2, 3}
      BY <2>6 DEF WorkerEnds, PlacesInv, PlaceInv, WorkerInv
    <3> QED BY ONLY <3>1, <1>2
  <2>7. CASE CookieDetour \/ WorkerFlush
    <3>1. PICK a \in {"main", "worker"} : \E e, f : Flush(a, e, f)
      BY <2>7 DEF CookieDetour, WorkerFlush
    <3>2. sched'.state = 2
      BY <3>1, Flushes DEF Actors
    <3> QED BY ONLY <3>2, <2>0, <1>2
  <2> QED BY ImageStep, <2>1, <2>2, <2>3, <2>4, <2>5, <2>6, <2>7 DEF ImageStep
<1>3. CASE ImageGoes /\ sched.state # 1
  BY <1>3, ComesDone DEF ImageGoes
<1> QED BY <1>1, <1>2, <1>3, ImageSteps DEF PlacesInv

\* Every step keeps that somebody will drain.
LEMMA ComesNext ==
  ASSUME Types, CalledInv, QueueRan, PlacesInv, ComesInv, ArxanNext
  PROVE  ComesInv'
<1>1. ASSUME NEW c \in Requests, CallbackStep(c) PROVE ComesInv'
  <2>1. /\ world' = world /\ game' = game /\ worker' = worker /\ sched' = sched
        /\ \A d \in Requests : call[d].at \in Preparing => call'[d] = call[d]
    <3>1. CASE CallbackPasses(c) \/ CallbackReaches(c)
      BY <3>1 DEF CallbackPasses, CallbackReaches
    <3>2. CASE CallbackEnds(c)
      BY <3>2 DEF CallbackEnds, Preparing
    <3> QED BY <1>1, <3>1, <3>2, CallbackSteps, CallbacksEnd
  <2>2. Prepares => Prepares'
    BY <2>1 DEF Prepares
  <2> QED BY <2>1, <2>2, ComesStays
<1>2. ASSUME NEW a \in Actors, InvokeNext(a) PROVE ComesInv'
  <2>1. world' = world /\ game' = game /\ worker' = worker /\ sched' = sched /\ call' = call
    BY <1>2, InvokesNext
  <2>2. Prepares => Prepares'
    BY <2>1 DEF Prepares
  <2> QED BY <2>1, <2>2, ComesStays
<1>3. ASSUME NEW a \in Actors, DrainMore(a) PROVE ComesInv'
  <2>1. sched.state = 2
    BY <1>3 DEF DrainMore, Draining, QueueRan, DrainInv
  <2>2. sched' = [sched EXCEPT !.queue = <<>>] \/ sched' = [sched EXCEPT !.state = 3]
    BY <1>3 DEF DrainMore
  <2>3. sched'.state = 2 \/ sched'.state = 3
    BY <2>1, <2>2 DEF Types, SchedType
  <2>4. sched'.state # 1
    BY ONLY <2>3
  <2> QED BY <2>4, ComesDone
<1> QED BY <1>1, <1>2, <1>3, ComesCall, ComesImage DEF ArxanNext, ImageStep

----------------------------------------------------------------------------
(* Who neuters.                                                             *)

NeuteredInv == NeuterInv /\ PatchInv

\* Nothing that the neutering does not do changes what is known of it.
LEMMA NeuterStays ==
  ASSUME NeuteredInv, UNCHANGED neuter,
         \A d \in Requests : /\ d \in Neutering \/ d \in Neutering' =>
                                  invoked'[d].at = invoked[d].at /\ invoked'[d].thread = invoked[d].thread
                             /\ given'[d] \in {"ok", "error"} => given'[d] = given[d]
  PROVE  NeuteredInv'
<1>1. Neutering' = Neutering
  BY DEF Neutering
<1>2. \A d \in Neutering : invoked'[d].at = invoked[d].at /\ invoked'[d].thread = invoked[d].thread
  BY DEF Neutering
<1>3. NeuterInv'
  BY <1>1, <1>2 DEF NeuteredInv, NeuterInv
<1>4. PatchInv'
  BY <1>1, <1>2 DEF NeuteredInv, PatchInv
<1> QED BY <1>3, <1>4 DEF NeuteredInv

NeuterPlaces == {"neuter", "analyze", "decrypt", "jump", "resume", "publish"}

\* What one that neuters knows.
LEMMA WhileNeutering ==
  ASSUME Types, NeuteredInv, NEW c \in Requests, invoked[c].at \in NeuterPlaces
  PROVE  /\ c \in Neutering /\ \A d \in Requests : invoked[d].at \in NeuterPlaces => d = c
         /\ neuter.state = 1 /\ invoked[c].thread \notin neuter.frozen
         /\ neuter.frozen # {} => invoked[c].at \notin {"neuter", "publish"}
         /\ invoked[c].at \in {"resume", "publish"} <=> neuter.result # "none"
         /\ \A d \in Requests : given[d] \notin {"ok", "error"}
<1>1. c \in Neutering
  BY DEF Neutering, NeuterPlaces
<1>2. \A d \in Requests : invoked[d].at \in NeuterPlaces => d = c
  BY <1>1 DEF NeuteredInv, NeuterInv, Neutering, NeuterPlaces
<1>3. neuter.state = 1 /\ invoked[c].thread \notin neuter.frozen
  BY <1>1 DEF NeuteredInv, NeuterInv
<1>4. neuter.frozen # {} => invoked[c].at \notin {"neuter", "publish"}
  BY <1>1 DEF NeuteredInv, NeuterInv
<1>5. invoked[c].at \in {"resume", "publish"} <=> neuter.result # "none"
  BY <1>1 DEF NeuteredInv, NeuterInv
<1>6. \A d \in Requests : given[d] \notin {"ok", "error"}
  <2>1. neuter.state # 2
    BY ONLY <1>3
  <2> QED BY <2>1 DEF NeuteredInv, NeuterInv
<1> QED BY <1>1, <1>2, <1>3, <1>4, <1>5, <1>6

\* The one that neuters goes on.
LEMMA NeuterMoves ==
  ASSUME Types, NeuteredInv, NEW c \in Requests,
         invoked[c].at \in NeuterPlaces, invoked'[c].at \in NeuterPlaces,
         invoked'[c].thread = invoked[c].thread,
         \A d \in Requests : d # c => invoked'[d] = invoked[d],
         given' = given, neuter'.state = neuter.state,
         invoked[c].thread \notin neuter'.frozen,
         neuter'.frozen # {} => invoked'[c].at \notin {"neuter", "publish"},
         invoked'[c].at \in {"resume", "publish"} <=> neuter'.result # "none"
  PROVE  NeuterInv' /\ \A d \in Neutering' : d = c
<1>1. /\ \A d \in Requests : invoked[d].at \in NeuterPlaces => d = c
      /\ neuter.state = 1 /\ \A d \in Requests : given[d] \notin {"ok", "error"}
  BY WhileNeutering
<1>2. \A d \in Requests : d \in Neutering' <=> d = c
  BY <1>1 DEF Neutering, NeuterPlaces
<1>3. Neutering' \subseteq Requests /\ Neutering' # {}
  BY <1>2 DEF Neutering
<1>4. \A d \in Neutering' : d = c
  BY <1>2, <1>3
<1>5. c \in Neutering'
  BY <1>2
<1>6. neuter'.state = 1
  BY <1>1
<1>7. ~(neuter'.state = 2)
  BY ONLY <1>6
<1> QED BY ONLY <1>1, <1>3, <1>4, <1>5, <1>6, <1>7, given' = given,
         invoked'[c].thread = invoked[c].thread,
         invoked[c].thread \notin neuter'.frozen,
         neuter'.frozen # {} => invoked'[c].at \notin {"neuter", "publish"},
         invoked'[c].at \in {"resume", "publish"} <=> neuter'.result # "none"
         DEF NeuterInv

\* The other threads are suspended, not its own.
LEMMA NeuterSuspend ==
  ASSUME Types, NeuteredInv, NEW c \in Requests, Suspend(c)
  PROVE  NeuteredInv'
<1>0. /\ invoked[c].at = "neuter" /\ invoked[c].at \in NeuterPlaces /\ given' = given
      /\ {"analyze", "publish"} \subseteq NeuterPlaces
  BY DEF Suspend, Running, NeuterPlaces, ghosts
<1>1. /\ c \in Neutering /\ neuter.state = 1 /\ invoked[c].thread \notin neuter.frozen /\ neuter.frozen = {}
      /\ neuter.result = "none"
  BY <1>0, WhileNeutering
<1>2. neuter.jumped = neuter.decrypted
  BY <1>0, <1>1 DEF NeuteredInv, PatchInv
<1>3. CASE CallbackAt(c, "analyze") /\ (UNCHANGED neuter
             \/ \E missed \in {{}} \cup {{a} : a \in Actors} :
                  neuter' = [neuter EXCEPT !.frozen = Actors \ ({invoked[c].thread} \cup missed)])
  <2>1. /\ neuter'.state = neuter.state /\ neuter'.result = neuter.result /\ neuter'.jumped = neuter.jumped
        /\ neuter'.decrypted = neuter.decrypted /\ invoked[c].thread \notin neuter'.frozen
    <3>1. CASE UNCHANGED neuter
      BY <1>1, <3>1
    <3>2. CASE \E missed \in {{}} \cup {{a} : a \in Actors} :
                  neuter' = [neuter EXCEPT !.frozen = Actors \ ({invoked[c].thread} \cup missed)]
      BY <3>2 DEF Types, NeuterType
    <3> QED BY <1>3, <3>1, <3>2
  <2>2. /\ invoked'[c].at = "analyze" /\ invoked'[c].thread = invoked[c].thread
        /\ \A d \in Requests : d # c => invoked'[d] = invoked[d]
    BY <1>3, CallbackMoves
  <2>3. NeuterInv' /\ \A d \in Neutering' : d = c
    BY <1>0, <1>1, <2>1, <2>2, NeuterMoves
  <2>4. PatchInv'
    <3>1. neuter'.result # "ok" /\ neuter'.state # 0
      <4>1. neuter'.state = 1 /\ neuter'.result = "none"
        BY <1>1, <2>1
      <4> QED BY ONLY <4>1
    <3> QED BY <1>2, <2>1, <2>2, <2>3, <3>1 DEF PatchInv
  <2> QED BY <2>3, <2>4 DEF NeuteredInv
<1>4. CASE CallbackAt(c, "publish") /\ neuter' = [neuter EXCEPT !.result = "error"]
  <2>1. /\ neuter'.state = neuter.state /\ neuter'.result = "error" /\ neuter'.jumped = neuter.jumped
        /\ neuter'.decrypted = neuter.decrypted /\ neuter'.frozen = neuter.frozen
    BY <1>4 DEF Types, NeuterType
  <2>2. /\ invoked'[c].at = "publish" /\ invoked'[c].thread = invoked[c].thread
        /\ \A d \in Requests : d # c => invoked'[d] = invoked[d]
    BY <1>4, CallbackMoves
  <2>3. NeuterInv' /\ \A d \in Neutering' : d = c
    BY <1>0, <1>1, <2>1, <2>2, NeuterMoves
  <2>4. PatchInv'
    <3>1. neuter'.state # 0
      <4>1. neuter'.state = 1
        BY <1>1, <2>1
      <4> QED BY ONLY <4>1
    <3> QED BY <1>2, <2>1, <2>2, <2>3, <3>1 DEF PatchInv
  <2> QED BY <2>3, <2>4 DEF NeuteredInv
<1> QED BY <1>3, <1>4 DEF Suspend

\* When no stub is seen any more none is left.
LEMMA NoneLeft ==
  ASSUME NeuterType, neuter.jumped = neuter.decrypted, Seen = {}
  PROVE  neuter.jumped = Stubs
<1> SUFFICES ASSUME Stubs \ neuter.jumped # {} PROVE FALSE
  BY DEF NeuterType
<1>1. PICK s \in Stubs \ neuter.jumped : HiddenIn[s] = s \/ HiddenIn[s] \notin Stubs \ neuter.jumped
  BY StubsAssumption
<1>2. HiddenIn[s] = s \/ HiddenIn[s] \in neuter.decrypted
  BY <1>1, StubsAssumption
<1>3. s \in Seen
  BY <1>1, <1>2 DEF Seen
<1> QED BY <1>3

\* A pass finds what is left to patch; finding nothing it is a success.
LEMMA NeuterAnalyze ==
  ASSUME Types, NeuteredInv, NEW c \in Requests, AnalysisFails(c) \/ Analyze(c)
  PROVE  NeuteredInv'
<1>0. /\ invoked[c].at = "analyze" /\ invoked[c].at \in NeuterPlaces /\ given' = given
      /\ {"decrypt", "resume"} \subseteq NeuterPlaces
  BY DEF AnalysisFails, Analyze, Running, NeuterPlaces, ghosts
<1>1. /\ c \in Neutering /\ neuter.state = 1 /\ invoked[c].thread \notin neuter.frozen
      /\ neuter.result = "none"
  BY <1>0, WhileNeutering
<1>2. neuter.jumped = neuter.decrypted
  BY <1>0, <1>1 DEF NeuteredInv, PatchInv
<1>3. PICK p, o, F : /\ CallbackAt(c, p) /\ neuter' = [neuter EXCEPT !.found = F, !.result = o]
                     /\ \/ p = "resume" /\ o = "error"
                        \/ p = "resume" /\ o = "ok" /\ Seen = {}
                        \/ p = "decrypt" /\ o = "none"
  <2>1. CASE AnalysisFails(c)
    <3>1. neuter' = [neuter EXCEPT !.found = neuter.found, !.result = "error"]
      BY <2>1 DEF AnalysisFails, Types, NeuterType
    <3> QED BY <2>1, <3>1 DEF AnalysisFails
  <2>2. CASE Analyze(c) /\ Seen = {}
    <3>1. neuter' = [neuter EXCEPT !.found = Seen, !.result = "ok"]
      BY <2>2 DEF Analyze
    <3> QED BY <2>2, <3>1 DEF Analyze
  <2>3. CASE Analyze(c) /\ Seen # {}
    <3>1. neuter' = [neuter EXCEPT !.found = Seen, !.result = "none"]
      BY <1>1, <2>3 DEF Analyze
    <3> QED BY <2>3, <3>1 DEF Analyze
  <2> QED BY <2>1, <2>2, <2>3
<1>4. /\ neuter'.state = neuter.state /\ neuter'.result = o /\ neuter'.jumped = neuter.jumped
      /\ neuter'.decrypted = neuter.decrypted /\ neuter'.frozen = neuter.frozen
  BY <1>3 DEF Types, NeuterType
<1>5. /\ invoked'[c].at = p /\ invoked'[c].thread = invoked[c].thread
      /\ \A d \in Requests : d # c => invoked'[d] = invoked[d]
  BY <1>3, CallbackMoves
<1>6. NeuterInv' /\ \A d \in Neutering' : d = c
  BY <1>0, <1>1, <1>3, <1>4, <1>5, NeuterMoves
<1>7. PatchInv'
  <2>1. neuter'.state # 0
    <3>1. neuter'.state = 1
      BY <1>1, <1>4
    <3> QED BY ONLY <3>1
  <2>2. neuter'.result = "ok" => neuter'.jumped = Stubs
    BY <1>2, <1>3, <1>4, NoneLeft DEF Types
  <2> QED BY <1>2, <1>3, <1>4, <1>5, <1>6, <2>1, <2>2 DEF PatchInv
<1> QED BY <1>6, <1>7 DEF NeuteredInv

\* The regions of a pass are written, wholly or not.
LEMMA NeuterDecrypt ==
  ASSUME Types, NeuteredInv, NEW c \in Requests, Decrypt(c)
  PROVE  NeuteredInv'
<1>0. /\ invoked[c].at = "decrypt" /\ invoked[c].at \in NeuterPlaces /\ given' = given
      /\ {"jump", "resume"} \subseteq NeuterPlaces
  BY DEF Decrypt, Running, NeuterPlaces, ghosts
<1>1. /\ c \in Neutering /\ neuter.state = 1 /\ invoked[c].thread \notin neuter.frozen
      /\ neuter.result = "none"
  BY <1>0, WhileNeutering
<1>2. neuter.jumped = neuter.decrypted
  BY <1>0, <1>1 DEF NeuteredInv, PatchInv
<1>3. PICK some \in SUBSET neuter.found :
          /\ neuter' = [neuter EXCEPT !.decrypted = @ \cup some,
                                      !.result = IF some = neuter.found THEN @ ELSE "error"]
          /\ CallbackAt(c, IF some = neuter.found THEN "jump" ELSE "resume")
  BY DEF Decrypt
<1>4. /\ neuter'.state = neuter.state /\ neuter'.result = (IF some = neuter.found THEN "none" ELSE "error")
      /\ neuter'.jumped = neuter.jumped /\ neuter'.found = neuter.found
      /\ neuter'.decrypted = neuter.decrypted \cup some /\ neuter'.frozen = neuter.frozen
  BY <1>1, <1>3 DEF Types, NeuterType
<1>5. /\ invoked'[c].at = (IF some = neuter.found THEN "jump" ELSE "resume")
      /\ invoked'[c].thread = invoked[c].thread
      /\ \A d \in Requests : d # c => invoked'[d] = invoked[d]
  BY <1>3, CallbackMoves
<1>6. NeuterInv' /\ \A d \in Neutering' : d = c
  BY <1>0, <1>1, <1>4, <1>5, NeuterMoves
<1>7. PatchInv'
  <2>1. neuter'.state # 0
    <3>1. neuter'.state = 1
      BY <1>1, <1>4
    <3> QED BY ONLY <3>1
  <2> QED BY <1>2, <1>4, <1>5, <1>6, <2>1 DEF PatchInv
<1> QED BY <1>6, <1>7 DEF NeuteredInv

\* The jumps of a pass are written, wholly or not.
LEMMA NeuterJump ==
  ASSUME Types, NeuteredInv, NEW c \in Requests, Jump(c)
  PROVE  NeuteredInv'
<1>0. /\ invoked[c].at = "jump" /\ invoked[c].at \in NeuterPlaces /\ given' = given
      /\ {"analyze", "resume"} \subseteq NeuterPlaces
  BY DEF Jump, Running, NeuterPlaces, ghosts
<1>1. /\ c \in Neutering /\ neuter.state = 1 /\ invoked[c].thread \notin neuter.frozen
      /\ neuter.result = "none"
  BY <1>0, WhileNeutering
<1>2. neuter.decrypted = neuter.jumped \cup neuter.found
  BY <1>0, <1>1 DEF NeuteredInv, PatchInv
<1>3. PICK some \in SUBSET neuter.found :
          /\ neuter' = [neuter EXCEPT !.jumped = @ \cup some,
                                      !.result = IF some = neuter.found THEN @ ELSE "error"]
          /\ CallbackAt(c, IF some = neuter.found THEN "analyze" ELSE "resume")
  BY DEF Jump
<1>4. /\ neuter'.state = neuter.state /\ neuter'.result = (IF some = neuter.found THEN "none" ELSE "error")
      /\ neuter'.jumped = neuter.jumped \cup some /\ neuter'.found = neuter.found
      /\ neuter'.decrypted = neuter.decrypted /\ neuter'.frozen = neuter.frozen
  BY <1>1, <1>3 DEF Types, NeuterType
<1>5. /\ invoked'[c].at = (IF some = neuter.found THEN "analyze" ELSE "resume")
      /\ invoked'[c].thread = invoked[c].thread
      /\ \A d \in Requests : d # c => invoked'[d] = invoked[d]
  BY <1>3, CallbackMoves
<1>6. NeuterInv' /\ \A d \in Neutering' : d = c
  BY <1>0, <1>1, <1>4, <1>5, NeuterMoves
<1>7. PatchInv'
  <2>1. neuter'.state # 0
    <3>1. neuter'.state = 1
      BY <1>1, <1>4
    <3> QED BY ONLY <3>1
  <2>2. neuter'.jumped \subseteq neuter'.decrypted
    BY <1>2, <1>4
  <2>3. some = neuter.found => neuter'.jumped = neuter'.decrypted
    BY <1>2, <1>4
  <2> QED BY <1>4, <1>5, <1>6, <2>1, <2>2, <2>3 DEF PatchInv
<1> QED BY <1>6, <1>7 DEF NeuteredInv

\* The threads are resumed before the result is published.
LEMMA NeuterResume ==
  ASSUME Types, NeuteredInv, NEW c \in Requests, ResumeOthers(c)
  PROVE  NeuteredInv'
<1>0. /\ invoked[c].at = "resume" /\ invoked[c].at \in NeuterPlaces /\ given' = given
      /\ "publish" \in NeuterPlaces
      /\ CallbackAt(c, "publish") /\ neuter' = [neuter EXCEPT !.frozen = {}]
  BY DEF ResumeOthers, Running, NeuterPlaces, ghosts
<1>1. c \in Neutering /\ neuter.state = 1 /\ neuter.result # "none"
  BY <1>0, WhileNeutering
<1>4. /\ neuter'.state = neuter.state /\ neuter'.result = neuter.result /\ neuter'.jumped = neuter.jumped
      /\ neuter'.decrypted = neuter.decrypted /\ neuter'.frozen = {}
  BY <1>0 DEF Types, NeuterType
<1>5. /\ invoked'[c].at = "publish" /\ invoked'[c].thread = invoked[c].thread
      /\ \A d \in Requests : d # c => invoked'[d] = invoked[d]
  BY <1>0, CallbackMoves
<1>6. NeuterInv' /\ \A d \in Neutering' : d = c
  BY <1>0, <1>1, <1>4, <1>5, NeuterMoves
<1>7. PatchInv'
  <2>1. neuter'.state # 0
    <3>1. neuter'.state = 1
      BY <1>1, <1>4
    <3> QED BY ONLY <3>1
  <2> QED BY <1>4, <1>5, <1>6, <2>1 DEF PatchInv, NeuteredInv
<1> QED BY <1>6, <1>7 DEF NeuteredInv

\* The result is published, and is what the one that neutered is told.
LEMMA NeuterPublish ==
  ASSUME Types, NeuteredInv, NEW c \in Requests, Publish(c)
  PROVE  NeuteredInv'
<1>0. /\ invoked[c].at = "publish" /\ invoked[c].at \in NeuterPlaces /\ CallbackAt(c, "body")
      /\ neuter' = [neuter EXCEPT !.state = 2] /\ given' = [given EXCEPT ![c] = neuter.result]
  BY DEF Publish, Running, NeuterPlaces, Reached
<1>1. /\ \A d \in Requests : invoked[d].at \in NeuterPlaces => d = c
      /\ c \in Neutering /\ neuter.state = 1 /\ neuter.result # "none" /\ neuter.frozen = {}
      /\ \A d \in Requests : given[d] \notin {"ok", "error"}
  BY <1>0, WhileNeutering
<1>2. /\ neuter'.state = 2 /\ neuter'.result = neuter.result /\ neuter'.jumped = neuter.jumped
      /\ neuter'.decrypted = neuter.decrypted /\ neuter'.frozen = {}
  BY <1>0, <1>1 DEF Types, NeuterType
<1>3. /\ invoked'[c].at = "body" /\ \A d \in Requests : d # c => invoked'[d] = invoked[d]
  BY <1>0, CallbackMoves
<1>4. Neutering' = {}
  BY <1>1, <1>3 DEF Neutering, NeuterPlaces
<1>5. \A d \in Requests : given'[d] \in {"ok", "error"} => given'[d] = neuter'.result
  BY <1>0, <1>1, <1>2 DEF Types, GhostType
<1>6. neuter'.state # 1 /\ neuter'.state # 0
  <2>1. neuter'.state = 2
    BY <1>2
  <2> QED BY ONLY <2>1
<1>7. NeuterInv'
  BY ONLY <1>1, <1>2, <1>4, <1>5, <1>6 DEF NeuterInv
<1>8. PatchInv'
  BY <1>2, <1>4, <1>6 DEF PatchInv, NeuteredInv
<1> QED BY <1>7, <1>8 DEF NeuteredInv

\* The first one that asks neuters.
LEMMA NeuterBegins ==
  ASSUME Types, NeuteredInv, NEW c \in Requests, invoked[c].at = "begun", CallbackAt(c, "neuter"),
         neuter.state = 0, neuter' = [neuter EXCEPT !.state = 1], given' = given
  PROVE  NeuteredInv'
<1>0. neuter.state # 1 /\ neuter.state # 2
  OBVIOUS
<1>1. /\ Neutering = {} /\ neuter.frozen = {} /\ neuter.result = "none"
      /\ \A d \in Requests : given[d] \notin {"ok", "error"}
  BY <1>0 DEF NeuteredInv, NeuterInv
<1>2. /\ neuter'.state = 1 /\ neuter'.result = neuter.result /\ neuter'.jumped = neuter.jumped
      /\ neuter'.decrypted = neuter.decrypted /\ neuter'.frozen = {}
  BY <1>1 DEF Types, NeuterType
<1>3. /\ invoked'[c].at = "neuter" /\ \A d \in Requests : d # c => invoked'[d] = invoked[d]
  BY CallbackMoves
<1>4. Neutering' = {c}
  BY <1>1, <1>3 DEF Neutering
<1>5. neuter'.state # 2 /\ neuter'.state # 0
  <2>1. neuter'.state = 1
    BY <1>2
  <2> QED BY ONLY <2>1
<1>6. neuter.jumped = {} /\ neuter.decrypted = {}
  BY DEF NeuteredInv, PatchInv
<1>7. NeuterInv'
  BY ONLY <1>1, <1>2, <1>3, <1>4, <1>5, given' = given DEF NeuterInv
<1>8. PatchInv'
  BY ONLY <1>1, <1>2, <1>3, <1>4, <1>5, <1>6 DEF PatchInv
<1> QED BY <1>7, <1>8 DEF NeuteredInv

\* Every step keeps what is known of the neutering.
LEMMA NeuterNext ==
  ASSUME Types, CalledInv, QueueRan, NeuteredInv, ArxanNext
  PROVE  NeuteredInv'
<1>1. ASSUME NEW c \in Requests, CallStep(c) PROVE NeuteredInv'
  <2>1. CASE CallPasses(c) \/ CallQueued(c)
    BY <2>1, NeuterStays DEF CallPasses, CallQueued
  <2>2. CASE CallInvokes(c)
    <3>1. invoked[c].at = "none"
      BY <2>2 DEF CallInvokes, CalledInv, CalledAt, Undecided
    <3>2. \A d \in Requests : given'[d] \in {"ok", "error"} => given'[d] = given[d]
      BY <2>2 DEF CallInvokes, Reached, Types, GhostType
    <3>3. \A d \in Requests : d \in Neutering \/ d \in Neutering' => d # c
      BY <2>2, <3>1 DEF CallInvokes, Neutering
    <3> QED BY <2>2, <3>2, <3>3, NeuterStays DEF CallInvokes
  <2>3. CASE FlushFailed(c)
    BY <2>3, NeuterStays DEF FlushFailed, ghosts
  <2> QED BY <1>1, <2>1, <2>2, <2>3, CallSteps, CallsInvoke
<1>2. ASSUME NEW c \in Requests, CallbackStep(c) PROVE NeuteredInv'
  <2>1. CASE Begin(c) /\ c \in Neuters /\ invoked[c].detected
    <3>1. /\ invoked[c].at = "begun" /\ given' = given
          /\ neuter' = [neuter EXCEPT !.state = IF @ = 0 THEN 1 ELSE @]
          /\ CallbackAt(c, IF neuter.state = 0 THEN "neuter" ELSE "await")
      BY <2>1 DEF Begin, Running
    <3>2. CASE neuter.state = 0
      <4>1. neuter' = [neuter EXCEPT !.state = 1] /\ CallbackAt(c, "neuter")
        BY <3>1, <3>2
      <4> QED BY <3>1, <3>2, <4>1, NeuterBegins
    <3>3. CASE neuter.state # 0
      <4>1. neuter' = neuter /\ CallbackAt(c, "await")
        BY <3>1, <3>3 DEF Types, NeuterType
      <4>2. /\ invoked'[c].at = "await" /\ \A d \in Requests : d # c => invoked'[d] = invoked[d]
        BY <4>1, CallbackMoves
      <4>3. \A d \in Requests : d \in Neutering \/ d \in Neutering' => d # c
        BY <3>1, <4>2 DEF Neutering
      <4> QED BY <3>1, <4>1, <4>2, <4>3, NeuterStays
    <3> QED BY <3>2, <3>3
  <2>2. CASE (Begin(c) /\ ~(c \in Neuters /\ invoked[c].detected)) \/ Await(c)
    <3>1. /\ invoked[c].at \in {"begun", "await"} /\ neuter' = neuter /\ CallbackAt(c, "body")
          /\ \E told : given' = [given EXCEPT ![c] = told]
                       /\ (told \in {"ok", "error"} => neuter.state = 2 /\ told = neuter.result)
      BY <2>2 DEF Begin, Await, Running, Reached
    <3>2. /\ invoked'[c].at = "body" /\ \A d \in Requests : d # c => invoked'[d] = invoked[d]
      BY <3>1, CallbackMoves
    <3>3. \A d \in Requests : d \in Neutering \/ d \in Neutering' => d # c
      BY <3>1, <3>2 DEF Neutering
    <3>4. Neutering' = Neutering /\ \A d \in Neutering : invoked'[d] = invoked[d]
      BY <3>2, <3>3 DEF Neutering
    <3>5. \A d \in Requests : given'[d] \in {"ok", "error"} => neuter.state = 2 /\ given'[d] = neuter.result
      BY <3>1 DEF Types, GhostType, NeuteredInv, NeuterInv
    <3>6. NeuterInv'
      BY <3>1, <3>4, <3>5 DEF NeuteredInv, NeuterInv
    <3>7. PatchInv'
      BY <3>1, <3>4 DEF NeuteredInv, PatchInv
    <3> QED BY <3>6, <3>7 DEF NeuteredInv
  <2>3. CASE CallbackEnds(c)
    <3>1. \A d \in Requests : d \in Neutering \/ d \in Neutering' => d # c
      BY <2>3 DEF CallbackEnds, Neutering
    <3> QED BY <2>3, <3>1, NeuterStays DEF CallbackEnds
  <2> QED BY <1>2, <2>1, <2>2, <2>3, CallbackSteps, CallbacksEnd, NeuterSuspend, NeuterAnalyze,
         NeuterDecrypt, NeuterJump, NeuterResume, NeuterPublish DEF Amids
<1>3. ASSUME NEW a \in Actors, InvokeNext(a) PROVE NeuteredInv'
  <2>1. PICK b \in Requests : /\ invoked[b].at = "none" /\ invoked'[b].at = "begun"
                              /\ \A d \in Requests : d # b => invoked'[d] = invoked[d]
                              /\ UNCHANGED <<neuter, given>>
    BY <1>3, InvokesNext
  <2>2. \A d \in Requests : d \in Neutering \/ d \in Neutering' => d # b
    BY <2>1 DEF Neutering
  <2> QED BY <2>1, <2>2, NeuterStays
<1>4. CASE (\E a \in Actors : DrainMore(a)) \/ ImageStep
  <2>1. UNCHANGED <<neuter, given, invoked>>
    BY <1>4 DEF DrainMore, ImageStep, Resume, LeaveLoader, StubDetour, StubDrained, InitCookie,
       CookieDetour, EnterMain, WorkerFlush, WorkerEnds, ghosts
  <2> QED BY <2>1, NeuterStays
<1> QED BY <1>1, <1>2, <1>3, <1>4 DEF ArxanNext, ImageStep

(***************************************************************************)
(* The invariant, and what the specification promises.                     *)
(***************************************************************************)
ArxanInv == /\ Types /\ CalledInv /\ QueueRan /\ PlacesInv /\ DrainerInv /\ FrameInv
            /\ ExecutingInv /\ WaitInv /\ ComesInv /\ NeuteredInv

\* At first the queue is empty and no drain is on.
LEMMA InitialQueue == ASSUME ArxanInit, Types PROVE QueueRan
<1>0. /\ sched.queue = <<>> /\ sched.state = 0 /\ queued = <<>> /\ ran = <<>>
      /\ \A a \in Actors : drain[a] = NotDraining
      /\ \A c \in Requests : invoked[c].at = "none"
  BY DEF ArxanInit
<1>1. /\ \A a \in Actors : drain[a].batch = <<>> /\ ~drain[a].on
      /\ DOMAIN queued = {} /\ DOMAIN ran = {} /\ DOMAIN sched.queue = {}
      /\ Len(queued) = 0 /\ Len(sched.queue) = 0
      /\ \A a \in Actors : Len(drain[a].batch) = 0 /\ DOMAIN drain[a].batch = {}
  BY <1>0 DEF NotDraining
<1>2. ToSet(queued) = {} /\ ToSet(ran) = {}
  BY <1>1 DEF ToSet
<1>3. QueueInv
  <2>1. \A a \in Actors : Taken(a) = 0
    BY <1>1 DEF Taken
  <2> QED BY <1>1, <2>1 DEF QueueInv, IsInjective
<1>4. sched.state # 2 /\ sched.state # 3
  BY ONLY <1>0
<1>5. DrainInv
  BY <1>0, <1>1, <1>2, <1>4 DEF DrainInv, IsQueued
<1>6. RanInv
  BY <1>0, <1>1, <1>2 DEF RanInv, IsInjective
<1> QED BY <1>3, <1>5, <1>6 DEF QueueRan

\* At first nothing is prepared.
LEMMA InitialPlaces == ASSUME ArxanInit, Types PROVE PlacesInv
<1>0. /\ sched.state = 0 /\ worker = "none" /\ game.at = "early" /\ game.target = "original"
      /\ game.steam = world.steam /\ ~game.hooked /\ ~game.cookie
      /\ \A c \in Requests : call[c].at = "new"
  BY DEF ArxanInit
<1>1. game.steam # "patched" /\ ~SteamIsAhead
  BY <1>0 DEF Types, Worlds, SteamIsAhead
<1>2. PrepareInv
  BY <1>0 DEF PrepareInv, Prepares, Preparing
<1>3. UnscheduledInv /\ WorkerInv /\ DrainPlaceInv
  BY <1>0, <1>1 DEF UnscheduledInv, WorkerInv, DrainPlaceInv
<1>4. AheadInv
  BY <1>0, <1>1 DEF AheadInv
<1>5. GameInv /\ HookedInv
  BY <1>0 DEF GameInv, HookedInv
<1> QED BY <1>2, <1>3, <1>4, <1>5 DEF PlacesInv, PlaceInv

\* At first no thread is at anything.
LEMMA InitialThreads ==
  ASSUME ArxanInit, Types
  PROVE  CalledInv /\ DrainerInv /\ FrameInv /\ ExecutingInv /\ WaitInv /\ ComesInv
<1>0. /\ \A c \in Requests : /\ call[c].at = "new" /\ call[c].thread \in OtherThreads \cup {"main"}
                             /\ invoked[c].at = "none" /\ invoked[c].thread = "none"
                             /\ ~invoked[c].executing
      /\ \A a \in Actors : ~drain[a].on /\ ~drain[a].executing
      /\ queued = <<>>
  BY DEF ArxanInit, NotDraining
<1>1. ~drain["main"].on
  BY <1>0 DEF Actors
<1>2. \A c \in Requests : ~IsQueued(c)
  BY <1>0 DEF IsQueued, ToSet
<1>3. CalledInv
  BY <1>0, <1>2 DEF CalledInv, CalledAt, Undecided, Preparing
<1>4. DrainerInv
  BY <1>0 DEF DrainerInv
<1>5. FrameInv
  <2>1. OneFrameInv /\ ParentInv /\ NestedInv
    BY <1>0 DEF OneFrameInv, ParentInv, NestedInv, AtCall, Preparing, Busy, Idle, IsUnderway
  <2>2. LateInv /\ AwakeInv
    BY <1>0, <1>1 DEF LateInv, AwakeInv, IsUnderway
  <2> QED BY <2>1, <2>2 DEF FrameInv
<1>6. ExecutingInv
  BY <1>0 DEF ExecutingInv
<1>7. WaitInv
  BY <1>0 DEF WaitInv
<1>8. sched.state # 1
  <2>1. sched.state = 0
    BY DEF ArxanInit
  <2> QED BY ONLY <2>1
<1>9. ComesInv
  BY <1>8 DEF ComesInv
<1> QED BY <1>3, <1>4, <1>5, <1>6, <1>7, <1>9

\* At first nobody neuters and nothing is patched.
LEMMA InitialNeuter == ASSUME ArxanInit, Types PROVE NeuteredInv
<1>0. /\ neuter.state = 0 /\ neuter.result = "none" /\ neuter.frozen = {} /\ neuter.decrypted = {}
      /\ neuter.jumped = {} /\ \A c \in Requests : invoked[c].at = "none" /\ given[c] = "none"
  BY DEF ArxanInit
<1>1. Neutering = {}
  BY <1>0 DEF Neutering
<1>2. neuter.state # 1 /\ neuter.state # 2
  <2>1. neuter.state = 0
    BY <1>0
  <2> QED BY ONLY <2>1
<1>3. NeuterInv
  BY <1>0, <1>1, <1>2 DEF NeuterInv
<1>4. PatchInv
  BY <1>0, <1>1 DEF PatchInv
<1> QED BY <1>3, <1>4 DEF NeuteredInv

\* The invariant holds at first.
LEMMA ArxanInitial == ASSUME ArxanInit PROVE ArxanInv
BY TypesInit, InitialQueue, InitialPlaces, InitialThreads, InitialNeuter DEF ArxanInv

\* Every step keeps the types.
LEMMA TypesNext == ASSUME Types, CalledInv, ArxanNext PROVE Types'
<1>1. ASSUME NEW c \in Requests, CallStep(c) PROVE Types'
  BY <1>1, CallTypes
<1>2. ASSUME NEW c \in Requests, CallbackStep(c) PROVE Types'
  BY <1>2, CallbackTypes
<1>3. ASSUME NEW a \in Actors, InvokeNext(a) \/ DrainMore(a) PROVE Types'
  BY <1>3, DrainTypes
<1>4. CASE ImageStep
  BY <1>4, GameTypes
<1> QED BY <1>1, <1>2, <1>3, <1>4 DEF ArxanNext, ImageStep

\* The invariant is about the variables alone.
LEMMA ArxanStutters == ASSUME ArxanInv, UNCHANGED arxanVars PROVE ArxanInv'
<1>0. UNCHANGED <<world, game, sched, worker, call, invoked, drain, neuter, queued, ran, given>>
  BY DEF arxanVars
<1>1. Types'
  BY <1>0 DEF ArxanInv, Types, GameType, SchedType, WorkerType, CallType, InvokedType, DrainType,
             NeuterType, GhostType
<1>2. CalledInv'
  BY <1>0 DEF ArxanInv, CalledInv, CalledAt, IsQueued
<1>3. QueueRan'
  BY <1>0, QueueRanStays DEF ArxanInv
<1>4. PlacesInv'
  BY <1>0, PlacesAside DEF ArxanInv, Aside
<1>5. DrainerInv'
  BY <1>0 DEF ArxanInv, DrainerInv
<1>6. FrameInv'
  <2>1. \A d \in Requests : (IsUnderway(d)' <=> IsUnderway(d)) /\ (Busy(d)' <=> Busy(d))
    BY <1>0 DEF IsUnderway, Busy
  <2> QED BY <1>0, <2>1, FrameStays DEF ArxanInv, FrameKept
<1>7. ExecutingInv'
  BY <1>0, ExecutingStays DEF ArxanInv
<1>8. WaitInv'
  BY <1>0 DEF ArxanInv, WaitInv
<1>9. ComesInv'
  BY <1>0 DEF ArxanInv, ComesInv, Prepares, SteamIsAhead
<1>10. NeuteredInv'
  BY <1>0, NeuterStays DEF ArxanInv
<1> QED BY <1>1, <1>2, <1>3, <1>4, <1>5, <1>6, <1>7, <1>8, <1>9, <1>10 DEF ArxanInv

\* The invariant holds in every state of the specification.
THEOREM ArxanInvariant == ArxanSpec => []ArxanInv
<1>1. ArxanInit => ArxanInv
  BY ArxanInitial
<1>2. ArxanInv /\ [ArxanNext]_arxanVars => ArxanInv'
  <2> SUFFICES ASSUME ArxanInv, [ArxanNext]_arxanVars PROVE ArxanInv'
    OBVIOUS
  <2>0. /\ Types /\ CalledInv /\ QueueRan /\ PlacesInv /\ PrepareInv /\ PlaceInv /\ DrainerInv
        /\ FrameInv /\ ExecutingInv /\ WaitInv /\ ComesInv /\ NeuteredInv
    BY DEF ArxanInv, PlacesInv
  <2>1. CASE ArxanNext
    <3>1. Types' /\ CalledInv' /\ QueueRan' /\ PlacesInv'
      BY <2>0, <2>1, TypesNext, CalledNext, QueueRanNext, PlacesNext
    <3>2. DrainerInv' /\ FrameInv' /\ ExecutingInv'
      BY <2>0, <2>1, DrainerNext, FrameNext, ExecutingNext
    <3>3. WaitInv' /\ ComesInv' /\ NeuteredInv'
      BY <2>0, <2>1, WaitNext, ComesNext, NeuterNext
    <3> QED BY <3>1, <3>2, <3>3 DEF ArxanInv
  <2>2. CASE UNCHANGED arxanVars
    BY <2>2, ArxanStutters
  <2> QED BY <2>1, <2>2
<1> QED BY <1>1, <1>2, PTL DEF ArxanSpec

\* A set whose members are all the same has at most one.
LEMMA AtMostOne ==
  ASSUME NEW S, \A x, y \in S : x = y
  PROVE  Cardinality(S) <= 1
<1>1. CASE S = {}
  BY <1>1, FS_EmptySet
<1>2. CASE S # {}
  <2>1. PICK x : x \in S
    BY <1>2
  <2>2. S = {x}
    BY <2>1
  <2>3. Cardinality(S) = 1
    BY <2>2, FS_Singleton
  <2> QED BY <2>3
<1> QED BY <1>1, <1>2

\* The types are those the run checks.
LEMMA TypeOK == ASSUME ArxanInv PROVE ArxanTypeOK
<1> USE DEF ArxanInv, Types
<1>1. sched.state \in 0..3 /\ sched.queue \in Seq(Requests)
  BY DEF SchedType
<1>2. ToSet(sched.queue) \subseteq Requests
  BY <1>1 DEF ToSet
<1>3. game.at \in GamePlaces /\ game.steam \in {"absent", "present", "patched", "broken"}
  BY DEF GameType
<1>4. \A c \in Requests : call[c].at \in CallPlaces /\ invoked[c].at \in CallbackPlaces
  BY DEF CallType, InvokedType
<1>5. neuter.frozen \subseteq Actors /\ neuter.state \in 0..2
  BY DEF NeuterType
<1> QED BY <1>1, <1>2, <1>3, <1>4, <1>5 DEF ArxanTypeOK, GamePlaces

\* When the drain is complete the queue is empty: what it held has not been called, and all
\* that was queued has.
LEMMA InOrder == ASSUME ArxanInv PROVE QueuedCallbacksRunInOrder
<1>0. Types /\ QueueInv /\ DrainInv /\ RanInv /\ QueueRan
  BY DEF ArxanInv, QueueRan
<1>1. Cardinality({a \in Actors : drain[a].on}) <= 1
  BY <1>0, AtMostOne DEF DrainInv
<1>2. ASSUME sched.state = 3 PROVE sched.queue = <<>> /\ \A c \in ToSet(queued) : invoked[c].at = "over"
  <2>1. /\ Len(queued) \in Nat /\ DOMAIN queued = 1..Len(queued)
        /\ Len(sched.queue) \in Nat /\ queued \in Seq(Requests) /\ sched.queue \in Seq(Requests)
    BY <1>0, Counts DEF Types, GhostType, SchedType
  <2>2. ToSet(queued) \subseteq Requests
    BY <2>1 DEF ToSet
  <2>3. \A c \in ToSet(queued) : invoked[c].at = "over"
    BY <1>0, <1>2, <2>2 DEF DrainInv, IsQueued
  <2>4. sched.state # 2
    BY ONLY <1>2
  <2>5. ~drain["main"].on /\ "main" \in Actors
    BY <1>0, <2>4 DEF DrainInv, Actors
  <2>6. Taken("main") = Len(queued) - Len(sched.queue)
    BY <1>0, <2>5, NoBatch
  <2>7. Len(sched.queue) <= Len(queued)
    BY <1>0 DEF QueueInv
  <2>8. Len(sched.queue) = 0
    <3> DEFINE n == Len(queued)
               q == Len(sched.queue)
               t == Taken("main")
    <3> HIDE DEF n, q, t
    <3> SUFFICES ASSUME q # 0 PROVE FALSE
      BY DEF q
    <3>1. n \in Nat /\ q \in Nat /\ t = n - q /\ q <= n
      BY <2>1, <2>6, <2>7 DEF n, q, t
    <3>2. n \in 1..n /\ n > t
      BY <3>1
    <3>3. n \in DOMAIN queued
      BY <2>1, <3>2 DEF n
    <3>4. invoked[queued[n]].at = "none"
      BY <1>0, <2>5, <3>2, <3>3 DEF QueueInv, t
    <3>5. queued[n] \in ToSet(queued)
      BY <3>3 DEF ToSet
    <3> QED BY <2>3, <3>4, <3>5
  <2> QED BY <2>1, <2>3, <2>8
<1> QED BY <1>0, <1>1, <1>2 DEF QueuedCallbacksRunInOrder, RanInv

\* A hooked main thread begins main after the drain.
LEMMA PrecedeMain == ASSUME ArxanInv PROVE CallbacksPrecedeMain
<1>1. world.mainFound /\ game.hooked /\ game.at = "main" => sched.state = 3
  BY DEF ArxanInv, PlacesInv, PlaceInv, HookedInv
<1>2. \A c \in Requests : invoked[c].executing /\ invoked[c].at # "over" =>
        invoked[c].thread = "main" /\ game.at \in {"stub drain", "drain"}
  BY DEF ArxanInv, ExecutingInv, Actors
<1> QED BY <1>1, <1>2 DEF CallbacksPrecedeMain

\* Who waits was queued, so a drain is on or will be, and it is not the waiter's.
LEMMA WaitersServed == ASSUME ArxanInv PROVE WaitersAreServed
<1>1. ASSUME world.mainFound, world.cookieFound,
             NEW c \in Requests, call[c].at = "waiting", sched.state # 3
      PROVE  DrainIsComing /\ ~drain[call[c].thread].on
  <2>0. Types /\ DrainInv /\ CalledInv /\ WaitInv /\ ComesInv
    BY DEF ArxanInv, QueueRan
  <2>1. ~drain[call[c].thread].on
    BY <1>1, <2>0 DEF WaitInv
  <2>2. ~MainWaits
    BY <1>1, <2>0 DEF WaitInv, MainWaits
  <2>3. sched.state # 0
    <3>1. IsQueued(c)
      BY <1>1, <2>0 DEF CalledInv, CalledAt
    <3>2. queued # <<>>
      BY <3>1 DEF IsQueued, ToSet
    <3> QED BY <2>0, <3>2 DEF DrainInv
  <2>4. sched.state \in 0..3
    BY <2>0 DEF Types, SchedType
  <2>5. sched.state = 1 \/ sched.state = 2
    BY ONLY <2>3, <2>4, <1>1
  <2>6. CASE sched.state = 2
    BY <2>0, <2>1, <2>6 DEF DrainInv, DrainIsComing
  <2>7. CASE sched.state = 1
    <3>1. \/ Prepares \/ worker = "waiting"
          \/ game.target = "detour" /\ game.at \in {"early", "stub", "entry"}
          \/ game.steam = "patched" /\ game.at \in {"early", "stub"}
          \/ game.at = "cookie"
      BY <1>1, <2>0, <2>7 DEF ComesInv, SteamIsAhead
    <3>2. DrainIsComing
      BY <2>2, <3>1 DEF DrainIsComing, Prepares, Preparing
    <3> QED BY <2>1, <3>2
  <2> QED BY <2>1, <2>5, <2>6, <2>7
<1> QED BY <1>1 DEF WaitersAreServed

\* The one that neuters runs, and suspends nobody for ever.
LEMMA OnceAndWhole == ASSUME ArxanInv PROVE NeuteredOnceAndWhole
<1>0. Types /\ NeuterInv /\ PatchInv /\ AwakeInv
  BY DEF ArxanInv, NeuteredInv, FrameInv
<1>1. Cardinality(Neutering) <= 1
  BY <1>0, AtMostOne DEF NeuterInv
<1>2. \A c \in Neutering : c \in Requests /\ Free(invoked[c].thread)
  BY <1>0 DEF NeuterInv, AwakeInv, Free, Neutering
<1>3. Neutering = {} => neuter.frozen = {}
  BY <1>0 DEF NeuterInv
<1>4. /\ \A c \in Requests :
           given[c] \in {"ok", "error"} => neuter.state = 2 /\ given[c] = neuter.result
      /\ neuter.result = "ok" => neuter.jumped = Stubs
      /\ neuter.jumped \subseteq neuter.decrypted
  BY <1>0 DEF NeuterInv, PatchInv
<1> QED BY <1>1, <1>2, <1>3, <1>4 DEF NeuteredOnceAndWhole

\* Callbacks scheduled behind Arxan's start-up code are called once each, in order, by one
\* drain, before the game's main where it can be hooked, and nobody waits for a drain that
\* does not come; Arxan is neutered once, as a whole or reported not to be (disabler.c,
\* entry_point.c, patch.c).
THEOREM SchedulingIsAlwaysSound == ArxanSpec => []SchedulingIsSound
<1>1. ArxanInv => SchedulingIsSound
  BY TypeOK, InOrder, PrecedeMain, WaitersServed, OnceAndWhole DEF SchedulingIsSound
<1> QED BY <1>1, ArxanInvariant, PTL

----------------------------------------------------------------------------
(* Startup: what always holds of its variables.                           *)

Phases == {"entry", "main", "runtime", "properties", "render", "data"}
\* What is registered for a phase; two of them must be for theirs.
Registrations == {"logo", "allocator", "cpu", "data hook", "properties", "regulation",
                  "allocator tables", "set offline", "dlls", "late dlls"}
Observers == {o \in [phase : Phases, what : Registrations] :
                /\ o.what = "properties" => o.phase = "runtime"
                /\ o.what = "set offline" => o.phase = "properties"}

\* A thread that is not at the observers of its phase, before or behind them.
Resting == {"idle", "advanced", "finished", "over"}
LoaderPlaces == {"attach", "inert", "hooks", "routing", "ime", "wwise", "adapter", "arxan",
                 "inline", "runtime dlls", "data dlls", "done"}

\* What the variables are.
DoingType ==
  /\ doing \in [Advancers -> Resting \cup {"next", "offline"} \cup Registrations]
  /\ \A a \in Advancers : doing[a] \in {"properties", "offline"} => a = "steam"
  /\ \A a \in Advancers : doing[a] = "set offline" => a = "init"
ImeType == ime \in [hook : BOOLEAN, bytes : {"original", "patched"}, pointer : BOOLEAN,
                    applied : BOOLEAN]
PropsType == props \in [setter : BOOLEAN, hook : {"none", "on", "off"}, reported : BOOLEAN,
                        seen : BOOLEAN, set : 0..1]
RegulationType == regulation \in [hooked : SUBSET (Writers \cup {"step"}), reported : BOOLEAN,
                                  slot : BOOLEAN, length : {0, 1}]
StageType ==
  /\ setting \in Settings /\ loader \in LoaderPlaces /\ reachedPhases \subseteq Phases
  /\ beforeMain \in {"none", "loaded", "failed"} /\ dlls \subseteq {"early", "dlls", "late dlls"}
  /\ steamState \in {0, 1, 2} /\ settingsWorker \in {"none", "running", "over"}
  /\ initAt \in [InitThreads -> {"before", "first", "after", "past"}]
  /\ unloading \in {"no", "adapter", "common", "done"}
StartupTypes ==
  StageType /\ observers \in Seq(Observers) /\ DoingType /\ ImeType /\ PropsType /\ RegulationType

\* Before the loader has hooked anything, nothing of the game reaches it.
Early == {"attach", "inert", "hooks", "routing", "ime", "wwise", "adapter"}
EarlyInv ==
  loader \in Early =>
    /\ \A a \in Advancers : doing[a] = "idle"
    /\ installed \cap {"steam", "render hook", "data hook", "assets"} = {}
    /\ beforeMain = "none" /\ dlls = {} /\ unloading = "no"
    /\ props.hook = "none" /\ ~props.reported /\ props.set = 0
    /\ settingsWorker = "none"
    /\ \A t \in InitThreads : initAt[t] \in {"before", "past"}
    /\ loader \in {"attach", "inert", "hooks"} => observers = <<>>
    /\ reachedPhases \subseteq {"entry"}

\* A phase is reached when it is advanced, and its observers were called when that is over.
PhaseInv ==
  unloading # "done" => \A a \in Advancers :
    /\ doing[a] # "idle" => PhaseOf[a] \in reachedPhases
    /\ PhaseOf[a] \in reachedPhases /\ doing[a] \in Resting => Mine(a) = {}

\* The early DLLs, and those that need them.
DllInv ==
  /\ unloading # "no" => dlls = {}
  /\ unloading # "done" /\ beforeMain = "loaded" => "main" \in reachedPhases
  /\ unloading = "no" /\ beforeMain = "loaded" => "early" \in dlls
  /\ LaterDllsNeedEarly

\* Where the assets are in, the consumers of the phase were called.
AssetsInv ==
  "assets" \in installed =>
    "runtime" \in reachedPhases /\ doing["steam"] \in {"idle", "advanced", "over"}
    /\ unloading # "done"

\* The observers that are to do one thing.
DoneFor(s, what) == {i \in DOMAIN s : s[i].what = what}
Named(what) == DoneFor(observers, what)

\* The strategy is only asked for where there is one.
CpuInv ==
  setting.cpu = 0 => /\ Named("cpu") = {} /\ settingsWorker # "running"
                     /\ \A a \in Advancers : doing[a] # "cpu"

\* The property is hooked, scheduled and set once.
Asking == Named("properties") # {}
Hooking == doing["steam"] \in {"properties", "offline"}
Scheduled == Named("set offline") # {}
BeingSet == doing["init"] = "set offline"
OfflineInv ==
  /\ \A i, j \in Named("properties") : i = j
  /\ \A i, j \in Named("set offline") : i = j
  /\ Asking => ~Hooking
  /\ Asking \/ Hooking => ~Scheduled /\ ~BeingSet /\ ~props.reported /\ props.set = 0
  /\ Scheduled => ~BeingSet
  /\ Scheduled \/ BeingSet => props.setter /\ props.set = 0
  /\ doing["steam"] = "offline" => props.setter
  /\ unloading # "done" /\ props.reported /\ props.set = 0 => Scheduled \/ BeingSet

\* The first thread in the initializer advances the phase.
FirstInv ==
  /\ \A t \in InitThreads : initAt[t] \in {"first", "after"} => props.seen
  /\ doing["init"] # "idle" <=> props.seen
  /\ \A t \in InitThreads : initAt[t] = "after" => doing["init"] = "advanced"

StartupInv ==
  /\ StartupTypes /\ EarlyInv /\ PhaseInv /\ DllInv /\ AssetsInv /\ CpuInv /\ OfflineInv
  /\ FirstInv /\ OfflineIsApplied /\ ImePatchIsRemembered

----------------------------------------------------------------------------
(* Sequences of observers, and what is left of one.                       *)

\* The first of some numbers is one of them, and none of them is before it.
LEMMA LeastOf ==
  ASSUME NEW S, S \subseteq Nat, S # {}
  PROVE  FirstOf(S) \in S /\ \A j \in S : FirstOf(S) <= j
<1>1. \E x \in S : \A y \in S : ~(<<y, x>> \in OpToRel(<, Nat))
  BY NatLessThanWellFounded, WFMin
<1>2. PICK x \in S : \A y \in S : ~(<<y, x>> \in OpToRel(<, Nat))
  BY <1>1
<1>3. \A y \in S : x <= y
  <2> SUFFICES ASSUME NEW y \in S PROVE x <= y
    OBVIOUS
  <2>1. ~(y < x)
    BY <1>2 DEF OpToRel
  <2> QED BY <2>1
<1> QED BY <1>3 DEF FirstOf

\* What is left of a sequence without one of its elements.
LEMMA Removed ==
  ASSUME NEW T, NEW s \in Seq(T), NEW i \in DOMAIN s
  PROVE  /\ RemoveAt(s, i) \in Seq(T)
         /\ DOMAIN RemoveAt(s, i) = 1..(Len(s) - 1)
         /\ \A k \in DOMAIN RemoveAt(s, i) :
               RemoveAt(s, i)[k] = IF k < i THEN s[k] ELSE s[k + 1]
<1>1. Len(s) \in Nat /\ DOMAIN s = 1..Len(s) /\ i \in 1..Len(s)
  OBVIOUS
<1>2. PICK l : l = SubSeq(s, 1, i - 1)
  OBVIOUS
<1>3. PICK r : r = SubSeq(s, i + 1, Len(s))
  OBVIOUS
<1>4. l \in Seq(T) /\ Len(l) = i - 1 /\ \A k \in 1..(i - 1) : l[k] = s[k]
  BY <1>1, <1>2
<1>5. r \in Seq(T) /\ Len(r) = Len(s) - i /\ \A k \in 1..(Len(s) - i) : r[k] = s[i + k]
  BY <1>1, <1>3
<1>6. RemoveAt(s, i) = l \o r
  BY <1>2, <1>3 DEF RemoveAt
<1>7. /\ l \o r \in Seq(T) /\ Len(l \o r) = Len(l) + Len(r)
      /\ \A k \in 1..(Len(l) + Len(r)) : (l \o r)[k] = IF k <= Len(l) THEN l[k] ELSE r[k - Len(l)]
  BY ONLY <1>4, <1>5, ConcatProperties
<1>9. Len(l \o r) = Len(s) - 1
  BY <1>1, <1>4, <1>5, <1>7
<1>10. DOMAIN (l \o r) = 1..(Len(s) - 1)
  BY <1>7, <1>9
<1>11. ASSUME NEW k \in DOMAIN (l \o r) PROVE (l \o r)[k] = IF k < i THEN s[k] ELSE s[k + 1]
  <2>0. k \in 1..(Len(s) - 1)
    BY <1>10, <1>11
  <2>1. CASE k < i
    BY <1>1, <1>4, <1>5, <1>7, <2>0, <2>1
  <2>2. CASE ~(k < i)
    <3>1. (l \o r)[k] = r[k - (i - 1)]
      BY <1>1, <1>4, <1>5, <1>7, <2>0, <2>2
    <3>2. k - (i - 1) \in 1..(Len(s) - i) /\ i + (k - (i - 1)) = k + 1
      BY <1>1, <2>0, <2>2
    <3>3. r[k - (i - 1)] = s[i + (k - (i - 1))]
      BY <1>5, <3>2
    <3> QED BY <2>2, <3>1, <3>2, <3>3
  <2> QED BY <2>1, <2>2
<1> QED BY <1>6, <1>7, <1>10, <1>11

\* There is one such element at most.
AtMostOneOf(S) == \A i, j \in S : i = j
\* Where a phase's observers are in the sequence.
Due(s, phase) == {i \in DOMAIN s : s[i].phase = phase}

\* Taking an observer out, what is left is what was there before or behind it.
LEMMA WithoutOne ==
  ASSUME NEW s \in Seq(Observers), NEW i \in DOMAIN s, NEW r, r = RemoveAt(s, i)
  PROVE  /\ r \in Seq(Observers)
         /\ \A w : DoneFor(s, w) = {} => DoneFor(r, w) = {}
         /\ \A p : Due(s, p) = {} => Due(r, p) = {}
         /\ \A w : AtMostOneOf(DoneFor(s, w)) => AtMostOneOf(DoneFor(r, w))
         /\ AtMostOneOf(DoneFor(s, s[i].what)) => DoneFor(r, s[i].what) = {}
         /\ \A w : DoneFor(s, w) # {} /\ w # s[i].what => DoneFor(r, w) # {}
<1>1. /\ r \in Seq(Observers) /\ Len(s) \in Nat /\ DOMAIN s = 1..Len(s) /\ i \in 1..Len(s)
      /\ DOMAIN r = 1..(Len(s) - 1)
      /\ \A k \in DOMAIN r : r[k] = IF k < i THEN s[k] ELSE s[k + 1]
  BY Removed
<1> DEFINE Back(k) == IF k < i THEN k ELSE k + 1
<1>2. ASSUME NEW k \in DOMAIN r
      PROVE  Back(k) \in DOMAIN s /\ Back(k) # i /\ r[k] = s[Back(k)]
  BY <1>1, <1>2
<1>3. \A k, l \in DOMAIN r : Back(k) = Back(l) => k = l
  BY <1>1
<1>4. ASSUME NEW k \in DOMAIN s, k # i PROVE \E l \in DOMAIN r : Back(l) = k
  <2>1. CASE k < i
    BY <1>1, <1>4, <2>1
  <2>2. CASE ~(k < i)
    <3>1. k - 1 \in DOMAIN r /\ ~(k - 1 < i) /\ (k - 1) + 1 = k
      BY <1>1, <1>4, <2>2
    <3> QED BY <3>1
  <2> QED BY <2>1, <2>2
<1> HIDE DEF Back
<1>5. \A w : DoneFor(s, w) = {} => DoneFor(r, w) = {}
  BY <1>2 DEF DoneFor
<1>6. \A p : Due(s, p) = {} => Due(r, p) = {}
  BY <1>2 DEF Due
<1>7. \A w : AtMostOneOf(DoneFor(s, w)) => AtMostOneOf(DoneFor(r, w))
  BY <1>2, <1>3 DEF DoneFor, AtMostOneOf
<1>8. AtMostOneOf(DoneFor(s, s[i].what)) => DoneFor(r, s[i].what) = {}
  BY <1>2 DEF DoneFor, AtMostOneOf
<1>9. ASSUME NEW w, DoneFor(s, w) # {}, w # s[i].what PROVE DoneFor(r, w) # {}
  <2>1. PICK k \in DOMAIN s : s[k].what = w
    BY <1>9 DEF DoneFor
  <2>2. PICK l \in DOMAIN r : Back(l) = k
    BY <1>4, <1>9, <2>1
  <2> QED BY <1>2, <2>1, <2>2 DEF DoneFor
<1> QED BY <1>1, <1>5, <1>6, <1>7, <1>8, <1>9

\* The observers of two sequences, one behind the other.
LEMMA Joined ==
  ASSUME NEW s \in Seq(Observers), NEW t \in Seq(Observers), NEW r, r = s \o t
  PROVE  /\ r \in Seq(Observers)
         /\ \A w : DoneFor(s, w) = {} /\ DoneFor(t, w) = {} => DoneFor(r, w) = {}
         /\ \A w : /\ AtMostOneOf(DoneFor(s, w)) /\ AtMostOneOf(DoneFor(t, w)) /\ (DoneFor(s, w) = {} \/ DoneFor(t, w) = {})
                   => AtMostOneOf(DoneFor(r, w))
<1>1. /\ r \in Seq(Observers) /\ Len(r) = Len(s) + Len(t) /\ Len(s) \in Nat /\ Len(t) \in Nat
      /\ \A k \in 1..(Len(s) + Len(t)) : r[k] = IF k <= Len(s) THEN s[k] ELSE t[k - Len(s)]
  BY ConcatProperties
<1>2. ASSUME NEW k \in DOMAIN r
      PROVE  IF k <= Len(s) THEN k \in DOMAIN s /\ r[k] = s[k]
                            ELSE k - Len(s) \in DOMAIN t /\ r[k] = t[k - Len(s)]
  <2>0. k \in 1..(Len(s) + Len(t)) /\ DOMAIN s = 1..Len(s) /\ DOMAIN t = 1..Len(t)
    BY <1>1, <1>2
  <2>1. CASE k <= Len(s)
    BY <1>1, <2>0, <2>1
  <2>2. CASE ~(k <= Len(s))
    BY <1>1, <2>0, <2>2
  <2> QED BY <2>1, <2>2
<1>3. \A w : DoneFor(s, w) = {} /\ DoneFor(t, w) = {} => DoneFor(r, w) = {}
  BY <1>2 DEF DoneFor
<1>4. ASSUME NEW w, AtMostOneOf(DoneFor(s, w)), AtMostOneOf(DoneFor(t, w)), DoneFor(s, w) = {} \/ DoneFor(t, w) = {},
             NEW k \in DoneFor(r, w), NEW l \in DoneFor(r, w)
      PROVE  k = l
  <2>1. k \in DOMAIN r /\ l \in DOMAIN r /\ r[k].what = w /\ r[l].what = w /\ k \in Int /\ l \in Int
    BY <1>1 DEF DoneFor
  <2>2. CASE DoneFor(s, w) = {}
    <3>1. ~(k <= Len(s)) /\ ~(l <= Len(s))
      BY <1>2, <2>1, <2>2 DEF DoneFor
    <3>2. k - Len(s) \in DoneFor(t, w) /\ l - Len(s) \in DoneFor(t, w)
      BY <1>2, <2>1, <3>1 DEF DoneFor
    <3>3. k - Len(s) = l - Len(s)
      BY <1>4, <3>2 DEF AtMostOneOf
    <3> QED BY <1>1, <2>1, <3>3
  <2>3. CASE DoneFor(t, w) = {}
    <3>1. k <= Len(s) /\ l <= Len(s)
      BY <1>2, <2>1, <2>3 DEF DoneFor
    <3>2. k \in DoneFor(s, w) /\ l \in DoneFor(s, w)
      BY <1>2, <2>1, <3>1 DEF DoneFor
    <3> QED BY <1>4, <3>2 DEF AtMostOneOf
  <2> QED BY <1>4, <2>2, <2>3
<1>5. \A w : /\ AtMostOneOf(DoneFor(s, w)) /\ AtMostOneOf(DoneFor(t, w)) /\ (DoneFor(s, w) = {} \/ DoneFor(t, w) = {})
             => AtMostOneOf(DoneFor(r, w))
  BY <1>4 DEF AtMostOneOf
<1> QED BY <1>1, <1>3, <1>5

\* The last of some observers.
LEMMA LastOnes ==
  ASSUME NEW s \in Seq(Observers), NEW from \in 1..(Len(s) + 1), NEW r, r = SubSeq(s, from, Len(s))
  PROVE  /\ r \in Seq(Observers)
         /\ \A w : DoneFor(s, w) = {} => DoneFor(r, w) = {}
         /\ \A w : AtMostOneOf(DoneFor(s, w)) => AtMostOneOf(DoneFor(r, w))
<1>1. /\ r \in Seq(Observers) /\ Len(s) \in Nat /\ DOMAIN s = 1..Len(s)
      /\ DOMAIN r = 1..(Len(s) - from + 1)
      /\ \A k \in DOMAIN r : r[k] = s[from + k - 1]
  OBVIOUS
<1>2. \A k \in DOMAIN r : from + k - 1 \in DOMAIN s
  BY <1>1
<1>3. \A k, l \in DOMAIN r : from + k - 1 = from + l - 1 => k = l
  BY <1>1
<1> DEFINE There(k) == from + k - 1
<1>4. /\ \A k \in DOMAIN r : There(k) \in DOMAIN s /\ r[k] = s[There(k)]
      /\ \A k, l \in DOMAIN r : There(k) = There(l) => k = l
  BY <1>1, <1>2, <1>3
<1> HIDE DEF There
<1>5. \A w : DoneFor(s, w) = {} => DoneFor(r, w) = {}
  BY <1>4 DEF DoneFor
<1>6. \A w : AtMostOneOf(DoneFor(s, w)) => AtMostOneOf(DoneFor(r, w))
  BY <1>4 DEF DoneFor, AtMostOneOf
<1>7. r \in Seq(Observers)
  BY <1>1
<1> QED BY ONLY <1>5, <1>6, <1>7

\* One of what is wanted, if it is.
LEMMA OneIf ==
  ASSUME NEW b \in BOOLEAN, NEW o \in Observers
  PROVE  /\ If(b, o.phase, o.what) \in Seq(Observers)
         /\ \A w : w # o.what \/ ~b => DoneFor(If(b, o.phase, o.what), w) = {}
         /\ \A w : AtMostOneOf(DoneFor(If(b, o.phase, o.what), w))
<1>0. o = [phase |-> o.phase, what |-> o.what]
  BY DEF Observers
<1>1. CASE b
  <2>1. If(b, o.phase, o.what) = <<o>>
    BY <1>0, <1>1 DEF If
  <2>2. <<o>> \in Seq(Observers) /\ DOMAIN <<o>> = {1} /\ <<o>>[1] = o
    OBVIOUS
  <2>3. DoneFor(<<o>>, o.what) = {1} /\ \A w : w # o.what => DoneFor(<<o>>, w) = {}
    BY <2>2 DEF DoneFor
  <2>4. \A w : AtMostOneOf(DoneFor(<<o>>, w))
    BY <2>2 DEF DoneFor, AtMostOneOf
  <2> HIDE DEF DoneFor
  <2> QED BY <1>1, <2>1, <2>2, <2>3, <2>4
<1>2. CASE ~b
  <2>1. If(b, o.phase, o.what) = <<>>
    BY <1>2 DEF If
  <2>2. <<>> \in Seq(Observers) /\ DOMAIN <<>> = {}
    OBVIOUS
  <2> QED BY <2>1, <2>2 DEF DoneFor, AtMostOneOf
<1> QED BY <1>1, <1>2

\* What gamehook_install registers asks for the property once, does not set it, and asks
\* for the CPU sets where there is a strategy.
LEMMA WantedObservers ==
  /\ Wanted \in Seq(Observers)
  /\ DoneFor(Wanted, "set offline") = {}
  /\ AtMostOneOf(DoneFor(Wanted, "properties"))
  /\ setting.cpu = 0 => DoneFor(Wanted, "cpu") = {}
<1> DEFINE Logo == If(Asked("logo"), "runtime", "logo")
           Memory == If(Asked("memory"), "main", "allocator")
           Cpu == If(setting.cpu # 0, "render", "cpu")
           Data == If(Asked("data ready"), "runtime", "data hook")
           Property == If(TRUE, "runtime", "properties")
           Kept == If(setting.regulation # "none", "runtime", "regulation")
           None(s) == s \in Seq(Observers) /\ DoneFor(s, "set offline") = {}
           Some(s) == None(s) /\ DoneFor(s, "properties") = {} /\ (setting.cpu = 0 => DoneFor(s, "cpu") = {})
<1>1. ASSUME NEW b \in BOOLEAN, NEW p, NEW w, [phase |-> p, what |-> w] \in Observers,
             w \notin {"set offline", "properties"}, w = "cpu" /\ setting.cpu = 0 => ~b
      PROVE  Some(If(b, p, w))
  BY <1>1, OneIf, [phase |-> p, what |-> w].phase = p, [phase |-> p, what |-> w].what = w
<1>2. \A p \in Phases : \A w \in Registrations \ {"set offline", "properties"} :
         [phase |-> p, what |-> w] \in Observers
  BY DEF Observers
<1>3. Some(Logo) /\ Some(Memory) /\ Some(Cpu) /\ Some(Data) /\ Some(Kept)
  <2>0. \A f : Asked(f) \in BOOLEAN
    BY DEF Asked
  <2>1. Some(Logo)
    BY <1>1, <1>2, <2>0 DEF Phases, Registrations
  <2>2. Some(Memory)
    BY <1>1, <1>2, <2>0 DEF Phases, Registrations
  <2>3. Some(Cpu)
    BY <1>1, <1>2 DEF Phases, Registrations
  <2>4. Some(Data)
    BY <1>1, <1>2, <2>0 DEF Phases, Registrations
  <2>5. Some(Kept)
    BY <1>1, <1>2 DEF Phases, Registrations
  <2> QED BY <2>1, <2>2, <2>3, <2>4, <2>5
<1>4. /\ None(Property) /\ AtMostOneOf(DoneFor(Property, "properties"))
      /\ DoneFor(Property, "cpu") = {}
  <2>1. [phase |-> "runtime", what |-> "properties"] \in Observers
    BY DEF Observers, Phases, Registrations
  <2> QED BY <2>1, OneIf, [phase |-> "runtime", what |-> "properties"].phase = "runtime",
             [phase |-> "runtime", what |-> "properties"].what = "properties"
<1>5. ASSUME NEW s, NEW t, Some(s), Some(t) PROVE Some(s \o t)
  BY <1>5, Joined
<1> DEFINE Ahead == Logo \o Memory \o Cpu \o Data
<1> HIDE DEF Logo, Memory, Cpu, Data, Property, Kept
<1>6. Some(Logo \o Memory)
  BY <1>3, <1>5
<1>7. Some((Logo \o Memory) \o Cpu)
  BY <1>3, <1>5, <1>6
<1>8. Some(Ahead)
  BY <1>3, <1>5, <1>7
<1>9. Wanted = (Ahead \o Property) \o Kept
  BY DEF Wanted, Logo, Memory, Cpu, Data, Property, Kept
<1> HIDE DEF Ahead
<1>10. /\ None(Ahead \o Property) /\ AtMostOneOf(DoneFor(Ahead \o Property, "properties"))
       /\ setting.cpu = 0 => DoneFor(Ahead \o Property, "cpu") = {}
  <2>1. AtMostOneOf(DoneFor(Ahead, "properties"))
    BY <1>8 DEF AtMostOneOf
  <2> QED BY <1>4, <1>8, <2>1, Joined
<1>11. AtMostOneOf(DoneFor(Kept, "properties"))
  BY <1>3 DEF AtMostOneOf
<1> QED BY <1>3, <1>9, <1>10, <1>11, Joined

----------------------------------------------------------------------------
(* What each kind of step may change.                                     *)

\* The threads that advance a phase, and each thread's phase.
LEMMA AdvancerPhases ==
  /\ Advancers = {"before", "steam", "init", "render", "data"}
  /\ PhaseOf["before"] = "main" /\ PhaseOf["steam"] = "runtime" /\ PhaseOf["init"] = "properties"
  /\ PhaseOf["render"] = "render" /\ PhaseOf["data"] = "data"
BY DEF Advancers, PhaseOf

\* Two threads do not advance one phase.
LEMMA OnePhaseEach == \A a, b \in Advancers : PhaseOf[a] = PhaseOf[b] => a = b
BY AdvancerPhases

\* Only the thread of a phase calls its observers.
LEMMA OwnObservers ==
  ASSUME NEW a \in Advancers, NEW o \in Observers, o.phase = PhaseOf[a]
  PROVE  /\ o.what = "properties" => a = "steam"
         /\ o.what = "set offline" => a = "init"
         /\ o.what \in Registrations
BY AdvancerPhases DEF Observers

\* A thread's observers are those of its phase.
LEMMA MineAreDue == \A a \in Advancers : Mine(a) = Due(observers, PhaseOf[a])
BY DEF Mine, Due

\* A registration, and a call of the next observer.
Adds(o) == /\ o \in Observers /\ o.phase \notin reachedPhases
           /\ observers' = Append(observers, o)
\* A thread calls one of its observers, which is then no longer registered.
Calls(a, i) == /\ i \in DOMAIN observers /\ observers[i] \in Observers
               /\ observers[i].phase = PhaseOf[a]
               /\ observers' = RemoveAt(observers, i)
               /\ doing' = [doing EXCEPT ![a] = observers[i].what]
               /\ UNCHANGED props

\* What a registration changes.
LEMMA AddsOne ==
  ASSUME observers \in Seq(Observers), NEW o \in Observers, Adds(o)
  PROVE  /\ observers' \in Seq(Observers)
         /\ \A w : w # o.what => DoneFor(observers', w) = DoneFor(observers, w)
         /\ \A p \in reachedPhases : Due(observers', p) = Due(observers, p)
         /\ DoneFor(observers', o.what) = DoneFor(observers, o.what) \cup {Len(observers) + 1}
<1>1. PICK s, r : s = observers /\ r = Append(s, o)
  OBVIOUS
<1>2. observers' = r /\ o.phase \notin reachedPhases
  BY <1>1 DEF Adds
<1>3. /\ r \in Seq(Observers) /\ Len(s) \in Nat /\ DOMAIN s = 1..Len(s)
      /\ DOMAIN r = 1..(Len(s) + 1)
      /\ \A k \in 1..Len(s) : r[k] = s[k]
      /\ r[Len(s) + 1] = o
  BY ONLY <1>1, observers \in Seq(Observers), o \in Observers
<1>4. DOMAIN r = DOMAIN s \cup {Len(s) + 1} /\ \A k \in DOMAIN s : r[k] = s[k]
  BY <1>3
<1>5. \A w : w # o.what => DoneFor(r, w) = DoneFor(s, w)
  BY ONLY <1>3, <1>4 DEF DoneFor
<1>6. ASSUME NEW p \in reachedPhases PROVE Due(r, p) = Due(s, p)
  <2>1. p # o.phase
    BY <1>2, <1>6
  <2> QED BY ONLY <2>1, <1>3, <1>4 DEF Due
<1>7. DoneFor(r, o.what) = DoneFor(s, o.what) \cup {Len(s) + 1}
  BY ONLY <1>3, <1>4 DEF DoneFor
<1> QED BY <1>1, <1>2, <1>3, <1>5, <1>6, <1>7

\* CallNext calls an observer, or finds none.
LEMMA Calling ==
  ASSUME observers \in Seq(Observers), NEW a \in Advancers, CallNext(a)
  PROVE  \/ Mine(a) = {} /\ observers' = observers /\ doing' = [doing EXCEPT ![a] = "advanced"]
         \/ \E i \in DOMAIN observers : Calls(a, i)
<1>1. CASE Mine(a) = {}
  BY <1>1 DEF CallNext, Goes
<1>2. CASE Mine(a) # {}
  <2>2. Mine(a) \subseteq Nat
    BY DEF Mine
  <2>3. PICK i : i = FirstOf(Mine(a))
    OBVIOUS
  <2>4. i \in Mine(a)
    BY <1>2, <2>2, <2>3, LeastOf
  <2>5. doing' = [doing EXCEPT ![a] = observers[i].what] /\ observers' = RemoveAt(observers, i)
        /\ UNCHANGED props
    BY <1>2, <2>3 DEF CallNext, Goes, partVars
  <2>6. observers[i] \in Observers /\ observers[i].phase = PhaseOf[a] /\ i \in DOMAIN observers
    BY <2>4 DEF Mine
  <2> QED BY <2>5, <2>6 DEF Calls
<1> QED BY <1>1, <1>2

\* What the steps at the observers leave alone.
ObserverFrame(a) ==
  /\ UNCHANGED <<setting, unloading, loader, reachedPhases, beforeMain, steamState, initAt, ime>>
  /\ doing[a] \notin Resting /\ \A b \in Advancers \ {a} : doing'[b] = doing[b]
  /\ \/ doing'[a] = "next"
     \/ doing'[a] = "offline" /\ HookProperties(a)
     \/ doing'[a] = "advanced" /\ Mine(a) = {} /\ UNCHANGED <<observers, props>>
     \/ \E i \in DOMAIN observers : Calls(a, i)
  /\ \/ UNCHANGED observers
     \/ \E o \in Observers : Adds(o) /\ doing'[a] = "next" /\ (o.what \in {"allocator tables", "set offline"})
     \/ \E i \in DOMAIN observers : Calls(a, i)
  /\ "assets" \in installed' => "assets" \in installed
  /\ \/ UNCHANGED props
     \/ HookProperties(a) \/ ScheduleOffline(a) \/ SetOffline(a)
  /\ doing' \in [Advancers -> Resting \cup {"next", "offline"} \cup Registrations]
  /\ dlls' = dlls \/ (beforeMain = "loaded" /\ \E w \in {"dlls", "late dlls"} : dlls' = dlls \cup {w})
  /\ settingsWorker' = settingsWorker \/ doing[a] = "cpu"

\* Every step of an observer is within its frame.
LEMMA ObserverFrames ==
  ASSUME StartupTypes, NEW a \in Advancers, ObserverStep(a)
  PROVE  ObserverFrame(a)
<1>0. observers \in Seq(Observers) /\ DoingType
  BY DEF StartupTypes
<1>1. CASE CallNext(a)
  <2>1. /\ UNCHANGED <<setting, unloading, loader, reachedPhases, beforeMain, steamState, initAt, ime, props,
                       installed, dlls, settingsWorker>>
        /\ doing[a] = "next"
    BY <1>1 DEF CallNext, loaderVars, dllVars, partVars
  <2>2. CASE Mine(a) = {} /\ observers' = observers /\ doing' = [doing EXCEPT ![a] = "advanced"]
    BY <1>0, <2>1, <2>2 DEF ObserverFrame, DoingType, Resting
  <2>3. ASSUME NEW i \in DOMAIN observers, Calls(a, i) PROVE ObserverFrame(a)
    <3>1. observers[i].what \in Registrations
      BY <2>3, OwnObservers DEF Calls
    <3>2. /\ doing' = [doing EXCEPT ![a] = observers[i].what]
      BY <2>3 DEF Calls
    <3>3. /\ doing' \in [Advancers -> Resting \cup {"next", "offline"} \cup Registrations]
          /\ \A b \in Advancers \ {a} : doing'[b] = doing[b]
      BY <1>0, <3>1, <3>2 DEF DoingType
    <3> QED BY <2>1, <2>3, <3>3 DEF ObserverFrame, Resting
  <2> QED BY <1>0, <1>1, <2>2, <2>3, Calling
<1>2. ASSUME doing' = [doing EXCEPT ![a] = "next"]
      PROVE  /\ doing' \in [Advancers -> Resting \cup {"next", "offline"} \cup Registrations]
             /\ doing'[a] = "next" /\ \A b \in Advancers \ {a} : doing'[b] = doing[b]
  BY <1>0, <1>2 DEF DoingType
<1>3. ASSUME NEW what \in {"logo", "data hook", "allocator tables"}, InstallFeature(a, what)
      PROVE  ObserverFrame(a)
  <2>1. /\ UNCHANGED <<setting, unloading, loader, reachedPhases, beforeMain, steamState, initAt, ime, props,
                       observers, dlls, settingsWorker>>
        /\ doing[a] = what /\ doing' = [doing EXCEPT ![a] = "next"]
        /\ "assets" \in installed' => "assets" \in installed
    BY <1>3 DEF InstallFeature, Goes, dllVars, partVars
  <2> QED BY <1>2, <2>1 DEF ObserverFrame, Resting
<1>4. CASE InstallAllocator(a)
  <2>1. /\ UNCHANGED <<setting, unloading, loader, reachedPhases, beforeMain, steamState, initAt, ime, props,
                       dlls, settingsWorker>>
        /\ doing[a] = "allocator" /\ doing' = [doing EXCEPT ![a] = "next"]
        /\ "assets" \in installed' => "assets" \in installed
        /\ Registers("runtime", "allocator tables") \/ UNCHANGED observers
    BY <1>4 DEF InstallAllocator, Goes, Refused, loaderVars, dllVars, partVars
  <2>2. PICK o : o = [phase |-> "runtime", what |-> "allocator tables"]
    OBVIOUS
  <2>3. o \in Observers /\ o.what = "allocator tables"
    BY <2>2 DEF Observers, Phases, Registrations
  <2>4. UNCHANGED observers \/ Adds(o)
    BY <2>1, <2>2, <2>3 DEF Registers, Adds
  <2> QED BY <1>2, <2>1, <2>3, <2>4 DEF ObserverFrame, Resting
<1>5. CASE StartSettingsWorker(a)
  <2>1. /\ UNCHANGED <<setting, unloading, loader, reachedPhases, beforeMain, steamState, initAt, ime, props,
                       observers, dlls, installed>>
        /\ doing[a] = "cpu" /\ doing' = [doing EXCEPT ![a] = "next"]
    BY <1>5 DEF StartSettingsWorker, Goes, dllVars, loaderVars
  <2> QED BY <1>2, <2>1 DEF ObserverFrame, Resting
<1>6. CASE InstallRegulation(a)
  <2>1. /\ UNCHANGED <<setting, unloading, loader, reachedPhases, beforeMain, steamState, initAt, ime, props,
                       observers, dlls, settingsWorker, installed>>
        /\ doing[a] = "regulation" /\ doing' = [doing EXCEPT ![a] = "next"]
    BY <1>6 DEF InstallRegulation, Goes, dllVars, loaderVars
  <2> QED BY <1>2, <2>1 DEF ObserverFrame, Resting
<1>7. CASE HookProperties(a)
  <2>1. /\ UNCHANGED <<setting, unloading, loader, reachedPhases, beforeMain, steamState, initAt, ime,
                       observers, dlls, settingsWorker, installed>>
        /\ doing[a] = "properties"
        /\ doing' = [doing EXCEPT ![a] = "next"] \/ doing' = [doing EXCEPT ![a] = "offline"]
    BY <1>7 DEF HookProperties, Goes, dllVars, loaderVars
  <2>2. CASE doing' = [doing EXCEPT ![a] = "next"]
    BY <1>2, <1>7, <2>1, <2>2 DEF ObserverFrame, Resting
  <2>3. CASE doing' = [doing EXCEPT ![a] = "offline"]
    BY <1>0, <1>7, <2>1, <2>3 DEF ObserverFrame, Resting, DoingType
  <2> QED BY <2>1, <2>2, <2>3
<1>8. CASE ScheduleOffline(a)
  <2>1. /\ UNCHANGED <<setting, unloading, loader, reachedPhases, beforeMain, steamState, initAt, ime,
                       dlls, settingsWorker, installed>>
        /\ doing[a] = "offline" /\ doing' = [doing EXCEPT ![a] = "next"]
        /\ Registers("properties", "set offline") \/ UNCHANGED observers
    BY <1>8 DEF ScheduleOffline, Goes, Refused, loaderVars, dllVars
  <2>2. PICK o : o = [phase |-> "properties", what |-> "set offline"]
    OBVIOUS
  <2>3. o \in Observers /\ o.what = "set offline"
    BY <2>2 DEF Observers, Phases, Registrations
  <2>4. UNCHANGED observers \/ Adds(o)
    BY <2>1, <2>2, <2>3 DEF Registers, Adds
  <2> QED BY <1>2, <1>8, <2>1, <2>3, <2>4 DEF ObserverFrame, Resting
<1>9. CASE SetOffline(a)
  <2>1. /\ UNCHANGED <<setting, unloading, loader, reachedPhases, beforeMain, steamState, initAt, ime,
                       observers, dlls, settingsWorker, installed>>
        /\ doing[a] = "set offline" /\ doing' = [doing EXCEPT ![a] = "next"]
    BY <1>9 DEF SetOffline, Goes, dllVars, loaderVars
  <2> QED BY <1>2, <1>9, <2>1 DEF ObserverFrame, Resting
<1>10. ASSUME NEW what \in {"dlls", "late dlls"}, LoadDlls(a, what)
       PROVE  ObserverFrame(a)
  <2>1. /\ UNCHANGED <<setting, unloading, loader, reachedPhases, beforeMain, steamState, initAt, ime, props,
                       observers, settingsWorker, installed>>
        /\ doing[a] = what /\ doing' = [doing EXCEPT ![a] = "next"]
        /\ dlls' = dlls \/ (beforeMain = "loaded" /\ dlls' = dlls \cup {what})
    BY <1>10 DEF LoadDlls, Goes, partVars, loaderVars
  <2> QED BY <1>2, <2>1 DEF ObserverFrame, Resting
<1> QED BY <1>1, <1>3, <1>4, <1>5, <1>6, <1>7, <1>8, <1>9, <1>10 DEF ObserverStep

\* What the steps of modloader_init leave alone.
Hooks == {"steam", "render hook", "data hook", "assets"}
\* Places of the loader before anything is registered.
Unhooked == {"attach", "inert", "hooks"}
\* What gamehook_install registers.
Schedules == /\ loader = "hooks" /\ loader' \notin Unhooked
             /\ \E from \in 1..(Len(Wanted) + 1) : observers' = SubSeq(Wanted, from, Len(Wanted))
\* What the loader's own steps may change.
LoaderFrame ==
  /\ UNCHANGED <<setting, doing, dlls, beforeMain, steamState, settingsWorker, props, initAt,
                 regulation, unloading>>
  /\ loader' \in LoaderPlaces /\ (loader \notin Early => loader' \notin Early)
  /\ loader' \in Unhooked => loader \in Unhooked
  /\ "assets" \in installed' => "assets" \in installed
  /\ loader' \in Early => installed' \cap Hooks \subseteq installed
  /\ reachedPhases' = reachedPhases \/ (loader = "attach" /\ reachedPhases' = {"entry"})
  /\ \/ UNCHANGED observers
     \/ Schedules
     \/ \E o \in Observers : Adds(o) /\ o.what \in {"dlls", "late dlls"} /\ loader \notin Early
  /\ UNCHANGED ime \/ InstallIme

\* Every step of the loader is within its frame.
LEMMA LoaderFrames == ASSUME LoaderStep PROVE LoaderFrame
<1> USE DEF LoaderFrame, LoaderPlaces, Early, Unhooked, Hooks
<1>1. CASE Attach
  BY <1>1 DEF Attach, loaderVars, partVars, dllVars
<1>2. CASE Schedule
  BY <1>2 DEF Schedule, loaderVars, partVars, dllVars, Schedules
<1>3. CASE InstallRouting
  BY <1>3 DEF InstallRouting, loaderVars, phaseVars, dllVars
<1>4. CASE InstallIme
  <2>1. /\ UNCHANGED <<setting, doing, dlls, beforeMain, steamState, settingsWorker, props, initAt,
                       regulation, unloading, observers, installed, reachedPhases>>
        /\ loader = "ime" /\ loader' = "wwise"
    BY <1>4 DEF InstallIme, loaderVars, phaseVars, dllVars
  <2> QED BY <1>4, <2>1
<1>5. CASE InstallWwise
  BY <1>5 DEF InstallWwise, WwiseHook, loaderVars, phaseVars, dllVars, partVars
<1>6. CASE InstallAdapter
  BY <1>6 DEF InstallAdapter, loaderVars, phaseVars, dllVars, partVars
<1>7. CASE ScheduleBeforeMain
  BY <1>7 DEF ScheduleBeforeMain, phaseVars, dllVars, partVars
<1>8. CASE InlineReturns
  BY <1>8 DEF InlineReturns, loaderVars, phaseVars, dllVars, partVars
<1>9. ASSUME NEW phase \in {"runtime", "data"}, NEW what \in {"dlls", "late dlls"},
             NEW to \in {"data dlls", "done"}, loader \in {"runtime dlls", "data dlls"},
             RegisterDlls(phase, what, to)
      PROVE  LoaderFrame
  <2>1. PICK o : o = [phase |-> phase, what |-> what]
    OBVIOUS
  <2>2. o \in Observers /\ o.what = what /\ o.phase = phase
    BY <2>1 DEF Observers, Phases, Registrations
  <2>3. Adds(o) \/ UNCHANGED observers
    BY <1>9, <2>1, <2>2 DEF RegisterDlls, Registers, Refused, Adds
  <2>4. /\ UNCHANGED <<setting, doing, dlls, beforeMain, steamState, settingsWorker, props, initAt,
                       regulation, unloading, ime, reachedPhases, installed>>
        /\ loader' \in {"data dlls", "done"}
    BY <1>9 DEF RegisterDlls, loaderVars, dllVars, partVars
  <2> QED BY <1>9, <2>2, <2>3, <2>4
<1>10. CASE loader = "runtime dlls" /\ RegisterDlls("runtime", "dlls", "data dlls")
  BY <1>9, <1>10
<1>11. CASE loader = "data dlls" /\ RegisterDlls("data", "late dlls", "done")
  BY <1>9, <1>11
<1> QED BY <1>1, <1>2, <1>3, <1>4, <1>5, <1>6, <1>7, <1>8, <1>10, <1>11 DEF LoaderStep

\* A thread of the game reaches a phase.
Advances(a) ==
  /\ doing[a] = "idle" /\ loader \notin Early
  /\ reachedPhases' = reachedPhases \cup {PhaseOf[a]}
  /\ doing' = [doing EXCEPT ![a] = "next"]
  /\ UNCHANGED <<beforeMain, dlls, settingsWorker>>
  /\ \/ a = "init" /\ \E t \in InitThreads : Initialize(t) /\ props.hook = "on" /\ ~props.seen
     \/ a # "init" /\ UNCHANGED <<props, initAt>>
\* What the game's threads may change.
GameFrame ==
  /\ UNCHANGED <<setting, unloading, loader, observers, ime>>
  /\ \/ \E a \in Advancers : Advances(a) /\ ("assets" \in installed' => "assets" \in installed)
                             /\ (a = "steam" => "runtime" \notin reachedPhases)
     \/ LoadEarly \/ InstallAssets \/ SettingsWorkerRuns \/ RegulationTick
     \/ SteamInit /\ "runtime" \in reachedPhases
     \/ \E t \in InitThreads : Initialize(t) /\ ~(props.hook = "on" /\ ~props.seen)
     \/ \E t \in InitThreads : Initialized(t)

\* Every step of the game is within its frame.
LEMMA GameFrames == ASSUME StartupTypes, EarlyInv, FirstInv, GameStep PROVE GameFrame
<1>0. "before" \in Advancers /\ "steam" \in Advancers /\ "init" \in Advancers
      /\ "render" \in Advancers /\ "data" \in Advancers
  BY AdvancerPhases
<1>1. CASE ReachMain
  <2>1. Advances("before")
    BY <1>1 DEF ReachMain, Advance, Advances, loaderVars, dllVars, partVars, Early
  <2>2. UNCHANGED <<setting, unloading, loader, observers, ime, installed>>
    BY <1>1 DEF ReachMain, loaderVars, dllVars, partVars
  <2> QED BY <1>0, <2>1, <2>2 DEF GameFrame
<1>2. CASE SteamInit
  <2>1. /\ UNCHANGED <<setting, unloading, loader, observers, ime, beforeMain, dlls, settingsWorker, props,
                       initAt>>
        /\ "assets" \in installed' => "assets" \in installed
        /\ "steam" \in installed /\ doing["steam"] = "idle"
    BY <1>2 DEF SteamInit, dllVars, partVars
  <2>2. loader \notin Early
    BY <2>1 DEF EarlyInv
  <2>3. CASE "runtime" \in reachedPhases
    BY <1>2, <2>1, <2>3 DEF GameFrame
  <2>4. CASE "runtime" \notin reachedPhases
    <3>1. Advances("steam")
      BY <1>2, <2>1, <2>2, <2>4 DEF SteamInit, Advance, Advances
    <3> QED BY <1>0, <2>1, <2>4, <3>1 DEF GameFrame
  <2> QED BY <2>3, <2>4
<1>3. ASSUME NEW a \in {"render", "data"}, NEW hook \in {"render hook", "data hook"}, StepReached(a, hook)
      PROVE  GameFrame
  <2>1. loader \notin Early
    BY <1>3 DEF EarlyInv, StepReached
  <2>2. Advances(a)
    BY <1>3, <2>1 DEF StepReached, Advance, Advances, loaderVars, dllVars, partVars
  <2>3. UNCHANGED <<setting, unloading, loader, observers, ime, installed>>
    BY <1>3 DEF StepReached, loaderVars, dllVars, partVars
  <2> QED BY <1>0, <1>3, <2>2, <2>3 DEF GameFrame
<1>4. ASSUME NEW t \in InitThreads, Initialize(t) PROVE GameFrame
  <2>1. UNCHANGED <<setting, unloading, loader, observers, ime, installed, beforeMain, dlls, settingsWorker>>
    BY <1>4 DEF Initialize, loaderVars, dllVars
  <2>2. CASE props.hook = "on" /\ ~props.seen
    <3>1. loader \notin Early
      BY <2>2 DEF EarlyInv
    <3>2. doing["init"] = "idle"
      BY <2>2 DEF FirstInv
    <3>3. Advances("init")
      BY <1>4, <2>1, <2>2, <3>1, <3>2 DEF Initialize, Advance, Advances
    <3> QED BY <1>0, <2>1, <3>3 DEF GameFrame
  <2>3. CASE ~(props.hook = "on" /\ ~props.seen)
    BY <1>4, <2>1, <2>3 DEF GameFrame
  <2> QED BY <2>2, <2>3
<1>5. ASSUME NEW t \in InitThreads, Initialized(t) PROVE GameFrame
  <2>1. UNCHANGED <<setting, unloading, loader, observers, ime>>
    BY <1>5 DEF Initialized, loaderVars, phaseVars
  <2> QED BY <1>5, <2>1 DEF GameFrame
<1>6. CASE LoadEarly
  <2>1. UNCHANGED <<setting, unloading, loader, observers, ime>>
    BY <1>6 DEF LoadEarly, loaderVars, partVars
  <2> QED BY <1>6, <2>1 DEF GameFrame
<1>7. CASE InstallAssets
  <2>1. UNCHANGED <<setting, unloading, loader, observers, ime>>
    BY <1>7 DEF InstallAssets, partVars
  <2> QED BY <1>7, <2>1 DEF GameFrame
<1>8. CASE SettingsWorkerRuns
  <2>1. UNCHANGED <<setting, unloading, loader, observers, ime>>
    BY <1>8 DEF SettingsWorkerRuns, loaderVars, phaseVars
  <2> QED BY <1>8, <2>1 DEF GameFrame
<1>9. CASE RegulationTick
  <2>1. UNCHANGED <<setting, unloading, loader, observers, ime>>
    BY <1>9 DEF RegulationTick, loaderVars, phaseVars
  <2> QED BY <1>9, <2>1 DEF GameFrame
<1> QED BY <1>1, <1>2, <1>3, <1>4, <1>5, <1>6, <1>7, <1>8, <1>9 DEF GameStep

----------------------------------------------------------------------------
(* What each step keeps.                                                  *)

\* The kinds of steps.
LEMMA StepKinds ==
  ASSUME StartupInv, StartupNext
  PROVE  \/ unloading = "no" /\ LoaderStep /\ LoaderFrame
         \/ unloading = "no" /\ GameStep /\ GameFrame
         \/ unloading = "no" /\ \E a \in Advancers : ObserverStep(a) /\ ObserverFrame(a)
         \/ UnloadAdapter \/ UnloadCommon \/ UnloadRest
<1>1. StartupTypes /\ EarlyInv /\ FirstInv
  BY DEF StartupInv
<1>2. CASE unloading = "no" /\ LoaderStep
  BY <1>2, LoaderFrames
<1>3. CASE unloading = "no" /\ GameStep
  BY <1>1, <1>3, GameFrames
<1>4. CASE unloading = "no" /\ \E a \in Advancers : ObserverStep(a)
  BY <1>1, <1>4, ObserverFrames
<1> QED BY <1>2, <1>3, <1>4 DEF StartupNext

\* A step keeps the stages of the set-up what they are.
LEMMA StageTypeNext == ASSUME StartupInv, StartupNext PROVE StageType'
<1>0. StageType /\ DoingType
  BY DEF StartupInv, StartupTypes
<1>1. CASE LoaderFrame
  BY <1>0, <1>1 DEF LoaderFrame, StageType, Phases
<1>2. ASSUME NEW a \in Advancers, ObserverStep(a), ObserverFrame(a) PROVE StageType'
  <2>1. settingsWorker' \in {"none", "running", "over"}
    <3>1. CASE settingsWorker' = settingsWorker
      BY <1>0, <3>1 DEF StageType
    <3>2. CASE doing[a] = "cpu"
      <4>1. StartSettingsWorker(a)
        BY <1>2, <3>2 DEF ObserverStep, CallNext, InstallFeature, InstallAllocator,
           InstallRegulation,
           HookProperties, ScheduleOffline, SetOffline, LoadDlls
      <4> QED BY <1>0, <4>1 DEF StartSettingsWorker, StageType
    <3> QED BY <1>2, <3>1, <3>2 DEF ObserverFrame
  <2>2. dlls' \subseteq {"early", "dlls", "late dlls"}
    BY <1>0, <1>2 DEF ObserverFrame, StageType
  <2> QED BY <1>0, <1>2, <2>1, <2>2 DEF ObserverFrame, StageType
<1>3. CASE GameStep /\ GameFrame
  <2>1. ASSUME NEW a \in Advancers, Advances(a) PROVE StageType'
    <3>1. PhaseOf[a] \in Phases
      BY AdvancerPhases DEF Phases
    <3>2. steamState' \in {0, 1, 2}
      <4>1. steamState' = steamState \/ steamState' \in {0, 1, 2}
        BY <1>3 DEF GameStep, ReachMain, LoadEarly, SteamInit, InstallAssets, StepReached,
           SettingsWorkerRuns,
           RegulationTick, Initialize, Initialized
      <4> QED BY <1>0, <4>1 DEF StageType
    <3>3. initAt' \in [InitThreads -> {"before", "first", "after", "past"}]
      <4>1. CASE UNCHANGED initAt
        BY <1>0, <4>1 DEF StageType
      <4>2. ASSUME NEW t \in InitThreads, Initialize(t) PROVE initAt' \in [InitThreads -> {"before", "first", "after", "past"}]
        BY <1>0, <4>2 DEF Initialize, StageType
      <4> QED BY <2>1, <4>1, <4>2 DEF Advances
    <3> QED BY <1>0, <1>3, <2>1, <3>1, <3>2, <3>3 DEF GameFrame, Advances, StageType
  <2>2. CASE LoadEarly
    BY <1>0, <2>2 DEF LoadEarly, StageType, loaderVars, partVars
  <2>3. CASE InstallAssets
    BY <1>0, <2>3 DEF InstallAssets, StageType, dllVars, partVars
  <2>4. CASE SettingsWorkerRuns
    BY <1>0, <2>4 DEF SettingsWorkerRuns, StageType, dllVars, loaderVars, phaseVars
  <2>5. CASE RegulationTick
    BY <1>0, <2>5 DEF RegulationTick, StageType, dllVars, loaderVars, phaseVars
  <2>6. CASE SteamInit /\ "runtime" \in reachedPhases
    BY <1>0, <2>6 DEF SteamInit, StageType, dllVars, partVars
  <2>7. ASSUME NEW t \in InitThreads, Initialize(t), ~(props.hook = "on" /\ ~props.seen) PROVE StageType'
    BY <1>0, <2>7 DEF Initialize, StageType, dllVars, loaderVars
  <2>8. ASSUME NEW t \in InitThreads, Initialized(t) PROVE StageType'
    BY <1>0, <2>8 DEF Initialized, StageType, dllVars, loaderVars, phaseVars
  <2> QED BY <1>3, <2>1, <2>2, <2>3, <2>4, <2>5, <2>6, <2>7, <2>8 DEF GameFrame
<1>4. CASE UnloadAdapter
  BY <1>0, <1>4 DEF UnloadAdapter, StageType, phaseVars, partVars
<1>5. CASE UnloadCommon
  BY <1>0, <1>5 DEF UnloadCommon, StageType, phaseVars, dllVars
<1>6. CASE UnloadRest
  BY <1>0, <1>6 DEF UnloadRest, StageType, dllVars
<1> QED BY <1>1, <1>2, <1>3, <1>4, <1>5, <1>6, StepKinds

\* A step keeps the sequence of observers one.
LEMMA ObserversNext ==
  ASSUME StartupInv, StartupNext
  PROVE  observers' \in Seq(Observers)
<1>0. observers \in Seq(Observers)
  BY DEF StartupInv, StartupTypes
<1>1. ASSUME NEW o \in Observers, Adds(o) PROVE observers' \in Seq(Observers)
  BY <1>0, <1>1, AddsOne
<1>2. ASSUME NEW a, NEW i \in DOMAIN observers, Calls(a, i) PROVE observers' \in Seq(Observers)
  BY <1>0, <1>2, WithoutOne DEF Calls
<1>3. CASE Schedules
  BY <1>3, WantedObservers, LastOnes DEF Schedules
<1>4. CASE LoaderFrame
  BY <1>0, <1>1, <1>3, <1>4 DEF LoaderFrame
<1>5. ASSUME NEW a \in Advancers, ObserverFrame(a) PROVE observers' \in Seq(Observers)
  BY <1>0, <1>1, <1>2, <1>5 DEF ObserverFrame
<1>6. CASE UNCHANGED observers
  BY <1>0, <1>6
<1>7. CASE UnloadRest
  BY <1>7 DEF UnloadRest
<1> QED BY <1>4, <1>5, <1>6, <1>7, StepKinds DEF GameFrame, UnloadAdapter, UnloadCommon, phaseVars

\* A step leaves every thread at a place of its own.
LEMMA DoingTypeNext == ASSUME StartupInv, StartupNext PROVE DoingType'
<1>0. DoingType /\ observers \in Seq(Observers)
  BY DEF StartupInv, StartupTypes
<1>1. CASE UNCHANGED doing
  BY <1>0, <1>1 DEF DoingType
<1>2. ASSUME NEW a \in Advancers, NEW w \in Resting \cup {"next"}, doing' = [doing EXCEPT ![a] = w]
      PROVE  DoingType'
  BY <1>0, <1>2 DEF DoingType, Resting
<1>3. ASSUME NEW a \in Advancers, ObserverStep(a), ObserverFrame(a) PROVE DoingType'
  <2>1. doing'[a] \in {"properties", "offline"} => a = "steam"
    <3>1. CASE HookProperties(a)
      BY <1>0, <3>1 DEF HookProperties, DoingType
    <3>2. ASSUME NEW i \in DOMAIN observers, Calls(a, i) PROVE doing'[a] = "properties" => a = "steam"
      BY <1>0, <3>2, OwnObservers DEF Calls, DoingType
    <3>3. ASSUME NEW i \in DOMAIN observers, Calls(a, i) PROVE doing'[a] # "offline"
      BY <1>0, <3>3, OwnObservers DEF Calls, DoingType, Registrations
    <3> QED BY <1>3, <3>1, <3>2, <3>3 DEF ObserverFrame
  <2>2. doing'[a] = "set offline" => a = "init"
    <3>2. ASSUME NEW i \in DOMAIN observers, Calls(a, i) PROVE doing'[a] = "set offline" => a = "init"
      BY <1>0, <3>2, OwnObservers DEF Calls, DoingType
    <3> QED BY <1>3, <3>2 DEF ObserverFrame
  <2> QED BY <1>0, <1>3, <2>1, <2>2 DEF ObserverFrame, DoingType
<1>4. CASE GameFrame
  <2>0. "before" \in Advancers /\ "steam" \in Advancers
    BY AdvancerPhases
  <2>1. ASSUME NEW a \in Advancers, Advances(a) PROVE DoingType'
    BY <1>2, <2>1 DEF Advances
  <2>2. CASE LoadEarly
    BY <1>2, <2>0, <2>2 DEF LoadEarly, Goes, Resting
  <2>3. CASE InstallAssets
    BY <1>2, <2>0, <2>3 DEF InstallAssets, Goes, Resting
  <2>4. CASE SteamInit /\ "runtime" \in reachedPhases
    BY <1>2, <2>0, <2>4 DEF SteamInit, Goes, Resting
  <2> QED BY <1>1, <1>4, <2>1, <2>2, <2>3, <2>4
      DEF GameFrame, SettingsWorkerRuns, RegulationTick, Initialize, Initialized, phaseVars
<1> QED BY <1>1, <1>3, <1>4, StepKinds DEF LoaderFrame, UnloadAdapter, UnloadCommon, UnloadRest,
           phaseVars

\* The loader never loses track of the code it has written over.
LEMMA WrittenOutcomes ==
  ASSUME NEW old, NEW new, NEW w \in Written(old, new)
  PROVE  w.ok \in BOOLEAN /\ w.bytes \in {old, new} /\ (w.ok => w.bytes = new)
<1>1. CASE w = [ok |-> TRUE, bytes |-> new]
  BY <1>1
<1>2. CASE w = [ok |-> FALSE, bytes |-> new]
  BY <1>2
<1>3. CASE w = [ok |-> FALSE, bytes |-> old]
  BY <1>3
<1> QED BY <1>1, <1>2, <1>3 DEF Written

\* A step keeps track of the filter that is written over the game's code.
LEMMA ImeNext == ASSUME StartupInv, StartupNext PROVE (ImeType /\ ImePatchIsRemembered)'
<1>0. ImeType /\ ImePatchIsRemembered
  BY DEF StartupInv, StartupTypes
<1>1. CASE UNCHANGED ime
  BY <1>0, <1>1 DEF ImeType, ImePatchIsRemembered
<1>2. CASE InstallIme
  <2>1. ASSUME NEW f \in FilterPatched
        PROVE  /\ f.bytes \in {"original", "patched"} /\ f.pointer \in BOOLEAN /\ f.applied \in BOOLEAN
               /\ f.bytes = "patched" => f.pointer
    <3>1. CASE f = [pointer |-> FALSE, applied |-> FALSE, bytes |-> "original"]
      BY <3>1
    <3>2. CASE f = [pointer |-> TRUE, applied |-> TRUE, bytes |-> "patched"]
      BY <3>2
    <3>3. ASSUME NEW w \in Written("original", "patched"), NEW back \in Written(w.bytes, "original"),
                 f = [pointer |-> ~back.ok, applied |-> FALSE, bytes |-> back.bytes]
          PROVE  /\ f.bytes \in {"original", "patched"} /\ f.pointer \in BOOLEAN /\ f.applied \in BOOLEAN
                 /\ f.bytes = "patched" => f.pointer
      <4>1. w.bytes \in {"original", "patched"}
        BY WrittenOutcomes
      <4>2. back.ok \in BOOLEAN /\ back.bytes \in {w.bytes, "original"} /\ (back.ok => back.bytes = "original")
        BY WrittenOutcomes
      <4>3. f.pointer = ~back.ok /\ f.applied = FALSE /\ f.bytes = back.bytes
        BY <3>3
      <4> QED BY <4>1, <4>2, <4>3
    <3> QED BY <3>1, <3>2, <3>3 DEF FilterPatched
  <2>2. CASE ime' = [ime EXCEPT !.hook = TRUE]
    BY <1>0, <2>2 DEF ImeType, ImePatchIsRemembered
  <2>3. ASSUME NEW f \in FilterPatched,
               ime' = [hook |-> TRUE, bytes |-> f.bytes, pointer |-> f.pointer, applied |-> f.applied]
        PROVE  (ImeType /\ ImePatchIsRemembered)'
    BY <2>1, <2>3 DEF ImeType, ImePatchIsRemembered
  <2> QED BY <1>1, <1>2, <2>2, <2>3 DEF InstallIme
<1>3. CASE RestoreFilter
  <2>1. ASSUME NEW w \in Written(ime.bytes, "original"),
               ime' = [ime EXCEPT !.bytes = w.bytes, !.pointer = ~w.ok, !.applied = @ /\ ~w.ok]
        PROVE  (ImeType /\ ImePatchIsRemembered)'
    <3>1. w.ok \in BOOLEAN /\ w.bytes \in {"original", ime.bytes} /\ (w.ok => w.bytes = "original")
      BY WrittenOutcomes
    <3>2. w.bytes \in {"original", "patched"} /\ ime.applied \in BOOLEAN
      BY <1>0, <3>1 DEF ImeType
    <3>3. ime'.bytes = w.bytes /\ ime'.pointer = ~w.ok
      BY <1>0, <2>1 DEF ImeType
    <3>4. ImeType'
      BY <1>0, <2>1, <3>1, <3>2 DEF ImeType
    <3> QED BY <3>1, <3>3, <3>4 DEF ImePatchIsRemembered
  <2> QED BY <1>1, <1>3, <2>1 DEF RestoreFilter
<1>4. CASE UnloadRest
  <2>1. ime' = [ime EXCEPT !.hook = FALSE]
    BY <1>4 DEF UnloadRest
  <2> QED BY <1>0, <2>1 DEF ImeType, ImePatchIsRemembered
<1> QED BY <1>1, <1>2, <1>3, <1>4, StepKinds
    DEF LoaderFrame, GameFrame, ObserverFrame, UnloadAdapter, UnloadCommon, partVars

\* A step keeps the regulation's hooks what they are.
LEMMA RegulationTypeNext == ASSUME StartupInv, StartupNext PROVE RegulationType'
<1>0. RegulationType
  BY DEF StartupInv, StartupTypes
<1>1. CASE UNCHANGED regulation
  BY <1>0, <1>1 DEF RegulationType
<1>2. ASSUME NEW a, InstallRegulation(a) PROVE RegulationType'
  <2>1. CASE regulation' = [regulation EXCEPT !.hooked = {"step"}, !.reported = TRUE]
    BY <1>0, <2>1 DEF RegulationType
  <2>2. ASSUME NEW hooked \in SUBSET Writers,
               regulation' = [regulation EXCEPT !.hooked = hooked,
                                                !.reported = Writers # {} /\ hooked = Writers]
        PROVE  RegulationType'
    <3>1. PICK b \in BOOLEAN : regulation' = [regulation EXCEPT !.hooked = hooked, !.reported = b]
      BY <2>2
    <3> QED BY <1>0, <3>1 DEF RegulationType
  <2> QED BY <1>1, <1>2, <2>1, <2>2 DEF InstallRegulation
<1>3. CASE RegulationTick
  <2>1. PICK length \in {regulation.length, 1}, resolves \in BOOLEAN :
           regulation' = [regulation EXCEPT !.slot = regulation.slot \/ resolves,
                                            !.length = IF regulation.slot \/ resolves THEN 0 ELSE length]
    BY <1>3 DEF RegulationTick
  <2>2. /\ regulation.length \in {0, 1} /\ regulation.slot \in BOOLEAN
        /\ regulation.hooked \subseteq Writers \cup {"step"} /\ regulation.reported \in BOOLEAN
    BY <1>0 DEF RegulationType
  <2>3. PICK slot \in BOOLEAN, long \in {0, 1} : regulation' = [regulation EXCEPT !.slot = slot, !.length = long]
    <3>1. (regulation.slot \/ resolves) \in BOOLEAN
      OBVIOUS
    <3>2. (IF regulation.slot \/ resolves THEN 0 ELSE length) \in {0, 1}
      BY <2>2
    <3> QED BY <2>1, <3>1, <3>2
  <2> QED BY <1>0, <2>3 DEF RegulationType
<1>4. CASE UnloadRest
  BY <1>0, <1>4 DEF UnloadRest, RegulationType
<1>5. CASE GameStep
  BY <1>1, <1>3, <1>5 DEF GameStep, ReachMain, LoadEarly, SteamInit, InstallAssets, StepReached,
     SettingsWorkerRuns,
     Initialize, Initialized, partVars
<1>6. ASSUME NEW a \in Advancers, ObserverStep(a) PROVE RegulationType'
  BY <1>1, <1>2, <1>6 DEF ObserverStep, CallNext, InstallFeature, InstallAllocator,
     StartSettingsWorker,
     HookProperties, ScheduleOffline, SetOffline, LoadDlls, partVars
<1> QED BY <1>1, <1>4, <1>5, <1>6, StepKinds DEF LoaderFrame, UnloadAdapter, UnloadCommon, partVars

\* A step keeps the state of the property initializer, which is set at most once.
LEMMA PropsTypeNext == ASSUME StartupInv, StartupNext PROVE PropsType'
<1>0. PropsType /\ OfflineInv /\ DoingType
  BY DEF StartupInv, StartupTypes
<1>1. CASE UNCHANGED props
  BY <1>0, <1>1 DEF PropsType
<1>2. ASSUME NEW a, HookProperties(a) PROVE PropsType'
  <2>1. \/ props' = props \/ props' = [props EXCEPT !.setter = TRUE]
        \/ props' = [props EXCEPT !.setter = TRUE, !.hook = "on"]
    BY <1>2 DEF HookProperties
  <2> QED BY <1>0, <2>1 DEF PropsType
<1>3. ASSUME NEW a, ScheduleOffline(a) PROVE PropsType'
  <2>1. props' = props \/ props' = [props EXCEPT !.reported = TRUE]
    BY <1>3 DEF ScheduleOffline
  <2> QED BY <1>0, <2>1 DEF PropsType
<1>4. ASSUME NEW a \in Advancers, SetOffline(a) PROVE PropsType'
  <2>1. a = "init" /\ doing[a] = "set offline"
    BY <1>0, <1>4 DEF SetOffline, DoingType
  <2>2. props.set = 0 /\ props.setter
    BY <1>0, <2>1 DEF OfflineInv, BeingSet
  <2>3. props' = [props EXCEPT !.set = IF props.setter THEN props.set + 1 ELSE props.set]
    BY <1>4 DEF SetOffline
  <2>4. props' = [props EXCEPT !.set = 1]
    BY <2>2, <2>3
  <2> QED BY <1>0, <2>4 DEF PropsType
<1>5. ASSUME NEW t \in InitThreads, Initialize(t) \/ Initialized(t) PROVE PropsType'
  <2>1. \/ props' = props \/ props' = [props EXCEPT !.seen = TRUE]
        \/ props' = [props EXCEPT !.hook = "off"]
    BY <1>5 DEF Initialize, Initialized
  <2> QED BY <1>0, <2>1 DEF PropsType
<1>6. CASE UnloadRest
  BY <1>0, <1>6 DEF UnloadRest, PropsType
<1>7. CASE GameStep
  BY <1>1, <1>5, <1>7 DEF GameStep, ReachMain, LoadEarly, SteamInit, InstallAssets, StepReached,
     SettingsWorkerRuns,
     RegulationTick, partVars
<1>8. ASSUME NEW a \in Advancers, ObserverFrame(a) PROVE PropsType'
  BY <1>1, <1>2, <1>3, <1>4, <1>8 DEF ObserverFrame
<1> QED BY <1>1, <1>6, <1>7, <1>8, StepKinds DEF LoaderFrame, UnloadAdapter, UnloadCommon, partVars

\* Nothing of the game reaches a loader that has hooked nothing.
LEMMA EarlyNext == ASSUME StartupInv, StartupNext PROVE EarlyInv'
<1>0. EarlyInv /\ StageType
  BY DEF StartupInv, StartupTypes
<1>1. CASE LoaderFrame
  <2> SUFFICES ASSUME loader' \in Early PROVE EarlyInv'
    BY DEF EarlyInv
  <2>1. loader \in Early
    BY <1>1 DEF LoaderFrame
  <2>2. /\ \A a \in Advancers : doing'[a] = "idle"
        /\ beforeMain' = "none" /\ dlls' = {} /\ unloading' = "no"
        /\ props'.hook = "none" /\ ~props'.reported /\ props'.set = 0
        /\ settingsWorker' = "none"
        /\ \A t \in InitThreads : initAt'[t] \in {"before", "past"}
    BY <1>0, <1>1, <2>1 DEF EarlyInv, LoaderFrame
  <2>3. installed' \cap Hooks = {}
    BY <1>0, <1>1, <2>1 DEF EarlyInv, LoaderFrame, Hooks
  <2>4. loader' \in Unhooked => observers' = <<>>
    BY <1>0, <1>1, <2>1 DEF EarlyInv, LoaderFrame, Unhooked, Schedules
  <2>5. reachedPhases' \subseteq {"entry"}
    BY <1>0, <1>1, <2>1 DEF EarlyInv, LoaderFrame
  <2> QED BY <2>2, <2>3, <2>4, <2>5 DEF EarlyInv, Hooks, Unhooked
<1>2. CASE loader \notin Early /\ loader' = loader
  BY <1>2 DEF EarlyInv
<1>3. ASSUME NEW a \in Advancers, ObserverFrame(a) PROVE EarlyInv'
  BY <1>0, <1>2, <1>3 DEF EarlyInv, ObserverFrame, Resting
<1>4. CASE GameFrame
  <2>0. "before" \in Advancers /\ "steam" \in Advancers
    BY AdvancerPhases
  <2>1. ASSUME NEW a \in Advancers, Advances(a) PROVE EarlyInv'
    BY <1>2, <1>4, <2>1 DEF Advances, GameFrame
  <2>2. CASE LoadEarly
    BY <1>0, <1>2, <1>4, <2>0, <2>2 DEF LoadEarly, EarlyInv, GameFrame
  <2>3. CASE InstallAssets
    BY <1>0, <1>2, <1>4, <2>0, <2>3 DEF InstallAssets, EarlyInv, GameFrame
  <2>4. CASE SettingsWorkerRuns
    BY <1>0, <1>2, <1>4, <2>4 DEF SettingsWorkerRuns, EarlyInv, GameFrame
  <2>5. CASE RegulationTick
    BY <1>0, <2>5 DEF RegulationTick, EarlyInv, loaderVars, phaseVars, dllVars
  <2>6. CASE SteamInit
    BY <1>0, <1>2, <1>4, <2>6 DEF SteamInit, EarlyInv, GameFrame
  <2>7. ASSUME NEW t \in InitThreads, Initialize(t), ~(props.hook = "on" /\ ~props.seen) PROVE EarlyInv'
    <3>1. UNCHANGED <<loader, observers, beforeMain, dlls, installed, settingsWorker, props, reachedPhases, doing,
                      unloading>>
          /\ initAt' = [initAt EXCEPT ![t] = "past"]
      BY <2>7 DEF Initialize, loaderVars, dllVars
    <3>2. \A u \in InitThreads : initAt'[u] = initAt[u] \/ initAt'[u] = "past"
      BY <1>0, <3>1 DEF StageType
    <3> QED BY <1>0, <3>1, <3>2 DEF EarlyInv
  <2>8. ASSUME NEW t \in InitThreads, Initialized(t) PROVE EarlyInv'
    BY <1>0, <1>2, <1>4, <2>8 DEF Initialized, EarlyInv, GameFrame
  <2> QED BY <1>4, <2>1, <2>2, <2>3, <2>4, <2>5, <2>6, <2>7, <2>8 DEF GameFrame
<1>5. CASE UnloadAdapter
  BY <1>5 DEF UnloadAdapter, EarlyInv, Early
<1>6. CASE UnloadCommon \/ UnloadRest
  BY <1>0, <1>2, <1>6 DEF UnloadCommon, UnloadRest, EarlyInv
<1> QED BY <1>1, <1>3, <1>4, <1>5, <1>6, StepKinds

\* No observer of a phase is left when the thread that advanced it is through.
LEMMA PhaseNext == ASSUME StartupInv, StartupNext PROVE PhaseInv'
<1>0. PhaseInv /\ EarlyInv /\ StageType /\ DoingType /\ observers \in Seq(Observers)
  BY DEF StartupInv, StartupTypes
<1> DEFINE Through(a) == PhaseOf[a] \in reachedPhases /\ doing[a] \in Resting
<1>a. ASSUME unloading # "done"
      PROVE  \A a \in Advancers : /\ doing[a] # "idle" => PhaseOf[a] \in reachedPhases
                                  /\ Through(a) => Due(observers, PhaseOf[a]) = {}
  BY <1>0, <1>a, MineAreDue DEF PhaseInv
<1>b. ASSUME \A a \in Advancers : /\ doing'[a] # "idle" => PhaseOf[a] \in reachedPhases'
                                  /\ PhaseOf[a] \in reachedPhases' /\ doing'[a] \in Resting
                                       => Due(observers', PhaseOf[a]) = {}
      PROVE  PhaseInv'
  <2>1. \A a \in Advancers : Mine(a)' = Due(observers', PhaseOf[a])
    BY DEF Mine, Due
  <2> QED BY <1>b, <2>1 DEF PhaseInv
<1>1. ASSUME NEW o \in Observers, Adds(o), NEW p \in reachedPhases
      PROVE  Due(observers', p) = Due(observers, p)
  BY <1>0, <1>1, AddsOne
<1>2. ASSUME NEW a \in Advancers, NEW i \in DOMAIN observers, Calls(a, i), NEW p, Due(observers, p) = {}
      PROVE  Due(observers', p) = {}
  BY <1>0, <1>2, WithoutOne DEF Calls
<1>3. CASE unloading = "no" /\ LoaderFrame
  <2>1. CASE loader \in Unhooked
    <3>1. /\ \A a \in Advancers : doing'[a] = "idle"
          /\ reachedPhases' \subseteq {"entry"}
      BY <1>0, <1>3, <2>1 DEF EarlyInv, LoaderFrame, Early, Unhooked
    <3>2. \A a \in Advancers : PhaseOf[a] # "entry"
      BY AdvancerPhases
    <3> QED BY <1>b, <3>1, <3>2
  <2>2. CASE loader \notin Unhooked
    <3>1. UNCHANGED <<doing, reachedPhases>>
      BY <1>3, <2>2 DEF LoaderFrame, Unhooked
    <3>2. \/ UNCHANGED observers
          \/ \E o \in Observers : Adds(o)
      BY <1>3, <2>2 DEF LoaderFrame, Unhooked, Schedules
    <3>3. \A p \in reachedPhases : Due(observers', p) = Due(observers, p)
      BY <1>1, <3>2
    <3> QED BY <1>3, <1>a, <1>b, <3>1, <3>3
  <2> QED BY <2>1, <2>2
<1>4. ASSUME unloading = "no", NEW a \in Advancers, ObserverFrame(a) PROVE PhaseInv'
  <2>0. UNCHANGED reachedPhases /\ \A b \in Advancers \ {a} : doing'[b] = doing[b]
    BY <1>4 DEF ObserverFrame
  <2>1. PhaseOf[a] \in reachedPhases
    BY <1>4, <1>a DEF ObserverFrame, Resting
  <2>2. ASSUME NEW p \in reachedPhases, Due(observers, p) = {} PROVE Due(observers', p) = {}
    BY <1>1, <1>2, <1>4, <2>2 DEF ObserverFrame
  <2>3. doing'[a] \in Resting => Due(observers', PhaseOf[a]) = {}
    <3>1. CASE doing'[a] = "advanced" /\ Mine(a) = {} /\ UNCHANGED <<observers, props>>
      BY <3>1, MineAreDue
    <3>2. ASSUME NEW i \in DOMAIN observers, Calls(a, i) PROVE doing'[a] \notin Resting
      <4>1. doing'[a] = observers[i].what
        BY <1>0, <3>2 DEF Calls, DoingType
      <4>2. observers[i].what \in Registrations
        BY <3>2 DEF Calls, Observers
      <4> QED BY <4>1, <4>2 DEF Registrations, Resting
    <3> QED BY <1>4, <3>1, <3>2 DEF ObserverFrame, Resting
  <2> QED BY <1>4, <1>a, <1>b, <2>0, <2>1, <2>2, <2>3
<1>5. CASE unloading = "no" /\ GameFrame
  <2>0. "before" \in Advancers /\ "steam" \in Advancers /\ UNCHANGED observers
    BY <1>5, AdvancerPhases DEF GameFrame
  <2>1. ASSUME NEW a \in Advancers, Advances(a) PROVE PhaseInv'
    <3>1. /\ reachedPhases' = reachedPhases \cup {PhaseOf[a]} /\ doing'[a] = "next"
          /\ \A b \in Advancers \ {a} : doing'[b] = doing[b] /\ PhaseOf[b] # PhaseOf[a]
      BY <1>0, <2>1, OnePhaseEach DEF Advances, DoingType
    <3>2. ASSUME NEW b \in Advancers \ {a}
          PROVE  /\ doing'[b] # "idle" => PhaseOf[b] \in reachedPhases'
                 /\ PhaseOf[b] \in reachedPhases' /\ doing'[b] \in Resting
                      => Due(observers', PhaseOf[b]) = {}
      BY <1>5, <1>a, <2>0, <3>1
    <3>3. "next" \notin Resting
      BY DEF Resting
    <3> QED BY <1>b, <3>1, <3>2, <3>3
  <2>2. ASSUME NEW a \in Advancers, doing[a] \in Resting, NEW w \in Resting,
               doing' = [doing EXCEPT ![a] = w], UNCHANGED reachedPhases, PhaseOf[a] \in reachedPhases
        PROVE  PhaseInv'
    <3>1. doing'[a] = w /\ \A b \in Advancers \ {a} : doing'[b] = doing[b]
      BY <1>0, <2>2 DEF DoingType
    <3>2. Due(observers, PhaseOf[a]) = {}
      BY <1>5, <1>a, <2>2
    <3> QED BY <1>5, <1>a, <1>b, <2>0, <2>2, <3>1, <3>2
  <2>3. CASE LoadEarly
    BY <1>5, <1>a, <2>0, <2>2, <2>3 DEF LoadEarly, Goes, Resting
  <2>4. CASE InstallAssets
    BY <1>5, <1>a, <2>0, <2>2, <2>4 DEF InstallAssets, Goes, Resting
  <2>5. CASE SteamInit /\ "runtime" \in reachedPhases
    BY <2>0, <2>2, <2>5, AdvancerPhases DEF SteamInit, Goes, Resting
  <2>6. CASE UNCHANGED <<reachedPhases, doing>>
    BY <1>5, <1>a, <1>b, <2>0, <2>6
  <2> QED BY <1>5, <2>1, <2>3, <2>4, <2>5, <2>6
      DEF GameFrame, SettingsWorkerRuns, RegulationTick, Initialize, Initialized, phaseVars
<1>6. CASE UnloadAdapter \/ UnloadCommon
  <2>1. unloading # "done" /\ UNCHANGED <<observers, reachedPhases, doing>>
    BY <1>6 DEF UnloadAdapter, UnloadCommon, phaseVars
  <2> QED BY <1>a, <1>b, <2>1
<1>7. CASE UnloadRest
  BY <1>7 DEF UnloadRest, PhaseInv
<1> QED BY <1>3, <1>4, <1>5, <1>6, <1>7, StepKinds

\* The DLLs of the later stages come behind the early ones.
LEMMA DllNext == ASSUME StartupInv, StartupNext PROVE DllInv'
<1>0. DllInv /\ PhaseInv /\ EarlyInv /\ StageType
  BY DEF StartupInv, StartupTypes
<1>1. ASSUME unloading = "no", UNCHANGED <<unloading, beforeMain>>, reachedPhases \subseteq reachedPhases',
             \/ UNCHANGED dlls
             \/ beforeMain = "loaded" /\ \E w \in {"dlls", "late dlls"} : dlls' = dlls \cup {w}
      PROVE  DllInv'
  <2>1. CASE UNCHANGED dlls
    BY <1>0, <1>1, <2>1 DEF DllInv, LaterDllsNeedEarly
  <2>2. ASSUME beforeMain = "loaded", NEW w \in {"dlls", "late dlls"}, dlls' = dlls \cup {w} PROVE DllInv'
    <3>1. "early" \in dlls' /\ "main" \in reachedPhases'
      BY <1>0, <1>1, <2>2 DEF DllInv
    <3> QED BY <1>1, <3>1 DEF DllInv, LaterDllsNeedEarly
  <2> QED BY <1>1, <2>1, <2>2
<1>2. CASE unloading = "no" /\ LoaderFrame
  <2>1. reachedPhases \subseteq reachedPhases'
    BY <1>0, <1>2 DEF LoaderFrame, EarlyInv, Early
  <2> QED BY <1>1, <1>2, <2>1 DEF LoaderFrame
<1>3. ASSUME unloading = "no", NEW a \in Advancers, ObserverFrame(a) PROVE DllInv'
  BY <1>1, <1>3 DEF ObserverFrame
<1>4. CASE unloading = "no" /\ GameFrame
  <2>1. ASSUME NEW a \in Advancers, Advances(a) PROVE DllInv'
    BY <1>1, <1>4, <2>1 DEF Advances, GameFrame
  <2>2. CASE LoadEarly
    <3>1. "main" \in reachedPhases
      BY <1>0, <1>4, <2>2, AdvancerPhases DEF LoadEarly, PhaseInv
    <3>2. UNCHANGED <<unloading, reachedPhases>>
      BY <2>2 DEF LoadEarly, loaderVars
    <3>3. CASE beforeMain' = "loaded" /\ dlls' = dlls \cup {"early"}
      BY <1>4, <3>1, <3>2, <3>3 DEF DllInv, LaterDllsNeedEarly
    <3>4. CASE beforeMain' = "failed" /\ UNCHANGED dlls
      BY <1>0, <1>4, <3>1, <3>2, <3>4 DEF DllInv, LaterDllsNeedEarly
    <3> QED BY <2>2, <3>3, <3>4 DEF LoadEarly
  <2>3. CASE UNCHANGED <<beforeMain, dlls>> /\ reachedPhases \subseteq reachedPhases'
    BY <1>1, <1>4, <2>3 DEF GameFrame
  <2>4. CASE InstallAssets \/ SettingsWorkerRuns \/ RegulationTick
    BY <2>3, <2>4 DEF InstallAssets, SettingsWorkerRuns, RegulationTick, dllVars, phaseVars
  <2>5. CASE SteamInit /\ "runtime" \in reachedPhases
    BY <2>3, <2>5 DEF SteamInit, dllVars
  <2>6. ASSUME NEW t \in InitThreads, Initialize(t), ~(props.hook = "on" /\ ~props.seen) PROVE DllInv'
    BY <2>3, <2>6 DEF Initialize, dllVars
  <2>7. ASSUME NEW t \in InitThreads, Initialized(t) PROVE DllInv'
    BY <2>3, <2>7 DEF Initialized, dllVars, phaseVars
  <2> QED BY <1>4, <2>1, <2>2, <2>4, <2>5, <2>6, <2>7 DEF GameFrame
<1>5. CASE UnloadAdapter
  BY <1>0, <1>5 DEF UnloadAdapter, DllInv, LaterDllsNeedEarly, phaseVars
<1>6. CASE UnloadCommon
  BY <1>0, <1>6 DEF UnloadCommon, DllInv, LaterDllsNeedEarly, phaseVars, dllVars
<1>7. CASE UnloadRest
  BY <1>0, <1>7 DEF UnloadRest, DllInv, LaterDllsNeedEarly, dllVars
<1> QED BY <1>2, <1>3, <1>4, <1>5, <1>6, <1>7, StepKinds

\* The assets come behind what was registered for the runtime phase.
LEMMA AssetsNext == ASSUME StartupInv, StartupNext PROVE AssetsInv'
<1>0. AssetsInv /\ PhaseInv /\ EarlyInv /\ DoingType
  BY DEF StartupInv, StartupTypes
<1> SUFFICES ASSUME "assets" \in installed' PROVE AssetsInv'
  BY DEF AssetsInv
<1>1. CASE unloading = "no" /\ LoaderFrame
  BY <1>0, <1>1 DEF LoaderFrame, AssetsInv, EarlyInv, Early
<1>2. ASSUME unloading = "no", NEW a \in Advancers, ObserverFrame(a) PROVE AssetsInv'
  <2>1. a # "steam"
    BY <1>0, <1>2 DEF ObserverFrame, AssetsInv, Resting
  <2>2. doing'["steam"] = doing["steam"]
    BY <1>2, <2>1, AdvancerPhases DEF ObserverFrame
  <2> QED BY <1>0, <1>2, <2>2 DEF ObserverFrame, AssetsInv
<1>3. CASE unloading = "no" /\ GameFrame
  <2>0. "before" \in Advancers /\ "steam" \in Advancers /\ unloading' = "no"
    BY <1>3, AdvancerPhases DEF GameFrame
  <2>1. ASSUME NEW a \in Advancers, Advances(a), "assets" \in installed, a = "steam" => "runtime" \notin reachedPhases
        PROVE AssetsInv'
    <3>1. a # "steam"
      BY <1>0, <2>1 DEF AssetsInv
    <3> QED BY <1>0, <2>0, <2>1, <3>1 DEF AssetsInv, Advances, DoingType
  <2>2. CASE LoadEarly
    BY <1>0, <2>0, <2>2 DEF LoadEarly, AssetsInv, Goes, DoingType
  <2>3. CASE InstallAssets
    <3>1. "runtime" \in reachedPhases'
      BY <1>0, <1>3, <2>0, <2>3, AdvancerPhases DEF InstallAssets, PhaseInv
    <3>2. doing'["steam"] \in {"idle", "over"}
      BY <1>0, <2>0, <2>3 DEF InstallAssets, Goes, DoingType
    <3> QED BY <2>0, <3>1, <3>2 DEF AssetsInv
  <2>4. CASE SteamInit /\ "runtime" \in reachedPhases
    BY <1>0, <2>0, <2>4 DEF SteamInit, AssetsInv, Goes, DoingType
  <2>5. CASE UNCHANGED <<installed, reachedPhases, doing>>
    BY <1>0, <2>0, <2>5 DEF AssetsInv
  <2>6. CASE SettingsWorkerRuns \/ RegulationTick
    BY <2>5, <2>6 DEF SettingsWorkerRuns, RegulationTick, phaseVars
  <2>7. ASSUME NEW t \in InitThreads, Initialize(t), ~(props.hook = "on" /\ ~props.seen) PROVE AssetsInv'
    BY <2>5, <2>7 DEF Initialize
  <2>8. ASSUME NEW t \in InitThreads, Initialized(t) PROVE AssetsInv'
    BY <2>5, <2>8 DEF Initialized, phaseVars
  <2> QED BY <1>3, <2>1, <2>2, <2>3, <2>4, <2>6, <2>7, <2>8 DEF GameFrame
<1>4. CASE UnloadAdapter
  BY <1>0, <1>4 DEF UnloadAdapter, AssetsInv, phaseVars
<1>5. CASE UnloadCommon
  BY <1>0, <1>5 DEF UnloadCommon, AssetsInv, phaseVars
<1>6. CASE UnloadRest
  BY <1>6 DEF UnloadRest
<1> QED BY <1>1, <1>2, <1>3, <1>4, <1>5, <1>6, StepKinds

\* Without a strategy nobody asks for CPU sets.
LEMMA CpuNext == ASSUME StartupInv, StartupNext PROVE CpuInv'
<1>0. CpuInv /\ DoingType /\ observers \in Seq(Observers)
  BY DEF StartupInv, StartupTypes
<1>1. UNCHANGED setting
  BY StepKinds DEF LoaderFrame, GameFrame, ObserverFrame, UnloadAdapter, UnloadCommon, UnloadRest
<1> SUFFICES ASSUME setting.cpu = 0 PROVE CpuInv'
  BY <1>1 DEF CpuInv
<1>2. DoneFor(observers, "cpu") = {} /\ settingsWorker # "running" /\ \A a \in Advancers : doing[a] # "cpu"
  BY <1>0 DEF CpuInv, Named
<1>3. DoneFor(observers', "cpu") = {}
  <2>1. ASSUME NEW o \in Observers, Adds(o), o.what # "cpu" PROVE DoneFor(observers', "cpu") = {}
    BY <1>0, <1>2, <2>1, AddsOne
  <2>2. ASSUME NEW a, NEW i \in DOMAIN observers, Calls(a, i) PROVE DoneFor(observers', "cpu") = {}
    BY <1>0, <1>2, <2>2, WithoutOne DEF Calls
  <2>3. CASE Schedules
    <3>1. PICK from \in 1..(Len(Wanted) + 1) : observers' = SubSeq(Wanted, from, Len(Wanted))
      BY <2>3 DEF Schedules
    <3> QED BY <3>1, WantedObservers, LastOnes
  <2>4. CASE UNCHANGED observers
    BY <1>2, <2>4
  <2>5. CASE UnloadRest
    <3>1. observers' = <<>>
      BY <2>5 DEF UnloadRest
    <3> QED BY <3>1 DEF DoneFor
  <2>6. CASE LoaderFrame
    BY <2>1, <2>3, <2>4, <2>6 DEF LoaderFrame
  <2>7. ASSUME NEW a \in Advancers, ObserverFrame(a) PROVE DoneFor(observers', "cpu") = {}
    BY <2>1, <2>2, <2>4, <2>7 DEF ObserverFrame
  <2> QED BY <2>4, <2>5, <2>6, <2>7, StepKinds DEF GameFrame, UnloadAdapter, UnloadCommon, phaseVars
<1>4. settingsWorker' # "running" /\ \A a \in Advancers : doing'[a] # "cpu"
  <2>1. CASE UNCHANGED <<settingsWorker, doing>>
    BY <1>2, <2>1
  <2>2. ASSUME NEW a \in Advancers, ObserverFrame(a)
        PROVE  settingsWorker' # "running" /\ \A b \in Advancers : doing'[b] # "cpu"
    <3>1. ASSUME NEW i \in DOMAIN observers, Calls(a, i) PROVE doing'[a] # "cpu"
      <4>1. observers[i].what # "cpu"
        BY <1>2 DEF DoneFor
      <4>2. doing'[a] = observers[i].what
        BY <1>0, <3>1 DEF Calls, DoingType
      <4> QED BY <4>1, <4>2
    <3>2. doing'[a] # "cpu"
      BY <2>2, <3>1 DEF ObserverFrame
    <3> QED BY <1>2, <2>2, <3>2 DEF ObserverFrame
  <2>3. ASSUME NEW a \in Advancers, NEW w \in Resting \cup {"next"}, doing' = [doing EXCEPT ![a] = w]
        PROVE  \A b \in Advancers : doing'[b] # "cpu"
    BY <1>0, <1>2, <2>3 DEF DoingType, Resting
  <2>4. CASE GameFrame
    <3>0. "before" \in Advancers /\ "steam" \in Advancers
      BY AdvancerPhases
    <3>1. ASSUME NEW a \in Advancers, Advances(a)
          PROVE  settingsWorker' # "running" /\ \A b \in Advancers : doing'[b] # "cpu"
      BY <1>2, <2>3, <3>1 DEF Advances
    <3>2. CASE LoadEarly \/ InstallAssets \/ (SteamInit /\ "runtime" \in reachedPhases)
      BY <1>2, <2>3, <3>0, <3>2 DEF LoadEarly, InstallAssets, SteamInit, Goes, Resting, partVars
    <3>3. CASE SettingsWorkerRuns
      BY <1>2, <3>3 DEF SettingsWorkerRuns
    <3>4. CASE RegulationTick
      BY <2>1, <3>4 DEF RegulationTick, phaseVars
    <3>5. ASSUME NEW t \in InitThreads, Initialize(t), ~(props.hook = "on" /\ ~props.seen)
          PROVE  settingsWorker' # "running" /\ \A b \in Advancers : doing'[b] # "cpu"
      BY <2>1, <3>5 DEF Initialize
    <3>6. ASSUME NEW t \in InitThreads, Initialized(t)
          PROVE  settingsWorker' # "running" /\ \A b \in Advancers : doing'[b] # "cpu"
      BY <2>1, <3>6 DEF Initialized, phaseVars
    <3> QED BY <2>4, <3>1, <3>2, <3>3, <3>4, <3>5, <3>6 DEF GameFrame
  <2>5. CASE UnloadCommon
    BY <1>2, <2>5 DEF UnloadCommon, phaseVars
  <2>6. CASE LoaderFrame \/ UnloadAdapter \/ UnloadRest
    BY <2>1, <2>6 DEF LoaderFrame, UnloadAdapter, UnloadRest, phaseVars, partVars
  <2> QED BY <2>2, <2>4, <2>5, <2>6, StepKinds
<1> QED BY <1>1, <1>3, <1>4 DEF CpuInv, Named

\* Where the threads of the runtime and the properties phase are as to the property.
SamePlaces ==
  /\ doing'["steam"] \in {"properties", "offline"} <=> doing["steam"] \in {"properties", "offline"}
  /\ doing'["steam"] = "offline" <=> doing["steam"] = "offline"
  /\ doing'["init"] = "set offline" <=> doing["init"] = "set offline"
\* The property is as it was, but for its hook.
SameProps == props'.setter = props.setter /\ props'.reported = props.reported /\ props'.set = props.set

\* Without a change to what is registered and done, the property stays as it is.
LEMMA OfflineSame ==
  ASSUME OfflineInv, SamePlaces, SameProps, unloading # "done",
         DoneFor(observers', "properties") = DoneFor(observers, "properties"),
         DoneFor(observers', "set offline") = DoneFor(observers, "set offline")
  PROVE  OfflineInv'
BY DEF OfflineInv, SamePlaces, SameProps, Asking, Hooking, Scheduled, BeingSet, Named

\* A step of a thread that is at neither.
LEMMA PlacesSame ==
  ASSUME DoingType, NEW a \in Advancers, NEW w \in Resting \cup {"next"},
         doing[a] \notin {"properties", "offline", "set offline"},
         doing' = [doing EXCEPT ![a] = w]
  PROVE  SamePlaces
<1>1. "steam" \in Advancers /\ "init" \in Advancers
  BY AdvancerPhases
<1>2. w \notin {"properties", "offline", "set offline"}
  BY DEF Resting
<1>3. doing'[a] = w /\ \A b \in Advancers \ {a} : doing'[b] = doing[b]
  BY DEF DoingType
<1>4. \A b \in Advancers : doing'[b] = doing[b] \/ (b = a /\ doing'[b] = w)
  BY <1>3
<1> QED BY <1>1, <1>2, <1>4 DEF SamePlaces

\* The thread of the runtime phase calls one observer, and so on.
LEMMA OfflineCalls ==
  ASSUME StartupTypes, OfflineInv, unloading # "done",
         NEW a \in Advancers, doing[a] = "next", NEW i \in DOMAIN observers, Calls(a, i)
  PROVE  OfflineInv'
<1>0. observers \in Seq(Observers) /\ DoingType /\ "steam" \in Advancers /\ "init" \in Advancers
  BY AdvancerPhases DEF StartupTypes
<1>1. PICK w : w = observers[i].what
  OBVIOUS
<1>2. UNCHANGED props /\ doing'[a] = w /\ \A b \in Advancers \ {a} : doing'[b] = doing[b]
  BY <1>0, <1>1 DEF Calls, DoingType
<1>3. /\ w = "properties" => a = "steam"
      /\ w = "set offline" => a = "init"
      /\ w \in Registrations
  BY <1>1, OwnObservers DEF Calls
<1>4. /\ \A x : DoneFor(observers, x) = {} => DoneFor(observers', x) = {}
      /\ \A x : AtMostOneOf(DoneFor(observers, x)) => AtMostOneOf(DoneFor(observers', x))
      /\ AtMostOneOf(DoneFor(observers, w)) => DoneFor(observers', w) = {}
      /\ \A x : DoneFor(observers, x) # {} /\ x # w => DoneFor(observers', x) # {}
  <2>1. PICK s, r : s = observers /\ r = RemoveAt(s, i)
    OBVIOUS
  <2>2. s \in Seq(Observers) /\ i \in DOMAIN s /\ observers' = r /\ w = s[i].what
    BY <1>0, <1>1, <2>1 DEF Calls
  <2>3. \A x : DoneFor(s, x) = {} => DoneFor(r, x) = {}
    BY ONLY <2>1, <2>2, WithoutOne
  <2>4. \A x : AtMostOneOf(DoneFor(s, x)) => AtMostOneOf(DoneFor(r, x))
    BY ONLY <2>1, <2>2, WithoutOne
  <2>5. AtMostOneOf(DoneFor(s, s[i].what)) => DoneFor(r, s[i].what) = {}
    BY ONLY <2>1, <2>2, WithoutOne
  <2>6. ASSUME NEW x, DoneFor(s, x) # {}, x # s[i].what PROVE DoneFor(r, x) # {}
    BY ONLY <2>1, <2>2, <2>6, WithoutOne
  <2> QED BY <2>1, <2>2, <2>3, <2>4, <2>5, <2>6
<1>5. DoneFor(observers, w) # {}
  BY <1>1 DEF DoneFor
<1> DEFINE P == DoneFor(observers, "properties")
           S == DoneFor(observers, "set offline")
           Pn == DoneFor(observers', "properties")
           Sn == DoneFor(observers', "set offline")
<1>6. /\ AtMostOneOf(P) /\ AtMostOneOf(S)
      /\ P # {} => ~Hooking
      /\ P # {} \/ Hooking => S = {} /\ ~BeingSet /\ ~props.reported /\ props.set = 0
      /\ S # {} => ~BeingSet
      /\ S # {} \/ BeingSet => props.setter /\ props.set = 0
      /\ doing["steam"] = "offline" => props.setter
      /\ props.reported /\ props.set = 0 => S # {} \/ BeingSet
  BY DEF OfflineInv, Asking, Scheduled, Named, AtMostOneOf
<1>7. AtMostOneOf(Pn) /\ AtMostOneOf(Sn)
  BY <1>4, <1>6
<1>8. SUFFICES ASSUME TRUE
      PROVE  /\ Pn # {} => ~Hooking'
             /\ Pn # {} \/ Hooking' => Sn = {} /\ ~BeingSet' /\ ~props.reported /\ props.set = 0
             /\ Sn # {} => ~BeingSet'
             /\ Sn # {} \/ BeingSet' => props.setter /\ props.set = 0
             /\ doing'["steam"] = "offline" => props.setter
             /\ props.reported /\ props.set = 0 => Sn # {} \/ BeingSet'
  BY <1>2, <1>7 DEF OfflineInv, Asking, Scheduled, Named, AtMostOneOf
<1>9. w # "offline" /\ doing[a] = "next"
  BY <1>3 DEF Registrations
<1>10. CASE w = "properties"
  <2>1. Hooking' /\ Pn = {} /\ doing'["steam"] # "offline" /\ P # {}
    BY <1>2, <1>3, <1>4, <1>5, <1>6, <1>10 DEF Hooking
  <2>2. S = {} /\ Sn = {} /\ ~BeingSet /\ ~props.reported /\ props.set = 0
    BY <1>4, <1>6, <2>1
  <2>3. ~BeingSet'
    BY <1>0, <1>2, <1>3, <1>10, <2>2 DEF BeingSet
  <2> QED BY <2>1, <2>2, <2>3
<1>11. CASE w = "set offline"
  <2>1. BeingSet' /\ Sn = {} /\ S # {}
    BY <1>2, <1>3, <1>4, <1>5, <1>6, <1>11 DEF BeingSet
  <2>2. P = {} /\ Pn = {} /\ ~Hooking
    BY <1>4, <1>6, <2>1
  <2>3. ~Hooking' /\ doing'["steam"] = doing["steam"]
    BY <1>0, <1>2, <1>3, <1>11, <2>2 DEF Hooking
  <2> QED BY <1>6, <2>1, <2>2, <2>3
<1>12. CASE w \notin {"properties", "set offline"}
  <2>1. (Hooking' <=> Hooking) /\ (BeingSet' <=> BeingSet)
        /\ (doing'["steam"] = "offline" <=> doing["steam"] = "offline")
    BY <1>0, <1>2, <1>9, <1>12 DEF Hooking, BeingSet
  <2>2. (Pn = {} <=> P = {}) /\ (Sn = {} <=> S = {})
    BY <1>4, <1>12
  <2> QED BY <1>6, <2>1, <2>2
<1> QED BY <1>10, <1>11, <1>12

\* The property is scheduled and set once, and reported when it is, whoever reaches the
\* initializer meanwhile.
LEMMA OfflineObserver ==
  ASSUME StartupTypes, OfflineInv, unloading = "no", NEW a \in Advancers, ObserverStep(a), ObserverFrame(a)
  PROVE  OfflineInv'
<1>0. /\ observers \in Seq(Observers) /\ DoingType /\ PropsType /\ "steam" \in Advancers
      /\ "init" \in Advancers /\ unloading' = "no"
  BY AdvancerPhases DEF StartupTypes, ObserverFrame
<1>1. ASSUME doing[a] \notin {"properties", "offline", "set offline"}, doing' = [doing EXCEPT ![a] = "next"],
             UNCHANGED props, UNCHANGED observers
      PROVE  OfflineInv'
  BY <1>0, <1>1, PlacesSame, OfflineSame DEF SameProps
<1>2. CASE CallNext(a)
  <2>1. CASE observers' = observers /\ doing' = [doing EXCEPT ![a] = "advanced"]
    <3>1. doing[a] = "next" /\ UNCHANGED props
      BY <1>2 DEF CallNext, partVars
    <3>2. SamePlaces
      BY <1>0, <2>1, <3>1, PlacesSame DEF Resting
    <3> QED BY <1>0, <2>1, <3>1, <3>2, OfflineSame DEF SameProps
  <2>2. ASSUME NEW i \in DOMAIN observers, Calls(a, i) PROVE OfflineInv'
    BY <1>2, <2>2, OfflineCalls DEF CallNext
  <2> QED BY <1>0, <1>2, <2>1, <2>2, Calling
<1>3. ASSUME NEW what \in {"logo", "data hook", "allocator tables"}, InstallFeature(a, what) PROVE OfflineInv'
  BY <1>1, <1>3 DEF InstallFeature, Goes, partVars
<1>4. CASE InstallAllocator(a)
  <2>1. doing[a] = "allocator" /\ doing' = [doing EXCEPT ![a] = "next"] /\ UNCHANGED props
    BY <1>4 DEF InstallAllocator, Goes, partVars
  <2>2. SamePlaces
    BY <1>0, <2>1, PlacesSame
  <2>3. ASSUME NEW o \in Observers, Adds(o), o.what = "allocator tables" PROVE OfflineInv'
    <3>1. \A w : w # o.what => DoneFor(observers', w) = DoneFor(observers, w)
      BY <1>0, <2>3, AddsOne
    <3> QED BY <1>0, <2>1, <2>2, <2>3, <3>1, OfflineSame DEF SameProps
  <2>4. Registers("runtime", "allocator tables") \/ UNCHANGED observers
    BY <1>4 DEF InstallAllocator, Refused
  <2>5. PICK o : o = [phase |-> "runtime", what |-> "allocator tables"]
    OBVIOUS
  <2>6. o \in Observers /\ o.what = "allocator tables"
    BY <2>5 DEF Observers, Phases, Registrations
  <2>7. UNCHANGED observers \/ Adds(o)
    BY <2>4, <2>5, <2>6 DEF Registers, Adds
  <2> QED BY <1>1, <2>1, <2>3, <2>6, <2>7
<1>5. CASE StartSettingsWorker(a)
  BY <1>1, <1>5 DEF StartSettingsWorker, Goes
<1>6. CASE InstallRegulation(a)
  BY <1>1, <1>6 DEF InstallRegulation, Goes
<1>7. ASSUME NEW what \in {"dlls", "late dlls"}, LoadDlls(a, what) PROVE OfflineInv'
  BY <1>1, <1>7 DEF LoadDlls, Goes, partVars
<1>8. CASE HookProperties(a)
  <2>1. /\ a = "steam" /\ doing["steam"] = "properties" /\ UNCHANGED observers
    BY <1>0, <1>8 DEF HookProperties, DoingType
  <2>2. DoneFor(observers, "properties") = {} /\ DoneFor(observers, "set offline") = {} /\ ~BeingSet /\ ~props.reported
        /\ props.set = 0
    BY <2>1 DEF OfflineInv, Asking, Hooking, Scheduled, Named
  <2>3. /\ props'.reported = props.reported /\ props'.set = props.set
        /\ doing' = [doing EXCEPT !["steam"] = "next"]
           \/ (doing' = [doing EXCEPT !["steam"] = "offline"] /\ props'.setter)
    BY <1>0, <1>8, <2>1 DEF HookProperties, PropsType, Goes
  <2>4. doing'["steam"] \in {"next", "offline"} /\ doing'["init"] = doing["init"]
        /\ (doing'["steam"] = "offline" => props'.setter)
    BY <1>0, <2>3 DEF DoingType
  <2> QED BY <2>1, <2>2, <2>3, <2>4 DEF OfflineInv, Asking, Hooking, Scheduled, BeingSet, Named
<1>9. CASE ScheduleOffline(a)
  <2>1. a = "steam" /\ doing["steam"] = "offline" /\ doing' = [doing EXCEPT !["steam"] = "next"]
    BY <1>0, <1>9 DEF ScheduleOffline, DoingType, Goes
  <2>2. DoneFor(observers, "properties") = {} /\ DoneFor(observers, "set offline") = {} /\ ~BeingSet /\ ~props.reported
        /\ props.set = 0 /\ props.setter
    BY <2>1 DEF OfflineInv, Asking, Hooking, Scheduled, Named
  <2>3. doing'["steam"] = "next" /\ doing'["init"] = doing["init"]
    BY <1>0, <2>1 DEF DoingType
  <2>4. CASE UNCHANGED <<observers, props>>
    BY <2>2, <2>3, <2>4 DEF OfflineInv, Asking, Hooking, Scheduled, BeingSet, Named
  <2>5. CASE Registers("properties", "set offline") /\ props' = [props EXCEPT !.reported = TRUE]
    <3>1. PICK o : o = [phase |-> "properties", what |-> "set offline"]
      OBVIOUS
    <3>2. o \in Observers /\ o.what = "set offline"
      BY <3>1 DEF Observers, Phases, Registrations
    <3>3. Adds(o)
      BY <2>5, <3>1, <3>2 DEF Registers, Adds
    <3>4. \A w : w # "set offline" => DoneFor(observers', w) = DoneFor(observers, w)
      BY <1>0, <3>2, <3>3, AddsOne
    <3>5. DoneFor(observers', "set offline") = {Len(observers) + 1}
      BY <1>0, <2>2, <3>2, <3>3, AddsOne
    <3>6. /\ DoneFor(observers', "properties") = {} /\ DoneFor(observers', "set offline") # {}
          /\ \A i, j \in DoneFor(observers', "set offline") : i = j
      BY <2>2, <3>4, <3>5
    <3>7. props'.setter /\ props'.set = 0
      BY <1>0, <2>2, <2>5 DEF PropsType
    <3> QED BY <2>2, <2>3, <3>6, <3>7 DEF OfflineInv, Asking, Hooking, Scheduled, BeingSet, Named
  <2> QED BY <1>9, <2>4, <2>5 DEF ScheduleOffline, Refused
<1>10. CASE SetOffline(a)
  <2>1. a = "init" /\ doing["init"] = "set offline" /\ doing' = [doing EXCEPT !["init"] = "next"]
        /\ UNCHANGED observers
    BY <1>0, <1>10 DEF SetOffline, DoingType, Goes
  <2>2. /\ DoneFor(observers, "properties") = {} /\ DoneFor(observers, "set offline") = {} /\ ~Hooking
        /\ props.set = 0 /\ props.setter
    BY <2>1 DEF OfflineInv, Asking, Scheduled, BeingSet, Named
  <2>3. props' = [props EXCEPT !.set = 1]
    <3>1. props' = [props EXCEPT !.set = IF props.setter THEN props.set + 1 ELSE props.set]
      BY <1>10 DEF SetOffline
    <3>2. props.setter /\ props.set = 0
      BY <2>2
    <3> QED BY ONLY <3>1, <3>2
  <2>4. props'.set = 1 /\ doing'["init"] = "next" /\ doing'["steam"] = doing["steam"]
    BY <1>0, <2>1, <2>3 DEF DoingType, PropsType
  <2>5. DoneFor(observers', "properties") = {} /\ DoneFor(observers', "set offline") = {} /\ ~Hooking' /\ ~BeingSet'
    BY <2>1, <2>2, <2>4 DEF Hooking, BeingSet
  <2>6. props'.set # 0 /\ doing'["steam"] # "offline"
    <3>1. doing'["steam"] # "offline"
      BY <2>2, <2>4 DEF Hooking
    <3>2. props'.set = 1
      BY <2>4
    <3> QED BY ONLY <3>1, <3>2
  <2> QED BY ONLY <2>5, <2>6 DEF OfflineInv, Asking, Scheduled, Hooking, BeingSet, Named
<1> QED BY <1>2, <1>3, <1>4, <1>5, <1>6, <1>7, <1>8, <1>9, <1>10 DEF ObserverStep

\* A step keeps the property hooked, scheduled and set at most once, in that order.
LEMMA OfflineNext == ASSUME StartupInv, StartupNext PROVE OfflineInv'
<1>0. /\ StartupTypes /\ OfflineInv /\ EarlyInv /\ observers \in Seq(Observers) /\ DoingType /\ PropsType
      /\ "steam" \in Advancers /\ "init" \in Advancers /\ "before" \in Advancers
  BY AdvancerPhases DEF StartupInv, StartupTypes
<1>1. ASSUME UNCHANGED <<doing, props, observers>>, unloading # "done" PROVE OfflineInv'
  BY <1>0, <1>1, OfflineSame DEF SamePlaces, SameProps
<1>2. CASE unloading = "no" /\ LoaderFrame
  <2>1. CASE Schedules
    <3>1. PICK from \in 1..(Len(Wanted) + 1) : observers' = SubSeq(Wanted, from, Len(Wanted))
      BY <2>1 DEF Schedules
    <3>2. PICK s, r : s = Wanted /\ r = SubSeq(s, from, Len(s))
      OBVIOUS
    <3>3. s \in Seq(Observers) /\ AtMostOneOf(DoneFor(s, "properties")) /\ DoneFor(s, "set offline") = {}
      BY <3>2, WantedObservers
    <3>4. AtMostOneOf(DoneFor(r, "properties")) /\ DoneFor(r, "set offline") = {}
      BY <3>2, <3>3, LastOnes
    <3>5. /\ AtMostOneOf(DoneFor(observers', "properties")) /\ DoneFor(observers', "set offline") = {}
      BY <3>1, <3>2, <3>4
    <3>6. /\ doing'["steam"] = "idle" /\ doing'["init"] = "idle" /\ ~props'.reported /\ props'.set = 0
      BY <1>0, <1>2, <2>1 DEF EarlyInv, Early, Schedules, LoaderFrame
    <3> QED BY <3>5, <3>6 DEF OfflineInv, Asking, Hooking, Scheduled, BeingSet, Named, AtMostOneOf
  <2>2. ASSUME NEW o \in Observers, Adds(o), o.what \in {"dlls", "late dlls"} PROVE OfflineInv'
    <3>1. \A w : w # o.what => DoneFor(observers', w) = DoneFor(observers, w)
      BY <1>0, <2>2, AddsOne
    <3>2. UNCHANGED <<doing, props>>
      BY <1>2 DEF LoaderFrame
    <3> QED BY <1>0, <1>2, <2>2, <3>1, <3>2, OfflineSame DEF SamePlaces, SameProps
  <2> QED BY <1>1, <1>2, <2>1, <2>2 DEF LoaderFrame
<1>3. ASSUME unloading = "no", NEW a \in Advancers, ObserverStep(a), ObserverFrame(a) PROVE OfflineInv'
  BY <1>0, <1>3, OfflineObserver
<1>4. CASE unloading = "no" /\ GameFrame
  <2>0. UNCHANGED observers
    BY <1>4 DEF GameFrame
  <2>1. ASSUME NEW a \in Advancers, doing[a] \in Resting, NEW w \in Resting \cup {"next"},
               doing' = [doing EXCEPT ![a] = w], SameProps
        PROVE  OfflineInv'
    <3>1. SamePlaces
      BY <1>0, <2>1, PlacesSame DEF Resting
    <3> QED BY <1>0, <1>4, <2>0, <2>1, <3>1, OfflineSame
  <2>2. ASSUME NEW a \in Advancers, Advances(a) PROVE OfflineInv'
    <3>1. SameProps
      <4>1. CASE UNCHANGED props
        BY <4>1 DEF SameProps
      <4>2. ASSUME NEW t \in InitThreads, Initialize(t) PROVE SameProps
        <5>1. props' = props \/ props' = [props EXCEPT !.seen = TRUE]
          BY <4>2 DEF Initialize
        <5> QED BY <1>0, <5>1 DEF SameProps, PropsType
      <4> QED BY <2>2, <4>1, <4>2 DEF Advances
    <3> QED BY <2>1, <2>2, <3>1 DEF Advances, Resting
  <2>3. CASE LoadEarly
    BY <1>0, <2>1, <2>3 DEF LoadEarly, Goes, Resting, partVars, SameProps
  <2>4. CASE InstallAssets
    BY <1>0, <2>1, <2>4 DEF InstallAssets, Goes, Resting, partVars, SameProps
  <2>5. CASE SteamInit /\ "runtime" \in reachedPhases
    BY <1>0, <2>1, <2>5 DEF SteamInit, Goes, Resting, partVars, SameProps
  <2>6. CASE UNCHANGED <<doing, props>>
    BY <1>1, <1>4, <2>0, <2>6
  <2>7. CASE SettingsWorkerRuns \/ RegulationTick
    BY <2>6, <2>7 DEF SettingsWorkerRuns, RegulationTick, phaseVars
  <2>8. ASSUME NEW t \in InitThreads, Initialize(t), ~(props.hook = "on" /\ ~props.seen) PROVE OfflineInv'
    BY <2>6, <2>8 DEF Initialize
  <2>9. ASSUME NEW t \in InitThreads, Initialized(t) PROVE OfflineInv'
    <3>1. props' = props \/ props' = [props EXCEPT !.hook = "off"]
      BY <2>9 DEF Initialized
    <3>2. SameProps /\ SamePlaces
      BY <1>0, <2>9, <3>1 DEF SameProps, PropsType, SamePlaces, Initialized, phaseVars
    <3> QED BY <1>0, <1>4, <2>0, <3>2, OfflineSame
  <2> QED BY <1>4, <2>2, <2>3, <2>4, <2>5, <2>7, <2>8, <2>9 DEF GameFrame
<1>5. CASE UnloadAdapter
  BY <1>1, <1>5 DEF UnloadAdapter, phaseVars, partVars
<1>6. CASE UnloadCommon
  BY <1>1, <1>6 DEF UnloadCommon, phaseVars
<1>7. CASE UnloadRest
  <2>1. /\ observers' = <<>> /\ UNCHANGED doing /\ unloading' = "done"
        /\ props' = [props EXCEPT !.hook = "none"]
    BY <1>7 DEF UnloadRest
  <2>2. SameProps
    BY <1>0, <2>1 DEF SameProps, PropsType
  <2>3. \A w : DoneFor(observers', w) = {}
    BY <2>1 DEF DoneFor
  <2> QED BY <1>0, <2>1, <2>2, <2>3 DEF OfflineInv, Asking, Hooking, Scheduled, BeingSet, Named,
             SameProps
<1> QED BY <1>2, <1>3, <1>4, <1>5, <1>6, <1>7, StepKinds

\* One thread advances the phase of the initializer, the first in its hook.
LEMMA FirstNext == ASSUME StartupInv, StartupNext PROVE FirstInv'
<1>0. /\ FirstInv /\ EarlyInv /\ observers \in Seq(Observers) /\ DoingType /\ PropsType /\ StageType
      /\ "steam" \in Advancers /\ "init" \in Advancers /\ "before" \in Advancers
  BY AdvancerPhases DEF StartupInv, StartupTypes
<1>1. ASSUME UNCHANGED initAt, props'.seen = props.seen, doing'["init"] = doing["init"] PROVE FirstInv'
  BY <1>0, <1>1 DEF FirstInv
<1>2. CASE LoaderFrame
  BY <1>1, <1>2 DEF LoaderFrame
<1>3. ASSUME NEW a \in Advancers, ObserverStep(a), ObserverFrame(a) PROVE FirstInv'
  <2>1. props'.seen = props.seen
    <3>1. \/ UNCHANGED props
          \/ props' = [props EXCEPT !.setter = TRUE]
          \/ props' = [props EXCEPT !.setter = TRUE, !.hook = "on"]
          \/ props' = [props EXCEPT !.reported = TRUE]
          \/ \E n : props' = [props EXCEPT !.set = n]
      BY <1>3 DEF ObserverFrame, HookProperties, ScheduleOffline, SetOffline
    <3> QED BY <1>0, <3>1 DEF PropsType
  <2>2. UNCHANGED initAt
    BY <1>3 DEF ObserverFrame
  <2>3. CASE a # "init"
    BY <1>0, <1>1, <1>3, <2>1, <2>2, <2>3 DEF ObserverFrame
  <2>4. CASE a = "init"
    <3>1. doing["init"] \notin Resting
      BY <1>3, <2>4 DEF ObserverFrame
    <3>2. \A t \in InitThreads : initAt[t] # "after"
      BY <1>0, <3>1 DEF FirstInv, Resting
    <3>3. props.seen
      BY <1>0, <3>1 DEF FirstInv, Resting
    <3>4. doing'["init"] # "idle"
      <4>1. ASSUME NEW i \in DOMAIN observers, Calls(a, i) PROVE doing'["init"] # "idle"
        <5>1. doing'[a] = observers[i].what /\ observers[i].what \in Registrations
          BY <1>0, <4>1 DEF Calls, DoingType, Observers
        <5> QED BY <2>4, <5>1 DEF Registrations
      <4> QED BY <1>3, <2>4, <4>1 DEF ObserverFrame
    <3> QED BY <1>0, <2>1, <2>2, <3>2, <3>3, <3>4 DEF FirstInv
  <2> QED BY <2>3, <2>4
<1>4. CASE GameFrame
  <2>1. ASSUME NEW a \in Advancers, Advances(a) PROVE FirstInv'
    <3>1. doing[a] = "idle" /\ doing' = [doing EXCEPT ![a] = "next"]
      BY <2>1 DEF Advances
    <3>2. CASE a # "init"
      BY <1>0, <1>1, <2>1, <3>1, <3>2 DEF Advances, DoingType
    <3>3. CASE a = "init"
      <4>1. PICK t \in InitThreads : Initialize(t) /\ props.hook = "on" /\ ~props.seen
        BY <2>1, <3>3 DEF Advances
      <4>2. props' = [props EXCEPT !.seen = TRUE] /\ initAt' = [initAt EXCEPT ![t] = "first"]
        BY <4>1 DEF Initialize
      <4>3. props'.seen /\ doing'["init"] = "next"
        BY <1>0, <3>1, <3>3, <4>2 DEF PropsType, DoingType
      <4>4. \A u \in InitThreads : initAt[u] # "after"
        BY <1>0, <4>1 DEF FirstInv
      <4>5. \A u \in InitThreads : initAt'[u] # "after"
        BY <1>0, <4>2, <4>4 DEF StageType
      <4> QED BY <4>3, <4>5 DEF FirstInv
    <3> QED BY <3>2, <3>3
  <2>2. CASE LoadEarly
    BY <1>0, <1>1, <2>2 DEF LoadEarly, Goes, partVars, DoingType
  <2>3. CASE InstallAssets
    BY <1>0, <1>1, <2>3 DEF InstallAssets, Goes, partVars, DoingType
  <2>4. CASE SteamInit /\ "runtime" \in reachedPhases
    BY <1>0, <1>1, <2>4 DEF SteamInit, Goes, partVars, DoingType
  <2>5. CASE SettingsWorkerRuns \/ RegulationTick
    BY <1>1, <2>5 DEF SettingsWorkerRuns, RegulationTick, phaseVars
  <2>6. ASSUME NEW t \in InitThreads, Initialize(t), ~(props.hook = "on" /\ ~props.seen) PROVE FirstInv'
    <3>1. UNCHANGED <<doing, props>> /\ initAt' = [initAt EXCEPT ![t] = "past"]
      BY <2>6 DEF Initialize
    <3>2. \A u \in InitThreads : initAt'[u] = initAt[u] \/ initAt'[u] = "past"
      BY <1>0, <3>1 DEF StageType
    <3> QED BY <1>0, <3>1, <3>2 DEF FirstInv
  <2>7. ASSUME NEW t \in InitThreads, Initialized(t) PROVE FirstInv'
    <3>1. /\ UNCHANGED doing /\ initAt[t] = "first" /\ doing["init"] = "advanced"
          /\ initAt' = [initAt EXCEPT ![t] = "after"]
          /\ props' = props \/ props' = [props EXCEPT !.hook = "off"]
      BY <2>7 DEF Initialized, phaseVars
    <3>2. props'.seen = props.seen
      BY <1>0, <3>1 DEF PropsType
    <3>3. \A u \in InitThreads : initAt'[u] = initAt[u] \/ initAt'[u] = "after"
      BY <1>0, <3>1 DEF StageType
    <3>4. props.seen
      BY <1>0, <3>1 DEF FirstInv
    <3> QED BY <1>0, <3>1, <3>2, <3>3, <3>4 DEF FirstInv
  <2> QED BY <1>4, <2>1, <2>2, <2>3, <2>4, <2>5, <2>6, <2>7 DEF GameFrame
<1>5. CASE UnloadAdapter
  BY <1>1, <1>5 DEF UnloadAdapter, phaseVars, partVars
<1>6. CASE UnloadCommon
  BY <1>1, <1>6 DEF UnloadCommon, phaseVars
<1>7. CASE UnloadRest
  <2>1. props' = [props EXCEPT !.hook = "none"] /\ UNCHANGED <<initAt, doing>>
    BY <1>7 DEF UnloadRest
  <2>2. props'.seen = props.seen
    BY <1>0, <2>1 DEF PropsType
  <2> QED BY <1>1, <2>1, <2>2
<1> QED BY <1>2, <1>3, <1>4, <1>5, <1>6, <1>7, StepKinds

\* Behind the initializer the property is set, where it was reported.
LEMMA AppliedNext == ASSUME StartupInv, StartupNext PROVE OfflineIsApplied'
<1>0. OfflineInv' /\ FirstInv' /\ PhaseInv' /\ PropsType' /\ StageType' /\ observers' \in Seq(Observers)
  BY OfflineNext, FirstNext, PhaseNext, PropsTypeNext, StageTypeNext, ObserversNext
<1>1. CASE unloading' # "done"
  <2> SUFFICES ASSUME NEW t \in InitThreads, props'.reported, initAt'[t] = "after" PROVE props'.set = 1
    BY DEF OfflineIsApplied
  <2> SUFFICES ASSUME props'.set # 1 PROVE FALSE
    OBVIOUS
  <2>1. props'.set = 0
    BY <1>0 DEF PropsType
  <2>2. doing'["init"] = "advanced" /\ "init" \in Advancers
    BY <1>0, AdvancerPhases DEF FirstInv
  <2>3. PICK i \in DOMAIN observers' : observers'[i].what = "set offline"
    BY <1>0, <1>1, <2>1, <2>2 DEF OfflineInv, Scheduled, BeingSet, Named, DoneFor
  <2>4. observers'[i].phase = "properties"
    <3>0. observers' \in Seq(Observers)
      BY ObserversNext
    <3>1. PICK s : s = observers'
      OBVIOUS
    <3>2. s \in Seq(Observers) /\ i \in DOMAIN s
      BY <2>3, <3>0, <3>1
    <3>3. s[i] \in Observers
      BY ONLY <3>2
    <3> QED BY <2>3, <3>1, <3>3 DEF Observers
  <2>5. PhaseOf["init"] = "properties" /\ PhaseOf["init"] \in reachedPhases'
    BY <1>0, <1>1, <2>2, AdvancerPhases DEF PhaseInv
  <2>6. Mine("init")' = {}
    BY <1>0, <1>1, <2>2, <2>5 DEF PhaseInv, Resting
  <2> QED BY <2>3, <2>4, <2>5, <2>6 DEF Mine
<1>2. CASE unloading' = "done"
  <2>0. unloading \in {"no", "adapter", "common", "done"} /\ OfflineIsApplied /\ PropsType
    BY DEF StartupInv, StartupTypes, StageType
  <2>1. UnloadRest
    BY <1>2, <2>0, StepKinds DEF LoaderFrame, GameFrame, ObserverFrame, UnloadAdapter, UnloadCommon
  <2>2. UNCHANGED initAt /\ props' = [props EXCEPT !.hook = "none"]
    BY <2>1 DEF UnloadRest
  <2>3. props'.reported = props.reported /\ props'.set = props.set
    BY <2>0, <2>2 DEF PropsType
  <2> QED BY <2>0, <2>2, <2>3 DEF OfflineIsApplied
<1> QED BY <1>1, <1>2

\* A process starts in the invariant.
LEMMA StartupInvInit == ASSUME StartupInit PROVE StartupInv
<1>0. /\ Advancers = {"before", "steam", "init", "render", "data"}
      /\ doing = [a \in Advancers |-> "idle"] /\ observers = <<>>
  BY AdvancerPhases DEF StartupInit
<1>1. StageType
  BY DEF StartupInit, StageType, LoaderPlaces
<1>2. DoingType
  BY <1>0 DEF DoingType, Resting
<1>3. ImeType /\ ImePatchIsRemembered
  BY DEF StartupInit, ImeType, ImePatchIsRemembered
<1>4. PropsType
  BY DEF StartupInit, PropsType
<1>5. RegulationType
  BY DEF StartupInit, RegulationType
<1>6. observers \in Seq(Observers)
  BY <1>0
<1>7. EarlyInv
  BY <1>0 DEF StartupInit, EarlyInv
<1>8. PhaseInv
  BY <1>0 DEF StartupInit, PhaseInv
<1>9. DllInv
  BY DEF StartupInit, DllInv, LaterDllsNeedEarly
<1>10. AssetsInv
  BY DEF StartupInit, AssetsInv
<1>11. \A w : Named(w) = {}
  BY <1>0 DEF Named, DoneFor
<1>12. CpuInv
  BY <1>0, <1>11 DEF StartupInit, CpuInv
<1>13. OfflineInv
  BY <1>0, <1>11 DEF StartupInit, OfflineInv, Asking, Hooking, Scheduled, BeingSet
<1>14. FirstInv
  BY <1>0 DEF StartupInit, FirstInv
<1>15. OfflineIsApplied
  BY DEF StartupInit, OfflineIsApplied
<1> QED BY <1>1, <1>2, <1>3, <1>4, <1>5, <1>6, <1>7, <1>8, <1>9, <1>10, <1>12, <1>13, <1>14, <1>15
    DEF StartupInv, StartupTypes

\* Every step of the set-up keeps the invariant.
LEMMA StartupInvNext == ASSUME StartupInv, StartupNext PROVE StartupInv'
BY StageTypeNext, ObserversNext, DoingTypeNext, ImeNext, PropsTypeNext, RegulationTypeNext,
   EarlyNext, PhaseNext,
   DllNext, AssetsNext, CpuNext, OfflineNext, FirstNext, AppliedNext DEF StartupInv, StartupTypes

\* So does a step of something else.
LEMMA StartupInvStutters == ASSUME StartupInv, UNCHANGED startupVars PROVE StartupInv'
<1>0. UNCHANGED startupVars
  OBVIOUS
<1>1. UNCHANGED <<setting, loader, reachedPhases, observers, doing, beforeMain, dlls, installed, steamState>>
  BY <1>0 DEF startupVars
<1>2. UNCHANGED <<settingsWorker, ime, props, initAt, regulation, unloading>>
  BY <1>0 DEF startupVars
<1>3. StartupTypes'
  <2>0. StartupTypes
    BY DEF StartupInv
  <2>1. StageType'
    BY <1>1, <1>2, <2>0 DEF StartupTypes, StageType
  <2>2. DoingType' /\ observers' \in Seq(Observers)
    BY <1>1, <2>0 DEF StartupTypes, DoingType
  <2>3. (ImeType /\ PropsType /\ RegulationType)'
    BY <1>2, <2>0 DEF StartupTypes, ImeType, PropsType, RegulationType
  <2> QED BY <2>1, <2>2, <2>3 DEF StartupTypes
<1>4. EarlyInv'
  BY <1>1, <1>2 DEF StartupInv, EarlyInv
<1>5. (PhaseInv /\ DllInv /\ AssetsInv)'
  BY <1>1, <1>2 DEF StartupInv, PhaseInv, Mine, DllInv, LaterDllsNeedEarly, AssetsInv
<1>6. CpuInv'
  BY <1>1, <1>2 DEF StartupInv, CpuInv, Named
<1>7. OfflineInv'
  BY <1>1, <1>2 DEF StartupInv, OfflineInv, Asking, Hooking, Scheduled, BeingSet, Named
<1>8. (FirstInv /\ OfflineIsApplied /\ ImePatchIsRemembered)'
  BY <1>1, <1>2 DEF StartupInv, FirstInv, OfflineIsApplied, ImePatchIsRemembered
<1> QED BY <1>3, <1>4, <1>5, <1>6, <1>7, <1>8 DEF StartupInv

----------------------------------------------------------------------------
(* CPU sets: what a strategy selects.                                     *)

\* The largest of some classes is one of them.
LEMMA GreatestClass ==
  ASSUME NEW S, S \subseteq 0..255, S # {}
  PROVE  \E c \in S : \A d \in S : d <= c
<1> DEFINE T == {255 - c : c \in S}
<1>1. T \subseteq Nat /\ T # {}
  <2>1. ASSUME NEW c \in S PROVE c \in Int /\ 0 <= c /\ c <= 255
    OBVIOUS
  <2>2. ASSUME NEW c \in S PROVE 255 - c \in Nat
    BY <2>1
  <2> QED BY <2>2
<1>2. FirstOf(T) \in T /\ \A j \in T : FirstOf(T) <= j
  BY <1>1, LeastOf
<1>3. PICK c \in S : FirstOf(T) = 255 - c
  BY <1>2
<1>5. ASSUME NEW d \in S PROVE d <= c
  <2>1. 255 - c <= 255 - d
    BY <1>2, <1>3
  <2> QED BY <2>1
<1> QED BY <1>5

\* The smallest of some numbers is one of them.
LEMMA LeastIn ==
  ASSUME NEW S, S \subseteq Nat, S # {}
  PROVE  \E c \in S : \A d \in S : c <= d
BY LeastOf

\* The CPU sets of a machine.
LEMMA MachineSets ==
  ASSUME machine \in Machines
  PROVE  /\ machine \subseteq CpuSets
         /\ \A s, t \in machine : s.id = t.id => s = t
         /\ \A s \in machine : s.id \in Nat /\ s.group \in Nat /\ s.index \in Nat /\ s.class \in 0..255
<1>1. machine \subseteq CpuSets /\ \A s, t \in machine : s.id = t.id => s = t
  BY MachinesAssumption
<1>2. ASSUME NEW s \in machine
      PROVE  s.id \in Nat /\ s.group \in Nat /\ s.index \in Nat /\ s.class \in 0..255
  <2>1. s \in CpuSets
    BY <1>1
  <2>2. s.id \in Nat
    BY <2>1 DEF CpuSets
  <2>3. s.group \in Nat
    BY <2>1 DEF CpuSets
  <2>4. s.index \in 0..255
    BY <2>1 DEF CpuSets
  <2>5. s.class \in 0..255
    BY <2>1 DEF CpuSets
  <2>7. s.index \in Nat
    BY ONLY <2>4
  <2> QED BY <2>2, <2>3, <2>5, <2>7
<1> QED BY <1>1, <1>2

\* Among CPU sets of one machine there is a lowest one, by group, index and id.
LEMMA LowestExists ==
  ASSUME machine \in Machines, NEW M, M \subseteq machine, M # {}
  PROVE  \E s \in M : \A t \in M : ~LowerCpu(t, s)
<1>0. \A s \in M : s.id \in Nat /\ s.group \in Nat /\ s.index \in Nat
  BY MachineSets
<1>1. PICK g \in {s.group : s \in M} : \A d \in {s.group : s \in M} : g <= d
  <2>1. {s.group : s \in M} \subseteq Nat /\ {s.group : s \in M} # {}
    BY <1>0
  <2> QED BY <2>1, LeastIn
<1> DEFINE G == {s \in M : s.group = g}
<1>2. PICK x \in {s.index : s \in G} : \A d \in {s.index : s \in G} : x <= d
  <2>1. {s.index : s \in G} \subseteq Nat /\ {s.index : s \in G} # {}
    BY <1>0, <1>1
  <2> QED BY <2>1, LeastIn
<1> DEFINE I == {s \in G : s.index = x}
<1>3. PICK n \in {s.id : s \in I} : \A d \in {s.id : s \in I} : n <= d
  <2>1. {s.id : s \in I} \subseteq Nat /\ {s.id : s \in I} # {}
    BY <1>0, <1>2
  <2> QED BY <2>1, LeastIn
<1>4. PICK s \in M : s.group = g /\ s.index = x /\ s.id = n
  BY <1>3
<1>5. ASSUME NEW t \in M PROVE ~LowerCpu(t, s)
  <2>1. g <= t.group
    BY <1>1
  <2>2. t.group = g => x <= t.index
    BY <1>2
  <2>3. t.group = g /\ t.index = x => n <= t.id
    BY <1>3
  <2>4. t.id \in Nat /\ t.group \in Nat /\ t.index \in Nat /\ g \in Nat /\ x \in Nat /\ n \in Nat
    BY <1>0, <1>4
  <2> QED BY <1>4, <2>1, <2>2, <2>3, <2>4 DEF LowerCpu
<1> QED BY <1>5

\* What the loader leaves out is the lowest of what it may choose from.
LEMMA LowestIsFirst ==
  ASSUME machine \in Machines, NEW M, M \subseteq machine, M # {}, NEW ids, ids = {s.id : s \in M}
  PROVE  {s.id : s \in {t \in M : \A u \in M : ~LowerCpu(u, t)}} = {LowestOf(ids).id}
<1>0. /\ \A s \in M : s.id \in Nat /\ s.group \in Nat /\ s.index \in Nat
      /\ \A s, t \in machine : s.id = t.id => s = t
  BY MachineSets
<1>1. \A t \in machine : t.id \in ids <=> t \in M
  BY <1>0
<1>2. PICK s \in M : \A t \in M : ~LowerCpu(t, s)
  BY LowestExists
<1>3. ASSUME NEW t \in M, \A u \in M : ~LowerCpu(u, t) PROVE t = s
  <2>1. ~LowerCpu(t, s) /\ ~LowerCpu(s, t)
    BY <1>2, <1>3
  <2>2. t.id = s.id
    BY <1>0, <2>1 DEF LowerCpu
  <2> QED BY <1>0, <2>2
<1>4. LowestOf(ids) = s
  <2>1. LowestOf(ids) \in machine /\ LowestOf(ids).id \in ids
        /\ \A t \in machine : t.id \in ids => ~LowerCpu(t, LowestOf(ids))
    <3>1. s \in machine /\ s.id \in ids /\ \A t \in machine : t.id \in ids => ~LowerCpu(t, s)
      BY <1>1, <1>2
    <3> QED BY <3>1 DEF LowestOf
  <2> QED BY <1>1, <1>3, <2>1
<1> QED BY <1>2, <1>3, <1>4

\* The classes there are to choose from.
LEMMA ClassesSelected ==
  ASSUME machine \in Machines, ClassesOf(machine) # {}
  PROVE  /\ ClassesOf(machine) \subseteq 0..255
         /\ SelectedClass(2, machine) \in ClassesOf(machine)
         /\ \A d \in ClassesOf(machine) : SelectedClass(2, machine) <= d
         /\ \A n \in {3, 4} : SelectedClass(n, machine) = SelectedClass(3, machine)
         /\ SelectedClass(3, machine) \in ClassesOf(machine)
         /\ \A d \in ClassesOf(machine) : d <= SelectedClass(3, machine)
<1>1. ClassesOf(machine) \subseteq 0..255
  BY MachineSets DEF ClassesOf
<1> DEFINE C == ClassesOf(machine)
<1>2. \E c \in C : \A d \in C : d <= c
  BY <1>1, GreatestClass
<1>3. \E c \in C : \A d \in C : c <= d
  BY <1>1, LeastIn
<1>4. SelectedClass(2, machine) = CHOOSE c \in C : \A d \in C : c <= d
  BY DEF SelectedClass
<1>5. \A n \in {3, 4} : SelectedClass(n, machine) = CHOOSE c \in C : \A d \in C : d <= c
  BY DEF SelectedClass
<1> HIDE DEF C
<1>6. SelectedClass(2, machine) \in C /\ \A d \in C : SelectedClass(2, machine) <= d
  BY <1>3, <1>4
<1>7. SelectedClass(3, machine) \in C /\ \A d \in C : d <= SelectedClass(3, machine)
  BY <1>2, <1>5
<1> QED BY <1>1, <1>5, <1>6, <1>7 DEF C

\* The strategies give what they are documented to give.
LEMMA SelectedIdsAreRight ==
  ASSUME machine \in Machines, NEW n \in 1..4, SelectIds(n, machine) # {}
  PROVE  /\ n = 1 => SelectIds(n, machine) = UsableIds \ {LowestOf(UsableIds).id}
         /\ n = 2 => SelectIds(n, machine) = Efficient
         /\ n = 3 => SelectIds(n, machine) = Performing
         /\ n = 4 => SelectIds(n, machine) = Performing \ {LowestOf(Performing).id}
         /\ n \in 2..4 => Efficient # Performing
<1>0. /\ \A s, t \in machine : s.id = t.id => s = t
      /\ \A s \in machine : s.class \in 0..255
  BY MachineSets
<1> DEFINE C == ClassesOf(machine)
           U == {s \in machine : Usable(s)}
           low == SelectedClass(2, machine)
           high == SelectedClass(3, machine)
           H == {s \in U : s.class = high}
<1>1. /\ C # {} /\ (n >= 2 => Cardinality(C) # 1)
      /\ SelectIds(n, machine) = {s.id : s \in {t \in machine : Selectable(n, machine, t)}}
  BY DEF SelectIds
<1>2. C = {s.class : s \in U}
  BY DEF ClassesOf
<1>3. /\ low \in C /\ high \in C /\ low \in 0..255 /\ high \in 0..255
      /\ \A s \in U : low <= s.class /\ s.class <= high
      /\ SelectedClass(4, machine) = high
  BY <1>1, <1>2, ClassesSelected
<1> HIDE DEF low, high
<1>4. Efficient = {s.id : s \in {t \in U : t.class = low}}
  <2>1. ASSUME NEW t \in U
        PROVE  t.class = low <=> \A u \in machine : Usable(u) => t.class <= u.class
    <3>1. t.class \in 0..255 /\ low <= t.class
      BY <1>0, <1>3
    <3>2. PICK u \in U : u.class = low
      BY <1>2, <1>3
    <3>3. ASSUME \A v \in machine : Usable(v) => t.class <= v.class PROVE t.class = low
      <4>1. t.class <= low
        BY <3>2, <3>3
      <4> QED BY ONLY <4>1, <3>1, <1>3
    <3>4. ASSUME t.class = low, NEW v \in machine, Usable(v) PROVE t.class <= v.class
      BY <1>3, <3>4
    <3> QED BY <3>3, <3>4
  <2> QED BY <2>1 DEF Efficient
<1>5. Performing = {s.id : s \in H}
  <2>1. ASSUME NEW t \in U
        PROVE  t.class = high <=> \A u \in machine : Usable(u) => u.class <= t.class
    <3>1. t.class \in 0..255 /\ t.class <= high
      BY <1>0, <1>3
    <3>2. PICK u \in U : u.class = high
      BY <1>2, <1>3
    <3>3. ASSUME \A v \in machine : Usable(v) => v.class <= t.class PROVE t.class = high
      <4>1. high <= t.class
        BY <3>2, <3>3
      <4> QED BY ONLY <4>1, <3>1, <1>3
    <3>4. ASSUME t.class = high, NEW v \in machine, Usable(v) PROVE v.class <= t.class
      BY <1>3, <3>4
    <3> QED BY <3>3, <3>4
  <2> QED BY <2>1 DEF Performing
<1>6. UsableIds = {s.id : s \in U}
  BY DEF UsableIds
<1>7. CASE n = 1
  <2>1. FirstMatching(1, machine) = {s.id : s \in {t \in U : \A u \in U : ~LowerCpu(u, t)}}
    BY DEF FirstMatching
  <2>2. FirstMatching(1, machine) = {LowestOf(UsableIds).id}
    <3>1. U \subseteq machine /\ U # {}
      BY <1>1, <1>2
    <3> HIDE DEF U
    <3>2. {s.id : s \in {t \in U : \A u \in U : ~LowerCpu(u, t)}} = {LowestOf(UsableIds).id}
      BY <1>6, <3>1, LowestIsFirst
    <3> QED BY <2>1, <3>2
  <2>3. SelectIds(n, machine) = {s.id : s \in {t \in U : t.id \notin FirstMatching(1, machine)}}
    BY <1>1, <1>7 DEF Selectable
  <2> QED BY <1>6, <1>7, <2>2, <2>3
<1>8. ASSUME n = 2 \/ n = 3
      PROVE  SelectIds(n, machine) = {s.id : s \in {t \in U : t.class = SelectedClass(n, machine)}}
  <2>1. FirstMatching(n, machine) = {}
    BY <1>8 DEF FirstMatching
  <2> QED BY <1>1, <1>8, <2>1 DEF Selectable
<1>11. n = 2 => SelectIds(n, machine) = Efficient
  BY <1>4, <1>8 DEF low
<1>12. n = 3 => SelectIds(n, machine) = Performing
  BY <1>5, <1>8 DEF high
<1>9. ASSUME n = 4 PROVE SelectIds(n, machine) = Performing \ {LowestOf(Performing).id}
  <2>1. FirstMatching(4, machine) = {s.id : s \in {t \in H : \A u \in H : ~LowerCpu(u, t)}}
    BY <1>3 DEF FirstMatching
  <2>2. H # {} /\ H \subseteq machine
    BY <1>2, <1>3
  <2>3. FirstMatching(4, machine) = {LowestOf(Performing).id}
    <3> HIDE DEF H
    <3>2. {s.id : s \in {t \in H : \A u \in H : ~LowerCpu(u, t)}} = {LowestOf(Performing).id}
      BY <1>5, <2>2, LowestIsFirst
    <3> QED BY <2>1, <3>2
  <2>4. SelectIds(n, machine) = {s.id : s \in {t \in H : t.id \notin FirstMatching(4, machine)}}
    BY <1>1, <1>3, <1>9 DEF Selectable
  <2> QED BY <1>5, <2>3, <2>4
<1>10. ASSUME n \in 2..4 PROVE Efficient # Performing
  <2>1. low # high
    <3> SUFFICES ASSUME low = high PROVE FALSE
      OBVIOUS
    <3>1. C = {low}
      BY <1>0, <1>2, <1>3
    <3>2. Cardinality({low}) = 1
      BY FS_Singleton
    <3> QED BY <1>1, <1>10, <3>1, <3>2
  <2>2. PICK s \in U : s.class = low
    BY <1>2, <1>3
  <2>3. s.id \in Efficient
    BY <1>4, <2>2
  <2>4. s.id \notin Performing
    BY <1>0, <1>5, <2>1, <2>2
  <2> QED BY <2>3, <2>4
<1> QED BY <1>7, <1>9, <1>10, <1>11, <1>12

----------------------------------------------------------------------------
(* Selections: what always holds of them.                                 *)

\* What a mod may replace, and what the choices rest on: a machine there is, and what a
\* strategy selects of its CPU sets.
SoundPaths == {"sd/", "sd/enus/", "sd/ja/"} \X {"", "wem/", "wem/xx/"}
SelectionInv ==
  /\ machine \in Machines /\ overrides \subseteq SoundPaths
  /\ cpuSets # NotApplied =>
        \E n \in 1..4 : /\ SelectIds(n, machine) # {}
                        /\ cpuSets = [strategy |-> n, ids |-> SelectIds(n, machine)]
  /\ SoundsAreReplaced

\* What a strategy gives is what it is documented to give.
LEMMA AppliedIsRight == ASSUME SelectionInv PROVE CpuSetsAreRight
<1> SUFFICES ASSUME cpuSets # NotApplied
    PROVE /\ cpuSets.ids # {}
          /\ cpuSets.ids =
              CASE cpuSets.strategy = 1 -> UsableIds \ {LowestOf(UsableIds).id}
                [] cpuSets.strategy = 2 -> Efficient
                [] cpuSets.strategy = 3 -> Performing
                [] cpuSets.strategy = 4 -> Performing \ {LowestOf(Performing).id}
          /\ cpuSets.strategy \in 2..4 => Efficient # Performing
  BY DEF CpuSetsAreRight
<1>1. PICK n \in 1..4 : /\ SelectIds(n, machine) # {}
                        /\ cpuSets = [strategy |-> n, ids |-> SelectIds(n, machine)]
  BY DEF SelectionInv
<1>2. cpuSets.strategy = n /\ cpuSets.ids = SelectIds(n, machine)
  BY <1>1
<1>3. /\ n = 1 => SelectIds(n, machine) = UsableIds \ {LowestOf(UsableIds).id}
      /\ n = 2 => SelectIds(n, machine) = Efficient
      /\ n = 3 => SelectIds(n, machine) = Performing
      /\ n = 4 => SelectIds(n, machine) = Performing \ {LowestOf(Performing).id}
      /\ n \in 2..4 => Efficient # Performing
  BY <1>1, SelectedIdsAreRight DEF SelectionInv
<1>4. n = 1 \/ n = 2 \/ n = 3 \/ n = 4
  OBVIOUS
<1>5. SelectIds(n, machine) = CASE n = 1 -> UsableIds \ {LowestOf(UsableIds).id}
                                [] n = 2 -> Efficient
                                [] n = 3 -> Performing
                                [] n = 4 -> Performing \ {LowestOf(Performing).id}
  BY <1>3, <1>4
<1> QED BY <1>1, <1>2, <1>3, <1>5

\* A strategy is applied to the machine as it is.
LEMMA AppliedNextSets ==
  ASSUME SelectionInv, NEW n \in 1..4, ApplyStrategy(n)
  PROVE  SelectionInv'
<1>1. UNCHANGED <<machine, overrides, sound>>
  BY DEF ApplyStrategy
<1>2. SoundsAreReplaced'
  BY <1>1 DEF SelectionInv, SoundsAreReplaced
<1>3. \/ cpuSets' = cpuSets
      \/ /\ SelectIds(n, machine) # {}
         /\ cpuSets' = [strategy |-> n, ids |-> SelectIds(n, machine)]
  BY DEF ApplyStrategy
<1>4. (cpuSets # NotApplied =>
        \E k \in 1..4 : /\ SelectIds(k, machine) # {}
                        /\ cpuSets = [strategy |-> k, ids |-> SelectIds(k, machine)])'
  BY <1>1, <1>3 DEF SelectionInv
<1> QED BY <1>1, <1>2, <1>4 DEF SelectionInv

\* The roots have different names.
LEMMA RootsDiffer ==
  ASSUME NEW i \in 1..3
  PROVE  (CHOOSE j \in 1..3 : SoundRoots[j] = SoundRoots[i]) = i
<1>1. SoundRoots[1] = "sd/" /\ SoundRoots[2] = "sd/enus/" /\ SoundRoots[3] = "sd/ja/"
  BY DEF SoundRoots
<1>2. \A j \in 1..3 : SoundRoots[j] = SoundRoots[i] => j = i
  <2>1. "sd/" # "sd/enus/" /\ "sd/" # "sd/ja/" /\ "sd/enus/" # "sd/ja/"
    OBVIOUS
  <2> QED BY <1>1, <2>1
<1> QED BY <1>2

\* How near the file of a root under a folder is.
LEMMA Ranks ==
  ASSUME NEW i \in 1..3
  PROVE  /\ Rank(<<SoundRoots[i], "wem/">>) = i
         /\ Rank(<<SoundRoots[i], "wem/xx/">>) = 3 + i
         /\ Rank(<<SoundRoots[i], "">>) = 6 + i
<1>1. (CHOOSE j \in 1..3 : SoundRoots[j] = SoundRoots[i]) = i
  BY RootsDiffer
<1>2. "wem/" # "wem/xx/" /\ "" # "wem/" /\ "" # "wem/xx/"
  OBVIOUS
<1>3. Rank(<<SoundRoots[i], "wem/">>) = 3 * 0 + i
  BY <1>1 DEF Rank
<1>4. Rank(<<SoundRoots[i], "wem/xx/">>) = 3 * 1 + i
  BY <1>1, <1>2 DEF Rank
<1>5. Rank(<<SoundRoots[i], "">>) = 3 * 2 + i
  BY <1>1, <1>2 DEF Rank
<1>6. 3 * 0 + i = i /\ 3 * 1 + i = 3 + i /\ 3 * 2 + i = 6 + i
  OBVIOUS
<1> QED BY ONLY <1>3, <1>4, <1>5, <1>6

\* What a pair is made of.
LEMMA PairOf ==
  ASSUME NEW A, NEW B, NEW c \in A \X B
  PROVE  \E r \in A, m \in B : c = <<r, m>> /\ c[2] = m
OBVIOUS

\* The roots are three.
LEMMA OneToThree == 1 \in 1..3 /\ 2 \in 1..3 /\ 3 \in 1..3
OBVIOUS

\* Ranks under one folder are in the order of the roots, and folders do not overlap.
LEMMA RanksInOrder ==
  ASSUME NEW i \in 1..3, NEW j \in 1..3
  PROVE  /\ i <= 3 + j /\ i <= 6 + j /\ 3 + i <= 6 + j
         /\ i <= j => 3 + i <= 3 + j /\ 6 + i <= 6 + j
<1>1. i \in Int /\ j \in Int
  OBVIOUS
<1>2. i <= 3 /\ 1 <= j
  OBVIOUS
<1> QED BY ONLY <1>1, <1>2

\* A file is one root's, under one folder.
LEMMA PathsOfRoots ==
  ASSUME NEW c \in SoundPaths
  PROVE  \E i \in 1..3, m \in {"", "wem/", "wem/xx/"} : c = <<SoundRoots[i], m>> /\ c[2] = m
<1>1. PICK r \in {"sd/", "sd/enus/", "sd/ja/"}, m \in {"", "wem/", "wem/xx/"} :
         c = <<r, m>> /\ c[2] = m
  <2> DEFINE A == {"sd/", "sd/enus/", "sd/ja/"}
             B == {"", "wem/", "wem/xx/"}
  <2>1. c \in A \X B
    BY DEF SoundPaths
  <2> HIDE DEF A, B
  <2>2. \E r \in A, m \in B : c = <<r, m>> /\ c[2] = m
    BY <2>1, PairOf
  <2> QED BY <2>2 DEF A, B
<1>2. SoundRoots[1] = "sd/" /\ SoundRoots[2] = "sd/enus/" /\ SoundRoots[3] = "sd/ja/"
  BY DEF SoundRoots
<1>3. \E i \in 1..3 : r = SoundRoots[i]
  <2>1. CASE r = "sd/"
    BY <1>2, <2>1, OneToThree
  <2>2. CASE r = "sd/enus/"
    BY <1>2, <2>2, OneToThree
  <2>3. CASE r = "sd/ja/"
    BY <1>2, <2>3, OneToThree
  <2> QED BY <1>1, <2>1, <2>2, <2>3
<1> QED BY <1>1, <1>3

\* What is read is one of the files, the first root's that has one.
LEMMA ReadOf ==
  ASSUME NEW asked, NEW seen, NEW m, FoundAt(seen, m) # {}, ReadIt(asked, seen, m)
  PROVE  \E i \in 1..3 : /\ sound'.path = <<SoundRoots[i], m>> /\ sound'.path \in seen
                         /\ sound'.mode = "read" /\ sound'.asked = asked
                         /\ \A j \in 1..3 : <<SoundRoots[j], m>> \in seen => i <= j
<1> DEFINE i == FirstOf(FoundAt(seen, m))
<1>1. FoundAt(seen, m) \subseteq Nat /\ FoundAt(seen, m) \subseteq 1..3
  BY DEF FoundAt
<1>2. i \in FoundAt(seen, m) /\ \A j \in FoundAt(seen, m) : i <= j
  BY <1>1, LeastOf
<1>3. sound' = [asked |-> asked, path |-> <<SoundRoots[i], m>>, mode |-> "read", done |-> TRUE]
  BY DEF ReadIt
<1> HIDE DEF i
<1>4. i \in 1..3 /\ <<SoundRoots[i], m>> \in seen
  BY <1>1, <1>2 DEF FoundAt
<1>5. \A j \in 1..3 : <<SoundRoots[j], m>> \in seen => i <= j
  BY <1>2 DEF FoundAt
<1> QED BY <1>3, <1>4, <1>5

\* The file a sound is read from is the nearest there is.
LEMMA OpenedIsNearest ==
  ASSUME SelectionInv, NEW asked \in Sounds, OpenSound(asked)
  PROVE  SoundsAreReplaced'
<1> DEFINE files == {c \in overrides : c[2] = "" \/ (asked.wem /\ asked.long)}
<1>1. overrides' = overrides /\ overrides \subseteq SoundPaths
  BY DEF OpenSound, SelectionInv
<1>2. PICK seen \in IF asked.huge THEN SUBSET overrides ELSE {overrides} :
          LET stream == /\ asked.wem /\ asked.long
                        /\ FoundAt(seen, "wem/") \cup FoundAt(seen, "wem/xx/") # {}
          IN \/ stream /\ OpenStream(asked, seen)
             \/ ~stream /\ FoundAt(seen, "") # {} /\ ReadIt(asked, seen, "")
             \/ /\ ~stream /\ FoundAt(seen, "") = {}
                /\ sound' = [asked |-> asked, path |-> "original", mode |-> "asked", done |-> TRUE]
  BY DEF OpenSound
<1>3. seen \subseteq overrides /\ (~asked.huge => seen = overrides)
  BY <1>2
<1> DEFINE stream == /\ asked.wem /\ asked.long
                     /\ FoundAt(seen, "wem/") \cup FoundAt(seen, "wem/xx/") # {}
<1>4. ASSUME NEW m \in {"", "wem/", "wem/xx/"}, NEW j \in 1..3, <<SoundRoots[j], m>> \in seen
      PROVE  j \in FoundAt(seen, m)
  BY <1>4 DEF FoundAt
<1>5. CASE sound' = [asked |-> asked, path |-> "original", mode |-> "asked", done |-> TRUE]
           /\ ~stream /\ FoundAt(seen, "") = {}
  <2>1. ~asked.huge => files = {}
    <3> SUFFICES ASSUME ~asked.huge, NEW c \in files PROVE FALSE
      OBVIOUS
    <3>1. PICK i \in 1..3, m \in {"", "wem/", "wem/xx/"} : c = <<SoundRoots[i], m>> /\ c[2] = m
      BY <1>1, PathsOfRoots
    <3>2. i \in FoundAt(seen, m)
      BY <1>3, <1>4, <3>1
    <3> QED BY <1>5, <3>1, <3>2
  <2> QED BY <1>1, <1>5, <2>1 DEF SoundsAreReplaced
\* One file is read, and none is nearer.
<1>6. ASSUME NEW m \in {"", "wem/", "wem/xx/"}, FoundAt(seen, m) # {}, ReadIt(asked, seen, m),
             m # "" => asked.wem /\ asked.long,
             m = "wem/xx/" => FoundAt(seen, "wem/") = {},
             m = "" => ~stream
      PROVE  SoundsAreReplaced'
  <2>1. PICK i \in 1..3 : /\ sound'.path = <<SoundRoots[i], m>> /\ sound'.path \in seen
                          /\ sound'.mode = "read" /\ sound'.asked = asked
                          /\ \A j \in 1..3 : <<SoundRoots[j], m>> \in seen => i <= j
    BY <1>6, ReadOf
  <2>2. sound'.path \in files
    <3>1. <<SoundRoots[i], m>>[2] = m
      OBVIOUS
    <3>2. sound'.path \in overrides /\ sound'.path[2] = m
      BY <1>3, <2>1, <3>1
    <3> QED BY <1>6, <3>2
  <2>3. ASSUME ~asked.huge, NEW c \in files PROVE Rank(sound'.path) <= Rank(c)
    <3>1. PICK j \in 1..3, n \in {"", "wem/", "wem/xx/"} : c = <<SoundRoots[j], n>> /\ c[2] = n
      BY <1>1, PathsOfRoots
    <3>2. c \in seen /\ j \in FoundAt(seen, n)
      BY <1>3, <1>4, <2>3, <3>1
    <3>3. n = m => i <= j
      BY <2>1, <3>1, <3>2
    <3>4. m = "" => n = ""
      BY <1>6, <2>3, <3>1, <3>2
    <3>5. m = "wem/xx/" => n # "wem/"
      BY <1>6, <3>2
    <3>6. /\ Rank(<<SoundRoots[i], "wem/">>) = i /\ Rank(<<SoundRoots[i], "wem/xx/">>) = 3 + i
          /\ Rank(<<SoundRoots[i], "">>) = 6 + i
      BY Ranks
    <3>7. /\ Rank(<<SoundRoots[j], "wem/">>) = j /\ Rank(<<SoundRoots[j], "wem/xx/">>) = 3 + j
          /\ Rank(<<SoundRoots[j], "">>) = 6 + j
      BY Ranks
    <3>8. i <= 3 + j /\ i <= 6 + j /\ 3 + i <= 6 + j
          /\ (i <= j => 3 + i <= 3 + j /\ 6 + i <= 6 + j)
      BY RanksInOrder
    <3>9. CASE m = "wem/"
      <4>1. Rank(sound'.path) = i
        BY <2>1, <3>6, <3>9
      <4>2. n = "wem/" => Rank(c) = j
        BY <3>1, <3>7
      <4>3. n = "wem/xx/" => Rank(c) = 3 + j
        BY <3>1, <3>7
      <4>4. n = "" => Rank(c) = 6 + j
        BY <3>1, <3>7
      <4> QED BY <3>3, <3>8, <3>9, <4>1, <4>2, <4>3, <4>4
    <3>10. CASE m = "wem/xx/"
      <4>1. Rank(sound'.path) = 3 + i
        BY <2>1, <3>6, <3>10
      <4>2. n = "wem/xx/" => Rank(c) = 3 + j
        BY <3>1, <3>7
      <4>3. n = "" => Rank(c) = 6 + j
        BY <3>1, <3>7
      <4> QED BY <3>3, <3>5, <3>8, <3>10, <4>1, <4>2, <4>3
    <3>11. CASE m = ""
      <4>1. Rank(sound'.path) = 6 + i
        BY <2>1, <3>6, <3>11
      <4>2. Rank(c) = 6 + j /\ i <= j
        BY <3>1, <3>3, <3>4, <3>7, <3>11
      <4> QED BY <3>8, <4>1, <4>2
    <3> QED BY <3>9, <3>10, <3>11
  <2>4. sound'.mode # "asked"
    BY <2>1
  <2> QED BY <1>1, <2>1, <2>2, <2>3, <2>4 DEF SoundsAreReplaced
<1>7. CASE stream /\ OpenStream(asked, seen)
  BY <1>6, <1>7 DEF OpenStream
<1>8. CASE ~stream /\ FoundAt(seen, "") # {} /\ ReadIt(asked, seen, "")
  BY <1>6, <1>8
<1> QED BY <1>2, <1>5, <1>7, <1>8

\* A machine starts with nothing chosen.
LEMMA SelectionInvInit == ASSUME SelectionInit PROVE SelectionInv
<1>1. machine \in Machines /\ cpuSets = NotApplied /\ sound.done = FALSE
  BY DEF SelectionInit, Silent
<1>2. overrides \subseteq SoundPaths
  BY DEF SelectionInit, SoundPaths
<1> QED BY <1>1, <1>2 DEF SelectionInv, SoundsAreReplaced

\* A step that chooses nothing leaves what was chosen.
LEMMA SelectionInvStutters == ASSUME SelectionInv, UNCHANGED selectionVars PROVE SelectionInv'
<1>1. machine' = machine /\ cpuSets' = cpuSets /\ overrides' = overrides /\ sound' = sound
  BY DEF selectionVars
<1> QED BY <1>1 DEF SelectionInv, SoundsAreReplaced

\* A choice keeps the choices right.
LEMMA SelectionInvNext == ASSUME SelectionInv, SelectionNext PROVE SelectionInv'
<1>1. ASSUME NEW n \in 1..4, ApplyStrategy(n) PROVE SelectionInv'
  BY <1>1, AppliedNextSets
<1>2. ASSUME NEW asked \in Sounds, OpenSound(asked) PROVE SelectionInv'
  <2>1. machine' = machine /\ cpuSets' = cpuSets /\ overrides' = overrides
    BY <1>2 DEF OpenSound
  <2>2. SoundsAreReplaced'
    BY <1>2, OpenedIsNearest
  <2> QED BY <2>1, <2>2 DEF SelectionInv
<1> QED BY <1>1, <1>2 DEF SelectionNext

\* No step of the loader or the game touches the choices, but the settings worker.
LEMMA StartupKeepsSelections ==
  ASSUME StartupNext
  PROVE  UNCHANGED selectionVars \/ SettingsWorkerRuns
<1>1. ASSUME LoaderStep PROVE UNCHANGED selectionVars
  BY <1>1 DEF LoaderStep, Attach, Schedule, InstallRouting, InstallIme, InstallWwise,
     InstallAdapter,
     ScheduleBeforeMain, InlineReturns, RegisterDlls
<1>2. ASSUME NEW a \in Advancers, ObserverStep(a) PROVE UNCHANGED selectionVars
  BY <1>2 DEF ObserverStep, CallNext, InstallFeature, InstallAllocator, StartSettingsWorker,
     InstallRegulation, HookProperties, ScheduleOffline, SetOffline, LoadDlls
<1>3. ASSUME GameStep PROVE UNCHANGED selectionVars \/ SettingsWorkerRuns
  BY <1>3 DEF GameStep, ReachMain, LoadEarly, SteamInit, InstallAssets, StepReached, RegulationTick,
     Initialize, Initialized
<1>4. ASSUME UnloadAdapter \/ UnloadCommon \/ UnloadRest PROVE UNCHANGED selectionVars
  BY <1>4 DEF UnloadAdapter, UnloadCommon, UnloadRest
<1> QED BY <1>1, <1>2, <1>3, <1>4 DEF StartupNext

\* Setting the game up keeps the choices right: the worker applies the strategy that
\* was asked for.
LEMMA SelectionInvStartup == ASSUME StartupInv, SelectionInv, StartupNext PROVE SelectionInv'
<1>1. CASE UNCHANGED selectionVars
  BY <1>1, SelectionInvStutters
<1>2. CASE SettingsWorkerRuns
  <2>1. settingsWorker = "running" /\ ApplyStrategy(setting.cpu)
    BY <1>2 DEF SettingsWorkerRuns
  <2>2. setting.cpu \in 0..4
    <3>1. setting \in Settings
      BY DEF StartupInv, StartupTypes, StageType
    <3> QED BY <3>1, SettingsAssumption
  <2>3. setting.cpu # 0
    BY <2>1 DEF StartupInv, CpuInv
  <2>4. setting.cpu \in 1..4
    BY ONLY <2>2, <2>3
  <2> QED BY <2>1, <2>4, AppliedNextSets
<1> QED BY <1>1, <1>2, StartupKeepsSelections

\* The loader's set-up in the game, for every configuration, every machine and every
\* set of overrides: what is registered and called, what is installed, written over and
\* taken back, and what is chosen, are in the states that StartupInv and SelectionInv name.
THEOREM StartupInvariant == StartupSpec => [](StartupInv /\ SelectionInv)
<1>1. StartupInit /\ SelectionInit => StartupInv /\ SelectionInv
  BY StartupInvInit, SelectionInvInit
<1>2. StartupInv /\ SelectionInv
      /\ [StartupNext \/ (SelectionNext /\ UNCHANGED startupVars)]_<<startupVars, selectionVars>>
      => (StartupInv /\ SelectionInv)'
  <2> SUFFICES ASSUME StartupInv, SelectionInv,
           [StartupNext \/ (SelectionNext /\ UNCHANGED startupVars)]_<<startupVars, selectionVars>>
      PROVE  StartupInv' /\ SelectionInv'
    OBVIOUS
  <2>1. CASE StartupNext
    BY <2>1, StartupInvNext, SelectionInvStartup
  <2>2. CASE SelectionNext /\ UNCHANGED startupVars
    BY <2>2, StartupInvStutters, SelectionInvNext
  <2>3. CASE UNCHANGED startupVars /\ UNCHANGED selectionVars
    BY <2>3, StartupInvStutters, SelectionInvStutters
  <2> QED BY <2>1, <2>2, <2>3
<1> QED BY <1>1, <1>2, PTL DEF StartupSpec

\* What the invariant is for: DLLs of a later stage only follow the early ones, the
\* consumers of the runtime precede the assets, a reported offline property is applied
\* once, a patch of the game's code is never lost track of, the CPU sets are the
\* documented ones and never none, and a sound is read from the nearest file.
THEOREM StartupIsAlwaysSound == StartupSpec => []StartupIsSound
<1>1. StartupInv /\ SelectionInv => StartupIsSound
  <2> SUFFICES ASSUME StartupInv, SelectionInv PROVE StartupIsSound
    OBVIOUS
  <2>1. StartupTypeOK
    <3>1. StageType /\ PropsType /\ RegulationType
      BY DEF StartupInv, StartupTypes
    <3>2. steamState \in 0..2
      <4>1. steamState \in {0, 1, 2}
        BY <3>1 DEF StageType
      <4> QED BY ONLY <4>1
    <3>3. props.set \in 0..1
      BY <3>1 DEF PropsType
    <3>4. regulation.hooked \subseteq Writers \cup {"step"}
      BY <3>1 DEF RegulationType
    <3> QED BY <3>1, <3>2, <3>3, <3>4 DEF StartupTypeOK, StageType, Phases
  <2>2. LaterDllsNeedEarly /\ OfflineIsApplied /\ ImePatchIsRemembered
    BY DEF StartupInv, DllInv
  <2>3. ConsumersPrecedeAssets
    <3> SUFFICES ASSUME "assets" \in installed
        PROVE  /\ "runtime" \in reachedPhases
               /\ Mine("steam") = {} /\ doing["steam"] \in {"idle", "advanced", "over"}
      BY DEF ConsumersPrecedeAssets
    <3>1. /\ "runtime" \in reachedPhases /\ doing["steam"] \in {"idle", "advanced", "over"}
          /\ unloading # "done"
      BY DEF StartupInv, AssetsInv
    <3>2. "steam" \in Advancers /\ PhaseOf["steam"] = "runtime"
      BY AdvancerPhases
    <3>3. Mine("steam") = {}
      BY <3>1, <3>2 DEF StartupInv, PhaseInv, Resting
    <3> QED BY <3>1, <3>3
  <2>4. CpuSetsAreRight
    BY AppliedIsRight
  <2>5. SoundsAreReplaced
    BY DEF SelectionInv
  <2> QED BY <2>1, <2>2, <2>3, <2>4, <2>5 DEF StartupIsSound
<1> QED BY <1>1, StartupInvariant, PTL
=============================================================================
