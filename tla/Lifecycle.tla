----------------------------- MODULE Lifecycle -----------------------------
(***************************************************************************)
(* The lifecycle registry (src/src/modloader/lifecycle.c): code registers  *)
(* an observer for a phase, the phase is advanced once, by whatever thread *)
(* reaches it first, and that thread calls the observers.                  *)
(*                                                                         *)
(* `reached` is changed without observers_lock and read under it, so the   *)
(* steps of a registration are kept apart.                                 *)
(***************************************************************************)
EXTENDS Naturals, Sequences, FiniteSets

CONSTANTS Threads, Phases,
          MaxObservers,     \* bound: registrations accepted in all
          None

ASSUME NoneAssumption == None \notin Threads /\ None \notin Phases
ASSUME MaxObserversAssumption == MaxObservers \in Nat

VARIABLES observers,    \* observers[]: [phase, pending] (callback # NULL)
          reached,      \* reached_phases
          lock,         \* observers_lock: its owner or None
          pc,           \* what each thread does in the registry
          phase,        \* argument of on_phase, per thread
          walk,         \* phases whose loop in advance a thread runs, innermost last
          calls         \* history: indices of the observers called, in order
vars == <<observers, reached, lock, pc, phase, walk, calls>>

Observer == [phase : Phases, pending : BOOLEAN]

Init ==
    /\ observers = <<>>
    /\ reached = {}
    /\ lock = None
    /\ pc = [t \in Threads |-> "idle"]
    /\ phase = [t \in Threads |-> None]
    /\ walk = [t \in Threads |-> <<>>]
    /\ calls = <<>>

Goto(t, l) == pc' = [pc EXCEPT ![t] = l]

\* A thread is free to call the registry when it is outside of it or in a
\* callback that the registry called.
Free(t) == pc[t] \in {"idle", "callback"}
Back(t) == IF walk[t] = <<>> THEN "idle" ELSE "callback"

----------------------------------------------------------------------------
(* ml_lifecycle_on_phase.                                                   *)

OnPhase(t, p) ==
    /\ Free(t)
    /\ lock = None
    /\ lock' = t
    /\ phase' = [phase EXCEPT ![t] = p]
    /\ Goto(t, "check")
    /\ UNCHANGED <<observers, reached, walk, calls>>

\* The phase was reached, or the array cannot grow: refused.
Refuse(t) ==
    /\ pc[t] = "check"
    /\ lock' = None
    /\ phase' = [phase EXCEPT ![t] = None]
    /\ Goto(t, Back(t))
    /\ UNCHANGED <<observers, reached, walk, calls>>

\* Mutant: the lock is released between the check and the registration.
AcceptUnlocked(t) ==
    /\ pc[t] = "check"
    /\ phase[t] \notin reached
    /\ Len(observers) < MaxObservers
    /\ lock' = None
    /\ Goto(t, "append")
    /\ UNCHANGED <<observers, reached, phase, walk, calls>>

Accept(t) ==
    /\ pc[t] = "check"
    /\ phase[t] \notin reached
    /\ Len(observers) < MaxObservers
    /\ Goto(t, "append")
    /\ UNCHANGED <<observers, reached, lock, phase, walk, calls>>

Register(t) ==
    /\ pc[t] = "append"
    /\ observers' = Append(observers, [phase |-> phase[t], pending |-> TRUE])
    /\ lock' = None
    /\ phase' = [phase EXCEPT ![t] = None]
    /\ Goto(t, Back(t))
    /\ UNCHANGED <<reached, walk, calls>>

----------------------------------------------------------------------------
(* ml_lifecycle_advance.                                                    *)

\* InterlockedOr: the first caller goes on to the observers ...
Advance(t, p) ==
    /\ Free(t)
    /\ p \notin reached
    /\ reached' = reached \cup {p}
    /\ walk' = [walk EXCEPT ![t] = Append(walk[t], p)]
    /\ Goto(t, "take")
    /\ UNCHANGED <<observers, lock, phase, calls>>

\* ... every other one returns at once, whether they have been called or not.
AdvanceAgain(t, p) ==
    /\ Free(t)
    /\ p \in reached
    /\ UNCHANGED vars

Waiting(p) == {i \in DOMAIN observers : observers[i].phase = p /\ observers[i].pending}
First(S) == CHOOSE i \in S : \A j \in S : i <= j
Walked(t) == walk[t][Len(walk[t])]

\* Mutant: the last one first.
TakeLast(t) ==
    /\ pc[t] = "take"
    /\ lock = None
    /\ Waiting(Walked(t)) # {}
    /\ LET i == CHOOSE i \in Waiting(Walked(t)) : \A j \in Waiting(Walked(t)) : j <= i
       IN /\ observers' = [observers EXCEPT ![i].pending = FALSE]
          /\ calls' = Append(calls, i)
    /\ Goto(t, "callback")
    /\ UNCHANGED <<reached, lock, phase, walk>>

\* Under the lock, the first pending observer of the phase; the callback runs
\* without the lock.
Take(t) ==
    /\ pc[t] = "take"
    /\ lock = None
    /\ Waiting(Walked(t)) # {}
    /\ LET i == First(Waiting(Walked(t)))
       IN /\ observers' = [observers EXCEPT ![i].pending = FALSE]
          /\ calls' = Append(calls, i)
    /\ Goto(t, "callback")
    /\ UNCHANGED <<reached, lock, phase, walk>>

\* Mutant: advance calls one observer only.
ReturnsForGood(t) ==
    /\ pc[t] = "callback"
    /\ walk' = [walk EXCEPT ![t] = SubSeq(walk[t], 1, Len(walk[t]) - 1)]
    /\ Goto(t, IF Len(walk[t]) = 1 THEN "idle" ELSE "callback")
    /\ UNCHANGED <<observers, reached, lock, phase, calls>>

\* The callback returns; it may have used the registry itself.
CallbackReturns(t) ==
    /\ pc[t] = "callback"
    /\ Goto(t, "take")
    /\ UNCHANGED <<observers, reached, lock, phase, walk, calls>>

NoMore(t) ==
    /\ pc[t] = "take"
    /\ lock = None
    /\ Waiting(Walked(t)) = {}
    /\ walk' = [walk EXCEPT ![t] = SubSeq(walk[t], 1, Len(walk[t]) - 1)]
    /\ Goto(t, IF Len(walk[t]) = 1 THEN "idle" ELSE "callback")
    /\ UNCHANGED <<observers, reached, lock, phase, calls>>

----------------------------------------------------------------------------
\* ml_lifecycle_init and ml_lifecycle_uninit, under the lock.  The loader is
\* detached after its hooks are gone: no thread is inside the registry.
Reset ==
    /\ \A t \in Threads : pc[t] = "idle"
    /\ reached # {} \/ observers # <<>>
    /\ lock = None
    /\ observers' = <<>>
    /\ reached' = {}
    /\ calls' = <<>>
    /\ UNCHANGED <<lock, pc, phase, walk>>

\* What a thread does in the registry until it is out of it again.
Inside(t) == \/ Refuse(t) \/ Accept(t) \/ Register(t)
             \/ Take(t) \/ CallbackReturns(t) \/ NoMore(t)

Next ==
    \/ \E t \in Threads :
         \/ Inside(t)
         \/ \E p \in Phases : OnPhase(t, p) \/ Advance(t, p) \/ AdvanceAgain(t, p)
    \/ Reset

Spec == Init /\ [][Next]_vars

\* A callback returns in the end, and a thread that keeps asking for
\* observers_lock gets it in the end, although others take it in between.
Fairness ==
    \A t \in Threads :
        /\ SF_vars(CallbackReturns(t))
        /\ SF_vars(Take(t) \/ NoMore(t))
        /\ WF_vars(Refuse(t) \/ Accept(t) \/ Register(t))

LiveSpec == Spec /\ Fairness

----------------------------------------------------------------------------
\* The observers, the threads in the registry and their nested walks keep their
\* types: an observer always has a phase.
TypeOK ==
    /\ observers \in Seq(Observer)
    /\ reached \subseteq Phases
    /\ lock \in Threads \cup {None}
    /\ pc \in [Threads -> {"idle", "check", "append", "take", "callback"}]
    /\ phase \in [Threads -> Phases \cup {None}]
    /\ walk \in [Threads -> Seq(Phases)]
    /\ calls \in Seq(Nat)

\* An accepted observer is never lost: one that is still pending although its
\* phase was reached has a thread that runs the loop of that phase.
\* ml_lifecycle_on_phase reads `reached` inside the lock for this
\* (lifecycle.c:60).
ObserversAreNeverLost ==
    \A i \in DOMAIN observers :
        observers[i].pending /\ observers[i].phase \in reached =>
            \E t \in Threads : \E k \in DOMAIN walk[t] : walk[t][k] = observers[i].phase

\* However many threads and nested calls advance phases, an observer is called
\* once, and exactly those whose slot was cleared have been (lifecycle.c:96:
\* `observers[i].callback = NULL` before the call); it is called only when its
\* phase was reached, and the observers of one phase are called in the order
\* of their registration.
CalledOnceInOrder ==
    /\ \A j, k \in DOMAIN calls : calls[j] = calls[k] => j = k
    /\ \A i \in DOMAIN observers :
          ~observers[i].pending <=> \E k \in DOMAIN calls : calls[k] = i
    /\ \A j \in DOMAIN calls :
        /\ observers[calls[j]].phase \in reached
        /\ \A k \in DOMAIN calls :
              /\ j < k
              /\ observers[calls[j]].phase = observers[calls[k]].phase
              => calls[j] < calls[k]

\* Every observer is called once, neither lost nor repeated (lifecycle.c:59-100).
EveryObserverOnce == ObserversAreNeverLost /\ CalledOnceInOrder

\* Advancing comes to an end for every thread that leaves its callbacks, and
\* with it every accepted observer of a reached phase is called.
ReachedIsNotified ==
    \A p \in Phases : p \in reached ~> (Waiting(p) = {} \/ reached = {})

=============================================================================
