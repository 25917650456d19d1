----------------------------- MODULE BootProofs -----------------------------
(***************************************************************************)
(* Proofs about what the loader does while the game boots.                 *)
(*                                                                         *)
(* Lifecycle, for any number of threads, phases and observers: an observer *)
(* that was accepted is never lost, and every observer is called once, in  *)
(* the order of registration, however the threads and nested calls advance *)
(* the phases.                                                             *)
(*                                                                         *)
(* BootBoost, for any number of threads and archives: a mount that is      *)
(* reported is there, once and with its whole directory, through failures, *)
(* damaged cache files and restarts.                                       *)
(***************************************************************************)
EXTENDS Lifecycle, BootBoost, FiniteSetTheorems, WellFoundedInduction, SequenceTheorems, TLAPS

\* The lock belongs to the one thread between the check of its phase and the end of its
\* registration, which has a phase in hand.
LockInv ==
    \A t \in Threads : pc[t] \in {"check", "append"} <=> lock = t

PhaseInv ==
    \A t \in Threads : pc[t] \in {"check", "append"} => phase[t] \in Phases

\* A thread walks the phases it has advanced and not yet finished, all of them reached; in
\* the loop, and in a callback, it walks one.
WalkInv ==
    \A t \in Threads :
        /\ pc[t] \in {"take", "callback"} => walk[t] # <<>>
        /\ pc[t] = "idle" => walk[t] = <<>>
        /\ \A k \in DOMAIN walk[t] : walk[t][k] \in reached

Walker(p) == \E t \in Threads : \E k \in DOMAIN walk[t] : walk[t][k] = p

\* The phase of a registration that was accepted may be reached by now: then it is walked.
AcceptInv ==
    \A t \in Threads : pc[t] = "append" /\ phase[t] \in reached => Walker(phase[t])

\* What was called is registered, and so were all earlier ones of its phase.
PrefixInv ==
    /\ \A j \in DOMAIN calls : calls[j] \in DOMAIN observers
    /\ \A i, j \in DOMAIN observers :
          /\ i < j
          /\ observers[i].phase = observers[j].phase
          /\ ~observers[j].pending
          => ~observers[i].pending

IInv == /\ TypeOK /\ LockInv /\ PhaseInv /\ WalkInv /\ AcceptInv /\ PrefixInv
        /\ EveryObserverOnce

----------------------------------------------------------------------------
\* The first of some observers is one of them, and none of them is before it.
LEMMA FirstIsLeast ==
  ASSUME NEW S, S \subseteq Nat, S # {}
  PROVE First(S) \in S /\ \A j \in S : First(S) <= j
<1>1. \E x \in S : \A y \in S : ~(<<y, x>> \in OpToRel(<, Nat))
  BY NatLessThanWellFounded, WFMin
<1>2. PICK x \in S : \A y \in S : ~(<<y, x>> \in OpToRel(<, Nat))
  BY <1>1
<1>3. \A y \in S : x <= y
  <2> SUFFICES ASSUME NEW y \in S PROVE x <= y
    OBVIOUS
  <2>1. ~(y < x)
    BY <1>2 DEF OpToRel
  <2> QED BY <2>1
<1> QED BY <1>3 DEF First

\* The registry starts empty, with no thread in it.
LEMMA InitIInv == Init => IInv
<1> SUFFICES ASSUME Init PROVE IInv
  OBVIOUS
<1> USE DEF Init
<1>1. TypeOK
  BY DEF TypeOK
<1>2. LockInv /\ PhaseInv /\ WalkInv /\ AcceptInv
  BY NoneAssumption DEF LockInv, PhaseInv, WalkInv, AcceptInv
<1>3. PrefixInv /\ EveryObserverOnce
  BY DEF PrefixInv, EveryObserverOnce, ObserversAreNeverLost, CalledOnceInOrder
<1> QED BY <1>1, <1>2, <1>3 DEF IInv

\* A step of one thread that neither registers nor calls an observer.
LEMMA QuietStep ==
  ASSUME IInv, UNCHANGED <<observers, calls>>, TypeOK', LockInv', PhaseInv', WalkInv', AcceptInv',
         reached \subseteq reached',
         \A i \in DOMAIN observers :
            observers[i].pending /\ observers[i].phase \in reached' => Walker(observers[i].phase)'
  PROVE IInv'
<1>1. PrefixInv'
  BY DEF IInv, PrefixInv
<1>2. ObserversAreNeverLost'
  BY DEF ObserversAreNeverLost, Walker
<1>3. CalledOnceInOrder'
  BY DEF IInv, EveryObserverOnce, CalledOnceInOrder
<1> QED BY <1>1, <1>2, <1>3 DEF IInv, EveryObserverOnce

\* A registration up to its acceptance, or its refusal.
LEMMA RegistrationSteps ==
  ASSUME IInv, NEW t \in Threads,
         (\E p \in Phases : OnPhase(t, p)) \/ Refuse(t) \/ Accept(t) \/ CallbackReturns(t)
  PROVE IInv'
<1> DEFINE l == pc'[t]
<1>1. /\ UNCHANGED <<observers, calls, reached, walk>>
      /\ l \in {"idle", "check", "append", "take", "callback"}
      /\ pc' = [pc EXCEPT ![t] = l]
      /\ phase' = [phase EXCEPT ![t] = phase'[t]]
      /\ phase'[t] \in Phases \cup {None} /\ lock' \in {lock, t, None}
  BY DEF IInv, TypeOK, OnPhase, Refuse, Accept, CallbackReturns, Goto, Back
<1>2. TypeOK'
  BY <1>1 DEF IInv, TypeOK
<1>3. /\ l \in {"check", "append"} <=> lock' = t
      /\ \A u \in Threads \ {t} : lock' = u <=> lock = u
  BY NoneAssumption DEF IInv, TypeOK, LockInv, OnPhase, Refuse, Accept, CallbackReturns, Goto, Free, Back
<1>4. \A u \in Threads \ {t} : pc'[u] = pc[u] /\ phase'[u] = phase[u]
  BY <1>1 DEF IInv, TypeOK
<1>5. LockInv'
  BY <1>3, <1>4 DEF IInv, LockInv
<1>6. /\ l \in {"check", "append"} => phase'[t] \in Phases
      /\ l = "append" => phase'[t] \notin reached
      /\ l \in {"take", "callback"} => walk[t] # <<>>
      /\ l = "idle" => walk[t] = <<>>
  BY DEF IInv, TypeOK, PhaseInv, WalkInv, OnPhase, Refuse, Accept, CallbackReturns, Goto, Free, Back
<1>7. PhaseInv' /\ WalkInv' /\ AcceptInv'
  BY <1>1, <1>4, <1>6 DEF IInv, PhaseInv, WalkInv, AcceptInv, Walker
<1>8. \A i \in DOMAIN observers :
          observers[i].pending /\ observers[i].phase \in reached' => Walker(observers[i].phase)'
  BY <1>1 DEF IInv, EveryObserverOnce, ObserversAreNeverLost, Walker
<1> QED BY <1>1, <1>2, <1>5, <1>7, <1>8, QuietStep

\* The first thread that advances a phase walks it from then on.
LEMMA AdvanceStep ==
  ASSUME IInv, NEW t \in Threads, NEW p \in Phases, Advance(t, p)
  PROVE IInv'
<1>1. /\ UNCHANGED <<observers, calls, lock, phase>>
      /\ pc' = [pc EXCEPT ![t] = "take"] /\ pc[t] \in {"idle", "callback"}
      /\ walk' = [walk EXCEPT ![t] = Append(walk[t], p)]
      /\ reached' = reached \cup {p}
  BY DEF Advance, Goto, Free
<1>2. /\ pc \in [Threads -> {"idle", "check", "append", "take", "callback"}]
      /\ walk \in [Threads -> Seq(Phases)] /\ walk[t] \in Seq(Phases)
  BY DEF IInv, TypeOK
<1>3. TypeOK'
  BY <1>1, <1>2 DEF IInv, TypeOK
<1>4. \A u \in Threads : /\ pc'[u] = IF u = t THEN "take" ELSE pc[u]
                         /\ walk'[u] = IF u = t THEN Append(walk[t], p) ELSE walk[u]
  BY <1>1, <1>2
<1>5. /\ Append(walk[t], p) # <<>> /\ DOMAIN walk[t] \subseteq DOMAIN Append(walk[t], p)
      /\ Len(walk[t]) + 1 \in DOMAIN Append(walk[t], p)
      /\ Append(walk[t], p)[Len(walk[t]) + 1] = p
      /\ \A k \in DOMAIN Append(walk[t], p) :
            \/ k \in DOMAIN walk[t] /\ Append(walk[t], p)[k] = walk[t][k]
            \/ k = Len(walk[t]) + 1
      /\ \A k \in DOMAIN walk[t] : Append(walk[t], p)[k] = walk[t][k]
  BY <1>2
<1>6. ASSUME NEW q, Walker(q) PROVE Walker(q)'
  <2>1. PICK u \in Threads : \E k \in DOMAIN walk[u] : walk[u][k] = q
    BY <1>6 DEF Walker
  <2>2. PICK k \in DOMAIN walk[u] : walk[u][k] = q
    BY <2>1
  <2>3. k \in DOMAIN walk'[u] /\ walk'[u][k] = q
    BY <1>4, <1>5, <2>2
  <2> QED BY <2>3 DEF Walker
<1>7. Walker(p)'
  BY <1>4, <1>5 DEF Walker
<1>8. LockInv' /\ PhaseInv'
  BY <1>1, <1>4 DEF IInv, LockInv, PhaseInv
<1>9. WalkInv'
  <2>1. \A u \in Threads : \A k \in DOMAIN walk[u] : walk[u][k] \in reached
    BY DEF IInv, WalkInv
  <2>2. ASSUME NEW u \in Threads, NEW k \in DOMAIN walk'[u] PROVE walk'[u][k] \in reached'
    <3>1. CASE u = t
      BY <1>1, <1>4, <1>5, <2>1, <2>2, <3>1
    <3>2. CASE u # t
      BY <1>1, <1>4, <2>1, <2>2, <3>2
    <3> QED BY <3>1, <3>2
  <2>3. \A u \in Threads : /\ pc'[u] \in {"take", "callback"} => walk'[u] # <<>>
                           /\ pc'[u] = "idle" => walk'[u] = <<>>
    BY <1>4, <1>5 DEF IInv, WalkInv
  <2> QED BY <2>2, <2>3 DEF WalkInv
<1>10. AcceptInv'
  BY <1>1, <1>4, <1>6, <1>7 DEF IInv, AcceptInv
<1>11. \A i \in DOMAIN observers :
          observers[i].pending /\ observers[i].phase \in reached' => Walker(observers[i].phase)'
  BY <1>1, <1>6, <1>7 DEF IInv, EveryObserverOnce, ObserversAreNeverLost, Walker
<1> QED BY <1>1, <1>3, <1>8, <1>9, <1>10, <1>11, QuietStep

\* A walk ends when no observer of its phase waits; the lock is free then, so that no accepted
\* one is on its way.
LEMMA NoMoreStep ==
  ASSUME IInv, NEW t \in Threads, NoMore(t)
  PROVE IInv'
<1> DEFINE w == walk[t]
           rest == SubSeq(w, 1, Len(w) - 1)
           l == IF Len(w) = 1 THEN "idle" ELSE "callback"
<1>1. /\ UNCHANGED <<observers, calls, lock, phase, reached>>
      /\ pc[t] = "take" /\ lock = None /\ Waiting(w[Len(w)]) = {}
      /\ pc' = [pc EXCEPT ![t] = l]
      /\ walk' = [walk EXCEPT ![t] = rest]
  BY DEF NoMore, Goto, Walked
<1>2. /\ pc \in [Threads -> {"idle", "check", "append", "take", "callback"}]
      /\ walk \in [Threads -> Seq(Phases)] /\ w \in Seq(Phases) /\ w # <<>>
  BY <1>1 DEF IInv, TypeOK, WalkInv
<1>3. /\ rest \in Seq(Phases) /\ Len(rest) = Len(w) - 1 /\ DOMAIN rest = 1 .. (Len(w) - 1)
      /\ DOMAIN w = 1 .. Len(w) /\ Len(w) \in Nat /\ Len(w) > 0
      /\ \A k \in DOMAIN rest : k \in DOMAIN w /\ rest[k] = w[k]
  <2>1. DOMAIN w = 1 .. Len(w) /\ Len(w) \in Nat /\ Len(w) # 0
    BY <1>2, LenProperties, EmptySeq
  <2>2. \A k \in 1 .. (Len(w) - 1) : w[k] \in Phases
    BY <1>2, <2>1, ElementOfSeq
  <2>3. /\ rest \in Seq(Phases) /\ Len(rest) = Len(w) - 1
        /\ \A k \in 1 .. (Len(w) - 1) : rest[k] = w[k]
    <3>1. /\ rest \in Seq(Phases)
          /\ Len(rest) = IF 1 <= Len(w) - 1 THEN (Len(w) - 1) - 1 + 1 ELSE 0
          /\ \A k \in 1 .. (Len(w) - 1) - 1 + 1 : rest[k] = w[1 + k - 1]
      BY <2>1, <2>2, SubSeqProperties
    <3> QED BY <2>1, <3>1
  <2>4. DOMAIN rest = 1 .. (Len(w) - 1)
    BY <2>3, LenProperties
  <2> QED BY <2>1, <2>3, <2>4
<1>4. \A u \in Threads : /\ pc'[u] = IF u = t THEN l ELSE pc[u]
                         /\ walk'[u] = IF u = t THEN rest ELSE walk[u]
  BY <1>1, <1>2
<1>5. (l = "callback" => rest # <<>>) /\ (l = "idle" => rest = <<>>) /\ l \in {"idle", "callback"}
  <2> HIDE DEF rest
  <2>1. l = "callback" => Len(rest) # 0
    BY <1>3
  <2>2. l = "idle" => Len(rest) = 0
    BY <1>3
  <2>3. (Len(rest) = 0 <=> rest = <<>>)
    BY <1>3, EmptySeq
  <2> QED BY <2>1, <2>2, <2>3
<1> HIDE DEF rest, l
<1>6. TypeOK'
  BY <1>1, <1>2, <1>3, <1>5 DEF IInv, TypeOK
<1>7. LockInv' /\ PhaseInv'
  BY <1>1, <1>4, <1>5 DEF IInv, LockInv, PhaseInv
<1>8. WalkInv'
  BY <1>1, <1>3, <1>4, <1>5 DEF IInv, WalkInv
<1>9. AcceptInv'
  <2>1. \A u \in Threads : pc'[u] # "append"
    BY <1>1, <1>4, <1>5, NoneAssumption DEF IInv, LockInv
  <2> QED BY <2>1 DEF AcceptInv
<1>10. ASSUME NEW i \in DOMAIN observers, observers[i].pending, observers[i].phase \in reached'
       PROVE Walker(observers[i].phase)'
  <2> DEFINE q == observers[i].phase
  <2>1. PICK u \in Threads : \E k \in DOMAIN walk[u] : walk[u][k] = q
    BY <1>1, <1>10 DEF IInv, EveryObserverOnce, ObserversAreNeverLost
  <2>2. q # w[Len(w)]
    BY <1>1, <1>10 DEF Waiting
  <2>5. PICK k \in DOMAIN walk[u] : walk[u][k] = q
    BY <2>1
  <2>3. CASE u = t
    <3>1. k \in DOMAIN rest /\ rest[k] = q
      BY <1>3, <2>5, <2>2, <2>3
    <3> QED BY <1>1, <1>4, <3>1 DEF Walker
  <2>4. CASE u # t
    BY <1>1, <1>4, <2>1, <2>4 DEF Walker
  <2> QED BY <2>3, <2>4
<1> QED BY <1>1, <1>6, <1>7, <1>8, <1>9, <1>10, QuietStep

\* An accepted observer is registered behind all others.
LEMMA RegisterStep ==
  ASSUME IInv, NEW t \in Threads, Register(t)
  PROVE IInv'
<1> DEFINE new == [phase |-> phase[t], pending |-> TRUE]
           n == Len(observers) + 1
<1>1. /\ pc[t] = "append" /\ observers' = Append(observers, new)
      /\ pc' = [pc EXCEPT ![t] = Back(t)] /\ phase' = [phase EXCEPT ![t] = None] /\ lock' = None
      /\ UNCHANGED <<reached, walk, calls>>
  BY DEF Register, Goto
<1>2. /\ observers \in Seq(Observer) /\ new \in Observer /\ lock = t /\ calls \in Seq(Nat)
      /\ pc \in [Threads -> {"idle", "check", "append", "take", "callback"}]
      /\ phase \in [Threads -> Phases \cup {None}]
  BY <1>1 DEF IInv, TypeOK, LockInv, PhaseInv, Observer
<1>3. /\ observers' \in Seq(Observer) /\ n \in Nat
      /\ DOMAIN observers = 1 .. Len(observers) /\ Len(observers) \in Nat
      /\ DOMAIN observers' = 1 .. n /\ observers'[n] = new
      /\ \A i \in DOMAIN observers : observers'[i] = observers[i]
  <2>1. observers' \in Seq(Observer) /\ Len(observers') = n
    BY <1>1, <1>2, AppendProperties
  <2>2. DOMAIN observers = 1 .. Len(observers) /\ Len(observers) \in Nat /\ DOMAIN observers' = 1 .. n
    BY <1>2, <2>1, LenProperties
  <2>3. observers'[n] = new /\ \A i \in 1 .. Len(observers) : observers'[i] = observers[i]
    BY <1>1, <1>2, AppendProperties
  <2> QED BY <2>1, <2>2, <2>3
<1>4. new.phase = phase[t] /\ new.pending
  OBVIOUS
<1>5. \A u \in Threads : /\ pc'[u] = IF u = t THEN Back(t) ELSE pc[u]
                         /\ phase'[u] = IF u = t THEN None ELSE phase[u]
                         /\ pc'[u] \notin {"check", "append"}
  BY <1>1, <1>2 DEF IInv, LockInv, Back
<1> HIDE DEF new, n
<1>6. TypeOK'
  BY <1>1, <1>2, <1>3 DEF IInv, TypeOK, Back
<1>7. LockInv' /\ PhaseInv' /\ AcceptInv'
  BY <1>1, <1>5, NoneAssumption DEF LockInv, PhaseInv, AcceptInv
<1>8. WalkInv'
  BY <1>1, <1>5 DEF IInv, WalkInv, Back
<1>9. \A j \in DOMAIN calls : calls[j] \in DOMAIN observers
  BY DEF IInv, PrefixInv
<1>10. PrefixInv'
  <2>1. \A j \in DOMAIN calls : calls[j] \in DOMAIN observers'
    BY <1>3, <1>9 DEF n
  <2>2. ASSUME NEW i \in DOMAIN observers', NEW j \in DOMAIN observers', i < j,
               observers'[i].phase = observers'[j].phase, ~observers'[j].pending
        PROVE ~observers'[i].pending
    <3>1. j # n
      BY <1>3, <1>4, <2>2
    <3>2. i \in DOMAIN observers /\ j \in DOMAIN observers
      BY <1>3, <2>2, <3>1 DEF n
    <3> QED BY <1>3, <2>2, <3>2 DEF IInv, PrefixInv
  <2> QED BY <1>1, <2>1, <2>2 DEF PrefixInv
<1>11. ObserversAreNeverLost'
  <2> SUFFICES ASSUME NEW i \in DOMAIN observers', observers'[i].pending, observers'[i].phase \in reached'
               PROVE Walker(observers'[i].phase)
    BY <1>1 DEF ObserversAreNeverLost, Walker
  <2>1. CASE i = n
    BY <1>1, <1>3, <1>4, <2>1 DEF IInv, AcceptInv
  <2>2. CASE i # n
    <3>1. i \in DOMAIN observers /\ observers'[i] = observers[i]
      BY <1>3, <2>2 DEF n
    <3> QED BY <1>1, <3>1 DEF IInv, EveryObserverOnce, ObserversAreNeverLost, Walker
  <2> QED BY <2>1, <2>2
<1>12. CalledOnceInOrder'
  <2>1. \A j, k \in DOMAIN calls : calls[j] = calls[k] => j = k
    BY DEF IInv, EveryObserverOnce, CalledOnceInOrder
  <2>2. ASSUME NEW i \in DOMAIN observers'
        PROVE ~observers'[i].pending <=> \E k \in DOMAIN calls : calls[k] = i
    <3>1. CASE i = n
      <4>1. i \notin DOMAIN observers
        BY <1>3, <3>1 DEF n
      <4> QED BY <1>3, <1>4, <1>9, <3>1, <4>1
    <3>2. CASE i # n
      <4>1. i \in DOMAIN observers /\ observers'[i] = observers[i]
        BY <1>3, <3>2 DEF n
      <4> QED BY <4>1 DEF IInv, EveryObserverOnce, CalledOnceInOrder
    <3> QED BY <3>1, <3>2
  <2>3. \A j \in DOMAIN calls : observers'[calls[j]] = observers[calls[j]]
    BY <1>3, <1>9
  <2>4. \A j \in DOMAIN calls :
          /\ observers[calls[j]].phase \in reached
          /\ \A k \in DOMAIN calls :
                /\ j < k
                /\ observers[calls[j]].phase = observers[calls[k]].phase
                => calls[j] < calls[k]
    BY DEF IInv, EveryObserverOnce, CalledOnceInOrder
  <2> QED BY <1>1, <2>1, <2>2, <2>3, <2>4 DEF CalledOnceInOrder
<1> QED BY <1>6, <1>7, <1>8, <1>10, <1>11, <1>12 DEF IInv, EveryObserverOnce

\* The first waiting observer of the phase that is walked is called.
LEMMA TakeStep ==
  ASSUME IInv, NEW t \in Threads, Take(t)
  PROVE IInv'
<1> DEFINE p == Walked(t)
           i == First(Waiting(p))
           n == Len(calls) + 1
<1>1. /\ pc[t] = "take" /\ Waiting(p) # {}
      /\ observers' = [observers EXCEPT ![i].pending = FALSE]
      /\ calls' = Append(calls, i)
      /\ pc' = [pc EXCEPT ![t] = "callback"]
      /\ UNCHANGED <<reached, lock, phase, walk>>
  BY DEF Take, Goto
<1>2. /\ observers \in Seq(Observer) /\ calls \in Seq(Nat) /\ walk[t] \in Seq(Phases)
      /\ pc \in [Threads -> {"idle", "check", "append", "take", "callback"}]
      /\ walk[t] # <<>>
  BY <1>1 DEF IInv, TypeOK, WalkInv
<1>3. p \in reached
  <2>1. Len(walk[t]) \in DOMAIN walk[t]
    BY <1>2, LenProperties, EmptySeq
  <2> QED BY <2>1 DEF IInv, WalkInv, Walked
<1> HIDE DEF p
<1>4. /\ DOMAIN observers = 1 .. Len(observers) /\ Len(observers) \in Nat
      /\ DOMAIN calls = 1 .. Len(calls) /\ Len(calls) \in Nat
      /\ \A j \in DOMAIN observers : observers[j] \in Observer
  BY <1>2, LenProperties, ElementOfSeq
<1>5. /\ i \in DOMAIN observers /\ observers[i].phase = p /\ observers[i].pending
      /\ \A j \in DOMAIN observers : observers[j].phase = p /\ observers[j].pending => i <= j
  <2>1. Waiting(p) \subseteq Nat
    BY <1>4 DEF Waiting
  <2>2. i \in Waiting(p) /\ \A j \in Waiting(p) : i <= j
    BY <1>1, <2>1, FirstIsLeast
  <2> QED BY <2>2 DEF Waiting
<1> HIDE DEF i
<1>6. /\ DOMAIN observers' = DOMAIN observers
      /\ observers' \in Seq(Observer)
      /\ \A j \in DOMAIN observers : /\ observers'[j].phase = observers[j].phase
                                     /\ j = i => ~observers'[j].pending
                                     /\ j # i => observers'[j] = observers[j]
  <2>1. observers' = [observers EXCEPT ![i] = [observers[i] EXCEPT !.pending = FALSE]]
    BY <1>1
  <2>2. /\ [observers[i] EXCEPT !.pending = FALSE] \in Observer
        /\ [observers[i] EXCEPT !.pending = FALSE].phase = observers[i].phase
        /\ [observers[i] EXCEPT !.pending = FALSE].pending = FALSE
    BY <1>4, <1>5 DEF Observer
  <2>3. observers' \in Seq(Observer)
    BY <1>2, <1>4, <1>5, <2>1, <2>2, ExceptSeq
  <2>5. \A j \in DOMAIN observers :
           observers'[j] = IF j = i THEN [observers[i] EXCEPT !.pending = FALSE] ELSE observers[j]
    BY <2>1
  <2> QED BY <2>1, <2>2, <2>3, <2>5
<1>7. /\ calls' \in Seq(Nat) /\ DOMAIN calls' = 1 .. n /\ n \in Nat /\ calls'[n] = i
      /\ \A j \in DOMAIN calls : calls'[j] = calls[j]
      /\ \A j \in 1 .. n : j = n \/ j \in DOMAIN calls
  <2>1. i \in Nat
    BY <1>4, <1>5
  <2>2. /\ calls' \in Seq(Nat) /\ Len(calls') = n /\ calls'[n] = i
        /\ \A j \in 1 .. Len(calls) : calls'[j] = calls[j]
    BY <1>1, <1>2, <2>1, AppendProperties
  <2> QED BY <1>4, <2>2, LenProperties
<1> HIDE DEF n
<1>8. TypeOK'
  BY <1>1, <1>2, <1>6, <1>7 DEF IInv, TypeOK
<1>9. LockInv' /\ PhaseInv' /\ WalkInv' /\ AcceptInv'
  BY <1>1, <1>2 DEF IInv, LockInv, PhaseInv, WalkInv, AcceptInv, Walker
<1>10. ObserversAreNeverLost'
  BY <1>1, <1>6 DEF IInv, EveryObserverOnce, ObserversAreNeverLost
<1>11. \A j \in DOMAIN calls : /\ calls[j] \in DOMAIN observers /\ calls[j] # i
                               /\ observers[calls[j]].phase = p => calls[j] < i
  <2> SUFFICES ASSUME NEW j \in DOMAIN calls
               PROVE /\ calls[j] \in DOMAIN observers /\ calls[j] # i
                     /\ observers[calls[j]].phase = p => calls[j] < i
    OBVIOUS
  <2>1. calls[j] \in DOMAIN observers /\ ~observers[calls[j]].pending
    BY DEF IInv, PrefixInv, EveryObserverOnce, CalledOnceInOrder
  <2>2. calls[j] # i
    BY <1>5, <2>1
  <2>3. observers[calls[j]].phase = p => ~(i < calls[j])
    BY <1>5, <2>1 DEF IInv, PrefixInv
  <2>4. i \in Nat /\ calls[j] \in Nat
    BY <1>4, <1>5, <2>1
  <2> QED BY <2>1, <2>2, <2>3, <2>4
<1>12. PrefixInv'
  <2>1. \A j \in DOMAIN calls' : calls'[j] \in DOMAIN observers'
    BY <1>5, <1>6, <1>7, <1>11
  <2>2. ASSUME NEW j \in DOMAIN observers, NEW k \in DOMAIN observers, j < k,
               observers[j].phase = observers[k].phase, ~observers'[k].pending
        PROVE ~observers'[j].pending
    <3>1. CASE k = i
      <4>1. ~(i <= j)
        BY <1>4, <1>5, <2>2, <3>1
      <4> QED BY <1>5, <1>6, <2>2, <3>1, <4>1
    <3>2. CASE k # i
      <4>1. ~observers[k].pending
        BY <1>6, <2>2, <3>2
      <4>2. ~observers[j].pending
        BY <2>2, <4>1 DEF IInv, PrefixInv
      <4> QED BY <1>6, <4>2
    <3> QED BY <3>1, <3>2
  <2> QED BY <1>6, <2>1, <2>2 DEF PrefixInv
<1>13. CalledOnceInOrder'
  <2>0. /\ \A j, k \in DOMAIN calls : calls[j] = calls[k] => j = k
        /\ \A j \in DOMAIN observers :
              ~observers[j].pending <=> \E k \in DOMAIN calls : calls[k] = j
        /\ \A j \in DOMAIN calls :
              /\ observers[calls[j]].phase \in reached
              /\ \A k \in DOMAIN calls :
                    /\ j < k
                    /\ observers[calls[j]].phase = observers[calls[k]].phase
                    => calls[j] < calls[k]
    BY DEF IInv, EveryObserverOnce, CalledOnceInOrder
  <2>1. \A j, k \in DOMAIN calls' : calls'[j] = calls'[k] => j = k
    BY <1>7, <1>11, <2>0
  <2>2. ASSUME NEW j \in DOMAIN observers'
        PROVE ~observers'[j].pending <=> \E k \in DOMAIN calls' : calls'[k] = j
    <3>1. CASE j = i
      <4>1. n \in DOMAIN calls' /\ ~observers'[j].pending
        BY <1>4, <1>5, <1>6, <1>7, <3>1 DEF n
      <4> QED BY <1>7, <3>1, <4>1
    <3>2. CASE j # i
      <4>1. ~observers'[j].pending <=> ~observers[j].pending
        BY <1>6, <2>2, <3>2
      <4>2. ASSUME NEW k \in DOMAIN calls', calls'[k] = j PROVE \E m \in DOMAIN calls : calls[m] = j
        BY <1>7, <3>2, <4>2
      <4>3. ASSUME NEW k \in DOMAIN calls, calls[k] = j PROVE \E m \in DOMAIN calls' : calls'[m] = j
        <5>1. k \in DOMAIN calls' /\ calls'[k] = j
          BY <1>4, <1>7, <4>3 DEF n
        <5> QED BY <5>1
      <4> QED BY <1>6, <2>0, <2>2, <4>1, <4>2, <4>3
    <3> QED BY <3>1, <3>2
  <2>3. ASSUME NEW j \in DOMAIN calls' PROVE observers'[calls'[j]].phase \in reached'
    BY <1>1, <1>3, <1>5, <1>6, <1>7, <1>11, <2>0, <2>3
  <2>4. ASSUME NEW j \in DOMAIN calls', NEW k \in DOMAIN calls', j < k,
               observers'[calls'[j]].phase = observers'[calls'[k]].phase
        PROVE calls'[j] < calls'[k]
    <3>1. j # n /\ j \in DOMAIN calls
      BY <1>7, <2>4
    <3>2. CASE k = n
      BY <1>5, <1>6, <1>7, <1>11, <2>4, <3>1, <3>2
    <3>3. CASE k # n
      BY <1>6, <1>7, <1>11, <2>0, <2>4, <3>1, <3>3
    <3> QED BY <3>2, <3>3
  <2> QED BY <2>1, <2>2, <2>3, <2>4 DEF CalledOnceInOrder
<1> QED BY <1>8, <1>9, <1>10, <1>12, <1>13 DEF IInv, EveryObserverOnce

\* ml_lifecycle_init and ml_lifecycle_uninit find no thread in the registry.
LEMMA ResetStep ==
  ASSUME IInv, Reset
  PROVE IInv'
<1>1. /\ observers' = <<>> /\ calls' = <<>> /\ reached' = {} /\ UNCHANGED <<lock, pc, phase, walk>>
      /\ \A t \in Threads : pc[t] = "idle" /\ walk[t] = <<>>
  BY DEF Reset, IInv, WalkInv
<1>2. TypeOK'
  BY <1>1 DEF IInv, TypeOK
<1>3. LockInv' /\ PhaseInv' /\ WalkInv' /\ AcceptInv'
  BY <1>1 DEF IInv, LockInv, PhaseInv, WalkInv, AcceptInv
<1>4. PrefixInv' /\ EveryObserverOnce'
  BY <1>1 DEF PrefixInv, EveryObserverOnce, ObserversAreNeverLost, CalledOnceInOrder
<1> QED BY <1>2, <1>3, <1>4 DEF IInv

\* No step of the registry breaks the invariant.
LEMMA NextIInv == IInv /\ [Next]_vars => IInv'
<1> SUFFICES ASSUME IInv, [Next]_vars PROVE IInv'
  OBVIOUS
<1>1. ASSUME NEW t \in Threads, Inside(t) PROVE IInv'
  BY <1>1, RegistrationSteps, RegisterStep, TakeStep, NoMoreStep DEF Inside
<1>2. ASSUME NEW t \in Threads, NEW p \in Phases, OnPhase(t, p) \/ Advance(t, p) PROVE IInv'
  BY <1>2, RegistrationSteps, AdvanceStep
<1>3. CASE UNCHANGED vars
  <2>1. UNCHANGED <<observers, reached, lock, pc, phase, walk, calls>>
    BY <1>3 DEF vars
  <2>2. TypeOK' /\ LockInv' /\ PhaseInv' /\ WalkInv' /\ AcceptInv'
    BY <2>1 DEF IInv, TypeOK, LockInv, PhaseInv, WalkInv, AcceptInv, Walker
  <2>3. \A i \in DOMAIN observers :
          observers[i].pending /\ observers[i].phase \in reached' => Walker(observers[i].phase)'
    BY <2>1 DEF IInv, EveryObserverOnce, ObserversAreNeverLost, Walker
  <2> QED BY <2>1, <2>2, <2>3, QuietStep
<1> QED BY <1>1, <1>2, <1>3, ResetStep DEF Next, AdvanceAgain

\* The lock, the walks and the observers agree in every state.
THEOREM IInvAlways == Spec => []IInv
BY InitIInv, NextIInv, PTL DEF Spec

\* Whatever the threads and the nested calls of callbacks do, an accepted observer that waits
\* for a reached phase has a thread that comes to it, is called once, and in the order of
\* registration (lifecycle.c:59-100).
THEOREM ObserversAreCalledOnce == Spec => []EveryObserverOnce
<1>1. IInv => EveryObserverOnce
  BY DEF IInv
<1> QED BY <1>1, IInvAlways, PTL

----------------------------------------------------------------------------
(* BootBoost.                                                               *)

\* An archive is mounted once, with this directory, or not at all.
Once(ms, a, d) ==
    \E i \in DOMAIN ms : /\ ms[i] = [root |-> a, dir |-> d]
                         /\ \A j \in DOMAIN ms : ms[j].root = a => j = i
Unmounted(ms, a) == \A i \in DOMAIN ms : ms[i].root # a

\* What a thread at this place has made of its archive.
AsMounted(ms, a, place) ==
    /\ place = "store" => Once(ms, a, Whole(a))
    /\ place = "adopt" => Once(ms, a, Stub(a))
    /\ place \notin {"store", "adopt"} => Unmounted(ms, a)

\* A thread in the hook has an archive of its own, which was not reported before.
ActiveInv ==
    /\ \A t \in Mounters : mounting[t] = "game" <=> archive[t] = NoArchive
    /\ \A t \in Mounters : archive[t] \notin reported
    /\ \A t, u \in Mounters : archive[t] = archive[u] /\ archive[t] # NoArchive => t = u

\* An archive that is not excepted is mounted while no other one is.
AloneInv ==
    \A t, u \in Mounters :
        mounting[t] # "game" /\ mounting[u] # "game" /\ archive[t] \notin excepted => t = u

\* Its cache file holds its own directory, if anything.
CacheInv ==
    \A a \in Archives : a \notin excepted => cacheFiles[a] \in {NoArchive, Damaged, Whole(a)}

\* It is mounted as far as its thread has got, and from the report on.
MountInv ==
    \A a \in Archives : a \notin excepted =>
        /\ a \in reported => Once(mounts, a, Whole(a))
        /\ \A t \in Mounters : archive[t] = a => AsMounted(mounts, a, mounting[t])
        /\ a \notin reported /\ (\A t \in Mounters : archive[t] # a) => Unmounted(mounts, a)

\* Between the snapshot and the last use of it, it names the archives reported, and not
\* the thread's own one, which then is the only one it does not name.
RootsInv ==
    \A t \in Mounters : mounting[t] \in {"stub", "adopt", "full", "store"} =>
        /\ \A a \in reported : a \notin excepted => a \in rootsBefore[t]
        /\ archive[t] \notin excepted =>
             /\ archive[t] \notin rootsBefore[t]
             /\ \A i \in DOMAIN mounts : mounts[i].root \in rootsBefore[t] \cup {archive[t]}

BootInv == /\ BootTypeOK /\ AdoptedDirectoriesFit /\ ActiveInv /\ AloneInv /\ CacheInv
           /\ MountInv /\ RootsInv
----------------------------------------------------------------------------
\* A set that contains 0 and, up to m, the successor of whatever it contains.
LEMMA UpTo ==
  ASSUME NEW m \in Nat, NEW S, 0 \in S, \A n \in Nat : n \in S /\ n < m => n + 1 \in S
  PROVE  \A n \in 0..m : n \in S
<1> DEFINE Missing == {n \in 0..m : n \notin S}
<1> SUFFICES ASSUME Missing # {} PROVE FALSE
  OBVIOUS
<1>1. PICK x \in Missing : \A y \in Missing : ~(<<y, x>> \in OpToRel(<, Nat))
  <2>1. Missing \subseteq Nat
    OBVIOUS
  <2> HIDE DEF Missing
  <2> QED BY <2>1, NatLessThanWellFounded, WFMin
<1>2. x \in Nat /\ x # 0 /\ x <= m /\ x \notin S
  OBVIOUS
<1> HIDE DEF Missing
<1>3. x - 1 \in Nat /\ x - 1 < m /\ x - 1 \in 0..m /\ (x - 1) + 1 = x
  BY <1>2
<1>4. x - 1 \notin Missing
  <2>1. x - 1 < x /\ x - 1 \in Nat
    BY <1>2
  <2> QED BY <1>1, <1>2, <2>1 DEF OpToRel
<1>5. x - 1 \in S
  BY <1>3, <1>4 DEF Missing
<1> QED BY <1>2, <1>3, <1>5

\* r is what s has in S up to n, in its order: e says where each element is from.
Picks(e, r, s, S, n) ==
  /\ e \in [1..Len(r) -> 1..n]
  /\ \A k \in 1..Len(r) : r[k] = s[e[k]] /\ r[k] \in S
  /\ \A j, k \in 1..Len(r) : j < k => e[j] < e[k]
  /\ \A i \in 1..n : s[i] \in S => \E k \in 1..Len(r) : e[k] = i

\* f has what s has in S up to each of its places.
IsAmong(f, s, S, n) ==
  f = [i \in 0..n |-> IF i = 0 THEN <<>>
                      ELSE IF s[i] \in S THEN Append(f[i - 1], s[i]) ELSE f[i - 1]]

\* The recursion that takes elements out is defined.
LEMMA AmongExists ==
  ASSUME NEW s, Len(s) \in Nat, NEW S
  PROVE  \E f : IsAmong(f, s, S, Len(s)) /\ Among(s, S) = f[Len(s)]
<1> DEFINE Sound == {n \in 0..Len(s) : \E f : IsAmong(f, s, S, n)}
<1>1. 0 \in Sound
  <2> DEFINE f == [i \in {0} |-> <<>>]
  <2>1. IsAmong(f, s, S, 0)
    BY 0..0 = {0} DEF IsAmong
  <2> QED BY <2>1
<1>2. ASSUME NEW n \in Nat, n \in Sound, n < Len(s) PROVE n + 1 \in Sound
  <2>1. PICK f : IsAmong(f, s, S, n)
    BY <1>2
  <2> DEFINE g == [i \in 0..(n + 1) |->
                     IF i <= n THEN f[i]
                     ELSE IF s[n + 1] \in S THEN Append(f[n], s[n + 1]) ELSE f[n]]
  <2>2. ASSUME NEW i \in 0..(n + 1)
        PROVE g[i] = IF i = 0 THEN <<>>
                     ELSE IF s[i] \in S THEN Append(g[i - 1], s[i]) ELSE g[i - 1]
    <3>1. CASE i = 0
      BY <2>1, <3>1 DEF IsAmong
    <3>2. CASE i \in 1..n
      <4>1. i - 1 \in 0..n /\ i \in 0..n /\ i - 1 \in 0..(n + 1) /\ i - 1 <= n /\ i <= n /\ i # 0
        BY <3>2
      <4>2. g[i] = f[i] /\ g[i - 1] = f[i - 1]
        BY <4>1
      <4>3. f[i] = IF s[i] \in S THEN Append(f[i - 1], s[i]) ELSE f[i - 1]
        BY <2>1, <4>1 DEF IsAmong
      <4> QED BY <4>1, <4>2, <4>3
    <3>3. CASE i = n + 1
      <4>1. /\ ~(n + 1 <= n) /\ (n + 1) - 1 = n /\ n <= n /\ n + 1 # 0
            /\ n \in 0..(n + 1) /\ n + 1 \in 0..(n + 1)
        OBVIOUS
      <4>2. g[n] = f[n]
        BY <4>1
      <4>3. g[n + 1] = IF s[n + 1] \in S THEN Append(f[n], s[n + 1]) ELSE f[n]
        BY <4>1
      <4> HIDE DEF g
      <4> QED BY <3>3, <4>1, <4>2, <4>3
    <3> QED BY <3>1, <3>2, <3>3
  <2>3. IsAmong(g, s, S, n + 1)
    <3>1. g = [i \in 0..(n + 1) |-> g[i]]
      OBVIOUS
    <3> HIDE DEF g
    <3> QED BY <2>2, <3>1 DEF IsAmong
  <2> HIDE DEF g
  <2>4. n + 1 \in 0..Len(s)
    BY <1>2
  <2> QED BY <2>3, <2>4
<1>3. Len(s) \in Sound
  <2>1. \A n \in Nat : n \in Sound /\ n < Len(s) => n + 1 \in Sound
    BY <1>2
  <2>2. Len(s) \in 0..Len(s)
    OBVIOUS
  <2> HIDE DEF Sound
  <2>3. \A n \in 0..Len(s) : n \in Sound
    BY <1>1, <2>1, UpTo
  <2> QED BY <2>2, <2>3
<1>4. PICK f : IsAmong(f, s, S, Len(s))
  BY <1>3
<1> DEFINE F == CHOOSE h : IsAmong(h, s, S, Len(s))
<1>5. IsAmong(F, s, S, Len(s))
  BY <1>4
<1>6. Among(s, S) = F[Len(s)]
  BY DEF Among, IsAmong
<1> HIDE DEF F
<1> QED BY <1>5, <1>6

\* What is taken among the elements of a sequence comes from it, in its order, and is all
\* that is in the set.
LEMMA AmongPicks ==
  ASSUME NEW T, NEW s \in Seq(T), NEW S
  PROVE  /\ Among(s, S) \in Seq(T)
         /\ \E e : Picks(e, Among(s, S), s, S, Len(s))
<1>1. Len(s) \in Nat
  OBVIOUS
<1>2. PICK f : IsAmong(f, s, S, Len(s)) /\ Among(s, S) = f[Len(s)]
  BY <1>1, AmongExists
<1> DEFINE Sound == {n \in 0..Len(s) : f[n] \in Seq(T) /\ \E e : Picks(e, f[n], s, S, n)}
<1>3. 0 \in Sound
  <2>1. f[0] = <<>>
    BY <1>1, <1>2 DEF IsAmong
  <2>2. Picks(<<>>, <<>>, s, S, 0)
    BY 1..0 = {} DEF Picks
  <2>3. f[0] \in Seq(T) /\ 0 \in 0..Len(s)
    BY <1>1, <2>1
  <2> QED BY <2>1, <2>2, <2>3
<1>4. ASSUME NEW n \in Nat, n \in Sound, n < Len(s) PROVE n + 1 \in Sound
  <2>1. PICK e : Picks(e, f[n], s, S, n)
    BY <1>4
  <2> DEFINE r == f[n]
  <2>2. r \in Seq(T) /\ Len(r) \in Nat
    BY <1>4
  <2>3. n + 1 \in 0..Len(s) /\ n + 1 \in 1..Len(s) /\ s[n + 1] \in T /\ (n + 1) - 1 = n /\ n + 1 # 0
    BY <1>4
  <2>4. f[n + 1] = IF s[n + 1] \in S THEN Append(r, s[n + 1]) ELSE r
    BY <1>2, <2>3 DEF IsAmong
  <2>5. \A i \in 1..(n + 1) : i \in 1..n \/ i = n + 1
    OBVIOUS
  <2>6. CASE s[n + 1] \notin S
    <3>1. Picks(e, r, s, S, n + 1)
      <4>1. e \in [1..Len(r) -> 1..n] /\ Len(r) \in Nat
        BY <2>1, <2>2 DEF Picks
      <4>2. \A k \in 1..Len(r) : e[k] \in 1..(n + 1)
        BY <4>1
      <4>3. e \in [1..Len(r) -> 1..(n + 1)]
        BY <4>1, <4>2
      <4>4. \A i \in 1..(n + 1) : s[i] \in S => i \in 1..n
        BY <2>5, <2>6
      <4> QED BY <2>1, <4>3, <4>4 DEF Picks
    <3> HIDE DEF r
    <3> QED BY <2>2, <2>3, <2>4, <2>6, <3>1
  <2>7. CASE s[n + 1] \in S
    <3> DEFINE q == Append(r, s[n + 1])
               h == [k \in 1..Len(q) |-> IF k = Len(q) THEN n + 1 ELSE e[k]]
    <3> HIDE DEF r
    <3>1. /\ q \in Seq(T) /\ Len(q) = Len(r) + 1 /\ q[Len(q)] = s[n + 1]
          /\ \A k \in 1..Len(r) : q[k] = r[k]
      BY <2>2, <2>3
    <3> HIDE DEF q
    <3>2. \A k \in 1..Len(q) : k = Len(q) \/ k \in 1..Len(r)
      BY <2>2, <3>1
    <3>2a. \A k \in 1..Len(r) : k \in 1..Len(q) /\ k # Len(q) /\ h[k] = e[k]
      BY <2>2, <3>1
    <3>2b. h[Len(q)] = n + 1 /\ Len(q) \in 1..Len(q) /\ DOMAIN h = 1..Len(q)
      BY <2>2, <3>1
    <3>2c. h = [k \in 1..Len(q) |-> h[k]]
      OBVIOUS
    <3>2d. e \in [1..Len(r) -> 1..n]
      BY <2>1 DEF Picks, r
    <3> HIDE DEF h
    <3>3. h \in [1..Len(q) -> 1..(n + 1)]
      <4>1. \A k \in 1..Len(q) : h[k] \in 1..(n + 1)
        BY <3>2, <3>2a, <3>2b, <3>2d
      <4> QED BY <3>2c, <4>1
    <3>4. \A k \in 1..Len(q) : q[k] = s[h[k]] /\ q[k] \in S
      BY <2>1, <2>7, <3>1, <3>2, <3>2a, <3>2b DEF Picks, r
    <3>5. \A j, k \in 1..Len(q) : j < k => h[j] < h[k]
      <4> SUFFICES ASSUME NEW j \in 1..Len(q), NEW k \in 1..Len(q), j < k PROVE h[j] < h[k]
        OBVIOUS
      <4>1. j \in 1..Len(r) /\ h[j] = e[j] /\ e[j] \in 1..n
        BY <2>2, <3>1, <3>2, <3>2a, <3>2d
      <4>2. CASE k = Len(q)
        BY <3>2b, <4>1, <4>2
      <4>3. CASE k \in 1..Len(r)
        BY <2>1, <3>2a, <4>1, <4>3 DEF Picks, r
      <4> QED BY <3>2, <4>2, <4>3
    <3>6. ASSUME NEW i \in 1..(n + 1), s[i] \in S PROVE \E k \in 1..Len(q) : h[k] = i
      <4>1. CASE i = n + 1
        BY <3>2b, <4>1
      <4>2. CASE i \in 1..n
        <5>1. PICK k \in 1..Len(r) : e[k] = i
          BY <2>1, <3>6, <4>2 DEF Picks, r
        <5> QED BY <3>2a, <5>1
      <4> QED BY <2>5, <4>1, <4>2
    <3>7. Picks(h, q, s, S, n + 1)
      BY <3>3, <3>4, <3>5, <3>6 DEF Picks
    <3> QED BY <2>3, <2>4, <2>7, <3>1, <3>7 DEF q
  <2> QED BY <2>6, <2>7
<1>5. Len(s) \in Sound
  <2>1. \A n \in Nat : n \in Sound /\ n < Len(s) => n + 1 \in Sound
    BY <1>4
  <2>2. Len(s) \in 0..Len(s)
    OBVIOUS
  <2> HIDE DEF Sound
  <2>3. \A n \in 0..Len(s) : n \in Sound
    BY <1>1, <1>3, <2>1, UpTo
  <2> QED BY <2>2, <2>3
<1> QED BY <1>2, <1>5

\* An archive mounted once is taken out, or left, as a whole; what is not mounted stays so.
LEMMA AmongKeeps ==
  ASSUME NEW ms \in Seq(Mount), NEW S, NEW a \in Archives, NEW d \in Directory
  PROVE  /\ Among(ms, S) \in Seq(Mount)
         /\ Unmounted(ms, a) => Unmounted(Among(ms, S), a)
         /\ Once(ms, a, d) /\ [root |-> a, dir |-> d] \in S => Once(Among(ms, S), a, d)
         /\ (\A m \in S : m.root # a) => Unmounted(Among(ms, S), a)
<1> DEFINE r == Among(ms, S)
<1>1. r \in Seq(Mount)
  BY AmongPicks
<1>2. PICK e : Picks(e, r, ms, S, Len(ms))
  BY AmongPicks
<1> HIDE DEF r
<1>3. /\ Len(r) \in Nat /\ DOMAIN r = 1..Len(r)
      /\ Len(ms) \in Nat /\ DOMAIN ms = 1..Len(ms)
  BY <1>1
<1>4. \A k \in 1..Len(r) : e[k] \in 1..Len(ms) /\ r[k] = ms[e[k]] /\ r[k] \in S
  BY <1>2 DEF Picks
<1>5. ASSUME Unmounted(ms, a) PROVE Unmounted(r, a)
  BY <1>3, <1>4, <1>5 DEF Unmounted
<1>6. ASSUME Once(ms, a, d), [root |-> a, dir |-> d] \in S PROVE Once(r, a, d)
  <2>1. PICK i \in 1..Len(ms) : /\ ms[i] = [root |-> a, dir |-> d]
                                /\ \A j \in 1..Len(ms) : ms[j].root = a => j = i
    BY <1>3, <1>6 DEF Once
  <2>2. PICK k \in 1..Len(r) : e[k] = i
    BY <1>2, <1>6, <2>1 DEF Picks
  <2>3. r[k] = [root |-> a, dir |-> d]
    BY <1>4, <2>1, <2>2
  <2>4. ASSUME NEW j \in 1..Len(r), r[j].root = a PROVE j = k
    <3>1. e[j] = e[k]
      BY <1>4, <2>1, <2>2, <2>4
    <3>2. e[j] \in Nat /\ e[k] \in Nat /\ j \in Nat /\ k \in Nat
      BY <1>3, <1>4
    <3>3. ~(j < k) /\ ~(k < j)
      BY <1>2, <3>1, <3>2 DEF Picks
    <3> QED BY <3>2, <3>3
  <2> QED BY <1>3, <2>3, <2>4 DEF Once
<1>7. ASSUME \A m \in S : m.root # a PROVE Unmounted(r, a)
  BY <1>3, <1>4, <1>7 DEF Unmounted
<1> QED BY <1>1, <1>5, <1>6, <1>7 DEF r

\* What is taken out of a manager that holds one mount of one archive beside known ones.
LEMMA TakenAlone ==
  ASSUME NEW ms \in Seq(Mount), NEW S, NEW a \in Archives, NEW d \in Directory, Once(ms, a, d),
         [root |-> a, dir |-> d] \in S, \A m \in S : m.root # a => \A i \in DOMAIN ms : ms[i] # m
  PROVE  Among(ms, S) = <<[root |-> a, dir |-> d]>>
<1> DEFINE r == Among(ms, S)
           w == [root |-> a, dir |-> d]
<1>1. r \in Seq(Mount) /\ Once(r, a, d)
  BY AmongKeeps
<1>2. PICK e : Picks(e, r, ms, S, Len(ms))
  BY AmongPicks
<1> HIDE DEF r
<1>3. Len(r) \in Nat /\ DOMAIN r = 1..Len(r) /\ DOMAIN ms = 1..Len(ms)
  BY <1>1
<1>4. \A k \in 1..Len(r) : r[k].root = a
  BY <1>2, <1>3 DEF Picks
<1>5. PICK i \in 1..Len(r) : r[i] = w /\ \A j \in 1..Len(r) : r[j].root = a => j = i
  BY <1>1, <1>3 DEF Once
<1>6. \A j \in 1..Len(r) : j = i
  BY <1>4, <1>5
<1>7. Len(r) = 1 /\ i = 1
  BY <1>3, <1>5, <1>6, 1 \in 1..Len(r), Len(r) \in 1..Len(r)
<1> QED BY <1>1, <1>3, <1>5, <1>7 DEF r

\* A mount that is added.
LEMMA AppendKeeps ==
  ASSUME NEW ms \in Seq(Mount), NEW a \in Archives, NEW d \in Directory,
         NEW b \in Archives, NEW c \in Directory
  PROVE  LET more == Append(ms, [root |-> b, dir |-> c])
         IN /\ more \in Seq(Mount)
            /\ a # b /\ Unmounted(ms, a) => Unmounted(more, a)
            /\ a # b /\ Once(ms, a, d) => Once(more, a, d)
            /\ Unmounted(ms, b) => Once(more, b, c)
<1> DEFINE w == [root |-> b, dir |-> c]
           more == Append(ms, w)
<1>1. w \in Mount
  BY DEF Mount
<1>2. w.root = b
  OBVIOUS
<1> HIDE DEF w
<1>3. /\ more \in Seq(Mount) /\ Len(ms) \in Nat /\ Len(more) = Len(ms) + 1
      /\ DOMAIN ms = 1..Len(ms) /\ DOMAIN more = 1..Len(more)
      /\ more[Len(more)] = w
      /\ \A i \in 1..Len(ms) : more[i] = ms[i]
  BY <1>1
<1>4. \A i \in 1..Len(more) : i \in 1..Len(ms) \/ i = Len(more)
  BY <1>3
<1>5. \A i \in 1..Len(ms) : i \in 1..Len(more) /\ i # Len(more)
  BY <1>3
<1>6. Len(more) \in 1..Len(more)
  BY <1>3
<1> HIDE DEF more
<1>7. ASSUME a # b, Unmounted(ms, a) PROVE Unmounted(more, a)
  BY <1>2, <1>3, <1>4, <1>7 DEF Unmounted
<1>8. ASSUME a # b, Once(ms, a, d) PROVE Once(more, a, d)
  <2>1. PICK i \in 1..Len(ms) : /\ ms[i] = [root |-> a, dir |-> d]
                                /\ \A j \in 1..Len(ms) : ms[j].root = a => j = i
    BY <1>3, <1>8 DEF Once
  <2>2. i \in 1..Len(more) /\ more[i] = [root |-> a, dir |-> d]
    BY <1>3, <1>5, <2>1
  <2>3. \A j \in 1..Len(more) : more[j].root = a => j = i
    BY <1>2, <1>3, <1>4, <1>8, <2>1
  <2> QED BY <1>3, <2>2, <2>3 DEF Once
<1>9. ASSUME Unmounted(ms, b) PROVE Once(more, b, c)
  <2>1. \A j \in 1..Len(more) : more[j].root = b => j = Len(more)
    BY <1>3, <1>4, <1>9 DEF Unmounted
  <2> QED BY <1>3, <1>6, <2>1 DEF Once, w
<1> QED BY <1>3, <1>7, <1>8, <1>9 DEF more, w

\* Mounts that go back behind those that were left.
LEMMA JoinKeeps ==
  ASSUME NEW x \in Seq(Mount), NEW y \in Seq(Mount), NEW a \in Archives, NEW d \in Directory
  PROVE  /\ x \o y \in Seq(Mount)
         /\ Unmounted(x, a) /\ Unmounted(y, a) => Unmounted(x \o y, a)
         /\ Once(x, a, d) /\ Unmounted(y, a) => Once(x \o y, a, d)
         /\ Unmounted(x, a) /\ Once(y, a, d) => Once(x \o y, a, d)
<1> DEFINE z == x \o y
<1>1. /\ z \in Seq(Mount) /\ Len(x) \in Nat /\ Len(y) \in Nat /\ Len(z) = Len(x) + Len(y)
      /\ DOMAIN x = 1..Len(x) /\ DOMAIN y = 1..Len(y) /\ DOMAIN z = 1..Len(z)
  OBVIOUS
<1>2. \A i \in 1..Len(x) : i \in 1..Len(z) /\ z[i] = x[i]
  OBVIOUS
<1>3. \A i \in 1..Len(y) : Len(x) + i \in 1..Len(z) /\ z[Len(x) + i] = y[i]
  OBVIOUS
<1>4. \A i \in 1..Len(z) : i \in 1..Len(x) \/ (i - Len(x) \in 1..Len(y) /\ z[i] = y[i - Len(x)]
                                                /\ i = Len(x) + (i - Len(x)))
  OBVIOUS
<1> HIDE DEF z
<1>5. ASSUME Unmounted(x, a), Unmounted(y, a) PROVE Unmounted(z, a)
  BY <1>1, <1>2, <1>4, <1>5 DEF Unmounted
<1>6. ASSUME Once(x, a, d), Unmounted(y, a) PROVE Once(z, a, d)
  <2>1. PICK i \in 1..Len(x) : /\ x[i] = [root |-> a, dir |-> d]
                               /\ \A j \in 1..Len(x) : x[j].root = a => j = i
    BY <1>1, <1>6 DEF Once
  <2>2. \A j \in 1..Len(z) : z[j].root = a => j = i
    BY <1>1, <1>2, <1>4, <1>6, <2>1 DEF Unmounted
  <2> QED BY <1>1, <1>2, <2>1, <2>2 DEF Once
<1>7. ASSUME Unmounted(x, a), Once(y, a, d) PROVE Once(z, a, d)
  <2>1. PICK i \in 1..Len(y) : /\ y[i] = [root |-> a, dir |-> d]
                               /\ \A j \in 1..Len(y) : y[j].root = a => j = i
    BY <1>1, <1>7 DEF Once
  <2>2. Len(x) + i \in 1..Len(z) /\ z[Len(x) + i] = [root |-> a, dir |-> d]
    BY <1>3, <2>1
  <2>3. \A j \in 1..Len(z) : z[j].root = a => j = Len(x) + i
    <3> SUFFICES ASSUME NEW j \in 1..Len(z), z[j].root = a PROVE j = Len(x) + i
      OBVIOUS
    <3>1. j \notin 1..Len(x)
      BY <1>1, <1>2, <1>7 DEF Unmounted
    <3>2. j - Len(x) \in 1..Len(y) /\ z[j] = y[j - Len(x)] /\ j = Len(x) + (j - Len(x))
      BY <1>4, <3>1
    <3>3. j - Len(x) = i
      BY <2>1, <3>2
    <3> QED BY <3>2, <3>3
  <2> QED BY <1>1, <2>2, <2>3 DEF Once
<1> QED BY <1>1, <1>5, <1>6, <1>7 DEF z

\* Directories begin like those of their roots.
FitsIn(ms) == \A i \in DOMAIN ms : HeaderOf[ms[i].dir.of] = HeaderOf[ms[i].root]

\* They do after whatever is done with the mounts.
LEMMA FitsKeeps ==
  ASSUME NEW ms \in Seq(Mount), FitsIn(ms)
  PROVE  /\ \A S : FitsIn(Among(ms, S))
         /\ \A m \in Mount : HeaderOf[m.dir.of] = HeaderOf[m.root] => FitsIn(Append(ms, m))
         /\ \A y \in Seq(Mount) : FitsIn(y) => FitsIn(ms \o y)
<1>1. ASSUME NEW S PROVE FitsIn(Among(ms, S))
  <2> DEFINE r == Among(ms, S)
  <2>1. r \in Seq(Mount)
    BY AmongPicks
  <2>2. PICK e : Picks(e, r, ms, S, Len(ms))
    BY AmongPicks
  <2> HIDE DEF r
  <2>3. DOMAIN r = 1..Len(r) /\ DOMAIN ms = 1..Len(ms)
    BY <2>1
  <2>4. \A k \in 1..Len(r) : e[k] \in 1..Len(ms) /\ r[k] = ms[e[k]]
    BY <2>2 DEF Picks
  <2> HIDE <2>2
  <2>5. FitsIn(r)
    BY <2>3, <2>4 DEF FitsIn
  <2> QED BY <2>5 DEF r
<1>2. ASSUME NEW m \in Mount, HeaderOf[m.dir.of] = HeaderOf[m.root] PROVE FitsIn(Append(ms, m))
  <2>1. \A i \in DOMAIN Append(ms, m) : IF i = Len(ms) + 1 THEN Append(ms, m)[i] = m
                                        ELSE i \in DOMAIN ms /\ Append(ms, m)[i] = ms[i]
    OBVIOUS
  <2> QED BY <1>2, <2>1 DEF FitsIn
<1>3. ASSUME NEW y \in Seq(Mount), FitsIn(y) PROVE FitsIn(ms \o y)
  <2>1. \A i \in DOMAIN (ms \o y) : IF i \in DOMAIN ms THEN (ms \o y)[i] = ms[i]
                                    ELSE i - Len(ms) \in DOMAIN y /\ (ms \o y)[i] = y[i - Len(ms)]
    OBVIOUS
  <2> QED BY <1>3, <2>1 DEF FitsIn
<1> QED BY <1>1, <1>2, <1>3

----------------------------------------------------------------------------
Places == {"game", "prepare", "stub", "adopt", "full", "store", "plain"}
SnapshotPlaces == {"stub", "adopt", "full", "store"}

\* What the snapshot of a thread says, RootsInv for one of them.
Snapshot(t) ==
    /\ \A a \in reported : a \notin excepted => a \in rootsBefore[t]
    /\ archive[t] \notin excepted =>
         /\ archive[t] \notin rootsBefore[t]
         /\ \A i \in DOMAIN mounts : mounts[i].root \in rootsBefore[t] \cup {archive[t]}

\* What a step of t has to leave alone in the manager and in the files.
Considerate(t) ==
    /\ mounts' \in Seq(Mount) /\ FitsIn(mounts')
    /\ cacheFiles' \in [Archives -> Directory \cup {NoArchive, Damaged}] /\ CacheInv'
    /\ excepted \subseteq excepted' /\ excepted' \subseteq Archives
    /\ \A a \in Archives : a # archive[t] /\ a \notin excepted =>
          /\ a \in reported /\ Once(mounts, a, Whole(a)) => Once(mounts', a, Whole(a))
          /\ Unmounted(mounts, a) => Unmounted(mounts', a)

\* A thread that goes on to the next place with its archive.
LEMMA GoOnHolds ==
  ASSUME BootInv, NEW t \in Mounters, mounting[t] # "game", Considerate(t),
         NEW p \in Places \ {"game"}, GoOn(t, p), UNCHANGED <<archive, reported>>,
         archive[t] \notin excepted' => AsMounted(mounts', archive[t], p),
         rootsBefore' \in [Mounters -> SUBSET Archives], handled' \in [Mounters -> BOOLEAN],
         \A u \in Mounters : u # t => rootsBefore'[u] = rootsBefore[u],
         p \in SnapshotPlaces => Snapshot(t)'
  PROVE  BootInv'
<1> USE DEF BootInv, BootTypeOK, Places
<1>1. /\ mounting'[t] = p /\ \A u \in Mounters : u # t => mounting'[u] = mounting[u]
      /\ mounting' \in [Mounters -> Places]
  BY DEF GoOn
<1>2. BootTypeOK'
  BY <1>1 DEF Considerate
<1>3. AdoptedDirectoriesFit' /\ CacheInv'
  BY DEF Considerate, AdoptedDirectoriesFit, FitsIn
<1>4. ActiveInv'
  BY <1>1 DEF ActiveInv
<1>5. AloneInv'
  BY <1>1 DEF AloneInv, Considerate
<1>6. MountInv'
  <2> SUFFICES ASSUME NEW a \in Archives, a \notin excepted'
               PROVE  /\ a \in reported => Once(mounts', a, Whole(a))
                      /\ \A u \in Mounters : archive[u] = a => AsMounted(mounts', a, mounting'[u])
                      /\ a \notin reported /\ (\A u \in Mounters : archive[u] # a) =>
                            Unmounted(mounts', a)
    BY DEF MountInv
  <2>1. a \notin excepted
    BY DEF Considerate
  <2>2. CASE a = archive[t]
    <3>1. a \notin reported /\ \A u \in Mounters : archive[u] = a => u = t
      BY <2>2, NoArchiveAssumption DEF ActiveInv
    <3> QED BY <1>1, <2>2, <3>1
  <2>3. CASE a # archive[t]
    <3>1. ASSUME NEW u \in Mounters, archive[u] = a PROVE FALSE
      <4>1. mounting[u] # "game"
        BY <3>1, NoArchiveAssumption DEF ActiveInv
      <4> QED BY <2>1, <2>3, <3>1, <4>1 DEF AloneInv
    <3> QED BY <2>1, <2>3, <3>1 DEF Considerate, MountInv
  <2> QED BY <2>2, <2>3
<1>7. RootsInv'
  <2> SUFFICES ASSUME NEW u \in Mounters, mounting'[u] \in SnapshotPlaces PROVE Snapshot(u)'
    BY DEF RootsInv, Snapshot, SnapshotPlaces
  <2>1. CASE u = t
    BY <1>1, <2>1
  <2>2. CASE u # t
    <3>1. mounting[u] \in SnapshotPlaces /\ mounting[u] # "game" /\ rootsBefore'[u] = rootsBefore[u]
      BY <1>1, <2>2 DEF SnapshotPlaces
    <3>2. archive[u] \in excepted'
      BY <2>2, <3>1 DEF AloneInv, Considerate
    <3>3. \A a \in reported : a \notin excepted => a \in rootsBefore[u]
      BY <3>1 DEF RootsInv, SnapshotPlaces
    <3> QED BY <3>1, <3>2, <3>3 DEF Snapshot, Considerate
  <2> QED BY <2>1, <2>2
<1> QED BY <1>2, <1>3, <1>4, <1>5, <1>6, <1>7

\* A thread that returns to the game, whose archive is then mounted if that is reported.
LEMMA EndHolds ==
  ASSUME BootInv, NEW t \in Mounters, mounting[t] # "game", Considerate(t), GoOn(t, "game"),
         archive' = [archive EXCEPT ![t] = NoArchive],
         reported' = reported \/ reported' = reported \cup {archive[t]},
         archive[t] \notin excepted' =>
           IF archive[t] \in reported' THEN Once(mounts', archive[t], Whole(archive[t]))
           ELSE Unmounted(mounts', archive[t]),
         rootsBefore' \in [Mounters -> SUBSET Archives], handled' \in [Mounters -> BOOLEAN],
         \A u \in Mounters : u # t => rootsBefore'[u] = rootsBefore[u]
  PROVE  BootInv'
<1> USE DEF BootInv, BootTypeOK, Places
<1>1. /\ mounting'[t] = "game" /\ \A u \in Mounters : u # t => mounting'[u] = mounting[u]
      /\ mounting' \in [Mounters -> Places]
  BY DEF GoOn
<1>2. /\ archive'[t] = NoArchive /\ \A u \in Mounters : u # t => archive'[u] = archive[u]
      /\ archive' \in [Mounters -> Archives \cup {NoArchive}]
      /\ archive[t] \in Archives
  BY DEF ActiveInv
<1>3. reported' \subseteq Archives
  BY <1>2
<1>4. BootTypeOK'
  BY <1>1, <1>2, <1>3 DEF Considerate
<1>5. AdoptedDirectoriesFit' /\ CacheInv'
  BY DEF Considerate, AdoptedDirectoriesFit, FitsIn
<1>6. ActiveInv'
  <2>1. \A u \in Mounters : archive'[u] \notin reported'
    <3> SUFFICES ASSUME NEW u \in Mounters PROVE archive'[u] \notin reported'
      OBVIOUS
    <3>1. CASE u = t
      BY <1>2, <1>3, <3>1, NoArchiveAssumption
    <3>2. CASE u # t
      <4>1. archive'[u] = archive[u] /\ archive[u] # archive[t]
        BY <1>2, <3>2, NoArchiveAssumption DEF ActiveInv
      <4> QED BY <4>1 DEF ActiveInv
    <3> QED BY <3>1, <3>2
  <2>2. \A u \in Mounters : mounting'[u] = "game" <=> archive'[u] = NoArchive
    BY <1>1, <1>2 DEF ActiveInv
  <2>3. \A u, v \in Mounters : archive'[u] = archive'[v] /\ archive'[u] # NoArchive => u = v
    BY <1>2 DEF ActiveInv
  <2> QED BY <2>1, <2>2, <2>3 DEF ActiveInv
<1>7. AloneInv'
  BY <1>1, <1>2 DEF AloneInv, Considerate
<1>8. MountInv'
  <2> SUFFICES ASSUME NEW a \in Archives, a \notin excepted'
               PROVE  /\ a \in reported' => Once(mounts', a, Whole(a))
                      /\ \A u \in Mounters : archive'[u] = a => AsMounted(mounts', a, mounting'[u])
                      /\ a \notin reported' /\ (\A u \in Mounters : archive'[u] # a) =>
                            Unmounted(mounts', a)
    BY DEF MountInv
  <2>1. a \notin excepted
    BY DEF Considerate
  <2>2. CASE a = archive[t]
    <3>1. \A u \in Mounters : archive'[u] # a
      BY <1>2, <2>2, NoArchiveAssumption DEF ActiveInv
    <3> QED BY <2>2, <3>1
  <2>3. CASE a # archive[t]
    <3>1. ASSUME NEW u \in Mounters, archive[u] = a PROVE FALSE
      <4>1. mounting[u] # "game"
        BY <3>1, NoArchiveAssumption DEF ActiveInv
      <4> QED BY <2>1, <2>3, <3>1, <4>1 DEF AloneInv
    <3>2. a \in reported' <=> a \in reported
      BY <2>3
    <3>3. \A u \in Mounters : archive'[u] # a
      BY <1>2, <3>1, NoArchiveAssumption
    <3> QED BY <2>1, <2>3, <3>1, <3>2, <3>3 DEF Considerate, MountInv
  <2> QED BY <2>2, <2>3
<1>9. RootsInv'
  <2> SUFFICES ASSUME NEW u \in Mounters, mounting'[u] \in SnapshotPlaces PROVE Snapshot(u)'
    BY DEF RootsInv, Snapshot, SnapshotPlaces
  <2>1. u # t /\ mounting[u] \in SnapshotPlaces /\ mounting[u] # "game"
    BY <1>1 DEF SnapshotPlaces
  <2>2. rootsBefore'[u] = rootsBefore[u] /\ archive'[u] = archive[u]
    BY <1>2, <2>1
  <2>3. archive[u] \in excepted' /\ archive[t] \in excepted'
    BY <2>1 DEF AloneInv, Considerate
  <2>4. \A a \in reported : a \notin excepted => a \in rootsBefore[u]
    BY <2>1 DEF RootsInv, SnapshotPlaces
  <2>5. \A a \in reported' : a \notin excepted' => a \in rootsBefore'[u]
    BY <2>2, <2>3, <2>4 DEF Considerate
  <2> QED BY <2>2, <2>3, <2>5 DEF Snapshot
<1> QED BY <1>4, <1>5, <1>6, <1>7, <1>8, <1>9

\* Leaving boot_boost_mount with the archive mounted, or without.
LEMMA ReturnHolds ==
  ASSUME BootInv, NEW t \in Mounters, mounting[t] # "game", Considerate(t),
         NEW result \in BOOLEAN, NEW final \in BOOLEAN, ReturnFromMount(t, result, final),
         archive[t] \notin excepted' =>
           IF result THEN Once(mounts', archive[t], Whole(archive[t]))
           ELSE Unmounted(mounts', archive[t])
  PROVE  BootInv'
<1>1. /\ rootsBefore' \in [Mounters -> SUBSET Archives] /\ handled' \in [Mounters -> BOOLEAN]
      /\ \A u \in Mounters : u # t => rootsBefore'[u] = rootsBefore[u]
  BY DEF BootInv, BootTypeOK, ReturnFromMount
<1>2. CASE result = TRUE
  <2>1. /\ GoOn(t, "game") /\ archive' = [archive EXCEPT ![t] = NoArchive]
        /\ reported' = reported \cup {archive[t]}
    BY <1>2 DEF ReturnFromMount
  <2>2. archive[t] \in reported'
    BY <2>1
  <2> QED BY <1>1, <1>2, <2>1, <2>2, EndHolds
<1>3. CASE result = FALSE /\ final = TRUE
  <2>1. GoOn(t, "game") /\ archive' = [archive EXCEPT ![t] = NoArchive] /\ reported' = reported
    BY <1>3 DEF ReturnFromMount
  <2>2. archive[t] \notin reported'
    BY <2>1 DEF BootInv, ActiveInv
  <2> QED BY <1>1, <1>3, <2>1, <2>2, EndHolds
<1>4. CASE result = FALSE /\ final = FALSE
  <2>1. GoOn(t, "plain") /\ UNCHANGED <<archive, reported>>
    BY <1>4 DEF ReturnFromMount
  <2>2. archive[t] \notin excepted' => AsMounted(mounts', archive[t], "plain")
    BY <1>4 DEF AsMounted
  <2>3. "plain" \in Places \ {"game"} /\ "plain" \notin SnapshotPlaces
    BY DEF Places, SnapshotPlaces
  <2> QED BY <1>1, <2>1, <2>2, <2>3, GoOnHolds
<1> QED BY <1>2, <1>3, <1>4

\* What a thread's archive is and how far it is mounted.
LEMMA OwnArchive ==
  ASSUME BootInv, NEW t \in Mounters, mounting[t] # "game"
  PROVE  /\ archive[t] \in Archives
         /\ archive[t] \notin excepted => AsMounted(mounts, archive[t], mounting[t])
         /\ mounts \in Seq(Mount) /\ FitsIn(mounts)
BY DEF BootInv, BootTypeOK, ActiveInv, MountInv, AdoptedDirectoriesFit, FitsIn

\* Steps that leave the manager alone.
LEMMA AloneConsiderate ==
  ASSUME BootInv, NEW t \in Mounters, UNCHANGED <<mounts, cacheFiles>>,
         excepted \subseteq excepted', excepted' \subseteq Archives
  PROVE  Considerate(t)
BY DEF Considerate, BootInv, BootTypeOK, CacheInv, AdoptedDirectoriesFit, FitsIn

\* What mounting it does.
LEMMA MountsOwn ==
  ASSUME BootInv, NEW t \in Mounters, mounting[t] # "game",
         NEW d \in {Whole(archive[t]), Stub(archive[t])},
         mounts' = Append(mounts, [root |-> archive[t], dir |-> d]),
         UNCHANGED <<cacheFiles, excepted>>
  PROVE  /\ Considerate(t)
         /\ Unmounted(mounts, archive[t]) => Once(mounts', archive[t], d)
         /\ \A i \in DOMAIN mounts' : \/ mounts'[i].root = archive[t]
                                      \/ i \in DOMAIN mounts /\ mounts'[i] = mounts[i]
<1>1. archive[t] \in Archives /\ mounts \in Seq(Mount) /\ FitsIn(mounts)
  BY OwnArchive
<1>2. d \in Directory /\ d.of = archive[t]
  <2>1. CASE d = Whole(archive[t])
    BY <1>1, <2>1 DEF Directory, Whole
  <2>2. CASE d = Stub(archive[t])
    BY <1>1, <2>2 DEF Directory, Stub
  <2> QED BY <2>1, <2>2
<1> DEFINE m == [root |-> archive[t], dir |-> d]
<1>3. m \in Mount /\ m.root = archive[t] /\ m.dir = d
  BY <1>1, <1>2 DEF Mount
<1>4. mounts' = Append(mounts, m)
  OBVIOUS
<1>5. \A i \in DOMAIN mounts' : mounts'[i] = m \/ (i \in DOMAIN mounts /\ mounts'[i] = mounts[i])
  <2> HIDE DEF m
  <2> QED BY <1>1, <1>3, <1>4
<1>6. mounts' \in Seq(Mount) /\ (Unmounted(mounts, archive[t]) => Once(mounts', archive[t], d))
  BY <1>1, <1>2, AppendKeeps
<1>7. FitsIn(mounts')
  <2>1. HeaderOf[m.dir.of] = HeaderOf[m.root]
    BY <1>2, <1>3
  <2> HIDE DEF m
  <2> QED BY <1>1, <1>3, <1>4, <2>1, FitsKeeps
<1>8. ASSUME NEW a \in Archives, a # archive[t]
      PROVE  /\ Once(mounts, a, Whole(a)) => Once(mounts', a, Whole(a))
             /\ Unmounted(mounts, a) => Unmounted(mounts', a)
  <2>1. Whole(a) \in Directory
    BY DEF Whole, Directory
  <2> QED BY <1>1, <1>2, <1>8, <2>1, AppendKeeps
<1>9. Considerate(t)
  BY <1>6, <1>7, <1>8 DEF Considerate, BootInv, BootTypeOK, CacheInv
<1> QED BY <1>3, <1>5, <1>6, <1>9

\* Taking out what the snapshot does not name: of the archives that are not excepted that
\* is the thread's own, if any.
LEMMA ExtractHolds ==
  ASSUME BootInv, NEW t \in Mounters, mounting[t] \in SnapshotPlaces
  PROVE  /\ Left(t) \in Seq(Mount) /\ FitsIn(Left(t))
         /\ Taken(t) \in Seq(Mount) /\ FitsIn(Taken(t))
         /\ \A a \in Archives : a # archive[t] /\ a \notin excepted =>
              /\ a \in reported /\ Once(mounts, a, Whole(a)) =>
                    Once(Left(t), a, Whole(a)) /\ Unmounted(Taken(t), a)
              /\ Unmounted(mounts, a) => Unmounted(Left(t), a) /\ Unmounted(Taken(t), a)
         /\ \A i \in DOMAIN Left(t) : Left(t)[i].root \in rootsBefore[t]
         /\ archive[t] \notin excepted =>
              /\ Unmounted(Left(t), archive[t])
              /\ \A d \in Directory : Once(mounts, archive[t], d) =>
                    Taken(t) = <<[root |-> archive[t], dir |-> d]>>
<1>1. mounting[t] # "game" /\ archive[t] \in Archives /\ mounts \in Seq(Mount) /\ FitsIn(mounts)
  BY OwnArchive DEF SnapshotPlaces
<1>2. Snapshot(t)
  BY DEF BootInv, RootsInv, Snapshot, SnapshotPlaces
<1>3. /\ Left(t) \in Seq(Mount) /\ FitsIn(Left(t))
      /\ Taken(t) \in Seq(Mount) /\ FitsIn(Taken(t))
  BY <1>1, AmongPicks, FitsKeeps DEF Left, Taken
<1>4. ASSUME NEW a \in Archives, a \in rootsBefore[t], Once(mounts, a, Whole(a))
      PROVE  Once(Left(t), a, Whole(a)) /\ Unmounted(Taken(t), a)
  <2>1. Whole(a) \in Directory
    BY DEF Whole, Directory
  <2>2. [root |-> a, dir |-> Whole(a)] \in Named(t)
    BY <1>4, <2>1 DEF Named, Mount
  <2>3. \A m \in New(t) : m.root # a
    BY <1>4 DEF New
  <2> QED BY <1>1, <1>4, <2>1, <2>2, <2>3, AmongKeeps DEF Left, Taken
<1>5. ASSUME NEW a \in Archives, Unmounted(mounts, a)
      PROVE  Unmounted(Left(t), a) /\ Unmounted(Taken(t), a)
  <2>1. Whole(a) \in Directory
    BY DEF Whole, Directory
  <2> QED BY <1>1, <1>5, <2>1, AmongKeeps DEF Left, Taken
<1>6. \A i \in DOMAIN Left(t) : Left(t)[i].root \in rootsBefore[t]
  <2> DEFINE r == Among(mounts, Named(t))
  <2>1. PICK e : Picks(e, r, mounts, Named(t), Len(mounts))
    BY <1>1, AmongPicks
  <2>2. r \in Seq(Mount)
    BY <1>3 DEF Left
  <2> HIDE DEF r
  <2>3. \A k \in DOMAIN r : r[k] \in Named(t)
    BY <2>1, <2>2 DEF Picks
  <2>4. \A k \in DOMAIN r : r[k].root \in rootsBefore[t]
    BY <2>3 DEF Named
  <2> QED BY <2>4 DEF r, Left
<1>7. ASSUME archive[t] \notin excepted
      PROVE  /\ Unmounted(Left(t), archive[t])
             /\ \A d \in Directory : Once(mounts, archive[t], d) =>
                   Taken(t) = <<[root |-> archive[t], dir |-> d]>>
  <2>1. archive[t] \notin rootsBefore[t]
    BY <1>2, <1>7 DEF Snapshot
  <2>2. Unmounted(Left(t), archive[t])
    BY <1>6, <2>1 DEF Unmounted
  <2>3. ASSUME NEW d \in Directory, Once(mounts, archive[t], d)
        PROVE  Taken(t) = <<[root |-> archive[t], dir |-> d]>>
    <3>1. [root |-> archive[t], dir |-> d] \in New(t)
      BY <1>1, <2>1 DEF New, Mount
    <3>2. \A m \in New(t) : m.root # archive[t] => \A i \in DOMAIN mounts : mounts[i] # m
      BY <1>2, <1>7 DEF New, Snapshot
    <3> QED BY <1>1, <2>3, <3>1, <3>2, TakenAlone DEF Taken
  <2> QED BY <2>2, <2>3
<1>8. ASSUME NEW a \in Archives, a \in reported, a \notin excepted PROVE a \in rootsBefore[t]
  BY <1>2, <1>8 DEF Snapshot
<1> QED BY <1>3, <1>4, <1>5, <1>6, <1>7, <1>8

\* What was taken out stays out.
LEMMA LeavesConsiderate ==
  ASSUME BootInv, NEW t \in Mounters, mounting[t] \in SnapshotPlaces, mounts' = Left(t),
         cacheFiles' \in [Archives -> Directory \cup {NoArchive, Damaged}], CacheInv',
         UNCHANGED excepted
  PROVE  Considerate(t)
BY ExtractHolds DEF Considerate, BootInv, BootTypeOK

\* The first mount taken out gets another directory, and all go back.
LEMMA GoesBackConsiderate ==
  ASSUME BootInv, NEW t \in Mounters, mounting[t] \in SnapshotPlaces,
         NEW back \in Seq(Mount), FitsIn(back), mounts' = Left(t) \o back,
         \A a \in Archives : Unmounted(Taken(t), a) => Unmounted(back, a),
         cacheFiles' \in [Archives -> Directory \cup {NoArchive, Damaged}], CacheInv',
         UNCHANGED excepted
  PROVE  Considerate(t)
<1>1. mounts' \in Seq(Mount) /\ FitsIn(mounts')
  BY ExtractHolds, FitsKeeps
<1>2. ASSUME NEW a \in Archives, a # archive[t], a \notin excepted
      PROVE  /\ a \in reported /\ Once(mounts, a, Whole(a)) => Once(mounts', a, Whole(a))
             /\ Unmounted(mounts, a) => Unmounted(mounts', a)
  <2>1. Whole(a) \in Directory /\ Left(t) \in Seq(Mount)
    BY ExtractHolds DEF Whole, Directory
  <2>2. /\ a \in reported /\ Once(mounts, a, Whole(a)) =>
              Once(Left(t), a, Whole(a)) /\ Unmounted(Taken(t), a)
        /\ Unmounted(mounts, a) => Unmounted(Left(t), a) /\ Unmounted(Taken(t), a)
    BY <1>2, ExtractHolds
  <2> QED BY <2>1, <2>2, JoinKeeps
<1> QED BY <1>1, <1>2 DEF Considerate, BootInv, BootTypeOK

----------------------------------------------------------------------------
\* The snapshot names what is reported, and not the own archive, which is not mounted yet.
LEMMA PrepareHolds ==
  ASSUME BootInv, NEW t \in Mounters, Prepare(t)
  PROVE  BootInv'
<1>1. mounting[t] = "prepare" /\ mounting[t] # "game" /\ UNCHANGED <<mounts, cacheFiles, excepted>>
  BY DEF Prepare
<1>2. Considerate(t)
  BY <1>1, AloneConsiderate DEF BootInv, BootTypeOK
<1>3. archive[t] \notin excepted' => Unmounted(mounts', archive[t])
  BY <1>1, OwnArchive DEF AsMounted
<1>4. CASE ReturnFromMount(t, FALSE, FALSE)
  BY <1>1, <1>2, <1>3, <1>4, ReturnHolds
<1>5. CASE /\ rootsBefore' = [rootsBefore EXCEPT ![t] = Roots(mounts)]
           /\ GoOn(t, "stub") /\ UNCHANGED <<archive, handled, reported>>
  <2>1. Roots(mounts) \subseteq Archives
    <3>1. \A i \in DOMAIN mounts : mounts[i] \in Mount
      BY DEF BootInv, BootTypeOK
    <3>2. \A i \in DOMAIN mounts : mounts[i].root \in Archives
      BY <3>1 DEF Mount
    <3> QED BY <3>2 DEF Roots
  <2>2. /\ rootsBefore' \in [Mounters -> SUBSET Archives] /\ rootsBefore'[t] = Roots(mounts)
        /\ \A u \in Mounters : u # t => rootsBefore'[u] = rootsBefore[u]
    BY <1>5, <2>1 DEF BootInv, BootTypeOK
  <2>3. ASSUME NEW a \in reported, a \notin excepted PROVE a \in Roots(mounts)
    <3>1. Once(mounts, a, Whole(a))
      BY <2>3 DEF BootInv, BootTypeOK, MountInv
    <3> QED BY <3>1 DEF Once, Roots
  <2>4. archive[t] \notin excepted => archive[t] \notin Roots(mounts)
    BY <1>1, <1>3 DEF Unmounted, Roots
  <2>5. Snapshot(t)'
    BY <1>1, <1>5, <2>2, <2>3, <2>4 DEF Snapshot, Roots
  <2>6. archive[t] \notin excepted' => AsMounted(mounts', archive[t], "stub")
    BY <1>3 DEF AsMounted
  <2>7. handled' \in [Mounters -> BOOLEAN] /\ "stub" \in Places \ {"game"}
    BY <1>5 DEF BootInv, BootTypeOK, Places
  <2> QED BY <1>1, <1>2, <1>5, <2>2, <2>5, <2>6, <2>7, GoOnHolds
<1> QED BY <1>4, <1>5 DEF Prepare

\* The stub is mounted, or the plain MountEbl is next.
LEMMA MountStubHolds ==
  ASSUME BootInv, NEW t \in Mounters, MountStub(t)
  PROVE  BootInv'
<1>1. /\ mounting[t] = "stub" /\ mounting[t] # "game" /\ mounting[t] \in SnapshotPlaces
      /\ UNCHANGED <<cacheFiles, excepted>>
  BY DEF MountStub, SnapshotPlaces
<1>2. archive[t] \notin excepted => Unmounted(mounts, archive[t])
  BY <1>1, OwnArchive DEF AsMounted
<1>3. CASE ReturnFromMount(t, FALSE, FALSE) /\ UNCHANGED mounts
  <2>1. Considerate(t)
    BY <1>1, <1>3, AloneConsiderate DEF BootInv, BootTypeOK
  <2> QED BY <1>1, <1>2, <1>3, <2>1, ReturnHolds
<1>4. CASE /\ mounts' = Append(mounts, [root |-> archive[t], dir |-> Stub(archive[t])])
           /\ handled' = [handled EXCEPT ![t] = TRUE]
           /\ GoOn(t, "adopt") /\ UNCHANGED <<archive, rootsBefore, reported>>
  <2>1. /\ Considerate(t)
        /\ Unmounted(mounts, archive[t]) => Once(mounts', archive[t], Stub(archive[t]))
        /\ \A i \in DOMAIN mounts' : \/ mounts'[i].root = archive[t]
                                     \/ i \in DOMAIN mounts /\ mounts'[i] = mounts[i]
    BY <1>1, <1>4, MountsOwn
  <2>2. Snapshot(t)
    BY <1>1 DEF BootInv, RootsInv, Snapshot
  <2>3. Snapshot(t)'
    BY <1>1, <1>4, <2>1, <2>2 DEF Snapshot
  <2>4. archive[t] \notin excepted' => AsMounted(mounts', archive[t], "adopt")
    BY <1>1, <1>2, <2>1 DEF AsMounted
  <2>5. /\ handled' \in [Mounters -> BOOLEAN] /\ rootsBefore' \in [Mounters -> SUBSET Archives]
        /\ "adopt" \in Places \ {"game"}
    BY <1>4 DEF BootInv, BootTypeOK, Places
  <2> QED BY <1>1, <1>4, <2>1, <2>3, <2>4, <2>5, GoOnHolds
<1> QED BY <1>3, <1>4 DEF MountStub

\* An archive whose stub stays is excepted.
LEMMA StubStaysHolds ==
  ASSUME BootInv, NEW t \in Mounters, StubStays(t)
  PROVE  BootInv'
<1>1. /\ mounting[t] # "game" /\ UNCHANGED <<mounts, cacheFiles>> /\ ReturnFromMount(t, TRUE, TRUE)
      /\ excepted' = excepted \cup {archive[t]}
  BY DEF StubStays
<1>2. excepted \subseteq excepted' /\ excepted' \subseteq Archives /\ archive[t] \in excepted'
  BY <1>1, OwnArchive DEF BootInv, BootTypeOK
<1>3. Considerate(t)
  BY <1>1, <1>2, AloneConsiderate
<1> QED BY <1>1, <1>2, <1>3, ReturnHolds

\* The directory of a stub is replaced by the whole one: the cache file begins like the
\* stub, and the file of an archive that is not excepted is its own.
LEMMA AdoptHolds ==
  ASSUME BootInv, NEW t \in Mounters, Adopt(t)
  PROVE  BootInv'
<1> DEFINE cached == cacheFiles[archive[t]]
           back == [Taken(t) EXCEPT ![1].dir = cached]
<1>1. /\ mounting[t] = "adopt" /\ mounting[t] # "game" /\ mounting[t] \in SnapshotPlaces
      /\ Taken(t) # <<>> /\ CacheFits(t, Taken(t)[1].dir) /\ mounts' = Left(t) \o back
      /\ ReturnFromMount(t, TRUE, TRUE) /\ UNCHANGED <<cacheFiles, excepted>>
  BY DEF Adopt, SnapshotPlaces
<1>2. archive[t] \in Archives
  BY <1>1, OwnArchive
<1>3. cached \in Directory /\ HeaderOf[cached.of] = HeaderOf[Taken(t)[1].dir.of]
  BY <1>1, <1>2 DEF CacheFits, BootInv, BootTypeOK
<1>4. Taken(t) \in Seq(Mount) /\ FitsIn(Taken(t)) /\ 1 \in DOMAIN Taken(t) /\ Taken(t)[1] \in Mount
  BY <1>1, ExtractHolds
<1>5. /\ back \in Seq(Mount) /\ DOMAIN back = DOMAIN Taken(t)
      /\ back[1] = [root |-> Taken(t)[1].root, dir |-> cached]
      /\ \A i \in DOMAIN Taken(t) : i # 1 => back[i] = Taken(t)[i]
  <2> DEFINE m == [Taken(t)[1] EXCEPT !.dir = cached]
  <2>1. m = [root |-> Taken(t)[1].root, dir |-> cached] /\ m \in Mount
    BY <1>3, <1>4 DEF Mount
  <2>2. back = [Taken(t) EXCEPT ![1] = m]
    OBVIOUS
  <2> HIDE DEF m, back
  <2>3. back \in Seq(Mount) /\ DOMAIN back = DOMAIN Taken(t) /\ back[1] = m
        /\ \A i \in DOMAIN Taken(t) : i # 1 => back[i] = Taken(t)[i]
    BY <1>4, <2>1, <2>2
  <2> QED BY <2>1, <2>3
<1> HIDE DEF back
<1>6. FitsIn(back)
  BY <1>3, <1>4, <1>5 DEF FitsIn
<1>7. \A a \in Archives : Unmounted(Taken(t), a) => Unmounted(back, a)
  BY <1>4, <1>5 DEF Unmounted
<1>8. cacheFiles' \in [Archives -> Directory \cup {NoArchive, Damaged}] /\ CacheInv'
  BY <1>1 DEF BootInv, BootTypeOK, CacheInv
<1>9. Considerate(t)
  BY <1>1, <1>5, <1>6, <1>7, <1>8, GoesBackConsiderate
<1>10. ASSUME archive[t] \notin excepted' PROVE Once(mounts', archive[t], Whole(archive[t]))
  <2> DEFINE a == archive[t]
  <2>1. a \notin excepted /\ Stub(a) \in Directory /\ Whole(a) \in Directory
    BY <1>1, <1>2, <1>10 DEF Stub, Whole, Directory
  <2>2. Once(mounts, a, Stub(a))
    BY <1>1, <2>1, OwnArchive DEF AsMounted
  <2>3. Taken(t) = <<[root |-> a, dir |-> Stub(a)]>> /\ Unmounted(Left(t), a)
    BY <1>1, <2>1, <2>2, ExtractHolds
  <2>4. cached = Whole(a)
    BY <1>1, <1>2, <2>1 DEF BootInv, CacheInv, CacheFits
  <2>5. DOMAIN back = {1} /\ back[1] = [root |-> a, dir |-> Whole(a)]
    BY <1>5, <2>3, <2>4
  <2>6. Once(back, a, Whole(a))
    BY <2>5 DEF Once
  <2> QED BY <1>1, <1>2, <1>5, <2>1, <2>3, <2>6, ExtractHolds, JoinKeeps
<1> QED BY <1>1, <1>9, <1>10, ReturnHolds

\* What was taken out is gone, and the plain MountEbl finds nothing.
LEMMA AdoptFailsHolds ==
  ASSUME BootInv, NEW t \in Mounters, AdoptFails(t)
  PROVE  BootInv'
<1>1. /\ mounting[t] # "game" /\ mounting[t] \in SnapshotPlaces /\ mounts' = Left(t)
      /\ ReturnFromMount(t, FALSE, FALSE) /\ UNCHANGED <<cacheFiles, excepted>>
  BY DEF AdoptFails, SnapshotPlaces
<1>2. cacheFiles' \in [Archives -> Directory \cup {NoArchive, Damaged}] /\ CacheInv'
  BY <1>1 DEF BootInv, BootTypeOK, CacheInv
<1>3. Considerate(t)
  BY <1>1, <1>2, LeavesConsiderate
<1>4. archive[t] \notin excepted' => Unmounted(mounts', archive[t])
  BY <1>1, ExtractHolds
<1> QED BY <1>1, <1>3, <1>4, ReturnHolds

\* The stub is gone and the second snapshot names all that is left.
LEMMA MissHolds ==
  ASSUME BootInv, NEW t \in Mounters, Miss(t)
  PROVE  BootInv'
<1>1. /\ mounting[t] # "game" /\ mounting[t] \in SnapshotPlaces /\ mounts' = Left(t)
      /\ UNCHANGED excepted
      /\ \/ cacheFiles' = cacheFiles
         \/ cacheFiles' = [cacheFiles EXCEPT ![archive[t]] = NoArchive]
  BY DEF Miss, SnapshotPlaces
<1>2. cacheFiles' \in [Archives -> Directory \cup {NoArchive, Damaged}] /\ CacheInv'
  BY <1>1, OwnArchive DEF BootInv, BootTypeOK, CacheInv
<1>3. Considerate(t)
  BY <1>1, <1>2, LeavesConsiderate
<1>4. archive[t] \notin excepted' => Unmounted(mounts', archive[t])
  BY <1>1, ExtractHolds
<1>5. CASE ReturnFromMount(t, FALSE, FALSE)
  BY <1>1, <1>3, <1>4, <1>5, ReturnHolds
<1>6. CASE /\ rootsBefore' = IF Taken(t) = <<>> THEN rootsBefore
                             ELSE [rootsBefore EXCEPT ![t] = Roots(Left(t))]
           /\ GoOn(t, "full") /\ UNCHANGED <<archive, handled, reported>>
  <2>1. Left(t) \in Seq(Mount) /\ \A i \in DOMAIN Left(t) : Left(t)[i].root \in rootsBefore[t]
    BY <1>1, ExtractHolds
  <2>2. Roots(Left(t)) \subseteq Archives
    <3>1. \A i \in DOMAIN Left(t) : Left(t)[i] \in Mount
      BY <2>1
    <3>2. \A i \in DOMAIN Left(t) : Left(t)[i].root \in Archives
      BY <3>1 DEF Mount
    <3> QED BY <3>2 DEF Roots
  <2>3. /\ rootsBefore' \in [Mounters -> SUBSET Archives]
        /\ rootsBefore'[t] = rootsBefore[t] \/ rootsBefore'[t] = Roots(Left(t))
        /\ \A u \in Mounters : u # t => rootsBefore'[u] = rootsBefore[u]
    BY <1>6, <2>2 DEF BootInv, BootTypeOK
  <2>4. Snapshot(t)
    BY <1>1 DEF BootInv, RootsInv, Snapshot, SnapshotPlaces
  <2>5. ASSUME NEW a \in reported, a \notin excepted PROVE a \in rootsBefore'[t]
    <3>1. a \in rootsBefore[t] /\ a \in Archives /\ a # archive[t]
      BY <2>4, <2>5 DEF Snapshot, BootInv, BootTypeOK, ActiveInv
    <3>2. Once(mounts, a, Whole(a))
      BY <2>5, <3>1 DEF BootInv, MountInv
    <3>3. Once(Left(t), a, Whole(a))
      BY <1>1, <2>5, <3>1, <3>2, ExtractHolds
    <3>4. a \in Roots(Left(t))
      BY <3>3 DEF Once, Roots
    <3> QED BY <2>3, <3>1, <3>4
  <2>6. ASSUME archive[t] \notin excepted
        PROVE  /\ archive[t] \notin rootsBefore'[t]
               /\ \A i \in DOMAIN Left(t) : Left(t)[i].root \in rootsBefore'[t]
    <3>1. archive[t] \notin rootsBefore[t]
      BY <2>4, <2>6 DEF Snapshot
    <3>2. archive[t] \notin Roots(Left(t))
      BY <2>1, <3>1 DEF Roots
    <3>3. \A i \in DOMAIN Left(t) : Left(t)[i].root \in Roots(Left(t))
      BY DEF Roots
    <3> QED BY <2>1, <2>3, <3>1, <3>2, <3>3
  <2>7. Snapshot(t)'
    BY <1>1, <1>6, <2>5, <2>6 DEF Snapshot
  <2>8. archive[t] \notin excepted' => AsMounted(mounts', archive[t], "full")
    BY <1>4 DEF AsMounted
  <2>9. handled' \in [Mounters -> BOOLEAN] /\ "full" \in Places \ {"game"}
    BY <1>6 DEF BootInv, BootTypeOK, Places
  <2> QED BY <1>1, <1>3, <1>6, <2>3, <2>7, <2>8, <2>9, GoOnHolds
<1> QED BY <1>5, <1>6 DEF Miss

\* The archive itself is mounted, or the call fails.
LEMMA MountFullHolds ==
  ASSUME BootInv, NEW t \in Mounters, MountFull(t)
  PROVE  BootInv'
<1>1. /\ mounting[t] = "full" /\ mounting[t] # "game" /\ mounting[t] \in SnapshotPlaces
      /\ UNCHANGED <<cacheFiles, excepted>>
  BY DEF MountFull, SnapshotPlaces
<1>2. archive[t] \notin excepted => Unmounted(mounts, archive[t])
  BY <1>1, OwnArchive DEF AsMounted
<1>3. CASE ReturnFromMount(t, FALSE, handled[t]) /\ UNCHANGED mounts
  <2>1. Considerate(t)
    BY <1>1, <1>3, AloneConsiderate DEF BootInv, BootTypeOK
  <2>2. handled[t] \in BOOLEAN
    BY DEF BootInv, BootTypeOK
  <2> QED BY <1>1, <1>2, <1>3, <2>1, <2>2, ReturnHolds
<1>4. CASE /\ mounts' = Append(mounts, [root |-> archive[t], dir |-> Whole(archive[t])])
           /\ GoOn(t, "store") /\ UNCHANGED <<archive, rootsBefore, handled, reported>>
  <2>1. /\ Considerate(t)
        /\ Unmounted(mounts, archive[t]) => Once(mounts', archive[t], Whole(archive[t]))
        /\ \A i \in DOMAIN mounts' : \/ mounts'[i].root = archive[t]
                                     \/ i \in DOMAIN mounts /\ mounts'[i] = mounts[i]
    BY <1>1, <1>4, MountsOwn
  <2>2. Snapshot(t)
    BY <1>1 DEF BootInv, RootsInv, Snapshot
  <2>3. Snapshot(t)'
    BY <1>1, <1>4, <2>1, <2>2 DEF Snapshot
  <2>4. archive[t] \notin excepted' => AsMounted(mounts', archive[t], "store")
    BY <1>1, <1>2, <2>1 DEF AsMounted
  <2>5. /\ handled' \in [Mounters -> BOOLEAN] /\ rootsBefore' \in [Mounters -> SUBSET Archives]
        /\ "store" \in Places \ {"game"}
    BY <1>4 DEF BootInv, BootTypeOK, Places
  <2> QED BY <1>1, <1>4, <2>1, <2>3, <2>4, <2>5, GoOnHolds
<1> QED BY <1>3, <1>4 DEF MountFull

\* Without a cache file the mount stays as it is.
LEMMA StoreSkippedHolds ==
  ASSUME BootInv, NEW t \in Mounters, StoreSkipped(t)
  PROVE  BootInv'
<1>1. /\ mounting[t] = "store" /\ mounting[t] # "game" /\ ReturnFromMount(t, TRUE, TRUE)
      /\ UNCHANGED <<mounts, cacheFiles, excepted>>
  BY DEF StoreSkipped
<1>2. Considerate(t)
  BY <1>1, AloneConsiderate DEF BootInv, BootTypeOK
<1>3. archive[t] \notin excepted' => Once(mounts', archive[t], Whole(archive[t]))
  BY <1>1, OwnArchive DEF AsMounted
<1> QED BY <1>1, <1>2, <1>3, ReturnHolds

\* The directory stored is the archive's own, unless it is excepted.
LEMMA StoreHolds ==
  ASSUME BootInv, NEW t \in Mounters, Store(t)
  PROVE  BootInv'
<1>1. /\ mounting[t] = "store" /\ mounting[t] # "game" /\ mounting[t] \in SnapshotPlaces
      /\ Taken(t) # <<>> /\ UNCHANGED excepted
      /\ cacheFiles' \in {cacheFiles, [cacheFiles EXCEPT ![archive[t]] = Taken(t)[1].dir]}
  BY DEF Store, SnapshotPlaces
<1>2. archive[t] \in Archives
  BY <1>1, OwnArchive
<1>3. Taken(t) \in Seq(Mount) /\ FitsIn(Taken(t)) /\ Taken(t)[1].dir \in Directory
  <2>1. Taken(t) \in Seq(Mount) /\ FitsIn(Taken(t))
    BY <1>1, ExtractHolds
  <2>2. Taken(t)[1] \in Mount
    BY <1>1, <2>1
  <2> QED BY <2>1, <2>2 DEF Mount
<1>4. ASSUME archive[t] \notin excepted
      PROVE  /\ Whole(archive[t]) \in Directory /\ Unmounted(Left(t), archive[t])
             /\ Taken(t) = <<[root |-> archive[t], dir |-> Whole(archive[t])]>>
  <2>1. Whole(archive[t]) \in Directory
    BY <1>2 DEF Whole, Directory
  <2>2. Once(mounts, archive[t], Whole(archive[t]))
    BY <1>1, <1>4, OwnArchive DEF AsMounted
  <2> QED BY <1>1, <1>4, <2>1, <2>2, ExtractHolds
<1>5. cacheFiles' \in [Archives -> Directory \cup {NoArchive, Damaged}]
  BY <1>1, <1>2, <1>3 DEF BootInv, BootTypeOK
<1>6. CacheInv'
  <2> SUFFICES ASSUME NEW a \in Archives, a \notin excepted'
               PROVE  cacheFiles'[a] \in {NoArchive, Damaged, Whole(a)}
    BY DEF CacheInv
  <2>1. cacheFiles[a] \in {NoArchive, Damaged, Whole(a)}
    BY <1>1 DEF BootInv, CacheInv
  <2>2. CASE a = archive[t]
    <3>1. Taken(t)[1].dir = Whole(a)
      BY <1>1, <1>4, <2>2
    <3> QED BY <1>1, <2>1, <3>1 DEF BootInv, BootTypeOK
  <2>3. CASE a # archive[t]
    BY <1>1, <2>1, <2>3 DEF BootInv, BootTypeOK
  <2> QED BY <2>2, <2>3
<1>7. CASE mounts' = Left(t) \o Taken(t) /\ ReturnFromMount(t, TRUE, TRUE)
  <2>1. Considerate(t)
    BY <1>1, <1>3, <1>5, <1>6, <1>7, GoesBackConsiderate
  <2>2. ASSUME archive[t] \notin excepted' PROVE Once(mounts', archive[t], Whole(archive[t]))
    <3>1. archive[t] \notin excepted
      BY <1>1, <2>2
    <3>2. Once(Taken(t), archive[t], Whole(archive[t]))
      BY <1>4, <3>1 DEF Once
    <3> QED BY <1>1, <1>2, <1>3, <1>4, <1>7, <3>1, <3>2, ExtractHolds, JoinKeeps
  <2> QED BY <1>1, <1>7, <2>1, <2>2, ReturnHolds
<1>8. CASE mounts' = Left(t) /\ ReturnFromMount(t, FALSE, FALSE)
  <2>1. Considerate(t)
    BY <1>1, <1>5, <1>6, <1>8, LeavesConsiderate
  <2>2. archive[t] \notin excepted' => Unmounted(mounts', archive[t])
    BY <1>1, <1>4, <1>8
  <2> QED BY <1>1, <1>8, <2>1, <2>2, ReturnHolds
<1> QED BY <1>7, <1>8 DEF Store

\* The original call.
LEMMA MountPlainHolds ==
  ASSUME BootInv, NEW t \in Mounters, MountPlain(t)
  PROVE  BootInv'
<1>1. mounting[t] = "plain" /\ mounting[t] # "game" /\ UNCHANGED <<cacheFiles, excepted>>
  BY DEF MountPlain
<1>2. archive[t] \notin excepted => Unmounted(mounts, archive[t])
  BY <1>1, OwnArchive DEF AsMounted
<1>3. CASE /\ mounts' = Append(mounts, [root |-> archive[t], dir |-> Whole(archive[t])])
           /\ ReturnFromMount(t, TRUE, TRUE)
  <2>1. /\ Considerate(t)
        /\ Unmounted(mounts, archive[t]) => Once(mounts', archive[t], Whole(archive[t]))
    BY <1>1, <1>3, MountsOwn
  <2> QED BY <1>1, <1>2, <1>3, <2>1, ReturnHolds
<1>4. CASE ReturnFromMount(t, FALSE, TRUE) /\ UNCHANGED mounts
  <2>1. Considerate(t)
    BY <1>1, <1>4, AloneConsiderate DEF BootInv, BootTypeOK
  <2> QED BY <1>1, <1>2, <1>4, <2>1, ReturnHolds
<1> QED BY <1>3, <1>4 DEF MountPlain

\* The game mounts another archive: while one is being mounted, both are excepted.
LEMMA MountEblHolds ==
  ASSUME BootInv, NEW t \in Mounters, NEW a \in Archives, MountEbl(t, a)
  PROVE  BootInv'
<1> USE DEF BootInv, BootTypeOK, Places
<1>1. /\ mounting[t] = "game" /\ a \notin reported /\ \A u \in Mounters : archive[u] # a
      /\ archive'[t] = a /\ \A u \in Mounters : u # t => archive'[u] = archive[u]
      /\ archive' \in [Mounters -> Archives \cup {NoArchive}]
      /\ mounting'[t] = "prepare" /\ \A u \in Mounters : u # t => mounting'[u] = mounting[u]
      /\ mounting' \in [Mounters -> Places]
      /\ UNCHANGED <<mounts, rootsBefore, handled, cacheFiles, reported>>
  BY DEF MountEbl, GoOn
<1>2. /\ excepted \subseteq excepted' /\ excepted' \subseteq Archives
      /\ \A u \in Mounters : mounting[u] # "game" => archive[u] \in excepted' /\ a \in excepted'
  <2>1. \A u \in Active : archive[u] \in Archives
    BY DEF Active, ActiveInv
  <2>2. CASE Active = {}
    BY <2>2 DEF MountEbl, Active
  <2>3. CASE Active # {}
    BY <2>1, <2>3 DEF MountEbl, Active
  <2> QED BY <2>2, <2>3
<1>3. BootTypeOK'
  BY <1>1, <1>2
<1>4. AdoptedDirectoriesFit' /\ CacheInv'
  BY <1>1, <1>2 DEF AdoptedDirectoriesFit, CacheInv
<1>5. ActiveInv'
  <2>1. a # NoArchive
    BY NoArchiveAssumption
  <2>2. \A u \in Mounters : /\ mounting'[u] = "game" <=> archive'[u] = NoArchive
                            /\ archive'[u] \notin reported'
    BY <1>1, <2>1 DEF ActiveInv
  <2>3. \A u, v \in Mounters : archive'[u] = archive'[v] /\ archive'[u] # NoArchive => u = v
    BY <1>1 DEF ActiveInv
  <2> QED BY <2>2, <2>3 DEF ActiveInv
<1>6. AloneInv'
  BY <1>1, <1>2 DEF AloneInv
<1>7. MountInv'
  <2> SUFFICES ASSUME NEW b \in Archives, b \notin excepted'
               PROVE  /\ b \in reported => Once(mounts, b, Whole(b))
                      /\ \A u \in Mounters : archive'[u] = b => AsMounted(mounts, b, mounting'[u])
                      /\ b \notin reported /\ (\A u \in Mounters : archive'[u] # b) =>
                            Unmounted(mounts, b)
    BY <1>1 DEF MountInv
  <2>1. b \notin excepted
    BY <1>2
  <2>2. CASE b = a
    <3>1. Unmounted(mounts, a)
      BY <1>1, <2>1, <2>2 DEF MountInv
    <3>2. \A u \in Mounters : archive'[u] = a => mounting'[u] = "prepare"
      BY <1>1
    <3> QED BY <1>1, <2>2, <3>1, <3>2 DEF AsMounted
  <2>3. CASE b # a
    <3>1. archive[t] = NoArchive /\ b # NoArchive
      BY <1>1, NoArchiveAssumption DEF ActiveInv
    <3>2. \A u \in Mounters : archive'[u] = b <=> archive[u] = b
      BY <1>1, <2>3, <3>1
    <3>3. \A u \in Mounters : archive[u] = b => mounting'[u] = mounting[u]
      BY <1>1, <3>1
    <3> QED BY <2>1, <3>2, <3>3 DEF MountInv
  <2> QED BY <2>2, <2>3
<1>8. RootsInv'
  <2> SUFFICES ASSUME NEW u \in Mounters, mounting'[u] \in SnapshotPlaces PROVE Snapshot(u)'
    BY DEF RootsInv, Snapshot, SnapshotPlaces
  <2>1. u # t /\ mounting[u] \in SnapshotPlaces /\ mounting[u] # "game"
    BY <1>1 DEF SnapshotPlaces
  <2>2. Snapshot(u)
    BY <2>1 DEF RootsInv, Snapshot, SnapshotPlaces
  <2> QED BY <1>1, <1>2, <2>1, <2>2 DEF Snapshot
<1> QED BY <1>3, <1>4, <1>5, <1>6, <1>7, <1>8

\* A new start keeps the cache files, which hold what they held.
LEMMA RestartHolds ==
  ASSUME BootInv, Restart
  PROVE  BootInv'
<1> USE DEF BootInv, BootTypeOK, Restart
<1>1. BootTypeOK' /\ AdoptedDirectoriesFit' /\ CacheInv' /\ ActiveInv' /\ AloneInv' /\ RootsInv'
  BY NoArchiveAssumption DEF AdoptedDirectoriesFit, CacheInv, ActiveInv, AloneInv, RootsInv
<1>2. \A a \in Archives : Unmounted(<<>>, a)
  BY DEF Unmounted
<1>3. MountInv'
  BY <1>2, NoArchiveAssumption DEF MountInv
<1> QED BY <1>1, <1>3

\* The game starts with nothing mounted.
LEMMA BootInitHolds ==
  ASSUME BootInit
  PROVE  BootInv
<1> USE DEF BootInit
<1>1. /\ BootTypeOK /\ AdoptedDirectoriesFit /\ CacheInv /\ ActiveInv /\ AloneInv /\ RootsInv
  BY NoArchiveAssumption DEF BootTypeOK, AdoptedDirectoriesFit, CacheInv, ActiveInv, AloneInv, RootsInv
<1>2. \A a \in Archives : Unmounted(<<>>, a)
  BY DEF Unmounted
<1>3. MountInv
  BY <1>2, NoArchiveAssumption DEF MountInv
<1> QED BY <1>1, <1>3 DEF BootInv

\* Every step of every thread, and a restart, keep the invariant.
LEMMA BootStepHolds ==
  ASSUME BootInv, [BootNext]_bootVars
  PROVE  BootInv'
<1>1. ASSUME NEW t \in Mounters, MountStep(t) PROVE BootInv'
  BY <1>1, PrepareHolds, MountStubHolds, StubStaysHolds, AdoptHolds, AdoptFailsHolds, MissHolds,
     MountFullHolds, StoreSkippedHolds, StoreHolds, MountPlainHolds DEF MountStep
<1>2. ASSUME NEW t \in Mounters, NEW a \in Archives, MountEbl(t, a) PROVE BootInv'
  BY <1>2, MountEblHolds
<1>3. CASE Restart
  BY <1>3, RestartHolds
<1>4. CASE UNCHANGED bootVars
  <2>1. BootTypeOK' /\ AdoptedDirectoriesFit' /\ CacheInv' /\ ActiveInv' /\ AloneInv'
    BY <1>4 DEF bootVars, BootInv, BootTypeOK, AdoptedDirectoriesFit, CacheInv, ActiveInv, AloneInv
  <2>2. MountInv' /\ RootsInv'
    BY <1>4 DEF bootVars, BootInv, MountInv, RootsInv
  <2> QED BY <2>1, <2>2 DEF BootInv
<1> QED BY <1>1, <1>2, <1>3, <1>4 DEF BootNext

\* asset_hooks.c:225-376: the invariant of mounts, snapshots and cache files.
LEMMA BootInvAlways == BootSpec => []BootInv
<1>1. BootInit => BootInv
  BY BootInitHolds
<1>2. BootInv /\ [BootNext]_bootVars => BootInv'
  BY BootStepHolds
<1> QED BY <1>1, <1>2, PTL DEF BootSpec

\* asset_hooks.c:223, dl_device.c:650: for any threads, archives and headers, whatever fails,
\* whatever cache files earlier starts left, and however mounts of several threads get mixed:
\* no device has a directory that begins otherwise than its own, and an archive whose mount was
\* reported is mounted once, with its whole directory, unless another one was mounted meanwhile
\* or its stub could not be taken out.
THEOREM MountsAreAlwaysSound == BootSpec => []MountsAreSound
<1>1. BootInv => MountsAreSound
  <2> SUFFICES ASSUME BootInv PROVE MountsAloneAreComplete
    BY DEF BootInv, MountsAreSound
  <2> SUFFICES ASSUME NEW a \in reported, a \notin excepted
               PROVE  LET mine == {i \in DOMAIN mounts : mounts[i].root = a}
                      IN /\ Cardinality(mine) = 1
                         /\ \A i \in mine : mounts[i].dir = Whole(a)
    BY DEF MountsAloneAreComplete
  <2>1. Once(mounts, a, Whole(a))
    BY DEF BootInv, BootTypeOK, MountInv
  <2>2. PICK i \in DOMAIN mounts : /\ mounts[i] = [root |-> a, dir |-> Whole(a)]
                                   /\ \A j \in DOMAIN mounts : mounts[j].root = a => j = i
    BY <2>1 DEF Once
  <2>3. {j \in DOMAIN mounts : mounts[j].root = a} = {i}
    BY <2>2
  <2>4. Cardinality({i}) = 1
    BY FS_Singleton
  <2>5. mounts[i].dir = Whole(a)
    BY <2>2
  <2> DEFINE mine == {j \in DOMAIN mounts : mounts[j].root = a}
  <2>6. Cardinality(mine) = 1 /\ \A j \in mine : mounts[j].dir = Whole(a)
    BY <2>3, <2>4, <2>5
  <2> QED BY <2>6
<1> QED BY <1>1, BootInvAlways, PTL
=============================================================================
