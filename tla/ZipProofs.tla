------------------------------ MODULE ZipProofs ------------------------------
(***************************************************************************)
(* Proofs about what serves a game from ZIP packages.                      *)
(*                                                                         *)
(* ZipHandles, for any number of threads, handle values, files and         *)
(* entries: the counts that free a file and let close_all go on are exact, *)
(* a handle names its file although values are reused, and close_all       *)
(* neither misses its wake-up nor leaves anything behind.                  *)
(*                                                                         *)
(* ZipStream, for any entries, chunks and reads: a stream tells sound data *)
(* from damaged, and keeps its package open.                               *)
(*                                                                         *)
(* VfsFile, for integers of any width and any files of an entry: cursors   *)
(* and reads are exact at the limits of the integers.                      *)
(***************************************************************************)
EXTENDS ZipHandles, ZipStream, VfsFile, FiniteSetTheorems, SequenceTheorems, TLAPS

----------------------------------------------------------------------------
(* Handles.                                                                 *)

\* The types of the variables, counts aside; that no count is negative is part of what
\* CountsAreExact says.
Fields ==
  /\ table \in [Handles -> Files \cup {None}]
  /\ handleCount \in Int /\ accepting \in BOOLEAN /\ active \in Int
  /\ phase \in Phase /\ asleep \in BOOLEAN
  /\ remaining \in [Handles -> Files \cup {None}]
  /\ refs \in [Files -> Int]
  /\ identity \in [Files -> Entries \cup {None}]
  /\ reads \in [Files -> BOOLEAN] /\ shares \in [Files -> BOOLEAN]
  /\ event \in [Files -> BOOLEAN]
  /\ pc \in [Threads -> PC] /\ op \in [Threads -> Ops]
  /\ handle \in [Threads -> Handles \cup {None}]
  /\ file \in [Threads -> Files \cup {None}]
  /\ other \in [Threads -> Files \cup {None}]
  /\ fresh \in [Threads -> Handles \cup {None}]
  /\ kernel \in SUBSET Handles
  /\ given \in [Handles -> Files \cup {None}]
  /\ orphans \in SUBSET Handles

\* What a thread holds at each step of its call.
CallAt(t) ==
  /\ op[t] = "none" <=> pc[t] = "idle"
  /\ op[t] \notin {"none", "open"} => handle[t] # None
  /\ pc[t] \in {"event", "insert", "openfail"} => op[t] = "open"
  /\ pc[t] \in {"get", "work", "dupinsert"} => op[t] \in {"use", "dup", "dupclose"}
  /\ pc[t] = "dupinsert" => op[t] # "use"
  /\ pc[t] = "stale" => op[t] \in {"open", "dup", "dupclose"}
  /\ pc[t] \in {"close", "closerelease", "closeleave"} => op[t] \in {"close", "dupclose"}
  /\ pc[t] = "closewake" => op[t] = "dupclose"
  /\ pc[t] \in {"event", "insert", "openfail", "work", "dupinsert", "closewake", "release"}
       => file[t] # None
  /\ pc[t] \in {"idle", "get", "leave", "wake"} => file[t] = None
  /\ pc[t] \in {"stale", "close", "closerelease", "closeleave"}
       => (file[t] # None <=> op[t] \in {"dup", "dupclose"})
  /\ other[t] # None => pc[t] \in {"stale", "closerelease"}
  /\ pc[t] \in {"insert", "dupinsert"} => fresh[t] # None
  /\ pc[t] \in {"idle", "event", "get", "work"} \/ op[t] \in {"use", "close"} => fresh[t] = None

CallInv == \A t \in Threads : CallAt(t)

\* A thread has created a handle that the program does not have yet.
Creates(t, h) == pc[t] \in {"insert", "dupinsert", "openfail"} /\ fresh[t] = h

\* A thread is going to close a handle the program has given up.
Closes(t, h) ==
  /\ handle[t] = h
  /\ op[t] = "close" => pc[t] = "close"
  /\ op[t] \in {"close", "dupclose"}
  /\ pc[t] \in {"get", "work", "dupinsert", "stale", "close"}

Owns(t, h) == Creates(t, h) \/ Closes(t, h)

\* An open handle value is the program's, an orphan, or in the hands of one thread.
HandleAt(h) ==
  /\ given[h] # None => table[h] = given[h] /\ h \in kernel /\ h \notin orphans
  /\ h \in orphans => h \in kernel
  /\ \A t, u \in Threads : Owns(t, h) /\ Owns(u, h) => t = u
  /\ \A t \in Threads : Owns(t, h) =>
       /\ h \in kernel /\ h \notin orphans /\ given[h] = None
       /\ ~(Creates(t, h) /\ Closes(t, h))
  /\ h \in kernel => given[h] # None \/ h \in orphans \/ \E t \in Threads : Owns(t, h)

OwnerInv == \A h \in Handles : HandleAt(h)

\* Once close_all has seen no call the table stays empty; before it, nothing is taken.
PhaseInv ==
  /\ accepting <=> phase = "up"
  /\ phase \in {"releasing", "down"} => active = 0 /\ \A h \in Handles : table[h] = None
  /\ phase # "releasing" => \A h \in Handles : remaining[h] = None

IInv == Fields /\ CallInv /\ OwnerInv /\ PhaseInv /\ NoLostWakeup /\ CountsAreExact

----------------------------------------------------------------------------
(* Types and the calls of the threads.                                      *)

\* zip_file_release touches one file.
LEMMA FileReleased ==
  ASSUME Fields, NEW f \in Files, ZipFileRelease(f)
  PROVE  /\ refs' \in [Files -> Int] /\ identity' \in [Files -> Entries \cup {None}]
         /\ reads' \in [Files -> BOOLEAN] /\ shares' \in [Files -> BOOLEAN]
         /\ event' \in [Files -> BOOLEAN]
         /\ refs'[f] = refs[f] - 1
         /\ refs[f] = 1 => identity'[f] = None /\ ~event'[f]
         /\ refs[f] # 1 => identity'[f] = identity[f] /\ event'[f] = event[f]
         /\ \A g \in Files \ {f} : refs'[g] = refs[g] /\ identity'[g] = identity[g] /\ event'[g] = event[g]
<1>1. refs' \in [Files -> Int] /\ refs'[f] = refs[f] - 1 /\ \A g \in Files \ {f} : refs'[g] = refs[g]
  BY DEF Fields, ZipFileRelease
<1>2. CASE refs[f] = 1
  BY <1>1, <1>2 DEF Fields, ZipFileRelease
<1>3. CASE refs[f] # 1
  BY <1>1, <1>3 DEF Fields, ZipFileRelease
<1> QED BY <1>2, <1>3

\* Every step keeps the types.
LEMMA FieldsStep ==
  ASSUME IInv, Next PROVE Fields'
<1> USE DEF IInv, Fields
<1>1. ASSUME NEW t \in Threads, Start(t) PROVE Fields'
  BY <1>1 DEF Start, OpenBegin, Call, CloseCall, Goto, Ops, PC, tableVars, fileVars, downVars, callVars, userVars
<1>2. ASSUME NEW t \in Threads, Step(t) PROVE Fields'
  <2> USE DEF Goto, Ops, PC, tableVars, fileVars, downVars, callVars, userVars, CallInv, CallAt
  <2>1. CASE \E h \in Handles : OpenEvent(t, h) \/ Duplicate(t, h)
    <3>1. file[t] \in Files
      BY <2>1 DEF OpenEvent, Duplicate
    <3>2. ASSUME NEW h \in Handles, OpenEvent(t, h) PROVE Fields'
      <4>1. event' \in [Files -> BOOLEAN] /\ fresh' \in [Threads -> Handles \cup {None}]
        BY <3>1, <3>2 DEF OpenEvent
      <4>2. pc' \in [Threads -> PC] /\ kernel' \in SUBSET Handles
        BY <3>2 DEF OpenEvent
      <4> QED BY <3>2, <4>1, <4>2 DEF OpenEvent
    <3>3. ASSUME NEW h \in Handles, Duplicate(t, h) PROVE Fields'
      BY <3>3 DEF Duplicate
    <3> QED BY <2>1, <3>2, <3>3
  <2>2. CASE OpenInsert(t)
    BY <2>2 DEF OpenInsert, ZipHandleInsert
  <2>3. CASE OpenNoEvent(t) \/ OpenFail(t) \/ NoDuplicate(t) \/ Work(t)
    BY <2>3 DEF OpenNoEvent, OpenFail, NoDuplicate, Work, AfterDuplicate
  <2>4. CASE Get(t)
    <3>1. CASE table[handle[t]] # None
      BY <2>4, <3>1 DEF Get
    <3>2. CASE table[handle[t]] = None
      BY <2>4, <3>2 DEF Get
    <3> QED BY <3>1, <3>2
  <2>5. CASE DupInsert(t)
    <3>1. file[t] \in Files /\ fresh[t] \in Handles
      BY <2>5 DEF DupInsert
    <3>2. table' \in [Handles -> Files \cup {None}] /\ handleCount' \in Int
      BY <2>5, <3>1 DEF DupInsert, ZipHandleInsert
    <3>3. refs' \in [Files -> Int]
      BY <2>5, <3>1 DEF DupInsert
    <3> QED BY <2>5, <3>1, <3>2, <3>3 DEF DupInsert, AfterDuplicate
  <2>6. CASE ReleaseStale(t)
    <3>1. CASE other[t] # None
      BY <2>6, <3>1, FileReleased DEF ReleaseStale, AfterDuplicate
    <3>2. CASE other[t] = None
      BY <2>6, <3>2 DEF ReleaseStale, AfterDuplicate
    <3> QED BY <3>1, <3>2
  <2>7. CASE Release(t)
    <3>1. file[t] \in Files
      BY <2>7 DEF Release
    <3> QED BY <2>7, <3>1, FileReleased DEF Release
  <2>8. CASE Leave(t) \/ Wake(t) \/ CloseLeave(t) \/ CloseWake(t)
    <3>1. asleep' \in BOOLEAN
      BY <2>8 DEF Leave, Wake, CloseLeave, CloseWake, WakeTeardown
    <3> QED BY <2>8, <3>1 DEF Leave, Wake, CloseLeave, CloseWake
  <2>9. CASE CloseMiss(t) \/ CloseLocked(t)
    BY <2>9 DEF CloseMiss, CloseLocked
  <2>10. CASE CloseRelease(t)
    <3>1. CASE other[t] # None
      BY <2>10, <3>1, FileReleased DEF CloseRelease
    <3>2. CASE other[t] = None
      BY <2>10, <3>2 DEF CloseRelease
    <3> QED BY <3>1, <3>2
  <2> QED BY <1>2, <2>1, <2>2, <2>3, <2>4, <2>5, <2>6, <2>7, <2>8, <2>9, <2>10 DEF Step
<1>3. ASSUME NEW h \in Handles, NtClose(h) \/ CloseOrphan(h) \/ ReleaseEntry(h) PROVE Fields'
  <2> USE DEF tableVars, fileVars, downVars, callVars, userVars
  <2>1. CASE NtClose(h) \/ CloseOrphan(h)
    BY <2>1 DEF NtClose, CloseOrphan
  <2>2. CASE ReleaseEntry(h)
    <3>1. remaining[h] \in Files
      BY <2>2 DEF ReleaseEntry
    <3> QED BY <2>2, <3>1, FileReleased DEF ReleaseEntry
  <2> QED BY <1>3, <2>1, <2>2
<1>4. CASE CloseAll \/ CheckAndTake \/ Return \/ ZipFileHooksPrepare
  BY <1>4 DEF CloseAll, CheckAndTake, Check, TakeTable, Return, ZipFileHooksPrepare, Phase,
              tableVars, fileVars, downVars, callVars, userVars
<1> QED BY <1>1, <1>2, <1>3, <1>4 DEF Next, CloseAllStep

\* A thread's step leaves the calls of the others alone.
LEMMA OthersStay ==
  ASSUME IInv, NEW t \in Threads, Start(t) \/ Step(t)
  PROVE \A u \in Threads \ {t} :
          /\ pc'[u] = pc[u] /\ op'[u] = op[u] /\ handle'[u] = handle[u]
          /\ file'[u] = file[u] /\ other'[u] = other[u] /\ fresh'[u] = fresh[u]
<1> USE DEF IInv, Fields, Goto, tableVars, fileVars, downVars, callVars, userVars
<1>1. CASE Start(t)
  BY <1>1 DEF Start, OpenBegin, Call, CloseCall
<1>2. CASE (\E h \in Handles : OpenEvent(t, h) \/ Duplicate(t, h)) \/ OpenInsert(t) \/ OpenNoEvent(t)
           \/ OpenFail(t) \/ NoDuplicate(t) \/ Work(t) \/ Get(t) \/ DupInsert(t)
  BY <1>2 DEF OpenEvent, Duplicate, OpenInsert, OpenNoEvent, OpenFail, NoDuplicate, Work, Get, DupInsert
<1>3. CASE ReleaseStale(t) \/ Release(t) \/ Leave(t) \/ Wake(t) \/ CloseMiss(t) \/ CloseLocked(t)
           \/ CloseRelease(t) \/ CloseLeave(t) \/ CloseWake(t)
  BY <1>3 DEF ReleaseStale, Release, Leave, Wake, CloseMiss, CloseLocked, CloseRelease, CloseLeave, CloseWake
<1> QED BY <1>1, <1>2, <1>3 DEF Step

\* A thread's step leaves it holding what its next step needs.
LEMMA CallStep ==
  ASSUME IInv, NEW t \in Threads, Start(t) \/ Step(t)
  PROVE CallInv'
<1> USE ConstantsAssumption
<1> USE DEF IInv, Fields, Goto, tableVars, fileVars, downVars, callVars, userVars
<1>0. CallAt(t)
  BY DEF CallInv
<1>1. CallAt(t)'
  <2> USE <1>0 DEF CallAt
  <2>1. CASE Start(t)
    BY <2>1 DEF Start, OpenBegin, Call, CloseCall
  <2>2. CASE (\E h \in Handles : OpenEvent(t, h) \/ Duplicate(t, h)) \/ OpenNoEvent(t) \/ OpenFail(t)
    BY <2>2 DEF OpenEvent, Duplicate, OpenNoEvent, OpenFail
  <2>3. CASE OpenInsert(t)
    BY <2>3 DEF OpenInsert
  <2>4. CASE NoDuplicate(t) \/ Work(t) \/ Get(t)
    BY <2>4 DEF NoDuplicate, Work, Get, AfterDuplicate, Ops
  <2>5. CASE DupInsert(t)
    BY <2>5 DEF DupInsert, AfterDuplicate, Ops
  <2>6. CASE ReleaseStale(t) \/ Release(t)
    BY <2>6 DEF ReleaseStale, Release, AfterDuplicate, Ops
  <2>7. CASE Leave(t) \/ Wake(t) \/ CloseLeave(t) \/ CloseWake(t)
    BY <2>7 DEF Leave, Wake, CloseLeave, CloseWake
  <2>8. CASE CloseMiss(t) \/ CloseLocked(t) \/ CloseRelease(t)
    BY <2>8 DEF CloseMiss, CloseLocked, CloseRelease
  <2> QED BY <2>1, <2>2, <2>3, <2>4, <2>5, <2>6, <2>7, <2>8 DEF Step
<1>2. ASSUME NEW u \in Threads \ {t} PROVE CallAt(u)'
  BY <1>2, OthersStay DEF CallInv, CallAt
<1> QED BY <1>1, <1>2 DEF CallInv

----------------------------------------------------------------------------
(* Counting.                                                                *)

\* Two subsets of a finite set that differ at most at x.
LEMMA CardChange ==
  ASSUME NEW D, IsFiniteSet(D), NEW A \in SUBSET D, NEW B \in SUBSET D, NEW x \in D,
         \A y \in D \ {x} : y \in A <=> y \in B
  PROVE  /\ Cardinality(A) \in Nat /\ Cardinality(B) \in Nat
         /\ Cardinality(B) = Cardinality(A) - (IF x \in A THEN 1 ELSE 0) + (IF x \in B THEN 1 ELSE 0)
<1>1. IsFiniteSet(A) /\ IsFiniteSet(B)
  BY FS_Subset
<1>2. Cardinality(A) \in Nat /\ Cardinality(B) \in Nat
  BY <1>1, FS_CardinalityType
<1>3. A \ {x} = B \ {x}
  OBVIOUS
<1>4. Cardinality(A \ {x}) = IF x \in A THEN Cardinality(A) - 1 ELSE Cardinality(A)
  BY <1>1, FS_RemoveElement
<1>5. Cardinality(B \ {x}) = IF x \in B THEN Cardinality(B) - 1 ELSE Cardinality(B)
  BY <1>1, FS_RemoveElement
<1> QED BY <1>2, <1>3, <1>4, <1>5

\* 1 where something is held, for the sums below.
Held(x, f) == IF x = f THEN 1 ELSE 0

\* Two functions that differ at most at x.
LEMMA HoldingChange ==
  ASSUME NEW D, IsFiniteSet(D), NEW v, NEW w, DOMAIN v = D, DOMAIN w = D, NEW x \in D,
         \A y \in D \ {x} : w[y] = v[y], NEW f
  PROVE  /\ Cardinality(Holding(v, f)) \in Nat /\ Cardinality(Holding(w, f)) \in Nat
         /\ Cardinality(Holding(w, f)) = Cardinality(Holding(v, f)) - Held(v[x], f) + Held(w[x], f)
<1>1. /\ Holding(v, f) \in SUBSET D /\ Holding(w, f) \in SUBSET D
      /\ \A y \in D \ {x} : y \in Holding(v, f) <=> y \in Holding(w, f)
      /\ x \in Holding(v, f) <=> v[x] = f
      /\ x \in Holding(w, f) <=> w[x] = f
  BY DEF Holding
<1> QED BY <1>1, CardChange DEF Held

\* Who holds a reference to a file.
Holders(f) == Cardinality(Holding(table, f)) + Cardinality(Holding(file, f))
            + Cardinality(Holding(other, f)) + Cardinality(Holding(remaining, f))

\* The four counts are natural numbers.
LEMMA HoldersAreNat ==
  ASSUME Fields, NEW f
  PROVE  /\ Cardinality(Holding(table, f)) \in Nat /\ Cardinality(Holding(file, f)) \in Nat
         /\ Cardinality(Holding(other, f)) \in Nat /\ Cardinality(Holding(remaining, f)) \in Nat
         /\ IsFiniteSet(Holding(table, f)) /\ IsFiniteSet(Holding(file, f))
         /\ IsFiniteSet(Holding(other, f)) /\ IsFiniteSet(Holding(remaining, f))
<1>1. /\ Holding(table, f) \in SUBSET Handles /\ Holding(remaining, f) \in SUBSET Handles
      /\ Holding(file, f) \in SUBSET Threads /\ Holding(other, f) \in SUBSET Threads
  BY DEF Fields, Holding
<1>2. /\ IsFiniteSet(Holding(table, f)) /\ IsFiniteSet(Holding(file, f))
      /\ IsFiniteSet(Holding(other, f)) /\ IsFiniteSet(Holding(remaining, f))
  BY <1>1, ConstantsAssumption, FS_Subset
<1> QED BY <1>2, FS_CardinalityType

\* What is held has a reference, and is allocated.
LEMMA HeldIsReferenced ==
  ASSUME Fields, ReferencesAreExact, NEW f \in Files,
         \/ \E t \in Threads : file[t] = f \/ other[t] = f
         \/ \E h \in Handles : table[h] = f \/ remaining[h] = f
  PROVE  refs[f] > 0 /\ identity[f] # None
<1>1. \/ Holding(table, f) # {} \/ Holding(file, f) # {} \/ Holding(other, f) # {}
      \/ Holding(remaining, f) # {}
  BY DEF Fields, Holding
<1>2. \/ Cardinality(Holding(table, f)) # 0 \/ Cardinality(Holding(file, f)) # 0
      \/ Cardinality(Holding(other, f)) # 0 \/ Cardinality(Holding(remaining, f)) # 0
  BY <1>1, HoldersAreNat, FS_EmptySet
<1>3. refs[f] # 0 /\ refs[f] >= 0
  BY <1>2, HoldersAreNat DEF ReferencesAreExact
<1> QED BY <1>3 DEF ReferencesAreExact, Fields

\* A file nobody allocated is held by nobody.
LEMMA UnusedIsNotHeld ==
  ASSUME Fields, ReferencesAreExact, NEW f \in Files, identity[f] = None
  PROVE  /\ refs[f] = 0
         /\ \A t \in Threads : file[t] # f /\ other[t] # f
         /\ \A h \in Handles : table[h] # f /\ remaining[h] # f
  BY HeldIsReferenced DEF ReferencesAreExact

\* The holders of a file after a step of one thread at one handle value.
LEMMA ThreadHolds ==
  ASSUME Fields, Fields', NEW t \in Threads, UNCHANGED remaining,
         \A u \in Threads \ {t} : file'[u] = file[u] /\ other'[u] = other[u],
         NEW f
  PROVE  /\ UNCHANGED table =>
              Holders(f)' = Holders(f) - Held(file[t], f) + Held(file[t], f)'
                                       - Held(other[t], f) + Held(other[t], f)'
         /\ \A h \in Handles :
              (\A k \in Handles \ {h} : table'[k] = table[k]) =>
              Holders(f)' = Holders(f) - Held(file[t], f) + Held(file[t], f)'
                                       - Held(other[t], f) + Held(other[t], f)'
                                       - Held(table[h], f) + Held(table[h], f)'
<1>1. /\ DOMAIN file = Threads /\ DOMAIN file' = Threads
      /\ DOMAIN other = Threads /\ DOMAIN other' = Threads
      /\ DOMAIN table = Handles /\ DOMAIN table' = Handles
  BY DEF Fields
<1>2. Cardinality(Holding(file', f)) = Cardinality(Holding(file, f)) - Held(file[t], f) + Held(file'[t], f)
  BY <1>1, HoldingChange, ConstantsAssumption
<1>3. Cardinality(Holding(other', f)) = Cardinality(Holding(other, f)) - Held(other[t], f) + Held(other'[t], f)
  BY <1>1, HoldingChange, ConstantsAssumption
<1>4. ASSUME NEW h \in Handles, \A k \in Handles \ {h} : table'[k] = table[k]
      PROVE  Cardinality(Holding(table', f)) = Cardinality(Holding(table, f)) - Held(table[h], f) + Held(table'[h], f)
  BY <1>1, <1>4, HoldingChange, ConstantsAssumption
<1>5. /\ Held(file[t], f) \in Int /\ Held(file'[t], f) \in Int
      /\ Held(other[t], f) \in Int /\ Held(other'[t], f) \in Int
      /\ \A h : Held(table[h], f) \in Int /\ Held(table'[h], f) \in Int
  BY DEF Held
<1>6. ASSUME NEW h \in Handles, \A k \in Handles \ {h} : table'[k] = table[k]
      PROVE  Holders(f)' = Holders(f) - Held(file[t], f) + Held(file'[t], f)
                                      - Held(other[t], f) + Held(other'[t], f)
                                      - Held(table[h], f) + Held(table'[h], f)
  <2>1. Cardinality(Holding(table', f)) = Cardinality(Holding(table, f)) - Held(table[h], f) + Held(table'[h], f)
    BY <1>4, <1>6
  <2> QED BY <1>2, <1>3, <2>1, <1>5, HoldersAreNat DEF Holders
<1>7. UNCHANGED table =>
         Holders(f)' = Holders(f) - Held(file[t], f) + Held(file'[t], f)
                                  - Held(other[t], f) + Held(other'[t], f)
  BY <1>2, <1>3, <1>5, HoldersAreNat DEF Holders
<1> QED BY <1>6, <1>7

\* A file keeps its references and stays what it is, or gains a reference, or loses one.
Counted(f) ==
  /\ refs[f] = Holders(f)
  /\ refs[f] = 0 <=> identity[f] = None
  /\ refs[f] = 0 => ~event[f]

\* References are exact when they are for each file.
LEMMA CountedAll ==
  Fields => (ReferencesAreExact <=> \A f \in Files : Counted(f))
  BY DEF ReferencesAreExact, Counted, Holders

\* A file that loses a reference, by zip_file_release, and the other files.
LEMMA ReleaseCounts ==
  ASSUME Fields, ReferencesAreExact, NEW f \in Files, ZipFileRelease(f), refs[f] > 0,
         \A g \in Files : Holders(g)' = Holders(g) - Held(f, g)
  PROVE  \A g \in Files : Counted(g)'
<1> SUFFICES ASSUME NEW g \in Files PROVE Counted(g)'
  OBVIOUS
<1>1. Counted(g) /\ refs[g] \in Int /\ Holders(g)' = Holders(g) - Held(f, g)
  BY CountedAll DEF Fields
<1>2. CASE g = f
  <2>1. refs'[f] = refs[f] - 1 /\ Holders(f)' = Holders(f) - 1
    BY <1>1, <1>2, FileReleased DEF Held
  <2>2. CASE refs[f] = 1
    <3>1. identity'[f] = None /\ ~event'[f]
      BY <2>2, FileReleased
    <3> QED BY <1>1, <1>2, <2>1, <2>2, <3>1 DEF Counted
  <2>3. CASE refs[f] # 1
    <3>1. identity'[f] = identity[f] /\ event'[f] = event[f]
      BY <2>3, FileReleased
    <3> QED BY <1>1, <1>2, <2>1, <2>3, <3>1 DEF Counted
  <2> QED BY <2>2, <2>3
<1>3. CASE g # f
  <2>1. refs'[g] = refs[g] /\ identity'[g] = identity[g] /\ event'[g] = event[g] /\ Holders(g)' = Holders(g)
    BY <1>1, <1>3, FileReleased, HoldersAreNat DEF Held, Holders
  <2> QED BY <1>1, <2>1 DEF Counted
<1> QED BY <1>2, <1>3

\* Steps that neither move a file nor touch one.
LEMMA UnmovedCounts ==
  ASSUME Fields, ReferencesAreExact, UNCHANGED <<table, file, other, remaining, refs, identity, event>>
  PROVE  \A g \in Files : Counted(g)'
  BY CountedAll DEF Counted, Holders, Holding

\* A call of the program references a file while it works on it; opening allocates one.
LEMMA StartCounts ==
  ASSUME IInv, Fields', NEW t \in Threads, Start(t)
  PROVE  \A g \in Files : Counted(g)'
<1> USE DEF IInv, CountsAreExact
<1>0. \A g \in Files : Counted(g)
  BY CountedAll
<1>1. ASSUME NEW e \in Entries, NEW f \in Files, NEW r \in BOOLEAN, NEW s \in BOOLEAN, OpenBegin(t, e, f, r, s)
      PROVE  \A g \in Files : Counted(g)'
  <2>1. /\ UNCHANGED <<table, remaining, other, event>> /\ identity[f] = None /\ file[t] = None
        /\ file' = [file EXCEPT ![t] = f] /\ identity' = [identity EXCEPT ![f] = e]
        /\ refs' = [refs EXCEPT ![f] = 1] /\ e # None
    BY <1>1, ConstantsAssumption DEF OpenBegin, CallInv, CallAt, tableVars, downVars
  <2>2. refs[f] = 0 /\ ~event[f]
    BY <2>1, UnusedIsNotHeld DEF ReferencesAreExact
  <2> SUFFICES ASSUME NEW g \in Files PROVE Counted(g)'
    OBVIOUS
  <2>3. Holders(g)' = Holders(g) - Held(file[t], g) + Held(file'[t], g) - Held(other[t], g) + Held(other'[t], g)
    BY <2>1, ThreadHolds DEF Fields
  <2>4. /\ file[t] # g /\ other'[t] = other[t] /\ file'[t] = f /\ refs'[f] = 1 /\ identity'[f] = e
        /\ g # f => refs'[g] = refs[g] /\ identity'[g] = identity[g]
    BY <2>1, ConstantsAssumption DEF Fields
  <2>5. Holders(g)' = Holders(g) + Held(f, g) /\ Holders(g) \in Int
    BY <2>3, <2>4, HoldersAreNat DEF Held, Holders
  <2> QED BY <1>0, <2>1, <2>2, <2>4, <2>5 DEF Counted, Held
<1>2. CASE \E h \in Handles : CloseCall(t, h) \/ \E o \in Ops : Call(t, h, o)
  BY <1>2, UnmovedCounts DEF CloseCall, Call, tableVars, fileVars, downVars
<1> QED BY <1>1, <1>2 DEF Start

\* References follow the entries and the calls through every step of a call.
LEMMA StepCounts ==
  ASSUME IInv, Fields', NEW t \in Threads, Step(t)
  PROVE  \A g \in Files : Counted(g)'
<1> USE DEF IInv, CountsAreExact
<1> USE ConstantsAssumption
<1>0. /\ \A g \in Files : Counted(g) /\ Holders(g) \in Int /\ refs[g] \in Int
      /\ CallAt(t) /\ None \notin Files
  BY CountedAll, HoldersAreNat DEF CallInv, Counted, Fields, Holders
<1>1. ASSUME NEW h \in Handles, OpenEvent(t, h) PROVE \A g \in Files : Counted(g)'
  <2>1. file[t] \in Files /\ UNCHANGED <<table, file, other, remaining, refs, identity>>
    BY <1>0, <1>1 DEF OpenEvent, CallAt, Fields, tableVars, downVars
  <2>2. refs[file[t]] > 0 /\ \A g \in Files \ {file[t]} : event'[g] = event[g]
    BY <1>1, <2>1, HeldIsReferenced DEF OpenEvent, Fields
  <2>3. \A g \in Files : Holders(g)' = Holders(g)
    BY <2>1 DEF Holders, Holding
  <2> QED BY <1>0, <2>1, <2>2, <2>3 DEF Counted
<1>2. CASE (\E h \in Handles : Duplicate(t, h)) \/ OpenNoEvent(t) \/ OpenFail(t) \/ NoDuplicate(t) \/ Work(t)
           \/ Leave(t) \/ Wake(t) \/ CloseMiss(t) \/ CloseLeave(t) \/ CloseWake(t)
  BY <1>2, UnmovedCounts
     DEF Duplicate, OpenNoEvent, OpenFail, NoDuplicate, Work, Leave, Wake, CloseMiss, CloseLeave, CloseWake,
         tableVars, fileVars, downVars
<1>3. CASE OpenInsert(t)
  <2>1. CASE UNCHANGED <<table, file, other>>
    BY <1>3, <2>1, UnmovedCounts DEF OpenInsert, downVars, fileVars
  <2>2. CASE ~UNCHANGED <<table, file, other>>
    <3>1. PICK h \in Handles, f \in Files :
              h = fresh[t] /\ f = file[t] /\ other[t] = None
      BY <1>0, <1>3 DEF OpenInsert, CallAt, Fields
    <3>2. /\ table' = [table EXCEPT ![h] = f] /\ other' = [other EXCEPT ![t] = table[h]]
          /\ file' = [file EXCEPT ![t] = None] /\ UNCHANGED <<remaining, refs, identity, event>>
      BY <1>3, <2>2, <3>1 DEF OpenInsert, ZipHandleInsert, tableVars, downVars, fileVars
    <3>3. /\ table'[h] = f /\ other'[t] = table[h] /\ file'[t] = None
          /\ \A k \in Handles \ {h} : table'[k] = table[k]
          /\ \A u \in Threads \ {t} : file'[u] = file[u] /\ other'[u] = other[u]
      BY <3>2 DEF Fields
    <3>4. ASSUME NEW g \in Files PROVE Holders(g)' = Holders(g)
      <4>1. Holders(g)' = Holders(g) - Held(file[t], g) + Held(file'[t], g) - Held(other[t], g) + Held(other'[t], g)
                                     - Held(table[h], g) + Held(table'[h], g)
        BY <3>2, <3>3, ThreadHolds
      <4> QED BY <1>0, <3>1, <3>3, <4>1 DEF Held
    <3> QED BY <1>0, <3>2, <3>4 DEF Counted
  <2> QED BY <2>1, <2>2
<1>4. CASE Get(t)
  <2>1. PICK h \in Handles : h = handle[t]
    BY <1>0, <1>4 DEF Get, CallAt, Fields
  <2>2. CASE table[h] = None
    BY <1>4, <2>1, <2>2, UnmovedCounts DEF Get, tableVars, downVars
  <2>3. CASE table[h] # None
    <3>1. PICK f \in Files : f = table[h] /\ file[t] = None
      BY <1>0, <1>4, <2>3 DEF Get, CallAt, Fields
    <3>2. /\ UNCHANGED <<table, remaining, other, identity, event>>
          /\ refs' = [refs EXCEPT ![f] = @ + 1] /\ file' = [file EXCEPT ![t] = f]
      BY <1>4, <2>1, <3>1 DEF Get, tableVars, downVars
    <3>3. /\ file'[t] = f /\ refs'[f] = refs[f] + 1
          /\ \A g \in Files \ {f} : refs'[g] = refs[g]
          /\ \A u \in Threads \ {t} : file'[u] = file[u]
      BY <3>2 DEF Fields
    <3>4. ASSUME NEW g \in Files PROVE Holders(g)' = Holders(g) + Held(f, g)
      <4>1. Holders(g)' = Holders(g) - Held(file[t], g) + Held(file'[t], g) - Held(other[t], g) + Held(other'[t], g)
        BY <3>2, <3>3, ThreadHolds
      <4> QED BY <1>0, <3>1, <3>2, <3>3, <4>1 DEF Held
    <3>5. refs[f] > 0
      BY <3>1, HeldIsReferenced
    <3> QED BY <1>0, <3>2, <3>3, <3>4, <3>5 DEF Counted, Held
  <2> QED BY <2>2, <2>3
<1>5. CASE DupInsert(t)
  <2>1. CASE UNCHANGED <<table, refs, other>>
    BY <1>5, <2>1, UnmovedCounts DEF DupInsert, downVars
  <2>2. CASE ~UNCHANGED <<table, refs, other>>
    <3>1. PICK h \in Handles, f \in Files :
              h = fresh[t] /\ f = file[t] /\ other[t] = None
      BY <1>0, <1>5 DEF DupInsert, CallAt, Fields
    <3>2. /\ table' = [table EXCEPT ![h] = f] /\ other' = [other EXCEPT ![t] = table[h]]
          /\ refs' = [refs EXCEPT ![f] = @ + 1]
          /\ UNCHANGED <<file, remaining, identity, event>>
      BY <1>5, <2>2, <3>1 DEF DupInsert, ZipHandleInsert, tableVars, downVars
    <3>3. /\ table'[h] = f /\ other'[t] = table[h] /\ refs'[f] = refs[f] + 1
          /\ \A g \in Files \ {f} : refs'[g] = refs[g]
          /\ \A k \in Handles \ {h} : table'[k] = table[k]
          /\ \A u \in Threads \ {t} : other'[u] = other[u]
      BY <3>2 DEF Fields
    <3>4. ASSUME NEW g \in Files PROVE Holders(g)' = Holders(g) + Held(f, g)
      <4>1. Holders(g)' = Holders(g) - Held(file[t], g) + Held(file'[t], g) - Held(other[t], g) + Held(other'[t], g)
                                     - Held(table[h], g) + Held(table'[h], g)
        BY <3>2, <3>3, ThreadHolds
      <4> QED BY <1>0, <3>1, <3>2, <3>3, <4>1 DEF Held
    <3>5. refs[f] > 0
      BY <3>1, HeldIsReferenced
    <3> QED BY <1>0, <3>2, <3>3, <3>4, <3>5 DEF Counted, Held
  <2> QED BY <2>1, <2>2
<1>6. CASE ReleaseStale(t) \/ CloseRelease(t)
  <2>1. CASE other[t] = None
    <3>1. UNCHANGED <<table, file, other, remaining, refs, identity, event>>
      BY <1>6, <2>1 DEF ReleaseStale, CloseRelease, tableVars, downVars, fileVars, Fields
    <3> QED BY <3>1, UnmovedCounts
  <2>2. CASE other[t] # None
    <3>1. PICK f \in Files : f = other[t] /\ refs[f] > 0
      BY <2>2, HeldIsReferenced DEF Fields
    <3>2. /\ ZipFileRelease(f) /\ UNCHANGED <<table, file, remaining>>
          /\ other'[t] = None /\ \A u \in Threads \ {t} : other'[u] = other[u]
      BY <1>6, <2>2, <3>1 DEF ReleaseStale, CloseRelease, tableVars, downVars, Fields
    <3>3. ASSUME NEW g \in Files PROVE Holders(g)' = Holders(g) - Held(f, g)
      <4>1. Holders(g)' = Holders(g) - Held(file[t], g) + Held(file'[t], g) - Held(other[t], g) + Held(other'[t], g)
        BY <3>2, ThreadHolds
      <4> QED BY <1>0, <3>1, <3>2, <4>1 DEF Held
    <3> QED BY <3>1, <3>2, <3>3, ReleaseCounts
  <2> QED BY <2>1, <2>2
<1>7. CASE Release(t)
  <2>1. PICK f \in Files : f = file[t] /\ refs[f] > 0
    BY <1>0, <1>7, HeldIsReferenced DEF Release, CallAt, Fields
  <2>2. /\ ZipFileRelease(f) /\ UNCHANGED <<table, other, remaining>>
        /\ file'[t] = None /\ \A u \in Threads \ {t} : file'[u] = file[u]
    BY <1>7, <2>1 DEF Release, tableVars, downVars, Fields
  <2>3. ASSUME NEW g \in Files PROVE Holders(g)' = Holders(g) - Held(f, g)
    <3>1. Holders(g)' = Holders(g) - Held(file[t], g) + Held(file'[t], g) - Held(other[t], g) + Held(other'[t], g)
      BY <2>2, ThreadHolds
    <3> QED BY <1>0, <2>1, <2>2, <3>1 DEF Held
  <2> QED BY <2>1, <2>2, <2>3, ReleaseCounts
<1>8. CASE CloseLocked(t)
  <2>1. CASE UNCHANGED <<table, other>>
    BY <1>8, <2>1, UnmovedCounts DEF CloseLocked, downVars, fileVars
  <2>2. CASE ~UNCHANGED <<table, other>>
    <3>1. PICK h \in Handles : h = handle[t] /\ other[t] = None
      BY <1>0, <1>8 DEF CloseLocked, CallAt, Fields
    <3>2. /\ table' = [table EXCEPT ![h] = None] /\ other' = [other EXCEPT ![t] = table[h]]
          /\ UNCHANGED <<file, remaining, refs, identity, event>>
      BY <1>8, <2>2, <3>1 DEF CloseLocked, downVars, fileVars, tableVars
    <3>3. /\ table'[h] = None /\ other'[t] = table[h]
          /\ \A k \in Handles \ {h} : table'[k] = table[k]
          /\ \A u \in Threads \ {t} : other'[u] = other[u]
      BY <3>2 DEF Fields
    <3>4. ASSUME NEW g \in Files PROVE Holders(g)' = Holders(g)
      <4>1. Holders(g)' = Holders(g) - Held(file[t], g) + Held(file'[t], g) - Held(other[t], g) + Held(other'[t], g)
                                     - Held(table[h], g) + Held(table'[h], g)
        BY <3>2, <3>3, ThreadHolds
      <4> QED BY <1>0, <3>1, <3>2, <3>3, <4>1 DEF Held
    <3> QED BY <1>0, <3>2, <3>4 DEF Counted
  <2> QED BY <2>1, <2>2
<1> QED BY <1>1, <1>2, <1>3, <1>4, <1>5, <1>6, <1>7, <1>8 DEF Step

\* Closing everything, and closes that the hooks do not see or that concern orphans.
LEMMA SystemCounts ==
  ASSUME IInv, Fields',
         \/ \E h \in Handles : NtClose(h) \/ CloseOrphan(h) \/ ReleaseEntry(h)
         \/ CloseAll \/ CheckAndTake \/ Return \/ ZipFileHooksPrepare
  PROVE  \A g \in Files : Counted(g)'
<1> USE DEF IInv, CountsAreExact
<1> USE ConstantsAssumption
<1>0. \A g \in Files : Counted(g) /\ Holders(g) \in Int
  BY CountedAll, HoldersAreNat DEF Holders
<1>1. CASE (\E h \in Handles : NtClose(h) \/ CloseOrphan(h)) \/ CloseAll \/ Return \/ ZipFileHooksPrepare
  BY <1>1, UnmovedCounts
     DEF NtClose, CloseOrphan, CloseAll, Return, ZipFileHooksPrepare, tableVars, fileVars, downVars, callVars
<1>2. CASE CheckAndTake
  <2>1. CASE active # 0
    BY <1>2, <2>1, UnmovedCounts DEF CheckAndTake, Check, tableVars, fileVars, callVars
  <2>2. CASE active = 0
    <3>1. /\ remaining' = table /\ table' = [h \in Handles |-> None]
          /\ UNCHANGED <<file, other, refs, identity, event>>
          /\ \A h \in Handles : remaining[h] = None
      BY <1>2, <2>2 DEF CheckAndTake, Check, TakeTable, PhaseInv, fileVars, callVars
    <3>2. ASSUME NEW g \in Files PROVE Holders(g)' = Holders(g)
      <4>1. Holding(table', g) = {} /\ Holding(remaining, g) = {}
        BY <3>1 DEF Holding, Fields
      <4>2. Cardinality(Holding(table', g)) = 0 /\ Cardinality(Holding(remaining, g)) = 0
        BY <4>1, FS_EmptySet
      <4>3. /\ Holding(remaining', g) = Holding(table, g)
            /\ Holding(file', g) = Holding(file, g) /\ Holding(other', g) = Holding(other, g)
        BY <3>1 DEF Holding
      <4> QED BY <4>2, <4>3, HoldersAreNat DEF Holders
    <3> QED BY <1>0, <3>1, <3>2 DEF Counted
  <2> QED BY <2>1, <2>2
<1>3. ASSUME NEW h \in Handles, ReleaseEntry(h) PROVE \A g \in Files : Counted(g)'
  <2>1. PICK f \in Files : f = remaining[h] /\ refs[f] > 0
    BY <1>3, HeldIsReferenced DEF ReleaseEntry, Fields
  <2>2. /\ ZipFileRelease(f) /\ UNCHANGED <<table, file, other>>
        /\ remaining'[h] = None /\ \A k \in Handles \ {h} : remaining'[k] = remaining[k]
        /\ DOMAIN remaining = Handles /\ DOMAIN remaining' = Handles
    BY <1>3, <2>1 DEF ReleaseEntry, tableVars, callVars, Fields
  <2>3. ASSUME NEW g \in Files PROVE Holders(g)' = Holders(g) - Held(f, g)
    <3>1. Cardinality(Holding(remaining', g)) = Cardinality(Holding(remaining, g)) - Held(remaining[h], g)
                                              + Held(remaining'[h], g)
      BY <2>2, HoldingChange
    <3>2. Held(remaining[h], g) = Held(f, g) /\ Held(remaining'[h], g) = 0 /\ Held(f, g) \in Int
      BY <2>1, <2>2 DEF Held
    <3>3. /\ Holding(table', g) = Holding(table, g)
          /\ Holding(file', g) = Holding(file, g) /\ Holding(other', g) = Holding(other, g)
      BY <2>2 DEF Holding
    <3> QED BY <3>1, <3>2, <3>3, HoldersAreNat DEF Holders
  <2> QED BY <2>1, <2>2, <2>3, ReleaseCounts
<1> QED BY <1>1, <1>2, <1>3

\* References are exact after every step.
LEMMA ReferencesStep ==
  ASSUME IInv, Next PROVE ReferencesAreExact'
<1>1. Fields'
  BY FieldsStep
<1>2. \A g \in Files : Counted(g)'
  BY <1>1, StartCounts, StepCounts, SystemCounts DEF Next, CloseAllStep
<1> QED BY <1>1, <1>2 DEF ReferencesAreExact, Counted, Holders

\* The entries after a step at one handle value.
LEMMA EntryCount ==
  ASSUME Fields, Fields', NEW h \in Handles, \A k \in Handles \ {h} : table'[k] = table[k]
  PROVE  /\ Cardinality({k \in Handles : table[k] # None}) \in Nat
         /\ Cardinality({k \in Handles : table'[k] # None})
              = Cardinality({k \in Handles : table[k] # None})
                - (IF table[h] # None THEN 1 ELSE 0) + (IF table'[h] # None THEN 1 ELSE 0)
<1> DEFINE A == {k \in Handles : table[k] # None}
           B == {k \in Handles : table'[k] # None}
<1>1. /\ A \in SUBSET Handles /\ B \in SUBSET Handles
      /\ \A k \in Handles \ {h} : k \in A <=> k \in B
      /\ h \in A <=> table[h] # None
      /\ h \in B <=> table'[h] # None
  OBVIOUS
<1> HIDE DEF A, B
<1>2. /\ Cardinality(A) \in Nat
      /\ Cardinality(B) = Cardinality(A) - (IF h \in A THEN 1 ELSE 0) + (IF h \in B THEN 1 ELSE 0)
  BY <1>1, CardChange, ConstantsAssumption
<1> QED BY <1>1, <1>2 DEF A, B

\* handle_count is the number of entries after every step.
LEMMA HandleCountStep ==
  ASSUME IInv, Next
  PROVE  handleCount' = Cardinality({k \in Handles : table'[k] # None})
<1> USE ConstantsAssumption
<1> DEFINE Entry == {k \in Handles : table[k] # None}
<1>0. Fields /\ Fields' /\ handleCount = Cardinality(Entry)
  BY FieldsStep DEF IInv, CountsAreExact, CountersAreExact
<1>1. CASE UNCHANGED tableVars
  BY <1>0, <1>1 DEF tableVars
<1>2. ASSUME NEW h \in Handles, NEW f \in Files, ZipHandleInsert(h, f)
      PROVE  handleCount' = Cardinality({k \in Handles : table'[k] # None})
  <2>1. /\ table'[h] = f /\ f # None
        /\ \A k \in Handles \ {h} : table'[k] = table[k]
        /\ handleCount' = IF table[h] = None THEN handleCount + 1 ELSE handleCount
    BY <1>0, <1>2 DEF ZipHandleInsert, Fields
  <2> QED BY <1>0, <2>1, EntryCount
<1>3. ASSUME NEW t \in Threads, OpenInsert(t) \/ DupInsert(t)
      PROVE  handleCount' = Cardinality({k \in Handles : table'[k] # None})
  <2>1. fresh[t] \in Handles /\ file[t] \in Files
    BY <1>3 DEF OpenInsert, DupInsert, IInv, CallInv, CallAt, Fields
  <2>2. ZipHandleInsert(fresh[t], file[t]) \/ UNCHANGED tableVars
    BY <1>3 DEF OpenInsert, DupInsert
  <2> QED BY <1>1, <1>2, <2>1, <2>2
<1>4. ASSUME NEW t \in Threads, CloseLocked(t)
      PROVE  handleCount' = Cardinality({k \in Handles : table'[k] # None})
  <2>1. CASE UNCHANGED tableVars
    BY <1>1, <2>1
  <2>2. CASE ~UNCHANGED tableVars
    <3>1. PICK h \in Handles : h = handle[t]
      BY <1>4 DEF CloseLocked, IInv, CallInv, CallAt, Fields
    <3>2. /\ table[h] # None /\ table'[h] = None /\ handleCount' = handleCount - 1
          /\ \A k \in Handles \ {h} : table'[k] = table[k]
      BY <1>0, <1>4, <2>2, <3>1 DEF CloseLocked, Fields
    <3> QED BY <1>0, <3>2, EntryCount
  <2> QED BY <2>1, <2>2
<1>5. CASE CheckAndTake
  <2>1. CASE active # 0
    BY <1>1, <1>5, <2>1 DEF CheckAndTake, Check
  <2>2. CASE active = 0
    <3>1. handleCount' = 0 /\ {k \in Handles : table'[k] # None} = {}
      BY <1>5, <2>2 DEF CheckAndTake, Check, TakeTable
    <3> QED BY <3>1, FS_EmptySet
  <2> QED BY <2>1, <2>2
<1>6. ASSUME NEW t \in Threads, Start(t) PROVE UNCHANGED tableVars
  BY <1>6 DEF Start, OpenBegin, Call, CloseCall
<1>7. ASSUME NEW t \in Threads, Step(t), ~OpenInsert(t), ~DupInsert(t), ~CloseLocked(t)
      PROVE UNCHANGED tableVars
  BY <1>7 DEF Step, OpenEvent, Duplicate, OpenNoEvent, OpenFail, Get, NoDuplicate, Work, ReleaseStale, Release,
              Leave, Wake, CloseMiss, CloseRelease, CloseLeave, CloseWake
<1>8. ASSUME (\E h \in Handles : NtClose(h) \/ CloseOrphan(h) \/ ReleaseEntry(h))
             \/ CloseAll \/ Return \/ ZipFileHooksPrepare
      PROVE UNCHANGED tableVars
  BY <1>8 DEF NtClose, CloseOrphan, ReleaseEntry, CloseAll, Return, ZipFileHooksPrepare
<1> QED BY <1>1, <1>3, <1>4, <1>5, <1>6, <1>7, <1>8 DEF Next, CloseAllStep

\* Where a call counts, and where it counts a second time.
IsCalling(l, f) ==
  \/ l \in {"event", "insert", "openfail", "work", "dupinsert", "stale", "release", "leave"}
  \/ l \in {"close", "closerelease", "closeleave", "closewake"} /\ f # None
IsClosing(l) == l \in {"closerelease", "closeleave"}

One(b) == IF b THEN 1 ELSE 0

\* How often thread t counts now.
Share(t) == One(IsCalling(pc[t], file[t])) + One(IsClosing(pc[t]))

\* active_operations follows the thread that moves.
LEMMA ActiveFollows ==
  ASSUME IInv, Fields', NEW t \in Threads, Start(t) \/ Step(t), active' = active - Share(t) + Share(t)'
  PROVE  active' = Cardinality(Calling') + Cardinality(Closing')
<1>1. /\ Calling \in SUBSET Threads /\ Calling' \in SUBSET Threads
      /\ \A u \in Threads \ {t} : u \in Calling <=> u \in Calling'
      /\ t \in Calling <=> IsCalling(pc[t], file[t])
      /\ t \in Calling' <=> IsCalling(pc[t], file[t])'
  BY OthersStay DEF Calling, IsCalling
<1>2. /\ Closing \in SUBSET Threads /\ Closing' \in SUBSET Threads
      /\ \A u \in Threads \ {t} : u \in Closing <=> u \in Closing'
      /\ t \in Closing <=> IsClosing(pc[t])
      /\ t \in Closing' <=> IsClosing(pc[t])'
  BY OthersStay DEF Closing, IsClosing
<1>3. /\ Cardinality(Calling) \in Nat
      /\ Cardinality(Calling') = Cardinality(Calling) - One(IsCalling(pc[t], file[t])) + One(IsCalling(pc[t], file[t])')
  BY <1>1, CardChange, ConstantsAssumption DEF One
<1>4. /\ Cardinality(Closing) \in Nat
      /\ Cardinality(Closing') = Cardinality(Closing) - One(IsClosing(pc[t])) + One(IsClosing(pc[t])')
  BY <1>2, CardChange, ConstantsAssumption DEF One
<1>5. /\ One(IsCalling(pc[t], file[t])) \in Int /\ One(IsCalling(pc[t], file[t])') \in Int
      /\ One(IsClosing(pc[t])) \in Int /\ One(IsClosing(pc[t])') \in Int
  BY DEF One
<1>6. active = Cardinality(Calling) + Cardinality(Closing)
  BY DEF IInv, CountsAreExact, CountersAreExact
<1> QED BY <1>3, <1>4, <1>5, <1>6 DEF Share

\* Every step of a thread counts what it enters and leaves.
LEMMA ShareStep ==
  ASSUME IInv, NEW t \in Threads, Start(t) \/ Step(t)
  PROVE  active' = active - Share(t) + Share(t)'
<1> USE ConstantsAssumption DEF IInv, Fields, Goto
<1>0. CallAt(t) /\ active \in Int
  BY DEF CallInv
<1> USE <1>0 DEF CallAt, Share, One, IsCalling, IsClosing
<1>1. CASE Start(t)
  BY <1>1 DEF Start, OpenBegin, Call, CloseCall
<1>2. CASE (\E h \in Handles : OpenEvent(t, h) \/ Duplicate(t, h)) \/ OpenNoEvent(t) \/ OpenFail(t)
  BY <1>2 DEF OpenEvent, Duplicate, OpenNoEvent, OpenFail
<1>3. CASE OpenInsert(t)
  BY <1>3 DEF OpenInsert
<1>4. CASE Get(t)
  <2>1. CASE table[handle[t]] = None
    BY <1>4, <2>1 DEF Get
  <2>2. CASE table[handle[t]] # None
    BY <1>4, <2>2 DEF Get
  <2> QED BY <2>1, <2>2
<1>5. CASE NoDuplicate(t) \/ Work(t)
  BY <1>5 DEF NoDuplicate, Work, AfterDuplicate
<1>6. CASE DupInsert(t)
  BY <1>6 DEF DupInsert, AfterDuplicate
<1>7. CASE ReleaseStale(t) \/ Release(t)
  BY <1>7 DEF ReleaseStale, Release, AfterDuplicate
<1>8. CASE Leave(t) \/ Wake(t) \/ CloseLeave(t) \/ CloseWake(t)
  BY <1>8 DEF Leave, Wake, CloseLeave, CloseWake
<1>9. CASE CloseMiss(t) \/ CloseLocked(t) \/ CloseRelease(t)
  BY <1>9 DEF CloseMiss, CloseLocked, CloseRelease
<1> QED BY <1>1, <1>2, <1>3, <1>4, <1>5, <1>6, <1>7, <1>8, <1>9 DEF Step

\* The counters are exact after every step.
LEMMA CountersStep ==
  ASSUME IInv, Next PROVE CountersAreExact'
<1>1. ASSUME NEW t \in Threads, Start(t) \/ Step(t) PROVE active' = Cardinality(Calling') + Cardinality(Closing')
  BY <1>1, FieldsStep, ShareStep, ActiveFollows
<1>2. ASSUME (\E h \in Handles : NtClose(h) \/ CloseOrphan(h) \/ ReleaseEntry(h))
             \/ CloseAll \/ CheckAndTake \/ Return \/ ZipFileHooksPrepare
      PROVE  active' = Cardinality(Calling') + Cardinality(Closing')
  <2>1. UNCHANGED <<active, pc, file>>
    BY <1>2 DEF NtClose, CloseOrphan, ReleaseEntry, CloseAll, CheckAndTake, Return, ZipFileHooksPrepare, callVars
  <2>2. Calling' = Calling /\ Closing' = Closing
    BY <2>1 DEF Calling, Closing
  <2> QED BY <2>1, <2>2 DEF IInv, CountsAreExact, CountersAreExact
<1> QED BY <1>1, <1>2, HandleCountStep DEF Next, CloseAllStep, CountersAreExact

\* Nobody is in a call when active_operations is 0.
LEMMA NobodyInside ==
  ASSUME IInv, active = 0, NEW t \in Threads
  PROVE  ~IsCalling(pc[t], file[t]) /\ ~IsClosing(pc[t])
<1>1. IsFiniteSet(Calling) /\ IsFiniteSet(Closing)
  <2>1. Calling \in SUBSET Threads /\ Closing \in SUBSET Threads
    BY DEF Calling, Closing
  <2> QED BY <2>1, ConstantsAssumption, FS_Subset
<1>2. Cardinality(Calling) = 0 /\ Cardinality(Closing) = 0
  <2>1. Cardinality(Calling) \in Nat /\ Cardinality(Closing) \in Nat
    BY <1>1, FS_CardinalityType
  <2> QED BY <2>1 DEF IInv, CountsAreExact, CountersAreExact
<1>3. Calling = {} /\ Closing = {}
  BY <1>1, <1>2, FS_EmptySet
<1> QED BY <1>3 DEF Calling, Closing, IsCalling, IsClosing

\* active_operations is not negative.
LEMMA ActiveIsNat ==
  ASSUME IInv PROVE active \in Nat
<1>1. Calling \in SUBSET Threads /\ Closing \in SUBSET Threads
  BY DEF Calling, Closing
<1>2. Cardinality(Calling) \in Nat /\ Cardinality(Closing) \in Nat
  BY <1>1, ConstantsAssumption, FS_Subset, FS_CardinalityType
<1> QED BY <1>2 DEF IInv, CountsAreExact, CountersAreExact

----------------------------------------------------------------------------
(* Closing everything.                                                      *)

\* After close_all has seen no call the table stays empty and nobody enters.
LEMMA PhaseStep ==
  ASSUME IInv, Next PROVE PhaseInv'
<1> USE DEF IInv, Fields, PhaseInv
<1>1. ASSUME NEW t \in Threads, Start(t) \/ Step(t) PROVE PhaseInv'
  <2>0. CallAt(t)
    BY DEF CallInv
  <2>1. UNCHANGED <<accepting, phase, remaining>>
    <3>1. CASE Start(t)
      BY <3>1 DEF Start, OpenBegin, Call, CloseCall, downVars
    <3>2. CASE Step(t)
      BY <3>2 DEF Step, OpenEvent, Duplicate, OpenNoEvent, OpenInsert, OpenFail, Get, NoDuplicate, Work, DupInsert,
                  ReleaseStale, Release, Leave, Wake, CloseMiss, CloseLocked, CloseRelease, CloseLeave, CloseWake,
                  downVars
    <3> QED BY <1>1, <3>1, <3>2
  <2>2. CASE phase \notin {"releasing", "down"}
    BY <2>1, <2>2
  <2>3. CASE phase \in {"releasing", "down"}
    <3>1. ~accepting /\ ~IsCalling(pc[t], file[t]) /\ ~IsClosing(pc[t]) /\ active = 0
          /\ \A h \in Handles : table[h] = None
      BY <2>3, NobodyInside
    <3>2. pc[t] \in {"idle", "get", "close", "wake"}
      BY <2>0, <3>1 DEF IsCalling, IsClosing, PC, CallAt
    <3>3. UNCHANGED <<table, active>>
      <4>1. CASE Start(t)
        BY <3>1, <4>1 DEF Start, OpenBegin, Call, CloseCall, tableVars
      <4>2. CASE Step(t)
        <5>1. handle[t] \in Handles \/ pc[t] \in {"idle", "wake"}
          BY <2>0, <3>2 DEF CallAt
        <5>2. Get(t) \/ Wake(t) \/ CloseMiss(t)
          BY <3>1, <3>2, <4>2, <5>1
             DEF Step, OpenEvent, Duplicate, OpenNoEvent, OpenInsert, OpenFail, NoDuplicate, Work, DupInsert,
                 ReleaseStale, Release, Leave, CloseLocked, CloseRelease, CloseLeave, CloseWake
        <5> QED BY <3>1, <5>1, <5>2 DEF Get, Wake, CloseMiss, tableVars
      <4> QED BY <1>1, <4>1, <4>2
    <3> QED BY <2>1, <3>1, <3>3
  <2> QED BY <2>2, <2>3
<1>2. CASE (\E h \in Handles : NtClose(h) \/ CloseOrphan(h)) \/ CloseAll \/ ZipFileHooksPrepare
  BY <1>2 DEF NtClose, CloseOrphan, CloseAll, ZipFileHooksPrepare, tableVars, downVars
<1>3. CASE CheckAndTake
  <2>1. CASE active # 0
    BY <1>3, <2>1 DEF CheckAndTake, Check, tableVars
  <2>2. CASE active = 0
    BY <1>3, <2>2 DEF CheckAndTake, Check, TakeTable
  <2> QED BY <2>1, <2>2
<1>4. CASE \E h \in Handles : ReleaseEntry(h)
  BY <1>4 DEF ReleaseEntry, tableVars
<1>5. CASE Return
  BY <1>5 DEF Return, tableVars
<1> QED BY <1>1, <1>2, <1>3, <1>4, <1>5 DEF Next, CloseAllStep

\* Who takes the count to 0 wakes close_all, as `accepting` is false by then.
LEMMA WakeupStep ==
  ASSUME IInv, Next PROVE NoLostWakeup'
<1> USE DEF IInv, Fields
<1>0. active \in Nat /\ NoLostWakeup
  BY ActiveIsNat
<1>1. ASSUME NEW t \in Threads, Start(t) \/ Step(t) PROVE NoLostWakeup'
  <2>1. SUFFICES ASSUME phase' = "waiting", asleep'
                 PROVE  active' > 0 \/ \E u \in Threads : pc'[u] \in {"wake", "closewake"}
    BY DEF NoLostWakeup
  <2>2. \A u \in Threads \ {t} : pc'[u] = pc[u]
    BY <1>1, OthersStay
  <2>3. CASE Leave(t) \/ CloseLeave(t)
    BY <2>3 DEF Leave, CloseLeave, Goto
  <2>4. CASE Wake(t) \/ CloseWake(t)
    BY <2>1, <2>4 DEF Wake, CloseWake, WakeTeardown, PhaseInv
  <2>5. CASE ~(Leave(t) \/ CloseLeave(t) \/ Wake(t) \/ CloseWake(t))
    <3>1. UNCHANGED <<phase, asleep>> /\ active' \in {active, active + 1} /\ pc[t] \notin {"wake", "closewake"}
      <4>1. CASE Start(t)
        BY <1>0, <4>1 DEF Start, OpenBegin, Call, CloseCall, downVars
      <4>2. CASE Step(t)
        BY <1>0, <2>5, <4>2
           DEF Step, OpenEvent, Duplicate, OpenNoEvent, OpenInsert, OpenFail, Get, NoDuplicate, Work, DupInsert,
               ReleaseStale, Release, CloseMiss, CloseLocked, CloseRelease, downVars
      <4> QED BY <1>1, <4>1, <4>2
    <3>2. active > 0 \/ \E u \in Threads : pc[u] \in {"wake", "closewake"}
      BY <1>0, <2>1, <3>1, Zenon DEF NoLostWakeup
    <3> QED BY <1>0, <2>2, <3>1, <3>2
  <2> QED BY <2>3, <2>4, <2>5
<1>2. CASE (\E h \in Handles : NtClose(h) \/ CloseOrphan(h) \/ ReleaseEntry(h)) \/ Return \/ ZipFileHooksPrepare
  <2>1. UNCHANGED <<asleep, active, pc>> /\ phase' \in {phase, "down", "up"}
    BY <1>2 DEF NtClose, CloseOrphan, ReleaseEntry, Return, ZipFileHooksPrepare, downVars, callVars
  <2>2. CASE phase' = phase
    BY <1>0, <2>1, <2>2, Zenon DEF NoLostWakeup
  <2>3. CASE phase' # phase
    BY <2>1, <2>3 DEF NoLostWakeup
  <2> QED BY <2>2, <2>3
<1>3. CASE CloseAll
  <2>1. active' = active /\ (asleep' <=> active # 0)
    BY <1>3, Zenon DEF CloseAll
  <2> QED BY <1>0, <2>1 DEF NoLostWakeup
<1>4. CASE CheckAndTake
  BY <1>0, <1>4 DEF NoLostWakeup, CheckAndTake, Check, TakeTable
<1> QED BY <1>1, <1>2, <1>3, <1>4 DEF Next, CloseAllStep

----------------------------------------------------------------------------
(* Who has a handle value.                                                  *)

\* A handle value that a step does not concern.
LEMMA ElsewhereKept ==
  ASSUME NEW h \in Handles, HandleAt(h),
         h \in kernel' <=> h \in kernel, h \in orphans' <=> h \in orphans, given'[h] = given[h],
         given[h] # None => table'[h] = table[h],
         \A u \in Threads : Creates(u, h)' <=> Creates(u, h),
         \A u \in Threads : Closes(u, h)' <=> Closes(u, h)
  PROVE  HandleAt(h)'
  BY Zenon DEF HandleAt, Owns

\* A thread's step at a handle value that it creates or owns, or the program has.
LEMMA ThreadAtHandle ==
  ASSUME NEW h \in Handles, HandleAt(h), NEW t \in Threads,
         Owns(t, h) \/ given[h] # None \/ h \notin kernel,
         \A u \in Threads \ {t} : Owns(u, h)' <=> Owns(u, h),
         orphans' = orphans,
         \/ h \notin kernel' /\ given'[h] = None /\ ~Owns(t, h)'
         \/ h \in kernel' /\ given'[h] = None /\ Owns(t, h)' /\ ~(Creates(t, h) /\ Closes(t, h))'
         \/ h \in kernel' /\ given'[h] # None /\ table'[h] = given'[h] /\ ~Owns(t, h)'
  PROVE  HandleAt(h)'
<1>1. h \notin orphans /\ \A u \in Threads \ {t} : ~Owns(u, h)
  BY DEF HandleAt
<1>2. \A u \in Threads \ {t} : ~Owns(u, h)'
  BY <1>1
<1>3. \A u \in Threads \ {t} : ~(Creates(u, h) /\ Closes(u, h))'
  BY <1>2 DEF Owns
<1> QED BY <1>1, <1>2, <1>3 DEF HandleAt

\* What the other threads own stays theirs.
LEMMA OthersOwn ==
  ASSUME IInv, NEW t \in Threads, Start(t) \/ Step(t), NEW u \in Threads \ {t}, NEW h
  PROVE  /\ Creates(u, h)' <=> Creates(u, h)
         /\ Closes(u, h)' <=> Closes(u, h)
         /\ Owns(u, h)' <=> Owns(u, h)
  BY OthersStay DEF Creates, Closes, Owns

\* A step of one thread at one handle value h, nothing changing at the others.
LEMMA ThreadOwns ==
  ASSUME IInv, NEW t \in Threads, Start(t) \/ Step(t), NEW h,
         orphans' = orphans,
         \A k \in Handles \ {h} :
            /\ k \in kernel' <=> k \in kernel
            /\ given'[k] = given[k]
            /\ given[k] # None => table'[k] = table[k]
            /\ Creates(t, k)' <=> Creates(t, k)
            /\ Closes(t, k)' <=> Closes(t, k),
         h \in Handles =>
            /\ Owns(t, h) \/ given[h] # None \/ h \notin kernel
            /\ \/ h \notin kernel' /\ given'[h] = None /\ ~Owns(t, h)'
               \/ h \in kernel' /\ given'[h] = None /\ Owns(t, h)' /\ ~(Creates(t, h) /\ Closes(t, h))'
               \/ h \in kernel' /\ given'[h] # None /\ table'[h] = given'[h] /\ ~Owns(t, h)'
  PROVE  OwnerInv'
<1>1. ASSUME NEW k \in Handles \ {h} PROVE HandleAt(k)'
  <2>1. HandleAt(k)
    BY DEF IInv, OwnerInv
  <2>2. \A u \in Threads : (Creates(u, k)' <=> Creates(u, k)) /\ (Closes(u, k)' <=> Closes(u, k))
    BY <1>1, OthersOwn
  <2> QED BY <2>1, <2>2, ElsewhereKept
<1>2. CASE h \in Handles
  <2>1. HandleAt(h)
    BY <1>2 DEF IInv, OwnerInv
  <2>2. HandleAt(h)'
    BY <1>2, <2>1, OthersOwn, ThreadAtHandle
  <2> QED BY <1>1, <2>2 DEF OwnerInv
<1>3. CASE h \notin Handles
  BY <1>1, <1>3 DEF OwnerInv
<1> QED BY <1>2, <1>3

\* A step that leaves the handle values to whom they belong.
LEMMA NothingHandedOver ==
  ASSUME IInv, NEW t \in Threads, Start(t) \/ Step(t), UNCHANGED <<kernel, orphans, given, table>>,
         \A k \in Handles : (Creates(t, k)' <=> Creates(t, k)) /\ (Closes(t, k)' <=> Closes(t, k))
  PROVE  OwnerInv'
<1>1. None \notin Handles
  BY ConstantsAssumption
<1> QED BY <1>1, ThreadOwns

\* Handles come from the program when a call begins that closes them.
LEMMA StartOwns ==
  ASSUME IInv, NEW t \in Threads, Start(t)
  PROVE  OwnerInv'
<1> USE ConstantsAssumption
<1> USE DEF Goto
<1>0. CallAt(t) /\ Fields
  BY DEF IInv, CallInv
<1>1. ASSUME NEW h \in Handles, CloseCall(t, h) \/ Call(t, h, "dupclose") PROVE OwnerInv'
  <2>1. /\ pc[t] = "idle" /\ op[t] = "none" /\ given[h] # None /\ table[h] = given[h] /\ h \in kernel
        /\ UNCHANGED <<kernel, orphans, table, fresh>>
        /\ given' = [given EXCEPT ![h] = None] /\ handle'[t] = h
        /\ \/ op'[t] = "close" /\ pc'[t] = "close"
           \/ op'[t] = "dupclose" /\ pc'[t] = "get"
    BY <1>0, <1>1 DEF CloseCall, Call, Known, CallAt, Fields, IInv, OwnerInv, HandleAt, tableVars
  <2>2. given'[h] = None /\ \A k \in Handles \ {h} : given'[k] = given[k]
    BY <1>0, <2>1 DEF Fields
  <2>3. \A k \in Handles : /\ ~Creates(t, k) /\ ~Closes(t, k) /\ ~Creates(t, k)'
                           /\ Closes(t, k)' <=> k = h
    BY <2>1 DEF Creates, Closes
  <2> QED BY <2>1, <2>2, <2>3, ThreadOwns DEF Owns
<1>2. ASSUME NEW h \in Handles, NEW o \in Ops, Call(t, h, o), o # "dupclose" PROVE OwnerInv'
  <2>1. /\ UNCHANGED <<kernel, orphans, given, table, fresh>> /\ pc[t] = "idle" /\ op[t] = "none"
        /\ pc'[t] = "get" /\ op'[t] \in {"use", "dup"}
    BY <1>0, <1>2 DEF Call, CallAt, Fields, tableVars
  <2>2. \A k \in Handles : (Creates(t, k)' <=> Creates(t, k)) /\ (Closes(t, k)' <=> Closes(t, k))
    BY <2>1 DEF Creates, Closes
  <2> QED BY <2>1, <2>2, NothingHandedOver
<1>3. ASSUME NEW e \in Entries, NEW f \in Files, NEW r \in BOOLEAN, NEW s \in BOOLEAN, OpenBegin(t, e, f, r, s)
      PROVE OwnerInv'
  <2>1. /\ UNCHANGED <<kernel, orphans, given, table, fresh>> /\ pc[t] = "idle" /\ op[t] = "none"
        /\ pc'[t] = "event" /\ op'[t] = "open"
    BY <1>0, <1>3 DEF OpenBegin, CallAt, Fields, tableVars, userVars
  <2>2. \A k \in Handles : (Creates(t, k)' <=> Creates(t, k)) /\ (Closes(t, k)' <=> Closes(t, k))
    BY <2>1 DEF Creates, Closes
  <2> QED BY <2>1, <2>2, NothingHandedOver
<1> QED BY <1>1, <1>2, <1>3 DEF Start

\* Steps of a call that create no handle, give none to the program and close none.
LEMMA QuietOwns ==
  ASSUME IInv, NEW t \in Threads,
         \/ OpenNoEvent(t) \/ Work(t) \/ NoDuplicate(t) \/ ReleaseStale(t) \/ Release(t) \/ Leave(t) \/ Wake(t)
         \/ CloseRelease(t) \/ CloseLeave(t) \/ CloseWake(t)
  PROVE  OwnerInv'
<1> USE DEF Goto
<1>0. CallAt(t) /\ Fields /\ Step(t)
  BY DEF IInv, CallInv, Step
<1>1. UNCHANGED <<kernel, orphans, given, table>>
  BY DEF OpenNoEvent, Work, NoDuplicate, ReleaseStale, Release, Leave, Wake, CloseRelease, CloseLeave, CloseWake,
         userVars, tableVars
<1>2. ASSUME NEW k \in Handles PROVE (Creates(t, k)' <=> Creates(t, k)) /\ (Closes(t, k)' <=> Closes(t, k))
  <2> USE <1>0 DEF Creates, Closes, CallAt, Fields
  <2>1. CASE OpenNoEvent(t) \/ Work(t) \/ NoDuplicate(t)
    BY ConstantsAssumption, <2>1 DEF OpenNoEvent, Work, NoDuplicate, AfterDuplicate
  <2>2. CASE ReleaseStale(t) \/ Release(t)
    BY <2>2 DEF ReleaseStale, Release, AfterDuplicate
  <2>3. CASE Leave(t) \/ Wake(t) \/ CloseRelease(t) \/ CloseLeave(t) \/ CloseWake(t)
    BY <2>3 DEF Leave, Wake, CloseRelease, CloseLeave, CloseWake
  <2> QED BY <2>1, <2>2, <2>3
<1> QED BY <1>0, <1>1, <1>2, NothingHandedOver

\* Steps of a call that create a handle, give it to the program or close one.
LEMMA MovingOwns ==
  ASSUME IInv, NEW t \in Threads,
         \/ \E h \in Handles : OpenEvent(t, h) \/ Duplicate(t, h)
         \/ OpenInsert(t) \/ OpenFail(t) \/ Get(t) \/ DupInsert(t) \/ CloseMiss(t) \/ CloseLocked(t)
  PROVE  OwnerInv'
<1> USE ConstantsAssumption
<1> USE DEF Goto
<1>0. CallAt(t) /\ Fields /\ Step(t)
  BY DEF IInv, CallInv, Step
<1>1. ASSUME NEW h \in Handles, OpenEvent(t, h) \/ Duplicate(t, h) PROVE OwnerInv'
  <2>1. /\ h \notin kernel /\ kernel' = kernel \cup {h} /\ fresh'[t] = h /\ fresh[t] = None
        /\ UNCHANGED <<orphans, given, table, handle, op>>
        /\ \/ pc[t] = "event" /\ op[t] = "open" /\ pc'[t] \in {"insert", "openfail"}
           \/ pc[t] = "work" /\ op[t] # "close" /\ pc'[t] = "dupinsert"
    BY <1>0, <1>1 DEF OpenEvent, Duplicate, CallAt, Fields, tableVars
  <2>2. \A k \in Handles : /\ ~Creates(t, k)
                           /\ Creates(t, k)' <=> k = h
                           /\ Closes(t, k)' <=> Closes(t, k)
    BY <2>1 DEF Creates, Closes
  <2>3. given[h] = None /\ ~Closes(t, h)
    BY <2>1 DEF IInv, OwnerInv, HandleAt, Owns
  <2>4. h \in kernel' /\ given'[h] = None /\ Owns(t, h)' /\ ~(Creates(t, h) /\ Closes(t, h))'
    BY <2>1, <2>2, <2>3 DEF Owns
  <2>5. \A k \in Handles \ {h} : /\ k \in kernel' <=> k \in kernel
                                 /\ given'[k] = given[k] /\ table'[k] = table[k]
    BY <2>1
  <2>6. \A k \in Handles \ {h} : (Creates(t, k)' <=> Creates(t, k)) /\ (Closes(t, k)' <=> Closes(t, k))
    BY <2>2
  <2> QED BY <1>0, <1>1, <2>1, <2>4, <2>5, <2>6, ThreadOwns
<1>2. CASE UNCHANGED <<table, kernel>> /\ OpenInsert(t) /\ pc'[t] = "openfail"
  <2>1. UNCHANGED <<kernel, orphans, given, table, fresh, op>> /\ pc[t] = "insert" /\ op[t] = "open"
    BY <1>0, <1>2 DEF OpenInsert, CallAt, Fields
  <2>2. \A k \in Handles : (Creates(t, k)' <=> Creates(t, k)) /\ (Closes(t, k)' <=> Closes(t, k))
    BY <1>2, <2>1 DEF Creates, Closes
  <2> QED BY <1>0, <1>2, <2>1, <2>2, NothingHandedOver
<1>3. CASE (OpenInsert(t) \/ DupInsert(t)) /\ pc'[t] = "stale"
  <2>1. PICK h \in Handles, f \in Files : h = fresh[t] /\ f = file[t]
    BY <1>0, <1>3 DEF OpenInsert, DupInsert, CallAt, Fields
  <2>2. /\ table'[h] = f /\ given'[h] = f
        /\ \A k \in Handles \ {h} : table'[k] = table[k] /\ given'[k] = given[k]
        /\ UNCHANGED <<kernel, orphans, handle, op>>
        /\ (pc[t] = "insert" /\ op[t] = "open") \/ (pc[t] = "dupinsert" /\ op[t] # "close")
        /\ pc'[t] = "stale" /\ fresh[t] = h /\ f # None
    BY <1>0, <1>3, <2>1 DEF OpenInsert, DupInsert, ZipHandleInsert, AfterDuplicate, CallAt, Fields
  <2>3. \A k \in Handles : /\ Creates(t, k) <=> k = h
                           /\ ~Creates(t, k)'
                           /\ Closes(t, k)' <=> Closes(t, k)
    BY <2>2 DEF Creates, Closes
  <2>4. h \in kernel /\ ~Closes(t, h)
    BY <2>3 DEF IInv, OwnerInv, HandleAt, Owns
  <2> QED BY <1>0, <2>2, <2>3, <2>4, ThreadOwns DEF Owns
<1>4. CASE OpenFail(t) \/ (DupInsert(t) /\ pc'[t] # "stale")
  <2>1. /\ kernel' = kernel \ {fresh[t]} /\ UNCHANGED <<table, given, orphans, handle, op>>
        /\ fresh'[t] = None /\ pc'[t] \in {"release", "close"}
        /\ \/ pc[t] = "openfail" /\ op[t] = "open"
           \/ pc[t] = "dupinsert" /\ op[t] # "close" /\ (op[t] = "dupclose" <=> pc'[t] = "close")
    BY <1>0, <1>4 DEF OpenFail, DupInsert, AfterDuplicate, CallAt, Fields, tableVars
  <2>2. \A k \in Handles : /\ Creates(t, k) <=> k = fresh[t]
                           /\ ~Creates(t, k)'
                           /\ Closes(t, k)' <=> Closes(t, k)
    BY <2>1 DEF Creates, Closes
  <2>3. PICK h : h = fresh[t]
    OBVIOUS
  <2>4. h \in Handles => given[h] = None /\ ~Closes(t, h)
    BY <2>2, <2>3 DEF IInv, OwnerInv, HandleAt, Owns
  <2>5. h \in Handles => Owns(t, h) /\ ~Owns(t, h)'
    BY <2>2, <2>3, <2>4 DEF Owns
  <2>6. \A k \in Handles \ {h} : Creates(t, k)' <=> Creates(t, k)
    BY <2>2, <2>3
  <2>7. /\ \A k \in Handles \ {h} : k \in kernel' <=> k \in kernel
        /\ h \notin kernel' /\ UNCHANGED <<table, given, orphans>>
    BY <2>1, <2>3
  <2> QED BY <1>0, <2>2, <2>4, <2>5, <2>6, <2>7, ThreadOwns
<1>5. CASE (Get(t) \/ CloseLocked(t) \/ CloseMiss(t)) /\ ~Closes(t, handle[t])
  <2>1. Get(t)
    BY <1>0, <1>5 DEF CloseLocked, CloseMiss, Closes, CallAt
  <2>2. /\ UNCHANGED <<table, given, kernel, orphans>> /\ pc[t] = "get" /\ op[t] \in {"use", "dup"}
        /\ pc'[t] \in {"work", "idle"} /\ op'[t] \in {op[t], "none"}
    <3>1. CASE table[handle[t]] = None
      BY <1>0, <1>5, <2>1, <3>1 DEF Get, Closes, CallAt, Fields, tableVars
    <3>2. CASE table[handle[t]] # None
      BY <1>0, <1>5, <2>1, <3>2 DEF Get, Closes, CallAt, Fields, tableVars
    <3> QED BY <3>1, <3>2
  <2>3. \A k \in Handles : (Creates(t, k)' <=> Creates(t, k)) /\ (Closes(t, k)' <=> Closes(t, k))
    BY <2>2 DEF Creates, Closes
  <2> QED BY <1>0, <2>2, <2>3, NothingHandedOver
<1>6. CASE (Get(t) \/ CloseLocked(t) \/ CloseMiss(t)) /\ Closes(t, handle[t])
  <2>0. PICK h \in Handles : h = handle[t]
    BY <1>0, <1>6 DEF Closes, CallAt, Fields
  <2>1. /\ pc[t] \in {"get", "close"} /\ Owns(t, h) /\ h \in kernel /\ given[h] = None
        /\ \A k \in Handles : Closes(t, k) <=> k = h
    BY <1>6, <2>0 DEF Get, CloseLocked, CloseMiss, Closes, Owns, IInv, OwnerInv, HandleAt
  <2>2. \A k \in Handles : ~Creates(t, k)
    BY <2>1 DEF Creates
  <2>3. CASE Get(t) /\ table[h] # None
    <3>1. /\ UNCHANGED <<table, given, kernel, orphans, handle, op>> /\ pc[t] = "get" /\ pc'[t] = "work"
          /\ op[t] # "close"
      BY <1>0, <2>0, <2>3 DEF Get, CallAt, Fields, tableVars
    <3>2. \A k \in Handles : (Creates(t, k)' <=> Creates(t, k)) /\ (Closes(t, k)' <=> Closes(t, k))
      BY <1>6, <2>0, <2>1, <2>2, <3>1 DEF Creates, Closes
    <3> QED BY <1>0, <3>1, <3>2, NothingHandedOver
  <2>4. CASE (Get(t) /\ table[h] = None) \/ CloseMiss(t) \/ (CloseLocked(t) /\ given'[h] = None)
    <3>1. /\ kernel' = kernel \ {h} /\ UNCHANGED <<given, orphans>>
          /\ \A k \in Handles \ {h} : table'[k] = table[k]
          /\ pc'[t] \in {"idle", "release", "closerelease"}
      <4>1. CASE Get(t) /\ table[h] = None
        BY <1>0, <1>6, <2>0, <4>1 DEF Get, Closes, CallAt, Fields, tableVars
      <4>2. CASE CloseMiss(t)
        BY <1>0, <2>0, <4>2 DEF CloseMiss, Fields, tableVars
      <4>3. CASE CloseLocked(t) /\ given'[h] = None
        BY <1>0, <2>0, <4>3 DEF CloseLocked, Fields, tableVars
      <4> QED BY <2>4, <4>1, <4>2, <4>3
    <3>2. \A k \in Handles : ~Creates(t, k)' /\ ~Closes(t, k)'
      BY <3>1 DEF Creates, Closes
    <3>3. ~Owns(t, h)'
      BY <3>2 DEF Owns
    <3> QED BY <1>0, <2>1, <2>2, <3>1, <3>2, <3>3, ThreadOwns
  <2>5. CASE CloseLocked(t) /\ given'[h] # None
    <3>1. /\ table[h] # None /\ given'[h] = table[h] /\ UNCHANGED <<kernel, table, orphans>>
          /\ \A k \in Handles \ {h} : given'[k] = given[k]
          /\ pc'[t] = "closerelease"
      BY <1>0, <2>0, <2>1, <2>5 DEF CloseLocked, Fields, tableVars
    <3>2. \A k \in Handles : ~Creates(t, k)' /\ ~Closes(t, k)'
      BY <3>1 DEF Creates, Closes
    <3>3. ~Owns(t, h)'
      BY <3>2 DEF Owns
    <3> QED BY <1>0, <2>1, <2>2, <3>1, <3>2, <3>3, ThreadOwns
  <2> QED BY <1>6, <2>3, <2>4, <2>5
<1>7. OpenInsert(t) => \/ UNCHANGED <<table, kernel>> /\ pc'[t] = "openfail"
                       \/ pc'[t] = "stale"
  BY <1>0 DEF OpenInsert, Fields, tableVars
<1> QED BY <1>1, <1>2, <1>3, <1>4, <1>5, <1>6, <1>7

\* Closes that bypass the calls, and close_all, which leaves its handles to the program.
LEMMA SystemOwns ==
  ASSUME IInv,
         \/ \E h \in Handles : NtClose(h) \/ CloseOrphan(h) \/ ReleaseEntry(h)
         \/ CloseAll \/ CheckAndTake \/ Return \/ ZipFileHooksPrepare
  PROVE  OwnerInv'
<1>0. Fields /\ UNCHANGED callVars /\ \A k \in Handles : HandleAt(k)
  BY DEF IInv, OwnerInv, NtClose, CloseOrphan, ReleaseEntry, CloseAll, CheckAndTake, Return, ZipFileHooksPrepare
<1>1. \A u \in Threads, k \in Handles :
        /\ Creates(u, k)' <=> Creates(u, k)
        /\ Closes(u, k)' <=> Closes(u, k)
        /\ Owns(u, k)' <=> Owns(u, k)
  BY <1>0 DEF Creates, Closes, Owns, callVars
<1>2. CASE UNCHANGED <<kernel, given, orphans, table>>
  <2>1. ASSUME NEW k \in Handles PROVE HandleAt(k)'
    BY <1>0, <1>1, <1>2, ElsewhereKept
  <2> QED BY <2>1 DEF OwnerInv
<1>3. ASSUME NEW h \in Handles, NtClose(h) \/ CloseOrphan(h) PROVE OwnerInv'
  <2>1. /\ kernel' = kernel \ {h} /\ h \notin orphans' /\ given'[h] = None /\ UNCHANGED table
        /\ given[h] # None \/ h \in orphans
        /\ \A k \in Handles \ {h} : given'[k] = given[k] /\ (k \in orphans' <=> k \in orphans)
    BY <1>0, <1>3 DEF NtClose, CloseOrphan, Known, HandleAt, Fields, tableVars
  <2>2. ASSUME NEW k \in Handles \ {h} PROVE HandleAt(k)'
    BY <1>0, <1>1, <2>1, ElsewhereKept
  <2>3. HandleAt(h)'
    <3>1. \A u \in Threads : ~Owns(u, h)
      BY <1>0, <2>1 DEF HandleAt
    <3> QED BY <1>1, <2>1, <3>1 DEF HandleAt
  <2> QED BY <2>2, <2>3 DEF OwnerInv
<1>4. CASE CheckAndTake
  <2>1. CASE active # 0
    <3>1. UNCHANGED <<kernel, given, orphans, table>>
      BY <1>4, <2>1 DEF CheckAndTake, Check, tableVars
    <3> QED BY <1>2, <3>1
  <2>2. CASE active = 0
    <3>1. /\ UNCHANGED kernel /\ given' = [h \in Handles |-> None]
          /\ orphans' = orphans \cup {h \in Handles : given[h] # None}
      BY <1>4, <2>2 DEF CheckAndTake, Check, TakeTable
    <3>2. ASSUME NEW k \in Handles PROVE HandleAt(k)'
      BY <1>0, <1>1, <3>1 DEF HandleAt
    <3> QED BY <3>2 DEF OwnerInv
  <2> QED BY <2>1, <2>2
<1>5. CASE (\E h \in Handles : ReleaseEntry(h)) \/ CloseAll \/ Return \/ ZipFileHooksPrepare
  BY <1>2, <1>5 DEF ReleaseEntry, CloseAll, Return, ZipFileHooksPrepare, userVars, tableVars
<1> QED BY <1>3, <1>4, <1>5

----------------------------------------------------------------------------
(* The results.                                                             *)

\* No file is open and no call runs at the start.
LEMMA InitIInv == Init => IInv
<1> SUFFICES ASSUME Init PROVE IInv
  OBVIOUS
<1> USE ConstantsAssumption DEF Init
<1>1. Fields
  <2>1. /\ table \in [Handles -> Files \cup {None}] /\ remaining \in [Handles -> Files \cup {None}]
        /\ given \in [Handles -> Files \cup {None}]
    OBVIOUS
  <2>2. /\ refs \in [Files -> Int] /\ identity \in [Files -> Entries \cup {None}]
        /\ reads \in [Files -> BOOLEAN] /\ shares \in [Files -> BOOLEAN] /\ event \in [Files -> BOOLEAN]
    OBVIOUS
  <2>3. /\ pc \in [Threads -> PC] /\ op \in [Threads -> Ops]
        /\ handle \in [Threads -> Handles \cup {None}] /\ fresh \in [Threads -> Handles \cup {None}]
        /\ file \in [Threads -> Files \cup {None}] /\ other \in [Threads -> Files \cup {None}]
    BY DEF PC, Ops
  <2>4. handleCount \in Int /\ active \in Int /\ phase \in Phase
    BY DEF Phase
  <2>5. kernel \in SUBSET Handles /\ orphans \in SUBSET Handles
    OBVIOUS
  <2>6. accepting \in BOOLEAN /\ asleep \in BOOLEAN
    OBVIOUS
  <2> HIDE DEF Init
  <2> QED BY <2>1, <2>2, <2>3, <2>4, <2>5, <2>6 DEF Fields
<1>2. CallInv /\ PhaseInv /\ NoLostWakeup
  BY DEF CallInv, CallAt, PhaseInv, NoLostWakeup
<1>3. OwnerInv
  BY DEF OwnerInv, HandleAt, Owns, Creates, Closes
<1>4. ReferencesAreExact
  <2>1. ASSUME NEW f \in Files
        PROVE  Holding(table, f) = {} /\ Holding(file, f) = {} /\ Holding(other, f) = {} /\ Holding(remaining, f) = {}
    BY DEF Holding
  <2> QED BY <2>1, FS_EmptySet DEF ReferencesAreExact
<1>5. CountersAreExact
  <2>1. {h \in Handles : table[h] # None} = {} /\ Calling = {} /\ Closing = {}
    BY DEF Calling, Closing
  <2> QED BY <2>1, FS_EmptySet DEF CountersAreExact
<1> QED BY <1>1, <1>2, <1>3, <1>4, <1>5 DEF IInv, CountsAreExact

\* Steps that leave everything alone.
LEMMA StutterIInv == IInv /\ UNCHANGED vars => IInv'
<1> SUFFICES ASSUME IInv, UNCHANGED vars PROVE IInv'
  OBVIOUS
<1> USE DEF vars, tableVars, fileVars, downVars, callVars, userVars, IInv
<1>1. Fields' /\ PhaseInv' /\ NoLostWakeup'
  BY DEF Fields, PhaseInv, NoLostWakeup
<1>2. CallInv'
  BY DEF CallInv, CallAt
<1>3. OwnerInv'
  BY DEF OwnerInv, HandleAt, Owns, Creates, Closes
<1>4. CountsAreExact'
  BY DEF CountsAreExact, ReferencesAreExact, CountersAreExact, Holding, Calling, Closing
<1> QED BY <1>1, <1>2, <1>3, <1>4

\* Every step keeps the invariant.
LEMMA NextIInv == IInv /\ [Next]_vars => IInv'
<1>1. ASSUME IInv, Next PROVE IInv'
  <2>1. Fields' /\ PhaseInv' /\ NoLostWakeup' /\ CountsAreExact'
    BY <1>1, FieldsStep, PhaseStep, WakeupStep, ReferencesStep, CountersStep DEF CountsAreExact
  <2>2. ASSUME NEW t \in Threads, Start(t) \/ Step(t) PROVE CallInv' /\ OwnerInv'
    <3>1. CallInv'
      BY <1>1, <2>2, CallStep
    <3>2. OwnerInv'
      BY <1>1, <2>2, StartOwns, QuietOwns, MovingOwns DEF Step
    <3> QED BY <3>1, <3>2
  <2>3. CASE \/ \E h \in Handles : NtClose(h) \/ CloseOrphan(h) \/ ReleaseEntry(h)
             \/ CloseAll \/ CheckAndTake \/ Return \/ ZipFileHooksPrepare
    <3>1. UNCHANGED callVars
      BY <2>3 DEF NtClose, CloseOrphan, ReleaseEntry, CloseAll, CheckAndTake, Return, ZipFileHooksPrepare
    <3>2. CallInv'
      BY <1>1, <3>1 DEF IInv, CallInv, CallAt, callVars
    <3>3. OwnerInv'
      BY <1>1, <2>3, SystemOwns
    <3> QED BY <2>1, <3>2, <3>3 DEF IInv
  <2> QED BY <1>1, <2>1, <2>2, <2>3 DEF Next, CloseAllStep, IInv
<1> QED BY <1>1, StutterIInv

\* The invariant of table, references, calls and handle values holds in every reachable state.
THEOREM IInvAlways == Spec => []IInv
<1>1. Init => IInv
  BY InitIInv
<1>2. IInv /\ [Next]_vars => IInv'
  BY NextIInv
<1> QED BY <1>1, <1>2, PTL DEF Spec

\* The references that decide when a file is freed, handle_count and active_operations are
\* exact in every interleaving of calls, closes and close_all (zip_hooks.c:115-160).
THEOREM CountsAreAlwaysExact == Spec => []CountsAreExact
<1>1. IInv => CountsAreExact
  BY DEF IInv
<1> QED BY <1>1, IInvAlways, PTL

\* A handle leads to the file it was opened or duplicated for, whatever values the system
\* reuses (zip_hooks.c:139).
THEOREM HandlesAlwaysNameTheirFile == Spec => []HandleNamesItsFile
<1>1. IInv => HandleNamesItsFile
  BY DEF IInv, OwnerInv, HandleAt, HandleNamesItsFile
<1> QED BY <1>1, IInvAlways, PTL

\* When close_all has returned, nobody is in a call and no thread holds a file.
LEMMA NothingIsHeld ==
  ASSUME IInv, phase = "down", NEW f \in Files
  PROVE  identity[f] = None
<1>1. active = 0 /\ \A h \in Handles : table[h] = None /\ remaining[h] = None
  BY DEF IInv, PhaseInv
<1>2. ASSUME NEW t \in Threads PROVE file[t] = None /\ other[t] = None
  <2>1. ~IsCalling(pc[t], file[t]) /\ ~IsClosing(pc[t]) /\ CallAt(t) /\ pc[t] \in PC
    BY <1>1, NobodyInside DEF IInv, CallInv, Fields
  <2> QED BY <2>1 DEF IsCalling, IsClosing, CallAt, PC
<1>3. Holding(table, f) = {} /\ Holding(file, f) = {} /\ Holding(other, f) = {} /\ Holding(remaining, f) = {}
  BY <1>1, <1>2, ConstantsAssumption DEF Holding, IInv, Fields
<1>4. refs[f] = 0
  <2>1. /\ Cardinality(Holding(table, f)) = 0 /\ Cardinality(Holding(file, f)) = 0
        /\ Cardinality(Holding(other, f)) = 0 /\ Cardinality(Holding(remaining, f)) = 0
    BY <1>3, FS_EmptySet
  <2> QED BY <2>1 DEF IInv, CountsAreExact, ReferencesAreExact
<1> QED BY <1>4 DEF IInv, CountsAreExact, ReferencesAreExact

\* close_all is never left asleep, and when it returns every file is freed, no call is in the
\* hooks and every kernel handle still has somebody who closes it (zip_hooks.c:734).
THEOREM ShutdownIsAlwaysClean == Spec => []ShutdownIsClean
<1>1. IInv => ShutdownIsClean
  <2> SUFFICES ASSUME IInv PROVE NothingIsLeftBehind
    BY DEF ShutdownIsClean, IInv
  <2>1. phase = "down" => active = 0 /\ (\A f \in Files : identity[f] = None) /\ \A h \in Handles : table[h] = None
    BY NothingIsHeld DEF IInv, PhaseInv
  <2>2. ASSUME NEW h \in kernel
        PROVE  \/ given[h] # None \/ h \in orphans
               \/ \E t \in Threads : fresh[t] = h \/ (handle[t] = h /\ pc[t] # "wake")
    <3>1. HandleAt(h)
      BY DEF IInv, OwnerInv, Fields
    <3>2. ASSUME NEW t \in Threads, Owns(t, h) PROVE fresh[t] = h \/ (handle[t] = h /\ pc[t] # "wake")
      BY <3>2 DEF Owns, Creates, Closes
    <3> QED BY <3>1, <3>2 DEF HandleAt
  <2> QED BY <2>1, <2>2 DEF NothingIsLeftBehind
<1> QED BY <1>1, IInvAlways, PTL

----------------------------------------------------------------------------
(* A stream over an entry.                                                  *)

\* Units the inflater has taken, and those of the first k that are bytes or pass for nothing.
Taken == loaded - avail
BytesIn(k) == {i \in 1..k : Units[i] = "byte"}
Plain(k) == \A i \in 1..k : Units[i] \in {"byte", "skip"}

LEMMA EntryIs ==
  ASSUME NEW e \in StreamEntries
  PROVE  /\ e.deflated \in BOOLEAN /\ e.size \in Nat /\ e.crc \in BOOLEAN
         /\ e.units \in Seq({"byte", "skip", "end", "bad"}) /\ Len(e.units) \in Nat
         /\ e # NoEntry
BY EntriesAssumption

LEMMA BytesAreCounted ==
  ASSUME NEW k \in Nat
  PROVE  IsFiniteSet(BytesIn(k)) /\ Cardinality(BytesIn(k)) \in Nat
<1>1. IsFiniteSet(1..k) /\ BytesIn(k) \in SUBSET (1..k)
  BY FS_Interval DEF BytesIn
<1> QED BY <1>1, FS_Subset, FS_CardinalityType

\* Of the units a call takes, the bytes come on top of those taken before.
LEMMA BytesAhead ==
  ASSUME entry \in StreamEntries, loaded \in 0..Len(Units), avail \in 0..loaded, NEW m \in 0..avail
  PROVE  /\ Cardinality(BytesIn(Taken + m)) = Cardinality(BytesIn(Taken)) + BytesOf(Ahead(m))
         /\ BytesOf(Ahead(m)) \in Nat
         /\ Len(Ahead(m)) = m
         /\ \A i \in 1..m : Ahead(m)[i] = Units[Taken + i]
<1>1. PICK t \in Nat : t = Taken /\ t + m <= Len(Units)
  BY EntryIs DEF Taken, Units
<1>2. Units \in Seq({"byte", "skip", "end", "bad"}) /\ Len(Units) \in Nat
  BY EntryIs DEF Units
<1>3. m \in Nat
  OBVIOUS
<1>4. PICK s : s = Ahead(m)
  OBVIOUS
<1>5. s = SubSeq(Units, t + 1, t + m)
  BY <1>1, <1>4 DEF Ahead, Taken
<1>6. s \in Seq({"byte", "skip", "end", "bad"}) /\ Len(s) = m /\ \A i \in 1..m : s[i] = Units[t + i]
  <2>1. \A i \in (t + 1)..(t + m) : Units[i] \in {"byte", "skip", "end", "bad"}
    BY <1>1, <1>2, <1>3
  <2>2. /\ s \in Seq({"byte", "skip", "end", "bad"})
        /\ Len(s) = IF t + 1 <= t + m THEN t + m - (t + 1) + 1 ELSE 0
        /\ \A i \in 1..(t + m - (t + 1) + 1) : s[i] = Units[t + 1 + i - 1]
    BY <1>1, <1>3, <1>5, <2>1, SubSeqProperties
  <2> QED BY <1>1, <1>3, <2>2
<1>7. PICK A : A = {i \in DOMAIN s : s[i] = "byte"}
  OBVIOUS
<1>8. PICK B : B = {i \in (t + 1)..(t + m) : Units[i] = "byte"}
  OBVIOUS
<1>9. A = {i \in 1..m : Units[t + i] = "byte"}
  BY <1>6, <1>7
<1>10. IsFiniteSet(A) /\ Cardinality(A) \in Nat
  <2>1. IsFiniteSet(1..m) /\ A \in SUBSET (1..m)
    BY <1>3, <1>9, FS_Interval
  <2> QED BY <2>1, FS_Subset, FS_CardinalityType
<1>11. ExistsBijection(A, B)
  <2>1. PICK g : g = [i \in A |-> t + i]
    OBVIOUS
  <2>2. g \in [A -> B]
    BY <1>1, <1>3, <1>8, <1>9, <2>1
  <2>3. \A i, j \in A : g[i] = g[j] => i = j
    BY <1>1, <1>3, <1>9, <2>1
  <2>4. \A j \in B : \E i \in A : g[i] = j
    <3>1. ASSUME NEW j \in B PROVE j - t \in A /\ t + (j - t) = j
      BY <1>1, <1>3, <1>8, <1>9
    <3> QED BY <2>1, <3>1
  <2> QED BY <2>2, <2>3, <2>4 DEF ExistsBijection, Bijection, Injection, Surjection, IsInjective
<1>12. IsFiniteSet(B) /\ Cardinality(B) = Cardinality(A)
  BY <1>10, <1>11, FS_Bijection
<1>13. IsFiniteSet(BytesIn(t)) /\ Cardinality(BytesIn(t)) \in Nat
  BY <1>1, BytesAreCounted
<1>14. BytesIn(t + m) = BytesIn(t) \cup B /\ BytesIn(t) \cap B = {}
  BY <1>1, <1>3, <1>8 DEF BytesIn
<1>15. Cardinality(BytesIn(t + m)) = Cardinality(BytesIn(t)) + Cardinality(B)
  <2>1. Cardinality(BytesIn(t) \cap B) = 0
    BY <1>14, FS_EmptySet
  <2>2. Cardinality(BytesIn(t) \cup B) = Cardinality(BytesIn(t)) + Cardinality(B) - Cardinality(BytesIn(t) \cap B)
    BY <1>12, <1>13, FS_Union
  <2>3. PICK p \in Nat, q \in Nat : p = Cardinality(BytesIn(t)) /\ q = Cardinality(B)
    BY <1>10, <1>12, <1>13
  <2>4. Cardinality(BytesIn(t) \cup B) = p + q
    BY <2>1, <2>2, <2>3
  <2> QED BY <1>14, <2>3, <2>4
<1> QED BY <1>1, <1>4, <1>6, <1>7, <1>10, <1>12, <1>15 DEF BytesOf

----------------------------------------------------------------------------
(* What the inflater's findings say of the entry.                           *)

LEMMA NoEnd ==
  ASSUME entry \in StreamEntries, Deflated, Plain(Len(Units))
  PROVE  ~Sound(entry)
<1> SUFFICES ASSUME NEW n \in DOMAIN Units, Units[n] = "end" PROVE FALSE
  BY EntryIs DEF Sound, Deflated, Units
<1>1. n \in 1..Len(Units)
  BY EntryIs DEF Units
<1> QED BY <1>1 DEF Plain

LEMMA Damaged ==
  ASSUME entry \in StreamEntries, Deflated, NEW t \in 1..Len(Units), Plain(t - 1), Units[t] = "bad"
  PROVE  ~Sound(entry)
<1> SUFFICES ASSUME NEW n \in DOMAIN Units, Units[n] = "end", Plain(n - 1) PROVE FALSE
  BY EntryIs DEF Sound, Deflated, Plain, Units
<1>1. n \in 1..Len(Units) /\ Len(Units) \in Nat
  BY EntryIs DEF Units
<1>2. n < t \/ n = t \/ n > t
  BY <1>1
<1>3. n < t => n \in 1..(t - 1)
  BY <1>1
<1>4. n > t => t \in 1..(n - 1)
  BY <1>1
<1> QED BY <1>2, <1>3, <1>4 DEF Plain

LEMMA TooLong ==
  ASSUME entry \in StreamEntries, Deflated, NEW t \in 0..Len(Units), Plain(t - 1),
         Cardinality(BytesIn(t)) > entry.size
  PROVE  ~Sound(entry)
<1> SUFFICES ASSUME NEW n \in DOMAIN Units, Units[n] = "end", Plain(n - 1),
                    Cardinality(BytesIn(n - 1)) = entry.size
             PROVE FALSE
  BY EntryIs DEF Sound, Deflated, Plain, Units, BytesIn
<1>1. n \in 1..Len(Units) /\ Len(Units) \in Nat /\ entry.size \in Nat
  BY EntryIs DEF Units
<1>2. t <= n
  <2>1. n < t => n \in 1..(t - 1)
    BY <1>1
  <2> QED BY <1>1, <2>1 DEF Plain
<1>3. BytesIn(t) \in SUBSET BytesIn(n - 1)
  <2>1. ASSUME NEW i \in BytesIn(t) PROVE i \in BytesIn(n - 1)
    <3>1. i \in 1..t /\ Units[i] = "byte" /\ i # n
      BY <2>1 DEF BytesIn
    <3>2. i \in 1..(n - 1)
      BY <1>1, <1>2, <3>1
    <3> QED BY <3>1, <3>2 DEF BytesIn
  <2> QED BY <2>1
<1>4. IsFiniteSet(BytesIn(n - 1)) /\ Cardinality(BytesIn(n - 1)) \in Nat /\ Cardinality(BytesIn(t)) \in Nat
  BY <1>1, BytesAreCounted
<1>5. Cardinality(BytesIn(t)) <= Cardinality(BytesIn(n - 1))
  BY <1>3, <1>4, FS_Subset
<1> QED BY <1>1, <1>4, <1>5

LEMMA AtTheEnd ==
  ASSUME entry \in StreamEntries, Deflated, NEW t \in 1..Len(Units), Plain(t - 1), Units[t] = "end"
  PROVE  Sound(entry) <=> entry.crc /\ Cardinality(BytesIn(t)) = entry.size
<1>1. t \in DOMAIN Units /\ Len(Units) \in Nat
  BY EntryIs DEF Units
<1>2. BytesIn(t) = BytesIn(t - 1)
  <2>1. ASSUME NEW i PROVE i \in BytesIn(t) <=> i \in BytesIn(t - 1)
    <3>1. i \in 1..t <=> i \in 1..(t - 1) \/ i = t
      BY <1>1
    <3> QED BY <3>1 DEF BytesIn
  <2> QED BY <2>1
<1>3. ASSUME NEW n \in DOMAIN Units, Units[n] = "end", Plain(n - 1) PROVE n = t
  <2>1. n \in 1..Len(Units)
    BY EntryIs DEF Units
  <2>2. n < t => n \in 1..(t - 1)
    BY <1>1, <2>1
  <2>3. t < n => t \in 1..(n - 1)
    BY <1>1, <2>1
  <2> QED BY <1>1, <1>3, <2>1, <2>2, <2>3 DEF Plain
<1>4. Sound(entry) <=> /\ entry.crc
                       /\ \E n \in DOMAIN Units : /\ Units[n] = "end" /\ Plain(n - 1)
                                                  /\ Cardinality(BytesIn(n - 1)) = entry.size
  BY EntryIs DEF Sound, Deflated, Plain, Units, BytesIn
<1> QED BY <1>1, <1>2, <1>3, <1>4

----------------------------------------------------------------------------
(* The inductive invariant.                                                 *)

Errors == {"none", "fault", "data", "crc"}

StreamTypes ==
  /\ entry \in StreamEntries /\ position \in 0..entry.size
  /\ loaded \in 0..Len(Units) /\ avail \in 0..loaded /\ pending \in Nat
  /\ request \in Nat \cup {-1} /\ delivered \in Nat
FlagTypes ==
  /\ finished \in BOOLEAN /\ ended \in BOOLEAN /\ faulted \in BOOLEAN
  /\ error \in Errors /\ answer \in Errors \cup {"ok", "reading"}

\* A read under way has not failed and stays within the declared size; one that failed is
\* what its caller and every later one are told.
ReadInv ==
  /\ Reading => /\ error = "none" /\ answer = "reading"
                /\ delivered <= request /\ position + (request - delivered) <= entry.size
  /\ ~Reading /\ error # "none" => answer = error

\* As long as nothing failed: the units taken are bytes and nothing, up to an end marker,
\* and their bytes are delivered or decoded ahead.
InflaterInv ==
  Deflated /\ error = "none" =>
    /\ Plain(Taken - 1)
    /\ IF finished THEN Taken >= 1 /\ Units[Taken] = "end" ELSE Plain(Taken)
    /\ Cardinality(BytesIn(Taken)) = position + pending
    /\ ended => Sound(entry)

\* A stored entry has the data it declares.
StoredInv == entry.deflated \/ Len(Units) = entry.size

OpenInv == StreamTypes /\ FlagTypes /\ StoredInv /\ ReadInv /\ InflaterInv /\ VerdictsAreRight

\* A stream that is closed knows nothing.
ClosedInv ==
  /\ entry = NoEntry /\ position = 0 /\ loaded = 0 /\ avail = 0 /\ pending = 0 /\ finished = FALSE
  /\ ended = FALSE /\ error = "none" /\ delivered = 0 /\ answer = "none" /\ faulted = FALSE
  /\ request = -1

StreamInv ==
  /\ owned \in BOOLEAN
  /\ StreamsKeepTheirPackage
  /\ IF entry = NoEntry THEN ClosedInv ELSE OpenInv

\* Reads are of an open stream, and leave the package alone.
LEMMA ReadStays ==
  ASSUME StreamInv, entry # NoEntry, UNCHANGED <<packageVars, entry>>, OpenInv'
  PROVE  StreamInv'
BY DEF StreamInv, StreamsKeepTheirPackage, packageVars

LEMMA ReadingIsOpen ==
  ASSUME StreamInv, Reading
  PROVE  entry # NoEntry /\ OpenInv /\ error = "none" /\ answer = "reading"
BY DEF StreamInv, ClosedInv, Reading, OpenInv, ReadInv

\* What an entry is does not change under the stream.
LEMMA EntryKept ==
  ASSUME UNCHANGED entry
  PROVE  Units' = Units /\ (Deflated' <=> Deflated) /\ (Sound(entry)' <=> Sound(entry))
BY DEF Units, Deflated, Sound

\* A read that fails for a reason.
LEMMA FailedHolds ==
  ASSUME OpenInv, UNCHANGED entry, StreamTypes',
         finished' \in BOOLEAN, ended' \in BOOLEAN, faulted' \in BOOLEAN,
         NEW e \in {"fault", "data", "crc"}, error' = e, answer' = e, request' = -1,
         ~Sound(entry) \/ faulted'
  PROVE  OpenInv'
<1>1. FlagTypes'
  BY DEF FlagTypes, Errors
<1>2. ReadInv'
  BY DEF ReadInv, Reading
<1>3. InflaterInv'
  BY DEF InflaterInv
<1>4. VerdictsAreRight'
  BY EntryKept DEF VerdictsAreRight
<1> QED BY <1>1, <1>2, <1>3, <1>4 DEF OpenInv, StoredInv, Units

LEMMA UnitIs ==
  ASSUME entry \in StreamEntries, NEW t \in 0..Len(Units)
  PROVE  Len(Units) \in Nat /\ (t >= 1 => t \in 1..Len(Units))
<1>1. PICK k \in Nat : k = Len(Units)
  BY EntryIs DEF Units
<1> QED BY <1>1

LEMMA MoreThan ==
  ASSUME NEW z \in Nat, NEW k \in Nat, NEW p \in Nat, k > 0
  PROVE  z + k + p > z
OBVIOUS

\* What the stream makes of n more bytes and the inflater's status.
LEMMA AfterInflateHolds ==
  ASSUME OpenInv, Inflating, UNCHANGED <<entry, faulted>>,
         NEW n \in 0..Room, NEW status \in {"ok", "end", "bad"}, NEW progress \in BOOLEAN,
         AfterInflate(n, status, progress),
         loaded' \in 0..Len(Units), avail' \in 0..loaded', pending' \in Nat, finished' \in BOOLEAN,
         NEW t \in 0..Len(Units), t = loaded' - avail', Plain(t - 1),
         Cardinality(BytesIn(t)) = position + n + pending',
         finished' => t >= 1 /\ Units[t] = "end",
         status = "ok" => finished' \/ Plain(t),
         status = "end" => finished' /\ pending' = 0,
         status = "bad" => t >= 1 /\ Units[t] = "bad",
         n = 0 /\ ~progress => Plain(Len(Units))
  PROVE  OpenInv'
<1>1. /\ Reading /\ Deflated /\ ~ended /\ StreamTypes /\ FlagTypes
      /\ error = "none" /\ answer = "reading"
  BY DEF OpenInv, Inflating, ReadInv
<1>2. /\ entry \in StreamEntries /\ position \in Nat /\ position <= entry.size /\ entry.size \in Nat
      /\ request \in Nat /\ delivered \in Nat /\ n \in Nat
      /\ delivered <= request /\ position + (request - delivered) <= entry.size
  <2>1. entry \in StreamEntries /\ entry.size \in Nat /\ position \in 0..entry.size
        /\ request \in Nat \cup {-1} /\ delivered \in Nat
    BY <1>1, EntryIs DEF StreamTypes
  <2>2. request \in Nat /\ delivered <= request /\ position + (request - delivered) <= entry.size
    BY <1>1, <2>1 DEF OpenInv, ReadInv, Reading
  <2>3. n \in Nat
    BY <2>1, <2>2 DEF Room
  <2> QED BY <2>1, <2>2, <2>3
<1>3. Len(Units) \in Nat /\ (t >= 1 => t \in 1..Len(Units))
  BY <1>2, UnitIs
<1>4. CASE AtEnd /\ n > 0
  <2>1. position' = position /\ delivered' = delivered /\ ended' = FALSE
        /\ error' = "data" /\ answer' = "data" /\ request' = -1
    BY <1>4 DEF AfterInflate, EndRead
  <2>2. Cardinality(BytesIn(t)) > entry.size
    <3>1. PICK p \in Nat : p = pending'
      OBVIOUS
    <3>2. PICK z \in Nat, k \in Nat : z = entry.size /\ k = n /\ k > 0
      BY <1>2, <1>4
    <3>3. Cardinality(BytesIn(t)) = z + k + p
      BY <1>4, <3>1, <3>2 DEF AtEnd
    <3>4. z + k + p > z
      BY <3>1, <3>2, MoreThan
    <3> QED BY <3>2, <3>3, <3>4
  <2>3. ~Sound(entry)
    BY <1>1, <1>2, <2>2, TooLong
  <2>4. StreamTypes'
    BY <1>1, <1>2, <2>1, EntryKept DEF StreamTypes
  <2> QED BY <1>1, <2>1, <2>3, <2>4, FailedHolds DEF FlagTypes
<1>5. CASE ~(AtEnd /\ n > 0)
  <2>1. position' = position + n /\ delivered' = delivered + n /\ ended' = (status = "end")
    BY <1>5 DEF AfterInflate
  <2>2. n <= request - delivered
    <3>1. CASE AtEnd
      BY <1>2, <1>5, <3>1
    <3>2. CASE ~AtEnd
      BY <1>2, <3>2 DEF Room
    <3> QED BY <3>1, <3>2
  <2>3. /\ position' \in 0..entry.size /\ delivered' \in Nat /\ delivered' <= request
        /\ position' + (request - delivered') <= entry.size
    <3>1. PICK z \in Nat, p \in Nat, d \in Nat, r \in Nat, k \in Nat :
            /\ z = entry.size /\ p = position /\ d = delivered /\ r = request /\ k = n
            /\ d <= r /\ p + (r - d) <= z /\ k <= r - d
      BY <1>2, <2>2
    <3>2. p + k \in 0..z /\ d + k \in Nat /\ d + k <= r /\ (p + k) + (r - (d + k)) <= z
      BY <3>1
    <3> QED BY <2>1, <3>1, <3>2
  <2>4. ASSUME request' \in Nat \cup {-1} PROVE StreamTypes'
    BY <1>2, <2>3, <2>4, EntryKept DEF StreamTypes
  <2>5. ended' \in BOOLEAN /\ faulted' \in BOOLEAN
    BY <1>1, <2>1 DEF FlagTypes
  <2>6. ASSUME NEW e \in {"data", "crc"}, EndRead(e), ~Sound(entry) PROVE OpenInv'
    <3>1. error' = e /\ answer' = e /\ request' = -1
      BY <2>6 DEF EndRead
    <3>2. StreamTypes'
      BY <2>4, <3>1
    <3> QED BY <2>5, <2>6, <3>1, <3>2, FailedHolds
  <2>7. ASSUME UNCHANGED <<error, request, answer>>, status # "bad", status = "end" => Sound(entry)
        PROVE  OpenInv'
    <3>1. StreamTypes'
      BY <1>2, <2>4, <2>7
    <3>2. FlagTypes'
      BY <1>1, <2>5, <2>7 DEF FlagTypes
    <3>3. ReadInv'
      <4>1. error' = "none" /\ answer' = "reading" /\ entry'.size = entry.size
        BY <1>1, <2>7
      <4> QED BY <2>3, <2>7, <4>1 DEF ReadInv, Reading
    <3>4. InflaterInv'
      <4>1. Taken' = t /\ Units' = Units
        BY EntryKept DEF Taken
      <4>2. Plain(Taken - 1)'
        BY <4>1 DEF Plain
      <4>3. IF finished' THEN Taken' >= 1 /\ Units'[Taken'] = "end" ELSE Plain(Taken)'
        BY <2>7, <4>1 DEF Plain
      <4>4. Cardinality(BytesIn(Taken))' = position' + pending'
        BY <2>1, <4>1 DEF BytesIn
      <4>5. ended' => Sound(entry)'
        BY <2>1, <2>7, EntryKept
      <4> QED BY <4>2, <4>3, <4>4, <4>5 DEF InflaterInv
    <3>5. VerdictsAreRight'
      BY <1>1, <2>7 DEF VerdictsAreRight
    <3> QED BY <3>1, <3>2, <3>3, <3>4, <3>5 DEF OpenInv, StoredInv, Units
  <2>8. CASE status = "end"
    <3>1. Sound(entry) <=> entry.crc /\ position' = entry.size
      <4>1. t \in 1..Len(Units) /\ Units[t] = "end" /\ Cardinality(BytesIn(t)) = position'
        <5>1. t \in 1..Len(Units) /\ Units[t] = "end" /\ pending' = 0
          BY <1>3, <2>8
        <5>2. Cardinality(BytesIn(t)) = position + n + 0
          BY <5>1
        <5>3. position + n + 0 = position'
          BY <1>2, <2>1
        <5> QED BY <5>1, <5>2, <5>3
      <4> QED BY <1>1, <1>2, <4>1, AtTheEnd
    <3>2. \/ position' # entry.size /\ EndRead("data")
          \/ position' = entry.size /\ ~entry.crc /\ EndRead("crc")
          \/ position' = entry.size /\ entry.crc /\ UNCHANGED <<error, request, answer>>
      BY <1>5, <2>8 DEF AfterInflate
    <3> QED BY <2>6, <2>7, <2>8, <3>1, <3>2
  <2>9. CASE status # "end" /\ (status = "bad" \/ (n = 0 /\ ~progress))
    <3>1. EndRead("data")
      BY <1>5, <2>9 DEF AfterInflate
    <3>2. ~Sound(entry)
      BY <1>1, <1>2, <1>3, <2>9, Damaged, NoEnd
    <3> QED BY <2>6, <3>1, <3>2
  <2>10. CASE status = "ok" /\ ~(n = 0 /\ ~progress)
    <3>1. UNCHANGED <<error, request, answer>>
      BY <1>5, <2>10 DEF AfterInflate
    <3> QED BY <2>7, <2>10, <3>1
  <2> QED BY <2>8, <2>9, <2>10
<1> QED BY <1>4, <1>5

LEMMA LeastIs ==
  ASSUME NEW a \in Nat, NEW b \in Nat
  PROVE  /\ Least(a, b) \in Nat /\ Least(a, b) \in 0..b /\ Least(a, b) <= a /\ Least(a, b) <= b
         /\ a >= 1 /\ b >= 1 => Least(a, b) >= 1
         /\ a - Least(a, b) \in Nat /\ b - Least(a, b) \in Nat
BY DEF Least

\* What an inflating stream is at.
LEMMA InflatingIs ==
  ASSUME OpenInv, Inflating
  PROVE  /\ entry \in StreamEntries /\ Deflated /\ error = "none"
         /\ loaded \in 0..Len(Units) /\ avail \in 0..loaded /\ Len(Units) \in Nat
         /\ Taken \in 0..Len(Units) /\ loaded \in Nat /\ avail \in Nat
         /\ Room \in Nat /\ Room >= 1
         /\ position \in Nat /\ pending \in Nat
<1>1. /\ entry \in StreamEntries /\ Len(Units) \in Nat /\ entry.size \in Nat
      /\ loaded \in 0..Len(Units) /\ avail \in 0..loaded /\ pending \in Nat
      /\ position \in 0..entry.size /\ request \in Nat \cup {-1} /\ delivered \in Nat
  BY EntryIs DEF OpenInv, StreamTypes, Units
<1>2. Deflated /\ error = "none"
  BY DEF OpenInv, Inflating, ReadInv
<1>3. delivered <= request /\ request \in Nat
  BY <1>1 DEF OpenInv, Inflating, Reading, ReadInv
<1>4. delivered < request \/ AtEnd
  BY DEF Inflating
<1>5. Room \in Nat /\ Room >= 1
  BY <1>1, <1>3, <1>4 DEF Room
<1>6. loaded \in Nat /\ avail \in Nat /\ Taken \in 0..Len(Units) /\ position \in Nat
  <2>1. PICK k \in Nat : k = Len(Units)
    BY <1>1
  <2>2. loaded \in 0..k /\ avail \in 0..loaded
    BY <1>1, <2>1
  <2>3. loaded \in Nat /\ avail \in Nat /\ loaded - avail \in 0..k
    BY <2>2
  <2> QED BY <1>1, <2>1, <2>3 DEF Taken
<1> QED BY <1>1, <1>2, <1>5, <1>6

LEMMA InflatePendingHolds ==
  ASSUME OpenInv, InflatePending
  PROVE  OpenInv'
<1>1. /\ Inflating /\ pending > 0 /\ UNCHANGED <<entry, loaded, avail, finished, faulted>>
  BY DEF InflatePending
<1>2. /\ entry \in StreamEntries /\ Deflated /\ error = "none"
      /\ loaded \in 0..Len(Units) /\ avail \in 0..loaded /\ Taken \in 0..Len(Units)
      /\ Room \in Nat /\ Room >= 1 /\ position \in Nat /\ pending \in Nat
  BY <1>1, InflatingIs
<1>3. PICK n \in 0..Room : n = Least(pending, Room) /\ n >= 1 /\ pending - n \in Nat
  <2>1. PICK r \in Nat, p \in Nat : r = Room /\ p = pending /\ r >= 1 /\ p >= 1
    BY <1>1, <1>2
  <2>2. Least(p, r) \in 0..r /\ Least(p, r) >= 1 /\ p - Least(p, r) \in Nat
    BY <2>1, LeastIs
  <2> QED BY <2>1, <2>2
<1>4. PICK status \in {"ok", "end", "bad"} : status = IF finished /\ n = pending THEN "end" ELSE "ok"
  OBVIOUS
<1>5. pending' = pending - n /\ AfterInflate(n, status, FALSE)
  BY <1>3, <1>4 DEF InflatePending
<1>6. /\ Plain(Taken - 1) /\ Cardinality(BytesIn(Taken)) = position + pending
      /\ finished => Taken >= 1 /\ Units[Taken] = "end"
      /\ finished \/ Plain(Taken)
  BY <1>2 DEF OpenInv, InflaterInv
<1>7. Cardinality(BytesIn(Taken)) = position + n + pending'
  BY <1>2, <1>3, <1>5, <1>6
<1>8. status = "end" => finished /\ pending' = 0
  BY <1>2, <1>4, <1>5
<1>9. finished \in BOOLEAN
  BY DEF OpenInv, FlagTypes
<1>10. Taken = loaded' - avail'
  BY <1>1 DEF Taken
<1>11. PICK t \in 0..Len(Units) : t = Taken
  BY <1>2
<1>12. /\ Inflating /\ UNCHANGED <<entry, faulted>> /\ loaded' \in 0..Len(Units) /\ avail' \in 0..loaded'
       /\ pending' \in Nat /\ finished' \in BOOLEAN
  BY <1>1, <1>2, <1>3, <1>5, <1>9
<1>13. status # "bad" /\ ~(n = 0 /\ ~FALSE)
  BY <1>3, <1>4
<1> QED BY <1>1, <1>5, <1>6, <1>7, <1>8, <1>10, <1>11, <1>12, <1>13, AfterInflateHolds

LEMMA InflateHolds ==
  ASSUME OpenInv, Inflate
  PROVE  OpenInv'
<1>1. Inflating /\ ~MustLoad /\ pending = 0 /\ ~finished /\ UNCHANGED <<entry, loaded, faulted>>
  BY DEF Inflate
<1>2. /\ entry \in StreamEntries /\ Deflated /\ error = "none"
      /\ loaded \in 0..Len(Units) /\ avail \in 0..loaded /\ Taken \in 0..Len(Units) /\ Len(Units) \in Nat
      /\ Room \in Nat /\ Room >= 1 /\ position \in Nat /\ loaded \in Nat /\ avail \in Nat
  BY <1>1, InflatingIs
<1>3. PICK m \in 0..avail :
        LET bytes == BytesOf(Ahead(m))
            n == Least(bytes, Room)
            last == IF m = 0 THEN "none" ELSE Ahead(m)[m]
        IN
        /\ MayTake(m, Room) /\ avail' = avail - m /\ pending' = bytes - n /\ finished' = (last = "end")
        /\ AfterInflate(n, IF last = "bad" THEN "bad"
                           ELSE IF last = "end" /\ bytes = n THEN "end" ELSE "ok", m > 0)
  BY DEF Inflate
<1>4. PICK bytes \in Nat : bytes = BytesOf(Ahead(m))
  BY <1>2, BytesAhead
<1>5. PICK n \in 0..Room : n = Least(bytes, Room) /\ n \in Nat /\ bytes - n \in Nat
  <2>1. PICK r \in Nat : r = Room
    BY <1>2
  <2>2. Least(bytes, r) \in 0..r /\ Least(bytes, r) \in Nat /\ bytes - Least(bytes, r) \in Nat
    BY LeastIs
  <2> QED BY <2>1, <2>2
<1>6. PICK t \in 0..Len(Units) : t = Taken + m /\ t = loaded - (avail - m)
  <2>1. PICK k \in Nat : k = Len(Units)
    BY <1>2
  <2>2. Taken = loaded - avail /\ Taken + m \in 0..k /\ Taken + m = loaded - (avail - m)
    BY <1>2, <2>1 DEF Taken
  <2> QED BY <2>1, <2>2
<1>7. PICK last : last = IF m = 0 THEN "none" ELSE Units[t]
  OBVIOUS
<1>8. \A i \in 1..m : Ahead(m)[i] = Units[Taken + i]
  BY <1>2, BytesAhead
<1>9. m \in Nat /\ (m # 0 => m \in 1..m /\ m > 0 /\ t >= 1 /\ t \in 1..Len(Units)) /\ (m = 0 => t = Taken)
  <2>1. PICK k \in Nat : k = Len(Units)
    BY <1>2
  <2> QED BY <1>2, <1>6, <2>1
<1>10. last = IF m = 0 THEN "none" ELSE Ahead(m)[m]
  BY <1>6, <1>7, <1>8, <1>9
<1>11. PICK status \in {"ok", "end", "bad"} :
         status = IF last = "bad" THEN "bad" ELSE IF last = "end" /\ bytes = n THEN "end" ELSE "ok"
  OBVIOUS
<1>12. PICK progress \in BOOLEAN : progress <=> m > 0
  OBVIOUS
<1>13. /\ MayTake(m, Room) /\ avail' = avail - m /\ pending' = bytes - n /\ (finished' <=> last = "end")
       /\ finished' \in BOOLEAN /\ AfterInflate(n, status, m > 0)
  BY <1>3, <1>4, <1>5, <1>10, <1>11
<1>14. AfterInflate(n, status, progress)
  BY <1>12, <1>13 DEF AfterInflate
<1>15. Plain(Taken) /\ Cardinality(BytesIn(Taken)) = position
  BY <1>1, <1>2 DEF OpenInv, InflaterInv
<1>16. Plain(t - 1)
  <2> SUFFICES ASSUME NEW i \in 1..(t - 1) PROVE Units[i] \in {"byte", "skip"}
    BY DEF Plain
  <2>1. CASE i \in 1..Taken
    BY <1>15, <2>1 DEF Plain
  <2>2. CASE i \notin 1..Taken
    <3>1. i - Taken \in 1..(m - 1) /\ i - Taken \in 1..m /\ Taken + (i - Taken) = i
      BY <1>2, <1>6, <1>9, <2>2
    <3>2. Ahead(m)[i - Taken] \in {"byte", "skip"}
      BY <1>13, <3>1 DEF MayTake
    <3> QED BY <1>8, <3>1, <3>2
  <2> QED BY <2>1, <2>2
<1>17. Cardinality(BytesIn(t)) = position + n + pending'
  <2>1. Cardinality(BytesIn(t)) = Cardinality(BytesIn(Taken)) + bytes
    BY <1>2, <1>4, <1>6, BytesAhead
  <2>2. position + bytes = position + n + (bytes - n)
    BY <1>2, <1>5
  <2> QED BY <1>13, <1>15, <2>1, <2>2
<1>18. finished' => t >= 1 /\ Units[t] = "end"
  BY <1>7, <1>9, <1>13
<1>19. status = "bad" => t >= 1 /\ Units[t] = "bad"
  BY <1>7, <1>9, <1>11
<1>20. status = "ok" => finished' \/ Plain(t)
  <2> SUFFICES ASSUME last # "bad", last # "end" PROVE Plain(t)
    BY <1>11, <1>13
  <2>1. CASE m = 0
    BY <1>9, <1>15, <2>1
  <2>2. CASE m # 0
    <3>1. Units[t] \in {"byte", "skip", "end", "bad"}
      BY <1>2, <1>9, <2>2, EntryIs DEF Units
    <3>2. Units[t] \in {"byte", "skip"}
      BY <1>7, <2>2, <3>1
    <3>3. \A i \in 1..t : i \in 1..(t - 1) \/ i = t
      OBVIOUS
    <3> QED BY <1>16, <3>2, <3>3 DEF Plain
  <2> QED BY <2>1, <2>2
<1>21. status = "end" => finished' /\ pending' = 0
  <2>1. bytes = n => bytes - n = 0
    BY <1>5
  <2> QED BY <1>11, <1>13, <2>1
<1>22. n = 0 /\ ~progress => Plain(Len(Units))
  <2> SUFFICES ASSUME m = 0 PROVE Plain(Len(Units))
    BY <1>9, <1>12
  <2>1. bytes = 0
    <3>1. PICK c \in Nat : c = Cardinality(BytesIn(Taken))
      BY <1>2, BytesAreCounted
    <3>2. Taken + 0 = Taken
      BY <1>2
    <3>3. c = c + bytes
      BY <1>2, <1>4, <3>1, <3>2, BytesAhead
    <3> QED BY <3>3
  <2>2. avail = 0
    BY <1>2, <1>4, <1>13, <2>1 DEF MayTake
  <2>3. Taken = Len(Units)
    <3>1. ~(loaded < Len(Units))
      BY <1>1, <2>2 DEF MustLoad
    <3>2. PICK k \in Nat : k = Len(Units)
      BY <1>2
    <3> QED BY <1>2, <2>2, <3>1, <3>2 DEF Taken
  <2> QED BY <1>15, <2>3
<1>23. /\ loaded' \in 0..Len(Units) /\ avail' \in 0..loaded' /\ pending' \in Nat /\ t = loaded' - avail'
  BY <1>1, <1>2, <1>5, <1>6, <1>13
<1> HIDE <1>3
<1> QED BY <1>1, <1>13, <1>14, <1>16, <1>17, <1>18, <1>19, <1>20, <1>21, <1>22, <1>23, AfterInflateHolds


\* Loading changes what is in the buffer, not what was taken from it.
LEMMA LoadHolds ==
  ASSUME OpenInv, Load
  PROVE  OpenInv'
<1>1. Inflating /\ UNCHANGED <<entry, position, pending, finished, ended, delivered>>
  BY DEF Load
<1>2. /\ entry \in StreamEntries /\ error = "none" /\ Len(Units) \in Nat
      /\ loaded \in 0..Len(Units) /\ avail \in 0..loaded
  BY <1>1, InflatingIs
<1>3. StreamTypes /\ FlagTypes /\ position \in 0..entry.size /\ pending \in Nat /\ delivered \in Nat
  BY DEF OpenInv, StreamTypes
<1>4. CASE InputFails /\ UNCHANGED <<loaded, avail>>
  <2>1. error' = "fault" /\ answer' = "fault" /\ request' = -1 /\ faulted' = TRUE
    BY <1>4 DEF InputFails, EndRead
  <2>2. StreamTypes'
    BY <1>1, <1>2, <1>3, <1>4, <2>1, EntryKept DEF StreamTypes
  <2>3. finished' \in BOOLEAN /\ ended' \in BOOLEAN /\ faulted' \in BOOLEAN
    BY <1>1, <1>3, <2>1 DEF FlagTypes
  <2> QED BY <1>1, <2>1, <2>2, <2>3, FailedHolds
<1>5. CASE /\ avail = 0 /\ UNCHANGED <<error, request, answer, faulted>>
           /\ loaded' = loaded + Least(Chunk, Len(Units) - loaded)
           /\ avail' = Least(Chunk, Len(Units) - loaded)
  <2>1. PICK k \in Nat : k = Len(Units)
    BY <1>2
  <2>2. loaded \in Nat /\ k - loaded \in Nat /\ Chunk \in Nat
    BY <1>2, <2>1, ChunkAssumption
  <2>3. PICK c \in 0..(k - loaded) : c = Least(Chunk, Len(Units) - loaded) /\ c \in Nat
    BY <2>1, <2>2, LeastIs
  <2>4. /\ loaded' = loaded + c /\ avail' = c
        /\ loaded' \in 0..k /\ avail' \in 0..loaded' /\ loaded' - avail' = loaded - avail
    BY <1>5, <2>2, <2>3
  <2>5. Taken' = Taken
    BY <2>4 DEF Taken
  <2>6. StreamTypes'
    BY <1>1, <1>3, <1>5, <2>1, <2>4, EntryKept DEF StreamTypes
  <2>7. FlagTypes'
    BY <1>1, <1>3, <1>5 DEF FlagTypes
  <2>8. ReadInv'
    BY <1>1, <1>5 DEF OpenInv, ReadInv, Reading
  <2>9. InflaterInv'
    BY <1>1, <1>5, <2>5, EntryKept DEF OpenInv, InflaterInv, Plain, BytesIn
  <2>10. VerdictsAreRight'
    BY <1>1, <1>5, EntryKept DEF OpenInv, VerdictsAreRight, AtEnd
  <2>11. StoredInv'
    BY <1>1, EntryKept DEF OpenInv, StoredInv
  <2> QED BY <2>6, <2>7, <2>8, <2>9, <2>10, <2>11 DEF OpenInv
<1> QED BY <1>4, <1>5 DEF Load, MustLoad

\* A read ends well short of the declared size, or with the end marker seen and the crc right.
LEMMA EndedHolds ==
  ASSUME OpenInv, Reading, EndRead("none"),
         UNCHANGED <<entry, position, inflaterVars, ended, delivered, faulted>>,
         AtEnd => Sound(entry)
  PROVE  OpenInv'
<1>1. error' = "none" /\ answer' = "ok" /\ request' = -1 /\ error = "none"
  BY DEF EndRead, OpenInv, ReadInv
<1>2. StreamTypes'
  BY <1>1, EntryKept DEF OpenInv, StreamTypes, inflaterVars
<1>3. FlagTypes'
  BY <1>1 DEF OpenInv, FlagTypes, inflaterVars, Errors
<1>4. ReadInv'
  BY <1>1 DEF ReadInv, Reading
<1>5. InflaterInv'
  BY <1>1, EntryKept DEF OpenInv, InflaterInv, Plain, BytesIn, Taken, inflaterVars
<1>6. VerdictsAreRight'
  BY <1>1, EntryKept DEF VerdictsAreRight, AtEnd
<1> QED BY <1>2, <1>3, <1>4, <1>5, <1>6, EntryKept DEF OpenInv, StoredInv

LEMMA EndInflatedHolds ==
  ASSUME OpenInv, EndInflated
  PROVE  OpenInv'
<1>1. /\ Reading /\ Deflated /\ EndRead("none")
      /\ UNCHANGED <<entry, position, inflaterVars, ended, delivered, faulted>>
  BY DEF EndInflated
<1>2. ended \/ ~AtEnd
  BY DEF EndInflated
<1>3. ended => Sound(entry)
  BY <1>1 DEF OpenInv, ReadInv, InflaterInv
<1> QED BY <1>1, <1>2, <1>3, EndedHolds

LEMMA ReadStoredHolds ==
  ASSUME OpenInv, ReadStored
  PROVE  OpenInv'
<1>1. Reading /\ ~Deflated /\ UNCHANGED <<entry, inflaterVars, ended>>
  BY DEF ReadStored
<1>2. /\ entry \in StreamEntries /\ entry.size \in Nat /\ Len(Units) \in Nat
      /\ position \in 0..entry.size /\ delivered \in Nat /\ request \in Nat
      /\ delivered <= request /\ position + (request - delivered) <= entry.size
      /\ error = "none" /\ answer = "reading"
  <2>1. entry \in StreamEntries /\ position \in 0..entry.size /\ delivered \in Nat
        /\ request \in Nat \cup {-1}
    BY DEF OpenInv, StreamTypes
  <2>2. entry.size \in Nat /\ Len(Units) \in Nat
    BY <2>1, EntryIs DEF Units
  <2>3. /\ error = "none" /\ answer = "reading"
        /\ delivered <= request /\ position + (request - delivered) <= entry.size
    BY <1>1 DEF OpenInv, ReadInv
  <2> QED BY <1>1, <2>1, <2>2, <2>3 DEF Reading
<1>3. Sound(entry) <=> entry.crc
  <2>1. ~entry.deflated \/ (entry.units = <<>> /\ entry.size = 0)
    BY <1>1 DEF Deflated, Units
  <2>2. Len(entry.units) = entry.size
    <3>1. entry.units = <<>> => Len(entry.units) = 0
      OBVIOUS
    <3> QED BY <2>1, <3>1 DEF OpenInv, StoredInv, Units
  <2> QED BY <2>1, <2>2 DEF Sound
<1>4. StreamTypes /\ FlagTypes
  BY DEF OpenInv
<1>5. CASE /\ delivered < request
           /\ position' = position + Least(Chunk, request - delivered)
           /\ delivered' = delivered + Least(Chunk, request - delivered)
           /\ UNCHANGED <<error, request, answer, faulted>>
  <2>1. request - delivered \in Nat /\ Chunk \in Nat
    BY <1>2, <1>5, ChunkAssumption
  <2>2. PICK n \in Nat : n = Least(Chunk, request - delivered) /\ n <= request - delivered
    BY <2>1, LeastIs
  <2>3. /\ position' \in 0..entry.size /\ delivered' \in Nat
        /\ delivered' <= request /\ position' + (request - delivered') <= entry.size
    <3>1. position' = position + n /\ delivered' = delivered + n
      BY <1>5, <2>2
    <3>2. PICK z \in Nat, p \in Nat, d \in Nat, r \in Nat :
            /\ z = entry.size /\ p = position /\ d = delivered /\ r = request
            /\ d <= r /\ p + (r - d) <= z
      BY <1>2
    <3>3. p + n \in 0..z /\ d + n \in Nat /\ d + n <= r /\ (p + n) + (r - (d + n)) <= z
      BY <2>2, <3>2
    <3> QED BY <3>1, <3>2, <3>3
  <2>4. StreamTypes'
    BY <1>1, <1>4, <1>5, <2>3, EntryKept DEF StreamTypes, inflaterVars
  <2>5. FlagTypes'
    BY <1>1, <1>4, <1>5 DEF FlagTypes, inflaterVars
  <2>6. ReadInv'
    <3>1. error' = "none" /\ answer' = "reading" /\ entry'.size = entry.size
      BY <1>1, <1>2, <1>5
    <3> QED BY <1>5, <2>3, <3>1 DEF ReadInv, Reading
  <2>7. InflaterInv'
    BY <1>1, EntryKept DEF InflaterInv
  <2>8. VerdictsAreRight'
    BY <1>2, <1>5 DEF VerdictsAreRight
  <2> QED BY <1>1, <2>4, <2>5, <2>6, <2>7, <2>8, EntryKept DEF OpenInv, StoredInv
<1>6. CASE InputFails /\ UNCHANGED <<position, delivered>>
  <2>1. error' = "fault" /\ answer' = "fault" /\ request' = -1 /\ faulted' = TRUE
    BY <1>6 DEF InputFails, EndRead
  <2>2. StreamTypes'
    BY <1>1, <1>4, <1>6, <2>1, EntryKept DEF StreamTypes, inflaterVars
  <2>3. finished' \in BOOLEAN /\ ended' \in BOOLEAN /\ faulted' \in BOOLEAN
    BY <1>1, <1>4, <2>1 DEF FlagTypes, inflaterVars
  <2> QED BY <1>1, <2>1, <2>2, <2>3, FailedHolds
<1>7. CASE /\ EndRead(IF position = entry.size /\ ~entry.crc THEN "crc" ELSE "none")
           /\ UNCHANGED <<position, delivered, faulted>>
  <2>1. CASE position = entry.size /\ ~entry.crc
    <3>1. error' = "crc" /\ answer' = "crc" /\ request' = -1
      BY <1>7, <2>1 DEF EndRead
    <3>2. StreamTypes'
      BY <1>1, <1>4, <1>7, <3>1, EntryKept DEF StreamTypes, inflaterVars
    <3>3. finished' \in BOOLEAN /\ ended' \in BOOLEAN /\ faulted' \in BOOLEAN
      BY <1>1, <1>4, <1>7 DEF FlagTypes, inflaterVars
    <3> QED BY <1>1, <1>3, <2>1, <3>1, <3>2, <3>3, FailedHolds
  <2>2. CASE ~(position = entry.size /\ ~entry.crc)
    <3>1. EndRead("none")
      BY <1>7, <2>2
    <3>2. AtEnd => Sound(entry)
      BY <1>3, <2>2 DEF AtEnd
    <3> QED BY <1>1, <1>7, <3>1, <3>2, EndedHolds
  <2> QED BY <2>1, <2>2
<1> QED BY <1>5, <1>6, <1>7 DEF ReadStored

LEMMA BeginReadHolds ==
  ASSUME OpenInv, NEW n \in Requests, BeginRead(n)
  PROVE  OpenInv'
<1>1. /\ request = -1 /\ delivered' = 0
      /\ UNCHANGED <<entry, position, inflaterVars, ended, error, faulted>>
  BY DEF BeginRead
<1>2. /\ entry \in StreamEntries /\ entry.size \in Nat /\ position \in 0..entry.size /\ n \in Nat
      /\ StreamTypes /\ FlagTypes
  BY EntryIs, RequestsAssumption DEF OpenInv, StreamTypes
<1>3. ASSUME request' \in Nat \cup {-1} PROVE StreamTypes'
  BY <1>1, <1>2, <1>3, EntryKept DEF StreamTypes, inflaterVars
<1>4. InflaterInv'
  BY <1>1, EntryKept DEF OpenInv, InflaterInv, Plain, BytesIn, Taken, inflaterVars
<1>5. StoredInv'
  BY <1>1, EntryKept DEF OpenInv, StoredInv
<1>6. error # "none" => answer = error
  BY <1>1 DEF OpenInv, ReadInv, Reading
<1>7. AtEnd' = AtEnd
  BY <1>1 DEF AtEnd
<1>8. CASE UNCHANGED <<answer, request>>
  <2>1. StreamTypes'
    BY <1>1, <1>2, <1>3, <1>8
  <2>2. FlagTypes'
    BY <1>1, <1>2, <1>8 DEF FlagTypes, inflaterVars
  <2>3. ReadInv'
    BY <1>1, <1>6, <1>8 DEF ReadInv, Reading
  <2>4. VerdictsAreRight'
    BY <1>1, <1>7, <1>8, EntryKept DEF OpenInv, VerdictsAreRight
  <2> QED BY <1>4, <1>5, <2>1, <2>2, <2>3, <2>4 DEF OpenInv
<1>9. CASE /\ error = "none" /\ request' = Least(n, entry.size - position) /\ answer' = "reading"
  <2>1. entry.size - position \in Nat
    BY <1>2
  <2>2. request' \in Nat /\ request' <= entry.size - position
    BY <1>2, <1>9, <2>1, LeastIs
  <2>3. StreamTypes'
    BY <1>3, <2>2
  <2>4. FlagTypes'
    BY <1>1, <1>2, <1>9 DEF FlagTypes, inflaterVars
  <2>5. ReadInv'
    <3>1. error' = "none" /\ answer' = "reading" /\ entry'.size = entry.size /\ position' = position
      BY <1>1, <1>9
    <3>2. delivered' <= request' /\ position' + (request' - delivered') <= entry'.size
      BY <1>1, <1>2, <2>2, <3>1
    <3> QED BY <2>2, <3>1, <3>2 DEF ReadInv, Reading
  <2>6. VerdictsAreRight'
    BY <1>1, <1>9 DEF VerdictsAreRight
  <2> QED BY <1>4, <1>5, <2>3, <2>4, <2>5, <2>6 DEF OpenInv
<1>10. error # "none" => UNCHANGED <<answer, request>>
  BY <1>6 DEF BeginRead
<1> QED BY <1>8, <1>9, <1>10 DEF BeginRead

----------------------------------------------------------------------------

LEMMA StreamInitHolds ==
  ASSUME StreamInit
  PROVE  StreamInv
BY DEF StreamInit, StreamInv, StreamsKeepTheirPackage, ClosedInv

LEMMA OpenHolds ==
  ASSUME StreamInv, NEW e \in StreamEntries, Open(e)
  PROVE  StreamInv'
<1>1. /\ entry = NoEntry /\ owned /\ owned' = owned /\ entry' = e /\ references' = references + 1
      /\ e.deflated \/ Len(e.units) = e.size
      /\ UNCHANGED <<position, inflaterVars, ended, error, readVars, faulted>>
  BY DEF Open
<1>2. /\ ClosedInv /\ owned \in BOOLEAN /\ StreamsKeepTheirPackage
  BY <1>1 DEF StreamInv
<1>3. /\ e # NoEntry /\ e.size \in Nat /\ Len(e.units) \in Nat
  BY EntryIs
<1>4. StreamsKeepTheirPackage'
  BY <1>1, <1>2, <1>3 DEF StreamsKeepTheirPackage
<1>5. /\ position' = 0 /\ loaded' = 0 /\ avail' = 0 /\ pending' = 0 /\ finished' = FALSE
      /\ ended' = FALSE /\ error' = "none" /\ delivered' = 0 /\ answer' = "none" /\ faulted' = FALSE
      /\ request' = -1
  BY <1>1, <1>2 DEF ClosedInv, inflaterVars, readVars
<1>6. StreamTypes'
  BY <1>1, <1>3, <1>5 DEF StreamTypes, Units
<1>7. FlagTypes'
  BY <1>5 DEF FlagTypes, Errors
<1>8. StoredInv'
  BY <1>1 DEF StoredInv, Units
<1>9. ReadInv'
  BY <1>5 DEF ReadInv, Reading
<1>10. InflaterInv'
  <2>1. Taken' = 0
    BY <1>5 DEF Taken
  <2>2. Plain(Taken)' /\ Plain(Taken - 1)' /\ BytesIn(Taken)' = {}
    <3>1. 1..0 = {} /\ 1..(0 - 1) = {}
      OBVIOUS
    <3> QED BY <2>1, <3>1 DEF Plain, BytesIn
  <2>3. Cardinality(BytesIn(Taken)') = 0
    BY <2>2, FS_EmptySet
  <2>4. finished' = FALSE /\ ended' = FALSE /\ position' + pending' = 0
    BY <1>5
  <2> QED BY <2>2, <2>3, <2>4 DEF InflaterInv
<1>11. VerdictsAreRight'
  BY <1>5 DEF VerdictsAreRight
<1>12. OpenInv'
  BY <1>6, <1>7, <1>8, <1>9, <1>10, <1>11 DEF OpenInv
<1> QED BY <1>1, <1>2, <1>3, <1>4, <1>12 DEF StreamInv

LEMMA CloseHolds ==
  ASSUME StreamInv, Close
  PROVE  StreamInv'
<1>1. references' = references - 1 /\ entry # NoEntry /\ entry' = NoEntry /\ owned' = owned /\ ClosedInv'
  BY DEF Close, ClosedInv
<1>2. owned \in BOOLEAN /\ references = (IF owned THEN 1 ELSE 0) + 1
  BY <1>1 DEF StreamInv, StreamsKeepTheirPackage
<1>3. StreamsKeepTheirPackage'
  BY <1>1, <1>2 DEF StreamsKeepTheirPackage
<1> QED BY <1>1, <1>2, <1>3 DEF StreamInv

\* Steps that touch the package alone, and stuttering ones.
LEMMA OtherHolds ==
  ASSUME StreamInv, owned' \in BOOLEAN, StreamsKeepTheirPackage',
         UNCHANGED <<entry, position, inflaterVars, ended, error, readVars, faulted>>
  PROVE  StreamInv'
<1>1. CASE entry = NoEntry
  <2>1. ClosedInv'
    BY <1>1 DEF StreamInv, ClosedInv, inflaterVars, readVars
  <2> QED BY <1>1, <2>1 DEF StreamInv
<1>2. CASE entry # NoEntry
  <2>1. /\ StreamTypes' /\ FlagTypes' /\ StoredInv' /\ ReadInv' /\ InflaterInv' /\ VerdictsAreRight'
    BY <1>2, EntryKept DEF StreamInv, OpenInv, StreamTypes, FlagTypes, StoredInv, ReadInv, InflaterInv,
       VerdictsAreRight, Reading, AtEnd, Plain, BytesIn, Taken, inflaterVars, readVars
  <2> QED BY <1>2, <2>1 DEF StreamInv, OpenInv
<1> QED BY <1>1, <1>2

LEMMA StreamStepHolds ==
  ASSUME StreamInv, [StreamNext]_streamVars
  PROVE  StreamInv'
<1>1. ASSUME NEW e \in StreamEntries, Open(e) PROVE StreamInv'
  BY <1>1, OpenHolds
<1>2. CASE ClosePackage
  <2>1. /\ owned /\ owned' = FALSE /\ references' = references - 1
        /\ UNCHANGED <<entry, position, inflaterVars, ended, error, readVars, faulted>>
    BY <1>2 DEF ClosePackage
  <2>2. references = 1 + (IF entry # NoEntry THEN 1 ELSE 0)
    BY <2>1 DEF StreamInv, StreamsKeepTheirPackage
  <2>3. StreamsKeepTheirPackage'
    BY <2>1, <2>2 DEF StreamsKeepTheirPackage
  <2> QED BY <2>1, <2>3, OtherHolds
<1>3. CASE Close
  BY <1>3, CloseHolds
<1>4. ASSUME NEW n \in Requests, BeginRead(n) PROVE StreamInv'
  <2>1. entry # NoEntry /\ UNCHANGED <<packageVars, entry>>
    BY <1>4 DEF BeginRead
  <2>2. OpenInv
    BY <2>1 DEF StreamInv
  <2> QED BY <1>4, <2>1, <2>2, BeginReadHolds, ReadStays
<1>5. CASE Read
  <2>1. Reading /\ UNCHANGED <<packageVars, entry>>
    BY <1>5 DEF Read, ReadStored, EndInflated, Load, InflatePending, Inflate, Inflating
  <2>2. entry # NoEntry /\ OpenInv
    BY <2>1, ReadingIsOpen
  <2>3. OpenInv'
    BY <1>5, <2>2, ReadStoredHolds, EndInflatedHolds, LoadHolds, InflatePendingHolds, InflateHolds DEF Read
  <2> QED BY <2>1, <2>2, <2>3, ReadStays
<1>6. CASE UNCHANGED streamVars
  <2>1. StreamsKeepTheirPackage' /\ owned' \in BOOLEAN
    BY <1>6 DEF StreamInv, StreamsKeepTheirPackage, streamVars
  <2> QED BY <1>6, <2>1, OtherHolds DEF streamVars, inflaterVars, readVars
<1> QED BY <1>1, <1>2, <1>3, <1>4, <1>5, <1>6 DEF StreamNext

\* zip_package.c:295-436, for entries of any length and content, any size of the chunks
\* and of the reads: a caller that was given every declared byte without an error has a
\* sound entry, a sound entry is refused for want of the file only, an error is repeated
\* by every later read, and the package is open exactly as long as its index or a stream
\* needs it.
THEOREM StreamsAreAlwaysSound == StreamSpec => []StreamsAreSound
<1>1. StreamInit => StreamInv
  BY StreamInitHolds
<1>2. StreamInv /\ [StreamNext]_streamVars => StreamInv'
  BY StreamStepHolds
<1>3. StreamInv => StreamsAreSound
  BY DEF StreamInv, OpenInv, StreamsAreSound, VerdictsAreRight
<1> QED BY <1>1, <1>2, <1>3, PTL DEF StreamSpec

----------------------------------------------------------------------------
(* The cursors of an entry's files.                                         *)

\* In the range of unsigned integers the machine's arithmetic is that of the integers.
LEMMA UnsignedIs ==
  ASSUME NEW i \in Int, i >= 0, i < Modulus
  PROVE  Unsigned(i) = i
<1>1. Modulus \in Nat \ {0}
  BY MaxIntAssumption DEF Modulus
<1> QED BY <1>1 DEF Unsigned

CursorTypes ==
  /\ open \in {Cached, Streamed} /\ size \in 0..MaxInt
  /\ cursor \in [OpenFiles -> 0..MaxInt]
  /\ taken \in [Streamed -> 0..MaxInt] /\ \A f \in Streamed : taken[f] <= size
  /\ reached = taken
FailureTypes ==
  /\ failure \in [OpenFiles -> BOOLEAN] /\ damaged \in [Streamed -> BOOLEAN]
  /\ decoded \in BOOLEAN

\* A file whose read failed for want of its data remembers it, or its stream does.
RefusedInv == \A f \in refused : (f \in Cached /\ failure[f]) \/ (f \in Streamed /\ damaged[f])

CursorInv == CursorTypes /\ FailureTypes /\ RefusedInv /\ CursorsAreExact

\* What vfs_file_seek decides and where it goes, as if integers were unbounded.
LEMMA SeekDecides ==
  ASSUME NEW base \in 0..MaxInt, NEW d \in MinInt..MaxInt, NEW f, NEW origin, Base(f, origin) = base
  PROVE  /\ SeekVerdict(f, d, origin) = IF base + d < 0 THEN "negative" ELSE IF base + d > MaxInt THEN "invalid" ELSE "ok"
         /\ SeekVerdict(f, d, origin) = "ok" => Target(f, d, origin) = base + d
<1>1. MaxInt \in Nat \ {0} /\ MinInt = -MaxInt - 1 /\ Modulus = 2 * (MaxInt + 1)
  BY MaxIntAssumption DEF MinInt, Modulus
<1>2. d \in Int /\ base \in Int /\ d >= MinInt /\ d <= MaxInt /\ base >= 0 /\ base <= MaxInt
  BY <1>1
<1>3. d < 0 => Backwards(d) = -d
  <2> SUFFICES ASSUME d < 0 PROVE Backwards(d) = -d
    OBVIOUS
  <2>1. -(d + 1) + 1 = -d /\ -d >= 0 /\ -d < Modulus
    BY <1>1, <1>2
  <2> QED BY <1>2, <2>1, UnsignedIs DEF Backwards
<1>4. Unsigned(MaxInt - base) = MaxInt - base
  <2>1. MaxInt - base \in Int /\ MaxInt - base >= 0 /\ MaxInt - base < Modulus
    BY <1>1, <1>2
  <2> QED BY <2>1, UnsignedIs
<1>5. base + d >= 0 /\ base + d <= MaxInt => Unsigned(base + d) = base + d
  <2> SUFFICES ASSUME base + d >= 0, base + d <= MaxInt PROVE Unsigned(base + d) = base + d
    OBVIOUS
  <2>1. base + d \in Int /\ base + d < Modulus
    BY <1>1, <1>2
  <2> QED BY <2>1, UnsignedIs
<1>6. SeekVerdict(f, d, origin) = IF d < 0 /\ -d > base THEN "negative" ELSE IF d > 0 /\ d > MaxInt - base THEN "invalid" ELSE "ok"
  BY <1>3, <1>4 DEF SeekVerdict
<1>7. SeekVerdict(f, d, origin) = IF base + d < 0 THEN "negative" ELSE IF base + d > MaxInt THEN "invalid" ELSE "ok"
  BY <1>1, <1>2, <1>6
<1>8. SeekVerdict(f, d, origin) = "ok" => Target(f, d, origin) = base + d
  <2> SUFFICES ASSUME base + d >= 0, base + d <= MaxInt PROVE Target(f, d, origin) = base + d
    BY <1>1, <1>2, <1>7
  <2>1. CASE d < 0
    <3>1. base - Backwards(d) = base + d
      BY <1>2, <1>3, <2>1
    <3> QED BY <1>5, <2>1, <3>1 DEF Target
  <2>2. CASE ~(d < 0)
    BY <1>5, <2>2 DEF Target
  <2> QED BY <2>1, <2>2
<1> QED BY <1>7, <1>8

LEMMA CursorInitHolds == VfsFileInit => CursorInv
<1> SUFFICES ASSUME VfsFileInit PROVE CursorInv
  OBVIOUS
<1> USE MaxIntAssumption DEF VfsFileInit
<1>1. CursorTypes
  BY DEF CursorTypes, OpenFiles
<1>2. FailureTypes
  BY DEF FailureTypes, OpenFiles
<1>3. RefusedInv /\ CursorsAreExact
  BY DEF RefusedInv, CursorsAreExact, SeekIsExact, ReadsAreInPlace, FailuresStick, NoAnswer, CursorTypes
<1> QED BY <1>1, <1>2, <1>3 DEF CursorInv

LEMMA SeekHolds ==
  ASSUME CursorInv, NEW f \in open, NEW d \in MinInt..MaxInt, NEW origin \in {"begin", "current", "end"},
         Seek(f, d, origin)
  PROVE  CursorInv'
<1>1. CursorTypes /\ FailureTypes /\ RefusedInv /\ ReadsAreInPlace /\ f \in OpenFiles
  BY DEF CursorInv, CursorsAreExact, CursorTypes, OpenFiles
<1>2. UNCHANGED <<open, size, decoded, taken, reached, failure, damaged, refused>>
  BY DEF Seek
<1>3. PICK base \in 0..MaxInt : base = Base(f, origin)
  BY <1>1, MaxIntAssumption DEF Base, CursorTypes
<1>4. PICK t \in Int : t = base + d
  BY <1>3, MaxIntAssumption DEF MinInt
<1>5. PICK verdict : verdict = IF t < 0 THEN "negative" ELSE IF t > MaxInt THEN "invalid" ELSE "ok"
  OBVIOUS
<1>6. PICK reply : reply = IF verdict = "ok" /\ f \in Streamed /\ t # cursor[f] THEN "unsupported" ELSE verdict
  OBVIOUS
<1>7. SeekVerdict(f, d, origin) = verdict /\ (verdict = "ok" => Target(f, d, origin) = t)
  BY <1>3, <1>4, <1>5, SeekDecides
<1>8. /\ answered' = [op |-> "seek", file |-> f, answer |-> reply, exact |-> t, from |-> cursor[f]]
      /\ cursor' = IF reply = "ok" THEN [cursor EXCEPT ![f] = t] ELSE cursor
  BY <1>3, <1>4, <1>6, <1>7 DEF Seek
<1>9. reply = "ok" => t \in 0..MaxInt
  BY <1>4, <1>5, <1>6, MaxIntAssumption
<1>10. CursorTypes'
  BY <1>1, <1>2, <1>8, <1>9 DEF CursorTypes
<1>11. FailureTypes' /\ RefusedInv'
  BY <1>1, <1>2 DEF FailureTypes, RefusedInv
<1>12. SeekIsExact'
  <2>1. reply = IF t < 0 THEN "negative" ELSE IF t > MaxInt THEN "invalid"
                 ELSE IF f \in Streamed /\ t # cursor[f] THEN "unsupported" ELSE "ok"
    BY <1>5, <1>6
  <2>2. cursor'[f] = IF reply = "ok" THEN t ELSE cursor[f]
    BY <1>1, <1>8 DEF CursorTypes
  <2> QED BY <1>8, <2>1, <2>2 DEF SeekIsExact
<1>13. ReadsAreInPlace' /\ FailuresStick'
  BY <1>1, <1>2, <1>8 DEF ReadsAreInPlace, FailuresStick, CursorTypes
<1> QED BY <1>10, <1>11, <1>12, <1>13 DEF CursorInv, CursorsAreExact

\* What a read that returns n bytes must not disturb.
LEMMA ReadKeeps ==
  ASSUME CursorInv, NEW f \in open, NEW offset \in Nat, NEW n \in Nat, NEW at \in Nat, NEW reply,
         NEW moves \in BOOLEAN, Answers(f, offset, n, at, reply, moves),
         UNCHANGED <<open, size>>, FailureTypes', RefusedInv', (reached = taken)',
         taken' \in [Streamed -> 0..MaxInt], \A g \in Streamed : taken'[g] <= size,
         n > 0 => at = offset /\ at + n <= size /\ f \notin refused,
         moves => offset = cursor[f]
  PROVE  CursorInv'
<1>1. CursorTypes /\ f \in OpenFiles
  BY DEF CursorInv, CursorTypes, OpenFiles
<1>2. answered' = [op |-> "read", file |-> f, offset |-> offset, got |-> n, at |-> at,
                   answer |-> reply, before |-> f \in refused]
  BY DEF Answers
<1>3. cursor' = IF moves THEN [cursor EXCEPT ![f] = @ + n] ELSE cursor
  BY DEF Answers
<1>4. cursor' \in [OpenFiles -> 0..MaxInt]
  <2>1. CASE moves
    <3>1. cursor[f] + n \in 0..MaxInt
      BY <1>1, <2>1, MaxIntAssumption DEF CursorTypes
    <3> QED BY <1>1, <1>3, <2>1, <3>1 DEF CursorTypes
  <2>2. CASE ~moves
    BY <1>1, <1>3, <2>2 DEF CursorTypes
  <2> QED BY <2>1, <2>2
<1>5. CursorTypes'
  BY <1>1, <1>4 DEF CursorTypes
<1>6. SeekIsExact'
  BY <1>2 DEF SeekIsExact
<1>7. ReadsAreInPlace'
  BY <1>2 DEF ReadsAreInPlace
<1>8. FailuresStick'
  <2>1. answered'.got = n /\ (answered'.before <=> f \in refused)
    BY <1>2
  <2>2. f \in refused => n = 0
    OBVIOUS
  <2> QED BY <2>1, <2>2 DEF FailuresStick
<1> QED BY <1>5, <1>6, <1>7, <1>8 DEF CursorInv, CursorsAreExact

LEMMA SmallerIs ==
  ASSUME NEW a \in Nat, NEW b \in Nat
  PROVE  Smaller(a, b) \in Nat /\ Smaller(a, b) <= a /\ Smaller(a, b) <= b
BY DEF Smaller

LEMMA ReadHolds ==
  ASSUME CursorInv, NEW f \in open, NEW offset \in 0..(MaxInt + 1), NEW n \in 0..MaxInt,
         NEW buffer \in BOOLEAN, NEW moves \in BOOLEAN, moves => offset = cursor[f],
         ReadAt(f, offset, n, buffer, moves)
  PROVE  CursorInv'
<1>1. CursorTypes /\ FailureTypes /\ RefusedInv /\ f \in OpenFiles
  BY DEF CursorInv, CursorTypes, OpenFiles
<1>2. offset \in Nat /\ n \in Nat /\ size \in Nat
  BY <1>1, MaxIntAssumption DEF CursorTypes
<1>3. CASE ReadStops(f, offset, n, buffer, moves)
  <2>1. PICK reply : Answers(f, offset, 0, offset, reply, moves)
    BY <1>3 DEF ReadStops
  <2>2. UNCHANGED <<open, size, decoded, taken, reached, failure, damaged, refused>>
    BY <1>3 DEF ReadStops
  <2>3. FailureTypes' /\ RefusedInv'
    BY <1>1, <2>2 DEF FailureTypes, RefusedInv
  <2> QED BY <1>1, <1>2, <2>1, <2>2, <2>3, ReadKeeps DEF CursorTypes
<1>4. CASE ReadStream(f, offset, n, moves)
  <2>1. f \in Streamed /\ UNCHANGED <<open, size, decoded, failure>>
    BY <1>4 DEF ReadStream
  <2>2. ASSUME NEW reply, Answers(f, offset, 0, offset, reply, moves),
               UNCHANGED <<taken, reached, damaged, refused>>
        PROVE  CursorInv'
    <3>1. FailureTypes' /\ RefusedInv'
      BY <1>1, <2>1, <2>2 DEF FailureTypes, RefusedInv
    <3> QED BY <1>1, <1>2, <2>1, <2>2, <3>1, ReadKeeps DEF CursorTypes
  <2>3. ASSUME offset = reached[f], ~damaged[f],
               NEW m \in 0..Smaller(n, size - taken[f]), NEW fails \in BOOLEAN,
               taken' = [taken EXCEPT ![f] = @ + m], reached' = [reached EXCEPT ![f] = @ + m],
               damaged' = [damaged EXCEPT ![f] = fails],
               refused' = IF fails THEN refused \cup {f} ELSE refused,
               Answers(f, offset, m, taken[f], IF fails THEN "error" ELSE "ok", moves)
        PROVE  CursorInv'
    <3>1. taken[f] \in Nat /\ taken[f] <= size /\ size - taken[f] \in Nat /\ size <= MaxInt
      BY <1>1, <2>1, MaxIntAssumption DEF CursorTypes
    <3>2. m \in Nat /\ taken[f] + m <= size
      <4>1. PICK rest \in Nat : rest = size - taken[f]
        BY <3>1
      <4>2. Smaller(n, rest) \in Nat /\ Smaller(n, rest) <= rest
        BY <1>2, SmallerIs
      <4>3. m \in Nat /\ m <= rest
        BY <4>1, <4>2
      <4> QED BY <1>2, <3>1, <4>1, <4>3
    <3>3. taken[f] + m \in 0..MaxInt
      BY <1>2, <3>1, <3>2, MaxIntAssumption
    <3>4. taken' \in [Streamed -> 0..MaxInt] /\ \A g \in Streamed : taken'[g] <= size
      BY <1>1, <2>1, <2>3, <3>2, <3>3 DEF CursorTypes
    <3>5. reached' = taken'
      BY <1>1, <2>3 DEF CursorTypes
    <3>6. f \notin Cached /\ f \notin refused
      BY <1>1, <2>1, <2>3, KindsAssumption DEF RefusedInv
    <3>7. FailureTypes'
      BY <1>1, <2>1, <2>3 DEF FailureTypes
    <3>8. RefusedInv'
      BY <1>1, <2>1, <2>3, <3>6 DEF RefusedInv, FailureTypes
    <3>9. offset = taken[f]
      BY <1>1, <2>3 DEF CursorTypes
    <3>10. m > 0 => taken[f] = offset /\ taken[f] + m <= size /\ f \notin refused
      BY <3>2, <3>6, <3>9
    <3>11. PICK reply : Answers(f, offset, m, taken[f], reply, moves)
      BY <2>3
    <3> HIDE <2>3
    <3> QED BY <1>2, <2>1, <3>1, <3>2, <3>4, <3>5, <3>7, <3>8, <3>10, <3>11, ReadKeeps
  <2> QED BY <1>4, <2>2, <2>3 DEF ReadStream
<1>5. CASE ReadCached(f, offset, n, moves)
  <2>1. f \in Cached /\ ~failure[f] /\ UNCHANGED <<open, size, taken, reached, damaged>>
    BY <1>5 DEF ReadCached
  <2>2. f \notin refused
    BY <1>1, <2>1, KindsAssumption DEF RefusedInv
  <2>3. ASSUME NEW m \in 0..(IF offset >= size THEN 0 ELSE Smaller(n, size - offset)), NEW reply,
               decoded' = TRUE, UNCHANGED <<failure, refused>>, Answers(f, offset, m, offset, reply, moves)
        PROVE  CursorInv'
    <3>1. m \in Nat /\ (m > 0 => offset + m <= size)
      <4>1. CASE offset >= size
        BY <1>2, <2>3, <4>1
      <4>2. CASE ~(offset >= size)
        <5>1. size - offset \in Nat
          BY <1>2, <4>2
        <5> QED BY <1>2, <2>3, <4>2, <5>1, SmallerIs
      <4> QED BY <4>1, <4>2
    <3>2. FailureTypes' /\ RefusedInv'
      BY <1>1, <2>1, <2>3 DEF FailureTypes, RefusedInv
    <3> QED BY <1>1, <1>2, <2>1, <2>2, <2>3, <3>1, <3>2, ReadKeeps DEF CursorTypes
  <2>4. ASSUME failure' = [failure EXCEPT ![f] = TRUE], refused' = refused \cup {f}, UNCHANGED decoded,
               Answers(f, offset, 0, offset, "error", moves)
        PROVE  CursorInv'
    <3>1. FailureTypes' /\ RefusedInv'
      BY <1>1, <2>1, <2>4 DEF FailureTypes, RefusedInv
    <3> QED BY <1>1, <1>2, <2>1, <2>4, <3>1, ReadKeeps DEF CursorTypes
  <2> QED BY <1>5, <2>3, <2>4 DEF ReadCached
<1> QED BY <1>3, <1>4, <1>5 DEF ReadAt

LEMMA CursorStepHolds == CursorInv /\ [VfsFileNext]_cursorVars => CursorInv'
<1> SUFFICES ASSUME CursorInv, [VfsFileNext]_cursorVars PROVE CursorInv'
  OBVIOUS
<1>1. CASE UNCHANGED cursorVars
  <2> USE <1>1 DEF CursorInv, cursorVars
  <2>1. CursorTypes' /\ FailureTypes' /\ RefusedInv'
    BY DEF CursorTypes, FailureTypes, RefusedInv
  <2>2. CursorsAreExact'
    BY DEF CursorsAreExact, SeekIsExact, ReadsAreInPlace, FailuresStick
  <2> QED BY <2>1, <2>2
<1>2. CASE ForgetAnswer
  <2> USE <1>2 DEF CursorInv, ForgetAnswer, NoAnswer
  <2>1. CursorTypes' /\ FailureTypes' /\ RefusedInv'
    BY DEF CursorTypes, FailureTypes, RefusedInv
  <2>2. CursorsAreExact'
    BY DEF CursorsAreExact, SeekIsExact, ReadsAreInPlace, FailuresStick
  <2> QED BY <2>1, <2>2
<1>3. ASSUME NEW f \in open, NEW d \in MinInt..MaxInt, NEW origin \in {"begin", "current", "end"}, Seek(f, d, origin)
      PROVE  CursorInv'
  BY <1>3, SeekHolds
<1>4. ASSUME NEW f \in open, NEW n \in 0..MaxInt, NEW buffer \in BOOLEAN, ReadNext(f, n, buffer)
      PROVE  CursorInv'
  <2>1. cursor[f] \in 0..(MaxInt + 1)
    BY MaxIntAssumption DEF CursorInv, CursorTypes, OpenFiles
  <2> QED BY <1>4, <2>1, ReadHolds DEF ReadNext
<1>5. ASSUME NEW f \in open, NEW n \in 0..MaxInt, NEW buffer \in BOOLEAN, NEW offset \in 0..(MaxInt + 1),
             ReadAt(f, offset, n, buffer, FALSE)
      PROVE  CursorInv'
  BY <1>5, ReadHolds
<1> QED BY <1>1, <1>2, <1>3, <1>4, <1>5 DEF VfsFileNext

\* vfs_file.c:425-463, for integers of any width, any number of files and any size of the
\* entry: seeks go where unbounded integers would or move nothing, the bytes of a read
\* lie where they were asked for, and a file that failed once returns none.
THEOREM CursorsAreAlwaysExact == VfsFileSpec => []CursorsAreExact
BY CursorInitHolds, CursorStepHolds, PTL DEF VfsFileSpec, CursorInv

==============================================================================
