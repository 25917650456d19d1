------------------------- MODULE DecodedCacheProofs -------------------------
(***************************************************************************)
(* Proofs about DecodedCache for any number of files, caches, entries and  *)
(* packages, any sizes and any limits: nothing is freed while a file uses  *)
(* it, nothing is freed twice, nothing unreachable is kept, the table and  *)
(* the idle lists agree, and files do not see that they share caches,      *)
(* which is the refinement of PrivateFiles.                                *)
(*                                                                         *)
(* Decoding rests on that, who uses a cache and that nothing used is       *)
(* destroyed: a cache has one decoder, its data is complete before it is   *)
(* read although reads take no lock, and an archive stays open exactly as  *)
(* long as somebody needs it.                                              *)
(*                                                                         *)
(* The byte counters rest on both: each is a sum over the caches it        *)
(* counts, and a decode that is running counts for one cache only.         *)
(***************************************************************************)
EXTENDS DecodedCache, FiniteSetTheorems, SequenceTheorems, WellFoundedInduction, TLAPS

\* Where the operation of a file stands, against what it holds.
PcInv ==
  \A f \in Files :
    /\ pc[f] \in {"closed", "trim", "destroy"} <=> cache[f] = None
    /\ doomed[f] # {} => pc[f] \in {"evict", "trim", "destroy"}
    /\ pc[f] = "trim" <=> lock = f

\* `references` counts the files that have the cache open (vfs_file_open,
\* vfs_file_close).
CountInv == \A c \in Caches : Allocated(c) => refs[c] = Cardinality(Users(c))

\* An insertion knows its package.
PendingInv == loader = "insert" <=> pending # None

\* A file never uses a cache that is being destroyed.
UseInv == \A f \in Files : cache[f] # None => Allocated(cache[f]) /\ ~Doomed(cache[f])

\* A cache to be destroyed is on one chain of caches only: it is freed once.
DoomInv ==
  \A c \in Caches, a \in Actors : c \in doomed[a] =>
    Allocated(c) /\ \A b \in Actors : c \in doomed[b] => a = b

\* A cache without users is on such a chain, or an open still finds it by its
\* entry number: it is not leaked.
ReachInv ==
  \A c \in Caches : Allocated(c) /\ Users(c) = {} => Doomed(c) \/ table[ident[c]] = c

\* A cache that was not dropped is found by its entry number while it is used.
AttachInv ==
  \A f \in Files : cache[f] # None =>
    detached[cache[f]] \/ table[ident[cache[f]]] = cache[f]

\* The table names allocated caches, each by its own entry number, and no
\* dropped one.
TableInv ==
  \A i \in Identities : table[i] # None =>
    Allocated(table[i]) /\ ident[table[i]] = i /\ ~detached[table[i]] /\ ~Doomed(table[i])

\* The idle caches are the registered ones without users, and hold data.
IdleInv ==
  \A c \in Caches :
    /\ idle[c] <=> Allocated(c) /\ table[ident[c]] = c /\ refs[c] = 0
    /\ idle[c] => data[c] # "none"

\* Each idle list links the idle caches of its backend, once each.
ListInv ==
  \A b \in Backend :
    /\ IsInjective(idleList[b])
    /\ Elements(b) = {c \in Caches : idle[c] /\ data[c] = b}

\* All of it together is inductive: an eviction frees what ListInv says is
\* idle, which IdleInv and TableInv say nobody uses and CountInv counts.
IInv ==
  /\ TypeOK
  /\ PcInv /\ PendingInv /\ CountInv /\ UseInv /\ DoomInv /\ ReachInv /\ AttachInv
  /\ TableInv /\ IdleInv /\ ListInv

-----------------------------------------------------------------------------
USE ConstantsAssumption

\* The files that use a cache are finitely many, so they can be counted.
LEMMA UsersFinite ==
  ASSUME NEW c
  PROVE  IsFiniteSet(Users(c)) /\ Cardinality(Users(c)) \in Nat
BY FS_Subset, FS_CardinalityType DEF Users

\* Initially nothing is allocated.
LEMMA InitIInv == Init => IInv
<1> SUFFICES ASSUME Init PROVE IInv
  OBVIOUS
<1>1. TypeOK
  BY DEF Init, TypeOK, CacheTypes, ListTypes, FileTypes, IndexTypes, Actors, FilePC, LoaderPC, Held, Backend
<1>2. PcInv /\ PendingInv
  BY DEF Init, PcInv, PendingInv, Actors
<1>3. CountInv /\ ReachInv /\ UseInv /\ DoomInv /\ AttachInv /\ TableInv
  BY DEF Init, CountInv, ReachInv, UseInv, DoomInv, AttachInv, TableInv, Allocated, Actors
<1>4. IdleInv
  BY DEF Init, IdleInv, Allocated
<1>5. ListInv
  BY DEF Init, ListInv, IsInjective, Elements, Backend
<1> QED
  BY <1>1, <1>2, <1>3, <1>4, <1>5 DEF IInv

-----------------------------------------------------------------------------
(* What linking and unlinking do to an idle list.                          *)

\* Unlinking takes out the cache and nothing else, and links nothing twice.
LEMMA UnlinkElement ==
  ASSUME NEW list \in Seq(Caches), IsInjective(list), NEW c,
         NEW n \in DOMAIN list, list[n] = c
  PROVE  /\ Unlink(list, c) \in Seq(Caches)
         /\ IsInjective(Unlink(list, c))
         /\ {Unlink(list, c)[k] : k \in DOMAIN Unlink(list, c)} = {list[k] : k \in DOMAIN list} \ {c}
<1> DEFINE m == CHOOSE k \in DOMAIN list : list[k] = c
           front == SubSeq(list, 1, m-1)
           back == SubSeq(list, m+1, Len(list))
           rest == front \o back
<1>1. Unlink(list, c) = rest
  BY DEF Unlink, RemoveAt
<1>2. /\ Len(list) \in Nat /\ DOMAIN list = 1..Len(list)
      /\ \A k \in 1..Len(list) : list[k] \in Caches
  OBVIOUS
<1>3. m \in 1..Len(list) /\ list[m] = c
  BY <1>2
<1> HIDE DEF m
<1>4. /\ front \in Seq(Caches) /\ Len(front) = m-1
      /\ \A k \in 1..m-1 : front[k] = list[k]
  <2>1. \A k \in 1..m-1 : list[k] \in Caches
    BY <1>2, <1>3
  <2> QED
    BY <1>3, <2>1, SubSeqProperties
<1>5. /\ back \in Seq(Caches) /\ Len(back) = Len(list) - m
      /\ \A k \in 1..Len(list)-m : back[k] = list[m+k]
  <2>1. \A k \in m+1..Len(list) : list[k] \in Caches
    BY <1>2, <1>3
  <2> QED
    BY <1>2, <1>3, <2>1, SubSeqProperties
<1> HIDE DEF front, back
<1>6. /\ rest \in Seq(Caches)
      /\ Len(rest) = Len(front) + Len(back)
      /\ \A k \in 1..Len(front) + Len(back) :
           rest[k] = IF k <= Len(front) THEN front[k] ELSE back[k - Len(front)]
  <2>1. front \in Seq(Caches) /\ back \in Seq(Caches)
    BY <1>4, <1>5
  <2> QED
    BY <2>1, ConcatProperties
<1> HIDE DEF rest
<1>7. Len(rest) = Len(list) - 1 /\ DOMAIN rest = 1..Len(list)-1
  BY <1>2, <1>3, <1>4, <1>5, <1>6
<1>8. \A k \in 1..m-1 : rest[k] = list[k]
  <2> SUFFICES ASSUME NEW k \in 1..m-1
               PROVE  rest[k] = list[k]
    OBVIOUS
  <2>1. k \in 1..Len(front) + Len(back) /\ k <= Len(front)
    BY <1>2, <1>3, <1>4, <1>5
  <2> QED
    BY <2>1, <1>4, <1>6
<1>9. \A k \in m..Len(list)-1 : rest[k] = list[k+1]
  <2> SUFFICES ASSUME NEW k \in m..Len(list)-1
               PROVE  rest[k] = list[k+1]
    OBVIOUS
  <2>1. /\ k \in 1..Len(front) + Len(back) /\ ~(k <= Len(front))
        /\ k - Len(front) = k-m+1 /\ k-m+1 \in 1..Len(list)-m /\ m + (k-m+1) = k+1
    BY <1>2, <1>3, <1>4, <1>5
  <2> QED
    BY <2>1, <1>5, <1>6
<1>10. \A k, j \in 1..Len(list) : list[k] = list[j] => k = j
  BY <1>2 DEF IsInjective
<1>11. ASSUME NEW k \in 1..Len(list)-1
       PROVE  \E j \in 1..Len(list) : rest[k] = list[j] /\ j # m /\ j = IF k < m THEN k ELSE k+1
  <2>1. CASE k < m
    <3>1. k \in 1..m-1 /\ k \in 1..Len(list) /\ k # m
      BY <2>1, <1>2, <1>3
    <3> QED
      BY <3>1, <2>1, <1>8
  <2>2. CASE k >= m
    <3>1. k+1 \in 1..Len(list) /\ rest[k] = list[k+1] /\ k+1 # m
      BY <2>2, <1>2, <1>3, <1>9
    <3> QED
      BY <3>1, <2>2, <1>3
  <2> QED
    BY <1>2, <1>3, <2>1, <2>2
<1>12. IsInjective(rest)
  <2> SUFFICES ASSUME NEW k \in 1..Len(list)-1, NEW j \in 1..Len(list)-1, rest[k] = rest[j]
               PROVE  k = j
    BY <1>7 DEF IsInjective
  <2>1. PICK kk \in 1..Len(list) : rest[k] = list[kk] /\ kk = IF k < m THEN k ELSE k+1
    BY <1>11
  <2>2. PICK jj \in 1..Len(list) : rest[j] = list[jj] /\ jj = IF j < m THEN j ELSE j+1
    BY <1>11
  <2>3. kk = jj
    BY <2>1, <2>2, <1>10
  <2> QED
    BY <2>1, <2>2, <2>3, <1>2, <1>3
<1>13. ASSUME NEW k \in 1..Len(list), k # m
       PROVE  \E j \in 1..Len(list)-1 : rest[j] = list[k]
  <2>1. CASE k < m
    BY <2>1, <1>2, <1>3, <1>8
  <2>2. CASE k > m
    <3>1. k-1 \in m..Len(list)-1 /\ k-1 \in 1..Len(list)-1 /\ k-1+1 = k
      BY <2>2, <1>2, <1>3
    <3>2. rest[k-1] = list[k]
      BY <3>1, <1>9
    <3> QED
      BY <3>1, <3>2
  <2> QED
    BY <1>13, <1>2, <1>3, <2>1, <2>2
<1>14. ASSUME NEW x
       PROVE  x \in {rest[k] : k \in DOMAIN rest} <=> x \in {list[k] : k \in DOMAIN list} \ {c}
  <2>1. ASSUME NEW k \in DOMAIN rest, x = rest[k]
        PROVE  x \in {list[j] : j \in DOMAIN list} \ {c}
    <3>1. PICK j \in 1..Len(list) : rest[k] = list[j] /\ j # m
      BY <1>7, <1>11
    <3>2. list[j] # c
      BY <3>1, <1>3, <1>10
    <3> QED
      BY <2>1, <3>1, <3>2, <1>2
  <2>2. ASSUME NEW k \in DOMAIN list, x = list[k], x # c
        PROVE  x \in {rest[j] : j \in DOMAIN rest}
    BY <2>2, <1>2, <1>3, <1>7, <1>13
  <2> QED
    BY <2>1, <2>2
<1>15. {rest[k] : k \in DOMAIN rest} = {list[k] : k \in DOMAIN list} \ {c}
  BY <1>14
<1>16. Unlink(list, c) \in Seq(Caches)
  BY <1>1, <1>6
<1>17. IsInjective(Unlink(list, c))
  BY <1>1, <1>12
<1>18. {Unlink(list, c)[k] : k \in DOMAIN Unlink(list, c)} = {list[k] : k \in DOMAIN list} \ {c}
  BY <1>1, <1>15
<1> QED
  BY <1>16, <1>17, <1>18

\* Linking a cache that is not linked adds it and links nothing twice.
LEMMA AppendElement ==
  ASSUME NEW list \in Seq(Caches), IsInjective(list), NEW c \in Caches,
         c \notin {list[k] : k \in DOMAIN list}
  PROVE  /\ Append(list, c) \in Seq(Caches)
         /\ IsInjective(Append(list, c))
         /\ {Append(list, c)[k] : k \in DOMAIN Append(list, c)} = {list[k] : k \in DOMAIN list} \cup {c}
<1> DEFINE more == Append(list, c)
<1>1. /\ more \in Seq(Caches) /\ Len(more) = Len(list) + 1 /\ more[Len(list)+1] = c
      /\ \A k \in 1..Len(list) : more[k] = list[k]
  OBVIOUS
<1>2. /\ Len(list) \in Nat /\ DOMAIN list = 1..Len(list)
      /\ DOMAIN more = 1..Len(list)+1
  BY <1>1
<1> HIDE DEF more
<1>3. \A k \in 1..Len(list) : list[k] # c
  BY <1>2
<1>4. IsInjective(more)
  <2> SUFFICES ASSUME NEW k \in 1..Len(list)+1, NEW j \in 1..Len(list)+1, more[k] = more[j]
               PROVE  k = j
    BY <1>2 DEF IsInjective
  <2>1. CASE k \in 1..Len(list) /\ j \in 1..Len(list)
    BY <2>1, <1>1, <1>2 DEF IsInjective
  <2>2. CASE k = Len(list)+1 \/ j = Len(list)+1
    BY <2>2, <1>1, <1>2, <1>3
  <2> QED
    BY <1>2, <2>1, <2>2
<1>5. ASSUME NEW x
      PROVE  x \in {more[k] : k \in DOMAIN more} <=> x \in {list[k] : k \in DOMAIN list} \cup {c}
  <2>1. ASSUME NEW k \in DOMAIN more, x = more[k]
        PROVE  x \in {list[j] : j \in DOMAIN list} \cup {c}
    <3>1. k \in 1..Len(list) \/ k = Len(list)+1
      BY <1>2
    <3> QED
      BY <2>1, <3>1, <1>1, <1>2
  <2>2. ASSUME NEW k \in DOMAIN list, x = list[k]
        PROVE  x \in {more[j] : j \in DOMAIN more}
    <3>1. k \in DOMAIN more /\ more[k] = x
      BY <2>2, <1>1, <1>2
    <3> QED
      BY <3>1
  <2>3. Len(list)+1 \in DOMAIN more /\ more[Len(list)+1] = c
    BY <1>1, <1>2
  <2> QED
    BY <2>1, <2>2, <2>3
<1>6. {more[k] : k \in DOMAIN more} = {list[k] : k \in DOMAIN list} \cup {c}
  BY <1>5
<1> QED
  BY <1>1, <1>4, <1>6 DEF more

\* An idle cache is linked in the list of its backend.
LEMMA IdleIsLinked ==
  ASSUME TypeOK, IdleInv, ListInv, NEW c \in Caches, idle[c]
  PROVE  /\ ListOf(c) = data[c] /\ data[c] \in Backend
         /\ \E k \in DOMAIN idleList[data[c]] : idleList[data[c]][k] = c
<1>1. data[c] \in Backend /\ ListOf(c) = data[c]
  BY DEF TypeOK, CacheTypes, ListTypes, IdleInv, ListOf, Backend
<1>2. c \in Elements(data[c])
  BY <1>1 DEF ListInv
<1> QED
  BY <1>1, <1>2 DEF Elements

\* idle_unlink keeps the lists in step with the idle flags.
LEMMA UnlinkKeepsLists ==
  ASSUME TypeOK, IdleInv, ListInv, NEW c \in Caches, idle[c], IdleUnlink(c), UNCHANGED data
  PROVE  ListInv' /\ idleList' \in [Backend -> Seq(Caches)]
<1>1. /\ ListOf(c) = data[c] /\ data[c] \in Backend
      /\ \E k \in DOMAIN idleList[data[c]] : idleList[data[c]][k] = c
  BY IdleIsLinked
<1>2. idleList[data[c]] \in Seq(Caches) /\ IsInjective(idleList[data[c]])
  BY <1>1 DEF TypeOK, CacheTypes, ListTypes, ListInv
<1> DEFINE rest == Unlink(idleList[data[c]], c)
<1>3. /\ rest \in Seq(Caches) /\ IsInjective(rest)
      /\ {rest[k] : k \in DOMAIN rest} = Elements(data[c]) \ {c}
  BY <1>1, <1>2, UnlinkElement DEF Elements
<1>4. /\ idleList' = [idleList EXCEPT ![data[c]] = rest]
      /\ idle' = [idle EXCEPT ![c] = FALSE]
  BY <1>1 DEF IdleUnlink
<1> HIDE DEF rest
<1>5. idleList' \in [Backend -> Seq(Caches)]
  BY <1>1, <1>3, <1>4 DEF TypeOK, CacheTypes, ListTypes
<1>6. ASSUME NEW b \in Backend
      PROVE  /\ IsInjective(idleList'[b])
             /\ Elements(b)' = {d \in Caches : idle'[d] /\ data'[d] = b}
  <2>1. CASE b = data[c]
    <3>1. idleList'[b] = rest
      BY <2>1, <1>1, <1>4 DEF TypeOK, CacheTypes, ListTypes
    <3>2. Elements(b)' = Elements(b) \ {c}
      <4>1. Elements(b)' = {rest[k] : k \in DOMAIN rest}
        BY <3>1 DEF Elements
      <4> QED
        BY <4>1, <2>1, <1>3
    <3>3. {d \in Caches : idle'[d] /\ data'[d] = b} = {d \in Caches : idle[d] /\ data[d] = b} \ {c}
      BY <1>4 DEF TypeOK, CacheTypes, ListTypes
    <3> QED
      BY <3>1, <3>2, <3>3, <1>3 DEF ListInv
  <2>2. CASE b # data[c]
    <3>1. idleList'[b] = idleList[b]
      BY <2>2, <1>1, <1>4 DEF TypeOK, CacheTypes, ListTypes
    <3>2. {d \in Caches : idle'[d] /\ data'[d] = b} = {d \in Caches : idle[d] /\ data[d] = b}
      BY <2>2, <1>4 DEF TypeOK, CacheTypes, ListTypes
    <3> QED
      BY <3>1, <3>2 DEF ListInv, Elements
  <2> QED
    BY <2>1, <2>2
<1> QED
  BY <1>5, <1>6 DEF ListInv

\* So does idle_push.
LEMMA PushKeepsLists ==
  ASSUME TypeOK, ListInv, NEW c \in Caches, ~idle[c], data[c] # "none", IdlePush(c), UNCHANGED data
  PROVE  ListInv' /\ idleList' \in [Backend -> Seq(Caches)]
<1>1. data[c] \in Backend /\ ListOf(c) = data[c]
  BY DEF TypeOK, CacheTypes, ListTypes, ListOf, Backend
<1>2. idleList[data[c]] \in Seq(Caches) /\ IsInjective(idleList[data[c]])
  BY <1>1 DEF TypeOK, CacheTypes, ListTypes, ListInv
<1>3. c \notin Elements(data[c])
  BY <1>1 DEF ListInv
<1> DEFINE more == Append(idleList[data[c]], c)
<1>4. /\ more \in Seq(Caches) /\ IsInjective(more)
      /\ {more[k] : k \in DOMAIN more} = Elements(data[c]) \cup {c}
  BY <1>2, <1>3, AppendElement DEF Elements
<1>5. /\ idleList' = [idleList EXCEPT ![data[c]] = more]
      /\ idle' = [idle EXCEPT ![c] = TRUE]
  BY <1>1 DEF IdlePush
<1> HIDE DEF more
<1>6. idleList' \in [Backend -> Seq(Caches)]
  BY <1>1, <1>4, <1>5 DEF TypeOK, CacheTypes, ListTypes
<1>7. ASSUME NEW b \in Backend
      PROVE  /\ IsInjective(idleList'[b])
             /\ Elements(b)' = {d \in Caches : idle'[d] /\ data'[d] = b}
  <2>1. CASE b = data[c]
    <3>1. idleList'[b] = more
      BY <2>1, <1>1, <1>5 DEF TypeOK, CacheTypes, ListTypes
    <3>2. Elements(b)' = Elements(b) \cup {c}
      <4>1. Elements(b)' = {more[k] : k \in DOMAIN more}
        BY <3>1 DEF Elements
      <4> QED
        BY <4>1, <2>1, <1>4
    <3>3. {d \in Caches : idle'[d] /\ data'[d] = b} = {d \in Caches : idle[d] /\ data[d] = b} \cup {c}
      BY <1>5, <2>1 DEF TypeOK, CacheTypes, ListTypes
    <3> QED
      BY <3>1, <3>2, <3>3, <1>4 DEF ListInv
  <2>2. CASE b # data[c]
    <3>1. idleList'[b] = idleList[b]
      BY <2>2, <1>1, <1>5 DEF TypeOK, CacheTypes, ListTypes
    <3>2. {d \in Caches : idle'[d] /\ data'[d] = b} = {d \in Caches : idle[d] /\ data[d] = b}
      BY <2>2, <1>5 DEF TypeOK, CacheTypes, ListTypes
    <3> QED
      BY <3>1, <3>2 DEF ListInv, Elements
  <2> QED
    BY <2>1, <2>2
<1> QED
  BY <1>6, <1>7 DEF ListInv

\* The oldest cache of a list is idle.
LEMMA OldestIsIdle ==
  ASSUME TypeOK, ListInv, NEW b \in Backend, idleList[b] # <<>>
  PROVE  Head(idleList[b]) \in Caches /\ idle[Head(idleList[b])] /\ data[Head(idleList[b])] = b
<1>1. idleList[b] \in Seq(Caches)
  BY DEF TypeOK, CacheTypes, ListTypes
<1>2. 1 \in DOMAIN idleList[b] /\ Head(idleList[b]) = idleList[b][1]
  BY <1>1
<1>3. Head(idleList[b]) \in Elements(b)
  BY <1>2 DEF Elements
<1> QED
  BY <1>3 DEF ListInv

-----------------------------------------------------------------------------
(* Every action preserves the types.                                       *)

\* The caches of running operations are allocated, so they have a size.
LEMMA SizeIsNat ==
  ASSUME TypeOK, NEW c \in Caches, Allocated(c)
  PROVE  Size(c) \in Nat
BY DEF TypeOK, CacheTypes, Allocated, Size

\* A file whose operation is running has an allocated cache.
LEMMA FileHasCache ==
  ASSUME TypeOK, PcInv, UseInv, NEW f \in Files, pc[f] \notin {"closed", "trim", "destroy"}
  PROVE  cache[f] \in Caches /\ Allocated(cache[f]) /\ Size(cache[f]) \in Nat
<1>1. cache[f] # None
  BY DEF PcInv
<1>2. cache[f] \in Caches
  BY <1>1 DEF TypeOK, FileTypes
<1>3. Allocated(cache[f])
  BY <1>1 DEF UseInv
<1> QED
  BY <1>2, <1>3, SizeIsNat

\* vfs_file_open, with a new cache or a shared one, keeps every type.
LEMMA OpenTypes ==
  ASSUME IInv, NEW f \in Files, NEW i \in Identities, NEW c \in Caches,
         OpenNew(f, i, c) \/ OpenShared(f, i)
  PROVE  TypeOK'
<1> USE DEF Goto
<1>0. /\ CacheTypes /\ ListTypes /\ FileTypes /\ IndexTypes
      /\ TypeOK /\ IdleInv /\ ListInv
  BY DEF IInv, TypeOK
<1>1. CASE OpenNew(f, i, c)
  <2>1. target[i] \in Packages
    BY <1>0 DEF IndexTypes
  <2>2. CacheTypes'
    BY <1>0, <1>1, <2>1 DEF OpenNew, OpenFile, CreateCache, CacheTypes, Backend
  <2>3. ListTypes'
    BY <1>0, <1>1 DEF OpenNew, OpenFile, ListTypes, listVars
  <2>4. FileTypes'
    BY <1>0, <1>1 DEF OpenNew, OpenFile, FileTypes, FilePC
  <2>5. IndexTypes'
    BY <1>0, <1>1 DEF OpenNew, OpenFile, CreateCache, IndexTypes
  <2> QED
    BY <2>2, <2>3, <2>4, <2>5 DEF TypeOK
<1>2. CASE OpenShared(f, i)
  <2>1. table[i] \in Caches
    BY <1>0, <1>2 DEF OpenShared, ListTypes
  <2>2. idleList' \in [Backend -> Seq(Caches)] /\ idleBytes' \in [Backend -> Int]
    <3>1. CASE idle[table[i]]
      <4>1. IdleUnlink(table[i]) /\ UNCHANGED data
        BY <1>2, <3>1 DEF OpenShared
      <4>2. Size(table[i]) \in Nat
        BY <1>0, <2>1, <3>1, SizeIsNat DEF IdleInv
      <4>3. idleList' \in [Backend -> Seq(Caches)]
        BY <1>0, <2>1, <3>1, <4>1, UnlinkKeepsLists
      <4>4. ListOf(table[i]) \in Backend /\ idleBytes[ListOf(table[i])] \in Int
        BY <1>0 DEF ListOf, Backend, ListTypes
      <4>5. idleBytes' \in [Backend -> Int]
        BY <1>0, <4>1, <4>2, <4>4 DEF IdleUnlink, ListTypes
      <4> QED
        BY <4>3, <4>5
    <3>2. CASE ~idle[table[i]]
      BY <1>0, <1>2, <3>2 DEF OpenShared, listVars, ListTypes
    <3> QED
      BY <3>1, <3>2
  <2>3. CacheTypes'
    <3>1. idle' \in [Caches -> BOOLEAN]
      <4>1. idle' = [idle EXCEPT ![table[i]] = FALSE] \/ idle' = idle
        BY <1>2 DEF OpenShared, IdleUnlink
      <4> QED
        BY <1>0, <4>1 DEF CacheTypes
    <3>2. refs' \in [Caches -> Nat]
      BY <1>0, <1>2, <2>1 DEF OpenShared, CacheTypes
    <3> QED
      BY <1>0, <1>2, <3>1, <3>2 DEF OpenShared, OpenFile, CacheTypes
  <2>4. ListTypes'
    BY <1>0, <1>2, <2>2 DEF OpenShared, OpenFile, ListTypes
  <2>5. FileTypes'
    BY <1>0, <1>2, <2>1 DEF OpenShared, OpenFile, FileTypes, FilePC
  <2>6. IndexTypes'
    BY <1>0, <1>2 DEF OpenShared, OpenFile, IndexTypes
  <2> QED
    BY <2>3, <2>4, <2>5, <2>6 DEF TypeOK
<1> QED
  BY <1>1, <1>2

\* The steps of a read (vfs_file_read) that do not look for room in memory keep
\* every type.
LEMMA ReadTypes ==
  ASSUME IInv, NEW f \in Files,
         \/ Prepare(f) \/ LockCache(f) \/ TryReserve(f) \/ Allocate(f) \/ CreateDisk(f)
         \/ Decode(f) \/ StoreData(f) \/ Publish(f) \/ Read(f)
  PROVE  TypeOK'
<1> USE DEF Goto, FilePC, Held
<1>0. /\ CacheTypes /\ ListTypes /\ FileTypes /\ IndexTypes
      /\ TypeOK /\ PcInv /\ UseInv
  BY DEF IInv, TypeOK
<1>a. pc[f] \notin {"closed", "trim", "destroy"}
  BY DEF Prepare, LockCache, TryReserve, Allocate, CreateDisk, Decode, StoreData, Publish, Read
<1>b. cache[f] \in Caches /\ Allocated(cache[f]) /\ Size(cache[f]) \in Nat
  BY <1>0, <1>a, FileHasCache
<1>1. CASE Prepare(f) \/ Read(f)
  <2>1. CacheTypes' /\ ListTypes' /\ IndexTypes'
    BY <1>0, <1>1 DEF Prepare, Read, CacheTypes, ListTypes, IndexTypes, cacheVars, listVars, indexVars
  <2>2. FileTypes'
    BY <1>0, <1>1 DEF Prepare, Read, FileTypes
  <2> QED
    BY <2>1, <2>2 DEF TypeOK
<1>2. CASE LockCache(f)
  <2>1. CacheTypes'
    BY <1>0, <1>2 DEF LockCache, CacheTypes
  <2>2. ListTypes' /\ IndexTypes'
    BY <1>0, <1>2 DEF LockCache, ListTypes, IndexTypes, listVars, indexVars
  <2>3. FileTypes'
    BY <1>0, <1>2 DEF LockCache, FileTypes
  <2> QED
    BY <2>1, <2>2, <2>3 DEF TypeOK
<1>3. CASE TryReserve(f) \/ Allocate(f)
  <2>1. CacheTypes' /\ IndexTypes'
    BY <1>0, <1>3 DEF TryReserve, Allocate, CacheTypes, IndexTypes, cacheVars, indexVars
  <2>2. ListTypes'
    BY <1>0, <1>3, <1>b DEF TryReserve, Allocate, ListTypes, listVars
  <2>3. FileTypes'
    BY <1>0, <1>3 DEF TryReserve, Allocate, FileTypes, Backend
  <2> QED
    BY <2>1, <2>2, <2>3 DEF TypeOK
<1>4. CASE CreateDisk(f) \/ Decode(f)
  <2>1. CacheTypes'
    BY <1>0, <1>4 DEF CreateDisk, Decode, DecodeFailed, CacheTypes
  <2>2. ListTypes'
    BY <1>0, <1>4, <1>b DEF CreateDisk, Decode, DecodeFailed, ListTypes, listVars
  <2>3. FileTypes'
    BY <1>0, <1>4 DEF CreateDisk, Decode, DecodeFailed, FileTypes, Backend
  <2>4. IndexTypes'
    BY <1>0, <1>4 DEF CreateDisk, Decode, IndexTypes, indexVars
  <2> QED
    BY <2>1, <2>2, <2>3, <2>4 DEF TypeOK
<1>5. CASE StoreData(f)
  <2>1. store[f] \in Backend \cup {"none"}
    BY <1>0 DEF FileTypes
  <2>2. CacheTypes'
    BY <1>0, <1>5, <2>1 DEF StoreData, CacheTypes
  <2>3. ListTypes'
    BY <1>0, <1>5 DEF StoreData, ListTypes, listVars
  <2>4. FileTypes'
    BY <1>0, <1>5 DEF StoreData, FileTypes
  <2>5. IndexTypes'
    <3>1. origin[cache[f]] \in Packages
      BY <1>0, <1>b DEF CacheTypes, Allocated
    <3>2. packageRefs[origin[cache[f]]] \in Int
      BY <1>0, <3>1 DEF IndexTypes
    <3> QED
      BY <1>0, <1>5, <3>1, <3>2 DEF StoreData, IndexTypes
  <2> QED
    BY <2>2, <2>3, <2>4, <2>5 DEF TypeOK
<1>6. CASE Publish(f)
  <2>1. CacheTypes'
    BY <1>0, <1>6 DEF Publish, CacheTypes
  <2>2. ListTypes' /\ IndexTypes'
    BY <1>0, <1>6 DEF Publish, ListTypes, IndexTypes, listVars, indexVars
  <2>3. FileTypes'
    BY <1>0, <1>6 DEF Publish, FileTypes
  <2> QED
    BY <2>1, <2>2, <2>3 DEF TypeOK
<1> QED
  BY <1>1, <1>2, <1>3, <1>4, <1>5, <1>6

\* idle_evict of an idle cache leaves sequences in the lists and integers in
\* their byte counts.
LEMMA EvictTypes ==
  ASSUME IInv, NEW v \in Caches, idle[v], IdleEvict(v), UNCHANGED data
  PROVE  /\ idleList' \in [Backend -> Seq(Caches)] /\ idleBytes' \in [Backend -> Int]
         /\ idle' \in [Caches -> BOOLEAN] /\ table' \in [Identities -> Caches \cup {None}]
<1>0. CacheTypes /\ ListTypes /\ TypeOK /\ IdleInv /\ ListInv
  BY DEF IInv, TypeOK
<1>1. idleList' \in [Backend -> Seq(Caches)]
  BY <1>0, UnlinkKeepsLists DEF IdleEvict
<1>2. Size(v) \in Nat
  BY <1>0, SizeIsNat DEF IdleInv
<1>3. idleBytes' \in [Backend -> Int]
  <2>1. ListOf(v) \in Backend /\ idleBytes[ListOf(v)] \in Int
    BY <1>0 DEF ListOf, Backend, ListTypes
  <2> QED
    BY <1>0, <1>2, <2>1 DEF IdleEvict, IdleUnlink, ListTypes
<1>4. idle' \in [Caches -> BOOLEAN]
  BY <1>0 DEF IdleEvict, IdleUnlink, CacheTypes
<1>5. table' \in [Identities -> Caches \cup {None}]
  BY <1>0 DEF IdleEvict, CacheForget, ListTypes, CacheTypes
<1> QED
  BY <1>1, <1>3, <1>4, <1>5

\* Making room in memory and trimming the temporary files keep every type.
LEMMA EvictionTypes ==
  ASSUME IInv, NEW f \in Files, MakeRoom(f) \/ Trim(f)
  PROVE  TypeOK'
<1> USE DEF Goto, FilePC, Held
<1>0. /\ CacheTypes /\ ListTypes /\ FileTypes /\ IndexTypes
      /\ TypeOK /\ IdleInv /\ ListInv
  BY DEF IInv, TypeOK
<1>1. CASE MakeRoom(f) /\ ~RoomCanBeMade(Size(cache[f]))
  <2>1. CacheTypes' /\ ListTypes' /\ IndexTypes'
    BY <1>0, <1>1 DEF MakeRoom, CacheTypes, ListTypes, IndexTypes, listVars, indexVars
  <2>2. FileTypes'
    BY <1>0, <1>1 DEF MakeRoom, FileTypes
  <2> QED
    BY <2>1, <2>2 DEF TypeOK
<1>2. CASE MakeRoom(f) /\ RoomCanBeMade(Size(cache[f]))
  <2> DEFINE v == Head(idleList["memory"])
  <2>1. v \in Caches /\ idle[v]
    BY <1>0, <1>2, OldestIsIdle DEF RoomCanBeMade, Backend
  <2>2. /\ IdleEvict(v)
        /\ doomed' = [doomed EXCEPT ![f] = {v}] /\ pc' = [pc EXCEPT ![f] = "evict"]
        /\ UNCHANGED <<ident, origin, retained, owner, published, data, refs, detached,
                       memoryUsed, lock, cache, store, failed, indexVars>>
    BY <1>2 DEF MakeRoom
  <2> HIDE DEF v
  <2>3. /\ idleList' \in [Backend -> Seq(Caches)] /\ idleBytes' \in [Backend -> Int]
        /\ idle' \in [Caches -> BOOLEAN] /\ table' \in [Identities -> Caches \cup {None}]
    BY <2>1, <2>2, EvictTypes
  <2>4. CacheTypes' /\ ListTypes' /\ IndexTypes'
    BY <1>0, <2>2, <2>3 DEF CacheTypes, ListTypes, IndexTypes, indexVars
  <2>5. FileTypes'
    BY <1>0, <2>1, <2>2 DEF FileTypes
  <2> QED
    BY <2>4, <2>5 DEF TypeOK
<1>3. CASE Trim(f)
  <2> DEFINE v == Head(idleList["disk"])
  <2>1. v \in Caches /\ idle[v]
    BY <1>0, <1>3, OldestIsIdle DEF Trim, Backend
  <2>2. /\ IdleEvict(v)
        /\ doomed' = [doomed EXCEPT ![f] = @ \cup {v}]
        /\ lock' \in {lock, None} /\ pc' \in {pc, [pc EXCEPT ![f] = "destroy"]}
        /\ UNCHANGED <<ident, origin, retained, owner, published, data, refs, detached,
                       memoryUsed, cache, store, failed, indexVars>>
    BY <1>3 DEF Trim
  <2> HIDE DEF v
  <2>3. /\ idleList' \in [Backend -> Seq(Caches)] /\ idleBytes' \in [Backend -> Int]
        /\ idle' \in [Caches -> BOOLEAN] /\ table' \in [Identities -> Caches \cup {None}]
    BY <2>1, <2>2, EvictTypes
  <2>4. CacheTypes' /\ ListTypes' /\ IndexTypes'
    BY <1>0, <2>2, <2>3 DEF CacheTypes, ListTypes, IndexTypes, indexVars
  <2>5. FileTypes'
    BY <1>0, <2>1, <2>2 DEF FileTypes, Actors
  <2> QED
    BY <2>4, <2>5 DEF TypeOK
<1> QED
  BY <1>1, <1>2, <1>3

\* The three ways vfs_file_close lets a cache go keep every type.
LEMMA CloseTypes ==
  ASSUME IInv, NEW f \in Files, CloseShared(f) \/ CloseIdle(f) \/ CloseUnused(f)
  PROVE  TypeOK'
<1> USE DEF Goto, FilePC
<1>0. /\ CacheTypes /\ ListTypes /\ FileTypes /\ IndexTypes
      /\ TypeOK /\ PcInv /\ UseInv /\ CountInv /\ IdleInv /\ ListInv
  BY DEF IInv, TypeOK
<1>a. pc[f] = "open"
  BY DEF CloseShared, CloseIdle, CloseUnused
<1>b. cache[f] \in Caches /\ Allocated(cache[f]) /\ Size(cache[f]) \in Nat
  BY <1>0, <1>a, FileHasCache
<1>1. CASE CloseShared(f)
  <2>1. f \in Users(cache[f])
    BY DEF Users
  <2>2. refs[cache[f]] - 1 \in Nat
    <3>1. Cardinality(Users(cache[f])) # 0
      BY <2>1, UsersFinite, FS_EmptySet
    <3> QED
      BY <1>0, <1>b, <3>1, UsersFinite DEF CountInv
  <2>3. CacheTypes'
    BY <1>0, <1>1, <1>b, <2>2 DEF CloseShared, CacheTypes
  <2>4. ListTypes' /\ IndexTypes'
    BY <1>0, <1>1 DEF CloseShared, ListTypes, IndexTypes, listVars, indexVars
  <2>5. FileTypes'
    BY <1>0, <1>1 DEF CloseShared, FileTypes
  <2> QED
    BY <2>3, <2>4, <2>5 DEF TypeOK
<1>2. CASE CloseIdle(f)
  <2>1. ~idle[cache[f]] /\ data[cache[f]] # "none"
    BY <1>0, <1>2, <1>b DEF CloseIdle, IdleInv, Keepable
  <2>2. IdlePush(cache[f]) /\ UNCHANGED data
    BY <1>2 DEF CloseIdle
  <2>3. idleList' \in [Backend -> Seq(Caches)]
    BY <1>0, <1>b, <2>1, <2>2, PushKeepsLists
  <2>4. CacheTypes'
    BY <1>0, <1>2 DEF CloseIdle, IdlePush, CacheTypes
  <2>5. idleBytes' \in [Backend -> Int]
    <3>1. ListOf(cache[f]) \in Backend /\ idleBytes[ListOf(cache[f])] \in Int
      BY <1>0 DEF ListOf, Backend, ListTypes
    <3> QED
      BY <1>0, <1>b, <2>2, <3>1 DEF IdlePush, ListTypes
  <2>6. ListTypes'
    BY <1>0, <1>2, <2>3, <2>5 DEF CloseIdle, ListTypes
  <2>7. FileTypes'
    BY <1>0, <1>2 DEF CloseIdle, FileTypes
  <2>8. IndexTypes'
    BY <1>0, <1>2 DEF CloseIdle, IndexTypes, indexVars
  <2> QED
    BY <2>4, <2>6, <2>7, <2>8 DEF TypeOK
<1>3. CASE CloseUnused(f)
  <2>1. CacheTypes'
    BY <1>0, <1>3 DEF CloseUnused, CacheTypes
  <2>2. ListTypes'
    BY <1>0, <1>3 DEF CloseUnused, CacheForget, ListTypes, listVars
  <2>3. FileTypes'
    BY <1>0, <1>3, <1>b DEF CloseUnused, FileTypes
  <2>4. IndexTypes'
    BY <1>0, <1>3 DEF CloseUnused, IndexTypes, indexVars
  <2> QED
    BY <2>1, <2>2, <2>3, <2>4 DEF TypeOK
<1> QED
  BY <1>1, <1>2, <1>3

\* cache_destroy, outside of the lock, keeps every type.
LEMMA DestroyTypes ==
  ASSUME IInv, NEW a \in Actors, NEW c \in Caches, Destroy(a, c)
  PROVE  TypeOK'
<1>0. /\ CacheTypes /\ ListTypes /\ FileTypes /\ IndexTypes
      /\ TypeOK /\ PcInv /\ DoomInv
  BY DEF IInv, TypeOK
<1>1. Allocated(c)
  BY <1>0 DEF Destroy, DoomInv
<1>2. Size(c) \in Nat
  BY <1>0, <1>1, SizeIsNat
<1>3. origin[c] \in Packages
  BY <1>0, <1>1 DEF Allocated, CacheTypes
<1>4. CacheTypes'
  BY <1>0 DEF Destroy, CacheTypes
<1>5. ListTypes'
  BY <1>0, <1>2 DEF Destroy, ListTypes, listVars
<1>6. pc' \in [Files -> FilePC]
  <2>1. CASE a \in Files /\ doomed[a] = {c}
    <3>1. pc[a] \in {"evict", "trim", "destroy"}
      BY <1>0, <2>1 DEF PcInv
    <3>2. pc[a] # "trim"
      BY <1>0, <2>1 DEF PcInv, Destroy
    <3>3. AfterDestroy[pc[a]] \in FilePC
      BY <3>1, <3>2 DEF AfterDestroy, FilePC, Held
    <3> QED
      BY <1>0, <2>1, <3>3 DEF Destroy, Goto, FileTypes
  <2>2. CASE ~(a \in Files /\ doomed[a] = {c})
    BY <1>0, <2>2 DEF Destroy, FileTypes
  <2> QED
    BY <2>1, <2>2
<1>7. FileTypes'
  BY <1>0, <1>6 DEF Destroy, FileTypes
<1>8. IndexTypes'
  BY <1>0, <1>3 DEF Destroy, IndexTypes
<1> QED
  BY <1>4, <1>5, <1>7, <1>8 DEF TypeOK

\* Adding packages, dropping the caches and closing the archives of the index
\* keep every type.
LEMMA LoaderTypes ==
  ASSUME IInv, LoaderStep
  PROVE  TypeOK'
<1>0. /\ CacheTypes /\ ListTypes /\ FileTypes /\ IndexTypes /\ PendingInv
  BY DEF IInv, TypeOK
<1>1. ASSUME DropCaches,
             UNCHANGED <<ident, origin, retained, owner, published, data, refs, memoryUsed, lock,
                         pc, cache, store, failed>>
      PROVE  CacheTypes' /\ ListTypes' /\ FileTypes'
  <2>1. CacheTypes'
    BY <1>0, <1>1 DEF DropCaches, CacheTypes
  <2>2. ListTypes'
    BY <1>0, <1>1 DEF DropCaches, ListTypes, Backend
  <2>3. FileTypes'
    BY <1>0, <1>1 DEF DropCaches, FileTypes
  <2> QED
    BY <2>1, <2>2, <2>3
<1>2. ASSUME NEW p \in Packages, InsertPackage(p)
      PROVE  TypeOK'
  <2>1. CacheTypes' /\ ListTypes' /\ FileTypes'
    BY <1>1, <1>2 DEF InsertPackage
  <2>2. IndexTypes'
    BY <1>0, <1>2 DEF InsertPackage, IndexTypes, LoaderPC
  <2> QED
    BY <2>1, <2>2 DEF TypeOK
<1>3. ASSUME NEW overridden \in SUBSET Identities, PointEntries(overridden)
      PROVE  TypeOK'
  <2>1. CacheTypes' /\ ListTypes' /\ FileTypes'
    BY <1>0, <1>3 DEF PointEntries, CacheTypes, ListTypes, FileTypes, cacheVars, listVars, fileVars
  <2>2. pending \in Packages
    BY <1>0, <1>3 DEF PointEntries, PendingInv, IndexTypes
  <2>3. IndexTypes'
    BY <1>0, <1>3, <2>2 DEF PointEntries, IndexTypes, LoaderPC
  <2> QED
    BY <2>1, <2>3 DEF TypeOK
<1>4. CASE Uninit
  <2>1. CacheTypes' /\ ListTypes' /\ FileTypes'
    BY <1>1, <1>4 DEF Uninit
  <2>2. IndexTypes'
    BY <1>0, <1>4 DEF Uninit, IndexTypes, LoaderPC
  <2> QED
    BY <2>1, <2>2 DEF TypeOK
<1>5. CASE ClosePackages
  <2>1. CacheTypes' /\ ListTypes' /\ FileTypes'
    BY <1>0, <1>5 DEF ClosePackages, CacheTypes, ListTypes, FileTypes, cacheVars, listVars, fileVars
  <2>2. IndexTypes'
    BY <1>0, <1>5 DEF ClosePackages, IndexTypes, LoaderPC
  <2> QED
    BY <2>1, <2>2 DEF TypeOK
<1> QED
  BY <1>2, <1>3, <1>4, <1>5 DEF LoaderStep

\* Every step of the caches keeps every type.
LEMMA TypeStep == IInv /\ [Next]_vars => TypeOK'
<1> SUFFICES ASSUME IInv, [Next]_vars
             PROVE  TypeOK'
  OBVIOUS
<1>1. ASSUME NEW f \in Files, Open(f)
      PROVE  TypeOK'
  <2>1. PICK i \in Identities : OpenShared(f, i) \/ \E c \in Caches : OpenNew(f, i, c)
    BY <1>1 DEF Open
  <2>2. CASE OpenShared(f, i)
    <3>1. table[i] \in Caches
      BY <2>2 DEF OpenShared, IInv, TypeOK, ListTypes
    <3> QED
      BY <2>2, <3>1, OpenTypes
  <2> QED
    BY <2>1, <2>2, OpenTypes
<1>2. ASSUME NEW f \in Files, FileStep(f)
      PROVE  TypeOK'
  BY <1>2, ReadTypes, EvictionTypes, CloseTypes DEF FileStep
<1>3. CASE UNCHANGED vars
  BY <1>3 DEF IInv, TypeOK, CacheTypes, ListTypes, FileTypes, IndexTypes,
     vars, cacheVars, listVars, fileVars, indexVars
<1> QED
  BY <1>1, <1>2, <1>3, DestroyTypes, LoaderTypes DEF Next

-----------------------------------------------------------------------------
(* What an operation does to the set of files that use a cache.            *)

\* A file that opens a cache is one more user of it.
LEMMA UserAdded ==
  ASSUME FileTypes, NEW f \in Files, NEW c \in Caches, cache[f] = None,
         cache' = [cache EXCEPT ![f] = c]
  PROVE  /\ Cardinality(Users(c)') = Cardinality(Users(c)) + 1
         /\ \A d \in Caches : d # c => Users(d)' = Users(d)
         /\ f \in Users(c)'
<1>1. Users(c)' = Users(c) \cup {f} /\ f \notin Users(c)
  BY DEF Users, FileTypes
<1>2. \A d \in Caches : d # c => Users(d)' = Users(d)
  BY DEF Users, FileTypes
<1>3. Cardinality(Users(c) \cup {f}) = Cardinality(Users(c)) + 1
  BY <1>1, UsersFinite, FS_AddElement
<1> QED
  BY <1>1, <1>2, <1>3

\* A file that closes its cache is one user less.
LEMMA UserRemoved ==
  ASSUME FileTypes, NEW f \in Files, NEW c \in Caches, cache[f] = c,
         cache' = [cache EXCEPT ![f] = None]
  PROVE  /\ Cardinality(Users(c)) = Cardinality(Users(c)') + 1
         /\ Users(c)' = Users(c) \ {f}
         /\ Cardinality(Users(c)') \in Nat
         /\ Cardinality(Users(c)') = 0 => Users(c)' = {}
         /\ \A d \in Caches : d # c => Users(d)' = Users(d)
<1>1. Users(c)' = Users(c) \ {f} /\ f \in Users(c)
  BY DEF Users, FileTypes
<1>2. \A d \in Caches : d # c => Users(d)' = Users(d)
  BY DEF Users, FileTypes
<1>3. /\ Cardinality(Users(c) \ {f}) = Cardinality(Users(c)) - 1
      /\ IsFiniteSet(Users(c) \ {f}) /\ Cardinality(Users(c)) \in Nat
  BY <1>1, UsersFinite, FS_RemoveElement
<1>4. /\ Cardinality(Users(c) \ {f}) \in Nat
      /\ Cardinality(Users(c) \ {f}) = 0 => Users(c) \ {f} = {}
  BY <1>3, FS_CardinalityType, FS_EmptySet
<1> QED
  BY <1>1, <1>2, <1>3, <1>4

\* A cache is without users exactly when its count is zero.
LEMMA NoUsers ==
  ASSUME CountInv, NEW c \in Caches, Allocated(c)
  PROVE  refs[c] = 0 <=> Users(c) = {}
BY UsersFinite, FS_EmptySet DEF CountInv

\* Two actors never hold the same cache, and the table holds neither.
LEMMA IdleIsUnused ==
  ASSUME IInv, NEW c \in Caches, idle[c]
  PROVE  /\ Allocated(c) /\ table[ident[c]] = c /\ ~detached[c] /\ ident[c] \in Identities
         /\ Users(c) = {} /\ \A a \in Actors : c \notin doomed[a]
<1>1. Allocated(c) /\ table[ident[c]] = c /\ refs[c] = 0
  BY DEF IInv, IdleInv
<1>2. Users(c) = {}
  BY <1>1, NoUsers DEF IInv
<1>3. ident[c] \in Identities
  BY DEF IInv, TypeOK, CacheTypes
<1>4. ~detached[c] /\ ~Doomed(c)
  BY <1>1, <1>3 DEF IInv, TableInv
<1> QED
  BY <1>1, <1>2, <1>3, <1>4 DEF Doomed

-----------------------------------------------------------------------------
(* The actions preserve the invariant.  RefInv is its part about           *)
(* references; most steps of a read do not touch what it speaks about.     *)

\* The part of the invariant about references, the table and the lists.
RefInv ==
  /\ CountInv /\ UseInv /\ DoomInv /\ ReachInv /\ AttachInv
  /\ TableInv /\ IdleInv /\ ListInv

\* A step that opens, closes, evicts and drops nothing keeps it, if the data of
\* idle caches stays where it is.
LEMMA QuietStep ==
  ASSUME IInv,
         UNCHANGED <<ident, origin, refs, idle, detached, table, idleList, cache, doomed>>,
         \A c \in Caches : idle[c] => data'[c] = data[c],
         data' \in [Caches -> Backend \cup {"none"}]
  PROVE  RefInv'
<1>1. CountInv' /\ UseInv' /\ DoomInv' /\ ReachInv' /\ AttachInv' /\ TableInv'
  BY DEF IInv, CountInv, UseInv, DoomInv, ReachInv, AttachInv, TableInv, Allocated, Users, Doomed
<1>2. IdleInv'
  BY DEF IInv, IdleInv, Allocated
<1>3. ListInv'
  BY DEF IInv, ListInv, Elements
<1> QED
  BY <1>1, <1>2, <1>3 DEF RefInv

\* Decoding fills the cache of a file that is open, so never an idle one
\* (vfs_file_read).
LEMMA ReadStep ==
  ASSUME IInv, NEW f \in Files,
         \/ Prepare(f) \/ LockCache(f) \/ TryReserve(f) \/ Allocate(f) \/ CreateDisk(f)
         \/ Decode(f) \/ StoreData(f) \/ Publish(f) \/ Read(f)
  PROVE  RefInv' /\ PcInv' /\ PendingInv'
<1>0. TypeOK /\ CacheTypes /\ FileTypes /\ PcInv /\ UseInv /\ CountInv /\ IdleInv /\ PendingInv
  BY DEF IInv, TypeOK
<1>1. UNCHANGED <<ident, origin, refs, idle, detached, table, idleList, cache, doomed, lock,
                  loader, pending>>
  BY DEF Prepare, LockCache, TryReserve, Allocate, CreateDisk, Decode, StoreData, Publish, Read,
     cacheVars, listVars, indexVars
<1>2. /\ pc[f] \notin {"closed", "trim", "destroy"}
      /\ pc[f] # "evict"
      /\ \E l \in {"read", "wait", "decode", "todisk", "reserve", "makeroom", "allocate", "store",
                   "publish", "open"} : pc' = [pc EXCEPT ![f] = l]
  BY DEF Prepare, LockCache, TryReserve, Allocate, CreateDisk, Decode, DecodeFailed, StoreData,
     Publish, Read, Goto
<1>3. PcInv'
  BY <1>0, <1>1, <1>2 DEF PcInv, FileTypes
<1>4. CASE StoreData(f)
  <2>1. cache[f] \in Caches /\ Allocated(cache[f])
    BY <1>0, <1>2, FileHasCache
  <2>2. ~idle[cache[f]]
    <3>1. f \in Users(cache[f])
      BY DEF Users
    <3> QED
      BY <2>1, <3>1, IdleIsUnused
  <2>3. data' = [data EXCEPT ![cache[f]] = store[f]]
    BY <1>4 DEF StoreData
  <2>4. /\ \A c \in Caches : idle[c] => data'[c] = data[c]
        /\ data' \in [Caches -> Backend \cup {"none"}]
    BY <1>0, <2>1, <2>2, <2>3 DEF CacheTypes, FileTypes
  <2>5. RefInv'
    BY <1>1, <2>4, QuietStep
  <2> QED
    BY <1>0, <1>1, <1>3, <2>5 DEF PendingInv
<1>5. CASE ~StoreData(f)
  <2>1. UNCHANGED data
    BY <1>5 DEF Prepare, LockCache, TryReserve, Allocate, CreateDisk, Decode, Publish, Read, cacheVars
  <2>2. RefInv'
    BY <1>0, <1>1, <2>1, QuietStep DEF CacheTypes
  <2> QED
    BY <1>0, <1>1, <1>3, <2>2 DEF PendingInv
<1> QED
  BY <1>4, <1>5

\* A new cache is counted once, found by its number and not idle.
LEMMA OpenNewStep ==
  ASSUME IInv, NEW f \in Files, NEW i \in Identities, NEW c \in Caches, OpenNew(f, i, c)
  PROVE  RefInv' /\ PcInv' /\ PendingInv'
<1>0. /\ CacheTypes /\ ListTypes /\ FileTypes /\ IndexTypes /\ PcInv /\ PendingInv
      /\ CountInv /\ UseInv /\ DoomInv /\ ReachInv /\ AttachInv /\ TableInv /\ IdleInv /\ ListInv
  BY DEF IInv, TypeOK
<1>1. /\ pc[f] = "closed" /\ pc' = [pc EXCEPT ![f] = "open"]
      /\ table[i] = None /\ origin[c] = None
      /\ cache' = [cache EXCEPT ![f] = c]
      /\ table' = [table EXCEPT ![i] = c]
      /\ UNCHANGED <<lock, doomed, idleList, loader, pending>>
  BY DEF OpenNew, OpenFile, Goto, listVars, Allocated
<1>2. /\ ident' = [ident EXCEPT ![c] = i]
      /\ origin' = [origin EXCEPT ![c] = target[i]]
      /\ refs' = [refs EXCEPT ![c] = 1]
      /\ idle' = [idle EXCEPT ![c] = FALSE]
      /\ detached' = [detached EXCEPT ![c] = FALSE]
      /\ data' = [data EXCEPT ![c] = "none"]
  BY DEF OpenNew, CreateCache
<1>3. cache[f] = None /\ doomed[f] = {}
  BY <1>0, <1>1 DEF PcInv
<1>4. target[i] \in Packages /\ target[i] # None
  BY <1>0 DEF IndexTypes
<1>5. PcInv'
  BY <1>0, <1>1, <1>3 DEF PcInv, FileTypes
<1>6. Users(c) = {} /\ ~Doomed(c) /\ ~idle[c] /\ \A j \in Identities : table[j] # c
  BY <1>0, <1>1 DEF UseInv, DoomInv, IdleInv, TableInv, Users, Doomed, Allocated
<1>7. /\ Cardinality(Users(c)') = 1 /\ f \in Users(c)'
      /\ \A d \in Caches : d # c => Users(d)' = Users(d)
  <2>1. Cardinality(Users(c)) = 0
    BY <1>6, FS_EmptySet
  <2>2. /\ Cardinality(Users(c)') = Cardinality(Users(c)) + 1
        /\ f \in Users(c)'
        /\ \A d \in Caches : d # c => Users(d)' = Users(d)
    BY <1>0, <1>1, <1>3, UserAdded
  <2> QED
    BY <2>1, <2>2
<1>8. CountInv'
  <2> SUFFICES ASSUME NEW d \in Caches, origin'[d] # None
               PROVE  refs'[d] = Cardinality(Users(d)')
    BY DEF CountInv, Allocated
  <2> QED
    BY <1>0, <1>2, <1>7 DEF CountInv, Allocated, CacheTypes
<1>9. UseInv' /\ DoomInv'
  BY <1>0, <1>1, <1>2, <1>4, <1>6 DEF UseInv, DoomInv, Allocated, Doomed, CacheTypes, FileTypes
<1>10. ReachInv'
  <2> SUFFICES ASSUME NEW d \in Caches, origin'[d] # None, Users(d)' = {}
               PROVE  Doomed(d)' \/ table'[ident'[d]] = d
    BY DEF ReachInv, Allocated
  <2>1. d # c
    BY <1>7
  <2>2. Doomed(d) \/ table[ident[d]] = d
    BY <1>0, <1>2, <1>7, <2>1 DEF ReachInv, Allocated, CacheTypes
  <2>3. CASE Doomed(d)
    BY <1>1, <2>3 DEF Doomed
  <2>4. CASE table[ident[d]] = d
    BY <1>0, <1>1, <1>2, <2>1, <2>4 DEF CacheTypes, ListTypes
  <2> QED
    BY <2>2, <2>3, <2>4
<1>11. AttachInv'
  BY <1>0, <1>1, <1>2, <1>6 DEF AttachInv, CacheTypes, ListTypes, FileTypes
<1>12. TableInv'
  BY <1>0, <1>1, <1>2, <1>4, <1>6 DEF TableInv, Allocated, Doomed, CacheTypes, ListTypes
<1>13. IdleInv'
  <2> SUFFICES ASSUME NEW d \in Caches
               PROVE  /\ idle'[d] <=> origin'[d] # None /\ table'[ident'[d]] = d /\ refs'[d] = 0
                      /\ idle'[d] => data'[d] # "none"
    BY DEF IdleInv, Allocated
  <2>1. CASE d = c
    BY <1>0, <1>2, <2>1 DEF CacheTypes
  <2>2. CASE d # c
    BY <1>0, <1>1, <1>2, <2>2 DEF IdleInv, Allocated, CacheTypes, ListTypes
  <2> QED
    BY <2>1, <2>2
<1>14. ListInv'
  BY <1>0, <1>1, <1>2, <1>6 DEF ListInv, Elements, CacheTypes
<1> QED
  BY <1>0, <1>1, <1>5, <1>8, <1>9, <1>10, <1>11, <1>12, <1>13, <1>14 DEF RefInv, PendingInv

\* A shared cache has one more user, and is not idle any more.
LEMMA OpenSharedStep ==
  ASSUME IInv, NEW f \in Files, NEW i \in Identities, OpenShared(f, i)
  PROVE  RefInv' /\ PcInv' /\ PendingInv'
<1>0. /\ CacheTypes /\ ListTypes /\ FileTypes /\ TypeOK /\ PcInv /\ PendingInv
      /\ CountInv /\ UseInv /\ DoomInv /\ ReachInv /\ AttachInv /\ TableInv /\ IdleInv /\ ListInv
  BY DEF IInv, TypeOK
<1>1. PICK c \in Caches : c = table[i]
  BY <1>0 DEF OpenShared, ListTypes
<1>2. /\ pc[f] = "closed" /\ pc' = [pc EXCEPT ![f] = "open"]
      /\ cache' = [cache EXCEPT ![f] = c]
      /\ refs' = [refs EXCEPT ![c] = @ + 1]
      /\ UNCHANGED <<ident, origin, detached, data, table, lock, doomed, loader, pending>>
  BY <1>1 DEF OpenShared, OpenFile, Goto
<1>3. IF idle[c] THEN IdleUnlink(c) ELSE UNCHANGED <<listVars, idle>>
  BY <1>1 DEF OpenShared
<1>4. cache[f] = None /\ doomed[f] = {}
  BY <1>0, <1>2 DEF PcInv
<1>5. Allocated(c) /\ ident[c] = i /\ ~detached[c] /\ ~Doomed(c)
  BY <1>0, <1>1 DEF TableInv
<1>6. PcInv'
  BY <1>0, <1>2, <1>4 DEF PcInv, FileTypes
<1>7. /\ Cardinality(Users(c)') = Cardinality(Users(c)) + 1 /\ f \in Users(c)'
      /\ \A d \in Caches : d # c => Users(d)' = Users(d)
  BY <1>0, <1>2, <1>4, UserAdded
<1>8. CountInv'
  <2> SUFFICES ASSUME NEW d \in Caches, origin'[d] # None
               PROVE  refs'[d] = Cardinality(Users(d)')
    BY DEF CountInv, Allocated
  <2> QED
    BY <1>0, <1>2, <1>7 DEF CountInv, Allocated, CacheTypes
<1>9. UseInv' /\ DoomInv'
  BY <1>0, <1>2, <1>5 DEF UseInv, DoomInv, Allocated, Doomed, FileTypes
<1>10. ReachInv'
  BY <1>0, <1>2, <1>7 DEF ReachInv, Allocated, Doomed
<1>11. AttachInv' /\ TableInv'
  BY <1>0, <1>1, <1>2, <1>5 DEF AttachInv, TableInv, Allocated, Doomed, FileTypes
<1>12. idle' = [idle EXCEPT ![c] = FALSE]
  BY <1>0, <1>3 DEF IdleUnlink, CacheTypes
<1>13. IdleInv'
  <2>1. refs[c] + 1 # 0
    BY <1>0 DEF CacheTypes
  <2> QED
    BY <1>0, <1>2, <1>12, <2>1 DEF IdleInv, Allocated, CacheTypes
<1>14. ListInv'
  <2>1. CASE idle[c]
    BY <1>0, <1>2, <1>3, <2>1, UnlinkKeepsLists
  <2>2. CASE ~idle[c]
    BY <1>0, <1>2, <1>3, <2>2 DEF ListInv, Elements, listVars
  <2> QED
    BY <2>1, <2>2
<1> QED
  BY <1>0, <1>2, <1>6, <1>8, <1>9, <1>10, <1>11, <1>13, <1>14 DEF RefInv, PendingInv

\* Evicting an idle cache moves it from the table to the evicting file.
LEMMA EvictStep ==
  ASSUME IInv, NEW f \in Files, NEW v \in Caches, idle[v], IdleEvict(v),
         doomed' = [doomed EXCEPT ![f] = @ \cup {v}],
         UNCHANGED <<ident, origin, data, refs, detached, cache>>
  PROVE  RefInv'
<1>0. /\ CacheTypes /\ ListTypes /\ FileTypes /\ TypeOK
      /\ CountInv /\ UseInv /\ DoomInv /\ ReachInv /\ AttachInv /\ TableInv /\ IdleInv /\ ListInv
  BY DEF IInv, TypeOK
<1>1. /\ Allocated(v) /\ table[ident[v]] = v /\ ident[v] \in Identities
      /\ Users(v) = {} /\ \A a \in Actors : v \notin doomed[a]
  BY IdleIsUnused
<1>2. table' = [table EXCEPT ![ident[v]] = None] /\ idle' = [idle EXCEPT ![v] = FALSE]
  BY DEF IdleEvict, CacheForget, IdleUnlink
<1>3. f \in Actors
  BY DEF Actors
<1>4. \A d \in Caches : Doomed(d)' <=> Doomed(d) \/ d = v
  BY <1>0, <1>3 DEF Doomed, FileTypes
<1>5. CountInv'
  BY <1>0 DEF CountInv, Allocated, Users
<1>6. UseInv'
  <2> SUFFICES ASSUME NEW g \in Files, cache[g] # None
               PROVE  Allocated(cache[g])' /\ ~Doomed(cache[g])'
    BY DEF UseInv
  <2>1. PICK d \in Caches : d = cache[g]
    BY <1>0 DEF FileTypes
  <2>2. d # v
    BY <1>1, <2>1 DEF Users
  <2>3. Allocated(d)' /\ ~Doomed(d)'
    BY <1>0, <1>4, <2>1, <2>2 DEF UseInv, Allocated
  <2> QED
    BY <2>1, <2>3 DEF Allocated, Doomed
<1>7. DoomInv'
  BY <1>0, <1>1, <1>3 DEF DoomInv, Allocated, FileTypes
<1>8. ReachInv'
  <2> SUFFICES ASSUME NEW d \in Caches, Allocated(d), Users(d) = {}
               PROVE  Doomed(d)' \/ table'[ident[d]] = d
    BY DEF ReachInv, Allocated, Users
  <2> QED
    BY <1>0, <1>1, <1>2, <1>4 DEF ReachInv, ListTypes, CacheTypes
<1>9. AttachInv'
  BY <1>0, <1>1, <1>2 DEF AttachInv, Users, ListTypes, CacheTypes, FileTypes
<1>10. TableInv'
  <2> SUFFICES ASSUME NEW j \in Identities, table'[j] # None
               PROVE  /\ Allocated(table[j]) /\ ident[table[j]] = j /\ ~detached[table[j]]
                      /\ table'[j] = table[j] /\ ~Doomed(table[j])'
    BY DEF TableInv, Allocated, Doomed
  <2>1. PICK d \in Caches : d = table[j] /\ d = table'[j] /\ j # ident[v]
    BY <1>0, <1>2 DEF ListTypes
  <2>2. Allocated(d) /\ ident[d] = j /\ ~detached[d] /\ ~Doomed(d)
    BY <1>0, <2>1 DEF TableInv
  <2>3. ~Doomed(d)'
    BY <1>4, <2>1, <2>2
  <2> QED
    BY <2>1, <2>2, <2>3 DEF Doomed
<1>11. IdleInv'
  BY <1>0, <1>1, <1>2 DEF IdleInv, Allocated, ListTypes, CacheTypes
<1>12. ListInv'
  BY <1>0, UnlinkKeepsLists DEF IdleEvict
<1> QED
  BY <1>5, <1>6, <1>7, <1>8, <1>9, <1>10, <1>11, <1>12 DEF RefInv

\* Making room in memory and trimming the temporary files take idle caches out
\* of the table and their list, whatever other files do.
LEMMA EvictionStep ==
  ASSUME IInv, NEW f \in Files, MakeRoom(f) \/ Trim(f)
  PROVE  RefInv' /\ PcInv' /\ PendingInv'
<1>0. TypeOK /\ FileTypes /\ CacheTypes /\ PcInv /\ PendingInv /\ ListInv
  BY DEF IInv, TypeOK
<1>1. PendingInv'
  BY <1>0 DEF MakeRoom, Trim, PendingInv, indexVars
<1>2. CASE MakeRoom(f) /\ ~RoomCanBeMade(Size(cache[f]))
  <2>1. RefInv'
    BY <1>0, <1>2, QuietStep DEF MakeRoom, listVars, CacheTypes
  <2>2. PcInv'
    BY <1>0, <1>2 DEF MakeRoom, Goto, PcInv, FileTypes
  <2> QED
    BY <1>1, <2>1, <2>2
<1>3. CASE MakeRoom(f) /\ RoomCanBeMade(Size(cache[f]))
  <2> DEFINE v == Head(idleList["memory"])
  <2>1. v \in Caches /\ idle[v]
    BY <1>0, <1>3, OldestIsIdle DEF RoomCanBeMade, Backend
  <2>2. /\ pc[f] = "makeroom" /\ lock = None /\ IdleEvict(v)
        /\ doomed' = [doomed EXCEPT ![f] = {v}] /\ pc' = [pc EXCEPT ![f] = "evict"]
        /\ UNCHANGED <<ident, origin, data, refs, detached, lock, cache>>
    BY <1>3 DEF MakeRoom, Goto
  <2> HIDE DEF v
  <2>3. doomed[f] = {}
    BY <1>0, <2>2 DEF PcInv
  <2>4. doomed' = [doomed EXCEPT ![f] = @ \cup {v}]
    BY <2>2, <2>3
  <2>5. RefInv'
    BY <2>1, <2>2, <2>4, EvictStep
  <2>6. PcInv'
    BY <1>0, <2>2 DEF PcInv, FileTypes, Actors
  <2> QED
    BY <1>1, <2>5, <2>6
<1>4. CASE Trim(f)
  <2> DEFINE v == Head(idleList["disk"])
  <2>1. v \in Caches /\ idle[v]
    BY <1>0, <1>4, OldestIsIdle DEF Trim, Backend
  <2>2. /\ pc[f] = "trim" /\ lock = f /\ IdleEvict(v)
        /\ doomed' = [doomed EXCEPT ![f] = @ \cup {v}]
        /\ \/ UNCHANGED <<lock, pc>>
           \/ lock' = None /\ pc' = [pc EXCEPT ![f] = "destroy"]
        /\ UNCHANGED <<ident, origin, data, refs, detached, cache>>
    BY <1>4 DEF Trim, Goto
  <2> HIDE DEF v
  <2>3. RefInv'
    BY <2>1, <2>2, EvictStep
  <2>4. PcInv'
    BY <1>0, <2>2 DEF PcInv, FileTypes, Actors
  <2> QED
    BY <1>1, <2>3, <2>4
<1> QED
  BY <1>2, <1>3, <1>4

\* Closing drops one user; who drops the last one decides what becomes of
\* the cache.
LEMMA CloseStep ==
  ASSUME IInv, NEW f \in Files, CloseShared(f) \/ CloseIdle(f) \/ CloseUnused(f)
  PROVE  RefInv' /\ PcInv' /\ PendingInv'
<1>0. /\ CacheTypes /\ ListTypes /\ FileTypes /\ TypeOK /\ PcInv /\ PendingInv
      /\ CountInv /\ UseInv /\ DoomInv /\ ReachInv /\ AttachInv /\ TableInv /\ IdleInv /\ ListInv
  BY DEF IInv, TypeOK
<1>1. /\ pc[f] = "open" /\ cache' = [cache EXCEPT ![f] = None] /\ lock = None
      /\ UNCHANGED <<ident, origin, detached, data, loader, pending>>
  BY DEF CloseShared, CloseIdle, CloseUnused, indexVars
<1>2. PICK c \in Caches : c = cache[f] /\ Allocated(c)
  BY <1>0, <1>1, FileHasCache
<1>3. /\ Cardinality(Users(c)) = Cardinality(Users(c)') + 1
      /\ Users(c)' = Users(c) \ {f}
      /\ Cardinality(Users(c)') \in Nat
      /\ Cardinality(Users(c)') = 0 => Users(c)' = {}
      /\ \A d \in Caches : d # c => Users(d)' = Users(d)
  BY <1>0, <1>1, <1>2, UserRemoved
<1>4. refs[c] = Cardinality(Users(c)') + 1
  BY <1>0, <1>2, <1>3 DEF CountInv
<1>5. ~Doomed(c) /\ (detached[c] \/ table[ident[c]] = c) /\ doomed[f] = {} /\ ~idle[c]
  <2>1. cache[f] # None
    BY <1>0, <1>1 DEF PcInv
  <2>2. ~Doomed(c) /\ (detached[c] \/ table[ident[c]] = c)
    BY <1>0, <1>2, <2>1 DEF UseInv, AttachInv
  <2>3. doomed[f] = {}
    BY <1>0, <1>1 DEF PcInv
  <2>4. refs[c] # 0
    BY <1>3, <1>4
  <2> QED
    BY <1>0, <2>2, <2>3, <2>4 DEF IdleInv
<1>6. PendingInv'
  BY <1>0, <1>1 DEF PendingInv
<1>7. ASSUME NEW n, refs' = [refs EXCEPT ![c] = n], n = Cardinality(Users(c)')
      PROVE  CountInv'
  <2> SUFFICES ASSUME NEW d \in Caches, origin'[d] # None
               PROVE  refs'[d] = Cardinality(Users(d)')
    BY DEF CountInv, Allocated
  <2> QED
    BY <1>0, <1>1, <1>3, <1>7 DEF CountInv, Allocated, CacheTypes
<1>8. CASE CloseShared(f)
  <2>1. /\ refs' = [refs EXCEPT ![c] = refs[c] - 1] /\ refs[c] # 1
        /\ pc' = [pc EXCEPT ![f] = "closed"]
        /\ UNCHANGED <<lock, doomed, table, idle, idleList>>
    BY <1>2, <1>8 DEF CloseShared, Goto, listVars
  <2>2. PcInv'
    BY <1>0, <1>1, <1>5, <2>1 DEF PcInv, FileTypes
  <2>3. CountInv'
    <3>1. refs[c] - 1 = Cardinality(Users(c)')
      BY <1>3, <1>4
    <3> QED
      BY <1>7, <2>1, <3>1
  <2>4. UseInv' /\ DoomInv' /\ AttachInv' /\ TableInv'
    BY <1>0, <1>1, <2>1 DEF UseInv, DoomInv, AttachInv, TableInv, Allocated, Doomed, FileTypes
  <2>5. Users(c)' # {}
    <3>1. Cardinality(Users(c)') # 0
      BY <1>3, <1>4, <2>1
    <3> QED
      BY <3>1, FS_EmptySet
  <2>6. ReachInv'
    BY <1>0, <1>1, <1>3, <2>1, <2>5 DEF ReachInv, Allocated, Doomed
  <2>7. IdleInv'
    <3>1. refs'[c] # 0
      BY <1>0, <1>3, <1>4, <2>1 DEF CacheTypes
    <3> QED
      BY <1>0, <1>1, <1>5, <2>1, <3>1 DEF IdleInv, Allocated, CacheTypes
  <2>8. ListInv'
    BY <1>0, <1>1, <2>1 DEF ListInv, Elements
  <2> QED
    BY <1>6, <2>2, <2>3, <2>4, <2>6, <2>7, <2>8 DEF RefInv
<1>9. CASE CloseIdle(f)
  <2>1. /\ refs' = [refs EXCEPT ![c] = 0] /\ refs[c] = 1 /\ ~detached[c] /\ data[c] # "none"
        /\ IdlePush(c) /\ idle' = [idle EXCEPT ![c] = TRUE]
        /\ \/ lock' = f /\ pc' = [pc EXCEPT ![f] = "trim"]
           \/ UNCHANGED lock /\ pc' = [pc EXCEPT ![f] = "closed"]
        /\ UNCHANGED <<doomed, table>>
    BY <1>2, <1>9 DEF CloseIdle, Goto, Keepable, IdlePush
  <2>2. PcInv'
    BY <1>0, <1>1, <1>5, <2>1 DEF PcInv, FileTypes
  <2>3. Cardinality(Users(c)') = 0 /\ Users(c)' = {}
    BY <1>3, <1>4, <2>1
  <2>4. CountInv'
    BY <1>7, <2>1, <2>3
  <2>5. UseInv' /\ DoomInv' /\ AttachInv' /\ TableInv'
    BY <1>0, <1>1, <2>1 DEF UseInv, DoomInv, AttachInv, TableInv, Allocated, Doomed, FileTypes
  <2>6. ReachInv'
    BY <1>0, <1>1, <1>3, <1>5, <2>1 DEF ReachInv, Allocated, Doomed
  <2>7. IdleInv'
    BY <1>0, <1>1, <1>2, <1>5, <2>1 DEF IdleInv, Allocated, CacheTypes
  <2>8. ListInv'
    BY <1>0, <1>1, <1>5, <2>1, PushKeepsLists
  <2> QED
    BY <1>6, <2>2, <2>4, <2>5, <2>6, <2>7, <2>8 DEF RefInv
<1>10. CASE CloseUnused(f)
  <2>1. /\ refs' = [refs EXCEPT ![c] = 0] /\ refs[c] = 1
        /\ IF detached[c] THEN UNCHANGED table ELSE table' = [table EXCEPT ![ident[c]] = None]
        /\ doomed' = [doomed EXCEPT ![f] = {c}] /\ pc' = [pc EXCEPT ![f] = "destroy"]
        /\ UNCHANGED <<lock, idle, idleList>>
    BY <1>2, <1>10 DEF CloseUnused, CacheForget, Goto, listVars
  <2>2. PcInv'
    BY <1>0, <1>1, <2>1 DEF PcInv, FileTypes, Actors
  <2>3. Cardinality(Users(c)') = 0 /\ Users(c)' = {}
    BY <1>3, <1>4, <2>1
  <2>4. CountInv'
    BY <1>7, <2>1, <2>3
  <2>5. \A d \in Caches : Doomed(d)' <=> Doomed(d) \/ d = c
    BY <1>0, <1>5, <2>1 DEF Doomed, FileTypes, Actors
  <2>6. ident[c] \in Identities
    BY <1>0 DEF CacheTypes
  <2>7. \A j \in Identities : table'[j] # None =>
          table'[j] = table[j] /\ table[j] \in Caches \ {c}
    <3>1. \A j \in Identities : table[j] = c => j = ident[c] /\ ~detached[c]
      BY <1>0 DEF TableInv
    <3> QED
      BY <1>0, <2>1, <2>6, <3>1 DEF ListTypes
  <2>8. \A d \in Caches : d # c => (table'[ident[d]] = d <=> table[ident[d]] = d)
    BY <1>0, <1>5, <2>1, <2>6 DEF ListTypes, CacheTypes
  <2>9. UseInv'
    <3> SUFFICES ASSUME NEW g \in Files, cache'[g] # None
                 PROVE  Allocated(cache'[g]) /\ cache'[g] = cache[g] /\ ~Doomed(cache[g])'
      BY <1>1 DEF UseInv, Allocated, Doomed
    <3>1. PICK d \in Caches : d = cache[g] /\ d = cache'[g] /\ g # f
      BY <1>0, <1>1 DEF FileTypes
    <3>2. d # c
      BY <2>3, <3>1 DEF Users
    <3>3. Allocated(d) /\ ~Doomed(d)'
      BY <1>0, <2>5, <3>1, <3>2 DEF UseInv
    <3> QED
      BY <3>1, <3>3 DEF Doomed
  <2>10. DoomInv'
    BY <1>0, <1>1, <1>2, <1>5, <2>1 DEF DoomInv, Allocated, Doomed, FileTypes, Actors
  <2>11. ReachInv'
    <3> SUFFICES ASSUME NEW d \in Caches, Allocated(d), Users(d)' = {}
                 PROVE  Doomed(d)' \/ table'[ident[d]] = d
      BY <1>1 DEF ReachInv, Allocated
    <3> QED
      BY <1>0, <1>3, <2>5, <2>8 DEF ReachInv
  <2>12. AttachInv'
    BY <1>0, <1>1, <2>3, <2>8 DEF AttachInv, Users, FileTypes
  <2>13. TableInv'
    <3> SUFFICES ASSUME NEW j \in Identities, table'[j] # None
                 PROVE  /\ Allocated(table[j]) /\ ident[table[j]] = j /\ ~detached[table[j]]
                        /\ table'[j] = table[j] /\ ~Doomed(table[j])'
      BY <1>1 DEF TableInv, Allocated, Doomed
    <3>1. PICK d \in Caches : d = table[j] /\ d = table'[j] /\ d # c
      BY <2>7
    <3>2. Allocated(d) /\ ident[d] = j /\ ~detached[d] /\ ~Doomed(d)
      BY <1>0, <3>1 DEF TableInv
    <3>3. ~Doomed(d)'
      BY <2>5, <3>1, <3>2
    <3> QED
      BY <3>1, <3>2, <3>3 DEF Doomed
  <2>14. IdleInv'
    <3>1. table'[ident[c]] # c
      BY <2>6, <2>7
    <3> QED
      BY <1>0, <1>1, <1>5, <2>1, <2>8, <3>1 DEF IdleInv, Allocated, CacheTypes
  <2>15. ListInv'
    BY <1>0, <1>1, <2>1 DEF ListInv, Elements
  <2> QED
    BY <1>6, <2>2, <2>4, <2>9, <2>10, <2>11, <2>12, <2>13, <2>14, <2>15 DEF RefInv
<1> QED
  BY <1>8, <1>9, <1>10

\* A doomed cache is in no table and no list, and used by no file.
LEMMA DestroyStep ==
  ASSUME IInv, NEW a \in Actors, NEW c \in Caches, Destroy(a, c)
  PROVE  RefInv' /\ PcInv' /\ PendingInv'
<1>0. /\ CacheTypes /\ ListTypes /\ FileTypes /\ TypeOK /\ PcInv /\ PendingInv
      /\ CountInv /\ UseInv /\ DoomInv /\ ReachInv /\ AttachInv /\ TableInv /\ IdleInv /\ ListInv
  BY DEF IInv, TypeOK
<1>1. /\ c \in doomed[a] /\ lock # a
      /\ doomed' = [doomed EXCEPT ![a] = @ \ {c}]
      /\ origin' = [origin EXCEPT ![c] = None]
      /\ data' = [data EXCEPT ![c] = "none"]
      /\ detached' = [detached EXCEPT ![c] = FALSE]
      /\ UNCHANGED <<ident, refs, idle, table, idleList, lock, cache, loader, pending>>
  BY DEF Destroy, listVars
<1>2. Allocated(c) /\ \A b \in Actors : c \in doomed[b] => b = a
  BY <1>0, <1>1 DEF DoomInv
<1>3. /\ Doomed(c) /\ ~idle[c] /\ \A f \in Files : cache[f] # c
      /\ \A j \in Identities : table[j] # c
  <2>1. Doomed(c)
    BY <1>1 DEF Doomed
  <2>2. \A f \in Files : cache[f] # c
    BY <2>1 DEF IInv, UseInv
  <2>3. \A j \in Identities : table[j] # c
    BY <2>1 DEF IInv, TableInv
  <2> QED
    BY <1>1, <2>1, <2>2, <2>3, IdleIsUnused
<1>4. \A d \in Caches : d # c => (Doomed(d)' <=> Doomed(d))
  BY <1>0, <1>1 DEF Doomed, FileTypes
<1>5. CountInv' /\ ReachInv'
  BY <1>0, <1>1, <1>4 DEF CountInv, ReachInv, Allocated, Users, CacheTypes
<1>6. UseInv'
  <2> SUFFICES ASSUME NEW g \in Files, cache[g] # None
               PROVE  Allocated(cache[g])' /\ ~Doomed(cache[g])'
    BY <1>1 DEF UseInv
  <2>1. PICK d \in Caches : d = cache[g] /\ d # c
    BY <1>0, <1>3 DEF FileTypes
  <2>2. Allocated(d)' /\ ~Doomed(d)'
    BY <1>0, <1>1, <1>4, <2>1 DEF UseInv, Allocated, CacheTypes
  <2> QED
    BY <1>1, <2>1, <2>2 DEF Allocated, Doomed
<1>7. DoomInv'
  BY <1>0, <1>1, <1>2 DEF DoomInv, Allocated, FileTypes, CacheTypes
<1>8. AttachInv'
  BY <1>0, <1>1, <1>3 DEF AttachInv, FileTypes, CacheTypes
<1>9. TableInv'
  <2> SUFFICES ASSUME NEW j \in Identities, table[j] # None
               PROVE  (/\ Allocated(table[j]) /\ ident[table[j]] = j /\ ~detached[table[j]]
                       /\ ~Doomed(table[j]))'
    BY <1>1 DEF TableInv
  <2>1. PICK d \in Caches : d = table[j] /\ d # c
    BY <1>0, <1>3 DEF ListTypes
  <2>2. (Allocated(d) /\ ident[d] = j /\ ~detached[d] /\ ~Doomed(d))'
    BY <1>0, <1>1, <1>4, <2>1 DEF TableInv, Allocated, CacheTypes
  <2> QED
    BY <1>1, <2>1, <2>2 DEF Allocated, Doomed
<1>10. IdleInv'
  BY <1>0, <1>1, <1>3 DEF IdleInv, Allocated, CacheTypes
<1>11. ListInv'
  BY <1>0, <1>1, <1>3 DEF ListInv, Elements, CacheTypes
<1>12. PcInv'
  <2>1. CASE a \in Files /\ doomed[a] = {c}
    <3>1. pc[a] \in {"evict", "destroy"}
      BY <1>0, <1>1, <2>1 DEF PcInv
    <3>2. pc' = [pc EXCEPT ![a] = IF pc[a] = "evict" THEN "reserve" ELSE "closed"]
      BY <2>1, <3>1 DEF Destroy, Goto, AfterDestroy
    <3> QED
      BY <1>0, <1>1, <2>1, <3>1, <3>2 DEF PcInv, FileTypes, Actors
  <2>2. CASE ~(a \in Files /\ doomed[a] = {c})
    <3>1. UNCHANGED pc
      BY <2>2 DEF Destroy
    <3> QED
      BY <1>0, <1>1, <2>2, <3>1 DEF PcInv, FileTypes, Actors
  <2> QED
    BY <2>1, <2>2
<1>13. PendingInv'
  BY <1>0, <1>1 DEF PendingInv
<1> QED
  BY <1>5, <1>6, <1>7, <1>8, <1>9, <1>10, <1>11, <1>12, <1>13 DEF RefInv

\* Dropping the caches empties the table and detaches what is in use.
LEMMA DropStep ==
  ASSUME IInv, DropCaches, UNCHANGED <<ident, origin, data, refs, lock, pc, cache>>
  PROVE  RefInv' /\ PcInv'
<1>0. /\ CacheTypes /\ ListTypes /\ FileTypes /\ TypeOK /\ PcInv
      /\ CountInv /\ UseInv /\ DoomInv /\ ReachInv /\ AttachInv /\ TableInv /\ IdleInv /\ ListInv
  BY DEF IInv, TypeOK
<1>1. /\ doomed[Loader] = {}
      /\ table' = [i \in Identities |-> None]
      /\ detached' = [c \in Caches |-> detached[c] \/ (\E i \in Identities : table[i] = c /\ ~idle[c])]
      /\ doomed' = [doomed EXCEPT ![Loader] = {c \in Caches : idle[c]}]
      /\ idle' = [c \in Caches |-> FALSE]
      /\ idleList' = [b \in Backend |-> <<>>]
  BY DEF DropCaches
<1>2. PcInv'
  BY <1>0, <1>1 DEF PcInv, FileTypes, Actors
<1>3. CountInv'
  BY <1>0 DEF CountInv, Allocated, Users
<1>4. \A d \in Caches : Doomed(d)' <=> Doomed(d) \/ idle[d]
  BY <1>0, <1>1 DEF Doomed, FileTypes, Actors
<1>5. UseInv'
  <2> SUFFICES ASSUME NEW g \in Files, cache[g] # None
               PROVE  Allocated(cache[g]) /\ ~Doomed(cache[g])'
    BY DEF UseInv, Allocated
  <2>1. PICK d \in Caches : d = cache[g] /\ g \in Users(d)
    BY <1>0 DEF FileTypes, Users
  <2>2. ~idle[d] /\ Allocated(d) /\ ~Doomed(d)
    BY <1>0, <2>1, IdleIsUnused DEF UseInv
  <2>3. ~Doomed(d)'
    BY <1>4, <2>2
  <2> QED
    BY <2>1, <2>2, <2>3 DEF Doomed
<1>6. DoomInv'
  <2>1. \A c \in Caches : idle[c] => Allocated(c) /\ \A a \in Actors : c \notin doomed[a]
    BY IdleIsUnused
  <2> QED
    BY <1>0, <1>1, <2>1 DEF DoomInv, Allocated, FileTypes, Actors
<1>7. ReachInv'
  <2> SUFFICES ASSUME NEW d \in Caches, Allocated(d), Users(d) = {}
               PROVE  Doomed(d)'
    BY DEF ReachInv, Allocated, Users
  <2>1. Doomed(d) \/ (table[ident[d]] = d /\ refs[d] = 0)
    BY <1>0, NoUsers DEF ReachInv
  <2> QED
    BY <1>0, <1>4, <2>1 DEF IdleInv
<1>8. AttachInv'
  <2> SUFFICES ASSUME NEW g \in Files, cache[g] # None
               PROVE  detached'[cache[g]]
    BY DEF AttachInv
  <2>1. PICK d \in Caches : d = cache[g] /\ g \in Users(d)
    BY <1>0 DEF FileTypes, Users
  <2>2. ~idle[d] /\ (detached[d] \/ table[ident[d]] = d) /\ ident[d] \in Identities
    BY <1>0, <2>1, IdleIsUnused DEF AttachInv, CacheTypes
  <2> QED
    BY <1>1, <2>1, <2>2
<1>9. TableInv'
  BY <1>1 DEF TableInv
<1>10. IdleInv'
  BY <1>0, <1>1 DEF IdleInv, CacheTypes
<1>11. ListInv'
  BY <1>1 DEF ListInv, Elements, IsInjective
<1> QED
  BY <1>2, <1>3, <1>5, <1>6, <1>7, <1>8, <1>9, <1>10, <1>11 DEF RefInv

\* Adding a package and closing the index detach caches that are used and put
\* the idle ones on the loader's chain (vfs_file_drop_caches).
LEMMA LoadStep ==
  ASSUME IInv, LoaderStep
  PROVE  RefInv' /\ PcInv' /\ PendingInv'
<1>0. CacheTypes /\ PcInv /\ PendingInv
  BY DEF IInv, TypeOK
<1>1. ASSUME NEW p \in Packages, InsertPackage(p)
      PROVE  RefInv' /\ PcInv' /\ PendingInv'
  <2>1. RefInv' /\ PcInv'
    BY <1>1, DropStep DEF InsertPackage
  <2> QED
    BY <1>1, <2>1 DEF InsertPackage, PendingInv
<1>2. ASSUME NEW overridden \in SUBSET Identities, PointEntries(overridden)
      PROVE  RefInv' /\ PcInv' /\ PendingInv'
  <2>1. RefInv'
    BY <1>0, <1>2, QuietStep DEF PointEntries, cacheVars, listVars, fileVars, CacheTypes
  <2> QED
    BY <1>0, <1>2, <2>1 DEF PointEntries, fileVars, PcInv, PendingInv
<1>3. CASE Uninit
  <2>1. RefInv' /\ PcInv'
    BY <1>3, DropStep DEF Uninit
  <2> QED
    BY <1>0, <1>3, <2>1 DEF Uninit, PendingInv
<1>4. CASE ClosePackages
  <2>1. RefInv'
    BY <1>0, <1>4, QuietStep DEF ClosePackages, cacheVars, listVars, fileVars, CacheTypes
  <2> QED
    BY <1>0, <1>4, <2>1 DEF ClosePackages, fileVars, PcInv, PendingInv
<1> QED
  BY <1>1, <1>2, <1>3, <1>4 DEF LoaderStep

-----------------------------------------------------------------------------
\* Every operation on files and the index keeps the invariant.
LEMMA NextIInv == IInv /\ [Next]_vars => IInv'
<1> SUFFICES ASSUME IInv, [Next]_vars
             PROVE  TypeOK' /\ RefInv' /\ PcInv' /\ PendingInv'
  BY DEF IInv, RefInv
<1>1. ASSUME NEW f \in Files, Open(f)
      PROVE  RefInv' /\ PcInv' /\ PendingInv'
  BY <1>1, OpenNewStep, OpenSharedStep DEF Open
<1>2. ASSUME NEW f \in Files, FileStep(f)
      PROVE  RefInv' /\ PcInv' /\ PendingInv'
  BY <1>2, ReadStep, EvictionStep, CloseStep DEF FileStep
<1>3. CASE UNCHANGED vars
  <2>1. RefInv'
    BY <1>3, QuietStep DEF IInv, TypeOK, CacheTypes, vars, cacheVars, listVars, fileVars
  <2> QED
    BY <1>3, <2>1, TypeStep DEF IInv, PcInv, PendingInv, vars, fileVars, indexVars
<1>4. RefInv' /\ PcInv' /\ PendingInv'
  BY <1>1, <1>2, <1>3, DestroyStep, LoadStep DEF Next
<1> QED
  BY <1>4, TypeStep

\* The invariant of vfs_file.c's caches holds in every reachable state.
THEOREM IInvAlways == Spec => []IInv
BY InitIInv, NextIInv, PTL DEF Spec

\* Every variable keeps its type, whatever the operations on files and the
\* index do.
THEOREM TypesAlways == Spec => []TypeOK
<1>1. IInv => TypeOK
  BY DEF IInv
<1> QED
  BY <1>1, IInvAlways, PTL

\* Reference counting is exact: no cache is freed while a file uses it, none
\* twice, and none that no file and no table entry names is kept.
THEOREM ReferencesAlwaysExact == Spec => []ReferencesAreExact
<1>1. IInv => ReferencesAreExact
  <2> SUFFICES ASSUME IInv, NEW c \in Caches
               PROVE  /\ Allocated(c) => refs[c] = Cardinality(Users(c))
                      /\ Users(c) # {} => Allocated(c) /\ ~Doomed(c)
                      /\ Doomed(c) => /\ Allocated(c)
                                      /\ \A a, b \in Actors : c \in doomed[a] \cap doomed[b] => a = b
                      /\ Allocated(c) /\ Users(c) = {} => Doomed(c) \/ table[ident[c]] = c
    BY DEF ReferencesAreExact
  <2>1. Allocated(c) => refs[c] = Cardinality(Users(c))
    BY DEF IInv, CountInv
  <2>2. Users(c) # {} => Allocated(c) /\ ~Doomed(c)
    <3> SUFFICES ASSUME NEW f \in Files, cache[f] = c
                 PROVE  Allocated(c) /\ ~Doomed(c)
      BY DEF Users
    <3> QED
      BY DEF IInv, UseInv
  <2>3. Doomed(c) => /\ Allocated(c)
                     /\ \A a, b \in Actors : c \in doomed[a] \cap doomed[b] => a = b
    BY DEF IInv, DoomInv, Doomed
  <2>4. Allocated(c) /\ Users(c) = {} => Doomed(c) \/ table[ident[c]] = c
    BY DEF IInv, ReachInv
  <2> QED
    BY <2>1, <2>2, <2>3, <2>4
<1> QED
  BY <1>1, IInvAlways, PTL

\* The idle caches are exactly the unused ones of the table, each linked once
\* in the list of its backend, so trimming and eviction never free a cache
\* that an open could still find.
THEOREM TableAndIdleAlwaysAgree == Spec => []TableAndIdleAgree
<1>1. IInv => TableAndIdleAgree
  BY DEF IInv, TableAndIdleAgree, TableInv, IdleInv, ListInv
<1> QED
  BY <1>1, IInvAlways, PTL

-----------------------------------------------------------------------------
\* What opens find in the table was decoded, or will be, from the archive the entry number
\* names now; while the index changes they find nothing (vfs_file.c:386-393).
TargetInv ==
  /\ \A i \in Identities : table[i] # None => origin[table[i]] = target[i]
  /\ loader # "idle" => \A i \in Identities : table[i] = None

\* What a file shows, to PrivateFiles.
View == [f \in Files |-> IF cache[f] = None THEN <<>> ELSE <<ident[cache[f]], origin[cache[f]]>>]

\* The table is empty at first.
LEMMA InitTargetInv == Init => TargetInv
BY DEF Init, TargetInv

\* Steps that register no cache, and free none that is registered.
LEMMA TargetKept ==
  ASSUME IInv, TargetInv, UNCHANGED <<target, loader>>,
         \A i \in Identities : table'[i] # None => table'[i] = table[i] /\ origin'[table[i]] = origin[table[i]]
  PROVE  TargetInv'
BY DEF TargetInv

\* An open creates a cache for the archive that is named now.
LEMMA NextTargetInv == IInv /\ TargetInv /\ [Next]_vars => TargetInv'
<1> SUFFICES ASSUME IInv, TargetInv, [Next]_vars PROVE TargetInv'
  OBVIOUS
<1>0. /\ table \in [Identities -> Caches \cup {None}] /\ origin \in [Caches -> Packages \cup {None}]
      /\ ident \in [Caches -> Identities] /\ PcInv /\ TableInv /\ IdleInv /\ UseInv
      /\ cache \in [Files -> Caches \cup {None}] /\ target \in [Identities -> Packages]
  BY DEF IInv, TypeOK, ListTypes, CacheTypes, FileTypes, IndexTypes
<1>1. ASSUME UNCHANGED <<table, origin, target, loader>> PROVE TargetInv'
  BY <1>1, TargetKept
<1>2. ASSUME NEW f \in Files, NEW i \in Identities, NEW c \in Caches, OpenNew(f, i, c)
      PROVE  TargetInv'
  <2>1. /\ table' = [table EXCEPT ![i] = c] /\ origin' = [origin EXCEPT ![c] = target[i]]
        /\ ~Allocated(c) /\ loader = "idle" /\ UNCHANGED <<target, loader>>
    BY <1>2 DEF OpenNew, OpenFile, CreateCache
  <2>2. \A j \in Identities : table[j] # None => table[j] # c /\ table[j] \in Caches
    BY <1>0, <2>1 DEF TableInv
  <2>3. \A j \in Identities : table'[j] # None => origin'[table'[j]] = target'[j]
    BY <1>0, <2>1, <2>2 DEF TargetInv
  <2> QED BY <2>1, <2>3 DEF TargetInv
<1>3. ASSUME NEW f \in Files, NEW i \in Identities, OpenShared(f, i)
      PROVE  TargetInv'
  BY <1>1, <1>3 DEF OpenShared, OpenFile
<1>4. ASSUME NEW f \in Files, FileStep(f)
      PROVE  TargetInv'
  <2>1. UNCHANGED <<origin, target, loader>>
    BY <1>4 DEF FileStep, Prepare, LockCache, TryReserve, MakeRoom, Allocate, CreateDisk, Decode,
        StoreData, Publish, Read, CloseShared, CloseIdle, Trim, CloseUnused, cacheVars, indexVars
  <2>2. UNCHANGED table \/ \E c : table' = [table EXCEPT ![ident[c]] = None]
    BY <1>4 DEF FileStep, Prepare, LockCache, TryReserve, MakeRoom, Allocate, CreateDisk, Decode,
        StoreData, Publish, Read, CloseShared, CloseIdle, Trim, CloseUnused, IdleEvict, CacheForget
  <2>3. \A i \in Identities : table'[i] # None => table'[i] = table[i]
    BY <1>0, <2>2
  <2> QED BY <2>1, <2>3, TargetKept
<1>5. ASSUME NEW a \in Actors, NEW c \in Caches, Destroy(a, c)
      PROVE  TargetInv'
  <2>1. /\ origin' = [origin EXCEPT ![c] = None] /\ UNCHANGED <<table, target, loader>> /\ Doomed(c)
    BY <1>5 DEF Destroy, Doomed
  <2>2. \A i \in Identities : table[i] # None => table[i] # c /\ table[i] \in Caches
    BY <1>0, <2>1 DEF TableInv
  <2> QED BY <1>0, <2>1, <2>2, TargetKept
<1>6. ASSUME (\E p \in Packages : InsertPackage(p)) \/ Uninit
      PROVE  TargetInv'
  <2>1. \A i \in Identities : table'[i] = None
    BY <1>6 DEF InsertPackage, Uninit, DropCaches
  <2> QED BY <2>1 DEF TargetInv
<1>7. ASSUME (\E overridden \in SUBSET Identities : PointEntries(overridden)) \/ ClosePackages
      PROVE  TargetInv'
  <2>1. UNCHANGED table /\ loader # "idle"
    BY <1>7 DEF PointEntries, ClosePackages
  <2> QED BY <2>1 DEF TargetInv
<1>8. CASE UNCHANGED vars
  BY <1>1, <1>8 DEF vars, cacheVars, indexVars
<1> QED BY <1>2, <1>3, <1>4, <1>5, <1>6, <1>7, <1>8 DEF Next, Open, LoaderStep

\* So what opens share is always of the present archive.
LEMMA TargetInvAlways == Spec => []TargetInv
<1> QED BY IInvAlways, InitTargetInv, NextTargetInv, PTL DEF Spec

\* Nothing is open at first.
LEMMA InitRefines == Init => Private!Init
<1> SUFFICES ASSUME Init PROVE Private!Init
  OBVIOUS
<1>1. View = [f \in Files |-> <<>>]
  BY DEF Init, View
<1> QED BY <1>1 DEF View, Private!Init, Init

\* What a file shows depends on its own cache alone.
LEMMA ViewKept ==
  ASSUME IInv, NEW S \in SUBSET Files,
         \A f \in S : cache'[f] = cache[f],
         \A f \in S : cache[f] # None => /\ ident'[cache[f]] = ident[cache[f]]
                                         /\ origin'[cache[f]] = origin[cache[f]]
  PROVE  \A f \in S : View'[f] = View[f]
BY DEF View

\* An open shows the entry of the archive that is named now.
LEMMA OpenRefines ==
  ASSUME IInv, TargetInv, NEW f \in Files, NEW i \in Identities,
         OpenShared(f, i) \/ \E c \in Caches : OpenNew(f, i, c)
  PROVE  Private!Open(f, i)
<1>0. /\ table \in [Identities -> Caches \cup {None}] /\ origin \in [Caches -> Packages \cup {None}]
      /\ ident \in [Caches -> Identities] /\ PcInv /\ TableInv /\ UseInv
      /\ cache \in [Files -> Caches \cup {None}]
  BY DEF IInv, TypeOK, ListTypes, CacheTypes, FileTypes
<1>1. PICK c \in Caches :
        /\ pc[f] = "closed" /\ cache' = [cache EXCEPT ![f] = c] /\ UNCHANGED target
        /\ ident'[c] = i /\ origin'[c] = target[i]
        /\ \A d \in Caches \ {c} : ident'[d] = ident[d] /\ origin'[d] = origin[d]
        /\ ~Allocated(c) \/ UNCHANGED <<ident, origin>>
  <2>1. CASE OpenShared(f, i)
    <3>1. table[i] \in Caches /\ ident[table[i]] = i /\ origin[table[i]] = target[i]
      BY <1>0, <2>1 DEF OpenShared, TableInv, TargetInv
    <3>2. /\ pc[f] = "closed" /\ cache' = [cache EXCEPT ![f] = table[i]]
          /\ UNCHANGED <<target, ident, origin>>
      BY <2>1 DEF OpenShared, OpenFile
    <3> QED BY <3>1, <3>2
  <2>2. ASSUME NEW c \in Caches, OpenNew(f, i, c)
        PROVE  /\ pc[f] = "closed" /\ cache' = [cache EXCEPT ![f] = c] /\ UNCHANGED target
               /\ ident'[c] = i /\ origin'[c] = target[i]
               /\ \A d \in Caches \ {c} : ident'[d] = ident[d] /\ origin'[d] = origin[d]
               /\ ~Allocated(c)
    BY <1>0, <2>2 DEF OpenNew, OpenFile, CreateCache
  <2> QED BY <2>1, <2>2
<1>2. cache[f] = None
  BY <1>0, <1>1 DEF PcInv
<1>3. View[f] = <<>> /\ View'[f] = <<i, target[i]>>
  <2>1. View[f] = <<>>
    BY <1>2 DEF View
  <2>2. cache'[f] = c /\ c # None
    BY <1>0, <1>1, ConstantsAssumption
  <2>3. View'[f] = <<ident'[c], origin'[c]>>
    BY <2>2 DEF View
  <2> QED BY <1>1, <2>1, <2>3
<1>4. \A g \in Files \ {f} : View'[g] = View[g]
  <2>1. \A g \in Files \ {f} : cache'[g] = cache[g]
    BY <1>0, <1>1
  <2>2. \A g \in Files \ {f} : cache[g] # None =>
          ident'[cache[g]] = ident[cache[g]] /\ origin'[cache[g]] = origin[cache[g]]
    BY <1>0, <1>1 DEF UseInv
  <2> QED BY <2>1, <2>2, ViewKept
<1>5. View' = [View EXCEPT ![f] = <<i, target[i]>>]
  <2>1. View = [g \in Files |-> View[g]] /\ View' = [g \in Files |-> View'[g]]
    BY DEF View
  <2> QED BY <1>3, <1>4, <2>1
<1> QED BY <1>1, <1>3, <1>5 DEF View, Private!Open

\* A close hides it again; the rest of a file's steps show nothing else.
LEMMA FileStepRefines ==
  ASSUME IInv, NEW f \in Files, FileStep(f)
  PROVE  Private!Close(f) \/ UNCHANGED <<target, View>>
<1>0. cache \in [Files -> Caches \cup {None}] /\ PcInv
  BY DEF IInv, TypeOK, FileTypes
<1>1. UNCHANGED <<ident, origin, target>>
  BY DEF FileStep, Prepare, LockCache, TryReserve, MakeRoom, Allocate, CreateDisk, Decode,
      StoreData, Publish, Read, CloseShared, CloseIdle, Trim, CloseUnused, cacheVars, indexVars
<1>2. CASE CloseShared(f) \/ CloseIdle(f) \/ CloseUnused(f)
  <2>1. pc[f] = "open" /\ cache' = [cache EXCEPT ![f] = None]
    BY <1>2 DEF CloseShared, CloseIdle, CloseUnused
  <2>2. View[f] # <<>> /\ View' = [View EXCEPT ![f] = <<>>]
    <3>1. cache[f] # None
      BY <1>0, <2>1 DEF PcInv
    <3>2. View[f] # <<>>
      BY <3>1 DEF View
    <3>3. View' = [View EXCEPT ![f] = <<>>]
      BY <1>0, <1>1, <2>1 DEF View
    <3> QED BY <3>2, <3>3
  <2> QED BY <1>1, <2>2 DEF View, Private!Close
<1>3. CASE ~(CloseShared(f) \/ CloseIdle(f) \/ CloseUnused(f))
  <2>1. UNCHANGED cache
    BY <1>3 DEF FileStep, Prepare, LockCache, TryReserve, MakeRoom, Allocate, CreateDisk, Decode,
        StoreData, Publish, Read, Trim
  <2> QED BY <1>1, <2>1 DEF View
<1> QED BY <1>2, <1>3

\* Every step is one of PrivateFiles, or shows nothing new.
LEMMA NextRefines ==
  IInv /\ TargetInv /\ [Next]_vars => [Private!Next]_<<target, View>>
<1> SUFFICES ASSUME IInv, TargetInv, [Next]_vars
             PROVE  Private!Next \/ UNCHANGED <<target, View>>
  OBVIOUS
<1>1. CASE \E f \in Files : Open(f)
  BY <1>1, OpenRefines DEF Open, Private!Next
<1>2. CASE \E f \in Files : FileStep(f)
  BY <1>2, FileStepRefines DEF Private!Next
<1>3. ASSUME NEW a \in Actors, NEW c \in Caches, Destroy(a, c)
      PROVE  UNCHANGED <<target, View>>
  <2>1. /\ origin \in [Caches -> Packages \cup {None}] /\ cache \in [Files -> Caches \cup {None}]
        /\ UseInv
    BY DEF IInv, TypeOK, CacheTypes, FileTypes
  <2>2. /\ origin' = [origin EXCEPT ![c] = None] /\ UNCHANGED <<ident, cache, target>> /\ Doomed(c)
    BY <1>3 DEF Destroy, Doomed
  <2>3. \A f \in Files : cache[f] # None => origin'[cache[f]] = origin[cache[f]]
    BY <2>1, <2>2 DEF UseInv
  <2>4. \A f \in Files : View'[f] = View[f]
    BY <2>2, <2>3, ViewKept
  <2>5. View = [g \in Files |-> View[g]] /\ View' = [g \in Files |-> View'[g]]
    BY DEF View
  <2> QED BY <2>2, <2>4, <2>5
<1>4. ASSUME NEW overridden \in SUBSET Identities, PointEntries(overridden)
      PROVE  Private!Next \/ UNCHANGED <<target, View>>
  <2>1. pending \in Packages /\ UNCHANGED View
    BY <1>4 DEF PointEntries, IInv, TypeOK, IndexTypes, PendingInv, View, cacheVars, fileVars
  <2>2. CASE UNCHANGED target
    BY <2>1, <2>2
  <2>3. CASE target' = [i \in Identities |-> IF i \in overridden THEN pending ELSE target[i]]
    <3>1. Private!AddPackage(pending, overridden)
      BY <2>1, <2>3 DEF View, Private!AddPackage
    <3> QED BY <2>1, <3>1 DEF Private!Next
  <2> QED BY <1>4, <2>2, <2>3 DEF PointEntries
<1>5. CASE (\E p \in Packages : InsertPackage(p)) \/ Uninit \/ ClosePackages \/ UNCHANGED vars
  <2>1. UNCHANGED <<ident, origin, cache, target>>
    BY <1>5 DEF InsertPackage, Uninit, ClosePackages, vars, cacheVars, fileVars, indexVars
  <2> QED BY <2>1 DEF View
<1> QED BY <1>1, <1>2, <1>3, <1>4, <1>5 DEF Next, LoaderStep

\* What a file reads is private to it although it shares a cache, and its entry number may be
\* re-pointed: the caches implement PrivateFiles (vfs_file.c:370-393).
THEOREM CachesImplementPrivateFiles == Spec => SharingIsInvisible
<1>1. Spec => [](IInv /\ TargetInv)
  BY IInvAlways, TargetInvAlways, PTL
<1>2. Init => Private!Init
  BY InitRefines
<1>3. IInv /\ TargetInv /\ [Next]_vars =>
        [Private!Next]_<<target, [f \in Files |-> IF cache[f] = None THEN <<>>
                                   ELSE <<ident[cache[f]], origin[cache[f]]>>]>>
  BY NextRefines DEF View
<1> QED BY <1>1, <1>2, <1>3, PTL DEF Spec, SharingIsInvisible, Private!Spec

----------------------------------------------------------------------------
(* Decoding.                                                                *)
HIDE ConstantsAssumption

\* The holder of cache->lock is at the exchange of the state.
Publishing(c) == owner[c] # None /\ pc[owner[c]] = "publish"

\* A decoding file holds the lock of its cache, and nobody else holds one.
OwnInv ==
  /\ \A f \in Files : pc[f] \in Held => owner[cache[f]] = f
  /\ \A c \in Caches : owner[c] # None => pc[owner[c]] \in Held /\ cache[owner[c]] = c

\* What a cache holds at each step of its decode: the archive until the data is there, the
\* state after it.
EntryInv ==
  \A c \in Caches : Allocated(c) =>
    /\ owner[c] # None => ~published[c]
    /\ data[c] # "none" /\ ~published[c] => Publishing(c)
    /\ (published[c] \/ Publishing(c)) /\ Size(c) # 0 => data[c] # "none"
    /\ retained[c] <=> ~published[c] /\ ~Publishing(c)

\* A file reads what is published, and decodes into a storage unless there is nothing to store.
ReadInv ==
  \A f \in Files :
    /\ pc[f] = "read" => published[cache[f]]
    /\ pc[f] \in {"decode", "store"} /\ Size(cache[f]) # 0 => store[f] # "none"

\* The caches that retain archive p.
Retaining(p) == {c \in Caches : retained[c] /\ origin[c] = p}

PackageInv ==
  /\ \A c \in Caches : retained[c] => Allocated(c)
  /\ \A p \in Packages :
       /\ IsFiniteSet(Retaining(p))
       /\ packageRefs[p] = Cardinality(Retaining(p)) + (IF p \in zipPackages THEN 1 ELSE 0)
                         + (IF p = pending THEN 1 ELSE 0)
  /\ pending \notin zipPackages

DecInv == OwnInv /\ EntryInv /\ ReadInv /\ PackageInv

----------------------------------------------------------------------------
\* Nothing is open or decoded at the start, and the index holds the first archive.
LEMMA InitDecInv == Init => DecInv
<1> SUFFICES ASSUME Init PROVE DecInv
  OBVIOUS
<1> USE DEF Init
<1>1. OwnInv /\ ReadInv
  BY DEF OwnInv, ReadInv, Held
<1>2. EntryInv
  BY DEF EntryInv, Allocated
<1>3. PackageInv
  <2> SUFFICES ASSUME NEW p \in Packages
               PROVE  /\ IsFiniteSet(Retaining(p))
                      /\ packageRefs[p] = Cardinality(Retaining(p)) + (IF p \in zipPackages THEN 1 ELSE 0)
                                        + (IF p = pending THEN 1 ELSE 0)
    BY ConstantsAssumption DEF PackageInv
  <2>1. Retaining(p) = {}
    BY DEF Retaining
  <2>2. IsFiniteSet(Retaining(p)) /\ Cardinality(Retaining(p)) = 0
    BY <2>1, FS_EmptySet
  <2>3. p # pending /\ packageRefs[p] = (IF p \in zipPackages THEN 1 ELSE 0)
    BY ConstantsAssumption
  <2> QED BY <2>2, <2>3
<1> QED BY <1>1, <1>2, <1>3 DEF DecInv

\* Steps that retain and release no archive.
LEMMA PackagesKept ==
  ASSUME PackageInv, UNCHANGED <<retained, origin, packageRefs, zipPackages, pending>>
  PROVE  PackageInv'
BY DEF PackageInv, Retaining, Allocated

\* The holder of a cache's lock is a file.
LEMMA OwnerIsFile ==
  ASSUME IInv, NEW c \in Caches, owner[c] # None
  PROVE  owner[c] \in Files
BY DEF IInv, TypeOK, CacheTypes

\* A step of one file that neither takes nor gives a lock of a cache, nor stores or publishes
\* anything.
LEMMA QuietMove ==
  ASSUME IInv, DecInv, NEW f \in Files, NEW l,
         pc' = [pc EXCEPT ![f] = l], l # "publish", pc[f] # "publish",
         pc[f] \in Held <=> l \in Held,
         pc[f] \in Held => cache'[f] = cache[f],
         \A g \in Files \ {f} : cache'[g] = cache[g] /\ store'[g] = store[g],
         UNCHANGED <<ident, origin, retained, owner, published, data, packageRefs, zipPackages, pending>>,
         l = "read" => published[cache'[f]],
         l \in {"decode", "store"} /\ Size(cache[f]) # 0 => store'[f] # "none"
  PROVE  DecInv'
<1>0. OwnInv /\ EntryInv /\ ReadInv /\ PackageInv
  BY DEF DecInv
<1>1. \A g \in Files : pc'[g] = IF g = f THEN l ELSE pc[g]
  BY DEF IInv, TypeOK, FileTypes
<1>2. \A c \in Caches : owner[c] # None => owner[c] \in Files
  BY OwnerIsFile
<1>3. OwnInv'
  BY <1>0, <1>1, <1>2 DEF OwnInv
<1>4. \A c \in Caches : Publishing(c)' <=> Publishing(c)
  BY <1>1, <1>2 DEF Publishing
<1>5. EntryInv'
  BY <1>0, <1>4 DEF EntryInv, Allocated, Size
<1>6. ReadInv'
  <2>1. \A g \in Files \ {f} : /\ pc'[g] = "read" => published[cache'[g]]
                               /\ pc'[g] \in {"decode", "store"} /\ Size(cache[g]) # 0 => store'[g] # "none"
    BY <1>0, <1>1 DEF ReadInv
  <2>2. l \in {"decode", "store"} => cache'[f] = cache[f]
    BY DEF Held
  <2>3. \A g \in Files : cache'[g] = cache[g] => Size(cache[g])' = Size(cache[g])
    BY DEF Size
  <2> QED BY <1>1, <2>1, <2>2, <2>3 DEF ReadInv, Size
<1>7. PackageInv'
  BY <1>0, PackagesKept
<1> QED BY <1>3, <1>5, <1>6, <1>7 DEF DecInv

\* Reading, making room and the start of an open and the end of a close.
LEMMA QuietSteps ==
  ASSUME IInv, DecInv, NEW f \in Files,
         \/ Prepare(f) \/ TryReserve(f) \/ MakeRoom(f) \/ Allocate(f) \/ Read(f)
         \/ CloseShared(f) \/ CloseIdle(f) \/ Trim(f) \/ CloseUnused(f)
         \/ (LockCache(f) /\ published[cache[f]])
         \/ (\E i \in Identities : OpenShared(f, i))
         \/ (pc[f] = "todisk" /\ CreateDisk(f) /\ store' = [store EXCEPT ![f] = "disk"])
         \/ (pc[f] = "decode" /\ Decode(f) /\ Goto(f, "store"))
  PROVE  DecInv'
<1>0. /\ pc \in [Files -> FilePC] /\ cache \in [Files -> Caches \cup {None}]
      /\ store \in [Files -> Backend \cup {"none"}]
  BY DEF IInv, TypeOK, FileTypes
<1>1. CASE Prepare(f) \/ TryReserve(f) \/ Read(f) \/ (LockCache(f) /\ published[cache[f]])
  <2>1. PICK l \in {"read", "wait", "makeroom", "allocate", "open"} :
          /\ pc' = [pc EXCEPT ![f] = l]
          /\ pc[f] \in {"open", "wait", "reserve", "read"}
          /\ pc[f] \in Held <=> l \in Held
          /\ l = "read" => published[cache[f]]
    BY <1>1 DEF Prepare, TryReserve, Read, LockCache, Goto, Held
  <2>2. UNCHANGED <<ident, origin, retained, owner, published, data, packageRefs, zipPackages,
                    pending, cache, store>>
    BY <1>1 DEF Prepare, TryReserve, Read, LockCache, cacheVars, indexVars, Goto
  <2> QED BY <2>1, <2>2, QuietMove
<1>2. CASE MakeRoom(f) \/ Trim(f)
  <2>1. PICK l \in {"evict", "todisk", "trim", "destroy"} :
          /\ pc' = [pc EXCEPT ![f] = l]
          /\ pc[f] \in {"makeroom", "trim"}
          /\ pc[f] \in Held <=> l \in Held
    <3>1. CASE MakeRoom(f)
      BY <3>1 DEF MakeRoom, Goto, Held
    <3>2. CASE Trim(f)
      <4>1. pc[f] = "trim" /\ (pc' = pc \/ pc' = [pc EXCEPT ![f] = "destroy"])
        BY <3>2 DEF Trim, Goto
      <4>2. pc = [pc EXCEPT ![f] = pc[f]]
        BY <1>0
      <4> QED BY <4>1, <4>2 DEF Held
    <3> QED BY <1>2, <3>1, <3>2
  <2>2. UNCHANGED <<ident, origin, retained, owner, published, data, packageRefs, zipPackages,
                    pending, cache, store>>
    BY <1>2 DEF MakeRoom, Trim, indexVars
  <2> QED BY <2>1, <2>2, QuietMove
<1>3. CASE Allocate(f)
  <2>1. PICK l \in {"decode", "todisk"} :
          /\ pc[f] = "allocate" /\ pc' = [pc EXCEPT ![f] = l]
          /\ l = "decode" => store' = [store EXCEPT ![f] = "memory"]
          /\ l = "todisk" => store' = store
    BY <1>3 DEF Allocate, Goto
  <2>2. UNCHANGED <<ident, origin, retained, owner, published, data, packageRefs, zipPackages,
                    pending, cache>>
    BY <1>3 DEF Allocate, cacheVars, indexVars
  <2>3. (pc[f] \in Held <=> l \in Held) /\ l \notin {"publish", "read", "store"} /\ pc[f] # "publish"
    BY <2>1 DEF Held
  <2>4. /\ l = "decode" => store'[f] # "none"
        /\ \A g \in Files \ {f} : store'[g] = store[g]
    BY <1>0, <2>1
  <2> QED BY <2>1, <2>2, <2>3, <2>4, QuietMove
<1>4. CASE CloseShared(f) \/ CloseIdle(f) \/ CloseUnused(f)
  <2>1. PICK l \in {"closed", "trim", "destroy"} : pc[f] = "open" /\ pc' = [pc EXCEPT ![f] = l]
    BY <1>4 DEF CloseShared, CloseIdle, CloseUnused, Goto
  <2>2. /\ UNCHANGED <<ident, origin, retained, owner, published, data, packageRefs, zipPackages,
                       pending, store>>
        /\ cache' = [cache EXCEPT ![f] = None]
    BY <1>4 DEF CloseShared, CloseIdle, CloseUnused, indexVars
  <2>3. /\ pc[f] \notin Held /\ l \notin Held /\ l \notin {"publish", "read", "decode", "store"}
        /\ pc[f] # "publish"
    BY <2>1 DEF Held
  <2>4. \A g \in Files \ {f} : cache'[g] = cache[g]
    BY <1>0, <2>2
  <2> QED BY <2>1, <2>2, <2>3, <2>4, QuietMove
<1>5. ASSUME NEW i \in Identities, OpenShared(f, i) PROVE DecInv'
  <2>1. /\ pc[f] = "closed" /\ pc' = [pc EXCEPT ![f] = "open"]
        /\ UNCHANGED <<ident, origin, retained, owner, published, data, packageRefs, zipPackages,
                       pending, store>>
        /\ cache' = [cache EXCEPT ![f] = table[i]]
    BY <1>5 DEF OpenShared, OpenFile, Goto
  <2>2. \A g \in Files \ {f} : cache'[g] = cache[g]
    BY <1>0, <2>1
  <2>3. pc[f] \notin Held /\ "open" \notin Held
    BY <2>1 DEF Held
  <2> QED BY <2>1, <2>2, <2>3, QuietMove
<1>6. CASE pc[f] = "todisk" /\ CreateDisk(f) /\ store' = [store EXCEPT ![f] = "disk"]
  <2>1. store'[f] = "disk"
    BY <1>0, <1>6
  <2>2. /\ pc' = [pc EXCEPT ![f] = "decode"]
        /\ UNCHANGED <<ident, origin, retained, owner, published, data, packageRefs, zipPackages,
                       pending, cache>>
    <3>1. ~DecodeFailed(f)
      BY <1>0, <2>1 DEF DecodeFailed
    <3> QED BY <1>6, <3>1 DEF CreateDisk, Goto, indexVars
  <2>3. \A g \in Files \ {f} : store'[g] = store[g]
    BY <1>0, <1>6
  <2>4. "decode" \in Held /\ pc[f] \in Held /\ pc[f] # "publish"
    BY <1>6 DEF Held
  <2> QED BY <2>1, <2>2, <2>3, <2>4, QuietMove
<1>7. CASE pc[f] = "decode" /\ Decode(f) /\ Goto(f, "store")
  <2>1. pc' = [pc EXCEPT ![f] = "store"]
    BY <1>7 DEF Goto
  <2>2. UNCHANGED <<ident, origin, retained, owner, published, data, packageRefs, zipPackages,
                    pending, cache, store>>
    <3>1. ~DecodeFailed(f)
      BY <1>0, <2>1 DEF DecodeFailed, Goto
    <3> QED BY <1>7, <3>1 DEF Decode, indexVars
  <2>3. Size(cache[f]) # 0 => store[f] # "none"
    BY <1>7 DEF DecInv, ReadInv
  <2>4. "store" \in Held /\ pc[f] \in Held /\ pc[f] # "publish"
    BY <1>7 DEF Held
  <2> QED BY <2>1, <2>2, <2>3, <2>4, QuietMove
<1> QED BY <1>1, <1>2, <1>3, <1>4, <1>5, <1>6, <1>7

\* The lock of a cache is taken by a file that uses it, to decode what nobody has stored.
LEMMA DecodeBegins ==
  ASSUME IInv, DecInv, NEW f \in Files, LockCache(f), ~published[cache[f]]
  PROVE  DecInv'
<1> DEFINE c == cache[f]
<1>0. OwnInv /\ EntryInv /\ ReadInv /\ PackageInv
  BY DEF DecInv
<1>1. PICK l \in {"decode", "todisk", "reserve"} :
        /\ pc[f] = "wait" /\ owner[c] = None
        /\ owner' = [owner EXCEPT ![c] = f] /\ pc' = [pc EXCEPT ![f] = l]
        /\ l = "decode" => Size(c) = 0
        /\ UNCHANGED <<ident, origin, retained, published, data, packageRefs, zipPackages, pending,
                       cache, store>>
  BY DEF LockCache, Goto, indexVars
<1>2. /\ c \in Caches /\ Allocated(c) /\ pc[f] \notin Held /\ l \in Held
      /\ l \notin {"publish", "read", "store"}
  <2>1. c \in Caches /\ Allocated(c)
    BY <1>1, FileHasCache DEF IInv
  <2> QED BY <1>1, <2>1 DEF Held
<1>3. /\ \A g \in Files : pc'[g] = IF g = f THEN l ELSE pc[g]
      /\ \A d \in Caches : owner'[d] = IF d = c THEN f ELSE owner[d]
  BY <1>1 DEF IInv, TypeOK, FileTypes, CacheTypes
<1>4. \A d \in Caches : owner[d] # None => owner[d] \in Files \ {f}
  BY <1>0, <1>2, OwnerIsFile DEF OwnInv
<1>5. OwnInv'
  <2>1. ASSUME NEW g \in Files, pc'[g] \in Held PROVE owner'[cache[g]] = g
    <3>1. CASE g = f
      BY <1>2, <1>3, <3>1
    <3>2. CASE g # f
      <4>1. owner[cache[g]] = g /\ cache[g] \in Caches
        <5>1. pc[g] \in Held
          BY <1>3, <2>1, <3>2
        <5>2. pc[g] \notin {"closed", "trim", "destroy"}
          BY <5>1 DEF Held
        <5> QED BY <1>0, <5>1, <5>2, FileHasCache DEF IInv, OwnInv
      <4>2. cache[g] # c
        BY <1>1, <4>1, ConstantsAssumption
      <4> QED BY <1>3, <4>1, <4>2
    <3> QED BY <3>1, <3>2
  <2>2. ASSUME NEW d \in Caches, owner'[d] # None
        PROVE pc'[owner'[d]] \in Held /\ cache[owner'[d]] = d
    BY <1>0, <1>2, <1>3, <1>4, <2>2 DEF OwnInv
  <2> QED BY <1>1, <2>1, <2>2 DEF OwnInv
<1>6. \A d \in Caches : Publishing(d)' <=> Publishing(d)
  BY <1>1, <1>2, <1>3, <1>4 DEF Publishing
<1>7. EntryInv'
  BY <1>0, <1>1, <1>3, <1>6 DEF EntryInv, Allocated, Size
<1>8. ReadInv'
  BY <1>0, <1>1, <1>2, <1>3 DEF ReadInv, Size
<1>9. PackageInv'
  BY <1>0, <1>1, PackagesKept
<1> QED BY <1>5, <1>7, <1>8, <1>9 DEF DecInv

\* The lock of a cache is given back: by a decode that failed, or that has published.
LEMMA LockReturned ==
  ASSUME IInv, DecInv, NEW f \in Files, NEW l \in {"open", "read"}, pc[f] \in Held,
         pc' = [pc EXCEPT ![f] = l], owner' = [owner EXCEPT ![cache[f]] = None],
         UNCHANGED <<ident, origin, retained, data, packageRefs, zipPackages, pending, cache>>,
         \A g \in Files \ {f} : store'[g] = store[g],
         \/ l = "open" /\ pc[f] # "publish" /\ published' = published
         \/ l = "read" /\ pc[f] = "publish" /\ published' = [published EXCEPT ![cache[f]] = TRUE]
  PROVE  DecInv'
<1> DEFINE c == cache[f]
<1>0. OwnInv /\ EntryInv /\ ReadInv /\ PackageInv
  BY DEF DecInv
<1>1. c \in Caches /\ Allocated(c) /\ owner[c] = f /\ l \notin Held
  <2>1. pc[f] \notin {"closed", "trim", "destroy"} /\ l \notin Held
    BY DEF Held
  <2> QED BY <1>0, <2>1, FileHasCache DEF IInv, OwnInv
<1>2. /\ \A g \in Files : pc'[g] = IF g = f THEN l ELSE pc[g]
      /\ \A d \in Caches : owner'[d] = IF d = c THEN None ELSE owner[d]
  BY DEF IInv, TypeOK, FileTypes, CacheTypes
<1>3. \A d \in Caches \ {c} : owner[d] # None => owner[d] \in Files \ {f}
  BY <1>0, OwnerIsFile DEF OwnInv
<1>4. \A d \in Caches : published'[d] = (IF d = c /\ l = "read" THEN TRUE ELSE published[d])
  BY DEF IInv, TypeOK, CacheTypes
<1>5. OwnInv'
  <2>1. ASSUME NEW g \in Files, pc'[g] \in Held PROVE owner'[cache[g]] = g
    <3>1. g # f /\ pc[g] \in Held
      BY <1>1, <1>2, <2>1
    <3>2. pc[g] \notin {"closed", "trim", "destroy"}
      BY <3>1 DEF Held
    <3>3. cache[g] \in Caches /\ owner[cache[g]] = g
      BY <1>0, <3>1, <3>2, FileHasCache DEF IInv, OwnInv
    <3> QED BY <1>1, <1>2, <3>1, <3>3
  <2>2. ASSUME NEW d \in Caches, owner'[d] # None
        PROVE pc'[owner'[d]] \in Held /\ cache[owner'[d]] = d
    BY <1>0, <1>1, <1>2, <1>3, <2>2 DEF OwnInv
  <2> QED BY <2>1, <2>2 DEF OwnInv
<1>6. \A d \in Caches \ {c} : Publishing(d)' <=> Publishing(d)
  BY <1>1, <1>2, <1>3 DEF Publishing
<1>7. ~Publishing(c)' /\ (Publishing(c) <=> pc[f] = "publish")
  BY <1>1, <1>2, ConstantsAssumption DEF Publishing
<1>8. EntryInv'
  <2> SUFFICES ASSUME NEW d \in Caches, Allocated(d)
               PROVE  /\ owner'[d] # None => ~published'[d]
                      /\ data[d] # "none" /\ ~published'[d] => Publishing(d)'
                      /\ (published'[d] \/ Publishing(d)') /\ Size(d) # 0 => data[d] # "none"
                      /\ retained[d] <=> ~published'[d] /\ ~Publishing(d)'
    BY DEF EntryInv, Allocated, Size
  <2>1. CASE d = c
    BY <1>0, <1>1, <1>2, <1>4, <1>7, <2>1, ConstantsAssumption DEF EntryInv
  <2>2. CASE d # c
    <3>1. owner'[d] = owner[d] /\ published'[d] = published[d] /\ (Publishing(d)' <=> Publishing(d))
      BY <1>2, <1>4, <1>6, <2>2
    <3>2. /\ owner[d] # None => ~published[d]
          /\ data[d] # "none" /\ ~published[d] => Publishing(d)
          /\ (published[d] \/ Publishing(d)) /\ Size(d) # 0 => data[d] # "none"
          /\ retained[d] <=> ~published[d] /\ ~Publishing(d)
      BY <1>0 DEF EntryInv
    <3> QED BY <3>1, <3>2
  <2> QED BY <2>1, <2>2
<1>9. ReadInv'
  <2>1. ASSUME NEW g \in Files, g # f
        PROVE  /\ pc[g] = "read" => published'[cache[g]]
               /\ pc[g] \in {"decode", "store"} /\ Size(cache[g]) # 0 => store'[g] # "none"
    <3>1. pc[g] = "read" => cache[g] \in Caches /\ published[cache[g]]
      BY <1>0, FileHasCache DEF ReadInv, IInv
    <3> QED BY <1>0, <1>4, <2>1, <3>1 DEF ReadInv
  <2>2. l = "read" => published'[c]
    BY <1>1, <1>4
  <2> QED BY <1>2, <2>1, <2>2 DEF ReadInv, Size
<1>10. PackageInv'
  BY <1>0, PackagesKept
<1> QED BY <1>5, <1>8, <1>9, <1>10 DEF DecInv

\* The data is stored and the archive released.
LEMMA DataStored ==
  ASSUME IInv, DecInv, NEW f \in Files, StoreData(f)
  PROVE  DecInv'
<1>0. OwnInv /\ EntryInv /\ ReadInv /\ PackageInv
  BY DEF DecInv
<1>2. PICK c \in Caches : c = cache[f] /\ Allocated(c) /\ owner[c] = f
  <2>1. pc[f] = "store"
    BY DEF StoreData
  <2>2. pc[f] \notin {"closed", "trim", "destroy"} /\ pc[f] \in Held
    BY <2>1 DEF Held
  <2> QED BY <1>0, <2>2, FileHasCache DEF IInv, OwnInv
<1>1. /\ pc[f] = "store" /\ pc' = [pc EXCEPT ![f] = "publish"]
      /\ data' = [data EXCEPT ![c] = store[f]] /\ retained' = [retained EXCEPT ![c] = FALSE]
      /\ packageRefs' = [packageRefs EXCEPT ![origin[c]] = @ - 1]
      /\ store' = [store EXCEPT ![f] = "none"]
      /\ UNCHANGED <<ident, origin, owner, published, cache, zipPackages, pending>>
  BY <1>2 DEF StoreData, Goto
<1>3. /\ \A g \in Files : /\ pc'[g] = IF g = f THEN "publish" ELSE pc[g]
                          /\ g # f => store'[g] = store[g]
      /\ \A d \in Caches : /\ data'[d] = IF d = c THEN store[f] ELSE data[d]
                           /\ retained'[d] = IF d = c THEN FALSE ELSE retained[d]
  BY <1>1 DEF IInv, TypeOK, FileTypes, CacheTypes
<1>4. \A d \in Caches : owner[d] # None => owner[d] \in Files /\ (owner[d] = f => d = c)
  BY <1>0, <1>2, OwnerIsFile DEF OwnInv
<1>5. OwnInv'
  <2>1. "publish" \in Held /\ pc[f] \in Held
    BY <1>1 DEF Held
  <2>2. \A g \in Files : pc'[g] \in Held <=> pc[g] \in Held
    BY <1>3, <2>1
  <2> QED BY <1>0, <1>1, <1>4, <2>2 DEF OwnInv
<1>6. \A d \in Caches \ {c} : Publishing(d)' <=> Publishing(d)
  BY <1>1, <1>3, <1>4 DEF Publishing
<1>7. Publishing(c)' /\ ~published[c] /\ retained[c] /\ (Size(c) # 0 => store[f] # "none")
  <2>1. Publishing(c)' /\ ~Publishing(c)
    BY <1>1, <1>2, <1>3, ConstantsAssumption DEF Publishing
  <2>2. ~published[c] /\ retained[c]
    BY <1>0, <1>2, <2>1, ConstantsAssumption DEF EntryInv
  <2> QED BY <1>0, <1>1, <1>2, <2>1, <2>2 DEF ReadInv
<1>8. EntryInv'
  <2> SUFFICES ASSUME NEW d \in Caches, Allocated(d)
               PROVE  /\ owner[d] # None => ~published[d]
                      /\ data'[d] # "none" /\ ~published[d] => Publishing(d)'
                      /\ (published[d] \/ Publishing(d)') /\ Size(d) # 0 => data'[d] # "none"
                      /\ retained'[d] <=> ~published[d] /\ ~Publishing(d)'
    BY <1>1 DEF EntryInv, Allocated, Size
  <2>1. CASE d = c
    BY <1>3, <1>7, <2>1
  <2>2. CASE d # c
    <3>1. data'[d] = data[d] /\ retained'[d] = retained[d] /\ (Publishing(d)' <=> Publishing(d))
      BY <1>3, <1>6, <2>2
    <3>2. /\ owner[d] # None => ~published[d]
          /\ data[d] # "none" /\ ~published[d] => Publishing(d)
          /\ (published[d] \/ Publishing(d)) /\ Size(d) # 0 => data[d] # "none"
          /\ retained[d] <=> ~published[d] /\ ~Publishing(d)
      BY <1>0 DEF EntryInv
    <3> QED BY <3>1, <3>2
  <2> QED BY <2>1, <2>2
<1>9. ReadInv'
  BY <1>0, <1>1, <1>3 DEF ReadInv, Size
<1>10. PackageInv'
  <2>1. PICK o \in Packages : o = origin[c] /\ packageRefs \in [Packages -> Int]
    BY <1>2 DEF Allocated, IInv, TypeOK, CacheTypes, IndexTypes
  <2>2. \A p \in Packages : Retaining(p)' = IF p = o THEN Retaining(p) \ {c} ELSE Retaining(p)
    BY <1>1, <1>3, <2>1 DEF Retaining
  <2>3. c \in Retaining(o) /\ IsFiniteSet(Retaining(o))
    BY <1>0, <1>2, <1>7, <2>1 DEF Retaining, PackageInv
  <2>4. IsFiniteSet(Retaining(o) \ {c}) /\ Cardinality(Retaining(o) \ {c}) = Cardinality(Retaining(o)) - 1
    BY <2>3, FS_RemoveElement
  <2>5. Cardinality(Retaining(o)) \in Nat
    BY <2>3, FS_CardinalityType
  <2>6. ASSUME NEW p \in Packages
        PROVE  /\ IsFiniteSet(Retaining(p)')
               /\ packageRefs'[p] = Cardinality(Retaining(p)') + (IF p \in zipPackages THEN 1 ELSE 0)
                                  + (IF p = pending THEN 1 ELSE 0)
    <3>1. /\ IsFiniteSet(Retaining(p))
          /\ packageRefs[p] = Cardinality(Retaining(p)) + (IF p \in zipPackages THEN 1 ELSE 0)
                            + (IF p = pending THEN 1 ELSE 0)
      BY <1>0 DEF PackageInv
    <3>2. CASE p = o
      <4>1. packageRefs'[p] = packageRefs[p] - 1
        BY <1>1, <2>1, <3>2
      <4>2. /\ IsFiniteSet(Retaining(p)')
            /\ Cardinality(Retaining(p)') = Cardinality(Retaining(p)) - 1
            /\ Cardinality(Retaining(p)) \in Nat
        BY <2>2, <2>4, <2>5, <3>2
      <4> QED BY <3>1, <4>1, <4>2
    <3>3. CASE p # o
      <4>1. packageRefs'[p] = packageRefs[p] /\ Retaining(p)' = Retaining(p)
        BY <1>1, <2>1, <2>2, <3>3
      <4> QED BY <3>1, <4>1
    <3> QED BY <3>2, <3>3
  <2>7. \A d \in Caches : retained'[d] => Allocated(d)'
    BY <1>0, <1>1, <1>3 DEF PackageInv, Allocated
  <2> QED BY <1>0, <1>1, <2>6, <2>7 DEF PackageInv
<1> QED BY <1>5, <1>8, <1>9, <1>10 DEF DecInv

\* A file that has no cache of its own is not at a step that needs one.
LEMMA RunningHasCache ==
  ASSUME IInv, NEW g \in Files, pc[g] \in Held \/ pc[g] = "read"
  PROVE  cache[g] \in Caches /\ Allocated(cache[g])
<1>1. pc[g] \notin {"closed", "trim", "destroy"}
  BY DEF Held
<1> QED BY <1>1, FileHasCache DEF IInv

\* A new cache retains the archive its entry number names.
LEMMA CacheCreated ==
  ASSUME IInv, DecInv, NEW f \in Files, NEW i \in Identities, NEW c \in Caches, OpenNew(f, i, c)
  PROVE  DecInv'
<1>0. OwnInv /\ EntryInv /\ ReadInv /\ PackageInv
  BY DEF DecInv
<1>1. PICK t \in Packages : t = target[i]
  BY DEF IInv, TypeOK, IndexTypes
<1>2. /\ pc[f] = "closed" /\ pc' = [pc EXCEPT ![f] = "open"] /\ ~Allocated(c)
      /\ cache' = [cache EXCEPT ![f] = c]
      /\ ident' = [ident EXCEPT ![c] = i] /\ origin' = [origin EXCEPT ![c] = t]
      /\ retained' = [retained EXCEPT ![c] = TRUE] /\ published' = [published EXCEPT ![c] = FALSE]
      /\ data' = [data EXCEPT ![c] = "none"]
      /\ packageRefs' = [packageRefs EXCEPT ![t] = @ + 1]
      /\ UNCHANGED <<owner, store, zipPackages, pending>>
  BY <1>1 DEF OpenNew, OpenFile, CreateCache, Goto
<1>3. /\ \A g \in Files : /\ pc'[g] = IF g = f THEN "open" ELSE pc[g]
                          /\ cache'[g] = IF g = f THEN c ELSE cache[g]
      /\ \A d \in Caches : d # c => /\ ident'[d] = ident[d] /\ origin'[d] = origin[d]
                                    /\ retained'[d] = retained[d] /\ published'[d] = published[d]
                                    /\ data'[d] = data[d]
      /\ origin'[c] = t /\ retained'[c] = TRUE /\ published'[c] = FALSE /\ data'[c] = "none"
  BY <1>2 DEF IInv, TypeOK, FileTypes, CacheTypes
<1>4. \A d \in Caches : owner[d] # None => owner[d] \in Files \ {f} /\ d # c
  <2> SUFFICES ASSUME NEW d \in Caches, owner[d] # None PROVE owner[d] \in Files \ {f} /\ d # c
    OBVIOUS
  <2>1. owner[d] \in Files /\ pc[owner[d]] \in Held /\ cache[owner[d]] = d
    BY <1>0, OwnerIsFile DEF OwnInv
  <2>2. Allocated(d)
    BY <2>1, RunningHasCache
  <2>3. "closed" \notin Held
    BY DEF Held
  <2> QED BY <1>2, <2>1, <2>2, <2>3
<1>5. \A g \in Files : pc[g] \in Held \/ pc[g] = "read" => g # f /\ cache[g] \in Caches \ {c}
  <2>1. "closed" \notin Held
    BY DEF Held
  <2> QED BY <1>2, <2>1, RunningHasCache
<1>6. OwnInv'
  <2>1. "open" \notin Held
    BY DEF Held
  <2> QED BY <1>0, <1>2, <1>3, <1>4, <1>5, <2>1 DEF OwnInv
<1>7. \A d \in Caches : Publishing(d)' <=> Publishing(d)
  BY <1>2, <1>3, <1>4 DEF Publishing
<1>8. EntryInv'
  <2> SUFFICES ASSUME NEW d \in Caches, Allocated(d)'
               PROVE  /\ owner[d] # None => ~published'[d]
                      /\ data'[d] # "none" /\ ~published'[d] => Publishing(d)
                      /\ (published'[d] \/ Publishing(d)) /\ Size(d)' # 0 => data'[d] # "none"
                      /\ retained'[d] <=> ~published'[d] /\ ~Publishing(d)
    BY <1>2, <1>7 DEF EntryInv
  <2>1. CASE d = c
    <3>1. ~Publishing(c)
      BY <1>4 DEF Publishing
    <3> QED BY <1>3, <2>1, <3>1
  <2>2. CASE d # c
    <3>1. Allocated(d) /\ Size(d)' = Size(d)
      BY <1>3, <2>2 DEF Allocated, Size
    <3> QED BY <1>0, <1>3, <2>2, <3>1 DEF EntryInv
  <2> QED BY <2>1, <2>2
<1>9. ReadInv'
  <2>1. ASSUME NEW g \in Files, g # f
        PROVE  /\ pc[g] = "read" => published'[cache[g]]
               /\ pc[g] \in {"decode", "store"} /\ Size(cache[g])' # 0 => store[g] # "none"
    <3>1. CASE pc[g] = "read"
      BY <1>0, <1>3, <1>5, <3>1 DEF ReadInv
    <3>2. CASE pc[g] \in {"decode", "store"}
      <4>1. pc[g] \in Held
        BY <3>2 DEF Held
      <4>2. cache[g] \in Caches \ {c} /\ cache'[g] = cache[g]
        BY <1>3, <1>5, <2>1, <4>1
      <4>3. Size(cache[g])' = Size(cache[g])
        BY <1>3, <4>2 DEF Size
      <4> QED BY <1>0, <3>2, <4>3 DEF ReadInv
    <3> QED BY <3>1, <3>2
  <2>2. pc'[f] = "open"
    BY <1>3
  <2>3. ASSUME NEW g \in Files
        PROVE  /\ pc'[g] = "read" => published'[cache'[g]]
               /\ pc'[g] \in {"decode", "store"} /\ Size(cache[g])' # 0 => store'[g] # "none"
    <3>1. CASE g = f
      BY <2>2, <3>1
    <3>2. CASE g # f
      BY <1>2, <1>3, <2>1, <3>2
    <3> QED BY <3>1, <3>2
  <2> QED BY <2>3 DEF ReadInv
<1>10. PackageInv'
  <2>1. packageRefs \in [Packages -> Int] /\ ~retained[c]
    BY <1>0, <1>2 DEF IInv, TypeOK, IndexTypes, PackageInv
  <2>2. \A p \in Packages : Retaining(p)' = IF p = t THEN Retaining(p) \cup {c} ELSE Retaining(p)
    BY <1>3, <2>1 DEF Retaining
  <2>3. c \notin Retaining(t) /\ IsFiniteSet(Retaining(t))
    BY <1>0, <2>1 DEF Retaining, PackageInv
  <2>4. /\ IsFiniteSet(Retaining(t) \cup {c})
        /\ Cardinality(Retaining(t) \cup {c}) = Cardinality(Retaining(t)) + 1
    BY <2>3, FS_AddElement
  <2>5. Cardinality(Retaining(t)) \in Nat
    BY <2>3, FS_CardinalityType
  <2>6. ASSUME NEW p \in Packages
        PROVE  /\ IsFiniteSet(Retaining(p)')
               /\ packageRefs'[p] = Cardinality(Retaining(p)') + (IF p \in zipPackages THEN 1 ELSE 0)
                                  + (IF p = pending THEN 1 ELSE 0)
    <3>1. /\ IsFiniteSet(Retaining(p))
          /\ packageRefs[p] = Cardinality(Retaining(p)) + (IF p \in zipPackages THEN 1 ELSE 0)
                            + (IF p = pending THEN 1 ELSE 0)
      BY <1>0 DEF PackageInv
    <3>2. CASE p = t
      <4>1. packageRefs'[p] = packageRefs[p] + 1
        BY <1>2, <2>1, <3>2
      <4>2. /\ IsFiniteSet(Retaining(p)')
            /\ Cardinality(Retaining(p)') = Cardinality(Retaining(p)) + 1
            /\ Cardinality(Retaining(p)) \in Nat
        BY <2>2, <2>4, <2>5, <3>2
      <4> QED BY <3>1, <4>1, <4>2
    <3>3. CASE p # t
      <4>1. packageRefs'[p] = packageRefs[p] /\ Retaining(p)' = Retaining(p)
        BY <1>2, <2>1, <2>2, <3>3
      <4> QED BY <3>1, <4>1
    <3> QED BY <3>2, <3>3
  <2>7. \A d \in Caches : retained'[d] => Allocated(d)'
    BY <1>0, <1>3, ConstantsAssumption DEF PackageInv, Allocated
  <2> QED BY <1>0, <1>2, <2>6, <2>7 DEF PackageInv
<1> QED BY <1>6, <1>8, <1>9, <1>10 DEF DecInv

\* A destroyed cache has no user, so none that holds its lock; it releases its archive when it
\* was never decoded.
LEMMA CacheDestroyed ==
  ASSUME IInv, DecInv, NEW a \in Actors, NEW c \in Caches, Destroy(a, c)
  PROVE  DecInv'
<1>0. OwnInv /\ EntryInv /\ ReadInv /\ PackageInv
  BY DEF DecInv
<1>1. Doomed(c) /\ c \in doomed[a]
  BY DEF Destroy, Doomed
<1>2. Allocated(c) /\ \A g \in Files : cache[g] # c
  BY <1>1, ConstantsAssumption DEF IInv, DoomInv, UseInv
<1>3. PICK o \in Packages : o = origin[c]
  BY <1>2 DEF IInv, TypeOK, CacheTypes, Allocated
<1>4. /\ origin' = [origin EXCEPT ![c] = None] /\ retained' = [retained EXCEPT ![c] = FALSE]
      /\ published' = [published EXCEPT ![c] = FALSE] /\ data' = [data EXCEPT ![c] = "none"]
      /\ packageRefs' = IF retained[c] THEN [packageRefs EXCEPT ![o] = @ - 1] ELSE packageRefs
      /\ UNCHANGED <<ident, owner, cache, store, zipPackages, pending>>
  BY <1>3 DEF Destroy
<1>5. \A d \in Caches : d # c => /\ origin'[d] = origin[d] /\ retained'[d] = retained[d]
                                 /\ published'[d] = published[d] /\ data'[d] = data[d]
  BY <1>4 DEF IInv, TypeOK, CacheTypes
<1>6. origin'[c] = None /\ retained'[c] = FALSE
  BY <1>4 DEF IInv, TypeOK, CacheTypes
<1>7. \A g \in Files : \/ pc'[g] = pc[g]
                       \/ pc[g] = "evict" /\ pc'[g] = "reserve"
                       \/ pc[g] = "destroy" /\ pc'[g] = "closed"
  <2>1. CASE pc' = pc
    BY <2>1
  <2>2. CASE a \in Files /\ pc' = [pc EXCEPT ![a] = AfterDestroy[pc[a]]]
    <3>1. pc[a] \in {"evict", "trim", "destroy"} /\ (pc[a] = "trim" <=> lock = a) /\ lock # a
      BY <1>1, <2>2 DEF IInv, PcInv, Destroy
    <3> QED BY <2>2, <3>1 DEF AfterDestroy, IInv, TypeOK, FileTypes
  <2> QED BY <2>1, <2>2 DEF Destroy, Goto
<1>8. \A g \in Files : pc'[g] \in Held <=> pc[g] \in Held
  BY <1>7 DEF Held
<1>9. OwnInv'
  BY <1>0, <1>4, <1>8, OwnerIsFile DEF OwnInv
<1>10. \A d \in Caches : Publishing(d)' <=> Publishing(d)
  BY <1>4, <1>7, OwnerIsFile DEF Publishing
<1>11. EntryInv'
  <2> SUFFICES ASSUME NEW d \in Caches, Allocated(d)'
               PROVE  /\ owner[d] # None => ~published'[d]
                      /\ data'[d] # "none" /\ ~published'[d] => Publishing(d)
                      /\ (published'[d] \/ Publishing(d)) /\ Size(d)' # 0 => data'[d] # "none"
                      /\ retained'[d] <=> ~published'[d] /\ ~Publishing(d)
    BY <1>4, <1>10 DEF EntryInv
  <2>1. d # c
    BY <1>6 DEF Allocated
  <2>2. Allocated(d) /\ Size(d)' = Size(d)
    BY <1>4, <1>5, <2>1 DEF Allocated, Size
  <2> QED BY <1>0, <1>5, <2>1, <2>2 DEF EntryInv
<1>12. ReadInv'
  <2> SUFFICES ASSUME NEW g \in Files
               PROVE  /\ pc'[g] = "read" => published'[cache[g]]
                      /\ pc'[g] \in {"decode", "store"} /\ Size(cache[g])' # 0 => store[g] # "none"
    BY <1>4 DEF ReadInv, Size
  <2>1. CASE pc[g] \in {"read", "decode", "store"}
    <3>1. pc'[g] = pc[g]
      BY <1>7, <2>1
    <3>2. cache[g] \in Caches /\ cache[g] # c
      BY <1>2, <2>1, RunningHasCache DEF Held
    <3>3. Size(cache[g])' = Size(cache[g]) /\ published'[cache[g]] = published[cache[g]]
      BY <1>4, <1>5, <3>2 DEF Size
    <3> QED BY <1>0, <3>1, <3>3 DEF ReadInv
  <2>2. CASE pc[g] \notin {"read", "decode", "store"}
    BY <1>7, <2>2
  <2> QED BY <2>1, <2>2
<1>13. PackageInv'
  <2>1. packageRefs \in [Packages -> Int] /\ retained[c] \in BOOLEAN
    BY DEF IInv, TypeOK, IndexTypes, CacheTypes
  <2>2. \A p \in Packages : Retaining(p)' = Retaining(p) \ {c}
    BY <1>5, <1>6 DEF Retaining
  <2>3. ASSUME NEW p \in Packages
        PROVE  /\ IsFiniteSet(Retaining(p)')
               /\ packageRefs'[p] = Cardinality(Retaining(p)') + (IF p \in zipPackages THEN 1 ELSE 0)
                                  + (IF p = pending THEN 1 ELSE 0)
    <3>1. /\ IsFiniteSet(Retaining(p))
          /\ packageRefs[p] = Cardinality(Retaining(p)) + (IF p \in zipPackages THEN 1 ELSE 0)
                            + (IF p = pending THEN 1 ELSE 0)
      BY <1>0 DEF PackageInv
    <3>2. CASE retained[c] /\ p = o
      <4>1. packageRefs'[p] = packageRefs[p] - 1
        BY <1>4, <2>1, <3>2
      <4>2. c \in Retaining(p)
        BY <1>3, <3>2 DEF Retaining
      <4>3. /\ IsFiniteSet(Retaining(p)')
            /\ Cardinality(Retaining(p)') = Cardinality(Retaining(p)) - 1
            /\ Cardinality(Retaining(p)) \in Nat
        BY <2>2, <3>1, <4>2, FS_RemoveElement, FS_CardinalityType
      <4> QED BY <3>1, <4>1, <4>3
    <3>3. CASE ~(retained[c] /\ p = o)
      <4>1. packageRefs'[p] = packageRefs[p] /\ c \notin Retaining(p)
        BY <1>3, <1>4, <2>1, <3>3 DEF Retaining
      <4>2. Retaining(p)' = Retaining(p)
        BY <2>2, <4>1
      <4> QED BY <3>1, <4>1, <4>2
    <3> QED BY <3>2, <3>3
  <2>4. \A d \in Caches : retained'[d] => Allocated(d)'
    BY <1>0, <1>5, <1>6 DEF PackageInv, Allocated
  <2> QED BY <1>0, <1>4, <2>3, <2>4 DEF PackageInv
<1> QED BY <1>9, <1>11, <1>12, <1>13 DEF DecInv

\* Adding a package and closing the index move archives between the index and the insertion.
LEMMA IndexMoved ==
  ASSUME IInv, DecInv, LoaderStep
  PROVE  DecInv'
<1>0. OwnInv /\ EntryInv /\ ReadInv /\ PackageInv
  BY DEF DecInv
<1>1. UNCHANGED <<ident, origin, retained, owner, published, data, pc, cache, store>>
  BY DEF LoaderStep, InsertPackage, PointEntries, Uninit, ClosePackages, cacheVars, fileVars
<1>2. OwnInv' /\ EntryInv' /\ ReadInv'
  BY <1>0, <1>1 DEF OwnInv, EntryInv, ReadInv, Publishing, Allocated, Size
<1>3. \A p \in Packages : Retaining(p)' = Retaining(p)
  BY <1>1 DEF Retaining
<1>4. /\ packageRefs \in [Packages -> Int] /\ pending \in Packages \cup {None}
      /\ loader = "insert" <=> pending # None
  BY DEF IInv, TypeOK, IndexTypes, PendingInv
<1>5. \A p \in Packages :
        /\ IsFiniteSet(Retaining(p)) /\ Cardinality(Retaining(p)) \in Nat
        /\ packageRefs[p] = Cardinality(Retaining(p)) + (IF p \in zipPackages THEN 1 ELSE 0)
                          + (IF p = pending THEN 1 ELSE 0)
  BY <1>0, FS_CardinalityType DEF PackageInv
<1>6. /\ pending' \notin zipPackages'
      /\ \A p \in Packages :
           packageRefs'[p] = Cardinality(Retaining(p)) + (IF p \in zipPackages' THEN 1 ELSE 0)
                           + (IF p = pending' THEN 1 ELSE 0)
  <2>1. zipPackages \subseteq Packages /\ None \notin Packages /\ pending \notin zipPackages
    BY <1>0, ConstantsAssumption DEF IInv, TypeOK, IndexTypes, PackageInv
  <2>2. ASSUME NEW q \in Packages, InsertPackage(q)
        PROVE  /\ pending' \notin zipPackages'
               /\ \A p \in Packages :
                    packageRefs'[p] = Cardinality(Retaining(p)) + (IF p \in zipPackages' THEN 1 ELSE 0)
                                    + (IF p = pending' THEN 1 ELSE 0)
    <3>1. /\ pending = None /\ pending' = q /\ q \notin zipPackages /\ zipPackages' = zipPackages
          /\ packageRefs' = [packageRefs EXCEPT ![q] = @ + 1]
      BY <1>4, <2>2 DEF InsertPackage
    <3> QED BY <1>4, <1>5, <2>1, <3>1
  <2>3. ASSUME NEW overridden \in SUBSET Identities, PointEntries(overridden)
        PROVE  /\ pending' \notin zipPackages'
               /\ \A p \in Packages :
                    packageRefs'[p] = Cardinality(Retaining(p)) + (IF p \in zipPackages' THEN 1 ELSE 0)
                                    + (IF p = pending' THEN 1 ELSE 0)
    <3>1. /\ pending \in Packages /\ pending' = None
          /\ \/ zipPackages' = zipPackages \cup {pending} /\ packageRefs' = packageRefs
             \/ zipPackages' = zipPackages /\ packageRefs' = [packageRefs EXCEPT ![pending] = @ - 1]
      BY <1>4, <2>3 DEF PointEntries
    <3> QED BY <1>4, <1>5, <2>1, <3>1
  <2>4. CASE Uninit
    <3>1. UNCHANGED <<packageRefs, zipPackages, pending>>
      BY <2>4 DEF Uninit
    <3> QED BY <1>5, <2>1, <3>1
  <2>5. CASE ClosePackages
    <3>1. /\ pending = None /\ pending' = None /\ zipPackages' = {}
          /\ \A p \in Packages :
               packageRefs'[p] = IF p \in zipPackages THEN packageRefs[p] - 1 ELSE packageRefs[p]
      BY <1>4, <2>5 DEF ClosePackages
    <3> QED BY <1>4, <1>5, <2>1, <3>1
  <2> QED BY <2>2, <2>3, <2>4, <2>5 DEF LoaderStep
<1> QED BY <1>0, <1>1, <1>2, <1>3, <1>5, <1>6 DEF DecInv, PackageInv, Allocated

----------------------------------------------------------------------------
\* No step of a file, of a destruction or of the loader breaks the invariant.
LEMMA NextDecInv == IInv /\ DecInv /\ [Next]_vars => DecInv'
<1> SUFFICES ASSUME IInv, DecInv, [Next]_vars PROVE DecInv'
  OBVIOUS
<1>1. ASSUME NEW f \in Files, Open(f) PROVE DecInv'
  BY <1>1, QuietSteps, CacheCreated DEF Open
<1>2. ASSUME NEW f \in Files, FileStep(f) PROVE DecInv'
  <2>1. CASE LockCache(f)
    BY <2>1, QuietSteps, DecodeBegins
  <2>2. CASE CreateDisk(f)
    <3>1. CASE store' = [store EXCEPT ![f] = "disk"]
      BY <2>2, <3>1, QuietSteps DEF CreateDisk
    <3>2. CASE DecodeFailed(f)
      <4>1. /\ pc[f] = "todisk" /\ pc' = [pc EXCEPT ![f] = "open"]
            /\ owner' = [owner EXCEPT ![cache[f]] = None]
            /\ store' = [store EXCEPT ![f] = "none"]
            /\ UNCHANGED <<ident, origin, retained, published, data, packageRefs, zipPackages,
                           pending, cache>>
        BY <2>2, <3>2 DEF CreateDisk, DecodeFailed, Goto, indexVars
      <4>2. pc[f] \in Held /\ pc[f] # "publish" /\ \A g \in Files \ {f} : store'[g] = store[g]
        BY <4>1 DEF Held, IInv, TypeOK, FileTypes
      <4> QED BY <4>1, <4>2, LockReturned
    <3> QED BY <2>2, <3>1, <3>2 DEF CreateDisk
  <2>3. CASE Decode(f)
    <3>1. CASE Goto(f, "store")
      BY <2>3, <3>1, QuietSteps DEF Decode
    <3>2. CASE DecodeFailed(f)
      <4>1. /\ pc[f] = "decode" /\ pc' = [pc EXCEPT ![f] = "open"]
            /\ owner' = [owner EXCEPT ![cache[f]] = None]
            /\ store' = [store EXCEPT ![f] = "none"]
            /\ UNCHANGED <<ident, origin, retained, published, data, packageRefs, zipPackages,
                           pending, cache>>
        BY <2>3, <3>2 DEF Decode, DecodeFailed, Goto, indexVars
      <4>2. pc[f] \in Held /\ pc[f] # "publish" /\ \A g \in Files \ {f} : store'[g] = store[g]
        BY <4>1 DEF Held, IInv, TypeOK, FileTypes
      <4> QED BY <4>1, <4>2, LockReturned
    <3> QED BY <2>3, <3>1, <3>2 DEF Decode
  <2>4. CASE Publish(f)
    <3>1. /\ pc[f] = "publish" /\ pc' = [pc EXCEPT ![f] = "read"]
          /\ owner' = [owner EXCEPT ![cache[f]] = None]
          /\ published' = [published EXCEPT ![cache[f]] = TRUE]
          /\ UNCHANGED <<ident, origin, retained, data, packageRefs, zipPackages, pending, cache, store>>
      BY <2>4 DEF Publish, Goto, indexVars
    <3>2. pc[f] \in Held
      BY <3>1 DEF Held
    <3> QED BY <3>1, <3>2, LockReturned
  <2>5. CASE \/ Prepare(f) \/ TryReserve(f) \/ MakeRoom(f) \/ Allocate(f) \/ Read(f)
             \/ CloseShared(f) \/ CloseIdle(f) \/ Trim(f) \/ CloseUnused(f)
    BY <2>5, QuietSteps
  <2> QED BY <1>2, <2>1, <2>2, <2>3, <2>4, <2>5, DataStored DEF FileStep
<1>3. CASE UNCHANGED vars
  <2>1. UNCHANGED <<ident, origin, retained, owner, published, data, packageRefs, zipPackages,
                    pending, pc, cache, store>>
    BY <1>3 DEF vars, cacheVars, fileVars, indexVars
  <2>2. OwnInv' /\ EntryInv' /\ ReadInv'
    BY <2>1 DEF DecInv, OwnInv, EntryInv, ReadInv, Publishing, Allocated, Size
  <2>3. PackageInv'
    BY <2>1, PackagesKept DEF DecInv
  <2> QED BY <2>2, <2>3 DEF DecInv
<1> QED BY <1>1, <1>2, <1>3, CacheDestroyed, IndexMoved DEF Next

\* The invariant of decoding holds in every reachable state.
THEOREM DecInvAlways == Spec => []DecInv
<1>1. Init => DecInv
  BY InitDecInv
<1>2. IInv /\ DecInv /\ [Next]_vars => DecInv'
  BY NextDecInv
<1> QED BY <1>1, <1>2, IInvAlways, PTL DEF Spec

\* A cache is decoded by one file at a time, which no reader can overtake although cache_read
\* takes no lock (vfs_file.c:278), and an archive is open exactly as long as the index, an
\* insertion or an undecoded cache needs it (vfs_file.c:196, 259).
THEOREM DecodesAreAlwaysSafe == Spec => []DecodesAreSafe
<1>1. IInv /\ DecInv => DecodesAreSafe
  <2> SUFFICES ASSUME IInv, DecInv PROVE OneDecoder /\ PackagesStayOpen
    BY DEF DecodesAreSafe
  <2>0. OwnInv /\ EntryInv /\ ReadInv /\ PackageInv
    BY DEF DecInv
  <2>1. OneDecoder
    <3> SUFFICES ASSUME NEW f \in Files
                 PROVE  /\ pc[f] \in Held => /\ owner[cache[f]] = f /\ ~published[cache[f]]
                                             /\ data[cache[f]] # "none" => pc[f] = "publish"
                        /\ pc[f] = "read" => /\ published[cache[f]]
                                             /\ Size(cache[f]) # 0 => data[cache[f]] # "none"
      BY DEF OneDecoder
    <3>1. CASE pc[f] \in Held
      <4>1. PICK c \in Caches : c = cache[f] /\ Allocated(c) /\ owner[c] = f
        BY <2>0, <3>1, RunningHasCache DEF OwnInv
      <4>2. owner[c] # None /\ (Publishing(c) <=> pc[f] = "publish")
        BY <4>1, ConstantsAssumption DEF Publishing
      <4>3. ~published[c] /\ (data[c] # "none" => pc[f] = "publish") /\ pc[f] # "read"
        BY <2>0, <3>1, <4>1, <4>2 DEF EntryInv, Held
      <4> QED BY <4>1, <4>3
    <3>2. CASE pc[f] = "read"
      <4>1. PICK c \in Caches : c = cache[f] /\ Allocated(c) /\ published[c]
        BY <2>0, <3>2, RunningHasCache DEF ReadInv
      <4>2. pc[f] \notin Held
        BY <3>2 DEF Held
      <4> QED BY <2>0, <4>1, <4>2 DEF EntryInv
    <3>3. CASE pc[f] \notin Held /\ pc[f] # "read"
      BY <3>3
    <3> QED BY <3>1, <3>2, <3>3
  <2>2. PackagesStayOpen
    <3>1. \A p \in Packages :
            packageRefs[p] = Cardinality({c \in Caches : retained[c] /\ origin[c] = p})
                           + (IF p \in zipPackages THEN 1 ELSE 0) + (IF p = pending THEN 1 ELSE 0)
      BY <2>0 DEF PackageInv, Retaining
    <3>2. ASSUME NEW c \in Caches, Allocated(c)
          PROVE  retained[c] <=> ~published[c] /\ \A f \in Users(c) : pc[f] # "publish"
      <4>1. retained[c] <=> ~published[c] /\ ~Publishing(c)
        BY <2>0, <3>2 DEF EntryInv
      <4>2. Publishing(c) => \E f \in Users(c) : pc[f] = "publish"
        BY <2>0, OwnerIsFile DEF Publishing, OwnInv, Users
      <4>3. (\E f \in Users(c) : pc[f] = "publish") => Publishing(c)
        BY <2>0, ConstantsAssumption DEF Publishing, OwnInv, Users, Held
      <4> QED BY <4>1, <4>2, <4>3
    <3> QED BY <3>1, <3>2 DEF PackagesStayOpen
  <2> QED BY <2>1, <2>2
<1> QED BY <1>1, DecInvAlways, IInvAlways, PTL

----------------------------------------------------------------------------
(* Sums over finite sets.  SumFunctionOnSet is a recursive function over     *)
(* the subsets of a set, which takes elements out in an order of its own.   *)

\* Counting up to m reaches every number up to it.
LEMMA UpTo ==
  ASSUME NEW m \in Nat, NEW S, 0 \in S, \A n \in Nat : n \in S /\ n < m => n + 1 \in S
  PROVE  \A n \in 0..m : n \in S
<1> DEFINE Missing == {n \in 0..m : n \notin S}
<1> SUFFICES ASSUME Missing # {} PROVE FALSE
  OBVIOUS
<1>1. PICK x \in Missing : \A y \in Missing : ~(<<y, x>> \in OpToRel(<, Nat))
  <2>1. Missing \subseteq Nat
    OBVIOUS
  <2> HIDE DEF Missing
  <2> QED BY <2>1, NatLessThanWellFounded, WFMin
<1>2. x \in Nat /\ x # 0 /\ x <= m /\ x \notin S
  OBVIOUS
<1> HIDE DEF Missing
<1>3. x - 1 \in Nat /\ x - 1 < m /\ x - 1 \in 0..m /\ (x - 1) + 1 = x
  BY <1>2
<1>4. x - 1 \notin Missing
  <2>1. x - 1 < x /\ x - 1 \in Nat
    BY <1>2
  <2> QED BY <1>1, <1>2, <2>1 DEF OpToRel
<1>5. x - 1 \in S
  BY <1>3, <1>4 DEF Missing
<1> QED BY <1>2, <1>3, <1>5

\* The element SumFunctionOnSet takes out of a set first.
Pick(s) == CHOOSE x \in s : TRUE

\* g sums f over every set of sets, taking the elements in that order.
Sums(g, f, sets) ==
  g = [s \in sets |-> IF s = {} THEN 0 ELSE f[Pick(s)] + g[s \ {Pick(s)}]]

\* The subsets of S with at most n elements.
Layer(S, n) == {s \in SUBSET S : Cardinality(s) <= n}

\* Taking an element out of a set leads from a layer to the one below it.
LEMMA LayerFacts ==
  ASSUME NEW S, IsFiniteSet(S), NEW n \in Nat
  PROVE  /\ \A s \in SUBSET S : IsFiniteSet(s) /\ Cardinality(s) \in Nat
         /\ \A s \in Layer(S, n + 1) : \A x \in s : s \ {x} \in Layer(S, n)
         /\ \A s \in Layer(S, 0) : s = {}
         /\ Layer(S, n) \subseteq Layer(S, n + 1)
         /\ Layer(S, Cardinality(S)) = SUBSET S
<1>1. \A s \in SUBSET S : IsFiniteSet(s) /\ Cardinality(s) \in Nat /\ Cardinality(s) <= Cardinality(S)
  BY FS_Subset, FS_CardinalityType
<1>2. ASSUME NEW s \in Layer(S, n + 1), NEW x \in s PROVE s \ {x} \in Layer(S, n)
  <2>1. s \in SUBSET S /\ Cardinality(s) <= n + 1
    BY <1>2 DEF Layer
  <2>2. IsFiniteSet(s) /\ Cardinality(s) \in Nat
    BY <1>1, <2>1
  <2>3. Cardinality(s \ {x}) = Cardinality(s) - 1
    BY <1>2, <2>2, FS_RemoveElement
  <2>4. Cardinality(s \ {x}) <= n
    BY <2>1, <2>2, <2>3
  <2> QED BY <2>1, <2>4 DEF Layer
<1>3. ASSUME NEW s \in Layer(S, 0) PROVE s = {}
  <2>1. s \in SUBSET S /\ Cardinality(s) <= 0
    BY <1>3 DEF Layer
  <2>2. IsFiniteSet(s) /\ Cardinality(s) = 0
    BY <1>1, <2>1
  <2> QED BY <2>2, FS_EmptySet
<1>4. ASSUME NEW s \in Layer(S, n) PROVE s \in Layer(S, n + 1)
  <2>1. s \in SUBSET S /\ Cardinality(s) <= n
    BY <1>4 DEF Layer
  <2>2. Cardinality(s) <= n + 1
    BY <1>1, <2>1
  <2> QED BY <2>1, <2>2 DEF Layer
<1> QED BY <1>1, <1>2, <1>3, <1>4 DEF Layer

\* There is such a g: SumFunctionOnSet does sum over a finite set.
LEMMA SumsExist ==
  ASSUME NEW f, NEW S, IsFiniteSet(S)
  PROVE  \E g : Sums(g, f, SUBSET S)
<1> DEFINE Sound == {n \in Nat : \E g : Sums(g, f, Layer(S, n))}
<1>1. 0 \in Sound
  <2> DEFINE g == [s \in Layer(S, 0) |-> 0]
  <2>1. g = [s \in Layer(S, 0) |-> IF s = {} THEN 0 ELSE f[Pick(s)] + g[s \ {Pick(s)}]]
    BY LayerFacts
  <2> QED BY <2>1 DEF Sums
<1>2. ASSUME NEW n \in Nat, n \in Sound PROVE n + 1 \in Sound
  <2>1. PICK g : Sums(g, f, Layer(S, n))
    BY <1>2
  <2> DEFINE Sum1(s) == IF s = {} THEN 0 ELSE f[Pick(s)] + g[s \ {Pick(s)}]
             h == [s \in Layer(S, n + 1) |-> Sum1(s)]
  <2>2. ASSUME NEW s \in Layer(S, n), s # {} PROVE g[s] = Sum1(s)
    BY <2>1, <2>2 DEF Sums
  <2>3. \A s \in Layer(S, n) : g[s] = Sum1(s)
    BY <2>1 DEF Sums
  <2>4. \A s \in Layer(S, n) : h[s] = g[s]
    BY <2>3, LayerFacts
  <2>5. ASSUME NEW s \in Layer(S, n + 1), s # {} PROVE h[s] = f[Pick(s)] + h[s \ {Pick(s)}]
    <3>1. Pick(s) \in s
      BY <2>5 DEF Pick
    <3>2. s \ {Pick(s)} \in Layer(S, n)
      BY <3>1, LayerFacts
    <3>3. h[s \ {Pick(s)}] = g[s \ {Pick(s)}]
      BY <2>4, <3>2
    <3> QED BY <2>5, <3>3
  <2>6. \A s \in Layer(S, n + 1) : h[s] = IF s = {} THEN 0 ELSE f[Pick(s)] + h[s \ {Pick(s)}]
    BY <2>5
  <2>7. DOMAIN h = Layer(S, n + 1) /\ h = [s \in Layer(S, n + 1) |-> h[s]]
    OBVIOUS
  <2> HIDE DEF h
  <2>8. h = [s \in Layer(S, n + 1) |-> IF s = {} THEN 0 ELSE f[Pick(s)] + h[s \ {Pick(s)}]]
    BY <2>6, <2>7
  <2>9. \E k : Sums(k, f, Layer(S, n + 1))
    BY <2>8 DEF Sums
  <2> QED BY <2>9
<1>3. Cardinality(S) \in Nat
  BY FS_CardinalityType
<1> HIDE DEF Sound
<1>4. \A n \in Nat : n \in Sound /\ n < Cardinality(S) => n + 1 \in Sound
  BY <1>2
<1>5. Cardinality(S) \in Sound
  <2>1. Cardinality(S) \in 0..Cardinality(S)
    BY <1>3
  <2> QED BY <1>1, <1>3, <1>4, <2>1, UpTo
<1>6. Layer(S, Cardinality(S)) = SUBSET S
  BY <1>3, LayerFacts
<1>7. \E g : Sums(g, f, Layer(S, Cardinality(S)))
  BY <1>5 DEF Sound
<1> QED BY <1>6, <1>7

\* SumFunctionOnSet takes the value of such a g.
LEMMA SumIsChosen ==
  ASSUME NEW f, NEW S, IsFiniteSet(S)
  PROVE  \E g : Sums(g, f, SUBSET S) /\ SumFunctionOnSet(f, S) = g[S]
<1> DEFINE G == CHOOSE g : Sums(g, f, SUBSET S)
<1>1. Sums(G, f, SUBSET S)
  BY SumsExist
<1>2. SumFunctionOnSet(f, S) = (CHOOSE g : g = [s \in SUBSET S |->
          IF s = {} THEN 0 ELSE f[CHOOSE x \in s : TRUE] + g[s \ {CHOOSE x \in s : TRUE}]])[S]
  BY DEF SumFunctionOnSet, FoldFunctionOnSet, MapThenFoldSet
<1>3. SumFunctionOnSet(f, S) = G[S]
  BY <1>2 DEF Sums, Pick
<1> HIDE DEF G
<1> QED BY <1>1, <1>3

\* Two such functions agree where what they sum agrees.
LEMMA SumsAgree ==
  ASSUME NEW f, NEW h, NEW g, NEW k, NEW S, NEW T, IsFiniteSet(S), T \subseteq S,
         Sums(g, f, SUBSET S), Sums(k, h, SUBSET T), \A x \in T : f[x] = h[x]
  PROVE  g[T] = k[T]
<1> DEFINE Sound == {n \in Nat : \A s \in Layer(T, n) : g[s] = k[s]}
<1>0. IsFiniteSet(T) /\ Cardinality(T) \in Nat
  BY FS_Subset, FS_CardinalityType
<1>1. ASSUME NEW s \in SUBSET T
      PROVE  /\ s = {} => g[s] = 0 /\ k[s] = 0
             /\ s # {} => g[s] = f[Pick(s)] + g[s \ {Pick(s)}] /\ k[s] = h[Pick(s)] + k[s \ {Pick(s)}]
  <2>1. s \in SUBSET S
    OBVIOUS
  <2>2. g[s] = IF s = {} THEN 0 ELSE f[Pick(s)] + g[s \ {Pick(s)}]
    BY <2>1 DEF Sums
  <2>3. k[s] = IF s = {} THEN 0 ELSE h[Pick(s)] + k[s \ {Pick(s)}]
    BY DEF Sums
  <2> QED BY <2>2, <2>3
<1>2. 0 \in Sound
  <2>1. \A s \in Layer(T, 0) : s = {}
    BY <1>0, LayerFacts
  <2>2. g[{}] = k[{}]
    BY <1>1
  <2> QED BY <2>1, <2>2
<1>3. ASSUME NEW n \in Nat, n \in Sound PROVE n + 1 \in Sound
  <2>1. ASSUME NEW s \in Layer(T, n + 1) PROVE g[s] = k[s]
    <3>1. s \in SUBSET T
      BY DEF Layer
    <3>2. CASE s = {}
      BY <1>1, <3>1, <3>2
    <3>3. CASE s # {}
      <4>1. Pick(s) \in s /\ Pick(s) \in T
        BY <3>1, <3>3 DEF Pick
      <4>2. s \ {Pick(s)} \in Layer(T, n)
        BY <1>0, <4>1, LayerFacts
      <4>3. g[s \ {Pick(s)}] = k[s \ {Pick(s)}]
        BY <1>3, <4>2
      <4>4. f[Pick(s)] = h[Pick(s)]
        BY <4>1
      <4> QED BY <1>1, <3>1, <3>3, <4>3, <4>4
    <3> QED BY <3>2, <3>3
  <2> QED BY <2>1
<1> HIDE DEF Sound
<1>4. \A n \in Nat : n \in Sound /\ n < Cardinality(T) => n + 1 \in Sound
  BY <1>3
<1>5. Cardinality(T) \in Sound
  <2>1. Cardinality(T) \in 0..Cardinality(T)
    BY <1>0
  <2> QED BY <1>0, <1>2, <1>4, <2>1, UpTo
<1>6. T \in Layer(T, Cardinality(T))
  BY <1>0, LayerFacts
<1> QED BY <1>5, <1>6 DEF Sound

\* Any element may be taken out first.
LEMMA SumsInAnyOrder ==
  ASSUME NEW f, NEW g, NEW S, IsFiniteSet(S), Sums(g, f, SUBSET S), \A x \in S : f[x] \in Nat
  PROVE  /\ g[S] \in Nat
         /\ \A x \in S : g[S] = f[x] + g[S \ {x}]
<1> DEFINE Right(s) == g[s] \in Nat /\ \A x \in s : g[s] = f[x] + g[s \ {x}]
           Sound == {n \in Nat : \A s \in Layer(S, n) : Right(s)}
<1>0. Cardinality(S) \in Nat
  BY FS_CardinalityType
<1>1. ASSUME NEW s \in SUBSET S
      PROVE  /\ s = {} => g[s] = 0
             /\ s # {} => g[s] = f[Pick(s)] + g[s \ {Pick(s)}]
  <2>1. g[s] = IF s = {} THEN 0 ELSE f[Pick(s)] + g[s \ {Pick(s)}]
    BY DEF Sums
  <2> QED BY <2>1
<1>2. 0 \in Sound
  <2>1. \A s \in Layer(S, 0) : s = {}
    BY LayerFacts
  <2>2. g[{}] = 0
    BY <1>1
  <2>3. Right({})
    BY <2>2
  <2> QED BY <2>1, <2>3
<1>3. ASSUME NEW n \in Nat, n \in Sound PROVE n + 1 \in Sound
  <2>1. \A s \in Layer(S, n) : Right(s)
    BY <1>3
  <2> HIDE DEF Sound
  <2>2. ASSUME NEW s \in Layer(S, n + 1) PROVE Right(s)
    <3>1. s \in SUBSET S
      BY DEF Layer
    <3>2. CASE s = {}
      BY <1>1, <3>1, <3>2
    <3>3. CASE s # {}
      <4> DEFINE p == Pick(s)
      <4>1. p \in s /\ f[p] \in Nat
        BY <3>1, <3>3 DEF Pick
      <4>2. \A x \in s : s \ {x} \in Layer(S, n)
        BY LayerFacts
      <4>3. g[s] = f[p] + g[s \ {p}]
        BY <1>1, <3>1, <3>3
      <4> HIDE DEF p
      <4>4. \A x \in s : g[s \ {x}] \in Nat
        BY <2>1, <4>2
      <4>5. g[s] \in Nat
        BY <4>1, <4>3, <4>4
      <4>6. ASSUME NEW x \in s PROVE g[s] = f[x] + g[s \ {x}]
        <5>1. CASE x = p
          BY <4>3, <5>1
        <5>2. CASE x # p
          <6>1. x \in s \ {p} /\ p \in s \ {x} /\ (s \ {p}) \ {x} = (s \ {x}) \ {p}
            BY <4>1, <5>2
          <6>2. g[s \ {p}] = f[x] + g[(s \ {p}) \ {x}]
            BY <2>1, <4>1, <4>2, <6>1
          <6>3. g[s \ {x}] = f[p] + g[(s \ {x}) \ {p}]
            BY <2>1, <4>2, <6>1
          <6>4. f[x] \in Nat
            BY <3>1
          <6>5. g[(s \ {p}) \ {x}] \in Nat
            <7>1. s \ {p} \in SUBSET S /\ s \ {p} \in Layer(S, n)
              BY <3>1, <4>1, <4>2
            <7>2. (s \ {p}) \ {x} \in Layer(S, n)
              <8>1. s \ {p} \in Layer(S, n + 1)
                BY <7>1, LayerFacts
              <8> QED BY <6>1, <8>1, LayerFacts
            <7> QED BY <2>1, <7>2
          <6> DEFINE a == f[x]  b == f[p]  c == g[(s \ {p}) \ {x}]
          <6>6. a \in Nat /\ b \in Nat /\ c \in Nat
            BY <4>1, <6>4, <6>5
          <6>7. g[s] = b + (a + c) /\ g[s \ {x}] = b + c
            BY <4>3, <6>1, <6>2, <6>3
          <6> HIDE DEF a, b, c
          <6>8. b + (a + c) = a + (b + c)
            BY <6>6
          <6> QED BY <6>7, <6>8 DEF a
        <5> QED BY <5>1, <5>2
      <4> QED BY <4>5, <4>6
    <3> QED BY <3>2, <3>3
  <2> QED BY <2>2 DEF Sound
<1> HIDE DEF Sound
<1>4. \A n \in Nat : n \in Sound /\ n < Cardinality(S) => n + 1 \in Sound
  BY <1>3
<1>5. Cardinality(S) \in Sound
  <2>1. Cardinality(S) \in 0..Cardinality(S)
    BY <1>0
  <2> QED BY <1>0, <1>2, <1>4, <2>1, UpTo
<1>6. S \in Layer(S, Cardinality(S))
  BY LayerFacts, <1>0
<1>7. Right(S)
  BY <1>5, <1>6 DEF Sound
<1> QED BY <1>7

\* What a sum over a finite set is: zero for no element, and an element more or less counts.
LEMMA SumFacts ==
  ASSUME NEW f, NEW S, IsFiniteSet(S), \A x \in S : f[x] \in Nat
  PROVE  /\ SumFunctionOnSet(f, S) \in Nat
         /\ S = {} => SumFunctionOnSet(f, S) = 0
         /\ \A x \in S : SumFunctionOnSet(f, S) = f[x] + SumFunctionOnSet(f, S \ {x})
<1>1. PICK g : Sums(g, f, SUBSET S) /\ SumFunctionOnSet(f, S) = g[S]
  BY SumIsChosen
<1>2. g[S] \in Nat /\ \A x \in S : g[S] = f[x] + g[S \ {x}]
  <2>1. Sums(g, f, SUBSET S)
    BY <1>1
  <2>2. g[S] \in Nat
    BY <2>1, SumsInAnyOrder
  <2>3. ASSUME NEW x \in S PROVE g[S] = f[x] + g[S \ {x}]
    BY <2>1, SumsInAnyOrder
  <2> QED BY <2>2, <2>3
<1>3. ASSUME S = {} PROVE g[S] = 0
  BY <1>1, <1>3 DEF Sums
<1>4. ASSUME NEW x \in S PROVE SumFunctionOnSet(f, S \ {x}) = g[S \ {x}]
  <2>1. IsFiniteSet(S \ {x})
    BY FS_RemoveElement
  <2>2. PICK k : Sums(k, f, SUBSET (S \ {x})) /\ SumFunctionOnSet(f, S \ {x}) = k[S \ {x}]
    BY <2>1, SumIsChosen
  <2>3. g[S \ {x}] = k[S \ {x}]
    <3>1. S \ {x} \subseteq S
      OBVIOUS
    <3> QED BY <1>1, <2>2, <3>1, SumsAgree
  <2> QED BY <2>2, <2>3
<1> QED BY <1>1, <1>2, <1>3, <1>4

\* Only the values of the elements matter.
LEMMA SumSame ==
  ASSUME NEW f, NEW h, NEW S, IsFiniteSet(S), \A x \in S : f[x] = h[x]
  PROVE  SumFunctionOnSet(f, S) = SumFunctionOnSet(h, S)
<1>1. PICK g : Sums(g, f, SUBSET S) /\ SumFunctionOnSet(f, S) = g[S]
  BY SumIsChosen
<1>2. PICK k : Sums(k, h, SUBSET S) /\ SumFunctionOnSet(h, S) = k[S]
  BY SumIsChosen
<1>3. g[S] = k[S]
  BY <1>1, <1>2, SumsAgree
<1> QED BY <1>1, <1>2, <1>3

\* What a sum comes to when one element leaves the set.
LEMMA SumLess ==
  ASSUME NEW f, NEW S, IsFiniteSet(S), \A y \in S : f[y] \in Nat, NEW x \in S
  PROVE  SumFunctionOnSet(f, S \ {x}) = SumFunctionOnSet(f, S) - f[x]
<1>1. SumFunctionOnSet(f, S \ {x}) \in Nat
  <2>1. IsFiniteSet(S \ {x})
    BY FS_RemoveElement
  <2>2. \A y \in S \ {x} : f[y] \in Nat
    OBVIOUS
  <2> QED BY <2>1, <2>2, SumFacts
<1>2. SumFunctionOnSet(f, S) = f[x] + SumFunctionOnSet(f, S \ {x})
  BY SumFacts
<1>3. f[x] \in Nat
  OBVIOUS
<1> QED BY <1>1, <1>2, <1>3

\* And when one joins it.
LEMMA SumMore ==
  ASSUME NEW f, NEW S, IsFiniteSet(S), \A y \in S : f[y] \in Nat, NEW x, x \notin S, f[x] \in Nat
  PROVE  SumFunctionOnSet(f, S \cup {x}) = SumFunctionOnSet(f, S) + f[x]
<1> DEFINE T == S \cup {x}
<1>1. IsFiniteSet(T) /\ x \in T /\ T \ {x} = S
  BY FS_AddElement
<1>2. \A y \in T : f[y] \in Nat
  OBVIOUS
<1> HIDE DEF T
<1>3. SumFunctionOnSet(f, T) = f[x] + SumFunctionOnSet(f, T \ {x})
  BY <1>1, <1>2, SumFacts
<1>4. SumFunctionOnSet(f, S) \in Nat
  BY SumFacts
<1>5. SumFunctionOnSet(f, T) = f[x] + SumFunctionOnSet(f, S)
  BY <1>1, <1>3
<1> QED BY <1>4, <1>5 DEF T


----------------------------------------------------------------------------
(* Bytes.  What the limits are enforced on is a sum over caches: it is       *)
(* exact because each cache and each running decode is counted once.        *)

\* A decode has set up a storage only while it fills it.
StoreInv == \A f \in Files : store[f] # "none" => pc[f] \in {"decode", "store"}

\* A running decode has bytes of the budget that are not in a cache yet.
Reserving(f) == store[f] = "memory" \/ pc[f] = "allocate"
Reserved == {cache[f] : f \in {g \in Files : Reserving(g)}}

\* The caches whose decoded data is in memory, and those that have any.
InMemory == {c \in Caches : data[c] = "memory"}
Filled == {c \in Caches : data[c] # "none"}

\* Finitely many caches hold data, and all of them are allocated.
FilledInv == IsFiniteSet(Filled) /\ \A c \in Filled : Allocated(c)

\* memory_used counts exactly both.
BudgetInv == memoryUsed = Total(InMemory) + Total(Reserved) /\ memoryUsed <= MemoryTotalLimit

\* The account of the memory,
MemoryInv == StoreInv /\ FilledInv /\ BudgetInv

\* What cache_release keeps on disk fits the limit by itself; while a close trims the list, the
\* list is over it.
IdleSumInv ==
  /\ \A b \in Backend : idleBytes[b] = Total(Elements(b))
  /\ \A c \in Caches : idle[c] /\ data[c] = "disk" => Size(c) <= IdleDiskLimit
  /\ lock = None <=> idleBytes["disk"] <= IdleDiskLimit

\* and all accounts together.
BytesInv == MemoryInv /\ IdleSumInv

\* A cache weighs the size of its entry.
Weight == [c \in Caches |-> Size(c)]

\* An allocated one has a weight.
LEMMA WeightIsSize ==
  ASSUME IInv
  PROVE  \A c \in Caches : Allocated(c) => Weight[c] = Size(c) /\ Weight[c] \in Nat
BY SizeIsNat DEF IInv, Weight

\* The caches an account counts are finitely many allocated ones.
LEMMA AccountsAreFinite ==
  ASSUME IInv, MemoryInv
  PROVE  /\ IsFiniteSet(InMemory) /\ InMemory \subseteq {c \in Caches : Allocated(c)}
         /\ IsFiniteSet(Reserved) /\ Reserved \subseteq {c \in Caches : Allocated(c)}
         /\ \A b \in Backend : /\ IsFiniteSet(Elements(b))
                               /\ Elements(b) \subseteq {c \in Caches : Allocated(c)}
<1>1. InMemory \subseteq Filled /\ \A b \in Backend : Elements(b) \subseteq Filled
  BY DEF InMemory, Filled, Backend, IInv, ListInv
<1>2. IsFiniteSet(Filled) /\ Filled \subseteq {c \in Caches : Allocated(c)}
  BY DEF MemoryInv, FilledInv, Filled
<1>3. \A S : S \subseteq Filled => IsFiniteSet(S)
  BY <1>2, FS_Subset
<1>4. IsFiniteSet(Reserved)
  <2> DEFINE Holding == {f \in Files : Reserving(f)}
             give == [f \in Holding |-> cache[f]]
  <2>1. IsFiniteSet(Holding)
    BY ConstantsAssumption, FS_Subset
  <2>2. give \in Surjection(Holding, Reserved)
    BY DEF Surjection, Reserved
  <2> HIDE DEF give, Holding
  <2> QED BY <2>1, <2>2, FS_Surjection
<1>5. Reserved \subseteq {c \in Caches : Allocated(c)}
  <2> SUFFICES ASSUME NEW f \in Files, Reserving(f) PROVE cache[f] \in Caches /\ Allocated(cache[f])
    BY DEF Reserved
  <2>1. pc[f] \in Held
    BY DEF MemoryInv, StoreInv, Reserving, Held
  <2> QED BY <2>1, RunningHasCache
<1> QED BY <1>1, <1>2, <1>3, <1>4, <1>5

\* No two running decodes have reserved room for the same cache.
LEMMA ReservedOnce ==
  ASSUME IInv, DecInv, MemoryInv, NEW f \in Files, NEW g \in Files,
         pc[f] \in Held, Reserving(g), cache[f] = cache[g]
  PROVE  f = g
<1>1. pc[g] \in Held
  BY DEF MemoryInv, StoreInv, Reserving, Held
<1> QED BY <1>1 DEF DecInv, OwnInv

----------------------------------------------------------------------------
\* Steps that leave the account of the memory alone.
LEMMA MemoryKept ==
  ASSUME IInv, MemoryInv, UNCHANGED <<ident, origin, data, memoryUsed>>, StoreInv',
         \A f \in Files : Reserving(f)' <=> Reserving(f),
         \A f \in Files : Reserving(f) => cache'[f] = cache[f]
  PROVE  MemoryInv'
<1>1. Reserved' = Reserved /\ InMemory' = InMemory /\ Filled' = Filled
  BY DEF Reserved, InMemory, Filled
<1>2. Weight' = Weight
  BY DEF Weight, Size
<1>3. FilledInv'
  BY <1>1 DEF MemoryInv, FilledInv, Allocated
<1>4. BudgetInv'
  BY <1>1, <1>2 DEF MemoryInv, BudgetInv, Total, Weight
<1> QED BY <1>3, <1>4 DEF MemoryInv

\* try_reserve_memory adds the size of the cache (vfs_file.c:143).
LEMMA MemoryReserved ==
  ASSUME IInv, DecInv, MemoryInv, NEW f \in Files, pc[f] = "reserve",
         pc' = [pc EXCEPT ![f] = "allocate"],
         memoryUsed' = memoryUsed + Size(cache[f]), memoryUsed <= MemoryTotalLimit - Size(cache[f]),
         UNCHANGED <<ident, origin, data, cache, store>>
  PROVE  MemoryInv'
<1>0. /\ pc \in [Files -> FilePC] /\ store \in [Files -> Backend \cup {"none"}]
      /\ memoryUsed \in Int
  BY DEF IInv, TypeOK, FileTypes, ListTypes
<1>1. pc[f] \in Held
  BY DEF Held
<1>2. cache[f] \in Caches /\ Allocated(cache[f])
  BY <1>1, RunningHasCache
<1>3. store[f] = "none"
  BY DEF MemoryInv, StoreInv
<1>4. \A g \in Files : Reserving(g)' <=> Reserving(g) \/ g = f
  BY <1>0, <1>3 DEF Reserving
<1>5. ~Reserving(f) /\ cache[f] \notin Reserved
  BY <1>1, <1>3, ReservedOnce DEF Reserving, Reserved
<1>6. Reserved' = Reserved \cup {cache[f]}
  BY <1>4 DEF Reserved
<1>7. InMemory' = InMemory /\ Filled' = Filled /\ Weight' = Weight
  BY DEF InMemory, Filled, Weight, Size
<1>8. StoreInv'
  BY <1>0, <1>3 DEF MemoryInv, StoreInv
<1>9. FilledInv'
  BY <1>7 DEF MemoryInv, FilledInv, Allocated
<1>10. BudgetInv'
  <2>1. /\ IsFiniteSet(Reserved) /\ \A c \in Reserved : Weight[c] \in Nat
        /\ Weight[cache[f]] = Size(cache[f]) /\ Weight[cache[f]] \in Nat
    BY <1>2, AccountsAreFinite, WeightIsSize
  <2>2. SumFunctionOnSet(Weight, Reserved \cup {cache[f]}) = SumFunctionOnSet(Weight, Reserved) + Weight[cache[f]]
    BY <1>5, <2>1, SumMore
  <2>3. Total(Reserved)' = Total(Reserved) + Size(cache[f])
    BY <1>6, <1>7, <2>1, <2>2 DEF Total, Weight
  <2>4. Total(InMemory)' = Total(InMemory)
    BY <1>7 DEF Total, Weight
  <2>5. Total(Reserved) \in Nat /\ Total(InMemory) \in Nat
    BY AccountsAreFinite, WeightIsSize, SumFacts DEF Total, Weight
  <2>6. memoryUsed = Total(InMemory) + Total(Reserved)
    BY DEF MemoryInv, BudgetInv
  <2>7. Size(cache[f]) \in Nat
    BY <2>1
  <2>8. memoryUsed' = Total(InMemory)' + Total(Reserved)'
    BY <2>3, <2>4, <2>5, <2>6, <2>7
  <2>9. memoryUsed' <= MemoryTotalLimit
    BY <1>0, <2>7, ConstantsAssumption
  <2> QED BY <2>8, <2>9 DEF BudgetInv
<1> QED BY <1>8, <1>9, <1>10 DEF MemoryInv

\* A decode that fails gives its bytes back (vfs_file.c:236).
LEMMA MemoryReturned ==
  ASSUME IInv, DecInv, MemoryInv, NEW f \in Files, Reserving(f), StoreInv',
         \A g \in Files : Reserving(g)' <=> Reserving(g) /\ g # f,
         memoryUsed' = memoryUsed - Size(cache[f]),
         UNCHANGED <<ident, origin, data, cache>>
  PROVE  MemoryInv'
<1>0. memoryUsed \in Int
  BY DEF IInv, TypeOK, ListTypes
<1>1. pc[f] \in Held
  BY DEF MemoryInv, StoreInv, Reserving, Held
<1>2. cache[f] \in Caches /\ Allocated(cache[f])
  BY <1>1, RunningHasCache
<1>3. Reserved' = Reserved \ {cache[f]} /\ cache[f] \in Reserved
  BY <1>1, ReservedOnce DEF Reserved
<1>4. InMemory' = InMemory /\ Filled' = Filled /\ Weight' = Weight
  BY DEF InMemory, Filled, Weight, Size
<1>5. FilledInv'
  BY <1>4 DEF MemoryInv, FilledInv, Allocated
<1>6. BudgetInv'
  <2>1. /\ IsFiniteSet(Reserved) /\ \A c \in Reserved : Weight[c] \in Nat
        /\ Weight[cache[f]] = Size(cache[f]) /\ Weight[cache[f]] \in Nat
    BY <1>2, AccountsAreFinite, WeightIsSize
  <2>2. SumFunctionOnSet(Weight, Reserved \ {cache[f]}) = SumFunctionOnSet(Weight, Reserved) - Weight[cache[f]]
    BY <1>3, <2>1, SumLess
  <2>3. Total(Reserved)' = Total(Reserved) - Size(cache[f])
    BY <1>3, <1>4, <2>1, <2>2 DEF Total, Weight
  <2>4. Total(InMemory)' = Total(InMemory)
    BY <1>4 DEF Total, Weight
  <2>5. Total(Reserved) \in Nat /\ Total(InMemory) \in Nat
    BY AccountsAreFinite, WeightIsSize, SumFacts DEF Total, Weight
  <2>6. memoryUsed = Total(InMemory) + Total(Reserved) /\ memoryUsed <= MemoryTotalLimit
    BY DEF MemoryInv, BudgetInv
  <2>7. Size(cache[f]) \in Nat
    BY <2>1
  <2>8. memoryUsed' = Total(InMemory)' + Total(Reserved)'
    BY <2>3, <2>4, <2>5, <2>6, <2>7
  <2>9. memoryUsed' <= MemoryTotalLimit
    BY <1>0, <2>6, <2>7, ConstantsAssumption
  <2> QED BY <2>8, <2>9 DEF BudgetInv
<1> QED BY <1>5, <1>6 DEF MemoryInv
\* Stored memory stays accounted for: the bytes of the decode become those of the cache
\* (vfs_file.c:259).
LEMMA MemoryStored ==
  ASSUME IInv, DecInv, MemoryInv, NEW f \in Files, StoreData(f)
  PROVE  MemoryInv'
<1>0. /\ pc \in [Files -> FilePC] /\ store \in [Files -> Backend \cup {"none"}]
      /\ data \in [Caches -> Backend \cup {"none"}]
  BY DEF IInv, TypeOK, FileTypes, CacheTypes
<1>1. /\ pc[f] = "store" /\ pc' = [pc EXCEPT ![f] = "publish"]
      /\ data' = [data EXCEPT ![cache[f]] = store[f]] /\ store' = [store EXCEPT ![f] = "none"]
      /\ UNCHANGED <<ident, origin, cache, memoryUsed>>
  BY DEF StoreData, Goto
<1>2. pc[f] \in Held
  BY <1>1 DEF Held
<1>3. PICK c \in Caches : c = cache[f] /\ Allocated(c)
  BY <1>2, RunningHasCache
<1>4. data[c] = "none"
  <2>1. owner[c] = f /\ ~Publishing(c)
    BY <1>1, <1>2, <1>3 DEF DecInv, OwnInv, Publishing
  <2>2. ~published[c]
    BY <1>3, <2>1, ConstantsAssumption DEF DecInv, EntryInv
  <2> QED BY <1>3, <2>1, <2>2 DEF DecInv, EntryInv
<1>5. \A d \in Caches : data'[d] = IF d = c THEN store[f] ELSE data[d]
  BY <1>0, <1>1, <1>3
<1>6. \A g \in Files : store'[g] = IF g = f THEN "none" ELSE store[g]
  BY <1>0, <1>1
<1>7. \A g \in Files : Reserving(g)' <=> Reserving(g) /\ g # f
  BY <1>0, <1>1, <1>6 DEF Reserving
<1>8. StoreInv'
  BY <1>0, <1>1, <1>6 DEF MemoryInv, StoreInv
<1>9. Filled' \subseteq Filled \cup {c} /\ \A d \in Caches : Allocated(d)' <=> Allocated(d)
  BY <1>1, <1>5 DEF Filled, Allocated
<1>10. FilledInv'
  <2>1. IsFiniteSet(Filled \cup {c})
    BY FS_AddElement DEF MemoryInv, FilledInv
  <2>2. IsFiniteSet(Filled)'
    BY <1>9, <2>1, FS_Subset
  <2>3. \A d \in Filled' : d \in Caches
    BY DEF Filled
  <2> QED BY <1>3, <1>9, <2>2, <2>3 DEF MemoryInv, FilledInv
<1>11. Weight' = Weight
  BY <1>1 DEF Weight, Size
<1>12. BudgetInv'
  <2>1. CASE store[f] = "memory"
    <3>1. InMemory' = InMemory \cup {c} /\ c \notin InMemory
      BY <1>4, <1>5, <2>1 DEF InMemory
    <3>2. Reserved' = Reserved \ {c} /\ c \in Reserved
      <4>1. Reserving(f)
        BY <2>1 DEF Reserving
      <4> QED BY <1>1, <1>2, <1>3, <1>7, <4>1, ReservedOnce DEF Reserved
    <3>3. /\ IsFiniteSet(Reserved) /\ \A d \in Reserved : Weight[d] \in Nat
          /\ IsFiniteSet(InMemory) /\ \A d \in InMemory : Weight[d] \in Nat
          /\ Weight[c] \in Nat
      BY <1>3, AccountsAreFinite, WeightIsSize
    <3>4. SumFunctionOnSet(Weight, Reserved \ {c}) = SumFunctionOnSet(Weight, Reserved) - Weight[c]
      BY <3>2, <3>3, SumLess
    <3>5. SumFunctionOnSet(Weight, InMemory \cup {c}) = SumFunctionOnSet(Weight, InMemory) + Weight[c]
      BY <3>1, <3>3, SumMore
    <3>6. /\ Total(Reserved)' = Total(Reserved) - Weight[c]
          /\ Total(InMemory)' = Total(InMemory) + Weight[c]
      BY <1>11, <3>1, <3>2, <3>4, <3>5 DEF Total, Weight
    <3>7. Total(Reserved) \in Nat /\ Total(InMemory) \in Nat
      BY <3>3, SumFacts DEF Total, Weight
    <3>8. Total(InMemory)' + Total(Reserved)' = Total(InMemory) + Total(Reserved)
      BY <3>3, <3>6, <3>7
    <3> QED BY <1>1, <3>8 DEF MemoryInv, BudgetInv
  <2>2. CASE store[f] # "memory"
    <3>1. InMemory' = InMemory
      BY <1>4, <1>5, <2>2 DEF InMemory
    <3>2. Reserved' = Reserved
      <4>1. ~Reserving(f)
        BY <1>1, <2>2 DEF Reserving
      <4> QED BY <1>1, <1>7, <4>1 DEF Reserved
    <3> QED BY <1>1, <1>11, <3>1, <3>2 DEF MemoryInv, BudgetInv, Total, Weight
  <2> QED BY <2>1, <2>2
<1> QED BY <1>8, <1>10, <1>12 DEF MemoryInv

\* A cache object changes hands without data in it, and a destroyed one gives its memory back
\* (vfs_file.c:67, 348).
LEMMA MemoryMoved ==
  ASSUME IInv, MemoryInv, NEW c \in Caches, Allocated(c) \/ c \notin Filled, c \notin Reserved, Reserved' = Reserved,
         \A d \in Caches : d # c => ident'[d] = ident[d] /\ origin'[d] = origin[d] /\ data'[d] = data[d],
         data'[c] = "none", StoreInv',
         memoryUsed' = IF data[c] = "memory" THEN memoryUsed - Size(c) ELSE memoryUsed
  PROVE  MemoryInv'
<1>1. Filled' = Filled \ {c} /\ InMemory' = InMemory \ {c}
  BY DEF Filled, InMemory
<1>2. FilledInv'
  <2>1. IsFiniteSet(Filled \ {c})
    BY FS_RemoveElement DEF MemoryInv, FilledInv
  <2>2. \A d \in Filled \ {c} : Allocated(d)'
    BY DEF MemoryInv, FilledInv, Allocated, Filled
  <2> QED BY <1>1, <2>1, <2>2 DEF FilledInv
<1>3. \A d \in Caches : d # c => Weight'[d] = Weight[d]
  BY DEF Weight, Size
<1>4. /\ IsFiniteSet(Reserved) /\ \A d \in Reserved : Weight[d] \in Nat /\ d \in Caches
      /\ IsFiniteSet(InMemory) /\ \A d \in InMemory : Weight[d] \in Nat /\ d \in Caches
  BY AccountsAreFinite, WeightIsSize
<1>5. Total(Reserved)' = Total(Reserved)
  <2>1. \A d \in Reserved : Weight'[d] = Weight[d]
    BY <1>3, <1>4
  <2>2. SumFunctionOnSet(Weight', Reserved) = SumFunctionOnSet(Weight, Reserved)
    BY <1>4, <2>1, SumSame
  <2> QED BY <2>2 DEF Total, Weight
<1>6. Total(InMemory)' = IF data[c] = "memory" THEN Total(InMemory) - Size(c) ELSE Total(InMemory)
  <2>1. \A d \in InMemory \ {c} : Weight'[d] = Weight[d]
    BY <1>3, <1>4
  <2>2. IsFiniteSet(InMemory \ {c})
    BY <1>4, FS_RemoveElement
  <2>3. SumFunctionOnSet(Weight', InMemory \ {c}) = SumFunctionOnSet(Weight, InMemory \ {c})
    BY <2>1, <2>2, SumSame
  <2>4. CASE data[c] = "memory"
    <3>1. c \in InMemory
      BY <2>4 DEF InMemory
    <3>2. SumFunctionOnSet(Weight, InMemory \ {c}) = SumFunctionOnSet(Weight, InMemory) - Weight[c]
      BY <1>4, <3>1, SumLess
    <3> QED BY <1>1, <2>3, <2>4, <3>2 DEF Total, Weight
  <2>5. CASE data[c] # "memory"
    <3>1. InMemory \ {c} = InMemory
      BY <2>5 DEF InMemory
    <3> QED BY <1>1, <2>3, <2>5, <3>1 DEF Total, Weight
  <2> QED BY <2>4, <2>5
<1>7. Total(Reserved) \in Nat /\ Total(InMemory) \in Nat
  BY <1>4, SumFacts DEF Total, Weight
<1>8. data[c] = "memory" => Size(c) \in Nat
  BY WeightIsSize DEF Filled
<1>9. memoryUsed = Total(InMemory) + Total(Reserved) /\ memoryUsed <= MemoryTotalLimit
  BY DEF MemoryInv, BudgetInv
<1>10. memoryUsed' = Total(InMemory)' + Total(Reserved)'
  BY <1>5, <1>6, <1>7, <1>8, <1>9
<1>11. memoryUsed' <= MemoryTotalLimit
  <2>1. memoryUsed \in Nat
    BY <1>7, <1>9
  <2> QED BY <1>8, <1>9, <2>1, ConstantsAssumption
<1> QED BY <1>2, <1>10, <1>11 DEF MemoryInv, BudgetInv
\* The steps of an operation on a file.
LEMMA MemoryFileStep ==
  ASSUME IInv, DecInv, MemoryInv, NEW f \in Files, FileStep(f)
  PROVE  MemoryInv'
<1>0. /\ pc \in [Files -> FilePC] /\ store \in [Files -> Backend \cup {"none"}]
      /\ cache \in [Files -> Caches \cup {None}]
  BY DEF IInv, TypeOK, FileTypes
<1>s. \A g \in Files : store[g] # "none" => pc[g] \in {"decode", "store"}
  BY DEF MemoryInv, StoreInv
<1>1. ASSUME NEW l \in FilePC, pc' = [pc EXCEPT ![f] = l], l # "allocate", pc[f] # "allocate",
             store[f] = "none" \/ l \in {"decode", "store"},
             UNCHANGED <<ident, origin, data, memoryUsed, store>>,
             \A g \in Files : g # f => cache'[g] = cache[g],
             store[f] = "memory" => cache'[f] = cache[f]
      PROVE  MemoryInv'
  <2>1. \A g \in Files : pc'[g] = IF g = f THEN l ELSE pc[g]
    BY <1>0, <1>1
  <2>2. \A g \in Files : Reserving(g)' <=> Reserving(g)
    BY <1>1, <2>1 DEF Reserving
  <2>3. StoreInv'
    BY <1>1, <1>s, <2>1 DEF StoreInv
  <2>4. \A g \in Files : Reserving(g) => cache'[g] = cache[g]
    BY <1>1 DEF Reserving
  <2> QED BY <1>1, <2>2, <2>3, <2>4, MemoryKept
<1>2. CASE Prepare(f) \/ LockCache(f) \/ Publish(f) \/ Read(f)
  <2>1. PICK l \in {"read", "wait", "decode", "todisk", "reserve", "open"} :
          pc' = [pc EXCEPT ![f] = l] /\ pc[f] \in {"open", "wait", "publish", "read"}
    BY <1>2 DEF Prepare, LockCache, Publish, Read, Goto
  <2>2. UNCHANGED <<ident, origin, data, memoryUsed, store, cache>>
    BY <1>2 DEF Prepare, LockCache, Publish, Read, cacheVars
  <2>3. l \in FilePC /\ l # "allocate" /\ store[f] = "none"
    BY <1>s, <2>1 DEF FilePC, Held
  <2> QED BY <1>1, <2>1, <2>2, <2>3
<1>3. CASE MakeRoom(f) \/ Trim(f)
  <2>1. PICK l \in {"evict", "todisk", "trim", "destroy"} :
          pc' = [pc EXCEPT ![f] = l] /\ pc[f] \in {"makeroom", "trim"}
    <3>1. CASE MakeRoom(f)
      BY <3>1 DEF MakeRoom, Goto
    <3>2. CASE Trim(f)
      <4>1. pc[f] = "trim" /\ (pc' = pc \/ pc' = [pc EXCEPT ![f] = "destroy"])
        BY <3>2 DEF Trim, Goto
      <4>2. pc = [pc EXCEPT ![f] = pc[f]]
        BY <1>0
      <4> QED BY <4>1, <4>2
    <3> QED BY <1>3, <3>1, <3>2
  <2>2. UNCHANGED <<ident, origin, data, memoryUsed, store, cache>>
    BY <1>3 DEF MakeRoom, Trim
  <2>3. l \in FilePC /\ l # "allocate" /\ store[f] = "none"
    BY <1>s, <2>1 DEF FilePC, Held
  <2> QED BY <1>1, <2>1, <2>2, <2>3
<1>4. CASE CloseShared(f) \/ CloseIdle(f) \/ CloseUnused(f)
  <2>1. PICK l \in {"closed", "trim", "destroy"} : pc[f] = "open" /\ pc' = [pc EXCEPT ![f] = l]
    BY <1>4 DEF CloseShared, CloseIdle, CloseUnused, Goto
  <2>2. /\ UNCHANGED <<ident, origin, data, memoryUsed, store>> /\ cache' = [cache EXCEPT ![f] = None]
    BY <1>4 DEF CloseShared, CloseIdle, CloseUnused
  <2>3. l \in FilePC /\ l # "allocate" /\ store[f] = "none"
    BY <1>s, <2>1 DEF FilePC, Held
  <2>4. \A g \in Files : g # f => cache'[g] = cache[g]
    BY <1>0, <2>2
  <2> QED BY <1>1, <2>1, <2>2, <2>3, <2>4
<1>5. CASE TryReserve(f)
  <2>1. CASE memoryUsed > MemoryTotalLimit - Size(cache[f])
    <3>1. /\ pc[f] = "reserve" /\ pc' = [pc EXCEPT ![f] = "makeroom"]
          /\ UNCHANGED <<ident, origin, data, memoryUsed, store, cache>>
      BY <1>5, <2>1 DEF TryReserve, Goto, cacheVars
    <3>2. "makeroom" \in FilePC /\ store[f] = "none"
      BY <1>s, <3>1 DEF FilePC, Held
    <3> QED BY <1>1, <3>1, <3>2
  <2>2. CASE ~(memoryUsed > MemoryTotalLimit - Size(cache[f]))
    <3>1. /\ pc[f] = "reserve" /\ pc' = [pc EXCEPT ![f] = "allocate"]
          /\ memoryUsed' = memoryUsed + Size(cache[f])
          /\ UNCHANGED <<ident, origin, data, store, cache>>
      BY <1>5, <2>2 DEF TryReserve, Goto, cacheVars
    <3>2. memoryUsed <= MemoryTotalLimit - Size(cache[f])
      <4>1. pc[f] \in Held
        BY <3>1 DEF Held
      <4>2. Size(cache[f]) \in Nat
        BY <4>1, RunningHasCache, WeightIsSize
      <4> QED BY <2>2, <4>2, ConstantsAssumption DEF IInv, TypeOK, ListTypes
    <3> QED BY <3>1, <3>2, MemoryReserved
  <2> QED BY <2>1, <2>2
<1>6. CASE Allocate(f)
  <2>1. pc[f] = "allocate" /\ UNCHANGED <<ident, origin, data, cache>> /\ store[f] = "none"
    BY <1>6, <1>s DEF Allocate, cacheVars
  <2>2. CASE store' = [store EXCEPT ![f] = "memory"] /\ Goto(f, "decode") /\ UNCHANGED memoryUsed
    <3>1. \A g \in Files : /\ pc'[g] = IF g = f THEN "decode" ELSE pc[g]
                           /\ store'[g] = IF g = f THEN "memory" ELSE store[g]
      BY <1>0, <2>2 DEF Goto
    <3>2. StoreInv' /\ \A g \in Files : Reserving(g)' <=> Reserving(g)
      BY <1>s, <2>1, <3>1 DEF StoreInv, Reserving
    <3> QED BY <2>1, <2>2, <3>2, MemoryKept
  <2>3. CASE memoryUsed' = memoryUsed - Size(cache[f]) /\ Goto(f, "todisk") /\ UNCHANGED store
    <3>1. \A g \in Files : pc'[g] = IF g = f THEN "todisk" ELSE pc[g]
      BY <1>0, <2>3 DEF Goto
    <3>2. StoreInv' /\ Reserving(f) /\ \A g \in Files : Reserving(g)' <=> Reserving(g) /\ g # f
      BY <1>s, <2>1, <2>3, <3>1 DEF StoreInv, Reserving
    <3> QED BY <2>1, <2>3, <3>2, MemoryReturned
  <2> QED BY <1>6, <2>2, <2>3 DEF Allocate
<1>7. ASSUME DecodeFailed(f), pc[f] \in {"todisk", "decode"}, UNCHANGED <<ident, origin, data, cache>>
      PROVE  MemoryInv'
  <2>1. \A g \in Files : /\ pc'[g] = IF g = f THEN "open" ELSE pc[g]
                         /\ store'[g] = IF g = f THEN "none" ELSE store[g]
    BY <1>0, <1>7 DEF DecodeFailed, Goto
  <2>2. StoreInv' /\ \A g \in Files : Reserving(g)' <=> Reserving(g) /\ g # f
    BY <1>s, <1>7, <2>1 DEF StoreInv, Reserving
  <2>3. CASE store[f] = "memory"
    <3>1. memoryUsed' = memoryUsed - Size(cache[f]) /\ Reserving(f)
      BY <1>7, <2>3 DEF DecodeFailed, Reserving
    <3> QED BY <1>7, <2>2, <3>1, MemoryReturned
  <2>4. CASE store[f] # "memory"
    <3>1. UNCHANGED memoryUsed /\ ~Reserving(f)
      BY <1>7, <2>4 DEF DecodeFailed, Reserving
    <3> QED BY <1>7, <2>2, <3>1, MemoryKept
  <2> QED BY <2>3, <2>4
<1>8. CASE CreateDisk(f)
  <2>1. pc[f] = "todisk" /\ UNCHANGED <<ident, origin, data, cache>> /\ store[f] = "none"
    BY <1>8, <1>s DEF CreateDisk
  <2>2. CASE store' = [store EXCEPT ![f] = "disk"] /\ Goto(f, "decode") /\ UNCHANGED memoryUsed
    <3>1. \A g \in Files : /\ pc'[g] = IF g = f THEN "decode" ELSE pc[g]
                           /\ store'[g] = IF g = f THEN "disk" ELSE store[g]
      BY <1>0, <2>2 DEF Goto
    <3>2. StoreInv' /\ \A g \in Files : Reserving(g)' <=> Reserving(g)
      BY <1>s, <2>1, <3>1 DEF StoreInv, Reserving
    <3> QED BY <2>1, <2>2, <3>2, MemoryKept
  <2> QED BY <1>7, <1>8, <2>1, <2>2 DEF CreateDisk
<1>9. CASE Decode(f)
  <2>1. pc[f] = "decode" /\ UNCHANGED <<ident, origin, data, cache>>
    BY <1>9 DEF Decode
  <2>2. CASE Goto(f, "store") /\ UNCHANGED <<store, memoryUsed>>
    <3>1. "store" \in FilePC
      BY DEF FilePC, Held
    <3> QED BY <1>1, <2>1, <2>2, <3>1 DEF Goto
  <2> QED BY <1>7, <1>9, <2>1, <2>2 DEF Decode
<1> QED BY <1>2, <1>3, <1>4, <1>5, <1>6, <1>8, <1>9, MemoryStored DEF FileStep

\* Opening, destroying and the loader.
LEMMA MemoryStep == IInv /\ DecInv /\ MemoryInv /\ [Next]_vars => MemoryInv'
<1> SUFFICES ASSUME IInv, DecInv, MemoryInv, [Next]_vars PROVE MemoryInv'
  OBVIOUS
<1>0. /\ pc \in [Files -> FilePC] /\ store \in [Files -> Backend \cup {"none"}]
      /\ cache \in [Files -> Caches \cup {None}] /\ data \in [Caches -> Backend \cup {"none"}]
      /\ ident \in [Caches -> Identities] /\ origin \in [Caches -> Packages \cup {None}]
  BY DEF IInv, TypeOK, FileTypes, CacheTypes
<1>s. \A g \in Files : store[g] # "none" => pc[g] \in {"decode", "store"}
  BY DEF MemoryInv, StoreInv
<1>1. ASSUME NEW f \in Files, pc[f] = "closed", pc' = [pc EXCEPT ![f] = "open"], UNCHANGED store,
             \A g \in Files : g # f => cache'[g] = cache[g]
      PROVE  /\ StoreInv' /\ Reserved' = Reserved
             /\ \A g \in Files : (Reserving(g)' <=> Reserving(g)) /\ (Reserving(g) => cache'[g] = cache[g])
  <2>1. \A g \in Files : pc'[g] = IF g = f THEN "open" ELSE pc[g]
    BY <1>0, <1>1
  <2>2. StoreInv' /\ \A g \in Files : Reserving(g)' <=> Reserving(g)
    BY <1>s, <1>1, <2>1 DEF StoreInv, Reserving
  <2>3. ~Reserving(f)
    BY <1>s, <1>1 DEF Reserving
  <2>4. \A g \in Files : Reserving(g) => cache'[g] = cache[g]
    BY <1>1, <2>3
  <2> QED BY <2>2, <2>4 DEF Reserved
<1>2. ASSUME NEW f \in Files, NEW i \in Identities, OpenShared(f, i) PROVE MemoryInv'
  <2>1. /\ pc[f] = "closed" /\ pc' = [pc EXCEPT ![f] = "open"]
        /\ cache' = [cache EXCEPT ![f] = table[i]]
        /\ UNCHANGED <<ident, origin, data, memoryUsed, store>>
    BY <1>2 DEF OpenShared, OpenFile, Goto
  <2>2. \A g \in Files : g # f => cache'[g] = cache[g]
    BY <1>0, <2>1
  <2> QED BY <1>1, <2>1, <2>2, MemoryKept
<1>3. ASSUME NEW f \in Files, NEW i \in Identities, NEW c \in Caches, OpenNew(f, i, c) PROVE MemoryInv'
  <2>1. /\ pc[f] = "closed" /\ pc' = [pc EXCEPT ![f] = "open"] /\ ~Allocated(c)
        /\ cache' = [cache EXCEPT ![f] = c]
        /\ ident' = [ident EXCEPT ![c] = i] /\ origin' = [origin EXCEPT ![c] = target[i]]
        /\ data' = [data EXCEPT ![c] = "none"]
        /\ UNCHANGED <<memoryUsed, store>>
    BY <1>3 DEF OpenNew, OpenFile, CreateCache, Goto
  <2>2. \A g \in Files : g # f => cache'[g] = cache[g]
    BY <1>0, <2>1
  <2>3. /\ \A d \in Caches : d # c => ident'[d] = ident[d] /\ origin'[d] = origin[d] /\ data'[d] = data[d]
        /\ data'[c] = "none"
    BY <1>0, <2>1
  <2>4. c \notin Reserved /\ c \notin Filled
    BY <2>1, AccountsAreFinite DEF MemoryInv, FilledInv
  <2>5. data[c] # "memory"
    BY <2>4 DEF Filled
  <2>6. StoreInv' /\ Reserved' = Reserved
    BY <1>1, <2>1, <2>2
  <2> QED BY <2>1, <2>3, <2>4, <2>5, <2>6, MemoryMoved
<1>4. ASSUME NEW a \in Actors, NEW c \in Caches, Destroy(a, c) PROVE MemoryInv'
  <2>1. c \in doomed[a] /\ Doomed(c)
    BY <1>4 DEF Destroy, Doomed
  <2>2. Allocated(c) /\ \A g \in Files : cache[g] # c
    BY <2>1, ConstantsAssumption DEF IInv, DoomInv, UseInv
  <2>3. /\ origin' = [origin EXCEPT ![c] = None] /\ data' = [data EXCEPT ![c] = "none"]
        /\ UNCHANGED <<ident, cache, store>>
        /\ memoryUsed' = IF data[c] = "memory" THEN memoryUsed - Size(c) ELSE memoryUsed
    BY <1>4 DEF Destroy
  <2>4. /\ \A d \in Caches : d # c => ident'[d] = ident[d] /\ origin'[d] = origin[d] /\ data'[d] = data[d]
        /\ data'[c] = "none"
    BY <1>0, <2>3
  <2>5. \A g \in Files : \/ pc'[g] = pc[g]
                         \/ pc[g] \in {"evict", "destroy"} /\ pc'[g] \in {"reserve", "closed"}
    <3>1. CASE pc' = pc
      BY <3>1
    <3>2. CASE a \in Files /\ doomed[a] = {c} /\ Goto(a, AfterDestroy[pc[a]])
      <4>1. pc[a] \in {"evict", "destroy"}
        BY <1>4, <3>2 DEF IInv, PcInv, Destroy
      <4>2. AfterDestroy[pc[a]] \in {"reserve", "closed"}
        BY <4>1 DEF AfterDestroy
      <4> QED BY <1>0, <3>2, <4>1, <4>2 DEF Goto
    <3> QED BY <1>4, <3>1, <3>2 DEF Destroy
  <2>6. StoreInv' /\ \A g \in Files : Reserving(g)' <=> Reserving(g)
    BY <1>s, <2>3, <2>5 DEF StoreInv, Reserving
  <2>7. Reserved' = Reserved /\ c \notin Reserved
    BY <2>2, <2>3, <2>6 DEF Reserved
  <2> QED BY <2>2, <2>3, <2>4, <2>6, <2>7, MemoryMoved
<1>5. CASE LoaderStep \/ UNCHANGED vars
  <2>1. UNCHANGED <<ident, origin, data, memoryUsed, store, cache, pc>>
    BY <1>5 DEF LoaderStep, InsertPackage, PointEntries, Uninit, ClosePackages, vars, cacheVars, fileVars
  <2>2. StoreInv' /\ \A g \in Files : Reserving(g)' <=> Reserving(g)
    BY <1>s, <2>1 DEF StoreInv, Reserving
  <2> QED BY <2>1, <2>2, MemoryKept
<1> QED BY <1>2, <1>3, <1>4, <1>5, MemoryFileStep DEF Next, Open
----------------------------------------------------------------------------
\* The accounts of the idle lists: steps that link and unlink nothing.
LEMMA IdleKept ==
  ASSUME IInv, MemoryInv, IdleSumInv, UNCHANGED <<idleList, idleBytes, idle, lock>>,
         \A c \in Caches : idle[c] => data'[c] = data[c] /\ ident'[c] = ident[c] /\ origin'[c] = origin[c]
  PROVE  IdleSumInv'
<1>1. ASSUME NEW b \in Backend PROVE idleBytes'[b] = Total(Elements(b))'
  <2>1. Elements(b)' = Elements(b)
    BY DEF Elements
  <2>2. \A c \in Elements(b) : Weight'[c] = Weight[c]
    BY DEF IInv, ListInv, Weight, Size
  <2>3. IsFiniteSet(Elements(b))
    BY AccountsAreFinite
  <2>4. SumFunctionOnSet(Weight', Elements(b)) = SumFunctionOnSet(Weight, Elements(b))
    BY <2>2, <2>3, SumSame
  <2> QED BY <2>1, <2>4 DEF IdleSumInv, Total, Weight
<1>2. \A c \in Caches : idle'[c] /\ data'[c] = "disk" => Size(c)' <= IdleDiskLimit
  BY DEF IdleSumInv, Size
<1> QED BY <1>1, <1>2 DEF IdleSumInv

\* idle_unlink takes a cache and its bytes off its list (vfs_file.c:100).
LEMMA IdleUnlinked ==
  ASSUME IInv, MemoryInv, IdleSumInv, NEW c \in Caches, idle[c], IdleUnlink(c),
         UNCHANGED <<ident, origin, data>>
  PROVE  /\ \A b \in Backend : idleBytes'[b] = Total(Elements(b))'
         /\ \A d \in Caches : idle'[d] /\ data'[d] = "disk" => Size(d)' <= IdleDiskLimit
         /\ idleBytes'["disk"] \in Int /\ idleBytes'["disk"] <= idleBytes["disk"]
         /\ data[c] = "memory" => idleBytes'["disk"] = idleBytes["disk"]
<1>0. TypeOK /\ ListTypes /\ CacheTypes /\ IdleInv /\ ListInv
  BY DEF IInv, TypeOK
<1>1. ListOf(c) = data[c] /\ data[c] \in Backend
  BY <1>0, IdleIsLinked
<1>2. /\ idle' = [idle EXCEPT ![c] = FALSE]
      /\ idleBytes' = [idleBytes EXCEPT ![data[c]] = @ - Size(c)]
  BY <1>1 DEF IdleUnlink
<1>3. \A d \in Caches : idle'[d] <=> idle[d] /\ d # c
  BY <1>0, <1>2 DEF CacheTypes
<1>4. ListInv'
  BY <1>0, UnlinkKeepsLists
<1>5. Weight' = Weight
  BY DEF Weight, Size
<1>6. Weight[c] = Size(c) /\ Size(c) \in Nat
  <2>1. Allocated(c)
    BY IdleIsUnused
  <2> QED BY <2>1, WeightIsSize
<1>7. \A b \in Backend : idleBytes'[b] = IF b = data[c] THEN idleBytes[b] - Size(c) ELSE idleBytes[b]
  BY <1>0, <1>1, <1>2 DEF ListTypes
<1>8. ASSUME NEW b \in Backend PROVE idleBytes'[b] = Total(Elements(b))'
  <2>1. /\ Elements(b) = {d \in Caches : idle[d] /\ data[d] = b}
        /\ Elements(b)' = {d \in Caches : idle'[d] /\ data'[d] = b}
    BY <1>0, <1>4 DEF ListInv
  <2>2. IsFiniteSet(Elements(b)) /\ \A d \in Elements(b) : Weight[d] \in Nat
    BY AccountsAreFinite, WeightIsSize
  <2>3. idleBytes[b] = SumFunctionOnSet(Weight, Elements(b))
    BY DEF IdleSumInv, Total, Weight
  <2>4. Total(Elements(b))' = SumFunctionOnSet(Weight, Elements(b)')
    BY <1>5 DEF Total, Weight
  <2>5. CASE b = data[c]
    <3>1. Elements(b)' = Elements(b) \ {c} /\ c \in Elements(b)
      BY <1>3, <2>1, <2>5
    <3>2. SumFunctionOnSet(Weight, Elements(b) \ {c}) = SumFunctionOnSet(Weight, Elements(b)) - Weight[c]
      BY <2>2, <3>1, SumLess
    <3> QED BY <1>6, <1>7, <2>3, <2>4, <2>5, <3>1, <3>2
  <2>6. CASE b # data[c]
    <3>1. Elements(b)' = Elements(b)
      BY <1>3, <2>1, <2>6
    <3> QED BY <1>7, <2>3, <2>4, <2>6, <3>1
  <2> QED BY <2>5, <2>6
<1>9. \A d \in Caches : idle'[d] /\ data'[d] = "disk" => Size(d)' <= IdleDiskLimit
  BY <1>3 DEF IdleSumInv, Size
<1>10. /\ idleBytes'["disk"] \in Int /\ idleBytes'["disk"] <= idleBytes["disk"]
       /\ data[c] = "memory" => idleBytes'["disk"] = idleBytes["disk"]
  <2>1. "disk" \in Backend /\ idleBytes["disk"] \in Int
    BY <1>0 DEF ListTypes, Backend
  <2>2. idleBytes'["disk"] = IF "disk" = data[c] THEN idleBytes["disk"] - Size(c) ELSE idleBytes["disk"]
    BY <1>7, <2>1
  <2>3. CASE "disk" = data[c]
    BY <1>6, <2>1, <2>2, <2>3
  <2>4. CASE "disk" # data[c]
    BY <2>1, <2>2, <2>4
  <2> QED BY <2>3, <2>4
<1> QED BY <1>8, <1>9, <1>10

\* idle_push links a cache and counts its bytes (vfs_file.c:112).
LEMMA IdlePushed ==
  ASSUME IInv, MemoryInv, IdleSumInv, NEW c \in Caches, ~idle[c], Allocated(c), Keepable(c), IdlePush(c),
         UNCHANGED <<ident, origin, data>>
  PROVE  /\ \A b \in Backend : idleBytes'[b] = Total(Elements(b))'
         /\ \A d \in Caches : idle'[d] /\ data'[d] = "disk" => Size(d)' <= IdleDiskLimit
<1>0. TypeOK /\ ListTypes /\ CacheTypes /\ ListInv
  BY DEF IInv, TypeOK
<1>1. ListOf(c) = data[c] /\ data[c] \in Backend /\ data[c] # "none"
  BY DEF Keepable, Backend, ListOf
<1>2. /\ idle' = [idle EXCEPT ![c] = TRUE]
      /\ idleBytes' = [idleBytes EXCEPT ![data[c]] = @ + Size(c)]
  BY <1>1 DEF IdlePush
<1>3. \A d \in Caches : idle'[d] <=> idle[d] \/ d = c
  BY <1>0, <1>2 DEF CacheTypes
<1>4. ListInv'
  BY <1>0, <1>1, PushKeepsLists
<1>5. Weight' = Weight
  BY DEF Weight, Size
<1>6. Weight[c] = Size(c) /\ Size(c) \in Nat
  BY WeightIsSize
<1>7. \A b \in Backend : idleBytes'[b] = IF b = data[c] THEN idleBytes[b] + Size(c) ELSE idleBytes[b]
  BY <1>0, <1>1, <1>2 DEF ListTypes
<1>8. ASSUME NEW b \in Backend PROVE idleBytes'[b] = Total(Elements(b))'
  <2>1. /\ Elements(b) = {d \in Caches : idle[d] /\ data[d] = b}
        /\ Elements(b)' = {d \in Caches : idle'[d] /\ data'[d] = b}
    BY <1>0, <1>4 DEF ListInv
  <2>2. IsFiniteSet(Elements(b)) /\ \A d \in Elements(b) : Weight[d] \in Nat
    BY AccountsAreFinite, WeightIsSize
  <2>3. idleBytes[b] = SumFunctionOnSet(Weight, Elements(b))
    BY DEF IdleSumInv, Total, Weight
  <2>4. Total(Elements(b))' = SumFunctionOnSet(Weight, Elements(b)')
    BY <1>5 DEF Total, Weight
  <2>5. CASE b = data[c]
    <3>1. Elements(b)' = Elements(b) \cup {c} /\ c \notin Elements(b)
      BY <1>3, <2>1, <2>5
    <3>2. SumFunctionOnSet(Weight, Elements(b) \cup {c}) = SumFunctionOnSet(Weight, Elements(b)) + Weight[c]
      BY <1>6, <2>2, <3>1, SumMore
    <3> QED BY <1>6, <1>7, <2>3, <2>4, <2>5, <3>1, <3>2
  <2>6. CASE b # data[c]
    <3>1. Elements(b)' = Elements(b)
      BY <1>3, <2>1, <2>6
    <3> QED BY <1>7, <2>3, <2>4, <2>6, <3>1
  <2> QED BY <2>5, <2>6
<1>9. \A d \in Caches : idle'[d] /\ data'[d] = "disk" => Size(d)' <= IdleDiskLimit
  <2>1. data[c] = "disk" => Size(c) <= IdleDiskLimit
    BY DEF Keepable
  <2> QED BY <1>3, <2>1 DEF IdleSumInv, Size
<1> QED BY <1>8, <1>9

\* The lists are empty after vfs_file_drop_caches.
LEMMA IdleDropped ==
  ASSUME DropCaches, UNCHANGED <<ident, origin, data, lock>>
  PROVE  IdleSumInv'
<1>1. ASSUME NEW b \in Backend PROVE idleBytes'[b] = Total(Elements(b))'
  <2>1. Elements(b)' = {}
    BY DEF DropCaches, Elements
  <2>2. SumFunctionOnSet(Weight', {}) = 0
    BY FS_EmptySet, SumFacts
  <2> QED BY <2>1, <2>2 DEF DropCaches, Total, Weight
<1>2. \A c \in Caches : ~idle'[c]
  BY DEF DropCaches
<1>3. lock' = None /\ idleBytes'["disk"] = 0
  BY DEF DropCaches, Backend
<1> QED BY <1>1, <1>2, <1>3, ConstantsAssumption DEF IdleSumInv

\* Every step keeps the accounts of the lists, and trims a list before the lock is released.
LEMMA IdleStep == IInv /\ DecInv /\ MemoryInv /\ IdleSumInv /\ [Next]_vars => IdleSumInv'
<1> SUFFICES ASSUME IInv, DecInv, MemoryInv, IdleSumInv, [Next]_vars PROVE IdleSumInv'
  OBVIOUS
<1>0. /\ pc \in [Files -> FilePC] /\ cache \in [Files -> Caches \cup {None}]
      /\ data \in [Caches -> Backend \cup {"none"}] /\ origin \in [Caches -> Packages \cup {None}]
      /\ ident \in [Caches -> Identities] /\ idle \in [Caches -> BOOLEAN]
      /\ idleBytes["disk"] \in Int /\ table \in [Identities -> Caches \cup {None}]
  BY DEF IInv, TypeOK, FileTypes, CacheTypes, ListTypes, Backend
<1>1. CASE \E f \in Files : \/ Prepare(f) \/ LockCache(f) \/ TryReserve(f) \/ Allocate(f)
                            \/ CreateDisk(f) \/ Decode(f) \/ Publish(f) \/ Read(f)
                            \/ CloseShared(f) \/ CloseUnused(f)
  <2>1. UNCHANGED <<ident, origin, data, idleList, idleBytes, idle, lock>>
    BY <1>1 DEF Prepare, LockCache, TryReserve, Allocate, CreateDisk, Decode, Publish, Read,
       CloseShared, CloseUnused, cacheVars, listVars
  <2> QED BY <2>1, IdleKept
<1>2. ASSUME NEW f \in Files, StoreData(f) PROVE IdleSumInv'
  <2>1. pc[f] \in Held
    BY <1>2 DEF StoreData, Held
  <2>2. cache[f] \in Caches /\ ~idle[cache[f]]
    <3>1. cache[f] \in Caches /\ f \in Users(cache[f])
      BY <2>1, RunningHasCache DEF Users
    <3> QED BY <3>1, IdleIsUnused
  <2>3. data' = [data EXCEPT ![cache[f]] = store[f]] /\ UNCHANGED <<ident, origin, idleList, idleBytes, idle, lock>>
    BY <1>2 DEF StoreData, listVars
  <2> QED BY <1>0, <2>2, <2>3, IdleKept
<1>3. ASSUME NEW f \in Files, MakeRoom(f) PROVE IdleSumInv'
  <2>1. lock = None /\ lock' = lock /\ UNCHANGED <<ident, origin, data>>
    BY <1>3 DEF MakeRoom
  <2>2. CASE RoomCanBeMade(Size(cache[f]))
    <3> DEFINE victim == Head(idleList["memory"])
    <3>1. IdleUnlink(victim) /\ idleList["memory"] # <<>>
      BY <1>3, <2>2 DEF MakeRoom, IdleEvict, RoomCanBeMade
    <3>2. victim \in Caches /\ idle[victim] /\ data[victim] = "memory"
      BY <3>1, OldestIsIdle DEF IInv, Backend
    <3> HIDE DEF victim
    <3>3. /\ \A b \in Backend : idleBytes'[b] = Total(Elements(b))'
          /\ \A d \in Caches : idle'[d] /\ data'[d] = "disk" => Size(d)' <= IdleDiskLimit
          /\ idleBytes'["disk"] = idleBytes["disk"]
      BY <2>1, <3>1, <3>2, IdleUnlinked
    <3> QED BY <2>1, <3>3 DEF IdleSumInv
  <2>3. CASE ~RoomCanBeMade(Size(cache[f]))
    <3>1. UNCHANGED <<idleList, idleBytes, idle>>
      BY <1>3, <2>3 DEF MakeRoom, listVars
    <3> QED BY <2>1, <3>1, IdleKept
  <2> QED BY <2>2, <2>3
<1>4. ASSUME NEW f \in Files, Trim(f) PROVE IdleSumInv'
  <2> DEFINE victim == Head(idleList["disk"])
  <2>1. IdleUnlink(victim) /\ idleList["disk"] # <<>> /\ UNCHANGED <<ident, origin, data>>
    BY <1>4 DEF Trim, IdleEvict
  <2>2. victim \in Caches /\ idle[victim]
    BY <2>1, OldestIsIdle DEF IInv, Backend
  <2>3. /\ lock = f
        /\ idleBytes'["disk"] > IdleDiskLimit => lock' = lock
        /\ ~(idleBytes'["disk"] > IdleDiskLimit) => lock' = None
    BY <1>4 DEF Trim
  <2> HIDE DEF victim
  <2>4. /\ \A b \in Backend : idleBytes'[b] = Total(Elements(b))'
        /\ \A d \in Caches : idle'[d] /\ data'[d] = "disk" => Size(d)' <= IdleDiskLimit
        /\ idleBytes'["disk"] \in Int
    BY <2>1, <2>2, IdleUnlinked
  <2>5. lock' = None <=> idleBytes'["disk"] <= IdleDiskLimit
    BY <2>3, <2>4, ConstantsAssumption
  <2> QED BY <2>4, <2>5 DEF IdleSumInv
<1>5. ASSUME NEW f \in Files, CloseIdle(f) PROVE IdleSumInv'
  <2>1. /\ pc[f] = "open" /\ refs[cache[f]] = 1 /\ Keepable(cache[f]) /\ IdlePush(cache[f])
        /\ UNCHANGED <<ident, origin, data>> /\ lock = None
        /\ idleBytes'["disk"] > IdleDiskLimit => lock' = f
        /\ ~(idleBytes'["disk"] > IdleDiskLimit) => lock' = None
    BY <1>5 DEF CloseIdle
  <2>2. PICK c \in Caches : c = cache[f] /\ Allocated(c)
    BY <2>1, FileHasCache DEF IInv
  <2>3. ~idle[c]
    <3>1. f \in Users(c)
      BY <2>2 DEF Users
    <3> QED BY <3>1, IdleIsUnused
  <2>4. /\ \A b \in Backend : idleBytes'[b] = Total(Elements(b))'
        /\ \A d \in Caches : idle'[d] /\ data'[d] = "disk" => Size(d)' <= IdleDiskLimit
    BY <2>1, <2>2, <2>3, IdlePushed
  <2>5. idleBytes'["disk"] \in Int
    <3>1. TypeOK'
      BY TypeStep
    <3> QED BY <3>1 DEF TypeOK, ListTypes, Backend
  <2>6. lock' = None <=> idleBytes'["disk"] <= IdleDiskLimit
    BY <2>1, <2>5, ConstantsAssumption
  <2> QED BY <2>4, <2>6 DEF IdleSumInv
<1>6. ASSUME NEW f \in Files, NEW i \in Identities, OpenShared(f, i) PROVE IdleSumInv'
  <2>1. /\ table[i] \in Caches /\ lock = None /\ lock' = lock /\ UNCHANGED <<ident, origin, data>>
    BY <1>0, <1>6 DEF OpenShared, OpenFile
  <2>2. CASE idle[table[i]]
    <3>1. IdleUnlink(table[i])
      BY <1>6, <2>2 DEF OpenShared
    <3>2. /\ \A b \in Backend : idleBytes'[b] = Total(Elements(b))'
          /\ \A d \in Caches : idle'[d] /\ data'[d] = "disk" => Size(d)' <= IdleDiskLimit
          /\ idleBytes'["disk"] \in Int /\ idleBytes'["disk"] <= idleBytes["disk"]
      BY <2>1, <2>2, <3>1, IdleUnlinked
    <3>3. idleBytes["disk"] <= IdleDiskLimit
      BY <2>1 DEF IdleSumInv
    <3>4. idleBytes'["disk"] <= IdleDiskLimit
      BY <1>0, <3>2, <3>3, ConstantsAssumption
    <3> QED BY <2>1, <3>2, <3>4 DEF IdleSumInv
  <2>3. CASE ~idle[table[i]]
    <3>1. UNCHANGED <<idleList, idleBytes, idle>>
      BY <1>6, <2>3 DEF OpenShared, listVars
    <3> QED BY <2>1, <3>1, IdleKept
  <2> QED BY <2>2, <2>3
<1>7. ASSUME NEW f \in Files, NEW i \in Identities, NEW c \in Caches, OpenNew(f, i, c) PROVE IdleSumInv'
  <2>1. /\ ~Allocated(c)
        /\ ident' = [ident EXCEPT ![c] = i] /\ origin' = [origin EXCEPT ![c] = target[i]]
        /\ data' = [data EXCEPT ![c] = "none"] /\ idle' = [idle EXCEPT ![c] = FALSE]
        /\ UNCHANGED <<lock, idleList, idleBytes>>
    BY <1>7 DEF OpenNew, OpenFile, CreateCache, listVars
  <2>2. ~idle[c]
    BY <2>1, IdleIsUnused
  <2>3. idle' = idle
    BY <1>0, <2>1, <2>2
  <2> QED BY <1>0, <2>1, <2>2, <2>3, IdleKept
<1>8. ASSUME NEW a \in Actors, NEW c \in Caches, Destroy(a, c) PROVE IdleSumInv'
  <2>1. /\ c \in doomed[a] /\ origin' = [origin EXCEPT ![c] = None] /\ data' = [data EXCEPT ![c] = "none"]
        /\ UNCHANGED <<ident, idle, lock, idleList, idleBytes>>
    BY <1>8 DEF Destroy, listVars
  <2>2. ~idle[c]
    BY <2>1, IdleIsUnused
  <2> QED BY <1>0, <2>1, <2>2, IdleKept
<1>9. CASE LoaderStep
  <2>1. CASE Uninit \/ \E p \in Packages : InsertPackage(p)
    <3>1. DropCaches /\ UNCHANGED <<ident, origin, data, lock>>
      BY <2>1 DEF Uninit, InsertPackage
    <3> QED BY <3>1, IdleDropped
  <2>2. CASE ClosePackages \/ \E overridden \in SUBSET Identities : PointEntries(overridden)
    <3>1. UNCHANGED <<ident, origin, data, idleList, idleBytes, idle, lock>>
      BY <2>2 DEF ClosePackages, PointEntries, cacheVars, listVars
    <3> QED BY <3>1, IdleKept
  <2> QED BY <1>9, <2>1, <2>2 DEF LoaderStep
<1>10. CASE UNCHANGED vars
  <2>1. UNCHANGED <<ident, origin, data, idleList, idleBytes, idle, lock>>
    BY <1>10 DEF vars, cacheVars, listVars
  <2> QED BY <2>1, IdleKept
<1> QED BY <1>1, <1>2, <1>3, <1>4, <1>5, <1>6, <1>7, <1>8, <1>9, <1>10 DEF Next, Open, FileStep

\* There is nothing to count at first.
LEMMA InitBytesInv == Init => BytesInv
<1> SUFFICES ASSUME Init PROVE BytesInv
  OBVIOUS
<1>1. InMemory = {} /\ Filled = {} /\ Reserved = {} /\ \A b \in Backend : Elements(b) = {}
  BY DEF Init, InMemory, Filled, Reserved, Reserving, Elements
<1>2. Total({}) = 0
  BY FS_EmptySet, SumFacts DEF Total
<1>3. StoreInv /\ FilledInv
  BY <1>1, FS_EmptySet DEF Init, StoreInv, FilledInv
<1>4. BudgetInv
  BY <1>1, <1>2, ConstantsAssumption DEF Init, BudgetInv
<1>5. IdleSumInv
  <2>1. \A b \in Backend : idleBytes[b] = Total(Elements(b))
    BY <1>1, <1>2 DEF Init
  <2>2. \A c \in Caches : ~idle[c]
    BY DEF Init
  <2>3. lock = None /\ idleBytes["disk"] = 0
    BY DEF Init, Backend
  <2> QED BY <2>1, <2>2, <2>3, ConstantsAssumption DEF IdleSumInv
<1> QED BY <1>3, <1>4, <1>5 DEF BytesInv, MemoryInv

\* Every account is exact in every reachable state.
THEOREM BytesInvAlways == Spec => []BytesInv
<1>1. IInv /\ DecInv /\ BytesInv /\ [Next]_vars => BytesInv'
  BY MemoryStep, IdleStep DEF BytesInv
<1> QED BY <1>1, InitBytesInv, DecInvAlways, IInvAlways, PTL DEF Spec

\* The limits are enforced on the bytes that are really there (vfs_file.c:143-170, 348-366): no
\* reservation, failure, eviction or trim loses one, the memory of all caches and running decodes
\* stays within its limit, and the trimming loop stops before its list is empty.
THEOREM BytesAreAlwaysExact == Spec => []BytesAreExact
<1>1. IInv /\ BytesInv => BytesAreExact
  <2> SUFFICES ASSUME IInv, BytesInv PROVE MemoryBudgetExact /\ IdleBytesExact
    BY DEF BytesAreExact
  <2>1. MemoryBudgetExact
    BY DEF BytesInv, MemoryInv, BudgetInv, MemoryBudgetExact, InMemory, Reserved, Reserving
  <2>2. ASSUME lock # None PROVE Len(idleList["disk"]) > 1
    <3>0. "disk" \in Backend /\ idleList["disk"] \in Seq(Caches) /\ idleBytes["disk"] \in Int
      BY DEF IInv, TypeOK, ListTypes, Backend
    <3>1. idleBytes["disk"] > IdleDiskLimit
      BY <2>2, <3>0, ConstantsAssumption DEF BytesInv, IdleSumInv
    <3>2. idleBytes["disk"] = SumFunctionOnSet(Weight, Elements("disk"))
      BY <3>0 DEF BytesInv, IdleSumInv, Total, Weight
    <3>3. IsFiniteSet(Elements("disk")) /\ \A c \in Elements("disk") : Weight[c] \in Nat
      BY <3>0, AccountsAreFinite, WeightIsSize DEF BytesInv
    <3>4. Elements("disk") # {}
      BY <3>1, <3>2, <3>3, SumFacts, ConstantsAssumption
    <3>5. ASSUME NEW c, Elements("disk") = {c} PROVE FALSE
      <4>1. c \in Caches /\ idle[c] /\ data[c] = "disk"
        BY <3>0, <3>5 DEF IInv, ListInv
      <4>2. Size(c) <= IdleDiskLimit /\ Size(c) \in Nat /\ Weight[c] = Size(c)
        BY <4>1, IdleIsUnused, WeightIsSize DEF BytesInv, IdleSumInv
      <4>3. SumFunctionOnSet(Weight, Elements("disk") \ {c}) = 0
        <5>1. Elements("disk") \ {c} = {}
          BY <3>5
        <5> QED BY <5>1, FS_EmptySet, SumFacts
      <4>4. SumFunctionOnSet(Weight, Elements("disk")) = Weight[c] + SumFunctionOnSet(Weight, Elements("disk") \ {c})
        BY <3>3, <3>5, SumFacts
      <4> QED BY <3>1, <3>2, <4>2, <4>3, <4>4, ConstantsAssumption
    <3>6. Len(idleList["disk"]) \in Nat /\ DOMAIN idleList["disk"] = 1..Len(idleList["disk"])
      BY <3>0
    <3>7. CASE Len(idleList["disk"]) = 0
      BY <3>4, <3>6, <3>7 DEF Elements
    <3>8. CASE Len(idleList["disk"]) = 1
      <4>1. DOMAIN idleList["disk"] = {1}
        BY <3>6, <3>8
      <4>2. Elements("disk") = {idleList["disk"][1]}
        BY <4>1 DEF Elements
      <4> QED BY <3>5, <4>2
    <3> DEFINE n == Len(idleList["disk"])
    <3>9. n \in Nat /\ (n = 0 => n > 1) /\ (n = 1 => n > 1)
      BY <3>6, <3>7, <3>8
    <3> HIDE DEF n
    <3>10. n > 1
      BY <3>9
    <3> QED BY <3>10 DEF n
  <2>3. IdleBytesExact
    BY <2>2 DEF BytesInv, IdleSumInv, IdleBytesExact
  <2> QED BY <2>1, <2>3
<1> QED BY <1>1, BytesInvAlways, IInvAlways, PTL

=============================================================================
