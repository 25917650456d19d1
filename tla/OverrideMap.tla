---------------------------- MODULE OverrideMap ----------------------------
(***************************************************************************)
(* What the index of mod files promises: every package is applied as a     *)
(* whole or not at all, later packages win, and once the index is frozen   *)
(* nothing changes any more.                                               *)
(***************************************************************************)
EXTENDS Naturals, Sequences, FiniteSets

CONSTANTS Names,      \* normalized virtual paths
          Packages,   \* packages that may be configured
          Content,    \* the names of a package's files, in their order
          MaxLoads,   \* bound: packages configured in one session
          None

VARIABLES map,        \* the file a name leads to, as <<load, file>>
          frozen
vars == <<map, frozen>>

Init == map = [n \in Names |-> None] /\ frozen = FALSE

\* The last of several files of one name is the one that counts.
Last(S) == CHOOSE i \in S : \A j \in S : j <= i
Files(p, n) == {i \in DOMAIN Content[p] : Content[p][i] = n}

Add(p, load) ==
  /\ ~frozen
  /\ map' = [n \in Names |-> IF Files(p, n) = {} THEN map[n]
                             ELSE <<load, Last(Files(p, n))>>]
  /\ UNCHANGED frozen

Freeze == frozen' = TRUE /\ UNCHANGED map

Uninit == map' = [n \in Names |-> None] /\ frozen' = FALSE

Next ==
  \/ \E p \in Packages, load \in 1..MaxLoads : Add(p, load)
  \/ Freeze \/ Uninit

Spec == Init /\ [][Next]_vars
=============================================================================
