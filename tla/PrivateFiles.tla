---------------------------- MODULE PrivateFiles ----------------------------
(***************************************************************************)
(* What the seekable files of ZIP packages promise (modloader/vfs_file.h,  *)
(* modloader/vfs.c): every open file shows one archive entry, the one that *)
(* its entry number named when the file was opened, until it is closed.    *)
(* Nothing else about a file's data is shared with other files, and adding *)
(* a package only affects files opened later.                              *)
(***************************************************************************)
EXTENDS Integers

CONSTANTS Files, Identities, Packages, FirstPackage

VARIABLES
  target,  \* the archive each entry number names
  view     \* <<entry number, archive>> of an open file, <<>> of a closed one

Init ==
  /\ target = [i \in Identities |-> FirstPackage]
  /\ view = [f \in Files |-> <<>>]

Open(f, i) ==
  /\ view[f] = <<>>
  /\ view' = [view EXCEPT ![f] = <<i, target[i]>>]
  /\ UNCHANGED target

Close(f) ==
  /\ view[f] # <<>>
  /\ view' = [view EXCEPT ![f] = <<>>]
  /\ UNCHANGED target

AddPackage(p, overridden) ==
  /\ target' = [i \in Identities |-> IF i \in overridden THEN p ELSE target[i]]
  /\ UNCHANGED view

Next ==
  \/ \E f \in Files, i \in Identities : Open(f, i)
  \/ \E f \in Files : Close(f)
  \/ \E p \in Packages, overridden \in SUBSET Identities : AddPackage(p, overridden)

Spec == Init /\ [][Next]_<<target, view>>
=============================================================================
