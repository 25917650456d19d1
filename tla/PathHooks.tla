----------------------------- MODULE PathHooks -----------------------------
(***************************************************************************)
(* Opening a file on the disk device (asset_hooks.c:473-653): the detour   *)
(* lets the original open it and hooks the SetPath functions of the file   *)
(* operator it comes back with.  This is tried once, with whichever        *)
(* operator comes first, while other threads open files too and wait for   *)
(* the answer.  Nothing is ever taken back.                                *)
(***************************************************************************)
EXTENDS Naturals, FiniteSets

CONSTANTS Openers,      \* threads that open files
          Operators,    \* the functions behind the three SetPath slots
          Invalid       \* an operator whose layout does not validate

VARIABLES
    pathHooked,     \* SetPath functions whose hook is enabled
    attempted,      \* set_path_hook_attempted
    settled,        \* set_path_hook_settled
    pathResult,     \* set_path_hook_result
    operator,       \* the operator that was tried
    opening,        \* where each thread is
    told          \* what it was told or has found out

pathVars == <<pathHooked, attempted, settled, pathResult, operator, opening, told>>

Slots == 1..3

PathInit ==
    /\ pathHooked = {}
    /\ attempted = FALSE /\ settled = FALSE /\ pathResult = FALSE
    /\ operator = Invalid
    /\ opening = [t \in Openers |-> "game"]
    /\ told = [t \in Openers |-> FALSE]

OpeningAt(t, l) == opening[t] = l
OpeningGoes(t, l) == opening' = [opening EXCEPT ![t] = l]
Told(t, r) == told' = [told EXCEPT ![t] = r]

OpenDisk(t) ==
    /\ OpeningAt(t, "game")
    /\ OpeningGoes(t, "disk")
    /\ UNCHANGED <<pathHooked, attempted, settled, pathResult, operator, told>>

\* hook_file_operator, once it is settled: without the lock, and with it.
Answered(t) ==
    /\ OpeningAt(t, "disk") /\ settled
    /\ OpeningGoes(t, "answered")
    /\ Told(t, pathResult)
    /\ UNCHANGED <<pathHooked, attempted, settled, pathResult, operator>>

\* The first one tries, whatever operator it has.
Attempt(t) ==
    /\ OpeningAt(t, "disk") /\ ~attempted
    /\ attempted' = TRUE
    /\ \E f \in Operators \cup {Invalid} :
         /\ operator' = f
         /\ IF f = Invalid
            THEN settled' = TRUE /\ OpeningGoes(t, "answered") /\ Told(t, FALSE)
            ELSE OpeningGoes(t, "slots") /\ UNCHANGED <<settled, told>>
    /\ UNCHANGED <<pathHooked, pathResult>>

\* Mutant: a slot that could not be hooked does not count.
HookSlotsAny(t) ==
    /\ OpeningAt(t, "slots")
    /\ \E hooked \in SUBSET Slots :
         /\ pathHooked' = pathHooked \cup {operator[i] : i \in hooked}
         /\ Told(t, hooked # {})
    /\ OpeningGoes(t, "settle")
    /\ UNCHANGED <<attempted, settled, pathResult, operator>>

\* The three slots in turn, whose effect nobody sees before the end.  A function
\* behind an earlier slot that was hooked serves this one too; otherwise it is
\* tried (again).
HookSlots(t) ==
    /\ OpeningAt(t, "slots")
    /\ \E hooked \in SUBSET Slots :
         LET shared(i) == \E j \in hooked : j < i /\ operator[j] = operator[i] IN
         /\ \A i \in hooked : ~shared(i)
         /\ pathHooked' = pathHooked \cup {operator[i] : i \in hooked}
         /\ Told(t, \A i \in Slots : i \in hooked \/ shared(i))
    /\ OpeningGoes(t, "settle")
    /\ UNCHANGED <<attempted, settled, pathResult, operator>>

\* Mutant: it is settled before the result is known.
SettleFirst(t) ==
    /\ OpeningAt(t, "settle")
    /\ IF settled THEN pathResult' = told[t] /\ OpeningGoes(t, "answered") /\ UNCHANGED settled
       ELSE settled' = TRUE /\ UNCHANGED <<pathResult, opening>>
    /\ UNCHANGED <<pathHooked, attempted, operator, told>>

\* The result, and only then that it is settled.
Settle(t) ==
    /\ OpeningAt(t, "settle")
    /\ IF pathResult = told[t] THEN settled' = TRUE /\ OpeningGoes(t, "answered") /\ UNCHANGED pathResult
       ELSE pathResult' = told[t] /\ UNCHANGED <<settled, opening>>
    /\ UNCHANGED <<pathHooked, attempted, operator, told>>

Opened(t) ==
    /\ OpeningAt(t, "answered")
    /\ OpeningGoes(t, "game")
    /\ UNCHANGED <<pathHooked, attempted, settled, pathResult, operator, told>>

PathNext ==
    \E t \in Openers :
        OpenDisk(t) \/ Answered(t) \/ Attempt(t) \/ HookSlots(t) \/ Settle(t) \/ Opened(t)

PathSpec == PathInit /\ [][PathNext]_pathVars

----------------------------------------------------------------------------
\* Everybody who opens a file gets the one answer about the SetPath hooks, and a
\* good one means that all three functions are hooked, also where a function
\* serves several slots (asset_hooks.c:605-653).
SetPathAnswersAgree ==
    \A t \in Openers : OpeningAt(t, "answered") =>
        /\ told[t] = pathResult
        /\ pathResult => \A i \in Slots : operator[i] \in pathHooked

=============================================================================
