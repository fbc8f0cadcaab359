------------------------------ MODULE Quarantine ------------------------------
(***************************************************************************)
(* What containment promises, with nothing of how it is done: every task of *)
(* the sandbox is free to run, held by the kernel, or gone; once the        *)
(* sandbox is sealed, a task that is held never becomes free again, and a   *)
(* new task of a held one is held too.  Sealing is for good.                *)
(***************************************************************************)
CONSTANT Tasks
VARIABLES place, sealed

vars == <<place, sealed>>

Init ==
    /\ place \in [Tasks -> {"absent", "held"}]
    /\ sealed = FALSE

\* The kernel takes a task: a notified call, or the freezer.
Hold(t) ==
    /\ place[t] = "free"
    /\ place' = [place EXCEPT ![t] = "held"]
    /\ UNCHANGED sealed

\* A held task goes back to user space, never out of a sealed sandbox.
Free(t) ==
    /\ ~sealed /\ place[t] = "held"
    /\ place' = [place EXCEPT ![t] = "free"]
    /\ UNCHANGED sealed

\* A task created by t starts where t is going.
Spawn(t, u) ==
    /\ place[t] = "held" /\ place[u] = "absent"
    /\ LET there == IF sealed THEN "held" ELSE "free"
       IN  place' = [place EXCEPT ![t] = there, ![u] = there]
    /\ UNCHANGED sealed

Seal == sealed' = TRUE /\ UNCHANGED place

\* Tasks die, alone or together.
Perish(S) ==
    /\ \A t \in S : place[t] # "absent"
    /\ place' = [t \in Tasks |-> IF t \in S THEN "gone" ELSE place[t]]
    /\ UNCHANGED sealed

Next ==
    \/ Seal
    \/ \E t \in Tasks : Hold(t) \/ Free(t) \/ \E u \in Tasks : Spawn(t, u)
    \/ \E S \in SUBSET Tasks : Perish(S)

Spec == Init /\ [][Next]_vars

=============================================================================
