--------------------------------- MODULE Feed ---------------------------------
(***************************************************************************)
(* What the event bus of events.py promises the readers of one session,     *)
(* whatever it loses: only what was published, each event once, those of    *)
(* one thread in the order it emitted them, no more once reading ended, and  *)
(* after the session only what an abandoned thread still emits.              *)
(***************************************************************************)
EXTENDS Naturals, Sequences

CONSTANTS Events,  \* records with a number (seq) and the thread that emitted them (by)
          Readers,
          Awaited  \* threads that may be abandoned at the end of the session

VARIABLES published,  \* the events made known to the bus
          given,      \* what each reader was handed, in order
          finished,   \* the session is over
          abandoned,  \* threads that it did not wait for
          closed      \* readers that have stopped reading

feed == <<published, given, finished, abandoned, closed>>

Init ==
    /\ published = {} /\ given = [s \in Readers |-> <<>>]
    /\ finished = FALSE /\ abandoned = {} /\ closed = {}

Newer(e, f) == e.by = f.by => e.seq > f.seq

Publish(e) ==
    /\ finished => e.by \in abandoned
    /\ \A f \in published : Newer(e, f)
    /\ published' = published \cup {e}
    /\ UNCHANGED <<given, finished, abandoned, closed>>

Give(s, e) ==
    /\ s \notin closed /\ e \in published
    /\ \A i \in DOMAIN given[s] : Newer(e, given[s][i])
    /\ given' = [given EXCEPT ![s] = Append(@, e)]
    /\ UNCHANGED <<published, finished, abandoned, closed>>

Finish ==
    /\ ~finished /\ finished' = TRUE /\ abandoned' \in SUBSET Awaited
    /\ UNCHANGED <<published, given, closed>>

Close(s) ==
    /\ finished /\ s \notin closed /\ closed' = closed \cup {s}
    /\ UNCHANGED <<published, given, finished, abandoned>>

Next ==
    \/ \E e \in Events : Publish(e) \/ \E s \in Readers : Give(s, e)
    \/ Finish
    \/ \E s \in Readers : Close(s)

Spec == Init /\ [][Next]_feed

=============================================================================
