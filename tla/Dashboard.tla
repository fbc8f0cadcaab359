------------------------------ MODULE Dashboard ------------------------------
(***************************************************************************)
(* web.py: the runs a dashboard is asked for.  Each POST is answered by an  *)
(* HTTP thread of its own, which starts a thread for run_session; these     *)
(* threads share running, _active_session, the history and the disposable   *)
(* VM, and read and write them without a common lock.  A local run is one   *)
(* Session; a VM run boots or reuses the VM and relays the feed of the      *)
(* dashboard in it.  Every broadcast waits for its slowest client.          *)
(***************************************************************************)
EXTENDS Naturals, Sequences, SequencesExt

CONSTANTS
    LocalRuns, \* requests that may ask for a run on this host...
    VmRuns,    \* ...and that may ask for one in the disposable VM
    HistMax,   \* records the history keeps
    MaxStarts, \* bound: the guest's run_starts that one VM run relays
    None       \* no session, no VM

Runs == LocalRuns \cup VmRuns

ASSUME DashboardAssumption ==
    /\ HistMax \in Nat \ {0} /\ MaxStarts \in Nat /\ None \notin Runs

VARIABLES
    pc,        \* where each run's thread is
    running,   \* the guard flag
    active,    \* _active_session
    cg,        \* each session's cgroup: "none", "live", "removed"
    history,   \* the finished runs, newest last
    feed,      \* run_start and run_end as broadcast: each run's own, in order
    inVm,      \* the runs whose request asks for the VM
    handle,    \* _vm: the run whose VM it is
    vm,        \* the VM each run has started: "none", "starting", "serving"
    stalled    \* a client that does not read keeps broadcast()'s lock taken

vars == <<pc, running, active, cg, history, feed, handle, vm, inVm, stalled>>

Init ==
    /\ pc = [r \in Runs |-> "new"]
    /\ running = FALSE /\ active = None
    /\ cg = [r \in Runs |-> "none"]
    /\ history = <<>> /\ feed = [r \in Runs |-> <<>>]
    /\ inVm = {} /\ handle = None /\ vm = [r \in VmRuns |-> "none"]
    /\ stalled = FALSE

Goto(r, there)     == pc' = [pc EXCEPT ![r] = there]
\* sendall has no timeout: nothing is broadcast while a client does not read.
Broadcast(r, kind) == ~stalled /\ feed' = [feed EXCEPT ![r] = Append(@, kind)]
Newest(h, n)       == SubSeq(h, IF Len(h) > n THEN Len(h) - n + 1 ELSE 1, Len(h))

\* do_POST and _handle_upload: 429, 409, 413 or 400, or a thread is started.
Post(r) ==
    /\ pc[r] = "new"
    /\ \/ Goto(r, "refused") /\ UNCHANGED inVm
       \/ /\ ~running /\ Goto(r, "thread")
          /\ \/ r \in LocalRuns /\ UNCHANGED inVm
             \/ r \in VmRuns /\ inVm' = inVm \cup {r}
    /\ UNCHANGED <<running, active, cg, history, feed, handle, vm, stalled>>

\* run_session reads running once more (run_sample may find no such payload); a
\* refusal is broadcast.
Check(r) ==
    /\ pc[r] = "thread"
    /\ \/ ~stalled /\ Goto(r, "refused")
       \/ ~running /\ Goto(r, "claim")
    /\ UNCHANGED <<running, active, cg, history, feed, handle, vm, inVm, stalled>>

Claim(r) ==
    /\ pc[r] = "claim"
    /\ running' = TRUE
    /\ Goto(r, IF r \in inVm THEN "vmStart" ELSE "profile")
    /\ UNCHANGED <<active, cg, history, feed, handle, vm, inVm, stalled>>

-----------------------------------------------------------------------------
(* A local run.                                                             *)

\* An unknown policy name: get_profile raises SystemExit, which ends the thread
\* before any try, and leaves the guard up.
Profile(r) ==
    /\ pc[r] = "profile"
    /\ \/ Goto(r, "exited") /\ UNCHANGED active
       \/ Goto(r, "announce") /\ active' = r
    /\ UNCHANGED <<running, cg, history, feed, handle, vm, inVm, stalled>>

Announce(r) ==
    /\ pc[r] = "announce"
    /\ Broadcast(r, "run_start") /\ Goto(r, "launch")
    /\ UNCHANGED <<running, active, cg, history, handle, vm, inVm, stalled>>

\* Session.run creates its cgroup, or returns verdict "error" without one.
Launch(r) ==
    /\ pc[r] = "launch"
    /\ \/ cg' = [cg EXCEPT ![r] = "live"] /\ Goto(r, "session")
       \/ UNCHANGED cg /\ Goto(r, "record")
    /\ UNCHANGED <<running, active, history, feed, handle, vm, inVm, stalled>>

\* Mutant of SessionRaises: a session that raised leaves a record all the same.
RaisesRecorded(r) ==
    /\ pc[r] = "session"
    /\ cg' = [cg EXCEPT ![r] = "removed"] /\ Goto(r, "clear")
    /\ history' = Newest(Append(history, r), HistMax)
    /\ UNCHANGED <<running, active, feed, handle, vm, inVm, stalled>>

\* SandboxLaunchError, BrokenPipeError...: no result; only run_session's finally.
SessionRaises(r) ==
    /\ pc[r] = "session"
    /\ cg' = [cg EXCEPT ![r] = "removed"] /\ Goto(r, "clear")
    /\ UNCHANGED <<running, active, history, feed, handle, vm, inVm, stalled>>

SessionReturns(r) ==
    /\ pc[r] = "session"
    /\ cg' = [cg EXCEPT ![r] = "removed"] /\ Goto(r, "record")
    /\ UNCHANGED <<running, active, history, feed, handle, vm, inVm, stalled>>

\* Mutant of Record: a list without a maxlen.
RecordAll(r) ==
    /\ pc[r] = "record"
    /\ history' = Append(history, r) /\ Goto(r, "end")
    /\ UNCHANGED <<running, active, cg, feed, handle, vm, inVm, stalled>>

Record(r) ==
    /\ pc[r] = "record"
    /\ history' = Newest(Append(history, r), HistMax) /\ Goto(r, "end")
    /\ UNCHANGED <<running, active, cg, feed, handle, vm, inVm, stalled>>

End(r) ==
    /\ pc[r] = "end"
    /\ Broadcast(r, "run_end") /\ Goto(r, "clear")
    /\ UNCHANGED <<running, active, cg, history, handle, vm, inVm, stalled>>

\* The finally block: running first, the session in flight after it.
Clear(r) ==
    /\ pc[r] = "clear"
    /\ running' = FALSE
    /\ Goto(r, IF r \in inVm THEN "over" ELSE "forget")
    /\ UNCHANGED <<active, cg, history, feed, handle, vm, inVm, stalled>>

Forget(r) ==
    /\ pc[r] = "forget"
    /\ active' = None /\ Goto(r, "over")
    /\ UNCHANGED <<running, cg, history, feed, handle, vm, inVm, stalled>>

-----------------------------------------------------------------------------
(* A run in the disposable VM.                                              *)

VmStart(r) ==
    /\ pc[r] = "vmStart"
    /\ Broadcast(r, "run_start")
    /\ IF handle = None \/ (handle # None /\ vm[handle] = "none")
         THEN Goto(r, "spawn") ELSE Goto(r, "upload")
    /\ UNCHANGED <<running, active, cg, history, handle, vm, inVm, stalled>>

Spawned(r) == handle' = r /\ vm' = [vm EXCEPT ![r] = "starting"] /\ Goto(r, "waitUp")

\* Mutant of Spawn: only Exceptions lead to the end of the run.
SpawnDies(r) ==
    /\ pc[r] = "spawn" /\ ~stalled
    /\ \/ Spawned(r)
       \/ Goto(r, "vmError") /\ UNCHANGED <<handle, vm>>
       \/ Goto(r, "over") /\ UNCHANGED <<handle, vm>>
    /\ UNCHANGED <<running, active, cg, history, feed, inVm, stalled>>

\* spawn_vm, which says how far it is: a handle, an Exception, or die()'s
\* SystemExit, which passes by the handler that broadcasts an end.
Spawn(r) ==
    /\ pc[r] = "spawn" /\ ~stalled
    /\ \/ Spawned(r)
       \/ Goto(r, "vmError") /\ UNCHANGED <<handle, vm>>
       \/ Goto(r, "clear") /\ UNCHANGED <<handle, vm>>
    /\ UNCHANGED <<running, active, cg, history, feed, inVm, stalled>>

\* The port answers, whichever VM it is.
Up == \E r \in VmRuns : vm[r] = "serving"

\* Mutant of WaitUp: no timeout.
WaitUpForever(r) ==
    /\ pc[r] = "waitUp" /\ ~stalled
    /\ Up /\ Goto(r, "upload")
    /\ UNCHANGED <<running, active, cg, history, feed, handle, vm, inVm, stalled>>

\* Mutant of WaitUp: the handler of its timeout does not return.
WaitUpGoesOn(r) ==
    /\ pc[r] = "waitUp" /\ ~stalled /\ Goto(r, "upload")
    /\ IF Up THEN UNCHANGED feed ELSE Broadcast(r, "error_end")
    /\ UNCHANGED <<running, active, cg, history, handle, vm, inVm, stalled>>

WaitUp(r) ==
    /\ pc[r] = "waitUp" /\ ~stalled
    /\ IF Up THEN Goto(r, "upload") ELSE Goto(r, "vmError")
    /\ UNCHANGED <<running, active, cg, history, feed, handle, vm, inVm, stalled>>

\* connect() and the POST: accepted, or an exception, which the guest's 409 for a
\* second run is too.
Upload(r) ==
    /\ pc[r] = "upload"
    /\ \/ Up /\ Goto(r, "relay")
       \/ Goto(r, "vmError")
    /\ UNCHANGED <<running, active, cg, history, feed, handle, vm, inVm, stalled>>

\* One event of the guest's feed is passed on as it is, also one of a run that
\* another request has there: a run_start, the run_end that ends the loop...
Relay(r) ==
    /\ pc[r] = "relay"
    /\ \/ Len(feed[r]) <= MaxStarts /\ Broadcast(r, "run_start") /\ UNCHANGED pc
       \/ Broadcast(r, "run_end") /\ Goto(r, "vmRecord")
    /\ UNCHANGED <<running, active, cg, history, handle, vm, inVm, stalled>>

\* ...or ten seconds of silence or the end of the connection, which end it too,
\* without a word: no run_end, no record.
FeedStops(r) ==
    /\ pc[r] = "relay" /\ Goto(r, "clear")
    /\ UNCHANGED <<running, active, cg, history, feed, handle, vm, inVm, stalled>>

VmRecord(r) ==
    /\ pc[r] = "vmRecord"
    /\ history' = Newest(Append(history, r), HistMax) /\ Goto(r, "clear")
    /\ UNCHANGED <<running, active, cg, feed, handle, vm, inVm, stalled>>

\* The last lines of the handlers: the feed gets an end with verdict "error".
VmError(r) ==
    /\ pc[r] = "vmError"
    /\ Broadcast(r, "error_end") /\ Goto(r, "clear")
    /\ UNCHANGED <<running, active, cg, history, handle, vm, inVm, stalled>>

\* A guest's boot (one VM gets the port), and the end of its process at any time.
VmServes(r) ==
    /\ vm[r] = "starting" /\ ~Up /\ vm' = [vm EXCEPT ![r] = "serving"]
    /\ UNCHANGED <<pc, running, active, cg, history, feed, handle, inVm, stalled>>

VmEnds(r) ==
    /\ vm[r] # "none" /\ vm' = [vm EXCEPT ![r] = "none"]
    /\ UNCHANGED <<pc, running, active, cg, history, feed, handle, inVm, stalled>>

\* A client stops reading with a broadcast to it under way, and reads on or goes.
ClientStalls ==
    /\ stalled' = ~stalled
    /\ UNCHANGED <<pc, running, active, cg, history, feed, handle, vm, inVm>>

Thread(r) ==
    \/ Check(r) \/ Claim(r) \/ Profile(r) \/ Announce(r) \/ Launch(r)
    \/ SessionRaises(r) \/ SessionReturns(r) \/ Record(r) \/ End(r) \/ Clear(r) \/ Forget(r)
    \/ VmStart(r) \/ Spawn(r) \/ WaitUp(r) \/ Upload(r) \/ Relay(r) \/ FeedStops(r)
    \/ VmRecord(r) \/ VmError(r)

Next ==
    \/ \E r \in Runs : Post(r) \/ Thread(r)
    \/ \E r \in VmRuns : VmServes(r) \/ VmEnds(r)
    \/ ClientStalls

\* A started thread gets on: its session ends (Containment's SessionEnds), the waits
\* for the VM have timeouts, and so has its feed, which falls silent when the guest's
\* own session ends.  VMs and clients owe nothing.
Spec     == Init /\ [][Next]_vars
FairSpec == Spec /\ \A r \in Runs : WF_vars(Thread(r))

-----------------------------------------------------------------------------
(* Properties.                                                              *)

Idle      == {"new", "refused", "thread", "over", "exited"}
Said(k)   == {r \in Runs : k \in ToSet(feed[r])}

\* Every variable has its type, and the history keeps no more than its limit.
TypeOK ==
    /\ pc \in [Runs -> {"claim", "profile", "announce", "launch", "session", "record", "end",
                        "clear", "forget", "vmStart", "spawn", "waitUp", "upload", "relay",
                        "vmRecord", "vmError"} \cup Idle]
    /\ running \in BOOLEAN /\ active \in Runs \cup {None}
    /\ cg \in [Runs -> {"none", "live", "removed"}]
    /\ history \in Seq(Runs) /\ Len(history) <= HistMax
    /\ inVm \subseteq VmRuns /\ handle \in VmRuns \cup {None} /\ vm \in [VmRuns -> {"none", "starting", "serving"}]
    /\ stalled \in BOOLEAN

\* When the last run is over, however each ended and however they overlapped,
\* nothing is left of them: no session is in flight, no cgroup is live, and the
\* guard is down unless get_profile ended a thread (web.py:242-247 and 307-311).
AtRest ==
    (\A r \in Runs : pc[r] \in {"new", "refused", "over", "exited"}) =>
        /\ running => \E r \in Runs : pc[r] = "exited"
        /\ active = None /\ \A r \in Runs : cg[r] # "live"

\* The history is what happened, each run once: a record of a run that is over
\* has its run_end in the feed, a run_end has its record unless newer ones
\* pushed it out, and a run that failed has neither (web.py:88-92, 293-306).
HistoryIsTheFeed ==
    /\ IsInjective(history)
    /\ \A r \in Runs : pc[r] = "over" =>
          /\ r \in ToSet(history) => r \in Said("run_end") \ Said("error_end")
          /\ r \in Said("run_end") /\ Len(history) < HistMax => r \in ToSet(history)

\* The feed brackets every run, also one that relays the guest's run_starts: an end
\* has a start before it and nothing of its run behind it (web.py:279-306, 341-409).
FeedIsBracketed ==
    \A r \in Runs : \A i \in DOMAIN feed[r] :
        feed[r][i] # "run_start" => i > 1 /\ i = Len(feed[r])

\* Every accepted request is over in the end, VM or not, unless again and again a
\* client that does not read holds up what a run broadcasts (web.py:169-173).
EveryRunEnds ==
    <>[]~stalled => \A r \in Runs : (pc[r] = "thread") ~> (pc[r] \in {"refused", "over", "exited"})

=============================================================================
