---------------------------- MODULE NativeWindow ----------------------------
(***************************************************************************)
(* gui.py: the Tk window.  The Tk thread starts one run at a time, a worker  *)
(* thread per run, and empties a queue that all workers fill.  A local run  *)
(* is a privileged helper (helper.py) that reads the script from its stdin  *)
(* and writes one event a line to its stdout; the payload inherits stdout   *)
(* and stderr from it.  A VM run is a dashboard's run in the disposable VM, *)
(* heard over a WebSocket (wsclient.py).  Making and removing the VM is     *)
(* DisposableVm's matter.                                                   *)
(***************************************************************************)
EXTENDS Naturals, Sequences, SequencesExt

CONSTANTS MaxRuns   \* bound: runs that the user starts

ASSUME WindowAssumption == MaxRuns \in Nat

VARIABLES
    cur,      \* runs started; the last one is what the window is about
    running, shown, display, \* the flag, first_violation_shown, the state pill
    q,        \* the queue from the workers to the Tk thread
    pump,     \* _drain_queue is still scheduled
    w,        \* where each run's worker is
    proc,     \* its helper: "none", "prompt", "input", "session", "stuck", "over", "ok", "bad"
    partial,  \* the payload's last output on it has no newline yet
    pending,  \* a violation is on the bus and no pump has passed it on
    lost,     \* history: the lines that never came through
    vm,       \* the VM: "none", "booting", "serving"
    guest, ending, \* the run in the VM's dashboard, 0 for none; it has said its end
    feed,     \* messages on each VM run's WebSocket
    subs,     \* the runs whose WebSocket is connected
    outcome,  \* history: how each session ended
    amiss     \* history: a worker has reported an error, or a payload has forged a line

window == <<cur, running, shown, display>>
local  == <<proc, partial, pending, lost>>
remote == <<vm, guest, ending, feed, subs>>
vars   == <<window, q, pump, w, local, remote, outcome, amiss>>

Runs     == 1..MaxRuns
Verdicts == {"clean", "contained", "error"}

Init ==
    /\ cur = 0 /\ running = FALSE /\ shown = FALSE /\ display = "idle"
    /\ q = <<>> /\ pump = TRUE
    /\ w = [r \in Runs |-> "none"] /\ proc = [r \in Runs |-> "none"]
    /\ partial = [r \in Runs |-> FALSE]
    /\ pending = [r \in Runs |-> FALSE] /\ lost = [r \in Runs |-> {}]
    /\ vm = "none" /\ guest = 0 /\ ending = FALSE
    /\ feed = [r \in Runs |-> <<>>] /\ subs = {}
    /\ outcome = [r \in Runs |-> "none"] /\ amiss = FALSE

Set(f, r, v)   == [f EXCEPT ![r] = v]
Goto(r, there) == w' = Set(w, r, there)
Put(item)      == q' = Append(q, item)
\* The two puts of a failure are two steps; between them the Tk thread may run.
PutFailure(r)  == Put("failure") /\ amiss' = TRUE /\ Goto(r, "tell")

-----------------------------------------------------------------------------
(* The Tk thread.                                                           *)

\* Mutant of StartRun: _reset_run leaves first_violation_shown as it is.
StartRunKeepsBanner ==
    /\ ~running /\ cur < MaxRuns
    /\ cur' = cur + 1 /\ running' = TRUE /\ display' = "running"
    /\ Goto(cur', "launch") \/ Goto(cur', "boot")
    /\ UNCHANGED <<shown, q, pump, proc, partial, pending, lost, remote, outcome, amiss>>

\* pick_file or run_sample, then _start_run, for a local run or one in the VM.
StartRun ==
    /\ ~running /\ cur < MaxRuns
    /\ cur' = cur + 1 /\ running' = TRUE /\ shown' = FALSE /\ display' = "running"
    /\ Goto(cur', "launch") \/ Goto(cur', "boot")
    /\ UNCHANGED <<q, pump, proc, partial, pending, lost, remote, outcome, amiss>>

\* Mutant of Handle: the pill takes the kind of the event for a state.
HandleByKind ==
    /\ pump /\ q # <<>> /\ q' = Tail(q)
    /\ LET ev == Head(q) IN
        /\ pump'    = (ev # "value")
        /\ shown'   = (shown \/ ev = "violation")
        /\ running' = (running /\ ev \in {"violation", "value"})
        /\ display' = IF ev = "violation" THEN "frozen" ELSE ev
    /\ UNCHANGED <<cur, w, local, remote, outcome, amiss>>

\* _handle.  A value that is no object raises, and the pump is not scheduled again.
Handle ==
    /\ pump /\ q # <<>> /\ q' = Tail(q)
    /\ LET ev == Head(q) IN
        /\ pump'    = (ev # "value")
        /\ shown'   = (shown \/ ev = "violation")
        /\ running' = (running /\ ev \in {"violation", "value"})
        /\ display' = CASE ev = "violation" -> "frozen"
                        [] ev = "failure"   -> "idle"
                        [] ev \in Verdicts  -> ev
                        [] OTHER            -> display
    /\ UNCHANGED <<cur, w, local, remote, outcome, amiss>>

-----------------------------------------------------------------------------
(* A local run: the worker.                                                 *)

\* Popen, for a script that a pipe holds or a larger one; or neither pkexec nor
\* sudo, or an OSError.
LaunchHelper(r) ==
    /\ w[r] = "launch"
    /\ \/ /\ Goto(r, "write") \/ Goto(r, "writeLarge")
          /\ proc' = Set(proc, r, "prompt") /\ UNCHANGED <<q, amiss>>
       \/ PutFailure(r) /\ UNCHANGED proc
    /\ UNCHANGED <<window, pump, partial, pending, lost, remote, outcome>>

\* Write and close.  A large script waits for its reader; when that has gone
\* (authorization cancelled) the call raises, and the thread is gone too.
WriteScript(r) ==
    /\ \/ w[r] = "write"
       \/ w[r] = "writeLarge" /\ proc[r] # "prompt"
    /\ Goto(r, IF proc[r] = "bad" THEN "mute" ELSE "read")
    /\ UNCHANGED <<window, q, pump, local, remote, outcome, amiss>>

\* stdout has ended, then stderr, then the process.  A failure is reported unless
\* the Tk thread has shown a violation by now.
HelperIsOver(r) ==
    /\ w[r] = "read" /\ proc[r] \in {"ok", "bad"}
    /\ IF proc[r] = "bad" /\ ~shown
         THEN PutFailure(r)
         ELSE Goto(r, IF proc[r] = "bad" THEN "mute" ELSE "done") /\ UNCHANGED <<q, amiss>>
    /\ UNCHANGED <<window, pump, local, remote, outcome>>

\* The second put of every failure.
TellEnd(r) ==
    /\ w[r] = "tell" /\ Put("error") /\ Goto(r, "done")
    /\ UNCHANGED <<window, pump, local, remote, outcome, amiss>>

-----------------------------------------------------------------------------
(* A local run: the helper.                                                 *)

\* Lines of the helper, which the worker, reading all the while, puts into the queue
\* as they are.  One after output without a newline is no JSON, and is dropped.
Say(r, line) ==
    /\ partial' = Set(partial, r, FALSE)
    /\ IF partial[r] THEN lost' = Set(lost, r, lost[r] \cup {line}) /\ UNCHANGED <<q, amiss>>
       ELSE Put(line) /\ amiss' = (amiss \/ line = "failure") /\ UNCHANGED lost

Unsaid(r) == IF pending[r] THEN {"violation"} ELSE {}

Authorize(r) ==
    /\ proc[r] = "prompt"
    /\ \E there \in {"input", "bad"} : proc' = Set(proc, r, there)
    /\ UNCHANGED <<window, q, pump, w, partial, pending, lost, remote, outcome, amiss>>

\* The end of stdin: a session, or an empty script and exit code 2.
HelperReads(r) ==
    /\ proc[r] = "input" /\ w[r] = "read"
    /\ \/ proc' = Set(proc, r, "session") /\ UNCHANGED <<q, amiss, partial, lost>>
       \/ proc' = Set(proc, r, "bad") /\ Say(r, "failure")
    /\ UNCHANGED <<window, pump, w, pending, remote, outcome>>

Payload == {"session", "stuck"}

\* A line that is JSON: a value that is no object, or an object, which the worker
\* takes for the helper's, whatever it says.  Or text without a newline, or more on
\* stderr than its pipe holds while nobody reads it.  (Bounds: such a line comes when
\* the queue is empty, an object while nothing is amiss yet: another one would set a
\* window free once more.  One whose handling raises half-way is left to the two.)
PayloadWrites(r) ==
    /\ proc[r] = "session"
    /\ \/ /\ ~partial[r] /\ q = <<>> /\ UNCHANGED <<partial, proc>>
          /\ \E line \in Verdicts \cup {"violation", "failure", "value"} :
                /\ line = "value" \/ ~amiss
                /\ Put(line) /\ amiss' = (amiss \/ line # "value")
       \/ partial' = Set(partial, r, TRUE) /\ UNCHANGED <<q, proc, amiss>>
       \/ proc' = Set(proc, r, "stuck") /\ UNCHANGED <<q, partial, amiss>>
    /\ UNCHANGED <<window, pump, w, pending, lost, remote, outcome>>

Violates(r) ==
    /\ proc[r] \in Payload /\ outcome[r] = "none"
    /\ outcome' = Set(outcome, r, "contained") /\ pending' = Set(pending, r, TRUE)
    /\ UNCHANGED <<window, q, pump, w, proc, partial, lost, remote, amiss>>

HelperPump(r) ==
    /\ proc[r] \in Payload \cup {"over"} /\ pending[r]
    /\ pending' = Set(pending, r, FALSE) /\ Say(r, "violation")
    /\ UNCHANGED <<window, pump, w, proc, remote, outcome>>

\* Mutant of SessionReturns: run() without a timeout.
ReturnsUntimed(r) ==
    /\ proc[r] = "session" \/ (proc[r] = "stuck" /\ outcome[r] = "contained")
    /\ proc' = Set(proc, r, "over")
    /\ outcome' = Set(outcome, r, IF outcome[r] = "none" THEN "clean" ELSE outcome[r])
    /\ UNCHANGED <<window, q, pump, w, partial, pending, lost, remote, amiss>>

\* The payload exits or is contained; the timeout of 25 seconds ends one that waits.
SessionReturns(r) ==
    /\ proc[r] \in Payload /\ proc' = Set(proc, r, "over")
    /\ outcome' = Set(outcome, r, IF outcome[r] = "none" THEN "clean" ELSE outcome[r])
    /\ UNCHANGED <<window, q, pump, w, partial, pending, lost, remote, amiss>>

\* CgroupUnavailable, a result; SandboxLaunchError and others, exit code 1.
SessionFails(r) ==
    /\ proc[r] \in Payload
    /\ \/ outcome[r] = "none" /\ proc' = Set(proc, r, "over") /\ outcome' = Set(outcome, r, "error")
       \/ proc' = Set(proc, r, "bad") /\ UNCHANGED outcome
    /\ partial' = Set(partial, r, FALSE) /\ pending' = Set(pending, r, FALSE)
    /\ lost' = Set(lost, r, lost[r] \cup Unsaid(r))
    /\ UNCHANGED <<window, q, pump, w, remote, amiss>>

\* stop.set(), join: what the pump has not taken stays on the bus; then the result.
HelperResult(r) ==
    /\ proc[r] = "over" /\ proc' = Set(proc, r, "ok")
    /\ partial' = Set(partial, r, FALSE) /\ pending' = Set(pending, r, FALSE)
    /\ lost' = Set(lost, r, lost[r] \cup Unsaid(r) \cup (IF partial[r] THEN {outcome[r]} ELSE {}))
    /\ q' = IF partial[r] THEN q ELSE Append(q, outcome[r])
    /\ UNCHANGED <<window, pump, w, remote, outcome, amiss>>

-----------------------------------------------------------------------------
(* A run in the VM: the worker.                                             *)

\* A VM that is running is used; otherwise spawn_vm makes one, raises, or ends the
\* thread by die()'s SystemExit.
Boot(r) ==
    /\ w[r] = "boot"
    /\ IF vm # "none" THEN Goto(r, "connect") /\ UNCHANGED <<q, amiss, vm>>
       ELSE \/ Goto(r, "waitUp") /\ vm' = "booting" /\ UNCHANGED <<q, amiss>>
            \/ PutFailure(r) /\ UNCHANGED vm
            \/ Goto(r, "mute") /\ UNCHANGED <<q, amiss, vm>>
    /\ UNCHANGED <<window, pump, local, guest, ending, feed, subs, outcome>>

\* wait_up: an answer, or its 240 seconds.
WaitUp(r) ==
    /\ w[r] = "waitUp"
    /\ IF vm = "serving" THEN Goto(r, "connect") /\ UNCHANGED <<q, amiss>> ELSE PutFailure(r)
    /\ UNCHANGED <<window, pump, local, remote, outcome>>

Connect(r) ==
    /\ w[r] = "connect"
    /\ \/ vm = "serving" /\ Goto(r, "upload") /\ subs' = subs \cup {r} /\ UNCHANGED <<q, amiss>>
       \/ PutFailure(r) /\ UNCHANGED subs
    /\ UNCHANGED <<window, pump, local, vm, guest, ending, feed, outcome>>

\* The dashboard in the VM takes the run, or has one and answers 409; the answer of
\* the one or the other may fail to come within ten seconds.
Upload(r) ==
    /\ w[r] = "upload"
    /\ \/ /\ vm = "serving" /\ guest = 0 /\ guest' = r
          /\ \/ Goto(r, "relay") /\ UNCHANGED <<q, amiss, subs>>
             \/ PutFailure(r) /\ subs' = subs \ {r}
       \/ PutFailure(r) /\ subs' = subs \ {r} /\ UNCHANGED guest
    /\ UNCHANGED <<window, pump, local, vm, ending, feed, outcome>>

Relay(r) ==
    /\ w[r] = "relay" /\ feed[r] # <<>>
    /\ Put(Head(feed[r])) /\ feed' = Set(feed, r, Tail(feed[r]))
    /\ IF Head(feed[r]) \in Verdicts THEN Goto(r, "done") /\ subs' = subs \ {r} ELSE UNCHANGED <<w, subs>>
    /\ UNCHANGED <<window, pump, local, vm, guest, ending, outcome, amiss>>

\* Ten seconds without a message, or the end of the VM: the loop just ends.
FeedEnds(r) ==
    /\ w[r] = "relay" /\ feed[r] = <<>> /\ Goto(r, "mute") /\ subs' = subs \ {r}
    /\ UNCHANGED <<window, q, pump, local, vm, guest, ending, feed, outcome, amiss>>

-----------------------------------------------------------------------------
(* A run in the VM: the VM and its dashboard.                               *)

VmServes ==
    /\ vm = "booting" /\ vm' = "serving"
    /\ UNCHANGED <<window, q, pump, w, local, guest, ending, feed, subs, outcome, amiss>>

VmEnds ==
    /\ vm # "none" /\ vm' = "none" /\ guest' = 0 /\ ending' = FALSE
    /\ UNCHANGED <<window, q, pump, w, local, feed, subs, outcome, amiss>>

Broadcast(m) == feed' = [r \in Runs |-> IF r \in subs THEN Append(feed[r], m) ELSE feed[r]]

GuestViolates ==
    /\ guest # 0 /\ ~ending /\ outcome[guest] = "none"
    /\ outcome' = Set(outcome, guest, "contained") /\ pending' = Set(pending, guest, TRUE)
    /\ UNCHANGED <<window, q, pump, w, proc, partial, lost, remote, amiss>>

GuestPump ==
    /\ guest # 0 /\ ~ending /\ pending[guest]
    /\ pending' = Set(pending, guest, FALSE) /\ Broadcast("violation")
    /\ UNCHANGED <<window, q, pump, w, proc, partial, lost,
                   vm, guest, ending, subs, outcome, amiss>>

\* 0.3 seconds for the pump, then run_end.
GuestEnds ==
    /\ guest # 0 /\ ~ending /\ ending' = TRUE
    /\ \E v \in IF outcome[guest] = "contained" THEN {"contained"} ELSE {"clean", "error"} :
        outcome' = Set(outcome, guest, v) /\ Broadcast(v)
    /\ pending' = Set(pending, guest, FALSE)
    /\ lost' = Set(lost, guest, lost[guest] \cup Unsaid(guest))
    /\ UNCHANGED <<window, q, pump, w, proc, partial, vm, guest, subs, amiss>>

\* The guard comes down: after run_end, or because the session raised.
GuestClears ==
    /\ guest # 0 /\ guest' = 0 /\ ending' = FALSE
    /\ UNCHANGED <<window, q, pump, w, local, vm, feed, subs, outcome, amiss>>

-----------------------------------------------------------------------------

Worker(r) ==
    \/ LaunchHelper(r) \/ WriteScript(r) \/ HelperIsOver(r) \/ TellEnd(r)
    \/ Boot(r) \/ WaitUp(r) \/ Connect(r) \/ Upload(r) \/ Relay(r)
Helper(r) == Authorize(r) \/ HelperReads(r) \/ SessionReturns(r) \/ HelperResult(r)
Guest     == GuestEnds \/ GuestClears

Next ==
    \/ StartRun \/ Handle \/ VmServes \/ VmEnds \/ GuestViolates \/ GuestPump \/ Guest
    \/ \E r \in Runs : Worker(r) \/ Helper(r) \/ SessionFails(r) \/ FeedEnds(r) \/ PayloadWrites(r) \/ Violates(r) \/ HelperPump(r)

\* Threads get on, the user answers the prompt, a session ends (Containment), and a
\* WebSocket that is silent for ten seconds raises.  The VM owes nothing.
Spec     == Init /\ [][Next]_vars
FairSpec == Spec /\ WF_vars(Handle) /\ \A r \in Runs :
                WF_vars(Worker(r)) /\ WF_vars(Helper(r)) /\ WF_vars(FeedEnds(r))

-----------------------------------------------------------------------------
(* Properties.                                                              *)

\* Every variable has its type.
Lines == Verdicts \cup {"violation", "failure", "value"}
TypeOK ==
    /\ cur \in 0..MaxRuns /\ running \in BOOLEAN /\ shown \in BOOLEAN /\ pump \in BOOLEAN
    /\ display \in Verdicts \cup {"idle", "running", "frozen"}
    /\ q \in Seq(Lines) /\ vm \in {"none", "booting", "serving"}
    /\ w \in [Runs -> {"none", "launch", "write", "writeLarge", "read", "tell", "boot", "waitUp", "connect",
                       "upload", "relay", "done", "mute"}]
    /\ proc \in [Runs -> {"none", "prompt", "input", "session", "stuck", "over", "ok", "bad"}]
    /\ guest \in 0..MaxRuns /\ (ending => guest # 0)
    /\ feed \in [Runs -> Seq(Lines)] /\ lost \in [Runs -> SUBSET Lines]
    /\ outcome \in [Runs -> Verdicts \cup {"none"}]

\* What the window says is what happened: as long as no worker has had a failure to
\* report, and no payload has written an object of its own on the stdout that it has
\* from the helper (gui.py:433-437 cannot tell it from the helper's), a window that is
\* free shows how the session of its last run ended, and the banner exactly if that
\* run had a violation, which may have been lost on the way (helper.py:75,
\* web.py:302, a line that the payload left open).
SaysWhatHappened ==
    ~amiss /\ ~running /\ cur > 0 =>
        /\ display = outcome[cur]
        /\ shown = (outcome[cur] = "contained" /\ "violation" \notin lost[cur])

\* Every run sets the window free again, but for these: the thread ended without a
\* word (a pipe that broke, SystemExit, a helper that failed after a violation was
\* shown, a feed that was silent or cut), the line with the result was lost, or the
\* pump has died of a line that is no object.
WindowComesFree ==
    [](\A r \in Runs : running /\ cur = r =>
            <>(~running \/ cur # r \/ ~pump \/ w[r] = "mute" \/ lost[r] \cap Verdicts # {}))

=============================================================================
