----------------------------- MODULE Containment -----------------------------
(***************************************************************************)
(* One sandbox session from the moment launch() has returned: the payload's *)
(* tasks, the kernel pieces that hold them (seccomp notifications and the   *)
(* cgroup freezer), the monitor thread (monitor.py) and the session thread  *)
(* that waits, gives a verdict and tears the sandbox down (runner.py).      *)
(*                                                                          *)
(* A notified system call is reduced to how the policy judges it:           *)
(*   "plain"  allowed with CONTINUE                                         *)
(*   "open"   a permitted read-open: its path is read from the caller's     *)
(*            memory, and the supervisor injects the opened descriptor      *)
(*   "spawn"  process creation: allowed, or one too many in the window      *)
(*   "bad"    a violation                                                   *)
(*   "crash"  judge() raises                                                *)
(***************************************************************************)
EXTENDS Naturals

CONSTANTS
    Tasks,          \* the payload's threads and processes
    Main,           \* pid 1 of the sandbox: the payload itself
    Calls,          \* the kinds of notified system calls the payload makes
    MaxCalls,       \* bound: notified system calls in one session
    Policies,       \* values of policy.freeze_on_violation a session may have
    FreezeMayFail,  \* a write to cgroup.freeze may raise OSError
    KillAtomic,     \* the kernel has cgroup.kill (5.14 and later)
    RecvSeesExit    \* NOTIF_RECV returns ENOENT once no task is left (6.11)

ASSUME ContainmentAssumption ==
    /\ Main \in Tasks
    /\ Calls \subseteq {"plain", "open", "spawn", "bad", "crash"}
    /\ MaxCalls \in Nat
    /\ Policies \subseteq BOOLEAN
    /\ FreezeMayFail \in BOOLEAN
    /\ KillAtomic \in BOOLEAN
    /\ RecvSeesExit \in BOOLEAN

VARIABLES
    freezes,    \* policy.freeze_on_violation of this session
    task,       \* where each task of the payload is
    call,       \* the system call a task is in, "none" in user space
    note,       \* id of a task's live notification, 0 if it has none
    queued,     \* tasks whose notification the monitor has not received
    stale,      \* a wake-up of NOTIF_RECV outlived its notification
    issued,     \* notifications so far: the source of fresh ids
    freezing,   \* cgroup.freeze holds 1
    cgUp,       \* the cgroup directory exists
    outer,      \* the intermediate process the supervisor forked
    performed,  \* history: the kinds of calls the kernel carried out
    mpc, cur, state, stopFlag, violations, first,             \* Monitor
    rpc, exited, joined, fdOpen, frozenSeen, verdict          \* Session.run

kernel  == <<freezes, task, call, note, queued, stale, issued, freezing, cgUp, outer, performed>>
monitor == <<mpc, cur, state, stopFlag, violations, first>>
runner  == <<rpc, exited, joined, fdOpen, frozenSeen, verdict>>
vars    == <<kernel, monitor, runner>>

Alive(t)  == task[t] \in {"held", "user", "parked", "returning", "frozen"}
Vetted    == {"plain", "open", "spawn"}
NoRequest == [task |-> Main, id |-> 0, call |-> "none"]

Init ==
    /\ freezes \in Policies
    /\ task = [t \in Tasks |-> IF t = Main THEN "held" ELSE "absent"]
    /\ call = [t \in Tasks |-> "none"]
    /\ note = [t \in Tasks |-> 0]
    /\ queued = {} /\ stale = FALSE /\ issued = 0
    /\ freezing = FALSE /\ cgUp = TRUE /\ outer = "alive" /\ performed = {}
    /\ mpc = "unborn" /\ cur = NoRequest /\ state = "starting"
    /\ stopFlag = FALSE /\ violations = 0 /\ first = FALSE
    /\ rpc = "start" /\ exited = FALSE /\ joined = FALSE /\ fdOpen = TRUE
    /\ frozenSeen = FALSE /\ verdict = "none"

-----------------------------------------------------------------------------
(* The kernel.                                                              *)

\* The notifications of the tasks in S are withdrawn.
Withdraw(S) ==
    /\ note' = [t \in Tasks |-> IF t \in S THEN 0 ELSE note[t]]
    /\ queued' = queued \ S
    /\ stale' = (stale \/ queued \cap S # {})

\* SIGKILL is on its way to every task of S: none of them runs again.
Doom(S) ==
    /\ task' = [t \in Tasks |-> IF t \in S /\ Alive(t) THEN "dying" ELSE task[t]]
    /\ call' = [t \in Tasks |-> IF t \in S THEN "none" ELSE call[t]]
    /\ Withdraw(S)

\* The listener's file is released once it is closed and no NOTIF_RECV is in it.
Released == ~fdOpen /\ mpc # "recv"

\* A notified system call: parked for the monitor, or ENOSYS with no listener.
Notify(t) ==
    /\ task[t] = "user" /\ issued < MaxCalls
    /\ issued' = issued + 1
    /\ IF Released
         THEN /\ task' = [task EXCEPT ![t] = "returning"]
              /\ UNCHANGED <<call, note, queued>>
         ELSE /\ task' = [task EXCEPT ![t] = "parked"]
              /\ \E c \in Calls : call' = [call EXCEPT ![t] = c]
              /\ note' = [note EXCEPT ![t] = issued + 1]
              /\ queued' = queued \cup {t}
    /\ UNCHANGED <<freezes, stale, freezing, cgUp, outer, performed, monitor, runner>>

\* A signal with a handler interrupts the wait; the caller sees EINTR or retries.
Interrupt(t) ==
    /\ task[t] = "parked" /\ ~freezing
    /\ task' = [task EXCEPT ![t] = "user"]
    /\ call' = [call EXCEPT ![t] = "none"]
    /\ Withdraw({t})
    /\ UNCHANGED <<freezes, issued, freezing, cgUp, outer, performed, monitor, runner>>

\* Closing the listener wakes every parked task with ENOSYS.
Orphaned(t) ==
    /\ Released /\ task[t] = "parked"
    /\ task' = [task EXCEPT ![t] = "returning"]
    /\ call' = [call EXCEPT ![t] = "none"]
    /\ Withdraw({t})
    /\ UNCHANGED <<freezes, issued, freezing, cgUp, outer, performed, monitor, runner>>

\* Back from the kernel; the freezer's trap sits before user space.
Return(t) ==
    /\ task[t] = "returning"
    /\ LET there == IF freezing THEN "frozen" ELSE "user"
           fresh == {u \in Tasks : task[u] = "absent"}
       IN  IF call[t] = "spawn" /\ fresh # {}
             THEN \E u \in fresh : task' = [task EXCEPT ![t] = there, ![u] = there]
             ELSE task' = [task EXCEPT ![t] = there]
    /\ call' = [call EXCEPT ![t] = "none"]
    /\ UNCHANGED <<note, queued, stale, freezes, issued, freezing, cgUp, outer, performed, monitor, runner>>

\* Freezing is asynchronous: a task runs on until the freezer reaches it.
Caught(t) ==
    /\ freezing /\ task[t] \in {"user", "parked"}
    /\ task' = [task EXCEPT ![t] = "frozen"]
    /\ call' = [call EXCEPT ![t] = "none"]
    /\ Withdraw({t})
    /\ UNCHANGED <<freezes, issued, freezing, cgUp, outer, performed, monitor, runner>>

\* After a thaw the task runs again; an interrupted call is simply made anew.
Thawed(t) ==
    /\ ~freezing /\ task[t] = "frozen"
    /\ task' = [task EXCEPT ![t] = "user"]
    /\ UNCHANGED <<call, note, queued, stale, freezes, issued, freezing, cgUp, outer, performed, monitor, runner>>

Exit(t) ==
    /\ task[t] = "user"
    /\ Doom({t})
    /\ UNCHANGED <<freezes, issued, freezing, cgUp, outer, performed, monitor, runner>>

\* The death of pid 1 takes its whole pid namespace with it.
Zap ==
    /\ task[Main] = "dying" /\ \E t \in Tasks : Alive(t)
    /\ Doom(Tasks)
    /\ UNCHANGED <<freezes, issued, freezing, cgUp, outer, performed, monitor, runner>>

Die(t) ==
    /\ task[t] = "dying"
    /\ t = Main => \A u \in Tasks \ {Main} : task[u] \in {"absent", "dead"}
    /\ task' = [task EXCEPT ![t] = "dead"]
    /\ UNCHANGED <<call, note, queued, stale, freezes, issued, freezing, cgUp, outer, performed, monitor, runner>>

\* The intermediate process returns from waitpid(inner) and exits, or is killed.
OuterExit ==
    /\ \/ outer = "alive" /\ task[Main] = "dead" /\ ~freezing
       \/ outer = "dying"
    /\ outer' = "zombie"
    /\ UNCHANGED <<task, call, note, queued, stale, freezes, issued, freezing, cgUp, performed, monitor, runner>>

\* Cgroup.kill: one write to cgroup.kill, or a signal to each pid that
\* cgroup.procs listed, which spares a task forked after the list was read.
KillCgroup ==
    IF cgUp
      THEN /\ \E spared \in (IF KillAtomic THEN {{}} ELSE SUBSET (Tasks \ {Main})) :
                 Doom(Tasks \ spared)
           /\ outer' = IF outer = "alive" THEN "dying" ELSE outer
      ELSE UNCHANGED <<task, call, note, queued, stale, outer>>

-----------------------------------------------------------------------------
(* The monitor thread.                                                      *)

Live == fdOpen /\ note[cur.task] = cur.id

\* SECCOMP_IOCTL_NOTIF_SEND: an answer to a withdrawn id is ignored (ENOENT).
Answer(carryOut) ==
    IF note[cur.task] = cur.id
      THEN /\ task' = [task EXCEPT ![cur.task] = "returning"]
           /\ note' = [note EXCEPT ![cur.task] = 0]
           /\ performed' = IF carryOut THEN performed \cup {call[cur.task]} ELSE performed
           /\ call' = IF carryOut THEN call ELSE [call EXCEPT ![cur.task] = "none"]
      ELSE UNCHANGED <<task, note, performed, call>>

\* The loop is over; _run's finally block.
Finish ==
    /\ mpc' = "ended"
    /\ state' = IF state = "running" THEN "exited" ELSE state

Boot ==
    /\ mpc = "boot"
    /\ mpc' = "top" /\ state' = "running"
    /\ UNCHANGED <<cur, stopFlag, violations, first, kernel, runner>>

\* while not self._stop.is_set(): a receive on a closed descriptor raises EBADF.
Top ==
    /\ mpc = "top"
    /\ IF stopFlag \/ ~fdOpen THEN Finish ELSE mpc' = "recv" /\ UNCHANGED state
    /\ UNCHANGED <<cur, stopFlag, violations, first, kernel, runner>>

Receive ==
    /\ mpc = "recv"
    /\ \E t \in queued :
          /\ queued' = queued \ {t}
          /\ cur' = [task |-> t, id |-> note[t], call |-> call[t]]
    /\ mpc' = "judge"
    /\ UNCHANGED <<task, call, note, stale, freezes, issued, freezing, cgUp, outer, performed,
                   state, stopFlag, violations, first, runner>>

\* _run leaves its loop: receive() returned None, with ENOENT because the
\* notification was withdrawn first or because no task is left at all, or it
\* raised EBADF because the listener was closed before the call.
ReceiveNone ==
    /\ mpc = "recv"
    /\ \/ queued = {} /\ stale
       \/ RecvSeesExit /\ \A t \in Tasks : task[t] \in {"absent", "dead"}
       \/ ~fdOpen
    /\ stale' = FALSE
    /\ Finish
    /\ UNCHANGED <<task, call, note, queued, freezes, issued, freezing, cgUp, outer, performed,
                   cur, stopFlag, violations, first, runner>>

\* The verdicts judge() and the burst check can reach for the received call.
\* A path that cannot be read from a vanished caller is itself a violation.
Verdicts ==
    CASE cur.call = "plain" -> {"allow"}
      [] cur.call = "open"  -> IF Live THEN {"inject"} ELSE {"violation"}
      [] cur.call = "spawn" -> {"allow", "violation"}
      [] cur.call = "bad"   -> {"violation"}
      [] OTHER              -> {"error"}

Judge ==
    /\ mpc = "judge"
    /\ \E v \in Verdicts :
         /\ violations' = IF v = "violation" THEN violations + 1 ELSE violations
         /\ mpc' = CASE v = "violation" -> IF freezes THEN "freeze" ELSE "refuse"
                     [] v = "error"     -> "deny"
                     [] OTHER           -> v
    /\ UNCHANGED <<cur, state, stopFlag, first, kernel, runner>>

\* open_and_send: ADDFD with SEND answers the call; on any failure, CONTINUE.
Inject ==
    /\ mpc = "inject"
    /\ \/ /\ Live
          /\ Answer(TRUE) /\ mpc' = "top"
       \/ /\ mpc' = "allow"
          /\ UNCHANGED <<task, note, performed, call>>
    /\ UNCHANGED <<queued, stale, freezes, issued, freezing, cgUp, outer,
                   cur, state, stopFlag, violations, first, runner>>

\* Mutant of Reply: a policy error fails open.
ReplyFailsOpen ==
    /\ mpc \in {"allow", "deny", "refuse"} /\ fdOpen
    /\ Answer(mpc # "refuse")
    /\ mpc' = IF mpc = "refuse" THEN "report" ELSE "top"
    /\ UNCHANGED <<freezes, queued, stale, issued, freezing, cgUp, outer,
                   cur, state, stopFlag, violations, first, runner>>

\* listener.allow, or listener.deny after a policy error or a violation.
Reply ==
    /\ mpc \in {"allow", "deny", "refuse"}
    /\ IF fdOpen
         THEN /\ Answer(mpc = "allow")
              /\ mpc' = IF mpc = "refuse" THEN "report" ELSE "top"
              /\ UNCHANGED state
         ELSE Finish /\ UNCHANGED <<task, note, performed, call>>
    /\ UNCHANGED <<queued, stale, freezes, issued, freezing, cgUp, outer,
                   cur, stopFlag, violations, first, runner>>

Freeze ==
    /\ mpc = "freeze" /\ cgUp
    /\ freezing' = TRUE /\ mpc' = "reportFrozen"
    /\ UNCHANGED <<task, call, note, queued, stale, freezes, issued, cgUp, outer, performed,
                   cur, state, stopFlag, violations, first, runner>>

\* The write raised OSError: kill the cgroup and refuse the call.
FreezeFailed ==
    /\ mpc = "freeze" /\ (FreezeMayFail \/ ~cgUp)
    /\ KillCgroup /\ mpc' = "refuse"
    /\ UNCHANGED <<freezes, issued, freezing, cgUp, performed,
                   cur, state, stopFlag, violations, first, runner>>

\* Mutant of Report: the first violation is kept only when it froze the sandbox.
ReportOnlyFrozen ==
    /\ mpc \in {"report", "reportFrozen"}
    /\ first' = (first \/ mpc = "reportFrozen")
    /\ mpc' = IF mpc = "report" THEN "top" ELSE "announce"
    /\ UNCHANGED <<cur, state, stopFlag, violations, kernel, runner>>

Report ==
    /\ mpc \in {"report", "reportFrozen"}
    /\ first' = TRUE
    /\ mpc' = IF mpc = "report" THEN "top" ELSE "announce"
    /\ UNCHANGED <<cur, state, stopFlag, violations, kernel, runner>>

Announce ==
    /\ mpc = "announce"
    /\ state' = "frozen" /\ mpc' = "halt"
    /\ UNCHANGED <<cur, stopFlag, violations, first, kernel, runner>>

\* Mutant of Halt: the loop is not told to stop.
HaltReadsOn ==
    /\ mpc = "halt" /\ mpc' = "top"
    /\ UNCHANGED <<cur, state, stopFlag, violations, first, kernel, runner>>

Halt ==
    /\ mpc = "halt"
    /\ stopFlag' = TRUE /\ mpc' = "top"
    /\ UNCHANGED <<cur, state, violations, first, kernel, runner>>

MonitorStep == Boot \/ Top \/ Receive \/ ReceiveNone \/ Judge \/ Inject \/ Reply
               \/ Freeze \/ FreezeFailed \/ Report \/ Announce \/ Halt

-----------------------------------------------------------------------------
(* Session.run, from mon.start() on, and the dashboard's kill button.       *)

Start ==
    /\ rpc = "start"
    /\ mpc' = "boot" /\ rpc' = "release"
    /\ UNCHANGED <<cur, state, stopFlag, violations, first, kernel,
                   exited, joined, fdOpen, frozenSeen, verdict>>

Release ==
    /\ rpc = "release" /\ task[Main] # "dead"
    /\ task' = [task EXCEPT ![Main] = IF @ = "held" THEN "user" ELSE @]
    /\ rpc' = "wait"
    /\ UNCHANGED <<call, note, queued, stale, freezes, issued, freezing, cgUp, outer, performed,
                   monitor, exited, joined, fdOpen, frozenSeen, verdict>>

\* The kill button was faster: writing the go byte raises EPIPE, and run()
\* leaves through its finally block with no verdict and the monitor running.
ReleaseBroken ==
    /\ rpc = "release" /\ task[Main] \in {"dying", "dead"}
    /\ rpc' = "last"
    /\ UNCHANGED <<kernel, monitor, exited, joined, fdOpen, frozenSeen, verdict>>

SeeFrozen ==
    /\ rpc = "wait" /\ state = "frozen"
    /\ rpc' = "stop"
    /\ UNCHANGED <<kernel, monitor, exited, joined, fdOpen, frozenSeen, verdict>>

\* waitpid in either wait loop returns the outer process.
Reap ==
    /\ rpc \in {"wait", "reap"} /\ outer = "zombie"
    /\ outer' = "reaped" /\ exited' = TRUE /\ rpc' = "stop"
    /\ UNCHANGED <<task, call, note, queued, stale, freezes, issued, freezing, cgUp, performed,
                   monitor, joined, fdOpen, frozenSeen, verdict>>

\* The deadline passed; the state is read once more before the kill.
WaitTimeout ==
    /\ rpc = "wait"
    /\ rpc' = IF state = "frozen" THEN "stop" ELSE "kill"
    /\ UNCHANGED <<kernel, monitor, exited, joined, fdOpen, frozenSeen, verdict>>

Terminate ==
    /\ rpc = "kill"
    /\ KillCgroup /\ rpc' = "reap"
    /\ UNCHANGED <<freezes, issued, freezing, cgUp, performed,
                   monitor, exited, joined, fdOpen, frozenSeen, verdict>>

ReapTimeout ==
    /\ rpc = "reap"
    /\ rpc' = "stop"
    /\ UNCHANGED <<kernel, monitor, exited, joined, fdOpen, frozenSeen, verdict>>

Stop ==
    /\ rpc = "stop"
    /\ stopFlag' = TRUE /\ rpc' = "join"
    /\ UNCHANGED <<mpc, cur, state, violations, first, kernel,
                   exited, joined, fdOpen, frozenSeen, verdict>>

\* Mutant of Join: join() without a timeout.
JoinForever ==
    /\ rpc = "join" /\ mpc = "ended"
    /\ joined' = TRUE /\ rpc' = "close"
    /\ UNCHANGED <<kernel, monitor, exited, fdOpen, frozenSeen, verdict>>

\* mon.join(timeout=1.0) returns when the thread has ended, or without it.
Join ==
    /\ rpc = "join"
    /\ joined' = (mpc = "ended") /\ rpc' = "close"
    /\ UNCHANGED <<kernel, monitor, exited, fdOpen, frozenSeen, verdict>>

CloseListener ==
    /\ rpc = "close"
    /\ fdOpen' = FALSE /\ rpc' = "flag"
    /\ UNCHANGED <<kernel, monitor, exited, joined, frozenSeen, verdict>>

ReadFlag ==
    /\ rpc = "flag"
    /\ frozenSeen' = (freezing /\ cgUp) /\ rpc' = "verdict"
    /\ UNCHANGED <<kernel, monitor, exited, joined, fdOpen, verdict>>

\* Mutant of GiveVerdict: the monitor's state is taken for the verdict.
GiveState ==
    /\ rpc = "verdict"
    /\ verdict' = IF frozenSeen THEN "contained" ELSE state
    /\ rpc' = "last"
    /\ UNCHANGED <<kernel, monitor, exited, joined, fdOpen, frozenSeen>>

\* Mutant of GiveVerdict: a payload that had to be killed counts as contained.
GiveTimeoutVerdict ==
    /\ rpc = "verdict"
    /\ verdict' = IF frozenSeen \/ violations > 0 \/ ~exited THEN "contained" ELSE "clean"
    /\ rpc' = "last"
    /\ UNCHANGED <<kernel, monitor, exited, joined, fdOpen, frozenSeen>>

GiveVerdict ==
    /\ rpc = "verdict"
    /\ verdict' = IF frozenSeen \/ violations > 0 THEN "contained" ELSE "clean"
    /\ rpc' = "last"
    /\ UNCHANGED <<kernel, monitor, exited, joined, fdOpen, frozenSeen>>

\* Mutant of LastReap: teardown thaws before it kills, whatever the kernel.
ThawFirst ==
    /\ rpc = "last"
    /\ rpc' = "thaw"
    /\ UNCHANGED <<kernel, monitor, exited, joined, fdOpen, frozenSeen, verdict>>

\* The finally block: one more waitpid that does not block, ...
LastReap ==
    /\ rpc = "last"
    /\ outer' = IF outer = "zombie" THEN "reaped" ELSE outer
    /\ rpc' = IF KillAtomic THEN "destroyKill" ELSE "thaw"
    /\ UNCHANGED <<task, call, note, queued, stale, freezes, issued, freezing, cgUp, performed,
                   monitor, exited, joined, fdOpen, frozenSeen, verdict>>

\* ... then Cgroup.destroy: without cgroup.kill it has to thaw first.
Thaw ==
    /\ rpc = "thaw"
    /\ freezing' = FALSE /\ rpc' = "destroyKill"
    /\ UNCHANGED <<task, call, note, queued, stale, freezes, issued, cgUp, outer, performed,
                   monitor, exited, joined, fdOpen, frozenSeen, verdict>>

\* Mutant of DestroyKill: a frozen sandbox is taken for a dead one.
DestroySkipsFrozen ==
    /\ rpc = "destroyKill"
    /\ IF frozenSeen THEN UNCHANGED <<task, call, note, queued, stale, outer>> ELSE KillCgroup
    /\ rpc' = "drain"
    /\ UNCHANGED <<freezes, issued, freezing, cgUp, performed,
                   monitor, exited, joined, fdOpen, frozenSeen, verdict>>

DestroyKill ==
    /\ rpc = "destroyKill"
    /\ KillCgroup /\ rpc' = "drain"
    /\ UNCHANGED <<freezes, issued, freezing, cgUp, performed,
                   monitor, exited, joined, fdOpen, frozenSeen, verdict>>

\* Up to half a second for cgroup.procs to empty, then rmdir, which fails
\* with members left; either way the session is over.
Remove ==
    /\ rpc = "drain"
    /\ cgUp' = ~(\A t \in Tasks : task[t] \in {"absent", "dead"})
    /\ rpc' = "done"
    /\ UNCHANGED <<task, call, note, queued, stale, freezes, issued, freezing, outer, performed,
                   monitor, exited, joined, fdOpen, frozenSeen, verdict>>

\* web.py kill_active: session.cgroup.kill() from a request thread.
ManualKill ==
    /\ rpc # "done" /\ cgUp
    /\ KillCgroup
    /\ UNCHANGED <<freezes, issued, freezing, cgUp, performed, monitor, runner>>

RunnerStep == Start \/ Release \/ ReleaseBroken \/ SeeFrozen \/ Reap \/ WaitTimeout \/ Terminate
              \/ ReapTimeout \/ Stop \/ Join \/ CloseListener \/ ReadFlag
              \/ GiveVerdict \/ LastReap \/ Thaw \/ DestroyKill \/ Remove

KernelStep(t) == Orphaned(t) \/ Return(t) \/ Caught(t) \/ Thawed(t) \/ Die(t)
Payload(t)    == Notify(t) \/ Interrupt(t) \/ Exit(t)

Next ==
    \/ MonitorStep \/ RunnerStep \/ ManualKill \/ Zap \/ OuterExit
    \/ \E t \in Tasks : KernelStep(t) \/ Payload(t)

\* Threads of the supervisor and the kernel make progress; the payload and the
\* person at the dashboard owe nothing.
Fairness ==
    /\ WF_vars(MonitorStep) /\ WF_vars(RunnerStep)
    /\ WF_vars(Zap) /\ WF_vars(OuterExit)
    /\ \A t \in Tasks : WF_vars(KernelStep(t))

Spec == Init /\ [][Next]_vars
FairSpec == Spec /\ Fairness

-----------------------------------------------------------------------------
(* Properties.                                                              *)

\* Every variable has its type: of the states, the verdicts and the places that
\* the code names there are no others.
TypeOK ==
    /\ freezes \in BOOLEAN
    /\ task \in [Tasks -> {"absent", "held", "user", "parked", "returning",
                           "frozen", "dying", "dead"}]
    /\ call \in [Tasks -> Calls \cup {"none"}]
    /\ note \in [Tasks -> Nat]
    /\ queued \subseteq Tasks /\ stale \in BOOLEAN /\ issued \in Nat
    /\ freezing \in BOOLEAN /\ cgUp \in BOOLEAN
    /\ outer \in {"alive", "dying", "zombie", "reaped"}
    /\ performed \subseteq Calls
    /\ mpc \in {"unborn", "boot", "top", "recv", "judge", "inject", "allow", "deny",
                "refuse", "freeze", "report", "reportFrozen", "announce", "halt", "ended"}
    /\ cur \in [task : Tasks, id : Nat, call : Calls \cup {"none"}]
    /\ state \in {"starting", "running", "frozen", "exited"}
    /\ stopFlag \in BOOLEAN /\ violations \in Nat /\ first \in BOOLEAN
    /\ rpc \in {"start", "release", "wait", "kill", "reap", "stop", "join", "close", "flag",
                "verdict", "last", "thaw", "destroyKill", "drain", "done"}
    /\ exited \in BOOLEAN /\ joined \in BOOLEAN /\ fdOpen \in BOOLEAN
    /\ frozenSeen \in BOOLEAN /\ verdict \in {"none", "clean", "contained"}

\* The kernel carries out only calls the policy vetted: not one that was judged
\* a violation, nor one whose judgement raised, whatever signals, kills, late
\* answers and the closing of the listener do to its notification
\* (monitor.py _handle, seccomp.py _respond).
OnlyVettedPerformed == performed \subseteq Vetted

\* A verdict given after the monitor was joined agrees with the monitor's own
\* record, then and for good: contained exactly if a violation was counted, and
\* then the first violation is there to be shown (runner.py:108-129).
VerdictMatchesRecord ==
    verdict # "none" /\ joined =>
        /\ (verdict = "contained" <=> violations > 0)
        /\ (violations > 0 <=> first)

\* A session never reports containment without a counted violation, joined or
\* not, frozen or killed (runner.py:112-118).
ContainedHasCause == verdict = "contained" => violations > 0

\* With cgroup.kill, nothing of the payload can run once run() has returned,
\* however it was left (cgroup.py destroy, runner.py:145-154).
NothingLeftRunning ==
    rpc = "done" /\ KillAtomic => \A t \in Tasks : ~Alive(t)

\* A monitor that has frozen the sandbox never answers again: from then on no
\* call is carried out, and no answer resumes a parked task (monitor.py:280-287).
SilentAfterFreeze ==
    [][state = "frozen" => performed' = performed /\ mpc' \in {"halt", "top", "ended"}]_vars

\* The session always ends, whatever the payload does or refuses to do
\* (runner.py:100-110: both waits and the join are bounded).
SessionEnds == <>(rpc = "done")

\* Every task of the payload is gone for good in the end, on kernels with and
\* without cgroup.kill.
EverythingDies == <>[](\A t \in Tasks : task[t] \in {"absent", "dead"})

\* The promise of Quarantine, kept by the freezer, the monitor and teardown.
Place(t) ==
    CASE task[t] = "absent"                            -> "absent"
      [] task[t] = "user"                              -> "free"
      [] task[t] \in {"held", "parked", "returning", "frozen"} -> "held"
      [] OTHER                                         -> "gone"

Q == INSTANCE Quarantine WITH place <- [t \in Tasks |-> Place(t)], sealed <- freezing
KeepsQuarantine == Q!Spec

=============================================================================
