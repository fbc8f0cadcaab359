------------------------------ MODULE Handshake ------------------------------
(***************************************************************************)
(* launch() and release() of sandbox.py with the start of Session.run: how  *)
(* the supervisor, the intermediate child and the sandbox's init process    *)
(* meet over three pipes so that the payload's first system call already    *)
(* has a monitor, and how all of them part when any step fails.             *)
(*                                                                          *)
(* Processes hold pipe ends; a reader sees end-of-file when a pipe is empty *)
(* and nobody holds its write end, a writer EPIPE when nobody holds its read *)
(* end.  A death closes everything the process held.                        *)
(*                                                                          *)
(* The dashboard can launch two sessions from two threads.  The fork of the *)
(* other one copies every end that the supervisor holds at that moment into *)
(* the other session's intermediate child, which never executes anything    *)
(* and keeps them until it ends.                                            *)
(***************************************************************************)
EXTENDS Naturals, FiniteSets

CONSTANTS
    SetupMayFail,   \* a mount, unshare, fork, exec... of the children may fail
    LayoutMayDiffer, \* Listener() may find a kernel with other structure sizes
    SupMayCrash,     \* the supervisor may be killed outright
    StrangerMayFork  \* another session may be launched meanwhile

ASSUME HandshakeAssumption ==
    /\ SetupMayFail \in BOOLEAN /\ LayoutMayDiffer \in BOOLEAN
    /\ SupMayCrash \in BOOLEAN /\ StrangerMayFork \in BOOLEAN

VARIABLES
    sup, mid, inner,  \* where the three processes are
    writers, readers, \* who holds each pipe's ends
    full,             \* the pipes with an unread message
    members,          \* processes in the sandbox's cgroup
    cgUp,             \* the cgroup directory exists
    listener,         \* who holds the seccomp listener
    filtered,         \* init has installed the filter
    relayed, ready,   \* what the supervisor has read: init's pid, "R"
    monitored,        \* the monitor thread has been started
    slow,             \* in this behaviour _read_exact's ten seconds may pass
    stranger          \* the other session's intermediate child

heard == <<relayed, ready, monitored, slow, stranger>>
vars == <<sup, mid, inner, writers, readers, full, members, cgUp, listener, filtered,
          heard>>

Procs == {"sup", "mid", "inner", "stranger"}
Pipes == {"pid", "ready", "go"}
Ended == {"unborn", "dead"}

\* launch() has opened the pipes and forked: both processes hold every end.
Init ==
    /\ sup = "close" /\ mid = "close" /\ inner = "unborn"
    /\ writers = [p \in Pipes |-> {"sup", "mid"}]
    /\ readers = [p \in Pipes |-> {"sup", "mid"}]
    /\ full = {} /\ members = {} /\ cgUp = TRUE
    /\ listener = {} /\ filtered = FALSE
    /\ relayed = FALSE /\ ready = FALSE /\ monitored = FALSE
    /\ slow \in BOOLEAN
    /\ stranger = "unborn"

Close(x, ws, rs) ==
    /\ writers' = [p \in Pipes |-> IF p \in ws THEN writers[p] \ {x} ELSE writers[p]]
    /\ readers' = [p \in Pipes |-> IF p \in rs THEN readers[p] \ {x} ELSE readers[p]]

\* The processes of X are gone, with all they held.
Bury(X) ==
    /\ writers' = [p \in Pipes |-> writers[p] \ X]
    /\ readers' = [p \in Pipes |-> readers[p] \ X]
    /\ listener' = listener \ X
    /\ members' = members \ X

-----------------------------------------------------------------------------
(* The intermediate child.                                                  *)

\* Mutant of MidClose: the supervisor's end of the go pipe stays open.
MidCloseKeeps ==
    /\ mid = "close" /\ mid' = "join"
    /\ Close("mid", {}, {"pid", "ready"})
    /\ UNCHANGED <<sup, inner, full, members, cgUp, listener, filtered, heard>>

MidClose ==
    /\ mid = "close" /\ mid' = "join"
    /\ Close("mid", {"go"}, {"pid", "ready"})
    /\ UNCHANGED <<sup, inner, full, members, cgUp, listener, filtered, heard>>

\* Mutant of MidJoin: the process is put in the cgroup before it has forked.
MidJoinsParent ==
    /\ mid = "join" /\ cgUp
    /\ mid' = "fork" /\ members' = members \cup {"mid", "sup"}
    /\ UNCHANGED <<sup, inner, writers, readers, full, cgUp, listener, filtered, heard>>

\* cgroup.add_pid: raises if the cgroup is gone already.
MidJoin ==
    /\ mid = "join" /\ cgUp
    /\ mid' = "fork" /\ members' = members \cup {"mid"}
    /\ UNCHANGED <<sup, inner, writers, readers, full, cgUp, listener, filtered, heard>>

\* init inherits the pipe ends and the cgroup.
MidFork ==
    /\ mid = "fork"
    /\ mid' = "relay" /\ inner' = "setup"
    /\ writers' = [p \in Pipes |-> IF "mid" \in writers[p] THEN writers[p] \cup {"inner"} ELSE writers[p]]
    /\ readers' = [p \in Pipes |-> IF "mid" \in readers[p] THEN readers[p] \cup {"inner"} ELSE readers[p]]
    /\ members' = IF "mid" \in members THEN members \cup {"inner"} ELSE members
    /\ UNCHANGED <<sup, full, cgUp, listener, filtered, heard>>

MidRelay ==
    /\ mid = "relay" /\ readers["pid"] # {}
    /\ mid' = "wait" /\ full' = full \cup {"pid"}
    /\ Close("mid", {"pid", "ready"}, {"go"})
    /\ UNCHANGED <<sup, inner, members, cgUp, listener, filtered, heard>>

\* An exception of any step (EPIPE, a vanished cgroup, unshare, fork), or the
\* end of its wait for init.
MidExit ==
    /\ \/ mid = "join" /\ (~cgUp \/ SetupMayFail)
       \/ mid = "fork" /\ SetupMayFail
       \/ mid = "relay" /\ readers["pid"] = {}
       \/ mid = "wait" /\ inner = "dead"
    /\ mid' = "dead" /\ Bury({"mid"})
    /\ UNCHANGED <<sup, inner, full, cgUp, filtered, heard>>

-----------------------------------------------------------------------------
(* The init process of the sandbox.                                         *)

\* Root file system, limits, no_new_privs, privileges; then the filter.
InnerSetup ==
    /\ inner = "setup"
    /\ inner' = "signal" /\ filtered' = TRUE
    /\ listener' = listener \cup {"inner"}
    /\ Close("inner", {"pid"}, {})
    /\ UNCHANGED <<sup, mid, full, members, cgUp, heard>>

\* Mutant of InnerSignal: "ready" is said over a socket, a notified call that
\* parks until somebody holds the listener and watches it.
InnerSignalsBySocket ==
    /\ inner = "signal" /\ monitored
    /\ inner' = "await" /\ full' = full \cup {"ready"}
    /\ Close("inner", {"ready"}, {})
    /\ UNCHANGED <<sup, mid, members, cgUp, listener, filtered, heard>>

\* write and close are not notified, so nobody has to answer them.
InnerSignal ==
    /\ inner = "signal" /\ readers["ready"] # {}
    /\ inner' = "await" /\ full' = full \cup {"ready"}
    /\ Close("inner", {"ready"}, {})
    /\ UNCHANGED <<sup, mid, members, cgUp, listener, filtered, heard>>

\* Mutant of InnerGo: init does not wait for the go byte.
InnerGoesAtOnce ==
    /\ inner = "await" /\ full' = full \ {"go"}
    /\ inner' = "exec" /\ listener' = listener \ {"inner"}
    /\ Close("inner", {}, {"go"})
    /\ UNCHANGED <<sup, mid, members, cgUp, filtered, heard>>

\* Mutant of InnerGo: the copy of the listener at the fixed slot stays open.
InnerKeepsSlot ==
    /\ inner = "await" /\ "go" \in full /\ full' = full \ {"go"}
    /\ inner' = "exec" /\ UNCHANGED listener
    /\ Close("inner", {}, {"go"})
    /\ UNCHANGED <<sup, mid, members, cgUp, filtered, heard>>

\* The go byte; then init's copies of the pipe and the listener are closed.
InnerGo ==
    /\ inner = "await" /\ "go" \in full /\ full' = full \ {"go"}
    /\ inner' = "exec" /\ listener' = listener \ {"inner"}
    /\ Close("inner", {}, {"go"})
    /\ UNCHANGED <<sup, mid, members, cgUp, filtered, heard>>

\* execve parks; the monitor allows it, and the payload begins to run.  An
\* exec that failed for another reason ends in InnerExit.
InnerExec ==
    /\ inner = "exec" /\ "sup" \in listener /\ monitored
    /\ inner' = "payload"
    /\ UNCHANGED <<sup, mid, writers, readers, full, members, cgUp, listener, filtered, heard>>

\* A failed step, EPIPE, end-of-file instead of the go byte, ENOSYS from
\* execve because nobody holds the listener.
InnerExit ==
    /\ \/ inner \in {"setup", "exec"} /\ SetupMayFail
       \/ inner = "signal" /\ readers["ready"] = {}
       \/ inner = "await" /\ "go" \notin full /\ writers["go"] = {}
       \/ inner = "exec" /\ listener = {}
    /\ inner' = "dead" /\ Bury({"inner"})
    /\ UNCHANGED <<sup, mid, full, cgUp, filtered, heard>>

PayloadExit ==
    /\ inner = "payload" /\ inner' = "dead" /\ Bury({"inner"})
    /\ UNCHANGED <<sup, mid, full, cgUp, filtered, heard>>

-----------------------------------------------------------------------------
(* The supervisor.                                                          *)

SupClose ==
    /\ sup = "close" /\ sup' = "readPid"
    /\ Close("sup", {"pid", "ready"}, {"go"})
    /\ UNCHANGED <<mid, inner, full, members, cgUp, listener, filtered, heard>>

\* _read_exact: the message, None at end-of-file, or None at the deadline.
ReadOutcome(p, got) ==
    \/ got /\ p \in full /\ full' = full \ {p}
    \/ ~got /\ p \notin full /\ (writers[p] = {} \/ slow) /\ UNCHANGED full

SupReadPid ==
    /\ sup = "readPid" /\ sup' = "readReady"
    /\ relayed' \in BOOLEAN
    /\ ReadOutcome("pid", relayed')
    /\ Close("sup", {}, {"pid"})
    /\ UNCHANGED <<mid, inner, members, cgUp, listener, filtered, ready, monitored, slow, stranger>>

SupReadReady ==
    /\ sup = "readReady"
    /\ ready' \in BOOLEAN
    /\ ReadOutcome("ready", ready')
    /\ sup' = IF relayed /\ ready' THEN "steal" ELSE "giveUp"
    /\ Close("sup", {}, {"ready"})
    /\ UNCHANGED <<mid, inner, members, cgUp, listener, filtered, relayed, monitored, slow, stranger>>

\* pidfd_getfd from init's slot; it fails if init is gone.
SupSteal ==
    /\ sup = "steal"
    /\ IF "inner" \in listener
         THEN listener' = listener \cup {"sup"} /\ sup' = "listen"
         ELSE sup' = "giveUp" /\ UNCHANGED listener
    /\ UNCHANGED <<mid, inner, writers, readers, full, members, cgUp, filtered, heard>>

\* Listener(fd): RuntimeError leaves launch() with the go pipe still open.
SupListen ==
    /\ sup = "listen"
    /\ sup' \in {"start"} \cup (IF LayoutMayDiffer THEN {"destroy"} ELSE {})
    /\ UNCHANGED <<mid, inner, writers, readers, full, members, cgUp, listener, filtered, heard>>

\* raise SandboxLaunchError, after closing the go pipe.
SupGiveUp ==
    /\ sup = "giveUp" /\ sup' = "destroy"
    /\ Close("sup", {"go"}, {})
    /\ UNCHANGED <<mid, inner, full, members, cgUp, listener, filtered, heard>>

SupStart ==
    /\ sup = "start" /\ sup' = "release"
    /\ monitored' = TRUE
    /\ UNCHANGED <<mid, inner, writers, readers, full, members, cgUp, listener, filtered, relayed, ready, slow, stranger>>

\* release(): the go byte, or EPIPE if init has died meanwhile.
SupRelease ==
    /\ sup = "release"
    /\ IF readers["go"] # {}
         THEN sup' = "running" /\ full' = full \cup {"go"}
         ELSE sup' = "destroy" /\ UNCHANGED full
    /\ Close("sup", {"go"}, {})
    /\ UNCHANGED <<mid, inner, members, cgUp, listener, filtered, heard>>

\* The session goes on until its waits end it, then tears down the cgroup.
SupFinish ==
    /\ sup = "running" /\ sup' = "destroy"
    /\ listener' = listener \ {"sup"}
    /\ UNCHANGED <<mid, inner, writers, readers, full, members, cgUp, filtered, heard>>

\* Cgroup.destroy: kill whoever is in the cgroup now ...
SupKill ==
    /\ sup = "destroy" /\ sup' = "rmdir"
    /\ Bury(members)
    /\ mid' = IF "mid" \in members THEN "dead" ELSE mid
    /\ inner' = IF "inner" \in members THEN "dead" ELSE inner
    /\ UNCHANGED <<full, cgUp, filtered, heard>>

\* ... and remove it, which fails if a process has joined since.
SupRmdir ==
    /\ sup = "rmdir" /\ sup' = "gone"
    /\ cgUp' = (members # {})
    /\ UNCHANGED <<mid, inner, writers, readers, full, members, listener, filtered, heard>>

\* SIGKILL: no finally clause runs, the kernel closes what it held.
SupCrash ==
    /\ SupMayCrash /\ sup \notin {"gone", "crashed"}
    /\ sup' = "crashed" /\ Bury({"sup"})
    /\ UNCHANGED <<mid, inner, full, cgUp, filtered, heard>>

-----------------------------------------------------------------------------
(* The other session.                                                       *)

\* fork copies what the supervisor's other thread has open: pipe ends and listener.
StrangerFork ==
    /\ StrangerMayFork /\ stranger = "unborn" /\ sup \notin {"gone", "crashed"}
    /\ stranger' = "alive"
    /\ writers' = [p \in Pipes |-> IF "sup" \in writers[p] THEN writers[p] \cup {"stranger"} ELSE writers[p]]
    /\ readers' = [p \in Pipes |-> IF "sup" \in readers[p] THEN readers[p] \cup {"stranger"} ELSE readers[p]]
    /\ listener' = IF "sup" \in listener THEN listener \cup {"stranger"} ELSE listener
    /\ UNCHANGED <<sup, mid, inner, full, members, cgUp, filtered, relayed, ready, monitored, slow>>

\* The other session is over.
StrangerExit ==
    /\ stranger = "alive" /\ stranger' = "dead" /\ Bury({"stranger"})
    /\ UNCHANGED <<sup, mid, inner, full, cgUp, filtered, relayed, ready, monitored, slow>>

Mid   == MidClose \/ MidJoin \/ MidFork \/ MidRelay \/ MidExit
Inner == InnerSetup \/ InnerSignal \/ InnerGo \/ InnerExec \/ InnerExit
Sup   == SupClose \/ SupReadPid \/ SupReadReady \/ SupSteal \/ SupListen \/ SupGiveUp
         \/ SupStart \/ SupRelease \/ SupFinish \/ SupKill \/ SupRmdir

Next == Mid \/ Inner \/ Sup \/ PayloadExit \/ SupCrash \/ StrangerFork \/ StrangerExit

\* A runnable process gets on; the payload itself may run for ever.  A session of a
\* live supervisor ends; the child that a crashed one leaves need not.
Fairness ==
    /\ WF_vars(Mid) /\ WF_vars(Inner) /\ WF_vars(Sup)
    /\ WF_vars(sup # "crashed" /\ StrangerExit)
Spec     == Init /\ [][Next]_vars
FairSpec == Spec /\ Fairness

-----------------------------------------------------------------------------
(* Properties.                                                              *)

\* Every variable has its type; the supervisor is never a member of the cgroup
\* that it freezes and kills.
TypeOK ==
    /\ sup \in {"close", "readPid", "readReady", "steal", "listen", "giveUp", "start",
                "release", "running", "destroy", "rmdir", "gone", "crashed"}
    /\ mid \in {"close", "join", "fork", "relay", "wait", "dead"}
    /\ inner \in {"unborn", "setup", "signal", "await", "exec", "payload", "dead"}
    /\ writers \in [Pipes -> SUBSET Procs] /\ readers \in [Pipes -> SUBSET Procs]
    /\ full \subseteq Pipes /\ members \subseteq {"mid", "inner"} /\ cgUp \in BOOLEAN
    /\ listener \subseteq {"sup", "inner", "stranger"} /\ filtered \in BOOLEAN
    /\ relayed \in BOOLEAN /\ ready \in BOOLEAN /\ monitored \in BOOLEAN /\ slow \in BOOLEAN
    /\ stranger \in {"unborn", "alive", "dead"}

\* "no unmonitored window at startup" (sandbox.py:239-245): init does not get to
\* the payload's execve before its filter is in and the monitor has been started,
\* and never after the supervisor gave up on it.
NoUnmonitoredWindow == inner \in {"exec", "payload"} => filtered /\ monitored /\ relayed /\ ready

\* The payload never holds a way to its own monitor: no copy of the listener, no
\* end of any pipe (sandbox.py:335-339).
PayloadHoldsNothing ==
    inner \in {"exec", "payload"} =>
        "inner" \notin listener \cup UNION {writers[p] \cup readers[p] : p \in Pipes}

\* launch() and run() always end, also when no deadline ever passes: every read
\* sees its message or, once the writers have died or closed, end-of-file, although
\* another session's child may hold the pipe open as long as that session lasts.
SupervisorEnds == <>(sup \in {"gone", "crashed"})

\* After a session, however it failed, both children are gone, also when the
\* kill came before they had joined the cgroup.  When nobody is left to kill
\* them, they still go, end-of-file by end-of-file, up to a payload that runs and
\* to the ends that another orphan of the same supervisor keeps open.
Abandoned   == sup = "crashed" /\ (inner = "payload" \/ stranger = "alive")
ChildrenEnd == <>[]({mid, inner} \subseteq Ended \/ Abandoned)

=============================================================================
