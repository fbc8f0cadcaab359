---------------------------- MODULE DisposableVm ----------------------------
(***************************************************************************)
(* vm.py on one host: disposable VMs made from one cached base image.  Two  *)
(* kinds of process make them: an application, the native window or the     *)
(* dashboard, whose worker threads call spawn_vm() and share one VMHandle,  *)
(* and "cerberus.vm run" in a terminal.  They share the cache directory: the *)
(* base image and its download, the overlays and the seeds; and "vm clean"  *)
(* may be typed at any moment.                                              *)
(***************************************************************************)
EXTENDS Naturals, TLC

CONSTANTS
    Workers,   \* threads of the application that want a VM
    Terminals, \* runs of the command
    Chunks,    \* reads that a whole image takes
    None       \* no file, no handle

ASSUME VmAssumption ==
    /\ Workers \cap Terminals = {} /\ Chunks \in Nat \ {0}
    /\ {None, "old"} \cap (Workers \cup Terminals) = {} /\ None # "old"

VARIABLES
    pc,       \* where each launch is
    fd, got,  \* the file a download writes to, and the chunks it has read
    content,  \* the chunks each file has
    part, base, \* the files named base-*.part and base-*.img
    mishap,   \* what has happened to downloads: "none", "overlap", "spoilt"
    name,     \* the overlay's name of each launch (that of the launch it stems from)
    overlays, \* the overlays on disk, by name
    seeds,    \* the seeds on disk: the launches that wrote them last
    qemu,     \* each launch's VM: "none", "up", "ended" by itself, "stopped"
    app,      \* the application: "open", "stopping", "sweeping", "leaving", "closed"
    handle,   \* its VMHandle
    held      \* the one its closing stops

download == <<fd, got, content, part, base, mishap>>
machines == <<name, overlays, seeds, qemu>>
owner    == <<app, handle, held>>
vars     == <<pc, download, machines, owner>>

Symmetry == Permutations(Workers)

Procs == Workers \cup Terminals
Old   == "old"   \* the image of an earlier download
Whole == 1..Chunks
\* The launches whose seed has the same name: seed-<pid>-<port>.iso, seed-<pid>.iso.
Sharing(p) == IF p \in Workers THEN Workers ELSE {p}

Init ==
    /\ pc = [p \in Procs |-> "idle"]
    /\ fd = [p \in Procs |-> None] /\ got = [p \in Procs |-> 0]
    /\ content = [f \in Procs \cup {Old} |-> IF f = Old THEN Whole ELSE {}]
    /\ part = None /\ base \in {None, Old} /\ mishap = "none"
    /\ name = [p \in Procs |-> p]
    /\ overlays = {} /\ seeds = {}
    /\ qemu = [p \in Procs |-> "none"]
    /\ app = "open" /\ handle = None /\ held = None

Goto(p, there) == pc' = [pc EXCEPT ![p] = there]

\* A worker whose handle is running needs no VM.  Otherwise QEMU may be missing, an
\* image that is not empty may be there, or it is asked for.
Start(p) ==
    /\ pc[p] = "idle" /\ (p \in Workers => app = "open")
    /\ IF p \in Workers /\ handle # None /\ qemu[handle] = "up"
         THEN Goto(p, "over")
         ELSE Goto(p, "failed") \/ Goto(p, IF base # None /\ content[base] # {} THEN "overlay" ELSE "connect")
    /\ UNCHANGED <<download, machines, owner>>

-----------------------------------------------------------------------------
(* ensure_base.                                                             *)

CloseFile(p)  == fd' = [fd EXCEPT ![p] = None] /\ got' = [got EXCEPT ![p] = 0]
\* A download that stops before its end harms another one only.
Stopped(P)    == mishap' = IF mishap = "overlap" /\ \E p \in P : pc[p] = "fetch" THEN "spoilt" ELSE mishap

\* Mutant of Connect: the download goes straight to the name that others look for.
ConnectInPlace(p) ==
    /\ pc[p] = "connect" /\ Goto(p, "fetch")
    /\ part' = p /\ base' = p
    /\ fd' = [fd EXCEPT ![p] = p] /\ content' = [content EXCEPT ![p] = {}]
    /\ UNCHANGED <<got, mishap, machines, owner>>

\* urlopen, then open(tmp, "wb"): an existing file of that name is emptied.
Connect(p) ==
    /\ pc[p] = "connect" /\ Goto(p, "fetch")
    /\ LET f == IF part = None THEN p ELSE part IN
        /\ part' = f /\ fd' = [fd EXCEPT ![p] = f] /\ content' = [content EXCEPT ![f] = {}]
    /\ mishap' = IF mishap = "none" /\ \E q \in Procs : pc[q] \in {"fetch", "rename"}
                   THEN "overlap" ELSE mishap
    /\ UNCHANGED <<got, base, machines, owner>>

\* One read and its write, at the offset this download has come to.
Fetch(p) ==
    /\ pc[p] = "fetch" /\ got[p] < Chunks
    /\ got' = [got EXCEPT ![p] = @ + 1]
    /\ content' = [content EXCEPT ![fd[p]] = @ \cup {got[p] + 1}]
    /\ UNCHANGED <<pc, fd, part, base, mishap, machines, owner>>

\* An empty read ends the loop: the end of the image, or of the connection.
FetchEnds(p) ==
    /\ pc[p] = "fetch" /\ Goto(p, "rename") /\ CloseFile(p)
    /\ mishap' = IF got[p] < Chunks THEN "spoilt" ELSE mishap
    /\ UNCHANGED <<content, part, base, machines, owner>>

\* tmp.rename(dest) moves whatever has that name now; if nothing has, die().
Rename(p) ==
    /\ pc[p] = "rename"
    /\ IF part = None THEN Goto(p, "failed") /\ UNCHANGED <<part, base>>
                      ELSE Goto(p, "overlay") /\ base' = part /\ part' = None
    /\ UNCHANGED <<fd, got, content, mishap, machines, owner>>

\* The handler removes whatever has the temporary name, then die().
FetchFails(p) ==
    /\ pc[p] \in {"connect", "fetch"} /\ Goto(p, "failed")
    /\ part' = None /\ CloseFile(p) /\ Stopped({p})
    /\ UNCHANGED <<content, base, machines, owner>>

-----------------------------------------------------------------------------
(* The overlay, the seed and QEMU, by either caller.                        *)

\* run-<pid>-<second>.qcow2: two threads of one process may get the same name in
\* the same second.  qemu-img fails without its base or on an overlay in use, and
\* writing the seed may fail.
Prepare(p) ==
    /\ pc[p] = "overlay"
    /\ \/ \E n \in {p} \cup {name[q] : q \in {w \in Workers : p \in Workers /\ pc[w] = "launch"}} :
            /\ base # None /\ \A q \in Procs : ~(qemu[q] = "up" /\ name[q] = n)
            /\ name' = [name EXCEPT ![p] = n] /\ overlays' = overlays \cup {n}
            /\ \/ Goto(p, "launch") /\ seeds' = (seeds \ Sharing(p)) \cup {p}
               \/ Goto(p, "failed") /\ UNCHANGED seeds
       \/ Goto(p, "failed") /\ UNCHANGED <<name, overlays, seeds>>
    /\ UNCHANGED <<download, qemu, owner>>

\* QEMU ends at once if a file it was given is no longer there.
QemuStarts(p) ==
    qemu' = [qemu EXCEPT ![p] = IF name[p] \in overlays /\ seeds \cap Sharing(p) # {} /\ base # None
                                  THEN "up" ELSE "ended"]

\* Popen in spawn_vm: the VM starts, or an exception is the worker's.
Spawn(p) ==
    /\ p \in Workers /\ pc[p] = "launch"
    /\ \/ Goto(p, "bind") /\ QemuStarts(p)
       \/ Goto(p, "failed") /\ UNCHANGED qemu
    /\ UNCHANGED <<download, name, overlays, seeds, owner>>

\* self._vm = spawn_vm(...): an earlier handle is dropped as it is.
Bind(p) ==
    /\ pc[p] = "bind" /\ Goto(p, "over") /\ handle' = p
    /\ UNCHANGED <<download, machines, app, held>>

\* The end of a QEMU process for a reason of its own.
QemuEnds(p) ==
    /\ qemu[p] = "up" /\ qemu' = [qemu EXCEPT ![p] = "ended"]
    /\ UNCHANGED <<pc, download, name, overlays, seeds, owner>>

Remove(p) == overlays' = overlays \ {name[p]} /\ seeds' = seeds \ Sharing(p)

-----------------------------------------------------------------------------
(* The end of the application.                                              *)

\* _on_close reads the handle once, and stops that VM if it is running.
CloseWindow ==
    /\ app = "open" /\ held' = handle
    /\ app' = IF handle # None /\ qemu[handle] = "up" THEN "stopping" ELSE "leaving"
    /\ UNCHANGED <<pc, download, machines, handle>>

\* Mutant of Terminate: the files go first.
SweepThenTerminate ==
    /\ app = "stopping" /\ app' = "sweeping" /\ Remove(held)
    /\ UNCHANGED <<pc, download, name, qemu, handle, held>>

\* VMHandle.stop: SIGTERM, and SIGKILL when five seconds have not been enough ...
Terminate ==
    /\ app = "stopping" /\ app' = "sweeping"
    /\ qemu' = [qemu EXCEPT ![held] = "stopped"]
    /\ UNCHANGED <<pc, download, name, overlays, seeds, handle, held>>

\* ... then the closure that spawn_vm gave it.
Sweep ==
    /\ app = "sweeping" /\ app' = "leaving" /\ Remove(held)
    /\ UNCHANGED <<pc, download, name, qemu, handle, held>>

Ended == {"over", "failed", "dead", "hurried"}

\* The process ends and its daemon threads with it: after the closing of the window,
\* and for the dashboard, which stops no VM, at Ctrl-C.
Exit ==
    /\ app \in {"open", "leaving"} /\ app' = "closed"
    /\ pc' = [p \in Procs |-> IF p \in Workers /\ pc[p] \notin Ended THEN "dead" ELSE pc[p]]
    /\ Stopped(Workers)
    /\ fd' = [p \in Procs |-> IF p \in Workers THEN None ELSE fd[p]]
    /\ got' = [p \in Procs |-> IF p \in Workers THEN 0 ELSE got[p]]
    /\ UNCHANGED <<content, part, base, machines, handle, held>>

-----------------------------------------------------------------------------
(* cmd_run and cmd_clean.                                                   *)

\* Popen in the command's try, and what it prints before.
RunQemu(p) ==
    /\ p \in Terminals /\ pc[p] = "launch"
    /\ \/ Goto(p, "watch") /\ QemuStarts(p)
       \/ Goto(p, "finally") /\ UNCHANGED qemu
    /\ UNCHANGED <<download, name, overlays, seeds, owner>>

Waited(p) ==
    /\ pc[p] = "watch" /\ qemu[p] = "ended" /\ Goto(p, "finally")
    /\ UNCHANGED <<download, machines, owner>>

\* Mutant of Finally: the seed is forgotten.
FinallyOverlay(p) ==
    /\ pc[p] = "finally" /\ overlays' = overlays \ {name[p]}
    /\ Goto(p, IF qemu[p] = "up" THEN "hurried" ELSE "over")
    /\ UNCHANGED <<download, name, seeds, qemu, owner>>

Finally(p) ==
    /\ pc[p] = "finally" /\ Remove(p)
    /\ Goto(p, IF qemu[p] = "up" THEN "hurried" ELSE "over")
    /\ UNCHANGED <<download, name, qemu, owner>>

\* Ctrl-C: before the try it ends the command where it is; in it the VM is asked
\* to end; one that comes while it is waited for goes on to the finally clause; and
\* one more ends that.
Interrupt(p) ==
    /\ p \in Terminals
    /\ \/ pc[p] \in {"connect", "fetch", "rename", "overlay", "launch", "finally"} /\ Goto(p, "dead")
       \/ pc[p] = "watch" /\ Goto(p, "term")
       \/ pc[p] = "term" /\ Goto(p, "finally")
    /\ Stopped({p}) /\ CloseFile(p)
    /\ UNCHANGED <<content, part, base, machines, owner>>

\* SIGTERM was enough, or SIGKILL is.
Terminated(p) ==
    /\ pc[p] = "term" /\ Goto(p, "finally")
    /\ qemu' = [qemu EXCEPT ![p] = "stopped"]
    /\ UNCHANGED <<download, name, overlays, seeds, owner>>

\* "vm clean", with or without --images: every overlay and seed, whose ever.
Clean ==
    /\ overlays \cup seeds # {} \/ base # None
    /\ overlays' = {} /\ seeds' = {} /\ base' \in {base, None}
    /\ UNCHANGED <<pc, fd, got, content, part, mishap, name, qemu, owner>>

Launch(p) ==
    \/ Start(p) \/ Connect(p) \/ Fetch(p) \/ FetchEnds(p) \/ Rename(p) \/ FetchFails(p)
    \/ Prepare(p) \/ Spawn(p) \/ Bind(p)
    \/ RunQemu(p) \/ Waited(p) \/ Finally(p) \/ Interrupt(p) \/ Terminated(p)

Next ==
    \/ \E p \in Procs : Launch(p) \/ QemuEnds(p)
    \/ CloseWindow \/ Terminate \/ Sweep \/ Exit \/ Clean

Spec == Init /\ [][Next]_vars

-----------------------------------------------------------------------------
(* Properties.                                                              *)

\* Every variable has its type.
TypeOK ==
    /\ pc \in [Procs -> {"idle", "connect", "fetch", "rename", "overlay", "launch", "bind",
                         "watch", "term", "finally"} \cup Ended]
    /\ fd \in [Procs -> Procs \cup {None}] /\ got \in [Procs -> 0..Chunks]
    /\ content \in [Procs \cup {Old} -> SUBSET Whole]
    /\ {part, base} \subseteq Procs \cup {Old, None}
    /\ mishap \in {"none", "overlap", "spoilt"}
    /\ name \in [Procs -> Procs] /\ overlays \subseteq Procs /\ seeds \subseteq Procs
    /\ qemu \in [Procs -> {"none", "up", "ended", "stopped"}]
    /\ app \in {"open", "stopping", "sweeping", "leaving", "closed"}
    /\ {handle, held} \subseteq Workers \cup {None}

\* The cached image, once nobody is writing to it, is whole, however downloads
\* overlapped, moved or removed each other's temporary file, or were stopped:
\* unless a connection that was cut passed for the end of the image (vm.py:297-298),
\* or a download was stopped half-way when two had overlapped.
BaseIsWhole ==
    base # None /\ mishap # "spoilt" /\ (\A p \in Procs : fd[p] # base) => content[base] = Whole

\* What a launch that is over leaves: neither its overlay nor a seed that it wrote
\* last nor a running QEMU ("the run leaves nothing behind", vm.py:475), whatever
\* failed, was interrupted or closed, but for these: it ended between qemu-img and
\* the handle or the try; a further Ctrl-C while the VM is asked to end or the files
\* are removed; an application that closed without stopping it, because it is the
\* dashboard, another launch had replaced the handle or the VM had ended by itself.
Excused(p) == pc[p] \in {"failed", "dead", "hurried"} \/ (p \in Workers /\ (p # held \/ qemu[p] = "ended"))
Gone(p)    == pc[p] \in Ended /\ (p \in Workers => app = "closed")
LeavesNothing ==
    \A p \in Procs : Gone(p) =>
        /\ name[p] \in overlays => \E q \in Procs : name[q] = name[p] /\ Excused(q)
        /\ p \in seeds \/ qemu[p] = "up" => Excused(p)

\* No VM loses its disk while it runs, to the end of the application, to another
\* launch or to the command's own cleanup, unless to "vm clean", to a second Ctrl-C,
\* or to a thread that got the same name in the same second.
DiskOutlivesVm ==
    [][\A p \in Procs : qemu[p] = "up" /\ name[p] \in overlays =>
            \/ qemu'[p] # "up" \/ name[p] \in overlays'
            \/ Clean \/ pc[p] = "finally" \/ \E q \in Procs \ {p} : name[q] = name[p]]_vars

\* "The VM is torn down (and its disposable disk deleted) when you close the
\* window." (NATIVE.md:47-48)
TornDownOnClose == app = "closed" /\ held # None => name[held] \notin overlays

=============================================================================
