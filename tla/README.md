# Cerberus in TLA+

Cerberus runs an untrusted program in a sandbox, parks its system calls with
seccomp user notifications, judges each one, and freezes the whole sandbox at the
first violation. These modules model what is hard to get right in that: the order
in which four parties (the payload's tasks, the kernel, the monitor thread and the
session thread) act on the same notifications, the launch that must leave no
unmonitored moment, the bus that must never hold up the monitor, the dashboard that
runs sessions from request threads and broadcasts to its clients, the native window that
hears of a session through a pipe or from a VM, the VMs that share one cache, and the
rules and the filter themselves.

Line numbers refer to `src/`; `PROJECT.json` maps every definition to its lines.

## Inventory

| Component | State it keeps | Operations | Hard behaviour | What makes it correct |
|---|---|---|---|---|
| Monitor (`monitor.py`) | state, stop flag, first violation, counters | loop over `receive`, judge, answer or freeze, report, stop | answers that come late, a `receive` that reports a vanished caller, freeze that fails | only vetted calls are performed; the record agrees with the verdict; silence after a freeze |
| Session (`runner.py`) | result, the cgroup and monitor it owns | create, launch, start, release, wait, kill, join, close, verdict, destroy | deadlines, a join that gives up, a kill from another thread | always ends; never invents containment; leaves nothing running |
| Cgroup (`cgroup.py`) | freeze flag, members | freeze, thaw, kill, destroy, add_pid | freezing is asynchronous; no `cgroup.kill` on old kernels | what is held stays held until it is dead |
| Listener (`seccomp.py`) | the notification descriptor | receive, id_valid, allow, deny, inject, close | ids withdrawn by signals and deaths | an answer reaches the call it was judged for, or nothing |
| Filter (`seccomp.py`, `policy.py`) | the BPF program | build, install | relative jumps, overlapping classes | every number is decided by its class, in order |
| Launch (`sandbox.py`) | three processes, three pipes, the listener | launch, release | any step of any process fails, deadlines, a killed supervisor | no unmonitored window; everybody ends |
| Policy (`policy.py`) | the profile | judge and its handlers | raw against resolved names, one call resting on an earlier one, arguments that are unreadable or change after the judgement | profiles nest; sensitive targets do not pass where a handler looks; nothing leaves ungranted while the judged address is the one taken |
| Event bus (`events.py`) | history, one bounded queue per reader, drop counter | make, publish, subscribe | several publishers, one of them abandoned by a join, a full queue, a reader that stops | nothing lost unaccounted for; order per thread; never waits |
| Dashboard, runs (`web.py`) | running flag, active session, history, feed, VM phase | upload, sample, run, kill, VM run | request threads that overlap, failures at any step | comes to rest; history and feed agree; every run ends |
| Dashboard, clients and limits (`web.py`) | clients and their lock, rate windows | upgrade, register, broadcast, remove; rate_ok, validate_upload | a slow client under the common lock, a dead one on the list | one gapless feed in one order; only a stalled client holds up others |
| WebSocket client (`wsclient.py`) | a byte stream, a decoder's buffer, a timeout | wait_up, upload, connect, iterate, close | a stream cut anywhere, frames that come with the answer, silence | what is told is what was sent; nothing stays half decoded |
| CLI (`cli.py`) | a queue and a flag | pump events until done | the flag against the last events | a drainer misses nothing that came before its last timeout |
| Privileged helper (`helper.py`) | stdin, stdout, a queue and a flag | read the script, run, pump, print the result | the payload shares stdout and stderr; authorization is refused; the flag against the last events | its lines, where they come through, are what happened |
| Disposable VM (`vm.py`) | one cache directory, a QEMU and a handle per launch | ensure_base, make_overlay, spawn_vm, stop, run, clean | processes that share files without a lock, Ctrl-C anywhere, cut downloads | the cached image is whole; nothing is left behind; no disk goes under a running VM |
| Native GUI (`gui.py`) | flag, banner, pill, queue, VM handle | start a run, two kinds of worker, drain, close | threads that report out of turn, workers that end without a word, a payload on the helper's stdout | the window says what happened and comes free |
| Qt GUI (`gui_qt.py`) | none beyond Qt | show the dashboard | none | not modelled |
| Doctor, introspection, ISO writer, tables | none | print, serialise | none | not modelled |

Interactions. `Session.run` calls `launch`, which forks two processes and fetches
the listener out of one; it gives the listener to a `Monitor`, which runs in a
thread of its own; both emit to one `EventBus`. The two threads share the monitor's
fields and the cgroup. The dashboard's request threads call `Session.run`, their
pumps read the bus and broadcast to WebSocket clients, and `kill_active` reaches
into the running session's cgroup. The helper runs a session for the native window
and writes its events to a pipe; a VM run, of the window or of the dashboard, boots
a VM whose own dashboard is heard over a WebSocket. The policy is called by the
monitor only; the filter is installed by the sandbox's init process.

## Modules

**Containment** is the core: one session from the return of `launch()` on. The
kernel is modelled as far as the code relies on it: tasks that are in user space,
parked in a notified call, returning, frozen, dying; notifications with ids that
are never reused and that are withdrawn when their task stops waiting; a freezer
that reaches tasks one by one. The monitor's program counter `mpc` splits
`_handle` and `_respond_violation` where another thread can look in; the session's
`rpc` does the same for `run()`. The dashboard's kill button is a step at any
moment. A call is reduced to how it is judged (`plain`, `open`, `spawn`, `bad`,
`crash`), where `open` is one whose argument the monitor must read, and `spawn` is
allowed or one too many.

**Quarantine** is the abstract specification of it: tasks are absent, free, held or
gone; after sealing no held task becomes free. Containment implements it with
`sealed <- freezing` and with each task's place read off its state (`KeepsQuarantine`).

**Handshake** is the launch: supervisor, intermediate child and init, with the
holders of every pipe end, so that end-of-file and EPIPE come from who is alive and
what is open. Setup, the layout check of `Listener()` and the supervisor's life may
fail at any step, by constants. With `StrangerMayFork` the dashboard launches another
session meanwhile, from another thread: its intermediate child, the `stranger`, is
forked at any moment, inherits every end the supervisor holds just then, and keeps
them until it dies. Handshake ends where Containment begins; its `running` is all of
Containment, of which it needs only that it ends.

**EventBus** is `publish()` in its five steps, from several threads, against readers
that consume at any speed; a drainer is the printer of the command line or the
helper's and the dashboard's pump. A drainer's timeout (`TimeOut`) and its look at the
flag (`LookAtFlag`) are two steps, between which the last events, the return of
`run()` and the flag may come. `run()` joins the monitor for one second; `stray` holds
the threads it has given up on, which may emit on. History variables (`due`, `lost`,
`log`) record what was owed, so that losses can be accounted for. **Feed** is what the
bus promises whatever it loses: a channel that may drop events but neither invents,
repeats nor, for one thread, reorders them, that hands out nothing once reading has
stopped and that after the session takes events only from abandoned threads. EventBus
implements it (`ImplementsFeed`).

**Dashboard** is `run_session`, `run_sample` and `_run_vm` in the threads of several
requests, with failures where the code has or lacks a handler. A session is a step
that ends (Containment's `SessionEnds`) or raises. A run in the VM uses the VM that is
there or makes one; requests that overlap may each make one, of which one gets the port.
The relay passes on the guest's own run_start as well, also another run's, and may end
without a word. Every broadcast waits while a client is `stalled`.

**Clients** is the dashboard's other side: `broadcast()` under its lock, the handler
thread that answers the upgrade, registers the connection and parks, removal by
either way, and `WSEvents` at the other end of a byte stream that is cut anywhere.
Bytes are numbers in a small base, so that a length has the three forms it has at 126
and 65536 in the code, and a message's text is its number repeated. The answer to the
upgrade is a sequence of bytes too, and `connect()` takes as much of it, and of what
follows, as one `recv` gives: too little for a 101 raises (`Reject`), a part leaves bytes
of the answer to the decoder, more throws frames away with it. `lost[c]` records what
went: nothing, whole frames, or the boundaries. A client that lost the boundaries, by
part of a frame or by bytes of the answer left over, decodes arbitrary bytes from then
on and is not followed.

**DisposableVm** is `vm.py` on one host: an application whose worker threads call
`spawn_vm()` and share one handle, runs of the command in terminals, and "vm clean" at
any moment, over one cache directory. A file is the set of chunks it holds, a download a
loop of reads that may fail, be cut or be interrupted. A cached image counts when it is
not empty, a seed belongs to the launch that wrote it last. The window's closing is four
steps (`_on_close` reads the handle, SIGTERM, the closure that removes the files, exit).

**NativeWindow** is `gui.py` with `helper.py`, and the loop of `_worker_vm` around
`wsclient.py`: the Tk thread with its queue, flag, banner and pill, one worker per run,
the helper as a process with a stdin it waits for and a stdout that its payload shares
(text without a newline, values that are no objects, and objects, which the window takes
for the helper's own), and the VM with its dashboard's run and feed. Runs follow each
other; the worker of an earlier one may still be busy.

**Policy** is `judge()`. A path is its prefix class, whether a sensitive pattern
matches, and whether its last name is a transfer tool. String matching is not
modelled, and neither is the reading of memory. A request carries a name as given, what
it leads to from the root of the sandbox, and, for an open, what `_resolve_relative`
makes of it and where that leads: the opens join a relative name to the caller's
directory, unlink, rename and exec do not, and renameat reads its descriptor for a name.
The payload has one socket, so that a send without a destination can be held against the
connect before it. The kernel takes any host for an address that was let through, since
another thread may rewrite it after the judgement, and `sendmmsg`, which is allowed and
not notified, takes any at any moment; `unjudged` records that one was taken which no
judgement saw. Other calls that the policy does not notify are outside.

**Filter** is `filter_sets` and `build_program`, with a small interpreter for the
instructions they emit. Numbers are model values, the classes arbitrary overlapping
lists, and a program longer than `MaxProgram` (4096 in the code) is never installed,
because `build_program` raises. Its definitions are named `Filter...`, so that one
module can prove about it and about Policy.

**ContainmentProofs, HandshakeProofs, EventBusProofs, PolicyProofs, DashboardProofs,
DisposableVmProofs, NativeWindowProofs, ClientsProofs** hold the theorems about the
modules they are named for, PolicyProofs those about Filter as well, see below.

Mutants: a definition preceded by "Mutant of X" is a plausible slip in X. It is
used in no specification; with it in X's place, the property it goes with
(`PROJECT.json`) is violated.

## What the runs check

| Run | Bounds | What it shows |
|---|---|---|
| `containment_safety` | 2 tasks, 3 notified calls, every kind, both policies | type, only vetted calls performed, the verdict is the record, containment has a cause, nothing left running, silence after a freeze, and the refinement of Quarantine |
| `containment_old_kernel` | 2 tasks, 2 calls, no `cgroup.kill`, freezing may fail, no exit report | the session ends, every task dies in the end |
| `handshake` | one launch, all failures, the fork of another launch | no unmonitored window, nothing inherited, everybody ends |
| `event_bus` | 2 publishers, one of which may be abandoned, a queue of 1, 3 events | conservation, no waiting, draining, and the refinement of Feed |
| `event_bus_violations` (violated) | a queue of 1, 3 events | a violation event is evicted |
| `dashboard` | 3 requests: one local, one in the VM, one either; history of 2, 1 relayed run_start | rest, history and feed, brackets, every run ends |
| `clients` | 2 threads, 2 connections of which one may stall, 2 messages of 1 or 3 bytes, an answer of 3 of which 2 are accepted, buffers of 6 | one gapless feed, nothing left half decoded, broadcasts end, connections that are gone are forgotten |
| `disposable_vm` | 2 worker threads, 1 terminal, an image of 2 chunks; symmetric in the workers | a whole base image, nothing left behind, disks outlive their VMs |
| `disposable_vm_close` (violated) | 2 worker threads, an image of 1 chunk | closing the window leaves the disk of a VM that has ended |
| `native_window` | 2 runs, each local or in the VM | the window says what happened, and comes free |
| `filter` | 3 numbers, classes of up to 2 | the program decides as meant, nothing unseen |
| `policy` | every profile, path class, name, address and call | nesting, resolved names, sensitive targets, egress |

Why the bounds are enough. A race on a notification needs a task that waits and one event
that withdraws it; a race on the freezer needs a task that is parked and one that runs; two
tasks give every pair, and three calls allow one before, during and after a violation. One
other launch gives every end that can be inherited; a second would hold the same ones. The
bus's slips need one event in the queue to evict and one that races, and two threads; longer
queues are the theorems' matter. Two requests at the dashboard overlap as local runs, two as
runs in the VM, and a third comes after. Two broadcasts from two threads give the lock a
holder and a waiter, message sizes 1 and 3 take a short and the longest form of a length
(the form between is the theorems'), an answer of 3 bytes is cut before, at and after the
part that `connect()` looks for, and buffers of 6 bytes are smaller than a frame of the
longest, so that a frame is cut in its length and in its text. Two workers overlap at every
step of a launch, and the terminal adds the one that may be interrupted; two chunks make a
file empty, half or whole. With two runs the late words of the first meet the second, which
is as far as they reach. The filter's jumps are local to a pair, and two numbers in each of
three overlapping classes give every neighbourhood; 13 instructions are what three numbers
take at most. Policy enumerates all its classes; nothing in it counts. Where a theorem
states the property, the bound matters only for the run.

Deadlock is not checked where the system rightly stops: after the end of a session,
of a launch, of a program or of the bounded events, and where a payload stays parked
or a client stalls.

The two violated runs each quote a statement of the repository
(`PROJECT.json`, findings):

- an event of the bus that makes room evicts the head, whatever it is
  (`events.py:6-7`);
- a VM that ended by itself keeps its disk when the window is closed
  (`NATIVE.md:47-48`).

Disagreements met on the way, which the models follow the code in and no run states:

- `receive()` takes an ENOENT for one withdrawn notification (`seccomp.py:297`) for
  the end of the sandbox (`monitor.py:166-167`); Containment's monitor stops there too.
- an argument unreadable because its caller was interrupted counts as a violation
  (`policy.py:518`, against `README.md:175`).
- the namespace rule reads the first argument of `clone3`, `fork` and `vfork` as
  flags (`policy.py:630`, `policy.py:634`); Policy has the bits as a free choice.
- the guard for one session at a time is not atomic (`web.py:236`, against
  `README.md:140`); Dashboard's runs overlap.

Ways out that a property names, since the code has them: a guard left up by
`SystemExit` (`AtRest`); a download that was cut and passed for whole, or one
stopped when two overlapped (`BaseIsWhole`); a second Ctrl-C, "vm clean" under a running
VM, an application that closed without stopping its VM, a step between `qemu-img` and the
handle, names shared within a second (`LeavesNothing`, `DiskOutlivesVm`); events that
come between a printer's last timeout and the flag, or from a thread the session gave up
on (`DrainedMissesNothing`); a relative name given to unlink, rename or exec, what is
executed or bound, and where a rename leads (`ResolvedDecides`, `SecretsNever`); an
address that was rewritten after its judgement, or never had one (`NothingLeaves`); an
answer to the upgrade that came in part, or with part of a frame (`SameFeed`), or with
any frames (`NothingLeftBehind`); a stalled client (`BroadcastEnds`, `GoneIsForgotten`,
`EveryRunEnds`); a worker that ends without a word, a result line the payload's
output swallowed, a pump that died of a line that is no object (`WindowComesFree`); a
violation the pump had no time for, and failures, whose two messages the window may
take for two runs', and lines that the payload forged (`SaysWhatHappened`). These are
not caught: what the code does there is left to its reader.

## Fairness

The monitor and the session thread are threads of a live supervisor, and the kernel
finishes what it has begun (delivers SIGKILL, reaches tasks with the freezer, wakes
waiters), so each is weakly fair. The payload and the operator get none: a payload
may run for ever without a system call. The session ends because every wait in it
has a deadline. In Handshake the three processes are weakly fair up to the payload
itself, and deadlines are not relied on: in half of the behaviours (`slow`) they
never pass. The other session's child dies in the end as long as there is a supervisor
to end that session; once the supervisor is gone nothing does, and two orphans may hold
each other's pipes, which `Abandoned` excuses. On the bus, publishers finish
`publish()`; no reader owes anything. At the dashboard started threads go on as long as
what they broadcast is not held up: `sendall` under the common lock has no timeout
(`web.py:169-173`), so `EveryRunEnds` supposes that from some time on no client stalls.
The VM owes nothing. In Clients some thread of the server gets on whenever one can, as a
scheduler grants, not a particular one, which a lock without a queue would not; a
client that does not stall reads on. In NativeWindow the Tk thread, the workers and the
helper get on, the user answers the prompt, a session ends (Containment), and a
WebSocket silent for ten seconds raises; the VM owes nothing. DisposableVm, Policy and
Filter are checked for safety only.

## What is proved

Checked by TLAPS for every value of the constants that the modules' assumptions admit:
38 theorems (`PROJECT.json`) in eight modules, among them every property that the runs
check, but for liveness, and both refinements. None of the properties is inductive by
itself; each module's `IInv` adds what the code relies on without saying, in named
parts, and one lemma per part or per action shows that every step keeps it.

`ContainmentProofs`: `TypeCorrect`, `OnlyVettedCalls`, `VerdictIsTheRecord`,
`ContainmentHasACause`, `TeardownIsComplete`, `FreezeIsSilent`, and, assuming
`cgroup.kill`, `ImplementsQuarantine`. `Notes` (a live notification belongs to a parked
task and its id was issued), `Held` (the call being answered is the one that was judged,
if its id is still live: this is what keeps a late answer from reaching another call),
`Record` (the freezer, the state and the flag are only set after a violation was
counted), `Progress` (where the session thread is bounds what it has done), `Parked0`
(before the go byte nothing can freeze), `Final` (with `cgroup.kill` teardown thaws
nothing and spares nobody), `Silence`. `StepRefines` maps each step to one of Quarantine.

`HandshakeProofs`: `HandshakeTypes`, `StartIsMonitored`, `PayloadIsBare`. `MidHolds` and
`InnerHolds` say which ends a child still holds, from where it is in its code: the
intermediate child closes its copies before it forks, so that init never has them.
`Heard` chains the messages: no go byte without a monitor, no monitor without both
messages.

`EventBusProofs`: `BusTypes`, `BusConserves`, `DrainingIsComplete`, `HistoryIsExact`,
`BusImplementsFeed`. `Ordered` (what a reader has had and what is in its queue are each
in every publisher's order, the queue the newer) is kept by a put because of `Behind`: an
event owed to a reader is newer than all it has had from that thread, also while another
thread evicts from the queue. `Aimed` says that a retry is for a queue still to be served,
`Kept` is Conservation with what was read and what is queued apart, `Quiet` that after the
session only strays publish, and that a drainer whose timeout came after it had an empty
queue then but for what they emit. Reading the head of a queue is Feed's `Give`.

`PolicyProofs`: `PolicyTypes`, `NothingUngrantedLeaves`, `ProfilesAreNested`,
`TheTargetDecides`, `SecretsAreKept`. `JudgeNests` is about the rules alone: of two
policies of which one grants all that the other does, it never judges the harsher,
whatever their prefixes. The invariant adds that the verdict is that of the profile, that
no socket is made which the profile forbids, and that, while nothing unjudged was taken,
the socket's peer was granted.

About Filter: `FilterTypes` (no jump leaves the program), `FilterDecides`,
`FilterNotifies`, for classes of any length. `ProgramLayout` says what `build_program`
puts where: after six fixed instructions two for every number, the denied, then the
noted, then the allowed, each number in the first class that has it, and the default
last. `Static` is what no step of the interpreter changes, and `Reached` says for every
place in the program what the tests before it have found out: past the k-th pair, that
none of the first k numbers is the call's.

`DashboardProofs`: `DashboardTypes`, `NothingIsLeft`, `TheHistoryIsTheFeed`,
`TheFeedIsBracketed`. `Guarded` (a guard that is up has a run that will take it down),
`InFlight` (the active session is one whose thread will still take it out, however many
have written over each other), `FeedSoFar` and `HistorySoFar` (where a run is tells what its
part of the feed and the history have of it; a run that relays has only starts).

`DisposableVmProofs`: `VmTypes`, `TheBaseIsWhole`, `NothingIsLeftBehind`,
`TheDiskOutlivesTheVm`. `Files` and `Images` follow a file through its names: until a
download is spoilt, the file that will be moved is `Good`, that is whole or still open in
a download that has written every chunk so far; `Names`, `Machines` and `Leavings` say
whose overlay is whose, and what a closing has done by when.

`NativeWindowProofs`: `WindowTypes`, `TheWindowSaysWhatHappened`. `Places` ties the helper,
the WebSocket and the guest to where the worker is; `Story` says that every run but the
last is `Past`, that a free window has heard all (`Free`), and that for a busy one the
violation is shown, in the queue, in the feed, on the bus or lost, in exactly one of these
ways, and that nothing follows a verdict (`Busy`). So no line of an earlier run can reach
the window during a later one, as long as nothing is `amiss`: after a failure with its two
messages, or a forged verdict, one can.

`ClientsProofs`: `FrameIsReadAsWritten`, `ClientsTypes`, `EveryClientSeesTheSameFeed`,
`NothingIsLeftBehindUndecoded`, `NobodyIsToldTwice`. First the frame format, for any base,
any two widths of a length and any threshold that the assumption admits (the code's are
256, 2 and 8 bytes, 126): the digits of a number that fits give the number back, so what
`_ws_frame` writes `_decode_frame` reads, and neither sooner nor later than the frame is
whole, wherever the bytes are cut. Then the invariant: `Exclusive` (who holds the lock
sends the last message of the log), `OnTheList` (a connection that is parked and alive is
on the list, once), `Outside` (what a connection holds before it is registered and after
it is gone), and `Streams`, the heart of it: what a living client is owed is what it has
thrown away, been told and not yet been told, and the bytes in its decoder, on their way
and in the hands of the thread that is sending are exactly the frames of the last part. A
broadcast that starts adds a message to what is owed and its frame to what is in hand;
every other step moves bytes along, and `Decode` takes one message off both. `Once` adds
that no message takes the lock twice.

Filter and Clients compute over lists of any length. Their functions are recursive over
0..Len(s); `Recursion` shows that such a function exists, and `UpTo` is the induction, from
the least counterexample (`WFMin` on the naturals), about a set of indices. Both modules
prove these two first.

Only model-checked: liveness (`SessionEnds`, `EverythingDies`, `SupervisorEnds`,
`ChildrenEnd`, `PublishTerminates`, `EveryRunEnds`, `BroadcastEnds`, `GoneIsForgotten`,
`WindowComesFree`), since the provers know neither fairness nor ENABLED. No module
declares a RECURSIVE operator.

## Not modelled

- The dashboard's rate limit and upload check (one decision under one lock, or on one
  request), request routing, the page, the system report.
- The Qt window, the doctor, introspection, the ISO writer, packaging, sample payloads.
- Mounts, limits, credentials, resource caps of a sandbox (one step that may fail);
  controller delegation and resource readings of a cgroup.
- String matching of paths, memory layouts, timing (latencies, percentiles, exact
  deadlines, the window of the fork-burst count).
- The seed's contents, QEMU's arguments, widgets, metrics, the VM's badge, phase and
  console at the window and at the dashboard;
  WebSocket frames that are masked, which the server does not send.

Simplifications that do not show in the properties: the handler's replay sends nothing,
because nobody publishes to the bus that it reads (`web.py:540-549`); a SIGKILL that
`stop()` does not wait for is instantaneous; `wait_up` polls for 240 seconds also when
QEMU has died; a dry run's `seed-dryrun.iso` is not counted as left behind.

One that does: a permitted call other than a read-open is re-read by the kernel after
CONTINUE (`HARDENING.md:43-45`). Policy models it for addresses; for paths, and in
Containment, the call is taken as judged, so that what is proved of them is about calls
as they were judged.

## Plan

What is left, in this order:

1. `Windows`: the burst count of the monitor and the rate limit of the dashboard as one
   sliding-window component, with a proof that a window never admits more.
2. A composition of two Handshakes in one supervisor, in place of the `stranger`, so that
   each inherits from the other.
3. The controller delegation of `cgroup.py` against a second session that does the same.
