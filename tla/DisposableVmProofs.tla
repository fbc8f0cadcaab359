-------------------------- MODULE DisposableVmProofs --------------------------
(***************************************************************************)
(* Proofs about DisposableVm, for any number of worker threads, of          *)
(* terminals and of chunks.                                                 *)
(***************************************************************************)
EXTENDS DisposableVm, TLAPS

(* The inductive invariant, in parts.                                       *)

\* Where a launch has no overlay yet, and where it may be writing an image or about
\* to move one.
Before      == {"idle", "connect", "fetch", "rename", "overlay"}
Downloading == {"fetch", "rename"}

\* A launch has its own name, or that of a worker which has prepared its overlay.
Names ==
    /\ \A t \in Terminals : name[t] = t
    /\ \A w \in Workers : name[w] \in Workers
    /\ \A p \in Procs : name[p] # p => pc[p] \notin Before /\ pc[name[p]] \notin Before

\* Which machine may be what, and what the application's closing has come to.
Machines ==
    /\ \A p \in Procs : qemu[p] # "none" => pc[p] \notin Before \cup {"launch"}
    /\ \A p \in Procs : /\ pc[p] = "bind" => p \in Workers /\ qemu[p] \in {"up", "ended"}
                        /\ pc[p] \in {"watch", "term", "finally", "hurried"} => p \in Terminals
    /\ app = "open" => held = None
    /\ handle # None => pc[handle] = "over" /\ qemu[handle] # "none"
    /\ app = "open" /\ handle # None => qemu[handle] \in {"up", "ended"}
    /\ held # None => pc[held] = "over" /\ qemu[held] # "none"
    /\ app \in {"stopping", "sweeping"} => held # None
    /\ app = "sweeping" => qemu[held] = "stopped"

\* What the closing and a command's cleanup have left.
Leavings ==
    /\ app \in {"leaving", "closed"} /\ held # None /\ qemu[held] # "ended" =>
          /\ qemu[held] = "stopped"
          /\ name[held] \in overlays => \E q \in Procs : q # held /\ name[q] = name[held]
          /\ held \notin seeds
    /\ \A t \in Terminals : pc[t] = "over" => qemu[t] # "up" /\ t \notin overlays /\ t \notin seeds

\* A file that is whole, or that somebody is still writing who opened it last.
Good(f) == content[f] = Whole \/ \E p \in Procs : fd[p] = f /\ 1..got[p] \subseteq content[f]

\* Which files there are, and who has them open.
Files ==
    /\ \A p \in Procs : (fd[p] # None <=> pc[p] = "fetch") /\ (pc[p] # "fetch" => got[p] = 0)
    /\ part # Old /\ (part # None => part # base)
    /\ \A p \in Procs : pc[p] \in {"idle", "connect"} => p # part /\ p # base

\* As long as downloads have not overlapped, there is at most one, and it is not
\* writing to the base image; and until one is spoilt, the base image and the file
\* that a download is going to move are good.
Images ==
    /\ mishap = "none" =>
          /\ \A p, q \in Procs : pc[p] \in Downloading /\ pc[q] \in Downloading => p = q
          /\ base # None => content[base] = Whole /\ \A p \in Procs : fd[p] # base
    /\ mishap # "spoilt" =>
          /\ base # None => Good(base)
          /\ part # None /\ (\E p \in Procs : pc[p] \in Downloading) => Good(part)

IInv == TypeOK /\ Names /\ Machines /\ Leavings /\ Files /\ Images

-----------------------------------------------------------------------------
(* The invariant is inductive: one lemma for each part.                     *)

LEMMA Distinct ==
    /\ None \notin Procs /\ Old \notin Procs /\ None # Old
    /\ Workers \cap Terminals = {} /\ Procs = Workers \cup Terminals
    /\ Chunks \in Nat \ {0}
  BY VmAssumption DEF Procs, Old

LEMMA InitIInv == Init => IInv
<1> SUFFICES ASSUME Init PROVE IInv
  OBVIOUS
<1> USE Distinct
<1>1. TypeOK
  BY DEF Init, TypeOK, Ended, Whole
<1>2. Names /\ Machines /\ Leavings
  BY DEF Init, Names, Machines, Leavings, Before
<1>3. Files /\ Images
  BY DEF Init, Files, Images, Good, Downloading
<1> QED
  BY <1>1, <1>2, <1>3 DEF IInv

LEMMA TypesKeep == IInv /\ [Next]_vars => TypeOK'
<1> SUFFICES ASSUME IInv, [Next]_vars PROVE TypeOK'
  OBVIOUS
<1> USE Distinct
<1> USE DEF Goto, TypeOK, Ended, Whole, download, machines, owner
<1>0. TypeOK /\ Names /\ Machines /\ Files
  BY DEF IInv
<1>1. CASE UNCHANGED vars
  BY <1>0, <1>1 DEF vars
<1>2. ASSUME NEW p \in Procs, Launch(p) \/ QemuEnds(p) PROVE TypeOK'
  <2>0. CASE Start(p)
    <3>1. pc' = [pc EXCEPT ![p] = pc'[p]] /\ pc'[p] \in Ended \cup {"overlay", "connect"}
      BY <1>0, <2>0 DEF Start
    <3> QED
      BY <1>0, <2>0, <3>1 DEF Start
  <2>1. CASE Connect(p)
    <3>1. PICK f \in Procs : /\ part' = f /\ fd' = [fd EXCEPT ![p] = f]
                             /\ content' = [content EXCEPT ![f] = {}]
      BY <1>0, <2>1 DEF Connect, Files
    <3> QED
      BY <1>0, <2>1, <3>1 DEF Connect
  <2>2. CASE Fetch(p)
    <3>1. fd[p] \in Procs /\ got[p] + 1 \in 1..Chunks
      BY <1>0, <2>2 DEF Fetch, Files
    <3> QED
      BY <1>0, <2>2, <3>1 DEF Fetch
  <2>3. CASE FetchEnds(p) \/ Rename(p) \/ FetchFails(p)
    <3>1. CASE FetchEnds(p)
      BY <1>0, <3>1 DEF FetchEnds, CloseFile
    <3>2. CASE Rename(p)
      BY <1>0, <3>2 DEF Rename
    <3>3. CASE FetchFails(p)
      BY <1>0, <3>3 DEF FetchFails, CloseFile, Stopped
    <3> QED
      BY <2>3, <3>1, <3>2, <3>3
  <2>4. CASE Prepare(p)
    BY <1>0, <2>4 DEF Prepare, Sharing
  <2>5. CASE Spawn(p) \/ QemuEnds(p)
    BY <1>0, <2>5 DEF Spawn, QemuEnds, QemuStarts
  <2>8. CASE Bind(p)
    BY <1>0, <2>8 DEF Bind, Machines
  <2>6. CASE RunQemu(p) \/ Waited(p) \/ Finally(p)
    BY <1>0, <2>6 DEF RunQemu, Waited, Finally, QemuStarts, Remove
  <2>7. CASE Interrupt(p) \/ Terminated(p)
    BY <1>0, <2>7 DEF Interrupt, Terminated, CloseFile, Stopped
  <2> QED
    BY <1>2, <2>0, <2>1, <2>2, <2>3, <2>4, <2>5, <2>6, <2>7, <2>8 DEF Launch
<1>3. CASE CloseWindow \/ Terminate \/ Sweep \/ Clean
  BY <1>0, <1>3 DEF CloseWindow, Terminate, Sweep, Clean, Remove
<1>4. CASE Exit
  <2>1. pc' \in [Procs -> {"idle", "connect", "fetch", "rename", "overlay", "launch", "bind",
                           "watch", "term", "finally"} \cup Ended]
    BY <1>0, <1>4 DEF Exit
  <2>2. fd' \in [Procs -> Procs \cup {None}] /\ got' \in [Procs -> 0..Chunks]
    BY <1>0, <1>4 DEF Exit
  <2>3. mishap' \in {"none", "overlap", "spoilt"}
    BY <1>0, <1>4 DEF Exit, Stopped
  <2>4. app' = "closed" /\ UNCHANGED <<content, part, base, name, overlays, seeds, qemu, handle, held>>
    BY <1>4 DEF Exit
  <2> QED
    BY <1>0, <2>1, <2>2, <2>3, <2>4
<1> QED
  BY <1>1, <1>2, <1>3, <1>4 DEF Next

LEMMA NamesKeep == IInv /\ [Next]_vars => Names'
<1> SUFFICES ASSUME IInv, [Next]_vars PROVE Names'
  OBVIOUS
<1> USE Distinct
<1>0. /\ Names /\ DOMAIN name = Procs /\ DOMAIN pc = Procs /\ \A p \in Procs : name[p] \in Procs
  BY DEF IInv, TypeOK
<1>1. ASSUME name' = name, \A p \in Procs : pc[p] \notin Before => pc'[p] \notin Before
      PROVE  Names'
  BY <1>0, <1>1 DEF Names
<1>2. ASSUME NEW p \in Procs, Launch(p) \/ QemuEnds(p) PROVE Names'
  <2> USE DEF Goto, Before, download, machines, owner
  <2>1. CASE Start(p) \/ Connect(p) \/ Fetch(p) \/ FetchEnds(p) \/ Rename(p) \/ FetchFails(p)
    BY <1>0, <1>1, <2>1 DEF Start, Connect, Fetch, FetchEnds, Rename, FetchFails
  <2>2. CASE Spawn(p) \/ Bind(p) \/ QemuEnds(p) \/ RunQemu(p) \/ Waited(p) \/ Finally(p)
    BY <1>0, <1>1, <2>2 DEF Spawn, Bind, QemuEnds, RunQemu, Waited, Finally
  <2>3. CASE Interrupt(p) \/ Terminated(p)
    BY <1>0, <1>1, <2>3 DEF Interrupt, Terminated
  <2>4. CASE Prepare(p)
    <3>1. /\ pc[p] = "overlay" /\ pc'[p] \notin Before
          /\ \A q \in Procs : q # p => pc'[q] = pc[q] /\ name'[q] = name[q]
      BY <1>0, <2>4 DEF Prepare
    <3>2. \/ name'[p] \in {p, name[p]}
          \/ \E q \in Workers : p \in Workers /\ pc[q] = "launch" /\ name'[p] = name[q]
      BY <1>0, <2>4 DEF Prepare
    <3>3. name[p] = p
      BY <1>0, <3>1 DEF Names
    <3> HIDE DEF Before
    <3>4. \A q \in Procs : pc[q] \notin Before => pc'[q] \notin Before
      BY <3>1
    <3>5. \A q \in Procs : q # p => (name'[q] # q => pc'[q] \notin Before /\ pc'[name'[q]] \notin Before)
      BY <1>0, <3>1, <3>4 DEF Names
    <3>6. CASE name'[p] = p
      BY <1>0, <3>1, <3>3, <3>5, <3>6 DEF Names
    <3>7. CASE \E q \in Workers : p \in Workers /\ pc[q] = "launch" /\ name'[p] = name[q]
      <4>1. PICK q \in Workers : p \in Workers /\ pc[q] = "launch" /\ name'[p] = name[q]
        BY <3>7
      <4>2. pc[q] \notin Before /\ name[q] \in Workers
        BY <1>0, <4>1 DEF Names, Before
      <4>3. pc[name[q]] \notin Before
        BY <1>0, <4>2 DEF Names
      <4>4. pc'[name'[p]] \notin Before
        BY <3>4, <4>1, <4>2, <4>3
      <4> QED
        BY <1>0, <3>1, <3>5, <4>1, <4>2, <4>4 DEF Names
    <3> QED
      BY <3>2, <3>3, <3>6, <3>7
  <2> QED
    BY <1>2, <2>1, <2>2, <2>3, <2>4 DEF Launch
<1>3. CASE CloseWindow \/ Terminate \/ Sweep \/ Clean \/ UNCHANGED vars
  BY <1>1, <1>3 DEF CloseWindow, Terminate, Sweep, Clean, vars, machines
<1>4. CASE Exit
  BY <1>0, <1>1, <1>4 DEF Exit, machines, Before
<1> QED
  BY <1>2, <1>3, <1>4 DEF Next

LEMMA MachinesKeep == IInv /\ [Next]_vars => Machines'
<1> SUFFICES ASSUME IInv, [Next]_vars PROVE Machines'
  OBVIOUS
<1> USE Distinct
<1> USE DEF Goto, Before, Machines, download, machines, owner
<1>0. /\ Machines /\ DOMAIN pc = Procs /\ DOMAIN qemu = Procs
      /\ handle \in Workers \cup {None} /\ held \in Workers \cup {None}
      /\ \A p \in Procs : qemu[p] \in {"none", "up", "ended", "stopped"}
  BY DEF IInv, TypeOK
<1>1. CASE UNCHANGED vars
  BY <1>0, <1>1 DEF vars
<1>2. ASSUME NEW p \in Procs, Launch(p) \/ QemuEnds(p) PROVE Machines'
  <2>1. CASE Start(p)
    <3>1. /\ pc[p] = "idle" /\ pc'[p] \in {"over", "failed", "overlay", "connect"}
          /\ \A q \in Procs : q # p => pc'[q] = pc[q]
          /\ UNCHANGED <<qemu, app, handle, held>>
      BY <1>0, <2>1 DEF Start
    <3> QED
      BY <1>0, <3>1
  <2>2. CASE Connect(p) \/ Fetch(p) \/ FetchEnds(p)
    BY <1>0, <2>2 DEF Connect, Fetch, FetchEnds
  <2>3. CASE Rename(p) \/ FetchFails(p)
    BY <1>0, <2>3 DEF Rename, FetchFails
  <2>4. CASE Prepare(p)
    <3>1. /\ pc[p] = "overlay" /\ pc'[p] \in {"launch", "failed"}
          /\ \A q \in Procs : q # p => pc'[q] = pc[q]
          /\ UNCHANGED <<qemu, app, handle, held>>
      BY <1>0, <2>4 DEF Prepare
    <3> QED
      BY <1>0, <3>1
  <2>5. CASE Spawn(p)
    BY <1>0, <2>5 DEF Spawn, QemuStarts
  <2>6. CASE Bind(p)
    BY <1>0, <2>6 DEF Bind
  <2>7. CASE QemuEnds(p)
    BY <1>0, <2>7 DEF QemuEnds
  <2>8. CASE RunQemu(p)
    BY <1>0, <2>8 DEF RunQemu, QemuStarts
  <2>9. CASE Waited(p) \/ Finally(p)
    BY <1>0, <2>9 DEF Waited, Finally
  <2>10. CASE Interrupt(p)
    <3>1. /\ pc[p] # "over" /\ pc[p] # "idle"
          /\ pc'[p] \in {"dead", "term", "finally"} /\ p \in Terminals
          /\ pc'[p] # "dead" => pc[p] \in {"watch", "term"}
          /\ \A q \in Procs : q # p => pc'[q] = pc[q]
          /\ UNCHANGED <<qemu, app, handle, held>>
      BY <1>0, <2>10 DEF Interrupt
    <3> QED
      BY <1>0, <3>1
  <2>11. CASE Terminated(p)
    BY <1>0, <2>11 DEF Terminated
  <2> QED
    BY <1>2, <2>1, <2>2, <2>3, <2>4, <2>5, <2>6, <2>7, <2>8, <2>9, <2>10, <2>11 DEF Launch
<1>3. CASE CloseWindow
  BY <1>0, <1>3 DEF CloseWindow
<1>4. CASE Terminate
  BY <1>0, <1>4 DEF Terminate
<1>5. CASE Sweep \/ Clean
  BY <1>0, <1>5 DEF Sweep, Clean
<1>6. CASE Exit
  <2>1. /\ app \in {"open", "leaving"} /\ app' = "closed" /\ UNCHANGED <<qemu, handle, held>>
        /\ \A p \in Procs : pc'[p] = pc[p] \/ (pc'[p] = "dead" /\ pc[p] # "over")
    BY <1>0, <1>6 DEF Exit, Ended
  <2> QED
    BY <1>0, <2>1
<1> QED
  BY <1>1, <1>2, <1>3, <1>4, <1>5, <1>6 DEF Next

LEMMA LeavingsKeep == IInv /\ [Next]_vars => Leavings'
<1> SUFFICES ASSUME IInv, [Next]_vars PROVE Leavings'
  OBVIOUS
<1> USE Distinct
<1> USE DEF Goto, download, machines, owner
<1>0. /\ Names /\ Machines /\ Leavings /\ DOMAIN pc = Procs /\ DOMAIN qemu = Procs /\ DOMAIN name = Procs
      /\ handle \in Workers \cup {None} /\ held \in Workers \cup {None}
  BY DEF IInv, TypeOK
\* Neither an overlay nor a seed is made, no VM that has ended is started.
<1>1. ASSUME UNCHANGED <<app, held, name>>, overlays' \subseteq overlays, seeds' \subseteq seeds,
             held # None => qemu'[held] = qemu[held] \/ qemu'[held] = "ended",
             \A t \in Terminals : pc'[t] = "over" =>
                 \/ pc[t] = "over" /\ (qemu'[t] = qemu[t] \/ qemu'[t] = "ended")
                 \/ qemu'[t] # "up" /\ t \notin overlays' /\ t \notin seeds'
      PROVE  Leavings'
  BY <1>0, <1>1 DEF Leavings
<1>2. ASSUME NEW p \in Procs, Launch(p) \/ QemuEnds(p) PROVE Leavings'
  <2>1. CASE Start(p)
    <3>1. /\ p \in Terminals => pc'[p] # "over"
          /\ \A q \in Procs : q # p => pc'[q] = pc[q]
          /\ UNCHANGED <<app, held, name, overlays, seeds, qemu>>
      BY <1>0, <2>1 DEF Start
    <3> QED
      BY <1>1, <3>1
  <2>2. CASE Connect(p) \/ Fetch(p) \/ FetchEnds(p)
    BY <1>0, <1>1, <2>2 DEF Connect, Fetch, FetchEnds
  <2>3. CASE Rename(p) \/ FetchFails(p)
    BY <1>0, <1>1, <2>3 DEF Rename, FetchFails
  <2>4. CASE Prepare(p)
    <3>1. /\ pc[p] = "overlay" /\ pc'[p] # "over"
          /\ \A q \in Procs : q # p => pc'[q] = pc[q] /\ name'[q] = name[q]
          /\ UNCHANGED <<qemu, app, held>>
      BY <1>0, <2>4 DEF Prepare
    <3>2. overlays' \subseteq overlays \cup {name'[p]} /\ seeds' \subseteq seeds \cup {p}
      BY <1>0, <2>4 DEF Prepare
    <3>3. /\ name[p] = p
          /\ \A q \in Procs : q # p => name[q] # p
      BY <1>0, <3>1 DEF Names, Before
    <3>4. \A t \in Terminals : t # p => t # name'[p]
      <4>1. Names'
        BY NamesKeep
      <4> QED
        BY <4>1 DEF Names
    <3>5. held # p
      BY <1>0, <3>1 DEF Machines
    <3>6. ASSUME app \in {"leaving", "closed"}, held # None, qemu[held] # "ended", name[held] \in overlays'
          PROVE  \E q \in Procs : q # held /\ name'[q] = name[held]
      <4>1. CASE name[held] = name'[p]
        BY <3>5, <4>1
      <4>2. CASE name[held] \in overlays
        <5>1. PICK q \in Procs : q # held /\ name[q] = name[held]
          BY <1>0, <3>6, <4>2 DEF Leavings
        <5>2. held \in Procs /\ q # p
          BY <1>0, <3>3, <3>5, <3>6, <5>1
        <5> QED
          BY <3>1, <5>1, <5>2
      <4> QED
        BY <3>2, <3>6, <4>1, <4>2
    <3>7. held # None => name'[held] = name[held]
      BY <1>0, <3>1, <3>5
    <3>8. \A t \in Terminals : pc'[t] = "over" => qemu'[t] # "up" /\ t \notin overlays' /\ t \notin seeds'
      BY <1>0, <3>1, <3>2, <3>4 DEF Leavings
    <3> QED
      BY <1>0, <3>1, <3>2, <3>5, <3>6, <3>7, <3>8 DEF Leavings
  <2>5. CASE Spawn(p)
    BY <1>0, <1>1, <2>5 DEF Spawn, QemuStarts, Machines
  <2>6. CASE Bind(p)
    BY <1>0, <1>1, <2>6 DEF Bind, Machines
  <2>7. CASE QemuEnds(p)
    BY <1>0, <1>1, <2>7 DEF QemuEnds
  <2>8. CASE RunQemu(p)
    BY <1>0, <1>1, <2>8 DEF RunQemu, QemuStarts, Machines
  <2>9. CASE Waited(p)
    BY <1>0, <1>1, <2>9 DEF Waited
  <2>10. CASE Finally(p)
    <3>1. p \in Terminals /\ name[p] = p
      BY <1>0, <2>10 DEF Finally, Machines, Names
    <3>2. /\ overlays' = overlays \ {p} /\ seeds' \subseteq seeds /\ p \notin seeds'
          /\ UNCHANGED <<qemu, app, held, name>>
          /\ pc'[p] = "over" => qemu[p] # "up"
          /\ \A q \in Procs : q # p => pc'[q] = pc[q]
      BY <1>0, <2>10, <3>1 DEF Finally, Remove, Sharing
    <3> QED
      BY <1>0, <1>1, <3>1, <3>2
  <2>11. CASE Interrupt(p)
    BY <1>0, <1>1, <2>11 DEF Interrupt
  <2>12. CASE Terminated(p)
    BY <1>0, <1>1, <2>12 DEF Terminated, Machines
  <2> QED
    BY <1>2, <2>1, <2>2, <2>3, <2>4, <2>5, <2>6, <2>7, <2>8, <2>9, <2>10, <2>11, <2>12 DEF Launch
<1>3. CASE CloseWindow
  BY <1>0, <1>3 DEF CloseWindow, Leavings, Machines
<1>4. CASE Terminate
  BY <1>0, <1>4 DEF Terminate, Leavings, Machines
<1>5. CASE Sweep
  BY <1>0, <1>5 DEF Sweep, Leavings, Machines, Remove, Sharing
<1>6. CASE Clean
  BY <1>0, <1>1, <1>6 DEF Clean
<1>7. CASE Exit
  <2>1. /\ app \in {"open", "leaving"} /\ app' = "closed" /\ UNCHANGED <<qemu, held, name, overlays, seeds>>
        /\ \A p \in Procs : pc'[p] = pc[p] \/ pc'[p] = "dead"
    BY <1>0, <1>7 DEF Exit
  <2> QED
    BY <1>0, <2>1 DEF Leavings, Machines
<1>8. CASE UNCHANGED vars
  BY <1>1, <1>8 DEF vars
<1> QED
  BY <1>2, <1>3, <1>4, <1>5, <1>6, <1>7, <1>8 DEF Next

LEMMA FilesKeep == IInv /\ [Next]_vars => Files'
<1> SUFFICES ASSUME IInv, [Next]_vars PROVE Files'
  OBVIOUS
<1> USE Distinct
<1> USE DEF Goto, CloseFile, download, machines, owner
<1>0. /\ Files /\ DOMAIN pc = Procs /\ DOMAIN fd = Procs /\ DOMAIN got = Procs
      /\ part \in Procs \cup {Old, None} /\ base \in Procs \cup {Old, None}
  BY DEF IInv, TypeOK
\* Files stay as they are, and so does whoever has one open.
<1>1. ASSUME UNCHANGED <<fd, got>>, part' \in {part, None}, base' \in {base, None},
             \A p \in Procs : /\ pc'[p] = "fetch" <=> pc[p] = "fetch"
                              /\ pc'[p] \in {"idle", "connect"} => pc[p] \in {"idle", "connect"}
      PROVE  Files'
  BY <1>0, <1>1 DEF Files
<1>2. ASSUME NEW p \in Procs, Launch(p) \/ QemuEnds(p) PROVE Files'
  <2>1. CASE Start(p)
    <3>1. /\ pc[p] = "idle" /\ pc'[p] # "fetch" /\ \A q \in Procs : q # p => pc'[q] = pc[q]
          /\ UNCHANGED <<fd, got, part, base>>
      BY <1>0, <2>1 DEF Start
    <3> QED
      BY <1>1, <3>1
  <2>2. CASE Connect(p)
    <3>1. /\ part' = (IF part = None THEN p ELSE part) /\ fd' = [fd EXCEPT ![p] = part']
          /\ pc[p] = "connect" /\ pc' = [pc EXCEPT ![p] = "fetch"] /\ UNCHANGED <<got, base>>
      BY <2>2 DEF Connect
    <3> QED
      BY <1>0, <3>1 DEF Files
  <2>3. CASE Fetch(p)
    BY <1>0, <2>3 DEF Fetch, Files
  <2>4. CASE FetchEnds(p)
    BY <1>0, <2>4 DEF FetchEnds, Files
  <2>5. CASE Rename(p)
    BY <1>0, <2>5 DEF Rename, Files
  <2>6. CASE FetchFails(p)
    BY <1>0, <2>6 DEF FetchFails, Files
  <2>7. CASE Prepare(p)
    <3>1. /\ pc[p] = "overlay" /\ pc'[p] \in {"launch", "failed"} /\ \A q \in Procs : q # p => pc'[q] = pc[q]
          /\ UNCHANGED <<fd, got, part, base>>
      BY <1>0, <2>7 DEF Prepare
    <3> QED
      BY <1>1, <3>1
  <2>8. CASE Spawn(p) \/ Bind(p) \/ QemuEnds(p)
    BY <1>0, <1>1, <2>8 DEF Spawn, Bind, QemuEnds
  <2>9. CASE RunQemu(p) \/ Waited(p) \/ Finally(p) \/ Terminated(p)
    BY <1>0, <1>1, <2>9 DEF RunQemu, Waited, Finally, Terminated
  <2>10. CASE Interrupt(p)
    <3>1. /\ pc'[p] \in {"dead", "term", "finally"} /\ \A q \in Procs : q # p => pc'[q] = pc[q]
          /\ fd' = [fd EXCEPT ![p] = None] /\ got' = [got EXCEPT ![p] = 0] /\ UNCHANGED <<part, base>>
      BY <1>0, <2>10 DEF Interrupt
    <3> QED
      BY <1>0, <3>1 DEF Files
  <2> QED
    BY <1>2, <2>1, <2>2, <2>3, <2>4, <2>5, <2>6, <2>7, <2>8, <2>9, <2>10 DEF Launch
<1>3. CASE CloseWindow \/ Terminate \/ Sweep \/ Clean \/ UNCHANGED vars
  BY <1>1, <1>3 DEF CloseWindow, Terminate, Sweep, Clean, vars
<1>4. CASE Exit
  <2>1. /\ \A p \in Procs : pc'[p] = IF p \in Workers /\ pc[p] \notin Ended THEN "dead" ELSE pc[p]
        /\ \A p \in Procs : fd'[p] = IF p \in Workers THEN None ELSE fd[p]
        /\ \A p \in Procs : got'[p] = IF p \in Workers THEN 0 ELSE got[p]
        /\ UNCHANGED <<part, base>>
    BY <1>4 DEF Exit
  <2> QED
    BY <1>0, <2>1 DEF Files, Ended
<1> QED
  BY <1>2, <1>3, <1>4 DEF Next

\* A step in which no file is touched, no download begins and none is stopped.
LEMMA ImagesStay ==
    ASSUME Images, UNCHANGED <<fd, got, content, part, mishap>>, base' \in {base, None},
           \A p \in Procs : pc'[p] \in Downloading => pc[p] \in Downloading
    PROVE  Images'
<1>1. \A f : Good(f)' <=> Good(f)
  BY DEF Good
<1> QED
  BY <1>1 DEF Images

LEMMA ImagesKeep == IInv /\ [Next]_vars => Images'
<1> SUFFICES ASSUME IInv, [Next]_vars PROVE Images'
  OBVIOUS
<1> USE Distinct
<1> USE DEF Goto, CloseFile, download, machines, owner
<1>0. /\ Files /\ Images /\ DOMAIN pc = Procs /\ DOMAIN fd = Procs /\ DOMAIN got = Procs
      /\ fd \in [Procs -> Procs \cup {None}] /\ got \in [Procs -> 0..Chunks]
      /\ content \in [Procs \cup {Old} -> SUBSET Whole]
      /\ part \in Procs \cup {Old, None} /\ base \in Procs \cup {Old, None}
      /\ mishap \in {"none", "overlap", "spoilt"}
  BY DEF IInv, TypeOK
<1>2. ASSUME NEW p \in Procs, Launch(p) \/ QemuEnds(p) PROVE Images'
  <2>1. CASE Start(p)
    <3>1. /\ pc[p] = "idle" /\ pc'[p] \notin Downloading /\ \A q \in Procs : q # p => pc'[q] = pc[q]
          /\ UNCHANGED <<fd, got, content, part, mishap, base>>
      BY <1>0, <2>1 DEF Start, Downloading
    <3> QED
      BY <1>0, <3>1, ImagesStay
  <2>2. CASE Connect(p)
    <3>1. PICK f \in Procs :
             /\ part' = f /\ fd' = [fd EXCEPT ![p] = f] /\ content' = [content EXCEPT ![f] = {}]
             /\ f # base
      BY <1>0, <2>2 DEF Connect, Files
    <3>2. /\ pc[p] = "connect" /\ pc' = [pc EXCEPT ![p] = "fetch"] /\ UNCHANGED <<got, base>>
          /\ mishap' = IF mishap = "none" /\ \E q \in Procs : pc[q] \in Downloading
                         THEN "overlap" ELSE mishap
      BY <2>2 DEF Connect, Downloading
    <3>3. got[p] = 0 /\ fd[p] = None
      BY <1>0, <3>2 DEF Files
    <3>4. Good(f)'
      <4>1. fd'[p] = f /\ got'[p] = 0 /\ 1..0 = {}
        BY <1>0, <3>1, <3>2, <3>3
      <4> QED
        BY <4>1 DEF Good
    <3>5. base # None => content'[base] = content[base] /\ \A q \in Procs : fd'[q] = base <=> fd[q] = base
      BY <1>0, <3>1, <3>3
    <3>6. base # None /\ Good(base) => Good(base)'
      BY <1>0, <3>2, <3>5 DEF Good
    <3>7. mishap' = "none" =>
             /\ \A q, r \in Procs : pc'[q] \in Downloading /\ pc'[r] \in Downloading => q = r
             /\ base' # None => content'[base'] = Whole /\ \A q \in Procs : fd'[q] # base'
      <4> SUFFICES ASSUME mishap' = "none"
                   PROVE  /\ \A q, r \in Procs : pc'[q] \in Downloading /\ pc'[r] \in Downloading => q = r
                          /\ base' # None => content'[base'] = Whole /\ \A q \in Procs : fd'[q] # base'
        OBVIOUS
      <4>1. mishap = "none" /\ \A q \in Procs : pc[q] \notin Downloading
        BY <3>2
      <4> QED
        BY <1>0, <3>2, <3>5, <4>1 DEF Images
    <3>8. mishap' # "spoilt" => mishap # "spoilt"
      BY <3>2
    <3> QED
      BY <1>0, <3>1, <3>2, <3>4, <3>6, <3>7, <3>8 DEF Images
  <2>3. CASE Fetch(p)
    <3>1. /\ pc[p] = "fetch" /\ got' = [got EXCEPT ![p] = got[p] + 1] /\ fd[p] \in Procs
          /\ content' = [content EXCEPT ![fd[p]] = content[fd[p]] \cup {got[p] + 1}]
          /\ UNCHANGED <<pc, fd, part, base, mishap>>
      BY <1>0, <2>3 DEF Fetch, Files
    <3>2. \A f \in Procs \cup {Old} : content[f] \subseteq content'[f] /\ (f # fd[p] => content'[f] = content[f])
      BY <1>0, <3>1
    <3>3. TypeOK'
      BY TypesKeep
    <3>4. ASSUME NEW f \in Procs \cup {Old}, Good(f) PROVE Good(f)'
      <4>1. CASE content[f] = Whole
        <5>1. content'[f] \subseteq Whole
          BY <3>3 DEF TypeOK
        <5> QED
          BY <3>2, <4>1, <5>1 DEF Good
      <4>2. ASSUME NEW q \in Procs, fd[q] = f, 1..got[q] \subseteq content[f] PROVE Good(f)'
        <5>1. CASE q # p
          BY <1>0, <3>1, <3>2, <4>2, <5>1 DEF Good
        <5>2. CASE q = p
          <6>1. got'[p] = got[p] + 1 /\ 1..got'[p] = (1..got[p]) \cup {got[p] + 1}
            BY <1>0, <3>1
          <6>2. 1..got'[p] \subseteq content'[f]
            BY <1>0, <3>1, <4>2, <5>2, <6>1
          <6> QED
            BY <3>1, <4>2, <5>2, <6>2 DEF Good
        <5> QED
          BY <5>1, <5>2
      <4> QED
        BY <3>4, <4>1, <4>2 DEF Good
    <3>5. mishap = "none" /\ base # None => content'[base] = content[base]
      BY <1>0, <3>1, <3>2 DEF Images
    <3> QED
      BY <1>0, <3>1, <3>4, <3>5 DEF Images
  <2>4. CASE FetchEnds(p)
    <3>1. /\ pc[p] = "fetch" /\ pc' = [pc EXCEPT ![p] = "rename"]
          /\ fd' = [fd EXCEPT ![p] = None] /\ got' = [got EXCEPT ![p] = 0]
          /\ mishap' = IF got[p] < Chunks THEN "spoilt" ELSE mishap
          /\ UNCHANGED <<content, part, base>>
      BY <2>4 DEF FetchEnds
    <3>2. ASSUME NEW f \in Procs \cup {Old}, Good(f), mishap' # "spoilt" PROVE Good(f)'
      <4>1. got[p] = Chunks
        BY <1>0, <3>1, <3>2
      <4>2. CASE content[f] = Whole
        BY <3>1, <4>2 DEF Good
      <4>3. ASSUME NEW q \in Procs, fd[q] = f, 1..got[q] \subseteq content[f] PROVE Good(f)'
        <5>1. CASE q # p
          BY <1>0, <3>1, <4>3, <5>1 DEF Good
        <5>2. CASE q = p
          <6>1. content[f] = Whole
            BY <1>0, <4>1, <4>3, <5>2 DEF Whole
          <6> QED
            BY <3>1, <6>1 DEF Good
        <5> QED
          BY <5>1, <5>2
      <4> QED
        BY <3>2, <4>2, <4>3 DEF Good
    <3>3. \A q \in Procs : (pc'[q] \in Downloading <=> pc[q] \in Downloading) /\ fd'[q] \in {fd[q], None}
      BY <1>0, <3>1 DEF Downloading
    <3>4. mishap' # "spoilt" => mishap' = mishap
      BY <3>1
    <3> QED
      BY <1>0, <3>1, <3>2, <3>3, <3>4 DEF Images
  <2>5. CASE Rename(p)
    <3>1. /\ pc[p] = "rename" /\ pc'[p] \notin Downloading /\ \A q \in Procs : q # p => pc'[q] = pc[q]
          /\ UNCHANGED <<fd, got, content, mishap>>
          /\ \/ part = None /\ UNCHANGED <<part, base>>
             \/ part # None /\ base' = part /\ part' = None
      BY <1>0, <2>5 DEF Rename, Downloading
    <3>2. CASE part = None
      BY <1>0, <3>1, <3>2, ImagesStay
    <3>3. CASE part # None
      <4>1. mishap # "spoilt" => Good(part)
        BY <1>0, <3>1, <3>3 DEF Images, Downloading
      <4>2. ASSUME mishap = "none", NEW q \in Procs PROVE fd[q] = None
        <5>1. pc[q] \in Downloading => q = p
          BY <1>0, <3>1, <4>2 DEF Images, Downloading
        <5> QED
          BY <1>0, <3>1, <5>1 DEF Files, Downloading
      <4>3. mishap = "none" => content[part] = Whole
        BY <3>3, <4>1, <4>2 DEF Good
      <4>4. base' = part /\ part' = None
        BY <3>1, <3>3
      <4>5. mishap' = "none" =>
               /\ \A q, r \in Procs : pc'[q] \in Downloading /\ pc'[r] \in Downloading => q = r
               /\ base' # None => content'[base'] = Whole /\ \A q \in Procs : fd'[q] # base'
        BY <1>0, <3>1, <3>3, <4>2, <4>3, <4>4 DEF Images
      <4>6. mishap' # "spoilt" => Good(base)'
        BY <3>1, <4>1, <4>4 DEF Good
      <4> QED
        BY <4>4, <4>5, <4>6 DEF Images
    <3> QED
      BY <3>2, <3>3
  \* A download is stopped, alone or not.
  <2>6. CASE FetchFails(p) \/ Interrupt(p)
    <3>1. /\ fd' = [fd EXCEPT ![p] = None] /\ got' = [got EXCEPT ![p] = 0] /\ UNCHANGED <<content, base>>
          /\ part' \in {part, None}
          /\ pc'[p] \notin Downloading /\ \A q \in Procs : q # p => pc'[q] = pc[q]
          /\ mishap' = IF mishap = "overlap" /\ pc[p] = "fetch" THEN "spoilt" ELSE mishap
      BY <1>0, <2>6 DEF FetchFails, Interrupt, Stopped, Downloading
    <3>2. CASE fd[p] = None
      <4>1. fd' = fd /\ got' = got /\ mishap' = mishap
        BY <1>0, <3>1, <3>2 DEF Files
      <4>2. \A f : Good(f)' <=> Good(f)
        BY <3>1, <4>1 DEF Good
      <4>3. \A q \in Procs : pc'[q] \in Downloading => pc[q] \in Downloading
        BY <3>1
      <4> QED
        BY <1>0, <3>1, <4>1, <4>2, <4>3 DEF Images
    <3>3. CASE fd[p] # None /\ mishap = "none"
      <4>1. pc[p] \in Downloading /\ mishap' = "none"
        BY <1>0, <3>1, <3>3 DEF Files, Downloading
      <4>2. \A q \in Procs : pc'[q] \notin Downloading
        BY <1>0, <3>1, <3>3, <4>1 DEF Images
      <4>3. base # None => content[base] = Whole /\ \A q \in Procs : fd[q] # base
        BY <1>0, <3>3 DEF Images
      <4>4. base' # None => content'[base'] = Whole /\ \A q \in Procs : fd'[q] # base'
        BY <1>0, <3>1, <4>3
      <4> QED
        BY <4>1, <4>2, <4>4 DEF Images, Good
    <3>4. CASE fd[p] # None /\ mishap # "none"
      <4>1. mishap' = "spoilt"
        BY <1>0, <3>1, <3>4 DEF Files
      <4> QED
        BY <4>1 DEF Images
    <3> QED
      BY <3>2, <3>3, <3>4
  <2>7. CASE Prepare(p)
    <3>1. /\ pc'[p] \notin Downloading /\ \A q \in Procs : q # p => pc'[q] = pc[q]
          /\ UNCHANGED <<fd, got, content, part, mishap, base>>
      BY <1>0, <2>7 DEF Prepare, Downloading
    <3> QED
      BY <1>0, <3>1, ImagesStay
  <2>8. CASE Spawn(p) \/ Bind(p) \/ QemuEnds(p) \/ RunQemu(p) \/ Waited(p) \/ Finally(p) \/ Terminated(p)
    <3>1. /\ UNCHANGED <<fd, got, content, part, mishap, base>>
          /\ \A q \in Procs : pc'[q] = pc[q] \/ pc'[q] \notin Downloading
      BY <1>0, <2>8 DEF Spawn, Bind, QemuEnds, RunQemu, Waited, Finally, Terminated, Downloading
    <3> QED
      BY <1>0, <3>1, ImagesStay
  <2> QED
    BY <1>2, <2>1, <2>2, <2>3, <2>4, <2>5, <2>6, <2>7, <2>8 DEF Launch
<1>3. CASE CloseWindow \/ Terminate \/ Sweep \/ Clean \/ UNCHANGED vars
  BY <1>0, <1>3, ImagesStay DEF CloseWindow, Terminate, Sweep, Clean, vars
<1>4. CASE Exit
  <2>1. /\ UNCHANGED <<content, part, base>>
        /\ \A q \in Procs : /\ pc'[q] = IF q \in Workers /\ pc[q] \notin Ended THEN "dead" ELSE pc[q]
                            /\ fd'[q] = IF q \in Workers THEN None ELSE fd[q]
                            /\ got'[q] = IF q \in Workers THEN 0 ELSE got[q]
        /\ mishap' = IF mishap = "overlap" /\ \E q \in Workers : pc[q] = "fetch" THEN "spoilt" ELSE mishap
    BY <1>4 DEF Exit, Stopped
  <2>2. \A q \in Procs : /\ pc'[q] \in Downloading => pc[q] \in Downloading /\ q \notin Workers
                         /\ fd'[q] \in {fd[q], None}
    BY <2>1 DEF Ended, Downloading
  <2>3. CASE \A q \in Workers : pc[q] # "fetch"
    <3>1. mishap' = mishap /\ \A q \in Procs : fd'[q] = fd[q] /\ got'[q] = got[q]
      BY <1>0, <2>1, <2>3 DEF Files
    <3>2. \A f : Good(f)' <=> Good(f)
      BY <2>1, <3>1 DEF Good
    <3> QED
      BY <1>0, <2>1, <2>2, <3>1, <3>2 DEF Images
  <2>4. CASE mishap = "none" /\ \E q \in Workers : pc[q] = "fetch"
    <3>1. \A q \in Procs : pc'[q] \notin Downloading
      BY <1>0, <2>2, <2>4 DEF Images, Downloading
    <3>2. base # None => content[base] = Whole /\ \A q \in Procs : fd[q] # base
      BY <1>0, <2>4 DEF Images
    <3>3. base' # None => content'[base'] = Whole /\ \A q \in Procs : fd'[q] # base'
      BY <2>1, <2>2, <3>2
    <3> QED
      BY <3>1, <3>3 DEF Images, Good
  <2>5. CASE mishap # "none" /\ \E q \in Workers : pc[q] = "fetch"
    <3>1. mishap' = "spoilt"
      BY <1>0, <2>1, <2>5
    <3> QED
      BY <3>1 DEF Images
  <2> QED
    BY <2>3, <2>4, <2>5
<1> QED
  BY <1>2, <1>3, <1>4 DEF Next

-----------------------------------------------------------------------------
(* The theorems.                                                            *)

LEMMA Inductive == Spec => []IInv
<1>1. IInv /\ [Next]_vars => IInv'
  BY TypesKeep, NamesKeep, MachinesKeep, LeavingsKeep, FilesKeep, ImagesKeep DEF IInv
<1> QED
  BY InitIInv, <1>1, PTL DEF Spec

\* Every variable keeps its type, whoever starts, stops and cleans what (vm.py).
THEOREM VmTypes == Spec => []TypeOK
<1>1. IInv => TypeOK
  BY DEF IInv
<1> QED
  BY Inductive, <1>1, PTL

\* The cached image that nobody is writing to is whole, for any number of overlapping
\* downloads (vm.py:278-315).
THEOREM TheBaseIsWhole == Spec => []BaseIsWhole
<1>1. IInv => BaseIsWhole
  BY Distinct DEF IInv, Images, Good, BaseIsWhole
<1> QED
  BY Inductive, <1>1, PTL

\* A launch that is over has left neither its overlay nor its seed nor a running QEMU,
\* but for those that the property excuses (vm.py:363-374, 402-418 and 445-480, gui.py:102-111).
THEOREM NothingIsLeftBehind == Spec => []LeavesNothing
<1>1. ASSUME IInv, NEW p \in Procs, Gone(p)
      PROVE  /\ name[p] \in overlays => \E q \in Procs : name[q] = name[p] /\ Excused(q)
             /\ p \in seeds \/ qemu[p] = "up" => Excused(p)
  <2>0. Names /\ Machines /\ Leavings /\ held \in Workers \cup {None} /\ qemu[p] \in {"none", "up", "ended", "stopped"}
    BY <1>1 DEF IInv, TypeOK
  <2>1. CASE Excused(p)
    BY <2>1
  <2>2. CASE p \in Workers /\ ~Excused(p)
    <3>1. p = held /\ app = "closed" /\ qemu[held] # "ended"
      BY <1>1, <2>2 DEF Excused, Gone
    <3>2. /\ qemu[p] = "stopped" /\ p \notin seeds
          /\ name[p] \in overlays => \E q \in Procs : q # held /\ name[q] = name[held]
      BY Distinct, <2>0, <2>2, <3>1 DEF Leavings
    <3>3. ASSUME NEW q \in Procs, q # held, name[q] = name[held] PROVE Excused(q)
      BY Distinct, <2>0, <2>2, <3>1, <3>3 DEF Names, Excused
    <3> QED
      BY <3>1, <3>2, <3>3
  <2>3. CASE p \in Terminals /\ ~Excused(p)
    <3>1. pc[p] = "over"
      BY <1>1, <2>3 DEF Excused, Gone, Ended
    <3> QED
      BY <2>0, <2>3, <3>1 DEF Leavings, Names
  <2> QED
    BY Distinct, <2>1, <2>2, <2>3
<1>2. IInv => LeavesNothing
  BY <1>1 DEF LeavesNothing
<1> QED
  BY Inductive, <1>2, PTL

\* No VM loses its disk while it runs, for the reasons the property leaves
\* (vm.py:363-374 and 466-496).
THEOREM TheDiskOutlivesTheVm == Spec => DiskOutlivesVm
<1> DEFINE Kept == \A p \in Procs : qemu[p] = "up" /\ name[p] \in overlays =>
                      \/ qemu'[p] # "up" \/ name[p] \in overlays'
                      \/ Clean \/ pc[p] = "finally" \/ \E q \in Procs \ {p} : name[q] = name[p]
<1>1. ASSUME IInv, [Next]_vars PROVE [Kept]_vars
  <2> SUFFICES ASSUME NEW p \in Procs, Next, qemu[p] = "up", name[p] \in overlays,
                      name[p] \notin overlays', ~Clean, pc[p] # "finally"
               PROVE  \/ qemu'[p] # "up" \/ \E q \in Procs \ {p} : name[q] = name[p]
    BY <1>1
  <2> USE DEF Goto, download, machines, owner
  <2>0. Machines /\ held \in Workers \cup {None}
    BY <1>1 DEF IInv, TypeOK
  <2>1. ASSUME NEW q \in Procs, Launch(q) \/ QemuEnds(q)
        PROVE  pc[q] = "finally" /\ name[q] = name[p]
    <3>1. overlays \subseteq overlays' \/ Finally(q)
      BY <2>1 DEF Launch, Start, Connect, Fetch, FetchEnds, Rename, FetchFails, Prepare, Spawn, Bind,
         QemuEnds, RunQemu, Waited, Interrupt, Terminated
    <3> QED
      BY <3>1 DEF Finally, Remove
  <2>2. CASE CloseWindow \/ Terminate \/ Exit
    BY <2>2 DEF CloseWindow, Terminate, Exit
  <2>3. CASE Sweep
    <3>1. app = "sweeping" /\ overlays' = overlays \ {name[held]}
      BY <2>3 DEF Sweep, Remove
    <3>2. held # None /\ qemu[held] = "stopped"
      BY <2>0, <3>1 DEF Machines
    <3>3. held \in Procs \ {p} /\ name[held] = name[p]
      BY Distinct, <2>0, <3>1, <3>2
    <3> QED
      BY <3>3
  <2> QED
    BY <2>1, <2>2, <2>3 DEF Next
<1> QED
  BY Inductive, <1>1, PTL DEF Spec, DiskOutlivesVm

=============================================================================
