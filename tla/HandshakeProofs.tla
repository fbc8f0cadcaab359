--------------------------- MODULE HandshakeProofs ---------------------------
(***************************************************************************)
(* Proofs about Handshake, whichever step may fail, whether or not the      *)
(* supervisor may be killed and another session launched meanwhile.         *)
(***************************************************************************)
EXTENDS Handshake, TLAPS

(* The inductive invariant, in parts.                                       *)

\* The intermediate child lets go of its copies before it forks init, which
\* would inherit them: until then there is no init, in the cgroup or elsewhere.
MidHolds ==
    /\ mid \in {"close", "join", "fork"} => inner = "unborn" /\ "inner" \notin members
    /\ mid # "close" => /\ "mid" \notin writers["go"]
                        /\ "mid" \notin readers["pid"] /\ "mid" \notin readers["ready"]

\* What init still holds tells how far it has come.
InnerHolds ==
    /\ "inner" \in writers["pid"] => inner = "setup"
    /\ "inner" \in writers["ready"] => inner \in {"setup", "signal"}
    /\ "inner" \in readers["go"] => inner \in {"setup", "signal", "await"}
    /\ "inner" \notin writers["go"] \cup readers["pid"] \cup readers["ready"]
    /\ "inner" \in listener => inner \in {"signal", "await"}

\* The supervisor sends the go byte only after it has heard both messages and
\* started the monitor, and init goes on only with that byte.
Heard ==
    /\ sup \in {"steal", "listen", "start"} => relayed /\ ready
    /\ sup \in {"release", "running"} => monitored
    /\ monitored => /\ relayed /\ ready
                    /\ sup \in {"release", "running", "destroy", "rmdir", "gone", "crashed"}
    /\ "go" \in full => monitored
    /\ inner \in {"signal", "await", "exec", "payload"} => filtered
    /\ inner \in {"exec", "payload"} => monitored

IInv == TypeOK /\ MidHolds /\ InnerHolds /\ Heard

-----------------------------------------------------------------------------
(* The inductive invariant holds initially and is kept by every step.       *)

\* It holds when launch() has just forked.
LEMMA InitIInv == Init => IInv
<1> SUFFICES ASSUME Init PROVE IInv
  OBVIOUS
<1> USE DEF Init, Procs, Pipes
<1>1. TypeOK
  BY DEF TypeOK
<1>2. MidHolds /\ InnerHolds /\ Heard
  BY DEF MidHolds, InnerHolds, Heard
<1> QED
  BY <1>1, <1>2 DEF IInv

\* A step of the intermediate child keeps it: what init inherits at the fork is
\* what the child has not closed.
LEMMA MidKeeps == ASSUME IInv, Mid PROVE IInv'
<1> USE DEF IInv, TypeOK, Procs, Pipes, heard, Close, Bury
<1>1. CASE MidClose
  <2>1. TypeOK' /\ MidHolds'
    BY <1>1 DEF MidClose, MidHolds
  <2>2. InnerHolds' /\ Heard'
    BY <1>1 DEF MidClose, InnerHolds, Heard
  <2> QED
    BY <2>1, <2>2
<1>2. CASE MidJoin
  <2>1. TypeOK' /\ MidHolds'
    BY <1>2 DEF MidJoin, MidHolds
  <2>2. InnerHolds' /\ Heard'
    BY <1>2 DEF MidJoin, InnerHolds, Heard
  <2> QED
    BY <2>1, <2>2
<1>3. CASE MidFork
  <2>1. TypeOK'
    BY <1>3 DEF MidFork
  <2>2. MidHolds'
    BY <1>3 DEF MidFork, MidHolds
  <2>3. InnerHolds'
    BY <1>3 DEF MidFork, MidHolds, InnerHolds
  <2>4. Heard'
    BY <1>3 DEF MidFork, MidHolds, Heard
  <2> QED
    BY <2>1, <2>2, <2>3, <2>4
<1>4. CASE MidRelay
  <2>1. TypeOK' /\ MidHolds'
    BY <1>4 DEF MidRelay, MidHolds
  <2>2. InnerHolds' /\ Heard'
    BY <1>4 DEF MidRelay, InnerHolds, Heard
  <2> QED
    BY <2>1, <2>2
<1>5. CASE MidExit
  <2>1. TypeOK' /\ MidHolds'
    BY <1>5 DEF MidExit, MidHolds
  <2>2. InnerHolds' /\ Heard'
    BY <1>5 DEF MidExit, InnerHolds, Heard
  <2> QED
    BY <2>1, <2>2
<1> QED
  BY <1>1, <1>2, <1>3, <1>4, <1>5 DEF Mid

\* A step of init keeps it: each stage closes what the next may not hold.
LEMMA InnerKeeps == ASSUME IInv, Inner \/ PayloadExit PROVE IInv'
<1> USE DEF IInv, TypeOK, Procs, Pipes, heard, Close, Bury, MidHolds, InnerHolds, Heard
<1>1. CASE InnerSetup
  BY <1>1 DEF InnerSetup
<1>2. CASE InnerSignal
  BY <1>2 DEF InnerSignal
<1>3. CASE InnerGo
  BY <1>3 DEF InnerGo
<1>4. CASE InnerExec
  BY <1>4 DEF InnerExec
<1>5. CASE InnerExit
  BY <1>5 DEF InnerExit
<1>6. CASE PayloadExit
  BY <1>6 DEF PayloadExit
<1> QED
  BY <1>1, <1>2, <1>3, <1>4, <1>5, <1>6 DEF Inner

\* A step of the supervisor keeps it: what it has heard it does not forget, and
\* no step gives init anything.
LEMMA SupKeeps == ASSUME IInv, Sup \/ SupCrash PROVE IInv'
<1> USE DEF IInv, TypeOK, Procs, Pipes, heard, Close, Bury, MidHolds, InnerHolds, Heard
<1>1. CASE SupClose
  BY <1>1 DEF SupClose
<1>2. CASE SupReadPid
  <2>1. full' \subseteq full
    BY <1>2 DEF SupReadPid, ReadOutcome
  <2>2. TypeOK'
    BY <1>2, <2>1 DEF SupReadPid
  <2>3. MidHolds' /\ InnerHolds' /\ Heard'
    BY <1>2, <2>1 DEF SupReadPid
  <2> QED
    BY <2>2, <2>3
<1>3. CASE SupReadReady
  <2>1. full' \subseteq full
    BY <1>3 DEF SupReadReady, ReadOutcome
  <2>2. TypeOK'
    BY <1>3, <2>1 DEF SupReadReady
  <2>3. MidHolds' /\ InnerHolds' /\ Heard'
    BY <1>3, <2>1 DEF SupReadReady
  <2> QED
    BY <2>2, <2>3
<1>4. CASE SupSteal
  <2>1. TypeOK'
    BY <1>4 DEF SupSteal
  <2>2. MidHolds' /\ InnerHolds' /\ Heard'
    BY <1>4 DEF SupSteal
  <2> QED
    BY <2>1, <2>2
<1>5. CASE SupListen
  BY <1>5 DEF SupListen
<1>6. CASE SupGiveUp
  BY <1>6 DEF SupGiveUp
<1>7. CASE SupStart
  BY <1>7 DEF SupStart
<1>8. CASE SupRelease
  <2>1. TypeOK'
    BY <1>8 DEF SupRelease
  <2>2. MidHolds' /\ InnerHolds'
    BY <1>8 DEF SupRelease
  <2>3. Heard'
    BY <1>8 DEF SupRelease
  <2> QED
    BY <2>1, <2>2, <2>3
<1>9. CASE SupFinish
  BY <1>9 DEF SupFinish
<1>10. CASE SupKill
  <2>1. \A p \in Pipes : writers'[p] = writers[p] \ members /\ readers'[p] = readers[p] \ members
    BY <1>10 DEF SupKill
  <2>2. TypeOK'
    BY <1>10 DEF SupKill
  <2>3. MidHolds'
    BY <1>10, <2>1 DEF SupKill
  <2>4. InnerHolds'
    BY <1>10, <2>1 DEF SupKill
  <2>5. Heard'
    BY <1>10 DEF SupKill
  <2> QED
    BY <2>2, <2>3, <2>4, <2>5
<1>11. CASE SupRmdir
  BY <1>11 DEF SupRmdir
<1>12. CASE SupCrash
  BY <1>12 DEF SupCrash
<1> QED
  BY <1>1, <1>2, <1>3, <1>4, <1>5, <1>6, <1>7, <1>8, <1>9, <1>10, <1>11, <1>12 DEF Sup

\* The other session's fork copies only the supervisor's ends.
LEMMA StrangerKeeps == ASSUME IInv, StrangerFork \/ StrangerExit PROVE IInv'
<1> USE DEF IInv, TypeOK, Procs, Pipes, heard, Bury, MidHolds, InnerHolds, Heard
<1>1. CASE StrangerFork
  BY <1>1 DEF StrangerFork
<1>2. CASE StrangerExit
  BY <1>2 DEF StrangerExit
<1> QED
  BY <1>1, <1>2

\* A step that changes nothing keeps it.
LEMMA StutterKeeps == ASSUME IInv, UNCHANGED vars PROVE IInv'
BY DEF IInv, TypeOK, Procs, Pipes, MidHolds, InnerHolds, Heard, vars, heard

LEMMA NextIInv == IInv /\ [Next]_vars => IInv'
<1> SUFFICES ASSUME IInv, [Next]_vars PROVE IInv'
  OBVIOUS
<1>1. CASE Mid
  BY <1>1, MidKeeps
<1>2. CASE Inner \/ PayloadExit
  BY <1>2, InnerKeeps
<1>3. CASE Sup \/ SupCrash
  BY <1>3, SupKeeps
<1>4. CASE StrangerFork \/ StrangerExit
  BY <1>4, StrangerKeeps
<1>5. CASE UNCHANGED vars
  BY <1>5, StutterKeeps
<1> QED
  BY <1>1, <1>2, <1>3, <1>4, <1>5 DEF Next

LEMMA SpecIInv == Spec => []IInv
BY InitIInv, NextIInv, PTL DEF Spec

-----------------------------------------------------------------------------
(* The theorems.                                                            *)

\* launch() keeps every variable's type, and the supervisor never becomes a
\* member of the cgroup it kills.
THEOREM HandshakeTypes == Spec => []TypeOK
<1>1. IInv => TypeOK
  BY DEF IInv
<1> QED
  BY <1>1, SpecIInv, PTL

\* Whatever fails and whoever dies, the payload's first call is made under the
\* filter, with the monitor started and both messages heard.
THEOREM StartIsMonitored == Spec => []NoUnmonitoredWindow
<1>1. IInv => NoUnmonitoredWindow
  BY DEF IInv, Heard, NoUnmonitoredWindow
<1> QED
  BY <1>1, SpecIInv, PTL

\* The payload starts without the listener and without any end of any pipe.
THEOREM PayloadIsBare == Spec => []PayloadHoldsNothing
<1>1. IInv => PayloadHoldsNothing
  <2> SUFFICES ASSUME IInv, inner \in {"exec", "payload"}
               PROVE  "inner" \notin listener \cup UNION {writers[p] \cup readers[p] : p \in Pipes}
    BY DEF PayloadHoldsNothing
  <2>1. "inner" \notin listener
    BY DEF IInv, InnerHolds
  <2>2. \A p \in Pipes : "inner" \notin writers[p] /\ "inner" \notin readers[p]
    BY DEF IInv, InnerHolds, Pipes
  <2> QED
    BY <2>1, <2>2
<1> QED
  BY <1>1, SpecIInv, PTL

=============================================================================
