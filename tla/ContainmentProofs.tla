-------------------------- MODULE ContainmentProofs --------------------------
(***************************************************************************)
(* Proofs about Containment, for every set of tasks, every mix of calls,    *)
(* both policies and every kernel feature the constants stand for.          *)
(***************************************************************************)
EXTENDS Containment, TLAPS

(* The inductive invariant, in parts.                                       *)

\* A live notification belongs to a parked task and carries a fresh id.
Notes ==
    /\ \A t \in Tasks : note[t] # 0 => task[t] = "parked" /\ call[t] \in Calls /\ note[t] <= issued
    /\ \A t \in queued : note[t] # 0

\* The call the monitor is about to answer is the one it judged, if it is live.
Handling == {"judge", "inject", "allow", "deny", "refuse", "freeze"}
Held ==
    /\ mpc \in Handling => /\ cur.id # 0 /\ cur.id <= issued
                           /\ note[cur.task] = cur.id => /\ call[cur.task] = cur.call
                                                      /\ cur.task \notin queued
    /\ mpc \in {"inject", "allow"} => cur.call \in Vetted

\* The counted violations and the record the result is built from.
Record ==
    /\ mpc \in {"freeze", "refuse", "report", "reportFrozen", "announce", "halt"} => violations > 0
    /\ freezing \/ frozenSeen \/ state = "frozen" \/ verdict = "contained" => violations > 0
    /\ first => violations > 0
    /\ fdOpen /\ mpc \notin {"freeze", "refuse", "report", "reportFrozen"} => (violations > 0 <=> first)

\* Where Session.run is bounds what it has done.
Progress ==
    /\ rpc = "start" <=> mpc = "unborn"
    /\ joined => mpc = "ended" /\ (violations > 0 <=> first)
    /\ rpc \in {"start", "release", "wait", "kill", "reap", "stop", "join"} => ~joined /\ fdOpen
    /\ rpc \in {"start", "release", "wait", "kill", "reap", "stop", "join", "close", "flag", "verdict"}
          => verdict = "none"
    /\ joined /\ verdict = "clean" => violations = 0
    /\ rpc # "done" => cgUp

\* Until the go byte nothing has happened that could freeze anything.
Parked0 ==
    task[Main] = "held" =>
        /\ ~freezing /\ mpc \in {"unborn", "boot", "top", "recv", "ended"}
        /\ \A t \in Tasks : note[t] = 0 /\ (t # Main => task[t] = "absent")

\* A kernel with cgroup.kill never thaws, and teardown spares nobody.
Final ==
    KillAtomic => /\ rpc # "thaw"
                  /\ rpc \in {"drain", "done"} => \A t \in Tasks : ~Alive(t)

\* Once the sandbox is announced frozen the loop only has its end before it.
Silence ==
    state = "frozen" => mpc \in {"halt", "top", "ended"} /\ (mpc = "top" => stopFlag)

IInv == TypeOK /\ Notes /\ Held /\ OnlyVettedPerformed /\ Record /\ Progress /\ Parked0
        /\ Final /\ Silence

-----------------------------------------------------------------------------
(* The inductive invariant holds initially and is kept by every step.       *)

\* The inductive invariant holds of a session that launch() has just returned.
LEMMA InitIInv == Init => IInv
<1> SUFFICES ASSUME Init PROVE IInv
  OBVIOUS
<1> USE ContainmentAssumption DEF Init
<1>1. TypeOK
  BY DEF TypeOK, NoRequest
<1>2. Notes /\ Held /\ OnlyVettedPerformed
  BY DEF Notes, Held, Handling, OnlyVettedPerformed
<1>3. Record /\ Progress /\ Silence
  BY DEF Record, Progress, Silence
<1>4. Parked0 /\ Final
  BY DEF Parked0, Final
<1> QED
  BY <1>1, <1>2, <1>3, <1>4 DEF IInv

TasksTyped ==
    /\ task \in [Tasks -> {"absent", "held", "user", "parked", "returning",
                           "frozen", "dying", "dead"}]
    /\ call \in [Tasks -> Calls \cup {"none"}]
    /\ note \in [Tasks -> Nat]

\* What a kill leaves as it was, whichever tasks it spares.
KillEffect ==
    /\ TasksTyped'
    /\ queued' \subseteq queued /\ stale' \in BOOLEAN
    /\ outer' \in {"alive", "dying", "zombie", "reaped"}
    /\ \A t \in Tasks :
          \/ task'[t] = task[t] /\ call'[t] = call[t] /\ note'[t] = note[t]
          \/ /\ task'[t] = IF Alive(t) THEN "dying" ELSE task[t]
             /\ note'[t] = 0 /\ t \notin queued'
    /\ KillAtomic /\ cgUp => \A t \in Tasks : ~Alive(t)'

\* What Cgroup.kill changes, and that it makes no task run.
LEMMA KillKeeps == ASSUME TypeOK, KillCgroup PROVE KillEffect
<1> USE DEF KillEffect, TasksTyped
<1>1. CASE cgUp
  <2>1. PICK spared \in (IF KillAtomic THEN {{}} ELSE SUBSET (Tasks \ {Main})) :
             Doom(Tasks \ spared)
    BY <1>1 DEF KillCgroup
  <2>2. outer' \in {"alive", "dying", "zombie", "reaped"}
    BY <1>1 DEF KillCgroup, TypeOK
  <2>3. queued' \subseteq queued /\ stale' \in BOOLEAN
    BY <2>1 DEF Doom, Withdraw, TypeOK
  <2> QED
    BY <1>1, <2>1, <2>2, <2>3 DEF Doom, Withdraw, TypeOK, Alive
<1>2. CASE ~cgUp
  BY <1>2 DEF KillCgroup, TypeOK
<1> QED
  BY <1>1, <1>2

\* An answer reaches only the notification it was judged for: it ends that one,
\* touches no other, and carries out nothing but a vetted call.
AnswerEffect ==
    /\ TasksTyped'
    /\ performed' \subseteq Calls \cap Vetted
    /\ \A t \in Tasks :
          \/ task'[t] = task[t] /\ call'[t] = call[t] /\ note'[t] = note[t]
          \/ /\ task[t] = "parked" /\ task'[t] = "returning"
             /\ note'[t] = 0 /\ t \notin queued

\* What an answer to a notification (Listener.allow, deny) changes.
LEMMA AnswerKeeps ==
  ASSUME IInv, NEW b \in BOOLEAN, Answer(b), mpc \in Handling, b => cur.call \in Vetted
  PROVE  AnswerEffect
<1> USE DEF IInv, TypeOK, AnswerEffect, TasksTyped
<1>1. CASE note[cur.task] = cur.id
  <2>1. /\ note[cur.task] # 0 /\ task[cur.task] = "parked"
        /\ call[cur.task] = cur.call /\ call[cur.task] \in Calls
        /\ cur.task \notin queued
    BY <1>1 DEF Held, Notes
  <2>2. /\ task' = [task EXCEPT ![cur.task] = "returning"]
        /\ note' = [note EXCEPT ![cur.task] = 0]
        /\ \/ b /\ performed' = performed \cup {call[cur.task]} /\ call' = call
           \/ performed' = performed /\ call' = [call EXCEPT ![cur.task] = "none"]
    BY <1>1 DEF Answer
  <2>3. b => call[cur.task] \in Calls \cap Vetted
    BY <2>1
  <2>4. performed \subseteq Calls \cap Vetted
    BY DEF OnlyVettedPerformed
  <2>5. performed' \subseteq Calls \cap Vetted
    <3> HIDE DEF IInv, TypeOK
    <3>1. CASE b /\ performed' = performed \cup {call[cur.task]}
      BY <3>1, <2>3, <2>4, Zenon
    <3>2. CASE performed' = performed
      BY <3>2, <2>4
    <3> QED
      BY <2>2, <3>1, <3>2
  <2> QED
    BY <2>1, <2>2, <2>5
<1>2. CASE note[cur.task] # cur.id
  BY <1>2 DEF Answer, OnlyVettedPerformed
<1> QED
  BY <1>1, <1>2

\* Every step of the kernel, the monitor and the session keeps the invariant.
LEMMA NextIInv == IInv /\ [Next]_vars => IInv'
<1> SUFFICES ASSUME IInv, [Next]_vars PROVE IInv'
  OBVIOUS
<1> USE ContainmentAssumption DEF IInv, Handling, Alive
<1>1. CASE Boot
  BY <1>1 DEF Boot, TypeOK, Notes, Held, OnlyVettedPerformed, Record, Progress, Parked0, Final, Silence,
     kernel, monitor, runner
<1>2. CASE Top
  BY <1>2 DEF Top, Finish, TypeOK, Notes, Held, OnlyVettedPerformed, Record, Progress, Parked0, Final, Silence,
     kernel, monitor, runner
<1>3. CASE Receive
  BY <1>3 DEF Receive, TypeOK, Notes, Held, OnlyVettedPerformed, Record, Progress, Parked0, Final, Silence,
     kernel, monitor, runner
<1>4. CASE ReceiveNone
  <2>1. stale' \in BOOLEAN
    BY <1>4 DEF ReceiveNone
  <2>2. TypeOK'
    BY <1>4, <2>1 DEF ReceiveNone, kernel, monitor, runner, Finish, TypeOK
  <2>3. (Notes /\ Held /\ OnlyVettedPerformed)'
    BY <1>4, <2>1 DEF ReceiveNone, kernel, monitor, runner, Finish, TypeOK, Notes, Held, OnlyVettedPerformed
  <2>4. (Record /\ Progress /\ Silence)'
    BY <1>4, <2>1 DEF ReceiveNone, kernel, monitor, runner, Finish, TypeOK, Held, Record, Progress, Silence
  <2>5. (Parked0 /\ Final)'
    BY <1>4, <2>1 DEF ReceiveNone, kernel, monitor, runner, Finish, TypeOK, Notes, Progress, Parked0, Final
  <2> QED
    BY <2>2, <2>3, <2>4, <2>5
<1>5. CASE Judge
  BY <1>5 DEF Judge, Verdicts, Live, Vetted, TypeOK, Notes, Held, OnlyVettedPerformed, Record, Progress, Parked0, Final, Silence,
     kernel, monitor, runner
<1>6. CASE Inject
  <2>1. CASE Answer(TRUE) /\ mpc' = "top"
    <3>1. cur.call \in Vetted /\ mpc \in Handling
      BY <1>6 DEF Inject, Held
    <3>2. AnswerEffect
      BY <2>1, <3>1, AnswerKeeps
    <3>3. TypeOK'
      BY <1>6, <2>1, <3>2 DEF Inject, AnswerEffect, TasksTyped, TypeOK, runner
    <3>4. Notes'
      BY <1>6, <2>1, <3>2 DEF Inject, AnswerEffect, TypeOK, Notes
    <3>5. Held'
      BY <1>6, <2>1 DEF Inject, Held
    <3>6. OnlyVettedPerformed'
      BY <3>2 DEF AnswerEffect, OnlyVettedPerformed
    <3>7. (Record /\ Progress /\ Silence)'
      BY <1>6, <2>1 DEF Inject, TypeOK, Record, Progress, Silence, runner
    <3>8. (Parked0 /\ Final)'
      BY <1>6, <2>1, <3>2 DEF Inject, AnswerEffect, TasksTyped, TypeOK, Notes, Progress, Parked0, Final, runner
    <3> QED
      BY <3>3, <3>4, <3>5, <3>6, <3>7, <3>8
  <2>2. CASE mpc' = "allow" /\ UNCHANGED <<task, note, performed, call>>
    BY <1>6, <2>2 DEF Inject, TypeOK, Notes, Held, OnlyVettedPerformed, Record, Progress, Parked0, Final, Silence,
     kernel, monitor, runner
  <2> QED
    BY <1>6, <2>1, <2>2 DEF Inject
<1>7. CASE Reply
  <2>1. CASE fdOpen
    <3>1. Answer(mpc = "allow") /\ (mpc = "allow" => cur.call \in Vetted) /\ mpc \in Handling
      BY <1>7, <2>1 DEF Reply, Held
    <3>2. AnswerEffect
      BY <3>1, AnswerKeeps
    <3>3. TypeOK'
      BY <1>7, <2>1, <3>2 DEF Reply, AnswerEffect, TasksTyped, TypeOK, runner
    <3>4. Notes'
      BY <1>7, <2>1, <3>2 DEF Reply, AnswerEffect, TypeOK, Notes
    <3>5. Held'
      BY <1>7, <2>1 DEF Reply, Held
    <3>6. OnlyVettedPerformed'
      BY <3>2 DEF AnswerEffect, OnlyVettedPerformed
    <3>7. (Record /\ Progress /\ Silence)'
      BY <1>7, <2>1 DEF Reply, TypeOK, Record, Progress, Silence, runner
    <3>8. (Parked0 /\ Final)'
      BY <1>7, <2>1, <3>2 DEF Reply, AnswerEffect, TasksTyped, TypeOK, Notes, Progress, Parked0, Final, runner
    <3> QED
      BY <3>3, <3>4, <3>5, <3>6, <3>7, <3>8
  <2>2. CASE ~fdOpen
    <3>1. /\ mpc' = "ended" /\ state' \in {"exited", state}
          /\ UNCHANGED <<task, note, performed, call, queued, stale, issued, freezing, cgUp,
                         outer, freezes, cur, stopFlag, violations, first, runner>>
      BY <1>7, <2>2 DEF Reply, Finish
    <3>2. (TypeOK /\ Notes /\ OnlyVettedPerformed)'
      BY <3>1 DEF TypeOK, Notes, OnlyVettedPerformed, runner
    <3>3. (Held /\ Record /\ Progress /\ Silence)'
      BY <1>7, <2>2, <3>1 DEF Reply, TypeOK, Held, Record, Progress, Silence, runner
    <3>4. (Parked0 /\ Final)'
      BY <3>1 DEF TypeOK, Notes, Progress, Parked0, Final, runner
    <3> QED
      BY <3>2, <3>3, <3>4
  <2> QED
    BY <2>1, <2>2
<1>8. CASE Freeze
  BY <1>8 DEF Freeze, TypeOK, Notes, Held, OnlyVettedPerformed, Record, Progress, Parked0, Final, Silence,
     kernel, monitor, runner
<1>9. CASE FreezeFailed
  <2>1. KillEffect
    BY <1>9, KillKeeps DEF FreezeFailed
  <2>2. TypeOK'
    BY <1>9, <2>1 DEF FreezeFailed, kernel, monitor, runner, KillEffect, TasksTyped, TypeOK
  <2>3. (Notes /\ Held /\ OnlyVettedPerformed)'
    BY <1>9, <2>1 DEF FreezeFailed, kernel, monitor, runner, KillEffect, TasksTyped, TypeOK, Notes, Held, OnlyVettedPerformed
  <2>4. (Record /\ Progress /\ Silence)'
    BY <1>9 DEF FreezeFailed, kernel, monitor, runner, TypeOK, Record, Progress, Silence
  <2>5. (Parked0 /\ Final)'
    BY <1>9, <2>1 DEF FreezeFailed, kernel, monitor, runner, KillEffect, TasksTyped, TypeOK, Notes, Progress, Parked0, Final
  <2> QED
    BY <2>2, <2>3, <2>4, <2>5
<1>10. CASE Report
  BY <1>10 DEF Report, TypeOK, Notes, Held, OnlyVettedPerformed, Record, Progress, Parked0, Final, Silence,
     kernel, monitor, runner
<1>11. CASE Announce
  BY <1>11 DEF Announce, TypeOK, Notes, Held, OnlyVettedPerformed, Record, Progress, Parked0, Final, Silence,
     kernel, monitor, runner
<1>12. CASE Halt
  BY <1>12 DEF Halt, TypeOK, Notes, Held, OnlyVettedPerformed, Record, Progress, Parked0, Final, Silence,
     kernel, monitor, runner
<1>13. CASE Start
  BY <1>13 DEF Start, TypeOK, Notes, Held, OnlyVettedPerformed, Record, Progress, Parked0, Final, Silence,
     kernel, monitor, runner
<1>14. CASE Release
  BY <1>14 DEF Release, TypeOK, Notes, Held, OnlyVettedPerformed, Record, Progress, Parked0, Final, Silence,
     kernel, monitor, runner
<1>15. CASE ReleaseBroken
  BY <1>15 DEF ReleaseBroken, TypeOK, Notes, Held, OnlyVettedPerformed, Record, Progress, Parked0, Final, Silence,
     kernel, monitor, runner
<1>16. CASE SeeFrozen
  BY <1>16 DEF SeeFrozen, TypeOK, Notes, Held, OnlyVettedPerformed, Record, Progress, Parked0, Final, Silence,
     kernel, monitor, runner
<1>17. CASE Reap
  BY <1>17 DEF Reap, TypeOK, Notes, Held, OnlyVettedPerformed, Record, Progress, Parked0, Final, Silence,
     kernel, monitor, runner
<1>18. CASE WaitTimeout
  BY <1>18 DEF WaitTimeout, TypeOK, Notes, Held, OnlyVettedPerformed, Record, Progress, Parked0, Final, Silence,
     kernel, monitor, runner
<1>19. CASE Terminate
  <2>1. KillEffect
    BY <1>19, KillKeeps DEF Terminate
  <2>2. TypeOK'
    BY <1>19, <2>1 DEF Terminate, kernel, monitor, runner, KillEffect, TasksTyped, TypeOK
  <2>3. (Notes /\ Held /\ OnlyVettedPerformed)'
    BY <1>19, <2>1 DEF Terminate, kernel, monitor, runner, KillEffect, TasksTyped, TypeOK, Notes, Held, OnlyVettedPerformed
  <2>4. (Record /\ Progress /\ Silence)'
    BY <1>19 DEF Terminate, kernel, monitor, runner, TypeOK, Record, Progress, Silence
  <2>5. (Parked0 /\ Final)'
    BY <1>19, <2>1 DEF Terminate, kernel, monitor, runner, KillEffect, TasksTyped, TypeOK, Notes, Progress, Parked0, Final
  <2> QED
    BY <2>2, <2>3, <2>4, <2>5
<1>20. CASE ReapTimeout
  BY <1>20 DEF ReapTimeout, TypeOK, Notes, Held, OnlyVettedPerformed, Record, Progress, Parked0, Final, Silence,
     kernel, monitor, runner
<1>21. CASE Stop
  BY <1>21 DEF Stop, TypeOK, Notes, Held, OnlyVettedPerformed, Record, Progress, Parked0, Final, Silence,
     kernel, monitor, runner
<1>22. CASE Join
  BY <1>22 DEF Join, TypeOK, Notes, Held, OnlyVettedPerformed, Record, Progress, Parked0, Final, Silence,
     kernel, monitor, runner
<1>23. CASE CloseListener
  <2>1. fdOpen' \in BOOLEAN
    BY <1>23 DEF CloseListener
  <2>2. TypeOK'
    BY <1>23, <2>1 DEF CloseListener, kernel, monitor, runner, TypeOK
  <2>3. (Notes /\ Held /\ OnlyVettedPerformed)'
    BY <1>23, <2>1 DEF CloseListener, kernel, monitor, runner, TypeOK, Notes, Held, OnlyVettedPerformed
  <2>4. (Record /\ Progress /\ Silence)'
    BY <1>23, <2>1 DEF CloseListener, kernel, monitor, runner, TypeOK, Held, Record, Progress, Silence
  <2>5. (Parked0 /\ Final)'
    BY <1>23, <2>1 DEF CloseListener, kernel, monitor, runner, TypeOK, Notes, Progress, Parked0, Final
  <2> QED
    BY <2>2, <2>3, <2>4, <2>5
<1>24. CASE ReadFlag
  BY <1>24 DEF ReadFlag, TypeOK, Notes, Held, OnlyVettedPerformed, Record, Progress, Parked0, Final, Silence,
     kernel, monitor, runner
<1>25. CASE GiveVerdict
  BY <1>25 DEF GiveVerdict, TypeOK, Notes, Held, OnlyVettedPerformed, Record, Progress, Parked0, Final, Silence,
     kernel, monitor, runner
<1>26. CASE LastReap
  BY <1>26 DEF LastReap, TypeOK, Notes, Held, OnlyVettedPerformed, Record, Progress, Parked0, Final, Silence,
     kernel, monitor, runner
<1>27. CASE Thaw
  <2>1. freezing' \in BOOLEAN
    BY <1>27 DEF Thaw
  <2>2. TypeOK'
    BY <1>27, <2>1 DEF Thaw, kernel, monitor, runner, TypeOK
  <2>3. (Notes /\ Held /\ OnlyVettedPerformed)'
    BY <1>27, <2>1 DEF Thaw, kernel, monitor, runner, TypeOK, Notes, Held, OnlyVettedPerformed
  <2>4. (Record /\ Progress /\ Silence)'
    BY <1>27, <2>1 DEF Thaw, kernel, monitor, runner, TypeOK, Held, Record, Progress, Silence
  <2>5. (Parked0 /\ Final)'
    BY <1>27, <2>1 DEF Thaw, kernel, monitor, runner, TypeOK, Notes, Progress, Parked0, Final
  <2> QED
    BY <2>2, <2>3, <2>4, <2>5
<1>28. CASE DestroyKill
  <2>1. KillEffect
    BY <1>28, KillKeeps DEF DestroyKill
  <2>2. TypeOK'
    BY <1>28, <2>1 DEF DestroyKill, kernel, monitor, runner, KillEffect, TasksTyped, TypeOK
  <2>3. (Notes /\ Held /\ OnlyVettedPerformed)'
    BY <1>28, <2>1 DEF DestroyKill, kernel, monitor, runner, KillEffect, TasksTyped, TypeOK, Notes, Held, OnlyVettedPerformed
  <2>4. (Record /\ Progress /\ Silence)'
    BY <1>28 DEF DestroyKill, kernel, monitor, runner, TypeOK, Record, Progress, Silence
  <2>5. (Parked0 /\ Final)'
    BY <1>28, <2>1 DEF DestroyKill, kernel, monitor, runner, KillEffect, TasksTyped, TypeOK, Notes, Progress, Parked0, Final
  <2> QED
    BY <2>2, <2>3, <2>4, <2>5
<1>29. CASE Remove
  BY <1>29 DEF Remove, TypeOK, Notes, Held, OnlyVettedPerformed, Record, Progress, Parked0, Final, Silence,
     kernel, monitor, runner
<1>30. CASE ManualKill
  <2>1. KillEffect
    BY <1>30, KillKeeps DEF ManualKill
  <2>2. TypeOK'
    BY <1>30, <2>1 DEF ManualKill, kernel, monitor, runner, KillEffect, TasksTyped, TypeOK
  <2>3. (Notes /\ Held /\ OnlyVettedPerformed)'
    BY <1>30, <2>1 DEF ManualKill, kernel, monitor, runner, KillEffect, TasksTyped, TypeOK, Notes, Held, OnlyVettedPerformed
  <2>4. (Record /\ Progress /\ Silence)'
    BY <1>30 DEF ManualKill, kernel, monitor, runner, TypeOK, Record, Progress, Silence
  <2>5. (Parked0 /\ Final)'
    BY <1>30, <2>1 DEF ManualKill, kernel, monitor, runner, KillEffect, TasksTyped, TypeOK, Notes, Progress, Parked0, Final
  <2> QED
    BY <2>2, <2>3, <2>4, <2>5
<1>31. CASE Zap
  BY <1>31 DEF Zap, Doom, Withdraw, TypeOK, Notes, Held, OnlyVettedPerformed, Record, Progress, Parked0, Final, Silence,
     kernel, monitor, runner
<1>32. CASE OuterExit
  BY <1>32 DEF OuterExit, TypeOK, Notes, Held, OnlyVettedPerformed, Record, Progress, Parked0, Final, Silence,
     kernel, monitor, runner
<1>33. ASSUME NEW t \in Tasks, Orphaned(t) PROVE IInv'
  BY <1>33 DEF Orphaned, Withdraw, TypeOK, Notes, Held, OnlyVettedPerformed, Record, Progress, Parked0, Final, Silence,
     kernel, monitor, runner
<1>34. ASSUME NEW t \in Tasks, Return(t) PROVE IInv'
  BY <1>34 DEF Return, TypeOK, Notes, Held, OnlyVettedPerformed, Record, Progress, Parked0, Final, Silence,
     kernel, monitor, runner
<1>35. ASSUME NEW t \in Tasks, Caught(t) PROVE IInv'
  BY <1>35 DEF Caught, Withdraw, TypeOK, Notes, Held, OnlyVettedPerformed, Record, Progress, Parked0, Final, Silence,
     kernel, monitor, runner
<1>36. ASSUME NEW t \in Tasks, Thawed(t) PROVE IInv'
  BY <1>36 DEF Thawed, TypeOK, Notes, Held, OnlyVettedPerformed, Record, Progress, Parked0, Final, Silence,
     kernel, monitor, runner
<1>37. ASSUME NEW t \in Tasks, Die(t) PROVE IInv'
  BY <1>37 DEF Die, TypeOK, Notes, Held, OnlyVettedPerformed, Record, Progress, Parked0, Final, Silence,
     kernel, monitor, runner
<1>38. ASSUME NEW t \in Tasks, Notify(t) PROVE IInv'
  BY <1>38 DEF Notify, Released, TypeOK, Notes, Held, OnlyVettedPerformed, Record, Progress, Parked0, Final, Silence,
     kernel, monitor, runner
<1>39. ASSUME NEW t \in Tasks, Interrupt(t) PROVE IInv'
  BY <1>39 DEF Interrupt, Withdraw, TypeOK, Notes, Held, OnlyVettedPerformed, Record, Progress, Parked0, Final, Silence,
     kernel, monitor, runner
<1>40. ASSUME NEW t \in Tasks, Exit(t) PROVE IInv'
  BY <1>40 DEF Exit, Doom, Withdraw, TypeOK, Notes, Held, OnlyVettedPerformed, Record, Progress, Parked0, Final, Silence,
     kernel, monitor, runner
<1>41. CASE UNCHANGED vars
  BY <1>41 DEF vars, TypeOK, Notes, Held, OnlyVettedPerformed, Record, Progress, Parked0, Final, Silence,
     kernel, monitor, runner
<1> QED
  BY <1>1, <1>2, <1>3, <1>4, <1>5, <1>6, <1>7, <1>8, <1>9, <1>10, <1>11,
     <1>12, <1>13, <1>14, <1>15, <1>16, <1>17, <1>18, <1>19, <1>20, <1>21,
     <1>22, <1>23, <1>24, <1>25, <1>26, <1>27, <1>28, <1>29, <1>30, <1>31,
     <1>32, <1>33, <1>34, <1>35, <1>36, <1>37, <1>38, <1>39, <1>40, <1>41  DEF
     Next, MonitorStep, RunnerStep, KernelStep, Payload

\* The inductive invariant holds in every state of every session.
THEOREM Invariance == Spec => []IInv
<1> QED
  BY InitIInv, NextIInv, PTL DEF Spec

-----------------------------------------------------------------------------
(* What follows from it.                                                    *)

\* Every variable keeps its type.
THEOREM TypeCorrect == Spec => []TypeOK
<1>1. IInv => TypeOK
  BY DEF IInv
<1> QED
  BY <1>1, Invariance, PTL

\* The kernel only ever carries out calls the policy vetted.
THEOREM OnlyVettedCalls == Spec => []OnlyVettedPerformed
<1>1. IInv => OnlyVettedPerformed
  BY DEF IInv
<1> QED
  BY <1>1, Invariance, PTL

\* A verdict given after the join is the monitor's own record, for good.
THEOREM VerdictIsTheRecord == Spec => []VerdictMatchesRecord
<1>1. IInv => VerdictMatchesRecord
  <2> SUFFICES ASSUME IInv, verdict # "none", joined
               PROVE  /\ (verdict = "contained" <=> violations > 0)
                      /\ (violations > 0 <=> first)
    BY DEF VerdictMatchesRecord
  <2>1. violations > 0 <=> first
    BY DEF IInv, Progress
  <2>2. verdict \in {"clean", "contained"} /\ violations \in Nat
    BY DEF IInv, TypeOK
  <2>3. verdict = "contained" <=> violations > 0
    BY <2>2 DEF IInv, Progress, Record
  <2> QED
    BY <2>1, <2>3
<1> QED
  BY <1>1, Invariance, PTL

\* Containment is never reported without a counted violation.
THEOREM ContainmentHasACause == Spec => []ContainedHasCause
<1>1. IInv => ContainedHasCause
  BY DEF IInv, Record, ContainedHasCause
<1> QED
  BY <1>1, Invariance, PTL

\* With cgroup.kill, a session that is over has left nothing running.
THEOREM TeardownIsComplete == Spec => []NothingLeftRunning
<1>1. IInv => NothingLeftRunning
  BY DEF IInv, Final, NothingLeftRunning
<1> QED
  BY <1>1, Invariance, PTL

\* After the announcement no answer is given and the loop only ends.
THEOREM FreezeIsSilent == Spec => SilentAfterFreeze
<1>1. IInv /\ [Next]_vars
         => [state = "frozen" => performed' = performed /\ mpc' \in {"halt", "top", "ended"}]_vars
  <2> SUFFICES ASSUME IInv, Next, state = "frozen"
               PROVE  performed' = performed /\ mpc' \in {"halt", "top", "ended"}
    OBVIOUS
  <2>1. mpc \in {"halt", "top", "ended"} /\ (mpc = "top" => stopFlag)
    BY DEF IInv, Silence
  <2>2. CASE MonitorStep
    BY <2>1, <2>2 DEF MonitorStep, Boot, Top, Receive, ReceiveNone, Judge, Inject, Reply, Freeze,
       FreezeFailed, Report, Announce, Halt, Finish, kernel
  <2>3. CASE RunnerStep
    <3>1. rpc # "start"
      BY <2>1 DEF IInv, Progress
    <3> QED
      BY <2>1, <2>3, <3>1 DEF RunnerStep, Start, Release, ReleaseBroken, SeeFrozen, Reap, WaitTimeout,
         Terminate, ReapTimeout, Stop, Join, CloseListener, ReadFlag, GiveVerdict, LastReap, Thaw,
         DestroyKill, Remove, kernel, monitor
  <2>4. CASE ManualKill \/ Zap \/ OuterExit
    BY <2>1, <2>4 DEF ManualKill, Zap, OuterExit, monitor
  <2>5. ASSUME NEW t \in Tasks, KernelStep(t) \/ Payload(t)
        PROVE  performed' = performed /\ mpc' \in {"halt", "top", "ended"}
    BY <2>1, <2>5 DEF KernelStep, Payload, Orphaned, Return, Caught, Thawed, Die, Notify, Interrupt,
       Exit, monitor
  <2> QED
    BY <2>2, <2>3, <2>4, <2>5 DEF Next
<1> QED
  BY <1>1, Invariance, PTL DEF Spec, SilentAfterFreeze

-----------------------------------------------------------------------------
(* Containment implements Quarantine on kernels that have cgroup.kill.      *)

P == [t \in Tasks |-> Place(t)]

\* A step in which tasks only die, or nothing moves, is a step of Quarantine.
LEMMA OnlyDeaths ==
  ASSUME freezing' = freezing,
         \A t \in Tasks : Place(t)' = Place(t) \/ (Place(t) # "absent" /\ Place(t)' = "gone")
  PROVE  Q!Next
<1> DEFINE S == {t \in Tasks : Place(t)' # Place(t)}
<1>1. Q!Perish(S)
  BY DEF Q!Perish
<1>2. S \in SUBSET Tasks
  OBVIOUS
<1> QED
  BY <1>1, <1>2 DEF Q!Next

\* One task is taken by the kernel, or gives up the kernel's hold.
LEMMA OneMoves ==
  ASSUME NEW t \in Tasks, freezing' = freezing,
         \A u \in Tasks \ {t} : Place(u)' = Place(u),
         \/ Place(t) = "free" /\ Place(t)' = "held"
         \/ ~freezing /\ Place(t) = "held" /\ Place(t)' = "free"
  PROVE  Q!Next
<1>1. CASE Place(t) = "free" /\ Place(t)' = "held"
  <2>1. P' = [P EXCEPT ![t] = "held"]
    BY <1>1 DEF P
  <2>2. Q!Hold(t)
    BY <1>1, <2>1 DEF Q!Hold, P
  <2> QED
    BY <2>2 DEF Q!Next
<1>2. CASE ~freezing /\ Place(t) = "held" /\ Place(t)' = "free"
  <2>1. P' = [P EXCEPT ![t] = "free"]
    BY <1>2 DEF P
  <2>2. Q!Free(t)
    BY <1>2, <2>1 DEF Q!Free, P
  <2> QED
    BY <2>2 DEF Q!Next
<1> QED
  BY <1>1, <1>2

\* With cgroup.kill, every step of a session is a step of Quarantine or none.
LEMMA StepRefines == KillAtomic /\ IInv /\ [Next]_vars => [Q!Next]_(Q!vars)
<1> SUFFICES ASSUME KillAtomic, IInv, [Next]_vars PROVE Q!Next \/ UNCHANGED Q!vars
  OBVIOUS
<1> USE DEF IInv, TypeOK
<1>1. CASE UNCHANGED vars
  BY <1>1 DEF vars, kernel, Q!vars, Place
<1>2. ASSUME task' = task, freezing' = freezing PROVE UNCHANGED Q!vars
  BY <1>2 DEF Q!vars, Place
<1>3. CASE Boot \/ Top \/ Receive \/ ReceiveNone \/ Judge \/ Report \/ Announce \/ Halt
  BY <1>2, <1>3 DEF Boot, Top, Receive, ReceiveNone, Judge, Report, Announce, Halt, kernel
<1>4. CASE \/ Start \/ ReleaseBroken \/ SeeFrozen \/ Reap \/ WaitTimeout \/ ReapTimeout \/ Stop \/ Join
           \/ CloseListener \/ ReadFlag \/ GiveVerdict \/ LastReap \/ Remove \/ OuterExit
  BY <1>2, <1>4 DEF Start, ReleaseBroken, SeeFrozen, Reap, WaitTimeout, ReapTimeout, Stop, Join,
     CloseListener, ReadFlag, GiveVerdict, LastReap, Remove, OuterExit, kernel
<1>5. CASE Thaw
  BY <1>5 DEF Thaw, Final
<1>6. CASE Freeze
  <2>1. P' = P /\ freezing' = TRUE
    BY <1>6 DEF Freeze, P, Place
  <2>2. Q!Seal
    BY <2>1 DEF Q!Seal, P
  <2> QED
    BY <2>2 DEF Q!Next
<1>7. CASE FreezeFailed \/ Terminate \/ DestroyKill \/ ManualKill
  <2>1. KillEffect /\ freezing' = freezing
    BY <1>7, KillKeeps DEF FreezeFailed, Terminate, DestroyKill, ManualKill, monitor, runner
  <2>2. \A t \in Tasks : Place(t)' = Place(t) \/ (Place(t) # "absent" /\ Place(t)' = "gone")
    BY <2>1 DEF KillEffect, Place, Alive
  <2> QED
    BY <2>1, <2>2, OnlyDeaths
<1>8. CASE Inject \/ Reply
  <2>1. freezing' = freezing
    BY <1>8 DEF Inject, Reply
  <2>2. \A t \in Tasks : task'[t] = task[t] \/ (task[t] = "parked" /\ task'[t] = "returning")
    <3>1. note[cur.task] = cur.id /\ mpc \in Handling => task[cur.task] = "parked"
      BY DEF Notes, Held
    <3> QED
      BY <1>8, <3>1 DEF Inject, Reply, Answer, Handling
  <2>3. UNCHANGED Q!vars
    BY <2>1, <2>2 DEF Q!vars, Place
  <2> QED
    BY <2>3
<1>9. CASE Release
  <2>1. CASE task[Main] = "held"
    BY <1>9, <2>1, ContainmentAssumption, OneMoves DEF Release, Place, Parked0
  <2>2. CASE task[Main] # "held"
    BY <1>2, <1>9, <2>2 DEF Release
  <2> QED
    BY <2>1, <2>2
<1>10. CASE Zap
  <2>1. \A t \in Tasks : Place(t)' = Place(t) \/ (Place(t) # "absent" /\ Place(t)' = "gone")
    BY <1>10 DEF Zap, Doom, Place, Alive
  <2> QED
    BY <1>10, <2>1, OnlyDeaths DEF Zap
<1>11. ASSUME NEW t \in Tasks, Orphaned(t) \/ Die(t) \/ Exit(t)
       PROVE  Q!Next
  <2>1. \A u \in Tasks : Place(u)' = Place(u) \/ (Place(u) # "absent" /\ Place(u)' = "gone")
    BY <1>11 DEF Orphaned, Die, Exit, Doom, Place, Alive
  <2> QED
    BY <1>11, <2>1, OnlyDeaths DEF Orphaned, Die, Exit
<1>12. ASSUME NEW t \in Tasks, Notify(t) \/ Interrupt(t) \/ Thawed(t)
       PROVE  Q!Next
  BY <1>12, OneMoves DEF Notify, Interrupt, Thawed, Place
<1>13. ASSUME NEW t \in Tasks, Caught(t)
       PROVE  Q!Next
  <2>1. CASE task[t] = "user"
    BY <1>13, <2>1, OneMoves DEF Caught, Place
  <2>2. CASE task[t] = "parked"
    BY <1>13, <2>2, OnlyDeaths DEF Caught, Place
  <2> QED
    BY <1>13, <2>1, <2>2 DEF Caught
<1>14. ASSUME NEW t \in Tasks, Return(t)
       PROVE  Q!Next
  <2> DEFINE there == IF freezing THEN "frozen" ELSE "user"
             where == IF freezing THEN "held" ELSE "free"
  <2>1. CASE task' = [task EXCEPT ![t] = there]
    <3>1. CASE freezing
      BY <1>14, <2>1, <3>1, OnlyDeaths DEF Return, Place
    <3>2. CASE ~freezing
      BY <1>14, <2>1, <3>2, OneMoves DEF Return, Place
    <3> QED
      BY <3>1, <3>2
  <2>2. ASSUME NEW u \in Tasks, task[u] = "absent",
               task' = [task EXCEPT ![t] = there, ![u] = there]
        PROVE  Q!Next
    <3>1. P' = [P EXCEPT ![t] = where, ![u] = where]
      BY <1>14, <2>2 DEF Return, P, Place
    <3>2. P[t] = "held" /\ P[u] = "absent" /\ freezing' = freezing
      BY <1>14, <2>2 DEF Return, P, Place
    <3>3. Q!Spawn(t, u)
      BY <3>1, <3>2 DEF Q!Spawn, P
    <3> QED
      BY <3>3 DEF Q!Next
  <2> QED
    BY <1>14, <2>1, <2>2 DEF Return
<1> QED
  BY <1>1, <1>3, <1>4, <1>5, <1>6, <1>7, <1>8, <1>9, <1>10, <1>11, <1>12, <1>13, <1>14
     DEF Next, MonitorStep, RunnerStep, KernelStep, Payload

\* A kernel with cgroup.kill keeps the promise of Quarantine: once the sandbox
\* is sealed, no task it holds runs again, on the way out included.
THEOREM ImplementsQuarantine ==
  ASSUME KillAtomic
  PROVE  Spec => KeepsQuarantine
<1>1. Init => Q!Init
  BY DEF Init, Q!Init, Place
<1>2. IInv /\ [Next]_vars => [Q!Next]_(Q!vars)
  BY StepRefines
<1> QED
  BY <1>1, <1>2, Invariance, PTL DEF Spec, KeepsQuarantine, Q!Spec

=============================================================================
