--------------------------- MODULE DashboardProofs ---------------------------
(***************************************************************************)
(* Proofs about Dashboard, for any requests, however many, however they     *)
(* overlap and whichever of them ask for the VM.                            *)
(***************************************************************************)
EXTENDS Dashboard, TLAPS

(* The inductive invariant, in parts.                                       *)

LocalOnly == {"profile", "announce", "launch", "session", "record", "end", "forget"}
VmOnly    == {"vmStart", "spawn", "waitUp", "upload", "relay", "vmRecord", "vmError"}
\* Between the claim of the guard and its release.
Busy      == (LocalOnly \ {"forget"}) \cup VmOnly \cup {"clear"}
Unsaid    == {"new", "refused", "thread", "claim", "profile", "announce", "vmStart", "exited"}
Begun     == {"launch", "session", "record", "end", "spawn", "waitUp", "upload", "relay", "vmError"}
Closing   == {"clear", "forget", "over"}

Messages == {"run_start", "run_end", "error_end"}

\* Whoever finds the guard up will find a run that is going to clear it.
Guarded ==
    /\ running => \E r \in Runs : pc[r] \in Busy \cup {"exited"}
    /\ \A r \in Runs : /\ pc[r] \in LocalOnly => r \notin inVm
                       /\ pc[r] \in VmOnly => r \in inVm

\* The session in flight is one whose thread has still to take it out; a cgroup
\* lives while its session runs.
InFlight ==
    /\ active # None => active \notin inVm /\ pc[active] \in (LocalOnly \ {"profile"}) \cup {"clear"}
    /\ \A r \in Runs : cg[r] = "live" => pc[r] = "session"

\* How far a run is tells what the feed has of it.
FeedSoFar ==
    /\ feed \in [Runs -> Seq(Messages)]
    /\ \A r \in Runs :
          /\ pc[r] \in Unsaid => feed[r] = <<>>
          /\ pc[r] \in Begun => feed[r] # <<>> /\ \A i \in DOMAIN feed[r] : feed[r][i] = "run_start"

\* And what the history has of it.
HistorySoFar ==
    /\ IsInjective(history)
    /\ \A r \in Runs :
          /\ pc[r] \in (Unsaid \cup Begun \cup {"vmRecord"}) \ {"end"} => r \notin ToSet(history)
          /\ pc[r] = "end" /\ Len(history) < HistMax => r \in ToSet(history)
          /\ pc[r] = "vmRecord" => r \in Said("run_end") \ Said("error_end")
          /\ pc[r] \in Closing =>
                /\ r \in ToSet(history) => r \in Said("run_end") \ Said("error_end")
                /\ r \in Said("run_end") /\ Len(history) < HistMax => r \in ToSet(history)

IInv == TypeOK /\ Guarded /\ InFlight /\ FeedSoFar /\ FeedIsBracketed /\ HistorySoFar

-----------------------------------------------------------------------------
(* Lemmas about the operators.                                              *)

\* A record is added at the end, and pushes out the oldest when the list is full.
LEMMA NewestKeeps ==
    ASSUME NEW h \in Seq(Runs), Len(h) <= HistMax, IsInjective(h), NEW r \in Runs, r \notin ToSet(h)
    PROVE  LET n == Newest(Append(h, r), HistMax)
           IN  /\ n \in Seq(Runs) /\ Len(n) <= HistMax /\ IsInjective(n)
               /\ r \in ToSet(n) /\ ToSet(n) \subseteq ToSet(h) \cup {r}
               /\ Len(n) < HistMax => ToSet(n) = ToSet(h) \cup {r} /\ Len(h) < HistMax
<1> DEFINE a == Append(h, r)
           n == Newest(a, HistMax)
<1> USE DashboardAssumption
<1>1. /\ a \in Seq(Runs) /\ Len(a) = Len(h) + 1 /\ a[Len(h) + 1] = r
      /\ \A i \in 1..Len(h) : a[i] = h[i]
  OBVIOUS
<1>2. \A i, j \in 1..Len(a) : a[i] = a[j] => i = j
  BY <1>1 DEF IsInjective, ToSet
<1>3. CASE Len(h) < HistMax
  <2>1. n = a
    <3>0. ~(Len(a) > HistMax)
      BY <1>1, <1>3
    <3>1. n = SubSeq(a, 1, Len(a))
      BY <3>0, Zenon DEF Newest
    <3>2. /\ n \in Seq(Runs) /\ Len(n) = Len(a)
          /\ \A i \in 1..Len(a) : n[i] = a[i]
      BY <1>1, <3>1
    <3> HIDE DEF n, a
    <3> QED
      BY <1>1, <3>2
  <2>2. IsInjective(a)
    BY <1>1, <1>2 DEF IsInjective
  <2>3. ToSet(a) = ToSet(h) \cup {r}
    BY <1>1 DEF ToSet
  <2> QED
    <3> HIDE DEF n, a
    <3>1. /\ n \in Seq(Runs) /\ Len(n) <= HistMax /\ IsInjective(n)
          /\ r \in ToSet(n) /\ ToSet(n) = ToSet(h) \cup {r}
      BY <1>1, <1>3, <2>1, <2>2, <2>3
    <3> QED
      BY <1>3, <3>1 DEF n, a
<1>4. CASE Len(h) = HistMax
  <2>1. n = SubSeq(a, 2, HistMax + 1)
    BY <1>1, <1>4 DEF Newest
  <2>2. n \in Seq(Runs) /\ Len(n) = HistMax /\ \A i \in 1..HistMax : n[i] = a[i + 1]
    BY <1>1, <1>4, <2>1
  <2>3. HistMax \in Nat \ {0} /\ DOMAIN n = 1..HistMax /\ Len(a) = HistMax + 1
    BY <1>1, <1>4, <2>2
  <2> HIDE DEF n, a
  <2>4. IsInjective(n)
    <3> SUFFICES ASSUME NEW i \in 1..HistMax, NEW j \in 1..HistMax, n[i] = n[j] PROVE i = j
      BY <2>3 DEF IsInjective
    <3>1. a[i + 1] = a[j + 1] /\ i + 1 \in 1..Len(a) /\ j + 1 \in 1..Len(a)
      BY <2>2, <2>3
    <3>2. i + 1 = j + 1
      BY <1>2, <3>1
    <3> QED
      BY <3>2
  <2>5. r \in ToSet(n)
    <3>1. HistMax \in DOMAIN n /\ n[HistMax] = r
      BY <1>1, <1>4, <2>2, <2>3
    <3> QED
      BY <3>1 DEF ToSet
  <2>6. ToSet(n) \subseteq ToSet(h) \cup {r}
    <3> SUFFICES ASSUME NEW i \in 1..HistMax PROVE n[i] \in ToSet(h) \cup {r}
      BY <2>3 DEF ToSet
    <3>1. n[i] = a[i + 1] /\ i + 1 \in 1..(Len(h) + 1)
      BY <1>4, <2>2, <2>3
    <3>2. CASE i + 1 = Len(h) + 1
      BY <1>1, <3>1, <3>2
    <3>3. CASE i + 1 \in 1..Len(h)
      BY <1>1, <3>1, <3>3 DEF ToSet
    <3> QED
      BY <1>1, <3>1, <3>2, <3>3
  <2> QED
    <3>1. /\ n \in Seq(Runs) /\ Len(n) <= HistMax /\ IsInjective(n) /\ r \in ToSet(n)
          /\ ToSet(n) \subseteq ToSet(h) \cup {r} /\ ~(Len(n) < HistMax)
      BY <2>2, <2>3, <2>4, <2>5, <2>6
    <3> QED
      BY <3>1 DEF n, a
<1> QED
  BY <1>3, <1>4

\* What the feed says after one more message.
LEMMA Broadcasts ==
    ASSUME NEW r \in Runs, NEW k \in Messages, feed \in [Runs -> Seq(Messages)], Broadcast(r, k)
    PROVE  /\ feed' \in [Runs -> Seq(Messages)]
           /\ feed'[r] = Append(feed[r], k)
           /\ \A x \in Runs : x # r => feed'[x] = feed[x]
           /\ \A k2 : Said(k2)' = IF k2 = k THEN Said(k2) \cup {r} ELSE Said(k2)
<1>1. /\ feed[r] \in Seq(Messages) /\ Append(feed[r], k) \in Seq(Messages)
      /\ feed' = [feed EXCEPT ![r] = Append(feed[r], k)]
  BY DEF Broadcast
<1>2. /\ feed' \in [Runs -> Seq(Messages)]
      /\ feed'[r] = Append(feed[r], k)
      /\ \A x \in Runs : x # r => feed'[x] = feed[x]
  BY <1>1
<1>3. ToSet(Append(feed[r], k)) = ToSet(feed[r]) \cup {k}
  <2>1. /\ DOMAIN feed[r] = 1..Len(feed[r]) /\ Len(feed[r]) \in Nat
        /\ DOMAIN Append(feed[r], k) = 1..Len(feed[r]) + 1
        /\ Append(feed[r], k)[Len(feed[r]) + 1] = k
        /\ \A i \in 1..Len(feed[r]) : Append(feed[r], k)[i] = feed[r][i]
    BY <1>1
  <2> QED
    BY <2>1 DEF ToSet
<1>4. \A k2 : Said(k2)' = IF k2 = k THEN Said(k2) \cup {r} ELSE Said(k2)
  <2> SUFFICES ASSUME NEW k2 PROVE Said(k2)' = IF k2 = k THEN Said(k2) \cup {r} ELSE Said(k2)
    OBVIOUS
  <2>1. Said(k2)' = {x \in Runs : k2 \in ToSet(feed'[x])}
    BY DEF Said
  <2>2. \A x \in Runs : k2 \in ToSet(feed'[x]) <=> k2 \in ToSet(feed[x]) \/ (x = r /\ k2 = k)
    BY <1>2, <1>3
  <2> QED
    BY <2>1, <2>2 DEF Said
<1> QED
  BY <1>2, <1>4

-----------------------------------------------------------------------------
(* The invariant is inductive: one lemma for each part.                     *)

LEMMA InitIInv == Init => IInv
<1> SUFFICES ASSUME Init PROVE IInv
  OBVIOUS
<1> USE DashboardAssumption
<1>1. TypeOK
  <2>1. history \in Seq(Runs) /\ Len(history) <= HistMax
    BY DEF Init
  <2> QED
    BY <2>1 DEF Init, TypeOK, Idle
<1>2. Guarded /\ InFlight
  BY DEF Init, Guarded, InFlight, LocalOnly, VmOnly
<1>3. FeedSoFar /\ FeedIsBracketed
  <2>1. /\ feed \in [Runs -> Seq(Messages)]
        /\ \A r \in Runs : feed[r] = <<>> /\ pc[r] \notin Begun
    BY DEF Init, Begun
  <2> QED
    BY <2>1 DEF FeedSoFar, FeedIsBracketed
<1>4. HistorySoFar
  BY DEF Init, HistorySoFar, IsInjective, ToSet, Unsaid, Begun, Closing
<1> QED
  BY <1>1, <1>2, <1>3, <1>4 DEF IInv

LEMMA TypesKeep == IInv /\ [Next]_vars => TypeOK'
<1> SUFFICES ASSUME IInv, [Next]_vars PROVE TypeOK'
  OBVIOUS
<1> USE DashboardAssumption
<1> USE DEF Goto, Broadcast
<1>0. TypeOK /\ HistorySoFar
  BY DEF IInv
<1>1. CASE UNCHANGED vars
  BY <1>0, <1>1 DEF vars, TypeOK, Idle
<1>2. CASE ClientStalls \/ (\E r \in VmRuns : VmServes(r) \/ VmEnds(r))
  BY <1>0, <1>2 DEF ClientStalls, VmServes, VmEnds, TypeOK, Idle
<1>3. ASSUME NEW r \in Runs, Post(r) PROVE TypeOK'
  BY <1>0, <1>3 DEF Post, TypeOK, Idle
<1>4. ASSUME NEW r \in Runs, Thread(r) PROVE TypeOK'
  <2>1. CASE Check(r) \/ Claim(r) \/ Profile(r) \/ Announce(r) \/ Launch(r)
    BY <1>0, <2>1 DEF Check, Claim, Profile, Announce, Launch, TypeOK, Idle
  <2>2. CASE SessionRaises(r) \/ SessionReturns(r) \/ End(r) \/ Clear(r) \/ Forget(r)
    BY <1>0, <2>2 DEF SessionRaises, SessionReturns, End, Clear, Forget, TypeOK, Idle
  <2>3. CASE Record(r) \/ VmRecord(r)
    <3>1. r \notin ToSet(history) /\ IsInjective(history)
      BY <1>0, <2>3 DEF HistorySoFar, Record, VmRecord, Begun
    <3>2. history' \in Seq(Runs) /\ Len(history') <= HistMax
      BY <1>0, <2>3, <3>1, NewestKeeps DEF Record, VmRecord, TypeOK
    <3> QED
      BY <1>0, <2>3, <3>2 DEF Record, VmRecord, TypeOK, Idle
  <2>4. CASE VmStart(r) \/ Spawn(r) \/ WaitUp(r) \/ Upload(r) \/ Relay(r) \/ FeedStops(r) \/ VmError(r)
    <3>1. pc[r] \in VmOnly
      BY <2>4 DEF VmStart, Spawn, WaitUp, Upload, Relay, FeedStops, VmError, VmOnly
    <3>2. r \in VmRuns
      BY <1>0, <3>1 DEF IInv, Guarded, TypeOK
    <3> QED
      BY <1>0, <2>4, <3>2 DEF VmStart, Spawn, Spawned, WaitUp, Upload, Relay, FeedStops, VmError, TypeOK, Idle
  <2> QED
    BY <1>4, <2>1, <2>2, <2>3, <2>4 DEF Thread
<1> QED
  BY <1>1, <1>2, <1>3, <1>4 DEF Next

LEMMA GuardKeeps == IInv /\ [Next]_vars => Guarded' /\ InFlight'
<1> SUFFICES ASSUME IInv, [Next]_vars PROVE Guarded' /\ InFlight'
  OBVIOUS
<1> USE DashboardAssumption
<1> USE DEF Goto, LocalOnly, VmOnly, Busy
<1>0. /\ Guarded /\ InFlight /\ inVm \subseteq Runs
      /\ DOMAIN pc = Runs /\ DOMAIN cg = Runs /\ active \in Runs \cup {None} /\ running \in BOOLEAN
  BY DEF IInv, TypeOK, Runs
<1>1. CASE UNCHANGED vars
  BY <1>0, <1>1 DEF vars, Guarded, InFlight
<1>2. CASE ClientStalls \/ (\E r \in VmRuns : VmServes(r) \/ VmEnds(r))
  BY <1>0, <1>2 DEF ClientStalls, VmServes, VmEnds, Guarded, InFlight
<1>3. ASSUME NEW r \in Runs, Post(r) \/ Thread(r) PROVE Guarded' /\ InFlight'
  <2>1. \A x \in Runs : x # r => pc'[x] = pc[x] /\ cg'[x] = cg[x] /\ (x \in inVm' <=> x \in inVm)
    BY <1>0, <1>3 DEF Post, Thread, Check, Claim, Profile, Announce, Launch, SessionRaises,
       SessionReturns, Record, End, Clear, Forget, VmStart, Spawn, Spawned, WaitUp, Upload, Relay, FeedStops, VmRecord, VmError
  <2>2. /\ running' => pc'[r] \in Busy \cup {"exited"} \/ (running /\ pc[r] \notin Busy \cup {"exited"})
        /\ pc'[r] \in LocalOnly => r \notin inVm'
        /\ pc'[r] \in VmOnly => r \in inVm'
        /\ pc[r] # "new" => inVm' = inVm
    <3>1. CASE Post(r) \/ Check(r) \/ Claim(r)
      BY <1>0, <3>1 DEF Guarded, Post, Check, Claim
    <3>2. CASE Profile(r) \/ Announce(r) \/ Launch(r) \/ SessionRaises(r) \/ SessionReturns(r)
      BY <1>0, <3>2 DEF Guarded, Profile, Announce, Launch, SessionRaises, SessionReturns
    <3>3. CASE Record(r) \/ End(r) \/ Clear(r) \/ Forget(r)
      BY <1>0, <3>3 DEF Guarded, Record, End, Clear, Forget
    <3>4. CASE VmStart(r) \/ Spawn(r) \/ WaitUp(r) \/ Upload(r) \/ Relay(r) \/ FeedStops(r) \/ VmRecord(r) \/ VmError(r)
      BY <1>0, <3>4 DEF Guarded, VmStart, Spawn, Spawned, WaitUp, Upload, Relay, FeedStops, VmRecord, VmError
    <3> QED
      BY <1>3, <3>1, <3>2, <3>3, <3>4 DEF Thread
  <2>3. running' => \E x \in Runs : pc'[x] \in Busy \cup {"exited"}
    <3> HIDE DEF Busy
    <3> SUFFICES ASSUME running' PROVE \E x \in Runs : pc'[x] \in Busy \cup {"exited"}
      OBVIOUS
    <3>1. CASE pc'[r] \in Busy \cup {"exited"}
      BY <3>1
    <3>2. CASE running /\ pc[r] \notin Busy \cup {"exited"}
      <4>1. PICK x \in Runs : pc[x] \in Busy \cup {"exited"}
        BY <1>0, <3>2 DEF Guarded
      <4> QED
        BY <2>1, <3>2, <4>1
    <3> QED
      BY <2>2, <3>1, <3>2
  <2>4. /\ active' = active \/ active' = None \/ (active' = r /\ r \notin inVm' /\ pc'[r] = "announce")
        /\ pc[r] \in (LocalOnly \ {"profile"}) \cup {"clear"} /\ r \notin inVm =>
              active' = None \/ pc'[r] \in (LocalOnly \ {"profile"}) \cup {"clear"}
        /\ cg'[r] = "live" => pc'[r] = "session"
    <3>1. CASE Post(r) \/ Check(r) \/ Claim(r)
      BY <1>0, <3>1 DEF InFlight, Post, Check, Claim
    <3>2. CASE Profile(r) \/ Announce(r) \/ Launch(r) \/ SessionRaises(r) \/ SessionReturns(r)
      BY <1>0, <3>2 DEF InFlight, Guarded, Profile, Announce, Launch, SessionRaises, SessionReturns
    <3>3. CASE Record(r) \/ End(r) \/ Clear(r) \/ Forget(r)
      BY <1>0, <3>3 DEF InFlight, Record, End, Clear, Forget
    <3>4. CASE VmStart(r) \/ Spawn(r) \/ WaitUp(r) \/ Upload(r) \/ Relay(r) \/ FeedStops(r) \/ VmRecord(r) \/ VmError(r)
      BY <1>0, <3>4 DEF InFlight, VmStart, Spawn, Spawned, WaitUp, Upload, Relay, FeedStops, VmRecord, VmError
    <3> QED
      BY <1>3, <3>1, <3>2, <3>3, <3>4 DEF Thread
  <2>5. Guarded'
    BY <1>0, <2>1, <2>2, <2>3 DEF Guarded
  <2>6. InFlight'
    BY <1>0, <2>1, <2>2, <2>4 DEF InFlight
  <2> QED
    BY <2>5, <2>6
<1> QED
  BY <1>1, <1>2, <1>3 DEF Next

-----------------------------------------------------------------------------
(* What one thread's step does to the feed and to the history: nothing, or   *)
(* one of five things.                                                       *)

Silent(r) ==
    /\ feed' = feed /\ history' = history
    /\ pc'[r] \in Unsaid => pc[r] \in Unsaid
    /\ pc'[r] \in Begun => pc[r] \in Begun
    /\ pc'[r] \in Closing => pc[r] \in Closing \cup Begun
    /\ "end" \notin {pc[r], pc'[r]} /\ pc'[r] # "vmRecord"

Starts(r) ==
    /\ Broadcast(r, "run_start") /\ history' = history
    /\ pc[r] \in Unsaid /\ pc'[r] \in Begun \ {"end"}

\* A run_start of the guest is passed on.
Again(r) ==
    /\ Broadcast(r, "run_start") /\ history' = history
    /\ pc[r] = "relay" /\ pc' = pc

Ends(r) ==
    /\ Broadcast(r, "run_end") /\ history' = history
    /\ \/ pc[r] = "end" /\ pc'[r] = "clear"
       \/ pc[r] = "relay" /\ pc'[r] = "vmRecord"

Fails(r) ==
    /\ Broadcast(r, "error_end") /\ history' = history
    /\ pc[r] = "vmError" /\ pc'[r] = "clear"

Recorded(r) ==
    /\ feed' = feed /\ history' = Newest(Append(history, r), HistMax)
    /\ \/ pc[r] = "record" /\ pc'[r] = "end"
       \/ pc[r] = "vmRecord" /\ pc'[r] = "clear"

LEMMA Shapes ==
    ASSUME IInv, NEW r \in Runs, Post(r) \/ Thread(r)
    PROVE  /\ \A x \in Runs : x # r => pc'[x] = pc[x]
           /\ Silent(r) \/ Starts(r) \/ Again(r) \/ Ends(r) \/ Fails(r) \/ Recorded(r)
<1> USE DEF Goto
<1>0. DOMAIN pc = Runs
  BY DEF IInv, TypeOK
<1>1. \A x \in Runs : x # r => pc'[x] = pc[x]
  BY <1>0 DEF Post, Thread, Check, Claim, Profile, Announce, Launch, SessionRaises,
     SessionReturns, Record, End, Clear, Forget, VmStart, Spawn, Spawned, WaitUp, Upload, Relay, FeedStops, VmRecord, VmError
<1>2. CASE Post(r) \/ Check(r) \/ Claim(r) \/ Profile(r)
  BY <1>0, <1>2 DEF Silent, Unsaid, Begun, Closing, Post, Check, Claim, Profile
<1>3. CASE Launch(r) \/ SessionRaises(r) \/ SessionReturns(r)
  BY <1>0, <1>3 DEF Silent, Unsaid, Begun, Closing, Launch, SessionRaises, SessionReturns
<1>4. CASE Clear(r) \/ Forget(r) \/ Spawn(r) \/ WaitUp(r)
  BY <1>0, <1>4 DEF Silent, Unsaid, Begun, Closing, Clear, Forget, Spawn, Spawned, WaitUp
<1>5. CASE Announce(r) \/ VmStart(r)
  BY <1>0, <1>5 DEF Starts, Unsaid, Begun, Announce, VmStart
<1>6. CASE Record(r) \/ VmRecord(r)
  BY <1>0, <1>6 DEF Recorded, Record, VmRecord
<1>7. CASE End(r) \/ VmError(r)
  BY <1>0, <1>7 DEF Ends, Fails, End, VmError
<1>8. CASE Relay(r)
  BY <1>0, <1>8 DEF Ends, Again, Relay
<1>9. CASE Upload(r) \/ FeedStops(r)
  BY <1>0, <1>9 DEF Silent, Unsaid, Begun, Closing, Upload, FeedStops
<1> QED
  BY <1>1, <1>2, <1>3, <1>4, <1>5, <1>6, <1>7, <1>8, <1>9 DEF Thread

LEMMA FeedKeeps == IInv /\ [Next]_vars => FeedSoFar' /\ FeedIsBracketed'
<1> SUFFICES ASSUME IInv, [Next]_vars PROVE FeedSoFar' /\ FeedIsBracketed'
  OBVIOUS
<1>0. FeedSoFar /\ FeedIsBracketed
  BY DEF IInv
<1>1. CASE UNCHANGED vars
  BY <1>0, <1>1 DEF vars, FeedSoFar, FeedIsBracketed
<1>2. CASE ClientStalls \/ (\E r \in VmRuns : VmServes(r) \/ VmEnds(r))
  BY <1>0, <1>2 DEF ClientStalls, VmServes, VmEnds, FeedSoFar, FeedIsBracketed
<1>3. ASSUME NEW r \in Runs, Post(r) \/ Thread(r) PROVE FeedSoFar' /\ FeedIsBracketed'
  <2>1. \A x \in Runs : x # r => pc'[x] = pc[x]
    BY <1>3, Shapes
  <2>2. CASE feed' = feed /\ (Silent(r) \/ Recorded(r))
    <3>1. /\ pc'[r] \in Unsaid => pc[r] \in Unsaid
          /\ pc'[r] \in Begun => pc[r] \in Begun
      BY <2>2 DEF Silent, Recorded, Unsaid, Begun
    <3> QED
      BY <1>0, <2>1, <2>2, <3>1 DEF FeedSoFar, FeedIsBracketed
  <2>3. ASSUME NEW k \in Messages, Broadcast(r, k),
               pc'[r] \in Begun => k = "run_start",
               pc'[r] \notin Unsaid, pc[r] \in Unsaid \cup Begun,
               pc[r] \in Unsaid => k = "run_start"
        PROVE  FeedSoFar' /\ FeedIsBracketed'
    <3>1. /\ feed' \in [Runs -> Seq(Messages)]
          /\ feed'[r] = Append(feed[r], k)
          /\ \A x \in Runs : x # r => feed'[x] = feed[x]
      BY <1>0, <2>3, Broadcasts DEF FeedSoFar
    <3>2. PICK n \in Nat : n = Len(feed[r]) /\ DOMAIN feed[r] = 1..n
      BY <1>0 DEF FeedSoFar
    <3>3. /\ DOMAIN feed'[r] = 1..(n + 1) /\ Len(feed'[r]) = n + 1 /\ feed'[r][n + 1] = k
          /\ \A i \in 1..n : feed'[r][i] = feed[r][i]
      <4>1. feed[r] \in Seq(Messages)
        BY <1>0 DEF FeedSoFar
      <4> QED
        BY <3>1, <3>2, <4>1
    <3>4. /\ \A i \in 1..n : feed[r][i] = "run_start"
          /\ pc[r] \in Begun => n > 0
      BY <1>0, <2>3, <3>2 DEF FeedSoFar
    <3>5. FeedSoFar'
      <4>1. feed'[r] # <<>>
        BY <3>2, <3>3
      <4>2. pc'[r] \in Begun => \A i \in DOMAIN feed'[r] : feed'[r][i] = "run_start"
        BY <2>3, <3>2, <3>3, <3>4
      <4> QED
        BY <1>0, <2>1, <2>3, <3>1, <4>1, <4>2 DEF FeedSoFar
    <3>6. \A i \in DOMAIN feed'[r] :
             feed'[r][i] # "run_start" => i > 1 /\ i = Len(feed'[r])
      BY <2>3, <3>2, <3>3, <3>4
    <3> QED
      BY <1>0, <3>1, <3>5, <3>6 DEF FeedIsBracketed
  <2>4. CASE Starts(r) \/ Again(r)
    BY <2>3, <2>4 DEF Starts, Again, Messages, Begun, Unsaid
  <2>5. CASE Ends(r) \/ Fails(r)
    BY <2>3, <2>5 DEF Ends, Fails, Messages, Begun, Unsaid
  <2>6. Silent(r) \/ Recorded(r) => feed' = feed
    BY DEF Silent, Recorded
  <2> QED
    BY <1>3, <2>2, <2>4, <2>5, <2>6, Shapes
<1> QED
  BY <1>1, <1>2, <1>3 DEF Next

LEMMA HistoryKeeps == IInv /\ [Next]_vars => HistorySoFar'
<1> SUFFICES ASSUME IInv, [Next]_vars PROVE HistorySoFar'
  OBVIOUS
<1>0. HistorySoFar /\ FeedSoFar
  BY DEF IInv
<1>1. CASE UNCHANGED vars
  BY <1>0, <1>1 DEF vars, HistorySoFar, Said, IsInjective, ToSet
<1>2. CASE ClientStalls \/ (\E r \in VmRuns : VmServes(r) \/ VmEnds(r))
  BY <1>0, <1>2 DEF ClientStalls, VmServes, VmEnds, HistorySoFar, Said, IsInjective, ToSet
<1>3. ASSUME NEW r \in Runs, Post(r) \/ Thread(r) PROVE HistorySoFar'
  <2>1. \A x \in Runs : x # r => pc'[x] = pc[x]
    BY <1>3, Shapes
  <2>2. history' = history =>
           IsInjective(history') /\ ToSet(history') = ToSet(history) /\ Len(history') = Len(history)
    BY <1>0 DEF HistorySoFar
  <2>3. CASE Silent(r)
    <3>1. Said("run_end")' = Said("run_end") /\ Said("error_end")' = Said("error_end")
      BY <2>3 DEF Silent, Said
    <3>2. pc[r] \in Begun => r \notin Said("run_end")
      BY <1>0 DEF FeedSoFar, Said, ToSet
    <3>3. pc'[r] \in (Unsaid \cup Begun \cup {"vmRecord"}) \ {"end"} =>
             pc[r] \in (Unsaid \cup Begun \cup {"vmRecord"}) \ {"end"}
      BY <2>3 DEF Silent
    <3>4. /\ pc'[r] # "end" /\ pc'[r] # "vmRecord"
          /\ pc'[r] \in Closing => pc[r] \in Closing \/ pc[r] \in Begun \ {"end"}
      BY <2>3 DEF Silent
    <3>5. \A x \in Runs : pc'[x] \in (Unsaid \cup Begun \cup {"vmRecord"}) \ {"end"} => x \notin ToSet(history)'
      BY <1>0, <2>1, <2>2, <2>3, <3>3 DEF HistorySoFar, Silent
    <3>6. \A x \in Runs : /\ pc'[x] = "end" /\ Len(history') < HistMax => x \in ToSet(history)'
                          /\ pc'[x] = "vmRecord" => x \in Said("run_end")' \ Said("error_end")'
      BY <1>0, <2>1, <2>2, <2>3, <3>1, <3>4 DEF HistorySoFar, Silent
    <3>7. \A x \in Runs : pc'[x] \in Closing =>
             /\ x \in ToSet(history)' => x \in Said("run_end")' \ Said("error_end")'
             /\ x \in Said("run_end")' /\ Len(history') < HistMax => x \in ToSet(history)'
      BY <1>0, <2>1, <2>2, <2>3, <3>1, <3>2, <3>4 DEF HistorySoFar, Silent
    <3> QED
      BY <2>2, <2>3, <3>5, <3>6, <3>7 DEF HistorySoFar, Silent
  <2>4. ASSUME NEW k \in {"run_start", "run_end", "error_end"}, Broadcast(r, k), history' = history,
               pc[r] \in Unsaid \cup Begun,
               \/ k = "run_start" /\ pc'[r] \in Begun \ {"end"} /\ pc[r] \in Unsaid \cup {"relay"}
               \/ k = "run_end" /\ \/ pc[r] = "end" /\ pc'[r] = "clear"
                                   \/ pc[r] = "relay" /\ pc'[r] = "vmRecord"
               \/ k = "error_end" /\ pc[r] = "vmError" /\ pc'[r] = "clear"
        PROVE  HistorySoFar'
    <3>1. \A e : Said(e)' = IF e = k THEN Said(e) \cup {r} ELSE Said(e)
      BY <1>0, <2>4, Broadcasts DEF FeedSoFar, Messages
    <3>2. /\ Said("run_end")' = IF k = "run_end" THEN Said("run_end") \cup {r} ELSE Said("run_end")
          /\ Said("error_end")' = IF k = "error_end" THEN Said("error_end") \cup {r} ELSE Said("error_end")
      BY <3>1
    <3>3. r \notin Said("run_end") /\ r \notin Said("error_end")
      <4>1. \A i \in DOMAIN feed[r] : feed[r][i] = "run_start"
        BY <1>0, <2>4 DEF FeedSoFar
      <4> QED
        BY <4>1 DEF Said, ToSet
    <3>4. \A x \in Runs : x # r =>
             /\ x \in Said("run_end")' <=> x \in Said("run_end")
             /\ x \in Said("error_end")' <=> x \in Said("error_end")
      BY <3>2
    <3>5. ASSUME NEW x \in Runs, x # r PROVE
             /\ pc'[x] \in (Unsaid \cup Begun \cup {"vmRecord"}) \ {"end"} => x \notin ToSet(history)'
             /\ pc'[x] = "end" /\ Len(history') < HistMax => x \in ToSet(history)'
             /\ pc'[x] = "vmRecord" => x \in Said("run_end")' \ Said("error_end")'
             /\ pc'[x] \in Closing =>
                   /\ x \in ToSet(history)' => x \in Said("run_end")' \ Said("error_end")'
                   /\ x \in Said("run_end")' /\ Len(history') < HistMax => x \in ToSet(history)'
      BY <1>0, <2>1, <2>2, <2>4, <3>4, <3>5 DEF HistorySoFar
    <3>6. /\ pc'[r] \in (Unsaid \cup Begun \cup {"vmRecord"}) \ {"end"} => r \notin ToSet(history)'
          /\ pc'[r] = "end" /\ Len(history') < HistMax => r \in ToSet(history)'
          /\ pc'[r] = "vmRecord" => r \in Said("run_end")' \ Said("error_end")'
          /\ pc'[r] \in Closing =>
                /\ r \in ToSet(history)' => r \in Said("run_end")' \ Said("error_end")'
                /\ r \in Said("run_end")' /\ Len(history') < HistMax => r \in ToSet(history)'
      <4>1. CASE k = "run_start"
        BY <1>0, <2>2, <2>4, <4>1 DEF HistorySoFar, Unsaid, Begun, Closing
      <4>2. CASE k = "run_end"
        BY <1>0, <2>2, <2>4, <3>2, <3>3, <4>2 DEF HistorySoFar, Unsaid, Begun, Closing
      <4>3. CASE k = "error_end"
        BY <1>0, <2>2, <2>4, <3>2, <3>3, <4>3 DEF HistorySoFar, Unsaid, Begun, Closing
      <4> QED
        BY <4>1, <4>2, <4>3
    <3> QED
      BY <2>2, <2>4, <3>5, <3>6 DEF HistorySoFar
  <2>5. CASE Recorded(r)
    <3>1. /\ history \in Seq(Runs) /\ Len(history) <= HistMax
          /\ IsInjective(history) /\ r \notin ToSet(history)
      BY <1>0, <2>5 DEF IInv, TypeOK, HistorySoFar, Recorded, Begun
    <3>2. /\ Len(history') <= HistMax /\ IsInjective(history')
          /\ r \in ToSet(history)' /\ ToSet(history)' \subseteq ToSet(history) \cup {r}
          /\ Len(history') < HistMax =>
                ToSet(history)' = ToSet(history) \cup {r} /\ Len(history) < HistMax
      BY <2>5, <3>1, NewestKeeps DEF Recorded
    <3>3. Said("run_end")' = Said("run_end") /\ Said("error_end")' = Said("error_end")
      BY <2>5 DEF Recorded, Said
    <3>4. pc[r] = "vmRecord" => r \in Said("run_end") \ Said("error_end")
      BY <1>0 DEF HistorySoFar
    <3>5. ASSUME NEW x \in Runs, x # r PROVE
             /\ pc'[x] \in (Unsaid \cup Begun \cup {"vmRecord"}) \ {"end"} => x \notin ToSet(history)'
             /\ pc'[x] = "end" /\ Len(history') < HistMax => x \in ToSet(history)'
             /\ pc'[x] = "vmRecord" => x \in Said("run_end")' \ Said("error_end")'
             /\ pc'[x] \in Closing =>
                   /\ x \in ToSet(history)' => x \in Said("run_end")' \ Said("error_end")'
                   /\ x \in Said("run_end")' /\ Len(history') < HistMax => x \in ToSet(history)'
      BY <1>0, <2>1, <3>2, <3>3, <3>5 DEF HistorySoFar
    <3>6. /\ pc'[r] \notin (Unsaid \cup Begun \cup {"vmRecord"}) \ {"end"} /\ pc'[r] # "vmRecord"
          /\ pc'[r] \in Closing => pc[r] = "vmRecord"
      BY <2>5 DEF Recorded, Unsaid, Begun, Closing
    <3> QED
      BY <3>2, <3>3, <3>4, <3>5, <3>6 DEF HistorySoFar
  <2>6. CASE Starts(r) \/ Again(r) \/ Ends(r) \/ Fails(r)
    BY <2>4, <2>6 DEF Starts, Again, Ends, Fails, Begun
  <2> QED
    BY <1>3, <2>3, <2>5, <2>6, Shapes
<1> QED
  BY <1>1, <1>2, <1>3 DEF Next

-----------------------------------------------------------------------------
(* The theorems.                                                            *)

LEMMA Inductive == Spec => []IInv
<1>1. IInv /\ [Next]_vars => IInv'
  BY TypesKeep, GuardKeeps, FeedKeeps, HistoryKeeps DEF IInv
<1> QED
  BY InitIInv, <1>1, PTL DEF Spec

\* Every variable keeps its type and the history its limit, however many
\* requests are made at once (web.py:88-92).
THEOREM DashboardTypes == Spec => []TypeOK
<1>1. IInv => TypeOK
  BY DEF IInv
<1> QED
  BY Inductive, <1>1, PTL

\* Nothing is left of runs that are over: the guard is down unless get_profile
\* ended a thread, no session is in flight, no cgroup is live (web.py:242-311).
THEOREM NothingIsLeft == Spec => []AtRest
<1>1. IInv => AtRest
  BY DEF IInv, TypeOK, AtRest, Guarded, InFlight, Busy, LocalOnly, VmOnly
<1> QED
  BY Inductive, <1>1, PTL

\* The history and the feed tell the same story (web.py:88-92 and 293-306).
THEOREM TheHistoryIsTheFeed == Spec => []HistoryIsTheFeed
<1>1. IInv => HistoryIsTheFeed
  BY DEF IInv, HistoryIsTheFeed, HistorySoFar, Closing
<1> QED
  BY Inductive, <1>1, PTL

\* The feed brackets every run (web.py:279-306 and 341-409).
THEOREM TheFeedIsBracketed == Spec => []FeedIsBracketed
<1>1. IInv => FeedIsBracketed
  BY DEF IInv
<1> QED
  BY Inductive, <1>1, PTL

=============================================================================
