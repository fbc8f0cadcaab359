-------------------------- MODULE NativeWindowProofs --------------------------
(***************************************************************************)
(* Proofs about NativeWindow, for any number of runs, one after another.    *)
(***************************************************************************)
EXTENDS NativeWindow, TLAPS

(* The inductive invariant, in parts.                                       *)

\* Every variable's type, with those that TypeOK leaves to the step that uses them.
Types ==
    /\ TypeOK
    /\ partial \in [Runs -> BOOLEAN] /\ pending \in [Runs -> BOOLEAN]
    /\ subs \subseteq Runs /\ amiss \in BOOLEAN

\* Where a worker is tells what its helper, its WebSocket and its guest can be.
Places ==
    /\ \A r \in Runs :
          /\ w[r] \in {"none", "launch", "boot", "waitUp", "connect", "upload", "relay"} => proc[r] = "none"
          /\ proc[r] \in {"session", "stuck", "over"} => w[r] = "read"
          /\ proc[r] = "over" => outcome[r] \in Verdicts
          /\ r \in subs <=> w[r] \in {"upload", "relay"}
          /\ guest = r => proc[r] = "none" /\ w[r] \in {"relay", "tell", "done", "mute"}
    /\ \A r \in Runs : r > cur =>
          /\ w[r] = "none" /\ outcome[r] = "none" /\ ~pending[r]
          /\ lost[r] = {} /\ feed[r] = <<>>

\* Sequences of lines: with a violation; that end with a verdict; with no line after a
\* verdict.
Has(s)  == \E i \in DOMAIN s : s[i] = "violation"
Ends(s) == s # <<>> /\ s[Len(s)] \in Verdicts
Tidy(s) == \A i \in DOMAIN s : s[i] # "failure" /\ (s[i] \in Verdicts => i = Len(s))

\* A run from which nothing more can come.
Past(r) ==
    /\ w[r] = "done" \/ (w[r] = "read" /\ proc[r] = "ok")
    /\ proc[r] \in {"none", "ok"} /\ (guest = r => ending)

\* As long as nothing is amiss, only the last run has anything to say;
\* a window that is free has shown it ...
Free ==
    /\ q = <<>>
    /\ cur > 0 => /\ Past(cur) /\ display = outcome[cur]
                  /\ shown = (outcome[cur] = "contained" /\ "violation" \notin lost[cur])

\* ... and for one that is not, every violation is shown, on its way or lost, and
\* nothing comes after the verdict.
OnItsWay == shown \/ Has(q) \/ Has(feed[cur])
Busy ==
    /\ cur > 0
    /\ Ends(q) => Past(cur) /\ q[Len(q)] = outcome[cur] /\ ~pending[cur] /\ feed[cur] = <<>>
    /\ Ends(feed[cur]) => /\ feed[cur][Len(feed[cur])] = outcome[cur] /\ ~pending[cur]
                          /\ guest = cur => ending
    /\ feed[cur] # <<>> => w[cur] = "relay"
    /\ w[cur] = "done" => Past(cur)
    /\ outcome[cur] = "none" => "violation" \notin lost[cur]
    /\ w[cur] # "mute" =>
          /\ (outcome[cur] = "contained" /\ "violation" \notin lost[cur]) <=> (OnItsWay \/ pending[cur])
          /\ pending[cur] => ~OnItsWay

Story ==
    ~amiss =>
        /\ \A r \in Runs : w[r] # "tell" /\ (r < cur => Past(r))
        /\ Tidy(q) /\ (cur > 0 => Tidy(feed[cur]))
        /\ ~running => Free
        /\ running => Busy

IInv == Types /\ Places /\ Story

-----------------------------------------------------------------------------
(* Lemmas about the sequences.                                              *)

LEMMA Empties == ~Has(<<>>) /\ ~Ends(<<>>) /\ Tidy(<<>>)
  BY DEF Has, Ends, Tidy

LEMMA Appends ==
    ASSUME NEW s \in Seq(Lines), NEW e \in Lines
    PROVE  /\ Append(s, e) \in Seq(Lines) /\ Append(s, e) # <<>>
           /\ Has(Append(s, e)) <=> (Has(s) \/ e = "violation")
           /\ Ends(Append(s, e)) <=> e \in Verdicts
           /\ Append(s, e)[Len(Append(s, e))] = e
           /\ Tidy(s) /\ ~Ends(s) /\ e # "failure" => Tidy(Append(s, e))
<1> DEFINE a == Append(s, e)
<1>1. /\ a \in Seq(Lines) /\ Len(a) = Len(s) + 1 /\ Len(s) \in Nat /\ a[Len(a)] = e
      /\ DOMAIN a = 1..(Len(s) + 1) /\ DOMAIN s = 1..Len(s)
      /\ \A i \in 1..Len(s) : a[i] = s[i]
  OBVIOUS
<1> HIDE DEF a
<1>2. a # <<>>
  BY <1>1
<1>3. Has(a) <=> (Has(s) \/ e = "violation")
  BY <1>1 DEF Has
<1>4. Ends(a) <=> e \in Verdicts
  BY <1>1, <1>2 DEF Ends
<1>5. ASSUME Tidy(s), ~Ends(s), e # "failure" PROVE Tidy(a)
  <2>1. \A i \in 1..Len(s) : s[i] # "failure" /\ s[i] \notin Verdicts
    <3> SUFFICES ASSUME NEW i \in 1..Len(s) PROVE s[i] # "failure" /\ s[i] \notin Verdicts
      OBVIOUS
    <3>1. s # <<>>
      BY <1>1
    <3> QED
      BY <1>1, <1>5, <3>1 DEF Tidy, Ends
  <2> QED
    BY <1>1, <1>5, <2>1 DEF Tidy
<1> QED
  BY <1>1, <1>2, <1>3, <1>4, <1>5 DEF a

LEMMA Tails ==
    ASSUME NEW s \in Seq(Lines), s # <<>>
    PROVE  /\ Head(s) \in Lines /\ Tail(s) \in Seq(Lines)
           /\ Has(s) <=> (Head(s) = "violation" \/ Has(Tail(s)))
           /\ Tidy(s) => /\ Tidy(Tail(s)) /\ Head(s) # "failure"
                         /\ Head(s) \in Verdicts => Tail(s) = <<>> /\ Ends(s) /\ Head(s) = s[Len(s)]
           /\ Ends(Tail(s)) => Ends(s) /\ Tail(s)[Len(Tail(s))] = s[Len(s)]
<1> DEFINE t == Tail(s)
           h == Head(s)
<1>1. /\ h \in Lines /\ t \in Seq(Lines) /\ h = s[1]
      /\ Len(s) \in Nat \ {0} /\ Len(t) = Len(s) - 1 /\ DOMAIN t = 1..(Len(s) - 1) /\ DOMAIN s = 1..Len(s)
      /\ \A i \in 1..(Len(s) - 1) : t[i] = s[i + 1]
  OBVIOUS
<1> HIDE DEF t, h
<1>2. Has(s) <=> (h = "violation" \/ Has(t))
  <2>1. ASSUME NEW i \in 1..Len(s), s[i] = "violation" PROVE h = "violation" \/ Has(t)
    <3>1. CASE i = 1
      BY <1>1, <2>1, <3>1
    <3>2. CASE i # 1
      <4>1. i - 1 \in DOMAIN t /\ t[i - 1] = "violation"
        BY <1>1, <2>1, <3>2
      <4> QED
        BY <4>1 DEF Has
    <3> QED
      BY <3>1, <3>2
  <2>2. ASSUME NEW i \in DOMAIN t, t[i] = "violation" PROVE Has(s)
    <3>1. i + 1 \in DOMAIN s /\ s[i + 1] = "violation"
      BY <1>1, <2>2
    <3> QED
      BY <3>1 DEF Has
  <2>3. h = "violation" => Has(s)
    <3>1. 1 \in DOMAIN s
      BY <1>1
    <3> QED
      BY <1>1, <3>1 DEF Has
  <2> QED
    BY <1>1, <2>1, <2>2, <2>3 DEF Has
<1>3. ASSUME Tidy(s) PROVE Tidy(t) /\ h # "failure" /\ (h \in Verdicts => t = <<>> /\ Ends(s) /\ h = s[Len(s)])
  <2>1. Tidy(t)
    BY <1>1, <1>3 DEF Tidy
  <2>2. h # "failure" /\ (h \in Verdicts => Len(s) = 1)
    BY <1>1, <1>3 DEF Tidy
  <2>3. Len(s) = 1 => t = <<>>
    BY <1>1
  <2> QED
    BY <1>1, <2>1, <2>2, <2>3 DEF Ends
<1>4. ASSUME Ends(t) PROVE Ends(s) /\ t[Len(t)] = s[Len(s)]
  <2>1. t # <<>> /\ t[Len(t)] \in Verdicts
    BY <1>4 DEF Ends
  <2>2. Len(t) \in 1..(Len(s) - 1)
    BY <1>1, <2>1
  <2>3. t[Len(t)] = s[Len(s)]
    BY <1>1, <2>2
  <2> QED
    BY <2>1, <2>3 DEF Ends
<1> QED
  BY <1>1, <1>2, <1>3, <1>4 DEF t, h

-----------------------------------------------------------------------------
(* The invariant is inductive: one lemma for each part.                     *)

LEMMA InitIInv == Init => IInv
<1> SUFFICES ASSUME Init PROVE IInv
  OBVIOUS
<1> USE WindowAssumption
<1>1. Types
  <2>1. q \in Seq(Lines) /\ feed \in [Runs -> Seq(Lines)] /\ lost \in [Runs -> SUBSET Lines]
    BY DEF Init
  <2>2. cur \in 0..MaxRuns /\ guest \in 0..MaxRuns /\ (ending => guest # 0)
    BY DEF Init
  <2>3. /\ w \in [Runs -> {"none", "launch", "write", "writeLarge", "read", "tell", "boot", "waitUp", "connect",
                          "upload", "relay", "done", "mute"}]
        /\ proc \in [Runs -> {"none", "prompt", "input", "session", "stuck", "over", "ok", "bad"}]
        /\ outcome \in [Runs -> Verdicts \cup {"none"}]
        /\ partial \in [Runs -> BOOLEAN] /\ pending \in [Runs -> BOOLEAN] /\ subs \subseteq Runs
    BY DEF Init
  <2>4. /\ running \in BOOLEAN /\ shown \in BOOLEAN /\ pump \in BOOLEAN /\ amiss \in BOOLEAN
        /\ display \in Verdicts \cup {"idle", "running", "frozen"} /\ vm \in {"none", "booting", "serving"}
    BY DEF Init
  <2> QED
    BY <2>1, <2>2, <2>3, <2>4 DEF Types, TypeOK
<1>2. Places
  BY DEF Init, Places, Runs
<1>3. Story
  BY Empties DEF Init, Story, Free, Runs
<1> QED
  BY <1>1, <1>2, <1>3 DEF IInv

LEMMA TypesKeep == IInv /\ [Next]_vars => Types'
<1> SUFFICES ASSUME IInv, [Next]_vars PROVE Types'
  OBVIOUS
<1>0. Types /\ Places
  BY DEF IInv
<1> USE WindowAssumption
<1> USE DEF Types, TypeOK, Lines, Verdicts, Set, Goto, Put, PutFailure, window, local, remote
<1>1. CASE UNCHANGED vars
  BY <1>0, <1>1 DEF vars
<1>2. CASE StartRun
  <2>1. cur' \in Runs /\ cur' \in 0..MaxRuns
    BY <1>0, <1>2 DEF StartRun, Runs
  <2> QED
    BY <1>0, <1>2, <2>1 DEF StartRun
<1>3. CASE Handle
  <2>1. Head(q) \in Lines /\ Tail(q) \in Seq(Lines)
    BY <1>0, <1>3 DEF Handle
  <2> QED
    BY <1>0, <1>3, <2>1 DEF Handle
<1>4. CASE VmServes \/ VmEnds
  BY <1>0, <1>4 DEF VmServes, VmEnds
<1>5. CASE GuestViolates \/ GuestPump
  <2>1. guest # 0 => guest \in Runs
    BY <1>0 DEF Runs
  <2>2. CASE GuestViolates
    BY <1>0, <2>1, <2>2 DEF GuestViolates
  <2>3. CASE GuestPump
    <3>1. feed' \in [Runs -> Seq(Lines)]
      BY <1>0, <2>3 DEF GuestPump, Broadcast
    <3> QED
      BY <1>0, <2>1, <2>3, <3>1 DEF GuestPump
  <2> QED
    BY <1>5, <2>2, <2>3
<1>6. CASE GuestEnds \/ GuestClears
  <2>1. guest # 0 => guest \in Runs
    BY <1>0 DEF Runs
  <2>2. CASE GuestEnds
    <3>1. PICK v \in Verdicts : outcome' = Set(outcome, guest, v) /\ Broadcast(v)
      BY <2>2 DEF GuestEnds
    <3>2. feed' \in [Runs -> Seq(Lines)]
      BY <1>0, <3>1 DEF Broadcast
    <3>3. lost' \in [Runs -> SUBSET Lines]
      BY <1>0, <2>1, <2>2 DEF GuestEnds, Unsaid
    <3> QED
      BY <1>0, <2>1, <2>2, <3>1, <3>2, <3>3 DEF GuestEnds
  <2> QED
    BY <1>0, <1>6, <2>2 DEF GuestClears
<1>7. ASSUME NEW r \in Runs, Worker(r) \/ FeedEnds(r) PROVE Types'
  <2>0. \A e \in Lines : Append(q, e) \in Seq(Lines)
    BY <1>0
  <2>1. q' \in Seq(Lines) /\ feed' \in [Runs -> Seq(Lines)]
    <3>1. CASE Relay(r)
      <4>1. Head(feed[r]) \in Lines /\ Tail(feed[r]) \in Seq(Lines)
        BY <1>0, <3>1 DEF Relay
      <4> QED
        BY <1>0, <2>0, <3>1, <4>1 DEF Relay
    <3>2. CASE ~Relay(r)
      <4>1. feed' = feed /\ \/ q' = q
                            \/ \E e \in {"failure", "error"} : q' = Append(q, e)
        <5> HIDE DEF Types, TypeOK
        <5>1. CASE LaunchHelper(r) \/ WriteScript(r) \/ HelperIsOver(r) \/ TellEnd(r)
          BY <5>1 DEF LaunchHelper, WriteScript, HelperIsOver, TellEnd
        <5>2. CASE Boot(r) \/ WaitUp(r) \/ Connect(r)
          BY <5>2 DEF Boot, WaitUp, Connect
        <5>3. CASE Upload(r) \/ FeedEnds(r)
          BY <5>3 DEF Upload, FeedEnds
        <5> QED
          BY <1>7, <3>2, <5>1, <5>2, <5>3 DEF Worker
      <4> QED
        BY <1>0, <2>0, <4>1
    <3> QED
      BY <3>1, <3>2
  <2>2. /\ \E there \in {"write", "writeLarge", "read", "tell", "waitUp", "connect", "upload", "relay", "done", "mute"} :
              w' = [w EXCEPT ![r] = there]
        /\ proc' \in {proc, [proc EXCEPT ![r] = "prompt"]}
        /\ subs' \in {subs, subs \cup {r}, subs \ {r}} /\ amiss' \in {amiss, TRUE}
        /\ vm' \in {vm, "booting"} /\ guest' \in {guest, r} /\ ending' = ending
        /\ UNCHANGED <<cur, running, shown, display, pump, partial, pending, lost, outcome>>
    <3> HIDE DEF Types, TypeOK
    <3>1. CASE LaunchHelper(r) \/ WriteScript(r)
      BY <3>1 DEF LaunchHelper, WriteScript
    <3>2. CASE HelperIsOver(r) \/ TellEnd(r)
      BY <3>2 DEF HelperIsOver, TellEnd
    <3>3. CASE Boot(r)
      BY <3>3 DEF Boot
    <3>4. CASE WaitUp(r) \/ Connect(r)
      BY <3>4 DEF WaitUp, Connect
    <3>5. CASE Upload(r)
      BY <3>5 DEF Upload
    <3>6. CASE FeedEnds(r)
      BY <3>6 DEF FeedEnds
    <3>7. CASE Relay(r)
      <4>1. w[r] = "relay" /\ DOMAIN w = Runs
        BY <1>0, <3>7 DEF Relay, Types, TypeOK
      <4>2. w = [w EXCEPT ![r] = "relay"]
        BY <1>0, <4>1 DEF Types, TypeOK
      <4> QED
        BY <3>7, <4>2 DEF Relay
    <3> QED
      BY <1>7, <3>1, <3>2, <3>3, <3>4, <3>5, <3>6, <3>7 DEF Worker
  <2>3. r \in 0..MaxRuns /\ r # 0
    BY DEF Runs
  <2>4. /\ w' \in [Runs -> {"none", "launch", "write", "writeLarge", "read", "tell", "boot", "waitUp", "connect",
                           "upload", "relay", "done", "mute"}]
        /\ proc' \in [Runs -> {"none", "prompt", "input", "session", "stuck", "over", "ok", "bad"}]
    <3>1. PICK there \in {"write", "writeLarge", "read", "tell", "waitUp", "connect", "upload", "relay", "done", "mute"} :
              w' = [w EXCEPT ![r] = there]
      BY <2>2
    <3>2. proc' = proc \/ proc' = [proc EXCEPT ![r] = "prompt"]
      BY <2>2
    <3> QED
      BY <1>0, <3>1, <3>2
  <2>5. /\ subs' \subseteq Runs /\ amiss' \in BOOLEAN /\ vm' \in {"none", "booting", "serving"}
        /\ guest' \in 0..MaxRuns /\ (ending' => guest' # 0)
    BY <1>0, <2>2, <2>3
  <2> QED
    BY <1>0, <2>1, <2>2, <2>4, <2>5
<1>8. ASSUME NEW r \in Runs, Helper(r) \/ SessionFails(r) \/ PayloadWrites(r) \/ Violates(r) \/ HelperPump(r)
      PROVE  Types'
  <2>0. \A e \in Lines : Append(q, e) \in Seq(Lines)
    BY <1>0
  <2>1. q' \in Seq(Lines)
    <3>1. proc[r] = "over" => outcome[r] \in Verdicts
      BY <1>0 DEF Places
    <3>2. q' = q \/ (q' = Append(q, outcome[r]) /\ proc[r] = "over")
          \/ \E e \in Lines : q' = Append(q, e)
      <4> HIDE DEF Types, TypeOK
      <4>1. CASE Authorize(r) \/ SessionReturns(r) \/ SessionFails(r) \/ Violates(r)
        BY <4>1 DEF Authorize, SessionReturns, SessionFails, Violates
      <4>2. CASE HelperReads(r)
        BY <4>2 DEF HelperReads, Say
      <4>3. CASE HelperPump(r)
        BY <4>3 DEF HelperPump, Say
      <4>4. CASE PayloadWrites(r)
        BY <4>4 DEF PayloadWrites
      <4>5. CASE HelperResult(r)
        BY <4>5 DEF HelperResult
      <4> QED
        BY <1>8, <4>1, <4>2, <4>3, <4>4, <4>5 DEF Helper
    <3>3. outcome[r] \in Lines \/ proc[r] # "over"
      BY <3>1
    <3>4. q \in Seq(Lines)
      BY <1>0
    <3> HIDE DEF Types, TypeOK, Lines
    <3> QED
      BY <2>0, <3>2, <3>3, <3>4
  <2>2. /\ proc' \in [Runs -> {"none", "prompt", "input", "session", "stuck", "over", "ok", "bad"}]
        /\ outcome' \in [Runs -> Verdicts \cup {"none"}]
        /\ partial' \in [Runs -> BOOLEAN] /\ pending' \in [Runs -> BOOLEAN] /\ amiss' \in BOOLEAN
        /\ UNCHANGED <<window, pump, w, remote>>
    <3>1. CASE Authorize(r)
      BY <1>0, <3>1 DEF Authorize
    <3>2. CASE HelperReads(r)
      <4>1. /\ \E there \in {"session", "bad"} : proc' = [proc EXCEPT ![r] = there]
            /\ partial' = partial \/ partial' = [partial EXCEPT ![r] = FALSE]
            /\ amiss' \in {amiss, TRUE} /\ UNCHANGED <<window, pump, w, pending, remote, outcome>>
        <5> HIDE DEF Types, TypeOK
        <5> QED
          BY <3>2 DEF HelperReads, Say
      <4>2. PICK there \in {"session", "bad"} : proc' = [proc EXCEPT ![r] = there]
        BY <4>1
      <4>3. proc' \in [Runs -> {"none", "prompt", "input", "session", "stuck", "over", "ok", "bad"}]
        BY <1>0, <4>2
      <4>4. partial' \in [Runs -> BOOLEAN]
        BY <1>0, <4>1
      <4> QED
        BY <1>0, <4>1, <4>3, <4>4
    <3>6. CASE SessionReturns(r)
      BY <1>0, <3>6 DEF SessionReturns
    <3>7. CASE HelperResult(r)
      BY <1>0, <3>7 DEF HelperResult
    <3>3. CASE SessionFails(r)
      BY <1>0, <3>3 DEF SessionFails
    <3>4. CASE PayloadWrites(r) \/ Violates(r)
      BY <1>0, <3>4 DEF PayloadWrites, Violates
    <3>5. CASE HelperPump(r)
      BY <1>0, <3>5 DEF HelperPump, Say
    <3> QED
      BY <1>8, <3>1, <3>2, <3>3, <3>4, <3>5, <3>6, <3>7 DEF Helper
  <2>3. lost' \in [Runs -> SUBSET Lines]
    <3>1. lost' = lost \/ \E more \in SUBSET Lines : lost' = [lost EXCEPT ![r] = lost[r] \cup more]
      <4>1. CASE Authorize(r) \/ SessionReturns(r) \/ PayloadWrites(r) \/ Violates(r)
        BY <4>1 DEF Authorize, SessionReturns, PayloadWrites, Violates
      <4>2. CASE HelperReads(r) \/ HelperPump(r)
        BY <4>2 DEF HelperReads, HelperPump, Say
      <4>3. CASE SessionFails(r)
        BY <4>3 DEF SessionFails, Unsaid
      <4>4. CASE HelperResult(r)
        <5>1. outcome[r] \in Verdicts
          BY <1>0, <4>4 DEF HelperResult, Places
        <5>2. /\ lost' = [lost EXCEPT ![r] = lost[r] \cup (Unsaid(r) \cup (IF partial[r] THEN {outcome[r]} ELSE {}))]
              /\ Unsaid(r) \cup (IF partial[r] THEN {outcome[r]} ELSE {}) \in SUBSET Lines
          BY <4>4, <5>1 DEF HelperResult, Unsaid
        <5> QED
          BY <5>2
      <4> QED
        BY <1>8, <4>1, <4>2, <4>3, <4>4 DEF Helper
    <3>2. \A more \in SUBSET Lines : lost[r] \cup more \in SUBSET Lines
      BY <1>0
    <3> DEFINE Some == SUBSET Lines
    <3>3. lost \in [Runs -> Some] /\ \A more \in Some : lost[r] \cup more \in Some
      BY <1>0, <3>2
    <3>4. lost' = lost \/ \E more \in Some : lost' = [lost EXCEPT ![r] = lost[r] \cup more]
      BY <3>1
    <3> HIDE DEF Some
    <3>5. lost' \in [Runs -> Some]
      BY <3>3, <3>4
    <3> QED
      BY <3>5 DEF Some
  <2> QED
    BY <1>0, <2>1, <2>2, <2>3
<1> QED
  BY <1>1, <1>2, <1>3, <1>4, <1>5, <1>6, <1>7, <1>8 DEF Next, Guest

LEMMA PlacesKeep == IInv /\ [Next]_vars => Places'
<1> SUFFICES ASSUME IInv, [Next]_vars PROVE Places'
  OBVIOUS
<1>0. /\ Places /\ DOMAIN w = Runs /\ DOMAIN proc = Runs /\ DOMAIN outcome = Runs /\ DOMAIN pending = Runs
      /\ DOMAIN lost = Runs /\ DOMAIN feed = Runs /\ subs \subseteq Runs
      /\ guest \in Runs \cup {0} /\ 0 \notin Runs /\ cur \in Nat /\ Runs \subseteq Nat
  BY WindowAssumption DEF IInv, Types, TypeOK, Runs
<1> USE DEF Places, Set, Goto, PutFailure, window, local, remote
<1>1. CASE UNCHANGED vars
  BY <1>0, <1>1 DEF vars
<1>2. CASE StartRun
  BY <1>0, <1>2 DEF StartRun
<1>3. CASE Handle
  BY <1>0, <1>3 DEF Handle
<1>4. CASE VmServes \/ VmEnds \/ GuestClears
  BY <1>0, <1>4 DEF VmServes, VmEnds, GuestClears
<1>5. CASE GuestViolates
  BY <1>0, <1>5 DEF GuestViolates, Verdicts
<1>6. CASE GuestPump
  BY <1>0, <1>6 DEF GuestPump, Broadcast
<1>7. CASE GuestEnds
  <2>1. PICK v \in Verdicts : outcome' = [outcome EXCEPT ![guest] = v] /\ Broadcast(v)
    BY <1>7 DEF GuestEnds, Verdicts
  <2>2. guest \in Runs /\ guest <= cur
    BY <1>0, <1>7 DEF GuestEnds
  <2>3. \A r \in Runs : r > cur => feed'[r] = feed[r] /\ pending'[r] = pending[r] /\ lost'[r] = lost[r]
    BY <1>0, <1>7, <2>1, <2>2 DEF GuestEnds, Broadcast
  <2>4. UNCHANGED <<cur, w, proc, guest, subs>>
    BY <1>7 DEF GuestEnds
  <2> QED
    BY <1>0, <2>1, <2>2, <2>3, <2>4
<1>8. ASSUME NEW r \in Runs, Worker(r) \/ FeedEnds(r) PROVE Places'
  <2>1. CASE LaunchHelper(r)
    BY <1>0, <2>1 DEF LaunchHelper
  <2>2. CASE WriteScript(r)
    BY <1>0, <2>2 DEF WriteScript
  <2>3. CASE HelperIsOver(r) \/ TellEnd(r)
    BY <1>0, <2>3 DEF HelperIsOver, TellEnd
  <2>4. CASE Boot(r)
    <3>1. /\ w[r] = "boot" /\ UNCHANGED <<cur, proc, outcome, pending, lost, feed, subs, guest>>
          /\ \E there \in {"connect", "waitUp", "tell", "mute"} : w' = [w EXCEPT ![r] = there]
      BY <2>4 DEF Boot
    <3> QED
      BY <1>0, <3>1
  <2>5. CASE WaitUp(r)
    BY <1>0, <2>5 DEF WaitUp
  <2>6. CASE Connect(r)
    BY <1>0, <2>6 DEF Connect
  <2>7. CASE Upload(r)
    BY <1>0, <2>7 DEF Upload
  <2>8. CASE Relay(r)
    BY <1>0, <2>8 DEF Relay
  <2>9. CASE FeedEnds(r)
    BY <1>0, <2>9 DEF FeedEnds
  <2> QED
    BY <1>8, <2>1, <2>2, <2>3, <2>4, <2>5, <2>6, <2>7, <2>8, <2>9 DEF Worker
<1>9. ASSUME NEW r \in Runs, Helper(r) \/ SessionFails(r) \/ PayloadWrites(r) \/ Violates(r) \/ HelperPump(r)
      PROVE  Places'
  <2>1. CASE Authorize(r)
    BY <1>0, <2>1 DEF Authorize
  <2>2. CASE HelperReads(r)
    BY <1>0, <2>2 DEF HelperReads, Say
  <2>3. CASE SessionReturns(r)
    BY <1>0, <2>3 DEF SessionReturns, Payload, Verdicts, IInv, Types, TypeOK
  <2>4. CASE HelperResult(r)
    BY <1>0, <2>4 DEF HelperResult
  <2>5. CASE SessionFails(r)
    BY <1>0, <2>5 DEF SessionFails, Payload, Verdicts
  <2>6. CASE PayloadWrites(r)
    BY <1>0, <2>6 DEF PayloadWrites
  <2>7. CASE Violates(r)
    BY <1>0, <2>7 DEF Violates, Payload, Verdicts
  <2>8. CASE HelperPump(r)
    BY <1>0, <2>8 DEF HelperPump, Say, Payload
  <2> QED
    BY <1>9, <2>1, <2>2, <2>3, <2>4, <2>5, <2>6, <2>7, <2>8 DEF Helper
<1> QED
  BY <1>1, <1>2, <1>3, <1>4, <1>5, <1>6, <1>7, <1>8, <1>9 DEF Next, Guest

\* A run from which nothing more can come stays one.
LEMMA PastStays ==
    ASSUME IInv, [Next]_vars, NEW x \in Runs, Past(x)
    PROVE  Past(x)'
<1>0. /\ Places /\ DOMAIN w = Runs /\ DOMAIN proc = Runs /\ (ending => guest # 0) /\ 0 \notin Runs
      /\ cur \in Nat /\ Runs \subseteq Nat
  BY WindowAssumption DEF IInv, Types, TypeOK, Runs
<1> USE DEF Past, Set, Goto, PutFailure, window, local, remote
<1>1. CASE UNCHANGED vars
  BY <1>1 DEF vars
<1>2. CASE StartRun
  <2>1. x # cur + 1
    BY <1>0 DEF Places
  <2> QED
    BY <1>0, <1>2, <2>1 DEF StartRun
<1>3. CASE Handle \/ VmServes \/ VmEnds \/ GuestClears
  BY <1>0, <1>3 DEF Handle, VmServes, VmEnds, GuestClears
<1>4. CASE GuestViolates \/ GuestPump \/ GuestEnds
  BY <1>0, <1>4 DEF GuestViolates, GuestPump, GuestEnds
<1>5. ASSUME NEW r \in Runs, Worker(r) \/ FeedEnds(r) PROVE Past(x)'
  <2>1. CASE LaunchHelper(r) \/ WriteScript(r)
    BY <1>0, <2>1 DEF LaunchHelper, WriteScript
  <2>2. CASE HelperIsOver(r) \/ TellEnd(r)
    BY <1>0, <2>2 DEF HelperIsOver, TellEnd
  <2>3. CASE Boot(r) \/ WaitUp(r) \/ Connect(r)
    BY <1>0, <2>3 DEF Boot, WaitUp, Connect
  <2>4. CASE Upload(r) \/ Relay(r) \/ FeedEnds(r)
    BY <1>0, <2>4 DEF Upload, Relay, FeedEnds
  <2> QED
    BY <1>5, <2>1, <2>2, <2>3, <2>4 DEF Worker
<1>6. ASSUME NEW r \in Runs, Helper(r) \/ SessionFails(r) \/ PayloadWrites(r) \/ Violates(r) \/ HelperPump(r)
      PROVE  Past(x)'
  <2>1. CASE Authorize(r) \/ HelperReads(r) \/ SessionReturns(r) \/ HelperResult(r)
    BY <1>0, <2>1 DEF Authorize, HelperReads, SessionReturns, HelperResult, Payload
  <2>2. CASE SessionFails(r) \/ PayloadWrites(r)
    BY <1>0, <2>2 DEF SessionFails, PayloadWrites, Payload
  <2>3. CASE Violates(r) \/ HelperPump(r)
    BY <1>0, <2>3 DEF Violates, HelperPump
  <2> QED
    BY <1>6, <2>1, <2>2, <2>3 DEF Helper
<1> QED
  BY <1>1, <1>2, <1>3, <1>4, <1>5, <1>6 DEF Next, Guest

\* A run that has begun and is not past is the one the window is about.
LEMMA Current ==
    ASSUME IInv, ~amiss, NEW r \in Runs, ~Past(r), w[r] # "none"
    PROVE  r = cur /\ running /\ Busy /\ ~Ends(q) /\ w[r] # "done"
<1>0. Places /\ Story /\ cur \in Nat /\ Runs \subseteq Nat /\ 0 \notin Runs /\ running \in BOOLEAN
  BY WindowAssumption DEF IInv, Types, TypeOK, Runs
<1>1. r = cur
  BY <1>0 DEF Places, Story
<1>2. running
  BY <1>0, <1>1 DEF Story, Free
<1> QED
  BY <1>0, <1>1, <1>2 DEF Story, Busy

\* A step in which the window hears nothing.
LEMMA Still ==
    ASSUME IInv, [Next]_vars, ~amiss,
           UNCHANGED <<cur, running, shown, display, q, outcome>>,
           \A r \in Runs : w'[r] # "tell",
           cur > 0 =>
              /\ feed'[cur] = feed[cur] /\ pending'[cur] = pending[cur]
              /\ "violation" \in lost'[cur] <=> "violation" \in lost[cur]
              /\ feed[cur] # <<>> /\ w[cur] = "relay" => w'[cur] = "relay"
              /\ w'[cur] # "mute" => w[cur] # "mute"
              /\ w'[cur] = "done" => Past(cur)
              /\ Ends(feed[cur]) /\ (guest = cur => ending) => (guest' = cur => ending')
    PROVE  Story'
<1>1. /\ Story /\ cur \in Nat /\ cur <= MaxRuns /\ (cur > 0 => cur \in Runs)
      /\ running \in BOOLEAN /\ shown \in BOOLEAN
  BY WindowAssumption DEF IInv, Types, TypeOK, Runs
<1>2. \A r \in Runs : Past(r) => Past(r)'
  BY PastStays
<1>3. /\ \A r \in Runs : w'[r] # "tell" /\ (r < cur' => Past(r)')
      /\ Tidy(q') /\ (cur' > 0 => Tidy(feed'[cur']))
  BY <1>1, <1>2 DEF Story
<1>4. cur > 0 => (Past(cur) => Past(cur)')
  BY <1>1, <1>2
<1>5. ~running => Free'
  <2> SUFFICES ASSUME ~running PROVE Free'
    OBVIOUS
  <2>1. Free
    BY <1>1 DEF Story
  <2>2. q' = <<>>
    BY <2>1 DEF Free
  <2>3. cur > 0 => Past(cur)' /\ display = outcome[cur]
                   /\ shown = (outcome[cur] = "contained" /\ "violation" \notin lost'[cur])
    BY <1>4, <2>1 DEF Free
  <2> QED
    BY <2>2, <2>3 DEF Free
<1>6. running => Busy'
  <2> SUFFICES ASSUME running PROVE Busy'
    OBVIOUS
  <2>1. Busy
    BY <1>1 DEF Story
  <2>2. cur > 0
    BY <2>1 DEF Busy
  <2>3. OnItsWay' <=> OnItsWay
    BY <2>2 DEF OnItsWay, Has
  <2>4. Ends(q') <=> Ends(q)
    OBVIOUS
  <2>5. Ends(feed'[cur']) <=> Ends(feed[cur])
    BY <2>2
  <2> QED
    BY <1>4, <2>1, <2>2, <2>3, <2>4, <2>5 DEF Busy
<1> QED
  BY <1>1, <1>3, <1>5, <1>6 DEF Story

LEMMA WindowKeeps ==
    ASSUME IInv, [Next]_vars, ~amiss, StartRun \/ Handle
    PROVE  Story'
<1>0. /\ Places /\ Story /\ DOMAIN w = Runs /\ q \in Seq(Lines) /\ cur \in Nat /\ 0 \notin Runs
      /\ (cur > 0 => cur \in Runs) /\ Runs \subseteq Nat /\ \A r \in Runs : r > 0
      /\ running \in BOOLEAN /\ shown \in BOOLEAN
  BY WindowAssumption DEF IInv, Types, TypeOK, Runs
<1>1. \A r \in Runs : Past(r) => Past(r)'
  BY PastStays
<1>2. CASE StartRun
  <2>1. /\ Free /\ cur' = cur + 1 /\ cur' \in Runs /\ running' /\ ~shown' /\ q' = q
        /\ w'[cur'] \in {"launch", "boot"} /\ \A r \in Runs : r # cur' => w'[r] = w[r]
        /\ UNCHANGED <<proc, pending, lost, feed, outcome, guest, ending>>
    BY <1>0, <1>2, WindowAssumption DEF StartRun, Story, Goto, Set, Runs, local, remote
  <2>2. \A r \in Runs : r < cur' => Past(r)'
    <3> SUFFICES ASSUME NEW r \in Runs, r < cur' PROVE Past(r)
      BY <1>1
    <3> QED
      BY <1>0, <2>1 DEF Story, Free
  <2>3. /\ q' = <<>> /\ feed'[cur'] = <<>> /\ ~pending'[cur'] /\ lost'[cur'] = {} /\ outcome'[cur'] = "none"
    BY <1>0, <2>1 DEF Free, Places
  <2>4. ~Has(q') /\ ~Ends(q') /\ Tidy(q') /\ ~Has(feed'[cur']) /\ ~Ends(feed'[cur']) /\ Tidy(feed'[cur'])
    BY <2>3, Empties
  <2>5. ~OnItsWay'
    BY <2>1, <2>4 DEF OnItsWay
  <2>6. Busy'
    BY <1>0, <2>1, <2>3, <2>4, <2>5 DEF Busy
  <2> QED
    BY <1>0, <2>1, <2>2, <2>4, <2>6 DEF Story
<1>3. CASE Handle
  <2> DEFINE h == Head(q)
  <2>1. /\ q # <<>> /\ q' = Tail(q) /\ h \in Lines
        /\ UNCHANGED <<cur, w, proc, pending, lost, feed, outcome, guest, ending>>
        /\ shown' = (shown \/ h = "violation") /\ running' = (running /\ h \in {"violation", "value"})
        /\ h \in Verdicts => display' = h
    BY <1>0, <1>3, Tails DEF Handle, local, remote, Verdicts
  <2>2. running /\ Busy /\ cur > 0 /\ cur \in Runs /\ Tidy(q) /\ Tidy(feed[cur])
    BY <1>0, <2>1 DEF Story, Free, Busy
  <2>3. /\ Has(q) <=> (h = "violation" \/ Has(q'))
        /\ Tidy(q') /\ h # "failure"
        /\ h \in Verdicts => q' = <<>> /\ Ends(q) /\ h = q[Len(q)]
        /\ Ends(q') => Ends(q) /\ q'[Len(q')] = q[Len(q)]
    BY <1>0, <2>1, <2>2, Tails
  <2> HIDE DEF h
  <2>4. /\ \A r \in Runs : w'[r] # "tell" /\ (r < cur' => Past(r)')
        /\ Tidy(q') /\ Tidy(feed'[cur'])
    BY <1>0, <1>1, <2>1, <2>2, <2>3 DEF Story
  <2>5. CASE h \in Verdicts
    <3>1. /\ Past(cur) /\ h = outcome[cur] /\ ~pending[cur] /\ feed[cur] = <<>> /\ w[cur] # "mute"
      BY <2>2, <2>3, <2>5 DEF Busy, Past
    <3>2. ~Has(q) /\ ~Has(feed[cur])
      BY <2>3, <2>5, <3>1, Empties DEF Verdicts
    <3>3. (outcome[cur] = "contained" /\ "violation" \notin lost[cur]) <=> shown
      BY <2>2, <3>1, <3>2 DEF Busy, OnItsWay
    <3>4. ~running' /\ (shown' <=> shown) /\ display' = outcome[cur] /\ Past(cur)'
      BY <1>0, <1>1, <2>1, <2>2, <2>5, <3>1 DEF Verdicts
    <3>5. Free'
      BY <1>0, <2>1, <2>3, <2>5, <3>3, <3>4 DEF Free
    <3> QED
      BY <2>1, <2>2, <2>4, <3>4, <3>5 DEF Story
  <2>6. CASE h \in {"violation", "value"}
    <3>1. running'
      BY <2>1, <2>2, <2>6
    <3>2. OnItsWay' <=> OnItsWay
      BY <2>1, <2>3, <2>6 DEF OnItsWay
    <3>3. Past(cur) => Past(cur)'
      BY <1>1, <2>1, <2>2
    <3>4. Busy'
      BY <2>1, <2>2, <2>3, <3>2, <3>3 DEF Busy
    <3> QED
      BY <2>1, <2>2, <2>4, <3>1, <3>4 DEF Story
  <2> QED
    BY <2>1, <2>3, <2>5, <2>6 DEF Lines
<1> QED
  BY <1>2, <1>3

\* The two ways in which the story goes on while the window is busy.
LEMMA Goes ==
    ASSUME IInv, [Next]_vars, ~amiss, running, Busy, cur' = cur, running' = running,
           \A r \in Runs : w'[r] # "tell",
           Tidy(q'), Tidy(feed'[cur]), Busy'
    PROVE  Story'
<1>1. \A r \in Runs : Past(r) => Past(r)'
  BY PastStays
<1> QED
  BY <1>1 DEF IInv, Story

LEMMA WorkerKeeps ==
    ASSUME IInv, [Next]_vars, ~amiss, ~amiss', NEW r \in Runs, Worker(r) \/ FeedEnds(r)
    PROVE  Story'
<1>0. /\ Places /\ Story /\ DOMAIN w = Runs /\ DOMAIN proc = Runs /\ DOMAIN feed = Runs
      /\ q \in Seq(Lines) /\ feed \in [Runs -> Seq(Lines)]
      /\ (cur > 0 => cur \in Runs) /\ (ending => guest # 0) /\ 0 \notin Runs /\ subs \subseteq Runs
      /\ pending \in [Runs -> BOOLEAN] /\ cur \in Nat /\ Runs \subseteq Nat
  BY WindowAssumption DEF IInv, Types, TypeOK, Runs
<1>1. ~Past(r) /\ w[r] # "none" => r = cur /\ running /\ Busy /\ ~Ends(q) /\ w[r] # "done"
  BY Current
<1>2. \A x \in Runs : w[x] # "tell"
  BY <1>0 DEF Story
<1> USE DEF Set, Goto, window, local, remote
\* Steps that put nothing into the queue.
<1>3. ASSUME UNCHANGED <<cur, running, shown, display, q, outcome, pending, lost, feed>>,
             \A x \in Runs : x # r => w'[x] = w[x],
             w'[r] # "tell", w[r] # "mute", w[r] = "relay" => feed[r] = <<>>,
             w'[r] = "done" => Past(r),
             (guest' = guest /\ ending' = ending) \/ (guest' = r /\ w[r] # "relay" /\ ~Past(r) /\ w[r] # "none")
      PROVE  Story'
  <2>1. cur > 0 =>
              /\ feed[cur] # <<>> /\ w[cur] = "relay" => w'[cur] = "relay"
              /\ w'[cur] # "mute" => w[cur] # "mute"
    BY <1>0, <1>3
  <2>2. w'[cur] = "done" /\ cur > 0 => Past(cur)
    <3>1. CASE cur = r
      BY <1>3, <3>1
    <3>2. CASE cur # r
      <4> SUFFICES ASSUME w[cur] = "done", cur > 0, cur \in Runs PROVE Past(cur)
        BY <1>0, <1>3, <3>2
      <4> QED
        BY Current
    <3> QED
      BY <3>1, <3>2
  <2>3. Ends(feed[cur]) /\ (guest = cur => ending) => (guest' = cur => ending')
    <3>1. CASE guest' = guest /\ ending' = ending
      BY <3>1
    <3>2. CASE guest' = r /\ w[r] # "relay" /\ ~Past(r) /\ w[r] # "none"
      <4>1. r = cur /\ Busy
        BY <1>1, <3>2
      <4>2. feed[cur] = <<>>
        BY <3>2, <4>1 DEF Busy
      <4> QED
        BY <4>2, Empties
    <3> QED
      BY <1>3, <3>1, <3>2
  <2> QED
    BY <1>2, <1>3, <2>1, <2>2, <2>3, Still
<1>4. CASE LaunchHelper(r) \/ WriteScript(r)
  <2>1. /\ UNCHANGED <<cur, running, shown, display, q, outcome, pending, lost, feed, guest, ending>>
        /\ \A x \in Runs : x # r => w'[x] = w[x]
        /\ w[r] \in {"launch", "write", "writeLarge"} /\ w'[r] \in {"write", "writeLarge", "read", "mute"}
    BY <1>0, <1>4 DEF LaunchHelper, WriteScript, PutFailure
  <2> QED
    BY <1>3, <2>1
<1>5. CASE HelperIsOver(r)
  <2>1. /\ UNCHANGED <<cur, running, shown, display, q, outcome, pending, lost, feed, guest, ending>>
        /\ \A x \in Runs : x # r => w'[x] = w[x]
        /\ w[r] = "read" /\ w'[r] \in {"done", "mute"} /\ (w'[r] = "done" => proc[r] = "ok")
    BY <1>0, <1>5 DEF HelperIsOver, PutFailure
  <2>2. proc[r] = "ok" => Past(r)
    BY <1>0, <2>1 DEF Past, Places
  <2> QED
    BY <1>3, <2>1, <2>2
<1>6. CASE TellEnd(r)
  BY <1>2, <1>6 DEF TellEnd
<1>7. CASE Boot(r) \/ WaitUp(r) \/ Connect(r)
  <2>1. /\ UNCHANGED <<cur, running, shown, display, q, outcome, pending, lost, feed, guest, ending>>
        /\ \A x \in Runs : x # r => w'[x] = w[x]
        /\ w[r] \in {"boot", "waitUp", "connect"} /\ w'[r] \in {"waitUp", "connect", "upload", "mute"}
    BY <1>0, <1>7 DEF Boot, WaitUp, Connect, PutFailure
  <2> QED
    BY <1>3, <2>1
<1>8. CASE Upload(r)
  <2>1. /\ UNCHANGED <<cur, running, shown, display, q, outcome, pending, lost, feed, ending>>
        /\ \A x \in Runs : x # r => w'[x] = w[x]
        /\ w[r] = "upload" /\ w'[r] = "relay" /\ guest' = r
    BY <1>0, <1>8 DEF Upload, PutFailure
  <2>2. ~Past(r)
    BY <2>1 DEF Past
  <2> QED
    BY <1>3, <2>1, <2>2
<1>9. CASE FeedEnds(r)
  <2>1. /\ UNCHANGED <<cur, running, shown, display, q, outcome, pending, lost, feed, guest, ending>>
        /\ \A x \in Runs : x # r => w'[x] = w[x]
        /\ w[r] = "relay" /\ w'[r] = "mute" /\ feed[r] = <<>>
    BY <1>0, <1>9 DEF FeedEnds
  <2> QED
    BY <1>3, <2>1
<1>10. CASE Relay(r)
  <2> DEFINE h == Head(feed[r])
  <2>1. /\ w[r] = "relay" /\ feed[r] # <<>> /\ q' = Append(q, h) /\ feed' = [feed EXCEPT ![r] = Tail(feed[r])]
        /\ UNCHANGED <<cur, running, shown, display, outcome, pending, lost, guest, ending, proc>>
        /\ w'[r] = (IF h \in Verdicts THEN "done" ELSE "relay")
        /\ \A x \in Runs : x # r => w'[x] = w[x]
    BY <1>0, <1>10 DEF Relay, Put
  <2>2. r = cur /\ running /\ Busy /\ ~Ends(q)
    BY <1>1, <2>1 DEF Past
  <2>3. feed'[cur] = Tail(feed[cur]) /\ feed[cur] \in Seq(Lines) /\ h = Head(feed[cur]) /\ Tidy(q) /\ Tidy(feed[cur])
    BY <1>0, <2>1, <2>2 DEF Story, Busy
  <2>4. /\ h \in Lines /\ (Has(feed[cur]) <=> (h = "violation" \/ Has(feed'[cur])))
        /\ Tidy(feed'[cur]) /\ h # "failure"
        /\ h \in Verdicts => feed'[cur] = <<>> /\ Ends(feed[cur]) /\ h = feed[cur][Len(feed[cur])]
        /\ Ends(feed'[cur]) => Ends(feed[cur]) /\ feed'[cur][Len(feed'[cur])] = feed[cur][Len(feed[cur])]
    <3>1. feed[cur] # <<>>
      BY <2>1, <2>2
    <3> DEFINE f == feed[cur]
               t == Tail(f)
    <3>2. f \in Seq(Lines) /\ f # <<>> /\ Tidy(f)
      BY <2>3, <3>1
    <3> HIDE DEF f
    <3>3. /\ Head(f) \in Lines /\ (Has(f) <=> (Head(f) = "violation" \/ Has(t)))
          /\ Tidy(t) /\ Head(f) # "failure"
          /\ Head(f) \in Verdicts => t = <<>> /\ Ends(f) /\ Head(f) = f[Len(f)]
          /\ Ends(t) => Ends(f) /\ t[Len(t)] = f[Len(f)]
      BY <3>2, Tails
    <3>4. h = Head(f) /\ feed'[cur] = t
      BY <2>3 DEF f
    <3> HIDE DEF t, h
    <3> QED
      BY <3>3, <3>4 DEF f
  <2> HIDE DEF h
  <2>5. /\ Has(q') <=> (Has(q) \/ h = "violation")
        /\ Ends(q') <=> h \in Verdicts
        /\ q'[Len(q')] = h /\ Tidy(q')
    BY <1>0, <2>1, <2>2, <2>3, <2>4, Appends
  <2>6. h \in Verdicts => Past(cur)' /\ h = outcome[cur] /\ ~pending[cur] /\ feed'[cur] = <<>>
    <3> SUFFICES ASSUME h \in Verdicts PROVE Past(cur)' /\ h = outcome[cur] /\ ~pending[cur] /\ feed'[cur] = <<>>
      OBVIOUS
    <3>1. h = outcome[cur] /\ ~pending[cur] /\ feed'[cur] = <<>> /\ (guest = cur => ending)
      BY <2>2, <2>4 DEF Busy
    <3>2. proc[cur] = "none"
      BY <1>0, <2>1, <2>2 DEF Places
    <3>3. Past(cur)'
      BY <2>1, <2>2, <3>1, <3>2 DEF Past
    <3> QED
      BY <3>1, <3>3
  <2>7. OnItsWay' <=> OnItsWay
    BY <2>1, <2>4, <2>5 DEF OnItsWay
  <2>8. h \notin Verdicts => w'[cur] = "relay"
    BY <2>1, <2>2
  <2>9. Busy'
    BY <2>1, <2>2, <2>4, <2>5, <2>6, <2>7, <2>8 DEF Busy
  <2>10. \A x \in Runs : w'[x] # "tell"
    BY <1>2, <2>1
  <2> QED
    BY <2>1, <2>2, <2>4, <2>5, <2>9, <2>10, Goes
<1> QED
  BY <1>4, <1>5, <1>6, <1>7, <1>8, <1>9, <1>10 DEF Worker

LEMMA HelperKeeps ==
    ASSUME IInv, [Next]_vars, ~amiss, ~amiss', NEW r \in Runs,
           Helper(r) \/ SessionFails(r) \/ PayloadWrites(r) \/ Violates(r) \/ HelperPump(r)
    PROVE  Story'
<1>0. /\ Places /\ Story /\ DOMAIN proc = Runs /\ DOMAIN outcome = Runs /\ DOMAIN pending = Runs /\ DOMAIN lost = Runs
      /\ q \in Seq(Lines) /\ pending \in [Runs -> BOOLEAN] /\ 0 \notin Runs
      /\ cur \in Nat /\ Runs \subseteq Nat /\ (cur > 0 => cur \in Runs)
  BY WindowAssumption DEF IInv, Types, TypeOK, Runs
<1>1. ~Past(r) /\ w[r] # "none" => r = cur /\ running /\ Busy /\ ~Ends(q) /\ w[r] # "done"
  BY Current
<1>2. \A x \in Runs : w[x] # "tell"
  BY <1>0 DEF Story
<1> USE DEF Set, Goto, window, local, remote
\* Steps that put nothing into the queue and lose no violation.
<1>3. ASSUME UNCHANGED <<cur, running, shown, display, q, outcome, pending, feed, guest, ending, w>>,
             cur > 0 => ("violation" \in lost'[cur] <=> "violation" \in lost[cur])
      PROVE  Story'
  <2>1. w[cur] = "done" /\ cur > 0 => Past(cur)
    <3> SUFFICES ASSUME w[cur] = "done", cur > 0, cur \in Runs PROVE Past(cur)
      BY <1>0
    <3> QED
      BY Current
  <2> QED
    BY <1>2, <1>3, <2>1, Still
<1>4. CASE Authorize(r)
  BY <1>3, <1>4 DEF Authorize
<1>5. CASE HelperReads(r)
  <2>1. /\ UNCHANGED <<cur, running, shown, display, q, outcome, pending, feed, guest, ending, w>>
        /\ lost' = lost \/ lost' = [lost EXCEPT ![r] = lost[r] \cup {"failure"}]
    BY <1>5 DEF HelperReads, Say
  <2> QED
    BY <1>0, <1>3, <2>1
\* The other steps are those of a session, or of one that has just ended.
<1>6. ASSUME proc[r] \in {"session", "stuck", "over"}
      PROVE  /\ r = cur /\ running /\ Busy /\ ~Ends(q) /\ w[r] = "read" /\ cur \in Runs /\ cur > 0
             /\ feed[cur] = <<>> /\ ~Has(feed[cur]) /\ ~Ends(feed[cur]) /\ Tidy(feed[cur]) /\ Tidy(q)
             /\ guest # cur
  <2>1. w[r] = "read" /\ ~Past(r) /\ guest # r
    BY <1>0, <1>6 DEF Places, Past
  <2>2. r = cur /\ running /\ Busy /\ ~Ends(q)
    BY <1>1, <2>1
  <2>3. feed[cur] = <<>> /\ cur > 0
    BY <2>1, <2>2 DEF Busy
  <2> QED
    BY <1>0, <2>1, <2>2, <2>3, Empties DEF Story
<1>7. CASE SessionReturns(r)
  <2>1. /\ proc[r] \in {"session", "stuck", "over"}
        /\ UNCHANGED <<cur, running, shown, display, q, pending, lost, feed, guest, ending, w>>
        /\ outcome'[r] = (IF outcome[r] = "none" THEN "clean" ELSE outcome[r])
    BY <1>0, <1>7 DEF SessionReturns, Payload
  <2>2. Busy'
    BY <1>6, <2>1 DEF Busy, OnItsWay, Has
  <2> QED
    BY <1>2, <1>6, <2>1, <2>2, Goes
<1>8. CASE SessionFails(r)
  <2>1. /\ proc[r] \in {"session", "stuck", "over"}
        /\ UNCHANGED <<cur, running, shown, display, q, feed, guest, ending, w>>
        /\ ~pending'[r]
        /\ "violation" \in lost'[r] <=> ("violation" \in lost[r] \/ pending[r])
        /\ outcome'[r] = outcome[r] \/ (outcome[r] = "none" /\ outcome'[r] = "error")
    BY <1>0, <1>8 DEF SessionFails, Payload, Unsaid
  <2>2. OnItsWay' <=> OnItsWay
    BY <2>1 DEF OnItsWay
  <2>3. Busy'
    BY <1>6, <2>1, <2>2 DEF Busy
  <2> QED
    BY <1>2, <1>6, <2>1, <2>3, Goes
<1>9. CASE HelperResult(r)
  <2>1. /\ proc[r] \in {"session", "stuck", "over"} /\ outcome[r] \in Verdicts /\ proc'[r] = "ok"
        /\ UNCHANGED <<cur, running, shown, display, feed, guest, ending, w, outcome>>
        /\ ~pending'[r] /\ q' \in {q, Append(q, outcome[r])}
    BY <1>0, <1>9 DEF HelperResult, Places
  <2>2. "violation" \in lost'[r] <=> ("violation" \in lost[r] \/ pending[r])
    BY <1>0, <1>9, <2>1 DEF HelperResult, Unsaid, Verdicts
  <2>3. /\ Has(q') <=> Has(q)
        /\ Ends(q') => q'[Len(q')] = outcome[r]
        /\ Tidy(q')
    <3>1. CASE q' = q
      BY <1>6, <2>1, <3>1
    <3>2. CASE q' = Append(q, outcome[r])
      BY <1>0, <1>6, <2>1, <3>2, Appends DEF Verdicts, Lines
    <3> QED
      BY <2>1, <3>1, <3>2
  <2>4. OnItsWay' <=> OnItsWay
    BY <2>1, <2>3 DEF OnItsWay
  <2>5. Past(cur)'
    BY <1>6, <2>1 DEF Past
  <2>6. Busy'
    BY <1>6, <2>1, <2>2, <2>3, <2>4, <2>5 DEF Busy
  <2> QED
    BY <1>2, <1>6, <2>1, <2>3, <2>6, Goes
<1>10. CASE PayloadWrites(r)
  <2>1. /\ proc[r] \in {"session", "stuck", "over"}
        /\ UNCHANGED <<cur, running, shown, display, feed, guest, ending, w, outcome, lost, pending>>
        /\ q' \in {q, Append(q, "value")}
    <3> HIDE DEF Set, Goto, window, local, remote
    <3>1. q' = q \/ \E line \in Verdicts \cup {"violation", "failure", "value"} :
                       q' = Append(q, line) /\ amiss' = (amiss \/ line # "value")
      BY <1>10 DEF PayloadWrites, Put
    <3>2. \A line : amiss' = (amiss \/ line # "value") => line = "value"
      OBVIOUS
    <3> QED
      BY <1>10, <3>1, <3>2 DEF PayloadWrites, window, local, remote
  <2>2. CASE q' = q
    BY <1>3, <2>1, <2>2
  <2>3. CASE q' = Append(q, "value")
    <3>1. (Has(q') <=> Has(q)) /\ ~Ends(q') /\ Tidy(q')
      BY <1>0, <1>6, <2>1, <2>3, Appends DEF Verdicts, Lines
    <3>2. OnItsWay' <=> OnItsWay
      BY <2>1, <3>1 DEF OnItsWay
    <3>3. Busy'
      BY <1>6, <2>1, <3>1, <3>2 DEF Busy
    <3> QED
      BY <1>2, <1>6, <2>1, <3>1, <3>3, Goes
  <2> QED
    BY <2>1, <2>2, <2>3
<1>11. CASE Violates(r)
  <2>1. /\ proc[r] \in {"session", "stuck", "over"} /\ outcome[r] = "none"
        /\ UNCHANGED <<cur, running, shown, display, q, feed, guest, ending, w, lost>>
        /\ outcome'[r] = "contained" /\ pending'[r]
    BY <1>0, <1>11 DEF Violates, Payload
  <2>2. OnItsWay' <=> OnItsWay
    BY <2>1 DEF OnItsWay
  <2>3. Busy'
    BY <1>6, <2>1, <2>2 DEF Busy
  <2> QED
    BY <1>2, <1>6, <2>1, <2>3, Goes
<1>12. CASE HelperPump(r)
  <2>1. /\ proc[r] \in {"session", "stuck", "over"} /\ pending[r] /\ ~pending'[r]
        /\ UNCHANGED <<cur, running, shown, display, feed, guest, ending, w, outcome>>
        /\ \/ q' = q /\ lost' = [lost EXCEPT ![r] = lost[r] \cup {"violation"}]
           \/ q' = Append(q, "violation") /\ lost' = lost
    BY <1>0, <1>12 DEF HelperPump, Say, Payload, Put
  <2>2. outcome[cur] = "contained" /\ "violation" \notin lost[cur] /\ ~OnItsWay
    BY <1>6, <2>1 DEF Busy
  <2>3. CASE q' = q /\ lost' = [lost EXCEPT ![r] = lost[r] \cup {"violation"}]
    <3>1. "violation" \in lost'[cur] /\ ~OnItsWay'
      BY <1>0, <1>6, <2>1, <2>2, <2>3 DEF OnItsWay
    <3>2. Busy'
      BY <1>6, <2>1, <2>2, <2>3, <3>1 DEF Busy
    <3> QED
      BY <1>2, <1>6, <2>1, <2>3, <3>2, Goes
  <2>4. CASE q' = Append(q, "violation") /\ lost' = lost
    <3>1. Has(q') /\ ~Ends(q') /\ Tidy(q')
      BY <1>0, <1>6, <2>1, <2>4, Appends DEF Verdicts, Lines
    <3>2. OnItsWay'
      BY <3>1 DEF OnItsWay
    <3>3. Busy'
      BY <1>6, <2>1, <2>2, <2>4, <3>1, <3>2 DEF Busy
    <3> QED
      BY <1>2, <1>6, <2>1, <3>1, <3>3, Goes
  <2> QED
    BY <2>1, <2>3, <2>4
<1> QED
  BY <1>4, <1>5, <1>7, <1>8, <1>9, <1>10, <1>11, <1>12 DEF Helper

LEMMA GuestKeeps ==
    ASSUME IInv, [Next]_vars, ~amiss,
           VmServes \/ VmEnds \/ GuestViolates \/ GuestPump \/ GuestEnds \/ GuestClears
    PROVE  Story'
<1>0. /\ Places /\ Story /\ DOMAIN w = Runs /\ DOMAIN outcome = Runs /\ DOMAIN pending = Runs /\ DOMAIN lost = Runs
      /\ q \in Seq(Lines) /\ feed \in [Runs -> Seq(Lines)] /\ pending \in [Runs -> BOOLEAN]
      /\ guest \in Runs \cup {0} /\ 0 \notin Runs /\ cur \in Nat /\ Runs \subseteq Nat /\ (cur > 0 => cur \in Runs)
      /\ running \in BOOLEAN /\ shown \in BOOLEAN /\ (ending => guest # 0) /\ subs \subseteq Runs
  BY WindowAssumption DEF IInv, Types, TypeOK, Runs
<1>1. \A x \in Runs : w[x] # "tell"
  BY <1>0 DEF Story
<1> USE DEF Set, window, local, remote
\* The VM, or its guard, comes down: nobody hears of it.
<1>2. CASE VmServes \/ VmEnds \/ GuestClears
  <2>1. /\ UNCHANGED <<window, q, w, local, feed, outcome>>
        /\ guest' = 0 \/ UNCHANGED <<guest, ending>>
    BY <1>2 DEF VmServes, VmEnds, GuestClears
  <2>2. cur > 0 /\ w[cur] = "done" => Past(cur)
    BY <1>0, Current
  <2> QED
    BY <1>0, <1>1, <2>1, <2>2, Still
\* A guest that still runs is the guest of the run the window waits for.
<1>3. ASSUME guest # 0, ~ending
      PROVE  /\ guest = cur /\ running /\ Busy /\ ~Ends(q) /\ ~Ends(feed[cur]) /\ w[cur] \in {"relay", "mute"}
             /\ cur \in Runs /\ (cur \in subs <=> w[cur] = "relay") /\ Tidy(q) /\ Tidy(feed[cur])
  <2>1. guest \in Runs /\ ~Past(guest) /\ w[guest] \in {"relay", "tell", "done", "mute"}
    BY <1>0, <1>3 DEF Past, Places
  <2>2. guest = cur /\ running /\ Busy /\ ~Ends(q) /\ w[cur] # "done"
    BY <2>1, Current
  <2>3. ~Ends(feed[cur])
    BY <1>3, <2>2 DEF Busy
  <2>4. cur \in subs <=> w[cur] = "relay"
    BY <1>0, <1>1, <2>1, <2>2 DEF Places
  <2>5. Tidy(q) /\ Tidy(feed[cur])
    BY <1>0, <2>1, <2>2 DEF Story
  <2> QED
    BY <1>1, <2>1, <2>2, <2>3, <2>4, <2>5
\* What a message does to the feed of that run.
<1>4. ASSUME guest # 0, ~ending, NEW m \in Verdicts \cup {"violation"}, Broadcast(m)
      PROVE  /\ w[cur] = "mute" => feed'[cur] = feed[cur]
             /\ w[cur] = "relay" =>
                   /\ Has(feed'[cur]) <=> (Has(feed[cur]) \/ m = "violation")
                   /\ Ends(feed'[cur]) <=> m \in Verdicts
                   /\ feed'[cur][Len(feed'[cur])] = m
             /\ Tidy(feed'[cur])
  <2>1. feed'[cur] = IF w[cur] = "relay" THEN Append(feed[cur], m) ELSE feed[cur]
    BY <1>3, <1>4 DEF Broadcast
  <2>2. m \in Lines /\ m # "failure"
    BY DEF Lines, Verdicts
  <2>3. feed[cur] \in Seq(Lines)
    BY <1>0, <1>3, <1>4
  <2>4. CASE w[cur] = "relay"
    BY <1>3, <1>4, <2>1, <2>2, <2>3, <2>4, Appends
  <2>5. CASE w[cur] = "mute"
    BY <1>3, <1>4, <2>1, <2>5
  <2> QED
    BY <1>3, <1>4, <2>4, <2>5
<1>5. CASE GuestViolates
  <2>1. /\ guest # 0 /\ ~ending /\ outcome[guest] = "none"
        /\ outcome' = [outcome EXCEPT ![guest] = "contained"] /\ pending' = [pending EXCEPT ![guest] = TRUE]
        /\ UNCHANGED <<window, q, w, proc, lost, remote>>
    BY <1>5 DEF GuestViolates
  <2>2. /\ guest = cur /\ running /\ Busy /\ ~Ends(q) /\ ~Ends(feed[cur]) /\ w[cur] \in {"relay", "mute"}
        /\ cur \in Runs /\ Tidy(q) /\ Tidy(feed[cur])
    BY <1>3, <2>1
  <2>3. outcome'[cur] = "contained" /\ pending'[cur]
    BY <1>0, <2>1, <2>2
  <2>4. "violation" \notin lost[cur] /\ (w[cur] # "mute" => ~OnItsWay)
    BY <2>1, <2>2 DEF Busy
  <2>5. OnItsWay' <=> OnItsWay
    BY <2>1 DEF OnItsWay
  <2>6. Busy'
    BY <2>1, <2>2, <2>3, <2>4, <2>5 DEF Busy
  <2> QED
    BY <1>1, <2>1, <2>2, <2>6, Goes
<1>6. CASE GuestPump
  <2>1. /\ guest # 0 /\ ~ending /\ pending[guest] /\ Broadcast("violation")
        /\ pending' = [pending EXCEPT ![guest] = FALSE]
        /\ UNCHANGED <<window, q, w, proc, lost, guest, ending, subs, outcome>>
    BY <1>6 DEF GuestPump
  <2>2. /\ guest = cur /\ running /\ Busy /\ ~Ends(q) /\ ~Ends(feed[cur]) /\ w[cur] \in {"relay", "mute"}
        /\ cur \in Runs /\ Tidy(q)
    BY <1>3, <2>1
  <2>3. /\ w[cur] = "mute" => feed'[cur] = feed[cur]
        /\ w[cur] = "relay" => Has(feed'[cur]) /\ ~Ends(feed'[cur])
        /\ Tidy(feed'[cur])
    BY <1>4, <2>1 DEF Verdicts
  <2>4. ~pending'[cur] /\ pending[cur]
    BY <1>0, <2>1, <2>2
  <2>5. w[cur] # "mute" => OnItsWay' /\ outcome[cur] = "contained" /\ "violation" \notin lost[cur]
    BY <2>1, <2>2, <2>3, <2>4 DEF Busy, OnItsWay
  <2>6. ~Ends(feed'[cur]) /\ (feed'[cur] # <<>> => w[cur] = "relay")
    BY <2>2, <2>3 DEF Busy
  <2>7. Busy'
    BY <2>1, <2>2, <2>4, <2>5, <2>6 DEF Busy
  <2> QED
    BY <1>1, <2>1, <2>2, <2>3, <2>7, Goes
<1>7. CASE GuestEnds
  <2>1. PICK v \in Verdicts : /\ outcome' = [outcome EXCEPT ![guest] = v] /\ Broadcast(v)
                              /\ v = "contained" <=> outcome[guest] = "contained"
    BY <1>7 DEF GuestEnds, Verdicts
  <2>2. /\ guest # 0 /\ ~ending /\ ending' /\ pending' = [pending EXCEPT ![guest] = FALSE]
        /\ lost' = [lost EXCEPT ![guest] = lost[guest] \cup (IF pending[guest] THEN {"violation"} ELSE {})]
        /\ UNCHANGED <<window, q, w, proc, guest, subs>>
    BY <1>7 DEF GuestEnds, Unsaid
  <2>3. /\ guest = cur /\ running /\ Busy /\ ~Ends(q) /\ ~Ends(feed[cur]) /\ w[cur] \in {"relay", "mute"}
        /\ cur \in Runs /\ Tidy(q)
    BY <1>3, <2>2
  <2>4. /\ w[cur] = "mute" => feed'[cur] = feed[cur]
        /\ w[cur] = "relay" => /\ Has(feed'[cur]) <=> Has(feed[cur])
                               /\ feed'[cur][Len(feed'[cur])] = v
        /\ Tidy(feed'[cur])
    <3>1. v \in Verdicts \cup {"violation"} /\ v # "violation"
      BY DEF Verdicts
    <3> QED
      BY <1>4, <2>1, <2>2, <3>1
  <2>5. /\ outcome'[cur] = v /\ ~pending'[cur] /\ v # "none"
        /\ "violation" \in lost'[cur] <=> ("violation" \in lost[cur] \/ pending[cur])
    BY <1>0, <2>1, <2>2, <2>3 DEF Verdicts
  <2>6. w[cur] = "relay" => (OnItsWay' <=> OnItsWay)
    BY <2>2, <2>4 DEF OnItsWay
  <2>7. w[cur] # "mute" => ((outcome'[cur] = "contained" /\ "violation" \notin lost'[cur]) <=> OnItsWay')
    BY <2>1, <2>3, <2>5, <2>6 DEF Busy
  <2>8. /\ Ends(feed'[cur]) => feed'[cur][Len(feed'[cur])] = outcome'[cur]
        /\ feed'[cur] # <<>> => w[cur] = "relay"
    BY <2>3, <2>4, <2>5 DEF Busy
  <2>9. Busy'
    BY <2>2, <2>3, <2>5, <2>7, <2>8 DEF Busy
  <2> QED
    BY <1>1, <2>2, <2>3, <2>4, <2>9, Goes
<1> QED
  BY <1>2, <1>5, <1>6, <1>7

\* What was amiss stays so.
LEMMA AmissStays == [Next]_vars /\ amiss => amiss'
<1> SUFFICES ASSUME [Next]_vars, amiss PROVE amiss'
  OBVIOUS
<1> USE DEF PutFailure, Say
<1>1. CASE UNCHANGED vars
  BY <1>1 DEF vars
<1>2. CASE StartRun \/ Handle
  BY <1>2 DEF StartRun, Handle
<1>3. CASE VmServes \/ VmEnds \/ GuestViolates \/ GuestPump \/ Guest
  BY <1>3 DEF VmServes, VmEnds, GuestViolates, GuestPump, Guest, GuestEnds, GuestClears
<1>4. ASSUME NEW r \in Runs, Worker(r) \/ FeedEnds(r) PROVE amiss'
  BY <1>4 DEF Worker, FeedEnds, LaunchHelper, WriteScript, HelperIsOver, TellEnd, Boot, WaitUp, Connect, Upload, Relay
<1>5. ASSUME NEW r \in Runs, Helper(r) \/ SessionFails(r) \/ PayloadWrites(r) \/ Violates(r) \/ HelperPump(r)
      PROVE  amiss'
  BY <1>5 DEF Helper, Authorize, HelperReads, SessionReturns, HelperResult, SessionFails, PayloadWrites,
     Violates, HelperPump
<1> QED
  BY <1>1, <1>2, <1>3, <1>4, <1>5 DEF Next

LEMMA StoryKeeps == IInv /\ [Next]_vars => Story'
<1> SUFFICES ASSUME IInv, [Next]_vars PROVE Story'
  OBVIOUS
<1>1. CASE amiss'
  BY <1>1 DEF Story
<1>2. CASE ~amiss'
  <2>1. ~amiss
    BY <1>2, AmissStays
  <2>2. CASE UNCHANGED vars
    BY <2>2 DEF IInv, vars, window, local, remote, Story, Free, Busy, Past, OnItsWay, Has, Ends, Tidy
  <2>3. CASE StartRun \/ Handle
    BY <2>1, <2>3, WindowKeeps
  <2>4. CASE VmServes \/ VmEnds \/ GuestViolates \/ GuestPump \/ Guest
    BY <2>1, <2>4, GuestKeeps DEF Guest
  <2>5. ASSUME NEW r \in Runs, Worker(r) \/ FeedEnds(r) PROVE Story'
    BY <1>2, <2>1, <2>5, WorkerKeeps
  <2>6. ASSUME NEW r \in Runs, Helper(r) \/ SessionFails(r) \/ PayloadWrites(r) \/ Violates(r) \/ HelperPump(r)
        PROVE  Story'
    BY <1>2, <2>1, <2>6, HelperKeeps
  <2> QED
    BY <2>2, <2>3, <2>4, <2>5, <2>6 DEF Next
<1> QED
  BY <1>1, <1>2

LEMMA Inductive == Spec => []IInv
<1>1. Init => IInv
  BY InitIInv
<1>2. IInv /\ [Next]_vars => IInv'
  BY TypesKeep, PlacesKeep, StoryKeeps DEF IInv
<1> QED
  BY <1>1, <1>2, PTL DEF Spec

-----------------------------------------------------------------------------
(* The theorems.                                                            *)

\* The window's variables, its queue and every run's thread, helper and feed keep their
\* types, however many runs there are (gui.py:294-505, helper.py:50-103, wsclient.py:19-120).
THEOREM WindowTypes == Spec => []TypeOK
<1>1. IInv => TypeOK
  BY DEF IInv, Types
<1> QED
  BY <1>1, Inductive, PTL

\* However many runs there have been, in whichever order the Tk thread, the workers,
\* the helpers and the VM have run, as long as no failure was reported and no payload
\* has forged a line: a window that is free shows how its last run ended,
\* and the banner exactly if that run had a violation that was not lost on the way
\* (gui.py:341-505; helper.py:75 and web.py:302 are where one is lost).
THEOREM TheWindowSaysWhatHappened == Spec => []SaysWhatHappened
<1>1. IInv => SaysWhatHappened
  BY DEF IInv, Story, Free, SaysWhatHappened
<1> QED
  BY <1>1, Inductive, PTL

=============================================================================
