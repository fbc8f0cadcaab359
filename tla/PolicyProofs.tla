----------------------------- MODULE PolicyProofs -----------------------------
(***************************************************************************)
(* Proofs about Policy and Filter, the two halves of policy.py.  What       *)
(* judge() does is proved of any two policies and any call; the invariants  *)
(* follow for the four profiles.  What the assembled filter does is proved  *)
(* of classes of any length; the recursive functions that build its lists   *)
(* need an induction, which a least counterexample gives.                   *)
(***************************************************************************)
EXTENDS Policy, Filter, SequenceTheorems, WellFoundedInduction, TLAPS

-----------------------------------------------------------------------------
(* A wider policy is never the harsher one.                                 *)

\* Policy p grants whatever q grants.
Wider(p, q) ==
    /\ q.allow_network => p.allow_network
    /\ q.allow_loopback => p.allow_loopback
    /\ q.allow_exec => p.allow_exec
    /\ q.reads \subseteq p.reads /\ q.writes \subseteq p.writes

Milder(v, w) == Rank(v.severity) <= Rank(w.severity)

\* The three verdicts, from the mildest.
LEMMA Ranks == \A r :
    /\ Allow(r).severity = "info" /\ Watch(r).severity = "suspicious" /\ Violation(r).severity = "violation"
    /\ Rank("info") = 0 /\ Rank("suspicious") = 1 /\ Rank("violation") = 2 /\ Rank(r) \in 0..2
BY DEF Allow, Watch, Violation, Verdict, Rank

\* The same file is judged no harsher under the wider policy.
LEMMA PathNests ==
    ASSUME NEW p, NEW q, Wider(p, q), NEW raw, NEW resolved, NEW write \in BOOLEAN
    PROVE  Milder(JudgePath(p, raw, resolved, write), JudgePath(q, raw, resolved, write))
BY Ranks DEF JudgePath, Milder, Wider, Effective

\* The same program.
LEMMA ExecNests ==
    ASSUME NEW p, NEW q, Wider(p, q), NEW path
    PROVE  Milder(JudgeExec(p, path), JudgeExec(q, path))
BY Ranks DEF JudgeExec, Milder, Wider

\* The same socket.
LEMMA SocketNests ==
    ASSUME NEW p, NEW q, Wider(p, q), NEW d, NEW raw \in BOOLEAN
    PROVE  Milder(JudgeSocket(p, d, raw), JudgeSocket(q, d, raw))
BY Ranks DEF JudgeSocket, Milder, Wider

\* The same address.
LEMMA EndpointNests ==
    ASSUME NEW p, NEW q, Wider(p, q), NEW a
    PROVE  Milder(JudgeEndpoint(p, a), JudgeEndpoint(q, a))
BY Ranks DEF JudgeEndpoint, Milder, Wider, IsLocal

\* Every call is judged no harsher under the wider policy.
LEMMA JudgeNests ==
    ASSUME NEW p, NEW q, Wider(p, q), NEW r \in Requests
    PROVE  Milder(Judge(p, r), Judge(q, r))
<1> USE DEF Requests, Milder
<1>1. CASE r \in Opens
  <2>1. r.op = "open" /\ r.write \in BOOLEAN
    BY <1>1 DEF Opens
  <2> QED
    BY <2>1, PathNests DEF Judge, MoveOps
<1>2. CASE r \in Moves
  <2>1. r.op \in MoveOps
    BY <1>2 DEF Moves
  <2> QED
    BY <2>1, PathNests DEF Judge, MoveOps
<1>3. CASE r \in Execs
  <2>1. r.op = "exec"
    BY <1>3 DEF Execs
  <2> QED
    BY <2>1, ExecNests DEF Judge, MoveOps
<1>4. CASE r \in Sockets
  BY <1>4, SocketNests DEF Sockets, Judge, MoveOps
<1>5. CASE r \in Endpoints
  <2>1. Milder(JudgeBind(p, r.address), JudgeBind(q, r.address))
    BY Ranks DEF JudgeBind, Wider
  <2> QED
    BY <1>5, <2>1, EndpointNests DEF Endpoints, Judge, MoveOps
<1>6. CASE r \in Sends
  <2>1. Milder(JudgeSend(p, r.header, r.address), JudgeSend(q, r.header, r.address))
    BY Ranks, EndpointNests, <1>6 DEF JudgeSend, Sends
  <2> QED
    BY <1>6, <2>1 DEF Sends, Judge, MoveOps
<1>7. CASE r \in Plain \cup Spawns
  <2>1. r.op \in {"memfd", "escape", "unlisted", "spawn"}
    BY <1>7 DEF Plain, Spawns
  <2>2. Judge(p, r) = Judge(q, r)
    BY <2>1 DEF Judge, MoveOps
  <2> QED
    BY <2>2, Ranks
<1> QED
  BY <1>1, <1>2, <1>3, <1>4, <1>5, <1>6, <1>7

-----------------------------------------------------------------------------
(* What is let through.                                                     *)

\* An address that is let through is one that the policy grants.
LEMMA EndpointGrants ==
    ASSUME NEW p, NEW a, JudgeEndpoint(p, a).severity # "violation", a.family = "inet"
    PROVE  IF a.host = "local" THEN p.allow_loopback ELSE p.allow_network
BY DEF JudgeEndpoint, IsLocal, Violation, Verdict

\* A name that decides is one that is not sensitive.
LEMMA PathIsPublic ==
    ASSUME NEW p, NEW raw, NEW resolved, NEW write \in BOOLEAN,
           JudgePath(p, raw, resolved, write).severity # "violation"
    PROVE  ~Effective(raw, resolved).secret
BY DEF JudgePath, Effective, Violation, Allow, Verdict

\* The verdict depends on the resolved name only, where there is one.
LEMMA PathByTarget ==
    ASSUME NEW p, NEW raw, NEW resolved, NEW write, raw # None, Effective(raw, resolved) # None
    PROVE  LET f == Effective(raw, resolved)
           IN  JudgePath(p, raw, resolved, write) = JudgePath(p, f, f, write)
BY DEF JudgePath, Effective

\* A call's op says which class it is of.
LEMMA Classes ==
    ASSUME NEW r \in Requests
    PROVE  /\ r.op = "connect" => r \in Endpoints
           /\ r.op = "send" => r \in Sends
           /\ r.op = "open" => r \in Opens
           /\ r.op \in MoveOps => r \in Moves
           /\ r.op = "exec" => r \in Execs
           /\ r.op = "socket" => r \in Sockets
<1>1. /\ r \in Opens => r.op = "open"
      /\ r \in Moves => r.op \in {"unlink", "rename", "renameat"}
      /\ r \in Execs => r.op = "exec"
  BY DEF Opens, Moves, Execs, MoveOps
<1>2. /\ r \in Sockets => r.op = "socket"
      /\ r \in Endpoints => r.op \in {"connect", "bind"}
      /\ r \in Sends => r.op = "send"
  BY DEF Sockets, Endpoints, Sends
<1>3. r \in Plain \cup Spawns => r.op \in {"memfd", "escape", "unlisted", "spawn"}
  BY DEF Plain, Spawns
<1> QED
  BY <1>1, <1>2, <1>3 DEF Requests, MoveOps

-----------------------------------------------------------------------------
(* The inductive invariant.                                                 *)

\* A verdict is that of the profile about the call that is parked.
AsJudged ==
    /\ request \in Requests \cup {None}
    /\ verdict # None => request # None /\ request \in Requests /\ verdict = Judge(Profiles[profile], request)

\* What the socket is connected to and what went, as NothingLeaves has it, and that
\* there is neither without a socket.
Sound ==
    /\ domain = "inet" => Profiles[profile].allow_network \/ Profiles[profile].allow_loopback
    /\ domain # "inet" => peer = None /\ sent = None
    /\ ~unjudged => Granted(peer) /\ Granted(sent)

IInv == AsJudged /\ Sound

\* The payload has no socket when it starts.
LEMMA InitIInv == Init => IInv
BY NoneAssumption DEF Init, IInv, AsJudged, Sound, Granted

\* A host that connect() or a send is let through to is one that the profile grants,
\* where the kernel takes the judged address.
LEMMA JudgedIsGranted ==
    ASSUME AsJudged, verdict # None, ~Refused, request.op \in {"connect", "send"}, NEW h, Judged(h)
    PROVE  Granted(h)
<1>1. verdict = JudgeEndpoint(Profiles[profile], request.address)
  <2>1. CASE request.op = "connect"
    BY <2>1 DEF AsJudged, Judge, MoveOps
  <2>2. CASE request.op = "send"
    <3>1. verdict = JudgeSend(Profiles[profile], request.header, request.address)
      BY <2>2 DEF AsJudged, Judge, MoveOps
    <3> QED
      BY <2>2, <3>1, Classes DEF JudgeSend, Refused, Violation, Verdict, Judged, AsJudged, Sends
  <2> QED
    BY <2>1, <2>2
<1> QED
  BY <1>1, EndpointGrants DEF Refused, Granted, Judged

\* A socket of the network is made under no profile that grants neither of the two.
LEMMA SocketIsGranted ==
    ASSUME AsJudged, verdict # None, ~Refused, request.op = "socket", request.domain = "inet"
    PROVE  Profiles[profile].allow_network \/ Profiles[profile].allow_loopback
<1>1. verdict = JudgeSocket(Profiles[profile], request.domain, request.isRaw)
  BY DEF AsJudged, Judge, MoveOps
<1> QED
  BY <1>1 DEF JudgeSocket, Refused, Violation, Verdict

\* Every step keeps it.
LEMMA NextIInv == IInv /\ [Next]_vars => IInv'
<1> SUFFICES ASSUME IInv, [Next]_vars PROVE IInv'
  OBVIOUS
<1> USE DEF IInv
<1>1. CASE Call
  BY <1>1 DEF Call, socket, AsJudged, Sound, Granted
<1>2. CASE Decide
  BY <1>2 DEF Decide, socket, AsJudged, Sound, Granted
<1>3. CASE Perform
  <2>1. AsJudged'
    BY <1>3 DEF Perform, Answered, AsJudged
  <2>2. profile' = profile
    BY <1>3 DEF Perform, Answered
  <2>3. Sound'
    <3>1. CASE UNCHANGED socket
      BY <2>2, <3>1 DEF socket, Sound, Granted
    <3>2. CASE Opened
      BY <1>3, <2>2, <3>2, SocketIsGranted DEF Opened, Perform, Sound, Granted
    <3>3. ASSUME NEW h \in Hosts, Connected(h) PROVE Sound'
      BY <1>3, <2>2, <3>3, JudgedIsGranted DEF Connected, Takes, Perform, Sound, Granted
    <3>4. ASSUME NEW h \in Hosts, SentTo(h) PROVE Sound'
      BY <1>3, <2>2, <3>4, JudgedIsGranted DEF SentTo, Takes, Perform, Sound, Granted
    <3>5. CASE SentOn
      BY <2>2, <3>5 DEF SentOn, Sound, Granted
    <3> QED
      BY <1>3, <3>1, <3>2, <3>3, <3>4, <3>5 DEF Perform
  <2> QED
    BY <2>1, <2>3
<1>4. CASE Refuse
  BY <1>4 DEF Refuse, socket, Answered, AsJudged, Sound, Granted
<1>5. ASSUME NEW h \in Hosts, SendMany(h) PROVE IInv'
  BY <1>5 DEF SendMany, AsJudged, Sound
<1>6. CASE UNCHANGED vars
  BY <1>6 DEF vars, socket, AsJudged, Sound, Granted
<1> QED
  BY <1>1, <1>2, <1>3, <1>4, <1>5, <1>6 DEF Next

\* judge() returns one of its three severities.
LEMMA JudgeSeverity ==
    ASSUME NEW p, NEW r
    PROVE  Judge(p, r).severity \in {"info", "suspicious", "violation"}
<1> DEFINE S == {"info", "suspicious", "violation"}
<1>1. \A rule : Allow(rule).severity \in S /\ Watch(rule).severity \in S /\ Violation(rule).severity \in S
  BY Ranks
<1>2. \A raw, resolved, write : JudgePath(p, raw, resolved, write).severity \in S
  BY <1>1 DEF JudgePath
<1>3. /\ \A path : JudgeExec(p, path).severity \in S
      /\ \A d, raw : JudgeSocket(p, d, raw).severity \in S
  BY <1>1 DEF JudgeExec, JudgeSocket
<1>4. \A a : JudgeEndpoint(p, a).severity \in S
  BY <1>1 DEF JudgeEndpoint
<1>5. /\ \A header, a : JudgeSend(p, header, a).severity \in S
      /\ \A a : JudgeBind(p, a).severity \in S
  BY <1>1, <1>4 DEF JudgeSend, JudgeBind
<1>6. (\A bits : JudgeClone(bits).severity \in S) /\ JudgeMemfd.severity \in S
  BY <1>1 DEF JudgeClone, JudgeMemfd
<1> QED
  BY <1>1, <1>2, <1>3, <1>4, <1>5, <1>6 DEF Judge, MoveOps

LEMMA Invariant == Spec => []IInv
BY InitIInv, NextIInv, PTL DEF Spec

-----------------------------------------------------------------------------
(* The theorems.                                                            *)

\* Type correctness: judge() returns one of its three severities for every call of
\* every class, and a raw socket is never made (Policy.TypeOK).
THEOREM PolicyTypes == Spec => []TypeOK
<1>1. Init => TypeOK
  BY DEF Init, TypeOK
<1>2. IInv /\ TypeOK /\ [Next]_vars => TypeOK'
  <2> SUFFICES ASSUME IInv, TypeOK, [Next]_vars PROVE TypeOK'
    OBVIOUS
  <2>1. CASE Call
    BY <2>1 DEF Call, socket, TypeOK
  <2>2. CASE Decide
    BY <2>2, JudgeSeverity DEF Decide, socket, TypeOK
  <2>3. CASE Perform
    <3>1. CASE Opened
      <4>1. request.domain \in {"unix", "inet", "packet", "netlink", "other"}
        BY <2>3, <3>1, Classes DEF Perform, Opened, IInv, AsJudged, Sockets
      <4>2. verdict = JudgeSocket(Profiles[profile], request.domain, request.isRaw)
        BY <2>3, <3>1 DEF Perform, Opened, IInv, AsJudged, Judge, MoveOps
      <4>3. request.domain # "packet"
        BY <2>3, <4>2 DEF Perform, Refused, JudgeSocket, Violation, Verdict
      <4> QED
        BY <2>3, <3>1, <4>1, <4>3 DEF Perform, Opened, Answered, TypeOK
    <3>2. CASE UNCHANGED socket
      BY <2>3, <3>2 DEF socket, Perform, Answered, TypeOK
    <3>3. ASSUME NEW h \in Hosts, Connected(h) \/ SentTo(h) PROVE TypeOK'
      <4>1. unjudged' \in BOOLEAN
        BY <3>3 DEF TypeOK, Connected, SentTo, Takes
      <4> QED
        BY <2>3, <3>3, <4>1 DEF Connected, SentTo, Takes, Perform, Answered, TypeOK
    <3>4. CASE SentOn
      BY <2>3, <3>4 DEF SentOn, Perform, Answered, TypeOK
    <3> QED
      BY <2>3, <3>1, <3>2, <3>3, <3>4 DEF Perform
  <2>4. CASE Refuse
    BY <2>4 DEF Refuse, socket, Answered, TypeOK
  <2>5. ASSUME NEW h \in Hosts, SendMany(h) PROVE TypeOK'
    BY <2>5 DEF SendMany, TypeOK
  <2>6. CASE UNCHANGED vars
    BY <2>6 DEF vars, socket, TypeOK
  <2> QED
    BY <2>1, <2>2, <2>3, <2>4, <2>5, <2>6 DEF Next
<1> QED
  BY <1>1, <1>2, Invariant, PTL DEF Spec

\* Over any sequence of calls on one socket nothing goes that the profile does not
\* grant: nothing at all without the network and loopback, whatever is rewritten or
\* sent unjudged, and otherwise while the kernel takes what was judged
\* (Policy.NothingLeaves).
THEOREM NothingUngrantedLeaves == Spec => []NothingLeaves
<1>1. IInv => NothingLeaves
  BY DEF IInv, Sound, NothingLeaves
<1> QED
  BY <1>1, Invariant, PTL

\* The four profiles, from the widest.
LEMMA ProfilesAreWider ==
    /\ Wider(Profiles["observe"], Profiles["loopback"])
    /\ Wider(Profiles["loopback"], Profiles["strict"])
    /\ Wider(Profiles["strict"], Profiles["paranoid"])
BY DEF Wider, Profiles, Strict, Everywhere, Zones

\* No call is judged milder by a profile than by a more permissive one
\* (Policy.ProfilesNest).
THEOREM ProfilesAreNested == Spec => []ProfilesNest
<1>1. IInv => ProfilesNest
  BY JudgeNests, ProfilesAreWider DEF IInv, AsJudged, ProfilesNest, Milder
<1> QED
  BY <1>1, Invariant, PTL

\* Of an open: a name that is not joined leads nowhere from the caller's directory.
LEMMA OpenJoins ==
    ASSUME NEW r \in Opens
    PROVE  r.write \in BOOLEAN /\ (r.joined = None => r.here = None \/ r.text = None)
<1>1. PICK n \in Given(Files) : \E j \in JoinedTo(n) : \E w \in BOOLEAN :
          r = [op |-> "open", text |-> n.text, absolute |-> n.absolute, root |-> n.root,
               joined |-> j.joined, here |-> j.here, write |-> w]
  BY DEF Opens
<1> PICK j \in JoinedTo(n), w \in BOOLEAN :
          r = [op |-> "open", text |-> n.text, absolute |-> n.absolute, root |-> n.root,
               joined |-> j.joined, here |-> j.here, write |-> w]
  BY <1>1
<1>2. j.joined = None => j.here = None \/ n.text = None
  BY DEF JoinedTo
<1> QED
  BY <1>2

\* The call by the plain name f is judged as f.
LEMMA ByNameIs ==
    ASSUME NEW p, NEW r \in Opens \cup Moves \cup Execs, NEW f, f # None
    PROVE  /\ r.op = "open" => Judge(p, ByName(r, f)) = JudgePath(p, f, f, r.write)
           /\ r.op \in MoveOps => Judge(p, ByName(r, f)) = JudgePath(p, f, f, TRUE)
           /\ r.op = "exec" => Judge(p, ByName(r, f)) = JudgeExec(p, f)
<1>1. CASE r \in Opens
  <2> DEFINE s == [r EXCEPT !.text = f, !.absolute = TRUE, !.root = f, !.joined = f, !.here = f]
  <2>1. r.op = "open" /\ s.op = "open" /\ s.write = r.write /\ s.joined = f /\ s.here = f
    BY <1>1 DEF Opens
  <2>2. ByName(r, f) = s
    BY <2>1 DEF ByName
  <2> HIDE DEF s
  <2>3. OpenSees(s).raw = f /\ OpenSees(s).resolved = f
    BY <2>1 DEF OpenSees, Name
  <2> QED
    BY <2>1, <2>2, <2>3 DEF Judge, MoveOps
<1>2. CASE r \in Moves \cup Execs
  <2> DEFINE s == [r EXCEPT !.text = f, !.absolute = TRUE, !.root = f]
  <2>1. /\ r.op \in MoveOps \/ r.op = "exec"
        /\ s.op = r.op /\ s.text = f /\ s.root = f
    BY <1>2 DEF Moves, Execs
  <2>2. ByName(r, f) = s
    BY <2>1 DEF ByName, MoveOps
  <2> HIDE DEF s
  <2>3. OtherSees(s).raw = f /\ OtherSees(s).resolved = f /\ Effective(f, f) = f
    BY <2>1 DEF OtherSees, Name, Effective
  <2>4. CASE r.op = "exec"
    BY <2>1, <2>2, <2>3, <2>4 DEF Judge, MoveOps
  <2>5. CASE r.op \in MoveOps
    BY <2>1, <2>2, <2>3, <2>5 DEF Judge, MoveOps
  <2> QED
    BY <2>1, <2>4, <2>5
<1> QED
  BY <1>1, <1>2

\* What a call with a target is judged on.
LEMMA TargetIs ==
    ASSUME NEW p, NEW r \in Opens \cup Moves \cup Execs, Target(r) # None, r.text # None
    PROVE  /\ r.op = "open" => Judge(p, r) = JudgePath(p, Target(r), Target(r), r.write)
           /\ r.op \in MoveOps => Judge(p, r) = JudgePath(p, Target(r), Target(r), TRUE)
           /\ r.op = "exec" => Judge(p, r) = JudgeExec(p, Target(r))
<1>1. CASE r \in Opens
  <2>1. r.op = "open"
    BY <1>1 DEF Opens
  <2>2. Target(r) = Effective(r.joined, r.here) /\ r.joined # None
    BY <1>1, <2>1, OpenJoins DEF Target, Effective
  <2>3. OpenSees(r).raw = r.joined /\ OpenSees(r).resolved = r.here
    BY <2>2 DEF OpenSees, Name
  <2>4. Judge(p, r) = JudgePath(p, r.joined, r.here, r.write)
    BY <2>1, <2>3 DEF Judge, MoveOps
  <2>5. JudgePath(p, r.joined, r.here, r.write) = JudgePath(p, Target(r), Target(r), r.write)
    BY <2>2, PathByTarget
  <2> QED
    BY <2>1, <2>4, <2>5 DEF MoveOps
<1>2. CASE r \in Moves \cup Execs
  <2>1. r.op \in MoveOps \/ r.op = "exec"
    BY <1>2 DEF Moves, Execs
  <2>2. Target(r) = Effective(r.text, r.root)
    BY <2>1 DEF Target, MoveOps
  <2>3. OtherSees(r).raw = r.text /\ OtherSees(r).resolved = r.root
    BY DEF OtherSees, Name
  <2>4. CASE r.op = "exec"
    BY <2>2, <2>3, <2>4 DEF Judge, MoveOps
  <2>5. CASE r.op \in MoveOps
    <3>1. Judge(p, r) = JudgePath(p, r.text, r.root, TRUE) /\ r.op # "open" /\ r.op # "exec"
      BY <2>3, <2>5 DEF Judge, MoveOps
    <3>2. JudgePath(p, r.text, r.root, TRUE) = JudgePath(p, Target(r), Target(r), TRUE)
      BY <2>2 DEF JudgePath, Effective
    <3> QED
      BY <3>1, <3>2, Zenon
  <2> QED
    BY <2>1, <2>4, <2>5
<1> QED
  BY <1>1, <1>2

\* An open by any name, and the other calls by an absolute one, are judged as by the
\* plain name of what they lead to (Policy.ResolvedDecides).
THEOREM TheTargetDecides == Spec => []ResolvedDecides
<1>1. IInv => ResolvedDecides
  <2> SUFFICES ASSUME IInv, verdict # None, request.op \in {"open", "unlink", "rename", "exec"},
                      Target(request) # None, request.text # None
               PROVE  verdict = Judge(Profiles[profile], ByName(request, Target(request)))
    BY DEF ResolvedDecides
  <2>1. request \in Opens \cup Moves \cup Execs
    BY Classes DEF IInv, AsJudged, MoveOps
  <2>2. verdict = Judge(Profiles[profile], request)
    BY DEF IInv, AsJudged
  <2>3. request.op = "open" \/ request.op \in MoveOps \/ request.op = "exec"
    BY DEF MoveOps
  <2> DEFINE p == Profiles[profile]
             f == Target(request)
  <2>4. /\ request.op = "open" => Judge(p, request) = JudgePath(p, f, f, request.write)
        /\ request.op \in MoveOps => Judge(p, request) = JudgePath(p, f, f, TRUE)
        /\ request.op = "exec" => Judge(p, request) = JudgeExec(p, f)
    <3> HIDE DEF p
    <3> QED
      BY <2>1, TargetIs
  <2>5. /\ request.op = "open" => Judge(p, ByName(request, f)) = JudgePath(p, f, f, request.write)
        /\ request.op \in MoveOps => Judge(p, ByName(request, f)) = JudgePath(p, f, f, TRUE)
        /\ request.op = "exec" => Judge(p, ByName(request, f)) = JudgeExec(p, f)
    <3> HIDE DEF p, f
    <3>1. f # None
      BY DEF f
    <3> QED
      BY <2>1, <3>1, ByNameIs
  <2> QED
    BY <2>2, <2>3, <2>4, <2>5
<1> QED
  BY <1>1, Invariant, PTL

\* Under every profile no sensitive file is opened by any name, none is unlinked or
\* renamed by an absolute one, and no address gives a sensitive path
\* (Policy.SecretsNever).
THEOREM SecretsAreKept == Spec => []SecretsNever
<1>1. IInv => SecretsNever
  <2> SUFFICES ASSUME IInv, verdict # None, ~Refused PROVE SecretsNever
    BY DEF SecretsNever
  <2>1. verdict = Judge(Profiles[profile], request) /\ verdict.severity # "violation"
    BY DEF IInv, AsJudged, Refused
  <2>2. ASSUME request.op \in {"open", "unlink", "rename"}, Target(request) # None
        PROVE  ~Target(request).secret
    <3>1. request \in Opens \cup Moves
      BY <2>2, Classes DEF IInv, AsJudged, MoveOps
    <3>2. CASE request.op = "open"
      <4>1. request \in Opens /\ request.write \in BOOLEAN
        BY <3>1, <3>2, OpenJoins DEF Moves, MoveOps
      <4>2. ~Effective(OpenSees(request).raw, OpenSees(request).resolved).secret
        BY <2>1, <3>2, <4>1, PathIsPublic DEF Judge, MoveOps
      <4>3. OpenSees(request).raw # None
        BY <2>1, <3>2 DEF Judge, JudgePath, Violation, Verdict, MoveOps
      <4>4. request.joined # None
        BY <2>2, <3>2, <4>1, <4>3, OpenJoins DEF OpenSees, Name, Target, Effective
      <4> QED
        BY <3>2, <4>2, <4>4 DEF OpenSees, Name, Target
    <3>3. CASE request.op \in {"unlink", "rename"}
      <4>1. ~Effective(OtherSees(request).raw, OtherSees(request).resolved).secret
        BY <2>1, <3>3, PathIsPublic DEF Judge, MoveOps
      <4> QED
        BY <2>2, <3>3, <4>1 DEF OtherSees, Name, Target
    <3> QED
      BY <2>2, <3>2, <3>3
  <2>3. ASSUME request.op \in {"connect", "send"}, request.address # None, request.address.family = "unix"
        PROVE  request.address.path = None \/ ~request.address.path.secret
    <3>1. CASE request.op = "connect"
      <4>1. verdict = JudgeEndpoint(Profiles[profile], request.address)
        BY <2>1, <3>1 DEF Judge, MoveOps
      <4> QED
        BY <2>1, <2>3, <4>1 DEF JudgeEndpoint, Violation, Verdict
    <3>2. CASE request.op = "send"
      <4>1. request.header \in BOOLEAN
        BY <3>2, Classes DEF IInv, AsJudged, Sends
      <4>2. verdict = JudgeEndpoint(Profiles[profile], request.address)
        BY <2>1, <2>3, <3>2, <4>1 DEF Judge, JudgeSend, Violation, Verdict, MoveOps
      <4> QED
        BY <2>1, <2>3, <4>2 DEF JudgeEndpoint, Violation, Verdict
    <3> QED
      BY <2>3, <3>1, <3>2
  <2> QED
    BY <2>2, <2>3 DEF SecretsNever
<1> QED
  BY <1>1, Invariant, PTL

-----------------------------------------------------------------------------
(* Induction and recursion over the length of a list.                       *)

\* A set of numbers that is not empty has a least one.
LEMMA Least ==
    ASSUME NEW T \in SUBSET Nat, T # {}
    PROVE  \E n \in T : \A m \in T : n <= m
<1>1. PICK n \in T : \A m \in T : <<m, n>> \notin OpToRel(<, Nat)
  BY WFMin, NatLessThanWellFounded, Zenon
<1>2. \A m \in T : ~ (m < n)
  BY <1>1 DEF OpToRel
<1> QED
  BY <1>2

\* Induction up to n, over a set.
LEMMA UpTo ==
    ASSUME NEW n \in Nat, NEW T, 0 \in T, \A i \in 1..n : i - 1 \in T => i \in T
    PROVE  \A i \in 0..n : i \in T
<1>1. SUFFICES ASSUME {i \in 0..n : i \notin T} # {} PROVE FALSE
  OBVIOUS
<1>2. PICK i \in 0..n : i \notin T /\ \A m \in {j \in 0..n : j \notin T} : i <= m
  <2> DEFINE U == {j \in 0..n : j \notin T}
  <2>1. U \in SUBSET Nat /\ U # {}
    BY <1>1
  <2> HIDE DEF U
  <2>2. PICK i \in U : \A m \in U : i <= m
    BY <2>1, Least
  <2> QED
    BY <2>2 DEF U
<1>3. i # 0
  BY <1>2
<1>4. i - 1 \in T
  BY <1>2, <1>3
<1> QED
  BY <1>2, <1>3, <1>4

\* f begins with b and goes on by the steps.
Iterates(f, n, b, step) == f[0] = b /\ \A i \in 1..n : f[i] = step[i][f[i - 1]]

\* There is such a function: what a recursive definition over 0..n defines.
LEMMA Recursion ==
    ASSUME NEW S, NEW n \in Nat, NEW b \in S, NEW step \in [1..n -> [S -> S]]
    PROVE  \E f \in [0..n -> S] : Iterates(f, n, b, step)
<1> DEFINE Goes(k, f) == f[0] = b /\ \A i \in 1..k : f[i] = step[i][f[i - 1]]
           T == {k \in 0..n : \E f \in [0..k -> S] : Goes(k, f)}
<1>1. 0 \in T
  <2>1. [i \in 0..0 |-> b] \in [0..0 -> S] /\ Goes(0, [i \in 0..0 |-> b])
    OBVIOUS
  <2> HIDE DEF Goes
  <2>2. \E f \in [0..0 -> S] : Goes(0, f)
    BY <2>1, Zenon
  <2> QED
    BY <2>2
<1>2. ASSUME NEW k \in 1..n, k - 1 \in T PROVE k \in T
  <2>1. PICK f \in [0..k - 1 -> S] : Goes(k - 1, f)
    BY <1>2
  <2> DEFINE g == [i \in 0..k |-> IF i = k THEN step[k][f[k - 1]] ELSE f[i]]
  <2>2. step[k][f[k - 1]] \in S
    <3>1. f[k - 1] \in S /\ step[k] \in [S -> S]
      OBVIOUS
    <3> QED
      BY <3>1
  <2>3. g \in [0..k -> S]
    BY <2>2
  <2>4. Goes(k, g)
    <3>1. g[0] = b
      BY <2>1
    <3>2. ASSUME NEW i \in 1..k PROVE g[i] = step[i][g[i - 1]]
      <4>1. g[i - 1] = f[i - 1]
        OBVIOUS
      <4>2. CASE i = k
        BY <4>1, <4>2
      <4>3. CASE i # k
        BY <2>1, <4>1, <4>3
      <4> QED
        BY <4>2, <4>3
    <3> QED
      BY <3>1, <3>2
  <2> HIDE DEF Goes, g
  <2>5. \E h \in [0..k -> S] : Goes(k, h)
    BY <2>3, <2>4, Zenon
  <2> QED
    BY <2>5
<1> HIDE DEF T
<1>3. n \in T
  <2>1. \A k \in 0..n : k \in T
    BY <1>1, <1>2, UpTo, Zenon
  <2> QED
    BY <2>1
<1>4. PICK f \in [0..n -> S] : Goes(n, f)
  BY <1>3 DEF T
<1> QED
  BY <1>4 DEF Iterates

\* The elements of a longer sequence.
LEMMA AppendRange ==
    ASSUME NEW S, NEW s \in Seq(S), NEW x \in S
    PROVE  ToSet(Append(s, x)) = ToSet(s) \cup {x}
<1>1. DOMAIN s = 1..Len(s) /\ Len(s) \in Nat /\ DOMAIN Append(s, x) = 1..Len(s) + 1
  OBVIOUS
<1>2. Append(s, x)[Len(s) + 1] = x /\ \A i \in 1..Len(s) : Append(s, x)[i] = s[i]
  OBVIOUS
<1>3. 1..Len(s) + 1 = (1..Len(s)) \cup {Len(s) + 1}
  BY <1>1
<1>4. ASSUME NEW y PROVE y \in ToSet(Append(s, x)) <=> y \in ToSet(s) \cup {x}
  BY <1>1, <1>2, <1>3 DEF ToSet
<1> QED
  BY <1>4

-----------------------------------------------------------------------------
(* The lists of the filter.                                                 *)

\* What the recursion in Without asks of its function.
IsKept(f, s, Gone) ==
    f = [i \in 0..Len(s) |->
            IF i = 0 THEN <<>> ELSE IF s[i] \in Gone THEN f[i - 1] ELSE Append(f[i - 1], s[i])]

\* One such function exists.
LEMMA KeptExists ==
    ASSUME NEW S, NEW s \in Seq(S), NEW Gone
    PROVE  \E f : IsKept(f, s, Gone)
<1> DEFINE step == [i \in 1..Len(s) |-> [v \in Seq(S) |-> IF s[i] \in Gone THEN v ELSE Append(v, s[i])]]
<1>1. Len(s) \in Nat /\ <<>> \in Seq(S)
  OBVIOUS
<1>2. step \in [1..Len(s) -> [Seq(S) -> Seq(S)]]
  <2>1. ASSUME NEW i \in 1..Len(s), NEW v \in Seq(S) PROVE (IF s[i] \in Gone THEN v ELSE Append(v, s[i])) \in Seq(S)
    OBVIOUS
  <2> QED
    BY <2>1
<1>3. PICK f \in [0..Len(s) -> Seq(S)] : f[0] = <<>> /\ \A i \in 1..Len(s) : f[i] = step[i][f[i - 1]]
  <2> DEFINE n == Len(s)
             Q == Seq(S)
             e == <<>>
  <2>1. n \in Nat /\ e \in Q /\ step \in [1..n -> [Q -> Q]]
    BY <1>1, <1>2
  <2> HIDE DEF step, n, Q, e
  <2>2. \E f \in [0..n -> Q] : Iterates(f, n, e, step)
    BY <2>1, Recursion
  <2> QED
    BY <2>2 DEF n, Q, e, Iterates
<1>4. \A i \in 1..Len(s) : f[i] = IF s[i] \in Gone THEN f[i - 1] ELSE Append(f[i - 1], s[i])
  <2>1. ASSUME NEW i \in 1..Len(s) 
        PROVE  step[i][f[i - 1]] = IF s[i] \in Gone THEN f[i - 1] ELSE Append(f[i - 1], s[i])
    <3>1. f[i - 1] \in Seq(S)
      BY <1>1
    <3> QED
      BY <3>1
  <2> QED
    BY <1>3, <2>1
<1> DEFINE g == [i \in 0..Len(s) |->
             IF i = 0 THEN <<>> ELSE IF s[i] \in Gone THEN f[i - 1] ELSE Append(f[i - 1], s[i])]
<1>5. \A i \in 0..Len(s) : f[i] = g[i]
  <2>1. ASSUME NEW i \in 0..Len(s) PROVE f[i] = g[i]
    <3>1. CASE i = 0
      BY <1>3, <3>1
    <3>2. CASE i # 0
      <4>1. i \in 1..Len(s)
        BY <1>1, <3>2
      <4>2. f[i] = IF s[i] \in Gone THEN f[i - 1] ELSE Append(f[i - 1], s[i])
        BY <1>4, <4>1
      <4> QED
        BY <3>2, <4>2
    <3> QED
      BY <3>1, <3>2
  <2> QED
    BY <2>1
<1>6. f = g
  BY <1>5
<1> QED
  BY <1>6 DEF IsKept

\* The comprehension of filter_sets and build_program leaves out what it is told to, and
\* nothing else.
LEMMA WithoutDef ==
    ASSUME NEW S, NEW s \in Seq(S), NEW Gone
    PROVE  /\ Without(s, Gone) \in Seq(S)
           /\ ToSet(Without(s, Gone)) = ToSet(s) \ Gone
<1> DEFINE kept == CHOOSE f : IsKept(f, s, Gone)
<1>1. Without(s, Gone) = kept[Len(s)]
  BY DEF Without, IsKept
<1>2. IsKept(kept, s, Gone)
  <2>1. \E f : IsKept(f, s, Gone)
    BY KeptExists
  <2> QED
    BY <2>1, Zenon
<1> HIDE DEF kept
<1>3. kept[0] = <<>> /\ \A i \in 1..Len(s) : kept[i] = IF s[i] \in Gone THEN kept[i - 1] ELSE Append(kept[i - 1], s[i])
  <2>1. \A i \in 0..Len(s) : kept[i] = IF i = 0 THEN <<>> ELSE IF s[i] \in Gone THEN kept[i - 1] ELSE Append(kept[i - 1], s[i])
    BY <1>2, Zenon DEF IsKept
  <2>2. Len(s) \in Nat
    OBVIOUS
  <2> QED
    BY <2>1, <2>2
<1> DEFINE T == {i \in 0..Len(s) : kept[i] \in Seq(S) /\ ToSet(kept[i]) = {s[j] : j \in 1..i} \ Gone}
<1>4. 0 \in T
  <2>1. ToSet(<<>>) = {} /\ <<>> \in Seq(S)
    BY DEF ToSet
  <2>2. {s[j] : j \in 1..0} = {} /\ 0 \in 0..Len(s)
    OBVIOUS
  <2> QED
    BY <1>3, <2>1, <2>2
<1>5. ASSUME NEW i \in 1..Len(s), i - 1 \in T PROVE i \in T
  <2>1. kept[i - 1] \in Seq(S) /\ ToSet(kept[i - 1]) = {s[j] : j \in 1..i - 1} \ Gone
    BY <1>5
  <2>2. {s[j] : j \in 1..i} = {s[j] : j \in 1..i - 1} \cup {s[i]}
    OBVIOUS
  <2>3. CASE s[i] \in Gone
    BY <1>3, <2>1, <2>2, <2>3
  <2>4. CASE s[i] \notin Gone
    <3>1. kept[i] = Append(kept[i - 1], s[i])
      BY <1>3, <2>4
    <3>2. ToSet(kept[i]) = ToSet(kept[i - 1]) \cup {s[i]}
      BY <2>1, <3>1, AppendRange
    <3>3. kept[i] \in Seq(S)
      BY <2>1, <3>1
    <3> QED
      BY <2>1, <2>2, <2>4, <3>2, <3>3
  <2> QED
    BY <2>3, <2>4
<1> HIDE DEF T
<1>6. Len(s) \in T
  <2>1. Len(s) \in Nat /\ Len(s) \in 0..Len(s)
    OBVIOUS
  <2>2. \A i \in 0..Len(s) : i \in T
    BY <1>4, <1>5, <2>1, UpTo, Zenon
  <2> QED
    BY <2>1, <2>2
<1>7. kept[Len(s)] \in Seq(S) /\ ToSet(kept[Len(s)]) = {s[j] : j \in 1..Len(s)} \ Gone
  BY <1>6 DEF T
<1>8. ToSet(s) = {s[j] : j \in 1..Len(s)}
  BY DEF ToSet
<1> QED
  BY <1>1, <1>7, <1>8

\* What the recursion in FromKeys asks of its function.
IsKeys(f, s) ==
    f = [i \in 0..Len(s) |->
            IF i = 0 THEN <<>> ELSE IF s[i] \in ToSet(f[i - 1]) THEN f[i - 1] ELSE Append(f[i - 1], s[i])]

\* One such function exists.
LEMMA KeysExist ==
    ASSUME NEW S, NEW s \in Seq(S)
    PROVE  \E f : IsKeys(f, s)
<1> DEFINE step == [i \in 1..Len(s) |-> [v \in Seq(S) |-> IF s[i] \in ToSet(v) THEN v ELSE Append(v, s[i])]]
<1>1. Len(s) \in Nat /\ <<>> \in Seq(S)
  OBVIOUS
<1>2. step \in [1..Len(s) -> [Seq(S) -> Seq(S)]]
  <2>1. ASSUME NEW i \in 1..Len(s), NEW v \in Seq(S) PROVE (IF s[i] \in ToSet(v) THEN v ELSE Append(v, s[i])) \in Seq(S)
    OBVIOUS
  <2> QED
    BY <2>1
<1>3. PICK f \in [0..Len(s) -> Seq(S)] : f[0] = <<>> /\ \A i \in 1..Len(s) : f[i] = step[i][f[i - 1]]
  <2> DEFINE n == Len(s)
             Q == Seq(S)
             e == <<>>
  <2>1. n \in Nat /\ e \in Q /\ step \in [1..n -> [Q -> Q]]
    BY <1>1, <1>2
  <2> HIDE DEF step, n, Q, e
  <2>2. \E f \in [0..n -> Q] : Iterates(f, n, e, step)
    BY <2>1, Recursion
  <2> QED
    BY <2>2 DEF n, Q, e, Iterates
<1>4. \A i \in 1..Len(s) : f[i] = IF s[i] \in ToSet(f[i - 1]) THEN f[i - 1] ELSE Append(f[i - 1], s[i])
  <2>1. ASSUME NEW i \in 1..Len(s) 
        PROVE  step[i][f[i - 1]] = IF s[i] \in ToSet(f[i - 1]) THEN f[i - 1] ELSE Append(f[i - 1], s[i])
    <3>1. f[i - 1] \in Seq(S)
      BY <1>1
    <3> QED
      BY <3>1
  <2> QED
    BY <1>3, <2>1
<1> DEFINE g == [i \in 0..Len(s) |->
             IF i = 0 THEN <<>> ELSE IF s[i] \in ToSet(f[i - 1]) THEN f[i - 1] ELSE Append(f[i - 1], s[i])]
<1>5. \A i \in 0..Len(s) : f[i] = g[i]
  <2>1. ASSUME NEW i \in 0..Len(s) PROVE f[i] = g[i]
    <3>1. CASE i = 0
      BY <1>3, <3>1
    <3>2. CASE i # 0
      <4>1. i \in 1..Len(s)
        BY <1>1, <3>2
      <4>2. f[i] = IF s[i] \in ToSet(f[i - 1]) THEN f[i - 1] ELSE Append(f[i - 1], s[i])
        BY <1>4, <4>1
      <4> QED
        BY <3>2, <4>2
    <3> QED
      BY <3>1, <3>2
  <2> QED
    BY <2>1
<1>6. f = g
  BY <1>5
<1> QED
  BY <1>6 DEF IsKeys

\* list(dict.fromkeys(s)) has the elements of s.
LEMMA FromKeysDef ==
    ASSUME NEW S, NEW s \in Seq(S)
    PROVE  /\ FromKeys(s) \in Seq(S)
           /\ ToSet(FromKeys(s)) = ToSet(s)
<1> DEFINE keys == CHOOSE f : IsKeys(f, s)
<1>1. FromKeys(s) = keys[Len(s)]
  BY DEF FromKeys, IsKeys
<1>2. IsKeys(keys, s)
  <2>1. \E f : IsKeys(f, s)
    BY KeysExist
  <2> QED
    BY <2>1, Zenon
<1> HIDE DEF keys
<1>3. keys[0] = <<>> /\ \A i \in 1..Len(s) : keys[i] = IF s[i] \in ToSet(keys[i - 1]) THEN keys[i - 1] ELSE Append(keys[i - 1], s[i])
  <2>1. \A i \in 0..Len(s) : keys[i] = IF i = 0 THEN <<>> ELSE IF s[i] \in ToSet(keys[i - 1]) THEN keys[i - 1] ELSE Append(keys[i - 1], s[i])
    BY <1>2, Zenon DEF IsKeys
  <2>2. Len(s) \in Nat
    OBVIOUS
  <2> QED
    BY <2>1, <2>2
<1> DEFINE T == {i \in 0..Len(s) : keys[i] \in Seq(S) /\ ToSet(keys[i]) = {s[j] : j \in 1..i}}
<1>4. 0 \in T
  <2>1. ToSet(<<>>) = {} /\ <<>> \in Seq(S)
    BY DEF ToSet
  <2>2. {s[j] : j \in 1..0} = {} /\ 0 \in 0..Len(s)
    OBVIOUS
  <2> QED
    BY <1>3, <2>1, <2>2
<1>5. ASSUME NEW i \in 1..Len(s), i - 1 \in T PROVE i \in T
  <2>1. keys[i - 1] \in Seq(S) /\ ToSet(keys[i - 1]) = {s[j] : j \in 1..i - 1}
    BY <1>5
  <2>2. {s[j] : j \in 1..i} = {s[j] : j \in 1..i - 1} \cup {s[i]}
    OBVIOUS
  <2>3. CASE s[i] \in ToSet(keys[i - 1])
    <3>1. keys[i] = keys[i - 1]
      BY <1>3, <2>3
    <3>2. {s[j] : j \in 1..i} = {s[j] : j \in 1..i - 1}
      BY <2>1, <2>2, <2>3
    <3> QED
      BY <2>1, <3>1, <3>2
  <2>4. CASE s[i] \notin ToSet(keys[i - 1])
    <3>1. keys[i] = Append(keys[i - 1], s[i])
      BY <1>3, <2>4
    <3>2. ToSet(keys[i]) = ToSet(keys[i - 1]) \cup {s[i]}
      BY <2>1, <3>1, AppendRange
    <3>3. keys[i] \in Seq(S)
      BY <2>1, <3>1
    <3> QED
      BY <2>1, <2>2, <2>4, <3>2, <3>3
  <2> QED
    BY <2>3, <2>4
<1> HIDE DEF T
<1>6. Len(s) \in T
  <2>1. Len(s) \in Nat /\ Len(s) \in 0..Len(s)
    OBVIOUS
  <2>2. \A i \in 0..Len(s) : i \in T
    BY <1>4, <1>5, <2>1, UpTo, Zenon
  <2> QED
    BY <2>1, <2>2
<1>7. keys[Len(s)] \in Seq(S) /\ ToSet(keys[Len(s)]) = {s[j] : j \in 1..Len(s)}
  BY <1>6 DEF T
<1>8. ToSet(s) = {s[j] : j \in 1..Len(s)}
  BY DEF ToSet
<1> QED
  BY <1>1, <1>7, <1>8

-----------------------------------------------------------------------------
(* The program that build_program assembles.                                *)

\* What a filter answers, and the instructions it is written in.
Actions == {"kill", "eperm", "notify", "allow"}
Instructions == [op : {"ld", "jeq", "jset", "ret"},
                 k : Numbers \cup Actions \cup {"arch", "nr", "x86_64", "x32"}, jt : {0, 1}, jf : {0, 1}]

\* What build_program appends are instructions.
LEMMA InstructionTypes ==
    /\ \A k \in {"arch", "nr"} : Load(k) \in Instructions
    /\ \A k \in Numbers \cup {"x86_64"}, t, f \in {0, 1} : Jeq(k, t, f) \in Instructions
    /\ Jset("x32", 0, 1) \in Instructions
    /\ \A k \in Actions : Ret(k) \in Instructions
BY DEF Load, Jeq, Jset, Ret, Instructions, Actions

\* A class is assembled into one comparison and one return for each of its numbers.
LEMMA PairsDef ==
    ASSUME NEW s \in Seq(Numbers), NEW action \in Actions
    PROVE  /\ Pairs(s, action) \in Seq(Instructions)
           /\ Len(Pairs(s, action)) = 2 * Len(s)
           /\ \A k \in 1..Len(s) : /\ Pairs(s, action)[2 * k - 1] = Jeq(s[k], 0, 1)
                                   /\ Pairs(s, action)[2 * k] = Ret(action)
<1>1. Len(s) \in Nat /\ 2 * Len(s) \in Nat
  OBVIOUS
<1>2. ASSUME NEW i \in 1..2 * Len(s)
      PROVE  (IF i % 2 = 1 THEN Jeq(s[(i + 1) \div 2], 0, 1) ELSE Ret(action)) \in Instructions
  <2>1. CASE i % 2 = 1
    <3>1. (i + 1) \div 2 \in 1..Len(s)
      BY <1>1
    <3>2. s[(i + 1) \div 2] \in Numbers
      BY <3>1
    <3> QED
      BY <2>1, <3>2, InstructionTypes
  <2>2. CASE i % 2 # 1
    BY <2>2, InstructionTypes
  <2> QED
    BY <2>1, <2>2
<1>3. Pairs(s, action) \in [1..2 * Len(s) -> Instructions]
  BY <1>2 DEF Pairs
<1>4. Pairs(s, action) \in Seq(Instructions) /\ Len(Pairs(s, action)) = 2 * Len(s)
  BY <1>1, <1>3
<1>5. ASSUME NEW k \in 1..Len(s)
      PROVE  /\ Pairs(s, action)[2 * k - 1] = Jeq(s[k], 0, 1)
             /\ Pairs(s, action)[2 * k] = Ret(action)
  <2>1. 2 * k - 1 \in 1..2 * Len(s) /\ 2 * k \in 1..2 * Len(s)
    BY <1>1
  <2>2. (2 * k - 1) % 2 = 1 /\ (2 * k) % 2 = 0 /\ ((2 * k - 1) + 1) \div 2 = k
    BY <1>1
  <2> QED
    BY <2>1, <2>2 DEF Pairs
<1> QED
  BY <1>4, <1>5

\* q is s and then t.
Joins(q, s, t) ==
    /\ Len(q) = Len(s) + Len(t)
    /\ \A i \in 1..Len(s) : q[i] = s[i]
    /\ \A i \in 1..Len(t) : q[Len(s) + i] = t[i]

\* Two lists, one after the other.
LEMMA Joined ==
    ASSUME NEW S, NEW s \in Seq(S), NEW t \in Seq(S)
    PROVE  s \o t \in Seq(S) /\ Joins(s \o t, s, t)
BY DEF Joins

\* p is g and four parts, one after the other.
Sectioned(p, g, p1, p2, p3, p4) ==
    /\ Len(p) = Len(g) + Len(p1) + Len(p2) + Len(p3) + Len(p4)
    /\ \A i \in 1..Len(g) : p[i] = g[i]
    /\ \A i \in 1..Len(p1) : p[Len(g) + i] = p1[i]
    /\ \A i \in 1..Len(p2) : p[Len(g) + Len(p1) + i] = p2[i]
    /\ \A i \in 1..Len(p3) : p[Len(g) + Len(p1) + Len(p2) + i] = p3[i]
    /\ \A i \in 1..Len(p4) : p[Len(g) + Len(p1) + Len(p2) + Len(p3) + i] = p4[i]

\* Where each part of the program begins.
LEMMA Sections ==
    ASSUME NEW S, NEW g \in Seq(S), NEW p1 \in Seq(S), NEW p2 \in Seq(S), NEW p3 \in Seq(S), NEW p4 \in Seq(S)
    PROVE  /\ g \o p1 \o p2 \o p3 \o p4 \in Seq(S)
           /\ Sectioned(g \o p1 \o p2 \o p3 \o p4, g, p1, p2, p3, p4)
<1> DEFINE q1 == g \o p1
           q2 == q1 \o p2
           q3 == q2 \o p3
           q4 == q3 \o p4
<1>0. Len(g) \in Nat /\ Len(p1) \in Nat /\ Len(p2) \in Nat /\ Len(p3) \in Nat /\ Len(p4) \in Nat
  OBVIOUS
<1>1. q1 \in Seq(S) /\ Joins(q1, g, p1)
  BY Joined
<1> HIDE DEF q1
<1>2. q2 \in Seq(S) /\ Joins(q2, q1, p2)
  BY <1>1, Joined
<1> HIDE DEF q2
<1>3. q3 \in Seq(S) /\ Joins(q3, q2, p3)
  BY <1>2, Joined
<1> HIDE DEF q3
<1>4. q4 \in Seq(S) /\ Joins(q4, q3, p4)
  BY <1>3, Joined
<1> HIDE DEF q4
<1>5. PICK a \in Nat, b \in Nat, c \in Nat, d \in Nat, e \in Nat :
         Len(g) = a /\ Len(p1) = b /\ Len(p2) = c /\ Len(p3) = d /\ Len(p4) = e
  BY <1>0
<1>6. /\ Len(q1) = a + b /\ \A i \in 1..a : q1[i] = g[i]
      /\ \A i \in 1..b : q1[a + i] = p1[i]
  BY <1>1, <1>5 DEF Joins
<1>7. /\ Len(q2) = a + b + c /\ \A i \in 1..a + b : q2[i] = q1[i]
      /\ \A i \in 1..c : q2[a + b + i] = p2[i]
  BY <1>2, <1>5, <1>6 DEF Joins
<1>8. /\ Len(q3) = a + b + c + d /\ \A i \in 1..a + b + c : q3[i] = q2[i]
      /\ \A i \in 1..d : q3[a + b + c + i] = p3[i]
  BY <1>3, <1>5, <1>7 DEF Joins
<1>9. /\ Len(q4) = a + b + c + d + e /\ \A i \in 1..a + b + c + d : q4[i] = q3[i]
      /\ \A i \in 1..e : q4[a + b + c + d + i] = p4[i]
  BY <1>4, <1>5, <1>8 DEF Joins
<1>10. Sectioned(q4, g, p1, p2, p3, p4)
  <2>1. ASSUME NEW i \in 1..a PROVE q4[i] = g[i]
    <3>1. i \in 1..a + b /\ i \in 1..a + b + c /\ i \in 1..a + b + c + d
      OBVIOUS
    <3> QED
      BY <1>6, <1>7, <1>8, <1>9, <3>1
  <2>2. ASSUME NEW i \in 1..b PROVE q4[a + i] = p1[i]
    <3>1. a + i \in 1..a + b /\ a + i \in 1..a + b + c /\ a + i \in 1..a + b + c + d
      OBVIOUS
    <3> QED
      BY <1>6, <1>7, <1>8, <1>9, <3>1
  <2>3. ASSUME NEW i \in 1..c PROVE q4[a + b + i] = p2[i]
    <3>1. a + b + i \in 1..a + b + c /\ a + b + i \in 1..a + b + c + d
      OBVIOUS
    <3> QED
      BY <1>7, <1>8, <1>9, <3>1
  <2>4. ASSUME NEW i \in 1..d PROVE q4[a + b + c + i] = p3[i]
    <3>1. a + b + c + i \in 1..a + b + c + d
      OBVIOUS
    <3> QED
      BY <1>8, <1>9, <3>1
  <2> QED
    BY <1>5, <1>9, <2>1, <2>2, <2>3, <2>4 DEF Sectioned
<1> QED
  BY <1>4, <1>10 DEF q1, q2, q3, q4

\* The part of the program that lets one ABI in.
Guard == <<Load("arch"), Jeq("x86_64", 1, 0), Ret("kill"), Load("nr"), Jset("x32", 0, 1), Ret("kill")>>

\* The number that the k-th comparison is about, and what its return answers.
Check(d, n, a, k) ==
    IF k <= Len(d) THEN d[k] ELSE IF k <= Len(d) + Len(n) THEN n[k - Len(d)] ELSE a[k - Len(d) - Len(n)]
ActionOf(d, n, k) ==
    IF k <= Len(d) THEN "eperm" ELSE IF k <= Len(d) + Len(n) THEN "notify" ELSE "allow"

\* p is the guard, the comparisons of three classes in their order, and a last return.
LaidOut(p, d, n, a, last) ==
    LET total == Len(d) + Len(n) + Len(a)
    IN  /\ Len(p) = 7 + 2 * total /\ DOMAIN p = 1..7 + 2 * total
        /\ \A i \in 1..6 : p[i] = Guard[i]
        /\ \A k \in 1..total : /\ p[5 + 2 * k] = Jeq(Check(d, n, a, k), 0, 1)
                               /\ p[6 + 2 * k] = Ret(ActionOf(d, n, k))
        /\ p[7 + 2 * total] = Ret(last)

\* build_program lays its program out like that.
LEMMA Layout ==
    ASSUME NEW d \in Seq(Numbers), NEW n \in Seq(Numbers), NEW a \in Seq(Numbers), NEW last \in Actions
    PROVE  LaidOut(Guard \o Pairs(d, "eperm") \o Pairs(n, "notify") \o Pairs(a, "allow") \o <<Ret(last)>>,
                   d, n, a, last)
<1>1. PICK D \in Nat, N \in Nat, A \in Nat : D = Len(d) /\ N = Len(n) /\ A = Len(a)
  OBVIOUS
<1>2. PICK p1 \in Seq(Instructions) :
      /\ p1 = Pairs(d, "eperm") /\ Len(p1) = 2 * D
      /\ \A k \in 1..D : p1[2 * k - 1] = Jeq(d[k], 0, 1) /\ p1[2 * k] = Ret("eperm")
  BY <1>1, PairsDef DEF Actions
<1>3. PICK p2 \in Seq(Instructions) :
      /\ p2 = Pairs(n, "notify") /\ Len(p2) = 2 * N
      /\ \A k \in 1..N : p2[2 * k - 1] = Jeq(n[k], 0, 1) /\ p2[2 * k] = Ret("notify")
  BY <1>1, PairsDef DEF Actions
<1>4. PICK p3 \in Seq(Instructions) :
      /\ p3 = Pairs(a, "allow") /\ Len(p3) = 2 * A
      /\ \A k \in 1..A : p3[2 * k - 1] = Jeq(a[k], 0, 1) /\ p3[2 * k] = Ret("allow")
  BY <1>1, PairsDef DEF Actions
<1>5. Guard \in Seq(Instructions) /\ Len(Guard) = 6
  BY InstructionTypes DEF Guard, Actions
<1> DEFINE p4 == <<Ret(last)>>
<1>6. p4 \in Seq(Instructions) /\ Len(p4) = 1 /\ p4[1] = Ret(last)
  BY InstructionTypes
<1> HIDE DEF p4
<1> DEFINE p == Guard \o p1 \o p2 \o p3 \o p4
<1>7. /\ p \in Seq(Instructions) /\ Len(p) = 7 + 2 * (D + N + A)
      /\ \A i \in 1..6 : p[i] = Guard[i]
      /\ \A i \in 1..2 * D : p[6 + i] = p1[i]
      /\ \A i \in 1..2 * N : p[6 + 2 * D + i] = p2[i]
      /\ \A i \in 1..2 * A : p[6 + 2 * D + 2 * N + i] = p3[i]
      /\ p[7 + 2 * (D + N + A)] = p4[1]
  <2>1. p \in Seq(Instructions) /\ Sectioned(p, Guard, p1, p2, p3, p4)
    BY <1>5, <1>6, Sections
  <2>2. Len(Guard) = 6 /\ Len(p1) = 2 * D /\ Len(p2) = 2 * N /\ Len(p3) = 2 * A /\ Len(p4) = 1
    BY <1>2, <1>3, <1>4, <1>5, <1>6
  <2> HIDE DEF p
  <2>3. p[6 + 2 * D + 2 * N + 2 * A + 1] = p4[1]
    BY <2>1, <2>2 DEF Sectioned
  <2>4. 7 + 2 * (D + N + A) = 6 + 2 * D + 2 * N + 2 * A + 1
    OBVIOUS
  <2> QED
    BY <2>1, <2>2, <2>3, <2>4 DEF Sectioned
<1> HIDE DEF p
<1>8. ASSUME NEW k \in 1..(D + N + A)
      PROVE  p[5 + 2 * k] = Jeq(Check(d, n, a, k), 0, 1) /\ p[6 + 2 * k] = Ret(ActionOf(d, n, k))
  <2>1. CASE k <= D
    <3>1. 2 * k - 1 \in 1..2 * D /\ 2 * k \in 1..2 * D /\ k \in 1..D
      BY <2>1
    <3>2. 6 + (2 * k - 1) = 5 + 2 * k
      OBVIOUS
    <3>3. p[5 + 2 * k] = p1[2 * k - 1] /\ p[6 + 2 * k] = p1[2 * k]
      BY <1>7, <3>1, <3>2
    <3> QED
      BY <1>1, <1>2, <2>1, <3>1, <3>3 DEF Check, ActionOf
  <2>2. CASE D < k /\ k <= D + N
    <3>1. PICK j \in 1..N : j = k - D
      BY <2>2
    <3>2. 2 * j - 1 \in 1..2 * N /\ 2 * j \in 1..2 * N
      OBVIOUS
    <3>3. 6 + 2 * D + (2 * j - 1) = 5 + 2 * k /\ 6 + 2 * D + 2 * j = 6 + 2 * k
      BY <3>1
    <3>4. p[5 + 2 * k] = p2[2 * j - 1] /\ p[6 + 2 * k] = p2[2 * j]
      BY <1>7, <3>2, <3>3
    <3>5. ~(k <= D)
      BY <2>2
    <3> QED
      BY <1>1, <1>3, <2>2, <3>1, <3>4, <3>5 DEF Check, ActionOf
  <2>3. CASE D + N < k
    <3>1. PICK j \in 1..A : j = k - D - N
      BY <2>3
    <3>2. 2 * j - 1 \in 1..2 * A /\ 2 * j \in 1..2 * A
      OBVIOUS
    <3>3. 6 + 2 * D + 2 * N + (2 * j - 1) = 5 + 2 * k /\ 6 + 2 * D + 2 * N + 2 * j = 6 + 2 * k
      BY <3>1
    <3>4. p[5 + 2 * k] = p3[2 * j - 1] /\ p[6 + 2 * k] = p3[2 * j]
      BY <1>7, <3>2, <3>3
    <3>5. ~(k <= D) /\ ~(k <= D + N)
      BY <2>3
    <3> QED
      BY <1>1, <1>4, <3>1, <3>4, <3>5 DEF Check, ActionOf
  <2> QED
    BY <2>1, <2>2, <2>3
<1>9. p = Guard \o Pairs(d, "eperm") \o Pairs(n, "notify") \o Pairs(a, "allow") \o <<Ret(last)>>
  BY <1>2, <1>3, <1>4, <1>6, Zenon DEF p, p4
<1>10. LaidOut(p, d, n, a, last)
  <2>1. DOMAIN p = 1..Len(p)
    BY <1>7
  <2> QED
    BY <1>1, <1>6, <1>7, <1>8, <2>1 DEF LaidOut
<1> QED
  BY <1>9, <1>10, Zenon

-----------------------------------------------------------------------------
(* The filter's invariant.                                                  *)

\* The classes without what an earlier one has (seccomp.py, build_program), the number of
\* comparisons, and the number each is about.
Denied == FromKeys(deny)
Noted  == Without(FromKeys(notify), ToSet(Denied))
Listed == Without(FromKeys(allow), ToSet(Denied) \cup ToSet(Noted))
Checks == Len(Denied) + Len(Noted) + Len(Listed)
Asked(k) == Check(Denied, Noted, Listed, k)

\* A call of the one ABI that is let in.
Lawful == call.arch = "x86_64" /\ ~call.x32

\* How the interpreter got to where it is.
Reached ==
    \/ at = 1 /\ acc = "nothing"
    \/ at = 2 /\ acc = "arch"
    \/ at = 3 /\ call.arch # "x86_64"
    \/ at = 4 /\ call.arch = "x86_64"
    \/ at = 5 /\ call.arch = "x86_64" /\ acc = "nr"
    \/ at = 6 /\ call.x32
    \/ /\ Lawful /\ acc = "nr"
       /\ \E k \in 0..Checks :
             /\ \A j \in 1..k : Asked(j) # call.nr
             /\ \/ at = 7 + 2 * k
                \/ k < Checks /\ at = 8 + 2 * k /\ Asked(k + 1) = call.nr

\* What no step of the interpreter changes.  In the strict allowlist no number is both denied
\* and notified.
Static ==
    /\ deny \in Seq(Numbers) /\ notify \in Seq(Numbers) /\ allow \in Seq(Numbers)
    /\ defaultAllow \in BOOLEAN /\ call \in Calls
    /\ ~defaultAllow => ToSet(deny) \cap ToSet(notify) = {}
    /\ prog = Program(deny, notify, allow, defaultAllow)

\* The inductive invariant.
FilterIInv ==
    /\ Static
    /\ acc \in {"nothing", "arch", "nr"}
    /\ fate \in {"none"} \cup Actions
    /\ Reached
    /\ DecidesAsMeant

\* The classes as the program has them.
LEMMA GroupTypes ==
    ASSUME Static
    PROVE  /\ Denied \in Seq(Numbers) /\ ToSet(Denied) = ToSet(deny)
           /\ Noted \in Seq(Numbers) /\ ToSet(Noted) = ToSet(notify) \ ToSet(deny)
           /\ Listed \in Seq(Numbers) /\ ToSet(Listed) = ToSet(allow) \ (ToSet(deny) \cup ToSet(notify))
<1>1. Denied \in Seq(Numbers) /\ ToSet(Denied) = ToSet(deny)
  BY FromKeysDef DEF Static, Denied
<1>2. FromKeys(notify) \in Seq(Numbers) /\ ToSet(FromKeys(notify)) = ToSet(notify)
  BY FromKeysDef DEF Static
<1>3. FromKeys(allow) \in Seq(Numbers) /\ ToSet(FromKeys(allow)) = ToSet(allow)
  BY FromKeysDef DEF Static
<1>4. Noted \in Seq(Numbers) /\ ToSet(Noted) = ToSet(notify) \ ToSet(deny)
  BY <1>1, <1>2, WithoutDef DEF Noted
<1>5. Listed \in Seq(Numbers) /\ ToSet(Listed) = ToSet(allow) \ (ToSet(deny) \cup ToSet(notify))
  BY <1>1, <1>3, <1>4, WithoutDef DEF Listed
<1> QED
  BY <1>1, <1>4, <1>5

\* The installed program, instruction by instruction.
LEMMA ProgramLayout ==
    ASSUME Static
    PROVE  /\ Checks \in Nat
           /\ DOMAIN prog = 1..7 + 2 * Checks
           /\ \A i \in 1..6 : prog[i] = Guard[i]
           /\ \A k \in 1..Checks : /\ prog[5 + 2 * k] = Jeq(Asked(k), 0, 1)
                                   /\ prog[6 + 2 * k] = Ret(ActionOf(Denied, Noted, k))
           /\ prog[7 + 2 * Checks] = Ret(IF defaultAllow THEN "allow" ELSE "eperm")
<1> DEFINE last == IF defaultAllow THEN "allow" ELSE "eperm"
<1>1. Denied \in Seq(Numbers) /\ Noted \in Seq(Numbers) /\ Listed \in Seq(Numbers)
  BY GroupTypes
<1>2. Checks \in Nat
  BY <1>1 DEF Checks
<1>3. prog = Guard \o Pairs(Denied, "eperm") \o Pairs(Noted, "notify") \o Pairs(Listed, "allow") \o <<Ret(last)>>
  BY DEF Static, Program, Guard, Denied, Noted, Listed
<1>4. last \in Actions
  BY DEF Actions
<1>5. LaidOut(prog, Denied, Noted, Listed, last)
  <2> HIDE DEF last
  <2> QED
    BY <1>1, <1>3, <1>4, Layout
<1> QED
  BY <1>2, <1>5 DEF LaidOut, Checks, Asked

\* filter_sets never denies what it notifies in the strict allowlist.
LEMMA SetsApart ==
    ASSUME NEW hard \in Seq(Numbers), NEW notes \in Seq(Numbers), NEW baseline \in Seq(Numbers), NEW all \in BOOLEAN
    PROVE  LET sets == FilterSets(hard, notes, baseline, all)
           IN  /\ sets.deny \in Seq(Numbers) /\ sets.notify \in Seq(Numbers) /\ sets.allow \in Seq(Numbers)
               /\ ~all => ToSet(sets.deny) \cap ToSet(sets.notify) = {}
<1>1. CASE all
  BY <1>1 DEF FilterSets
<1>2. CASE ~all
  <2> DEFINE kept == Without(hard, ToSet(baseline) \cup ToSet(notes))
  <2>1. kept \in Seq(Numbers) /\ ToSet(kept) = ToSet(hard) \ (ToSet(baseline) \cup ToSet(notes))
    BY WithoutDef
  <2>2. FilterSets(hard, notes, baseline, all) = [deny |-> kept, notify |-> notes, allow |-> baseline]
    BY <1>2 DEF FilterSets
  <2> HIDE DEF kept
  <2> QED
    BY <2>1, <2>2
<1> QED
  BY <1>1, <1>2

\* The bounded lists are lists.
LEMMA ListsAreSequences == Lists \subseteq Seq(Numbers)
BY DEF Lists, SeqOf

\* A filter just installed satisfies the invariant.
LEMMA FilterInitIInv == FilterInit => FilterIInv
<1> SUFFICES ASSUME FilterInit PROVE FilterIInv
  OBVIOUS
<1>1. PICK hard \in Seq(Numbers), notes \in Seq(Numbers), baseline \in Seq(Numbers) :
         LET sets == FilterSets(hard, notes, baseline, defaultAllow)
         IN  deny = sets.deny /\ notify = sets.notify /\ allow = sets.allow
  BY ListsAreSequences DEF FilterInit
<1>2. Static
  BY <1>1, SetsApart DEF FilterInit, Static
<1> QED
  BY <1>2 DEF FilterInit, FilterIInv, Reached, DecidesAsMeant

\* What the guard's instructions are.
LEMMA GuardIs ==
    /\ Guard[1] = Load("arch") /\ Guard[2] = Jeq("x86_64", 1, 0) /\ Guard[3] = Ret("kill")
    /\ Guard[4] = Load("nr") /\ Guard[5] = Jset("x32", 0, 1) /\ Guard[6] = Ret("kill")
BY DEF Guard

\* The guard is where the program begins.
LEMMA AtHand ==
    ASSUME Static
    PROVE  /\ prog[1] = Load("arch") /\ prog[2] = Jeq("x86_64", 1, 0) /\ prog[3] = Ret("kill")
           /\ prog[4] = Load("nr") /\ prog[5] = Jset("x32", 0, 1) /\ prog[6] = Ret("kill")
BY ProgramLayout, GuardIs

\* What a check's answer means.
LEMMA AnswerIsMeant ==
    ASSUME Static, Lawful, NEW k \in 1..Checks, \A j \in 1..k - 1 : Asked(j) # call.nr, Asked(k) = call.nr
    PROVE  ActionOf(Denied, Noted, k) = Meant
<1>1. /\ Denied \in Seq(Numbers) /\ ToSet(Denied) = ToSet(deny)
      /\ Noted \in Seq(Numbers) /\ ToSet(Noted) = ToSet(notify) \ ToSet(deny)
      /\ Listed \in Seq(Numbers) /\ ToSet(Listed) = ToSet(allow) \ (ToSet(deny) \cup ToSet(notify))
  BY GroupTypes
<1>2. PICK D \in Nat, N \in Nat, A \in Nat : D = Len(Denied) /\ N = Len(Noted) /\ A = Len(Listed)
  BY <1>1
<1>3. Checks = D + N + A
  BY <1>2 DEF Checks
<1>4. CASE k <= D
  <2>1. Denied[k] = call.nr /\ k \in DOMAIN Denied
    BY <1>1, <1>2, <1>4 DEF Asked, Check
  <2>2. call.nr \in ToSet(Denied)
    BY <2>1 DEF ToSet
  <2>3. ActionOf(Denied, Noted, k) = "eperm"
    BY <1>2, <1>4 DEF ActionOf
  <2>4. Meant = "eperm"
    BY <1>1, <2>2 DEF Meant, Lawful
  <2> QED
    BY <2>3, <2>4
<1>5. CASE D < k /\ k <= D + N
  <2>0. ~(k <= D)
    BY <1>5
  <2>1. Noted[k - D] = call.nr /\ k - D \in DOMAIN Noted
    BY <1>1, <1>2, <1>5, <2>0 DEF Asked, Check
  <2>2. call.nr \in ToSet(Noted)
    BY <2>1 DEF ToSet
  <2>3. ActionOf(Denied, Noted, k) = "notify"
    BY <1>2, <1>5, <2>0 DEF ActionOf
  <2>4. Meant = "notify"
    BY <1>1, <2>2 DEF Meant, Lawful
  <2> QED
    BY <2>3, <2>4
<1>6. CASE D + N < k
  <2>0. ~(k <= D) /\ ~(k <= D + N)
    BY <1>6
  <2>1. Listed[k - D - N] = call.nr /\ k - D - N \in DOMAIN Listed
    BY <1>1, <1>2, <1>3, <1>6, <2>0 DEF Asked, Check
  <2>2. call.nr \in ToSet(Listed)
    BY <2>1 DEF ToSet
  <2>3. ActionOf(Denied, Noted, k) = "allow"
    BY <1>2, <1>6, <2>0 DEF ActionOf
  <2>4. Meant = "allow"
    BY <1>1, <2>2 DEF Meant, Lawful
  <2> QED
    BY <2>3, <2>4
<1> QED
  BY <1>2, <1>4, <1>5, <1>6

\* A call that no check has stopped is in no class.
LEMMA UnlistedIsMeant ==
    ASSUME Static, Lawful, \A j \in 1..Checks : Asked(j) # call.nr
    PROVE  (IF defaultAllow THEN "allow" ELSE "eperm") = Meant
<1>1. /\ Denied \in Seq(Numbers) /\ ToSet(Denied) = ToSet(deny)
      /\ Noted \in Seq(Numbers) /\ ToSet(Noted) = ToSet(notify) \ ToSet(deny)
      /\ Listed \in Seq(Numbers) /\ ToSet(Listed) = ToSet(allow) \ (ToSet(deny) \cup ToSet(notify))
  BY GroupTypes
<1>2. PICK D \in Nat, N \in Nat, A \in Nat : D = Len(Denied) /\ N = Len(Noted) /\ A = Len(Listed)
  BY <1>1
<1>3. Checks = D + N + A
  BY <1>2 DEF Checks
<1>4. call.nr \notin ToSet(Denied)
  <2>1. \A j \in 1..D : Denied[j] # call.nr
    BY <1>2, <1>3 DEF Asked, Check
  <2> QED
    BY <1>1, <1>2, <2>1 DEF ToSet
<1>5. call.nr \notin ToSet(Noted)
  <2>1. ASSUME NEW j \in 1..N PROVE Noted[j] # call.nr
    <3>1. D + j \in 1..Checks /\ ~(D + j <= D) /\ D + j <= D + N /\ D + j - D = j
      BY <1>3
    <3> QED
      BY <1>2, <3>1 DEF Asked, Check
  <2> QED
    BY <1>1, <1>2, <2>1 DEF ToSet
<1>6. call.nr \notin ToSet(Listed)
  <2>1. ASSUME NEW j \in 1..A PROVE Listed[j] # call.nr
    <3>1. D + N + j \in 1..Checks /\ ~(D + N + j <= D) /\ ~(D + N + j <= D + N) /\ D + N + j - D - N = j
      BY <1>3
    <3> QED
      BY <1>2, <3>1 DEF Asked, Check
  <2> QED
    BY <1>1, <1>2, <2>1 DEF ToSet
<1> QED
  BY <1>1, <1>4, <1>5, <1>6 DEF Meant, Lawful

\* Every instruction keeps the invariant.
LEMMA FilterNextIInv == FilterIInv /\ [FilterNext]_filterVars => FilterIInv'
<1> SUFFICES ASSUME FilterIInv, [FilterNext]_filterVars PROVE FilterIInv'
  OBVIOUS
<1>1. CASE UNCHANGED filterVars
  BY <1>1 DEF filterVars, FilterIInv, Static, Reached, DecidesAsMeant, Meant, Lawful, Checks, Asked, Check, Denied, Noted, Listed
<1>2. /\ Checks \in Nat
      /\ DOMAIN prog = 1..7 + 2 * Checks
      /\ \A k \in 1..Checks : /\ prog[5 + 2 * k] = Jeq(Asked(k), 0, 1)
                              /\ prog[6 + 2 * k] = Ret(ActionOf(Denied, Noted, k))
      /\ prog[7 + 2 * Checks] = Ret(IF defaultAllow THEN "allow" ELSE "eperm")
  BY ProgramLayout DEF FilterIInv
<1>3. /\ prog[1] = Load("arch") /\ prog[2] = Jeq("x86_64", 1, 0) /\ prog[3] = Ret("kill")
      /\ prog[4] = Load("nr") /\ prog[5] = Jset("x32", 0, 1) /\ prog[6] = Ret("kill")
  BY AtHand DEF FilterIInv
<1>4. ASSUME NEW k \in 0..Checks, at = 7 + 2 * k
      PROVE  \/ k < Checks /\ prog[at] = Jeq(Asked(k + 1), 0, 1)
             \/ k = Checks /\ prog[at] = Ret(IF defaultAllow THEN "allow" ELSE "eperm")
  <2>1. CASE k < Checks
    <3>1. k + 1 \in 1..Checks /\ 5 + 2 * (k + 1) = 7 + 2 * k
      BY <1>2, <2>1
    <3> QED
      BY <1>2, <1>4, <2>1, <3>1
  <2>2. CASE k = Checks
    BY <1>2, <1>4, <2>2
  <2> QED
    BY <1>2, <2>1, <2>2
<1>5. ASSUME NEW k \in 0..Checks, k < Checks, at = 8 + 2 * k
      PROVE  prog[at] = Ret(ActionOf(Denied, Noted, k + 1))
  <2>1. k + 1 \in 1..Checks /\ 6 + 2 * (k + 1) = 8 + 2 * k
    BY <1>2, <1>5
  <2> QED
    BY <1>2, <1>5, <2>1
<1>6. ASSUME UNCHANGED <<deny, notify, allow, defaultAllow, prog, call>>
      PROVE  /\ Static' /\ Meant' = Meant /\ Checks' = Checks /\ (Lawful' <=> Lawful)
             /\ \A k : Asked(k)' = Asked(k)
  BY <1>6 DEF FilterIInv, Static, Meant, Checks, Lawful, Asked, Check, Denied, Noted, Listed
<1>7. CASE Fetch
  <2>1. fate = "none" /\ prog[at].op = "ld" /\ acc' = prog[at].k /\ at' = at + 1 /\ fate' = fate
    BY <1>7 DEF Fetch, Running
  <2>2. UNCHANGED <<deny, notify, allow, defaultAllow, prog, call>>
    BY <1>7 DEF Fetch
  <2>3. \/ at = 1
        \/ at = 4 /\ call.arch = "x86_64"
    <3>1. ASSUME NEW k \in 0..Checks, at = 7 + 2 * k PROVE FALSE
      <4>1. \/ k < Checks /\ prog[at] = Jeq(Asked(k + 1), 0, 1)
            \/ k = Checks /\ prog[at] = Ret(IF defaultAllow THEN "allow" ELSE "eperm")
        BY <1>4, <3>1, Zenon
      <4> QED
        BY <2>1, <4>1 DEF Jeq, Ret
    <3>2. ASSUME NEW k \in 0..Checks, k < Checks, at = 8 + 2 * k PROVE FALSE
      <4>1. prog[at] = Ret(ActionOf(Denied, Noted, k + 1))
        BY <1>5, <3>2, Zenon
      <4> QED
        BY <2>1, <4>1 DEF Ret
    <3> QED
      BY <1>3, <2>1, <3>1, <3>2 DEF FilterIInv, Reached, Load, Jeq, Jset, Ret
  <2>4. CASE at = 1
    <3>1. acc' = "arch" /\ at' = 2
      BY <1>3, <2>1, <2>4 DEF Load
    <3> QED
      BY <1>6, <2>1, <2>2, <3>1 DEF FilterIInv, Reached, DecidesAsMeant
  <2>5. CASE at = 4 /\ call.arch = "x86_64"
    <3>1. acc' = "nr" /\ at' = 5 /\ call'.arch = "x86_64"
      BY <1>3, <2>1, <2>2, <2>5 DEF Load
    <3> QED
      BY <1>6, <2>1, <2>2, <3>1 DEF FilterIInv, Reached, DecidesAsMeant
  <2> QED
    BY <2>3, <2>4, <2>5
<1>8. CASE Jump
  <2>1. /\ fate = "none" /\ fate' = fate /\ acc' = acc
        /\ prog[at].op \in {"jeq", "jset"}
        /\ at' = at + 1 + (IF (IF prog[at].op = "jset" THEN call.x32 ELSE Matches(prog[at].k))
                             THEN prog[at].jt ELSE prog[at].jf)
    BY <1>8 DEF Jump, Running
  <2>2. UNCHANGED <<deny, notify, allow, defaultAllow, prog, call>>
    BY <1>8 DEF Jump
  <2>3. \/ at = 2 /\ acc = "arch"
        \/ at = 5 /\ call.arch = "x86_64" /\ acc = "nr"
        \/ /\ Lawful /\ acc = "nr"
           /\ \E k \in 0..Checks : (\A j \in 1..k : Asked(j) # call.nr) /\ at = 7 + 2 * k
    <3>1. ASSUME NEW k \in 0..Checks, k < Checks, at = 8 + 2 * k PROVE FALSE
      <4>1. prog[at] = Ret(ActionOf(Denied, Noted, k + 1))
        BY <1>5, <3>1, Zenon
      <4> QED
        BY <2>1, <4>1 DEF Ret
    <3> QED
      BY <1>3, <2>1, <3>1 DEF FilterIInv, Reached, Load, Ret
  <2>4. CASE at = 2 /\ acc = "arch"
    <3>1. at' = IF call.arch = "x86_64" THEN 4 ELSE 3
      BY <1>3, <2>1, <2>4 DEF Jeq, Matches
    <3>2. Reached'
      BY <2>2, <3>1 DEF Reached
    <3> QED
      BY <1>6, <2>1, <2>2, <3>2 DEF FilterIInv, DecidesAsMeant
  <2>5. CASE at = 5 /\ call.arch = "x86_64" /\ acc = "nr"
    <3>1. at' = IF call.x32 THEN 6 ELSE 7
      BY <1>3, <2>1, <2>5 DEF Jset
    <3>2. CASE call.x32
      <4>1. Reached'
        BY <2>2, <3>1, <3>2 DEF Reached
      <4> QED
        BY <1>6, <2>1, <2>2, <4>1 DEF FilterIInv, DecidesAsMeant
    <3>3. CASE ~call.x32
      <4>1. Lawful' /\ acc' = "nr" /\ at' = 7 + 2 * 0
        BY <1>6, <2>1, <2>2, <2>5, <3>1, <3>3 DEF Lawful
      <4>2. 0 \in 0..Checks' /\ \A j \in 1..0 : Asked(j)' # call'.nr
        BY <1>2, <1>6, <2>2
      <4>3. Reached'
        BY <4>1, <4>2 DEF Reached
      <4> QED
        BY <1>6, <2>1, <2>2, <4>3 DEF FilterIInv, DecidesAsMeant
    <3> QED
      BY <3>2, <3>3
  <2>6. ASSUME Lawful, acc = "nr",
               NEW k \in 0..Checks, \A j \in 1..k : Asked(j) # call.nr, at = 7 + 2 * k
        PROVE  FilterIInv'
    <3>1. k < Checks /\ prog[at] = Jeq(Asked(k + 1), 0, 1)
      BY <1>4, <2>1, <2>6 DEF Ret
    <3>2. at' = IF call.nr = Asked(k + 1) THEN 8 + 2 * k ELSE 7 + 2 * (k + 1)
      BY <2>1, <2>6, <3>1 DEF Jeq, Matches, Lawful
    <3>3. Lawful' /\ acc' = "nr" /\ Checks' = Checks /\ call' = call
      BY <1>6, <2>1, <2>2, <2>6
    <3>4. \A j : Asked(j)' = Asked(j)
      BY <1>6, <2>2
    <3>5. CASE call.nr = Asked(k + 1)
      <4>1. k < Checks' /\ at' = 8 + 2 * k /\ Asked(k + 1)' = call'.nr
        BY <3>1, <3>2, <3>3, <3>4, <3>5
      <4>2. k \in 0..Checks' /\ \A j \in 1..k : Asked(j)' # call'.nr
        BY <2>6, <3>3, <3>4
      <4>3. Reached'
        BY <3>3, <4>1, <4>2 DEF Reached
      <4> QED
        BY <1>6, <2>1, <2>2, <4>3 DEF FilterIInv, DecidesAsMeant
    <3>6. CASE call.nr # Asked(k + 1)
      <4>1. at' = 7 + 2 * (k + 1)
        BY <3>2, <3>6
      <4>2. k + 1 \in 0..Checks' /\ \A j \in 1..k + 1 : Asked(j)' # call'.nr
        BY <1>2, <2>6, <3>1, <3>3, <3>4, <3>6
      <4>3. Reached'
        BY <3>3, <4>1, <4>2 DEF Reached
      <4> QED
        BY <1>6, <2>1, <2>2, <4>3 DEF FilterIInv, DecidesAsMeant
    <3> QED
      BY <3>5, <3>6
  <2> QED
    BY <2>3, <2>4, <2>5, <2>6
<1>9. CASE Return
  <2>1. fate = "none" /\ prog[at].op = "ret" /\ fate' = prog[at].k /\ at' = at /\ acc' = acc
    BY <1>9 DEF Return, Running
  <2>2. UNCHANGED <<deny, notify, allow, defaultAllow, prog, call>>
    BY <1>9 DEF Return
  <2>3. fate' = Meant /\ fate' \in Actions
    <3>1. CASE at = 3 /\ call.arch # "x86_64"
      BY <1>3, <2>1, <3>1 DEF Ret, Meant, Actions
    <3>2. CASE at = 6 /\ call.x32
      BY <1>3, <2>1, <3>2 DEF Ret, Meant, Actions
    <3>3. ASSUME Lawful, NEW k \in 0..Checks, \A j \in 1..k : Asked(j) # call.nr,
                 at = 7 + 2 * k
          PROVE  fate' = Meant /\ fate' \in Actions
      <4>1. k = Checks /\ prog[at] = Ret(IF defaultAllow THEN "allow" ELSE "eperm")
        <5>1. \/ k < Checks /\ prog[at] = Jeq(Asked(k + 1), 0, 1)
              \/ k = Checks /\ prog[at] = Ret(IF defaultAllow THEN "allow" ELSE "eperm")
          BY <1>4, <3>3, Zenon
        <5> QED
          BY <2>1, <5>1 DEF Jeq
      <4>2. fate' = IF defaultAllow THEN "allow" ELSE "eperm"
        BY <2>1, <4>1 DEF Ret
      <4>3. (IF defaultAllow THEN "allow" ELSE "eperm") = Meant
        BY <3>3, <4>1, UnlistedIsMeant DEF FilterIInv
      <4> QED
        BY <4>2, <4>3 DEF Actions
    <3>4. ASSUME Lawful, NEW k \in 0..Checks, \A j \in 1..k : Asked(j) # call.nr,
                 k < Checks, at = 8 + 2 * k, Asked(k + 1) = call.nr
          PROVE  fate' = Meant /\ fate' \in Actions
      <4>1. fate' = ActionOf(Denied, Noted, k + 1)
        <5>1. prog[at] = Ret(ActionOf(Denied, Noted, k + 1))
          BY <1>5, <3>4, Zenon
        <5> QED
          BY <2>1, <5>1 DEF Ret
      <4>2. k + 1 \in 1..Checks /\ k + 1 - 1 = k
        BY <1>2, <3>4
      <4>3. ActionOf(Denied, Noted, k + 1) = Meant
        BY <3>4, <4>2, AnswerIsMeant DEF FilterIInv
      <4> QED
        BY <4>1, <4>3 DEF ActionOf, Actions
    <3> QED
      BY <1>3, <2>1, <3>1, <3>2, <3>3, <3>4 DEF FilterIInv, Reached, Load, Jeq, Jset
  <2>4. Reached'
    BY <1>6, <2>1, <2>2 DEF FilterIInv, Reached
  <2> QED
    BY <1>6, <2>1, <2>2, <2>3, <2>4 DEF FilterIInv, DecidesAsMeant
<1> QED
  BY <1>1, <1>7, <1>8, <1>9 DEF FilterNext

\* So it always holds.
LEMMA FilterInvariant == FilterSpec => []FilterIInv
BY FilterInitIInv, FilterNextIInv, PTL DEF FilterSpec

\* It has the types, and every place reached is in the program.
LEMMA FilterIInvTypeOK == FilterIInv => FilterTypeOK
<1> SUFFICES ASSUME FilterIInv PROVE at \in DOMAIN prog
  BY DEF FilterIInv, Static, FilterTypeOK, Actions
<1>1. Checks \in Nat /\ DOMAIN prog = 1..7 + 2 * Checks
  BY ProgramLayout DEF FilterIInv
<1> QED
  BY <1>1 DEF FilterIInv, Reached

\* Type correctness, and no jump of the assembled program leaves it, however long the
\* classes are (Filter.FilterTypeOK).
THEOREM FilterTypes == FilterSpec => []FilterTypeOK
BY FilterInvariant, FilterIInvTypeOK, PTL

\* The program decides every call as its class says, deny first, then notify, then allow,
\* whatever numbers the classes share or repeat (Filter.DecidesAsMeant).
THEOREM FilterDecides == FilterSpec => []DecidesAsMeant
<1>1. FilterIInv => DecidesAsMeant
  BY DEF FilterIInv
<1> QED
  BY <1>1, FilterInvariant, PTL

\* Under a strict allowlist a notified number of the one ABI reaches the monitor
\* (Filter.NotifiedIsSeen).
THEOREM FilterNotifies == FilterSpec => []NotifiedIsSeen
<1>1. FilterIInv => NotifiedIsSeen
  BY DEF FilterIInv, Static, DecidesAsMeant, NotifiedIsSeen, Meant
<1> QED
  BY <1>1, FilterInvariant, PTL

=============================================================================
