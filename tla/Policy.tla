------------------------------- MODULE Policy -------------------------------
(***************************************************************************)
(* The policy engine (policy.py): one parked call is judged on what the     *)
(* monitor read of its arguments, and what is let through changes what the  *)
(* payload's next call may build on.  A path stands for what the rules tell *)
(* apart: the prefixes that cover it, whether a SENSITIVE_PATTERN matches,  *)
(* whether its last name is one of EXFIL_TOOLS.  The payload has one socket.*)
(***************************************************************************)
EXTENDS Naturals

CONSTANT None  \* what could not be read or resolved, or is not there

ASSUME NoneAssumption == None # "inet"

VARIABLES
    profile,       \* the policy of the session
    domain, peer,  \* the payload's socket, and the host it is connected to
    sent,          \* the host that took what was last sent on it
    unjudged,      \* the kernel took a host for it that the monitor has not judged
    request,       \* the parked call, as the monitor sees it
    verdict        \* what judge() returned for it

socket == <<domain, peer, sent, unjudged>>
vars   == <<profile, socket, request, verdict>>

-----------------------------------------------------------------------------
(* Paths, addresses and profiles.                                           *)

\* The prefixes, by who may read and write below them: scratch is /work and /tmp,
\* device /dev/null and /proc/self/fd, terminal /dev/tty, system what paranoid may
\* read too, config the rest of DEFAULT_READ_PREFIXES.  A relative name is outside.
Zones == {"scratch", "device", "terminal", "system", "config", "outside"}
Paths == [zone : Zones, secret : BOOLEAN, tool : BOOLEAN]
Files == {f \in Paths : ~f.tool}

\* The hosts that the kernel may be made to send to.
Hosts == {"local", "remote"}

\* What parse_sockaddr makes of the bytes: an address cut short has a family and
\* no host, one that could not be read has no family; None is the abstract name.
Addresses ==
    [family : {"inet"}, host : Hosts \cup {None}]
      \cup [family : {"unix"}, path : Files \cup {None}]
      \cup [family : {"netlink", "other", None}]

Everywhere == Zones \ {"outside"}
Writable   == {"scratch", "device", "terminal"}

Strict == [allow_network |-> FALSE, allow_loopback |-> FALSE, allow_exec |-> TRUE,
           reads |-> Everywhere, writes |-> Writable]

\* Mutant of Profiles: paranoid leaves allow_loopback at its default.
ProfilesByDefault ==
    [strict   |-> Strict,
     loopback |-> [Strict EXCEPT !.allow_loopback = TRUE],
     observe  |-> [Strict EXCEPT !.allow_loopback = TRUE, !.allow_network = TRUE],
     paranoid |-> [Strict EXCEPT !.allow_loopback = TRUE, !.allow_exec = FALSE,
                                 !.reads = {"scratch", "device", "system"}]]

Profiles ==
    [strict   |-> Strict,
     loopback |-> [Strict EXCEPT !.allow_loopback = TRUE],
     observe  |-> [Strict EXCEPT !.allow_loopback = TRUE, !.allow_network = TRUE],
     paranoid |-> [Strict EXCEPT !.allow_exec = FALSE, !.reads = {"scratch", "device", "system"}]]

-----------------------------------------------------------------------------
(* The rules.                                                               *)

Verdict(s, r) == [severity |-> s, rule |-> r]
Allow(r)      == Verdict("info", r)
Watch(r)      == Verdict("suspicious", r)
Violation(r)  == Verdict("violation", r)

Name(raw, resolved) == [raw |-> raw, resolved |-> resolved]

\* Mutant of OpenSees: a relative name goes on as it was given.
OpenSeesAsGiven(r) == Name(r.text, r.root)

\* The two names that the handlers go by.  An open joins a relative name to the
\* caller's directory, where that can be read; the others take the name as given, and
\* what they resolve from the root of the sandbox is a relative name as well.
OpenSees(r) == IF r.joined = None THEN Name(r.text, r.root) ELSE Name(r.joined, r.here)
OtherSees(r) == Name(r.text, r.root)

Effective(raw, resolved) == IF resolved # None THEN resolved ELSE raw

\* Mutant of JudgePath: the permitted prefixes before the patterns.
JudgePathPrefixFirst(p, raw, resolved, write) ==
    LET path == Effective(raw, resolved)
    IN  CASE raw = None  -> Violation("path.unreadable")
          [] raw # None /\ path.zone \in (IF write THEN p.writes ELSE p.reads) -> Allow("path.allowed")
          [] OTHER -> Violation("path.outside_allowlist")

\* Mutant of JudgePath: the patterns see the name that the payload gave.
JudgePathByName(p, raw, resolved, write) ==
    CASE raw = None -> Violation("path.unreadable")
      [] raw # None /\ raw.secret -> Violation("path.sensitive")
      [] OTHER -> IF Effective(raw, resolved).zone \in (IF write THEN p.writes ELSE p.reads)
                    THEN Allow("path.allowed") ELSE Violation("path.outside_allowlist")

JudgePath(p, raw, resolved, write) ==
    LET path == Effective(raw, resolved)
    IN  CASE raw = None -> Violation("path.unreadable")
          [] raw # None /\ path.secret -> Violation("path.sensitive")
          [] OTHER -> IF path.zone \in (IF write THEN p.writes ELSE p.reads)
                        THEN Allow("path.allowed") ELSE Violation("path.outside_allowlist")

\* A tool is surfaced wherever it lies, before its place is looked at.
JudgeExec(p, path) ==
    CASE path = None      -> Violation("exec.unreadable")
      [] path # None /\ ~p.allow_exec -> Violation("exec.denied")
      [] path # None /\ p.allow_exec /\ path.tool -> Watch("exec.exfil_tool")
      [] OTHER -> IF path.zone \in p.reads THEN Allow("exec.ok")
                                           ELSE Violation("exec.outside_allowlist")

JudgeSocket(p, d, raw) ==
    CASE d = "packet" \/ raw -> Violation("socket.raw")
      [] d # "inet" /\ d # "packet" /\ ~raw -> Allow("socket.local")
      [] OTHER -> IF p.allow_network \/ p.allow_loopback
                    THEN Watch("socket.network_created") ELSE Violation("socket.network_denied")

IsLocal(host) == host = "local"

JudgeEndpoint(p, a) ==
    CASE a.family = None -> Violation("endpoint.unreadable")
      [] a.family = "unix" ->
            CASE a.path = None -> Allow("endpoint.unix_local")
              [] a.path # None /\ a.path.secret -> Violation("endpoint.unix_sensitive")
              [] OTHER -> IF a.path.zone = "scratch" THEN Allow("endpoint.unix_local")
                                                     ELSE Violation("endpoint.unix_outside")
      [] a.family = "inet" ->
            CASE IsLocal(a.host) -> IF p.allow_loopback THEN Allow("endpoint.loopback")
                                                        ELSE Violation("endpoint.loopback_denied")
              [] OTHER -> IF p.allow_network THEN Watch("endpoint.remote_allowed")
                                             ELSE Violation("endpoint.egress")
      [] a.family = "netlink" -> Allow("endpoint.netlink")
      [] OTHER -> Violation("endpoint.unknown_family")

\* Mutant of JudgeSend: a destination is not looked at, as on a connected socket.
JudgeSendConnected(p, header, a) ==
    IF header THEN Allow("sendto.connected") ELSE Violation("sendmsg.unreadable")

\* No destination, or a message without a name: connect() has judged it.
JudgeSend(p, header, a) ==
    CASE ~header             -> Violation("sendmsg.unreadable")
      [] header /\ a = None  -> Allow("sendto.connected")
      [] OTHER               -> JudgeEndpoint(p, a)

JudgeBind(p, a) ==
    IF a.family = "inet" /\ ~p.allow_network THEN Violation("bind.listener") ELSE Allow("bind.ok")

\* The first argument is taken for flags, whichever of the four calls it is.
JudgeClone(bits) ==
    IF bits THEN Violation("clone.new_namespace") ELSE Allow("clone.ordinary")

JudgeMemfd == Watch("memfd.created")

MoveOps == {"unlink", "rename", "renameat"}

\* judge(): the escape set first, then a handler, and no handler means allowed.
Judge(p, r) ==
    CASE r.op = "escape"  -> Violation("escape")
      [] r.op = "open"    -> JudgePath(p, OpenSees(r).raw, OpenSees(r).resolved, r.write)
      [] r.op \in MoveOps -> JudgePath(p, OtherSees(r).raw, OtherSees(r).resolved, TRUE)
      [] r.op = "exec"    -> JudgeExec(p, Effective(OtherSees(r).raw, OtherSees(r).resolved))
      [] r.op = "socket"  -> JudgeSocket(p, r.domain, r.isRaw)
      [] r.op = "connect" -> JudgeEndpoint(p, r.address)
      [] r.op = "send"    -> JudgeSend(p, r.header, r.address)
      [] r.op = "bind"    -> JudgeBind(p, r.address)
      [] r.op = "spawn"   -> JudgeClone(r.bits)
      [] r.op = "memfd"   -> JudgeMemfd
      [] OTHER            -> Allow("unclassified")

-----------------------------------------------------------------------------
(* Calls.                                                                   *)

\* A name as given (text), what it leads to from the root of the sandbox (root), as the
\* handler joins it to the caller's directory (joined) and what it leads to then (here);
\* each None where it cannot be read or found.  An absolute name needs no joining.
Unread      == [text |-> None, absolute |-> FALSE, root |-> None]
Absolute(S) == [text : S, absolute : {TRUE}, root : S \cup {None}]
Relative(S) == [text : {f \in S : f.zone = "outside"}, absolute : {FALSE}, root : S \cup {None}]
Given(S)    == {Unread} \cup Absolute(S) \cup Relative(S)

\* Where joined leads somewhere its own class decides nothing, and is that of here.
JoinedTo(n) ==
    CASE n.absolute    -> {[joined |-> n.text, here |-> n.root]}
      [] n.text = None -> {[joined |-> None, here |-> None]}
      [] OTHER         -> {[joined |-> f, here |-> h] : f \in Files, h \in {None}}
                            \cup {[joined |-> h, here |-> h] : h \in Files \cup {None}}

\* For openat2 the flags are behind a pointer: what is written, and whether the last link
\* is followed, is then judged by the bits of the pointer.
Opens     == UNION {{[op |-> "open", text |-> n.text, absolute |-> n.absolute, root |-> n.root,
                      joined |-> j.joined, here |-> j.here, write |-> w] :
                         j \in JoinedTo(n), w \in BOOLEAN} : n \in Given(Files)}

\* renameat and renameat2 are judged as rename is, on their first argument: it holds a
\* descriptor, and what lies at that address is seldom a name.
Moves     == {[op |-> o, text |-> n.text, absolute |-> n.absolute, root |-> n.root] :
                 o \in MoveOps, n \in Given(Files)}
Execs     == {[op |-> "exec", text |-> n.text, absolute |-> n.absolute, root |-> n.root] :
                 n \in Given(Paths)}
Sockets   == [op : {"socket"}, domain : {"unix", "inet", "packet", "netlink", "other"}, isRaw : BOOLEAN]
Endpoints == [op : {"connect", "bind"}, address : Addresses]
Sends     == [op : {"send"}, header : BOOLEAN, address : Addresses \cup {None}]
Plain     == [op : {"memfd", "escape", "unlisted"}]

\* Whether the first argument has a bit of a namespace flag: clone's are its flags;
\* clone3's is a pointer, and fork and vfork have none, the register holds what it held.
Spawns    == [op : {"spawn"}, bits : BOOLEAN]

Requests == Opens \cup Moves \cup Execs \cup Sockets \cup Endpoints \cup Sends \cup Plain \cup Spawns

Init ==
    /\ profile \in DOMAIN Profiles
    /\ domain = None /\ peer = None /\ sent = None /\ unjudged = FALSE
    /\ request = None /\ verdict = None

\* The payload makes a call of the notified classes, and is parked in it.
Call ==
    /\ request = None
    /\ request' \in Requests
    /\ UNCHANGED <<profile, socket, verdict>>

Decide ==
    /\ request # None /\ verdict = None
    /\ verdict' = Judge(Profiles[profile], request)
    /\ UNCHANGED <<profile, socket, request>>

Refused  == verdict.severity = "violation"
Answered == request' = None /\ verdict' = None /\ UNCHANGED profile

\* The host of the judged address, where it has one.
Judged(h) == request.address # None /\ request.address.family = "inet" /\ request.address.host = h

\* The kernel reads the address again after the answer, and another thread may have
\* written a new one since: it takes any, and what it takes may be unjudged.
Takes(h) ==
    /\ domain = "inet"
    /\ unjudged' = (unjudged \/ ~Judged(h))
    /\ UNCHANGED domain

Opened ==
    /\ request.op = "socket"
    /\ domain' = request.domain
    /\ peer' = None /\ sent' = None /\ unjudged' = FALSE

Connected(h) == request.op = "connect" /\ Takes(h) /\ peer' = h /\ UNCHANGED sent
SentTo(h)    == request.op = "send" /\ Takes(h) /\ sent' = h /\ UNCHANGED peer
SentOn       == request.op = "send" /\ peer # None /\ sent' = peer /\ UNCHANGED <<domain, peer, unjudged>>

\* The kernel performs a call that was let through; it may still fail.
Perform ==
    /\ verdict # None /\ ~Refused
    /\ \/ UNCHANGED socket
       \/ Opened
       \/ \E h \in Hosts : Connected(h) \/ SentTo(h)
       \/ SentOn
    /\ Answered

\* A violation is answered EPERM when the policy does not freeze or the freezer
\* failed; otherwise the call stays parked for good, which Containment is about.
Refuse ==
    /\ verdict # None /\ Refused
    /\ UNCHANGED socket
    /\ Answered

\* sendmmsg is in BASELINE_ALLOW and not in NOTIFY: its addresses are not judged.
SendMany(h) ==
    /\ domain = "inet"
    /\ sent' = h /\ unjudged' = TRUE
    /\ UNCHANGED <<profile, domain, peer, request, verdict>>

Next == Call \/ Decide \/ Perform \/ Refuse \/ \E h \in Hosts : SendMany(h)

Spec == Init /\ [][Next]_vars

-----------------------------------------------------------------------------
(* Properties.                                                              *)

\* Every variable has its type: in particular judge() returns one of its three
\* severities for every call of every class.
TypeOK ==
    /\ profile \in DOMAIN Profiles
    /\ domain \in {None, "unix", "inet", "netlink", "other"}
    /\ {peer, sent} \subseteq Hosts \cup {None}
    /\ unjudged \in BOOLEAN
    /\ request \in Requests \cup {None}
    /\ verdict # None => verdict.severity \in {"info", "suspicious", "violation"}

Rank(s) == CASE s = "info" -> 0 [] s = "violation" -> 2 [] OTHER -> 1

\* The profiles are nested: no call is judged milder by a profile than by the more
\* permissive ones, which the order of strictness of policy.py:796-816 promises.
ProfilesNest ==
    request # None =>
        LET severity(name) == Rank(Judge(Profiles[name], request).severity)
        IN  /\ severity("observe") <= severity("loopback")
            /\ severity("loopback") <= severity("strict")
            /\ severity("strict") <= severity("paranoid")

\* What a name leads to, or the name where nothing is found: an open's from the caller's
\* directory, with ".." folded; None for a relative name where the handler looks elsewhere.
Target(r) ==
    CASE r.op = "open" -> Effective(r.joined, r.here)
      [] r.op # "open" /\ r.absolute -> Effective(r.text, r.root)
      [] OTHER -> None

\* The call by the plain absolute name f instead.
ByName(r, f) ==
    IF r.op = "open" THEN [r EXCEPT !.text = f, !.absolute = TRUE, !.root = f, !.joined = f, !.here = f]
                     ELSE [r EXCEPT !.text = f, !.absolute = TRUE, !.root = f]

\* "The decision is made on the resolved target" (policy.py:528-531): an open by any
\* name, relative or not, and the absolute name of an unlink, of a rename's source or of a
\* program are judged as the plain name of what they lead to.  A relative name is
\* joined by the opens only (policy.py:558-595, against 597-610 and 785-793).
ResolvedDecides ==
    verdict # None /\ request.op \in {"open", "unlink", "rename", "exec"} =>
        LET target == Target(request)
        IN  target # None /\ request.text # None
              => verdict = Judge(Profiles[profile], ByName(request, target))

\* A sensitive target is always a violation (policy.py:536-540), under every profile,
\* for what is opened, by any name, for what an absolute name unlinks or renames, and
\* for the path that an address gives.  It is not asked of what is executed or bound,
\* of where a rename leads or of a relative name elsewhere, where no handler looks.
SecretsNever ==
    verdict # None /\ ~Refused =>
        /\ request.op \in {"open", "unlink", "rename"} =>
              Target(request) = None \/ ~Target(request).secret
        /\ request.op \in {"connect", "send"} =>
              (request.address # None /\ request.address.family = "unix"
                 => request.address.path = None \/ ~request.address.path.secret)

\* What the policy of the session lets the payload reach on the network.
Granted(h) ==
    h # None => IF h = "local" THEN Profiles[profile].allow_loopback
                               ELSE Profiles[profile].allow_network

\* Over a whole run of calls: without the network and loopback there is no socket to
\* send on, whatever is written over an address after it was judged (HARDENING.md:43-45)
\* and although sendmmsg is not judged; otherwise, while the kernel took no address but
\* the judged ones, the socket is connected to nothing, and nothing went, where the
\* profile does not grant it.  A send without a destination rests on the connect()
\* before it (policy.py:730-733).
NothingLeaves ==
    /\ domain = "inet" \/ {peer, sent} # {None}
         => Profiles[profile].allow_network \/ Profiles[profile].allow_loopback
    /\ ~unjudged => Granted(peer) /\ Granted(sent)

=============================================================================
