-------------------------------- MODULE Clients --------------------------------
(***************************************************************************)
(* The dashboard's WebSocket clients: broadcast() of web.py from several    *)
(* threads under one lock, the handler thread that answers the upgrade and  *)
(* registers the connection, and wsclient.WSEvents at the other end of a    *)
(* byte stream that breaks where it likes.                                  *)
(*                                                                          *)
(* Bytes are numbers.  A length below L7 fits the second byte of a frame;    *)
(* one that Narrow more bytes can hold takes these, any other Wide (126, 256, *)
(* 2 and 8 in the code); every byte of a message's text is its number.       *)
(* The handler's replay sends nothing: nobody publishes to the bus that it  *)
(* reads (web.py:543).                                                      *)
(***************************************************************************)
EXTENDS Naturals, Sequences, FiniteSets, SequencesExt

CONSTANTS
    Threads,      \* threads that broadcast: sessions and their pumps
    Peers,        \* connections
    Stalling,     \* the peers that may stop reading
    L7, Base,     \* the frame format: the first length that is not short; a byte's values
    Narrow, Wide, \* the bytes of a middle and of a long length
    Answered,     \* bytes of the answer to the upgrade,
    Accepted,     \* and of its first line as far as the 101
    Room,         \* bytes that a connection's buffers hold
    Sizes,        \* lengths of messages
    MaxMessages   \* bound: messages broadcast

VARIABLES
    made,     \* history: the sizes of the messages made, by number
    message,  \* the message that a thread is in broadcast() with
    pc,       \* a broadcasting thread: "idle", "lock", "send"
    lock,     \* who holds DashboardState.lock: nobody ({}) or a thread
    clients,  \* DashboardState.clients
    todo,     \* the clients that the holder of the lock has still to serve
    left,     \* the bytes of its frame that the first of them has not been sent
    failed,   \* the clients whose sendall raised in this broadcast
    handler,  \* a connection's handler thread: "none", "answered", "parked", "done"
    peer,     \* the client: "asked" for the upgrade, "open", "closed"
    wire,     \* bytes on their way to the client
    buf,      \* WSEvents: bytes read and not yet decoded
    told,     \* WSEvents: the messages yielded
    lost,     \* what connect() took beside the answer: "nothing", whole "frames", or
              \* so much that the boundaries are lost ("sync"): part of a frame, or too little
    joined,   \* history: messages broadcast before the client was registered
    log       \* history: the messages in the order of the lock

server == <<made, message, pc, lock, clients, todo, left, failed, log>>
vars   == <<server, handler, peer, wire, buf, told, lost, joined>>

\* The answer to the upgrade: its bytes are never a message's.
ANSWER == [i \in 1..Answered |-> 0]

-----------------------------------------------------------------------------
(* Frames.                                                                  *)

\* n shifted right by i bytes, for every i up to k.
Shifts(n, k) == LET q[i \in 0..k] == IF i = 0 THEN n ELSE q[i - 1] \div Base IN q

\* Whether k bytes can hold n, and the bytes, the first being the highest.
Fits(n, k)   == Shifts(n, k)[k] = 0
Digits(n, k) == [i \in 1..k |-> Shifts(n, k)[k - i] % Base]

Number(ds) ==
    LET v[i \in 0..Len(ds)] == IF i = 0 THEN 0 ELSE v[i - 1] * Base + ds[i]
    IN  v[Len(ds)]

\* FIN and opcode 1, then the length in one of three forms.
Header(n) ==
    <<1>> \o (IF n < L7 THEN <<n>>
              ELSE IF Fits(n, Narrow) THEN <<L7>> \o Digits(n, Narrow) ELSE <<L7 + 1>> \o Digits(n, Wide))

\* The text of message m, of n bytes, and its frame.
Text(n, m)  == [i \in 1..n |-> m]
Frame(n, m) == Header(n) \o Text(n, m)

ASSUME ClientsAssumption ==
    /\ Stalling \subseteq Peers
    /\ L7 \in Nat /\ Base \in Nat \ {0, 1} /\ Narrow \in Nat \ {0} /\ Wide \in Nat
    /\ Fits(L7, Narrow) /\ Narrow < Wide
    /\ Accepted \in Nat \ {0} /\ Answered \in Nat /\ Room \in Nat /\ Accepted <= Answered /\ Answered <= Room
    /\ Sizes \subseteq Nat \ {0} /\ MaxMessages \in Nat
    /\ \A n \in Sizes : Fits(n, Wide)

HeadLen(b) == IF b[2] = L7 THEN 2 + Narrow ELSE IF b[2] = L7 + 1 THEN 2 + Wide ELSE 2
TextLen(b) == IF HeadLen(b) = 2 THEN b[2] ELSE Number(SubSeq(b, 3, HeadLen(b)))

\* _decode_frame finds a whole frame at the start of b.
Complete(b) == Len(b) >= 2 /\ Len(b) >= HeadLen(b) /\ Len(b) >= HeadLen(b) + TextLen(b)
Payload(b)  == SubSeq(b, HeadLen(b) + 1, HeadLen(b) + TextLen(b))
Rest(b)     == SubSeq(b, HeadLen(b) + TextLen(b) + 1, Len(b))

\* What broadcast() makes of the m-th message.
FrameOf(m) == Frame(made[m], m)

\* json.loads: a payload that is the text of one message.
Parses(p) == p # <<>> /\ p[1] \in DOMAIN made /\ p = Text(made[p[1]], p[1])

-----------------------------------------------------------------------------

Init ==
    /\ made = <<>> /\ message = [t \in Threads |-> 0] /\ pc = [t \in Threads |-> "idle"]
    /\ lock = {} /\ clients = <<>> /\ todo = <<>> /\ left = <<>> /\ failed = {}
    /\ handler = [c \in Peers |-> "none"] /\ peer = [c \in Peers |-> "asked"]
    /\ wire = [c \in Peers |-> <<>>] /\ buf = [c \in Peers |-> <<>>]
    /\ told = [c \in Peers |-> <<>>] /\ lost = [c \in Peers |-> "nothing"]
    /\ joined = [c \in Peers |-> 0] /\ log = <<>>

(* broadcast().                                                             *)

Broadcast(t) ==
    /\ pc[t] = "idle" /\ Len(made) < MaxMessages
    /\ \E n \in Sizes : made' = Append(made, n)
    /\ message' = [message EXCEPT ![t] = Len(made')]
    /\ pc' = [pc EXCEPT ![t] = "lock"]
    /\ UNCHANGED <<lock, clients, todo, left, failed, log, handler, peer, wire, buf, told, lost, joined>>

\* What a thread starts with once it may go through the list.
StartSending(t) ==
    /\ log' = Append(log, message[t])
    /\ todo' = clients /\ left' = IF clients = <<>> THEN <<>> ELSE FrameOf(message[t])
    /\ pc' = [pc EXCEPT ![t] = "send"]
    /\ UNCHANGED <<made, message, clients, failed, handler, peer, wire, buf, told, lost, joined>>

\* Mutant of Acquire: a broadcast does not wait for the one that is sending.
AcquireShared(t) == pc[t] = "lock" /\ lock' = {t} /\ StartSending(t)

Acquire(t) == pc[t] = "lock" /\ lock = {} /\ lock' = {t} /\ StartSending(t)

\* The holder is done with the first client of its list.
NextClient(t) ==
    /\ todo' = Tail(todo)
    /\ left' = IF Tail(todo) = <<>> THEN <<>> ELSE FrameOf(message[t])

\* sendall copies what fits into the connection's buffers, and waits for more room.
Send(t) ==
    /\ t \in lock /\ todo # <<>>
    /\ LET c == Head(todo)
           n == IF Len(left) < Room - Len(wire[c]) THEN Len(left) ELSE Room - Len(wire[c])
       IN  /\ peer[c] # "closed" /\ n > 0
           /\ wire' = [wire EXCEPT ![c] = @ \o SubSeq(left, 1, n)]
           /\ IF n = Len(left) THEN NextClient(t)
              ELSE left' = SubSeq(left, n + 1, Len(left)) /\ UNCHANGED todo
    /\ UNCHANGED <<made, message, pc, lock, clients, failed, log, handler, peer, buf, told, lost, joined>>

\* To a peer that is gone a first sendall may succeed; the next raises OSError.
SendGone(t) ==
    /\ t \in lock /\ todo # <<>> /\ peer[Head(todo)] = "closed"
    /\ failed' \in {failed, failed \cup {Head(todo)}}
    /\ NextClient(t)
    /\ UNCHANGED <<made, message, pc, lock, clients, log, handler, peer, wire, buf, told, lost, joined>>

\* The list without the clients in Gone.
Without(s, Gone) ==
    LET kept[i \in 0..Len(s)] ==
            IF i = 0 THEN <<>> ELSE IF s[i] \in Gone THEN kept[i - 1] ELSE Append(kept[i - 1], s[i])
    IN  kept[Len(s)]

\* Mutant of Release: remove_client, which takes the lock, called with it held.
ReleaseByRemove(t) ==
    /\ t \in lock /\ todo = <<>> /\ failed = {}
    /\ pc' = [pc EXCEPT ![t] = "idle"] /\ lock' = {}
    /\ message' = [message EXCEPT ![t] = 0]
    /\ UNCHANGED <<made, clients, todo, left, failed, log, handler, peer, wire, buf, told, lost, joined>>

\* The dead are taken off the list before the lock is released.
Release(t) ==
    /\ t \in lock /\ todo = <<>>
    /\ clients' = Without(clients, failed)
    /\ pc' = [pc EXCEPT ![t] = "idle"] /\ lock' = {} /\ failed' = {}
    /\ message' = [message EXCEPT ![t] = 0]
    /\ UNCHANGED <<made, todo, left, log, handler, peer, wire, buf, told, lost, joined>>

-----------------------------------------------------------------------------
(* The handler thread of a connection: _handle_ws().                        *)

\* The answer leaves, in one sendall, before the connection is on the list; where the
\* peer is gone it may raise, and then the connection never is.
Answer(c) ==
    /\ handler[c] = "none"
    /\ wire' = [wire EXCEPT ![c] = IF peer[c] = "closed" THEN <<>> ELSE ANSWER]
    /\ \E next \in {"answered", "done"} :
          /\ next = "done" => peer[c] = "closed"
          /\ handler' = [handler EXCEPT ![c] = next]
    /\ UNCHANGED <<server, peer, buf, told, lost, joined>>

\* add_client, under the lock.
AddClient(c) ==
    /\ handler[c] = "answered" /\ lock = {}
    /\ clients' = Append(clients, c) /\ joined' = [joined EXCEPT ![c] = IF peer[c] = "closed" THEN 0 ELSE Len(log)]
    /\ handler' = [handler EXCEPT ![c] = "parked"]
    /\ UNCHANGED <<made, message, pc, lock, todo, left, failed, log, peer, wire, buf, told, lost>>

\* Mutant of RemoveClient: only broadcast() takes clients off the list.
RemoveNobody(c) ==
    /\ handler[c] = "parked" /\ peer[c] = "closed" /\ lock = {}
    /\ handler' = [handler EXCEPT ![c] = "done"]
    /\ UNCHANGED <<server, peer, wire, buf, told, lost, joined>>

\* recv() has returned nothing or raised: remove_client, under the lock.
RemoveClient(c) ==
    /\ handler[c] = "parked" /\ peer[c] = "closed" /\ lock = {}
    /\ clients' = Without(clients, {c})
    /\ handler' = [handler EXCEPT ![c] = "done"]
    /\ UNCHANGED <<made, message, pc, lock, todo, left, failed, log, peer, wire, buf, told, lost, joined>>

-----------------------------------------------------------------------------
(* The client: WSEvents.                                                    *)

\* The frames of the messages in s, one after the other; sizes has their lengths.
Frames(sizes, s) ==
    LET f[i \in 0..Len(s)] == IF i = 0 THEN <<>> ELSE f[i - 1] \o Frame(sizes[s[i]], s[i])
    IN  f[Len(s)]

\* The bytes of the first k messages broadcast since the client was registered.
FirstFrames(c, k) == Frames(made, SubSeq(log, joined[c] + 1, joined[c] + k))

\* connect() reads the answer with one recv.  What comes with it is thrown away, whole
\* frames or the first part of one; what of it comes later is taken for frames.
Connect(c) ==
    /\ peer[c] = "asked"
    /\ \E n \in Accepted..Len(wire[c]) :
          /\ wire' = [wire EXCEPT ![c] = SubSeq(@, n + 1, Len(@))]
          /\ lost' = [lost EXCEPT ![c] =
                IF n = Answered THEN "nothing"
                ELSE IF n > Answered /\ \E k \in 1..Len(log) - joined[c] : n = Answered + Len(FirstFrames(c, k))
                     THEN "frames" ELSE "sync"]
    /\ peer' = [peer EXCEPT ![c] = "open"]
    /\ UNCHANGED <<server, handler, buf, told, joined>>

\* recv: some of the bytes on their way, once no whole frame is left in buf.  A
\* client that has lost the frame boundaries reads on, and what it makes of the
\* bytes is not followed any further.
Recv(c) ==
    /\ peer[c] = "open" /\ wire[c] # <<>> /\ ~Complete(buf[c])
    /\ \E n \in 1..Len(wire[c]) :
          /\ wire' = [wire EXCEPT ![c] = SubSeq(@, n + 1, Len(@))]
          /\ buf' = [buf EXCEPT ![c] = IF lost[c] = "sync" THEN @ ELSE @ \o SubSeq(wire[c], 1, n)]
    /\ UNCHANGED <<server, handler, peer, told, lost, joined>>

\* Mutant of Decode: what follows the first frame in buf is thrown away.
DecodeOnce(c) ==
    /\ peer[c] = "open" /\ Complete(buf[c])
    /\ told' = [told EXCEPT ![c] = IF Parses(Payload(buf[c])) THEN Append(@, Payload(buf[c])[1]) ELSE @]
    /\ buf' = [buf EXCEPT ![c] = <<>>]
    /\ UNCHANGED <<server, handler, peer, wire, lost, joined>>

\* _decode_frame, and the consumer's turn with a payload that is JSON.
Decode(c) ==
    /\ peer[c] = "open" /\ Complete(buf[c])
    /\ told' = [told EXCEPT ![c] = IF Parses(Payload(buf[c])) THEN Append(@, Payload(buf[c])[1]) ELSE @]
    /\ buf' = [buf EXCEPT ![c] = Rest(buf[c])]
    /\ UNCHANGED <<server, handler, peer, wire, lost, joined>>

\* The histories of a client that is gone are forgotten with its decoder.
Leaves(c) ==
    /\ peer' = [peer EXCEPT ![c] = "closed"]
    /\ wire' = [wire EXCEPT ![c] = <<>>] /\ buf' = [buf EXCEPT ![c] = <<>>]
    /\ told' = [told EXCEPT ![c] = <<>>] /\ lost' = [lost EXCEPT ![c] = "nothing"]
    /\ joined' = [joined EXCEPT ![c] = 0]
    /\ UNCHANGED <<server, handler>>

\* Too little of the first line came for a 101 to be in it: connect() raises.
Reject(c) == peer[c] = "asked" /\ wire[c] # <<>> /\ Accepted > 1 /\ Leaves(c)

\* The consumer is done, ten silent seconds have passed, or the client dies.
Close(c) == peer[c] \in {"asked", "open"} /\ Leaves(c)

Serve(t) == Acquire(t) \/ Send(t) \/ SendGone(t) \/ Release(t)
Handle(c) == Answer(c) \/ AddClient(c) \/ RemoveClient(c)
Consume(c) == Connect(c) \/ Reject(c) \/ Recv(c) \/ Decode(c)

Next ==
    \/ \E t \in Threads : Broadcast(t) \/ Serve(t)
    \/ \E c \in Peers : Handle(c) \/ Consume(c) \/ Close(c)

\* As long as one of the server's threads can get on, one does (it need not be the
\* same), and so does a client's loop, unless it is one that may stop reading.
Serving  == (\E t \in Threads : Serve(t)) \/ \E c \in Peers : Handle(c)
Reading  == \E c \in Peers \ Stalling : Consume(c)
Fairness == WF_vars(Serving) /\ WF_vars(Reading)

Spec == Init /\ [][Next]_vars
FairSpec == Spec /\ Fairness

-----------------------------------------------------------------------------
(* Properties.                                                              *)

\* Every variable has its type, buffers hold what they can, and no connection is
\* on the list twice.
TypeOK ==
    /\ made \in Seq(Sizes) /\ Len(made) <= MaxMessages
    /\ message \in [Threads -> 0..MaxMessages] /\ log \in Seq(1..MaxMessages)
    /\ pc \in [Threads -> {"idle", "lock", "send"}]
    /\ lock \subseteq Threads /\ failed \subseteq Peers
    /\ clients \in Seq(Peers) /\ IsInjective(clients) /\ todo \in Seq(Peers)
    /\ handler \in [Peers -> {"none", "answered", "parked", "done"}]
    /\ peer \in [Peers -> {"asked", "open", "closed"}]
    /\ lost \in [Peers -> {"nothing", "frames", "sync"}]
    /\ left \in Seq(Nat) /\ wire \in [Peers -> Seq(Nat)] /\ buf \in [Peers -> Seq(Nat)]
    /\ told \in [Peers -> Seq(1..MaxMessages)] /\ joined \in [Peers -> 0..Len(log)]
    /\ \A c \in Peers : Len(wire[c]) <= Room

\* What a client that connected in time is owed: all messages since it was
\* registered, in the one order of the lock.
Owed(c) == SubSeq(log, joined[c] + 1, Len(log))

\* Every client sees the same feed: what it is told is a gapless beginning of what
\* it is owed, or, where connect() threw whole frames away, a gapless later part of
\* it, however the bytes are cut, whichever threads broadcast and whoever dies
\* (broadcast() holds the lock through every sendall, web.py:169-178).  Nothing is said
\* of a client whose one recv took too little of the answer, or part of a frame.
SameFeed ==
    \A c \in Peers :
        /\ lost[c] = "nothing" => IsPrefix(told[c], Owed(c))
        /\ lost[c] = "frames" => \E k \in 1..Len(Owed(c)) :
                                     IsPrefix(told[c], SubSeq(Owed(c), k + 1, Len(Owed(c))))

\* When every broadcast is over and a client has read what was on its way, nothing
\* that it was owed is missing and nothing is left in its decoder, where connect() took
\* the answer whole and nothing else (wsclient.py:84).
NothingLeftBehind ==
    \A c \in Peers :
        (/\ lock = {} /\ peer[c] = "open" /\ handler[c] = "parked" /\ lost[c] = "nothing"
         /\ wire[c] = <<>> /\ ~Complete(buf[c]))
            => told[c] = Owed(c) /\ buf[c] = <<>>

\* A peer that has stopped reading, with its buffers full.
HoldsUp(c) == c \in Stalling /\ c \in ToSet(todo) /\ peer[c] # "closed" /\ Len(wire[c]) = Room

\* Nothing but a peer that stopped reading holds up a broadcast, and with it every
\* thread that wants the lock: not a dead one, not one that is being removed.
BroadcastEnds == (lock # {}) ~> (lock = {} \/ \E c \in Stalling : HoldsUp(c))

\* A connection that is gone does not stay on the list for ever, although nothing
\* may be broadcast any more.
GoneIsForgotten ==
    \A c \in Peers : (peer[c] = "closed") ~> (c \notin ToSet(clients) \/ \E d \in Stalling : HoldsUp(d))

=============================================================================
