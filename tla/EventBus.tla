------------------------------- MODULE EventBus -------------------------------
(***************************************************************************)
(* events.py: the fan-out from the threads of a session (the monitor and    *)
(* Session.run) to its readers, each behind a queue.Queue of its own, and   *)
(* the loops that empty those queues: cli.py's printer, which reads on      *)
(* until its queue is empty, and the pumps of helper.py and web.py, which   *)
(* stop at the first look at their stop flag.  A Queue's methods are atomic;*)
(* publish() is not, so publishers interleave between them.                 *)
(***************************************************************************)
EXTENDS Naturals, Sequences, FiniteSets, SequencesExt

CONSTANTS
    Publishers,  \* threads that emit
    Readers,     \* subscribers: one queue and one reading loop each
    Drainers,    \* the readers that look at their flag only at an empty queue (cli.py)
    Awaited,     \* publishers that run() joins, for one second (the monitor)
    Kinds,       \* kinds of events emitted
    Cap,         \* maxsize of a subscriber's queue
    HistMax,     \* events the bus remembers
    MaxEvents    \* bound: events emitted

ASSUME EventBusAssumption ==
    /\ Readers # {} /\ Drainers \subseteq Readers /\ Awaited \subseteq Publishers
    /\ Kinds \subseteq {"violation", "control", "routine"}
    /\ Cap \in Nat \ {0} /\ HistMax \in Nat /\ MaxEvents \in Nat

VARIABLES
    counter,  \* the last sequence number handed out
    pc,       \* publish(): "idle", "record", "offer", "evict", "retry"
    event,    \* the event a publisher is in publish() with
    todo,     \* the subscribers it has not served yet
    target,   \* the subscriber whose full queue it makes room in
    subs, history, queue, dropped,
    over,     \* session.run has returned and the readers' flag is set
    stray,    \* publishers that run() has given up waiting for
    timedOut, \* a drainer's get() has timed out: "no", "before" or "after" over
    ended,    \* readers whose loop has ended
    got,      \* what each reader was given, in order
    due,      \* history: events published while the reader was subscribed
    lost,     \* history: events evicted from, or refused by, its queue
    log       \* history: every event, in the order of the bus's lock

bus   == <<counter, pc, event, todo, target, subs, history, queue, dropped>>
loops == <<over, stray, timedOut, ended>>
vars  == <<bus, loops, got, due, lost, log>>

Nothing == [seq |-> 0, by |-> "none", kind |-> "routine"]

\* severity "violation", or kind "state" or "lifecycle".
Critical(e) == e.kind # "routine"
Full(s)     == Len(queue[s]) >= Cap

Init ==
    /\ counter = 0
    /\ pc = [p \in Publishers |-> "idle"]
    /\ event = [p \in Publishers |-> Nothing]
    /\ todo = [p \in Publishers |-> {}]
    /\ target = [p \in Publishers |-> CHOOSE s \in Readers : TRUE]
    /\ subs = {} /\ history = <<>> /\ dropped = 0
    /\ queue = [s \in Readers |-> <<>>]
    /\ over = FALSE /\ stray = {} /\ ended = {}
    /\ timedOut = [s \in Readers |-> "no"]
    /\ got = [s \in Readers |-> <<>>]
    /\ due = [s \in Readers |-> {}]
    /\ lost = [s \in Readers |-> {}]
    /\ log = <<>>

\* make(): the number is taken before the lock, so numbers may cross.  Once the
\* session is over only a thread that was not waited for emits.
Make(p) ==
    /\ pc[p] = "idle" /\ (over => p \in stray) /\ counter < MaxEvents
    /\ counter' = counter + 1
    /\ \E k \in Kinds : event' = [event EXCEPT ![p] = [seq |-> counter + 1, by |-> p, kind |-> k]]
    /\ pc' = [pc EXCEPT ![p] = "record"]
    /\ UNCHANGED <<todo, target, subs, history, queue, dropped, loops, got, due, lost, log>>

Newest(h, n) == SubSeq(h, IF Len(h) > n THEN Len(h) - n + 1 ELSE 1, Len(h))

\* Under the lock: remember the event and copy the list of subscribers.
Record(p) ==
    /\ pc[p] = "record"
    /\ history' = Newest(Append(history, event[p]), HistMax)
    /\ log' = Append(log, event[p])
    /\ todo' = [todo EXCEPT ![p] = subs]
    /\ due' = [s \in Readers |-> IF s \in subs THEN due[s] \cup {event[p]} ELSE due[s]]
    /\ pc' = [pc EXCEPT ![p] = "offer"]
    /\ UNCHANGED <<counter, event, target, subs, queue, dropped, loops, got, lost>>

\* The event is in subscriber s's queue, and p goes on with the others.
Put(p, s) ==
    /\ queue' = [queue EXCEPT ![s] = Append(@, event[p])]
    /\ UNCHANGED <<dropped, lost>>

Drop(p, s) ==
    /\ dropped' = dropped + 1
    /\ lost' = [lost EXCEPT ![s] = @ \cup {event[p]}]
    /\ UNCHANGED queue

Served(p, s) ==
    /\ todo' = [todo EXCEPT ![p] = @ \ {s}]
    /\ pc' = [pc EXCEPT ![p] = "offer"]

\* Mutant of Offer: a full queue is waited for, as q.put would.
OfferBlocks(p) ==
    /\ pc[p] = "offer"
    /\ \E s \in todo[p] :
          /\ target' = [target EXCEPT ![p] = s]
          /\ ~Full(s) /\ Put(p, s) /\ Served(p, s)
    /\ UNCHANGED <<counter, event, subs, history, loops, got, due, log>>

\* put_nowait, and what happens at queue.Full.
Offer(p) ==
    /\ pc[p] = "offer"
    /\ \E s \in todo[p] :
          /\ target' = [target EXCEPT ![p] = s]
          /\ \/ ~Full(s) /\ Put(p, s) /\ Served(p, s)
             \/ Full(s) /\ ~Critical(event[p]) /\ Drop(p, s) /\ Served(p, s)
             \/ /\ Full(s) /\ Critical(event[p])
                /\ pc' = [pc EXCEPT ![p] = "evict"]
                /\ UNCHANGED <<queue, dropped, lost, todo>>
    /\ UNCHANGED <<counter, event, subs, history, loops, got, due, log>>

\* get_nowait discards the head of the queue, whatever it is.
Evict(p) ==
    /\ pc[p] = "evict"
    /\ LET s == target[p]
       IN  IF queue[s] = <<>>
             THEN Drop(p, s) /\ Served(p, s)
             ELSE /\ lost' = [lost EXCEPT ![s] = @ \cup {Head(queue[s])}]
                  /\ queue' = [queue EXCEPT ![s] = Tail(@)]
                  /\ pc' = [pc EXCEPT ![p] = "retry"]
                  /\ UNCHANGED <<todo, dropped>>
    /\ UNCHANGED <<counter, event, target, subs, history, loops, got, due, log>>

\* Mutant of Retry: room was made, and the event that needed it is forgotten.
RetryForgets(p) ==
    /\ pc[p] = "retry"
    /\ Served(p, target[p])
    /\ UNCHANGED <<counter, event, target, subs, history, queue, dropped, loops, got, due, lost, log>>

\* Mutant of Retry: the room just made is taken for granted.
RetryAssumesRoom(p) ==
    /\ pc[p] = "retry"
    /\ Put(p, target[p]) /\ Served(p, target[p])
    /\ UNCHANGED <<counter, event, target, subs, history, loops, got, due, log>>

\* The second put_nowait: another publisher may have taken the room.
Retry(p) ==
    /\ pc[p] = "retry"
    /\ LET s == target[p]
       IN  /\ IF Full(s) THEN Drop(p, s) ELSE Put(p, s)
           /\ Served(p, s)
    /\ UNCHANGED <<counter, event, target, subs, history, loops, got, due, log>>

Published(p) ==
    /\ pc[p] = "offer" /\ todo[p] = {}
    /\ pc' = [pc EXCEPT ![p] = "idle"]
    /\ UNCHANGED <<counter, event, todo, target, subs, history, queue, dropped, loops, got, due, lost, log>>

Subscribe(s) ==
    /\ s \notin subs /\ due[s] = {} /\ s \notin ended
    /\ subs' = subs \cup {s}
    /\ UNCHANGED <<counter, pc, event, todo, target, history, queue, dropped, loops, got, due, lost, log>>

\* Mutant of SessionOver: run() returns without a look at the monitor thread.
SessionOverEarly ==
    /\ ~over /\ over' = TRUE
    /\ UNCHANGED <<bus, stray, timedOut, ended, got, due, lost, log>>

\* session.run has returned.  Its own thread emits no more; the monitor has been
\* joined, but join(timeout=1.0) may have given up on it.
SessionOver ==
    /\ ~over /\ \A p \in Publishers \ Awaited : pc[p] = "idle"
    /\ over' = TRUE
    /\ \E late \in SUBSET Awaited :
          /\ \A p \in Awaited \ late : pc[p] = "idle"
          /\ stray' = late
    /\ UNCHANGED <<bus, timedOut, ended, got, due, lost, log>>

Read(s) ==
    /\ s \in subs \ ended /\ queue[s] # <<>> /\ timedOut[s] = "no"
    /\ got' = [got EXCEPT ![s] = Append(@, Head(queue[s]))]
    /\ queue' = [queue EXCEPT ![s] = Tail(@)]
    /\ UNCHANGED <<counter, pc, event, todo, target, subs, history, dropped, loops, due, lost, log>>

\* A drainer's get() raises Empty.
TimeOut(s) ==
    /\ s \in (subs \cap Drainers) \ ended /\ queue[s] = <<>> /\ timedOut[s] = "no"
    /\ timedOut' = [timedOut EXCEPT ![s] = IF over THEN "after" ELSE "before"]
    /\ UNCHANGED <<bus, over, stray, ended, got, due, lost, log>>

\* Mutant of LookAtFlag: the drainer looks at its flag whenever it likes.
LookAnyTime(s) ==
    /\ s \in subs \ ended /\ over
    /\ ended' = ended \cup {s}
    /\ UNCHANGED <<bus, over, stray, timedOut, got, due, lost, log>>

\* The look at the flag: a drainer's after Empty has been raised, when events may
\* have come and the session ended since; a pump's before every get().
LookAtFlag(s) ==
    /\ s \in subs \ ended /\ (s \in Drainers => timedOut[s] # "no")
    /\ \/ over /\ ended' = ended \cup {s} /\ UNCHANGED timedOut
       \/ ~over /\ timedOut' = [timedOut EXCEPT ![s] = "no"] /\ UNCHANGED ended
    /\ UNCHANGED <<bus, over, stray, got, due, lost, log>>

PublishStep(p) == Record(p) \/ Offer(p) \/ Evict(p) \/ Retry(p) \/ Published(p)

Next ==
    \/ \E p \in Publishers : Make(p) \/ PublishStep(p)
    \/ \E s \in Readers : Subscribe(s) \/ Read(s) \/ TimeOut(s) \/ LookAtFlag(s)
    \/ SessionOver

\* Publishers always get on with publish(); a reader owes the bus nothing.
Fairness == \A p \in Publishers : WF_vars(PublishStep(p))

Spec == Init /\ [][Next]_vars
FairSpec == Spec /\ Fairness

-----------------------------------------------------------------------------
(* Properties.                                                              *)

\* What a reader has been given, and then what still waits for it.
Stream(s)  == got[s] \o queue[s]
Pending(s) == {event[p] : p \in {r \in Publishers :
                  pc[r] \in {"offer", "evict", "retry"} /\ s \in todo[r]}}

\* Every variable has its type, and no queue is ever longer than its maxsize.
TypeOK ==
    /\ counter \in 0..MaxEvents /\ dropped \in Nat
    /\ pc \in [Publishers -> {"idle", "record", "offer", "evict", "retry"}]
    /\ todo \in [Publishers -> SUBSET Readers]
    /\ target \in [Publishers -> Readers]
    /\ subs \subseteq Readers /\ ended \subseteq Readers
    /\ over \in BOOLEAN /\ stray \subseteq Awaited
    /\ timedOut \in [Readers -> {"no", "before", "after"}]
    /\ \A s \in Readers : Len(queue[s]) <= Cap

\* Every event published while a reader is subscribed is waiting for it, given to
\* it, lost to its full queue, or still in publish(): in one of these, and once
\* (events.py publish, lines 51-72).
Conservation ==
    \A s \in Readers :
        /\ due[s] = ToSet(Stream(s)) \cup lost[s] \cup Pending(s)
        /\ ToSet(Stream(s)) \cap (lost[s] \cup Pending(s)) = {} /\ lost[s] \cap Pending(s) = {}
        /\ IsInjective(Stream(s))

\* For its readers the bus is the lossy ordered channel of Feed: what they are
\* handed was published, is handed once, in each thread's order, evictions and the
\* other thread notwithstanding, and after session.run (runner.py:108-109) only a
\* thread that it gave up waiting for still publishes.
F == INSTANCE Feed WITH Events <- [seq : 1..MaxEvents, by : Publishers, kind : Kinds],
                        published <- ToSet(log), given <- got, finished <- over,
                        abandoned <- stray, closed <- ended
ImplementsFeed == F!Spec

\* The bus remembers exactly the newest events, in the order of its lock.
HistoryIsNewest == history = Newest(log, HistMax)

\* publish() never waits for a reader: it ends although nobody reads
\* (events.py:3-6 "publishing is non-blocking").
PublishTerminates == \A p \in Publishers : (pc[p] # "idle") ~> (pc[p] = "idle")

\* A drainer whose last get() timed out after session.run had returned has been
\* given, when it ends, all that was due and not lost to a full queue, but for what a
\* thread emitted that run() had given up on.  Nothing is claimed when that get()
\* timed out before the return, and the flag was set before the look at it: then
\* the last events may still be in the queue (cli.py:96-105).
DrainedMissesNothing ==
    \A s \in Drainers \cap ended : timedOut[s] # "before" =>
        \A e \in due[s] \ (ToSet(got[s]) \cup lost[s]) : e.by \in stray

\* "Violations are the exception -- they are never dropped" (events.py:6-7).
ViolationsNeverLost == \A s \in Readers : \A e \in lost[s] : e.kind # "violation"

=============================================================================
