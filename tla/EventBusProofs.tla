---------------------------- MODULE EventBusProofs ----------------------------
(***************************************************************************)
(* Proofs about EventBus, for any number of publishers and readers, every   *)
(* size of queue and history and any number of events.                      *)
(***************************************************************************)
EXTENDS EventBus, SequenceTheorems, TLAPS

Ev == [seq : 1..MaxEvents, by : Publishers, kind : Kinds]

USE DEF loops

(* Sequences of events in each publisher's order.                           *)

Sorted(q) == \A i, j \in DOMAIN q : i < j => F!Newer(q[j], q[i])

\* What the newest of a sequence are.
LEMMA NewestIs ==
  ASSUME NEW S, NEW s \in Seq(S), NEW n \in Nat
  PROVE  /\ Newest(s, n) \in Seq(S)
         /\ Len(s) > n => /\ Len(Newest(s, n)) = n
                          /\ \A i \in 1..n : Newest(s, n)[i] = s[i + Len(s) - n]
<1>1. CASE Len(s) > n
  <2>1. Newest(s, n) = SubSeq(s, Len(s) - n + 1, Len(s)) /\ Len(s) \in Nat
    BY <1>1 DEF Newest
  <2> QED
    BY <1>1, <2>1
<1>2. CASE ~(Len(s) > n)
  <2>1. Newest(s, n) = SubSeq(s, 1, Len(s))
    BY <1>2, Zenon DEF Newest
  <2> QED
    BY <1>2, <2>1
<1> QED
  BY <1>1, <1>2

\* A sequence with an event appended holds that event and the old ones.
LEMMA ToSetAppend ==
  ASSUME NEW S, NEW q \in Seq(S), NEW e \in S
  PROVE  ToSet(Append(q, e)) = ToSet(q) \cup {e}
<1>1. /\ DOMAIN Append(q, e) = 1..Len(q) + 1 /\ DOMAIN q = 1..Len(q) /\ Len(q) \in Nat
      /\ Append(q, e)[Len(q) + 1] = e
      /\ \A i \in 1..Len(q) : Append(q, e)[i] = q[i]
  OBVIOUS
<1> QED
  BY <1>1 DEF ToSet

\* A nonempty sequence holds its head and what its tail holds.
LEMMA ToSetTail ==
  ASSUME NEW S, NEW q \in Seq(S), q # <<>>
  PROVE  ToSet(q) = {Head(q)} \cup ToSet(Tail(q))
<1>1. /\ DOMAIN q = 1..Len(q) /\ DOMAIN Tail(q) = 1..Len(q) - 1
      /\ Len(q) \in Nat \ {0} /\ Head(q) = q[1]
      /\ \A i \in 1..Len(q) - 1 : Tail(q)[i] = q[i + 1]
  OBVIOUS
<1>2. \A i \in 1..Len(q) : i = 1 \/ (i - 1 \in 1..Len(q) - 1 /\ Tail(q)[i - 1] = q[i])
  BY <1>1
<1>3. \A i \in 1..Len(q) - 1 : i + 1 \in 1..Len(q) /\ 1 \in 1..Len(q)
  BY <1>1
<1>4. ToSet(q) \subseteq {Head(q)} \cup ToSet(Tail(q))
  <2>1. \A i \in 1..Len(q) - 1 : Tail(q)[i] \in ToSet(Tail(q))
    BY <1>1 DEF ToSet
  <2>2. \A i \in 1..Len(q) : q[i] \in {Head(q)} \cup ToSet(Tail(q))
    BY <1>1, <1>2, <2>1
  <2> QED
    BY <1>1, <2>2 DEF ToSet
<1>5. {Head(q)} \cup ToSet(Tail(q)) \subseteq ToSet(q)
  <2>1. Head(q) \in ToSet(q)
    BY <1>1 DEF ToSet
  <2>2. \A i \in 1..Len(q) - 1 : Tail(q)[i] \in ToSet(q)
    BY <1>1, <1>3 DEF ToSet
  <2> QED
    BY <1>1, <2>1, <2>2 DEF ToSet
<1> QED
  BY <1>4, <1>5

\* A sequence over S holds members of S.
LEMMA ToSetTyped == ASSUME NEW S, NEW q \in Seq(S) PROVE ToSet(q) \subseteq S
<1>1. \A i \in DOMAIN q : q[i] \in S
  OBVIOUS
<1> QED
  BY <1>1 DEF ToSet

\* A concatenation holds what its parts hold.
LEMMA ToSetConcat ==
  ASSUME NEW S, NEW q \in Seq(S), NEW r \in Seq(S)
  PROVE  ToSet(q \o r) = ToSet(q) \cup ToSet(r)
<1>1. /\ DOMAIN (q \o r) = 1..Len(q) + Len(r)
      /\ DOMAIN q = 1..Len(q) /\ DOMAIN r = 1..Len(r)
      /\ Len(q) \in Nat /\ Len(r) \in Nat
      /\ \A i \in 1..Len(q) + Len(r) : (q \o r)[i] = IF i <= Len(q) THEN q[i] ELSE r[i - Len(q)]
  OBVIOUS
<1>2. \A i \in 1..Len(r) : i + Len(q) \in 1..Len(q) + Len(r) /\ (q \o r)[i + Len(q)] = r[i]
  BY <1>1
<1>3. \A i \in 1..Len(q) + Len(r) : i \in 1..Len(q) \/ i - Len(q) \in 1..Len(r)
  BY <1>1
<1>4. \A i \in 1..Len(q) : i \in 1..Len(q) + Len(r) /\ (q \o r)[i] = q[i]
  BY <1>1
<1>5. ToSet(q \o r) \subseteq ToSet(q) \cup ToSet(r)
  <2>1. \A i \in 1..Len(q) + Len(r) : (q \o r)[i] \in ToSet(q) \cup ToSet(r)
    <3> SUFFICES ASSUME NEW i \in 1..Len(q) + Len(r) PROVE (q \o r)[i] \in ToSet(q) \cup ToSet(r)
      OBVIOUS
    <3>1. CASE i \in 1..Len(q)
      BY <1>1, <1>4, <3>1 DEF ToSet
    <3>2. CASE i - Len(q) \in 1..Len(r)
      <4>1. (q \o r)[i] = r[i - Len(q)]
        BY <1>1, <3>2
      <4> QED
        BY <1>1, <3>2, <4>1 DEF ToSet
    <3> QED
      BY <1>3, <3>1, <3>2
  <2> QED
    BY <1>1, <2>1 DEF ToSet
<1>6. ToSet(q) \subseteq ToSet(q \o r)
  BY <1>1, <1>4 DEF ToSet
<1>7. ToSet(r) \subseteq ToSet(q \o r)
  <2>1. \A i \in 1..Len(r) : r[i] \in ToSet(q \o r)
    BY <1>1, <1>2 DEF ToSet
  <2> QED
    BY <1>1, <2>1 DEF ToSet
<1> QED
  BY <1>5, <1>6, <1>7

\* Appending an event newer than those of its publisher keeps the order.
LEMMA SortedAppend ==
  ASSUME NEW q \in Seq(Ev), Sorted(q), NEW e \in Ev, \A f \in ToSet(q) : F!Newer(e, f)
  PROVE  Sorted(Append(q, e))
<1>1. /\ DOMAIN Append(q, e) = 1..Len(q) + 1 /\ DOMAIN q = 1..Len(q) /\ Len(q) \in Nat
      /\ Append(q, e)[Len(q) + 1] = e
      /\ \A i \in 1..Len(q) : Append(q, e)[i] = q[i]
  OBVIOUS
<1>2. \A i \in 1..Len(q) : F!Newer(e, q[i])
  BY <1>1 DEF ToSet
<1> SUFFICES ASSUME NEW i \in 1..Len(q) + 1, NEW j \in 1..Len(q) + 1, i < j
             PROVE  F!Newer(Append(q, e)[j], Append(q, e)[i])
  BY <1>1 DEF Sorted
<1>3. i \in 1..Len(q)
  BY <1>1
<1>4. CASE j = Len(q) + 1
  BY <1>1, <1>2, <1>3, <1>4
<1>5. CASE j \in 1..Len(q)
  BY <1>1, <1>3, <1>5 DEF Sorted
<1> QED
  BY <1>1, <1>4, <1>5

\* Without its head an ordered sequence is ordered, and what is left is newer.
LEMMA SortedTail ==
  ASSUME NEW q \in Seq(Ev), Sorted(q), q # <<>>
  PROVE  /\ Sorted(Tail(q))
         /\ \A f \in ToSet(Tail(q)) : F!Newer(f, Head(q))
<1>1. /\ DOMAIN q = 1..Len(q) /\ DOMAIN Tail(q) = 1..Len(q) - 1
      /\ Len(q) \in Nat \ {0} /\ Head(q) = q[1]
      /\ \A i \in 1..Len(q) - 1 : Tail(q)[i] = q[i + 1] /\ i + 1 \in 1..Len(q)
  OBVIOUS
<1>2. Sorted(Tail(q))
  BY <1>1 DEF Sorted
<1>3. \A i \in 1..Len(q) - 1 : F!Newer(Tail(q)[i], Head(q))
  BY <1>1 DEF Sorted
<1> QED
  BY <1>1, <1>2, <1>3 DEF ToSet

-----------------------------------------------------------------------------
(* The inductive invariant, in parts.                                       *)

\* publish() has not yet served s with p's event.
Owes(p, s) == pc[p] \in {"offer", "evict", "retry"} /\ s \in todo[p]

Typed ==
    /\ event \in [Publishers -> Ev \cup {Nothing}]
    /\ \A p \in Publishers : pc[p] # "idle" => event[p] \in Ev /\ event[p].by = p
    /\ queue \in [Readers -> Seq(Ev)] /\ got \in [Readers -> Seq(Ev)]
    /\ due \in [Readers -> SUBSET Ev] /\ lost \in [Readers -> SUBSET Ev]
    /\ log \in Seq(Ev) /\ history \in Seq(Ev)

\* Numbers are handed out once, so a thread's next event is newer than its last.
Numbers ==
    /\ \A p \in Publishers : pc[p] # "idle" => event[p].seq <= counter
    /\ \A e \in ToSet(log) : e.seq <= counter
    /\ \A p \in Publishers : pc[p] = "record" => \A e \in ToSet(log) : F!Newer(event[p], e)

\* The queue that publish() makes room in is one it has still to serve.
Aimed == \A p \in Publishers : pc[p] \in {"evict", "retry"} => target[p] \in todo[p]

\* What is owed to a reader is newer than all it has had from that thread.
Behind ==
    \A p \in Publishers, s \in Readers :
        Owes(p, s) => \A e \in ToSet(got[s]) \cup ToSet(queue[s]) \cup lost[s] : F!Newer(event[p], e)

Ordered ==
    \A s \in Readers :
        /\ Sorted(got[s]) /\ Sorted(queue[s])
        /\ \A e \in ToSet(got[s]), f \in ToSet(queue[s]) : F!Newer(f, e)

\* Conservation, with the queue and what was read from it apart.
Kept ==
    \A s \in Readers :
        /\ due[s] \subseteq ToSet(log)
        /\ \A e \in Ev : e \in due[s] <=>
              \/ e \in ToSet(got[s]) \cup ToSet(queue[s]) \cup lost[s]
              \/ \E p \in Publishers : Owes(p, s) /\ e = event[p]
        /\ (ToSet(got[s]) \cup ToSet(queue[s])) \cap lost[s] = {}

\* When the session is over only strays publish, so that nothing else comes to a
\* queue that was found empty since; and no drainer ends before its get() timed out.
Quiet ==
    /\ over => \A p \in Publishers : pc[p] # "idle" => p \in stray
    /\ ended # {} => over
    /\ \A s \in Drainers : timedOut[s] = "after" => over /\ \A e \in ToSet(queue[s]) : e.by \in stray
    /\ \A s \in Drainers \cap ended : timedOut[s] # "no"

IInv == TypeOK /\ Typed /\ Numbers /\ Aimed /\ Behind /\ Ordered /\ Kept /\ Quiet

-----------------------------------------------------------------------------
(* The inductive invariant holds initially and is kept by every step.       *)

\* It holds of a bus nobody has used.
LEMMA InitIInv == Init => IInv
<1> SUFFICES ASSUME Init PROVE IInv
  OBVIOUS
<1> USE EventBusAssumption DEF Init
<1>1. ToSet(<<>>) = {}
  BY DEF ToSet
<1>2. (CHOOSE s \in Readers : TRUE) \in Readers
  OBVIOUS
<1>3. TypeOK
  <2>1. target \in [Publishers -> Readers]
    BY <1>2, Zenon
  <2>2. \A s \in Readers : queue[s] = <<>> /\ Len(<<>>) = 0
    OBVIOUS
  <2>3. /\ pc \in [Publishers -> {"idle", "record", "offer", "evict", "retry"}]
        /\ todo \in [Publishers -> SUBSET Readers]
        /\ timedOut \in [Readers -> {"no", "before", "after"}]
    OBVIOUS
  <2>4. /\ counter \in 0..MaxEvents /\ dropped \in Nat /\ over \in BOOLEAN
        /\ subs \subseteq Readers /\ ended \subseteq Readers /\ stray \subseteq Awaited
    <3> HIDE DEF Init
    <3>1. counter = 0 /\ dropped = 0 /\ over = FALSE /\ stray = {} /\ subs = {} /\ ended = {}
      BY Zenon DEF Init
    <3>2. counter \in 0..MaxEvents /\ dropped \in Nat
      BY <3>1
    <3>3. over \in BOOLEAN /\ stray \subseteq Awaited /\ subs \subseteq Readers /\ ended \subseteq Readers
      BY <3>1, Zenon
    <3> QED
      BY <3>2, <3>3
  <2>5. \A s \in Readers : Len(queue[s]) <= Cap
    BY <2>2
  <2> QED
    BY <2>1, <2>3, <2>4, <2>5, Zenon DEF TypeOK
<1>4. Typed
  BY DEF Typed
<1>5. Numbers /\ Aimed /\ Quiet
  BY <1>1 DEF Numbers, Aimed, Quiet
<1>6. Behind /\ Kept
  BY <1>1 DEF Behind, Kept, Owes
<1>7. Ordered
  <2>1. Sorted(<<>>)
    BY DEF Sorted
  <2> QED
    BY <1>1, <2>1 DEF Ordered
<1> QED
  BY <1>3, <1>4, <1>5, <1>6, <1>7 DEF IInv

\* Serving s: p owes one reader less, and the others owe what they owed.
LEMMA ServedOwes ==
  ASSUME IInv, NEW p \in Publishers, NEW s \in Readers, Served(p, s),
         pc[p] \in {"offer", "evict", "retry"}
  PROVE  \A q \in Publishers, r \in Readers :
             Owes(q, r)' <=> Owes(q, r) /\ ~(q = p /\ r = s)
<1> SUFFICES ASSUME NEW q \in Publishers, NEW r \in Readers
             PROVE  Owes(q, r)' <=> Owes(q, r) /\ ~(q = p /\ r = s)
  OBVIOUS
<1>1. pc \in [Publishers -> {"idle", "record", "offer", "evict", "retry"}]
      /\ todo \in [Publishers -> SUBSET Readers]
  BY DEF IInv, TypeOK
<1>2. CASE q = p
  <2>1. pc'[q] = "offer" /\ todo'[q] = todo[q] \ {s}
    BY <1>1, <1>2 DEF Served
  <2> QED
    BY <1>2, <2>1 DEF Owes
<1>3. CASE q # p
  <2>1. pc'[q] = pc[q] /\ todo'[q] = todo[q]
    BY <1>1, <1>3 DEF Served
  <2> QED
    BY <1>3, <2>1 DEF Owes
<1> QED
  BY <1>2, <1>3

\* What every step inside publish() leaves alone.
Inside(p) ==
    /\ pc[p] \in {"offer", "evict", "retry"}
    /\ UNCHANGED <<counter, event, subs, history, over, stray, timedOut, ended, got, due, log>>
    /\ target' \in [Publishers -> Readers]
    /\ \A q \in Publishers \ {p} : target'[q] = target[q]

\* A put keeps it: the event is newer than all of its thread's in that queue.
LEMMA PutKeeps ==
  ASSUME IInv, NEW p \in Publishers, NEW s \in Readers, Inside(p), s \in todo[p],
         ~Full(s), Put(p, s), Served(p, s)
  PROVE  IInv'
<1> USE EventBusAssumption DEF IInv, Inside
<1>1. /\ queue' = [queue EXCEPT ![s] = Append(queue[s], event[p])]
      /\ dropped' = dropped /\ lost' = lost
      /\ event[p] \in Ev /\ event[p].by = p
      /\ queue[s] \in Seq(Ev) /\ Owes(p, s)
  BY DEF Put, Typed, Owes
<1>2. ToSet(queue'[s]) = ToSet(queue[s]) \cup {event[p]}
  BY <1>1, ToSetAppend DEF Typed
<1>3. \A r \in Readers \ {s} : queue'[r] = queue[r]
  BY <1>1 DEF Typed
<1>4. \A e \in ToSet(got[s]) \cup ToSet(queue[s]) \cup lost[s] : F!Newer(event[p], e)
  BY <1>1 DEF Behind
<1>5. TypeOK'
  <2>1. \A r \in Readers : Len(queue'[r]) <= Cap
    BY <1>1, <1>3 DEF Full, TypeOK, Typed
  <2> QED
    BY <1>1, <2>1 DEF TypeOK, Served
<1>6. Typed'
  BY <1>1 DEF Typed, Served
<1>7. Numbers' /\ Aimed'
  BY DEF Numbers, Aimed, Typed, TypeOK, Served
<1>8. Quiet'
  <2>1. over => p \in stray
    BY <1>1 DEF Quiet, Owes
  <2>2. \A q \in Publishers : pc'[q] # "idle" => pc[q] # "idle"
    BY <1>1 DEF Served, TypeOK, Owes
  <2>3. \A r \in Drainers : timedOut[r] = "after" => \A e \in ToSet(queue'[r]) : e.by \in stray
    BY <1>1, <1>2, <1>3, <2>1 DEF Quiet
  <2> QED
    BY <2>2, <2>3 DEF Quiet
<1>9. \A q \in Publishers, r \in Readers : Owes(q, r)' <=> Owes(q, r) /\ ~(q = p /\ r = s)
  BY ServedOwes
<1>10. Behind'
  <2> SUFFICES ASSUME NEW q \in Publishers, NEW r \in Readers, Owes(q, r)',
                      NEW e \in (ToSet(got[r]) \cup ToSet(queue[r]) \cup lost[r])'
               PROVE  F!Newer(event[q], e)
    BY DEF Behind
  <2>1. Owes(q, r) /\ ~(q = p /\ r = s)
    BY <1>9
  <2>2. CASE e \in ToSet(got[r]) \cup ToSet(queue[r]) \cup lost[r]
    BY <2>1, <2>2 DEF Behind
  <2>3. CASE r = s /\ e = event[p]
    <3>1. event[q].by = q /\ q # p
      BY <2>1, <2>3 DEF Typed, Owes
    <3> QED
      BY <1>1, <2>3, <3>1 DEF F!Newer
  <2> QED
    BY <1>1, <1>2, <1>3, <2>2, <2>3
<1>11. Ordered'
  <2>1. Sorted(queue'[s])
    BY <1>1, <1>4, SortedAppend DEF Ordered, Typed
  <2>2. \A e \in ToSet(got[s]), f \in ToSet(queue'[s]) : F!Newer(f, e)
    BY <1>2, <1>4 DEF Ordered
  <2> QED
    BY <1>3, <2>1, <2>2 DEF Ordered
<1>12. Kept'
  <2>0. Kept /\ UNCHANGED <<due, event, got, log>>
    OBVIOUS
  <2>1. event[p] \notin ToSet(got[s]) \cup ToSet(queue[s]) \cup lost[s]
    BY <1>1, <1>4 DEF F!Newer, Ev
  <2>2. \A q \in Publishers : Owes(q, s)' <=> Owes(q, s) /\ q # p
    BY <1>9
  <2>3. \A q \in Publishers, r \in Readers \ {s} : Owes(q, r)' <=> Owes(q, r)
    BY <1>9
  <2> HIDE DEF IInv, Inside
  <2>4. \A e \in Ev : e \in due[s] <=>
              \/ e \in ToSet(got[s]) \cup ToSet(queue'[s]) \cup lost[s]
              \/ \E q \in Publishers : Owes(q, s)' /\ e = event[q]
    BY <1>1, <1>2, <2>0, <2>2 DEF Kept
  <2>5. (ToSet(got[s]) \cup ToSet(queue'[s])) \cap lost[s] = {}
    BY <1>2, <2>0, <2>1 DEF Kept
  <2> QED
    BY <1>1, <1>3, <2>0, <2>3, <2>4, <2>5 DEF Kept
<1> QED
  BY <1>5, <1>6, <1>7, <1>8, <1>10, <1>11, <1>12

\* A drop keeps it: the reader's debt becomes a loss.
LEMMA DropKeeps ==
  ASSUME IInv, NEW p \in Publishers, NEW s \in Readers, Inside(p), s \in todo[p],
         Drop(p, s), Served(p, s)
  PROVE  IInv'
<1> USE EventBusAssumption DEF IInv, Inside
<1>1. /\ queue' = queue /\ dropped' = dropped + 1
      /\ lost' = [lost EXCEPT ![s] = lost[s] \cup {event[p]}]
      /\ event[p] \in Ev /\ event[p].by = p /\ Owes(p, s)
  BY DEF Drop, Typed, Owes
<1>2. /\ lost'[s] = lost[s] \cup {event[p]}
      /\ \A r \in Readers \ {s} : lost'[r] = lost[r]
  BY <1>1 DEF Typed
<1>3. \A e \in ToSet(got[s]) \cup ToSet(queue[s]) \cup lost[s] : F!Newer(event[p], e)
  BY <1>1 DEF Behind
<1>4. TypeOK'
  BY <1>1 DEF TypeOK, Served
<1>5. Typed'
  BY <1>1 DEF Typed, Served
<1>6. Numbers' /\ Aimed'
  BY DEF Numbers, Aimed, Typed, TypeOK, Served
<1>7. Quiet' /\ Ordered'
  <2>1. \A q \in Publishers : pc'[q] # "idle" => pc[q] # "idle"
    BY <1>1 DEF Served, TypeOK, Owes
  <2> QED
    BY <1>1, <2>1 DEF Quiet, Ordered
<1>8. \A q \in Publishers, r \in Readers : Owes(q, r)' <=> Owes(q, r) /\ ~(q = p /\ r = s)
  BY ServedOwes
<1>9. Behind'
  <2> SUFFICES ASSUME NEW q \in Publishers, NEW r \in Readers, Owes(q, r)',
                      NEW e \in (ToSet(got[r]) \cup ToSet(queue[r]) \cup lost[r])'
               PROVE  F!Newer(event[q], e)
    BY DEF Behind
  <2>1. Owes(q, r) /\ ~(q = p /\ r = s)
    BY <1>8
  <2>2. CASE e \in ToSet(got[r]) \cup ToSet(queue[r]) \cup lost[r]
    BY <2>1, <2>2 DEF Behind
  <2>3. CASE r = s /\ e = event[p]
    <3>1. event[q].by = q /\ q # p
      BY <2>1, <2>3 DEF Typed, Owes
    <3> QED
      BY <1>1, <2>3, <3>1 DEF F!Newer
  <2> QED
    BY <1>1, <1>2, <2>2, <2>3
<1>10. Kept'
  <2>0. Kept /\ UNCHANGED <<due, event, got, log>>
    OBVIOUS
  <2>1. event[p] \notin ToSet(got[s]) \cup ToSet(queue[s])
    BY <1>1, <1>3 DEF F!Newer, Ev
  <2>2. \A q \in Publishers : Owes(q, s)' <=> Owes(q, s) /\ q # p
    BY <1>8
  <2>3. \A q \in Publishers, r \in Readers \ {s} : Owes(q, r)' <=> Owes(q, r)
    BY <1>8
  <2>4. \A e \in Ev : e \in due[s] <=>
              \/ e \in ToSet(got[s]) \cup ToSet(queue[s]) \cup lost'[s]
              \/ \E q \in Publishers : Owes(q, s)' /\ e = event[q]
    BY <1>1, <1>2, <2>2 DEF Kept
  <2>5. (ToSet(got[s]) \cup ToSet(queue[s])) \cap lost'[s] = {}
    BY <1>2, <2>1 DEF Kept
  <2> HIDE DEF IInv, Inside
  <2> QED
    BY <1>1, <1>2, <2>0, <2>3, <2>4, <2>5 DEF Kept
<1> QED
  BY <1>4, <1>5, <1>6, <1>7, <1>9, <1>10

\* The head of a reader's queue goes elsewhere; the rest stays in order.
LEMMA HeadLeaves ==
  ASSUME IInv, NEW s \in Readers, queue[s] # <<>>,
         queue' = [queue EXCEPT ![s] = Tail(queue[s])]
  PROVE  /\ queue' \in [Readers -> Seq(Ev)]
         /\ \A r \in Readers \ {s} : queue'[r] = queue[r]
         /\ \A r \in Readers : Len(queue'[r]) <= Cap
         /\ Head(queue[s]) \in Ev
         /\ ToSet(queue[s]) = {Head(queue[s])} \cup ToSet(queue'[s])
         /\ Head(queue[s]) \notin ToSet(queue'[s]) \cup ToSet(got[s]) \cup lost[s]
         /\ Sorted(queue'[s])
         /\ \A f \in ToSet(queue'[s]) : F!Newer(f, Head(queue[s]))
         /\ \A e \in ToSet(got[s]) : F!Newer(Head(queue[s]), e)
<1> USE EventBusAssumption DEF IInv
<1>1. /\ queue[s] \in Seq(Ev) /\ Head(queue[s]) \in Ev /\ Tail(queue[s]) \in Seq(Ev)
      /\ Len(Tail(queue[s])) = Len(queue[s]) - 1 /\ Len(queue[s]) \in Nat
      /\ queue'[s] = Tail(queue[s])
  BY DEF Typed
<1>2. /\ queue' \in [Readers -> Seq(Ev)]
      /\ \A r \in Readers \ {s} : queue'[r] = queue[r]
  BY <1>1 DEF Typed
<1>3. \A r \in Readers : Len(queue'[r]) <= Cap
  BY <1>1, <1>2 DEF TypeOK, Typed
<1>4. ToSet(queue[s]) = {Head(queue[s])} \cup ToSet(queue'[s])
  BY <1>1, ToSetTail
<1>5. Sorted(queue'[s]) /\ \A f \in ToSet(queue'[s]) : F!Newer(f, Head(queue[s]))
  BY <1>1, SortedTail DEF Ordered
<1>6. \A e \in ToSet(got[s]) : F!Newer(Head(queue[s]), e)
  BY <1>4 DEF Ordered
<1>7. Head(queue[s]) \notin ToSet(queue'[s]) \cup ToSet(got[s]) \cup lost[s]
  <2>1. ~F!Newer(Head(queue[s]), Head(queue[s]))
    BY <1>1 DEF F!Newer, Ev
  <2> QED
    BY <1>4, <1>5, <1>6, <2>1 DEF Kept
<1> QED
  BY <1>1, <1>2, <1>3, <1>4, <1>5, <1>6, <1>7

LEMMA MakeKeeps == ASSUME IInv, NEW p \in Publishers, Make(p) PROVE IInv'
<1> USE EventBusAssumption DEF IInv
<1>1. PICK k \in Kinds : event' = [event EXCEPT ![p] = [seq |-> counter + 1, by |-> p, kind |-> k]]
  BY DEF Make
<1>2. /\ event'[p] = [seq |-> counter + 1, by |-> p, kind |-> k] /\ event'[p] \in Ev
      /\ event'[p].by = p /\ event'[p].seq = counter + 1
      /\ \A q \in Publishers \ {p} : event'[q] = event[q] /\ pc'[q] = pc[q]
      /\ pc'[p] = "record" /\ pc[p] = "idle" /\ counter' = counter + 1
      /\ counter \in Nat /\ counter' \in 0..MaxEvents
  BY <1>1 DEF Make, Typed, TypeOK, Ev
<1>3. TypeOK'
  BY <1>2 DEF Make, TypeOK
<1>4. Typed'
  BY <1>1, <1>2 DEF Make, Typed
<1>5. Numbers'
  <2>1. \A e \in ToSet(log) : e \in Ev
    BY DEF Typed, ToSet
  <2>2. \A e \in ToSet(log) : F!Newer(event'[p], e)
    BY <1>2, <2>1 DEF Numbers, F!Newer, Ev
  <2>3. \A e \in ToSet(log) : e.seq <= counter'
    BY <1>2, <2>1 DEF Numbers, Ev
  <2>4. \A q \in Publishers : pc'[q] # "idle" => event'[q].seq <= counter'
    <3> SUFFICES ASSUME NEW q \in Publishers \ {p}, pc'[q] # "idle" PROVE event[q].seq <= counter'
      BY <1>2
    <3>1. event[q] \in Ev /\ event[q].seq <= counter
      BY <1>2 DEF Numbers, Typed
    <3>2. event[q].seq \in Nat
      BY <3>1 DEF Ev
    <3> QED
      BY <1>2, <3>1, <3>2
  <2> QED
    BY <1>2, <2>2, <2>3, <2>4 DEF Make, Numbers
<1>6. Aimed'
  BY <1>2 DEF Make, Aimed
<1>7. \A q \in Publishers, r \in Readers : (Owes(q, r)' <=> Owes(q, r)) /\ (Owes(q, r) => q # p)
  BY <1>2 DEF Make, Owes
<1>8. Behind'
  BY <1>2, <1>7 DEF Make, Behind
<1>9. Ordered' /\ Quiet'
  BY <1>2 DEF Make, Ordered, Quiet
<1>10. Kept'
  BY <1>2, <1>7 DEF Make, Kept
<1> QED
  BY <1>3, <1>4, <1>5, <1>6, <1>8, <1>9, <1>10

LEMMA RecordKeeps == ASSUME IInv, NEW p \in Publishers, Record(p) PROVE IInv'
<1> USE EventBusAssumption DEF IInv
<1>1. /\ pc[p] = "record" /\ event[p] \in Ev /\ event[p].by = p
      /\ ToSet(log') = ToSet(log) \cup {event[p]}
      /\ pc'[p] = "offer" /\ todo'[p] = subs
      /\ \A q \in Publishers \ {p} : pc'[q] = pc[q] /\ todo'[q] = todo[q]
      /\ due' = [s \in Readers |-> IF s \in subs THEN due[s] \cup {event[p]} ELSE due[s]]
      /\ UNCHANGED <<counter, event, target, subs, queue, dropped, over, stray, timedOut, ended, got, lost>>
  BY ToSetAppend DEF Record, Typed, TypeOK
<1>2. TypeOK'
  BY <1>1 DEF Record, TypeOK
<1>3. Typed'
  <2>1. log' \in Seq(Ev) /\ Append(history, event[p]) \in Seq(Ev)
    BY <1>1 DEF Record, Typed
  <2>2. history' \in Seq(Ev)
    BY <2>1, NewestIs, EventBusAssumption DEF Record
  <2>3. due' \in [Readers -> SUBSET Ev]
    BY <1>1 DEF Typed
  <2> QED
    BY <1>1, <2>1, <2>2, <2>3 DEF Typed
<1>4. Numbers'
  <2>1. \A q \in Publishers : pc'[q] = "record" => q # p /\ pc[q] = "record" /\ event[q].by = q
    BY <1>1 DEF Typed
  <2>2. \A q \in Publishers : pc'[q] = "record" => F!Newer(event[q], event[p])
    BY <1>1, <2>1 DEF F!Newer
  <2>3. \A q \in Publishers : pc'[q] # "idle" => pc[q] # "idle"
    BY <1>1
  <2> QED
    BY <1>1, <2>1, <2>2, <2>3 DEF Numbers
<1>5. Aimed'
  BY <1>1 DEF Aimed
<1>6. \A q \in Publishers, r \in Readers : Owes(q, r)' <=> Owes(q, r) \/ (q = p /\ r \in subs)
  BY <1>1 DEF Owes
<1>7. \A s \in Readers : \A e \in ToSet(got[s]) \cup ToSet(queue[s]) \cup lost[s] : e \in ToSet(log)
  <2>1. \A s \in Readers : \A e \in ToSet(got[s]) \cup ToSet(queue[s]) \cup lost[s] : e \in Ev
    BY DEF Typed, ToSet
  <2> QED
    BY <2>1 DEF Kept
<1>8. Behind'
  BY <1>1, <1>6, <1>7 DEF Behind, Numbers
<1>9. Ordered' /\ Quiet'
  BY <1>1 DEF Ordered, Quiet
<1>10. Kept'
  <2>1. \A s \in Readers : due'[s] \subseteq ToSet(log')
    BY <1>1 DEF Kept
  <2>2. \A s \in Readers, e \in Ev : e \in due'[s] <=>
              \/ e \in ToSet(got[s]) \cup ToSet(queue[s]) \cup lost[s]
              \/ \E q \in Publishers : Owes(q, s)' /\ e = event[q]
    BY <1>1, <1>6 DEF Kept
  <2> QED
    BY <1>1, <2>1, <2>2 DEF Kept
<1> QED
  BY <1>2, <1>3, <1>4, <1>5, <1>8, <1>9, <1>10

LEMMA EvictKeeps == ASSUME IInv, NEW p \in Publishers, Evict(p) PROVE IInv'
<1> USE EventBusAssumption DEF IInv
<1>1. PICK s \in Readers : s = target[p] /\ s \in todo[p] /\ pc[p] = "evict"
  BY DEF Evict, Aimed, TypeOK
<1>2. CASE queue[s] = <<>>
  <2>1. Inside(p) /\ Drop(p, s) /\ Served(p, s)
    BY <1>1, <1>2 DEF Evict, Inside, TypeOK
  <2> QED
    BY <1>1, <2>1, DropKeeps
<1>3. CASE queue[s] # <<>>
  <2>0. PICK h : h = Head(queue[s])
    OBVIOUS
  <2>1. /\ queue' = [queue EXCEPT ![s] = Tail(queue[s])]
        /\ lost' = [lost EXCEPT ![s] = lost[s] \cup {h}]
        /\ pc' = [pc EXCEPT ![p] = "retry"]
        /\ UNCHANGED <<counter, event, todo, target, subs, history, dropped, over, stray, timedOut, ended, got, due, log>>
    BY <1>1, <1>3, <2>0 DEF Evict
  <2>2. /\ queue' \in [Readers -> Seq(Ev)]
        /\ \A r \in Readers \ {s} : queue'[r] = queue[r]
        /\ \A r \in Readers : Len(queue'[r]) <= Cap
        /\ h \in Ev /\ ToSet(queue[s]) = {h} \cup ToSet(queue'[s])
        /\ h \notin ToSet(queue'[s]) \cup ToSet(got[s]) \cup lost[s]
        /\ Sorted(queue'[s])
    BY <1>3, <2>0, <2>1, HeadLeaves
  <2>3. lost'[s] = lost[s] \cup {h} /\ \A r \in Readers \ {s} : lost'[r] = lost[r]
    BY <1>1, <2>1 DEF Typed
  <2>4. TypeOK'
    BY <2>1, <2>2 DEF TypeOK
  <2>5. Typed'
    <3>1. lost' \in [Readers -> SUBSET Ev]
      BY <2>1, <2>2, <1>1 DEF Typed
    <3>2. \A q \in Publishers : pc'[q] # "idle" => pc[q] # "idle"
      BY <2>1, <1>1 DEF TypeOK
    <3> QED
      BY <2>1, <2>2, <3>1, <3>2 DEF Typed
  <2>6. Numbers' /\ Aimed'
    BY <1>1, <2>1 DEF Numbers, Aimed, TypeOK
  <2>7. \A q \in Publishers, r \in Readers : Owes(q, r)' <=> Owes(q, r)
    BY <1>1, <2>1 DEF Owes, TypeOK
  <2>8. \A r \in Readers : (ToSet(got[r]) \cup ToSet(queue[r]) \cup lost[r])'
                          = ToSet(got[r]) \cup ToSet(queue[r]) \cup lost[r]
    BY <2>1, <2>2, <2>3
  <2>9. Behind'
    BY <2>1, <2>7, <2>8 DEF Behind
  <2>10. Ordered'
    BY <2>1, <2>2 DEF Ordered
  <2>11. Kept'
    <3>1. (ToSet(got[s]) \cup ToSet(queue'[s])) \cap lost'[s] = {}
      <4>1. (ToSet(got[s]) \cup ToSet(queue[s])) \cap lost[s] = {}
        BY DEF Kept
      <4> QED
        BY <2>2, <2>3, <4>1
    <3>2. \A r \in Readers \ {s} : (ToSet(got[r]) \cup ToSet(queue'[r])) \cap lost'[r] = {}
      BY <2>2, <2>3 DEF Kept
    <3> QED
      BY <2>1, <2>7, <2>8, <3>1, <3>2 DEF Kept
  <2>12. Quiet'
    <3>1. \A r \in Readers : ToSet(queue'[r]) \subseteq ToSet(queue[r])
      BY <2>2
    <3>2. \A q \in Publishers : pc'[q] # "idle" => pc[q] # "idle"
      BY <1>1, <2>1 DEF TypeOK
    <3> QED
      BY <2>1, <3>1, <3>2, EventBusAssumption DEF Quiet
  <2> QED
    BY <2>4, <2>5, <2>6, <2>9, <2>10, <2>11, <2>12
<1> QED
  BY <1>2, <1>3

\* The first put_nowait, and what happens at queue.Full.
LEMMA OfferKeeps == ASSUME IInv, NEW p \in Publishers, Offer(p) PROVE IInv'
<1>1. PICK s \in todo[p] :
          /\ target' = [target EXCEPT ![p] = s]
          /\ \/ ~Full(s) /\ Put(p, s) /\ Served(p, s)
             \/ Full(s) /\ ~Critical(event[p]) /\ Drop(p, s) /\ Served(p, s)
             \/ /\ Full(s) /\ Critical(event[p])
                /\ pc' = [pc EXCEPT ![p] = "evict"]
                /\ UNCHANGED <<queue, dropped, lost, todo>>
  BY DEF Offer
<1>2. Inside(p) /\ s \in Readers /\ pc[p] = "offer"
  BY <1>1 DEF Offer, Inside, IInv, TypeOK
<1>3. CASE ~Full(s) /\ Put(p, s) /\ Served(p, s)
  BY <1>1, <1>2, <1>3, PutKeeps
<1>4. CASE Drop(p, s) /\ Served(p, s)
  BY <1>1, <1>2, <1>4, DropKeeps
<1>5. CASE pc' = [pc EXCEPT ![p] = "evict"] /\ UNCHANGED <<queue, dropped, lost, todo>>
  <2> USE DEF IInv, Inside
  <2>1. TypeOK' /\ Typed'
    BY <1>2, <1>5 DEF TypeOK, Typed
  <2>2. Numbers' /\ Quiet' /\ Ordered'
    BY <1>2, <1>5 DEF TypeOK, Numbers, Quiet, Ordered
  <2>3. Aimed'
    BY <1>1, <1>2, <1>5 DEF TypeOK, Aimed
  <2>4. \A q \in Publishers, r \in Readers : Owes(q, r)' <=> Owes(q, r)
    BY <1>2, <1>5 DEF TypeOK, Owes
  <2>5. Behind' /\ Kept'
    BY <1>2, <1>5, <2>4 DEF Behind, Kept
  <2> QED
    BY <2>1, <2>2, <2>3, <2>5
<1> QED
  BY <1>1, <1>3, <1>4, <1>5

LEMMA RetryKeeps == ASSUME IInv, NEW p \in Publishers, Retry(p) PROVE IInv'
<1>1. PICK s \in Readers : s = target[p] /\ s \in todo[p] /\ pc[p] = "retry"
  BY DEF Retry, Aimed, IInv, TypeOK
<1>2. Inside(p)
  BY <1>1 DEF Retry, Inside, IInv, TypeOK
<1>3. CASE Full(s)
  BY <1>1, <1>2, <1>3, DropKeeps DEF Retry
<1>4. CASE ~Full(s)
  BY <1>1, <1>2, <1>4, PutKeeps DEF Retry
<1> QED
  BY <1>3, <1>4

\* publish() returns owing nobody anything.
LEMMA PublishedKeeps == ASSUME IInv, NEW p \in Publishers, Published(p) PROVE IInv'
<1> USE DEF IInv
<1>1. /\ pc[p] = "offer" /\ todo[p] = {} /\ pc' = [pc EXCEPT ![p] = "idle"]
      /\ UNCHANGED <<counter, event, todo, target, subs, history, queue, dropped, over, stray, timedOut, ended, got, due, lost, log>>
  BY DEF Published
<1>2. TypeOK' /\ Typed'
  BY <1>1 DEF TypeOK, Typed
<1>3. Numbers' /\ Aimed' /\ Ordered' /\ Quiet'
  BY <1>1 DEF TypeOK, Numbers, Aimed, Ordered, Quiet
<1>4. \A q \in Publishers, r \in Readers : Owes(q, r)' <=> Owes(q, r)
  BY <1>1 DEF TypeOK, Owes
<1>5. Behind' /\ Kept'
  BY <1>1, <1>4 DEF Behind, Kept
<1> QED
  BY <1>2, <1>3, <1>5

\* Reading moves the head from the queue to the end of what was given.
LEMMA ReadKeeps == ASSUME IInv, NEW s \in Readers, Read(s) PROVE IInv'
<1> USE EventBusAssumption DEF IInv
<1>0. PICK h : h = Head(queue[s])
  OBVIOUS
<1>1. /\ s \notin ended /\ queue[s] # <<>>
      /\ queue' = [queue EXCEPT ![s] = Tail(queue[s])]
      /\ got' = [got EXCEPT ![s] = Append(got[s], h)]
      /\ UNCHANGED <<counter, pc, event, todo, target, subs, history, dropped, over, stray, timedOut, ended, due, lost, log>>
  BY <1>0 DEF Read
<1>2. /\ queue' \in [Readers -> Seq(Ev)]
      /\ \A r \in Readers \ {s} : queue'[r] = queue[r]
      /\ \A r \in Readers : Len(queue'[r]) <= Cap
      /\ h \in Ev /\ ToSet(queue[s]) = {h} \cup ToSet(queue'[s])
      /\ Sorted(queue'[s])
      /\ \A f \in ToSet(queue'[s]) : F!Newer(f, h)
      /\ \A e \in ToSet(got[s]) : F!Newer(h, e)
  BY <1>0, <1>1, HeadLeaves
<1>3. /\ got'[s] = Append(got[s], h) /\ got[s] \in Seq(Ev)
      /\ \A r \in Readers \ {s} : got'[r] = got[r]
  BY <1>1 DEF Typed
<1>4. ToSet(got'[s]) = ToSet(got[s]) \cup {h}
  BY <1>2, <1>3, ToSetAppend
<1>5. TypeOK'
  BY <1>1, <1>2 DEF TypeOK
<1>6. Typed'
  <2>1. got' \in [Readers -> Seq(Ev)]
    BY <1>1, <1>2, <1>3 DEF Typed
  <2> QED
    BY <1>1, <1>2, <2>1 DEF Typed
<1>7. Numbers' /\ Aimed'
  BY <1>1 DEF Numbers, Aimed
<1>8. Quiet'
  <2>1. \A r \in Readers : ToSet(queue'[r]) \subseteq ToSet(queue[r])
    BY <1>2
  <2> QED
    BY <1>1, <2>1, EventBusAssumption DEF Quiet
<1>9. \A r \in Readers : (ToSet(got[r]) \cup ToSet(queue[r]))' = ToSet(got[r]) \cup ToSet(queue[r])
  BY <1>2, <1>3, <1>4
<1>10. Behind'
  BY <1>1, <1>9 DEF Behind, Owes
<1>11. Kept'
  <2>1. \A q \in Publishers, r \in Readers : Owes(q, r)' <=> Owes(q, r)
    BY <1>1 DEF Owes
  <2>2. \A r \in Readers : due'[r] \subseteq ToSet(log')
    BY <1>1 DEF Kept
  <2>3. \A r \in Readers, e \in Ev : e \in due'[r] <=>
              \/ e \in ToSet(got'[r]) \cup ToSet(queue'[r]) \cup lost'[r]
              \/ \E q \in Publishers : Owes(q, r)' /\ e = event'[q]
    BY <1>1, <1>9, <2>1 DEF Kept
  <2>4. \A r \in Readers : (ToSet(got'[r]) \cup ToSet(queue'[r])) \cap lost'[r] = {}
    BY <1>1, <1>9 DEF Kept
  <2> QED
    BY <2>2, <2>3, <2>4 DEF Kept
<1>12. Ordered'
  <2>1. Sorted(got'[s])
    BY <1>2, <1>3, SortedAppend DEF Ordered
  <2>2. \A e \in ToSet(got'[s]), f \in ToSet(queue'[s]) : F!Newer(f, e)
    BY <1>2, <1>4 DEF Ordered
  <2> QED
    BY <1>2, <1>3, <2>1, <2>2 DEF Ordered
<1> QED
  BY <1>5, <1>6, <1>7, <1>8, <1>10, <1>11, <1>12

\* Subscribing, the session's end and a reader's looks move no event.
LEMMA RestKeeps ==
  ASSUME IInv, \/ \E s \in Readers : Subscribe(s) \/ TimeOut(s) \/ LookAtFlag(s)
               \/ SessionOver
               \/ UNCHANGED vars
  PROVE  IInv'
<1> USE EventBusAssumption DEF IInv
<1>1. UNCHANGED <<counter, pc, event, todo, target, queue, dropped, history, got, due, lost, log>>
  BY DEF Subscribe, TimeOut, LookAtFlag, SessionOver, vars, bus
<1>2. TypeOK'
  <2>1. subs' \subseteq Readers /\ ended' \subseteq Readers /\ over' \in BOOLEAN
    BY DEF TypeOK, Subscribe, TimeOut, LookAtFlag, SessionOver, vars, bus
  <2>2. stray' \subseteq Awaited /\ timedOut' \in [Readers -> {"no", "before", "after"}]
    BY DEF TypeOK, Subscribe, TimeOut, LookAtFlag, SessionOver, vars, bus
  <2> QED
    BY <1>1, <2>1, <2>2 DEF TypeOK
<1>3. Typed' /\ Numbers' /\ Aimed' /\ Ordered'
  BY <1>1 DEF Typed, Numbers, Aimed, Ordered
<1>4. Behind' /\ Kept'
  BY <1>1 DEF Behind, Kept, Owes
<1>5. Quiet'
  <2>1. ASSUME NEW s \in Readers, TimeOut(s) PROVE Quiet'
    <3>1. ToSet(queue[s]) = {}
      BY <2>1 DEF TimeOut, ToSet
    <3>2. /\ timedOut'[s] = IF over THEN "after" ELSE "before"
          /\ \A r \in Readers \ {s} : timedOut'[r] = timedOut[r]
          /\ UNCHANGED <<over, stray, ended>> /\ s \notin ended
      BY <2>1 DEF TimeOut, TypeOK
    <3> QED
      BY <1>1, <3>1, <3>2 DEF Quiet
  <2>2. ASSUME NEW s \in Readers, LookAtFlag(s) PROVE Quiet'
    <3>1. CASE over
      BY <1>1, <2>2, <3>1 DEF LookAtFlag, Quiet
    <3>2. CASE ~over
      BY <1>1, <2>2, <3>2 DEF LookAtFlag, Quiet, TypeOK
    <3> QED
      BY <3>1, <3>2
  <2>3. CASE SessionOver
    BY <1>1, <2>3 DEF Quiet, SessionOver
  <2>4. CASE (\E s \in Readers : Subscribe(s)) \/ UNCHANGED vars
    BY <1>1, <2>4 DEF Quiet, Subscribe, vars, bus
  <2> QED
    BY <2>1, <2>2, <2>3, <2>4
<1> QED
  BY <1>2, <1>3, <1>4, <1>5

LEMMA NextIInv == IInv /\ [Next]_vars => IInv'
<1> SUFFICES ASSUME IInv, [Next]_vars PROVE IInv'
  OBVIOUS
<1>1. ASSUME NEW p \in Publishers, Make(p) \/ PublishStep(p) PROVE IInv'
  BY <1>1, MakeKeeps, RecordKeeps, OfferKeeps, EvictKeeps, RetryKeeps, PublishedKeeps DEF PublishStep
<1>2. ASSUME NEW s \in Readers, Read(s) PROVE IInv'
  BY <1>2, ReadKeeps
<1>3. CASE \/ \E s \in Readers : Subscribe(s) \/ TimeOut(s) \/ LookAtFlag(s)
           \/ SessionOver \/ UNCHANGED vars
  BY <1>3, RestKeeps
<1> QED
  BY <1>1, <1>2, <1>3 DEF Next

LEMMA SpecIInv == Spec => []IInv
BY InitIInv, NextIInv, PTL DEF Spec

-----------------------------------------------------------------------------
(* What the bus remembers.                                                  *)

\* Remembering the newest of the newest is remembering the newest.
LEMMA NewestAppend ==
  ASSUME NEW S, NEW q \in Seq(S), NEW e \in S, NEW n \in Nat
  PROVE  Newest(Append(Newest(q, n), e), n) = Newest(Append(q, e), n)
<1> DEFINE r == Newest(q, n)
<1>1. Len(q) \in Nat /\ Len(Append(q, e)) = Len(q) + 1
  OBVIOUS
<1>2. CASE Len(q) <= n
  <2>1. r = SubSeq(q, 1, Len(q))
    <3>1. ~(Len(q) > n)
      BY <1>1, <1>2
    <3> QED
      BY <3>1, Zenon DEF Newest
  <2>2. r = q
    BY <2>1, SubSeqFull
  <2> QED
    BY <2>2 DEF r
<1>3. CASE Len(q) > n
  <2>1. /\ r \in Seq(S) /\ Len(r) = n
        /\ \A i \in 1..n : r[i] = q[i + Len(q) - n]
    BY <1>3, NewestIs
  <2> HIDE DEF r
  <2>2. /\ Append(r, e) \in Seq(S) /\ Len(Append(r, e)) = n + 1 /\ Append(r, e)[n + 1] = e
        /\ \A i \in 1..n : Append(r, e)[i] = q[i + Len(q) - n]
    <3>1. /\ Append(r, e) \in Seq(S) /\ Len(Append(r, e)) = n + 1 /\ Append(r, e)[n + 1] = e
          /\ \A i \in 1..n : Append(r, e)[i] = r[i]
      BY <2>1
    <3> QED
      BY <2>1, <3>1
  <2>3. /\ Newest(Append(r, e), n) \in Seq(S) /\ Len(Newest(Append(r, e), n)) = n
        /\ \A i \in 1..n : Newest(Append(r, e), n)[i] = Append(r, e)[i + 1]
    <3> DEFINE a == Append(r, e)
    <3>1. a \in Seq(S) /\ Len(a) = n + 1
      BY <2>2
    <3> HIDE DEF a
    <3>0. Len(a) > n
      BY <3>1
    <3>2. Newest(a, n) \in Seq(S) /\ Len(Newest(a, n)) = n /\ \A i \in 1..n : Newest(a, n)[i] = a[i + Len(a) - n]
      BY <3>0, <3>1, NewestIs
    <3>3. \A i \in 1..n : Newest(a, n)[i] = a[i + 1]
      BY <3>1, <3>2
    <3> QED
      BY <3>2, <3>3 DEF a
  <2>4. /\ Newest(Append(q, e), n) \in Seq(S) /\ Len(Newest(Append(q, e), n)) = n
        /\ \A i \in 1..n : Newest(Append(q, e), n)[i] = Append(q, e)[i + 1 + Len(q) - n]
    <3> DEFINE a == Append(q, e)
    <3>1. a \in Seq(S) /\ Len(a) = Len(q) + 1 /\ Len(a) > n
      BY <1>1, <1>3
    <3> HIDE DEF a
    <3>2. Newest(a, n) \in Seq(S) /\ Len(Newest(a, n)) = n /\ \A i \in 1..n : Newest(a, n)[i] = a[i + Len(a) - n]
      BY <3>1, NewestIs
    <3>3. \A i \in 1..n : Newest(a, n)[i] = a[i + 1 + Len(q) - n]
      BY <1>1, <3>1, <3>2
    <3> QED
      BY <3>2, <3>3 DEF a
  <2>5. \A i \in 1..n : Append(r, e)[i + 1] = Append(q, e)[i + 1 + Len(q) - n]
    <3>1. /\ Append(q, e)[Len(q) + 1] = e
          /\ \A i \in 1..Len(q) : Append(q, e)[i] = q[i]
      OBVIOUS
    <3>2. SUFFICES ASSUME NEW i \in 1..n PROVE Append(r, e)[i + 1] = Append(q, e)[i + 1 + Len(q) - n]
      OBVIOUS
    <3>3. CASE i = n
      <4>1. i + 1 + Len(q) - n = Len(q) + 1
        BY <1>1, <3>3
      <4> QED
        BY <2>2, <3>1, <3>3, <4>1
    <3>4. CASE i # n
      <4>1. i + 1 \in 1..n /\ i + 1 + Len(q) - n \in 1..Len(q)
        BY <1>1, <1>3, <3>4
      <4> QED
        BY <2>2, <3>1, <4>1
    <3> QED
      BY <3>3, <3>4
  <2>6. \A i \in 1..n : Newest(Append(r, e), n)[i] = Newest(Append(q, e), n)[i]
    BY <2>3, <2>4, <2>5
  <2>7. Newest(Append(r, e), n) = Newest(Append(q, e), n)
    BY <2>3, <2>4, <2>6
  <2> QED
    BY <2>7 DEF r
<1> QED
  BY <1>1, <1>2, <1>3

\* A step adds the event it records to the bus's memory and forgets the oldest.
LEMMA HistoryKeeps == IInv /\ HistoryIsNewest /\ [Next]_vars => HistoryIsNewest'
<1> SUFFICES ASSUME IInv, HistoryIsNewest, [Next]_vars PROVE HistoryIsNewest'
  OBVIOUS
<1>1. CASE \E p \in Publishers : Record(p)
  <2>1. PICK p \in Publishers : Record(p)
    BY <1>1
  <2>2. event[p] \in Ev /\ log \in Seq(Ev) /\ HistMax \in Nat
    BY <2>1, EventBusAssumption DEF Record, IInv, Typed
  <2>3. /\ history' = Newest(Append(Newest(log, HistMax), event[p]), HistMax)
        /\ log' = Append(log, event[p])
    BY <2>1 DEF Record, HistoryIsNewest
  <2> QED
    BY <2>2, <2>3, NewestAppend DEF HistoryIsNewest
<1>2. CASE UNCHANGED <<history, log>>
  BY <1>2 DEF HistoryIsNewest, Newest
<1> QED
  BY <1>1, <1>2 DEF Next, PublishStep, Make, Offer, Evict, Retry, Published, Subscribe,
     Read, TimeOut, LookAtFlag, SessionOver, vars, bus, Put, Drop

-----------------------------------------------------------------------------
(* The theorems.                                                            *)

\* Every variable of the bus keeps its type, and no queue outgrows its maxsize.
THEOREM BusTypes == Spec => []TypeOK
<1>1. IInv => TypeOK
  BY DEF IInv
<1> QED
  BY <1>1, SpecIInv, PTL

\* Every event due to a reader is with it, before it, lost or on its way: in one
\* of these, and once.
THEOREM BusConserves == Spec => []Conservation
<1>1. IInv => Conservation
  <2> SUFFICES ASSUME IInv, NEW s \in Readers
               PROVE  /\ due[s] = ToSet(Stream(s)) \cup lost[s] \cup Pending(s)
                      /\ ToSet(Stream(s)) \cap (lost[s] \cup Pending(s)) = {}
                      /\ lost[s] \cap Pending(s) = {}
                      /\ IsInjective(Stream(s))
    BY DEF Conservation
  <2> USE DEF IInv
  <2>1. ToSet(Stream(s)) = ToSet(got[s]) \cup ToSet(queue[s])
    BY ToSetConcat DEF Stream, Typed
  <2>2. \A e : e \in Pending(s) <=> \E p \in Publishers : Owes(p, s) /\ e = event[p]
    BY DEF Pending, Owes
  <2>3. \A e \in Pending(s) : e \in Ev
    <3>1. \A p \in Publishers : Owes(p, s) => event[p] \in Ev
      BY DEF Typed, Owes
    <3> QED
      BY <2>2, <3>1
  <2>4. due[s] \subseteq Ev /\ ToSet(Stream(s)) \subseteq Ev /\ lost[s] \subseteq Ev
    <3>1. /\ got[s] \in Seq(Ev) /\ queue[s] \in Seq(Ev)
          /\ due[s] \in SUBSET Ev /\ lost[s] \in SUBSET Ev
      BY DEF Typed
    <3> QED
      BY <2>1, <3>1, ToSetTyped
  <2>5. due[s] = ToSet(Stream(s)) \cup lost[s] \cup Pending(s)
    BY <2>1, <2>2, <2>3, <2>4 DEF Kept
  <2>6. \A e \in Pending(s) : e \notin ToSet(Stream(s)) \cup lost[s]
    <3> SUFFICES ASSUME NEW e \in Pending(s), e \in ToSet(Stream(s)) \cup lost[s] PROVE FALSE
      OBVIOUS
    <3>1. PICK p \in Publishers : Owes(p, s) /\ e = event[p]
      BY <2>2
    <3>2. F!Newer(e, e)
      BY <2>1, <3>1 DEF Behind
    <3> QED
      BY <2>3, <3>2 DEF F!Newer, Ev
  <2>7. IsInjective(Stream(s))
    <3> DEFINE g == got[s]
               q == queue[s]
    <3>1. /\ DOMAIN (g \o q) = 1..Len(g) + Len(q) /\ Len(g) \in Nat /\ Len(q) \in Nat
          /\ DOMAIN g = 1..Len(g) /\ DOMAIN q = 1..Len(q)
          /\ \A i \in 1..Len(g) + Len(q) : (g \o q)[i] = IF i <= Len(g) THEN g[i] ELSE q[i - Len(g)]
      BY DEF Typed
    <3> HIDE DEF g, q
    <3>2. \A e \in ToSet(g) \cup ToSet(q) : ~F!Newer(e, e)
      BY <2>1, <2>4 DEF F!Newer, Ev, g, q
    <3> SUFFICES ASSUME NEW i \in 1..Len(g) + Len(q), NEW j \in 1..Len(g) + Len(q), i < j
                 PROVE  (g \o q)[i] # (g \o q)[j]
      <4>1. Stream(s) = g \o q
        BY DEF Stream, g, q
      <4> QED
        BY <3>1, <4>1 DEF IsInjective
    <3>3. CASE j <= Len(g)
      <4>1. i \in 1..Len(g) /\ j \in 1..Len(g)
        BY <3>1, <3>3
      <4>2. g[i] \in ToSet(g) /\ F!Newer(g[j], g[i])
        BY <3>1, <4>1 DEF Ordered, Sorted, ToSet, g
      <4> QED
        BY <3>1, <3>2, <3>3, <4>2
    <3>4. CASE i > Len(g)
      <4>1. i - Len(g) \in 1..Len(q) /\ j - Len(g) \in 1..Len(q) /\ i - Len(g) < j - Len(g)
        BY <3>1, <3>4
      <4>2. q[i - Len(g)] \in ToSet(q) /\ F!Newer(q[j - Len(g)], q[i - Len(g)])
        BY <3>1, <4>1 DEF Ordered, Sorted, ToSet, q
      <4> QED
        BY <3>1, <3>2, <3>4, <4>2
    <3>5. CASE i <= Len(g) /\ j > Len(g)
      <4>1. i \in 1..Len(g) /\ j - Len(g) \in 1..Len(q)
        BY <3>1, <3>5
      <4>2. g[i] \in ToSet(g) /\ q[j - Len(g)] \in ToSet(q)
        BY <3>1, <4>1 DEF ToSet
      <4>3. F!Newer(q[j - Len(g)], g[i])
        BY <4>2 DEF Ordered, g, q
      <4> QED
        BY <3>1, <3>2, <3>5, <4>2, <4>3
    <3> QED
      BY <3>1, <3>3, <3>4, <3>5
  <2>8. ToSet(Stream(s)) \cap lost[s] = {}
    BY <2>1 DEF Kept
  <2> QED
    BY <2>5, <2>6, <2>7, <2>8
<1> QED
  BY <1>1, SpecIInv, PTL

\* A drainer that found its queue empty after the session has been given all that
\* was due to it and not lost, but for what threads emit that run() gave up on.
THEOREM DrainingIsComplete == Spec => []DrainedMissesNothing
<1>1. IInv => DrainedMissesNothing
  <2> SUFFICES ASSUME IInv, NEW s \in Drainers \cap ended, timedOut[s] # "before",
                      NEW e \in due[s] \ (ToSet(got[s]) \cup lost[s])
               PROVE  e.by \in stray
    BY DEF DrainedMissesNothing
  <2> USE EventBusAssumption DEF IInv
  <2>1. s \in Readers /\ timedOut[s] = "after" /\ over
    BY DEF Quiet, TypeOK
  <2>2. e \in Ev
    BY <2>1 DEF Typed
  <2>3. e \in ToSet(queue[s]) \/ \E p \in Publishers : Owes(p, s) /\ e = event[p]
    BY <2>1, <2>2 DEF Kept
  <2>4. \A p \in Publishers : Owes(p, s) => p \in stray /\ event[p].by = p
    BY <2>1 DEF Quiet, Owes, Typed
  <2> QED
    BY <2>1, <2>3, <2>4 DEF Quiet
<1> QED
  BY <1>1, SpecIInv, PTL

\* The bus remembers exactly the newest HistMax events.
THEOREM HistoryIsExact == Spec => []HistoryIsNewest
<1>1. Init => HistoryIsNewest
  <2> SUFFICES ASSUME Init PROVE HistoryIsNewest
    OBVIOUS
  <2>1. history = <<>> /\ log = <<>> /\ HistMax \in Nat
    BY EventBusAssumption, Zenon DEF Init
  <2> QED
    BY <2>1 DEF HistoryIsNewest, Newest
<1> QED
  BY <1>1, HistoryKeeps, SpecIInv, PTL DEF Spec

\* The bus implements Feed: every step of publish(), of a subscriber and of the
\* loops that read is a step of the lossy ordered channel, or hidden from it.
THEOREM BusImplementsFeed == Spec => ImplementsFeed
<1>1. Init => F!Init
  <2> SUFFICES ASSUME Init PROVE F!Init
    OBVIOUS
  <2>1. /\ log = <<>> /\ got = [s \in Readers |-> <<>>]
        /\ over = FALSE /\ stray = {} /\ ended = {}
    BY Zenon DEF Init
  <2> QED
    BY <2>1 DEF F!Init, ToSet
<1>2. IInv /\ [Next]_vars => [F!Next]_F!feed
  <2> SUFFICES ASSUME IInv, [Next]_vars PROVE [F!Next]_F!feed
    OBVIOUS
  <2>1. CASE \E p \in Publishers : Record(p)
    <3>1. PICK p \in Publishers : Record(p)
      BY <2>1
    <3>2. event[p] \in Ev /\ ToSet(log') = ToSet(log) \cup {event[p]}
      BY <3>1, ToSetAppend DEF Record, IInv, Typed
    <3>3. /\ over => event[p].by \in stray
          /\ \A f \in ToSet(log) : F!Newer(event[p], f)
      BY <3>1 DEF Record, IInv, Quiet, Numbers, Typed
    <3>4. F!Publish(event[p])
      BY <3>1, <3>2, <3>3 DEF Record, F!Publish
    <3> QED
      BY <3>2, <3>4 DEF F!Next, Ev
  <2>2. CASE \E s \in Readers : Read(s)
    <3>1. PICK s \in Readers : Read(s)
      BY <2>2
    <3>2. PICK e : e = Head(queue[s])
      OBVIOUS
    <3>3. e \in ToSet(queue[s]) /\ e \in Ev /\ got[s] \in Seq(Ev)
      BY <3>1, <3>2, ToSetTail DEF Read, IInv, Typed
    <3>4. e \in ToSet(log)
      BY <3>3 DEF IInv, Kept
    <3>5. \A i \in DOMAIN got[s] : F!Newer(e, got[s][i])
      BY <3>3 DEF IInv, Ordered, ToSet
    <3>6. F!Give(s, e)
      BY <3>1, <3>2, <3>4, <3>5 DEF Read, F!Give
    <3> QED
      BY <3>3, <3>6 DEF F!Next, Ev
  <2>3. CASE \E s \in Readers : LookAtFlag(s)
    BY <2>3 DEF LookAtFlag, F!Next, F!Close, F!feed
  <2>4. CASE SessionOver
    BY <2>4 DEF SessionOver, F!Next, F!Finish
  <2>5. CASE UNCHANGED <<log, got, over, stray, ended>>
    BY <2>5 DEF F!feed, ToSet
  <2> QED
    BY <2>1, <2>2, <2>3, <2>4, <2>5 DEF Next, PublishStep, Make, Offer, Evict, Retry, Published,
       Subscribe, TimeOut, vars, bus
<1> QED
  BY <1>1, <1>2, SpecIInv, PTL DEF Spec, ImplementsFeed, F!Spec

=============================================================================
