---------------------------- MODULE ClientsProofs -----------------------------
(***************************************************************************)
(* Proofs about Clients: what the dashboard sends down a connection is what *)
(* the client at its other end makes of it.  First the frame format: a      *)
(* length that fits its bytes is read as it was written, and so is a frame, *)
(* wherever the bytes are cut.  Then the invariant: for a connection that   *)
(* lives, the bytes in its buffers, in its decoder and in the hands of the  *)
(* thread that is sending are exactly the frames of the messages that its   *)
(* client is owed and has not been told.                                    *)
(***************************************************************************)
EXTENDS Clients, SequenceTheorems, WellFoundedInduction, TLAPS

-----------------------------------------------------------------------------
(* Induction and recursion over the length of a list.                       *)

\* A set of numbers that is not empty has a least one.
LEMMA Least ==
    ASSUME NEW T \in SUBSET Nat, T # {}
    PROVE  \E n \in T : \A m \in T : n <= m
<1>1. PICK n \in T : \A m \in T : <<m, n>> \notin OpToRel(<, Nat)
  BY WFMin, NatLessThanWellFounded, Zenon
<1>2. \A m \in T : ~ (m < n)
  BY <1>1 DEF OpToRel
<1> QED
  BY <1>2

\* Induction up to n, over a set.
LEMMA UpTo ==
    ASSUME NEW n \in Nat, NEW T, 0 \in T, \A i \in 1..n : i - 1 \in T => i \in T
    PROVE  \A i \in 0..n : i \in T
<1>1. SUFFICES ASSUME {i \in 0..n : i \notin T} # {} PROVE FALSE
  OBVIOUS
<1>2. PICK i \in 0..n : i \notin T /\ \A m \in {j \in 0..n : j \notin T} : i <= m
  <2> DEFINE U == {j \in 0..n : j \notin T}
  <2>1. U \in SUBSET Nat /\ U # {}
    BY <1>1
  <2> HIDE DEF U
  <2>2. PICK i \in U : \A m \in U : i <= m
    BY <2>1, Least
  <2> QED
    BY <2>2 DEF U
<1>3. i # 0
  BY <1>2
<1>4. i - 1 \in T
  BY <1>2, <1>3
<1> QED
  BY <1>2, <1>3, <1>4

\* f begins with b and goes on by the steps.
Iterates(f, n, b, step) == f[0] = b /\ \A i \in 1..n : f[i] = step[i][f[i - 1]]

\* There is such a function: what a recursive definition over 0..n defines.
LEMMA Recursion ==
    ASSUME NEW S, NEW n \in Nat, NEW b \in S, NEW step \in [1..n -> [S -> S]]
    PROVE  \E f \in [0..n -> S] : Iterates(f, n, b, step)
<1> DEFINE Goes(k, f) == f[0] = b /\ \A i \in 1..k : f[i] = step[i][f[i - 1]]
           T == {k \in 0..n : \E f \in [0..k -> S] : Goes(k, f)}
<1>1. 0 \in T
  <2>1. [i \in 0..0 |-> b] \in [0..0 -> S] /\ Goes(0, [i \in 0..0 |-> b])
    OBVIOUS
  <2> HIDE DEF Goes
  <2>2. \E f \in [0..0 -> S] : Goes(0, f)
    BY <2>1, Zenon
  <2> QED
    BY <2>2
<1>2. ASSUME NEW k \in 1..n, k - 1 \in T PROVE k \in T
  <2>1. PICK f \in [0..k - 1 -> S] : Goes(k - 1, f)
    BY <1>2
  <2> DEFINE g == [i \in 0..k |-> IF i = k THEN step[k][f[k - 1]] ELSE f[i]]
  <2>2. step[k][f[k - 1]] \in S
    <3>1. f[k - 1] \in S /\ step[k] \in [S -> S]
      OBVIOUS
    <3> QED
      BY <3>1
  <2>3. g \in [0..k -> S]
    BY <2>2
  <2>4. Goes(k, g)
    <3>1. g[0] = b
      BY <2>1
    <3>2. ASSUME NEW i \in 1..k PROVE g[i] = step[i][g[i - 1]]
      <4>1. g[i - 1] = f[i - 1]
        OBVIOUS
      <4>2. CASE i = k
        BY <4>1, <4>2
      <4>3. CASE i # k
        BY <2>1, <4>1, <4>3
      <4> QED
        BY <4>2, <4>3
    <3> QED
      BY <3>1, <3>2
  <2> HIDE DEF Goes, g
  <2>5. \E h \in [0..k -> S] : Goes(k, h)
    BY <2>3, <2>4, Zenon
  <2> QED
    BY <2>5
<1> HIDE DEF T
<1>3. n \in T
  <2>1. \A k \in 0..n : k \in T
    BY <1>1, <1>2, UpTo, Zenon
  <2> QED
    BY <2>1
<1>4. PICK f \in [0..n -> S] : Goes(n, f)
  BY <1>3 DEF T
<1> QED
  BY <1>4 DEF Iterates

-----------------------------------------------------------------------------
(* Bytes of a length.                                                       *)

\* What the recursion in Shifts asks of its function.
IsShifts(q, n, k) == q = [i \in 0..k |-> IF i = 0 THEN n ELSE q[i - 1] \div Base]

\* The bytes of n, taken off one by one.
Shifting(q, n, k) ==
    /\ q \in [0..k -> Nat] /\ q[0] = n
    /\ \A i \in 1..k : q[i - 1] = q[i] * Base + (q[i - 1] % Base) /\ q[i - 1] % Base \in Nat

\* Division with a remainder.
LEMMA DivMod ==
    ASSUME NEW n \in Nat
    PROVE  n \div Base \in Nat /\ n % Base \in Nat /\ n = (n \div Base) * Base + (n % Base)
<1>1. n % Base \in Nat
  BY ClientsAssumption
<1>2. n \div Base \in Nat
  BY ClientsAssumption
<1>3. n = (n \div Base) * Base + (n % Base)
  BY ClientsAssumption
<1> QED
  BY <1>1, <1>2, <1>3

\* Shifts is what it says.
LEMMA ShiftsDef ==
    ASSUME NEW n \in Nat, NEW k \in Nat
    PROVE  Shifting(Shifts(n, k), n, k)
<1> DEFINE step == [i \in 1..k |-> [v \in Nat |-> v \div Base]]
<1>1. step \in [1..k -> [Nat -> Nat]]
  BY DivMod
<1>2. PICK f \in [0..k -> Nat] : f[0] = n /\ \A i \in 1..k : f[i] = step[i][f[i - 1]]
  <2> HIDE DEF step
  <2>1. \E f \in [0..k -> Nat] : Iterates(f, k, n, step)
    BY <1>1, Recursion
  <2> QED
    BY <2>1 DEF Iterates
<1>3. \A i \in 1..k : f[i] = f[i - 1] \div Base
  <2>1. ASSUME NEW i \in 1..k PROVE step[i][f[i - 1]] = f[i - 1] \div Base
    <3>1. f[i - 1] \in Nat
      OBVIOUS
    <3> QED
      BY <3>1
  <2> QED
    BY <1>2, <2>1
<1> DEFINE g == [i \in 0..k |-> IF i = 0 THEN n ELSE f[i - 1] \div Base]
<1>4. f = g
  <2>1. ASSUME NEW i \in 0..k PROVE f[i] = g[i]
    <3>1. CASE i = 0
      BY <1>2, <3>1
    <3>2. CASE i # 0
      <4>1. i \in 1..k
        BY <3>2
      <4> QED
        BY <1>3, <3>2, <4>1
    <3> QED
      BY <3>1, <3>2
  <2> QED
    BY <2>1
<1>5. \E q : IsShifts(q, n, k)
  BY <1>4 DEF IsShifts
<1> DEFINE q == CHOOSE h : IsShifts(h, n, k)
<1>6. Shifts(n, k) = q
  BY DEF Shifts, IsShifts
<1>7. IsShifts(q, n, k)
  BY <1>5, Zenon
<1> HIDE DEF q
<1>8. q[0] = n /\ \A i \in 1..k : q[i] = q[i - 1] \div Base
  <2>1. \A i \in 0..k : q[i] = IF i = 0 THEN n ELSE q[i - 1] \div Base
    BY <1>7, Zenon DEF IsShifts
  <2> QED
    BY <2>1
<1> DEFINE T == {i \in 0..k : q[i] \in Nat}
<1>9. \A i \in 0..k : i \in T
  <2>1. 0 \in T
    BY <1>8
  <2>2. ASSUME NEW i \in 1..k, i - 1 \in T PROVE i \in T
    <3>1. PICK m \in Nat : m = q[i - 1] /\ q[i] = m \div Base
      BY <1>8, <2>2
    <3>2. m \div Base \in Nat
      BY DivMod
    <3> QED
      BY <3>1, <3>2
  <2> HIDE DEF T
  <2> QED
    BY <2>1, <2>2, UpTo, Zenon
<1>10. q \in [0..k -> Nat]
  <2>1. q = [i \in 0..k |-> IF i = 0 THEN n ELSE q[i - 1] \div Base]
    BY <1>7, Zenon DEF IsShifts
  <2>2. \A i \in 0..k : q[i] \in Nat
    BY <1>9
  <2> QED
    BY <1>8, <2>1, <2>2
<1>11. ASSUME NEW i \in 1..k
       PROVE  q[i - 1] = q[i] * Base + (q[i - 1] % Base) /\ q[i - 1] % Base \in Nat
  <2>1. PICK m \in Nat : m = q[i - 1]
    BY <1>10
  <2>2. m = (m \div Base) * Base + (m % Base) /\ m % Base \in Nat
    BY DivMod
  <2> QED
    BY <1>8, <2>1, <2>2
<1> QED
  BY <1>6, <1>8, <1>10, <1>11 DEF Shifting

\* What the recursion in Number asks of its function.
IsNumber(v, ds) == v = [i \in 0..Len(ds) |-> IF i = 0 THEN 0 ELSE v[i - 1] * Base + ds[i]]
Summing(v, ds) ==
    /\ Number(ds) = v[Len(ds)]
    /\ v[0] = 0 /\ \A i \in 1..Len(ds) : v[i] = v[i - 1] * Base + ds[i]

\* Number is what it says.
LEMMA NumberDef ==
    ASSUME NEW ds \in Seq(Nat)
    PROVE  \E v : Summing(v, ds)
<1> DEFINE k    == Len(ds)
           step == [i \in 1..k |-> [v \in Nat |-> v * Base + ds[i]]]
<1>0. k \in Nat
  OBVIOUS
<1>1. step \in [1..k -> [Nat -> Nat]]
  <2>1. ASSUME NEW i \in 1..k, NEW v \in Nat PROVE v * Base + ds[i] \in Nat
    <3>1. v * Base \in Nat /\ ds[i] \in Nat
      BY ClientsAssumption
    <3> QED
      BY <3>1
  <2> QED
    BY <2>1
<1>2. PICK f \in [0..k -> Nat] : f[0] = 0 /\ \A i \in 1..k : f[i] = step[i][f[i - 1]]
  <2> HIDE DEF step, k
  <2>1. \E f \in [0..k -> Nat] : Iterates(f, k, 0, step)
    BY <1>0, <1>1, Recursion
  <2> QED
    BY <2>1 DEF Iterates
<1>3. \A i \in 1..k : f[i] = f[i - 1] * Base + ds[i]
  <2>1. ASSUME NEW i \in 1..k PROVE step[i][f[i - 1]] = f[i - 1] * Base + ds[i]
    <3>1. f[i - 1] \in Nat
      BY <1>0
    <3> QED
      BY <3>1
  <2> QED
    BY <1>2, <2>1
<1> DEFINE g == [i \in 0..k |-> IF i = 0 THEN 0 ELSE f[i - 1] * Base + ds[i]]
<1>4. f = g
  <2>1. ASSUME NEW i \in 0..k PROVE f[i] = g[i]
    <3>1. CASE i = 0
      BY <1>2, <3>1
    <3>2. CASE i # 0
      <4>1. i \in 1..k
        BY <1>0, <3>2
      <4> QED
        BY <1>3, <3>2, <4>1
    <3> QED
      BY <3>1, <3>2
  <2> QED
    BY <2>1
<1>5. \E v : IsNumber(v, ds)
  BY <1>4 DEF IsNumber
<1> DEFINE w == CHOOSE h : IsNumber(h, ds)
<1>6. Number(ds) = w[Len(ds)]
  BY DEF Number, IsNumber
<1>7. IsNumber(w, ds)
  BY <1>5, Zenon
<1> HIDE DEF w
<1>8. w[0] = 0 /\ \A i \in 1..Len(ds) : w[i] = w[i - 1] * Base + ds[i]
  <2>1. \A i \in 0..Len(ds) : w[i] = IF i = 0 THEN 0 ELSE w[i - 1] * Base + ds[i]
    BY <1>7, Zenon DEF IsNumber
  <2> QED
    BY <1>0, <2>1
<1>9. Summing(w, ds)
  BY <1>6, <1>8 DEF Summing
<1> HIDE DEF k, step
<1> QED
  BY <1>9, Zenon

\* struct.unpack takes back what struct.pack has written.
LEMMA RoundTrip ==
    ASSUME NEW n \in Nat, NEW k \in Nat
    PROVE  /\ Digits(n, k) \in Seq(Nat) /\ Len(Digits(n, k)) = k
           /\ Fits(n, k) => Number(Digits(n, k)) = n
<1> DEFINE q == Shifts(n, k)
           ds == Digits(n, k)
<1>1. Shifting(q, n, k)
  BY ShiftsDef
<1>2. ds = [i \in 1..k |-> q[k - i] % Base]
  BY DEF Digits
<1>3. Fits(n, k) => q[k] = 0
  BY DEF Fits
<1> HIDE DEF q, ds
<1>4. \A i \in 1..k : q[k - i] % Base \in Nat /\ q[k - i] = q[k - (i - 1)] * Base + (q[k - i] % Base)
  <2>1. ASSUME NEW i \in 1..k
        PROVE  q[k - i] % Base \in Nat /\ q[k - i] = q[k - (i - 1)] * Base + (q[k - i] % Base)
    <3>1. PICK j \in 1..k : j = k - (i - 1) /\ j - 1 = k - i
      OBVIOUS
    <3> QED
      BY <1>1, <3>1 DEF Shifting
  <2> QED
    BY <2>1
<1>5a. ds \in [1..k -> Nat]
  BY <1>2, <1>4
<1>5. ds \in Seq(Nat) /\ Len(ds) = k
  BY <1>5a
<1>6. ASSUME Fits(n, k) PROVE Number(ds) = n
  <2>1. PICK v : Summing(v, ds)
    BY <1>5, NumberDef
  <2> DEFINE T == {i \in 0..k : v[i] = q[k - i]}
  <2>2. 0 \in T
    BY <1>3, <1>6, <2>1 DEF Summing
  <2>3. ASSUME NEW i \in 1..k, i - 1 \in T PROVE i \in T
    <3>1. v[i] = v[i - 1] * Base + ds[i]
      BY <1>5, <2>1 DEF Summing
    <3>2. v[i - 1] = q[k - (i - 1)]
      BY <2>3
    <3>3. ds[i] = q[k - i] % Base
      BY <1>2
    <3> QED
      BY <1>4, <3>1, <3>2, <3>3
  <2> HIDE DEF T
  <2>4. \A i \in 0..k : i \in T
    BY <2>2, <2>3, UpTo, Zenon
  <2>5. v[k] = q[0]
    <3>1. k \in 0..k /\ k - k = 0
      OBVIOUS
    <3> QED
      BY <2>4, <3>1 DEF T
  <2> QED
    BY <1>1, <1>5, <2>1, <2>5 DEF Summing, Shifting
<1> QED
  BY <1>5, <1>6 DEF ds

-----------------------------------------------------------------------------
(* Sequences.                                                               *)

\* q is s and then t; u is the part of s from i to j.
Joins(q, s, t) ==
    /\ Len(q) = Len(s) + Len(t)
    /\ \A i \in 1..Len(s) : q[i] = s[i]
    /\ \A i \in 1..Len(t) : q[Len(s) + i] = t[i]
Cuts(u, s, i, j) ==
    /\ Len(u) = j - (i - 1)
    /\ \A k \in 1..Len(u) : u[k] = s[(i - 1) + k]

\* One sequence after the other.
LEMMA Joined ==
    ASSUME NEW S, NEW s \in Seq(S), NEW t \in Seq(S)
    PROVE  s \o t \in Seq(S) /\ Joins(s \o t, s, t)
BY DEF Joins

\* A part of a sequence.
LEMMA Cut ==
    ASSUME NEW S, NEW s \in Seq(S), NEW i \in 1..Len(s) + 1, NEW j \in i - 1..Len(s)
    PROVE  SubSeq(s, i, j) \in Seq(S) /\ Cuts(SubSeq(s, i, j), s, i, j)
BY DEF Cuts

\* The first bytes of a string, and the others.
LEMMA Parted ==
    ASSUME NEW S, NEW s \in Seq(S), NEW n \in 0..Len(s)
    PROVE  /\ SubSeq(s, 1, n) \in Seq(S) /\ Len(SubSeq(s, 1, n)) = n
           /\ SubSeq(s, n + 1, Len(s)) \in Seq(S) /\ Len(SubSeq(s, n + 1, Len(s))) = Len(s) - n
           /\ SubSeq(s, 1, n) \o SubSeq(s, n + 1, Len(s)) = s
<1>1. Len(s) \in Nat /\ n \in Nat /\ n <= Len(s) /\ 1 \in 1..Len(s) + 1 /\ n \in 1 - 1..Len(s) /\ Len(s) \in n..Len(s)
  OBVIOUS
<1>2. n + 1 \in 1..Len(s) + 1 /\ Len(s) \in (n + 1) - 1..Len(s) /\ (n + 1) - 1 = n /\ n - (1 - 1) = n
  BY <1>1
<1>3. SubSeq(s, 1, n) \in Seq(S) /\ Len(SubSeq(s, 1, n)) = n
  BY <1>1, <1>2, Cut DEF Cuts
<1>4. SubSeq(s, n + 1, Len(s)) \in Seq(S) /\ Len(SubSeq(s, n + 1, Len(s))) = Len(s) - n
  BY <1>1, <1>2, Cut DEF Cuts
<1>5. SubSeq(s, 1, n) \o SubSeq(s, n + 1, Len(s)) = SubSeq(s, 1, Len(s))
  BY <1>1, ConcatAdjacentSubSeq
<1> QED
  BY <1>3, <1>4, <1>5, SubSeqFull

\* What follows two beginnings of the same length is the same.
LEMMA Cancel ==
    ASSUME NEW S, NEW u \in Seq(S), NEW v \in Seq(S), NEW x \in Seq(S), NEW y \in Seq(S),
           Len(u) = Len(v), u \o x = v \o y
    PROVE  x = y
<1>1. PICK q \in Seq(S) : q = u \o x /\ Joins(q, u, x) /\ Joins(q, v, y)
  BY Joined
<1>2. Len(x) = Len(y)
  BY <1>1 DEF Joins
<1>3. \A i \in 1..Len(x) : x[i] = y[i]
  BY <1>1, <1>2 DEF Joins
<1> QED
  BY <1>2, <1>3, SeqEqual

\* The head and the tail of a sequence.
LEMMA Headed ==
    ASSUME NEW S, NEW s \in Seq(S), s # <<>>
    PROVE  /\ Head(s) \in S /\ Tail(s) \in Seq(S) /\ s = <<Head(s)>> \o Tail(s)
           /\ ToSet(s) = {Head(s)} \cup ToSet(Tail(s))
           /\ IsInjective(s) => IsInjective(Tail(s)) /\ Head(s) \notin ToSet(Tail(s))
<1>1. PICK a \in S, t \in Seq(S) : /\ a = Head(s) /\ t = Tail(s) /\ Len(t) = Len(s) - 1 /\ s[1] = a
                                   /\ \A i \in 1..Len(t) : t[i] = s[i + 1]
  <2>1. Len(s) \in Nat /\ Len(s) > 0
    BY EmptySeq
  <2>2. /\ Head(s) \in S /\ Tail(s) \in Seq(S) /\ Len(Tail(s)) = Len(s) - 1 /\ s[1] = Head(s)
        /\ \A i \in 1..Len(Tail(s)) : Tail(s)[i] = s[i + 1]
    BY <2>1, HeadTailProperties
  <2> QED
    BY <2>2
<1>2. Len(s) \in Nat /\ Len(s) > 0 /\ Len(t) \in Nat /\ Len(s) = Len(t) + 1
  BY <1>1, EmptySeq
<1>3. s = <<a>> \o t
  BY <1>1, <1>2
<1>4. ToSet(s) = {a} \cup ToSet(t)
  <2>1. ASSUME NEW y PROVE y \in ToSet(s) <=> y = a \/ y \in ToSet(t)
    <3>1. \A i \in 1..Len(s) : i # 1 => i - 1 \in 1..Len(t) /\ s[i] = t[i - 1]
      <4>1. ASSUME NEW i \in 1..Len(s), i # 1 PROVE i - 1 \in 1..Len(t) /\ s[i] = t[i - 1]
        <5>1. i - 1 \in 1..Len(t) /\ (i - 1) + 1 = i
          BY <1>2, <4>1
        <5> QED
          BY <1>1, <5>1
      <4> QED
        BY <4>1
    <3>2. \A i \in 1..Len(t) : i + 1 \in 1..Len(s) /\ s[i + 1] = t[i]
      BY <1>1, <1>2
    <3>3. DOMAIN s = 1..Len(s) /\ DOMAIN t = 1..Len(t) /\ 1 \in 1..Len(s)
      BY <1>2
    <3>4. ASSUME y \in ToSet(s) PROVE y = a \/ y \in ToSet(t)
      <4>1. PICK i \in 1..Len(s) : y = s[i]
        BY <3>3, <3>4 DEF ToSet
      <4> QED
        BY <1>1, <3>1, <3>3, <4>1 DEF ToSet
    <3>5. ASSUME y \in ToSet(t) PROVE y \in ToSet(s)
      <4>1. PICK i \in 1..Len(t) : y = t[i]
        BY <3>3, <3>5 DEF ToSet
      <4> QED
        BY <3>2, <3>3, <4>1 DEF ToSet
    <3>6. a \in ToSet(s)
      BY <1>1, <3>3 DEF ToSet
    <3> QED
      BY <3>4, <3>5, <3>6
  <2> QED
    BY <2>1
<1>5. ASSUME IsInjective(s) PROVE IsInjective(t) /\ a \notin ToSet(t)
  <2>1. \A i, j \in 1..Len(s) : s[i] = s[j] => i = j
    BY <1>5 DEF IsInjective
  <2>2. \A i \in 1..Len(t) : i + 1 \in 1..Len(s) /\ i + 1 # 1 /\ 1 \in 1..Len(s)
    BY <1>2
  <2>3. \A i, j \in 1..Len(t) : t[i] = t[j] => i = j
    BY <1>1, <1>2, <2>1, <2>2
  <2>4. \A i \in 1..Len(t) : t[i] # a
    BY <1>1, <2>1, <2>2
  <2>5. DOMAIN t = 1..Len(t)
    OBVIOUS
  <2> QED
    BY <2>3, <2>4, <2>5 DEF IsInjective, ToSet
<1> QED
  BY <1>1, <1>3, <1>4, <1>5

\* A sequence that has an element, and one that has none.
LEMMA Members ==
    ASSUME NEW S, NEW s \in Seq(S)
    PROVE  ToSet(s) \subseteq S /\ (s = <<>> <=> ToSet(s) = {}) /\ (s # <<>> => Head(s) \in ToSet(s))
<1>1. ToSet(s) \subseteq S
  BY DEF ToSet
<1>2. ToSet(<<>>) = {}
  BY DEF ToSet
<1>3. ASSUME s # <<>> PROVE ToSet(s) # {} /\ Head(s) \in ToSet(s)
  <2>1. ToSet(s) = {Head(s)} \cup ToSet(Tail(s))
    BY <1>3, Headed
  <2> QED
    BY <2>1
<1> QED
  BY <1>1, <1>2, <1>3

\* It does not matter in which order strings are joined.
LEMMA Regroup ==
    ASSUME NEW u \in Seq(Nat), NEW v \in Seq(Nat), NEW w \in Seq(Nat)
    PROVE  (u \o v) \o w = u \o (v \o w)
OBVIOUS

\* What comes after the first j of a list that has become longer.
LEMMA Later ==
    ASSUME NEW S, NEW l \in Seq(S), NEW x \in S, NEW j \in 0..Len(l)
    PROVE  SubSeq(Append(l, x), j + 1, Len(Append(l, x))) = SubSeq(l, j + 1, Len(l)) \o <<x>>
<1>1. PICK a \in Seq(S) : /\ a = Append(l, x) /\ Len(a) = Len(l) + 1 /\ a[Len(l) + 1] = x
                          /\ \A i \in 1..Len(l) : a[i] = l[i]
  <2>1. /\ Append(l, x) \in Seq(S) /\ Len(Append(l, x)) = Len(l) + 1 /\ Append(l, x)[Len(l) + 1] = x
        /\ \A i \in 1..Len(l) : Append(l, x)[i] = l[i]
    BY AppendProperties
  <2> QED
    BY <2>1
<1>2. PICK n \in Nat : n = Len(l) /\ j \in 0..n /\ Len(a) = n + 1
  <2>1. Len(l) \in Nat
    OBVIOUS
  <2> QED
    BY <1>1, <2>1
<1>3. /\ j + 1 \in 1..n + 1 /\ n + 1 \in j + 1..n + 1 /\ (n + 1) - 1 = n /\ n \in (j + 1) - 1..n + 1
      /\ n \in (j + 1) - 1..n /\ j + 1 \in 1..(n + 1) + 1 /\ (j + 1) - 1 = j
  BY <1>2
<1>4. SubSeq(a, j + 1, n + 1) = SubSeq(a, j + 1, n) \o <<a[n + 1]>>
  <2>1. SubSeq(a, j + 1, n + 1) = SubSeq(a, j + 1, (n + 1) - 1) \o <<a[n + 1]>>
    BY <1>2, <1>3, SubSeqRecursiveSecond
  <2> QED
    BY <1>3, <2>1
<1>5. PICK u \in Seq(S) : u = SubSeq(a, j + 1, n) /\ Cuts(u, a, j + 1, n)
  BY <1>2, <1>3, Cut
<1>6. PICK v \in Seq(S) : v = SubSeq(l, j + 1, n) /\ Cuts(v, l, j + 1, n)
  BY <1>2, <1>3, Cut
<1>7. Len(u) = n - j /\ Len(v) = n - j
  BY <1>3, <1>5, <1>6 DEF Cuts
<1>8. ASSUME NEW i \in 1..Len(u) PROVE u[i] = v[i]
  <2>1. j + i \in 1..n
    BY <1>2, <1>7
  <2>2. u[i] = a[j + i] /\ v[i] = l[j + i]
    BY <1>3, <1>5, <1>6, <1>7 DEF Cuts
  <2> QED
    BY <1>1, <1>2, <2>1, <2>2
<1>9. u = v
  BY <1>7, <1>8, SeqEqual
<1> QED
  BY <1>1, <1>2, <1>4, <1>5, <1>6, <1>9

\* A string that has grown at its end.
LEMMA Grown ==
    ASSUME NEW s \in Seq(Nat), NEW x \in Seq(Nat)
    PROVE  /\ s \o x \in Seq(Nat) /\ Len(s \o x) = Len(s) + Len(x)
           /\ s # <<>> \/ x # <<>> => s \o x # <<>>
           /\ s # <<>> => Tail(s \o x) = Tail(s) \o x
<1>1. PICK q \in Seq(Nat) : q = s \o x /\ Joins(q, s, x)
  BY Joined
<1>2. Len(s) \in Nat /\ Len(x) \in Nat /\ (s # <<>> => Len(s) > 0) /\ (x # <<>> => Len(x) > 0)
  BY EmptySeq
<1>3. Len(q) = Len(s) + Len(x)
  BY <1>1 DEF Joins
<1>4. s # <<>> \/ x # <<>> => q # <<>>
  BY <1>2, <1>3
<1>5. ASSUME s # <<>> PROVE Tail(q) = Tail(s) \o x
  <2>1. PICK t \in Seq(Nat) : t = Tail(s) /\ Len(t) = Len(s) - 1 /\ \A i \in 1..Len(t) : t[i] = s[i + 1]
    BY <1>2, <1>5, HeadTailProperties
  <2>2. PICK r \in Seq(Nat) : r = t \o x /\ Joins(r, t, x)
    BY Joined
  <2>3. PICK u \in Seq(Nat) : u = Tail(q) /\ Len(u) = Len(q) - 1 /\ \A i \in 1..Len(u) : u[i] = q[i + 1]
    BY <1>2, <1>4, <1>5, HeadTailProperties
  <2>4. PICK T \in Nat, X \in Nat : T = Len(t) /\ X = Len(x) /\ Len(s) = T + 1 /\ Len(u) = T + X /\ Len(r) = T + X
    <3>1. PICK T \in Nat, X \in Nat : T = Len(t) /\ X = Len(x)
      OBVIOUS
    <3>2. Len(s) = T + 1
      BY <1>2, <2>1, <3>1
    <3>3. Len(u) = T + X
      BY <1>3, <2>3, <3>1, <3>2
    <3>4. Len(r) = T + X
      BY <2>2, <3>1 DEF Joins
    <3> QED
      BY <3>1, <3>2, <3>3, <3>4
  <2>5. ASSUME NEW i \in 1..T + X PROVE u[i] = r[i]
    <3>1. u[i] = q[i + 1]
      BY <2>3, <2>4
    <3>2. CASE i <= T
      <4>1. i \in 1..T /\ i + 1 \in 1..T + 1
        BY <3>2
      <4>2. q[i + 1] = s[i + 1] /\ t[i] = s[i + 1] /\ r[i] = t[i]
        BY <1>1, <2>1, <2>2, <2>4, <4>1 DEF Joins
      <4> QED
        BY <3>1, <4>2
    <3>3. CASE ~(i <= T)
      <4>1. PICK j \in 1..X : i = T + j /\ i + 1 = (T + 1) + j
        <5>1. i - T \in 1..X /\ i = T + (i - T) /\ i + 1 = (T + 1) + (i - T)
          BY <3>3
        <5> QED
          BY <5>1
      <4>2. q[(T + 1) + j] = x[j] /\ r[T + j] = x[j]
        BY <1>1, <2>2, <2>4 DEF Joins
      <4> QED
        BY <3>1, <4>1, <4>2
    <3> QED
      BY <3>2, <3>3
  <2>6. u = r
    BY <2>4, <2>5, SeqEqual
  <2> QED
    BY <2>1, <2>2, <2>3, <2>6
<1> QED
  BY <1>1, <1>3, <1>4, <1>5

-----------------------------------------------------------------------------
(* A frame, and what _decode_frame makes of its bytes.                      *)

\* What a header says: the length itself, or how many bytes it takes, and these bytes.
Heads(h, n) ==
    \/ Len(h) = 2 /\ h[2] = n /\ n < L7
    \/ Len(h) = 2 + Narrow /\ h[2] = L7 /\ Number(SubSeq(h, 3, 2 + Narrow)) = n
    \/ Len(h) = 2 + Wide /\ h[2] = L7 + 1 /\ Number(SubSeq(h, 3, 2 + Wide)) = n

\* The sizes as the format needs them.
LEMMA Formats ==
    /\ \A n \in Sizes : n \in Nat /\ n > 0 /\ Fits(n, Wide)
    /\ Narrow \in Nat /\ Narrow > 0 /\ Wide \in Nat /\ Wide > Narrow /\ L7 \in Nat
BY ClientsAssumption

\* A byte that announces k bytes, after the first one, and these bytes.
LEMMA LongHeader ==
    ASSUME NEW n \in Nat, NEW k \in Nat, NEW a \in Nat, Fits(n, k)
    PROVE  /\ <<1>> \o (<<a>> \o Digits(n, k)) \in Seq(Nat)
           /\ Len(<<1>> \o (<<a>> \o Digits(n, k))) = 2 + k
           /\ (<<1>> \o (<<a>> \o Digits(n, k)))[2] = a
           /\ Number(SubSeq(<<1>> \o (<<a>> \o Digits(n, k)), 3, 2 + k)) = n
<1>1. PICK ds \in Seq(Nat) : ds = Digits(n, k) /\ Len(ds) = k /\ Number(ds) = n
  BY RoundTrip
<1>2. <<1>> \o (<<a>> \o ds) \in Seq(Nat)
  OBVIOUS
<1>3. PICK h \in Seq(Nat) : h = <<1>> \o (<<a>> \o ds)
  BY <1>2
<1>4. Len(h) = 2 + k /\ h[2] = a /\ \A i \in 1..k : h[2 + i] = ds[i]
  BY <1>1, <1>3
<1>5. SubSeq(h, 3, 2 + k) = ds
  <2>1. 3 \in 1..Len(h) + 1 /\ 2 + k \in 3 - 1..Len(h) /\ 3 - 1 = 2
    BY <1>4
  <2>2. PICK u \in Seq(Nat) : u = SubSeq(h, 3, 2 + k) /\ Cuts(u, h, 3, 2 + k)
    BY <2>1, Cut
  <2>3. Len(u) = k /\ \A i \in 1..k : u[i] = ds[i]
    BY <1>4, <2>1, <2>2 DEF Cuts
  <2> QED
    BY <1>1, <2>2, <2>3, SeqEqual
<1> QED
  BY <1>1, <1>3, <1>4, <1>5

\* _ws_frame's header.
LEMMA HeaderDef ==
    ASSUME NEW n \in Sizes
    PROVE  Header(n) \in Seq(Nat) /\ Heads(Header(n), n)
<1>0. n \in Nat /\ Fits(n, Wide) /\ Narrow \in Nat /\ Wide \in Nat /\ L7 \in Nat
  BY Formats
<1>1. CASE n < L7
  <2>1. Header(n) = <<1>> \o <<n>>
    BY <1>1 DEF Header
  <2> QED
    BY <1>0, <1>1, <2>1 DEF Heads
<1>2. CASE ~(n < L7) /\ Fits(n, Narrow)
  <2>1. Header(n) = <<1>> \o (<<L7>> \o Digits(n, Narrow))
    BY <1>2 DEF Header
  <2> QED
    BY <1>0, <1>2, <2>1, LongHeader DEF Heads
<1>3. CASE ~(n < L7) /\ ~Fits(n, Narrow)
  <2>1. Header(n) = <<1>> \o (<<L7 + 1>> \o Digits(n, Wide))
    BY <1>3 DEF Header
  <2>2. L7 + 1 \in Nat
    BY <1>0
  <2> QED
    BY <1>0, <2>1, <2>2, LongHeader DEF Heads
<1> QED
  BY <1>1, <1>2, <1>3

\* A frame's text follows its header.
IsText(t, n, m) == t \in Seq(Nat) /\ Len(t) = n /\ \A i \in 1..n : t[i] = m
IsFrame(f, n, m) ==
    /\ f \in Seq(Nat) /\ Len(f) = Len(Header(n)) + n
    /\ \A i \in 1..Len(Header(n)) : f[i] = Header(n)[i]
    /\ \A i \in 1..n : f[Len(Header(n)) + i] = m

\* _ws_frame.
LEMMA FrameDef ==
    ASSUME NEW n \in Sizes, NEW m \in Nat
    PROVE  IsText(Text(n, m), n, m) /\ IsFrame(Frame(n, m), n, m)
<1>1. n \in Nat
  BY Formats
<1>2. PICK t \in Seq(Nat) : t = Text(n, m) /\ Len(t) = n /\ \A i \in 1..n : t[i] = m
  <2>1. Text(n, m) \in [1..n -> Nat] /\ \A i \in 1..n : Text(n, m)[i] = m
    BY DEF Text
  <2> QED
    BY <1>1, <2>1
<1>3. PICK h \in Seq(Nat) : h = Header(n)
  BY HeaderDef
<1>4. PICK f \in Seq(Nat) : f = h \o t /\ Joins(f, h, t)
  BY Joined
<1>5. Len(f) = Len(h) + n /\ (\A i \in 1..Len(h) : f[i] = h[i]) /\ \A i \in 1..n : f[Len(h) + i] = m
  BY <1>1, <1>2, <1>4 DEF Joins
<1>6. Frame(n, m) = f
  BY <1>2, <1>3, <1>4 DEF Frame
<1> QED
  BY <1>2, <1>3, <1>5, <1>6 DEF IsText, IsFrame

\* _decode_frame reads a header that has come whole as it was written.
LEMMA HeaderRead ==
    ASSUME NEW n \in Sizes, NEW b \in Seq(Nat), Len(b) >= 2,
           b[2] = Header(n)[2],
           Len(b) >= Len(Header(n)) => \A i \in 1..Len(Header(n)) : b[i] = Header(n)[i]
    PROVE  /\ HeadLen(b) = Len(Header(n))
           /\ Len(b) >= HeadLen(b) => TextLen(b) = n
<1>0. n \in Nat /\ Narrow \in Nat /\ Narrow > 0 /\ Wide \in Nat /\ Wide > Narrow /\ L7 \in Nat
  BY Formats
<1>1. PICK h \in Seq(Nat) : h = Header(n) /\ Heads(h, n)
  BY HeaderDef
<1>2. CASE Len(h) = 2 /\ h[2] = n /\ n < L7
  <2>1. HeadLen(b) = 2
    BY <1>0, <1>1, <1>2 DEF HeadLen
  <2> QED
    BY <1>1, <1>2, <2>1 DEF TextLen
<1>3. ASSUME NEW k \in Nat, k > 0, Len(h) = 2 + k, HeadLen(b) = 2 + k, Number(SubSeq(h, 3, 2 + k)) = n
      PROVE  /\ HeadLen(b) = Len(Header(n))
             /\ Len(b) >= HeadLen(b) => TextLen(b) = n
  <2>1. HeadLen(b) = Len(Header(n))
    BY <1>1, <1>3
  <2>2. ASSUME Len(b) >= HeadLen(b) PROVE TextLen(b) = n
    <3>1. \A i \in 1..Len(h) : b[i] = h[i]
      BY <1>1, <2>1, <2>2
    <3>2. SubSeq(b, 3, 2 + k) = SubSeq(h, 3, 2 + k)
      BY <1>3, <2>1, <2>2, <3>1
    <3>3. TextLen(b) = Number(SubSeq(b, 3, 2 + k))
      BY <1>3 DEF TextLen
    <3> QED
      BY <1>3, <3>2, <3>3
  <2> QED
    BY <2>1, <2>2
<1>4. CASE Len(h) = 2 + Narrow /\ h[2] = L7 /\ Number(SubSeq(h, 3, 2 + Narrow)) = n
  <2>1. HeadLen(b) = 2 + Narrow
    BY <1>0, <1>1, <1>4 DEF HeadLen
  <2> QED
    BY <1>0, <1>3, <1>4, <2>1
<1>5. CASE Len(h) = 2 + Wide /\ h[2] = L7 + 1 /\ Number(SubSeq(h, 3, 2 + Wide)) = n
  <2>1. HeadLen(b) = 2 + Wide
    BY <1>0, <1>1, <1>5 DEF HeadLen
  <2> QED
    BY <1>0, <1>3, <1>5, <2>1
<1> QED
  BY <1>1, <1>2, <1>4, <1>5 DEF Heads

\* What _decode_frame finds in the first bytes of a frame and what follows it: the
\* frame's text, once it has come whole, and nothing before.
THEOREM FrameIsReadAsWritten ==
    ASSUME NEW n \in Nat, n \in Sizes, NEW m \in Nat, NEW b \in Seq(Nat), NEW w \in Seq(Nat), NEW x \in Seq(Nat),
           NEW s \in Seq(Nat), Joins(s, b, w), Joins(s, Frame(n, m), x)
    PROVE  /\ w = <<>> => Complete(b)
           /\ Complete(b) => Payload(b) = Text(n, m) /\ Rest(b) \in Seq(Nat) /\ Rest(b) \o w = x
<1>0. n \in Nat /\ Len(b) \in Nat /\ Len(w) \in Nat /\ Len(x) \in Nat
  OBVIOUS
<1>1. PICK h \in Seq(Nat) : h = Header(n) /\ Len(h) >= 2
  <2>1. PICK h \in Seq(Nat) : h = Header(n) /\ Heads(h, n)
    BY HeaderDef
  <2>2. Len(h) >= 2
    BY <2>1, Formats DEF Heads
  <2> QED
    BY <2>1, <2>2
<1>2. PICK f \in Seq(Nat) : f = Frame(n, m) /\ IsFrame(f, n, m)
  BY FrameDef DEF IsFrame
<1>3. Len(f) = Len(h) + n /\ (\A i \in 1..Len(h) : f[i] = h[i]) /\ \A i \in 1..n : f[Len(h) + i] = m
  BY <1>1, <1>2 DEF IsFrame
<1>4. Joins(s, b, w) /\ Joins(s, f, x)
  BY <1>2
<1>8. PICK B \in Nat, W \in Nat, X \in Nat, H \in Nat, F \in Nat :
         B = Len(b) /\ W = Len(w) /\ X = Len(x) /\ H = Len(h) /\ F = Len(f)
  OBVIOUS
<1>9. /\ B = Len(b) /\ W = Len(w) /\ X = Len(x) /\ H = Len(h) /\ F = Len(f)
      /\ H >= 2 /\ F = H + n
  <2>1. Len(f) = Len(h) + n
    BY <1>3
  <2> QED
    BY <1>1, <1>8, <2>1
<1>5. ASSUME Len(b) >= 2
      PROVE  HeadLen(b) = Len(h) /\ (Len(b) >= Len(h) => TextLen(b) = n)
  <2>1. \A i \in 1..Len(b) : i \in 1..Len(h) => b[i] = h[i]
    <3>1. ASSUME NEW i \in 1..Len(b), i \in 1..Len(h) PROVE b[i] = h[i]
      <4>1. i \in 1..Len(f) /\ f[i] = h[i]
        BY <1>0, <1>3, <3>1
      <4> QED
        BY <1>4, <4>1 DEF Joins
    <3> QED
      BY <3>1
  <2>2. b[2] = h[2]
    <3>1. 2 \in 1..B /\ 2 \in 1..H
      BY <1>5, <1>9
    <3> QED
      BY <1>9, <2>1, <3>1, Zenon
  <2>3. Len(b) >= Len(h) => \A i \in 1..Len(h) : b[i] = h[i]
    <3>1. B >= H => \A i \in 1..H : i \in 1..B
      OBVIOUS
    <3> QED
      BY <1>9, <2>1, <3>1
  <2>4. HeadLen(b) = Len(h) /\ (Len(b) >= HeadLen(b) => TextLen(b) = n)
    BY <1>1, <1>5, <2>2, <2>3, HeaderRead
  <2> QED
    BY <2>4
<1>6. ASSUME w = <<>> PROVE Complete(b)
  <2>1. Len(b) >= Len(h) + n /\ Len(b) >= 2 /\ Len(b) >= Len(h)
    <3>1. B + W = F + X /\ W = 0 /\ F = H + n /\ H >= 2
      BY <1>4, <1>6, <1>9 DEF Joins
    <3>2. B >= H + n /\ B >= 2 /\ B >= H
      BY <3>1
    <3> QED
      BY <1>9, <3>2
  <2> QED
    BY <1>5, <2>1 DEF Complete
<1>7. ASSUME Complete(b) PROVE Payload(b) = Text(n, m) /\ Rest(b) \in Seq(Nat) /\ Rest(b) \o w = x
  <2>1. Len(b) >= 2 /\ HeadLen(b) = Len(h) /\ TextLen(b) = n /\ Len(b) >= Len(h) + n
    BY <1>5, <1>7 DEF Complete
  <2>2. /\ Len(h) + 1 \in 1..Len(b) + 1 /\ Len(h) + n \in (Len(h) + 1) - 1..Len(b)
        /\ (Len(h) + 1) - 1 = Len(h) /\ (Len(h) + n) - Len(h) = n
    BY <1>0, <2>1
  <2>3. Payload(b) = Text(n, m)
    <3>1. PICK t \in Seq(Nat) : t = Text(n, m) /\ IsText(t, n, m)
      BY FrameDef DEF IsText
    <3>2. PICK u \in Seq(Nat) : u = SubSeq(b, Len(h) + 1, Len(h) + n) /\ Cuts(u, b, Len(h) + 1, Len(h) + n)
      BY <2>2, Cut
    <3>3. Len(u) = n /\ \A i \in 1..n : u[i] = b[Len(h) + i]
      BY <2>2, <3>2 DEF Cuts
    <3>4. ASSUME NEW i \in 1..n PROVE u[i] = t[i]
      <4>1. Len(h) + i \in 1..Len(f) /\ Len(h) + i \in 1..Len(b)
        <5>1. B >= H + n /\ F = H + n
          BY <1>9, <2>1
        <5>2. H + i \in 1..F /\ H + i \in 1..B
          BY <5>1
        <5> QED
          BY <1>9, <5>2
      <4>2. b[Len(h) + i] = f[Len(h) + i]
        BY <1>4, <4>1 DEF Joins
      <4> QED
        BY <1>3, <3>1, <3>3, <4>2 DEF IsText
    <3>5. u = t
      BY <1>0, <3>1, <3>3, <3>4, SeqEqual DEF IsText
    <3> QED
      BY <2>1, <3>1, <3>2, <3>5 DEF Payload
  <2>4. Len(f) \in 0..Len(b) /\ (Len(f) + 1) - 1 = Len(f) /\ Len(f) = Len(h) + n
    BY <1>0, <1>3, <2>1
  <2>5. PICK r \in Seq(Nat) : r = SubSeq(b, Len(f) + 1, Len(b)) /\ Cuts(r, b, Len(f) + 1, Len(b))
    <3>1. Len(f) + 1 \in 1..Len(b) + 1 /\ Len(b) \in (Len(f) + 1) - 1..Len(b)
      BY <2>4
    <3> QED
      BY <3>1, Cut
  <2>6. Len(r) = Len(b) - Len(f) /\ \A i \in 1..Len(r) : r[i] = b[Len(f) + i]
    BY <2>4, <2>5 DEF Cuts
  <2>7. Rest(b) = r
    BY <2>1, <2>4, <2>5 DEF Rest
  <2>8. r \o w = x
    <3>1. PICK q \in Seq(Nat) : q = r \o w /\ Joins(q, r, w)
      BY Joined
    <3>2. Len(q) = Len(x)
      <4>1. B + W = F + X /\ Len(r) = B - F /\ Len(q) = Len(r) + W
        BY <1>4, <1>9, <2>6, <3>1 DEF Joins
      <4>2. Len(q) = (B - F) + W /\ (B - F) + W = X
        BY <4>1
      <4> QED
        BY <1>9, <4>2
    <3>3. ASSUME NEW i \in 1..Len(q) PROVE q[i] = x[i]
      <4>1. s[Len(f) + i] = x[i]
        BY <1>4, <3>2 DEF Joins
      <4>2. CASE i <= Len(r)
        <5>1. Len(f) + i \in 1..Len(b) /\ i \in 1..Len(r)
          BY <2>6, <4>2
        <5> QED
          BY <1>4, <2>6, <3>1, <4>1, <5>1 DEF Joins
      <4>3. CASE ~(i <= Len(r))
        <5>1. PICK j \in 1..Len(w) : i = Len(r) + j /\ Len(f) + i = Len(b) + j
          <6>1. i - Len(r) \in 1..Len(w) /\ Len(f) + i = Len(b) + (i - Len(r)) /\ i = Len(r) + (i - Len(r))
            BY <2>6, <3>1, <4>3 DEF Joins
          <6> QED
            BY <6>1
        <5>2. s[Len(b) + j] = w[j] /\ q[Len(r) + j] = w[j]
          BY <1>4, <3>1 DEF Joins
        <5> QED
          BY <4>1, <5>1, <5>2
      <4> QED
        BY <4>2, <4>3
    <3>4. q = x
      BY <3>2, <3>3, SeqEqual
    <3> QED
      BY <3>1, <3>4
  <2> QED
    BY <2>3, <2>5, <2>7, <2>8
<1> QED
  BY <1>6, <1>7

-----------------------------------------------------------------------------
(* The bytes of several messages.                                           *)

\* What the recursion in Frames asks of its function.
IsFrames(f, sizes, s) ==
    f = [i \in 0..Len(s) |-> IF i = 0 THEN <<>> ELSE f[i - 1] \o Frame(sizes[s[i]], s[i])]
Streaming(f, sizes, s) ==
    /\ Frames(sizes, s) = f[Len(s)]
    /\ f \in [0..Len(s) -> Seq(Nat)] /\ f[0] = <<>>
    /\ \A i \in 1..Len(s) : f[i] = f[i - 1] \o Frame(sizes[s[i]], s[i])

\* The frame of a message that was made.
LEMMA FrameOfMade ==
    ASSUME NEW sizes \in Seq(Sizes), NEW m \in 1..Len(sizes)
    PROVE  Frame(sizes[m], m) \in Seq(Nat)
<1>1. sizes[m] \in Sizes /\ m \in Nat
  OBVIOUS
<1> QED
  BY <1>1, FrameDef DEF IsFrame

\* Frames is what it says.
LEMMA FramesDef ==
    ASSUME NEW sizes \in Seq(Sizes), NEW s \in Seq(1..Len(sizes))
    PROVE  \E f : Streaming(f, sizes, s)
<1> DEFINE k    == Len(s)
           Q    == Seq(Nat)
           none == <<>>
           step == [i \in 1..k |-> [v \in Q |-> v \o Frame(sizes[s[i]], s[i])]]
<1>1. k \in Nat /\ none \in Q
  OBVIOUS
<1>2. \A i \in 1..k : Frame(sizes[s[i]], s[i]) \in Q
  <2>1. ASSUME NEW i \in 1..k PROVE Frame(sizes[s[i]], s[i]) \in Q
    <3>1. s[i] \in 1..Len(sizes)
      OBVIOUS
    <3> QED
      BY <3>1, FrameOfMade
  <2> QED
    BY <2>1
<1>3. step \in [1..k -> [Q -> Q]]
  <2>1. ASSUME NEW i \in 1..k, NEW v \in Q PROVE v \o Frame(sizes[s[i]], s[i]) \in Q
    <3>1. PICK t \in Seq(Nat) : t = Frame(sizes[s[i]], s[i])
      BY <1>2
    <3>2. v \o t \in Seq(Nat)
      BY ConcatProperties
    <3> QED
      BY <3>1, <3>2
  <2> QED
    BY <2>1
<1>4. PICK f \in [0..k -> Q] : f[0] = <<>> /\ \A i \in 1..k : f[i] = step[i][f[i - 1]]
  <2> HIDE DEF step, k, Q, none
  <2>1. \E f \in [0..k -> Q] : Iterates(f, k, none, step)
    BY <1>1, <1>3, Recursion
  <2> QED
    BY <2>1 DEF Iterates, none
<1>5. \A i \in 1..k : f[i] = f[i - 1] \o Frame(sizes[s[i]], s[i])
  <2>1. ASSUME NEW i \in 1..k PROVE step[i][f[i - 1]] = f[i - 1] \o Frame(sizes[s[i]], s[i])
    <3>1. f[i - 1] \in Q
      BY <1>1
    <3> QED
      BY <3>1
  <2> QED
    BY <1>4, <2>1
<1> DEFINE g == [i \in 0..k |-> IF i = 0 THEN <<>> ELSE f[i - 1] \o Frame(sizes[s[i]], s[i])]
<1>6. f = g
  <2>1. ASSUME NEW i \in 0..k PROVE f[i] = g[i]
    <3>1. CASE i = 0
      BY <1>4, <3>1
    <3>2. CASE i # 0
      <4>1. i \in 1..k
        BY <1>1, <3>2
      <4> QED
        BY <1>5, <3>2, <4>1
    <3> QED
      BY <3>1, <3>2
  <2> QED
    BY <2>1
<1>7. \E h : IsFrames(h, sizes, s)
  BY <1>6 DEF IsFrames
<1> HIDE DEF g, step
<1> DEFINE w == CHOOSE h : IsFrames(h, sizes, s)
<1>8. Frames(sizes, s) = w[Len(s)]
  BY DEF Frames, IsFrames
<1>9. IsFrames(w, sizes, s)
  BY <1>7, Zenon
<1> HIDE DEF w
<1>10. w[0] = <<>> /\ \A i \in 1..Len(s) : w[i] = w[i - 1] \o Frame(sizes[s[i]], s[i])
  <2>1. \A i \in 0..Len(s) : w[i] = IF i = 0 THEN <<>> ELSE w[i - 1] \o Frame(sizes[s[i]], s[i])
    BY <1>9, Zenon DEF IsFrames
  <2>2. 0 \in 0..Len(s) /\ \A i \in 1..Len(s) : i \in 0..Len(s) /\ i # 0
    BY <1>1
  <2> QED
    BY <2>1, <2>2, Zenon
<1> DEFINE T == {i \in 0..k : w[i] \in Seq(Nat)}
<1>11. \A i \in 0..k : i \in T
  <2>1. 0 \in T
    <3>1. 0 \in 0..k /\ w[0] = <<>> /\ <<>> \in Seq(Nat)
      BY <1>1, <1>10
    <3> QED
      BY <3>1, Zenon
  <2>2. ASSUME NEW i \in 1..k, i - 1 \in T PROVE i \in T
    <3>1. PICK v \in Seq(Nat) : v = w[i - 1]
      BY <2>2
    <3>2. PICK t \in Seq(Nat) : t = Frame(sizes[s[i]], s[i])
      BY <1>2
    <3>3. w[i] = v \o t
      BY <1>10, <3>1, <3>2
    <3>4. v \o t \in Seq(Nat)
      BY ConcatProperties
    <3>5. i \in 0..k
      BY <1>1
    <3> QED
      BY <3>3, <3>4, <3>5, Zenon
  <2> HIDE DEF T, k
  <2> QED
    BY <1>1, <2>1, <2>2, UpTo, Zenon
<1>12. w \in [0..Len(s) -> Seq(Nat)]
  <2>1. w = [i \in 0..Len(s) |-> IF i = 0 THEN <<>> ELSE w[i - 1] \o Frame(sizes[s[i]], s[i])]
    BY <1>9, Zenon DEF IsFrames
  <2>2. \A i \in 0..Len(s) : w[i] \in Seq(Nat)
    BY <1>11
  <2>3. w = [i \in 0..Len(s) |-> w[i]]
    BY <2>1
  <2> QED
    BY <2>2, <2>3
<1>13. Streaming(w, sizes, s)
  BY <1>8, <1>10, <1>12 DEF Streaming
<1> HIDE DEF w, k, Q, none, step
<1> QED
  BY <1>13, Zenon

\* Where two lists of messages agree, so do their bytes.
LEMMA Agree ==
    ASSUME NEW sizes, NEW s \in Seq(Nat), NEW f, Streaming(f, sizes, s),
           NEW sizes2, NEW s2 \in Seq(Nat), NEW g, Streaming(g, sizes2, s2),
           Len(s) <= Len(s2), \A i \in 1..Len(s) : s2[i] = s[i] /\ sizes2[s[i]] = sizes[s[i]]
    PROVE  f[Len(s)] = g[Len(s)]
<1> DEFINE k == Len(s)
           T == {i \in 0..k : f[i] = g[i]}
<1>1. k \in Nat /\ k <= Len(s2)
  OBVIOUS
<1>2. 0 \in T
  BY <1>1 DEF Streaming
<1>3. ASSUME NEW i \in 1..k, i - 1 \in T PROVE i \in T
  <2>1. i \in 1..Len(s) /\ i \in 1..Len(s2) /\ s2[i] = s[i] /\ sizes2[s[i]] = sizes[s[i]]
    BY <1>1
  <2>2. f[i] = f[i - 1] \o Frame(sizes[s[i]], s[i])
    BY <2>1 DEF Streaming
  <2>3. g[i] = g[i - 1] \o Frame(sizes2[s2[i]], s2[i])
    BY <2>1 DEF Streaming
  <2>4. f[i - 1] = g[i - 1]
    BY <1>3
  <2>5. f[i] = g[i]
    BY <2>1, <2>2, <2>3, <2>4, Zenon
  <2>6. i \in 0..k
    BY <1>1
  <2> QED
    BY <2>5, <2>6
<1> HIDE DEF T, k
<1>4. \A i \in 0..k : i \in T
  BY <1>1, <1>2, <1>3, UpTo, Zenon
<1>5. k \in T
  BY <1>1, <1>4
<1> QED
  BY <1>5 DEF T, k

\* Messages that are made later change no frame.
LEMMA FramesGrow ==
    ASSUME NEW sizes \in Seq(Sizes), NEW n \in Sizes, NEW s \in Seq(1..Len(sizes))
    PROVE  Frames(Append(sizes, n), s) = Frames(sizes, s)
<1>1. PICK more \in Seq(Sizes) : /\ more = Append(sizes, n) /\ Len(more) = Len(sizes) + 1
                                 /\ \A i \in 1..Len(sizes) : more[i] = sizes[i]
  <2>1. /\ Append(sizes, n) \in Seq(Sizes) /\ Len(Append(sizes, n)) = Len(sizes) + 1
        /\ \A i \in 1..Len(sizes) : Append(sizes, n)[i] = sizes[i]
    BY AppendProperties
  <2> QED
    BY <2>1
<1>2. s \in Seq(1..Len(more)) /\ s \in Seq(Nat)
  <2>1. 1..Len(sizes) \subseteq 1..Len(more) /\ 1..Len(sizes) \subseteq Nat
    BY <1>1
  <2> QED
    BY <2>1, SeqMonotonic
<1>3. PICK f : Streaming(f, sizes, s)
  BY FramesDef
<1>4. PICK g : Streaming(g, more, s)
  BY <1>2, FramesDef
<1>5. \A i \in 1..Len(s) : more[s[i]] = sizes[s[i]]
  BY <1>1
<1>6. f[Len(s)] = g[Len(s)]
  <2>1. Len(s) <= Len(s)
    OBVIOUS
  <2> QED
    BY <1>2, <1>3, <1>4, <1>5, <2>1, Agree
<1>7. Frames(sizes, s) = f[Len(s)] /\ Frames(more, s) = g[Len(s)]
  BY <1>3, <1>4 DEF Streaming
<1> QED
  BY <1>1, <1>6, <1>7

\* The bytes of two lists, one after the other.
LEMMA FramesConcat ==
    ASSUME NEW sizes \in Seq(Sizes), NEW s \in Seq(1..Len(sizes)), NEW t \in Seq(1..Len(sizes))
    PROVE  /\ Frames(sizes, s) \in Seq(Nat) /\ Frames(sizes, t) \in Seq(Nat)
           /\ Frames(sizes, s \o t) = Frames(sizes, s) \o Frames(sizes, t)
<1>1. PICK u \in Seq(1..Len(sizes)) : u = s \o t /\ Joins(u, s, t)
  BY Joined
<1>2. PICK f : Streaming(f, sizes, u)
  BY FramesDef
<1>3. PICK g : Streaming(g, sizes, s)
  BY FramesDef
<1>4. PICK h : Streaming(h, sizes, t)
  BY FramesDef
<1>5. s \in Seq(Nat) /\ u \in Seq(Nat)
  <2>1. 1..Len(sizes) \subseteq Nat
    OBVIOUS
  <2> QED
    BY <2>1, SeqMonotonic
<1>6. PICK S \in Nat, N \in Nat : S = Len(s) /\ N = Len(t) /\ Len(u) = S + N
  <2>1. PICK S \in Nat, N \in Nat : S = Len(s) /\ N = Len(t)
    OBVIOUS
  <2>2. Len(u) = S + N
    BY <1>1, <2>1 DEF Joins
  <2> QED
    BY <2>1, <2>2
<1>7. g[S] = f[S]
  <2>1. Len(s) <= Len(u)
    <3>1. S <= S + N
      OBVIOUS
    <3> QED
      BY <1>6, <3>1
  <2>2. \A i \in 1..Len(s) : u[i] = s[i]
    BY <1>1 DEF Joins
  <2>3. g[Len(s)] = f[Len(s)]
    BY <1>2, <1>3, <1>5, <2>1, <2>2, Agree
  <2> QED
    BY <1>6, <2>3
<1> DEFINE T == {i \in 0..N : f[S + i] = f[S] \o h[i]}
<1>8. f[S] \in Seq(Nat) /\ \A i \in 0..N : h[i] \in Seq(Nat)
  <2>1. f \in [0..S + N -> Seq(Nat)] /\ h \in [0..N -> Seq(Nat)]
    BY <1>2, <1>4, <1>6 DEF Streaming
  <2>2. S \in 0..S + N
    OBVIOUS
  <2> QED
    BY <2>1, <2>2
<1>9. 0 \in T
  <2>1. h[0] = <<>> /\ f[S] \o <<>> = f[S] /\ S + 0 = S
    BY <1>4, <1>8, ConcatEmptySeq DEF Streaming
  <2>2. 0 \in 0..N
    OBVIOUS
  <2> QED
    BY <2>1, <2>2, Zenon
<1>10. ASSUME NEW i \in 1..N, i - 1 \in T PROVE i \in T
  <2>1. S + i \in 1..Len(u) /\ (S + i) - 1 = S + (i - 1) /\ u[S + i] = t[i] /\ i \in 1..Len(t)
    BY <1>1, <1>6 DEF Joins
  <2>2. PICK a \in Seq(Nat) : a = Frame(sizes[t[i]], t[i])
    <3>1. t[i] \in 1..Len(sizes)
      BY <2>1
    <3> QED
      BY <3>1, FrameOfMade
  <2>3. f[S + i] = f[S + (i - 1)] \o a
    BY <1>2, <2>1, <2>2 DEF Streaming
  <2>4. h[i] = h[i - 1] \o a
    BY <1>4, <2>1, <2>2 DEF Streaming
  <2>5. f[S + (i - 1)] = f[S] \o h[i - 1]
    BY <1>10
  <2>6. h[i - 1] \in Seq(Nat)
    BY <1>8
  <2>7. (f[S] \o h[i - 1]) \o a = f[S] \o (h[i - 1] \o a)
    <3>1. PICK v \in Seq(Nat), w \in Seq(Nat) : v = f[S] /\ w = h[i - 1]
      BY <1>8, <2>6
    <3>2. (v \o w) \o a = v \o (w \o a)
      BY Regroup
    <3> QED
      BY <3>1, <3>2, Zenon
  <2>8. f[S + i] = f[S] \o h[i]
    BY <2>3, <2>4, <2>5, <2>7, Zenon
  <2>9. i \in 0..N
    OBVIOUS
  <2> QED
    BY <2>8, <2>9, Zenon
<1> HIDE DEF T
<1>11. \A i \in 0..N : i \in T
  BY <1>9, <1>10, UpTo, Zenon
<1>12. f[S + N] = f[S] \o h[N]
  <2>1. N \in 0..N
    OBVIOUS
  <2> QED
    BY <1>11, <2>1 DEF T
<1>13. Frames(sizes, u) = f[S + N] /\ Frames(sizes, s) = g[S] /\ Frames(sizes, t) = h[N]
  BY <1>2, <1>3, <1>4, <1>6 DEF Streaming
<1>14. h[N] \in Seq(Nat)
  BY <1>8
<1> QED
  BY <1>1, <1>7, <1>8, <1>12, <1>13, <1>14

\* The bytes of no message, and of one.
LEMMA FramesOfFew ==
    ASSUME NEW sizes \in Seq(Sizes)
    PROVE  /\ Frames(sizes, <<>>) = <<>>
           /\ \A m \in 1..Len(sizes) : Frames(sizes, <<m>>) = Frame(sizes[m], m)
<1>1. Frames(sizes, <<>>) = <<>>
  <2>1. <<>> \in Seq(1..Len(sizes)) /\ Len(<<>>) = 0
    OBVIOUS
  <2>2. PICK f : Streaming(f, sizes, <<>>)
    BY <2>1, FramesDef
  <2> QED
    BY <2>1, <2>2 DEF Streaming
<1>2. ASSUME NEW m \in 1..Len(sizes) PROVE Frames(sizes, <<m>>) = Frame(sizes[m], m)
  <2>1. PICK s \in Seq(1..Len(sizes)) : s = <<m>> /\ Len(s) = 1 /\ s[1] = m
    <3>1. <<m>> \in Seq(1..Len(sizes))
      OBVIOUS
    <3> QED
      BY <3>1
  <2>2. PICK f : Streaming(f, sizes, s)
    BY FramesDef
  <2>3. Frames(sizes, s) = f[1] /\ f[0] = <<>>
    BY <2>1, <2>2 DEF Streaming
  <2>4. f[1] = f[0] \o Frame(sizes[m], m)
    <3>1. 1 \in 1..Len(s) /\ 1 - 1 = 0
      BY <2>1
    <3>2. f[1] = f[1 - 1] \o Frame(sizes[s[1]], s[1])
      BY <2>2, <3>1 DEF Streaming
    <3> QED
      BY <2>1, <3>1, <3>2
  <2>5. <<>> \o Frame(sizes[m], m) = Frame(sizes[m], m)
    BY FrameOfMade, ConcatEmptySeq
  <2> QED
    BY <2>1, <2>3, <2>4, <2>5
<1> QED
  BY <1>1, <1>2

-----------------------------------------------------------------------------
(* The list of clients.                                                     *)

\* The elements of a longer sequence.
LEMMA AppendRange ==
    ASSUME NEW S, NEW s \in Seq(S), NEW x \in S
    PROVE  ToSet(Append(s, x)) = ToSet(s) \cup {x}
<1>1. DOMAIN s = 1..Len(s) /\ Len(s) \in Nat /\ DOMAIN Append(s, x) = 1..Len(s) + 1
  OBVIOUS
<1>2. Append(s, x)[Len(s) + 1] = x /\ \A i \in 1..Len(s) : Append(s, x)[i] = s[i]
  OBVIOUS
<1>3. 1..Len(s) + 1 = (1..Len(s)) \cup {Len(s) + 1}
  BY <1>1
<1>4. ASSUME NEW y PROVE y \in ToSet(Append(s, x)) <=> y \in ToSet(s) \cup {x}
  BY <1>1, <1>2, <1>3 DEF ToSet
<1> QED
  BY <1>4

\* A longer list still names each once.
LEMMA AppendInjects ==
    ASSUME NEW S, NEW s \in Seq(S), NEW x \in S, IsInjective(s), x \notin ToSet(s)
    PROVE  IsInjective(Append(s, x))
<1>1. PICK u \in Seq(S) : /\ u = Append(s, x) /\ Len(u) = Len(s) + 1 /\ u[Len(s) + 1] = x
                          /\ \A i \in 1..Len(s) : u[i] = s[i]
  <2>1. /\ Append(s, x) \in Seq(S) /\ Len(Append(s, x)) = Len(s) + 1 /\ Append(s, x)[Len(s) + 1] = x
        /\ \A i \in 1..Len(s) : Append(s, x)[i] = s[i]
    BY AppendProperties
  <2> QED
    BY <2>1
<1>2. \A i, j \in 1..Len(s) : s[i] = s[j] => i = j
  BY DEF IsInjective
<1>3. \A i \in 1..Len(s) : s[i] # x
  BY DEF ToSet
<1>4. ASSUME NEW i \in 1..Len(s) + 1, NEW j \in 1..Len(s) + 1, u[i] = u[j] PROVE i = j
  <2>1. Len(s) \in Nat
    OBVIOUS
  <2>2. (i \in 1..Len(s) \/ i = Len(s) + 1) /\ (j \in 1..Len(s) \/ j = Len(s) + 1)
    BY <2>1
  <2> QED
    BY <1>1, <1>2, <1>3, <1>4, <2>2
<1>5. DOMAIN u = 1..Len(s) + 1
  BY <1>1
<1>6. IsInjective(u)
  BY <1>4, <1>5 DEF IsInjective
<1> QED
  BY <1>1, <1>6, Zenon

\* What the recursion in Without asks of its function.
IsKept(f, s, Gone) ==
    f = [i \in 0..Len(s) |->
            IF i = 0 THEN <<>> ELSE IF s[i] \in Gone THEN f[i - 1] ELSE Append(f[i - 1], s[i])]

\* One such function exists.
LEMMA KeptExists ==
    ASSUME NEW S, NEW s \in Seq(S), NEW Gone
    PROVE  \E f : IsKept(f, s, Gone)
<1> DEFINE step == [i \in 1..Len(s) |-> [v \in Seq(S) |-> IF s[i] \in Gone THEN v ELSE Append(v, s[i])]]
<1>1. Len(s) \in Nat /\ <<>> \in Seq(S)
  OBVIOUS
<1>2. step \in [1..Len(s) -> [Seq(S) -> Seq(S)]]
  <2>1. ASSUME NEW i \in 1..Len(s), NEW v \in Seq(S) PROVE (IF s[i] \in Gone THEN v ELSE Append(v, s[i])) \in Seq(S)
    OBVIOUS
  <2> QED
    BY <2>1
<1>3. PICK f \in [0..Len(s) -> Seq(S)] : f[0] = <<>> /\ \A i \in 1..Len(s) : f[i] = step[i][f[i - 1]]
  <2> DEFINE n == Len(s)
             Q == Seq(S)
             e == <<>>
  <2>1. n \in Nat /\ e \in Q /\ step \in [1..n -> [Q -> Q]]
    BY <1>1, <1>2
  <2> HIDE DEF step, n, Q, e
  <2>2. \E f \in [0..n -> Q] : Iterates(f, n, e, step)
    BY <2>1, Recursion
  <2> QED
    BY <2>2 DEF n, Q, e, Iterates
<1>4. \A i \in 1..Len(s) : f[i] = IF s[i] \in Gone THEN f[i - 1] ELSE Append(f[i - 1], s[i])
  <2>1. ASSUME NEW i \in 1..Len(s)
        PROVE  step[i][f[i - 1]] = IF s[i] \in Gone THEN f[i - 1] ELSE Append(f[i - 1], s[i])
    <3>1. f[i - 1] \in Seq(S)
      BY <1>1
    <3> QED
      BY <3>1
  <2> QED
    BY <1>3, <2>1
<1> DEFINE g == [i \in 0..Len(s) |->
             IF i = 0 THEN <<>> ELSE IF s[i] \in Gone THEN f[i - 1] ELSE Append(f[i - 1], s[i])]
<1>5. \A i \in 0..Len(s) : f[i] = g[i]
  <2>1. ASSUME NEW i \in 0..Len(s) PROVE f[i] = g[i]
    <3>1. CASE i = 0
      BY <1>3, <3>1
    <3>2. CASE i # 0
      <4>1. i \in 1..Len(s)
        BY <1>1, <3>2
      <4>2. f[i] = IF s[i] \in Gone THEN f[i - 1] ELSE Append(f[i - 1], s[i])
        BY <1>4, <4>1
      <4> QED
        BY <3>2, <4>2
    <3> QED
      BY <3>1, <3>2
  <2> QED
    BY <2>1
<1>6. f = g
  BY <1>5
<1> QED
  BY <1>6 DEF IsKept

\* remove() leaves out what it is told to, and nothing else.
LEMMA WithoutDef ==
    ASSUME NEW S, NEW s \in Seq(S), NEW Gone
    PROVE  /\ Without(s, Gone) \in Seq(S)
           /\ ToSet(Without(s, Gone)) = ToSet(s) \ Gone
           /\ IsInjective(s) => IsInjective(Without(s, Gone))
<1> DEFINE kept == CHOOSE f : IsKept(f, s, Gone)
<1>1. Without(s, Gone) = kept[Len(s)]
  BY DEF Without, IsKept
<1>2. IsKept(kept, s, Gone)
  <2>1. \E f : IsKept(f, s, Gone)
    BY KeptExists
  <2> QED
    BY <2>1, Zenon
<1> HIDE DEF kept
<1>3. /\ kept[0] = <<>>
      /\ \A i \in 1..Len(s) : kept[i] = IF s[i] \in Gone THEN kept[i - 1] ELSE Append(kept[i - 1], s[i])
  <2>1. \A i \in 0..Len(s) : kept[i] = IF i = 0 THEN <<>>
                                     ELSE IF s[i] \in Gone THEN kept[i - 1] ELSE Append(kept[i - 1], s[i])
    BY <1>2, Zenon DEF IsKept
  <2>2. Len(s) \in Nat
    OBVIOUS
  <2> QED
    BY <2>1, <2>2
<1> DEFINE T == {i \in 0..Len(s) : /\ kept[i] \in Seq(S) /\ ToSet(kept[i]) = {s[j] : j \in 1..i} \ Gone
                                   /\ IsInjective(s) => IsInjective(kept[i])}
<1>4. 0 \in T
  <2>1. ToSet(<<>>) = {} /\ <<>> \in Seq(S) /\ IsInjective(<<>>)
    BY DEF ToSet, IsInjective
  <2>2. {s[j] : j \in 1..0} = {} /\ 0 \in 0..Len(s)
    OBVIOUS
  <2> QED
    BY <1>3, <2>1, <2>2
<1>5. ASSUME NEW i \in 1..Len(s), i - 1 \in T PROVE i \in T
  <2>1. /\ kept[i - 1] \in Seq(S) /\ ToSet(kept[i - 1]) = {s[j] : j \in 1..i - 1} \ Gone
        /\ IsInjective(s) => IsInjective(kept[i - 1])
    BY <1>5
  <2>2. {s[j] : j \in 1..i} = {s[j] : j \in 1..i - 1} \cup {s[i]}
    OBVIOUS
  <2>3. CASE s[i] \in Gone
    BY <1>3, <2>1, <2>2, <2>3
  <2>4. CASE s[i] \notin Gone
    <3>1. kept[i] = Append(kept[i - 1], s[i])
      BY <1>3, <2>4
    <3>2. ToSet(kept[i]) = ToSet(kept[i - 1]) \cup {s[i]}
      BY <2>1, <3>1, AppendRange
    <3>3. kept[i] \in Seq(S)
      BY <2>1, <3>1
    <3>4. ASSUME IsInjective(s) PROVE IsInjective(kept[i])
      <4>1. s[i] \notin ToSet(kept[i - 1])
        <5>1. \A j \in 1..i - 1 : s[j] # s[i]
          <6>1. \A j \in 1..i - 1 : j \in DOMAIN s /\ i \in DOMAIN s /\ j # i
            OBVIOUS
          <6> QED
            BY <3>4, <6>1 DEF IsInjective
        <5> QED
          BY <2>1, <5>1
      <4> QED
        BY <2>1, <3>1, <3>4, <4>1, AppendInjects
    <3> QED
      BY <2>1, <2>2, <2>4, <3>2, <3>3, <3>4
  <2> QED
    BY <2>3, <2>4
<1> HIDE DEF T
<1>6. Len(s) \in T
  <2>1. Len(s) \in Nat /\ Len(s) \in 0..Len(s)
    OBVIOUS
  <2>2. \A i \in 0..Len(s) : i \in T
    BY <1>4, <1>5, <2>1, UpTo, Zenon
  <2> QED
    BY <2>1, <2>2
<1>7. /\ kept[Len(s)] \in Seq(S) /\ ToSet(kept[Len(s)]) = {s[j] : j \in 1..Len(s)} \ Gone
      /\ IsInjective(s) => IsInjective(kept[Len(s)])
  BY <1>6 DEF T
<1>8. ToSet(s) = {s[j] : j \in 1..Len(s)}
  BY DEF ToSet
<1> QED
  BY <1>1, <1>7, <1>8

-----------------------------------------------------------------------------
(* The inductive invariant.                                                 *)

\* What follows the answer to the upgrade.
After(w) == SubSeq(w, Answered + 1, Len(w))

\* The bytes that the connection of c has, without the answer to the upgrade.
Sent(c) == IF peer[c] = "asked" THEN After(wire[c]) ELSE buf[c] \o wire[c]

\* What the holder of the lock has still to send to c.
Pending(c) ==
    IF todo = <<>> \/ c \notin ToSet(todo) THEN <<>>
    ELSE IF c = Head(todo) THEN left ELSE FrameOf(log[Len(log)])

\* A client that is owed every message from now on.
Live(c) == handler[c] = "parked" /\ peer[c] # "closed"

Types ==
    /\ made \in Seq(Sizes) /\ Len(made) <= MaxMessages
    /\ message \in [Threads -> 0..Len(made)]
    /\ pc \in [Threads -> {"idle", "lock", "send"}]
    /\ lock \subseteq Threads /\ failed \subseteq Peers
    /\ clients \in Seq(Peers) /\ todo \in Seq(Peers) /\ left \in Seq(Nat)
    /\ handler \in [Peers -> {"none", "answered", "parked", "done"}]
    /\ peer \in [Peers -> {"asked", "open", "closed"}]
    /\ lost \in [Peers -> {"nothing", "frames", "sync"}]
    /\ wire \in [Peers -> Seq(Nat)] /\ buf \in [Peers -> Seq(Nat)]
    /\ told \in [Peers -> Seq(1..Len(made))]
    /\ log \in Seq(1..Len(made)) /\ joined \in [Peers -> 0..Len(log)]
    /\ \A c \in Peers : Len(wire[c]) <= Room

\* One thread at a time sends, and what it sends is the last of the log.
Exclusive ==
    /\ \A t \in Threads : /\ pc[t] = "send" <=> t \in lock
                          /\ pc[t] # "idle" => message[t] # 0
    /\ \A t, u \in lock : t = u
    /\ \A t \in lock : log # <<>> /\ message[t] = log[Len(log)]
    /\ lock = {} => todo = <<>> /\ failed = {}

\* Who is on the list: each connection once, and every one that is owed something.
OnTheList ==
    /\ IsInjective(clients) /\ IsInjective(todo) /\ ToSet(todo) \subseteq ToSet(clients)
    /\ \A c \in ToSet(clients) : handler[c] = "parked"
    /\ \A c \in Peers : Live(c) => c \in ToSet(clients)
    /\ \A c \in failed : peer[c] = "closed"

\* A connection before it is registered, and after it is gone.
Untold(c) == told[c] = <<>> /\ buf[c] = <<>> /\ lost[c] # "frames"
Placed(c) ==
    /\ handler[c] = "none" => wire[c] = <<>> /\ peer[c] # "open"
    /\ handler[c] = "answered" /\ peer[c] = "asked" => wire[c] = ANSWER
    /\ handler[c] = "answered" /\ peer[c] # "asked" /\ lost[c] # "sync" => wire[c] = <<>>
    /\ handler[c] = "done" => peer[c] = "closed"
    /\ peer[c] # "open" \/ handler[c] # "parked" => Untold(c)
    /\ peer[c] # "open" => lost[c] = "nothing"
    /\ peer[c] = "closed" => wire[c] = <<>>
    /\ peer[c] = "asked" /\ handler[c] = "parked" => Answered <= Len(wire[c])
    /\ lost[c] = "sync" => buf[c] = <<>> /\ told[c] = <<>>
Outside == \A c \in Peers : Placed(c)

\* What has been thrown away, told and not yet told is what c is owed, and the bytes
\* not yet decoded are the frames of the last part.
Ahead(c, rest) == Sent(c) \o Pending(c) = Frames(made, rest)
Fed(c, gone, rest) ==
    /\ Owed(c) = gone \o told[c] \o rest
    /\ Ahead(c, rest)
    /\ lost[c] = "nothing" <=> gone = <<>>
Stream(c) ==
    Live(c) /\ lost[c] # "sync" => \E gone, rest \in Seq(1..Len(made)) : Fed(c, gone, rest)
Streams == \A c \in Peers : Stream(c)

IInv == Types /\ Exclusive /\ OnTheList /\ Outside /\ Streams

-----------------------------------------------------------------------------
(* Every step keeps it.                                                     *)

\* What a message number may be, and where strings and lists have their types.
LEMMA Typed ==
    ASSUME Types, NEW c \in Peers
    PROVE  /\ wire[c] \in Seq(Nat) /\ buf[c] \in Seq(Nat) /\ left \in Seq(Nat)
           /\ told[c] \in Seq(1..Len(made)) /\ told[c] \in Seq(Nat)
           /\ made \in Seq(Sizes) /\ Len(made) \in Nat /\ 1..Len(made) \subseteq Nat
           /\ log \in Seq(1..Len(made)) /\ joined[c] \in 0..Len(log) /\ Len(log) \in Nat
<1>1. told[c] \in Seq(1..Len(made)) /\ 1..Len(made) \subseteq Nat
  BY DEF Types
<1> QED
  BY <1>1, SeqMonotonic DEF Types

\* The answer itself.
LEMMA AnswerAlone ==
    /\ Answered \in Nat /\ Answered <= Room /\ ANSWER \in Seq(Nat) /\ Len(ANSWER) = Answered
    /\ After(ANSWER) = <<>>
<1>1. Answered \in Nat /\ Answered <= Room
  BY ClientsAssumption
<1>2. ANSWER \in Seq(Nat) /\ Len(ANSWER) = Answered
  BY <1>1 DEF ANSWER
<1>3. SubSeq(ANSWER, Answered + 1, Answered) = <<>>
  BY <1>1, <1>2, SubSeqEmpty
<1> QED
  BY <1>1, <1>2, <1>3 DEF After

\* What follows the answer, when more has come and when some of it has been read.
LEMMA Skipped ==
    ASSUME NEW w \in Seq(Nat), Answered <= Len(w)
    PROVE  /\ After(w) \in Seq(Nat)
           /\ \A x \in Seq(Nat) : Answered <= Len(w \o x) /\ After(w \o x) = After(w) \o x
           /\ \A n \in Answered..Len(w) : \E x \in Seq(Nat) :
                 Len(x) = n - Answered /\ After(w) = x \o SubSeq(w, n + 1, Len(w))
<1>1. PICK A \in Nat, L \in Nat : A = Answered /\ L = Len(w) /\ A <= L
  BY AnswerAlone
<1>0. PICK d \in Nat : d = L - A /\ A + d = L
  <2>1. L - A \in Nat /\ A + (L - A) = L
    BY <1>1, SMTT(30)
  <2> QED
    BY <2>1
<1>2. PICK a \in Seq(Nat) : a = After(w) /\ Cuts(a, w, A + 1, L)
  <2>1. A + 1 \in 1..L + 1 /\ L \in (A + 1) - 1..L
    BY <1>1
  <2> QED
    BY <1>1, <2>1, Cut DEF After
<1>3. ASSUME NEW x \in Seq(Nat) PROVE Answered <= Len(w \o x) /\ After(w \o x) = After(w) \o x
  <2>1. PICK q \in Seq(Nat) : q = w \o x /\ Joins(q, w, x)
    BY Joined
  <2>2. PICK M \in Nat : M = Len(x) /\ Len(q) = L + M
    <3>1. Len(x) \in Nat /\ Len(q) = L + Len(x)
      BY <1>1, <2>1 DEF Joins
    <3> QED
      BY <3>1
  <2>3. PICK b \in Seq(Nat) : b = After(q) /\ Cuts(b, q, A + 1, L + M)
    <3>1. A + 1 \in 1..(L + M) + 1 /\ L + M \in (A + 1) - 1..L + M
      BY <1>1
    <3> QED
      BY <1>1, <2>2, <3>1, Cut DEF After
  <2>4. PICK r \in Seq(Nat) : r = a \o x /\ Joins(r, a, x)
    BY Joined
  <2>5. Len(a) = L - A /\ Len(b) = L + M - A /\ Len(r) = Len(b) /\ (A + 1) - 1 = A
    BY <1>1, <1>2, <2>2, <2>3, <2>4 DEF Cuts, Joins
  <2>6. ASSUME NEW k \in 1..Len(b) PROVE b[k] = r[k]
    <3>1. k \in Nat /\ b[k] = q[A + k]
      BY <2>3, <2>5 DEF Cuts
    <3>2. CASE k <= L - A
      <4>1. k \in 1..Len(a) /\ A + k \in 1..L
        BY <1>1, <2>5, <3>2
      <4>2. r[k] = a[k] /\ a[k] = w[A + k] /\ q[A + k] = w[A + k]
        BY <1>1, <1>2, <2>1, <2>4, <2>5, <4>1 DEF Cuts, Joins
      <4> QED
        BY <3>1, <4>2
    <3>3. CASE k > L - A
      <4>1. PICK i \in 1..M : A + k = L + i /\ k = Len(a) + i
        <5>1. k > d
          BY <1>0, <3>3
        <5>2. k <= d + M /\ Len(a) = d /\ A + d = L
          <6>1. L + M - A = d + M
            BY <1>0
          <6> QED
            BY <1>0, <2>5, <6>1
        <5>3. PICK i \in Nat : i = k - d
          BY <3>1, <5>1
        <5>4. i >= 1 /\ i <= M /\ k = d + i
          BY <3>1, <5>1, <5>2, <5>3
        <5>5. A + k = L + i
          BY <3>1, <5>2, <5>4
        <5> QED
          BY <5>2, <5>4, <5>5
      <4>2. q[L + i] = x[i] /\ r[Len(a) + i] = x[i]
        BY <1>1, <2>1, <2>2, <2>4 DEF Joins
      <4> QED
        BY <3>1, <4>1, <4>2
    <3> QED
      BY <1>1, <3>1, <3>2, <3>3
  <2>7. b = r
    BY <2>5, <2>6, SeqEqual
  <2>8. Answered <= Len(q)
    BY <1>1, <2>2
  <2> QED
    BY <1>2, <2>1, <2>3, <2>4, <2>7, <2>8
<1>4. ASSUME NEW n \in Answered..Len(w)
      PROVE  \E x \in Seq(Nat) : Len(x) = n - Answered /\ After(w) = x \o SubSeq(w, n + 1, Len(w))
  <2>1. /\ A + 1 \in 1..L + 1 /\ n \in (A + 1) - 1..L /\ L \in n..L /\ n - ((A + 1) - 1) = n - A
    BY <1>1
  <2>2. SubSeq(w, A + 1, n) \o SubSeq(w, n + 1, L) = SubSeq(w, A + 1, L)
    BY <1>1, <2>1, ConcatAdjacentSubSeq
  <2>3. SubSeq(w, A + 1, n) \in Seq(Nat) /\ Len(SubSeq(w, A + 1, n)) = n - A
    BY <1>1, <2>1, Cut DEF Cuts
  <2> QED
    BY <1>1, <2>2, <2>3 DEF After
<1> QED
  BY <1>2, <1>3, <1>4

\* A stream that goes on as it was.
LEMMA Unaffected ==
    ASSUME NEW c \in Peers, Stream(c), Live(c)' => Live(c), UNCHANGED made,
           Owed(c)' = Owed(c), told'[c] = told[c], lost'[c] = lost[c],
           (Sent(c) \o Pending(c))' = Sent(c) \o Pending(c)
    PROVE  Stream(c)'
BY DEF Stream, Fed, Ahead

\* What is to be sent to a client, by its place on the list.
LEMMA Sending ==
    ASSUME Types, Exclusive, NEW t \in lock
    PROVE  /\ FrameOf(message[t]) \in Seq(Nat) /\ message[t] \in 1..Len(made)
           /\ message[t] = log[Len(log)]
<1>1. log # <<>> /\ message[t] = log[Len(log)] /\ log \in Seq(1..Len(made)) /\ made \in Seq(Sizes)
  BY DEF Types, Exclusive
<1>2. message[t] \in 1..Len(made)
  BY <1>1
<1> QED
  BY <1>1, <1>2, FrameOfMade DEF FrameOf

\* broadcast() with a message that is new.
LEMMA BroadcastStep ==
    ASSUME IInv, NEW t \in Threads, Broadcast(t)
    PROVE  IInv'
<1> USE DEF IInv
<1>1. PICK n \in Sizes : made' = Append(made, n)
  BY DEF Broadcast
<1>2. /\ made' \in Seq(Sizes) /\ Len(made') = Len(made) + 1 /\ Len(made) \in Nat
      /\ \A m \in 1..Len(made) : made'[m] = made[m]
  <2>1. made \in Seq(Sizes)
    BY DEF Types
  <2> QED
    BY <1>1, <2>1, AppendProperties
<1>3. 1..Len(made) \subseteq 1..Len(made') /\ Len(made') \in 1..Len(made')
  BY <1>2
<1>4. \A s \in Seq(1..Len(made)) : s \in Seq(1..Len(made')) /\ Frames(made', s) = Frames(made, s)
  <2>1. ASSUME NEW s \in Seq(1..Len(made)) PROVE s \in Seq(1..Len(made')) /\ Frames(made', s) = Frames(made, s)
    <3>1. s \in Seq(1..Len(made'))
      BY <1>3, SeqMonotonic
    <3>2. made \in Seq(Sizes)
      BY DEF Types
    <3> QED
      BY <1>1, <3>1, <3>2, FramesGrow
  <2> QED
    BY <2>1
<1>5. Types'
  <2>1. message' \in [Threads -> 0..Len(made')]
    BY <1>2 DEF Types, Broadcast
  <2>2. told' \in [Peers -> Seq(1..Len(made'))] /\ log' \in Seq(1..Len(made'))
    BY <1>4 DEF Types, Broadcast
  <2>3. pc' \in [Threads -> {"idle", "lock", "send"}]
    BY DEF Types, Broadcast
  <2>4. Len(made') <= MaxMessages
    BY <1>2, ClientsAssumption DEF Broadcast
  <2>5. UNCHANGED <<lock, clients, todo, left, failed, log, handler, peer, wire, buf, lost, joined>>
    BY DEF Broadcast
  <2>6. /\ (lock \subseteq Threads /\ failed \subseteq Peers)'
        /\ (clients \in Seq(Peers) /\ todo \in Seq(Peers) /\ left \in Seq(Nat))'
        /\ (joined \in [Peers -> 0..Len(log)] /\ \A c \in Peers : Len(wire[c]) <= Room)'
    BY <2>5 DEF Types
  <2>7. /\ (handler \in [Peers -> {"none", "answered", "parked", "done"}])'
        /\ (peer \in [Peers -> {"asked", "open", "closed"}] /\ lost \in [Peers -> {"nothing", "frames", "sync"}])'
        /\ (wire \in [Peers -> Seq(Nat)] /\ buf \in [Peers -> Seq(Nat)])'
    BY <2>5 DEF Types
  <2>8. made' \in Seq(Sizes)
    BY <1>2
  <2> QED
    BY <2>1, <2>2, <2>3, <2>4, <2>6, <2>7, <2>8 DEF Types
<1>6. Exclusive'
  <2>1. t \notin lock /\ pc'[t] = "lock" /\ message'[t] # 0
    BY <1>2 DEF Exclusive, Broadcast, Types
  <2>2. \A u \in Threads \ {t} : pc'[u] = pc[u] /\ message'[u] = message[u]
    BY DEF Broadcast, Types
  <2> QED
    BY <2>1, <2>2 DEF Exclusive, Broadcast, Types
<1>7. OnTheList'
  BY DEF OnTheList, Broadcast, Live
<1>8. Outside'
  BY DEF Outside, Placed, Broadcast, Untold
<1>9. ASSUME NEW c \in Peers PROVE Stream(c)'
  <2>1. SUFFICES ASSUME Live(c), lost[c] # "sync" PROVE \E gone, rest \in Seq(1..Len(made')) : Fed(c, gone, rest)'
    BY DEF Stream, Live, Broadcast
  <2>2. PICK gone \in Seq(1..Len(made)), rest \in Seq(1..Len(made)) : Fed(c, gone, rest)
    BY <2>1 DEF Streams, Stream
  <2>3. Pending(c)' = Pending(c)
    <3>1. log # <<>> => log[Len(log)] \in 1..Len(made)
      BY DEF Types
    <3>2. todo # <<>> => log # <<>>
      BY DEF Exclusive
    <3>3. todo # <<>> => FrameOf(log[Len(log)])' = FrameOf(log[Len(log)])
      BY <1>2, <3>1, <3>2 DEF FrameOf, Broadcast
    <3> QED
      BY <3>3 DEF Pending, Broadcast
  <2>4. Sent(c)' = Sent(c) /\ Owed(c)' = Owed(c) /\ told' = told /\ lost' = lost
    BY DEF Sent, Owed, Broadcast
  <2>5. Fed(c, gone, rest)'
    BY <1>4, <2>2, <2>3, <2>4 DEF Fed, Ahead
  <2> QED
    BY <1>4, <2>5
<1> QED
  BY <1>5, <1>6, <1>7, <1>8, <1>9 DEF Streams

\* A thread gets the lock and starts on the list.
LEMMA AcquireStep ==
    ASSUME IInv, NEW t \in Threads, Acquire(t)
    PROVE  IInv'
<1> USE DEF IInv
<1>1. /\ lock = {} /\ lock' = {t} /\ pc[t] = "lock" /\ todo = <<>> /\ failed = {} /\ todo' = clients
      /\ pc' = [pc EXCEPT ![t] = "send"] /\ log' = Append(log, message[t])
      /\ left' = IF clients = <<>> THEN <<>> ELSE FrameOf(message[t])
      /\ UNCHANGED <<made, message, clients, failed, handler, peer, wire, buf, told, lost, joined>>
  BY DEF Acquire, StartSending, Exclusive
<1> DEFINE m == message[t]
<1>2. m \in 1..Len(made) /\ m \in Nat /\ FrameOf(m) \in Seq(Nat)
  <2>1. m \in 0..Len(made) /\ m # 0 /\ made \in Seq(Sizes) /\ Len(made) \in Nat
    BY <1>1 DEF Types, Exclusive
  <2>2. m \in 1..Len(made) /\ m \in Nat
    BY <2>1
  <2> QED
    BY <2>1, <2>2, FrameOfMade DEF FrameOf
<1> HIDE DEF m
<1>3. log' \in Seq(1..Len(made)) /\ log' # <<>> /\ Len(log') = Len(log) + 1 /\ log'[Len(log')] = m /\ Len(log) \in Nat
  <2>1. log \in Seq(1..Len(made)) /\ log' = Append(log, m) /\ Len(log) \in Nat
    BY <1>1 DEF Types, m
  <2>2. /\ Append(log, m) \in Seq(1..Len(made)) /\ Append(log, m) # <<>> /\ Len(Append(log, m)) = Len(log) + 1
        /\ Append(log, m)[Len(log) + 1] = m
    <3> DEFINE M == 1..Len(made)
    <3>1. log \in Seq(M) /\ m \in M
      BY <1>2, <2>1
    <3> HIDE DEF M
    <3>2. /\ Append(log, m) \in Seq(M) /\ Append(log, m) # <<>> /\ Len(Append(log, m)) = Len(log) + 1
          /\ Append(log, m)[Len(log) + 1] = m
      BY <3>1, AppendProperties
    <3> QED
      BY <3>2 DEF M
  <2> QED
    BY <2>1, <2>2
<1>4. Types'
  <2>1. pc' \in [Threads -> {"idle", "lock", "send"}] /\ left' \in Seq(Nat) /\ lock' \subseteq Threads
    BY <1>1, <1>2 DEF Types, m
  <2>2. joined' \in [Peers -> 0..Len(log')]
    <3>1. 0..Len(log) \subseteq 0..Len(log')
      BY <1>3
    <3> QED
      BY <1>1, <3>1 DEF Types
  <2> QED
    BY <1>1, <1>3, <2>1, <2>2 DEF Types
<1>5. Exclusive'
  <2>1. \A u \in Threads : u # t => pc'[u] = pc[u] /\ pc[u] # "send"
    BY <1>1 DEF Types, Exclusive
  <2>2. pc'[t] = "send" /\ message'[t] # 0
    BY <1>1 DEF Types, Exclusive
  <2>3. log'[Len(log')] = message'[t]
    BY <1>1, <1>3 DEF m
  <2> QED
    BY <1>1, <1>3, <2>1, <2>2, <2>3 DEF Exclusive
<1>6. OnTheList'
  BY <1>1 DEF OnTheList, Live
<1>7. Outside'
  BY <1>1 DEF Outside, Placed, Untold
<1>8. ASSUME NEW c \in Peers PROVE Stream(c)'
  <2>1. SUFFICES ASSUME Live(c), lost[c] # "sync" PROVE \E gone, rest \in Seq(1..Len(made)) : Fed(c, gone, rest)'
    BY <1>1 DEF Stream, Live
  <2>2. PICK gone \in Seq(1..Len(made)), rest \in Seq(1..Len(made)) : Fed(c, gone, rest)
    BY <2>1 DEF Streams, Stream
  <2>3. Pending(c) = <<>>
    BY <1>1 DEF Pending
  <2>4. Pending(c)' = FrameOf(m)
    <3>1. c \in ToSet(clients) /\ clients # <<>>
      <4>1. c \in ToSet(clients) /\ clients \in Seq(Peers)
        BY <2>1 DEF OnTheList, Types
      <4> QED
        BY <4>1, Members
    <3>2. FrameOf(m)' = FrameOf(m)
      BY <1>1 DEF FrameOf, m
    <3>3. FrameOf(log[Len(log)])' = FrameOf(m)
      BY <1>1, <1>3 DEF FrameOf
    <3> QED
      BY <1>1, <3>1, <3>3 DEF Pending, m
  <2>5. Sent(c)' = Sent(c) /\ told' = told /\ lost' = lost /\ Sent(c) \in Seq(Nat)
    <3>1. Sent(c) \in Seq(Nat)
      <4>1. wire[c] \in Seq(Nat) /\ buf[c] \in Seq(Nat) /\ (peer[c] = "asked" => Answered <= Len(wire[c]))
        BY <2>1, Typed DEF Outside, Placed, Live
      <4>2. buf[c] \o wire[c] \in Seq(Nat)
        BY <4>1, ConcatProperties
      <4>3. peer[c] = "asked" => After(wire[c]) \in Seq(Nat)
        BY <4>1, Skipped
      <4> QED
        BY <4>2, <4>3 DEF Sent
    <3> QED
      BY <1>1, <3>1 DEF Sent
  <2>6. PICK next \in Seq(1..Len(made)) : next = rest \o <<m>> /\ next = Append(rest, m)
    <3>1. Append(rest, m) \in Seq(1..Len(made)) /\ Append(rest, m) = rest \o <<m>>
      BY <1>2, AppendProperties, AppendIsConcat
    <3> QED
      BY <3>1
  <2>7. Owed(c)' = gone \o told[c] \o next
    <3>1. Owed(c)' = Owed(c) \o <<m>>
      <4>1. log \in Seq(1..Len(made)) /\ joined[c] \in 0..Len(log)
        BY Typed
      <4>2. SubSeq(Append(log, m), joined[c] + 1, Len(Append(log, m))) = SubSeq(log, joined[c] + 1, Len(log)) \o <<m>>
        BY <1>2, <4>1, Later
      <4> QED
        BY <1>1, <4>2 DEF Owed, m
    <3>2. PICK g \in Seq(Nat), u \in Seq(Nat), r \in Seq(Nat), o \in Seq(Nat) :
             g = gone /\ u = told[c] /\ r = rest /\ o = <<m>>
      <4>1. gone \in Seq(Nat) /\ told[c] \in Seq(Nat) /\ rest \in Seq(Nat) /\ <<m>> \in Seq(Nat)
        <5>1. 1..Len(made) \subseteq Nat
          BY Typed
        <5> QED
          BY <1>2, <5>1, Typed, SeqMonotonic
      <4> QED
        BY <4>1
    <3>3. Owed(c) = g \o u \o r
      BY <2>2, <3>2 DEF Fed, Ahead
    <3>4. (g \o u \o r) \o o = g \o u \o (r \o o)
      <4>1. g \o u \in Seq(Nat)
        BY ConcatProperties
      <4> QED
        BY <4>1, Regroup
    <3> QED
      BY <2>6, <3>1, <3>2, <3>3, <3>4
  <2>8. Frames(made, next) = Frames(made, rest) \o FrameOf(m)
    <3>1. <<m>> \in Seq(1..Len(made)) /\ made \in Seq(Sizes)
      BY <1>2 DEF Types
    <3>2. Frames(made, <<m>>) = FrameOf(m)
      BY <1>2, <3>1, FramesOfFew DEF FrameOf
    <3> QED
      BY <2>6, <3>1, <3>2, FramesConcat
  <2>9. Sent(c) = Frames(made, rest)
    BY <2>2, <2>3, <2>5, ConcatEmptySeq DEF Fed, Ahead
  <2>10. Fed(c, gone, next)'
    BY <1>1, <2>2, <2>4, <2>5, <2>7, <2>8, <2>9 DEF Fed, Ahead
  <2> QED
    BY <1>1, <2>10
<1> QED
  BY <1>4, <1>5, <1>6, <1>7, <1>8 DEF Streams

\* The holder has done with the first of its list: who is left gets the same as before.
LEMMA NextStep ==
    ASSUME IInv, NEW t \in lock, todo # <<>>, NEW c0, c0 = Head(todo), NextClient(t), UNCHANGED <<made, log>>
    PROVE  /\ todo' \in Seq(Peers) /\ left' \in Seq(Nat)
           /\ IsInjective(todo') /\ ToSet(todo') \subseteq ToSet(todo)
           /\ Pending(c0)' = <<>>
           /\ \A c \in Peers \ {c0} : Pending(c)' = Pending(c)
<1> USE DEF IInv
<1>1. todo \in Seq(Peers) /\ IsInjective(todo) /\ todo' = Tail(todo) /\ FrameOf(message[t]) \in Seq(Nat)
  BY Sending DEF Types, OnTheList, NextClient
<1>2. /\ todo' \in Seq(Peers) /\ IsInjective(todo') /\ c0 \notin ToSet(todo')
      /\ ToSet(todo) = {c0} \cup ToSet(todo')
  BY <1>1, Headed
<1>3. left' = IF todo' = <<>> THEN <<>> ELSE FrameOf(log[Len(log)])
  BY <1>1, Sending DEF NextClient
<1>4. left' \in Seq(Nat)
  BY <1>1, <1>3, Sending
<1>5. Pending(c0)' = <<>>
  BY <1>2 DEF Pending
<1>6. ASSUME NEW c \in Peers \ {c0} PROVE Pending(c)' = Pending(c)
  <2>1. c \in ToSet(todo') <=> c \in ToSet(todo)
    BY <1>2
  <2>2. c \in ToSet(todo') => todo' # <<>>
    BY <1>2, Members
  <2>3. FrameOf(log[Len(log)])' = FrameOf(log[Len(log)])
    BY DEF FrameOf
  <2>4. Pending(c) = IF c \in ToSet(todo) THEN FrameOf(log[Len(log)]) ELSE <<>>
    BY DEF Pending
  <2>5. Pending(c)' = IF c \in ToSet(todo') THEN FrameOf(log[Len(log)]) ELSE <<>>
    BY <1>3, <2>2, <2>3 DEF Pending
  <2> QED
    BY <2>1, <2>4, <2>5
<1> QED
  BY <1>2, <1>4, <1>5, <1>6

\* A sendall to a client that is there.
LEMMA SendStep ==
    ASSUME IInv, NEW t \in Threads, Send(t)
    PROVE  IInv'
<1> USE DEF IInv
<1>0. PICK c0 : c0 = Head(todo)
  OBVIOUS
<1>1. /\ t \in lock /\ todo # <<>> /\ peer[c0] # "closed"
      /\ UNCHANGED <<made, message, pc, lock, clients, failed, log, handler, peer, buf, told, lost, joined>>
  BY <1>0 DEF Send
<1>2. todo \in Seq(Peers) /\ c0 \in Peers /\ c0 \in ToSet(todo) /\ handler[c0] = "parked"
  <2>1. todo \in Seq(Peers)
    BY DEF Types
  <2>2. c0 \in Peers /\ c0 \in ToSet(todo)
    BY <1>0, <1>1, <2>1, Headed, Members
  <2> QED
    BY <2>1, <2>2 DEF OnTheList
<1>3. PICK n \in 1..Len(left) :
         /\ wire' = [wire EXCEPT ![c0] = @ \o SubSeq(left, 1, n)] /\ Len(wire[c0]) + n <= Room
         /\ IF n = Len(left) THEN NextClient(t)
            ELSE left' = SubSeq(left, n + 1, Len(left)) /\ UNCHANGED todo
  <2> DEFINE n == IF Len(left) < Room - Len(wire[c0]) THEN Len(left) ELSE Room - Len(wire[c0])
  <2>1. /\ n > 0 /\ wire' = [wire EXCEPT ![c0] = @ \o SubSeq(left, 1, n)]
        /\ IF n = Len(left) THEN NextClient(t)
           ELSE left' = SubSeq(left, n + 1, Len(left)) /\ UNCHANGED todo
    BY <1>0 DEF Send
  <2>2. PICK L \in Nat, W \in Nat : L = Len(left) /\ W = Len(wire[c0]) /\ W <= Room /\ Room \in Nat
    <3>1. Len(left) \in Nat /\ Len(wire[c0]) \in Nat
      BY <1>2, Typed
    <3>2. Len(wire[c0]) <= Room
      BY <1>2 DEF Types
    <3>3. Room \in Nat
      BY ClientsAssumption
    <3> QED
      BY <3>1, <3>2, <3>3
  <2>3. n \in 1..Len(left) /\ Len(wire[c0]) + n <= Room
    <3>1. n = IF L < Room - W THEN L ELSE Room - W
      BY <2>2
    <3>2. n > 0
      BY <2>1
    <3>3. W <= Room /\ Room \in Nat
      BY <2>2
    <3> HIDE DEF n
    <3>4. n \in 1..L /\ W + n <= Room
      BY <3>1, <3>2, <3>3
    <3> QED
      BY <2>2, <3>4
  <2> HIDE DEF n
  <2> QED
    BY <2>1, <2>3
<1> DEFINE x == SubSeq(left, 1, n)
           y == SubSeq(left, n + 1, Len(left))
<1>4. /\ left \in Seq(Nat) /\ x \in Seq(Nat) /\ Len(x) = n /\ y \in Seq(Nat) /\ x \o y = left
      /\ (n = Len(left) => y = <<>>) /\ x # <<>>
  <2>1. left \in Seq(Nat) /\ n \in 0..Len(left)
    BY DEF Types
  <2>2. x \in Seq(Nat) /\ Len(x) = n /\ y \in Seq(Nat) /\ x \o y = left /\ Len(y) = Len(left) - n
    BY <2>1, Parted
  <2> HIDE DEF x, y
  <2> QED
    BY <2>1, <2>2, EmptySeq
<1> HIDE DEF x, y
<1>5. wire[c0] \in Seq(Nat) /\ wire'[c0] = wire[c0] \o x /\ \A c \in Peers \ {c0} : wire'[c] = wire[c]
  BY <1>2, <1>3 DEF Types, x
<1>6. /\ wire'[c0] \in Seq(Nat) /\ Len(wire'[c0]) = Len(wire[c0]) + n
      /\ peer[c0] = "asked" => Answered <= Len(wire[c0]) /\ Answered <= Len(wire'[c0])
  <2>1. wire[c0] \o x \in Seq(Nat) /\ Len(wire[c0] \o x) = Len(wire[c0]) + n
    BY <1>4, <1>5, Grown
  <2>2. peer[c0] = "asked" => Answered <= Len(wire[c0])
    BY <1>2 DEF Outside, Placed
  <2>3. Answered <= Len(wire[c0]) => Answered <= Len(wire[c0] \o x)
    BY <1>4, <1>5, Skipped
  <2> QED
    BY <1>5, <2>1, <2>2, <2>3
<1>7. /\ todo' \in Seq(Peers) /\ left' \in Seq(Nat) /\ IsInjective(todo') /\ ToSet(todo') \subseteq ToSet(todo)
      /\ Pending(c0) = left /\ Pending(c0)' = y
      /\ \A c \in Peers \ {c0} : Pending(c)' = Pending(c)
  <2>1. Pending(c0) = left
    BY <1>0, <1>1, <1>2 DEF Pending
  <2>2. CASE n = Len(left)
    BY <1>1, <1>3, <1>4, <2>1, <2>2, <1>0, NextStep
  <2>3. CASE n # Len(left)
    <3>1. left' = y /\ todo' = todo
      BY <1>3, <2>3 DEF y
    <3>2. FrameOf(log[Len(log)])' = FrameOf(log[Len(log)])
      BY <1>1 DEF FrameOf
    <3> QED
      BY <1>0, <1>1, <1>2, <1>4, <2>1, <3>1, <3>2 DEF Pending, OnTheList
  <2> QED
    BY <2>2, <2>3
<1>8. Types'
  <2>1. wire' \in [Peers -> Seq(Nat)]
    <3>1. wire \in [Peers -> Seq(Nat)] /\ wire[c0] \o x \in Seq(Nat) /\ wire' = [wire EXCEPT ![c0] = wire[c0] \o x]
      BY <1>3, <1>5, <1>6 DEF Types, x
    <3> QED
      BY <3>1
  <2>2. \A c \in Peers : Len(wire'[c]) <= Room
    BY <1>3, <1>5, <1>6 DEF Types
  <2> QED
    BY <1>1, <1>7, <2>1, <2>2 DEF Types
<1>9. Exclusive'
  BY <1>1 DEF Exclusive
<1>10. OnTheList'
  BY <1>1, <1>7 DEF OnTheList, Live
<1>11. Outside'
  BY <1>1, <1>2, <1>5, <1>6 DEF Outside, Placed, Untold
<1>12. ASSUME NEW c \in Peers PROVE Stream(c)'
  <2>1. Stream(c) /\ (Live(c)' => Live(c)) /\ Owed(c)' = Owed(c)
    BY <1>1 DEF Streams, Live, Owed
  <2>2. (Sent(c) \o Pending(c))' = Sent(c) \o Pending(c)
    <3>1. CASE c # c0
      <4>1. Sent(c)' = Sent(c) /\ Pending(c)' = Pending(c)
        BY <1>1, <1>5, <1>7, <3>1 DEF Sent
      <4> QED
        BY <4>1
    <3>2. CASE c = c0
      <4>1. PICK s \in Seq(Nat) : s = Sent(c) /\ Sent(c)' = s \o x
        <5>1. CASE peer[c] = "asked"
          <6>1. After(wire[c0]) \in Seq(Nat) /\ After(wire'[c0]) = After(wire[c0]) \o x
            <7>1. PICK w \in Seq(Nat) : w = wire[c0] /\ wire'[c0] = w \o x /\ Answered <= Len(w)
              BY <1>5, <1>6, <3>2, <5>1
            <7>2. After(w) \in Seq(Nat) /\ After(w \o x) = After(w) \o x
              BY <1>4, <7>1, Skipped
            <7> QED
              BY <7>1, <7>2
          <6> QED
            BY <1>1, <3>2, <5>1, <6>1 DEF Sent
        <5>2. CASE peer[c] # "asked"
          <6>1. PICK b \in Seq(Nat) : b = buf[c0]
            BY <1>2, Typed
          <6>2. b \o wire[c0] \in Seq(Nat) /\ b \o (wire[c0] \o x) = (b \o wire[c0]) \o x
            BY <1>4, <1>5, <6>1, Regroup, ConcatProperties
          <6>3. Sent(c) = b \o wire[c0] /\ Sent(c)' = b \o (wire[c0] \o x)
            BY <1>1, <1>5, <3>2, <5>2, <6>1 DEF Sent
          <6> QED
            BY <6>2, <6>3
        <5> QED
          BY <5>1, <5>2
      <4>2. (s \o x) \o y = s \o left
        BY <1>4, Regroup
      <4>3. Pending(c) = left /\ Pending(c)' = y
        BY <1>7, <3>2
      <4> QED
        BY <4>1, <4>2, <4>3
    <3> QED
      BY <3>1, <3>2
  <2> QED
    BY <1>1, <2>1, <2>2, Unaffected
<1> QED
  BY <1>8, <1>9, <1>10, <1>11, <1>12 DEF Streams

\* A sendall to a client that is gone.
LEMMA SendGoneStep ==
    ASSUME IInv, NEW t \in Threads, SendGone(t)
    PROVE  IInv'
<1> USE DEF IInv
<1>0. PICK c0 : c0 = Head(todo)
  OBVIOUS
<1>1. /\ t \in lock /\ todo # <<>> /\ peer[c0] = "closed" /\ NextClient(t)
      /\ failed' \in {failed, failed \cup {c0}}
      /\ UNCHANGED <<made, message, pc, lock, clients, log, handler, peer, wire, buf, told, lost, joined>>
  BY <1>0 DEF SendGone
<1>2. /\ c0 \in Peers /\ todo' \in Seq(Peers) /\ left' \in Seq(Nat)
      /\ IsInjective(todo') /\ ToSet(todo') \subseteq ToSet(todo)
      /\ \A c \in Peers \ {c0} : Pending(c)' = Pending(c)
  <2>1. c0 \in Peers
    <3>1. todo \in Seq(Peers)
      BY DEF Types
    <3> QED
      BY <1>0, <1>1, <3>1, Headed
  <2> QED
    BY <1>0, <1>1, <2>1, NextStep
<1>3. Types'
  BY <1>1, <1>2 DEF Types
<1>4. Exclusive'
  BY <1>1 DEF Exclusive
<1>5. OnTheList'
  BY <1>1, <1>2 DEF OnTheList, Live
<1>6. Outside'
  BY <1>1 DEF Outside, Placed, Untold
<1>7. ASSUME NEW c \in Peers PROVE Stream(c)'
  <2>1. CASE c = c0
    BY <1>1, <2>1 DEF Stream, Live
  <2>2. CASE c # c0
    <3>1. Stream(c) /\ (Live(c)' => Live(c)) /\ Owed(c)' = Owed(c)
      BY <1>1 DEF Streams, Live, Owed
    <3>2. (Sent(c) \o Pending(c))' = Sent(c) \o Pending(c)
      <4>1. Sent(c)' = Sent(c) /\ Pending(c)' = Pending(c)
        BY <1>1, <1>2, <2>2 DEF Sent
      <4> QED
        BY <4>1
    <3> QED
      BY <1>1, <3>1, <3>2, Unaffected
  <2> QED
    BY <2>1, <2>2
<1> QED
  BY <1>3, <1>4, <1>5, <1>6, <1>7 DEF Streams

\* The dead leave the list, and the lock is free.
LEMMA ReleaseStep ==
    ASSUME IInv, NEW t \in Threads, Release(t)
    PROVE  IInv'
<1> USE DEF IInv
<1>1. /\ t \in lock /\ todo = <<>> /\ clients' = Without(clients, failed)
      /\ pc' = [pc EXCEPT ![t] = "idle"] /\ lock' = {} /\ failed' = {}
      /\ message' = [message EXCEPT ![t] = 0]
      /\ UNCHANGED <<made, todo, left, log, handler, peer, wire, buf, told, lost, joined>>
  BY DEF Release
<1>2. clients' \in Seq(Peers) /\ IsInjective(clients') /\ ToSet(clients') = ToSet(clients) \ failed
  BY <1>1, WithoutDef DEF Types, OnTheList
<1>3. Types'
  <2>1. message' \in [Threads -> 0..Len(made)] /\ pc' \in [Threads -> {"idle", "lock", "send"}]
    <3>1. 0 \in 0..Len(made)
      BY DEF Types
    <3> QED
      BY <1>1, <3>1 DEF Types
  <2> QED
    BY <1>1, <1>2, <2>1 DEF Types
<1>4. Exclusive'
  BY <1>1 DEF Exclusive, Types
<1>5. OnTheList'
  <2>1. \A c \in ToSet(clients') : handler'[c] = "parked"
    BY <1>1, <1>2 DEF OnTheList
  <2>2. \A c \in Peers : Live(c)' => c \in ToSet(clients')
    BY <1>1, <1>2 DEF OnTheList, Live
  <2>3. IsInjective(todo') /\ ToSet(todo') \subseteq ToSet(clients')
    <3>1. ToSet(todo) = {}
      BY <1>1 DEF ToSet
    <3> QED
      BY <1>1, <3>1 DEF OnTheList
  <2> QED
    BY <1>1, <1>2, <2>1, <2>2, <2>3 DEF OnTheList
<1>6. Outside'
  BY <1>1 DEF Outside, Placed, Untold
<1>7. ASSUME NEW c \in Peers PROVE Stream(c)'
  <2>1. Stream(c) /\ (Live(c)' => Live(c)) /\ Owed(c)' = Owed(c)
    BY <1>1 DEF Streams, Live, Owed
  <2>2. (Sent(c) \o Pending(c))' = Sent(c) \o Pending(c)
    <3>1. Sent(c)' = Sent(c) /\ Pending(c)' = Pending(c)
      BY <1>1 DEF Sent, Pending
    <3> QED
      BY <3>1
  <2> QED
    BY <1>1, <2>1, <2>2, Unaffected
<1> QED
  BY <1>3, <1>4, <1>5, <1>6, <1>7 DEF Streams

\* The answer to the upgrade leaves.
LEMMA AnswerStep ==
    ASSUME IInv, NEW c0 \in Peers, Answer(c0)
    PROVE  IInv'
<1> USE DEF IInv
<1>1. PICK next \in {"answered", "done"} :
      /\ handler[c0] = "none" /\ handler' = [handler EXCEPT ![c0] = next]
      /\ next = "done" => peer[c0] = "closed"
      /\ wire' = [wire EXCEPT ![c0] = IF peer[c0] = "closed" THEN <<>> ELSE ANSWER]
      /\ UNCHANGED <<made, message, pc, lock, clients, todo, left, failed, log, peer, buf, told, lost, joined>>
  BY DEF Answer, server
<1>2. handler'[c0] = next /\ \A c \in Peers \ {c0} : handler'[c] = handler[c] /\ wire'[c] = wire[c]
  BY <1>1 DEF Types
<1>3. wire'[c0] = (IF peer[c0] = "closed" THEN <<>> ELSE ANSWER) /\ peer[c0] # "open"
  BY <1>1 DEF Types, Outside, Placed
<1>4. Types'
  <2>1. <<>> \in Seq(Nat) /\ ANSWER \in Seq(Nat) /\ Len(<<>>) <= Room /\ Len(ANSWER) <= Room
    BY ClientsAssumption, AnswerAlone
  <2>2. wire' \in [Peers -> Seq(Nat)] /\ handler' \in [Peers -> {"none", "answered", "parked", "done"}]
    BY <1>1, <2>1 DEF Types
  <2>3. \A c \in Peers : Len(wire'[c]) <= Room
    BY <1>2, <1>3, <2>1 DEF Types
  <2> QED
    BY <1>1, <2>2, <2>3 DEF Types
<1>5. Exclusive'
  BY <1>1 DEF Exclusive
<1>6. OnTheList'
  <2>1. c0 \notin ToSet(clients) /\ ToSet(clients) \subseteq Peers
    BY <1>1, Members DEF OnTheList, Types
  <2> QED
    BY <1>1, <1>2, <2>1 DEF OnTheList, Live
<1>7. Outside'
  <2>1. Placed(c0)'
    <3>1. told[c0] = <<>> /\ buf[c0] = <<>> /\ lost[c0] = "nothing" /\ (next = "done" => peer[c0] = "closed")
      BY <1>1, <1>3 DEF Outside, Placed, Untold
    <3>2. peer[c0] \in {"asked", "open", "closed"}
      BY DEF Types
    <3>3. wire'[c0] = IF peer[c0] = "asked" THEN ANSWER ELSE <<>>
      BY <1>3, <3>2
    <3>4. told' = told /\ buf' = buf /\ lost' = lost /\ peer' = peer
      BY <1>1
    <3>5. handler'[c0] \in {"answered", "done"} /\ (handler'[c0] = "done" => peer[c0] = "closed")
      BY <1>1, <1>2
    <3> QED
      BY <1>3, <3>1, <3>2, <3>3, <3>4, <3>5 DEF Placed, Untold
  <2>2. ASSUME NEW c \in Peers, c # c0 PROVE Placed(c)'
    BY <1>1, <1>2, <2>2 DEF Outside, Placed, Untold
  <2> QED
    BY <2>1, <2>2 DEF Outside
<1>8. ASSUME NEW c \in Peers PROVE Stream(c)'
  <2>1. CASE c = c0
    BY <1>2, <2>1 DEF Stream, Live
  <2>2. CASE c # c0
    <3>1. Stream(c) /\ (Live(c)' => Live(c)) /\ Owed(c)' = Owed(c)
      BY <1>1, <1>2, <2>2 DEF Streams, Live, Owed
    <3>2. (Sent(c) \o Pending(c))' = Sent(c) \o Pending(c)
      <4>1. FrameOf(log[Len(log)])' = FrameOf(log[Len(log)])
        BY <1>1 DEF FrameOf
      <4>2. Sent(c)' = Sent(c) /\ Pending(c)' = Pending(c)
        BY <1>1, <1>2, <2>2, <4>1 DEF Sent, Pending
      <4> QED
        BY <4>2
    <3> QED
      BY <1>1, <3>1, <3>2, Unaffected
  <2> QED
    BY <2>1, <2>2
<1> QED
  BY <1>4, <1>5, <1>6, <1>7, <1>8 DEF Streams

\* The connection is registered: nothing is owed to it so far.
LEMMA AddClientStep ==
    ASSUME IInv, NEW c0 \in Peers, AddClient(c0)
    PROVE  IInv'
<1> USE DEF IInv
<1>1. /\ handler[c0] = "answered" /\ lock = {} /\ todo = <<>> /\ failed = {}
      /\ clients' = Append(clients, c0) /\ handler' = [handler EXCEPT ![c0] = "parked"]
      /\ joined' = [joined EXCEPT ![c0] = IF peer[c0] = "closed" THEN 0 ELSE Len(log)]
      /\ UNCHANGED <<made, message, pc, lock, todo, left, failed, log, peer, wire, buf, told, lost>>
  BY DEF AddClient, Exclusive
<1>2. handler'[c0] = "parked" /\ \A c \in Peers \ {c0} : handler'[c] = handler[c] /\ joined'[c] = joined[c]
  BY <1>1 DEF Types
<1>3. clients' \in Seq(Peers) /\ IsInjective(clients') /\ ToSet(clients') = ToSet(clients) \cup {c0}
  <2>1. clients \in Seq(Peers) /\ IsInjective(clients) /\ c0 \notin ToSet(clients)
    BY <1>1 DEF OnTheList, Types
  <2>2. Append(clients, c0) \in Seq(Peers)
    BY <2>1, AppendProperties
  <2> QED
    BY <1>1, <2>1, <2>2, AppendRange, AppendInjects
<1>4. Types'
  <2>1. joined' \in [Peers -> 0..Len(log)]
    <3>1. 0 \in 0..Len(log) /\ Len(log) \in 0..Len(log)
      BY DEF Types
    <3> QED
      BY <1>1, <3>1 DEF Types
  <2>2. handler' \in [Peers -> {"none", "answered", "parked", "done"}]
    BY <1>1 DEF Types
  <2> QED
    BY <1>1, <1>3, <2>1, <2>2 DEF Types
<1>5. Exclusive'
  BY <1>1 DEF Exclusive
<1>6. OnTheList'
  <2>1. ToSet(clients) \subseteq Peers
    BY Members DEF Types
  <2> QED
    BY <1>1, <1>2, <1>3, <2>1 DEF OnTheList, Live
<1>7. Outside'
  <2>1. ASSUME NEW c \in Peers, c # c0 PROVE handler'[c] = handler[c]
    BY <1>2, <2>1
  <2>2. peer[c0] = "asked" => Answered <= Len(wire[c0])
    <3>1. peer[c0] = "asked" => wire[c0] = ANSWER
      BY <1>1 DEF Outside, Placed
    <3> QED
      BY <3>1, AnswerAlone
  <2> QED
    BY <1>1, <1>2, <2>1, <2>2 DEF Outside, Placed, Untold
<1>8. ASSUME NEW c \in Peers PROVE Stream(c)'
  <2>1. CASE c = c0 /\ peer[c] # "closed" /\ lost[c] # "sync"
    <3>1. told'[c] = <<>> /\ lost'[c] = "nothing" /\ buf'[c] = <<>>
      BY <1>1, <2>1 DEF Outside, Placed, Untold, Types
    <3>2. Owed(c)' = <<>>
      <4>1. joined'[c] = Len(log) /\ log' = log /\ Len(log) \in Nat
        BY <1>1, <2>1 DEF Types
      <4>2. SubSeq(log, Len(log) + 1, Len(log)) = <<>>
        BY <4>1, SubSeqEmpty
      <4> QED
        BY <4>1, <4>2 DEF Owed
    <3>3. Sent(c)' = <<>> /\ Pending(c)' = <<>>
      <4>1. Pending(c)' = <<>>
        BY <1>1 DEF Pending
      <4>2. wire[c] = IF peer[c] = "asked" THEN ANSWER ELSE <<>>
        BY <1>1, <2>1 DEF Outside, Placed
      <4> QED
        BY <1>1, <3>1, <4>1, <4>2, AnswerAlone DEF Sent
    <3>4. Frames(made', <<>>) = <<>>
      BY <1>1, FramesOfFew DEF Types
    <3>5. Fed(c, <<>>, <<>>)'
      BY <3>1, <3>2, <3>3, <3>4 DEF Fed, Ahead
    <3>6. <<>> \in Seq(1..Len(made'))
      OBVIOUS
    <3> QED
      BY <3>5, <3>6 DEF Stream
  <2>2. CASE c = c0 /\ (peer[c] = "closed" \/ lost[c] = "sync")
    BY <1>1, <2>2 DEF Stream, Live
  <2>3. CASE c # c0
    <3>1. Stream(c) /\ (Live(c)' => Live(c)) /\ Owed(c)' = Owed(c)
      BY <1>1, <1>2, <2>3 DEF Streams, Live, Owed
    <3>2. (Sent(c) \o Pending(c))' = Sent(c) \o Pending(c)
      <4>1. Sent(c)' = Sent(c) /\ Pending(c)' = Pending(c)
        BY <1>1 DEF Sent, Pending
      <4> QED
        BY <4>1
    <3> QED
      BY <1>1, <3>1, <3>2, Unaffected
  <2> QED
    BY <2>1, <2>2, <2>3
<1> QED
  BY <1>4, <1>5, <1>6, <1>7, <1>8 DEF Streams

\* The handler of a connection that is gone takes it off the list.
LEMMA RemoveClientStep ==
    ASSUME IInv, NEW c0 \in Peers, RemoveClient(c0)
    PROVE  IInv'
<1> USE DEF IInv
<1>1. /\ peer[c0] = "closed" /\ lock = {} /\ todo = <<>> /\ failed = {}
      /\ clients' = Without(clients, {c0}) /\ handler' = [handler EXCEPT ![c0] = "done"]
      /\ UNCHANGED <<made, message, pc, lock, todo, left, failed, log, peer, wire, buf, told, lost, joined>>
  BY DEF RemoveClient, Exclusive
<1>2. handler'[c0] = "done" /\ \A c \in Peers \ {c0} : handler'[c] = handler[c]
  BY <1>1 DEF Types
<1>3. clients' \in Seq(Peers) /\ IsInjective(clients') /\ ToSet(clients') = ToSet(clients) \ {c0}
  BY <1>1, WithoutDef DEF Types, OnTheList
<1>4. Types'
  BY <1>1, <1>3 DEF Types
<1>5. Exclusive'
  BY <1>1 DEF Exclusive
<1>6. OnTheList'
  <2>1. ToSet(clients) \subseteq Peers /\ ToSet(todo) = {}
    BY <1>1, Members DEF Types
  <2> QED
    BY <1>1, <1>2, <1>3, <2>1 DEF OnTheList, Live
<1>7. Outside'
  <2>1. ASSUME NEW c \in Peers, c # c0 PROVE handler'[c] = handler[c]
    BY <1>2, <2>1
  <2> QED
    BY <1>1, <1>2, <2>1 DEF Outside, Placed, Untold
<1>8. ASSUME NEW c \in Peers PROVE Stream(c)'
  <2>1. Stream(c) /\ (Live(c)' => Live(c)) /\ Owed(c)' = Owed(c)
    BY <1>1, <1>2 DEF Streams, Live, Owed
  <2>2. (Sent(c) \o Pending(c))' = Sent(c) \o Pending(c)
    <3>1. Sent(c)' = Sent(c) /\ Pending(c)' = Pending(c)
      BY <1>1 DEF Sent, Pending
    <3> QED
      BY <3>1
  <2> QED
    BY <1>1, <2>1, <2>2, Unaffected
<1> QED
  BY <1>4, <1>5, <1>6, <1>7, <1>8 DEF Streams

\* The client is gone, and is not followed any further.
LEMMA CloseStep ==
    ASSUME IInv, NEW c0 \in Peers, Leaves(c0)
    PROVE  IInv'
<1> USE DEF IInv
<1>1. /\ peer' = [peer EXCEPT ![c0] = "closed"] /\ wire' = [wire EXCEPT ![c0] = <<>>]
      /\ buf' = [buf EXCEPT ![c0] = <<>>] /\ told' = [told EXCEPT ![c0] = <<>>]
      /\ lost' = [lost EXCEPT ![c0] = "nothing"] /\ joined' = [joined EXCEPT ![c0] = 0]
      /\ UNCHANGED <<made, message, pc, lock, clients, todo, left, failed, log, handler>>
  BY DEF Leaves, server
<1>2. /\ peer'[c0] = "closed" /\ wire'[c0] = <<>> /\ buf'[c0] = <<>> /\ told'[c0] = <<>> /\ lost'[c0] = "nothing"
      /\ \A c \in Peers \ {c0} : /\ peer'[c] = peer[c] /\ wire'[c] = wire[c] /\ buf'[c] = buf[c]
                                 /\ told'[c] = told[c] /\ lost'[c] = lost[c] /\ joined'[c] = joined[c]
  BY <1>1 DEF Types
<1>3. Types'
  <2>1. <<>> \in Seq(Nat) /\ <<>> \in Seq(1..Len(made)) /\ Len(<<>>) <= Room /\ 0 \in 0..Len(log)
    BY ClientsAssumption DEF Types
  <2>2. /\ peer' \in [Peers -> {"asked", "open", "closed"}] /\ lost' \in [Peers -> {"nothing", "frames", "sync"}]
        /\ joined' \in [Peers -> 0..Len(log)]
    BY <1>1, <2>1 DEF Types
  <2>3. wire' \in [Peers -> Seq(Nat)] /\ buf' \in [Peers -> Seq(Nat)] /\ told' \in [Peers -> Seq(1..Len(made))]
    BY <1>1, <2>1 DEF Types
  <2>4. \A c \in Peers : Len(wire'[c]) <= Room
    BY <1>2, <2>1 DEF Types
  <2> QED
    BY <1>1, <2>2, <2>3, <2>4 DEF Types
<1>4. Exclusive'
  BY <1>1 DEF Exclusive
<1>5. OnTheList'
  <2>1. \A c \in Peers : Live(c)' => Live(c)
    BY <1>1, <1>2 DEF Live
  <2>2. \A c \in failed : peer'[c] = "closed"
    BY <1>1 DEF OnTheList, Types
  <2> QED
    BY <1>1, <2>1, <2>2 DEF OnTheList
<1>6. Outside'
  <2>1. ASSUME NEW c \in Peers, c # c0
        PROVE  /\ peer'[c] = peer[c] /\ wire'[c] = wire[c] /\ buf'[c] = buf[c]
               /\ told'[c] = told[c] /\ lost'[c] = lost[c]
    BY <1>2, <2>1
  <2> QED
    BY <1>1, <1>2, <2>1 DEF Outside, Placed, Untold
<1>7. ASSUME NEW c \in Peers PROVE Stream(c)'
  <2>1. CASE c = c0
    BY <1>2, <2>1 DEF Stream, Live
  <2>2. CASE c # c0
    <3>1. Stream(c) /\ (Live(c)' => Live(c)) /\ Owed(c)' = Owed(c)
      BY <1>1, <1>2, <2>2 DEF Streams, Live, Owed
    <3>2. (Sent(c) \o Pending(c))' = Sent(c) \o Pending(c)
      <4>1. FrameOf(log[Len(log)])' = FrameOf(log[Len(log)])
        BY <1>1 DEF FrameOf
      <4>2. Sent(c)' = Sent(c) /\ Pending(c)' = Pending(c)
        BY <1>1, <1>2, <2>2, <4>1 DEF Sent, Pending
      <4> QED
        BY <4>2
    <3> QED
      BY <1>1, <1>2, <2>2, <3>1, <3>2, Unaffected
  <2> QED
    BY <2>1, <2>2
<1> QED
  BY <1>3, <1>4, <1>5, <1>6, <1>7 DEF Streams

\* Only what is on its way to one client, and what the client has, changes.
LEMMA OthersRead ==
    ASSUME IInv, NEW c0 \in Peers, NEW c \in Peers, c # c0,
           UNCHANGED <<made, log, todo, left, handler, joined>>,
           UNCHANGED <<peer[c], wire[c], buf[c], told[c], lost[c]>>
    PROVE  Placed(c)' /\ Stream(c)'
<1>1. Placed(c)'
  BY DEF IInv, Outside, Placed, Untold
<1>2. Stream(c) /\ (Live(c)' => Live(c)) /\ Owed(c)' = Owed(c)
  BY DEF IInv, Streams, Live, Owed
<1>3. (Sent(c) \o Pending(c))' = Sent(c) \o Pending(c)
  <2>1. FrameOf(log[Len(log)])' = FrameOf(log[Len(log)])
    BY DEF FrameOf
  <2>2. Sent(c)' = Sent(c) /\ Pending(c)' = Pending(c)
    BY <2>1 DEF Sent, Pending
  <2> QED
    BY <2>2
<1> QED
  BY <1>1, <1>2, <1>3, Unaffected

\* What is pending is a string.
LEMMA PendingTyped ==
    ASSUME Types, Exclusive, NEW c \in Peers
    PROVE  Pending(c) \in Seq(Nat)
<1>1. todo # <<>> => FrameOf(log[Len(log)]) \in Seq(Nat)
  <2>1. ASSUME todo # <<>> PROVE FrameOf(log[Len(log)]) \in Seq(Nat)
    <3>1. PICK t \in lock : TRUE
      BY <2>1 DEF Exclusive
    <3> QED
      BY <3>1, Sending
  <2> QED
    BY <2>1
<1>2. left \in Seq(Nat) /\ <<>> \in Seq(Nat)
  BY DEF Types
<1> QED
  BY <1>1, <1>2 DEF Pending

\* connect() takes the answer, and throws away what comes with it.
LEMMA ConnectStep ==
    ASSUME IInv, NEW c0 \in Peers, Connect(c0)
    PROVE  IInv'
<1> USE DEF IInv
<1>1. PICK n \in Accepted..Len(wire[c0]) :
         /\ peer[c0] = "asked"
         /\ wire' = [wire EXCEPT ![c0] = SubSeq(@, n + 1, Len(@))]
         /\ lost' = [lost EXCEPT ![c0] =
                IF n = Answered THEN "nothing"
                ELSE IF n > Answered /\ \E k \in 1..Len(log) - joined[c0] : n = Answered + Len(FirstFrames(c0, k))
                     THEN "frames" ELSE "sync"]
         /\ peer' = [peer EXCEPT ![c0] = "open"]
         /\ UNCHANGED <<made, message, pc, lock, clients, todo, left, failed, log, handler, buf, told, joined>>
  BY DEF Connect, server
<1> DEFINE w == SubSeq(wire[c0], n + 1, Len(wire[c0]))
           l == IF n = Answered THEN "nothing"
                ELSE IF n > Answered /\ \E k \in 1..Len(log) - joined[c0] : n = Answered + Len(FirstFrames(c0, k))
                     THEN "frames" ELSE "sync"
<1>2. wire[c0] \in Seq(Nat) /\ w \in Seq(Nat) /\ Len(w) = Len(wire[c0]) - n /\ Len(w) <= Room
  <2>1. wire[c0] \in Seq(Nat) /\ Len(wire[c0]) <= Room /\ n \in 0..Len(wire[c0])
    BY ClientsAssumption DEF Types
  <2>2. PICK W \in Nat : W = Len(wire[c0]) /\ W <= Room
    BY <2>1
  <2>3. w \in Seq(Nat) /\ Len(w) = W - n
    BY <2>1, <2>2, Parted
  <2>4. W - n <= Room
    BY <2>2, ClientsAssumption
  <2> QED
    BY <2>1, <2>2, <2>3, <2>4
<1>3. wire'[c0] = w /\ lost'[c0] = l /\ peer'[c0] = "open" /\ l \in {"nothing", "frames", "sync"}
  BY <1>1 DEF Types
<1>4. \A c \in Peers \ {c0} : peer'[c] = peer[c] /\ wire'[c] = wire[c] /\ lost'[c] = lost[c]
  BY <1>1 DEF Types
<1>5. told[c0] = <<>> /\ buf[c0] = <<>> /\ lost[c0] = "nothing" /\ handler[c0] \in {"answered", "parked"}
  <2>1. handler[c0] \in {"none", "answered", "parked", "done"}
    BY DEF Types
  <2>2. wire[c0] # <<>>
    <3>1. Accepted \in Nat \ {0} /\ Len(wire[c0]) \in Nat /\ Len(wire[c0]) # 0
      BY <1>2, ClientsAssumption
    <3> QED
      BY <3>1
  <2> QED
    BY <1>1, <2>1, <2>2 DEF Outside, Placed, Untold
<1>6. n = Answered => w = After(wire[c0]) /\ l = "nothing"
  BY DEF After
<1>7. Types'
  <2>1. wire' \in [Peers -> Seq(Nat)] /\ lost' \in [Peers -> {"nothing", "frames", "sync"}]
        /\ peer' \in [Peers -> {"asked", "open", "closed"}]
    <3>1. wire \in [Peers -> Seq(Nat)] /\ lost \in [Peers -> {"nothing", "frames", "sync"}]
          /\ wire' = [wire EXCEPT ![c0] = w] /\ lost' = [lost EXCEPT ![c0] = l]
      BY <1>1 DEF Types
    <3> HIDE DEF w, l
    <3> QED
      BY <1>1, <1>2, <1>3, <3>1 DEF Types
  <2> HIDE DEF w, l
  <2>2. \A c \in Peers : Len(wire'[c]) <= Room
    BY <1>2, <1>3, <1>4 DEF Types
  <2> QED
    BY <1>1, <2>1, <2>2 DEF Types
<1>8. Exclusive'
  BY <1>1 DEF Exclusive
<1>9. OnTheList'
  <2>1. \A c \in Peers : Live(c)' => Live(c)
    BY <1>1, <1>3, <1>4 DEF Live
  <2>2. \A c \in failed : peer'[c] = "closed"
    BY <1>1, <1>4 DEF OnTheList, Types
  <2> QED
    BY <1>1, <2>1, <2>2 DEF OnTheList
<1>10. Placed(c0)'
  <2>1. ASSUME handler[c0] = "answered" PROVE (w = <<>> \/ l = "sync") /\ l # "frames"
    <3>1. wire[c0] = ANSWER
      BY <1>1, <2>1 DEF Outside, Placed
    <3>2. n = Answered \/ ~(n = Answered \/ n > Answered)
      <4>1. Answered \in Nat /\ n \in Nat /\ n <= Answered
        BY <3>1, AnswerAlone, ClientsAssumption
      <4> QED
        BY <4>1
    <3>3. CASE n = Answered
      BY <1>6, <3>1, <3>3, AnswerAlone
    <3>4. CASE ~(n = Answered \/ n > Answered)
      BY <3>4
    <3> QED
      BY <3>2, <3>3, <3>4
  <2> HIDE DEF w, l
  <2>2. buf'[c0] = <<>> /\ told'[c0] = <<>> /\ handler'[c0] \in {"answered", "parked"} /\ handler'[c0] = handler[c0]
    BY <1>1, <1>5
  <2> QED
    BY <1>3, <2>1, <2>2 DEF Placed, Untold
<1>11. Stream(c0)'
  <2>1. SUFFICES ASSUME handler[c0] = "parked", l # "sync"
                 PROVE  \E gone, rest \in Seq(1..Len(made)) : Fed(c0, gone, rest)'
    BY <1>1, <1>3 DEF Stream, Live
  <2>2. PICK rest \in Seq(1..Len(made)) : Owed(c0) = rest /\ After(wire[c0]) \o Pending(c0) = Frames(made, rest)
    <3>1. PICK gone \in Seq(1..Len(made)), rest \in Seq(1..Len(made)) : Fed(c0, gone, rest)
      BY <1>1, <1>5, <2>1 DEF Streams, Stream, Live
    <3>2. gone = <<>>
      BY <1>5, <3>1 DEF Fed, Ahead
    <3>3. <<>> \o <<>> = <<>> /\ <<>> \o rest = rest
      BY ConcatEmptySeq
    <3>4. Owed(c0) = rest
      BY <1>5, <3>1, <3>2, <3>3 DEF Fed, Ahead
    <3> QED
      BY <1>1, <3>1, <3>4 DEF Fed, Ahead, Sent
  <2>3. Sent(c0)' = w /\ Pending(c0)' = Pending(c0) /\ Owed(c0)' = Owed(c0) /\ told'[c0] = <<>>
    <3>1. <<>> \o w = w
      BY <1>2, ConcatEmptySeq
    <3>2. FrameOf(log[Len(log)])' = FrameOf(log[Len(log)])
      BY <1>1 DEF FrameOf
    <3>3. Sent(c0)' = <<>> \o w
      BY <1>1, <1>3, <1>5 DEF Sent
    <3>4. Pending(c0)' = Pending(c0)
      BY <1>1, <3>2 DEF Pending
    <3>5. Owed(c0)' = Owed(c0)
      BY <1>1 DEF Owed
    <3> QED
      BY <1>1, <1>5, <3>1, <3>3, <3>4, <3>5
  <2>4. CASE n = Answered
    <3>1. <<>> \o <<>> \o rest = rest /\ <<>> \in Seq(1..Len(made)) /\ <<>> \o rest = rest
      BY ConcatEmptySeq
    <3>2. Fed(c0, <<>>, rest)'
      BY <1>1, <1>3, <1>6, <2>2, <2>3, <2>4, <3>1 DEF Fed, Ahead
    <3> QED
      BY <3>1, <3>2
  <2>5. CASE n # Answered
    <3>0. n > Answered
      BY <2>1, <2>5
    <3>1. PICK k \in 1..Len(log) - joined[c0] : n = Answered + Len(FirstFrames(c0, k)) /\ l = "frames"
      BY <2>1, <2>5
    <3>2. /\ log \in Seq(1..Len(made)) /\ joined[c0] \in Nat /\ joined[c0] <= Len(log)
          /\ made \in Seq(Sizes) /\ Len(log) \in Nat
      BY DEF Types
    <3>3. PICK gone \in Seq(1..Len(made)), more \in Seq(1..Len(made)) :
             gone = SubSeq(log, joined[c0] + 1, joined[c0] + k) /\ gone \o more = rest /\ gone # <<>>
      <4>1. PICK j \in Nat, N \in Nat, K \in Nat : j = joined[c0] /\ N = Len(log) /\ K = k /\ K > 0 /\ j + K <= N
        <5>1. PICK j \in Nat, N \in Nat : j = joined[c0] /\ N = Len(log) /\ j <= N
          BY <3>2
        <5>2. k \in 1..N - j
          BY <5>1
        <5>3. k \in Nat /\ k > 0 /\ j + k <= N
          BY <5>2
        <5> QED
          BY <5>1, <5>3
      <4>0. K > 0 /\ j + K <= N
        BY <4>1
      <4>2. /\ j + 1 \in 1..N + 1 /\ j + K \in (j + 1) - 1..N /\ N \in j + K..N
            /\ (j + K) - ((j + 1) - 1) = K /\ K # 0 /\ j + K + 1 \in 1..N + 1 /\ N \in (j + K + 1) - 1..N
        BY <4>0
      <4> DEFINE g == SubSeq(log, j + 1, j + K)
                 m == SubSeq(log, j + K + 1, N)
      <4>3. g \in Seq(1..Len(made)) /\ Len(g) = K
        <5>1. g \in Seq(1..Len(made)) /\ Cuts(g, log, j + 1, j + K)
          BY <3>2, <4>1, <4>2, Cut
        <5> HIDE DEF g
        <5> QED
          BY <4>2, <5>1 DEF Cuts
      <4>4. m \in Seq(1..Len(made))
        BY <3>2, <4>1, <4>2, Cut
      <4>5. g \o m = SubSeq(log, j + 1, N)
        BY <3>2, <4>1, <4>2, ConcatAdjacentSubSeq
      <4>6. g # <<>>
        <5>1. Len(<<>>) = 0 /\ Len(g) # 0
          BY <4>2, <4>3
        <5> QED
          BY <5>1
      <4>7. g = SubSeq(log, joined[c0] + 1, joined[c0] + k) /\ g \o m = rest
        BY <2>2, <4>1, <4>5 DEF Owed
      <4> HIDE DEF g, m
      <4> QED
        BY <4>3, <4>4, <4>6, <4>7
    <3>4. n = Answered + Len(Frames(made, gone))
      BY <3>1, <3>3 DEF FirstFrames
    <3>5. /\ Frames(made, gone) \in Seq(Nat) /\ Frames(made, more) \in Seq(Nat)
          /\ Frames(made, rest) = Frames(made, gone) \o Frames(made, more)
      BY <3>2, <3>3, FramesConcat
    <3>6. PICK x \in Seq(Nat) : After(wire[c0]) = x \o w /\ Len(x) = Len(Frames(made, gone))
      <4>1. PICK v \in Seq(Nat), A \in Nat, N \in Nat, F \in Nat :
               v = wire[c0] /\ A = Answered /\ N = n /\ F = Len(Frames(made, gone)) /\ N = A + F
        <5>1. Len(Frames(made, gone)) \in Nat /\ Answered \in Nat /\ n \in Nat
          BY <3>5, AnswerAlone, ClientsAssumption
        <5> QED
          BY <1>2, <3>4, <5>1
      <4>2. Answered <= Len(v) /\ n \in Answered..Len(v) /\ N - A = F
        BY <4>1, <3>0
      <4>3. PICK x \in Seq(Nat) : Len(x) = n - Answered /\ After(v) = x \o SubSeq(v, n + 1, Len(v))
        BY <4>2, Skipped
      <4> QED
        BY <4>1, <4>2, <4>3 DEF w
    <3> HIDE DEF w, l
    <3>7. w \o Pending(c0) = Frames(made, more)
      <4>1. PICK p \in Seq(Nat), v \in Seq(Nat), g \in Seq(Nat), m \in Seq(Nat) :
               p = Pending(c0) /\ v = w /\ g = Frames(made, gone) /\ m = Frames(made, more)
        BY <1>2, <3>5, PendingTyped
      <4>2. x \o (v \o p) = g \o m
        <5>1. (x \o v) \o p = x \o (v \o p)
          BY Regroup
        <5> QED
          BY <2>2, <3>5, <3>6, <4>1, <5>1
      <4>3. Len(x) = Len(g) /\ v \o p \in Seq(Nat)
        BY <3>4, <3>6, <4>1, ConcatProperties
      <4> QED
        BY <4>1, <4>2, <4>3, Cancel
    <3>8. gone \o <<>> = gone
      BY <3>3, ConcatEmptySeq
    <3>9. Fed(c0, gone, more)'
      <4>1. lost'[c0] = "frames" /\ made' = made
        BY <1>1, <1>3, <3>1
      <4>2. Owed(c0)' = gone \o told'[c0] \o more
        BY <2>2, <2>3, <3>3, <3>8
      <4> QED
        BY <2>3, <3>3, <3>7, <4>1, <4>2 DEF Fed, Ahead
    <3> QED
      BY <3>3, <3>9
  <2> QED
    BY <2>4, <2>5
<1>12. ASSUME NEW c \in Peers, c # c0 PROVE Placed(c)' /\ Stream(c)'
  BY <1>1, <1>4, <1>12, OthersRead
<1> QED
  BY <1>7, <1>8, <1>9, <1>10, <1>11, <1>12 DEF Streams, Outside

\* recv: what leaves the wire goes behind what was read before.
LEMMA RecvStep ==
    ASSUME IInv, NEW c0 \in Peers, Recv(c0)
    PROVE  IInv'
<1> USE DEF IInv
<1>1. PICK n \in 1..Len(wire[c0]) :
         /\ peer[c0] = "open" /\ wire[c0] # <<>>
         /\ wire' = [wire EXCEPT ![c0] = SubSeq(@, n + 1, Len(@))]
         /\ buf' = [buf EXCEPT ![c0] = IF lost[c0] = "sync" THEN @ ELSE @ \o SubSeq(wire[c0], 1, n)]
         /\ UNCHANGED <<made, message, pc, lock, clients, todo, left, failed, log, handler, peer, told, lost, joined>>
  BY DEF Recv, server
<1> DEFINE x == SubSeq(wire[c0], 1, n)
           w == SubSeq(wire[c0], n + 1, Len(wire[c0]))
<1>2. /\ wire[c0] \in Seq(Nat) /\ x \in Seq(Nat) /\ w \in Seq(Nat) /\ x \o w = wire[c0] /\ Len(w) <= Room
      /\ buf[c0] \in Seq(Nat) /\ buf[c0] \o x \in Seq(Nat)
  <2>1. wire[c0] \in Seq(Nat) /\ Len(wire[c0]) <= Room /\ n \in 0..Len(wire[c0]) /\ buf[c0] \in Seq(Nat)
    BY DEF Types
  <2>2. PICK W \in Nat : W = Len(wire[c0]) /\ W <= Room
    BY <2>1
  <2>3. x \in Seq(Nat) /\ w \in Seq(Nat) /\ x \o w = wire[c0] /\ Len(w) = W - n
    BY <2>1, <2>2, Parted
  <2>4. W - n <= Room
    BY <2>2, ClientsAssumption
  <2>5. buf[c0] \o x \in Seq(Nat)
    BY <2>1, <2>3, Grown
  <2> QED
    BY <2>1, <2>2, <2>3, <2>4, <2>5
<1>3. wire'[c0] = w /\ buf'[c0] = IF lost[c0] = "sync" THEN buf[c0] ELSE buf[c0] \o x
  BY <1>1 DEF Types
<1>4. \A c \in Peers \ {c0} : wire'[c] = wire[c] /\ buf'[c] = buf[c]
  BY <1>1 DEF Types
<1>5. handler[c0] = "parked" \/ (handler[c0] = "answered" /\ lost[c0] = "sync")
  <2>1. handler[c0] \in {"none", "answered", "parked", "done"}
    BY DEF Types
  <2> QED
    BY <1>1, <2>1 DEF Outside, Placed
<1>6. Types'
  <2>1. /\ wire \in [Peers -> Seq(Nat)] /\ buf \in [Peers -> Seq(Nat)]
        /\ wire' = [wire EXCEPT ![c0] = w]
        /\ buf' = [buf EXCEPT ![c0] = IF lost[c0] = "sync" THEN buf[c0] ELSE buf[c0] \o x]
    BY <1>1 DEF Types
  <2> HIDE DEF w, x
  <2>2. wire' \in [Peers -> Seq(Nat)] /\ buf' \in [Peers -> Seq(Nat)]
    BY <1>2, <2>1
  <2>3. \A c \in Peers : Len(wire'[c]) <= Room
    BY <1>2, <1>3, <1>4 DEF Types
  <2> QED
    BY <1>1, <2>2, <2>3 DEF Types
<1>7. Exclusive'
  BY <1>1 DEF Exclusive
<1>8. OnTheList'
  BY <1>1 DEF OnTheList, Live
<1>9. Placed(c0)'
  <2>1. lost[c0] = "sync" => buf[c0] = <<>> /\ told[c0] = <<>>
    BY DEF Outside, Placed
  <2> QED
    BY <1>1, <1>3, <1>5, <2>1 DEF Placed, Untold
<1>10. Stream(c0)'
  <2>1. CASE lost[c0] = "sync"
    BY <1>1, <2>1 DEF Stream
  <2>2. CASE lost[c0] # "sync"
    <3>1. Stream(c0) /\ (Live(c0)' => Live(c0)) /\ Owed(c0)' = Owed(c0)
      BY <1>1 DEF Streams, Live, Owed
    <3>2. Pending(c0)' = Pending(c0)
      <4>1. FrameOf(log[Len(log)])' = FrameOf(log[Len(log)])
        BY <1>1 DEF FrameOf
      <4> QED
        BY <1>1, <4>1 DEF Pending
    <3>3. Sent(c0)' = Sent(c0)
      <4>1. (buf[c0] \o x) \o w = buf[c0] \o wire[c0]
        <5>1. PICK b \in Seq(Nat), y \in Seq(Nat), v \in Seq(Nat) : b = buf[c0] /\ y = x /\ v = w
          BY <1>2
        <5>2. (b \o y) \o v = b \o (y \o v)
          BY Regroup
        <5> QED
          BY <1>2, <5>1, <5>2
      <4>2. Sent(c0)' = buf'[c0] \o wire'[c0] /\ Sent(c0) = buf[c0] \o wire[c0]
        BY <1>1 DEF Sent
      <4> QED
        BY <1>3, <2>2, <4>1, <4>2
    <3>4. (Sent(c0) \o Pending(c0))' = Sent(c0) \o Pending(c0)
      BY <3>2, <3>3
    <3> QED
      BY <1>1, <3>1, <3>4, Unaffected
  <2> QED
    BY <2>1, <2>2
<1>11. ASSUME NEW c \in Peers, c # c0 PROVE Placed(c)' /\ Stream(c)'
  BY <1>1, <1>4, <1>11, OthersRead
<1> QED
  BY <1>6, <1>7, <1>8, <1>9, <1>10, <1>11 DEF Streams, Outside

\* A frame and what follows it, the frame's first bytes read, more on their way.
FrameInParts(b, v, p, n, m, x) == (b \o v) \o p = Frame(n, m) \o x

\* The bytes read, those on their way and those still to come start with a frame.
LEMMA FirstOfBytes ==
    ASSUME NEW n \in Nat, n \in Sizes, NEW m \in Nat,
           NEW b \in Seq(Nat), NEW v \in Seq(Nat), NEW p \in Seq(Nat), NEW x \in Seq(Nat),
           FrameInParts(b, v, p, n, m, x)
    PROVE  /\ v \o p = <<>> => Complete(b)
           /\ Complete(b) => Payload(b) = Text(n, m) /\ Rest(b) \in Seq(Nat) /\ (Rest(b) \o v) \o p = x
<1>1. PICK w \in Seq(Nat), f \in Seq(Nat) : w = v \o p /\ f = Frame(n, m)
  <2>1. v \o p \in Seq(Nat) /\ Frame(n, m) \in Seq(Nat)
    BY ConcatProperties, FrameDef DEF IsFrame
  <2> QED
    BY <2>1
<1>2. (b \o v) \o p = b \o w
  <2>1. (b \o v) \o p = b \o (v \o p)
    BY Regroup, Zenon
  <2> QED
    BY <1>1, <2>1, Zenon
<1>3. PICK s \in Seq(Nat) : Joins(s, b, w) /\ Joins(s, Frame(n, m), x)
  <2>1. b \o w \in Seq(Nat) /\ Joins(b \o w, b, w) /\ Joins(f \o x, f, x)
    BY Joined
  <2>2. b \o w = f \o x
    BY <1>1, <1>2 DEF FrameInParts
  <2> QED
    BY <1>1, <2>1, <2>2, Zenon
<1>4. /\ w = <<>> => Complete(b)
      /\ Complete(b) => Payload(b) = Text(n, m) /\ Rest(b) \in Seq(Nat) /\ Rest(b) \o w = x
  <2>1. Joins(s, Frame(n, m), x) /\ n \in Sizes
    BY <1>3
  <2>2. m \in Nat /\ Joins(s, b, w)
    BY <1>3
  <2> QED
    BY <2>1, <2>2, FrameIsReadAsWritten, SMT
<1>5. ASSUME Complete(b) PROVE (Rest(b) \o v) \o p = x
  <2>1. PICK r \in Seq(Nat) : r = Rest(b) /\ r \o w = x
    BY <1>4, <1>5
  <2>2. (r \o v) \o p = r \o (v \o p)
    BY Regroup
  <2> QED
    BY <1>1, <2>1, <2>2
<1> QED
  BY <1>1, <1>4, <1>5

\* json.loads of a message's text.
LEMMA TextParses ==
    ASSUME made \in Seq(Sizes), NEW m \in 1..Len(made)
    PROVE  Parses(Text(made[m], m)) /\ Text(made[m], m)[1] = m
<1>1. PICK n \in Nat : n = made[m] /\ n \in Sizes /\ n > 0 /\ m \in Nat
  <2>1. made[m] \in Sizes
    OBVIOUS
  <2> QED
    BY <2>1, Formats
<1>2. IsText(Text(n, m), n, m)
  BY <1>1, FrameDef, Zenon
<1>3. PICK t \in Seq(Nat) : t = Text(n, m) /\ Len(t) = n /\ \A i \in 1..n : t[i] = m
  BY <1>2 DEF IsText
<1>4. t[1] = m /\ t # <<>>
  BY <1>1, <1>3
<1>5. m \in DOMAIN made
  OBVIOUS
<1> QED
  BY <1>1, <1>3, <1>4, <1>5 DEF Parses

\* What is not yet told starts with the message whose frame is the first in buf.
LEMMA FirstOfBuffer ==
    ASSUME Types, Exclusive, NEW c \in Peers, peer[c] = "open",
           NEW rest \in Seq(1..Len(made)), Ahead(c, rest), rest # <<>>
    PROVE  \E m \in 1..Len(made), tail \in Seq(1..Len(made)) :
              /\ rest = <<m>> \o tail
              /\ wire[c] \o Pending(c) = <<>> => Complete(buf[c])
              /\ Complete(buf[c]) =>
                    /\ Parses(Payload(buf[c])) /\ Payload(buf[c])[1] = m /\ Rest(buf[c]) \in Seq(Nat)
                    /\ (Rest(buf[c]) \o wire[c]) \o Pending(c) = Frames(made, tail)
<1>1. PICK m \in 1..Len(made), tail \in Seq(1..Len(made)) : rest = <<m>> \o tail
  <2> DEFINE M == 1..Len(made)
  <2>1. rest \in Seq(M)
    OBVIOUS
  <2> HIDE DEF M
  <2>2. Head(rest) \in M /\ Tail(rest) \in Seq(M) /\ rest = <<Head(rest)>> \o Tail(rest)
    BY <2>1, Headed
  <2> QED
    BY <2>2 DEF M
<1>2. buf[c] \in Seq(Nat) /\ wire[c] \in Seq(Nat) /\ Pending(c) \in Seq(Nat) /\ made \in Seq(Sizes)
  BY Typed, PendingTyped
<1>3. made[m] \in Sizes /\ made[m] \in Nat /\ m \in Nat
  <2>1. made[m] \in Sizes /\ m \in Nat
    BY <1>2
  <2> QED
    BY <2>1, Formats
<1>4. Frames(made, tail) \in Seq(Nat) /\ Frames(made, rest) = Frame(made[m], m) \o Frames(made, tail)
  <2>1. <<m>> \in Seq(1..Len(made))
    OBVIOUS
  <2>2. Frames(made, <<m>>) = Frame(made[m], m)
    BY <1>2, FramesOfFew
  <2>3. /\ Frames(made, <<m>>) \in Seq(Nat) /\ Frames(made, tail) \in Seq(Nat)
        /\ Frames(made, <<m>> \o tail) = Frames(made, <<m>>) \o Frames(made, tail)
    BY <1>2, <2>1, FramesConcat
  <2> QED
    BY <1>1, <2>2, <2>3
<1>5. PICK n \in Nat, b \in Seq(Nat), v \in Seq(Nat), p \in Seq(Nat), x \in Seq(Nat) :
         n = made[m] /\ b = buf[c] /\ v = wire[c] /\ p = Pending(c) /\ x = Frames(made, tail)
  BY <1>2, <1>3, <1>4
<1>6. /\ v \o p = <<>> => Complete(b)
      /\ Complete(b) => Payload(b) = Text(n, m) /\ Rest(b) \in Seq(Nat) /\ (Rest(b) \o v) \o p = x
  <2>1. FrameInParts(b, v, p, n, m, x)
    BY <1>4, <1>5 DEF FrameInParts, Ahead, Sent
  <2>2. n \in Sizes /\ m \in Nat
    BY <1>3, <1>5
  <2> QED
    BY <2>1, <2>2, FirstOfBytes
<1>7. Parses(Text(made[m], m)) /\ Text(made[m], m)[1] = m
  BY <1>2, TextParses
<1> QED
  BY <1>1, <1>5, <1>6, <1>7

\* _decode_frame and the consumer's turn: one message goes over from the bytes to the told.
LEMMA DecodeStep ==
    ASSUME IInv, NEW c0 \in Peers, Decode(c0)
    PROVE  IInv'
<1> USE DEF IInv
<1>1. /\ peer[c0] = "open" /\ Complete(buf[c0])
      /\ told' = [told EXCEPT ![c0] = IF Parses(Payload(buf[c0])) THEN Append(@, Payload(buf[c0])[1]) ELSE @]
      /\ buf' = [buf EXCEPT ![c0] = Rest(buf[c0])]
      /\ UNCHANGED <<made, message, pc, lock, clients, todo, left, failed, log, handler, peer, wire, lost, joined>>
  BY DEF Decode, server
<1>2. buf[c0] # <<>>
  <2>1. ~Complete(<<>>)
    BY DEF Complete
  <2> QED
    BY <1>1, <2>1
<1>3. handler[c0] = "parked" /\ Live(c0) /\ lost[c0] # "sync"
  BY <1>1, <1>2 DEF Outside, Placed, Untold, Live
<1>4. PICK gone \in Seq(1..Len(made)), rest \in Seq(1..Len(made)) : Fed(c0, gone, rest)
  BY <1>3 DEF Streams, Stream
<1>5. rest # <<>>
  <2>1. ASSUME rest = <<>> PROVE FALSE
    <3>1. (buf[c0] \o wire[c0]) \o Pending(c0) = <<>>
      <4>1. Frames(made, rest) = <<>>
        BY <2>1, FramesOfFew DEF Types
      <4> QED
        BY <1>1, <1>4, <4>1 DEF Fed, Ahead, Sent
    <3>2. PICK b \in Seq(Nat), v \in Seq(Nat), p \in Seq(Nat) : b = buf[c0] /\ v = wire[c0] /\ p = Pending(c0)
      BY Typed, PendingTyped
    <3>3. b \o v # <<>> /\ b \o v \in Seq(Nat)
      BY <1>2, <3>2, Grown
    <3>4. (b \o v) \o p # <<>>
      BY <3>3, Grown
    <3> QED
      BY <3>1, <3>2, <3>4
  <2> QED
    BY <2>1
<1>6. PICK m \in 1..Len(made), tail \in Seq(1..Len(made)) :
         /\ rest = <<m>> \o tail /\ Parses(Payload(buf[c0])) /\ Payload(buf[c0])[1] = m /\ Rest(buf[c0]) \in Seq(Nat)
         /\ (Rest(buf[c0]) \o wire[c0]) \o Pending(c0) = Frames(made, tail)
  <2>1. Ahead(c0, rest)
    BY <1>4 DEF Fed, Ahead
  <2> QED
    BY <1>1, <1>5, <2>1, FirstOfBuffer
<1>7. /\ told[c0] \in Seq(1..Len(made)) /\ Append(told[c0], m) \in Seq(1..Len(made))
      /\ Append(told[c0], m) = told[c0] \o <<m>>
  <2>1. told[c0] \in Seq(1..Len(made))
    BY DEF Types
  <2> QED
    BY <2>1, AppendProperties, AppendIsConcat
<1>8. /\ told' = [told EXCEPT ![c0] = Append(told[c0], m)]
      /\ told'[c0] = Append(told[c0], m) /\ buf'[c0] = Rest(buf[c0])
      /\ \A c \in Peers \ {c0} : told'[c] = told[c] /\ buf'[c] = buf[c]
  BY <1>1, <1>6 DEF Types
<1>9. Types'
  <2>1. told' \in [Peers -> Seq(1..Len(made))] /\ buf' \in [Peers -> Seq(Nat)]
    BY <1>1, <1>6, <1>7, <1>8 DEF Types
  <2> QED
    BY <1>1, <2>1 DEF Types
<1>10. Exclusive'
  BY <1>1 DEF Exclusive
<1>11. OnTheList'
  BY <1>1 DEF OnTheList, Live
<1>12. Placed(c0)'
  BY <1>1, <1>3 DEF Outside, Placed
<1>13. Stream(c0)'
  <2>1. Sent(c0)' = Rest(buf[c0]) \o wire[c0]
    BY <1>1, <1>8 DEF Sent
  <2>2. Pending(c0)' = Pending(c0)
    <3>1. FrameOf(log[Len(log)])' = FrameOf(log[Len(log)])
      BY <1>1 DEF FrameOf
    <3> QED
      BY <1>1, <3>1 DEF Pending
  <2>3. Owed(c0)' = gone \o told'[c0] \o tail
    <3>1. PICK g \in Seq(Nat), u \in Seq(Nat), o \in Seq(Nat), r \in Seq(Nat) :
             g = gone /\ u = told[c0] /\ o = <<m>> /\ r = tail
      <4>1. gone \in Seq(Nat) /\ told[c0] \in Seq(Nat) /\ tail \in Seq(Nat) /\ <<m>> \in Seq(Nat)
        <5>1. 1..Len(made) \subseteq Nat /\ m \in Nat
          BY Typed
        <5> QED
          BY <5>1, Typed, SeqMonotonic
      <4> QED
        BY <4>1
    <3>2. (g \o u) \o (o \o r) = (g \o (u \o o)) \o r
      <4>1. g \o u \in Seq(Nat)
        BY ConcatProperties
      <4>2. (g \o u) \o (o \o r) = ((g \o u) \o o) \o r
        BY <4>1, Regroup
      <4>3. (g \o u) \o o = g \o (u \o o)
        BY Regroup
      <4> QED
        BY <4>2, <4>3
    <3>3. Owed(c0)' = Owed(c0)
      BY <1>1 DEF Owed
    <3> QED
      BY <1>4, <1>6, <1>7, <1>8, <3>1, <3>2, <3>3 DEF Fed, Ahead
  <2>4. lost' = lost /\ made' = made
    BY <1>1
  <2>5. Fed(c0, gone, tail)'
    BY <1>4, <1>6, <2>1, <2>2, <2>3, <2>4 DEF Fed, Ahead
  <2> QED
    BY <2>4, <2>5 DEF Stream
<1>14. ASSUME NEW c \in Peers, c # c0 PROVE Placed(c)' /\ Stream(c)'
  BY <1>1, <1>8, <1>14, OthersRead
<1> QED
  BY <1>9, <1>10, <1>11, <1>12, <1>13, <1>14 DEF Streams, Outside

-----------------------------------------------------------------------------
(* The theorems.                                                            *)

\* Nobody is registered in the beginning, and nothing is broadcast.
LEMMA InitIInv ==
    Init => IInv
<1> SUFFICES ASSUME Init PROVE IInv
  OBVIOUS
<1>1. Len(made) = 0 /\ made \in Seq(Sizes) /\ log \in Seq(1..0) /\ Len(log) = 0 /\ <<>> \in Seq(Nat)
      /\ clients \in Seq(Peers) /\ <<>> \in Seq(1..0)
  BY DEF Init
<1>2. IsInjective(<<>>) /\ ToSet(<<>>) = {}
  BY DEF IsInjective, ToSet
<1>3. Len(made) <= MaxMessages /\ \A c \in Peers : Len(wire[c]) <= Room
  BY <1>1, ClientsAssumption DEF Init
<1>4. Types
  BY <1>1, <1>3 DEF Init, Types
<1>5. Exclusive
  BY DEF Init, Exclusive
<1>6. OnTheList
  BY <1>2 DEF Init, OnTheList, Live
<1>7. Outside
  BY DEF Init, Outside, Placed, Untold
<1>8. Streams
  BY DEF Init, Streams, Stream, Live
<1> QED
  BY <1>4, <1>5, <1>6, <1>7, <1>8 DEF IInv

\* No step of anybody ends it.
LEMMA StepIInv ==
    IInv /\ [Next]_vars => IInv'
<1> SUFFICES ASSUME IInv, [Next]_vars PROVE IInv'
  OBVIOUS
<1>1. CASE UNCHANGED vars
  <2>1. /\ UNCHANGED <<made, message, pc, lock, clients, todo, left, failed, log>>
        /\ UNCHANGED <<handler, peer, wire, buf, told, lost, joined>>
    BY <1>1 DEF vars, server
  <2>2. Types' /\ Exclusive' /\ OnTheList' /\ Outside'
    BY <2>1 DEF IInv, Types, Exclusive, OnTheList, Live, Outside, Placed, Untold
  <2>3. ASSUME NEW c \in Peers PROVE Stream(c)'
    <3>1. Stream(c) /\ (Live(c)' => Live(c)) /\ Owed(c)' = Owed(c)
      BY <2>1 DEF IInv, Streams, Live, Owed
    <3>2. FrameOf(log[Len(log)])' = FrameOf(log[Len(log)])
      BY <2>1 DEF FrameOf
    <3>3. Sent(c)' = Sent(c) /\ Pending(c)' = Pending(c)
      BY <2>1, <3>2 DEF Sent, Pending
    <3> QED
      BY <2>1, <3>1, <3>3, Unaffected
  <2> QED
    BY <2>2, <2>3 DEF IInv, Streams
<1>2. ASSUME NEW t \in Threads, Broadcast(t) PROVE IInv'
  BY <1>2, BroadcastStep
<1>3. ASSUME NEW t \in Threads, Serve(t) PROVE IInv'
  BY <1>3, AcquireStep, SendStep, SendGoneStep, ReleaseStep DEF Serve
<1>4. ASSUME NEW c \in Peers, Handle(c) PROVE IInv'
  BY <1>4, AnswerStep, AddClientStep, RemoveClientStep DEF Handle
<1>5. ASSUME NEW c \in Peers, Consume(c) PROVE IInv'
  BY <1>5, ConnectStep, CloseStep, RecvStep, DecodeStep DEF Consume, Reject
<1>6. ASSUME NEW c \in Peers, Close(c) PROVE IInv'
  BY <1>6, CloseStep DEF Close
<1> QED
  BY <1>1, <1>2, <1>3, <1>4, <1>5, <1>6 DEF Next

\* So it holds for ever.
LEMMA Invariant == Spec => []IInv
BY InitIInv, StepIInv, PTL DEF Spec

\* The dashboard keeps its types: the buffers hold what they can, and no connection
\* is on the list twice.
THEOREM ClientsTypes == Spec => []TypeOK
<1>1. ASSUME IInv PROVE TypeOK
  <2>1. Len(made) \in Nat /\ Len(log) \in Nat /\ Len(made) <= MaxMessages /\ MaxMessages \in Nat
    BY <1>1, ClientsAssumption DEF IInv, Types
  <2>2. 0..Len(made) \subseteq 0..MaxMessages /\ 1..Len(made) \subseteq 1..MaxMessages
    BY <2>1
  <2>3. log \in Seq(1..MaxMessages) /\ told \in [Peers -> Seq(1..MaxMessages)]
    <3>1. \A s \in Seq(1..Len(made)) : s \in Seq(1..MaxMessages)
      BY <2>2, SeqMonotonic
    <3> QED
      BY <1>1, <3>1 DEF IInv, Types
  <2> QED
    BY <1>1, <2>2, <2>3 DEF IInv, Types, OnTheList, TypeOK
<1> QED
  BY <1>1, Invariant, PTL

\* A beginning of a sequence.
LEMMA Beginning ==
    ASSUME NEW S, NEW s \in Seq(S), NEW t \in Seq(S)
    PROVE  IsPrefix(s, s \o t)
<1>1. PICK q \in Seq(S) : q = s \o t /\ Joins(q, s, t)
  BY Joined
<1>2. Len(s) <= Len(q) /\ Len(s) \in 0..Len(q)
  BY <1>1 DEF Joins
<1>3. SubSeq(q, 1, Len(s)) \in Seq(S) /\ Len(SubSeq(q, 1, Len(s))) = Len(s)
  BY <1>2, Parted
<1>4. \A i \in 1..Len(s) : SubSeq(q, 1, Len(s))[i] = q[i]
  <2>1. 1 \in 1..Len(q) + 1 /\ Len(s) \in 1 - 1..Len(q) /\ \A i \in 1..Len(s) : (1 - 1) + i = i
    BY <1>2
  <2>2. Cuts(SubSeq(q, 1, Len(s)), q, 1, Len(s))
    BY <2>1, Cut
  <2> QED
    BY <1>3, <2>1, <2>2 DEF Cuts
<1>5. SubSeq(q, 1, Len(s)) = s
  <2>1. \A i \in 1..Len(s) : SubSeq(q, 1, Len(s))[i] = s[i]
    BY <1>1, <1>4 DEF Joins
  <2> QED
    BY <1>3, <2>1, SeqEqual
<1>6. SubSeq(s, 1, Len(s)) = s
  BY SubSeqFull
<1> QED
  BY <1>1, <1>2, <1>5, <1>6 DEF IsPrefix

\* What follows a beginning.
LEMMA Following ==
    ASSUME NEW S, NEW s \in Seq(S), NEW t \in Seq(S)
    PROVE  SubSeq(s \o t, Len(s) + 1, Len(s \o t)) = t /\ Len(s) <= Len(s \o t)
<1>1. PICK q \in Seq(S) : q = s \o t /\ Joins(q, s, t)
  BY Joined
<1>2. PICK k \in Nat, n \in Nat : k = Len(s) /\ n = Len(t) /\ Len(q) = k + n
  BY <1>1 DEF Joins
<1>3. k + 1 \in 1..Len(q) + 1 /\ Len(q) \in (k + 1) - 1..Len(q) /\ (k + 1) - 1 = k /\ k <= Len(q) /\ (k + n) - k = n
  BY <1>2
<1>4. PICK u \in Seq(S) : u = SubSeq(q, k + 1, Len(q)) /\ Cuts(u, q, k + 1, Len(q))
  BY <1>3, Cut
<1>5. Len(u) = n /\ \A i \in 1..n : u[i] = q[k + i]
  BY <1>2, <1>3, <1>4 DEF Cuts
<1>6. \A i \in 1..n : q[k + i] = t[i]
  BY <1>1, <1>2 DEF Joins
<1>7. u = t
  BY <1>2, <1>5, <1>6, SeqEqual
<1> QED
  BY <1>1, <1>2, <1>3, <1>4, <1>7

\* Every client sees the same feed (broadcast() holds the lock through every sendall,
\* web.py:169-178): what a client is told is a gapless beginning of all messages since
\* it was registered, in the one order of the lock, or a gapless later part of them
\* where connect() threw whole frames away; for any frame format that can be read,
\* any number of threads, clients and messages, and any cutting of the bytes.  Not for
\* a client whose read of the answer took less than it, or part of a frame.
THEOREM EveryClientSeesTheSameFeed == Spec => []SameFeed
<1>1. ASSUME IInv PROVE SameFeed
  <2> USE <1>1 DEF IInv
  <2>1. ASSUME NEW c \in Peers, Live(c), lost[c] # "sync"
        PROVE  /\ lost[c] = "nothing" => IsPrefix(told[c], Owed(c))
               /\ lost[c] = "frames" => \E k \in 1..Len(Owed(c)) :
                                            IsPrefix(told[c], SubSeq(Owed(c), k + 1, Len(Owed(c))))
    <3>1. PICK gone \in Seq(1..Len(made)), rest \in Seq(1..Len(made)) : Fed(c, gone, rest)
      BY <2>1 DEF Streams, Stream
    <3>2. PICK g \in Seq(Nat), u \in Seq(Nat), r \in Seq(Nat), x \in Seq(Nat) :
             g = gone /\ u = told[c] /\ r = rest /\ x = u \o r
      <4>1. 1..Len(made) \subseteq Nat /\ told[c] \in Seq(Nat)
        BY Typed
      <4>2. gone \in Seq(Nat) /\ rest \in Seq(Nat)
        BY <4>1, SeqMonotonic
      <4>3. \A s, t \in Seq(Nat) : s \o t \in Seq(Nat)
        BY ConcatProperties
      <4> QED
        BY <4>1, <4>2, <4>3
    <3>3. Owed(c) = g \o x
      <4>1. (g \o u) \o r = g \o (u \o r)
        BY Regroup
      <4> QED
        BY <3>1, <3>2, <4>1 DEF Fed, Ahead
    <3>4. IsPrefix(u, x)
      BY <3>2, Beginning
    <3>5. ASSUME lost[c] = "nothing" PROVE IsPrefix(told[c], Owed(c))
      <4>1. g = <<>> /\ <<>> \o x = x
        BY <3>1, <3>2, <3>5, ConcatEmptySeq DEF Fed, Ahead
      <4> QED
        BY <3>2, <3>3, <3>4, <4>1
    <3>6. ASSUME lost[c] = "frames"
          PROVE  \E k \in 1..Len(Owed(c)) : IsPrefix(told[c], SubSeq(Owed(c), k + 1, Len(Owed(c))))
      <4>1. g # <<>>
        BY <3>1, <3>2, <3>6 DEF Fed, Ahead
      <4>2. SubSeq(g \o x, Len(g) + 1, Len(g \o x)) = x /\ Len(g) <= Len(g \o x)
        BY Following
      <4>3. Len(g) \in 1..Len(g \o x)
        <5>1. Len(g) \in Nat /\ Len(g) > 0
          BY <4>1, EmptySeq
        <5>2. Len(g \o x) \in Nat
          BY ConcatProperties
        <5> QED
          BY <4>2, <5>1, <5>2
      <4> QED
        BY <3>2, <3>3, <3>4, <4>2, <4>3
    <3> QED
      BY <3>5, <3>6
  <2>2. ASSUME NEW c \in Peers, ~Live(c)
        PROVE  lost[c] # "frames" /\ IsPrefix(told[c], Owed(c))
    <3>1. told[c] = <<>> /\ lost[c] # "frames"
      BY <2>2 DEF Outside, Placed, Untold, Live
    <3>2. PICK o \in Seq(Nat) : o = Owed(c)
      <4>1. log \in Seq(Nat) /\ joined[c] + 1 \in 1..Len(log) + 1 /\ Len(log) \in (joined[c] + 1) - 1..Len(log)
        BY Typed, SeqMonotonic
      <4>2. Owed(c) \in Seq(Nat)
        BY <4>1, Cut DEF Owed
      <4> QED
        BY <4>2
    <3>3. <<>> \in Seq(Nat) /\ <<>> \o o = o
      BY ConcatEmptySeq
    <3>4. IsPrefix(<<>>, <<>> \o o)
      BY <3>3, Beginning
    <3> QED
      BY <3>1, <3>2, <3>3, <3>4
  <2> QED
    BY <2>1, <2>2 DEF SameFeed
<1> QED
  BY <1>1, Invariant, PTL

\* _decode_frame leaves nothing behind (wsclient.py:84-121): once every broadcast is over
\* and a client that has lost nothing has read what was on its way, it has been told
\* everything it was owed, and no byte is left in its decoder.
THEOREM NothingIsLeftBehindUndecoded == Spec => []NothingLeftBehind
<1>1. ASSUME IInv PROVE NothingLeftBehind
  <2> USE <1>1 DEF IInv
  <2> SUFFICES ASSUME NEW c \in Peers, lock = {}, peer[c] = "open", handler[c] = "parked", lost[c] = "nothing",
                      wire[c] = <<>>, ~Complete(buf[c])
               PROVE  told[c] = Owed(c) /\ buf[c] = <<>>
    BY DEF NothingLeftBehind
  <2>1. PICK gone \in Seq(1..Len(made)), rest \in Seq(1..Len(made)) : Fed(c, gone, rest)
    BY DEF Streams, Stream, Live
  <2>2. gone = <<>>
    BY <2>1 DEF Fed, Ahead
  <2>3. Pending(c) = <<>>
    BY DEF Exclusive, Pending
  <2>4. Sent(c) = buf[c] /\ Sent(c) \o Pending(c) = buf[c]
    BY <2>3, Typed, ConcatEmptySeq DEF Sent
  <2>5. rest = <<>>
    <3>1. ASSUME rest # <<>> PROVE FALSE
      <4>1. wire[c] \o Pending(c) = <<>>
        BY <2>3, ConcatEmptySeq
      <4>2. Complete(buf[c])
        BY <2>1, <3>1, <4>1, FirstOfBuffer DEF Fed
      <4> QED
        BY <4>2
    <3> QED
      BY <3>1
  <2>6. Frames(made, rest) = <<>>
    BY <2>5, FramesOfFew DEF Types
  <2>7. <<>> \o told[c] \o <<>> = told[c]
    <3>1. PICK u \in Seq(Nat) : u = told[c]
      BY Typed
    <3>2. <<>> \o u = u /\ u \o <<>> = u
      BY ConcatEmptySeq
    <3> QED
      BY <3>1, <3>2
  <2> QED
    BY <2>1, <2>2, <2>4, <2>5, <2>6, <2>7 DEF Fed, Ahead
<1> QED
  BY <1>1, Invariant, PTL

-----------------------------------------------------------------------------
(* No message twice.                                                        *)

\* A message that waits for the lock is not in the log, and no two threads have the same.
Waiting(t) == pc[t] = "lock" => message[t] \notin ToSet(log)
Once ==
    /\ IsInjective(log)
    /\ \A t \in Threads : Waiting(t)
    /\ \A t, u \in Threads : pc[t] # "idle" /\ pc[u] # "idle" /\ message[t] = message[u] => t = u

\* Nothing enters the log twice.
LEMMA StepOnce ==
    IInv /\ Once /\ [Next]_vars => Once'
<1> SUFFICES ASSUME IInv, Once, [Next]_vars PROVE Once'
  OBVIOUS
<1>1. CASE UNCHANGED <<pc, message, log>>
  BY <1>1 DEF Once, Waiting
<1>2. ASSUME NEW t \in Threads, Broadcast(t) PROVE Once'
  <2>1. PICK k \in Nat : k = Len(made) /\ message'[t] = k + 1
    <3>1. PICK n \in Sizes : made' = Append(made, n)
      BY <1>2 DEF Broadcast
    <3>2. made \in Seq(Sizes) /\ message' = [message EXCEPT ![t] = Len(made')]
      BY <1>2 DEF IInv, Types, Broadcast
    <3>3. Len(made) \in Nat /\ Len(made') = Len(made) + 1
      BY <3>1, <3>2, AppendProperties
    <3> QED
      BY <3>2, <3>3 DEF IInv, Types
  <2>2. /\ log' = log /\ log \in Seq(1..k) /\ pc[t] = "idle" /\ pc'[t] = "lock"
        /\ \A u \in Threads : message[u] \in 0..k
        /\ \A u \in Threads \ {t} : pc'[u] = pc[u] /\ message'[u] = message[u]
    BY <1>2, <2>1 DEF IInv, Types, Broadcast
  <2>3. k + 1 \notin ToSet(log) /\ \A u \in Threads : message[u] # k + 1
    <3>1. ToSet(log) \subseteq 1..k
      BY <2>2, Members
    <3>2. k + 1 \notin 0..k
      OBVIOUS
    <3> QED
      BY <2>2, <3>1, <3>2
  <2>4. \A u \in Threads : Waiting(u)'
    BY <2>1, <2>2, <2>3 DEF Once, Waiting
  <2> QED
    BY <2>1, <2>2, <2>3, <2>4 DEF Once
<1>3. ASSUME NEW t \in Threads, Acquire(t) PROVE Once'
  <2>1. /\ pc[t] = "lock" /\ lock = {} /\ log' = Append(log, message[t]) /\ message' = message
        /\ pc' = [pc EXCEPT ![t] = "send"]
    BY <1>3 DEF Acquire, StartSending
  <2>2. log \in Seq(Nat) /\ message[t] \in Nat /\ message[t] \notin ToSet(log)
    <3>1. log \in Seq(1..Len(made)) /\ 1..Len(made) \subseteq Nat /\ message[t] \in Nat
      BY DEF IInv, Types
    <3>2. log \in Seq(Nat)
      BY <3>1, SeqMonotonic
    <3> QED
      BY <2>1, <3>1, <3>2 DEF Once, Waiting
  <2>3. IsInjective(log') /\ ToSet(log') = ToSet(log) \cup {message[t]}
    BY <2>1, <2>2, AppendRange, AppendInjects DEF Once
  <2>4. pc'[t] = "send" /\ \A u \in Threads \ {t} : pc'[u] = pc[u]
    BY <2>1 DEF IInv, Types
  <2>5. ASSUME NEW u \in Threads PROVE Waiting(u)'
    <3>1. CASE u = t
      BY <2>4, <3>1 DEF Waiting
    <3>2. CASE u # t /\ pc[u] = "lock"
      <4>1. message[u] # message[t] /\ message[u] \notin ToSet(log)
        BY <2>1, <3>2 DEF Once, Waiting
      <4> QED
        BY <2>1, <2>3, <4>1 DEF Waiting
    <3>3. CASE u # t /\ pc[u] # "lock"
      BY <2>4, <3>3 DEF Waiting
    <3> QED
      BY <3>1, <3>2, <3>3
  <2>6. \A u \in Threads : pc'[u] # "idle" => pc[u] # "idle"
    BY <2>1, <2>4
  <2> QED
    BY <2>1, <2>3, <2>5, <2>6 DEF Once
<1>4. ASSUME NEW t \in Threads, Release(t) PROVE Once'
  <2>1. /\ log' = log /\ pc'[t] = "idle"
        /\ \A u \in Threads \ {t} : pc'[u] = pc[u] /\ message'[u] = message[u]
    BY <1>4 DEF IInv, Types, Release
  <2> QED
    BY <2>1 DEF Once, Waiting
<1>5. ASSUME NEW t \in Threads, Send(t) \/ SendGone(t) PROVE Once'
  BY <1>1, <1>5 DEF Send, SendGone
<1>6. ASSUME NEW c \in Peers, Handle(c) \/ Consume(c) \/ Close(c) PROVE Once'
  BY <1>1, <1>6 DEF Handle, Answer, AddClient, RemoveClient, Consume, Connect, Reject, Recv, Decode, Close, Leaves, server
<1>7. CASE UNCHANGED vars
  BY <1>1, <1>7 DEF vars, server
<1> QED
  BY <1>2, <1>3, <1>4, <1>5, <1>6, <1>7 DEF Next, Serve

\* The parts of a list that names each once do so, too.
LEMMA PartInjects ==
    ASSUME NEW l \in Seq(Nat), NEW j \in 0..Len(l), IsInjective(l),
           NEW g \in Seq(Nat), NEW u \in Seq(Nat), NEW r \in Seq(Nat),
           SubSeq(l, j + 1, Len(l)) = (g \o u) \o r
    PROVE  IsInjective(u)
<1>1. PICK N \in Nat, G \in Nat, U \in Nat, R \in Nat : N = Len(l) /\ G = Len(g) /\ U = Len(u) /\ R = Len(r)
  OBVIOUS
<1>2. PICK p \in Seq(Nat) : p = g \o u /\ Joins(p, g, u)
  BY Joined
<1>3. PICK q \in Seq(Nat) : q = p \o r /\ Joins(q, p, r)
  BY Joined
<1>4. Len(p) = G + U /\ Len(q) = (G + U) + R
  BY <1>1, <1>2, <1>3 DEF Joins
<1>5. Cuts(q, l, j + 1, N)
  <2>1. j + 1 \in 1..N + 1 /\ N \in (j + 1) - 1..N
    BY <1>1
  <2> QED
    BY <1>1, <1>2, <1>3, <2>1, Cut
<1>6. Len(q) = N - j /\ \A i \in 1..Len(q) : q[i] = l[j + i]
  <2>1. (j + 1) - 1 = j
    BY <1>1
  <2> QED
    BY <1>5, <2>1 DEF Cuts
<1>7. ASSUME NEW i \in 1..U PROVE j + (G + i) \in 1..N /\ u[i] = l[j + (G + i)]
  <2>1. (G + U) + R = N - j /\ j \in 0..N
    BY <1>1, <1>4, <1>6
  <2>2. G + i \in 1..G + U /\ G + i \in 1..(G + U) + R
    OBVIOUS
  <2>3. j + (G + i) \in 1..N
    BY <2>1
  <2>4. u[i] = p[G + i]
    BY <1>1, <1>2 DEF Joins
  <2>5. p[G + i] = q[G + i]
    BY <1>3, <1>4, <2>2 DEF Joins
  <2>6. q[G + i] = l[j + (G + i)]
    BY <1>4, <1>6, <2>2
  <2> QED
    BY <2>3, <2>4, <2>5, <2>6
<1>8. ASSUME NEW i \in 1..U, NEW k \in 1..U, u[i] = u[k] PROVE i = k
  <2>1. /\ j + (G + i) \in 1..N /\ j + (G + k) \in 1..N /\ l[j + (G + i)] = l[j + (G + k)]
    BY <1>7, <1>8
  <2>2. \A a, b \in 1..N : l[a] = l[b] => a = b
    <3>1. DOMAIN l = 1..N
      BY <1>1
    <3> QED
      BY <3>1 DEF IsInjective
  <2>3. j + (G + i) = j + (G + k)
    BY <2>1, <2>2
  <2> QED
    BY <1>1, <2>3
<1>9. DOMAIN u = 1..U
  BY <1>1
<1> QED
  BY <1>8, <1>9 DEF IsInjective

\* Nobody is told a message twice, whoever broadcasts, joins, dies or reads in pieces.
NothingToldTwice == \A c \in Peers : IsInjective(told[c])

\* A client is told no message twice: a broadcast takes its place in the order of the
\* lock once (web.py:169), its frame is sent to each client once (171-175), and the
\* decoder gives no bytes twice (wsclient.py:98-114).
THEOREM NobodyIsToldTwice == Spec => []NothingToldTwice
<1>1. ASSUME IInv, Once PROVE NothingToldTwice
  <2>1. SUFFICES ASSUME NEW c \in Peers PROVE IsInjective(told[c])
    BY DEF NothingToldTwice
  <2>2. CASE told[c] = <<>>
    BY <2>2 DEF IsInjective
  <2>3. CASE told[c] # <<>>
    <3>1. Live(c)
      BY <1>1, <2>3 DEF IInv, Outside, Placed, Untold, Types, Live
    <3>2. lost[c] # "sync"
      BY <1>1, <2>3 DEF IInv, Outside, Placed
    <3>3. PICK gone \in Seq(1..Len(made)), rest \in Seq(1..Len(made)) : Fed(c, gone, rest)
      BY <1>1, <3>1, <3>2 DEF IInv, Streams, Stream
    <3>4. 1..Len(made) \subseteq Nat /\ told[c] \in Seq(Nat) /\ log \in Seq(1..Len(made)) /\ joined[c] \in 0..Len(log)
      BY <1>1, Typed DEF IInv
    <3>5. gone \in Seq(Nat) /\ rest \in Seq(Nat) /\ log \in Seq(Nat)
      BY <3>4, SeqMonotonic
    <3>6. SubSeq(log, joined[c] + 1, Len(log)) = (gone \o told[c]) \o rest
      BY <3>3 DEF Fed, Ahead, Owed
    <3> QED
      BY <1>1, <3>4, <3>5, <3>6, PartInjects DEF Once
  <2> QED
    BY <2>2, <2>3
<1>2. Init => Once
  <2>1. IsInjective(<<>>)
    BY DEF IsInjective
  <2> QED
    BY <2>1 DEF Init, Once, Waiting
<1> QED
  BY <1>1, <1>2, StepOnce, Invariant, PTL DEF Spec

===============================================================================
