---------------------------- MODULE NicEgressProofs ----------------------------
(***************************************************************************)
(* What holds of the sending side of a NIC for every number of queue       *)
(* pairs, every window, every set of rates and both kinds of congestion    *)
(* control: types, that the device never sleeps over a queue pair that may *)
(* send, and that the round robin is fair although the positions it counts *)
(* in change under it.                                                     *)
(***************************************************************************)
EXTENDS NicEgress, SumTheorems

-------------------------------------------------------------------------------
\* Least and greatest numbers.

\* A finite set of numbers that is not empty has a least one, which Min gives.
LEMMA MinLeast ==
  ASSUME NEW S, IsFiniteSet(S), S # {}
  PROVE  S \subseteq Int => Min(S) \in S /\ \A y \in S : Min(S) <= y
<1> DEFINE Upto(x) == {y \in S : y <= x}
           Bad == {Upto(x) : x \in S}
<1>1. PICK T \in Bad : \A U \in Bad : U \subseteq T => U = T
  <2>1. Bad \in SUBSET SUBSET S /\ Bad # {}
    OBVIOUS
  <2> HIDE DEF Bad, Upto
  <2> QED
    BY <2>1, LeastException
<1> HAVE S \subseteq Int
<1>2. PICK x \in S : T = Upto(x)
  BY <1>1
<1>3. \A y \in S : x <= y
  <2> SUFFICES ASSUME NEW y \in S, y < x PROVE FALSE
    OBVIOUS
  <2>0. \A z \in S : z \in Int
    OBVIOUS
  <2>1. Upto(y) \subseteq Upto(x) /\ x \in Upto(x) /\ x \notin Upto(y)
    <3>1. \A z \in S : z \in Upto(y) => z \in Upto(x)
      BY <2>0
    <3>2. x \in Upto(x) /\ x \notin Upto(y)
      BY <2>0
    <3> QED
      BY <3>1, <3>2
  <2>2. Upto(y) \in Bad
    OBVIOUS
  <2> QED
    BY <1>1, <1>2, <2>1, <2>2
<1> QED
  BY <1>2, <1>3 DEF Min

\* It has a greatest one, which Max gives.
LEMMA MaxGreatest ==
  ASSUME NEW S, IsFiniteSet(S), S # {}
  PROVE  S \subseteq Int => Max(S) \in S /\ \A y \in S : y <= Max(S)
<1> DEFINE From(x) == {y \in S : x <= y}
           Bad == {From(x) : x \in S}
<1>1. PICK T \in Bad : \A U \in Bad : U \subseteq T => U = T
  <2>1. Bad \in SUBSET SUBSET S /\ Bad # {}
    OBVIOUS
  <2> HIDE DEF Bad, From
  <2> QED
    BY <2>1, LeastException
<1> HAVE S \subseteq Int
<1>2. PICK x \in S : T = From(x)
  BY <1>1
<1>3. \A y \in S : y <= x
  <2> SUFFICES ASSUME NEW y \in S, x < y PROVE FALSE
    OBVIOUS
  <2>0. \A z \in S : z \in Int
    OBVIOUS
  <2>1. From(y) \subseteq From(x) /\ x \in From(x) /\ x \notin From(y)
    <3>1. \A z \in S : z \in From(y) => z \in From(x)
      BY <2>0
    <3>2. x \in From(x) /\ x \notin From(y)
      BY <2>0
    <3> QED
      BY <3>1, <3>2
  <2>2. From(y) \in Bad
    OBVIOUS
  <2> QED
    BY <1>1, <1>2, <2>1, <2>2
<1> QED
  BY <1>2, <1>3 DEF Max

\* The slowest pace is one of the paces.
LEMMA MaxPaceType ==
  MaxPace \in Paces /\ MaxPace \in Nat \ {0} /\ \A p \in Paces : p \in 1 .. MaxPace
<1>1. Paces \in SUBSET Int /\ IsFiniteSet(Paces) /\ Paces # {}
  BY PacesAssumption
<1>2. MaxPace \in Paces /\ \A p \in Paces : p <= MaxPace
  BY <1>1, MaxGreatest DEF MaxPace
<1> QED
  BY <1>2, PacesAssumption

-------------------------------------------------------------------------------
\* The circle of the round robin.

\* The turn of the queue pair at position p of n, when the one at position
\* r + 1 was the last.
Turn(n, r, p) == IF p > r + 1 THEN p - (r + 1) ELSE p - (r + 1) + n

\* One whole round more or less does not change a position.
LEMMA AroundOnce ==
  ASSUME NEW n \in Nat \ {0}, NEW k \in Nat, NEW r \in 0 .. n - 1
  PROVE  (k * n + r) % n = r
OBVIOUS

\* Order takes every position in its turn, counted from where m_rrlast points
\* in the group, even if it points behind its end.
LEMMA OrderTurn ==
  ASSUME NEW n \in Nat \ {0}, rrlast \in Nat
  PROVE  /\ rrlast % n \in 0 .. n - 1
         /\ rrlast < n => rrlast % n = rrlast
         /\ Order(n) \in [1 .. n -> 1 .. n]
         /\ \A p \in 1 .. n :
              /\ Turn(n, rrlast % n, p) \in 1 .. n
              /\ Order(n)[Turn(n, rrlast % n, p)] = p
         /\ \A k \in 1 .. n : Turn(n, rrlast % n, Order(n)[k]) = k
<1> DEFINE d == rrlast \div n
           s == rrlast % n
<1>1. d \in Nat /\ s \in 0 .. n - 1 /\ rrlast = d * n + s
  OBVIOUS
<1>2. rrlast < n => s = rrlast
  OBVIOUS
<1> HIDE DEF d, s
<1>3. ASSUME NEW k \in 1 .. n
      PROVE  (k + rrlast) % n = IF k + s < n THEN k + s ELSE k + s - n
  <2>1. CASE k + s < n
    <3>1. (d * n + (k + s)) % n = k + s
      BY <1>1, <2>1, AroundOnce
    <3>2. k + rrlast = d * n + (k + s)
      BY <1>1
    <3> QED
      BY <2>1, <3>1, <3>2
  <2>2. CASE k + s >= n
    <3>1. d + 1 \in Nat /\ k + s - n \in 0 .. n - 1
      BY <1>1, <2>2
    <3>2. ((d + 1) * n + (k + s - n)) % n = k + s - n
      BY <3>1, AroundOnce
    <3>3. k + rrlast = (d + 1) * n + (k + s - n)
      BY <1>1
    <3> QED
      BY <1>1, <2>2, <3>2, <3>3
  <2> QED
    BY <1>1, <2>1, <2>2
<1>4. \A k \in 1 .. n : Order(n)[k] = IF k + s < n THEN k + s + 1 ELSE k + s - n + 1
  BY <1>1, <1>3 DEF Order
<1>5. Order(n) = [k \in 1 .. n |-> Order(n)[k]]
  BY DEF Order
<1>6. \A k \in 1 .. n : Order(n)[k] \in 1 .. n
  BY <1>1, <1>4
<1>7. \A p \in 1 .. n : Turn(n, s, p) \in 1 .. n /\ Order(n)[Turn(n, s, p)] = p
  BY <1>1, <1>4 DEF Turn
<1>8. \A k \in 1 .. n : Turn(n, s, Order(n)[k]) = k
  BY <1>1, <1>4 DEF Turn
<1>9. Order(n) \in [1 .. n -> 1 .. n]
  BY <1>5, <1>6
<1> QED
  BY <1>1, <1>2, <1>7, <1>8, <1>9 DEF s

-------------------------------------------------------------------------------
\* Removing finished queue pairs from the group.

\* An interval from 1 on determines its end.
LEMMA SameInterval ==
  ASSUME NEW a \in Nat, NEW b \in Nat, 1 .. a = 1 .. b
  PROVE  a = b
<1>1. a <= b
  BY a = 0 \/ a \in 1 .. a
<1>2. b <= a
  BY b = 0 \/ b \in 1 .. b
<1> QED
  BY <1>1, <1>2

\* Positions that stay keep their order, and each gets the place of its rank.
LEMMA Enumerate ==
  ASSUME NEW n \in Nat, NEW kept \in SUBSET (1 .. n)
  PROVE  /\ Cardinality(kept) \in Nat
         /\ \A a \in 1 .. Cardinality(kept) :
              /\ (CHOOSE k \in kept : Rank(kept, k) = a) \in kept
              /\ Rank(kept, CHOOSE k \in kept : Rank(kept, k) = a) = a
         /\ \A k \in kept : Rank(kept, k) \in 1 .. Cardinality(kept)
         /\ \A j, k \in kept : j < k => Rank(kept, j) < Rank(kept, k)
<1> DEFINE c == Cardinality(kept)
           Upto(k) == {j \in kept : j <= k}
           rank == [k \in kept |-> Rank(kept, k)]
<1>1. IsFiniteSet(kept) /\ c \in Nat
  <2>1. IsFiniteSet(1 .. n)
    BY FS_Interval
  <2> QED
    BY <2>1, FS_Subset, FS_CardinalityType
<1>2. \A k \in kept : k \in Nat /\ Upto(k) \subseteq kept /\ k \in Upto(k)
  OBVIOUS
<1>3. \A k \in kept : IsFiniteSet(Upto(k)) /\ Cardinality(Upto(k)) \in Nat /\ Cardinality(Upto(k)) <= c
  BY <1>1, <1>2, FS_Subset, FS_CardinalityType
<1>4. \A k \in kept : Rank(kept, k) = Cardinality(Upto(k))
  BY DEF Rank
<1>5. \A k \in kept : Rank(kept, k) \in 1 .. c
  <2>1. \A k \in kept : Cardinality(Upto(k)) # 0
    BY <1>2, <1>3, FS_EmptySet
  <2> HIDE DEF Upto, c
  <2> QED
    BY <1>1, <1>3, <1>4, <2>1
<1>6. ASSUME NEW j \in kept, NEW k \in kept, j < k
      PROVE  Rank(kept, j) < Rank(kept, k)
  <2>1. k \notin Upto(j)
    BY <1>2, <1>6
  <2>2. Upto(j) \subseteq Upto(k)
    <3>1. \A i \in kept : i <= j => i <= k
      BY <1>2, <1>6
    <3> QED
      BY <3>1
  <2>3. Cardinality(Upto(j)) <= Cardinality(Upto(k)) /\ Cardinality(Upto(j)) # Cardinality(Upto(k))
    <3>1. IsFiniteSet(Upto(k)) /\ Upto(j) \in SUBSET Upto(k) /\ Upto(j) # Upto(k)
      BY <1>2, <1>3, <2>1, <2>2
    <3> HIDE DEF Upto
    <3> QED
      BY <3>1, FS_Subset
  <2> QED
    BY <1>3, <1>4, <2>3
<1>7. \A a \in 1 .. c : \E k \in kept : Rank(kept, k) = a
  <2>1. rank \in [kept -> 1 .. c]
    BY <1>5
  <2>2. \A j, k \in kept : rank[j] = rank[k] => j = k
    <3> SUFFICES ASSUME NEW j \in kept, NEW k \in kept, j # k
                 PROVE  Rank(kept, j) # Rank(kept, k)
      OBVIOUS
    <3>1. CASE j < k
      BY <1>5, <1>6, <3>1
    <3>2. CASE k < j
      BY <1>5, <1>6, <3>2
    <3> QED
      BY <1>2, <3>1, <3>2
  <2>3. rank \in Injection(kept, 1 .. c)
    <3> HIDE DEF rank
    <3> QED
      BY <2>1, <2>2 DEF Injection, IsInjective
  <2>4. IsFiniteSet(1 .. c) /\ Cardinality(1 .. c) = c
    BY <1>1, FS_Interval
  <2>5. rank \in Surjection(kept, 1 .. c)
    <3> HIDE DEF rank
    <3> QED
      BY <1>1, <2>3, <2>4, FS_Injection
  <2>6. \A a \in 1 .. c : \E k \in kept : rank[k] = a
    <3> HIDE DEF rank
    <3> QED
      BY <2>5 DEF Surjection
  <2> QED
    BY <2>6
<1> QED
  BY <1>1, <1>5, <1>6, <1>7

\* The positions of a group that one made from it still has, in order.
Picks(f, g, c) ==
  /\ f \in [1 .. Len(c) -> 1 .. Len(g)]
  /\ \A a, b \in 1 .. Len(c) : a < b => f[a] < f[b]
  /\ \A a \in 1 .. Len(c) : c[a] = g[f[a]]

\* The group that is left is the positions kept, in their order.
LEMMA CleanedPicks ==
  ASSUME NEW q, NEW g \in Seq(Qps), NEW cleared
  PROVE  /\ Cleaned(q, g, cleared) \in Seq(Qps)
         /\ \E f : /\ Picks(f, g, Cleaned(q, g, cleared))
                   /\ \A a \in 1 .. Len(Cleaned(q, g, cleared)) : f[a] \in Kept(q, g, cleared)
                   /\ \A k \in Kept(q, g, cleared) :
                        \E a \in 1 .. Len(Cleaned(q, g, cleared)) : f[a] = k
<1> DEFINE C == Cleaned(q, g, cleared)
           kept == Kept(q, g, cleared)
           at(n) == CHOOSE k \in kept : Rank(kept, k) = n
           n0 == Cardinality(kept)
<1>1. Len(g) \in Nat /\ DOMAIN g = 1 .. Len(g) /\ \A k \in 1 .. Len(g) : g[k] \in Qps
  BY LenProperties, ElementOfSeq
<1>2. kept \in SUBSET (1 .. Len(g))
  BY <1>1 DEF Kept
<1>3. CASE cleared = {}
  <2> DEFINE f == [a \in 1 .. Len(g) |-> a]
  <2>1. C = g /\ kept = 1 .. Len(g)
    BY <1>1, <1>3 DEF Cleaned, Kept
  <2>2. Picks(f, g, g) /\ \A a \in 1 .. Len(g) : f[a] = a
    BY <1>1 DEF Picks
  <2> HIDE DEF f
  <2> QED
    BY <1>1, <2>1, <2>2
<1>4. CASE cleared # {}
  <2> DEFINE f == [n \in 1 .. n0 |-> at(n)]
  <2>1. C = [n \in 1 .. n0 |-> g[at(n)]]
    BY <1>4 DEF Cleaned
  <2>2. /\ n0 \in Nat
        /\ \A n \in 1 .. n0 : at(n) \in kept /\ Rank(kept, at(n)) = n
        /\ \A k \in kept : Rank(kept, k) \in 1 .. n0
        /\ \A j, k \in kept : j < k => Rank(kept, j) < Rank(kept, k)
    <3> HIDE DEF kept
    <3> QED
      BY <1>1, <1>2, Enumerate
  <2> HIDE DEF C, kept, at, n0
  <2>3. C \in [1 .. n0 -> Qps]
    BY <1>1, <1>2, <2>1, <2>2
  <2>4. C \in Seq(Qps)
    BY <2>2, <2>3, SeqDef
  <2>5. Len(C) = n0
    <3>1. Len(C) \in Nat /\ 1 .. Len(C) = 1 .. n0
      BY <2>3, <2>4, LenProperties
    <3> QED
      BY <2>2, <3>1, SameInterval
  <2>6. \A j, k \in kept : Rank(kept, j) < Rank(kept, k) => j < k
    <3> SUFFICES ASSUME NEW j \in kept, NEW k \in kept, Rank(kept, j) < Rank(kept, k), ~(j < k)
                 PROVE  FALSE
      OBVIOUS
    <3>1. j \in Nat /\ k \in Nat
      BY <1>2
    <3>2. j = k \/ k < j
      BY <3>1
    <3> QED
      BY <2>2, <3>2
  <2>7. \A a \in 1 .. n0 : f[a] \in kept /\ f[a] \in 1 .. Len(g) /\ C[a] = g[f[a]]
    BY <1>2, <2>1, <2>2
  <2>8. \A a, b \in 1 .. n0 : a < b => f[a] < f[b]
    BY <2>2, <2>6
  <2>9. \A k \in kept : \E a \in 1 .. n0 : f[a] = k
    <3> SUFFICES ASSUME NEW k \in kept PROVE \E a \in 1 .. n0 : f[a] = k
      OBVIOUS
    <3>1. PICK a \in 1 .. n0 : a = Rank(kept, k)
      BY <2>2
    <3>2. at(a) \in kept /\ Rank(kept, at(a)) = a
      BY <2>2
    <3>3. ~(at(a) < k) /\ ~(k < at(a))
      BY <2>2, <3>1, <3>2
    <3>4. at(a) \in Nat /\ k \in Nat
      <4>1. \A x \in kept : x \in Nat
        BY <1>2
      <4> QED
        BY <3>2, <4>1
    <3>5. at(a) = k
      <4> HIDE DEF f
      <4> QED
        BY <3>3, <3>4
    <3> QED
      BY <3>1, <3>5
  <2>10. f \in [1 .. n0 -> 1 .. Len(g)]
    BY <2>7
  <2> HIDE DEF f
  <2> QED
    BY <2>4, <2>5, <2>7, <2>8, <2>9, <2>10 DEF C, kept, Picks
<1> QED
  BY <1>3, <1>4

-------------------------------------------------------------------------------
\* What DequeueAndTransmit does.

QueuePair == [left : Nat, flying : Nat, avail : -MaxPace .. MaxPace, pace : Paces]

\* Queue pairs within their windows; by HPCC none is available later than a
\* packet at its pace.
Paced(q) ==
  /\ q \in [Qps -> QueuePair]
  /\ \A i \in Qps : /\ Window # 0 => q[i].flying <= Window
                    /\ cc = "HPCC" => q[i].avail <= q[i].pace

\* A group has each queue pair once.
Group(g) == g \in Seq(Qps) /\ \A a, b \in 1 .. Len(g) : g[a] = g[b] => a = b

\* The queue pairs whose turn comes before that of i.
Ahead(g, r, i) ==
  {j \in Qps : \E a, b \in 1 .. Len(g) :
     g[a] = j /\ g[b] = i /\ Turn(Len(g), r, a) < Turn(Len(g), r, b)}

DueIn(q, i, pause) == MaySend(q[i], pause) /\ q[i].avail <= 0

\* The device is busy and nothing happens.
Busy(q, g, w, ready) == ~ready /\ qp' = q /\ grp' = g /\ wake' = w /\ UNCHANGED <<rrlast, cur, tx>>

\* No queue pair may be sent from now, and no finished one is left.
Idles(q, g, w, ready, pause) ==
  /\ ready
  /\ qp' = q /\ UNCHANGED rrlast
  /\ Group(grp')
  /\ \A i \in Qps : Contains(grp', i) =>
       Contains(g, i) /\ ~DueIn(q, i, pause) /\ ~IsFinished(q[i])
  /\ wake' = NextSend(q, grp', w)
  /\ cur' = NoQp /\ tx' = 0

\* A queue pair that may be sent from is, and no other one that may had its turn
\* before.
Serves(q, g, w, ready, pause, next) ==
  /\ ready
  /\ Contains(g, next) /\ DueIn(q, next, pause)
  /\ qp' = [q EXCEPT ![next].left = @ - 1, ![next].flying = @ + 1,
                     ![next].avail = q[next].pace]
  /\ wake' = w /\ cur' = next /\ tx' = 1
  /\ Group(grp')
  /\ rrlast' \in 0 .. Len(grp') - 1 /\ grp'[rrlast' + 1] = next
  /\ \E f : Picks(f, g, grp')
  /\ \A j \in Qps : Contains(g, j) => Contains(grp', j) \/ IsFinished(q[j])
  /\ rrlast < Len(g) =>
       \A i \in Qps : Contains(g, i) /\ DueIn(q, i, pause) /\ i # next =>
         next \in Ahead(g, rrlast, i)

\* A group cleaned of some positions has each queue pair once, too.
LEMMA PicksGroup ==
  ASSUME NEW g, Group(g), NEW c \in Seq(Qps), NEW f, Picks(f, g, c)
  PROVE  Group(c) /\ \A i \in Qps : Contains(c, i) => Contains(g, i)
<1>1. Len(c) \in Nat /\ Len(g) \in Nat
  BY LenProperties DEF Group
<1>2. \A a \in 1 .. Len(c) : f[a] \in 1 .. Len(g)
  BY DEF Picks
<1>3. ASSUME NEW a \in 1 .. Len(c), NEW b \in 1 .. Len(c), c[a] = c[b]
      PROVE  a = b
  <2>1. f[a] = f[b] /\ f[a] \in Nat
    BY SMTT(40), <1>2, <1>3 DEF Picks, Group
  <2>2. ~(a < b) /\ ~(b < a)
    BY <2>1 DEF Picks
  <2> QED
    BY <2>2
<1>4. ASSUME NEW i \in Qps, Contains(c, i)
      PROVE  Contains(g, i)
  <2>1. PICK a \in 1 .. Len(c) : c[a] = i
    BY <1>4 DEF Contains
  <2>2. g[f[a]] = i /\ f[a] \in 1 .. Len(g)
    BY <1>2, <2>1 DEF Picks
  <2> QED
    BY <2>2 DEF Contains
<1> QED
  BY <1>3, <1>4 DEF Group

\* What is found is the first in the circle that may be sent from.
LEMMA FoundFirst ==
  ASSUME NEW q, NEW g \in Seq(Qps), NEW pause, rrlast \in Nat
  PROVE  LET n == Len(g) IN
         /\ Found(q, g, pause) \in 1 .. n + 1
         /\ Found(q, g, pause) <= n =>
              /\ Order(n)[Found(q, g, pause)] \in 1 .. n
              /\ DueIn(q, g[Order(n)[Found(q, g, pause)]], pause)
         /\ \A p \in 1 .. n : DueIn(q, g[p], pause) =>
              Found(q, g, pause) <= Turn(n, rrlast % n, p)
<1> DEFINE n == Len(g)
           found == Found(q, g, pause)
           ready == {k \in 1 .. n : DueIn(q, g[Order(n)[k]], pause)}
<1>1. n \in Nat /\ DOMAIN g = 1 .. n
  BY LenProperties
<1>2. found = IF ready = {} THEN n + 1 ELSE Min(ready)
  BY <1>1 DEF Found, DueIn
<1>3. IsFiniteSet(ready) /\ ready \subseteq Int
  <2>1. IsFiniteSet(1 .. n)
    BY <1>1, FS_Interval
  <2> QED
    BY <2>1, FS_Subset
<1>4. ready # {} => found \in ready /\ \A k \in ready : found <= k
  <2> HIDE DEF ready
  <2> QED
    BY <1>2, <1>3, MinLeast
<1>5. n # 0 => /\ \A k \in 1 .. n : Order(n)[k] \in 1 .. n
               /\ \A p \in 1 .. n : /\ Turn(n, rrlast % n, p) \in 1 .. n
                                    /\ Order(n)[Turn(n, rrlast % n, p)] = p
  <2> HIDE DEF n
  <2> QED
    BY <1>1, OrderTurn
<1>6. \A p \in 1 .. n : DueIn(q, g[p], pause) => Turn(n, rrlast % n, p) \in ready
  BY <1>1, <1>5
<1>7. ready = {} => found = n + 1 /\ \A p \in 1 .. n : ~DueIn(q, g[p], pause)
  BY <1>2, <1>6
<1>8. \A k \in ready : k \in 1 .. n /\ DueIn(q, g[Order(n)[k]], pause)
  OBVIOUS
<1> HIDE DEF n, found, ready
<1>9. found \in 1 .. n + 1 /\ (found <= n => found \in ready)
  BY <1>1, <1>4, <1>7, <1>8
<1>10. \A p \in 1 .. n : DueIn(q, g[p], pause) => found <= Turn(n, rrlast % n, p)
  BY <1>4, <1>6, <1>7
<1> QED
  BY <1>1, <1>5, <1>8, <1>9, <1>10 DEF n, found

\* DequeueAndTransmit does one of the three.
LEMMA Dequeued ==
  ASSUME rrlast \in Nat, NEW q, Paced(q), NEW g, Group(g), NEW w, NEW ready, NEW pause,
         DequeueAndTransmit(q, g, w, ready, pause)
  PROVE  \/ Busy(q, g, w, ready)
         \/ Idles(q, g, w, ready, pause)
         \/ \E next \in Qps : Serves(q, g, w, ready, pause, next)
<1> DEFINE n == Len(g)
           found == Found(q, g, pause)
           cleared == Cleared(q, g, found)
           C == Cleaned(q, g, cleared)
           p == Order(n)[found]
           next == g[p]
<1>1. g \in Seq(Qps) /\ n \in Nat /\ DOMAIN g = 1 .. n /\ \A k \in 1 .. n : g[k] \in Qps
  BY LenProperties, ElementOfSeq DEF Group
<1>2. /\ found \in 1 .. n + 1
      /\ found <= n => p \in 1 .. n /\ DueIn(q, next, pause)
      /\ \A k \in 1 .. n : DueIn(q, g[k], pause) => found <= Turn(n, rrlast % n, k)
  BY <1>1, FoundFirst
<1>3. n # 0 => /\ rrlast < n => rrlast % n = rrlast
               /\ \A k \in 1 .. n : /\ Turn(n, rrlast % n, k) \in 1 .. n
                                    /\ Order(n)[Turn(n, rrlast % n, k)] = k
                                    /\ Turn(n, rrlast % n, Order(n)[k]) = k
  <2> HIDE DEF n
  <2> QED
    BY <1>1, OrderTurn
<1>4. C \in Seq(Qps)
  BY <1>1, CleanedPicks
<1>5. PICK f : /\ Picks(f, g, C)
               /\ \A a \in 1 .. Len(C) : f[a] \in Kept(q, g, cleared)
               /\ \A k \in Kept(q, g, cleared) : \E a \in 1 .. Len(C) : f[a] = k
  BY SMTT(40), <1>1, CleanedPicks
<1>6. Group(C) /\ \A i \in Qps : Contains(C, i) => Contains(g, i)
  <2> HIDE DEF C
  <2> QED
    BY <1>4, <1>5, PicksGroup
<1>7. CASE ~ready
  BY <1>7 DEF DequeueAndTransmit, Busy
<1>8. CASE ready /\ found > n
  <2>1. /\ qp' = q /\ grp' = C /\ wake' = NextSend(q, C, w)
        /\ cur' = NoQp /\ tx' = 0 /\ UNCHANGED rrlast
    BY <1>1, <1>2, <1>8 DEF DequeueAndTransmit
  <2>2. \A k \in 1 .. n : IsFinished(q[g[k]]) => k \in cleared
    <3> SUFFICES ASSUME NEW k \in 1 .. n, IsFinished(q[g[k]]) PROVE k \in cleared
      OBVIOUS
    <3> DEFINE t == Turn(n, rrlast % n, k)
    <3>1. t \in 1 .. n /\ Order(n)[t] = k
      BY <1>1, <1>3
    <3> HIDE DEF t
    <3>2. t <= found
      BY <1>1, <1>2, <1>8, <3>1
    <3> QED
      BY <1>1, <3>1, <3>2 DEF Cleared
  <2>3. ASSUME NEW i \in Qps, Contains(C, i)
        PROVE  Contains(g, i) /\ ~DueIn(q, i, pause) /\ ~IsFinished(q[i])
    <3>1. PICK a \in 1 .. Len(C) : C[a] = i
      BY <2>3 DEF Contains
    <3>2. f[a] \in 1 .. n /\ g[f[a]] = i /\ f[a] \in Kept(q, g, cleared)
      BY <1>5, <3>1 DEF Picks
    <3>3. ~DueIn(q, i, pause)
      BY <1>1, <1>2, <1>3, <1>8, <3>2
    <3>4. ~IsFinished(q[i])
      <4>1. (\A c \in cleared : f[a] < c) \/ ~IsFinished(q[i])
        BY <3>2 DEF Kept
      <4>2. ~(f[a] < f[a])
        BY <1>1, <3>2
      <4> QED
        BY <2>2, <3>2, <4>1, <4>2
    <3> QED
      BY <1>6, <2>3, <3>3, <3>4
  <2> HIDE DEF C
  <2>4. Idles(q, g, w, ready, pause)
    BY <1>6, <1>8, <2>1, <2>3 DEF Idles
  <2> QED
    BY SMTT(40), <2>4
<1>9. CASE ready /\ found <= n
  <2>1. /\ qp' = [q EXCEPT ![next].left = @ - 1, ![next].flying = @ + 1,
                           ![next].avail = q[next].pace]
        /\ grp' = C /\ wake' = w
        /\ rrlast' = (CHOOSE k \in DOMAIN C : C[k] = next) - 1
        /\ cur' = next /\ tx' = 1
    <3>1. ~(found > n)
      BY <1>1, <1>2, <1>9
    <3> QED
      BY <1>9, <3>1 DEF DequeueAndTransmit
  <2>2. p \in 1 .. n /\ next \in Qps /\ DueIn(q, next, pause)
    BY <1>1, <1>2, <1>9
  <2>3. p \in Kept(q, g, cleared)
    <3>1. q[next].left \in Nat /\ q[next].left > 0
      BY <2>2 DEF Paced, QueuePair, DueIn, MaySend
    <3>2. ~IsFinished(q[next])
      BY <3>1 DEF IsFinished
    <3> HIDE DEF cleared, p
    <3> QED
      BY <1>1, <2>2, <3>2 DEF Kept
  <2>4. PICK a \in 1 .. Len(C) : f[a] = p
    BY <1>5, <2>3
  <2>5. C[a] = next
    BY <1>5, <2>4 DEF Picks
  <2>6. DOMAIN C = 1 .. Len(C) /\ Len(C) \in Nat
    <3> HIDE DEF C
    <3> QED
      BY <1>4, LenProperties
  <2>7. PICK k \in 1 .. Len(C) : C[k] = next /\ rrlast' = k - 1
    <3> DEFINE k == CHOOSE k \in DOMAIN C : C[k] = next
    <3>1. k \in 1 .. Len(C) /\ C[k] = next
      <4> HIDE DEF C, next
      <4> QED
        BY <2>5, <2>6
    <3> QED
      BY <2>1, <3>1
  <2>8. ASSUME rrlast < n, NEW i \in Qps, Contains(g, i), DueIn(q, i, pause), i # next
        PROVE  next \in Ahead(g, rrlast, i)
    <3>1. PICK b \in 1 .. n : g[b] = i
      BY <2>8 DEF Contains
    <3>2. rrlast % n = rrlast /\ n # 0 /\ found \in 1 .. n
      BY <1>1, <1>2, <1>3, <1>9, <3>1, <2>8
    <3>3. found <= Turn(n, rrlast, b) /\ Order(n)[Turn(n, rrlast, b)] = b
          /\ Turn(n, rrlast, b) \in 1 .. n /\ Turn(n, rrlast, p) = found
      BY <1>2, <1>3, <2>8, <3>1, <3>2
    <3>4. Turn(n, rrlast, b) # found
      BY <2>8, <3>1, <3>3
    <3>5. Turn(n, rrlast, p) < Turn(n, rrlast, b)
      BY <3>2, <3>3, <3>4
    <3> HIDE DEF p
    <3> QED
      BY <2>2, <3>1, <3>5 DEF Ahead
  <2>9. Contains(g, next)
    BY <2>2 DEF Contains
  <2>10. rrlast' \in 0 .. Len(C) - 1 /\ C[rrlast' + 1] = next
    <3> HIDE DEF C, next
    <3> QED
      BY <2>6, <2>7
  <2>11. ASSUME NEW j \in Qps, Contains(g, j), ~IsFinished(q[j])
         PROVE  Contains(C, j)
    <3>1. PICK b \in 1 .. n : g[b] = j
      BY <2>11 DEF Contains
    <3>2. b \in Kept(q, g, cleared)
      BY <1>1, <2>11, <3>1 DEF Kept
    <3>3. PICK c \in 1 .. Len(C) : f[c] = b
      BY <1>5, <3>2
    <3>4. C[c] = j
      BY <1>5, <3>1, <3>3 DEF Picks
    <3> QED
      BY <3>4 DEF Contains
  <2>12. Serves(q, g, w, ready, pause, next)
    <3> HIDE DEF C, next
    <3> QED
      BY <1>5, <1>6, <1>9, <2>1, <2>2, <2>8, <2>9, <2>10, <2>11 DEF Serves
  <2> QED
    BY SMTT(40), <2>2, <2>12
<1> QED
  BY <1>1, <1>2, <1>7, <1>8, <1>9

-------------------------------------------------------------------------------
\* Types, and that the device never sleeps over a queue pair.

Timer == {None} \cup 0 .. MaxPace

TypeInv == TypeOK /\ Paced(qp) /\ Group(grp)

\* m_nextSend is set to a time that is to come, and not to be reset; it is
\* running when all that is left in the group has yet to become available.
LEMMA NextSendTimer ==
  ASSUME NEW q, Paced(q), NEW g \in Seq(Qps), NEW w \in Timer
  PROVE  /\ NextSend(q, g, w) \in Timer
         /\ NextSend(q, g, w) = None =>
              \A i \in Qps : Contains(g, i) =>
                \E j \in Qps : Contains(g, j) /\ q[j].avail <= 0
<1> DEFINE times == {q[g[k]].avail : k \in DOMAIN g}
           earliest == Min(times)
<1>1. Len(g) \in Nat /\ DOMAIN g = 1 .. Len(g) /\ \A k \in 1 .. Len(g) : g[k] \in Qps
  BY LenProperties, ElementOfSeq
<1>2. \A i \in Qps : q[i].avail \in -MaxPace .. MaxPace
  BY DEF Paced, QueuePair
<1>3. MaxPace \in Nat
  BY MaxPaceType
<1>4. times \subseteq -MaxPace .. MaxPace
  BY <1>1, <1>2
<1>5. IsFiniteSet(times) /\ times \subseteq Int
  <2>1. IsFiniteSet(-MaxPace .. MaxPace)
    BY <1>3, FS_Interval
  <2>2. times \in SUBSET (-MaxPace .. MaxPace)
    BY <1>4
  <2> HIDE DEF times
  <2>3. IsFiniteSet(times)
    BY <2>1, <2>2, FS_Subset
  <2>4. times \subseteq Int
    BY <1>3, <2>2
  <2> QED
    BY <2>3, <2>4
<1>6. times # {} => earliest \in times
  <2> HIDE DEF times
  <2> QED
    BY <1>5, MinLeast
<1>7. NextSend(q, g, w) = IF w = None /\ g # <<>> /\ earliest > 0 THEN earliest ELSE w
  BY DEF NextSend
<1>8. g # <<>> => times # {}
  <2> SUFFICES ASSUME g # <<>> PROVE times # {}
    OBVIOUS
  <2>1. 1 \in DOMAIN g
    BY <1>1, EmptySeq
  <2> QED
    BY <2>1
<1>9. g # <<>> => earliest \in -MaxPace .. MaxPace /\ \E k \in 1 .. Len(g) : earliest = q[g[k]].avail
  BY <1>1, <1>4, <1>6, <1>8
<1> HIDE DEF earliest
<1>10. NextSend(q, g, w) \in Timer
  BY <1>3, <1>7, <1>9 DEF Timer
<1>11. ASSUME NextSend(q, g, w) = None, NEW i \in Qps, Contains(g, i)
       PROVE  \E j \in Qps : Contains(g, j) /\ q[j].avail <= 0
  <2>1. g # <<>>
    BY <1>11, EmptySeq DEF Contains
  <2>2. earliest <= 0
    BY <1>3, <1>7, <1>9, <1>11, <2>1 DEF Timer, None
  <2>3. PICK k \in 1 .. Len(g) : earliest = q[g[k]].avail
    BY <1>9, <2>1
  <2> QED
    BY <1>1, <2>2, <2>3 DEF Contains
<1> QED
  BY <1>10, <1>11

\* What sending a packet does to a queue pair, written as one record.
LEMMA Sent ==
  ASSUME NEW q, q \in [Qps -> QueuePair], NEW i \in Qps
  PROVE  [q EXCEPT ![i].left = @ - 1, ![i].flying = @ + 1, ![i].avail = q[i].pace]
           = [q EXCEPT ![i] = [left |-> q[i].left - 1, flying |-> q[i].flying + 1,
                               avail |-> q[i].pace, pace |-> q[i].pace]]
<1> DEFINE p == [q EXCEPT ![i].left = @ - 1, ![i].flying = @ + 1, ![i].avail = q[i].pace]
           r == [left |-> q[i].left - 1, flying |-> q[i].flying + 1,
                 avail |-> q[i].pace, pace |-> q[i].pace]
<1>1. q[i] \in QueuePair
  OBVIOUS
<1>2. p = [j \in Qps |-> IF j = i THEN [[[q[i] EXCEPT !.left = q[i].left - 1]
                                            EXCEPT !.flying = q[i].flying + 1]
                                            EXCEPT !.avail = q[i].pace]
                                 ELSE q[j]]
  OBVIOUS
<1>3. [[[q[i] EXCEPT !.left = q[i].left - 1] EXCEPT !.flying = q[i].flying + 1]
         EXCEPT !.avail = q[i].pace] = r
  <2> DEFINE r1 == [q[i] EXCEPT !.left = q[i].left - 1]
             r2 == [r1 EXCEPT !.flying = q[i].flying + 1]
  <2>1. r1 = [left |-> q[i].left - 1, flying |-> q[i].flying,
              avail |-> q[i].avail, pace |-> q[i].pace]
    BY <1>1 DEF QueuePair
  <2> HIDE DEF r1
  <2>2. r2 = [left |-> q[i].left - 1, flying |-> q[i].flying + 1,
              avail |-> q[i].avail, pace |-> q[i].pace]
    BY <2>1
  <2> HIDE DEF r2
  <2>3. [r2 EXCEPT !.avail = q[i].pace] = r
    BY <2>2
  <2> QED
    BY <2>3 DEF r1, r2
<1>4. p = [j \in Qps |-> IF j = i THEN r ELSE q[j]]
  BY <1>2, <1>3, Zenon
<1> HIDE DEF p, r
<1>5. [q EXCEPT ![i] = r] = [j \in Qps |-> IF j = i THEN r ELSE q[j]]
  OBVIOUS
<1> QED
  BY <1>4, <1>5 DEF p, r

\* DequeueAndTransmit keeps the types.
LEMMA DequeueType ==
  ASSUME TypeInv, UNCHANGED cc,
         NEW q, Paced(q), NEW g, Group(g), NEW w \in Timer, NEW ready, NEW pause,
         DequeueAndTransmit(q, g, w, ready, pause)
  PROVE  /\ Paced(qp)' /\ Group(grp)' /\ rrlast' \in Nat
         /\ cur' \in Qps \cup {NoQp} /\ tx' \in {0, 1} /\ wake' \in Timer
<1>1. rrlast \in Nat /\ cur \in Qps \cup {NoQp} /\ tx \in {0, 1}
  BY DEF TypeInv, TypeOK
<1>2. CASE Busy(q, g, w, ready)
  BY <1>1, <1>2 DEF Busy, Paced
<1>3. CASE Idles(q, g, w, ready, pause)
  <2>1. wake' \in Timer
    BY <1>3, NextSendTimer DEF Idles, Group
  <2> QED
    BY <1>1, <1>3, <2>1 DEF Idles, Paced
<1>4. ASSUME NEW next \in Qps, Serves(q, g, w, ready, pause, next)
      PROVE  Paced(qp)' /\ rrlast' \in Nat
  <2>1. q[next] \in QueuePair /\ q[next].left > 0 /\ (Window # 0 => q[next].flying < Window)
    BY <1>4, PacesAssumption DEF Serves, DueIn, MaySend, IsWinBound, Paced, QueuePair
  <2>2. qp' = [q EXCEPT ![next] = [left |-> q[next].left - 1, flying |-> q[next].flying + 1,
                                   avail |-> q[next].pace, pace |-> q[next].pace]]
    <3>1. qp' = [q EXCEPT ![next].left = @ - 1, ![next].flying = @ + 1,
                          ![next].avail = q[next].pace]
      BY <1>4, Zenon DEF Serves
    <3> QED
      BY <3>1, Sent DEF Paced
  <2>3. q[next].pace \in Paces /\ q[next].pace \in -MaxPace .. MaxPace
    <3>1. q[next].pace \in Paces
      BY <2>1 DEF QueuePair
    <3>2. q[next].pace \in 1 .. MaxPace /\ MaxPace \in Nat
      BY <3>1, MaxPaceType
    <3> QED
      BY <3>1, <3>2
  <2>4. [left |-> q[next].left - 1, flying |-> q[next].flying + 1,
         avail |-> q[next].pace, pace |-> q[next].pace] \in QueuePair
    BY <2>1, <2>3 DEF QueuePair
  <2>5. qp' \in [Qps -> QueuePair]
    BY <2>2, <2>4 DEF Paced
  <2>6. ASSUME NEW i \in Qps
        PROVE  /\ Window # 0 => qp'[i].flying <= Window
               /\ cc = "HPCC" => qp'[i].avail <= qp'[i].pace
    <3>1. CASE i = next
      <4>1. qp'[i] = [left |-> q[next].left - 1, flying |-> q[next].flying + 1,
                      avail |-> q[next].pace, pace |-> q[next].pace]
        BY <2>2, <3>1 DEF Paced
      <4> QED
        BY <2>1, <2>3, <4>1, PacesAssumption DEF QueuePair
    <3>2. CASE i # next
      BY <2>2, <3>2 DEF Paced
    <3> QED
      BY <3>1, <3>2
  <2>7. rrlast' \in Nat
    BY <1>4 DEF Serves
  <2> QED
    BY <2>5, <2>6, <2>7 DEF Paced
<1>5. ASSUME NEW next \in Qps, Serves(q, g, w, ready, pause, next)
      PROVE  Group(grp)' /\ cur' \in Qps \cup {NoQp} /\ tx' \in {0, 1} /\ wake' \in Timer
  BY <1>5 DEF Serves
<1> QED
  BY <1>1, <1>2, <1>3, <1>4, <1>5, Dequeued

\* When DequeueAndTransmit leaves the device ready, it forgets nobody.
LEMMA DequeueForgetsNone ==
  ASSUME TypeInv, NEW q, Paced(q), NEW g, Group(g), NEW w \in Timer, NEW ready,
         ready \/ ~Ready, DequeueAndTransmit(q, g, w, ready, paused')
  PROVE  NotForgotten'
<1>1. rrlast \in Nat
  BY DEF TypeInv, TypeOK
<1>2. CASE Busy(q, g, w, ready)
  BY <1>2 DEF Busy, Ready, NotForgotten
<1>3. CASE Idles(q, g, w, ready, paused')
  <2> SUFFICES ASSUME NEW i \in Qps, Contains(grp', i), MaySend(q[i], paused'), wake' = None,
                      \A j \in Qps : ~(q[j].flying > 0)
               PROVE  FALSE
    BY <1>3 DEF Idles, NotForgotten
  <2>1. \A j \in Qps : q[j].flying \in Nat /\ q[j].left \in Nat
    BY DEF Paced, QueuePair
  <2>2. ASSUME NEW j \in Qps, Contains(grp', j)
        PROVE  MaySend(q[j], paused')
    <3>1. q[j].flying = 0 /\ q[j].left # 0
      BY <1>3, <2>1, <2>2 DEF Idles, IsFinished
    <3> QED
      BY <2>1, <3>1, PacesAssumption DEF MaySend, IsWinBound
  <2>3. grp' \in Seq(Qps) /\ NextSend(q, grp', w) = None
    BY <1>3 DEF Idles, Group
  <2>4. PICK j \in Qps : Contains(grp', j) /\ q[j].avail <= 0
    BY <2>3, NextSendTimer
  <2> QED
    BY <1>3, <2>2, <2>4 DEF Idles, DueIn
<1>4. CASE \E next \in Qps : Serves(q, g, w, ready, paused', next)
  <2>1. cur' # NoQp
    BY <1>4, QpsAssumption DEF Serves, NoQp
  <2> QED
    BY <2>1 DEF Ready, NotForgotten
<1> QED
  BY <1>1, <1>2, <1>3, <1>4, Dequeued

\* An event either calls DequeueAndTransmit or leaves the group, its positions
\* and the packets alone.
Calls(q, g, w, ready) ==
  /\ Paced(q) /\ Group(g) /\ w \in Timer
  /\ ready \/ ~Ready
  /\ g = grp \/ \E i \in Qps : ~Started(i) /\ g = Append(grp, i)
  /\ \A i \in Qps : q[i].left = qp[i].left
  /\ DequeueAndTransmit(q, g, w, ready, paused')

Leaves ==
  /\ Paced(qp)' /\ UNCHANGED <<grp, rrlast, cur>> /\ tx' \in {0, 1} /\ wake' \in Timer
  /\ \A i \in Qps : qp'[i].left = qp[i].left /\ qp'[i].flying = qp[i].flying
  /\ wake' = None => wake = None
  /\ paused => paused' \/ crashed'

\* A group that a queue pair not in it joins has each once.
LEMMA AppendGroup ==
  ASSUME NEW g, Group(g), NEW i \in Qps, ~Contains(g, i)
  PROVE  /\ Group(Append(g, i))
         /\ \A j \in Qps : Contains(Append(g, i), j) <=> Contains(g, j) \/ j = i
<1> DEFINE n == Len(g)
           G == Append(g, i)
<1>1. g \in Seq(Qps) /\ n \in Nat
  BY LenProperties DEF Group
<1>2. /\ G \in Seq(Qps) /\ Len(G) = n + 1 /\ G[n + 1] = i
      /\ \A k \in 1 .. n : G[k] = g[k]
  BY <1>1, AppendProperties
<1>3. \A k \in 1 .. n : g[k] # i
  BY DEF Contains
<1> HIDE DEF G
<1>4. \A a, b \in 1 .. n + 1 : G[a] = G[b] => a = b
  <2> SUFFICES ASSUME NEW a \in 1 .. n + 1, NEW b \in 1 .. n + 1, G[a] = G[b] PROVE a = b
    OBVIOUS
  <2>1. (a = n + 1 \/ a \in 1 .. n) /\ (b = n + 1 \/ b \in 1 .. n)
    BY <1>1
  <2>2. a \in 1 .. n /\ b \in 1 .. n => a = b
    BY <1>2 DEF Group
  <2> QED
    BY <1>2, <1>3, <2>1, <2>2
<1>5. ASSUME NEW j \in Qps
      PROVE  Contains(G, j) <=> Contains(g, j) \/ j = i
  <2>1. Contains(G, j) <=> \E k \in 1 .. n + 1 : G[k] = j
    BY <1>2 DEF Contains
  <2>2. \A k \in 1 .. n + 1 : k = n + 1 \/ k \in 1 .. n
    BY <1>1
  <2>3. n + 1 \in 1 .. n + 1 /\ \A k \in 1 .. n : k \in 1 .. n + 1
    BY <1>1
  <2> QED
    BY <1>2, <2>1, <2>2, <2>3 DEF Contains
<1> QED
  BY <1>2, <1>4, <1>5 DEF Group, G

\* Removing the time that has passed keeps an m_nextAvail in its range.
LEMMA PastType ==
  ASSUME NEW t \in Int, NEW top \in Nat, top <= MaxPace, t <= top
  PROVE  Past(t) \in -MaxPace .. MaxPace /\ Past(t) <= top
BY MaxPaceType DEF Past

\* A queue pair after an acknowledgement.
LEMMA AckedRecord ==
  ASSUME NEW x \in QueuePair, NEW fewer
  PROVE  [x EXCEPT !.flying = fewer] =
           [left |-> x.left, flying |-> fewer, avail |-> x.avail, pace |-> x.pace]
BY DEF QueuePair

\* A queue pair put in the place of another keeps the others as they are.
LEMMA PacedUpdate ==
  ASSUME NEW q, Paced(q), NEW i \in Qps, NEW x \in QueuePair,
         Window # 0 => x.flying <= Window, cc = "HPCC" => x.avail <= x.pace,
         x.left = q[i].left
  PROVE  /\ Paced([q EXCEPT ![i] = x])
         /\ \A j \in Qps : [q EXCEPT ![i] = x][j].left = q[j].left
BY DEF Paced

\* Every event is of one of the two kinds.
LEMMA EventCases ==
  ASSUME TypeInv, Event, UNCHANGED cc
  PROVE  /\ paused' \in BOOLEAN /\ crashed' \in BOOLEAN
         /\ Leaves \/ \E q, g, w, ready : Calls(q, g, w, ready)
<1>1. /\ Paced(qp) /\ Group(grp) /\ wake \in Timer /\ paused \in BOOLEAN
      /\ tx \in {0, 1} /\ cur \in Qps \cup {NoQp}
      /\ None \in Timer /\ MaxPace \in Nat \ {0}
      /\ crashed' \in BOOLEAN
  <2>1. crashed' \in BOOLEAN
    BY DEF TypeInv, TypeOK, Event, TransmitComplete, NextSendExpires, Pause, Resume, Tick,
           NewQp, ReceiveAck, RateTimer
  <2> QED
    BY <2>1, MaxPaceType DEF TypeInv, TypeOK, Timer
<1>2. CASE TransmitComplete
  <2>1. Calls(qp, grp, wake, TRUE)
    BY <1>1, <1>2 DEF TransmitComplete, Calls
  <2> QED
    BY <1>1, <1>2, <2>1 DEF TransmitComplete
<1>3. CASE NextSendExpires
  <2>1. Calls(qp, grp, None, Ready)
    BY <1>1, <1>3 DEF NextSendExpires, Calls
  <2> QED
    BY <1>1, <1>3, <2>1 DEF NextSendExpires
<1>4. CASE Pause
  BY <1>1, <1>4 DEF Pause, Leaves, Paced
<1>5. CASE Resume
  <2>1. CASE DequeueAndTransmit(qp, grp, wake, Ready, FALSE)
    <3>1. Calls(qp, grp, wake, Ready)
      BY <1>1, <1>5, <2>1 DEF Resume, Calls
    <3> QED
      BY <1>1, <1>5, <3>1 DEF Resume
  <2>2. CASE crashed' = TRUE /\ UNCHANGED <<qp, grp, rrlast, cur, tx, wake>>
    <3>1. Leaves
      BY <1>1, <2>2 DEF Leaves, Paced
    <3> QED
      BY <1>1, <1>5, <3>1 DEF Resume
  <2> QED
    BY <1>5, <2>1, <2>2 DEF Resume
<1>6. CASE Tick
  <2>1. /\ tx' \in {0, 1} /\ wake' \in Timer /\ (wake' = None => wake = None)
        /\ UNCHANGED <<grp, rrlast, cur, paused>>
    BY <1>1, <1>6 DEF Tick, Timer, None
  <2>2. \A i \in Qps : qp'[i] = qp[i] \/ qp'[i] = [qp[i] EXCEPT !.avail = Past(@ - 1)]
    BY <1>6 DEF Tick
  <2>3. ASSUME NEW i \in Qps
        PROVE  /\ qp'[i] \in QueuePair
               /\ qp'[i].left = qp[i].left /\ qp'[i].flying = qp[i].flying
               /\ cc = "HPCC" => qp'[i].avail <= qp'[i].pace
    <3>1. /\ qp[i] \in QueuePair
          /\ cc = "HPCC" => qp[i].avail <= qp[i].pace
      BY <1>1 DEF Paced
    <3>2. CASE qp'[i] = qp[i]
      BY <3>1, <3>2
    <3>3. CASE qp'[i] = [qp[i] EXCEPT !.avail = Past(@ - 1)]
      <4>1. qp[i].avail \in -MaxPace .. MaxPace /\ qp[i].pace \in Paces
        BY <3>1 DEF QueuePair
      <4>2. qp[i].pace \in 1 .. MaxPace
        BY <4>1, MaxPaceType
      <4>3. Past(qp[i].avail - 1) \in -MaxPace .. MaxPace
        BY <1>1, <4>1, PastType
      <4>4. qp[i].avail <= qp[i].pace => Past(qp[i].avail - 1) <= qp[i].pace
        BY <1>1, <4>1, <4>2, PastType
      <4> QED
        BY <3>1, <3>3, <4>3, <4>4 DEF QueuePair
    <3> QED
      BY <2>2, <3>2, <3>3
  <2>4. qp' \in [Qps -> QueuePair]
    BY <1>6, <2>3 DEF Tick
  <2>5. Paced(qp)'
    BY <1>1, <2>3, <2>4 DEF Paced
  <2> QED
    BY <1>1, <2>1, <2>3, <2>5 DEF Leaves
<1>7. ASSUME NEW i \in Qps, NewQp(i)
      PROVE  /\ paused' \in BOOLEAN
             /\ \E q, g, w, ready : Calls(q, g, w, ready)
  <2>1. ~Started(i) /\ ~Contains(grp, i)
    BY <1>7 DEF NewQp, Started
  <2>2. Group(Append(grp, i))
    BY <1>1, <2>1, AppendGroup
  <2>3. Calls(qp, Append(grp, i), wake, Ready)
    BY <1>1, <1>7, <2>1, <2>2 DEF NewQp, Calls
  <2> QED
    BY <1>1, <1>7, <2>3 DEF NewQp
<1>8. ASSUME NEW i \in Qps, ReceiveAck(i)
      PROVE  /\ paused' \in BOOLEAN
             /\ \E q, g, w, ready : Calls(q, g, w, ready)
  <2>1. qp[i] \in QueuePair /\ paused' = paused
    BY <1>1, <1>8 DEF Paced, ReceiveAck
  <2>2. PICK n \in 1 .. Left(i) :
          LET acked == [qp EXCEPT ![i].flying = @ - n]
          IN  \/ DequeueAndTransmit(acked, grp, wake, Ready, paused)
              \/ /\ cc = "HPCC"
                 /\ \E pace \in Paces :
                      DequeueAndTransmit(
                        [acked EXCEPT ![i].avail = MovedAvail(qp[i], pace), ![i].pace = pace],
                        grp, MovedWake(wake, MovedAvail(qp[i], pace)), Ready, paused)
    BY <1>8 DEF ReceiveAck
  <2> DEFINE fewer == qp[i].flying - n
             acked == [qp EXCEPT ![i].flying = @ - n]
             after == [left |-> qp[i].left, flying |-> fewer,
                       avail |-> qp[i].avail, pace |-> qp[i].pace]
  <2>3. /\ fewer \in Nat /\ fewer <= qp[i].flying
        /\ qp[i].left \in Nat /\ qp[i].avail \in -MaxPace .. MaxPace /\ qp[i].pace \in Paces
    BY <2>1 DEF QueuePair, Left
  <2>4. acked = [qp EXCEPT ![i] = after]
    <3>1. acked = [qp EXCEPT ![i] = [qp[i] EXCEPT !.flying = fewer]]
      OBVIOUS
    <3> HIDE DEF fewer, acked
    <3> QED
      BY <2>1, <3>1, AckedRecord
  <2>5. CASE DequeueAndTransmit(acked, grp, wake, Ready, paused)
    <3>1. Paced(acked) /\ \A j \in Qps : acked[j].left = qp[j].left
      <4>1. /\ after \in QueuePair /\ after.left = qp[i].left
            /\ Window # 0 => after.flying <= Window
            /\ cc = "HPCC" => after.avail <= after.pace
        <5>1. /\ Window # 0 => qp[i].flying <= Window
              /\ cc = "HPCC" => qp[i].avail <= qp[i].pace
          BY <1>1 DEF Paced
        <5>2. qp[i].flying \in Nat
          BY <2>1 DEF QueuePair
        <5> HIDE DEF fewer
        <5> QED
          BY <2>3, <5>1, <5>2, PacesAssumption DEF QueuePair
      <4> HIDE DEF acked, after
      <4>2. /\ Paced([qp EXCEPT ![i] = after])
            /\ \A j \in Qps : [qp EXCEPT ![i] = after][j].left = qp[j].left
        BY <1>1, <4>1, PacedUpdate
      <4> QED
        BY <2>4, <4>2
    <3> HIDE DEF acked
    <3>2. Calls(acked, grp, wake, Ready)
      BY <1>1, <2>1, <2>5, <3>1 DEF Calls
    <3> QED
      BY <1>1, <2>1, <3>2
  <2>6. ASSUME cc = "HPCC", NEW pace \in Paces,
               DequeueAndTransmit(
                 [acked EXCEPT ![i].avail = MovedAvail(qp[i], pace), ![i].pace = pace],
                 grp, MovedWake(wake, MovedAvail(qp[i], pace)), Ready, paused)
        PROVE  \E q, g, w, ready : Calls(q, g, w, ready)
    <3> DEFINE avail == MovedAvail(qp[i], pace)
               moved == [acked EXCEPT ![i].avail = avail, ![i].pace = pace]
               timer == MovedWake(wake, avail)
    <3>1. pace \in 1 .. MaxPace /\ qp[i].pace \in 1 .. MaxPace
      BY <2>1, MaxPaceType DEF QueuePair
    <3>2. avail \in -MaxPace .. MaxPace /\ avail <= pace
      <4>1. qp[i].avail \in -MaxPace .. MaxPace /\ qp[i].avail <= qp[i].pace
        BY <1>1, <2>1, <2>6 DEF Paced, QueuePair
      <4>2. qp[i].avail + pace - qp[i].pace \in Int /\ qp[i].avail + pace - qp[i].pace <= pace
        BY <1>1, <3>1, <4>1
      <4>3. pace \in Nat /\ pace <= MaxPace
        BY <1>1, <3>1
      <4> QED
        BY <4>2, <4>3, PastType DEF MovedAvail
    <3> DEFINE changed == [left |-> qp[i].left, flying |-> fewer, avail |-> avail, pace |-> pace]
    <3>3. moved = [qp EXCEPT ![i] = changed]
      <4> DEFINE u == [qp[i] EXCEPT !.flying = fewer]
                 v == [u EXCEPT !.avail = avail]
      <4>1. moved = [qp EXCEPT ![i] = [v EXCEPT !.pace = pace]]
        <5> HIDE DEF avail
        <5> QED
          BY <1>1 DEF Paced
      <4> HIDE DEF fewer, avail, moved
      <4>2. u = [left |-> qp[i].left, flying |-> fewer, avail |-> qp[i].avail, pace |-> qp[i].pace]
        BY <2>1, AckedRecord
      <4> HIDE DEF u
      <4>3. v = [left |-> qp[i].left, flying |-> fewer, avail |-> avail, pace |-> qp[i].pace]
        BY <4>2
      <4> HIDE DEF v
      <4>4. [v EXCEPT !.pace = pace] = changed
        BY <4>3
      <4> HIDE DEF changed
      <4> QED
        BY <4>1, <4>4, Zenon
    <3>4. timer \in Timer
      <4>1. IF avail < 0 THEN Max({0, avail}) = 0 ELSE Max({0, avail}) = avail
        <5> HIDE DEF avail
        <5>1. IsFiniteSet({0, avail}) /\ {0, avail} # {} /\ {0, avail} \subseteq Int
          <6>1. IsFiniteSet({avail})
            BY FS_Singleton
          <6>2. {0, avail} = {avail} \cup {0}
            OBVIOUS
          <6> QED
            BY <3>2, <6>1, <6>2, FS_AddElement
        <5>2. Max({0, avail}) \in {0, avail} /\ \A y \in {0, avail} : y <= Max({0, avail})
          BY <5>1, MaxGreatest
        <5> QED
          BY <3>2, <5>2
      <4> HIDE DEF avail
      <4> QED
        BY <1>1, <3>2, <4>1 DEF MovedWake, Timer
    <3> HIDE DEF avail, timer
    <3>5. Paced(moved) /\ \A j \in Qps : moved[j].left = qp[j].left
      <4>1. /\ changed \in QueuePair /\ changed.left = qp[i].left
            /\ Window # 0 => changed.flying <= Window
            /\ cc = "HPCC" => changed.avail <= changed.pace
        <5>1. Window # 0 => qp[i].flying <= Window
          BY <1>1 DEF Paced
        <5>2. qp[i].flying \in Nat
          BY <2>1 DEF QueuePair
        <5> HIDE DEF fewer
        <5> QED
          BY <2>3, <3>2, <5>1, <5>2, PacesAssumption DEF QueuePair
      <4> HIDE DEF moved, changed
      <4>2. /\ Paced([qp EXCEPT ![i] = changed])
            /\ \A j \in Qps : [qp EXCEPT ![i] = changed][j].left = qp[j].left
        BY <1>1, <4>1, PacedUpdate
      <4> QED
        BY <3>3, <4>2
    <3>6. DequeueAndTransmit(moved, grp, timer, Ready, paused')
      BY <2>1, <2>6 DEF avail, timer
    <3> HIDE DEF moved
    <3>7. Calls(moved, grp, timer, Ready)
      BY <1>1, <3>4, <3>5, <3>6 DEF Calls
    <3> QED
      BY <3>7
  <2> QED
    BY ZenonT(60), <1>1, <2>1, <2>2, <2>5, <2>6
<1>9. ASSUME NEW i \in Qps, RateTimer(i)
      PROVE  paused' \in BOOLEAN /\ Leaves
  <2>1. PICK pace \in Paces : qp' = [qp EXCEPT ![i].pace = pace]
    BY <1>9 DEF RateTimer
  <2>2. cc # "HPCC" /\ UNCHANGED <<grp, rrlast, cur, tx, wake, paused>>
    BY <1>9 DEF RateTimer
  <2>3. Paced(qp)' /\ \A j \in Qps : qp'[j].left = qp[j].left /\ qp'[j].flying = qp[j].flying
    BY <1>1, <2>1, <2>2 DEF Paced, QueuePair
  <2> QED
    BY <1>1, <2>2, <2>3 DEF Leaves
<1> QED
  BY <1>1, <1>2, <1>3, <1>4, <1>5, <1>6, <1>7, <1>8, <1>9 DEF Event

\* The types hold initially.
LEMMA InitType == Init => TypeInv /\ NotForgotten
<1> SUFFICES ASSUME Init PROVE TypeInv /\ NotForgotten
  OBVIOUS
<1>1. 1 \in Paces /\ MaxPace \in Nat \ {0} /\ Window \in Nat /\ Packets \in [Qps -> Nat \ {0}]
  BY MaxPaceType, PacesAssumption, QpsAssumption
<1>2. \A i \in Qps : qp[i] = [left |-> Packets[i], flying |-> 0, avail |-> 0, pace |-> 1]
  BY DEF Init
<1>3. \A i \in Qps : qp[i] \in QueuePair
  <2> SUFFICES ASSUME NEW i \in Qps PROVE qp[i] \in QueuePair
    OBVIOUS
  <2>1. 0 \in -MaxPace .. MaxPace /\ Packets[i] \in Nat
    BY <1>1
  <2>2. [left |-> Packets[i], flying |-> 0, avail |-> 0, pace |-> 1] \in QueuePair
    BY <1>1, <2>1 DEF QueuePair
  <2> QED
    BY <1>2, <2>2
<1>4. Paced(qp)
  BY <1>1, <1>2, <1>3 DEF Init, Paced
<1>5. grp \in Seq(Qps) /\ Len(grp) = 0
  BY EmptySeq DEF Init
<1>6. Group(grp) /\ \A i \in Qps : ~Contains(grp, i)
  BY <1>5 DEF Group, Contains
<1>7. TypeOK
  BY <1>1, <1>4, <1>6 DEF Init, TypeOK, Paced, QueuePair, Group
<1> QED
  BY <1>4, <1>6, <1>7 DEF TypeInv, NotForgotten

\* Every step keeps the types.
LEMMA NextType == TypeInv /\ [Next]_vars => TypeInv'
<1> SUFFICES ASSUME TypeInv, [Next]_vars PROVE TypeInv'
  OBVIOUS
<1>1. CASE UNCHANGED vars
  BY <1>1 DEF vars, TypeInv, TypeOK, Paced, Group
<1>2. CASE Next
  <2>1. Event /\ Overtaken /\ UNCHANGED cc
    BY <1>2 DEF Next, Running
  <2>2. /\ paused' \in BOOLEAN /\ crashed' \in BOOLEAN
        /\ Leaves \/ \E q, g, w, ready : Calls(q, g, w, ready)
    BY <2>1, EventCases
  <2>3. /\ Paced(qp)' /\ Group(grp)' /\ rrlast' \in Nat
        /\ cur' \in Qps \cup {NoQp} /\ tx' \in {0, 1} /\ wake' \in Timer
    <3>1. CASE Leaves
      <4>1. Group(grp) /\ rrlast \in Nat /\ cur \in Qps \cup {NoQp}
        BY DEF TypeInv, TypeOK
      <4> QED
        BY <3>1, <4>1 DEF Leaves, Group
    <3>2. ASSUME NEW q, NEW g, NEW w, NEW ready, Calls(q, g, w, ready)
          PROVE  /\ Paced(qp)' /\ Group(grp)' /\ rrlast' \in Nat
                 /\ cur' \in Qps \cup {NoQp} /\ tx' \in {0, 1} /\ wake' \in Timer
      <4>1. /\ Paced(q) /\ Group(g) /\ w \in Timer
            /\ DequeueAndTransmit(q, g, w, ready, paused')
        BY <3>2 DEF Calls
      <4> QED
        BY <2>1, <4>1, DequeueType
    <3> QED
      BY <2>2, <3>1, <3>2
  <2>4. over' \in [Qps -> Nat]
    <3>1. IsFiniteSet({j \in Qps : Sends(j)})
      BY QpsAssumption, FS_Subset
    <3>2. Cardinality({j \in Qps : Sends(j)}) \in Nat
      BY <3>1, FS_CardinalityType
    <3>3. over \in [Qps -> Nat]
      BY DEF TypeInv, TypeOK
    <3> QED
      BY <2>1, <3>2, <3>3 DEF Overtaken
  <2>5. cc' \in {"HPCC", "Other"}
    BY <2>1 DEF TypeInv, TypeOK
  <2>6. TypeOK'
    BY <2>2, <2>3, <2>4, <2>5 DEF TypeOK, Paced, QueuePair, Group, Timer
  <2> QED
    BY <2>3, <2>6 DEF TypeInv
<1> QED
  BY <1>1, <1>2

\* A step never leaves the device asleep over a queue pair.
LEMMA NextForgetsNone == TypeInv /\ NotForgotten /\ [Next]_vars => NotForgotten'
<1> SUFFICES ASSUME TypeInv, NotForgotten, [Next]_vars PROVE NotForgotten'
  OBVIOUS
<1>1. CASE UNCHANGED vars
  BY <1>1 DEF vars, NotForgotten, Ready
<1>2. CASE Next
  <2>1. Leaves \/ \E q, g, w, ready : Calls(q, g, w, ready)
    BY <1>2, EventCases DEF Next, Running
  <2>2. CASE Leaves
    <3>1. ASSUME NEW i \in Qps, ~crashed', Contains(grp, i), Ready, MaySend(qp'[i], paused')
          PROVE  wake' # None \/ \E j \in Qps : qp'[j].flying > 0
      <4>1. MaySend(qp[i], paused)
        BY <2>2, <3>1 DEF Leaves, MaySend, IsWinBound
      <4>2. wake # None \/ \E j \in Qps : qp[j].flying > 0
        BY <1>2, <3>1, <4>1 DEF NotForgotten, Next, Running
      <4> QED
        BY <2>2, <4>2 DEF Leaves
    <3>2. grp' = grp /\ cur' = cur
      BY <2>2 DEF Leaves
    <3> QED
      BY <3>1, <3>2 DEF NotForgotten, Ready
  <2>3. ASSUME NEW q, NEW g, NEW w, NEW ready, Calls(q, g, w, ready)
        PROVE  NotForgotten'
    BY <2>3, DequeueForgetsNone DEF Calls
  <2> QED
    BY <2>1, <2>2, <2>3
<1> QED
  BY <1>1, <1>2

\* No queue pair has more on the fly than its window, no m_nextAvail and no
\* timer is further ahead than a packet at the slowest rate, and every index
\* and the group are as the code expects them (QbbNetDevice, RdmaEgressQueue).
THEOREM TypeCorrect == Spec => []TypeOK
<1>1. Init => TypeInv
  BY InitType
<1>2. TypeInv => TypeOK
  BY DEF TypeInv
<1> QED
  BY <1>1, <1>2, NextType, PTL DEF Spec

\* The device never sleeps over a queue pair that may send: m_nextSend runs, or
\* an acknowledgement is to come (QbbNetDevice::DequeueAndTransmit).
THEOREM NotForgottenCorrect == Spec => []NotForgotten
<1>1. Init => TypeInv /\ NotForgotten
  BY InitType
<1>2. TypeInv /\ NotForgotten /\ [Next]_vars => (TypeInv /\ NotForgotten)'
  BY NextType, NextForgetsNone
<1> QED
  BY <1>1, <1>2, PTL DEF Spec

-------------------------------------------------------------------------------
\* The round robin is fair.

\* The queue pairs that may still be sent from before i.
Waiting(i) == Ahead(grp, rrlast, i) \cup {j \in Qps : ~Started(j)}

\* Each of those that were sent from while i was due had its turn, and the
\* positions count from one of the group.
InTurn ==
  \A i \in Qps : over[i] > 0 =>
    /\ Contains(grp, i) /\ rrlast < Len(grp)
    /\ over[i] + Cardinality(Waiting(i)) <= Cardinality(Qps) - 1

\* A queue pair that joins the group may come before another, but the others
\* keep their turns.
LEMMA AheadAppend ==
  ASSUME NEW g, Group(g), NEW k \in Qps, ~Contains(g, k), NEW r \in Nat, r < Len(g),
         NEW i \in Qps, Contains(g, i)
  PROVE  Ahead(Append(g, k), r, i) \subseteq Ahead(g, r, i) \cup {k}
<1> DEFINE n == Len(g)
           G == Append(g, k)
<1>1. g \in Seq(Qps) /\ n \in Nat
  BY LenProperties DEF Group
<1>2. /\ G \in Seq(Qps) /\ Len(G) = n + 1 /\ G[n + 1] = k
      /\ \A a \in 1 .. n : G[a] = g[a]
  BY <1>1, AppendProperties
<1>3. i # k
  BY DEF Contains
<1> HIDE DEF G
<1> SUFFICES ASSUME NEW j \in Ahead(G, r, i), j # k
             PROVE  j \in Ahead(g, r, i)
  BY DEF G
<1>4. PICK a \in 1 .. n + 1, b \in 1 .. n + 1 :
        G[a] = j /\ G[b] = i /\ Turn(n + 1, r, a) < Turn(n + 1, r, b)
  BY <1>2 DEF Ahead
<1>5. a \in 1 .. n /\ b \in 1 .. n
  <2>1. a # n + 1 /\ b # n + 1
    BY <1>2, <1>3, <1>4
  <2> QED
    BY <1>1, <1>4, <2>1
<1>6. g[a] = j /\ g[b] = i
  BY <1>2, <1>4, <1>5
<1>7. Turn(n, r, a) < Turn(n, r, b)
  BY <1>1, <1>4, <1>5 DEF Turn
<1> QED
  BY <1>5, <1>6, <1>7 DEF Ahead

\* After next was sent from, and finished queue pairs were removed, only those
\* come before i whose turn was between those of next and i.
LEMMA AheadPicks ==
  ASSUME NEW g, Group(g), NEW c, Group(c), NEW f, Picks(f, g, c),
         NEW r \in Nat, r < Len(g), NEW x \in 1 .. Len(c),
         NEW i \in Qps, c[x] # i, c[x] \in Ahead(g, r, i)
  PROVE  Ahead(c, x - 1, i) \subseteq Ahead(g, r, i) \ {c[x]}
<1> DEFINE n == Len(g)
           m == Len(c)
<1>1. n \in Nat /\ m \in Nat
  BY LenProperties DEF Group
<1>2. \A a \in 1 .. m : f[a] \in 1 .. n /\ c[a] = g[f[a]]
  BY DEF Picks
<1>3. \A a, b \in 1 .. m : a < b => f[a] < f[b]
  BY DEF Picks
<1> SUFFICES ASSUME NEW j \in Ahead(c, x - 1, i)
             PROVE  j \in Ahead(g, r, i) /\ j # c[x]
  OBVIOUS
<1>4. PICK a \in 1 .. m, b \in 1 .. m :
        c[a] = j /\ c[b] = i /\ Turn(m, x - 1, a) < Turn(m, x - 1, b)
  BY DEF Ahead
<1>5. b # x /\ a # x
  <2>1. b # x
    BY <1>4
  <2>2. a = x => Turn(m, x - 1, a) = m
    BY <1>1 DEF Turn
  <2>3. Turn(m, x - 1, b) <= m /\ Turn(m, x - 1, b) \in Int
    BY <1>1, <2>1 DEF Turn
  <2>4. a # x
    <3> SUFFICES ASSUME a = x PROVE FALSE
      OBVIOUS
    <3>1. m < Turn(m, x - 1, b)
      BY <1>4, <2>2
    <3> HIDE DEF m
    <3> QED
      BY <1>1, <2>3, <3>1
  <2> QED
    BY <2>1, <2>4
<1>6. PICK s \in 1 .. n, t \in 1 .. n :
        g[s] = c[x] /\ g[t] = i /\ Turn(n, r, s) < Turn(n, r, t)
  BY DEF Ahead
<1>7. s = f[x] /\ t = f[b]
  <2>1. f[x] \in 1 .. n /\ f[b] \in 1 .. n /\ g[f[x]] = g[s] /\ g[f[b]] = g[t]
    BY <1>2, <1>4, <1>6
  <2> QED
    BY <2>1 DEF Group
<1> DEFINE fa == f[a]
           fb == f[b]
           fx == f[x]
<1>8. fa \in 1 .. n /\ fb \in 1 .. n /\ fx \in 1 .. n
  BY <1>2
<1>9. /\ a < b => fa < fb
      /\ b < a => fb < fa
      /\ a < x => fa < fx
      /\ x < a => fx < fa
      /\ b < x => fb < fx
      /\ x < b => fx < fb
  BY <1>3
<1>10. \/ x < a /\ a < b
       \/ b < x /\ x < a
       \/ a < b /\ b < x
  BY <1>1, <1>4, <1>5 DEF Turn
<1>11. Turn(n, r, fx) < Turn(n, r, fb)
  BY <1>6, <1>7
<1> HIDE DEF fa, fb, fx
<1>12. Turn(n, r, fa) < Turn(n, r, fb)
  BY SMTT(40), <1>1, <1>8, <1>9, <1>10, <1>11 DEF Turn
<1>13. g[fa] = j /\ g[fb] = i /\ j \in Qps
  BY <1>2, <1>4 DEF Ahead, fa, fb
<1>14. j # c[x]
  BY <1>4, <1>5 DEF Group
<1> QED
  BY <1>8, <1>12, <1>13, <1>14 DEF Ahead

\* A smaller set of queue pairs has no more of them, and one without two of
\* them has two fewer.
LEMMA QpsSubset ==
  /\ Cardinality(Qps) \in Nat
  /\ \A S \in SUBSET Qps : Cardinality(S) \in Nat /\ Cardinality(S) <= Cardinality(Qps)
  /\ \A S \in SUBSET Qps : \A T \in SUBSET S : Cardinality(T) <= Cardinality(S)
  /\ \A S \in SUBSET Qps : \A j \in S : \A T \in SUBSET (S \ {j}) :
       Cardinality(T) <= Cardinality(S) - 1
<1>1. IsFiniteSet(Qps)
  BY QpsAssumption
<1>2. \A S \in SUBSET Qps :
        IsFiniteSet(S) /\ Cardinality(S) \in Nat /\ Cardinality(S) <= Cardinality(Qps)
  BY <1>1, FS_Subset, FS_CardinalityType
<1>3. \A S \in SUBSET Qps : \A T \in SUBSET S : Cardinality(T) <= Cardinality(S)
  BY <1>2, FS_Subset
<1>4. ASSUME NEW S \in SUBSET Qps, NEW j \in S, NEW T \in SUBSET (S \ {j})
      PROVE  Cardinality(T) <= Cardinality(S) - 1
  <2>1. IsFiniteSet(S) /\ Cardinality(S) \in Nat
    BY <1>2
  <2>2. IsFiniteSet(S \ {j}) /\ Cardinality(S \ {j}) = Cardinality(S) - 1
    BY <2>1, FS_RemoveElement
  <2> QED
    BY <2>2, FS_Subset
<1> QED
  BY <1>1, <1>2, <1>3, <1>4, FS_CardinalityType

\* What an event may do to the turns when nobody is sent from.
LEMMA TurnsKept ==
  ASSUME TypeInv, InTurn, Overtaken, \A j \in Qps : qp'[j].left = qp[j].left,
         UNCHANGED rrlast,
         grp' = grp \/ \E k \in Qps : ~Started(k) /\ grp' = Append(grp, k)
  PROVE  InTurn'
<1> SUFFICES ASSUME NEW i \in Qps, over'[i] > 0
             PROVE  /\ Contains(grp', i) /\ rrlast' < Len(grp')
                    /\ over'[i] + Cardinality(Waiting(i)') <= Cardinality(Qps) - 1
  BY DEF InTurn
<1>1. over \in [Qps -> Nat] /\ Group(grp) /\ rrlast \in Nat
  BY DEF TypeInv, TypeOK
<1>2. {j \in Qps : Sends(j)} = {}
  <2>1. \A j \in Qps : qp[j].left \in Nat
    BY DEF TypeInv, TypeOK
  <2> QED
    BY <2>1 DEF Sends
<1>3. over'[i] = over[i]
  <2>1. Cardinality({j \in Qps : Sends(j)}) = 0
    BY <1>2, FS_EmptySet
  <2>2. over'[i] = over[i] + Cardinality({j \in Qps : Sends(j)}) \/ over'[i] = 0
    BY DEF Overtaken
  <2> QED
    BY <1>1, <2>1, <2>2
<1>4. /\ Contains(grp, i) /\ rrlast < Len(grp)
      /\ over[i] + Cardinality(Waiting(i)) <= Cardinality(Qps) - 1
  BY <1>3 DEF InTurn
<1>5. /\ Contains(grp', i) /\ rrlast' < Len(grp')
      /\ Waiting(i)' \subseteq Waiting(i)
  <2>1. CASE grp' = grp
    <3>1. Ahead(grp', rrlast', i) = Ahead(grp, rrlast, i)
      BY <2>1
    <3>2. \A j \in Qps : Started(j) <=> Started(j)'
      BY <2>1 DEF Started
    <3> QED
      BY <1>4, <2>1, <3>1, <3>2 DEF Waiting
  <2>2. ASSUME NEW k \in Qps, ~Started(k), grp' = Append(grp, k)
        PROVE  /\ Contains(grp', i) /\ rrlast' < Len(grp')
               /\ Waiting(i)' \subseteq Waiting(i)
    <3>1. ~Contains(grp, k)
      BY <2>2 DEF Started
    <3>2. \A j \in Qps : Contains(grp', j) <=> Contains(grp, j) \/ j = k
      BY <1>1, <2>2, <3>1, AppendGroup
    <3>3. Len(grp) \in Nat /\ Len(grp') = Len(grp) + 1
      BY <1>1, <2>2, AppendProperties, LenProperties DEF Group
    <3>4. Ahead(grp', rrlast, i) \subseteq Ahead(grp, rrlast, i) \cup {k}
      BY <1>1, <1>4, <2>2, <3>1, AheadAppend
    <3>5. \A j \in Qps : Started(j) => Started(j)'
      BY <3>2 DEF Started
    <3> QED
      BY <1>1, <1>4, <2>2, <3>2, <3>3, <3>4, <3>5 DEF Waiting
  <2> QED
    BY <2>1, <2>2
<1>6. Cardinality(Waiting(i)') <= Cardinality(Waiting(i))
      /\ Cardinality(Waiting(i)') \in Nat /\ Cardinality(Waiting(i)) \in Nat
  <2>1. Waiting(i) \in SUBSET Qps
    BY DEF Waiting, Ahead
  <2>2. Waiting(i)' \in SUBSET Qps /\ Waiting(i)' \in SUBSET Waiting(i)
    BY <1>5, <2>1
  <2> QED
    BY <2>1, <2>2, QpsSubset
<1> QED
  BY <1>1, <1>3, <1>4, <1>5, <1>6, QpsSubset

\* When a queue pair is sent from, it has had its turn: it comes last for those
\* that are due, and came before them.
LEMMA TurnsTaken ==
  ASSUME TypeInv, InTurn, Overtaken,
         NEW q, NEW g, NEW w, NEW ready, Calls(q, g, w, ready),
         NEW next \in Qps, Serves(q, g, w, ready, paused', next)
  PROVE  InTurn'
<1> SUFFICES ASSUME NEW i \in Qps, over'[i] > 0
             PROVE  /\ Contains(grp', i) /\ rrlast' < Len(grp')
                    /\ over'[i] + Cardinality(Waiting(i)') <= Cardinality(Qps) - 1
  BY DEF InTurn
<1>1. over \in [Qps -> Nat] /\ Group(grp) /\ rrlast \in Nat /\ Paced(q) /\ Group(g) /\ Paced(qp)
  BY DEF TypeInv, TypeOK, Calls
<1>2. \A j \in Qps : /\ q[j].left \in Nat
                     /\ qp[j].left = q[j].left
                     /\ qp'[j].left = IF j = next THEN q[j].left - 1 ELSE q[j].left
                     /\ j # next => qp'[j] = q[j]
  <2>1. \A j \in Qps : qp[j].left = q[j].left
    BY DEF Calls
  <2>2. q \in [Qps -> QueuePair] /\ q[next].left \in Nat /\ q[next].left > 0
    BY <1>1 DEF Serves, DueIn, MaySend, Paced, QueuePair
  <2>3. qp' = [q EXCEPT ![next] = [left |-> q[next].left - 1, flying |-> q[next].flying + 1,
                                   avail |-> q[next].pace, pace |-> q[next].pace]]
    <3>1. q[next] \in QueuePair
      BY <2>2
    <3>2. qp' = [q EXCEPT ![next].left = @ - 1, ![next].flying = @ + 1,
                          ![next].avail = q[next].pace]
      BY Zenon DEF Serves
    <3> QED
      BY <2>2, <3>1, <3>2, Sent
  <2>4. \A j \in Qps : qp'[j] = IF j = next
                                THEN [left |-> q[next].left - 1, flying |-> q[next].flying + 1,
                                      avail |-> q[next].pace, pace |-> q[next].pace]
                                ELSE q[j]
    BY <2>2, <2>3
  <2>5. \A j \in Qps : q[j].left \in Nat
    BY <2>2 DEF QueuePair
  <2> QED
    BY <2>1, <2>4, <2>5
<1>3. q[next].left > 0
  BY DEF Serves, DueIn, MaySend
<1>4. Cardinality({j \in Qps : Sends(j)}) = 1
  <2>1. {j \in Qps : Sends(j)} = {next}
    BY <1>2, <1>3 DEF Sends
  <2> QED
    BY <2>1, FS_Singleton
<1>5. /\ over'[i] = over[i] + 1
      /\ Due(i)' /\ ~Sends(i)
  BY <1>1, <1>4 DEF Overtaken
<1>6. i # next /\ Contains(grp', i) /\ DueIn(q, i, paused')
  <2>1. i # next
    BY <1>2, <1>3, <1>5 DEF Sends
  <2> QED
    BY <1>2, <1>5, <2>1 DEF Due, DueIn
<1>7. PICK f : Picks(f, g, grp')
  BY DEF Serves
<1>8. /\ Group(grp') /\ grp' \in Seq(Qps) /\ Len(grp') \in Nat
      /\ rrlast' \in 0 .. Len(grp') - 1 /\ grp'[rrlast' + 1] = next
  BY LenProperties DEF Serves, Group
<1>9. Contains(g, i)
  BY <1>1, <1>6, <1>7, <1>8, PicksGroup
<1> DEFINE x == rrlast' + 1
<1>10. x \in 1 .. Len(grp') /\ grp'[x] = next /\ rrlast' = x - 1
  <2>1. \A n \in Nat : \A r \in 0 .. n - 1 : r + 1 \in 1 .. n /\ r = (r + 1) - 1
    OBVIOUS
  <2>2. x \in 1 .. Len(grp') /\ rrlast' = x - 1
    BY <1>8, <2>1
  <2> QED
    BY <1>8, <2>2
<1>11. Contains(grp', next)
  BY <1>10 DEF Contains
<1>12. i \notin Waiting(i)' /\ next \notin Waiting(i)' /\ Waiting(i)' \in SUBSET Qps
  <2>1. Started(i)' /\ Started(next)'
    BY <1>6, <1>11 DEF Started
  <2>2. ASSUME NEW a \in 1 .. Len(grp'), NEW b \in 1 .. Len(grp'), grp'[b] = i,
               Turn(Len(grp'), rrlast', a) < Turn(Len(grp'), rrlast', b)
        PROVE  grp'[a] # i /\ grp'[a] # next
    <3> DEFINE m == Len(grp')
               r == rrlast'
    <3>1. m \in Nat /\ r \in 0 .. m - 1 /\ r + 1 \in 1 .. m
      BY <1>8, <1>10
    <3>2. Turn(m, r, a) < Turn(m, r, b) /\ a \in 1 .. m /\ b \in 1 .. m
      BY <2>2
    <3>3. grp'[r + 1] = next /\ Group(grp')
      BY <1>8
    <3>4. \A c, d \in 1 .. m : c # d => grp'[c] # grp'[d]
      BY <3>3 DEF Group
    <3> HIDE DEF m, r
    <3>5. a # b
      BY <3>1, <3>2 DEF Turn
    <3>6. a # r + 1
      BY <3>1, <3>2 DEF Turn
    <3>7. grp'[a] # grp'[b] /\ grp'[a] # grp'[r + 1]
      BY <3>1, <3>2, <3>4, <3>5, <3>6
    <3> QED
      BY <2>2, <3>3, <3>7
  <2>3. i \notin Ahead(grp', rrlast', i) /\ next \notin Ahead(grp', rrlast', i)
    BY <2>2 DEF Ahead
  <2>4. Ahead(grp', rrlast', i) \subseteq Qps
    BY DEF Ahead
  <2> QED
    BY <2>1, <2>3, <2>4 DEF Waiting
<1>13. CASE over[i] = 0
  <2>1. Waiting(i)' \in SUBSET ((Qps \ {i}) \ {next}) /\ Qps \ {i} \in SUBSET Qps
        /\ next \in Qps \ {i}
    BY <1>6, <1>12
  <2>2. Cardinality(Waiting(i)') <= Cardinality(Qps \ {i}) - 1
    BY <2>1, QpsSubset
  <2>3. Cardinality(Qps \ {i}) <= Cardinality(Qps) - 1
    BY <2>1, QpsSubset
  <2>4. Cardinality(Waiting(i)') \in Nat /\ Cardinality(Qps \ {i}) \in Nat
        /\ Cardinality(Qps) \in Nat
    BY <1>12, <2>1, QpsSubset
  <2>5. 1 + Cardinality(Waiting(i)') <= Cardinality(Qps) - 1
    BY <2>2, <2>3, <2>4
  <2> QED
    BY <1>5, <1>6, <1>8, <1>13, <2>5
<1>14. CASE over[i] > 0
  <2>1. /\ Contains(grp, i) /\ rrlast < Len(grp)
        /\ over[i] + Cardinality(Waiting(i)) <= Cardinality(Qps) - 1
    BY <1>14 DEF InTurn
  <2>2. /\ rrlast < Len(g)
        /\ Ahead(g, rrlast, i) \subseteq Waiting(i)
        /\ \A j \in Qps : Started(j) => Contains(g, j) \/ qp[j].left < Packets[j]
    <3>1. CASE g = grp
      BY <2>1, <3>1 DEF Waiting, Started
    <3>2. ASSUME NEW k \in Qps, ~Started(k), g = Append(grp, k)
          PROVE  /\ rrlast < Len(g)
                 /\ Ahead(g, rrlast, i) \subseteq Waiting(i)
                 /\ \A j \in Qps : Started(j) => Contains(g, j) \/ qp[j].left < Packets[j]
      <4>1. ~Contains(grp, k)
        BY <3>2 DEF Started
      <4>2. Len(grp) \in Nat /\ Len(g) = Len(grp) + 1
        BY <1>1, <3>2, AppendProperties, LenProperties DEF Group
      <4>3. Ahead(g, rrlast, i) \subseteq Ahead(grp, rrlast, i) \cup {k}
        BY <1>1, <2>1, <3>2, <4>1, AheadAppend
      <4>4. \A j \in Qps : Contains(grp, j) => Contains(g, j)
        BY <1>1, <3>2, <4>1, AppendGroup
      <4> QED
        BY <1>1, <2>1, <3>2, <4>2, <4>3, <4>4 DEF Waiting, Started
    <3> QED
      BY <3>1, <3>2 DEF Calls
  <2>3. next \in Ahead(g, rrlast, i)
    BY <1>6, <1>9, <2>2 DEF Serves
  <2>4. Ahead(grp', rrlast', i) \subseteq Ahead(g, rrlast, i)
    <3> HIDE DEF x
    <3>1. Ahead(grp', x - 1, i) \subseteq Ahead(g, rrlast, i) \ {grp'[x]}
      BY <1>1, <1>6, <1>7, <1>8, <1>10, <2>2, <2>3, AheadPicks
    <3> QED
      BY <1>10, <3>1
  <2>5. ASSUME NEW j \in Qps, Started(j)
        PROVE  Started(j)'
    <3>1. CASE qp[j].left < Packets[j]
      <4>1. qp'[j].left < Packets[j]
        BY <1>2, <3>1, QpsAssumption
      <4> QED
        BY <4>1 DEF Started
    <3>2. CASE Contains(g, j) /\ ~Contains(grp', j)
      <4>1. IsFinished(q[j]) /\ j # next
        BY <1>11, <3>2 DEF Serves
      <4>2. qp'[j].left = 0
        BY <1>2, <4>1 DEF IsFinished
      <4>3. qp'[j].left < Packets[j]
        BY <4>2, QpsAssumption
      <4> QED
        BY <4>3 DEF Started
    <3>3. CASE Contains(grp', j)
      BY <3>3 DEF Started
    <3> QED
      BY <2>2, <2>5, <3>1, <3>2, <3>3
  <2>6. Waiting(i)' \subseteq Waiting(i)
    BY <2>2, <2>4, <2>5 DEF Waiting
  <2>7. next \in Waiting(i) /\ Waiting(i)' \in SUBSET (Waiting(i) \ {next})
        /\ Waiting(i) \in SUBSET Qps
    <3>1. Waiting(i) \in SUBSET Qps
      BY DEF Waiting, Ahead
    <3> QED
      BY <1>12, <2>2, <2>3, <2>6, <3>1
  <2>8. Cardinality(Waiting(i)') <= Cardinality(Waiting(i)) - 1
    BY <2>7, QpsSubset
  <2>9. Cardinality(Waiting(i)') \in Nat /\ Cardinality(Waiting(i)) \in Nat /\ over[i] \in Nat
        /\ Cardinality(Qps) \in Nat
    BY <1>1, <1>12, <2>7, QpsSubset
  <2>10. over[i] + 1 + Cardinality(Waiting(i)') <= Cardinality(Qps) - 1
    BY <2>1, <2>8, <2>9
  <2> QED
    BY <1>5, <1>6, <1>8, <2>10
<1> QED
  BY <1>1, <1>13, <1>14

\* Every step keeps the turns.
LEMMA NextInTurn == TypeInv /\ InTurn /\ [Next]_vars => InTurn'
<1> SUFFICES ASSUME TypeInv, InTurn, [Next]_vars PROVE InTurn'
  OBVIOUS
<1>1. CASE UNCHANGED vars
  BY <1>1 DEF vars, InTurn, Waiting, Started
<1>2. CASE Next
  <2>1. Event /\ Overtaken /\ UNCHANGED cc
    BY <1>2 DEF Next, Running
  <2>2. CASE Leaves
    BY <2>1, <2>2, TurnsKept DEF Leaves
  <2>3. ASSUME NEW q, NEW g, NEW w, NEW ready, Calls(q, g, w, ready)
        PROVE  InTurn'
    <3>1. Paced(q) /\ Group(g) /\ rrlast \in Nat
      BY <2>3 DEF Calls, TypeInv, TypeOK
    <3>2. CASE Busy(q, g, w, ready)
      <4>1. \A j \in Qps : qp'[j].left = qp[j].left
        BY <2>3, <3>2 DEF Calls, Busy
      <4>2. /\ UNCHANGED rrlast
            /\ grp' = grp \/ \E k \in Qps : ~Started(k) /\ grp' = Append(grp, k)
        BY <2>3, <3>2 DEF Calls, Busy
      <4> QED
        BY <2>1, <4>1, <4>2, TurnsKept
    <3>3. CASE Idles(q, g, w, ready, paused')
      <4>1. \A i \in Qps : ~Due(i)'
        BY <3>3 DEF Idles, Due, DueIn
      <4>2. \A i \in Qps : over'[i] = 0
        BY <2>1, <4>1 DEF Overtaken
      <4> QED
        BY <4>2 DEF InTurn
    <3>4. ASSUME NEW next \in Qps, Serves(q, g, w, ready, paused', next)
          PROVE  InTurn'
      BY <2>1, <2>3, <3>4, TurnsTaken
    <3>5. DequeueAndTransmit(q, g, w, ready, paused')
      BY <2>3 DEF Calls
    <3> QED
      BY <3>1, <3>2, <3>3, <3>4, <3>5, Dequeued
  <2>4. Leaves \/ \E q, g, w, ready : Calls(q, g, w, ready)
    BY <2>1, EventCases
  <2> QED
    BY <2>2, <2>3, <2>4
<1> QED
  BY <1>1, <1>2

\* While a queue pair could send, the others send no more than one packet each,
\* whatever removing finished ones and adding new ones does to the positions
\* that m_rrlast counts in (RdmaEgressQueue::GetNextQindex).
THEOREM BoundedOvertakingCorrect == Spec => []BoundedOvertaking
<1>1. Init => TypeInv /\ InTurn
  <2>1. Init => InTurn
    BY DEF Init, InTurn
  <2> QED
    BY <2>1, InitType
<1>2. TypeInv /\ InTurn /\ [Next]_vars => (TypeInv /\ InTurn)'
  BY NextType, NextInTurn
<1>3. TypeInv /\ InTurn => BoundedOvertaking
  <2> SUFFICES ASSUME TypeInv, InTurn, NEW i \in Qps
               PROVE  over[i] <= Cardinality(Qps) - 1
    BY DEF BoundedOvertaking
  <2>1. over[i] \in Nat
    BY DEF TypeInv, TypeOK
  <2>2. Waiting(i) \in SUBSET Qps
    BY DEF Waiting, Ahead
  <2>3. Cardinality(Waiting(i)) \in Nat /\ Cardinality(Qps) \in Nat /\ Cardinality(Qps) # 0
    BY <2>2, QpsSubset, QpsAssumption, FS_EmptySet
  <2>4. CASE over[i] > 0
    BY <2>1, <2>3, <2>4 DEF InTurn
  <2>5. CASE over[i] = 0
    BY <2>3, <2>5
  <2> QED
    BY <2>1, <2>4, <2>5
<1> QED
  BY <1>1, <1>2, <1>3, PTL DEF Spec
===============================================================================
