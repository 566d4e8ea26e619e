--------------------------- MODULE PfcSwitchProofs ----------------------------
(***************************************************************************)
(* What holds of a switch for every number of ports and queues, every      *)
(* packet size and every configuration of the buffer.  The invariants      *)
(* build on each other: types and egress counters; the chain of frames;    *)
(* the ingress counters and their limits; the cause of a pause; what is    *)
(* still to come out of a headroom, and so no loss.                        *)
(***************************************************************************)
EXTENDS PfcSwitch, SumTheorems, TLAPS

Entry == [in : Ports, size : Sizes]
Packet == [q : Queues, size : Sizes, out : Ports]
Frame == [q : Queues, pause : BOOLEAN, age : 0 .. PfcLag]
Counters == [shared : 0 .. U32 - 1,
             ingress : [PQ -> 0 .. U32 - 1], hdrm : [PQ -> 0 .. U32 - 1],
             egress : [PQ -> Int], paused : [PQ -> BOOLEAN]]

-------------------------------------------------------------------------------
\* Arithmetic.

\* A counter of the program stays a machine word.
LEMMA WordType ==
  ASSUME NEW a \in Int, NEW b \in Int
  PROVE  Plus(a, b) \in 0 .. U32 - 1 /\ Minus(a, b) \in 0 .. U32 - 1
BY BufferAssumption DEF Plus, Minus

\* Where nothing wraps, Plus and Minus add and subtract; a sum never gains by
\* wrapping.
LEMMA WordExact ==
  ASSUME NEW a \in Nat, NEW b \in Nat
  PROVE  /\ a + b < U32 => Plus(a, b) = a + b
         /\ b <= a /\ a < U32 => Minus(a, b) = a - b
         /\ Plus(a, b) <= a + b
<1>1. \A u \in Nat \ {0} : /\ a + b < u => (a + b) % u = a + b
                           /\ b <= a /\ a < u => (a - b) % u = a - b
                           /\ (a + b) % u <= a + b
  OBVIOUS
<1> QED BY <1>1, BufferAssumption DEF Plus, Minus

\* A right shift is a natural that is not above what is shifted.
LEMMA ShiftType ==
  ASSUME NEW a \in Nat, NEW n \in Nat
  PROVE  a \div 2 ^ n \in 0 .. a
<1>1. Cardinality(SUBSET (1 .. n)) = 2 ^ n /\ IsFiniteSet(SUBSET (1 .. n))
  <2>1. IsFiniteSet(1 .. n) /\ Cardinality(1 .. n) = n
    BY FS_Interval
  <2> QED BY <2>1, FS_SUBSET
<1>2. 2 ^ n # 0 /\ 2 ^ n \in Nat
  BY <1>1, FS_EmptySet, FS_CardinalityType
<1>3. \A m \in Nat \ {0} : a \div m \in 0 .. a
  OBVIOUS
<1> QED BY <1>2, <1>3

\* A set of positions that is not empty has a last one.
LEMMA LastPosition ==
  ASSUME NEW n \in Nat, NEW S \in SUBSET (1 .. n), S # {}
  PROVE  \E k \in S : \A j \in S : j <= k
<1> DEFINE D == 1 .. n
           Bad == {U \in SUBSET D : S \subseteq U /\ \E m \in 0 .. n : U = 1 .. m}
<1>1. Bad # {} /\ Bad \in SUBSET SUBSET D /\ IsFiniteSet(D)
  <2>1. D \in Bad /\ Bad \in SUBSET SUBSET D
    OBVIOUS
  <2>2. IsFiniteSet(D)
    BY FS_Interval
  <2> HIDE DEF Bad, D
  <2> QED BY <2>1, <2>2
<1>2. PICK T \in Bad : \A U \in Bad : U \subseteq T => U = T
  <2> HIDE DEF Bad, D
  <2> QED BY <1>1, LeastException
<1>3. PICK m \in 0 .. n : T = 1 .. m
  BY <1>2
<1>4. m > 0 /\ 1 .. m - 1 \in SUBSET D /\ m - 1 \in 0 .. n
  <2>1. S \subseteq 1 .. m
    BY <1>2, <1>3
  <2>2. PICK k \in S : k \in 1 .. m
    BY <2>1
  <2> QED BY <1>3, <2>2
<1>5. 1 .. m - 1 \subseteq T /\ 1 .. m - 1 # T
  BY <1>3, <1>4
<1>6. ~(S \subseteq 1 .. m - 1)
  BY <1>2, <1>4, <1>5
<1>7. m \in S
  BY <1>2, <1>3, <1>6
<1> QED BY <1>2, <1>3, <1>7

-------------------------------------------------------------------------------
\* The constants.

\* The sets a sum ranges over are finite.
LEMMA FiniteIndices ==
  IsFiniteSet(Ports) /\ IsFiniteSet(PQ)
BY PortsAssumption, FS_Product DEF PQ

\* The headroom and the reserve of the switch are machine words; where the
\* buffer holds them they are exact, and the shared pool is not negative.
LEMMA TotalsType ==
  /\ TotalHdrm \in 0 .. U32 - 1 /\ TotalRsrv \in 0 .. U32 - 1
  /\ SumFunction(Headroom) \in Nat /\ Cardinality(Ports) * Reserve \in Nat
  /\ Reserve <= Cardinality(Ports) * Reserve
  /\ \A p \in Ports : Headroom[p] <= SumFunction(Headroom)
<1>1. /\ DOMAIN Headroom = Ports /\ \A p \in Ports : Headroom[p] \in Nat
  BY BufferAssumption
<1>2. /\ SumFunction(Headroom) \in Nat
      /\ \A p \in Ports : Headroom[p] <= SumFunction(Headroom)
  BY <1>1, FiniteIndices, SumNat DEF SumFunction
<1>3. Cardinality(Ports) \in Nat \ {0}
  BY PortsAssumption, FS_CardinalityType, FS_EmptySet
<1>4. \A c \in Nat \ {0}, r \in Nat : c * r \in Nat /\ r <= c * r
  OBVIOUS
<1>5. Reserve \in Nat
  BY BufferAssumption
<1>6. Cardinality(Ports) * Reserve \in Nat /\ Reserve <= Cardinality(Ports) * Reserve
  BY <1>3, <1>4, <1>5
<1>7. \A n \in Nat : n % U32 \in 0 .. U32 - 1
  BY BufferAssumption
<1> QED BY <1>2, <1>6, <1>7 DEF TotalHdrm, TotalRsrv

\* Where the buffer holds the headroom and the reserves, the shared pool of a port
\* is a natural that fits with one reserve beside the headroom.
LEMMA PoolType ==
  ASSUME BufferFits
  PROVE  /\ TotalHdrm = SumFunction(Headroom) /\ TotalRsrv = Cardinality(Ports) * Reserve
         /\ Pool \in Nat /\ Reserve + Pool <= BufferSize
         /\ BufferSize - TotalHdrm \in 0 .. BufferSize
         /\ \A p \in Ports : Headroom[p] <= BufferSize
<1>1. /\ BufferSize \in Nat /\ BufferSize < U32 /\ U32 \in Nat \ {0} /\ Reserve \in Nat
      /\ Headroom \in [Ports -> Nat]
  BY BufferAssumption
<1> DEFINE H == SumFunction(Headroom)
           R == Cardinality(Ports) * Reserve
<1>2. H \in Nat /\ R \in Nat /\ H + R <= BufferSize /\ Reserve <= R
      /\ \A p \in Ports : Headroom[p] <= H
  BY TotalsType DEF BufferFits
<1>3. TotalHdrm = H % U32 /\ TotalRsrv = R % U32
  BY DEF TotalHdrm, TotalRsrv
<1> HIDE DEF H, R
<1>4. H % U32 = H /\ R % U32 = R
  BY <1>1, <1>2
<1> QED BY <1>1, <1>2, <1>3, <1>4 DEF Pool, H, R

\* The threshold is a natural; with the buffer configured to fit, it is not
\* above what the shared pool has left.
LEMMA ThresholdType ==
  ASSUME NEW m \in Counters, NEW p \in Ports
  PROVE  /\ GetPfcThreshold(m, p) \in Nat
         /\ BufferFits /\ m.shared <= Pool => GetPfcThreshold(m, p) <= Pool - m.shared
<1> DEFINE a == Minus(Minus(BufferSize, TotalHdrm), TotalRsrv)
           free == Minus(a, m.shared)
<1>1. m.shared \in Nat /\ BufferSize \in Nat /\ BufferSize < U32
  BY BufferAssumption DEF Counters
<1>2. a \in Nat /\ free \in Nat
  <2>1. \A n \in 0 .. U32 - 1 : n \in Int
    BY BufferAssumption
  <2>2. Minus(BufferSize, TotalHdrm) \in 0 .. U32 - 1
    BY <1>1, <2>1, TotalsType, WordType
  <2>3. a \in 0 .. U32 - 1
    BY <2>1, <2>2, TotalsType, WordType
  <2>4. free \in 0 .. U32 - 1
    <3>1. a \in Int /\ m.shared \in Int
      BY <1>1, <2>1, <2>3
    <3> HIDE DEF a
    <3> QED BY <3>1, WordType
  <2> QED BY <2>3, <2>4, BufferAssumption
<1>3. GetPfcThreshold(m, p) = free \div 2 ^ Shift[p] /\ Shift[p] \in Nat
  BY BufferAssumption DEF GetPfcThreshold
<1> HIDE DEF free
<1>4. GetPfcThreshold(m, p) \in 0 .. free
  BY <1>2, <1>3, ShiftType
<1>5. ASSUME BufferFits, m.shared <= Pool
      PROVE  free = Pool - m.shared
  <2>1. /\ TotalHdrm \in Nat /\ TotalRsrv \in Nat /\ Pool \in Nat
        /\ Pool = BufferSize - TotalHdrm - TotalRsrv
        /\ BufferSize - TotalHdrm \in 0 .. BufferSize
    BY <1>5, TotalsType, PoolType DEF Pool
  <2>2. Minus(BufferSize, TotalHdrm) = BufferSize - TotalHdrm
    BY <1>1, <2>1, WordExact
  <2>3. a = Pool
    <3>1. TotalRsrv <= BufferSize - TotalHdrm /\ BufferSize - TotalHdrm < U32
      BY <1>1, <2>1, BufferAssumption
    <3>2. Minus(BufferSize - TotalHdrm, TotalRsrv) = BufferSize - TotalHdrm - TotalRsrv
      BY <2>1, <3>1, WordExact
    <3> QED BY <2>1, <2>2, <3>2
  <2>4. Pool < U32
    BY <1>1, <2>1, BufferAssumption
  <2> HIDE DEF a
  <2>5. Minus(Pool, m.shared) = Pool - m.shared
    BY <1>1, <1>5, <2>1, <2>4, WordExact
  <2> QED BY <2>3, <2>5 DEF free
<1> QED BY <1>1, <1>2, <1>4, <1>5

-------------------------------------------------------------------------------
\* Bytes in queues.

\* What Bytes and BytesFrom say of a queue, and what an enqueue and a dequeue
\* change.
LEMMA BytesType ==
  ASSUME NEW s \in Seq(Entry), NEW p \in Ports
  PROVE  Bytes(s) \in Nat /\ BytesFrom(s, p) \in Nat
<1> DEFINE size == [e \in Entry |-> e.size]
           from == [e \in Entry |-> IF e.in = p THEN e.size ELSE 0]
<1>1. \A k \in DOMAIN s : s[k] \in Entry
  BY LenProperties, ElementOfSeq
<1>2. size \in [Entry -> Nat] /\ from \in [Entry -> Nat]
  BY SizesAssumption DEF Entry
<1>3. Bytes(s) = SumFunction(Weights(size, s)) /\ BytesFrom(s, p) = SumFunction(Weights(from, s))
  BY <1>1 DEF Bytes, BytesFrom, Weights
<1> HIDE DEF size, from
<1> QED BY <1>2, <1>3, WeightsType

\* What Enqueue adds to a queue's bytes, in all and by the port of arrival.
LEMMA BytesAppend ==
  ASSUME NEW s \in Seq(Entry), NEW e \in Entry, NEW p \in Ports
  PROVE  /\ Bytes(Append(s, e)) = Bytes(s) + e.size
         /\ BytesFrom(Append(s, e), p) = BytesFrom(s, p) + IF e.in = p THEN e.size ELSE 0
<1> DEFINE size == [x \in Entry |-> x.size]
           from == [x \in Entry |-> IF x.in = p THEN x.size ELSE 0]
           t == Append(s, e)
<1>1. t \in Seq(Entry)
  BY AppendProperties
<1>2. \A r \in Seq(Entry) : \A k \in DOMAIN r : r[k] \in Entry
  BY LenProperties, ElementOfSeq
<1>3. size \in [Entry -> Nat] /\ from \in [Entry -> Nat]
  BY SizesAssumption DEF Entry
<1> HIDE DEF t
<1>4. \A r \in Seq(Entry) : /\ Bytes(r) = SumFunction(Weights(size, r))
                            /\ BytesFrom(r, p) = SumFunction(Weights(from, r))
  BY <1>2 DEF Bytes, BytesFrom, Weights
<1>5. size[e] = e.size /\ from[e] = IF e.in = p THEN e.size ELSE 0
  OBVIOUS
<1> HIDE DEF size, from
<1>6. /\ SumFunction(Weights(size, t)) = SumFunction(Weights(size, s)) + size[e]
      /\ SumFunction(Weights(from, t)) = SumFunction(Weights(from, s)) + from[e]
  BY <1>3, WeightAppend DEF t
<1> QED BY <1>1, <1>4, <1>5, <1>6 DEF t

\* What Dequeue takes from a queue's bytes, in all and by the port of arrival.
LEMMA BytesTail ==
  ASSUME NEW s \in Seq(Entry), s # <<>>, NEW p \in Ports
  PROVE  /\ Bytes(s) = Head(s).size + Bytes(Tail(s))
         /\ BytesFrom(s, p) = (IF Head(s).in = p THEN Head(s).size ELSE 0) + BytesFrom(Tail(s), p)
<1> DEFINE size == [x \in Entry |-> x.size]
           from == [x \in Entry |-> IF x.in = p THEN x.size ELSE 0]
           t == Tail(s)
           e == Head(s)
<1>1. t \in Seq(Entry) /\ e \in Entry
  BY HeadTailProperties
<1>2. \A r \in Seq(Entry) : \A k \in DOMAIN r : r[k] \in Entry
  BY LenProperties, ElementOfSeq
<1>3. size \in [Entry -> Nat] /\ from \in [Entry -> Nat]
  BY SizesAssumption DEF Entry
<1> HIDE DEF t, e
<1>4. \A r \in Seq(Entry) : /\ Bytes(r) = SumFunction(Weights(size, r))
                            /\ BytesFrom(r, p) = SumFunction(Weights(from, r))
  BY <1>2 DEF Bytes, BytesFrom, Weights
<1>5. size[e] = e.size /\ from[e] = IF e.in = p THEN e.size ELSE 0
  BY <1>1
<1> HIDE DEF size, from
<1> QED BY <1>1, <1>3, <1>4, <1>5, WeightTail DEF t, e

\* No byte is queued in an empty switch.
LEMMA BytesEmpty ==
  /\ Bytes(<<>>) = 0
  /\ \A p \in Ports : BytesFrom(<<>>, p) = 0
<1>1. \A p \in Ports : /\ [k \in DOMAIN <<>> |-> <<>>[k].size] = <<>>
                       /\ [k \in DOMAIN <<>> |-> IF <<>>[k].in = p THEN <<>>[k].size ELSE 0] = <<>>
  OBVIOUS
<1>2. [k \in DOMAIN <<>> |-> <<>>[k].size] = <<>>
  OBVIOUS
<1> QED BY <1>1, <1>2, SumSeqEmpty DEF Bytes, BytesFrom

\* The bytes of a port and priority in the switch are a natural.
LEMMA QueuedType ==
  ASSUME outq \in [PQ -> Seq(Entry)], NEW i \in PQ
  PROVE  QueuedFrom(i) \in Nat
<1> DEFINE f == [p \in Ports |-> BytesFrom(outq[p, i[2]], i[1])]
<1>1. \A p \in Ports : f[p] \in Nat
  BY BytesType DEF PQ
<1>2. QueuedFrom(i) = SumFunctionOnSet(f, Ports)
  BY DEF QueuedFrom, SumFunction
<1> HIDE DEF f
<1> QED BY <1>1, <1>2, FiniteIndices, SumNat

\* An enqueue adds to the port the packet came from, and to no other.
LEMMA QueuedAppend ==
  ASSUME outq \in [PQ -> Seq(Entry)], NEW o \in PQ, NEW e \in Entry,
         outq' = [outq EXCEPT ![o] = Append(@, e)], NEW i \in PQ
  PROVE  QueuedFrom(i)' = QueuedFrom(i) + IF i = <<e.in, o[2]>> THEN e.size ELSE 0
<1> DEFINE f == [p \in Ports |-> BytesFrom(outq[p, i[2]], i[1])]
           g == [p \in Ports |-> BytesFrom(outq'[p, i[2]], i[1])]
           gain == IF i = <<e.in, o[2]>> THEN e.size ELSE 0
<1>1. /\ i[1] \in Ports /\ i[2] \in Queues /\ i = <<i[1], i[2]>>
      /\ o[1] \in Ports /\ o[2] \in Queues /\ o = <<o[1], o[2]>>
  BY DEF PQ
<1>2. \A p \in Ports : <<p, i[2]>> \in PQ /\ outq[p, i[2]] \in Seq(Entry)
  BY <1>1 DEF PQ
<1>3. \A p \in Ports : f[p] \in Nat
  BY <1>1, <1>2, BytesType
<1>4. \A p \in Ports : g[p] = f[p] + IF p = o[1] THEN gain ELSE 0
  <2> SUFFICES ASSUME NEW p \in Ports PROVE g[p] = f[p] + IF p = o[1] THEN gain ELSE 0
    OBVIOUS
  <2>1. CASE <<p, i[2]>> = o
    <3>1. outq'[p, i[2]] = Append(outq[p, i[2]], e)
      BY <1>2, <2>1
    <3>2. g[p] = f[p] + IF e.in = i[1] THEN e.size ELSE 0
      <4>1. outq[p, i[2]] \in Seq(Entry) /\ i[1] \in Ports
        BY <1>1, <1>2
      <4>2. /\ f[p] = BytesFrom(outq[p, i[2]], i[1])
            /\ g[p] = BytesFrom(Append(outq[p, i[2]], e), i[1])
        BY <3>1
      <4> QED BY <4>1, <4>2, BytesAppend
    <3>3. p = o[1] /\ (e.in = i[1] <=> i = <<e.in, o[2]>>)
      BY <1>1, <2>1
    <3> QED BY <3>2, <3>3
  <2>2. CASE <<p, i[2]>> # o
    <3>1. outq'[p, i[2]] = outq[p, i[2]]
      BY <1>2, <2>2
    <3>2. p = o[1] => gain = 0
      BY <1>1, <2>2
    <3>3. g[p] = f[p] /\ f[p] \in Nat
      BY <1>2, <1>3, <3>1
    <3> HIDE DEF f, g, gain
    <3> QED BY <3>2, <3>3
  <2> QED BY <2>1, <2>2
<1>5. QueuedFrom(i) = SumFunctionOnSet(f, Ports) /\ QueuedFrom(i)' = SumFunctionOnSet(g, Ports)
  BY DEF QueuedFrom, SumFunction
<1>6. gain \in Nat
  BY SizesAssumption DEF Entry
<1> HIDE DEF f, g, gain
<1>7. \A p \in Ports : f[p] \in Int
  BY <1>3
<1>8. g[o[1]] \in Int /\ \A p \in Ports \ {o[1]} : g[p] = f[p]
  <2>1. g[o[1]] = f[o[1]] + gain /\ f[o[1]] \in Nat
    BY <1>1, <1>3, <1>4
  <2>2. \A p \in Ports \ {o[1]} : g[p] = f[p] + 0 /\ f[p] \in Nat
    BY <1>3, <1>4
  <2> QED BY <2>1, <2>2, <1>6
<1>9. SumFunctionOnSet(g, Ports) = SumFunctionOnSet(f, Ports) - f[o[1]] + g[o[1]]
  BY <1>1, <1>7, <1>8, FiniteIndices, SumChange
<1>10. SumFunctionOnSet(f, Ports) \in Int
  BY <1>7, FiniteIndices, SumType
<1>11. SumFunctionOnSet(g, Ports) = SumFunctionOnSet(f, Ports) + gain
  BY <1>1, <1>3, <1>4, <1>6, <1>9, <1>10
<1> QED BY <1>5, <1>11 DEF gain

\* A dequeue takes off exactly that.
LEMMA QueuedTail ==
  ASSUME outq \in [PQ -> Seq(Entry)], NEW o \in PQ, outq[o] # <<>>,
         outq' = [outq EXCEPT ![o] = Tail(@)], NEW i \in PQ
  PROVE  QueuedFrom(i) =
           QueuedFrom(i)' + IF i = <<Head(outq[o]).in, o[2]>> THEN Head(outq[o]).size ELSE 0
<1> DEFINE e == Head(outq[o])
           f == [p \in Ports |-> BytesFrom(outq[p, i[2]], i[1])]
           g == [p \in Ports |-> BytesFrom(outq'[p, i[2]], i[1])]
           loss == IF i = <<e.in, o[2]>> THEN e.size ELSE 0
<1>1. /\ i[1] \in Ports /\ i[2] \in Queues /\ i = <<i[1], i[2]>>
      /\ o[1] \in Ports /\ o[2] \in Queues /\ o = <<o[1], o[2]>>
  BY DEF PQ
<1>2. e \in Entry /\ outq' \in [PQ -> Seq(Entry)]
  BY HeadTailProperties
<1>3. \A p \in Ports : <<p, i[2]>> \in PQ /\ outq[p, i[2]] \in Seq(Entry)
  BY <1>1 DEF PQ
<1>4. \A p \in Ports : f[p] \in Nat
  BY <1>1, <1>3, BytesType
<1>5. \A p \in Ports : g[p] \in Nat
  BY <1>1, <1>2, <1>3, BytesType
<1>6. \A p \in Ports : f[p] = g[p] + IF p = o[1] THEN loss ELSE 0
  <2> SUFFICES ASSUME NEW p \in Ports PROVE f[p] = g[p] + IF p = o[1] THEN loss ELSE 0
    OBVIOUS
  <2>1. CASE <<p, i[2]>> = o
    <3>1. outq'[p, i[2]] = Tail(outq[p, i[2]]) /\ e = Head(outq[p, i[2]]) /\ outq[p, i[2]] # <<>>
      BY <1>3, <2>1
    <3> HIDE DEF e
    <3>2. f[p] = (IF e.in = i[1] THEN e.size ELSE 0) + g[p]
      <4>1. outq[p, i[2]] \in Seq(Entry) /\ i[1] \in Ports
        BY <1>1, <1>3
      <4>2. /\ f[p] = BytesFrom(outq[p, i[2]], i[1])
            /\ g[p] = BytesFrom(Tail(outq[p, i[2]]), i[1])
        BY <3>1
      <4> QED BY <3>1, <4>1, <4>2, BytesTail
    <3>3. p = o[1] /\ (e.in = i[1] <=> i = <<e.in, o[2]>>)
      BY <1>1, <2>1
    <3>4. e.size \in Nat /\ g[p] \in Nat
      BY <1>2, <1>5, SizesAssumption DEF Entry
    <3> HIDE DEF f, g
    <3> QED BY <3>2, <3>3, <3>4
  <2>2. CASE <<p, i[2]>> # o
    <3>1. outq'[p, i[2]] = outq[p, i[2]]
      BY <1>3, <2>2
    <3>2. p = o[1] => loss = 0
      BY <1>1, <2>2
    <3>3. g[p] = f[p] /\ f[p] \in Nat
      BY <1>3, <1>4, <3>1
    <3> HIDE DEF f, g, loss
    <3> QED BY <3>2, <3>3
  <2> QED BY <2>1, <2>2
<1>7. QueuedFrom(i) = SumFunctionOnSet(f, Ports) /\ QueuedFrom(i)' = SumFunctionOnSet(g, Ports)
  BY DEF QueuedFrom, SumFunction
<1>8. loss \in Nat
  BY <1>2, SizesAssumption DEF Entry
<1> HIDE DEF f, g, loss, e
<1>9. \A p \in Ports : g[p] \in Int
  BY <1>5
<1>10. f[o[1]] \in Int /\ \A p \in Ports \ {o[1]} : f[p] = g[p]
  BY <1>1, <1>4, <1>5, <1>6
<1>11. SumFunctionOnSet(f, Ports) = SumFunctionOnSet(g, Ports) - g[o[1]] + f[o[1]]
  BY <1>1, <1>9, <1>10, FiniteIndices, SumChange
<1>12. SumFunctionOnSet(g, Ports) \in Int
  BY <1>9, FiniteIndices, SumType
<1>13. SumFunctionOnSet(f, Ports) = SumFunctionOnSet(g, Ports) + loss
  BY <1>1, <1>4, <1>5, <1>6, <1>8, <1>11, <1>12
<1> QED BY <1>7, <1>13 DEF loss, e

-------------------------------------------------------------------------------
\* Types, and the bytes of the egress queues.

EgressCounted == \A o \in PQ : mmu.egress[o] = Bytes(outq[o])

\* The types of the parts of the state.
LEMMA StateTypes ==
  ASSUME Typed
  PROVE  /\ mmu \in Counters /\ outq \in [PQ -> Seq(Entry)] /\ pfc \in [Ports -> Seq(Frame)]
         /\ wire \in [Ports -> Seq(Packet)] /\ stopped \in [PQ -> BOOLEAN]
<1>1. mmu \in Counters
  BY DEF Typed, Counters
<1> QED BY <1>1 DEF Typed, Entry, Frame, Packet

\* Charging a packet leaves machine words, and touches neither the egress
\* counters nor what is paused.
LEMMA UpdateType ==
  ASSUME NEW m \in Counters, NEW i \in PQ, NEW n \in Nat
  PROVE  LET u == UpdateIngressAdmission(m, i, n)
         IN  u \in Counters /\ u.egress = m.egress /\ u.paused = m.paused
<1> DEFINE new == Plus(m.ingress[i], n)
           least == Least(n, new - Reserve)
           h == Plus(m.hdrm[i], n)
           c == Plus(m.shared, least)
           u == UpdateIngressAdmission(m, i, n)
<1>1. /\ m.hdrm[i] \in Int /\ m.ingress[i] \in Int /\ m.shared \in Int
      /\ Reserve \in Int /\ n \in Int
  BY BufferAssumption DEF Counters
<1>2. new \in 0 .. U32 - 1 /\ h \in 0 .. U32 - 1
  BY <1>1, WordType
<1>3. least \in Int
  <2>1. new - Reserve \in Int
    BY <1>1, <1>2, BufferAssumption
  <2> QED BY <2>1 DEF Least
<1>4. \/ u = [m EXCEPT !.ingress[i] = new]
      \/ u = [m EXCEPT !.hdrm[i] = h]
      \/ u = [m EXCEPT !.ingress[i] = new, !.shared = c]
  BY DEF UpdateIngressAdmission
<1> HIDE DEF new, least, h, u
<1>5. c \in 0 .. U32 - 1
  BY <1>1, <1>3, WordType
<1> HIDE DEF c
<1> DEFINE Good == u \in Counters /\ u.egress = m.egress /\ u.paused = m.paused
<1>6. CASE u = [m EXCEPT !.ingress[i] = new]
  <2>1. Good
    BY <1>2, <1>6 DEF Counters
  <2> QED BY <2>1 DEF u
<1>7. CASE u = [m EXCEPT !.hdrm[i] = h]
  <2>1. Good
    BY <1>2, <1>7 DEF Counters
  <2> QED BY <2>1 DEF u
<1>8. CASE u = [m EXCEPT !.ingress[i] = new, !.shared = c]
  <2>1. Good
    BY <1>2, <1>5, <1>8 DEF Counters
  <2> QED BY <2>1 DEF u
<1> QED BY <1>4, <1>6, <1>7, <1>8

\* Giving a packet back does neither.
LEMMA RemoveType ==
  ASSUME NEW m \in Counters, NEW i \in PQ, NEW n \in Nat
  PROVE  LET u == RemoveFromIngressAdmission(m, i, n)
         IN  u \in Counters /\ u.egress = m.egress /\ u.paused = m.paused
<1> DEFINE fromHdrm == Least(m.hdrm[i], n)
           fromShared == Least(n - fromHdrm, GetSharedUsed(m, i))
           h == Minus(m.hdrm[i], fromHdrm)
           g == Minus(m.ingress[i], n - fromHdrm)
           c == Minus(m.shared, fromShared)
           u == RemoveFromIngressAdmission(m, i, n)
<1>1. m.hdrm[i] \in Int /\ m.ingress[i] \in Int /\ m.shared \in Int /\ Reserve \in Int
  BY BufferAssumption DEF Counters
<1>2. fromHdrm \in Int /\ GetSharedUsed(m, i) \in Int
  BY <1>1 DEF Least, GetSharedUsed
<1>3. n - fromHdrm \in Int
  BY <1>2
<1>4. u = [m EXCEPT !.hdrm[i] = h, !.ingress[i] = g, !.shared = c]
  BY DEF RemoveFromIngressAdmission
<1> HIDE DEF fromHdrm
<1>5. fromShared \in Int
  BY <1>2, <1>3 DEF Least
<1> HIDE DEF fromShared
<1>6. h \in 0 .. U32 - 1 /\ g \in 0 .. U32 - 1 /\ c \in 0 .. U32 - 1
  BY <1>1, <1>2, <1>3, <1>5, WordType
<1> HIDE DEF u, h, g, c
<1>7. u \in Counters
  BY <1>4, <1>6 DEF Counters
<1>8. u.egress = m.egress /\ u.paused = m.paused
  BY <1>4 DEF Counters
<1> QED BY <1>7, <1>8 DEF u

TypeInv == Typed /\ EgressCounted

\* The switch starts typed, with nothing queued and nothing counted.
LEMMA InitType == Init => TypeInv
<1> SUFFICES ASSUME Init PROVE TypeInv
  OBVIOUS
<1>1. Typed
  <2>1. mmu \in [shared : 0 .. U32 - 1,
                ingress : [PQ -> 0 .. U32 - 1], hdrm : [PQ -> 0 .. U32 - 1],
                egress : [PQ -> Nat], paused : [PQ -> BOOLEAN]]
    BY BufferAssumption DEF Init
  <2>2. /\ outq \in [PQ -> Seq([in : Ports, size : Sizes])]
        /\ wire \in [Ports -> Seq([q : Queues, size : Sizes, out : Ports])]
        /\ pfc \in [Ports -> Seq([q : Queues, pause : BOOLEAN, age : 0 .. PfcLag])]
    BY EmptySeq DEF Init
  <2>3. /\ sent \subseteq PQ /\ held \in [PQ -> BOOLEAN] /\ stopped \in [PQ -> BOOLEAN]
        /\ crashed \in BOOLEAN /\ drops \in {0, 1}
    BY DEF Init
  <2> QED BY <2>1, <2>2, <2>3 DEF Typed
<1>2. EgressCounted
  BY BytesEmpty DEF Init, EgressCounted
<1> QED BY <1>1, <1>2 DEF TypeInv

\* The egress counters are naturals because they count bytes.
LEMMA CountersType ==
  ASSUME outq \in [PQ -> Seq(Entry)], mmu \in Counters, EgressCounted
  PROVE  mmu \in [shared : 0 .. U32 - 1,
                  ingress : [PQ -> 0 .. U32 - 1], hdrm : [PQ -> 0 .. U32 - 1],
                  egress : [PQ -> Nat], paused : [PQ -> BOOLEAN]]
<1>1. \A o \in PQ : Bytes(outq[o]) \in Nat
  BY BytesType, PortsAssumption
<1>2. \A o \in PQ : mmu.egress[o] \in Nat
  BY <1>1 DEF EgressCounted
<1> QED BY <1>2 DEF Counters

\* An arrival keeps the types and the egress counters exact: what SendToDev adds
\* to a counter is what it appends to the queue.
LEMMA SendToDevType ==
  ASSUME TypeInv, NEW p \in Ports, SendToDev(p)
  PROVE  TypeInv'
<1> USE DEF TypeInv
<1> DEFINE pkt == Head(wire[p])
           i == <<p, pkt.q>>
           o == <<pkt.out, pkt.q>>
           u == UpdateIngressAdmission(mmu, i, pkt.size)
           m == UpdateEgressAdmission(u, o, pkt.size)
           e == [in |-> p, size |-> pkt.size]
<1>1. /\ pkt \in Packet /\ Tail(wire[p]) \in Seq(Packet)
      /\ mmu \in Counters /\ outq \in [PQ -> Seq(Entry)] /\ pfc \in [Ports -> Seq(Frame)]
      /\ wire \in [Ports -> Seq(Packet)]
  BY StateTypes, HeadTailProperties DEF SendToDev
<1>2. i \in PQ /\ o \in PQ /\ pkt.size \in Nat /\ e \in Entry
  BY <1>1, SizesAssumption DEF Packet, Entry, PQ
<1>3. u \in Counters /\ u.egress = mmu.egress /\ u.paused = mmu.paused
  BY <1>1, <1>2, UpdateType
<1>4. /\ m = [u EXCEPT !.egress[o] = @ + pkt.size] /\ m \in Counters
      /\ m.egress = [mmu.egress EXCEPT ![o] = @ + pkt.size] /\ m.paused = mmu.paused
  <2>1. m = [u EXCEPT !.egress[o] = @ + pkt.size]
    BY DEF UpdateEgressAdmission
  <2> HIDE DEF m, u, i, o
  <2> QED BY <1>2, <1>3, <2>1 DEF Counters
<1>5. \/ /\ outq' = [outq EXCEPT ![o] = Append(@, e)]
         /\ \/ SendPfc(i, TRUE) /\ mmu' = [m EXCEPT !.paused[i] = TRUE]
            \/ mmu' = m /\ UNCHANGED pfc
         /\ UNCHANGED drops
      \/ drops' = 1 /\ UNCHANGED <<mmu, outq, pfc>>
  BY DEF SendToDev
<1>6. /\ wire' = [wire EXCEPT ![p] = Tail(@)] /\ UNCHANGED <<sent, held, stopped, crashed>>
  BY DEF SendToDev
<1> HIDE DEF m, u, e
<1>7. pfc' \in [Ports -> Seq(Frame)]
  <2>1. CASE UNCHANGED pfc
    BY <1>1, <2>1
  <2>2. CASE SendPfc(i, TRUE)
    <3>1. pfc' = [pfc EXCEPT ![p] = Append(@, [q |-> pkt.q, pause |-> TRUE, age |-> 0])]
      BY <2>2 DEF SendPfc
    <3>2. [q |-> pkt.q, pause |-> TRUE, age |-> 0] \in Frame
      BY <1>1, LinkAssumption DEF Frame, Packet
    <3> HIDE DEF pkt
    <3> QED BY <1>1, <3>1, <3>2, AppendProperties
  <2> QED BY <1>5, <2>1, <2>2
<1>8. mmu' \in Counters
  <2> HIDE DEF pkt, i, o
  <2>1. [m EXCEPT !.paused[i] = TRUE] \in Counters
    BY <1>4 DEF Counters
  <2> QED BY <1>1, <1>4, <1>5, <2>1
<1>9. outq' \in [PQ -> Seq(Entry)]
  <2> HIDE DEF pkt, i, o
  <2>1. Append(outq[o], e) \in Seq(Entry)
    BY <1>1, <1>2, AppendProperties
  <2> QED BY <1>1, <1>2, <1>5, <2>1
<1>10. EgressCounted'
  <2> HIDE DEF pkt, i, o
  <2>1. CASE UNCHANGED <<mmu, outq>>
    BY <2>1 DEF EgressCounted
  <2>2. CASE outq' = [outq EXCEPT ![o] = Append(@, e)] /\ mmu'.egress = m.egress
    <3>1. Bytes(Append(outq[o], e)) = Bytes(outq[o]) + e.size
      BY <1>1, <1>2, BytesAppend, PortsAssumption
    <3>2. e.size = pkt.size
      BY DEF e
    <3> QED BY ZenonT(60), <1>1, <1>2, <1>4, <2>2, <3>1, <3>2 DEF EgressCounted, Counters
  <2> QED BY <1>4, <1>5, <2>1, <2>2 DEF Counters
<1>11. mmu' \in [shared : 0 .. U32 - 1,
                 ingress : [PQ -> 0 .. U32 - 1], hdrm : [PQ -> 0 .. U32 - 1],
                 egress : [PQ -> Nat], paused : [PQ -> BOOLEAN]]
  BY <1>8, <1>9, <1>10, CountersType, BytesType, PortsAssumption DEF EgressCounted, Counters
<1>12. drops' \in {0, 1} /\ wire' \in [Ports -> Seq(Packet)]
  <2> HIDE DEF pkt
  <2> QED BY <1>1, <1>5, <1>6 DEF Typed
<1> QED
  BY <1>6, <1>7, <1>9, <1>10, <1>11, <1>12 DEF Typed, Entry, Packet, Frame

\* A departure keeps the types and the egress counters exact.
LEMMA DequeueType ==
  ASSUME TypeInv, NEW o \in PQ, Dequeue(o)
  PROVE  TypeInv'
<1> USE DEF TypeInv
<1> DEFINE pkt == Head(outq[o])
           i == <<pkt.in, o[2]>>
           u == RemoveFromIngressAdmission(mmu, i, pkt.size)
           m == RemoveFromEgressAdmission(u, o, pkt.size)
<1>1. /\ pkt \in Entry /\ Tail(outq[o]) \in Seq(Entry)
      /\ mmu \in Counters /\ outq \in [PQ -> Seq(Entry)] /\ pfc \in [Ports -> Seq(Frame)]
  BY StateTypes, HeadTailProperties DEF Dequeue
<1>2. i \in PQ /\ pkt.size \in Nat
  BY <1>1, SizesAssumption DEF Entry, PQ
<1>3. u \in Counters /\ u.egress = mmu.egress /\ u.paused = mmu.paused
  BY <1>1, <1>2, RemoveType
<1>4. /\ m \in Counters /\ m.egress = [mmu.egress EXCEPT ![o] = @ - pkt.size]
      /\ m.paused = mmu.paused
  <2>1. m = [u EXCEPT !.egress[o] = @ - pkt.size]
    BY DEF RemoveFromEgressAdmission
  <2> HIDE DEF m, u, i
  <2> QED BY <1>2, <1>3, <2>1 DEF Counters
<1>5. /\ outq' = [outq EXCEPT ![o] = Tail(@)] /\ outq[o] # <<>>
      /\ \/ SendPfc(i, FALSE) /\ mmu' = [m EXCEPT !.paused[i] = FALSE]
         \/ mmu' = m /\ UNCHANGED pfc
      /\ sent' = sent \cup {o} /\ UNCHANGED <<held, wire, stopped, crashed, drops>>
  BY DEF Dequeue
<1> HIDE DEF m, u
<1>6. pfc' \in [Ports -> Seq(Frame)]
  <2>1. CASE UNCHANGED pfc
    BY <1>1, <2>1
  <2>2. CASE SendPfc(i, FALSE)
    <3> DEFINE f == [q |-> i[2], pause |-> FALSE, age |-> 0]
    <3>1. pfc' = [pfc EXCEPT ![i[1]] = Append(@, f)]
      BY <2>2 DEF SendPfc
    <3>2. f \in Frame /\ i[1] \in Ports
      BY <1>2, LinkAssumption DEF Frame, PQ
    <3> HIDE DEF f, i
    <3> QED BY <1>1, <3>1, <3>2, AppendProperties
  <2> QED BY <1>5, <2>1, <2>2
<1>7. mmu' \in Counters /\ mmu'.egress = m.egress
  <2> HIDE DEF pkt, i
  <2>1. mmu' \in Counters
    <3>1. [m EXCEPT !.paused[i] = FALSE] \in Counters
      BY <1>4 DEF Counters
    <3> QED BY <1>4, <1>5, <3>1
  <2>2. mmu'.egress = m.egress
    BY <1>4, <1>5 DEF Counters
  <2> QED BY <2>1, <2>2
<1>8. outq' \in [PQ -> Seq(Entry)]
  <2> HIDE DEF pkt, i
  <2> QED BY <1>1, <1>5
<1>9. EgressCounted'
  <2>1. Bytes(outq[o]) = pkt.size + Bytes(Tail(outq[o])) /\ Bytes(Tail(outq[o])) \in Nat
    BY <1>1, <1>5, BytesTail, BytesType, PortsAssumption
  <2> HIDE DEF pkt, i
  <2>2. \A x \in PQ : mmu'.egress[x] = IF x = o THEN mmu.egress[o] - pkt.size ELSE mmu.egress[x]
    BY <1>1, <1>4, <1>7 DEF Counters
  <2>3. \A x \in PQ : outq'[x] = IF x = o THEN Tail(outq[o]) ELSE outq[x]
    BY <1>1, <1>5
  <2>4. mmu.egress[o] - pkt.size = Bytes(Tail(outq[o]))
    BY <1>2, <2>1 DEF EgressCounted
  <2> QED BY <2>2, <2>3, <2>4 DEF EgressCounted
<1>10. mmu' \in [shared : 0 .. U32 - 1,
                 ingress : [PQ -> 0 .. U32 - 1], hdrm : [PQ -> 0 .. U32 - 1],
                 egress : [PQ -> Nat], paused : [PQ -> BOOLEAN]]
  BY <1>7, <1>8, <1>9, BytesType, PortsAssumption DEF EgressCounted, Counters
<1> QED
  BY <1>5, <1>6, <1>8, <1>9, <1>10 DEF Typed, Entry, Frame

\* The links and the neighbours keep the types; the buffer is not theirs.
LEMMA LinkType ==
  ASSUME TypeInv, NEW p \in Ports, NeighbourSends(p) \/ NeighbourReceivesPfc(p)
  PROVE  TypeInv'
<1> USE DEF TypeInv
<1>1. /\ pfc \in [Ports -> Seq(Frame)] /\ wire \in [Ports -> Seq(Packet)]
      /\ stopped \in [PQ -> BOOLEAN]
  BY DEF Typed, Frame, Packet
<1>2. CASE NeighbourSends(p)
  <2>1. PICK q \in Queues, size \in Sizes, r \in Routes :
          wire' = [wire EXCEPT ![p] = Append(@, [q |-> q, size |-> size, out |-> r[2]])]
    BY <1>2 DEF NeighbourSends
  <2>2. [q |-> q, size |-> size, out |-> r[2]] \in Packet
    BY PortsAssumption DEF Packet
  <2>3. wire' \in [Ports -> Seq(Packet)]
    BY <1>1, <2>1, <2>2, AppendProperties
  <2> DEFINE aged == [k \in DOMAIN pfc[p] |-> [pfc[p][k] EXCEPT !.age = @ + 1]]
  <2>4. /\ pfc[p] \in Seq(Frame) /\ Len(pfc[p]) \in Nat
        /\ DOMAIN pfc[p] = 1 .. Len(pfc[p]) /\ \A k \in DOMAIN pfc[p] : pfc[p][k] \in Frame
    BY <1>1, LenProperties, ElementOfSeq
  <2>5. \A k \in DOMAIN pfc[p] : [pfc[p][k] EXCEPT !.age = @ + 1] \in Frame
    <3> SUFFICES ASSUME NEW k \in DOMAIN pfc[p]
                 PROVE  [pfc[p][k] EXCEPT !.age = @ + 1] \in Frame
      OBVIOUS
    <3>1. pfc[p][k].age < PfcLag
      BY <1>2 DEF NeighbourSends
    <3>2. pfc[p][k] \in Frame
      BY <2>4
    <3> QED BY <3>1, <3>2, LinkAssumption DEF Frame
  <2>6. aged \in Seq(Frame)
    BY <2>4, <2>5, SeqDef
  <2>7. pfc' = [pfc EXCEPT ![p] = aged]
    BY <1>2 DEF NeighbourSends
  <2> HIDE DEF aged
  <2>8. pfc' \in [Ports -> Seq(Frame)]
    BY <1>1, <2>6, <2>7
  <2> QED BY <1>2, <2>3, <2>8 DEF NeighbourSends, Typed, Frame, Packet, EgressCounted
<1>3. CASE NeighbourReceivesPfc(p)
  <2>1. Head(pfc[p]) \in Frame /\ Tail(pfc[p]) \in Seq(Frame)
    BY <1>1, <1>3, HeadTailProperties DEF NeighbourReceivesPfc
  <2>2. pfc' \in [Ports -> Seq(Frame)]
    BY <1>1, <1>3, <2>1 DEF NeighbourReceivesPfc
  <2>3. stopped' \in [PQ -> BOOLEAN]
    BY <1>1, <1>3, <2>1 DEF NeighbourReceivesPfc, Frame
  <2>4. crashed' \in BOOLEAN /\ UNCHANGED <<mmu, outq, sent, held, wire, drops>>
    BY <1>3 DEF NeighbourReceivesPfc, MayCrash
  <2> QED BY <2>2, <2>3, <2>4 DEF Typed, Frame, EgressCounted
<1> QED BY <1>2, <1>3

\* So do the pauses this switch is sent.
LEMMA NeighbourSideType ==
  ASSUME TypeInv, NEW o \in PQ, ReceivePause(o) \/ Resume(o)
  PROVE  TypeInv'
<1>1. /\ UNCHANGED <<mmu, outq, sent, wire, pfc, stopped, drops>>
      /\ \E b \in BOOLEAN : held' = [held EXCEPT ![o] = b]
  BY DEF ReceivePause, Resume
<1>2. crashed' \in BOOLEAN
  BY DEF ReceivePause, Resume, MayCrash, TypeInv, Typed
<1> QED BY <1>1, <1>2 DEF TypeInv, Typed, EgressCounted

\* Every step keeps the type invariant.
LEMMA NextType == TypeInv /\ [Next]_vars => TypeInv'
<1> SUFFICES ASSUME TypeInv, [Next]_vars PROVE TypeInv'
  OBVIOUS
<1>1. CASE UNCHANGED vars
  BY <1>1 DEF vars, TypeInv, Typed, EgressCounted
<1>2. ASSUME NEW p \in Ports, SendToDev(p) PROVE TypeInv'
  BY <1>2, SendToDevType
<1>3. ASSUME NEW o \in PQ, Dequeue(o) PROVE TypeInv'
  BY <1>3, DequeueType
<1>4. ASSUME NEW p \in Ports, NeighbourSends(p) \/ NeighbourReceivesPfc(p) PROVE TypeInv'
  BY <1>4, LinkType
<1>5. ASSUME NEW o \in PQ, ReceivePause(o) \/ Resume(o) PROVE TypeInv'
  BY <1>5, NeighbourSideType
<1> QED BY <1>1, <1>2, <1>3, <1>4, <1>5 DEF Next

\* The variables have their types, and the egress counters say what is in the
\* egress queues, in every reachable state.
LEMMA TypedCorrect == Spec => []TypeInv
BY InitType, NextType, PTL DEF Spec

-------------------------------------------------------------------------------
\* The chain of PAUSE and RESUME frames.

\* The frames at the positions F lead from what the neighbour does to what the
\* switch told it.
ChainOn(F, says, first, last) ==
  /\ F = {} => first = last
  /\ \A k \in F :
       /\ (\A j \in F : k <= j) => says[k] # first
       /\ (\A j \in F : j <= k) => says[k] = last
       /\ \A j \in F : j < k /\ (\A l \in F : l < k => l <= j) => says[k] # says[j]

\* A frame that says the opposite of the last one keeps the chain.
LEMMA ChainAppend ==
  ASSUME NEW n \in Nat, NEW F \in SUBSET (1 .. n), NEW says, NEW says2,
         NEW first, NEW last, NEW b, b # last,
         ChainOn(F, says, first, last),
         \A k \in F : says2[k] = says[k], says2[n + 1] = b
  PROVE  ChainOn(F \cup {n + 1}, says2, first, b)
<1> DEFINE G == F \cup {n + 1}
<1>1. ASSUME NEW k \in F
      PROVE  /\ (\A j \in G : k <= j) => says2[k] # first
             /\ ~(\A j \in G : j <= k)
             /\ \A j \in G : j < k /\ (\A l \in G : l < k => l <= j) => says2[k] # says2[j]
  <2>1. k < n + 1 /\ F \subseteq G /\ \A j \in G : j \in F \/ j = n + 1
    OBVIOUS
  <2> HIDE DEF G
  <2>2. (\A j \in G : k <= j) => says2[k] # first
    BY <2>1 DEF ChainOn
  <2>3. ~(\A j \in G : j <= k)
    <3>1. n + 1 \in G /\ ~(n + 1 <= k)
      BY <2>1 DEF G
    <3> QED BY <3>1
  <2>4. ASSUME NEW j \in G, j < k, \A l \in G : l < k => l <= j
        PROVE  says2[k] # says2[j]
    <3>1. j \in F /\ \A l \in F : l < k => l <= j
      BY <2>1, <2>4
    <3> QED BY <2>4, <3>1 DEF ChainOn
  <2> QED BY <2>2, <2>3, <2>4
<1>2. (\A j \in G : n + 1 <= j) => says2[n + 1] # first
  <2>1. (\A j \in G : n + 1 <= j) => F = {}
    OBVIOUS
  <2> QED BY <2>1 DEF ChainOn
<1>3. ASSUME NEW j \in G, j < n + 1, \A l \in G : l < n + 1 => l <= j
      PROVE  says2[n + 1] # says2[j]
  <2>1. j \in F /\ \A l \in F : l <= j
    BY <1>3
  <2> QED BY <2>1 DEF ChainOn
<1> QED BY <1>1, <1>2, <1>3 DEF ChainOn

\* Once the first frame has been obeyed the others are a chain from there; a
\* frame of another queue is not in it.
LEMMA ChainTail ==
  ASSUME NEW F \in SUBSET (Nat \ {0}), NEW G \in SUBSET (Nat \ {0}),
         NEW says, NEW says2, NEW first, NEW last,
         ChainOn(F, says, first, last),
         \A k \in Nat \ {0} : k \in G <=> k + 1 \in F,
         \A k \in G : says2[k] = says[k + 1]
  PROVE  ChainOn(G, says2, IF 1 \in F THEN says[1] ELSE first, last)
<1>1. \A k \in F : k = 1 \/ k - 1 \in G
  OBVIOUS
<1> DEFINE obeyed == IF 1 \in F THEN says[1] ELSE first
<1>2. ASSUME G = {} PROVE obeyed = last
  <2>1. F \subseteq {1}
    BY <1>1, <1>2
  <2> QED BY <2>1 DEF ChainOn
<1>3. ASSUME NEW k \in G, \A j \in G : k <= j
      PROVE  says2[k] # obeyed
  <2>1. k + 1 \in F /\ \A l \in F : l = 1 \/ k + 1 <= l
    <3>1. ASSUME NEW l \in F, l # 1 PROVE k + 1 <= l
      <4>1. l - 1 \in G
        BY <1>1, <3>1
      <4>2. k <= l - 1
        BY <1>3, <4>1
      <4>3. k \in Int /\ l \in Int
        OBVIOUS
      <4> QED BY <4>2, <4>3
    <3> QED BY <3>1
  <2>2. CASE 1 \in F
    <3>1. 1 < k + 1 /\ \A l \in F : l < k + 1 => l <= 1
      BY <2>1
    <3> QED BY <2>1, <2>2, <3>1 DEF ChainOn
  <2>3. CASE 1 \notin F
    <3>1. \A l \in F : k + 1 <= l
      BY <2>1, <2>3
    <3> QED BY <2>1, <2>3, <3>1 DEF ChainOn
  <2> QED BY <2>2, <2>3
<1>4. ASSUME NEW k \in G, \A j \in G : j <= k
      PROVE  says2[k] = last
  <2>1. k + 1 \in F /\ \A l \in F : l <= k + 1
    BY <1>1, <1>4
  <2> QED BY <2>1 DEF ChainOn
<1>5. ASSUME NEW k \in G, NEW j \in G, j < k, \A l \in G : l < k => l <= j
      PROVE  says2[k] # says2[j]
  <2>1. /\ k + 1 \in F /\ j + 1 \in F /\ j + 1 < k + 1
        /\ \A l \in F : l < k + 1 => l <= j + 1
    BY <1>1, <1>5
  <2> QED BY ZenonT(60), <2>1 DEF ChainOn
<1> QED BY <1>2, <1>3, <1>4, <1>5 DEF ChainOn

Says(i) == [k \in DOMAIN pfc[i[1]] |-> pfc[i[1]][k].pause]
Chain(i) == ChainOn(Frames(i), Says(i), stopped[i], mmu.paused[i])
Chained == \A i \in PQ : Chain(i)

\* The positions of the frames of a queue.
LEMMA FramesType ==
  ASSUME Typed, NEW i \in PQ
  PROVE  /\ i[1] \in Ports /\ i[2] \in Queues /\ pfc[i[1]] \in Seq(Frame)
         /\ Len(pfc[i[1]]) \in Nat
         /\ DOMAIN pfc[i[1]] = 1 .. Len(pfc[i[1]])
         /\ Frames(i) \in SUBSET (1 .. Len(pfc[i[1]]))
         /\ \A k \in DOMAIN pfc[i[1]] : pfc[i[1]][k] \in Frame
<1>1. i[1] \in Ports /\ i[2] \in Queues /\ pfc[i[1]] \in Seq(Frame)
  BY StateTypes DEF PQ
<1> QED BY <1>1, LenProperties, ElementOfSeq DEF Frames

\* PauseChain says that the frames of every queue are such a chain.
LEMMA ChainMeans == Typed => (PauseChain <=> Chained)
<1> SUFFICES ASSUME Typed PROVE PauseChain <=> Chained
  OBVIOUS
<1> DEFINE Body(i) ==
      LET says(k) == pfc[i[1]][k].pause
      IN  /\ Frames(i) = {} => mmu.paused[i] = stopped[i]
          /\ \A k \in Frames(i) :
               LET earlier == {j \in Frames(i) : j < k}
                   later == {j \in Frames(i) : j > k}
               IN  /\ earlier = {} => says(k) # stopped[i]
                   /\ later = {} => says(k) = mmu.paused[i]
                   /\ \A j \in earlier :
                        (\A l \in earlier : l <= j) => says(k) # says(j)
<1>1. ASSUME NEW i \in PQ PROVE Body(i) <=> Chain(i)
  <2> DEFINE F == Frames(i)
  <2>1. F \subseteq Nat /\ \A k \in F : Says(i)[k] = pfc[i[1]][k].pause
    BY FramesType DEF Frames, Says
  <2> HIDE DEF F
  <2>2. ASSUME NEW k \in F
        PROVE  /\ {j \in F : j < k} = {} <=> \A j \in F : k <= j
               /\ {j \in F : j > k} = {} <=> \A j \in F : j <= k
    <3>1. \A j \in F : (k <= j <=> ~(j < k)) /\ (j <= k <=> ~(j > k))
      BY <2>1
    <3> QED BY <3>1
  <2> QED BY <2>1, <2>2 DEF Chain, ChainOn, F
<1>2. PauseChain <=> \A i \in PQ : Body(i)
  BY DEF PauseChain
<1> HIDE DEF Body
<1> QED BY <1>1, <1>2 DEF Chained

\* The same of the next state.
LEMMA ChainMeansNext == Typed' => (PauseChain' <=> Chained')
BY ChainMeans, PTL

\* Frames that only travel change nothing.
LEMMA ChainKept ==
  ASSUME Typed, Typed', PauseChain,
         UNCHANGED stopped, mmu'.paused = mmu.paused,
         \A p \in Ports : /\ DOMAIN pfc'[p] = DOMAIN pfc[p]
                          /\ \A k \in DOMAIN pfc[p] : /\ pfc'[p][k].q = pfc[p][k].q
                                                      /\ pfc'[p][k].pause = pfc[p][k].pause
  PROVE  PauseChain'
<1>1. ASSUME NEW i \in PQ PROVE Chain(i)'
  <2>1. Chain(i) /\ i[1] \in Ports
    BY ChainMeans DEF Chained, PQ
  <2>2. Frames(i)' = Frames(i) /\ Says(i)' = Says(i)
    BY <2>1 DEF Frames, Says
  <2> QED BY <2>1, <2>2 DEF Chain
<1> QED BY <1>1, ChainMeansNext DEF Chained

\* SendPfc is called with the opposite of what was told last.
LEMMA SendPfcChain ==
  ASSUME Typed, Typed', PauseChain, NEW i \in PQ, NEW b \in BOOLEAN,
         SendPfc(i, b), mmu.paused[i] # b, UNCHANGED stopped,
         mmu'.paused = [mmu.paused EXCEPT ![i] = b]
  PROVE  PauseChain'
<1> DEFINE s == pfc[i[1]]
           f == [q |-> i[2], pause |-> b, age |-> 0]
           n == Len(s)
<1>1. /\ i[1] \in Ports /\ i[2] \in Queues /\ i = <<i[1], i[2]>>
      /\ s \in Seq(Frame) /\ n \in Nat /\ f \in Frame /\ mmu \in Counters
      /\ pfc' = [pfc EXCEPT ![i[1]] = Append(s, f)] /\ pfc \in [Ports -> Seq(Frame)]
  <2>1. i[1] \in Ports /\ i[2] \in Queues /\ i = <<i[1], i[2]>>
    BY DEF PQ
  <2>2. mmu \in Counters /\ pfc \in [Ports -> Seq(Frame)]
    BY StateTypes
  <2>3. s \in Seq(Frame) /\ n \in Nat
    BY <2>1, <2>2, LenProperties
  <2>4. f \in Frame
    BY <2>1, LinkAssumption DEF Frame
  <2>5. pfc' = [pfc EXCEPT ![i[1]] = Append(s, f)]
    BY DEF SendPfc
  <2> QED BY <2>1, <2>2, <2>3, <2>4, <2>5
<1>2. /\ Append(s, f) \in Seq(Frame) /\ DOMAIN Append(s, f) = 1 .. n + 1
      /\ DOMAIN s = 1 .. n /\ Append(s, f)[n + 1] = f
      /\ \A k \in 1 .. n : Append(s, f)[k] = s[k]
  <2> HIDE DEF f
  <2> QED BY <1>1, AppendProperties, LenProperties
<1> DEFINE t == Append(s, f)
<1>3. pfc'[i[1]] = t
  BY <1>1
<1> HIDE DEF t
<1>4. /\ t \in Seq(Frame) /\ DOMAIN t = 1 .. n + 1 /\ DOMAIN s = 1 .. n
      /\ t[n + 1] = f /\ \A k \in 1 .. n : t[k] = s[k]
  BY <1>2 DEF t
<1>5. ASSUME NEW j \in PQ PROVE Chain(j)'
  <2>1. Chain(j) /\ j[1] \in Ports /\ j[2] \in Queues /\ j = <<j[1], j[2]>>
    BY ChainMeans DEF Chained, PQ
  <2>2. CASE j = i
    <3>1. Frames(i)' = Frames(i) \cup {n + 1}
      BY <1>1, <1>3, <1>4 DEF Frames
    <3>2. /\ \A k \in Frames(i) : Says(i)'[k] = Says(i)[k]
          /\ Says(i)'[n + 1] = b /\ Frames(i) \in SUBSET (1 .. n)
      BY <1>1, <1>3, <1>4 DEF Says, Frames
    <3>3. mmu'.paused[i] = b
      BY <1>1 DEF Counters
    <3>4. ChainOn(Frames(i), Says(i), stopped[i], mmu.paused[i])
      BY <2>1, <2>2 DEF Chain
    <3>5. ChainOn(Frames(i) \cup {n + 1}, Says(i)', stopped[i], b)
      BY ZenonT(60), <1>1, <3>2, <3>4, ChainAppend
    <3> QED BY <2>2, <3>1, <3>3, <3>5 DEF Chain
  <2>3. CASE j # i /\ j[1] = i[1]
    <3>1. Frames(j)' = Frames(j)
      BY <1>1, <1>3, <1>4, <2>1, <2>3 DEF Frames
    <3>2. \A k \in Frames(j) : Says(j)'[k] = Says(j)[k]
      BY <1>1, <1>3, <1>4, <2>3 DEF Says, Frames
    <3>3. mmu'.paused[j] = mmu.paused[j]
      BY <1>1, <2>3 DEF Counters
    <3> QED BY <2>1, <3>1, <3>2, <3>3 DEF Chain, ChainOn
  <2>4. CASE j[1] # i[1]
    <3>1. pfc'[j[1]] = pfc[j[1]]
      BY <1>1, <2>1, <2>4
    <3>2. mmu'.paused[j] = mmu.paused[j]
      BY <1>1, <2>4 DEF Counters
    <3> QED BY <2>1, <3>1, <3>2 DEF Chain, Frames, Says
  <2> QED BY <2>2, <2>3, <2>4
<1> QED BY <1>5, ChainMeansNext DEF Chained

\* The neighbour obeys the first frame.
LEMMA ReceivePfcChain ==
  ASSUME Typed, Typed', PauseChain, NEW p \in Ports, NeighbourReceivesPfc(p)
  PROVE  PauseChain'
<1> DEFINE s == pfc[p]
           f == Head(s)
           i == <<p, f.q>>
           t == Tail(s)
<1>1. /\ s \in Seq(Frame) /\ s # <<>> /\ pfc' = [pfc EXCEPT ![p] = t] /\ mmu' = mmu
      /\ stopped' = [stopped EXCEPT ![i] = f.pause] /\ stopped \in [PQ -> BOOLEAN]
      /\ pfc \in [Ports -> Seq(Frame)]
  BY StateTypes DEF NeighbourReceivesPfc
<1>2. /\ Len(s) \in Nat \ {0} /\ f = s[1] /\ f \in Frame
      /\ DOMAIN s = 1 .. Len(s) /\ DOMAIN t = 1 .. Len(s) - 1
      /\ \A k \in 1 .. Len(s) - 1 : t[k] = s[k + 1]
  BY <1>1, HeadTailProperties, LenProperties, EmptySeq
<1>3. pfc'[p] = t
  BY <1>1
<1> HIDE DEF t, f
<1>4. i \in PQ /\ \A j \in PQ : stopped'[j] = IF j = i THEN f.pause ELSE stopped[j]
  BY <1>1, <1>2 DEF PQ, Frame
<1>5. ASSUME NEW j \in PQ PROVE Chain(j)'
  <2>1. Chain(j) /\ j[1] \in Ports /\ j[2] \in Queues /\ j = <<j[1], j[2]>>
    BY ChainMeans DEF Chained, PQ
  <2>2. CASE j[1] = p
    <3>1. /\ Frames(j) = {k \in 1 .. Len(s) : s[k].q = j[2]}
          /\ Frames(j)' = {k \in 1 .. Len(s) - 1 : t[k].q = j[2]}
      BY <1>2, <1>3, <2>2 DEF Frames
    <3>2. /\ Frames(j) \in SUBSET (Nat \ {0}) /\ Frames(j)' \in SUBSET (Nat \ {0})
          /\ \A k \in Nat \ {0} : k \in Frames(j)' <=> k + 1 \in Frames(j)
      BY <1>2, <3>1
    <3>3. \A k \in Frames(j)' : Says(j)'[k] = Says(j)[k + 1]
      BY SMTT(40), <1>2, <1>3, <2>2, <3>1 DEF Says
    <3>4. /\ 1 \in Frames(j) <=> j = i
          /\ 1 \in Frames(j) => Says(j)[1] = f.pause
      BY <1>2, <2>1, <2>2, <3>1 DEF Says
    <3>5. ChainOn(Frames(j)', Says(j)', IF 1 \in Frames(j) THEN Says(j)[1] ELSE stopped[j],
                  mmu.paused[j])
      BY <2>1, <3>2, <3>3, ChainTail DEF Chain
    <3>6. stopped'[j] = IF 1 \in Frames(j) THEN Says(j)[1] ELSE stopped[j]
      BY <1>4, <3>4
    <3> QED BY <1>1, <3>5, <3>6 DEF Chain
  <2>3. CASE j[1] # p
    <3>1. pfc'[j[1]] = pfc[j[1]] /\ stopped'[j] = stopped[j]
      BY <1>1, <1>4, <2>1, <2>3
    <3> QED BY <1>1, <2>1, <3>1 DEF Chain, Frames, Says
  <2> QED BY <2>2, <2>3
<1> QED BY <1>5, ChainMeansNext DEF Chained

\* A packet that is taken in or sent on starts at most one frame.
LEMMA SendToDevChain ==
  ASSUME TypeInv, TypeInv', PauseChain, NEW p \in Ports, SendToDev(p)
  PROVE  PauseChain'
<1> DEFINE pkt == Head(wire[p])
           i == <<p, pkt.q>>
           o == <<pkt.out, pkt.q>>
           u == UpdateIngressAdmission(mmu, i, pkt.size)
           m == UpdateEgressAdmission(u, o, pkt.size)
<1>1. /\ Typed /\ Typed' /\ mmu \in Counters /\ pkt \in Packet /\ UNCHANGED stopped
      /\ i \in PQ /\ pkt.size \in Nat
  <2>1. Typed /\ Typed' /\ mmu \in Counters /\ wire \in [Ports -> Seq(Packet)]
    BY StateTypes DEF TypeInv
  <2>2. pkt \in Packet
    BY <2>1, HeadTailProperties DEF SendToDev
  <2> QED BY <2>1, <2>2, SizesAssumption DEF Packet, PQ, SendToDev
<1>2. m.paused = mmu.paused
  <2>1. u \in Counters /\ u.paused = mmu.paused
    BY <1>1, UpdateType
  <2> HIDE DEF u
  <2> QED BY <2>1 DEF UpdateEgressAdmission, Counters
<1>3. \/ UNCHANGED <<mmu, pfc>>
      \/ mmu' = m /\ UNCHANGED pfc
      \/ /\ CheckShouldPause(m, i) /\ SendPfc(i, TRUE)
         /\ mmu' = [m EXCEPT !.paused[i] = TRUE]
  BY DEF SendToDev
<1> HIDE DEF m, i, pkt
<1>4. CASE UNCHANGED <<mmu, pfc>> \/ (mmu' = m /\ UNCHANGED pfc)
  BY <1>1, <1>2, <1>4, ChainKept
<1>5. CASE /\ CheckShouldPause(m, i) /\ SendPfc(i, TRUE)
           /\ mmu' = [m EXCEPT !.paused[i] = TRUE]
  <2>1. mmu.paused[i] # TRUE
    BY <1>2, <1>5 DEF CheckShouldPause
  <2>2. mmu'.paused = [m.paused EXCEPT ![i] = TRUE]
    BY <1>1, <1>3, <1>5 DEF Counters
  <2> QED BY <1>1, <1>2, <1>5, <2>1, <2>2, SendPfcChain
<1> QED BY <1>3, <1>4, <1>5

\* A departure, and the RESUME it may send, keeps the chain of frames of every
\* port and queue alternating.
LEMMA DequeueChain ==
  ASSUME TypeInv, TypeInv', PauseChain, NEW o \in PQ, Dequeue(o)
  PROVE  PauseChain'
<1> DEFINE pkt == Head(outq[o])
           i == <<pkt.in, o[2]>>
           u == RemoveFromIngressAdmission(mmu, i, pkt.size)
           m == RemoveFromEgressAdmission(u, o, pkt.size)
<1>1. /\ Typed /\ Typed' /\ mmu \in Counters /\ pkt \in Entry /\ UNCHANGED stopped
      /\ i \in PQ /\ pkt.size \in Nat
  <2>1. Typed /\ Typed' /\ mmu \in Counters /\ outq \in [PQ -> Seq(Entry)]
    BY StateTypes DEF TypeInv
  <2>2. pkt \in Entry
    BY <2>1, HeadTailProperties DEF Dequeue
  <2> QED BY <2>1, <2>2, SizesAssumption DEF Entry, PQ, Dequeue
<1>2. m.paused = mmu.paused
  <2>1. u \in Counters /\ u.paused = mmu.paused
    BY <1>1, RemoveType
  <2> HIDE DEF u
  <2> QED BY <2>1 DEF RemoveFromEgressAdmission, Counters
<1>3. \/ mmu' = m /\ UNCHANGED pfc
      \/ /\ CheckShouldResume(m, i) /\ SendPfc(i, FALSE)
         /\ mmu' = [m EXCEPT !.paused[i] = FALSE]
  BY DEF Dequeue
<1> HIDE DEF m, i, pkt
<1>4. CASE mmu' = m /\ UNCHANGED pfc
  BY <1>1, <1>2, <1>4, ChainKept
<1>5. CASE /\ CheckShouldResume(m, i) /\ SendPfc(i, FALSE)
           /\ mmu' = [m EXCEPT !.paused[i] = FALSE]
  <2>1. mmu.paused[i] # FALSE /\ mmu'.paused = [mmu.paused EXCEPT ![i] = FALSE]
    BY <1>1, <1>2, <1>5 DEF CheckShouldResume, Counters
  <2> QED BY <1>1, <1>5, <2>1, SendPfcChain
<1> QED BY <1>3, <1>4, <1>5

\* Every step keeps every chain of frames alternating.
LEMMA NextChain == TypeInv /\ TypeInv' /\ PauseChain /\ [Next]_vars => PauseChain'
<1> SUFFICES ASSUME TypeInv, TypeInv', PauseChain, [Next]_vars PROVE PauseChain'
  OBVIOUS
<1>1. CASE UNCHANGED vars
  BY <1>1, ChainKept DEF vars, TypeInv
<1>2. ASSUME NEW p \in Ports, SendToDev(p) PROVE PauseChain'
  BY <1>2, SendToDevChain
<1>3. ASSUME NEW o \in PQ, Dequeue(o) PROVE PauseChain'
  BY <1>3, DequeueChain
<1>4. ASSUME NEW p \in Ports, NeighbourSends(p) PROVE PauseChain'
  <2>1. pfc \in [Ports -> Seq(Frame)]
    BY StateTypes DEF TypeInv
  <2>2. \A k \in DOMAIN pfc[p] : pfc[p][k] \in Frame
    BY <2>1, LenProperties, ElementOfSeq
  <2> DEFINE aged == [k \in DOMAIN pfc[p] |-> [pfc[p][k] EXCEPT !.age = @ + 1]]
  <2>3. /\ DOMAIN aged = DOMAIN pfc[p]
        /\ \A k \in DOMAIN pfc[p] : aged[k].q = pfc[p][k].q /\ aged[k].pause = pfc[p][k].pause
    BY <2>2 DEF Frame
  <2>4. pfc' = [pfc EXCEPT ![p] = aged] /\ UNCHANGED <<mmu, stopped>>
    BY <1>4 DEF NeighbourSends
  <2> HIDE DEF aged
  <2>5. \A r \in Ports : /\ DOMAIN pfc'[r] = DOMAIN pfc[r]
                         /\ \A k \in DOMAIN pfc[r] : /\ pfc'[r][k].q = pfc[r][k].q
                                                     /\ pfc'[r][k].pause = pfc[r][k].pause
    BY <2>1, <2>3, <2>4
  <2> QED BY <2>4, <2>5, ChainKept DEF TypeInv
<1>5. ASSUME NEW p \in Ports, NeighbourReceivesPfc(p) PROVE PauseChain'
  BY <1>5, ReceivePfcChain DEF TypeInv
<1>6. ASSUME NEW o \in PQ, ReceivePause(o) \/ Resume(o) PROVE PauseChain'
  BY <1>6, ChainKept DEF ReceivePause, Resume, TypeInv
<1> QED BY <1>1, <1>2, <1>3, <1>4, <1>5, <1>6 DEF Next

\* PAUSE and RESUME alternate on every link and priority, and the last of them
\* says what the switch thinks it said: QbbNetDevice::Resume never finds a queue
\* that is not paused.
THEOREM PauseChainCorrect == Spec => []PauseChain
<1>1. Init => PauseChain
  <2> SUFFICES ASSUME Init PROVE PauseChain
    OBVIOUS
  <2>1. ASSUME NEW i \in PQ PROVE Frames(i) = {} /\ mmu.paused[i] = stopped[i]
    BY DEF Init, Frames, PQ
  <2> QED BY <2>1 DEF PauseChain
<1>2. Spec => []TypeInv
  BY TypedCorrect
<1> QED BY <1>1, <1>2, NextChain, PTL DEF Spec

-------------------------------------------------------------------------------
\* The ingress counters, where the buffer is configured to fit.

\* The shared pool holds what the ports use beyond their reserve, and neither it
\* nor a headroom is overdrawn.
Sound(m) ==
  /\ m.shared = SumFunction([i \in PQ |-> GetSharedUsed(m, i)])
  /\ m.shared <= Pool
  /\ \A i \in PQ : m.hdrm[i] <= Headroom[i[1]]

\* The types of what the tests of the switch read, and room for one packet more.
LEMMA SoundBounds ==
  ASSUME BufferFits, NEW m \in Counters, Sound(m), NEW i \in PQ, NEW n \in Sizes
  PROVE  /\ m.shared \in Nat /\ m.hdrm[i] \in Nat /\ m.ingress[i] \in Nat /\ n \in Nat
         /\ Reserve \in Nat /\ Headroom[i[1]] \in Nat /\ i[1] \in Ports
         /\ GetSharedUsed(m, i) \in Nat /\ GetSharedUsed(m, i) <= m.shared
         /\ m.ingress[i] + n < U32 /\ m.hdrm[i] + n < U32
         /\ m.shared < U32 /\ m.hdrm[i] < U32 /\ m.ingress[i] < U32
         /\ GetPfcThreshold(m, i[1]) \in Nat
         /\ GetPfcThreshold(m, i[1]) <= Pool - m.shared
<1>1. /\ m.shared \in Nat /\ m.hdrm[i] \in Nat /\ m.ingress[i] \in Nat /\ n \in Nat
      /\ m.shared < U32 /\ m.hdrm[i] < U32 /\ m.ingress[i] < U32
      /\ Reserve \in Nat /\ Headroom[i[1]] \in Nat /\ i[1] \in Ports
      /\ U32 \in Nat /\ BufferSize \in Nat /\ BufferSize + n < U32
  BY BufferAssumption, SizesAssumption DEF Counters, PQ, BufferFits
<1> DEFINE f == [j \in PQ |-> GetSharedUsed(m, j)]
<1>2. \A j \in PQ : f[j] \in Nat
  BY BufferAssumption DEF Counters, GetSharedUsed
<1>3. m.shared = SumFunctionOnSet(f, PQ)
  BY DEF Sound, SumFunction
<1>4. f[i] = GetSharedUsed(m, i)
  OBVIOUS
<1> HIDE DEF f
<1>5. GetSharedUsed(m, i) \in Nat /\ GetSharedUsed(m, i) <= m.shared
  BY <1>2, <1>3, <1>4, FiniteIndices, SumNat
<1>6. Pool \in Nat /\ Reserve + Pool <= BufferSize /\ Headroom[i[1]] <= BufferSize
  BY <1>1, PoolType
<1>7. m.shared <= Pool /\ m.hdrm[i] <= Headroom[i[1]]
  BY DEF Sound
<1>8. m.ingress[i] <= Reserve + Pool
  BY <1>1, <1>5, <1>6, <1>7 DEF GetSharedUsed
<1>9. m.ingress[i] + n < U32 /\ m.hdrm[i] + n < U32
  BY <1>1, <1>6, <1>7, <1>8
<1>10. GetPfcThreshold(m, i[1]) \in Nat /\ GetPfcThreshold(m, i[1]) <= Pool - m.shared
  BY <1>1, <1>7, ThresholdType
<1> QED BY <1>1, <1>5, <1>9, <1>10

\* The sum over the ports after one of them changed.
LEMMA SharedChange ==
  ASSUME NEW m \in Counters, NEW u \in Counters, NEW i \in PQ,
         \A j \in PQ \ {i} : u.ingress[j] = m.ingress[j]
  PROVE  SumFunction([j \in PQ |-> GetSharedUsed(u, j)]) =
           SumFunction([j \in PQ |-> GetSharedUsed(m, j)])
             - GetSharedUsed(m, i) + GetSharedUsed(u, i)
<1> DEFINE f == [j \in PQ |-> GetSharedUsed(m, j)]
           g == [j \in PQ |-> GetSharedUsed(u, j)]
<1>1. \A j \in PQ : f[j] \in Int
  BY BufferAssumption DEF Counters, GetSharedUsed
<1>2. g[i] \in Int
  BY BufferAssumption DEF Counters, GetSharedUsed
<1>3. \A j \in PQ \ {i} : g[j] = f[j]
  BY DEF GetSharedUsed
<1>4. f[i] = GetSharedUsed(m, i) /\ g[i] = GetSharedUsed(u, i)
  OBVIOUS
<1>5. DOMAIN f = PQ /\ DOMAIN g = PQ
  OBVIOUS
<1> HIDE DEF f, g
<1>6. SumFunctionOnSet(g, PQ) = SumFunctionOnSet(f, PQ) - f[i] + g[i]
  BY <1>1, <1>2, <1>3, FiniteIndices, SumChange
<1> QED BY <1>4, <1>5, <1>6 DEF SumFunction, f, g

\* An admitted packet is charged once, and where there is room.
LEMMA UpdateSound ==
  ASSUME BufferFits, NEW m \in Counters, Sound(m), NEW i \in PQ, NEW n \in Sizes,
         CheckIngressAdmission(m, i, n)
  PROVE  LET u == UpdateIngressAdmission(m, i, n)
         IN  /\ Sound(u)
             /\ u.hdrm[i] + u.ingress[i] = m.hdrm[i] + m.ingress[i] + n
             /\ \A j \in PQ \ {i} : u.hdrm[j] = m.hdrm[j] /\ u.ingress[j] = m.ingress[j]
<1> DEFINE new == m.ingress[i] + n
           thr == GetPfcThreshold(m, i[1])
           used == GetSharedUsed(m, i)
           u == UpdateIngressAdmission(m, i, n)
           Good == /\ Sound(u)
                   /\ u.hdrm[i] + u.ingress[i] = m.hdrm[i] + m.ingress[i] + n
                   /\ \A j \in PQ \ {i} : u.hdrm[j] = m.hdrm[j] /\ u.ingress[j] = m.ingress[j]
<1>1. /\ m.shared \in Nat /\ m.hdrm[i] \in Nat /\ m.ingress[i] \in Nat /\ n \in Nat
      /\ Reserve \in Nat /\ Headroom[i[1]] \in Nat
      /\ used \in Nat /\ used <= m.shared
      /\ m.ingress[i] + n < U32 /\ m.hdrm[i] + n < U32
      /\ thr \in Nat /\ thr <= Pool - m.shared
  BY SoundBounds
<1>2. /\ Plus(m.ingress[i], n) = new /\ Plus(m.hdrm[i], n) = m.hdrm[i] + n
      /\ Plus(n, m.hdrm[i]) = n + m.hdrm[i]
  <2>1. n + m.hdrm[i] < U32
    BY <1>1, BufferAssumption
  <2>2. Plus(m.ingress[i], n) = m.ingress[i] + n
    BY <1>1, WordExact
  <2>3. Plus(m.hdrm[i], n) = m.hdrm[i] + n
    BY <1>1, WordExact
  <2>4. Plus(n, m.hdrm[i]) = n + m.hdrm[i]
    BY <1>1, <2>1, WordExact
  <2> QED BY <2>2, <2>3, <2>4
<1>3. u \in Counters
  BY <1>1, UpdateType
<1>4. used = IF m.ingress[i] > Reserve THEN m.ingress[i] - Reserve ELSE 0
  BY DEF GetSharedUsed
<1>5. GetSharedUsed(u, i) = IF u.ingress[i] > Reserve THEN u.ingress[i] - Reserve ELSE 0
  BY DEF GetSharedUsed
<1>6. /\ m.shared = SumFunction([j \in PQ |-> GetSharedUsed(m, j)])
      /\ m.shared <= Pool /\ Pool < U32 /\ Pool \in Nat
      /\ \A j \in PQ : m.hdrm[j] <= Headroom[j[1]]
  BY <1>1, PoolType, BufferAssumption DEF Sound
<1>7. u = IF new <= Reserve THEN [m EXCEPT !.ingress[i] = new]
          ELSE IF new - Reserve > thr THEN [m EXCEPT !.hdrm[i] = m.hdrm[i] + n]
          ELSE [m EXCEPT !.ingress[i] = new,
                         !.shared = Plus(m.shared, Least(n, new - Reserve))]
  BY <1>2 DEF UpdateIngressAdmission
<1> HIDE DEF u, used, thr
<1>8. CASE new <= Reserve
  <2>1. /\ u.ingress[i] = new /\ u.hdrm = m.hdrm /\ u.shared = m.shared
        /\ \A j \in PQ \ {i} : u.ingress[j] = m.ingress[j]
    BY <1>7, <1>8 DEF Counters
  <2>2. GetSharedUsed(u, i) = 0 /\ used = 0
    BY <1>1, <1>4, <1>5, <1>8, <2>1
  <2>3. SumFunction([j \in PQ |-> GetSharedUsed(u, j)])
          = SumFunction([j \in PQ |-> GetSharedUsed(m, j)]) - used + GetSharedUsed(u, i)
    BY <1>3, <2>1, SharedChange DEF used
  <2>4. u.shared = SumFunction([j \in PQ |-> GetSharedUsed(u, j)])
    BY <1>1, <1>6, <2>1, <2>2, <2>3
  <2>5. Sound(u)
    BY <1>6, <2>1, <2>4 DEF Sound
  <2> QED BY <1>1, <2>1, <2>5 DEF u
<1>9. CASE ~(new <= Reserve) /\ new - Reserve > thr
  <2>1. /\ u.ingress = m.ingress /\ u.hdrm[i] = m.hdrm[i] + n /\ u.shared = m.shared
        /\ \A j \in PQ \ {i} : u.hdrm[j] = m.hdrm[j]
    BY <1>7, <1>9 DEF Counters
  <2>2. n + m.hdrm[i] <= Headroom[i[1]]
    <3>1. \/ n + m.hdrm[i] <= Headroom[i[1]]
          \/ Plus(n, used) <= thr
      BY <1>2 DEF CheckIngressAdmission, used, thr
    <3>2. Plus(n, used) = n + used
      <4>1. n + used < U32
        BY <1>1, <1>4, BufferAssumption
      <4> QED BY <1>1, <4>1, WordExact
    <3> QED BY <1>1, <1>4, <1>9, <3>1, <3>2
  <2>3. SumFunction([j \in PQ |-> GetSharedUsed(u, j)])
          = SumFunction([j \in PQ |-> GetSharedUsed(m, j)])
    BY <2>1 DEF GetSharedUsed
  <2>4. \A j \in PQ : u.hdrm[j] <= Headroom[j[1]]
    BY <1>1, <1>6, <2>1, <2>2
  <2>5. Sound(u)
    BY <1>6, <2>1, <2>3, <2>4 DEF Sound
  <2> QED BY <1>1, <2>1, <2>5 DEF u
<1>10. CASE ~(new <= Reserve) /\ ~(new - Reserve > thr)
  <2> DEFINE share == Least(n, new - Reserve)
  <2>1. share \in Nat /\ share <= n /\ share <= new - Reserve
    BY <1>1, <1>10 DEF Least
  <2>2. Plus(m.shared, share) = m.shared + share /\ m.shared + share <= Pool
    <3>1. m.shared + share <= Pool
      BY <1>1, <1>6, <1>10, <2>1
    <3> HIDE DEF share
    <3>2. m.shared + share < U32
      BY <1>1, <1>6, <2>1, <3>1, BufferAssumption
    <3> QED BY <1>1, <2>1, <3>1, <3>2, WordExact
  <2>3. share = (new - Reserve) - used
    BY <1>1, <1>4, <1>10 DEF Least
  <2>4. /\ u.ingress[i] = new /\ u.hdrm = m.hdrm /\ u.shared = m.shared + share
        /\ \A j \in PQ \ {i} : u.ingress[j] = m.ingress[j]
    <3> HIDE DEF share
    <3>1. u = [m EXCEPT !.ingress[i] = new, !.shared = m.shared + share]
      BY <1>7, <1>10, <2>2 DEF share
    <3> QED BY <3>1 DEF Counters
  <2> HIDE DEF share
  <2>5. GetSharedUsed(u, i) = new - Reserve
    BY <1>1, <1>5, <1>10, <2>4
  <2>6. SumFunction([j \in PQ |-> GetSharedUsed(u, j)])
          = SumFunction([j \in PQ |-> GetSharedUsed(m, j)]) - used + GetSharedUsed(u, i)
    BY <1>3, <2>4, SharedChange DEF used
  <2>7. u.shared = SumFunction([j \in PQ |-> GetSharedUsed(u, j)])
    BY <1>1, <1>6, <2>1, <2>3, <2>4, <2>5, <2>6
  <2>8. Sound(u)
    BY <1>6, <2>2, <2>4, <2>7 DEF Sound
  <2> QED BY <1>1, <2>4, <2>8 DEF u
<1> QED BY <1>8, <1>9, <1>10

\* What is given back was charged: headroom first, then the shared pool.
LEMMA RemoveSound ==
  ASSUME BufferFits, NEW m \in Counters, Sound(m), NEW i \in PQ, NEW n \in Sizes,
         n <= m.hdrm[i] + m.ingress[i]
  PROVE  LET u == RemoveFromIngressAdmission(m, i, n)
         IN  /\ Sound(u)
             /\ u.hdrm[i] + u.ingress[i] = m.hdrm[i] + m.ingress[i] - n
             /\ \A j \in PQ \ {i} : u.hdrm[j] = m.hdrm[j] /\ u.ingress[j] = m.ingress[j]
<1> DEFINE used == GetSharedUsed(m, i)
           fromHdrm == Least(m.hdrm[i], n)
           fromShared == Least(n - fromHdrm, used)
           u == RemoveFromIngressAdmission(m, i, n)
<1>1. /\ m.shared \in Nat /\ m.hdrm[i] \in Nat /\ m.ingress[i] \in Nat /\ n \in Nat
      /\ m.shared < U32 /\ m.hdrm[i] < U32 /\ m.ingress[i] < U32
      /\ Reserve \in Nat /\ used \in Nat /\ used <= m.shared
  BY SoundBounds
<1>2. /\ m.shared = SumFunction([j \in PQ |-> GetSharedUsed(m, j)])
      /\ m.shared <= Pool /\ Pool \in Nat
      /\ \A j \in PQ : m.hdrm[j] <= Headroom[j[1]] /\ Headroom[j[1]] \in Nat
  BY PoolType, BufferAssumption DEF Sound, PQ
<1>3. used = IF m.ingress[i] > Reserve THEN m.ingress[i] - Reserve ELSE 0
  BY DEF GetSharedUsed
<1>4. u = [m EXCEPT !.hdrm[i] = Minus(m.hdrm[i], fromHdrm),
                    !.ingress[i] = Minus(m.ingress[i], n - fromHdrm),
                    !.shared = Minus(m.shared, fromShared)]
  BY DEF RemoveFromIngressAdmission
<1>5. u \in Counters
  BY <1>1, RemoveType
<1> HIDE DEF u, used
<1>6. /\ fromHdrm \in Nat /\ fromHdrm <= m.hdrm[i] /\ fromHdrm <= n
      /\ n - fromHdrm \in Nat /\ n - fromHdrm <= m.ingress[i]
  BY <1>1 DEF Least
<1> HIDE DEF fromHdrm
<1>7. fromShared \in Nat /\ fromShared <= used /\ fromShared <= m.shared
  BY <1>1, <1>6 DEF Least
<1>8. fromShared = used - (IF m.ingress[i] - (n - fromHdrm) > Reserve
                           THEN m.ingress[i] - (n - fromHdrm) - Reserve ELSE 0)
  BY <1>1, <1>3, <1>6 DEF Least
<1> HIDE DEF fromShared
<1>9. /\ Minus(m.hdrm[i], fromHdrm) = m.hdrm[i] - fromHdrm
      /\ Minus(m.ingress[i], n - fromHdrm) = m.ingress[i] - (n - fromHdrm)
      /\ Minus(m.shared, fromShared) = m.shared - fromShared
  BY <1>1, <1>6, <1>7, WordExact
<1>10. /\ u.hdrm[i] = m.hdrm[i] - fromHdrm
       /\ u.ingress[i] = m.ingress[i] - (n - fromHdrm)
       /\ u.shared = m.shared - fromShared
       /\ \A j \in PQ \ {i} : u.hdrm[j] = m.hdrm[j] /\ u.ingress[j] = m.ingress[j]
  BY <1>4, <1>9 DEF Counters
<1>11. fromShared = used - GetSharedUsed(u, i)
  BY <1>8, <1>10 DEF GetSharedUsed
<1>12. SumFunction([j \in PQ |-> GetSharedUsed(u, j)])
         = SumFunction([j \in PQ |-> GetSharedUsed(m, j)]) - used + GetSharedUsed(u, i)
  BY <1>5, <1>10, SharedChange DEF used
<1>13. GetSharedUsed(u, i) \in Int
  BY <1>5, BufferAssumption DEF Counters, GetSharedUsed
<1>14. u.shared = SumFunction([j \in PQ |-> GetSharedUsed(u, j)])
  BY <1>1, <1>2, <1>7, <1>10, <1>11, <1>12, <1>13
<1>15. \A j \in PQ : u.hdrm[j] <= Headroom[j[1]]
  <2>1. u.hdrm[i] <= Headroom[i[1]]
    BY <1>1, <1>2, <1>6, <1>10
  <2> QED BY <1>2, <1>10, <2>1
<1>16. u.shared <= Pool
  BY <1>1, <1>2, <1>7, <1>10
<1>17. Sound(u)
  BY SMTT(40), <1>14, <1>15, <1>16 DEF Sound
<1> QED BY <1>1, <1>6, <1>10, <1>17 DEF u

\* What taking a packet in does: it is refused, or charged and queued, with a
\* PAUSE frame where the headroom is touched.
LEMMA SendToDevEffect ==
  ASSUME TypeInv, NEW p \in Ports, SendToDev(p)
  PROVE  \E pkt \in Packet :
           LET i == <<p, pkt.q>>
               o == <<pkt.out, pkt.q>>
               u == UpdateIngressAdmission(mmu, i, pkt.size)
           IN  /\ wire[p] # <<>> /\ pkt = Head(wire[p])
               /\ i \in PQ /\ o \in PQ /\ u \in Counters /\ mmu \in Counters
               /\ wire' = [wire EXCEPT ![p] = Tail(@)] /\ UNCHANGED stopped
               /\ \/ /\ ~CheckIngressAdmission(mmu, i, pkt.size)
                     /\ UNCHANGED <<mmu, outq, pfc>>
                  \/ /\ CheckIngressAdmission(mmu, i, pkt.size)
                     /\ outq' = [outq EXCEPT ![o] = Append(@, [in |-> p, size |-> pkt.size])]
                     /\ mmu'.shared = u.shared /\ mmu'.ingress = u.ingress /\ mmu'.hdrm = u.hdrm
                     /\ drops' = drops
                     /\ \/ /\ ~mmu.paused[i] /\ SendPfc(i, TRUE)
                           /\ mmu'.paused = [mmu.paused EXCEPT ![i] = TRUE]
                        \/ /\ mmu.paused[i] \/ ~(u.hdrm[i] > 0)
                           /\ mmu'.paused = mmu.paused /\ UNCHANGED pfc
<1> DEFINE pkt == Head(wire[p])
           i == <<p, pkt.q>>
           o == <<pkt.out, pkt.q>>
           u == UpdateIngressAdmission(mmu, i, pkt.size)
           m == UpdateEgressAdmission(u, o, pkt.size)
<1>1. /\ wire[p] # <<>> /\ wire' = [wire EXCEPT ![p] = Tail(@)] /\ UNCHANGED stopped
      /\ wire \in [Ports -> Seq(Packet)] /\ mmu \in Counters
  BY StateTypes DEF SendToDev, TypeInv
<1>2. pkt \in Packet
  BY <1>1, HeadTailProperties
<1>3. i \in PQ /\ o \in PQ /\ pkt.size \in Nat
  BY <1>2, SizesAssumption DEF Packet, PQ
<1>4. u \in Counters /\ u.paused = mmu.paused
  BY <1>1, <1>3, UpdateType
<1>5. /\ m.shared = u.shared /\ m.ingress = u.ingress /\ m.hdrm = u.hdrm
      /\ m.paused = mmu.paused /\ m \in Counters
  <2>1. m = [u EXCEPT !.egress[o] = @ + pkt.size]
    BY DEF UpdateEgressAdmission
  <2> HIDE DEF m, u, o
  <2> QED BY SMTT(40), <1>3, <1>4, <2>1 DEF Counters
<1>6. \/ /\ ~CheckIngressAdmission(mmu, i, pkt.size)
         /\ UNCHANGED <<mmu, outq, pfc>>
      \/ /\ CheckIngressAdmission(mmu, i, pkt.size) /\ drops' = drops
         /\ outq' = [outq EXCEPT ![o] = Append(@, [in |-> p, size |-> pkt.size])]
         /\ \/ CheckShouldPause(m, i) /\ SendPfc(i, TRUE) /\ mmu' = [m EXCEPT !.paused[i] = TRUE]
            \/ ~CheckShouldPause(m, i) /\ mmu' = m /\ UNCHANGED pfc
  BY Zenon DEF SendToDev
<1> HIDE DEF m, u
<1>7. CASE /\ CheckShouldPause(m, i) /\ mmu' = [m EXCEPT !.paused[i] = TRUE]
  <2>1. /\ mmu'.shared = u.shared /\ mmu'.ingress = u.ingress /\ mmu'.hdrm = u.hdrm
        /\ mmu'.paused = [mmu.paused EXCEPT ![i] = TRUE] /\ ~mmu.paused[i]
    <3> HIDE DEF i
    <3> QED BY SMTT(40), <1>5, <1>7 DEF Counters, CheckShouldPause
  <2> QED BY Zenon, <1>1, <1>2, <1>3, <1>4, <1>6, <1>7, <2>1 DEF u
<1>8. CASE ~CheckShouldPause(m, i) /\ mmu' = m
  <2>1. mmu.paused[i] \/ ~(u.hdrm[i] > 0)
    BY <1>5, <1>8 DEF CheckShouldPause
  <2> QED BY Zenon, <1>1, <1>2, <1>3, <1>4, <1>5, <1>6, <1>8, <2>1 DEF u
<1> QED BY Zenon, <1>1, <1>2, <1>3, <1>4, <1>6, <1>7, <1>8 DEF u

\* What sending a packet on does: it is given back, with a RESUME frame at the
\* latest when nothing of its port and priority is in use.
LEMMA DequeueEffect ==
  ASSUME TypeInv, NEW o \in PQ, Dequeue(o)
  PROVE  \E pkt \in Entry :
           LET i == <<pkt.in, o[2]>>
               u == RemoveFromIngressAdmission(mmu, i, pkt.size)
           IN  /\ outq[o] # <<>> /\ pkt = Head(outq[o])
               /\ i \in PQ /\ u \in Counters /\ mmu \in Counters
               /\ UNCHANGED <<wire, stopped, drops>>
               /\ outq' = [outq EXCEPT ![o] = Tail(@)]
               /\ mmu'.shared = u.shared /\ mmu'.ingress = u.ingress /\ mmu'.hdrm = u.hdrm
               /\ \/ /\ mmu.paused[i] /\ u.hdrm[i] = 0 /\ SendPfc(i, FALSE)
                     /\ mmu'.paused = [mmu.paused EXCEPT ![i] = FALSE]
                  \/ /\ ~(mmu.paused[i] /\ u.hdrm[i] = 0 /\ GetSharedUsed(u, i) = 0)
                     /\ mmu'.paused = mmu.paused /\ UNCHANGED pfc
<1> DEFINE pkt == Head(outq[o])
           i == <<pkt.in, o[2]>>
           u == RemoveFromIngressAdmission(mmu, i, pkt.size)
           m == RemoveFromEgressAdmission(u, o, pkt.size)
<1>1. /\ outq[o] # <<>> /\ outq' = [outq EXCEPT ![o] = Tail(@)]
      /\ outq \in [PQ -> Seq(Entry)] /\ mmu \in Counters
      /\ UNCHANGED <<wire, stopped, drops>>
  BY StateTypes DEF Dequeue, TypeInv
<1>2. pkt \in Entry
  BY <1>1, HeadTailProperties
<1>3. i \in PQ /\ pkt.size \in Nat
  BY <1>2, SizesAssumption DEF Entry, PQ
<1>4. u \in Counters /\ u.paused = mmu.paused
  BY <1>1, <1>3, RemoveType
<1>5. /\ m.shared = u.shared /\ m.ingress = u.ingress /\ m.hdrm = u.hdrm
      /\ m.paused = mmu.paused /\ m \in Counters
  <2>1. m = [u EXCEPT !.egress[o] = @ - pkt.size]
    BY DEF RemoveFromEgressAdmission
  <2> HIDE DEF m, u
  <2> QED BY <1>3, <1>4, <2>1 DEF Counters
<1>6. \/ CheckShouldResume(m, i) /\ SendPfc(i, FALSE) /\ mmu' = [m EXCEPT !.paused[i] = FALSE]
      \/ ~CheckShouldResume(m, i) /\ mmu' = m /\ UNCHANGED pfc
  BY DEF Dequeue
<1> HIDE DEF m, u
<1>7. GetSharedUsed(m, i) = GetSharedUsed(u, i)
  BY <1>5 DEF GetSharedUsed
<1>8. CASE /\ CheckShouldResume(m, i) /\ mmu' = [m EXCEPT !.paused[i] = FALSE]
           /\ SendPfc(i, FALSE)
  <2>1. /\ mmu'.shared = u.shared /\ mmu'.ingress = u.ingress /\ mmu'.hdrm = u.hdrm
        /\ mmu'.paused = [mmu.paused EXCEPT ![i] = FALSE]
        /\ mmu.paused[i] /\ u.hdrm[i] = 0
    <3> HIDE DEF i
    <3> QED BY <1>5, <1>8 DEF Counters, CheckShouldResume
  <2> QED BY <1>1, <1>2, <1>3, <1>4, <1>8, <2>1 DEF u
<1>9. CASE ~CheckShouldResume(m, i) /\ mmu' = m /\ UNCHANGED pfc
  <2>1. ~(mmu.paused[i] /\ u.hdrm[i] = 0 /\ GetSharedUsed(u, i) = 0)
    BY <1>5, <1>7, <1>9 DEF CheckShouldResume
  <2> QED BY <1>1, <1>2, <1>3, <1>4, <1>5, <1>9, <2>1 DEF u
<1> QED BY <1>6, <1>8, <1>9

\* Every byte of a port and priority is counted once, soundly.
Counted ==
  BufferFits => /\ Sound(mmu)
                /\ \A i \in PQ : mmu.hdrm[i] + mmu.ingress[i] = QueuedFrom(i)

\* Soundness reads three of the counters.
LEMMA SoundReads ==
  ASSUME NEW m, NEW u, Sound(u),
         m.shared = u.shared, m.ingress = u.ingress, m.hdrm = u.hdrm
  PROVE  Sound(m)
<1>1. \A i \in PQ : GetSharedUsed(m, i) = GetSharedUsed(u, i)
  BY DEF GetSharedUsed
<1>2. [i \in PQ |-> GetSharedUsed(m, i)] = [i \in PQ |-> GetSharedUsed(u, i)]
  BY <1>1
<1> QED BY <1>2 DEF Sound

\* An arrival keeps the ingress counters exact: headroom, reserve and shared
\* bytes of a port and queue add up to what of it is queued.
LEMMA SendToDevCounted ==
  ASSUME TypeInv, Counted, NEW p \in Ports, SendToDev(p)
  PROVE  Counted'
<1> SUFFICES ASSUME BufferFits
             PROVE  /\ Sound(mmu)'
                    /\ \A j \in PQ : mmu'.hdrm[j] + mmu'.ingress[j] = QueuedFrom(j)'
  BY DEF Counted, BufferFits
<1>1. Sound(mmu) /\ \A j \in PQ : mmu.hdrm[j] + mmu.ingress[j] = QueuedFrom(j)
  BY DEF Counted
<1>2. PICK pkt \in Packet :
           LET i == <<p, pkt.q>>
               o == <<pkt.out, pkt.q>>
               u == UpdateIngressAdmission(mmu, i, pkt.size)
           IN  /\ i \in PQ /\ o \in PQ /\ u \in Counters /\ mmu \in Counters
               /\ \/ UNCHANGED <<mmu, outq, pfc>>
                  \/ /\ CheckIngressAdmission(mmu, i, pkt.size)
                     /\ outq' = [outq EXCEPT ![o] = Append(@, [in |-> p, size |-> pkt.size])]
                     /\ mmu'.shared = u.shared /\ mmu'.ingress = u.ingress /\ mmu'.hdrm = u.hdrm
  BY SendToDevEffect
<1> DEFINE i == <<p, pkt.q>>
           o == <<pkt.out, pkt.q>>
           u == UpdateIngressAdmission(mmu, i, pkt.size)
           e == [in |-> p, size |-> pkt.size]
<1>3. CASE UNCHANGED <<mmu, outq, pfc>>
  BY <1>1, <1>3 DEF QueuedFrom
<1>4. CASE /\ CheckIngressAdmission(mmu, i, pkt.size)
           /\ outq' = [outq EXCEPT ![o] = Append(@, e)]
           /\ mmu'.shared = u.shared /\ mmu'.ingress = u.ingress /\ mmu'.hdrm = u.hdrm
  <2>1. /\ i \in PQ /\ o \in PQ /\ mmu \in Counters /\ pkt.size \in Sizes /\ e \in Entry
        /\ outq \in [PQ -> Seq(Entry)]
    BY <1>2, StateTypes DEF Packet, Entry, TypeInv
  <2>2. /\ Sound(u)
        /\ u.hdrm[i] + u.ingress[i] = mmu.hdrm[i] + mmu.ingress[i] + pkt.size
        /\ \A j \in PQ \ {i} : u.hdrm[j] = mmu.hdrm[j] /\ u.ingress[j] = mmu.ingress[j]
    BY <1>1, <1>4, <2>1, UpdateSound
  <2>3. Sound(mmu')
    <3> HIDE DEF u
    <3> QED BY <1>4, <2>2, SoundReads
  <2>4. \A j \in PQ : QueuedFrom(j)' = QueuedFrom(j) + IF j = i THEN pkt.size ELSE 0
    <3>1. i = <<e.in, o[2]>> /\ e.size = pkt.size
      OBVIOUS
    <3> HIDE DEF o, i, e
    <3> QED BY <1>4, <2>1, <3>1, QueuedAppend
  <2>5. \A j \in PQ : QueuedFrom(j) \in Nat
    BY <2>1, QueuedType
  <2> HIDE DEF u, i
  <2>6. \A j \in PQ : mmu'.hdrm[j] + mmu'.ingress[j] = QueuedFrom(j)'
    <3>1. mmu'.hdrm[i] + mmu'.ingress[i] = QueuedFrom(i)'
      BY <1>1, <1>4, <2>1, <2>2, <2>4
    <3>2. \A j \in PQ \ {i} : mmu'.hdrm[j] + mmu'.ingress[j] = QueuedFrom(j)'
      BY <1>1, <1>4, <2>1, <2>2, <2>4, <2>5
    <3> QED BY <3>1, <3>2
  <2> QED BY <2>3, <2>6
<1> QED BY <1>2, <1>3, <1>4

\* A departure keeps the ingress counters exact.
LEMMA DequeueCounted ==
  ASSUME TypeInv, Counted, NEW o \in PQ, Dequeue(o)
  PROVE  Counted'
<1> SUFFICES ASSUME BufferFits
             PROVE  /\ Sound(mmu)'
                    /\ \A j \in PQ : mmu'.hdrm[j] + mmu'.ingress[j] = QueuedFrom(j)'
  BY DEF Counted, BufferFits
<1>1. Sound(mmu) /\ \A j \in PQ : mmu.hdrm[j] + mmu.ingress[j] = QueuedFrom(j)
  BY DEF Counted
<1>2. PICK pkt \in Entry :
           LET i == <<pkt.in, o[2]>>
               u == RemoveFromIngressAdmission(mmu, i, pkt.size)
           IN  /\ outq[o] # <<>> /\ pkt = Head(outq[o])
               /\ i \in PQ /\ u \in Counters /\ mmu \in Counters
               /\ outq' = [outq EXCEPT ![o] = Tail(@)]
               /\ mmu'.shared = u.shared /\ mmu'.ingress = u.ingress /\ mmu'.hdrm = u.hdrm
  BY DequeueEffect
<1> DEFINE i == <<pkt.in, o[2]>>
           u == RemoveFromIngressAdmission(mmu, i, pkt.size)
<1>3. /\ i \in PQ /\ mmu \in Counters /\ pkt.size \in Sizes /\ pkt.size \in Nat
      /\ outq \in [PQ -> Seq(Entry)] /\ outq' \in [PQ -> Seq(Entry)]
  <2>1. outq \in [PQ -> Seq(Entry)]
    BY StateTypes DEF TypeInv
  <2>2. Tail(outq[o]) \in Seq(Entry)
    BY <1>2, <2>1, HeadTailProperties
  <2> QED BY <1>2, <2>1, <2>2, SizesAssumption DEF Entry
<1>4. \A j \in PQ : QueuedFrom(j) = QueuedFrom(j)' + IF j = i THEN pkt.size ELSE 0
  BY <1>2, <1>3, QueuedTail
<1>5. \A j \in PQ : QueuedFrom(j)' \in Nat
  <2>1. (outq \in [PQ -> Seq(Entry)])' => \A j \in PQ : QueuedFrom(j)' \in Nat
    <3> DEFINE f(j) == [q \in Ports |-> BytesFrom(outq'[q, j[2]], j[1])]
    <3> SUFFICES ASSUME outq' \in [PQ -> Seq(Entry)], NEW j \in PQ PROVE QueuedFrom(j)' \in Nat
      OBVIOUS
    <3>1. \A q \in Ports : f(j)[q] \in Nat
      BY BytesType DEF PQ
    <3>2. QueuedFrom(j)' = SumFunctionOnSet(f(j), Ports)
      BY DEF QueuedFrom, SumFunction
    <3> HIDE DEF f
    <3> QED BY <3>1, <3>2, FiniteIndices, SumNat
  <2> QED BY <1>3, <2>1
<1>6. pkt.size <= mmu.hdrm[i] + mmu.ingress[i]
  BY <1>1, <1>3, <1>4, <1>5
<1>7. /\ Sound(u)
      /\ u.hdrm[i] + u.ingress[i] = mmu.hdrm[i] + mmu.ingress[i] - pkt.size
      /\ \A j \in PQ \ {i} : u.hdrm[j] = mmu.hdrm[j] /\ u.ingress[j] = mmu.ingress[j]
  BY <1>1, <1>3, <1>6, RemoveSound
<1>8. Sound(mmu')
  <2> HIDE DEF u
  <2> QED BY <1>2, <1>7, SoundReads DEF u
<1>9. mmu'.hdrm = u.hdrm /\ mmu'.ingress = u.ingress
  BY <1>2
<1> HIDE DEF u, i
<1>10. mmu'.hdrm[i] + mmu'.ingress[i] = QueuedFrom(i)'
  <2>1. mmu.hdrm[i] + mmu.ingress[i] = QueuedFrom(i)' + pkt.size /\ QueuedFrom(i)' \in Nat
    BY <1>1, <1>3, <1>4, <1>5
  <2>2. mmu.hdrm[i] \in Int /\ mmu.ingress[i] \in Int
    BY <1>3 DEF Counters
  <2>3. u.hdrm[i] + u.ingress[i] = mmu.hdrm[i] + mmu.ingress[i] - pkt.size /\ pkt.size \in Nat
    BY <1>3, <1>7
  <2>4. u.hdrm[i] + u.ingress[i] = QueuedFrom(i)'
    BY <2>1, <2>2, <2>3
  <2> QED BY <1>9, <2>4
<1>11. \A j \in PQ \ {i} : mmu'.hdrm[j] + mmu'.ingress[j] = QueuedFrom(j)'
  BY <1>1, <1>3, <1>4, <1>5, <1>7, <1>9
<1> QED BY <1>8, <1>10, <1>11

\* Every step keeps the ingress counters exact.
LEMMA NextCounted == TypeInv /\ Counted /\ [Next]_vars => Counted'
<1> SUFFICES ASSUME TypeInv, Counted, [Next]_vars PROVE Counted'
  OBVIOUS
<1>1. CASE UNCHANGED <<mmu, outq>>
  BY <1>1 DEF Counted, QueuedFrom
<1>2. ASSUME NEW p \in Ports, SendToDev(p) PROVE Counted'
  BY <1>2, SendToDevCounted
<1>3. ASSUME NEW o \in PQ, Dequeue(o) PROVE Counted'
  BY <1>3, DequeueCounted
<1> QED BY <1>1, <1>2, <1>3
        DEF Next, vars, NeighbourSends, NeighbourReceivesPfc, ReceivePause, Resume

\* In an empty switch nothing is counted.
LEMMA InitCounted == Init => Counted
<1> SUFFICES ASSUME Init, BufferFits
             PROVE  Sound(mmu) /\ \A i \in PQ : mmu.hdrm[i] + mmu.ingress[i] = QueuedFrom(i)
  BY DEF Counted
<1>1. \A S, f : IsFiniteSet(S) /\ (\A x \in S : f[x] = 0) => SumFunctionOnSet(f, S) = 0
  <2> SUFFICES ASSUME NEW S, NEW f, IsFiniteSet(S), \A x \in S : f[x] = 0
               PROVE  SumFunctionOnSet(f, S) = 0
    OBVIOUS
  <2>1. Cardinality(S) \in Nat
    BY FS_CardinalityType
  <2>2. SumFunctionOnSet(f, S) \in Nat /\ SumFunctionOnSet(f, S) <= 0 * Cardinality(S)
    BY SumNat, SumBound
  <2> QED BY <2>1, <2>2
<1>2. \A i \in PQ : GetSharedUsed(mmu, i) = 0 /\ mmu.hdrm[i] = 0 /\ mmu.ingress[i] = 0
  BY BufferAssumption DEF Init, GetSharedUsed
<1> DEFINE f == [i \in PQ |-> GetSharedUsed(mmu, i)]
<1>3. (\A i \in PQ : f[i] = 0) /\ DOMAIN f = PQ
  BY <1>2
<1> HIDE DEF f
<1>4. SumFunction(f) = 0
  BY <1>1, <1>3, FiniteIndices DEF SumFunction
<1>5. Sound(mmu)
  BY <1>2, <1>4, PoolType, BufferAssumption DEF Sound, Init, PQ, f
<1>6. ASSUME NEW i \in PQ PROVE QueuedFrom(i) = 0
  <2> DEFINE g == [p \in Ports |-> BytesFrom(outq[p, i[2]], i[1])]
  <2>1. (\A p \in Ports : g[p] = 0) /\ DOMAIN g = Ports
    BY BytesEmpty DEF Init, PQ
  <2> HIDE DEF g
  <2>2. SumFunction(g) = 0
    BY <1>1, <2>1, FiniteIndices DEF SumFunction
  <2> QED BY <2>2 DEF QueuedFrom, g
<1> QED BY <1>2, <1>5, <1>6

\* SwitchMmu's counters say what is in the queues: bytes that were charged to
\* headroom, reserve and shared pool are given back in another order, and still
\* no counter ever drifts.
THEOREM AccountingCorrect == Spec => []Accounting
<1>1. TypeInv /\ Counted => Accounting
  BY DEF TypeInv, Counted, Accounting, EgressCounted, Sound
<1>2. Spec => []TypeInv
  BY TypedCorrect
<1>3. Spec => []Counted
  BY <1>2, InitCounted, NextCounted, PTL DEF Spec
<1> QED BY <1>1, <1>2, <1>3, PTL

\* What a port uses beyond its reserve is within the pool.
LEMMA IngressFits ==
  ASSUME TypeInv, Counted, BufferFits, NEW i \in PQ
  PROVE  mmu.ingress[i] <= Reserve + Pool
<1>1. mmu \in Counters /\ Sound(mmu)
  BY StateTypes DEF Counted, TypeInv
<1>2. GetSharedUsed(mmu, i) \in Nat /\ GetSharedUsed(mmu, i) <= mmu.shared
  <2>1. PICK n \in Sizes : TRUE
    BY SizesAssumption
  <2> QED BY <1>1, <2>1, SoundBounds
<1>3. mmu.ingress[i] \in Nat /\ mmu.shared \in Nat /\ Pool \in Nat /\ Reserve \in Nat
  BY <1>1, PoolType, BufferAssumption DEF Counters
<1>4. mmu.shared <= Pool
  BY <1>1 DEF Sound
<1> QED BY <1>2, <1>3, <1>4 DEF GetSharedUsed

\* In every reachable state the variables have their types, no egress counter is
\* below 0, and no ingress counter has wrapped: what CheckIngressAdmission
\* lets in is given back byte for byte, so that even the counter that several
\* calls add to and take from stays within the reserve and the pool.
THEOREM TypeCorrect == Spec => []TypeOK
<1>1. TypeInv /\ Counted => TypeOK
  BY IngressFits DEF TypeInv, TypeOK
<1>2. Spec => []TypeInv
  BY TypedCorrect
<1>3. Spec => []Counted
  BY <1>2, InitCounted, NextCounted, PTL DEF Spec
<1> QED BY <1>1, <1>2, <1>3, PTL

\* Neither the shared pool nor a headroom is overdrawn.
THEOREM WithinLimitsCorrect == Spec => []WithinLimits
<1>1. Counted => WithinLimits
  BY DEF Counted, WithinLimits, Sound
<1>2. Spec => []TypeInv
  BY TypedCorrect
<1>3. Spec => []Counted
  BY <1>2, InitCounted, NextCounted, PTL DEF Spec
<1> QED BY <1>1, <1>3, PTL

\* A port whose headroom is in use is paused; one that is paused has something in
\* the switch that will resume it when it leaves.
LEMMA SendToDevCause ==
  ASSUME TypeInv, Counted, Counted', PauseHasCause, NEW p \in Ports, SendToDev(p)
  PROVE  PauseHasCause'
<1>1. PICK pkt \in Packet :
           LET i == <<p, pkt.q>>
               o == <<pkt.out, pkt.q>>
               u == UpdateIngressAdmission(mmu, i, pkt.size)
           IN  /\ i \in PQ /\ o \in PQ /\ u \in Counters /\ mmu \in Counters
               /\ \/ UNCHANGED <<mmu, outq, pfc>>
                  \/ /\ CheckIngressAdmission(mmu, i, pkt.size)
                     /\ outq' = [outq EXCEPT ![o] = Append(@, [in |-> p, size |-> pkt.size])]
                     /\ mmu'.hdrm = u.hdrm
                     /\ \/ mmu'.paused = [mmu.paused EXCEPT ![i] = TRUE]
                        \/ /\ mmu.paused[i] \/ ~(u.hdrm[i] > 0)
                           /\ mmu'.paused = mmu.paused
  BY SendToDevEffect
<1> DEFINE i == <<p, pkt.q>>
           o == <<pkt.out, pkt.q>>
           u == UpdateIngressAdmission(mmu, i, pkt.size)
           e == [in |-> p, size |-> pkt.size]
<1>2. CASE UNCHANGED <<mmu, outq, pfc>>
  BY <1>2 DEF PauseHasCause, QueuedFrom, BufferFits
<1>3. CASE /\ outq' = [outq EXCEPT ![o] = Append(@, e)] /\ mmu'.hdrm = u.hdrm
           /\ \/ mmu'.paused = [mmu.paused EXCEPT ![i] = TRUE]
              \/ /\ mmu.paused[i] \/ ~(u.hdrm[i] > 0)
                 /\ mmu'.paused = mmu.paused
  <2>1. /\ i \in PQ /\ o \in PQ /\ mmu \in Counters /\ pkt.size \in Nat \ {0} /\ e \in Entry
        /\ outq \in [PQ -> Seq(Entry)]
    BY <1>1, StateTypes, SizesAssumption DEF Packet, Entry, TypeInv
  <2>2. \A j \in PQ : QueuedFrom(j)' = QueuedFrom(j) + IF j = i THEN pkt.size ELSE 0
    <3>1. i = <<e.in, o[2]>> /\ e.size = pkt.size
      OBVIOUS
    <3> HIDE DEF o, i, e
    <3>2. outq' = [outq EXCEPT ![o] = Append(@, e)]
      BY <1>3
    <3>3. SUFFICES ASSUME NEW j \in PQ
                   PROVE  QueuedFrom(j)' = QueuedFrom(j) + IF j = i THEN pkt.size ELSE 0
      OBVIOUS
    <3>4. QueuedFrom(j)' = QueuedFrom(j) + IF j = <<e.in, o[2]>> THEN e.size ELSE 0
      BY <2>1, <3>2, QueuedAppend
    <3> QED BY <3>1, <3>4
  <2>3. \A j \in PQ : QueuedFrom(j) \in Nat
    BY <2>1, QueuedType
  <2>4. \A j \in PQ \ {i} : u.hdrm[j] = mmu.hdrm[j]
    BY DEF UpdateIngressAdmission, Counters
  <2>5. \/ mmu'.paused = [mmu.paused EXCEPT ![i] = TRUE]
        \/ /\ mmu.paused[i] \/ ~(u.hdrm[i] > 0)
           /\ mmu'.paused = mmu.paused
    BY <1>3
  <2>6. mmu.paused \in [PQ -> BOOLEAN]
    BY <2>1 DEF Counters
  <2> HIDE DEF i, u, e, o
  <2>7. ASSUME NEW j \in PQ, j # i
        PROVE  /\ mmu'.hdrm[j] > 0 => mmu'.paused[j]
               /\ BufferFits /\ mmu'.paused[j] => QueuedFrom(j)' > 0
    <3>1. mmu'.paused[j] = mmu.paused[j] /\ mmu'.hdrm[j] = mmu.hdrm[j]
      BY <1>3, <2>4, <2>5, <2>6, <2>7
    <3>2. QueuedFrom(j)' = QueuedFrom(j)
      BY <2>2, <2>3, <2>7
    <3> QED BY <3>1, <3>2 DEF PauseHasCause
  <2>8. mmu'.hdrm[i] > 0 => mmu'.paused[i]
    BY <1>3, <2>1, <2>5, <2>6
  <2>9. QueuedFrom(i)' > 0
    BY <2>1, <2>2, <2>3
  <2>10. ASSUME NEW j \in PQ
         PROVE  /\ mmu'.hdrm[j] > 0 => mmu'.paused[j]
                /\ BufferFits /\ mmu'.paused[j] => QueuedFrom(j)' > 0
    BY <2>7, <2>8, <2>9
  <2> QED BY <2>10 DEF PauseHasCause, BufferFits
<1> QED BY <1>1, <1>2, <1>3

\* A departure keeps every pause justified: it resumes the port and queue, or it
\* leaves bytes of it in the switch.
LEMMA DequeueCause ==
  ASSUME TypeInv, Counted, Counted', PauseHasCause, NEW o \in PQ, Dequeue(o)
  PROVE  PauseHasCause'
<1>1. PICK pkt \in Entry :
           LET i == <<pkt.in, o[2]>>
               u == RemoveFromIngressAdmission(mmu, i, pkt.size)
           IN  /\ outq[o] # <<>> /\ pkt = Head(outq[o])
               /\ i \in PQ /\ u \in Counters /\ mmu \in Counters
               /\ outq' = [outq EXCEPT ![o] = Tail(@)]
               /\ mmu'.shared = u.shared /\ mmu'.ingress = u.ingress /\ mmu'.hdrm = u.hdrm
               /\ \/ /\ mmu.paused[i] /\ u.hdrm[i] = 0
                     /\ mmu'.paused = [mmu.paused EXCEPT ![i] = FALSE]
                  \/ /\ ~(mmu.paused[i] /\ u.hdrm[i] = 0 /\ GetSharedUsed(u, i) = 0)
                     /\ mmu'.paused = mmu.paused
  BY DequeueEffect
<1> DEFINE i == <<pkt.in, o[2]>>
           u == RemoveFromIngressAdmission(mmu, i, pkt.size)
           n == Least(mmu.hdrm[i], pkt.size)
<1>2. /\ i \in PQ /\ mmu \in Counters /\ u \in Counters /\ pkt.size \in Nat
      /\ outq \in [PQ -> Seq(Entry)] /\ mmu.paused \in [PQ -> BOOLEAN]
      /\ \A j \in PQ : mmu.hdrm[j] \in Nat /\ u.hdrm[j] \in Nat /\ u.ingress[j] \in Nat
  <2>1. mmu.paused \in [PQ -> BOOLEAN]
    BY <1>1 DEF Counters
  <2> HIDE DEF u, i
  <2>2. \A m \in Counters : \A j \in PQ : m.hdrm[j] \in Nat /\ m.ingress[j] \in Nat
    BY BufferAssumption DEF Counters
  <2>3. u \in Counters /\ mmu \in Counters
    BY <1>1 DEF u, i
  <2>4. \A j \in PQ : mmu.hdrm[j] \in Nat /\ u.hdrm[j] \in Nat /\ u.ingress[j] \in Nat
    BY <2>2, <2>3
  <2>5. outq \in [PQ -> Seq(Entry)] /\ pkt.size \in Nat
    BY StateTypes, SizesAssumption DEF Entry, TypeInv
  <2> QED BY <1>1, <2>1, <2>3, <2>4, <2>5 DEF i
<1>3. u = [mmu EXCEPT !.hdrm[i] = Minus(mmu.hdrm[i], n),
                      !.ingress[i] = Minus(mmu.ingress[i], pkt.size - n),
                      !.shared = Minus(mmu.shared, Least(pkt.size - n, GetSharedUsed(mmu, i)))]
  BY DEF RemoveFromIngressAdmission
<1>4. \A j \in PQ : QueuedFrom(j) = QueuedFrom(j)' + IF j = i THEN pkt.size ELSE 0
  BY <1>1, <1>2, QueuedTail
<1>5. n \in Nat /\ n <= mmu.hdrm[i]
  BY <1>2 DEF Least
<1>6. u.hdrm[i] = mmu.hdrm[i] - n
  <2> HIDE DEF n, u, i
  <2>1. mmu.hdrm[i] < U32
    <3>1. \A m \in Counters : \A j \in PQ : m.hdrm[j] < U32
      BY BufferAssumption DEF Counters
    <3> QED BY <1>2, <3>1
  <2>2. Minus(mmu.hdrm[i], n) = mmu.hdrm[i] - n
    BY <1>2, <1>5, <2>1, WordExact
  <2> QED BY <1>2, <1>3, <2>2 DEF Counters
<1>7. \A j \in PQ \ {i} : u.hdrm[j] = mmu.hdrm[j]
  <2> HIDE DEF u, i, n
  <2> QED BY <1>2, <1>3 DEF Counters
<1>8. /\ mmu'.hdrm = u.hdrm /\ mmu'.ingress = u.ingress
      /\ \/ /\ mmu.paused[i] /\ u.hdrm[i] = 0
            /\ mmu'.paused = [mmu.paused EXCEPT ![i] = FALSE]
         \/ /\ ~(mmu.paused[i] /\ u.hdrm[i] = 0 /\ GetSharedUsed(u, i) = 0)
            /\ mmu'.paused = mmu.paused
  BY <1>1
<1> HIDE DEF i, u, n
<1>9. ASSUME NEW j \in PQ, j # i
      PROVE  /\ mmu'.hdrm[j] > 0 => mmu'.paused[j]
             /\ BufferFits /\ mmu'.paused[j] => QueuedFrom(j)' > 0
  <2>1. mmu'.paused[j] = mmu.paused[j] /\ mmu'.hdrm[j] = mmu.hdrm[j]
    BY <1>2, <1>7, <1>8, <1>9
  <2>2. BufferFits /\ mmu'.paused[j] => QueuedFrom(j) > 0
    BY <2>1 DEF PauseHasCause
  <2>3. BufferFits => QueuedFrom(j) = QueuedFrom(j)'
    <3>1. BufferFits => mmu'.hdrm[j] + mmu'.ingress[j] = QueuedFrom(j)'
      BY DEF Counted, BufferFits
    <3>2. mmu'.hdrm[j] + mmu'.ingress[j] \in Nat
      BY <1>2, <1>8
    <3> QED BY <1>4, <1>9, <3>1, <3>2
  <2> QED BY <2>1, <2>2, <2>3 DEF PauseHasCause
<1>10. mmu'.hdrm[i] > 0 => mmu'.paused[i]
  <2>1. mmu.hdrm[i] > 0 => mmu.paused[i]
    BY <1>2 DEF PauseHasCause
  <2> QED BY <1>2, <1>5, <1>6, <1>8, <2>1
<1>11. ASSUME BufferFits, mmu'.paused[i], ~(QueuedFrom(i)' > 0)
       PROVE  FALSE
  <2>1. u.hdrm[i] + u.ingress[i] = QueuedFrom(i)'
    BY <1>2, <1>8, <1>11 DEF Counted, BufferFits
  <2>2. u.hdrm[i] = 0 /\ u.ingress[i] = 0
    BY <1>2, <1>11, <2>1
  <2>3. GetSharedUsed(u, i) = 0
    BY <2>2, BufferAssumption DEF GetSharedUsed
  <2>4. mmu.paused[i]
    BY <1>2, <1>8, <1>11
  <2> QED BY <1>2, <1>8, <1>11, <2>2, <2>3, <2>4
<1>12. ASSUME NEW j \in PQ
       PROVE  /\ mmu'.hdrm[j] > 0 => mmu'.paused[j]
              /\ BufferFits /\ mmu'.paused[j] => QueuedFrom(j)' > 0
  BY <1>9, <1>10, <1>11
<1> QED BY <1>12 DEF PauseHasCause, BufferFits

\* Every step keeps every pause justified.
LEMMA NextCause ==
  TypeInv /\ Counted /\ Counted' /\ PauseHasCause /\ [Next]_vars => PauseHasCause'
<1> SUFFICES ASSUME TypeInv, Counted, Counted', PauseHasCause, [Next]_vars
             PROVE  PauseHasCause'
  OBVIOUS
<1>1. CASE UNCHANGED <<mmu, outq>>
  BY <1>1 DEF PauseHasCause, QueuedFrom, BufferFits
<1>2. ASSUME NEW p \in Ports, SendToDev(p) PROVE PauseHasCause'
  BY <1>2, SendToDevCause
<1>3. ASSUME NEW o \in PQ, Dequeue(o) PROVE PauseHasCause'
  BY <1>3, DequeueCause
<1> QED BY <1>1, <1>2, <1>3
        DEF Next, vars, NeighbourSends, NeighbourReceivesPfc, ReceivePause, Resume

\* The resume is looked for only when a packet leaves, and that is enough: a
\* paused port and priority always has a packet in the switch; and a headroom
\* that is in use always stands behind a pause.
THEOREM PauseHasCauseCorrect == Spec => []PauseHasCause
<1>1. Init => PauseHasCause
  BY DEF Init, PauseHasCause
<1>2. Spec => []TypeInv
  BY TypedCorrect
<1>3. Spec => []Counted
  BY <1>2, InitCounted, NextCounted, PTL DEF Spec
<1> QED BY <1>1, <1>2, <1>3, NextCause, PTL DEF Spec

-------------------------------------------------------------------------------
\* No loss.  A paused port and priority still has to take what is on the link
\* and what the neighbour starts before the last PAUSE reaches it; counting each
\* of these packets at the largest size, that fits in the headroom.

LargestSize == CHOOSE size \in Sizes : \A other \in Sizes : other <= size

\* What the packets of priority q in s can be charged at most.
Load(s, q) == SumFunction([k \in DOMAIN s |-> IF s[k].q = q THEN LargestSize ELSE 0])

Claim == LargestSize * (WireCap + PfcLag)
Spare(age) == LargestSize * (PfcLag - age)

Last(i, k) == k \in Frames(i) /\ \A j \in Frames(i) : j <= k

Claimed(i) ==
  mmu.paused[i] =>
    /\ mmu.hdrm[i] + Load(wire[i[1]], i[2]) <= Claim
    /\ \A k \in Frames(i) :
         Last(i, k) => mmu.hdrm[i] + Load(wire[i[1]], i[2]) + Spare(pfc[i[1]][k].age) <= Claim
HeadroomClaimed == \A i \in PQ : Claimed(i)

\* The link holds no more than it can, and only the ports of a route are sent to.
WireKept ==
  \A p \in Ports : Len(wire[p]) <= WireCap /\ (wire[p] # <<>> => \E r \in Routes : r[1] = p)

\* The largest size is one of the sizes.
LEMMA LargestType ==
  /\ LargestSize \in Nat \ {0} /\ LargestSize \in Sizes
  /\ \A size \in Sizes : size \in Nat \ {0} /\ size <= LargestSize
BY SizesAssumption DEF LargestSize

\* How the claim is shared out: every packet on the link, and every packet the
\* neighbour may still start, has its part.
LEMMA ClaimParts ==
  /\ Claim \in Nat /\ Claim = LargestSize * WireCap + Spare(0)
  /\ LargestSize * WireCap \in Nat
  /\ \A age \in 0 .. PfcLag : Spare(age) \in Nat /\ Spare(age + 1) = Spare(age) - LargestSize
  /\ \A age \in 0 .. PfcLag : age < PfcLag => LargestSize <= Spare(age)
  /\ \A n \in Nat : n < WireCap => LargestSize * n + LargestSize <= LargestSize * WireCap
<1>1. LargestSize \in Nat \ {0} /\ WireCap \in Nat /\ PfcLag \in Nat
  BY LargestType, LinkAssumption
<1>2. \A m, a, b \in Int : m * (a + b) = m * a + m * b
  OBVIOUS
<1>3. \A m, a \in Nat : m * a \in Nat
  OBVIOUS
<1>4. \A m \in Nat : \A a, b \in Nat : a <= b => m * a <= m * b
  <2> SUFFICES ASSUME NEW m \in Nat, NEW a \in Nat, NEW b \in Nat, a <= b
               PROVE  m * a <= m * b
    OBVIOUS
  <2> DEFINE d == b - a
  <2>1. d \in Nat /\ b = a + d
    OBVIOUS
  <2> HIDE DEF d
  <2>2. m * b = m * a + m * d /\ m * d \in Nat /\ m * a \in Nat
    BY <1>2, <1>3, <2>1
  <2> QED BY <2>2
<1>5. Claim \in Nat /\ Claim = LargestSize * WireCap + Spare(0) /\ LargestSize * WireCap \in Nat
  <2>1. WireCap + PfcLag \in Nat /\ PfcLag - 0 = PfcLag
    BY <1>1
  <2> QED BY <1>1, <1>2, <1>3, <2>1 DEF Claim, Spare
<1>6. ASSUME NEW age \in 0 .. PfcLag
      PROVE  /\ Spare(age) \in Nat /\ Spare(age + 1) = Spare(age) - LargestSize
             /\ age < PfcLag => LargestSize <= Spare(age)
  <2> DEFINE d == PfcLag - age
  <2>1. d \in Nat /\ PfcLag - (age + 1) = d + (-1) /\ d + (-1) \in Int
    BY <1>1
  <2>2. Spare(age) = LargestSize * d /\ Spare(age + 1) = LargestSize * (d + (-1))
    BY <2>1 DEF Spare
  <2>3. age < PfcLag => 1 <= d
    BY <1>1
  <2> HIDE DEF d
  <2>4. LargestSize * (d + (-1)) = LargestSize * d + LargestSize * (-1)
    BY <1>1, <1>2, <2>1
  <2>5. LargestSize * (-1) = -LargestSize /\ LargestSize * 1 = LargestSize
    BY <1>1
  <2>6. LargestSize * d \in Nat
    BY <1>1, <1>3, <2>1
  <2>7. 1 <= d => LargestSize * 1 <= LargestSize * d
    BY <1>1, <1>4, <2>1
  <2> QED BY <1>1, <2>2, <2>3, <2>4, <2>5, <2>6, <2>7
<1>7. ASSUME NEW n \in Nat, n < WireCap
      PROVE  LargestSize * n + LargestSize <= LargestSize * WireCap
  <2>1. LargestSize * (n + 1) = LargestSize * n + LargestSize
    BY <1>1, <1>2
  <2>2. n + 1 \in Nat /\ n + 1 <= WireCap
    BY <1>1, <1>7
  <2>3. LargestSize * (n + 1) <= LargestSize * WireCap
    BY <1>1, <1>4, <2>2
  <2> QED BY <2>1, <2>3
<1> QED BY <1>5, <1>6, <1>7

\* What Load says of a link, and what a packet that is sent or that arrives
\* changes.
LEMMA LoadType ==
  ASSUME NEW s \in Seq(Packet), NEW q \in Queues
  PROVE  Load(s, q) \in Nat /\ Load(s, q) <= LargestSize * Len(s)
<1> DEFINE f == [k \in DOMAIN s |-> IF s[k].q = q THEN LargestSize ELSE 0]
<1>1. Len(s) \in Nat /\ DOMAIN s = 1 .. Len(s)
  BY LenProperties
<1>2. IsFiniteSet(DOMAIN s) /\ Cardinality(DOMAIN s) = Len(s)
  BY <1>1, FS_Interval
<1>3. \A k \in DOMAIN s : f[k] \in 0 .. LargestSize
  BY LargestType
<1>4. Load(s, q) = SumFunctionOnSet(f, DOMAIN s)
  BY DEF Load, SumFunction
<1> HIDE DEF f
<1>5. SumFunctionOnSet(f, DOMAIN s) <= LargestSize * Cardinality(DOMAIN s)
  BY <1>2, <1>3, LargestType, SumBound
<1>6. \A k \in DOMAIN s : f[k] \in Nat
  BY <1>3, LargestType
<1> QED BY <1>2, <1>4, <1>5, <1>6, SumNat

\* What a packet that enters or leaves a link adds to or takes from its load.
LEMMA LoadChange ==
  ASSUME NEW s \in Seq(Packet), NEW q \in Queues
  PROVE  /\ \A e \in Packet :
              Load(Append(s, e), q) = Load(s, q) + IF e.q = q THEN LargestSize ELSE 0
         /\ s # <<>> => Load(s, q) = (IF Head(s).q = q THEN LargestSize ELSE 0) + Load(Tail(s), q)
<1> DEFINE w == [e \in Packet |-> IF e.q = q THEN LargestSize ELSE 0]
<1>1. w \in [Packet -> Nat]
  BY LargestType
<1>2. \A r \in Seq(Packet) : \A k \in DOMAIN r : r[k] \in Packet
  BY LenProperties, ElementOfSeq
<1>3. \A r \in Seq(Packet) : Load(r, q) = SumFunction(Weights(w, r))
  BY <1>2 DEF Load, Weights
<1>4. \A e \in Packet : w[e] = IF e.q = q THEN LargestSize ELSE 0
  OBVIOUS
<1> HIDE DEF w
<1>5. ASSUME NEW e \in Packet
      PROVE  Load(Append(s, e), q) = Load(s, q) + IF e.q = q THEN LargestSize ELSE 0
  <2>1. Append(s, e) \in Seq(Packet)
    BY AppendProperties
  <2>2. SumFunction(Weights(w, Append(s, e))) = SumFunction(Weights(w, s)) + w[e]
    BY <1>1, WeightAppend
  <2> QED BY <1>3, <1>4, <2>1, <2>2
<1>6. ASSUME s # <<>>
      PROVE  Load(s, q) = (IF Head(s).q = q THEN LargestSize ELSE 0) + Load(Tail(s), q)
  <2>1. Tail(s) \in Seq(Packet) /\ Head(s) \in Packet
    BY <1>6, HeadTailProperties
  <2>2. SumFunction(Weights(w, s)) = w[Head(s)] + SumFunction(Weights(w, Tail(s)))
    BY <1>1, <1>6, WeightTail
  <2> QED BY <1>3, <1>4, <2>1, <2>2
<1> QED BY <1>5, <1>6

\* How much of a headroom a packet takes, and what giving it back leaves.
LEMMA HeadroomChange ==
  ASSUME NEW m \in Counters, NEW i \in PQ, NEW n \in Nat
  PROVE  /\ LET u == UpdateIngressAdmission(m, i, n)
            IN  /\ u.hdrm[i] <= m.hdrm[i] + n
                /\ \A j \in PQ \ {i} : u.hdrm[j] = m.hdrm[j]
         /\ LET u == RemoveFromIngressAdmission(m, i, n)
            IN  \A j \in PQ : u.hdrm[j] <= m.hdrm[j]
<1>1. /\ \A j \in PQ : m.hdrm[j] \in Nat
      /\ m.hdrm[i] < U32 /\ m.hdrm[i] \in Nat
  BY BufferAssumption DEF Counters
<1> DEFINE u == UpdateIngressAdmission(m, i, n)
           v == RemoveFromIngressAdmission(m, i, n)
           h == Plus(m.hdrm[i], n)
           g == Minus(m.hdrm[i], Least(m.hdrm[i], n))
<1>2. h <= m.hdrm[i] + n /\ g <= m.hdrm[i]
  <2>1. Least(m.hdrm[i], n) \in Nat /\ Least(m.hdrm[i], n) <= m.hdrm[i]
    BY <1>1 DEF Least
  <2>2. g = m.hdrm[i] - Least(m.hdrm[i], n)
    BY <1>1, <2>1, WordExact
  <2>3. h <= m.hdrm[i] + n
    BY <1>1, WordExact
  <2> HIDE DEF g, h
  <2> QED BY <1>1, <2>1, <2>2, <2>3
<1>3. u.hdrm = m.hdrm \/ u.hdrm = [m.hdrm EXCEPT ![i] = h]
  BY DEF UpdateIngressAdmission, Counters
<1>4. v.hdrm = [m.hdrm EXCEPT ![i] = g]
  BY DEF RemoveFromIngressAdmission, Counters
<1>5. DOMAIN m.hdrm = PQ
  BY DEF Counters
<1> HIDE DEF u, v, h, g
<1>6. u.hdrm[i] <= m.hdrm[i] + n /\ \A j \in PQ \ {i} : u.hdrm[j] = m.hdrm[j]
  BY <1>1, <1>2, <1>3, <1>5
<1>7. \A j \in PQ : v.hdrm[j] <= m.hdrm[j]
  BY <1>1, <1>2, <1>4, <1>5
<1> QED BY <1>6, <1>7 DEF u, v

\* A frame that is sent is the last of its queue, and no one of another's.
LEMMA SendPfcFrames ==
  ASSUME Typed, NEW i \in PQ, NEW b \in BOOLEAN, SendPfc(i, b)
  PROVE  /\ \A j \in PQ \ {i} :
              /\ Frames(j)' = Frames(j)
              /\ \A k \in Frames(j) : pfc'[j[1]][k] = pfc[j[1]][k]
         /\ \A k : Last(i, k)' => pfc'[i[1]][k].age = 0
<1> DEFINE s == pfc[i[1]]
           f == [q |-> i[2], pause |-> b, age |-> 0]
           n == Len(s)
           t == Append(s, f)
<1>1. /\ i[1] \in Ports /\ i[2] \in Queues /\ i = <<i[1], i[2]>>
      /\ s \in Seq(Frame) /\ n \in Nat /\ DOMAIN s = 1 .. n
      /\ pfc \in [Ports -> Seq(Frame)]
  BY FramesType, StateTypes DEF PQ
<1>2. pfc' = [pfc EXCEPT ![i[1]] = t]
  BY DEF SendPfc
<1>3. f \in Frame
  BY <1>1, LinkAssumption DEF Frame
<1>4. f.q = i[2] /\ f.age = 0
  OBVIOUS
<1> HIDE DEF f
<1>5. /\ t \in Seq(Frame) /\ DOMAIN t = 1 .. n + 1 /\ t[n + 1] = f
      /\ \A k \in 1 .. n : t[k] = s[k]
  BY <1>1, <1>3, AppendProperties, LenProperties
<1> HIDE DEF t
<1>6. pfc'[i[1]] = t
  BY <1>1, <1>2
<1>7. ASSUME NEW j \in PQ, j # i
      PROVE  /\ Frames(j)' = Frames(j)
             /\ \A k \in Frames(j) : pfc'[j[1]][k] = pfc[j[1]][k]
  <2>1. j[1] \in Ports /\ j = <<j[1], j[2]>>
    BY DEF PQ
  <2>2. CASE j[1] # i[1]
    <3>1. pfc'[j[1]] = pfc[j[1]]
      BY <1>1, <1>2, <2>1, <2>2
    <3> QED BY <3>1 DEF Frames
  <2>3. CASE j[1] = i[1]
    <3>1. f.q # j[2]
      BY <1>1, <1>4, <1>7, <2>1, <2>3
    <3>2. /\ Frames(j) = {k \in 1 .. n : s[k].q = j[2]}
          /\ Frames(j)' = {k \in 1 .. n + 1 : t[k].q = j[2]}
      BY <1>1, <1>5, <1>6, <2>3 DEF Frames
    <3>3. \A k \in 1 .. n + 1 : k \in 1 .. n \/ k = n + 1
      BY <1>1
    <3>4. Frames(j)' = Frames(j)
      BY <1>1, <1>5, <3>1, <3>2, <3>3
    <3> QED BY <1>5, <1>6, <2>3, <3>2, <3>4
  <2> QED BY <2>2, <2>3
<1>8. ASSUME NEW k, Last(i, k)'
      PROVE  pfc'[i[1]][k].age = 0
  <2>1. Frames(i)' = {l \in 1 .. n + 1 : t[l].q = i[2]}
    BY <1>5, <1>6 DEF Frames
  <2>2. n + 1 \in Frames(i)'
    BY <1>1, <1>4, <1>5, <2>1
  <2>3. k \in 1 .. n + 1 /\ n + 1 <= k
    BY <1>8, <2>1, <2>2 DEF Last
  <2>4. k = n + 1
    BY <1>1, <2>3
  <2> QED BY <1>4, <1>5, <1>6, <2>4
<1> QED BY <1>7, <1>8

\* What the invariant reads, as types.
LEMMA ClaimTypes ==
  ASSUME Typed, NEW i \in PQ
  PROVE  /\ mmu.hdrm[i] \in Nat /\ Load(wire[i[1]], i[2]) \in Nat
         /\ \A k \in Frames(i) : pfc[i[1]][k].age \in 0 .. PfcLag
<1>1. mmu.hdrm[i] \in Nat
  BY StateTypes, BufferAssumption DEF Counters
<1>2. wire[i[1]] \in Seq(Packet) /\ i[2] \in Queues
  BY StateTypes DEF PQ
<1>3. \A k \in Frames(i) : pfc[i[1]][k].age \in 0 .. PfcLag
  BY FramesType DEF Frames, Frame
<1> QED BY <1>1, <1>2, <1>3, LoadType

\* A port and priority whose headroom and load do not grow keeps its claim, as
\* long as its frames are the same.
LEMMA ClaimedKept ==
  ASSUME Typed, Typed', NEW i \in PQ, Claimed(i),
         mmu'.paused[i] => mmu.paused[i],
         mmu'.hdrm[i] + Load(wire'[i[1]], i[2]) <= mmu.hdrm[i] + Load(wire[i[1]], i[2]),
         Frames(i)' = Frames(i),
         \A k \in Frames(i) : pfc'[i[1]][k].age = pfc[i[1]][k].age
  PROVE  Claimed(i)'
<1>1. /\ mmu.hdrm[i] \in Nat /\ Load(wire[i[1]], i[2]) \in Nat
      /\ \A k \in Frames(i) : pfc[i[1]][k].age \in 0 .. PfcLag
  BY ClaimTypes
<1>2. mmu'.hdrm[i] \in Nat /\ Load(wire'[i[1]], i[2]) \in Nat
  <2>1. mmu'.hdrm[i] \in Nat
    BY BufferAssumption DEF Typed
  <2>2. wire'[i[1]] \in Seq(Packet) /\ i[2] \in Queues
    BY DEF Typed, Packet, PQ
  <2> QED BY <2>1, <2>2, LoadType
<1>3. \A k \in Frames(i) : Spare(pfc[i[1]][k].age) \in Nat
  BY <1>1, ClaimParts
<1>4. ASSUME mmu'.paused[i]
      PROVE  mmu'.hdrm[i] + Load(wire'[i[1]], i[2]) <= Claim
  BY <1>1, <1>2, <1>4, ClaimParts DEF Claimed
<1>5. ASSUME mmu'.paused[i], NEW k \in Frames(i)', Last(i, k)'
      PROVE  mmu'.hdrm[i] + Load(wire'[i[1]], i[2]) + Spare(pfc'[i[1]][k].age) <= Claim
  <2>1. k \in Frames(i) /\ Last(i, k)
    BY <1>5 DEF Last
  <2>2. mmu.hdrm[i] + Load(wire[i[1]], i[2]) + Spare(pfc[i[1]][k].age) <= Claim
    BY <1>5, <2>1 DEF Claimed
  <2>3. pfc'[i[1]][k].age = pfc[i[1]][k].age
    BY <2>1
  <2> QED BY <1>1, <1>2, <1>3, <2>1, <2>2, <2>3, ClaimParts
<1> QED BY <1>4, <1>5 DEF Claimed

\* An arrival keeps the claim on the headroom: what it moves from the link into
\* the headroom was claimed already, and a PAUSE it sends finds the headroom empty.
LEMMA SendToDevClaimed ==
  ASSUME TypeInv, Typed', PauseHasCause, HeadroomClaimed, WireKept,
         NEW p \in Ports, SendToDev(p)
  PROVE  HeadroomClaimed'
<1>1. PICK pkt \in Packet :
           LET i == <<p, pkt.q>>
               o == <<pkt.out, pkt.q>>
               u == UpdateIngressAdmission(mmu, i, pkt.size)
           IN  /\ wire[p] # <<>> /\ pkt = Head(wire[p])
               /\ i \in PQ /\ o \in PQ /\ u \in Counters /\ mmu \in Counters
               /\ wire' = [wire EXCEPT ![p] = Tail(@)]
               /\ \/ UNCHANGED <<mmu, outq, pfc>>
                  \/ /\ mmu'.hdrm = u.hdrm
                     /\ \/ /\ ~mmu.paused[i] /\ SendPfc(i, TRUE)
                           /\ mmu'.paused = [mmu.paused EXCEPT ![i] = TRUE]
                        \/ mmu'.paused = mmu.paused /\ UNCHANGED pfc
  BY ZenonT(60), SendToDevEffect
<1> DEFINE i == <<p, pkt.q>>
           u == UpdateIngressAdmission(mmu, i, pkt.size)
<1>2. /\ Typed /\ i \in PQ /\ mmu \in Counters /\ pkt.size \in Nat
      /\ pkt.size <= LargestSize /\ LargestSize \in Nat
      /\ wire \in [Ports -> Seq(Packet)] /\ wire' \in [Ports -> Seq(Packet)]
      /\ mmu.paused \in [PQ -> BOOLEAN] /\ mmu' \in Counters
      /\ i[1] = p /\ i[2] = pkt.q
  <2>1. Typed /\ wire \in [Ports -> Seq(Packet)] /\ mmu.paused \in [PQ -> BOOLEAN]
    BY StateTypes DEF TypeInv, Counters
  <2>2. wire' \in [Ports -> Seq(Packet)]
    BY DEF Typed, Packet
  <2>3. mmu' \in Counters
    <3>1. mmu' \in [shared : 0 .. U32 - 1,
                    ingress : [PQ -> 0 .. U32 - 1], hdrm : [PQ -> 0 .. U32 - 1],
                    egress : [PQ -> Nat], paused : [PQ -> BOOLEAN]]
      BY DEF Typed
    <3>2. [PQ -> Nat] \subseteq [PQ -> Int]
      OBVIOUS
    <3> QED BY <3>1, <3>2 DEF Counters
  <2> QED BY <1>1, <2>1, <2>2, <2>3, LargestType DEF Packet
<1>3. \A j \in PQ : Load(wire[j[1]], j[2])
                      = Load(wire'[j[1]], j[2]) + IF j = i THEN LargestSize ELSE 0
  <2> SUFFICES ASSUME NEW j \in PQ
               PROVE  Load(wire[j[1]], j[2])
                        = Load(wire'[j[1]], j[2]) + IF j = i THEN LargestSize ELSE 0
    OBVIOUS
  <2>1. j[1] \in Ports /\ j[2] \in Queues /\ j = <<j[1], j[2]>>
    BY DEF PQ
  <2>2. CASE j[1] = p
    <3>1. wire'[j[1]] = Tail(wire[p]) /\ wire[j[1]] = wire[p]
      BY <1>1, <1>2, <2>2
    <3>2. Load(wire[p], j[2])
            = (IF Head(wire[p]).q = j[2] THEN LargestSize ELSE 0) + Load(Tail(wire[p]), j[2])
      BY <1>1, <1>2, <2>1, LoadChange
    <3>3. Load(Tail(wire[p]), j[2]) \in Nat
      BY <1>2, <2>1, <3>1, LoadType
    <3>4. Head(wire[p]).q = j[2] <=> j = i
      BY <1>1, <2>1, <2>2
    <3> HIDE DEF i
    <3> QED BY <1>2, <3>1, <3>2, <3>3, <3>4
  <2>3. CASE j[1] # p
    <3>1. wire'[j[1]] = wire[j[1]] /\ j # i
      BY <1>1, <1>2, <2>1, <2>3
    <3>2. Load(wire[j[1]], j[2]) \in Nat
      BY <1>2, <2>1, LoadType
    <3> QED BY <3>1, <3>2
  <2> QED BY <2>2, <2>3
<1>4. \A j \in PQ : /\ Load(wire[j[1]], j[2]) \in Nat
                    /\ Load(wire'[j[1]], j[2]) \in Nat
                    /\ mmu.hdrm[j] \in Nat /\ mmu'.hdrm[j] \in Nat
  <2>1. \A m \in Counters : \A j \in PQ : m.hdrm[j] \in Nat
    BY BufferAssumption DEF Counters
  <2> QED BY <1>2, <2>1, LoadType DEF PQ
<1>5. /\ u.hdrm[i] <= mmu.hdrm[i] + pkt.size
      /\ \A j \in PQ \ {i} : u.hdrm[j] = mmu.hdrm[j]
  BY <1>2, HeadroomChange
<1>6. \/ UNCHANGED <<mmu, pfc>>
      \/ /\ mmu'.hdrm = u.hdrm
         /\ \/ /\ ~mmu.paused[i] /\ SendPfc(i, TRUE)
               /\ mmu'.paused = [mmu.paused EXCEPT ![i] = TRUE]
            \/ mmu'.paused = mmu.paused /\ UNCHANGED pfc
  BY <1>1
<1> HIDE DEF i, u
<1>7. ASSUME NEW j \in PQ
      PROVE  mmu'.hdrm[j] + Load(wire'[j[1]], j[2]) <= mmu.hdrm[j] + Load(wire[j[1]], j[2])
  <2>1. CASE j = i
    <3>1. mmu'.hdrm[j] <= mmu.hdrm[j] + pkt.size
      <4>1. \A a \in Nat : pkt.size \in Nat => a <= a + pkt.size
        OBVIOUS
      <4> QED BY <1>2, <1>4, <1>5, <1>6, <2>1, <4>1
    <3>2. Load(wire[j[1]], j[2]) = Load(wire'[j[1]], j[2]) + LargestSize
      BY <1>3, <2>1
    <3>3. \A a, b, x, y, z, n \in Nat :
            a <= b + z /\ z <= n /\ x = y + n => a + y <= b + x
      OBVIOUS
    <3> QED BY <1>2, <1>4, <3>1, <3>2, <3>3
  <2>2. CASE j # i
    <3>1. mmu'.hdrm[j] = mmu.hdrm[j]
      BY <1>5, <1>6, <2>2
    <3>2. Load(wire[j[1]], j[2]) = Load(wire'[j[1]], j[2])
      BY <1>3, <1>4, <2>2
    <3> QED BY <1>4, <3>1, <3>2
  <2> QED BY <2>1, <2>2
<1>8. CASE UNCHANGED pfc /\ mmu'.paused = mmu.paused
  <2>1. \A j \in PQ : Frames(j)' = Frames(j)
    BY <1>8 DEF Frames
  <2>2. \A j \in PQ : Claimed(j)'
    BY <1>2, <1>7, <1>8, <2>1, ClaimedKept DEF HeadroomClaimed
  <2> QED BY <2>2 DEF HeadroomClaimed
<1>9. CASE /\ ~mmu.paused[i] /\ SendPfc(i, TRUE) /\ mmu'.hdrm = u.hdrm
           /\ mmu'.paused = [mmu.paused EXCEPT ![i] = TRUE]
  <2>1. ASSUME NEW j \in PQ, j # i PROVE Claimed(j)'
    <3>1. /\ Frames(j)' = Frames(j)
          /\ \A k \in Frames(j) : pfc'[j[1]][k].age = pfc[j[1]][k].age
      <4>1. j \in PQ \ {i} /\ TRUE \in BOOLEAN /\ j[1] \in Ports
        BY <2>1 DEF PQ
      <4>2. SendPfc(i, TRUE)
        BY <1>9
      <4> QED BY <1>2, <4>1, <4>2, SendPfcFrames
    <3>2. mmu'.paused[j] => mmu.paused[j]
      BY <1>2, <1>9, <2>1
    <3> QED BY <1>2, <1>7, <3>1, <3>2, ClaimedKept DEF HeadroomClaimed
  <2>2. Claimed(i)'
    <3>1. mmu.hdrm[i] = 0
      BY <1>2, <1>4, <1>9 DEF PauseHasCause
    <3>2. mmu'.hdrm[i] <= LargestSize
      BY <1>2, <1>4, <1>5, <1>9, <3>1
    <3> DEFINE n == Len(wire'[p])
    <3>3. n \in Nat /\ n < WireCap
      <4>1. wire[p] \in Seq(Packet) /\ wire[p] # <<>> /\ wire'[p] = Tail(wire[p])
        BY <1>1, <1>2
      <4>2. Len(Tail(wire[p])) = Len(wire[p]) - 1 /\ Len(wire[p]) \in Nat \ {0}
        BY <4>1, HeadTailProperties, LenProperties, EmptySeq
      <4> QED BY <4>1, <4>2, LinkAssumption DEF WireKept
    <3>4. Load(wire'[p], i[2]) <= LargestSize * n
      <4>1. i[2] \in Queues /\ wire'[p] \in Seq(Packet)
        BY <1>2 DEF PQ
      <4> QED BY <4>1, LoadType
    <3> HIDE DEF n
    <3>5. LargestSize * n \in Nat
      <4>1. \A a, b \in Nat : a * b \in Nat
        OBVIOUS
      <4> QED BY <1>2, <3>3, <4>1
    <3>6. mmu'.hdrm[i] + Load(wire'[i[1]], i[2]) <= LargestSize * WireCap
      BY SMTT(40), <1>2, <1>4, <3>2, <3>3, <3>4, <3>5, ClaimParts
    <3>7. mmu'.hdrm[i] + Load(wire'[i[1]], i[2]) \in Nat
      BY <1>2, <1>4
    <3>8. Spare(0) \in Nat
      BY LinkAssumption, ClaimParts
    <3>9. mmu'.hdrm[i] + Load(wire'[i[1]], i[2]) + Spare(0) <= Claim
      BY <3>6, <3>7, <3>8, ClaimParts
    <3>10. \A k \in Frames(i)' : Last(i, k)' => pfc'[i[1]][k].age = 0
      BY <1>2, <1>9, SendPfcFrames
    <3> QED BY <3>7, <3>8, <3>9, <3>10, ClaimParts DEF Claimed
  <2> QED BY <2>1, <2>2 DEF HeadroomClaimed
<1> QED BY <1>6, <1>8, <1>9

\* A departure keeps the claim on the headroom: it only gives headroom back, and
\* a RESUME ends the claim.
LEMMA DequeueClaimed ==
  ASSUME TypeInv, Typed', HeadroomClaimed, NEW o \in PQ, Dequeue(o)
  PROVE  HeadroomClaimed'
<1>1. PICK pkt \in Entry :
           LET i == <<pkt.in, o[2]>>
               u == RemoveFromIngressAdmission(mmu, i, pkt.size)
           IN  /\ i \in PQ /\ u \in Counters /\ mmu \in Counters
               /\ UNCHANGED wire
               /\ mmu'.hdrm = u.hdrm
               /\ \/ /\ SendPfc(i, FALSE)
                     /\ mmu'.paused = [mmu.paused EXCEPT ![i] = FALSE]
                  \/ mmu'.paused = mmu.paused /\ UNCHANGED pfc
  BY ZenonT(60), DequeueEffect
<1> DEFINE i == <<pkt.in, o[2]>>
           u == RemoveFromIngressAdmission(mmu, i, pkt.size)
<1>2. Typed /\ i \in PQ /\ mmu \in Counters /\ pkt.size \in Nat /\ UNCHANGED wire
  BY <1>1, SizesAssumption DEF TypeInv, Entry
<1>3. mmu.paused \in [PQ -> BOOLEAN] /\ mmu'.paused \in [PQ -> BOOLEAN]
  BY DEF TypeInv, Typed
<1>4. \A j \in PQ : u.hdrm[j] <= mmu.hdrm[j]
  BY <1>2, HeadroomChange
<1>5. mmu'.hdrm = u.hdrm
  BY <1>1
<1>6. \/ /\ SendPfc(i, FALSE)
         /\ mmu'.paused = [mmu.paused EXCEPT ![i] = FALSE]
      \/ mmu'.paused = mmu.paused /\ UNCHANGED pfc
  BY <1>1
<1> HIDE DEF i, u
<1>7. \A j \in PQ : /\ mmu.hdrm[j] \in Nat /\ mmu'.hdrm[j] \in Nat
                    /\ Load(wire[j[1]], j[2]) \in Nat
  <2>1. \A j \in PQ : mmu.hdrm[j] \in Nat /\ mmu'.hdrm[j] \in Nat
    BY BufferAssumption DEF TypeInv, Typed
  <2> QED BY <1>2, <2>1, ClaimTypes
<1>8. ASSUME NEW j \in PQ
      PROVE  mmu'.hdrm[j] + Load(wire'[j[1]], j[2]) <= mmu.hdrm[j] + Load(wire[j[1]], j[2])
  BY <1>2, <1>4, <1>5, <1>7
<1>9. CASE mmu'.paused = mmu.paused /\ UNCHANGED pfc
  <2>1. \A j \in PQ : Frames(j)' = Frames(j)
    BY <1>9 DEF Frames
  <2>2. \A j \in PQ : Claimed(j)'
    BY <1>2, <1>8, <1>9, <2>1, ClaimedKept DEF HeadroomClaimed
  <2> QED BY <2>2 DEF HeadroomClaimed
<1>10. CASE SendPfc(i, FALSE) /\ mmu'.paused = [mmu.paused EXCEPT ![i] = FALSE]
  <2>1. ASSUME NEW j \in PQ, j # i PROVE Claimed(j)'
    <3>1. /\ Frames(j)' = Frames(j)
          /\ \A k \in Frames(j) : pfc'[j[1]][k].age = pfc[j[1]][k].age
      BY ZenonT(60), <1>2, <1>10, <2>1, SendPfcFrames
    <3>2. mmu'.paused[j] => mmu.paused[j]
      BY <1>3, <1>10, <2>1
    <3> QED BY <1>2, <1>8, <3>1, <3>2, ClaimedKept DEF HeadroomClaimed
  <2>2. Claimed(i)'
    BY <1>2, <1>3, <1>10 DEF Claimed
  <2> QED BY <2>1, <2>2 DEF HeadroomClaimed
<1> QED BY <1>6, <1>9, <1>10

\* A packet the neighbour still sends was claimed for as spare while its PAUSE
\* was under way: the load grows by what ageing the PAUSE takes from the spare.
LEMMA NeighbourSendsClaimed ==
  ASSUME TypeInv, Typed', PauseChain, HeadroomClaimed, NEW p \in Ports, NeighbourSends(p)
  PROVE  HeadroomClaimed'
<1>1. PICK q \in Queues, size \in Sizes, r \in Routes :
        /\ ~stopped[p, q]
        /\ wire' = [wire EXCEPT ![p] = Append(@, [q |-> q, size |-> size, out |-> r[2]])]
  BY DEF NeighbourSends
<1> DEFINE i == <<p, q>>
           e == [q |-> q, size |-> size, out |-> r[2]]
           aged == [k \in DOMAIN pfc[p] |-> [pfc[p][k] EXCEPT !.age = @ + 1]]
<1>2. /\ Typed /\ i \in PQ /\ e \in Packet /\ LargestSize \in Nat
      /\ wire \in [Ports -> Seq(Packet)] /\ pfc \in [Ports -> Seq(Frame)]
      /\ UNCHANGED mmu
  BY PortsAssumption, StateTypes, LargestType DEF TypeInv, Packet, PQ, NeighbourSends
<1>3. \A k \in DOMAIN pfc[p] : pfc[p][k] \in Frame
  BY <1>2, LenProperties, ElementOfSeq
<1>4. /\ pfc' = [pfc EXCEPT ![p] = aged]
      /\ DOMAIN aged = DOMAIN pfc[p]
      /\ \A k \in DOMAIN pfc[p] : /\ aged[k].q = pfc[p][k].q
                                  /\ aged[k].age = pfc[p][k].age + 1
                                  /\ pfc[p][k].age < PfcLag
                                  /\ pfc[p][k].age \in 0 .. PfcLag
  BY <1>3 DEF NeighbourSends, Frame
<1> HIDE DEF aged
<1>5. \A j \in PQ : Load(wire'[j[1]], j[2])
                      = Load(wire[j[1]], j[2]) + IF j = i THEN LargestSize ELSE 0
  <2> SUFFICES ASSUME NEW j \in PQ
               PROVE  Load(wire'[j[1]], j[2])
                        = Load(wire[j[1]], j[2]) + IF j = i THEN LargestSize ELSE 0
    OBVIOUS
  <2>1. j[1] \in Ports /\ j[2] \in Queues /\ j = <<j[1], j[2]>> /\ e.q = q
    BY DEF PQ
  <2>2. CASE j[1] = p
    <3>1. wire'[j[1]] = Append(wire[p], e) /\ wire[j[1]] = wire[p]
      BY <1>1, <1>2, <2>2
    <3>2. e.q = j[2] <=> j = i
      BY <2>1, <2>2
    <3> HIDE DEF e, i
    <3>3. Load(Append(wire[p], e), j[2])
            = Load(wire[p], j[2]) + IF e.q = j[2] THEN LargestSize ELSE 0
      BY <1>2, <2>1, LoadChange
    <3> QED BY <3>1, <3>2, <3>3
  <2>3. CASE j[1] # p
    <3>1. j # i
      BY <2>3
    <3> HIDE DEF e, i
    <3>2. wire'[j[1]] = wire[j[1]]
      <4>1. wire' = [wire EXCEPT ![p] = Append(@, e)]
        BY <1>1 DEF e
      <4> QED BY <1>2, <2>1, <2>3, <4>1
    <3>3. Load(wire[j[1]], j[2]) \in Nat
      BY <1>2, <2>1, LoadType
    <3> QED BY <3>1, <3>2, <3>3
  <2> QED BY <2>2, <2>3
<1>6. ASSUME NEW j \in PQ
      PROVE  /\ Frames(j)' = Frames(j)
             /\ j[1] = p => \A k \in Frames(j) : /\ pfc'[j[1]][k].age = pfc[j[1]][k].age + 1
                                                 /\ pfc[j[1]][k].age < PfcLag
             /\ j[1] # p => \A k \in Frames(j) : pfc'[j[1]][k].age = pfc[j[1]][k].age
  <2>1. j[1] \in Ports
    BY DEF PQ
  <2>2. CASE j[1] = p
    <3>1. pfc'[j[1]] = aged
      BY <1>2, <1>4, <2>2
    <3> QED BY <1>4, <2>2, <3>1 DEF Frames
  <2>3. CASE j[1] # p
    <3>1. pfc'[j[1]] = pfc[j[1]]
      BY <1>2, <1>4, <2>1, <2>3
    <3> QED BY <2>3, <3>1 DEF Frames
  <2> QED BY <2>2, <2>3
<1>7. \A j \in PQ : /\ mmu.hdrm[j] \in Nat
                    /\ Load(wire[j[1]], j[2]) \in Nat
                    /\ \A k \in Frames(j) : pfc[j[1]][k].age \in 0 .. PfcLag
  BY <1>2, ClaimTypes
<1>8. ASSUME NEW j \in PQ, mmu.paused[j], j[1] = p
      PROVE  /\ mmu.hdrm[j] + Load(wire'[j[1]], j[2]) <= Claim
             /\ \A k \in Frames(j) : Last(j, k) =>
                  mmu.hdrm[j] + Load(wire'[j[1]], j[2]) + Spare(pfc[j[1]][k].age + 1) <= Claim
  <2> DEFINE a == mmu.hdrm[j]
             l == Load(wire[j[1]], j[2])
             l2 == Load(wire'[j[1]], j[2])
  <2>1. /\ a \in Nat /\ l \in Nat /\ (l2 = l \/ l2 = l + LargestSize) /\ l2 \in Nat
        /\ (j # i => l2 = l)
    BY <1>2, <1>5, <1>7
  <2>2. /\ a + l <= Claim
        /\ \A k \in Frames(j) : Last(j, k) => a + l + Spare(pfc[j[1]][k].age) <= Claim
    BY <1>8 DEF HeadroomClaimed, Claimed
  <2>3. \A k \in Frames(j) :
          /\ Spare(pfc[j[1]][k].age) \in Nat
          /\ Spare(pfc[j[1]][k].age + 1) = Spare(pfc[j[1]][k].age) - LargestSize
          /\ LargestSize <= Spare(pfc[j[1]][k].age)
    BY <1>6, <1>7, <1>8, ClaimParts
  <2> HIDE DEF a, l, l2
  <2>4. ASSUME NEW k \in Frames(j), Last(j, k)
        PROVE  a + l2 + Spare(pfc[j[1]][k].age + 1) <= Claim /\ a + l2 <= Claim
    <3>1. a + l + Spare(pfc[j[1]][k].age) <= Claim
      BY <2>2, <2>4
    <3>2. /\ Spare(pfc[j[1]][k].age) \in Nat
          /\ Spare(pfc[j[1]][k].age + 1) = Spare(pfc[j[1]][k].age) - LargestSize
          /\ LargestSize <= Spare(pfc[j[1]][k].age)
      BY <2>3, <2>4
    <3> QED BY SMTT(40), <1>2, <2>1, <3>1, <3>2, ClaimParts
  <2>5. a + l2 <= Claim
    <3>1. CASE j # i
      BY <2>1, <2>2, <3>1
    <3>2. CASE j = i
      <4>1. ~stopped[j]
        BY <1>1, <3>2
      <4>2. Frames(j) # {}
        BY <1>8, <4>1 DEF PauseChain
      <4>3. Frames(j) \in SUBSET (1 .. Len(pfc[j[1]])) /\ Len(pfc[j[1]]) \in Nat
        BY <1>2, FramesType
      <4>4. \E k \in Frames(j) : Last(j, k)
        BY <4>2, <4>3, LastPosition DEF Last
      <4> QED BY <2>4, <4>4
    <3> QED BY <3>1, <3>2
  <2> QED BY <2>4, <2>5 DEF a, l2
<1>9. ASSUME NEW j \in PQ PROVE Claimed(j)'
  <2>1. CASE j[1] = p
    <3>1. ASSUME NEW k, Last(j, k)'
          PROVE  k \in Frames(j) /\ Last(j, k) /\ pfc'[j[1]][k].age = pfc[j[1]][k].age + 1
      BY <1>6, <2>1, <3>1 DEF Last
    <3> QED BY <1>2, <1>8, <2>1, <3>1 DEF Claimed
  <2>2. CASE j[1] # p
    <3>1. j # i
      BY <2>2
    <3>2. Load(wire'[j[1]], j[2]) = Load(wire[j[1]], j[2])
      BY <1>5, <1>7, <3>1
    <3>3. /\ mmu'.paused[j] => mmu.paused[j]
          /\ mmu'.hdrm[j] + Load(wire'[j[1]], j[2]) <= mmu.hdrm[j] + Load(wire[j[1]], j[2])
      BY <1>2, <1>7, <3>2
    <3> QED BY <1>2, <1>6, <2>2, <3>3, ClaimedKept DEF HeadroomClaimed
  <2> QED BY <2>1, <2>2
<1> QED BY <1>9 DEF HeadroomClaimed

\* A frame that takes effect keeps the claim on the headroom: after a PAUSE the
\* neighbour sends no more, and the spare is no longer needed.
LEMMA ReceivePfcClaimed ==
  ASSUME TypeInv, Typed', HeadroomClaimed, NEW p \in Ports, NeighbourReceivesPfc(p)
  PROVE  HeadroomClaimed'
<1> DEFINE s == pfc[p]
           t == Tail(s)
<1>1. /\ Typed /\ s \in Seq(Frame) /\ s # <<>> /\ pfc' = [pfc EXCEPT ![p] = t]
      /\ UNCHANGED <<mmu, wire>> /\ pfc \in [Ports -> Seq(Frame)]
  BY StateTypes DEF NeighbourReceivesPfc, TypeInv
<1>2. /\ Len(s) \in Nat \ {0}
      /\ DOMAIN s = 1 .. Len(s) /\ DOMAIN t = 1 .. Len(s) - 1
      /\ \A k \in 1 .. Len(s) - 1 : t[k] = s[k + 1]
  BY <1>1, HeadTailProperties, LenProperties, EmptySeq
<1>3. pfc'[p] = t
  BY <1>1
<1> HIDE DEF t
<1>4. ASSUME NEW j \in PQ PROVE Claimed(j)'
  <2>1. Claimed(j) /\ j[1] \in Ports
    BY DEF HeadroomClaimed, PQ
  <2>2. CASE j[1] = p
    <3>1. /\ Frames(j) = {k \in 1 .. Len(s) : s[k].q = j[2]}
          /\ Frames(j)' = {k \in 1 .. Len(s) - 1 : t[k].q = j[2]}
      BY <1>2, <1>3, <2>2 DEF Frames
    <3>2. ASSUME NEW k \in Frames(j)', Last(j, k)'
          PROVE  /\ k + 1 \in Frames(j) /\ Last(j, k + 1)
                 /\ pfc'[j[1]][k].age = pfc[j[1]][k + 1].age
      <4>1. k \in 1 .. Len(s) - 1 /\ t[k] = s[k + 1] /\ k + 1 \in 1 .. Len(s)
        BY <1>2, <3>1, <3>2
      <4>2. k + 1 \in Frames(j)
        BY <3>1, <3>2, <4>1
      <4>3. ASSUME NEW l \in Frames(j) PROVE l <= k + 1
        <5>1. l \in 1 .. Len(s) /\ s[l].q = j[2]
          BY <3>1
        <5>2. CASE l = 1
          BY <4>1, <5>2
        <5>3. CASE l # 1
          <6>1. l - 1 \in 1 .. Len(s) - 1 /\ (l - 1) + 1 = l
            BY <1>2, <5>1, <5>3
          <6>2. l - 1 \in Frames(j)'
            BY <1>2, <3>1, <5>1, <6>1
          <6> QED BY <3>2, <4>1, <5>1, <6>2 DEF Last
        <5> QED BY <5>2, <5>3
      <4> QED BY <1>3, <2>2, <4>1, <4>2, <4>3 DEF Last
    <3> QED BY <1>1, <2>1, <3>2 DEF Claimed
  <2>3. CASE j[1] # p
    <3>1. pfc'[j[1]] = pfc[j[1]]
      BY <1>1, <2>1, <2>3
    <3> QED BY <1>1, <2>1, <3>1 DEF Claimed, Frames, Last
  <2> QED BY <2>2, <2>3
<1> QED BY <1>4 DEF HeadroomClaimed

\* Every step keeps the claim on the headroom.
LEMMA NextClaimed ==
  TypeInv /\ TypeInv' /\ PauseChain /\ PauseHasCause /\ WireKept /\ HeadroomClaimed
    /\ [Next]_vars => HeadroomClaimed'
<1> SUFFICES ASSUME TypeInv, TypeInv', PauseChain, PauseHasCause, WireKept,
                    HeadroomClaimed, [Next]_vars
             PROVE  HeadroomClaimed'
  OBVIOUS
<1> USE DEF TypeInv
<1>1. CASE UNCHANGED <<mmu, wire, pfc>>
  BY <1>1 DEF HeadroomClaimed, Claimed, Frames, Last
<1>2. ASSUME NEW p \in Ports, SendToDev(p) PROVE HeadroomClaimed'
  BY <1>2, SendToDevClaimed
<1>3. ASSUME NEW o \in PQ, Dequeue(o) PROVE HeadroomClaimed'
  BY <1>3, DequeueClaimed
<1>4. ASSUME NEW p \in Ports, NeighbourSends(p) PROVE HeadroomClaimed'
  BY <1>4, NeighbourSendsClaimed
<1>5. ASSUME NEW p \in Ports, NeighbourReceivesPfc(p) PROVE HeadroomClaimed'
  BY SMTT(40), <1>5, ReceivePfcClaimed
<1> QED BY <1>1, <1>2, <1>3, <1>4, <1>5 DEF Next, vars, ReceivePause, Resume

\* The link is a FIFO of at most WireCap packets.
LEMMA NextWire == TypeInv /\ WireKept /\ [Next]_vars => WireKept'
<1> SUFFICES ASSUME TypeInv, WireKept, [Next]_vars PROVE WireKept'
  OBVIOUS
<1>1. wire \in [Ports -> Seq(Packet)]
  BY StateTypes DEF TypeInv
<1>2. CASE UNCHANGED wire
  BY <1>2 DEF WireKept
<1>3. ASSUME NEW p \in Ports, NeighbourSends(p) PROVE WireKept'
  <2>1. PICK q \in Queues, size \in Sizes, r \in Routes :
          /\ r[1] = p
          /\ wire' = [wire EXCEPT ![p] = Append(@, [q |-> q, size |-> size, out |-> r[2]])]
    BY <1>3 DEF NeighbourSends
  <2> DEFINE e == [q |-> q, size |-> size, out |-> r[2]]
  <2>2. e \in Packet
    BY PortsAssumption DEF Packet
  <2> HIDE DEF e
  <2>3. Len(Append(wire[p], e)) = Len(wire[p]) + 1 /\ Len(wire[p]) \in Nat
    BY <1>1, <2>2, AppendProperties, LenProperties
  <2>4. Len(wire[p]) < WireCap
    BY <1>3 DEF NeighbourSends
  <2>5. /\ wire'[p] = Append(wire[p], e)
        /\ \A x \in Ports \ {p} : wire'[x] = wire[x]
    BY <1>1, <2>1 DEF e
  <2> QED BY <2>1, <2>3, <2>4, <2>5, LinkAssumption DEF WireKept
<1>4. ASSUME NEW p \in Ports, SendToDev(p) PROVE WireKept'
  <2>1. wire[p] # <<>> /\ wire' = [wire EXCEPT ![p] = Tail(@)]
    BY <1>4 DEF SendToDev
  <2>2. Len(Tail(wire[p])) = Len(wire[p]) - 1 /\ Len(wire[p]) \in Nat
    BY <1>1, <2>1, HeadTailProperties, LenProperties
  <2>3. /\ wire'[p] = Tail(wire[p])
        /\ \A x \in Ports \ {p} : wire'[x] = wire[x]
    BY SMTT(40), <1>1, <2>1
  <2> QED BY <2>1, <2>2, <2>3, LinkAssumption DEF WireKept
<1> QED BY <1>2, <1>3, <1>4
        DEF Next, vars, Dequeue, NeighbourReceivesPfc, ReceivePause, Resume

\* No packet is refused while the claims fit in the headrooms.
LEMMA NextLossless ==
  TypeInv /\ PauseHasCause /\ WireKept /\ HeadroomClaimed /\ Lossless /\ [Next]_vars
    => Lossless'
<1> SUFFICES ASSUME TypeInv, PauseHasCause, WireKept, HeadroomClaimed, Lossless,
                    HeadroomSuffices, [Next]_vars
             PROVE  drops' = 0
  BY DEF Lossless, HeadroomSuffices
<1>1. drops = 0
  BY DEF Lossless
<1>2. ASSUME NEW p \in Ports, SendToDev(p) PROVE drops' = 0
  <2>1. PICK pkt \in Packet :
           LET i == <<p, pkt.q>>
           IN  /\ wire[p] # <<>> /\ pkt = Head(wire[p]) /\ i \in PQ /\ mmu \in Counters
               /\ \/ ~CheckIngressAdmission(mmu, i, pkt.size)
                  \/ drops' = drops
    BY <1>2, SendToDevEffect
  <2> DEFINE i == <<p, pkt.q>>
             a == mmu.hdrm[i]
             l == Load(wire[p], pkt.q)
  <2>2. /\ Typed /\ i \in PQ /\ i[1] = p /\ i[2] = pkt.q /\ pkt.q \in Queues
        /\ wire[p] \in Seq(Packet) /\ a \in Nat
        /\ pkt.size \in Nat \ {0} /\ pkt.size <= LargestSize
    BY <2>1, StateTypes, ClaimTypes, LargestType DEF TypeInv, Packet
  <2>3. /\ l = LargestSize + Load(Tail(wire[p]), pkt.q)
        /\ Load(Tail(wire[p]), pkt.q) \in Nat
    <3>1. Tail(wire[p]) \in Seq(Packet)
      BY <2>1, <2>2, HeadTailProperties
    <3> QED BY <2>1, <2>2, <3>1, LoadChange, LoadType
  <2>4. Claim <= Headroom[p] /\ LargestSize <= Claim
    <3>1. PICK r \in Routes : r[1] = p
      BY <2>1 DEF WireKept
    <3>2. (WireCap + PfcLag) * LargestSize <= Headroom[p]
      BY <3>1, LargestType DEF HeadroomSuffices
    <3>3. (WireCap + PfcLag) * LargestSize = Claim
      <4>1. \A x, y \in Int : x * y = y * x
        OBVIOUS
      <4>2. WireCap + PfcLag \in Int /\ LargestSize \in Int
        BY LinkAssumption, LargestType
      <4> QED BY <4>1, <4>2 DEF Claim
    <3>4. 0 < WireCap
      <4>1. Len(wire[p]) \in Nat \ {0}
        BY <2>1, <2>2, LenProperties, EmptySeq
      <4> QED BY <4>1, LinkAssumption DEF WireKept
    <3>5. LargestSize * 0 + LargestSize <= LargestSize * WireCap
      BY <3>4, ClaimParts
    <3>6. LargestSize * 0 = 0 /\ Spare(0) \in Nat /\ LargestSize \in Nat
      BY LargestType, LinkAssumption, ClaimParts
    <3> QED BY <3>2, <3>3, <3>5, <3>6, ClaimParts
  <2>5. a + pkt.size <= Claim
    <3>1. CASE mmu.paused[i]
      <4>1. a + l <= Claim
        BY <2>2, <3>1 DEF HeadroomClaimed, Claimed
      <4> HIDE DEF a, l
      <4> QED BY <2>2, <2>3, <4>1, ClaimParts, LargestType
    <3>2. CASE ~mmu.paused[i]
      <4>1. a = 0
        BY <2>2, <3>2 DEF PauseHasCause
      <4> HIDE DEF a
      <4> QED BY <2>2, <2>4, <4>1, ClaimParts, LargestType
    <3> QED BY <3>1, <3>2
  <2>6. Headroom[p] \in Nat /\ Headroom[p] < U32
    BY BufferAssumption
  <2>7. Plus(pkt.size, a) <= Headroom[i[1]]
    <3> HIDE DEF a, i
    <3>0. pkt.size \in Nat /\ a \in Nat /\ pkt.size \in Int /\ a \in Int
      BY <2>2
    <3>1. Plus(pkt.size, a) <= pkt.size + a /\ Plus(pkt.size, a) \in 0 .. U32 - 1
      <4>1. Plus(pkt.size, a) \in 0 .. U32 - 1
        BY <3>0, WordType
      <4>2. Plus(pkt.size, a) <= pkt.size + a
        BY <3>0, WordExact
      <4> QED BY <4>1, <4>2
    <3> QED BY <2>2, <2>4, <2>5, <2>6, <3>1, ClaimParts, BufferAssumption
  <2>8. CheckIngressAdmission(mmu, i, pkt.size)
    BY <2>7 DEF CheckIngressAdmission
  <2> QED BY <1>1, <2>1, <2>8
<1> QED BY <1>1, <1>2
        DEF Next, vars, Dequeue, NeighbourSends, NeighbourReceivesPfc, ReceivePause, Resume

\* Where the headroom holds what a link and a neighbour can still deliver after
\* a pause, the switch drops nothing: however many ports share the pool, whatever
\* their reserves and thresholds, and whenever they are paused and let go on.
THEOREM LosslessCorrect == Spec => []Lossless
<1>1. Init => WireKept /\ HeadroomClaimed /\ Lossless
  <2> SUFFICES ASSUME Init PROVE WireKept /\ HeadroomClaimed /\ Lossless
    OBVIOUS
  <2>1. WireKept
    BY LinkAssumption, EmptySeq DEF Init, WireKept
  <2>2. HeadroomClaimed
    BY DEF Init, HeadroomClaimed, Claimed
  <2> QED BY <2>1, <2>2 DEF Init, Lossless
<1>2. Spec => []TypeInv
  BY TypedCorrect
<1>3. Spec => []WireKept
  BY <1>1, <1>2, NextWire, PTL DEF Spec
<1>4. Spec => []HeadroomClaimed
  BY <1>1, <1>2, <1>3, NextClaimed, PauseChainCorrect, PauseHasCauseCorrect, PTL DEF Spec
<1> QED
  BY <1>1, <1>2, <1>3, <1>4, NextLossless, PauseHasCauseCorrect, PTL DEF Spec

===============================================================================
