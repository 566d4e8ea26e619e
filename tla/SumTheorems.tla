----------------------------- MODULE SumTheorems ------------------------------
(***************************************************************************)
(* What SumFunctionOnSet of the community modules computes, for every      *)
(* finite set.                                                             *)
(***************************************************************************)
EXTENDS Integers, Sequences, FiniteSetTheorems, SequenceTheorems, TLAPS

\* The element a sum over T takes first.
First(T) == CHOOSE x \in T : TRUE

\* g sums f over every subset of S.
IsSum(g, f, S) ==
  g = [T \in SUBSET S |-> IF T = {} THEN 0 ELSE f[First(T)] + g[T \ {First(T)}]]

\* Induction over a finite set, in a form without an operator parameter: where
\* some subset is an exception, a least one is.
LEMMA LeastException ==
  ASSUME NEW S, IsFiniteSet(S), NEW Bad \in SUBSET SUBSET S, Bad # {}
  PROVE  \E T \in Bad : \A U \in Bad : U \subseteq T => U = T
<1>1. FiniteSubsetsOf(S) = SUBSET S
  BY FS_FiniteSubsetsOfFinite
<1>2. IsWellFoundedOn(StrictSubsetOrdering(S), SUBSET S)
  BY <1>1, FS_StrictSubsetOrderingWellFounded
<1>3. \E T \in Bad : \A U \in Bad : <<U, T>> \notin StrictSubsetOrdering(S)
  BY <1>2, WFMin
<1>4. QED
  BY <1>3 DEF StrictSubsetOrdering

\* A set of natural numbers that has an element has a least one.
LEMMA LeastNatural ==
  ASSUME NEW n \in Nat, NEW S \in SUBSET (0 .. n), S # {}
  PROVE  \E j \in S : \A k \in S : j <= k
<1> DEFINE Bad == {0 .. j : j \in S}
<1>1. IsFiniteSet(0 .. n) /\ Bad \in SUBSET SUBSET (0 .. n) /\ Bad # {}
  <2>1. IsFiniteSet(0 .. n)
    BY FS_Interval
  <2>2. \A j \in S : 0 .. j \subseteq 0 .. n
    OBVIOUS
  <2> QED BY <2>1, <2>2
<1>2. \E T \in Bad : \A U \in Bad : U \subseteq T => U = T
  <2> DEFINE Space == 0 .. n
  <2>1. IsFiniteSet(Space) /\ Bad \in SUBSET SUBSET Space /\ Bad # {}
    BY <1>1
  <2> HIDE DEF Bad, Space
  <2> QED BY <2>1, LeastException
<1>3. PICK j \in S : \A k \in S : 0 .. k \subseteq 0 .. j => 0 .. k = 0 .. j
  <2>1. PICK T \in Bad : \A U \in Bad : U \subseteq T => U = T
    BY <1>2
  <2>2. PICK j \in S : T = 0 .. j
    BY <2>1
  <2>3. \A k \in S : 0 .. k \in Bad
    OBVIOUS
  <2> HIDE DEF Bad
  <2>4. \A k \in S : 0 .. k \subseteq 0 .. j => 0 .. k = 0 .. j
    BY <2>1, <2>2, <2>3
  <2> QED BY <2>4
<1>4. ASSUME NEW k \in S, k < j PROVE FALSE
  <2>1. 0 .. k \subseteq 0 .. j
    BY <1>4
  <2>2. j \in 0 .. j /\ j \notin 0 .. k
    BY <1>4
  <2> QED BY <2>1, <2>2, <1>3
<1> QED BY <1>4

\* The first element of a set is one of its elements.
LEMMA FirstIn == \A T : T # {} => First(T) \in T
BY DEF First

\* A function that sums f over the subsets of S and one that sums it over those
\* of T have the same sum of T.
LEMMA SumsAgree ==
  ASSUME NEW S, IsFiniteSet(S), NEW f, NEW g, NEW h, NEW T \in SUBSET S,
         IsSum(g, f, S), IsSum(h, f, T)
  PROVE  g[T] = h[T]
<1> DEFINE Bad == {U \in SUBSET T : g[U] # h[U]}
<1>1. SUFFICES ASSUME Bad # {} PROVE FALSE
  OBVIOUS
<1>2. PICK U \in Bad : \A V \in Bad : V \subseteq U => V = U
  <2>1. IsFiniteSet(T) /\ Bad \in SUBSET SUBSET T
    BY FS_Subset
  <2> HIDE DEF Bad
  <2> QED BY <2>1, <1>1, LeastException
<1>3. U # {}
  BY DEF IsSum
<1>4. First(U) \in U
  BY <1>3, FirstIn
<1>5. g[U \ {First(U)}] = h[U \ {First(U)}]
  BY <1>2, <1>4
<1> QED
  BY <1>3, <1>5 DEF IsSum

\* The recursive function in the definition of the sum exists.
LEMMA SumExists ==
  ASSUME NEW S, IsFiniteSet(S), NEW f
  PROVE  \E g : IsSum(g, f, S)
<1> DEFINE Bad == {U \in SUBSET S : ~\E g : IsSum(g, f, U)}
<1>1. SUFFICES ASSUME Bad # {} PROVE FALSE
  OBVIOUS
<1>2. PICK T \in Bad : \A U \in Bad : U \subseteq T => U = T
  <2>1. Bad \in SUBSET SUBSET S
    OBVIOUS
  <2> HIDE DEF Bad
  <2> QED BY <1>1, <2>1, LeastException
<1> DEFINE H(U) == CHOOSE g : IsSum(g, f, U)
           G == [U \in SUBSET T |-> IF U = {} THEN 0
                                    ELSE f[First(U)] + H(U \ {First(U)})[U \ {First(U)}]]
<1>3. \A U \in SUBSET T : U # T => IsSum(H(U), f, U)
  BY <1>2
<1> HIDE DEF H
<1>4. ASSUME NEW U \in SUBSET T, U # T
      PROVE  G[U] = H(U)[U]
  <2>1. IsSum(H(U), f, U)
    BY <1>3, <1>4
  <2>2. CASE U = {}
    BY <2>1, <2>2 DEF IsSum
  <2>3. CASE U # {}
    <3> DEFINE V == U \ {First(U)}
    <3>1. First(U) \in U
      BY <2>3, FirstIn
    <3>2. IsSum(H(V), f, V)
      BY <1>3, <3>1
    <3>3. IsFiniteSet(U)
      BY FS_Subset, <1>2
    <3>4. H(U)[V] = H(V)[V]
      BY <2>1, <3>2, <3>3, SumsAgree
    <3> QED BY <2>1, <2>3, <3>4 DEF IsSum
  <2> QED BY <2>2, <2>3
<1>5. ASSUME NEW U \in SUBSET T, U # {}
      PROVE  G[U] = f[First(U)] + G[U \ {First(U)}]
  <2>1. First(U) \in U
    BY <1>5, FirstIn
  <2> QED BY <2>1, <1>4, <1>5
<1>6. IsSum(G, f, T)
  BY <1>5 DEF IsSum
<1> QED
  BY <1>2, <1>6

\* A sum over a finite set satisfies its recursive equation.
LEMMA SumUnfold ==
  ASSUME NEW f, NEW S, IsFiniteSet(S)
  PROVE  SumFunctionOnSet(f, S) =
           IF S = {} THEN 0 ELSE f[First(S)] + SumFunctionOnSet(f, S \ {First(S)})
<1>1. \A T : SumFunctionOnSet(f, T) = (CHOOSE g : IsSum(g, f, T))[T]
  BY DEF SumFunctionOnSet, FoldFunctionOnSet, MapThenFoldSet, IsSum, First
<1> DEFINE H(U) == CHOOSE g : IsSum(g, f, U)
<1>2. \A T \in SUBSET S : IsSum(H(T), f, T)
  BY SumExists, FS_Subset
<1> HIDE DEF H
<1>3. CASE S = {}
  <2>1. H(S)[S] = 0
    BY <1>2, <1>3 DEF IsSum
  <2> QED BY <2>1, <1>1, <1>3 DEF H
<1>4. CASE S # {}
  <2> DEFINE V == S \ {First(S)}
  <2>1. First(S) \in S
    BY <1>4, FirstIn
  <2>2. H(S)[V] = H(V)[V]
    BY <1>2, SumsAgree
  <2>3. H(S)[S] = f[First(S)] + H(S)[V]
    BY <1>2, <1>4 DEF IsSum
  <2> QED BY <1>1, <1>4, <2>2, <2>3 DEF H
<1> QED BY <1>3, <1>4

\* The sum over no element is 0.
THEOREM SumEmpty == \A f : SumFunctionOnSet(f, {}) = 0
BY SumUnfold, FS_EmptySet

\* A sum of integers is an integer.
THEOREM SumType ==
  ASSUME NEW S, IsFiniteSet(S), NEW f, \A x \in S : f[x] \in Int
  PROVE  SumFunctionOnSet(f, S) \in Int
<1> DEFINE Bad == {U \in SUBSET S : SumFunctionOnSet(f, U) \notin Int}
<1>1. SUFFICES ASSUME Bad # {} PROVE FALSE
  OBVIOUS
<1>2. PICK T \in Bad : \A U \in Bad : U \subseteq T => U = T
  <2>1. Bad \in SUBSET SUBSET S
    OBVIOUS
  <2> HIDE DEF Bad
  <2> QED BY <1>1, <2>1, LeastException
<1>3. T # {}
  BY SumEmpty
<1>4. First(T) \in T
  BY <1>3, FirstIn
<1>5. SumFunctionOnSet(f, T \ {First(T)}) \in Int
  BY <1>2, <1>4
<1>6. SumFunctionOnSet(f, T) = f[First(T)] + SumFunctionOnSet(f, T \ {First(T)})
  BY <1>3, SumUnfold, FS_Subset
<1> QED
  BY <1>4, <1>5, <1>6

\* Any element can be taken out of a sum, not only the one it is defined with.
THEOREM SumRemove ==
  ASSUME NEW S, IsFiniteSet(S), NEW f, \A y \in S : f[y] \in Int, NEW x \in S
  PROVE  SumFunctionOnSet(f, S) = f[x] + SumFunctionOnSet(f, S \ {x})
<1> DEFINE sum == [U \in SUBSET S |-> SumFunctionOnSet(f, U)]
           Bad == {U \in SUBSET S : \E y \in U : sum[U] # f[y] + sum[U \ {y}]}
<1>1. SUFFICES ASSUME Bad # {} PROVE FALSE
  OBVIOUS
<1>2. PICK T \in Bad : \A U \in Bad : U \subseteq T => U = T
  <2>1. Bad \in SUBSET SUBSET S
    OBVIOUS
  <2> HIDE DEF Bad
  <2> QED BY <1>1, <2>1, LeastException
<1>3. \A U \in SUBSET S : sum[U] \in Int
  BY FS_Subset, SumType
<1>4. PICK y \in T : sum[T] # f[y] + sum[T \ {y}]
  BY <1>2
<1>5. PICK z \in T : sum[T] = f[z] + sum[T \ {z}]
  <2>1. First(T) \in T
    BY <1>4, FirstIn
  <2> QED BY <1>4, <2>1, SumUnfold, FS_Subset
<1>6. \A U \in SUBSET T : U # T => \A w \in U : sum[U] = f[w] + sum[U \ {w}]
  BY <1>2
<1> HIDE DEF sum, Bad
<1>7. y # z /\ T \subseteq S
  BY <1>4, <1>5 DEF Bad
<1>8. sum[T \ {z}] = f[y] + sum[(T \ {z}) \ {y}]
  <2>1. T \ {z} # T /\ y \in T \ {z}
    BY <1>7
  <2> QED BY <1>6, <2>1
<1>9. sum[T \ {y}] = f[z] + sum[(T \ {z}) \ {y}]
  <2>1. T \ {y} # T /\ z \in T \ {y} /\ (T \ {y}) \ {z} = (T \ {z}) \ {y}
    BY <1>7
  <2> QED BY <1>6, <2>1
<1>10. /\ sum[T] \in Int /\ sum[T \ {z}] \in Int /\ sum[T \ {y}] \in Int
       /\ sum[(T \ {z}) \ {y}] \in Int /\ f[z] \in Int /\ f[y] \in Int
  BY <1>3, <1>7
<1> QED
  BY <1>4, <1>5, <1>8, <1>9, <1>10

\* Functions that agree on a set have the same sum over it.
THEOREM SumEqual ==
  ASSUME NEW S, IsFiniteSet(S), NEW f, NEW g, \A x \in S : f[x] = g[x]
  PROVE  SumFunctionOnSet(f, S) = SumFunctionOnSet(g, S)
<1> DEFINE Bad == {U \in SUBSET S : SumFunctionOnSet(f, U) # SumFunctionOnSet(g, U)}
<1>1. SUFFICES ASSUME Bad # {} PROVE FALSE
  OBVIOUS
<1>2. PICK T \in Bad : \A U \in Bad : U \subseteq T => U = T
  <2>1. Bad \in SUBSET SUBSET S
    OBVIOUS
  <2> HIDE DEF Bad
  <2> QED BY <1>1, <2>1, LeastException
<1>3. T # {}
  BY SumEmpty
<1>4. First(T) \in T
  BY <1>3, FirstIn
<1>5. SumFunctionOnSet(f, T \ {First(T)}) = SumFunctionOnSet(g, T \ {First(T)})
  BY <1>2, <1>4
<1> QED
  BY <1>2, <1>3, <1>4, <1>5, SumUnfold, FS_Subset

\* Where one value changes, the sum changes by as much.
THEOREM SumChange ==
  ASSUME NEW S, IsFiniteSet(S), NEW f, \A y \in S : f[y] \in Int,
         NEW x \in S, NEW g, g[x] \in Int, \A y \in S \ {x} : g[y] = f[y]
  PROVE  SumFunctionOnSet(g, S) = SumFunctionOnSet(f, S) - f[x] + g[x]
<1>1. SumFunctionOnSet(f, S) = f[x] + SumFunctionOnSet(f, S \ {x})
  BY SumRemove
<1>2. SumFunctionOnSet(g, S) = g[x] + SumFunctionOnSet(g, S \ {x})
  BY SumRemove
<1>3. IsFiniteSet(S \ {x}) /\ SumFunctionOnSet(f, S \ {x}) \in Int
  BY FS_RemoveElement, SumType
<1>4. SumFunctionOnSet(f, S \ {x}) = SumFunctionOnSet(g, S \ {x})
  BY <1>3, SumEqual
<1> QED
  BY <1>1, <1>2, <1>3, <1>4

\* A sum of naturals is a natural, and none of its parts exceeds it.
THEOREM SumNat ==
  ASSUME NEW S, IsFiniteSet(S), NEW f, \A x \in S : f[x] \in Nat
  PROVE  /\ SumFunctionOnSet(f, S) \in Nat
         /\ \A x \in S : f[x] <= SumFunctionOnSet(f, S)
<1> DEFINE Bad == {U \in SUBSET S : SumFunctionOnSet(f, U) \notin Nat}
<1>1. ASSUME Bad # {} PROVE FALSE
  <2>1. PICK T \in Bad : \A U \in Bad : U \subseteq T => U = T
    <3>1. Bad \in SUBSET SUBSET S
      OBVIOUS
    <3> HIDE DEF Bad
    <3> QED BY <1>1, <3>1, LeastException
  <2>2. T # {}
    BY SumEmpty
  <2>3. First(T) \in T
    BY <2>2, FirstIn
  <2>4. SumFunctionOnSet(f, T \ {First(T)}) \in Nat
    BY <2>1, <2>3
  <2> QED
    BY <2>2, <2>3, <2>4, SumUnfold, FS_Subset
<1>2. \A U \in SUBSET S : SumFunctionOnSet(f, U) \in Nat
  BY <1>1
<1>3. ASSUME NEW x \in S
      PROVE  f[x] <= SumFunctionOnSet(f, S)
  <2>1. SumFunctionOnSet(f, S) = f[x] + SumFunctionOnSet(f, S \ {x})
    BY SumRemove
  <2>2. SumFunctionOnSet(f, S \ {x}) \in Nat
    BY <1>2
  <2> QED BY <2>1, <2>2
<1> QED
  BY <1>2, <1>3

\* A sum of naturals is not less than the sum over a part of the set.
THEOREM SumSubset ==
  ASSUME NEW S, IsFiniteSet(S), NEW f, \A x \in S : f[x] \in Nat, NEW T \in SUBSET S
  PROVE  SumFunctionOnSet(f, T) <= SumFunctionOnSet(f, S)
<1> DEFINE Bad == {U \in SUBSET S : T \subseteq U /\ ~(SumFunctionOnSet(f, T) <= SumFunctionOnSet(f, U))}
<1>1. SUFFICES ASSUME Bad # {} PROVE FALSE
  OBVIOUS
<1>2. PICK U \in Bad : \A V \in Bad : V \subseteq U => V = U
  <2>1. Bad \in SUBSET SUBSET S
    OBVIOUS
  <2> HIDE DEF Bad
  <2> QED BY <1>1, <2>1, LeastException
<1>3. \A V \in SUBSET S : IsFiniteSet(V) /\ SumFunctionOnSet(f, V) \in Nat
  BY SumNat, FS_Subset
<1>4. PICK x \in U \ T : TRUE
  <2>1. U # T
    BY <1>2, <1>3
  <2> QED BY <1>2, <2>1
<1>5. SumFunctionOnSet(f, T) <= SumFunctionOnSet(f, U \ {x})
  BY <1>2, <1>4
<1>6. SumFunctionOnSet(f, U) = f[x] + SumFunctionOnSet(f, U \ {x})
  BY <1>3, <1>4, SumRemove
<1>7. /\ SumFunctionOnSet(f, T) \in Nat /\ SumFunctionOnSet(f, U \ {x}) \in Nat
      /\ f[x] \in Nat
  BY <1>3
<1> QED
  BY <1>2, <1>5, <1>6, <1>7

\* Where h takes S one to one to T, a sum over T is a sum over S.
THEOREM SumReindex ==
  ASSUME NEW S, IsFiniteSet(S), NEW T, NEW h \in Bijection(S, T), IsFiniteSet(T),
         NEW f, NEW g, \A x \in S : f[x] \in Int /\ g[h[x]] = f[x]
  PROVE  SumFunctionOnSet(g, T) = SumFunctionOnSet(f, S)
<1> DEFINE Image(U) == {h[x] : x \in U}
           Bad == {U \in SUBSET S : SumFunctionOnSet(g, Image(U)) # SumFunctionOnSet(f, U)}
<1>1. h \in [S -> T] /\ (\A x, y \in S : h[x] = h[y] => x = y) /\ Image(S) = T
  BY DEF Bijection, Injection, Surjection, IsInjective
<1>2. SUFFICES ASSUME Bad # {} PROVE FALSE
  BY <1>1
<1>3. PICK U \in Bad : \A V \in Bad : V \subseteq U => V = U
  <2>1. Bad \in SUBSET SUBSET S
    OBVIOUS
  <2> HIDE DEF Bad
  <2> QED BY <1>2, <2>1, LeastException
<1>4. U # {}
  BY <1>3, SumEmpty
<1>5. PICK x \in U : TRUE
  BY <1>4
<1>6. SumFunctionOnSet(g, Image(U \ {x})) = SumFunctionOnSet(f, U \ {x})
  BY <1>3, <1>5
<1>7. Image(U \ {x}) = Image(U) \ {h[x]} /\ h[x] \in Image(U) /\ Image(U) \in SUBSET T
  BY <1>1, <1>5
<1>8. IsFiniteSet(Image(U)) /\ \A y \in Image(U) : g[y] \in Int
  BY <1>7, FS_Subset
<1>9. SumFunctionOnSet(g, Image(U)) = g[h[x]] + SumFunctionOnSet(g, Image(U) \ {h[x]})
  <2> HIDE DEF Image
  <2> QED BY <1>7, <1>8, SumRemove
<1>10. SumFunctionOnSet(f, U) = f[x] + SumFunctionOnSet(f, U \ {x})
  BY <1>5, SumRemove, FS_Subset
<1> QED
  BY <1>3, <1>6, <1>7, <1>9, <1>10

\* A sum of n values that are not above m is not above m * n.
THEOREM SumBound ==
  ASSUME NEW S, IsFiniteSet(S), NEW m \in Nat, NEW f, \A x \in S : f[x] \in 0 .. m
  PROVE  SumFunctionOnSet(f, S) <= m * Cardinality(S)
<1> DEFINE Bad == {U \in SUBSET S : ~(SumFunctionOnSet(f, U) <= m * Cardinality(U))}
<1>1. SUFFICES ASSUME Bad # {} PROVE FALSE
  OBVIOUS
<1>2. PICK T \in Bad : \A U \in Bad : U \subseteq T => U = T
  <2>1. Bad \in SUBSET SUBSET S
    OBVIOUS
  <2> HIDE DEF Bad
  <2> QED BY <1>1, <2>1, LeastException
<1>3. T # {}
  <2>1. SumFunctionOnSet(f, {}) <= m * Cardinality({})
    BY SumEmpty, FS_EmptySet
  <2> QED BY <1>2, <2>1
<1>4. PICK x \in T : TRUE
  BY <1>3
<1> DEFINE U == T \ {x}
<1>5. IsFiniteSet(T) /\ IsFiniteSet(U)
  BY FS_Subset
<1>6. SumFunctionOnSet(f, U) <= m * Cardinality(U)
  BY <1>2, <1>4
<1>7. SumFunctionOnSet(f, T) = f[x] + SumFunctionOnSet(f, U)
  BY <1>2, <1>4, <1>5, SumRemove
<1>8. SumFunctionOnSet(f, U) \in Nat
  BY <1>5, SumNat
<1>9. Cardinality(U) \in Nat /\ Cardinality(T) = Cardinality(U) + 1
  BY <1>4, <1>5, FS_RemoveElement, FS_CardinalityType
<1>10. \A n \in Nat : m * (n + 1) = m * n + m
  OBVIOUS
<1> HIDE DEF U
<1>11. m * Cardinality(T) = m * Cardinality(U) + m /\ m * Cardinality(U) \in Nat
  BY <1>9, <1>10
<1>12. SumFunctionOnSet(f, T) <= m * Cardinality(T)
  BY <1>6, <1>7, <1>8, <1>11
<1> QED
  BY <1>2, <1>12

-------------------------------------------------------------------------------
\* Sums over sequences.

\* The sum of the empty sequence is 0.
THEOREM SumSeqEmpty == SumFunction(<<>>) = 0
BY SumEmpty DEF SumFunction

\* Appending a number adds it to the sum.
THEOREM SumAppend ==
  ASSUME NEW s \in Seq(Int), NEW n \in Int
  PROVE  SumFunction(Append(s, n)) = SumFunction(s) + n
<1> DEFINE t == Append(s, n)
           last == Len(s) + 1
<1>1. /\ t \in Seq(Int) /\ Len(s) \in Nat
      /\ DOMAIN t = 1 .. last /\ DOMAIN s = 1 .. Len(s)
      /\ t[last] = n /\ \A k \in DOMAIN s : t[k] = s[k]
  BY AppendProperties, LenProperties
<1>2. IsFiniteSet(DOMAIN t) /\ IsFiniteSet(DOMAIN s)
  BY <1>1, FS_Interval
<1>3. last \in DOMAIN t /\ DOMAIN t \ {last} = DOMAIN s /\ \A k \in DOMAIN t : t[k] \in Int
  BY <1>1
<1> HIDE DEF t, last
<1>4. SumFunctionOnSet(t, DOMAIN t) = t[last] + SumFunctionOnSet(t, DOMAIN s)
  BY <1>2, <1>3, SumRemove
<1>5. SumFunctionOnSet(t, DOMAIN s) = SumFunctionOnSet(s, DOMAIN s)
  BY <1>1, <1>2, SumEqual
<1>6. SumFunctionOnSet(s, DOMAIN s) \in Int
  BY <1>1, <1>2, SumType
<1> QED
  BY <1>1, <1>4, <1>5, <1>6 DEF SumFunction, t

\* Taking the head off subtracts it from the sum.
THEOREM SumTail ==
  ASSUME NEW s \in Seq(Int), s # <<>>
  PROVE  SumFunction(s) = Head(s) + SumFunction(Tail(s))
<1> DEFINE t == Tail(s)
           h == [k \in DOMAIN t |-> k + 1]
<1>1. /\ t \in Seq(Int) /\ Len(s) \in Nat \ {0} /\ Len(t) = Len(s) - 1
      /\ DOMAIN t = 1 .. Len(s) - 1 /\ DOMAIN s = 1 .. Len(s)
      /\ Head(s) = s[1] /\ \A k \in DOMAIN t : t[k] = s[k + 1]
  BY HeadTailProperties, LenProperties, EmptySeq
<1>2. IsFiniteSet(DOMAIN t) /\ IsFiniteSet(DOMAIN s)
  BY <1>1, FS_Interval
<1>3. 1 \in DOMAIN s /\ (\A k \in DOMAIN s : s[k] \in Int) /\ (\A k \in DOMAIN t : t[k] \in Int)
  BY <1>1
<1>4. h \in Bijection(DOMAIN t, DOMAIN s \ {1})
  <2>1. h \in [DOMAIN t -> DOMAIN s \ {1}]
    BY <1>1
  <2>2. \A j, k \in DOMAIN t : h[j] = h[k] => j = k
    BY <1>1
  <2>3. \A k \in DOMAIN s \ {1} : k - 1 \in DOMAIN t /\ h[k - 1] = k
    BY <1>1
  <2> HIDE DEF h, t
  <2> QED BY <2>1, <2>2, <2>3 DEF Bijection, Injection, Surjection, IsInjective
<1>5. \A k \in DOMAIN t : s[h[k]] = t[k]
  BY <1>1
<1> HIDE DEF h, t
<1>6. SumFunctionOnSet(s, DOMAIN s \ {1}) = SumFunctionOnSet(t, DOMAIN t)
  <2>1. IsFiniteSet(DOMAIN s \ {1})
    BY <1>2, FS_RemoveElement
  <2> QED BY <1>2, <1>3, <1>4, <1>5, <2>1, SumReindex
<1>7. SumFunctionOnSet(s, DOMAIN s) = s[1] + SumFunctionOnSet(s, DOMAIN s \ {1})
  BY <1>2, <1>3, SumRemove
<1> QED
  BY <1>1, <1>6, <1>7 DEF SumFunction, t

\* The sum of a sequence of naturals is a natural.
THEOREM SumSeqNat ==
  ASSUME NEW s \in Seq(Nat)
  PROVE  SumFunction(s) \in Nat
<1>1. Len(s) \in Nat /\ DOMAIN s = 1 .. Len(s) /\ \A k \in DOMAIN s : s[k] \in Nat
  BY LenProperties, ElementOfSeq
<1>2. IsFiniteSet(DOMAIN s)
  BY <1>1, FS_Interval
<1> QED BY <1>1, <1>2, SumNat DEF SumFunction

\* The weights w of the elements of a sequence.
Weights(w, s) == [k \in DOMAIN s |-> w[s[k]]]

\* The weights of a sequence are a sequence, and so have a sum.
THEOREM WeightsType ==
  ASSUME NEW S, NEW w \in [S -> Nat], NEW s \in Seq(S)
  PROVE  Weights(w, s) \in Seq(Nat) /\ SumFunction(Weights(w, s)) \in Nat
<1>1. Len(s) \in Nat /\ DOMAIN s = 1 .. Len(s) /\ \A k \in DOMAIN s : s[k] \in S
  BY LenProperties, ElementOfSeq
<1>2. Weights(w, s) \in [1 .. Len(s) -> Nat]
  BY <1>1 DEF Weights
<1>3. Weights(w, s) \in Seq(Nat)
  BY SMTT(40), <1>1, <1>2, SeqDef
<1> QED BY <1>3, SumSeqNat

\* Appending an element adds its weight.
THEOREM WeightAppend ==
  ASSUME NEW S, NEW w \in [S -> Nat], NEW s \in Seq(S), NEW e \in S
  PROVE  SumFunction(Weights(w, Append(s, e))) = SumFunction(Weights(w, s)) + w[e]
<1> DEFINE t == Append(s, e)
<1>1. /\ t \in Seq(S) /\ Len(s) \in Nat
      /\ DOMAIN t = 1 .. Len(s) + 1 /\ DOMAIN s = 1 .. Len(s)
      /\ t[Len(s) + 1] = e /\ \A k \in DOMAIN s : t[k] = s[k]
  BY AppendProperties, LenProperties
<1>2. /\ Weights(w, s) \in Seq(Nat) /\ Weights(w, t) \in Seq(Nat) /\ w[e] \in Nat
      /\ DOMAIN Weights(w, s) = DOMAIN s /\ DOMAIN Weights(w, t) = DOMAIN t
  BY <1>1, WeightsType DEF Weights
<1>3. /\ Len(Weights(w, s)) = Len(s) /\ Len(Weights(w, t)) = Len(s) + 1
  BY <1>1, <1>2, LenProperties
<1> DEFINE u == Append(Weights(w, s), w[e])
<1>4. /\ u \in Seq(Nat) /\ Len(u) = Len(s) + 1 /\ u[Len(s) + 1] = w[e]
      /\ \A k \in 1 .. Len(s) : u[k] = Weights(w, s)[k]
  BY <1>2, <1>3, AppendProperties
<1>5. \A k \in 1 .. Len(s) + 1 : Weights(w, t)[k] = u[k]
  BY <1>1, <1>4 DEF Weights
<1>6. Weights(w, t) = u
  <2> HIDE DEF u, t
  <2> QED BY <1>2, <1>3, <1>4, <1>5, SeqEqual
<1>7. Weights(w, s) \in Seq(Int) /\ w[e] \in Int
  BY <1>2, SeqMonotonic
<1> QED BY <1>6, <1>7, SumAppend

\* Taking the head off subtracts its weight.
THEOREM WeightTail ==
  ASSUME NEW S, NEW w \in [S -> Nat], NEW s \in Seq(S), s # <<>>
  PROVE  SumFunction(Weights(w, s)) = w[Head(s)] + SumFunction(Weights(w, Tail(s)))
<1> DEFINE t == Tail(s)
<1>1. /\ t \in Seq(S) /\ Len(s) \in Nat \ {0} /\ Len(t) = Len(s) - 1
      /\ DOMAIN t = 1 .. Len(s) - 1 /\ DOMAIN s = 1 .. Len(s)
      /\ Head(s) = s[1] /\ \A k \in DOMAIN t : t[k] = s[k + 1]
  BY HeadTailProperties, LenProperties, EmptySeq
<1>2. /\ Weights(w, s) \in Seq(Nat) /\ Weights(w, t) \in Seq(Nat)
      /\ DOMAIN Weights(w, s) = DOMAIN s /\ DOMAIN Weights(w, t) = DOMAIN t
  BY SMTT(40), <1>1, WeightsType DEF Weights
<1>3. Len(Weights(w, s)) = Len(s) /\ Len(Weights(w, t)) = Len(s) - 1 /\ Weights(w, s) # <<>>
  <2>1. Len(Weights(w, s)) = Len(s)
    BY <1>1, <1>2, LenProperties
  <2>2. Len(Weights(w, t)) = Len(s) - 1
    <3> DEFINE m == Len(Weights(w, t))
               n == Len(s) - 1
    <3>1. m \in Nat /\ n \in Nat /\ 1 .. m = 1 .. n
      BY Zenon, <1>1, <1>2, LenProperties
    <3> HIDE DEF m, n, t
    <3>2. m = n
      BY <3>1
    <3> QED BY SMTT(40), <3>2 DEF m, n
  <2> QED BY Zenon, <1>1, <2>1, <2>2
<1> DEFINE u == Tail(Weights(w, s))
<1>4. /\ u \in Seq(Nat) /\ Len(u) = Len(s) - 1 /\ Head(Weights(w, s)) = Weights(w, s)[1]
      /\ \A k \in 1 .. Len(s) - 1 : u[k] = Weights(w, s)[k + 1]
  BY <1>2, <1>3, HeadTailProperties
<1>5. \A k \in 1 .. Len(s) - 1 : Weights(w, t)[k] = u[k]
  BY <1>1, <1>4 DEF Weights
<1>6. Weights(w, t) = u
  <2> HIDE DEF u, t
  <2> QED BY <1>2, <1>3, <1>4, <1>5, SeqEqual
<1>7. Weights(w, s) \in Seq(Int)
  BY <1>2, SeqMonotonic
<1>8. Head(Weights(w, s)) = w[Head(s)]
  BY <1>1, <1>4 DEF Weights
<1> QED BY <1>3, <1>6, <1>7, <1>8, SumTail
===============================================================================
