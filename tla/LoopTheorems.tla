---------------------------- MODULE LoopTheorems -----------------------------
(* What a loop of the replica schedulers keeps when its body keeps it. The     *)
(* body and what is kept are parameters, for a module that proves about loops  *)
(* to give by INSTANCE.                                                        *)
EXTENDS BaseReplicaScheduler, SumTheorems

CONSTANTS Turn(_, _, _),   \* the body of the loop
          Keeps(_, _)      \* Keeps(k, x): what is kept, of x; k is fixed

\* A turn, as ForEach takes it.
Step(p, y, e) == Bind(LAMBDA v : Turn(p, v, e), y)

\* g runs the loop over the elements of seq at the positions in T, for every
\* subset T of S.
IsLoop(g, p, x, seq, S) ==
  g = [T \in SUBSET S |->
         IF T = {} THEN x ELSE Step(p, g[T \ {Max(T)}], seq[Max(T)])]

\* Bind computes what its operator does.
LEMMA StepTurns == \A p, y, e : Step(p, y, e) = Turn(p, y, e)
BY DEF Step, Bind

\* A finite set of integers has its maximum among its elements.
LEMMA MaxIn ==
  ASSUME NEW S, IsFiniteSet(S), \A i \in S : i \in Int, S # {}
  PROVE  Max(S) \in S
<1> DEFINE Bad == {T \in SUBSET S : T # {} /\ ~\E m \in T : \A k \in T : m >= k}
<1>1. SUFFICES ASSUME Bad # {} PROVE FALSE
  BY DEF Max
<1>2. PICK T \in Bad : \A U \in Bad : U \subseteq T => U = T
  <2>1. Bad \in SUBSET SUBSET S
    OBVIOUS
  <2> HIDE DEF Bad
  <2> QED BY <1>1, <2>1, LeastException
<1>3. PICK t \in T : TRUE
  OBVIOUS
<1>4. CASE T = {t}
  BY <1>4
<1>5. CASE T # {t}
  <2>1. T \ {t} \notin Bad /\ T \ {t} # {} /\ T \ {t} \in SUBSET S
    BY <1>2, <1>3, <1>5
  <2>2. PICK m \in T \ {t} : \A k \in T \ {t} : m >= k
    BY <2>1
  <2>3. t \in Int /\ \A k \in T : k \in Int
    BY <1>3
  <2>4. \E b \in T : \A k \in T : b >= k
    BY <2>2, <2>3
  <2> QED BY <2>4
<1> QED
  BY <1>4, <1>5

\* The last position of a set of positions is one of them.
LEMMA LastIn ==
  ASSUME NEW S, IsFiniteSet(S), \A i \in S : i \in Int, NEW T \in SUBSET S, T # {}
  PROVE  Max(T) \in T
BY MaxIn, FS_Subset

\* Two runs agree on the positions they share.
LEMMA LoopsAgree ==
  ASSUME NEW S, IsFiniteSet(S), \A i \in S : i \in Int, NEW p, NEW x, NEW seq, NEW g, NEW h,
         NEW T \in SUBSET S, IsLoop(g, p, x, seq, S), IsLoop(h, p, x, seq, T)
  PROVE  g[T] = h[T]
<1> DEFINE Bad == {U \in SUBSET T : g[U] # h[U]}
<1>1. SUFFICES ASSUME Bad # {} PROVE FALSE
  OBVIOUS
<1>2. PICK U \in Bad : \A V \in Bad : V \subseteq U => V = U
  <2>1. IsFiniteSet(T) /\ Bad \in SUBSET SUBSET T
    BY FS_Subset
  <2> HIDE DEF Bad
  <2> QED BY <2>1, <1>1, LeastException
<1>3. U # {}
  BY DEF IsLoop
<1>4. Max(U) \in U
  BY <1>3, LastIn
<1>5. g[U \ {Max(U)}] = h[U \ {Max(U)}]
  BY <1>2, <1>4
<1> QED
  BY <1>3, <1>5 DEF IsLoop

\* The recursive function in the definition of the loop exists.
LEMMA LoopExists ==
  ASSUME NEW S, IsFiniteSet(S), \A i \in S : i \in Int, NEW p, NEW x, NEW seq
  PROVE  \E g : IsLoop(g, p, x, seq, S)
<1> DEFINE Bad == {U \in SUBSET S : ~\E g : IsLoop(g, p, x, seq, U)}
<1>1. SUFFICES ASSUME Bad # {} PROVE FALSE
  OBVIOUS
<1>2. PICK T \in Bad : \A U \in Bad : U \subseteq T => U = T
  <2>1. Bad \in SUBSET SUBSET S
    OBVIOUS
  <2> HIDE DEF Bad
  <2> QED BY <1>1, <2>1, LeastException
<1> DEFINE H(U) == CHOOSE g : IsLoop(g, p, x, seq, U)
           G == [U \in SUBSET T |->
                   IF U = {} THEN x
                   ELSE Step(p, H(U \ {Max(U)})[U \ {Max(U)}], seq[Max(U)])]
<1>3. \A U \in SUBSET T : U # T => IsLoop(H(U), p, x, seq, U)
  BY <1>2
<1> HIDE DEF H
<1>4. ASSUME NEW U \in SUBSET T, U # T
      PROVE  G[U] = H(U)[U]
  <2>1. IsLoop(H(U), p, x, seq, U)
    BY <1>3, <1>4
  <2>2. CASE U = {}
    BY <2>1, <2>2 DEF IsLoop
  <2>3. CASE U # {}
    <3> DEFINE V == U \ {Max(U)}
    <3>1. Max(U) \in U
      BY <2>3, LastIn
    <3>2. IsLoop(H(V), p, x, seq, V)
      BY <1>3, <3>1
    <3>3. IsFiniteSet(U) /\ \A i \in U : i \in Int
      BY FS_Subset, <1>2
    <3>4. H(U)[V] = H(V)[V]
      BY <2>1, <3>2, <3>3, LoopsAgree
    <3> QED BY <2>1, <2>3, <3>4 DEF IsLoop
  <2> QED BY <2>2, <2>3
<1>5. ASSUME NEW U \in SUBSET T, U # {}
      PROVE  G[U] = Step(p, G[U \ {Max(U)}], seq[Max(U)])
  <2>1. Max(U) \in U
    BY <1>5, LastIn
  <2> QED BY <2>1, <1>4, <1>5
<1>6. IsLoop(G, p, x, seq, T)
  BY <1>5 DEF IsLoop
<1> QED
  BY <1>2, <1>6

\* A loop over the elements of a sequence keeps what every turn keeps.
THEOREM ForEachKeeps ==
  ASSUME NEW p, NEW k, NEW x, NEW seq, NEW n \in Nat, DOMAIN seq = 1..n,
         Keeps(k, x),
         \A y : \A i \in 1 .. n : Keeps(k, y) => Keeps(k, Turn(p, y, seq[i]))
  PROVE  Keeps(k, ForEach(Turn, p, x, seq))
<1> DEFINE S == DOMAIN seq
           g == CHOOSE h : IsLoop(h, p, x, seq, S)
           Bad == {T \in SUBSET S : ~Keeps(k, g[T])}
<1>1. IsFiniteSet(S) /\ \A i \in S : i \in Int
  BY FS_Interval
<1>2. IsLoop(g, p, x, seq, S)
  BY <1>1, LoopExists
<1>3. ForEach(Turn, p, x, seq) = g[S]
  BY DEF ForEach, FoldLeft, MapThenFoldSet, IsLoop, Step
<1> HIDE DEF g, S
<1>4. Bad = {}
  <2>1. SUFFICES ASSUME Bad # {} PROVE FALSE
    OBVIOUS
  <2>2. PICK T \in Bad : \A U \in Bad : U \subseteq T => U = T
    <3>1. Bad \in SUBSET SUBSET S
      OBVIOUS
    <3> HIDE DEF Bad
    <3> QED BY <2>1, <3>1, <1>1, LeastException
  <2>3. T # {}
    BY <1>2 DEF IsLoop
  <2>4. Max(T) \in T /\ Max(T) \in 1 .. n
    BY <2>3, <1>1, LastIn DEF S
  <2>5. Keeps(k, g[T \ {Max(T)}])
    BY <2>2, <2>4
  <2>6. g[T] = Step(p, g[T \ {Max(T)}], seq[Max(T)])
    BY <2>3, <1>2 DEF IsLoop
  <2> QED BY <2>4, <2>5, <2>6, StepTurns
<1> QED
  BY <1>3, <1>4
=============================================================================
