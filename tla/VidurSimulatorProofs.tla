------------------------- MODULE VidurSimulatorProofs -------------------------
(***************************************************************************)
(* The pipelines of a simulated cluster are first in, first out, for any   *)
(* set of configurations: whichever scheduler makes the batches, and in    *)
(* whatever order the events of one time are handled.  The argument is one *)
(* inductive invariant, Inv: well-formed events and schedulers (Typed),    *)
(* and counts that agree with the events (Counted).                        *)
(***************************************************************************)
EXTENDS VidurSimulator, SumTheorems

-------------------------------------------------------------------------------
\* Sequences

\* A sequence, whatever its elements are.
IsSeq(s) == \E S : s \in Seq(S)

\* Induction, in a form without an operator parameter: what holds of 0 and of
\* the next number holds of every number.
LEMMA Induction ==
  ASSUME NEW n \in Nat, NEW Good, 0 \in Good, \A i \in 0 .. n - 1 : i \in Good => i + 1 \in Good
  PROVE  \A i \in 0 .. n : i \in Good
<1> DEFINE Missed == {i \in 0 .. n : i \notin Good}
           Bad == {0 .. j : j \in Missed}
<1>1. SUFFICES ASSUME Bad # {} PROVE FALSE
  OBVIOUS
<1>2. PICK T \in Bad : \A U \in Bad : U \subseteq T => U = T
  <2> DEFINE Space == 0 .. n
  <2>1. IsFiniteSet(Space) /\ Bad \in SUBSET SUBSET Space
    <3>1. IsFiniteSet(Space)
      BY FS_Interval
    <3>2. \A j \in Missed : 0 .. j \in SUBSET Space
      OBVIOUS
    <3> QED BY <3>1, <3>2
  <2> HIDE DEF Bad, Space
  <2> QED BY <1>1, <2>1, LeastException
<1>3. PICK j \in 0 .. n : j \notin Good /\ T = 0 .. j
  OBVIOUS
<1>4. j # 0
  BY <1>3
<1>5. j - 1 \in 0 .. n - 1 /\ j - 1 \in 0 .. n /\ (j - 1) + 1 = j
  BY <1>3, <1>4
<1>6. j - 1 \notin Good
  BY <1>3, <1>5
<1>7. 0 .. (j - 1) \in Bad
  BY <1>5, <1>6
<1>8. 0 .. (j - 1) \subseteq T
  BY <1>3
<1>9. 0 .. (j - 1) = T
  BY <1>2, <1>7, <1>8
<1>10. j \in 0 .. j /\ j \notin 0 .. (j - 1)
  BY <1>3
<1> QED BY <1>3, <1>9, <1>10

\* A sequence is a function on the numbers up to its length.
LEMMA SeqShape ==
  ASSUME NEW s, IsSeq(s)
  PROVE  /\ Len(s) \in Nat /\ DOMAIN s = 1 .. Len(s)
         /\ s = [i \in DOMAIN s |-> s[i]]
BY DEF IsSeq

\* Two sequences are sequences over one set.
LEMMA TwoSeqs ==
  ASSUME NEW s, NEW t, IsSeq(s), IsSeq(t)
  PROVE  \E S : s \in Seq(S) /\ t \in Seq(S)
<1>1. PICK S, T : s \in Seq(S) /\ t \in Seq(T)
  BY DEF IsSeq
<1>2. s \in Seq(S \cup T) /\ t \in Seq(S \cup T)
  BY <1>1
<1> QED BY <1>2

\* Sequences with the same elements in the same places are the same.
LEMMA SameSeq ==
  ASSUME NEW s, NEW t, IsSeq(s), IsSeq(t), Len(s) = Len(t), \A i \in 1 .. Len(s) : s[i] = t[i]
  PROVE  s = t
<1>1. PICK S : s \in Seq(S) /\ t \in Seq(S)
  BY TwoSeqs
<1> QED BY <1>1, SeqEqual

\* A function on the numbers up to n is a sequence of length n.
LEMMA SeqMade ==
  ASSUME NEW n \in Nat, NEW S, NEW s \in [1 .. n -> S]
  PROVE  IsSeq(s) /\ Len(s) = n
<1>1. s \in Seq(S)
  BY SeqDef
<1>2. Len(s) = n
  OBVIOUS
<1> QED BY <1>1, <1>2 DEF IsSeq

\* The empty sequence and the sequences of one element.
LEMMA SeqBasics ==
  /\ IsSeq(<<>>) /\ Len(<<>>) = 0
  /\ \A e : IsSeq(<<e>>) /\ Len(<<e>>) = 1 /\ <<e>>[1] = e
<1>1. <<>> \in Seq({}) /\ \A e : <<e>> \in Seq({e})
  OBVIOUS
<1>2. Len(<<>>) = 0 /\ \A e : Len(<<e>>) = 1 /\ <<e>>[1] = e
  OBVIOUS
<1> QED BY <1>1, <1>2 DEF IsSeq

\* What is at each place of a concatenation.
LEMMA SeqConcat ==
  ASSUME NEW s, NEW t, IsSeq(s), IsSeq(t)
  PROVE  /\ IsSeq(s \o t) /\ Len(s \o t) = Len(s) + Len(t)
         /\ \A i \in 1 .. Len(s) : (s \o t)[i] = s[i]
         /\ \A i \in 1 .. Len(t) : (s \o t)[Len(s) + i] = t[i]
<1>1. PICK S : s \in Seq(S) /\ t \in Seq(S)
  BY TwoSeqs
<1>2. s \o t \in Seq(S)
  BY <1>1
<1> QED BY <1>1, <1>2 DEF IsSeq

\* The empty sequence adds nothing, and is the only one of length 0.
LEMMA SeqEmpty ==
  ASSUME NEW s, IsSeq(s)
  PROVE  s \o <<>> = s /\ <<>> \o s = s /\ (Len(s) = 0 <=> s = <<>>)
BY DEF IsSeq

\* To append is to concatenate a sequence of one element.
LEMMA SeqAppend ==
  ASSUME NEW s, NEW e, IsSeq(s)
  PROVE  IsSeq(Append(s, e)) /\ Append(s, e) = s \o <<e>>
<1>1. PICK S : s \in Seq(S)
  BY DEF IsSeq
<1>2. s \in Seq(S \cup {e})
  BY <1>1
<1>3. Append(s, e) \in Seq(S \cup {e})
  BY <1>2
<1>4. IsSeq(s \o <<e>>)
  BY SeqConcat, SeqBasics
<1> QED BY <1>2, <1>3, <1>4 DEF IsSeq

\* A sequence is its head and its tail.
LEMMA SeqTail ==
  ASSUME NEW s, IsSeq(s), s # <<>>
  PROVE  IsSeq(Tail(s)) /\ s = <<Head(s)>> \o Tail(s) /\ Len(Tail(s)) = Len(s) - 1
<1>1. PICK S : s \in Seq(S)
  BY DEF IsSeq
<1>2. Tail(s) \in Seq(S) /\ Head(s) \in S /\ Len(s) \in Nat \ {0}
  BY <1>1
<1>3. <<Head(s)>> \in Seq(S)
  BY <1>2
<1>4. <<Head(s)>> \o Tail(s) \in Seq(S)
  BY <1>2, <1>3
<1>5. Len(<<Head(s)>> \o Tail(s)) = Len(s)
  BY <1>1, <1>2, <1>3
<1>6. \A i \in 1 .. Len(s) : (<<Head(s)>> \o Tail(s))[i] = s[i]
  BY <1>1, <1>2, <1>3
<1> QED BY <1>1, <1>2, <1>4, <1>5, <1>6, SameSeq DEF IsSeq

\* Concatenation is associative.
LEMMA SeqAssoc ==
  ASSUME NEW s, NEW t, NEW u, IsSeq(s), IsSeq(t), IsSeq(u)
  PROVE  (s \o t) \o u = s \o (t \o u)
<1>1. PICK S : s \in Seq(S) /\ t \in Seq(S)
  BY TwoSeqs
<1>2. PICK T : u \in Seq(T)
  BY DEF IsSeq
<1>3. s \in Seq(S \cup T) /\ t \in Seq(S \cup T) /\ u \in Seq(S \cup T)
  BY <1>1, <1>2
<1> QED BY <1>3

-------------------------------------------------------------------------------
\* FlattenSeq

AllSeqs(ss) == IsSeq(ss) /\ \A i \in DOMAIN ss : IsSeq(ss[i])

\* f is the function by which FlattenSeq is defined, up to n.
IsFlat(f, ss, n) == f = [i \in 1 .. n |-> IF i = 1 THEN ss[i] ELSE f[i - 1] \o ss[i]]

\* The first n of the sequences in a row.
Prefix(ss, n) ==
  IF n = 0 THEN <<>> ELSE (CHOOSE f : IsFlat(f, ss, Len(ss)))[n]

\* The function by which FlattenSeq is defined exists.
LEMMA FlatExists ==
  ASSUME NEW ss, NEW n \in Nat
  PROVE  \E f : IsFlat(f, ss, n)
<1> DEFINE Good == {m \in 0 .. n : \E f : IsFlat(f, ss, m)}
<1>1. 0 \in Good
  <2> DEFINE f == [i \in 1 .. 0 |-> ss]
  <2>1. IsFlat(f, ss, 0)
    BY DEF IsFlat
  <2> HIDE DEF f
  <2> QED BY <2>1
<1>2. ASSUME NEW m \in 0 .. n - 1, m \in Good
      PROVE  m + 1 \in Good
  <2>1. PICK f : IsFlat(f, ss, m)
    BY <1>2
  <2> DEFINE g == [i \in 1 .. m + 1 |-> IF i = 1 THEN ss[i] ELSE f[i - 1] \o ss[i]]
  <2>2. \A i \in 1 .. m : g[i] = f[i]
    <3>1. \A i \in 1 .. m : f[i] = IF i = 1 THEN ss[i] ELSE f[i - 1] \o ss[i]
      BY <2>1 DEF IsFlat
    <3>2. \A i \in 1 .. m : i \in 1 .. m + 1
      OBVIOUS
    <3> QED BY <3>1, <3>2
  <2>3. \A i \in 1 .. m + 1 :
          (IF i = 1 THEN ss[i] ELSE f[i - 1] \o ss[i])
            = (IF i = 1 THEN ss[i] ELSE g[i - 1] \o ss[i])
    <3>1. \A i \in 1 .. m + 1 : i # 1 => i - 1 \in 1 .. m
      OBVIOUS
    <3> QED BY <2>2, <3>1
  <2>31. IsFlat(g, ss, m + 1)
    BY <2>3 DEF IsFlat
  <2>4. m + 1 \in 0 .. n
    OBVIOUS
  <2> HIDE DEF g
  <2> QED BY <2>31, <2>4
<1> HIDE DEF Good
<1>3. n \in Good
  BY <1>1, <1>2, Induction
<1> QED BY <1>3 DEF Good

\* FlattenSeq concatenates one sequence after the other, from the left.
LEMMA PrefixStep ==
  ASSUME NEW ss, AllSeqs(ss)
  PROVE  /\ Prefix(ss, 0) = <<>>
         /\ FlattenSeq(ss) = Prefix(ss, Len(ss))
         /\ \A n \in 0 .. Len(ss) : IsSeq(Prefix(ss, n))
         /\ \A n \in 0 .. Len(ss) - 1 : Prefix(ss, n + 1) = Prefix(ss, n) \o ss[n + 1]
<1> DEFINE f == CHOOSE g : IsFlat(g, ss, Len(ss))
           Good == {n \in 0 .. Len(ss) : IsSeq(Prefix(ss, n))}
<1>1. IsSeq(ss) /\ Len(ss) \in Nat /\ DOMAIN ss = 1 .. Len(ss)
  BY SeqShape DEF AllSeqs
<1>2. IsFlat(f, ss, Len(ss))
  BY <1>1, FlatExists
<1>3. Prefix(ss, 0) = <<>> /\ \A n \in 1 .. Len(ss) : Prefix(ss, n) = f[n]
  BY DEF Prefix
<1>4. FlattenSeq(ss) = Prefix(ss, Len(ss))
  <2>1. CASE Len(ss) = 0
    BY <2>1, <1>1, <1>3, SeqEmpty DEF FlattenSeq
  <2>2. CASE Len(ss) # 0
    BY <2>2, <1>1, <1>3 DEF FlattenSeq, IsFlat
  <2> QED BY <2>1, <2>2
<1> HIDE DEF f
<1>5. ASSUME NEW n \in 0 .. Len(ss) - 1
      PROVE  Prefix(ss, n + 1) = Prefix(ss, n) \o ss[n + 1]
  <2>1. n + 1 \in 1 .. Len(ss) /\ IsSeq(ss[n + 1])
    BY <1>1 DEF AllSeqs
  <2>2. f[n + 1] = IF n + 1 = 1 THEN ss[n + 1] ELSE f[n] \o ss[n + 1]
    <3>1. f[n + 1] = IF n + 1 = 1 THEN ss[n + 1] ELSE f[(n + 1) - 1] \o ss[n + 1]
      BY <2>1, <1>2 DEF IsFlat
    <3> QED BY <3>1, <1>1
  <2>3. CASE n = 0
    <3>1. Prefix(ss, n + 1) = ss[n + 1] /\ Prefix(ss, n) = <<>>
      BY <2>1, <2>2, <2>3, <1>3
    <3> QED BY <3>1, <2>1, SeqEmpty
  <2>4. CASE n # 0
    <3>1. n \in 1 .. Len(ss)
      BY <2>4, <1>1
    <3>2. Prefix(ss, n + 1) = f[n + 1] /\ Prefix(ss, n) = f[n]
      BY <2>1, <3>1, <1>3
    <3>3. n + 1 # 1
      BY <2>4, <1>1
    <3> QED BY <2>2, <3>2, <3>3
  <2> QED BY <2>3, <2>4
<1>6. \A n \in 0 .. Len(ss) : n \in Good
  <2>1. 0 \in Good
    BY <1>1, <1>3, SeqBasics
  <2>2. ASSUME NEW n \in 0 .. Len(ss) - 1, n \in Good
        PROVE  n + 1 \in Good
    <3>1. n + 1 \in 0 .. Len(ss) /\ IsSeq(ss[n + 1])
      BY <1>1 DEF AllSeqs
    <3>2. IsSeq(Prefix(ss, n) \o ss[n + 1])
      BY <2>2, <3>1, SeqConcat
    <3> QED BY <3>1, <3>2, <1>5
  <2> HIDE DEF Good
  <2> QED BY <1>1, <2>1, <2>2, Induction
<1> QED BY <1>3, <1>4, <1>5, <1>6

\* Prefixes of sequences that agree up to n agree.
LEMMA PrefixSame ==
  ASSUME NEW ss, NEW tt, AllSeqs(ss), AllSeqs(tt), NEW n \in 0 .. Len(ss), n <= Len(tt),
         \A i \in 1 .. n : ss[i] = tt[i]
  PROVE  Prefix(ss, n) = Prefix(tt, n)
<1> DEFINE Good == {m \in 0 .. n : Prefix(ss, m) = Prefix(tt, m)}
<1>1. Len(ss) \in Nat /\ Len(tt) \in Nat
  BY SeqShape DEF AllSeqs
<1>2. 0 \in Good
  BY <1>1, PrefixStep
<1>3. ASSUME NEW m \in 0 .. n - 1, m \in Good
      PROVE  m + 1 \in Good
  <2>1. m \in 0 .. Len(ss) - 1 /\ m \in 0 .. Len(tt) - 1 /\ m + 1 \in 1 .. n /\ m + 1 \in 0 .. n
    BY <1>1
  <2> QED BY <2>1, <1>3, PrefixStep
<1> HIDE DEF Good
<1>4. n \in Good
  <2>1. n \in Nat /\ n \in 0 .. n
    BY <1>1
  <2> QED BY <2>1, <1>2, <1>3, Induction
<1> QED BY <1>4 DEF Good

\* Sequences flatten to a sequence.
LEMMA FlatIsSeq == ASSUME NEW ss, AllSeqs(ss) PROVE IsSeq(FlattenSeq(ss))
<1>1. Len(ss) \in 0 .. Len(ss)
  BY SeqShape DEF AllSeqs
<1> QED BY <1>1, PrefixStep

\* No sequences flatten to the empty one.
LEMMA FlatEmpty == FlattenSeq(<<>>) = <<>>
BY DEF FlattenSeq

\* One sequence flattens to itself.
LEMMA FlatOne == ASSUME NEW s, IsSeq(s) PROVE AllSeqs(<<s>>) /\ FlattenSeq(<<s>>) = s
<1>1. IsSeq(<<s>>) /\ Len(<<s>>) = 1 /\ <<s>>[1] = s /\ DOMAIN <<s>> = {1}
  BY SeqBasics
<1>2. AllSeqs(<<s>>)
  BY <1>1 DEF AllSeqs
<1>3. FlattenSeq(<<s>>) = Prefix(<<s>>, 0) \o s /\ Prefix(<<s>>, 0) = <<>>
  <2>1. 0 \in 0 .. Len(<<s>>) - 1 /\ 0 + 1 = 1
    BY <1>1
  <2> QED BY <1>1, <1>2, <2>1, PrefixStep
<1> QED BY <1>2, <1>3, SeqEmpty

\* FlattenSeq of a concatenation is the concatenation of both.
LEMMA FlatConcat ==
  ASSUME NEW ss, NEW tt, AllSeqs(ss), AllSeqs(tt)
  PROVE  AllSeqs(ss \o tt) /\ FlattenSeq(ss \o tt) = FlattenSeq(ss) \o FlattenSeq(tt)
<1> DEFINE uu == ss \o tt
           Good == {n \in 0 .. Len(tt) :
                      Prefix(uu, Len(ss) + n) = FlattenSeq(ss) \o Prefix(tt, n)}
<1>1. /\ IsSeq(ss) /\ IsSeq(tt) /\ IsSeq(uu)
      /\ Len(ss) \in Nat /\ Len(tt) \in Nat /\ Len(uu) = Len(ss) + Len(tt)
      /\ DOMAIN ss = 1 .. Len(ss) /\ DOMAIN tt = 1 .. Len(tt) /\ DOMAIN uu = 1 .. Len(uu)
      /\ \A i \in 1 .. Len(ss) : uu[i] = ss[i]
      /\ \A i \in 1 .. Len(tt) : uu[Len(ss) + i] = tt[i]
  BY SeqShape, SeqConcat DEF AllSeqs
<1> HIDE DEF uu
<1>2. AllSeqs(uu)
  <2>1. ASSUME NEW i \in 1 .. Len(uu) PROVE IsSeq(uu[i])
    <3>1. CASE i <= Len(ss)
      <4>1. i \in 1 .. Len(ss)
        BY <3>1, <1>1
      <4> QED BY <4>1, <1>1 DEF AllSeqs
    <3>2. CASE i > Len(ss)
      <4>1. i - Len(ss) \in 1 .. Len(tt) /\ Len(ss) + (i - Len(ss)) = i
        BY <3>2, <1>1
      <4>2. uu[i] = tt[i - Len(ss)]
        BY <4>1, <1>1
      <4> QED BY <4>1, <4>2, <1>1 DEF AllSeqs
    <3> QED BY <3>1, <3>2, <1>1
  <2> QED BY <2>1, <1>1 DEF AllSeqs
<1>3. Prefix(uu, Len(ss)) = FlattenSeq(ss) /\ IsSeq(FlattenSeq(ss))
  <2>1. Len(ss) \in 0 .. Len(uu) /\ Len(ss) <= Len(ss)
    BY <1>1
  <2>2. Prefix(uu, Len(ss)) = Prefix(ss, Len(ss))
    BY <2>1, <1>1, <1>2, PrefixSame
  <2> QED BY <2>2, PrefixStep, FlatIsSeq
<1>4. 0 \in Good
  <2>1. Len(ss) + 0 = Len(ss) /\ 0 \in 0 .. Len(tt)
    BY <1>1
  <2> QED BY <2>1, <1>3, PrefixStep, SeqEmpty
<1>5. ASSUME NEW n \in 0 .. Len(tt) - 1, n \in Good
      PROVE  n + 1 \in Good
  <2>1. /\ n + 1 \in 0 .. Len(tt) /\ n \in 0 .. Len(tt) /\ n + 1 \in 1 .. Len(tt)
        /\ Len(ss) + n \in 0 .. Len(uu) - 1
        /\ (Len(ss) + n) + 1 = Len(ss) + (n + 1)
    BY <1>1
  <2>2. Prefix(uu, Len(ss) + (n + 1)) = Prefix(uu, Len(ss) + n) \o uu[Len(ss) + (n + 1)]
    BY <2>1, <1>2, PrefixStep
  <2>3. Prefix(uu, Len(ss) + (n + 1)) = (FlattenSeq(ss) \o Prefix(tt, n)) \o tt[n + 1]
    BY <2>1, <2>2, <1>1, <1>5
  <2>4. IsSeq(Prefix(tt, n)) /\ IsSeq(tt[n + 1])
    BY <2>1, <1>1, PrefixStep DEF AllSeqs
  <2>5. (FlattenSeq(ss) \o Prefix(tt, n)) \o tt[n + 1]
          = FlattenSeq(ss) \o (Prefix(tt, n) \o tt[n + 1])
    <3> DEFINE a == FlattenSeq(ss)
               b == Prefix(tt, n)
               c == tt[n + 1]
    <3>1. IsSeq(a) /\ IsSeq(b) /\ IsSeq(c)
      BY <2>4, <1>3
    <3> HIDE DEF a, b, c
    <3>2. (a \o b) \o c = a \o (b \o c)
      BY <3>1, SeqAssoc
    <3> QED BY <3>2 DEF a, b, c
  <2>6. Prefix(tt, n + 1) = Prefix(tt, n) \o tt[n + 1]
    BY PrefixStep
  <2> QED BY <2>1, <2>3, <2>5, <2>6
<1> HIDE DEF Good
<1>6. Len(tt) \in Good
  <2>1. Len(tt) \in Nat /\ Len(tt) \in 0 .. Len(tt)
    BY <1>1
  <2> QED BY <2>1, <1>4, <1>5, Induction
<1>7. FlattenSeq(uu) = Prefix(uu, Len(ss) + Len(tt)) /\ FlattenSeq(tt) = Prefix(tt, Len(tt))
  BY <1>1, <1>2, PrefixStep
<1> QED BY <1>2, <1>6, <1>7 DEF Good, uu

\* What is empty but for one element flattens to that element.
LEMMA FlatSingle ==
  ASSUME NEW ss, AllSeqs(ss), NEW k \in DOMAIN ss, \A i \in DOMAIN ss : i # k => ss[i] = <<>>
  PROVE  FlattenSeq(ss) = ss[k]
<1> DEFINE Good == {n \in 0 .. Len(ss) : Prefix(ss, n) = IF n < k THEN <<>> ELSE ss[k]}
<1>1. Len(ss) \in Nat /\ DOMAIN ss = 1 .. Len(ss) /\ k \in 1 .. Len(ss) /\ IsSeq(ss[k])
  BY SeqShape DEF AllSeqs
<1>2. 0 \in Good
  BY <1>1, PrefixStep
<1>3. ASSUME NEW n \in 0 .. Len(ss) - 1, n \in Good
      PROVE  n + 1 \in Good
  <2>1. n + 1 \in 1 .. Len(ss) /\ n + 1 \in 0 .. Len(ss)
    BY <1>1
  <2>2. Prefix(ss, n + 1) = Prefix(ss, n) \o ss[n + 1]
    BY PrefixStep
  <2>3. CASE n + 1 = k
    <3>1. Prefix(ss, n) = <<>>
      BY <1>3, <2>3, <1>1
    <3> QED BY <2>1, <2>2, <2>3, <3>1, <1>1, SeqEmpty
  <2>4. CASE n + 1 # k
    <3>1. ss[n + 1] = <<>> /\ IsSeq(Prefix(ss, n))
      BY <2>4, <2>1, <1>1, PrefixStep
    <3>2. Prefix(ss, n + 1) = Prefix(ss, n)
      BY <2>2, <3>1, SeqEmpty
    <3>3. n < k <=> n + 1 < k
      BY <2>4, <1>1
    <3> QED BY <2>1, <3>2, <3>3, <1>3
  <2> QED BY <2>3, <2>4
<1> HIDE DEF Good
<1>4. Len(ss) \in Good
  <2>1. Len(ss) \in Nat /\ Len(ss) \in 0 .. Len(ss)
    BY <1>1
  <2> QED BY <2>1, <1>2, <1>3, Induction
<1> QED BY <1>1, <1>4, PrefixStep DEF Good

\* What becomes of Picked.
Marks(S, s) == [i \in DOMAIN s |-> IF i \in S THEN <<s[i]>> ELSE <<>>]

\* Picked flattens the elements it keeps.
LEMMA MarksSeqs ==
  ASSUME NEW S, NEW s, IsSeq(s)
  PROVE  AllSeqs(Marks(S, s)) /\ Len(Marks(S, s)) = Len(s) /\ Picked(S, s) = FlattenSeq(Marks(S, s))
<1>1. DOMAIN s = 1 .. Len(s) /\ Len(s) \in Nat
  BY SeqShape
<1> DEFINE V == {<<>>} \cup {<<s[i]>> : i \in 1 .. Len(s)}
<1>2. Marks(S, s) \in [1 .. Len(s) -> V]
  BY <1>1 DEF Marks
<1>3. IsSeq(Marks(S, s)) /\ Len(Marks(S, s)) = Len(s)
  BY <1>1, <1>2, SeqMade
<1>4. \A i \in DOMAIN Marks(S, s) : IsSeq(Marks(S, s)[i])
  BY SeqBasics DEF Marks
<1> QED BY <1>3, <1>4 DEF AllSeqs, Picked, Marks

\* What is flattened has the elements of the sequences in it.
LEMMA FlatIn ==
  ASSUME NEW ss, AllSeqs(ss), NEW V, \A i \in DOMAIN ss : ss[i] \in Seq(V)
  PROVE  FlattenSeq(ss) \in Seq(V)
<1> DEFINE Good == {n \in 0 .. Len(ss) : Prefix(ss, n) \in Seq(V)}
<1>1. Len(ss) \in Nat /\ DOMAIN ss = 1 .. Len(ss)
  BY SeqShape DEF AllSeqs
<1>2. 0 \in Good
  <2>1. Prefix(ss, 0) = <<>> /\ <<>> \in Seq(V)
    BY PrefixStep
  <2>2. 0 \in 0 .. Len(ss)
    BY <1>1
  <2> QED BY Zenon, <2>1, <2>2
<1>3. ASSUME NEW n \in 0 .. Len(ss) - 1, n \in Good
      PROVE  n + 1 \in Good
  <2>1. n + 1 \in 1 .. Len(ss) /\ n + 1 \in 0 .. Len(ss) /\ ss[n + 1] \in Seq(V)
    BY <1>1
  <2>2. Prefix(ss, n + 1) = Prefix(ss, n) \o ss[n + 1]
    BY PrefixStep
  <2>3. Prefix(ss, n) \o ss[n + 1] \in Seq(V)
    BY <2>1, <1>3
  <2> QED BY <2>1, <2>2, <2>3
<1> HIDE DEF Good
<1>4. Len(ss) \in Good
  <2>1. Len(ss) \in Nat /\ Len(ss) \in 0 .. Len(ss)
    BY <1>1
  <2> QED BY <2>1, <1>2, <1>3, Induction
<1> QED BY <1>4, PrefixStep DEF Good

\* Picked has elements of its sequence, at positions that were asked for.
LEMMA PickedIn ==
  ASSUME NEW S, NEW s, IsSeq(s)
  PROVE  Picked(S, s) \in Seq({s[i] : i \in DOMAIN s \cap S})
<1> DEFINE V == {s[i] : i \in DOMAIN s \cap S}
<1>1. ASSUME NEW i \in DOMAIN Marks(S, s)
      PROVE  Marks(S, s)[i] \in Seq(V)
  <2>1. CASE i \in S
    <3>1. Marks(S, s)[i] = <<s[i]>> /\ s[i] \in V
      BY <2>1 DEF Marks
    <3> HIDE DEF V
    <3> QED BY <3>1
  <2>2. CASE i \notin S
    BY <2>2 DEF Marks
  <2> QED BY <2>1, <2>2
<1> HIDE DEF V
<1> QED BY <1>1, MarksSeqs, FlatIn DEF V

\* Picked keeps elements of the sequence it is given.
LEMMA PickedTyped ==
  ASSUME NEW S, NEW V, NEW s \in Seq(V)
  PROVE  Picked(S, s) \in Seq(V)
<1>1. IsSeq(s) /\ {s[i] : i \in DOMAIN s \cap S} \subseteq V
  BY DEF IsSeq
<1>2. Picked(S, s) \in Seq({s[i] : i \in DOMAIN s \cap S})
  BY <1>1, PickedIn
<1> QED BY <1>1, <1>2, SeqMonotonic

\* The sequence of one element of a set is a sequence over the set.
LEMMA OneIn == ASSUME NEW S, NEW e \in S PROVE <<e>> \in Seq(S)
OBVIOUS

\* Sorting by arrival keeps the requests it sorts.
LEMMA SortTyped ==
  ASSUME NEW c, c.arrivedAt \in Seq(Nat), NEW S, NEW q \in Seq(S)
  PROVE  SortByArrival(c, q) \in Seq(S)
<1> DEFINE m == Cardinality(Range(c.arrivedAt))
           at(t) == Picked({i \in DOMAIN q : c.arrivedAt[q[i]] = t}, q)
           ss == [t \in 1 .. m |-> at(t)]
<1>1. m \in Nat
  <2>1. Range(c.arrivedAt) = {c.arrivedAt[i] : i \in 1 .. Len(c.arrivedAt)} /\ Len(c.arrivedAt) \in Nat
    BY DEF Range
  <2>2. IsFiniteSet(Range(c.arrivedAt))
    <3> DEFINE D == 1 .. Len(c.arrivedAt)
    <3>1. c.arrivedAt \in Surjection(D, Range(c.arrivedAt))
      BY <2>1 DEF Surjection
    <3>2. IsFiniteSet(D)
      BY <2>1, FS_Interval
    <3> QED BY <3>1, <3>2, FS_Surjection
  <2> QED BY <2>2, FS_CardinalityType
<1>2. \A t : at(t) \in Seq(S)
  BY PickedTyped
<1> HIDE DEF m, at
<1>3. ss \in [1 .. m -> Seq(S)]
  BY <1>2
<1>4. IsSeq(ss) /\ Len(ss) = m /\ DOMAIN ss = 1 .. m
  BY <1>1, <1>3, SeqMade
<1>5. \A t \in DOMAIN ss : ss[t] \in Seq(S)
  BY <1>3
<1>6. AllSeqs(ss)
  BY <1>4, <1>5 DEF AllSeqs, IsSeq
<1>7. FlattenSeq(ss) \in Seq(S)
  BY <1>5, <1>6, FlatIn
<1> QED BY <1>7 DEF SortByArrival, m, at

-------------------------------------------------------------------------------
\* Schedulers at work

\* A batch of requests of ids.
IsBatch(ids, b) == IsSeq(b) /\ \A i \in DOMAIN b : b[i].id \in ids

SchedulerFields ==
  {"queue", "preempted", "held", "alloc", "used", "kv", "running", "waiting"}

\* x is a scheduler at work, its requests are of k.ids and k.running batches of
\* it are in the pipeline.
Fit(k, x) ==
  /\ SchedulerFields \cup {"req", "batch", "cur", "prefills", "ok"} \subseteq DOMAIN x
  /\ x.queue \in Seq(k.ids) /\ x.preempted \in Seq(k.ids) /\ x.prefills \in Seq(k.ids)
  /\ IsBatch(k.ids, x.batch)
  /\ IsSeq(x.held) /\ \A i \in DOMAIN x.held : IsBatch(k.ids, x.held[i])
  /\ x.cur = 0 \/ x.cur \in k.ids
  /\ x.running = k.running

\* A scheduler of requests of ids, with n batches in the pipeline.
Load(ids, n) == [ids |-> ids, running |-> n]

-------------------------------------------------------------------------------
\* Batches, and the row of sequences InPipeline puts together

\* e is an event of that kind, for stage st of rep.
Hits(kind, rep, st, e) == e.kind = kind /\ e.rep = rep /\ e.stage = st

\* What becomes of Batches.
Found(kind, rep, st, es) ==
  [i \in DOMAIN es |-> IF Hits(kind, rep, st, es[i]) THEN <<es[i].batch>> ELSE <<>>]

\* Batches flattens what it finds event by event.
LEMMA BatchesFound ==
  ASSUME NEW kind, NEW rep, NEW st, NEW es, IsSeq(es)
  PROVE  /\ AllSeqs(Found(kind, rep, st, es)) /\ Len(Found(kind, rep, st, es)) = Len(es)
         /\ Batches(kind, rep, st, es) = FlattenSeq(Found(kind, rep, st, es))
         /\ IsSeq(Batches(kind, rep, st, es))
<1> DEFINE S == {i \in DOMAIN es : Hits(kind, rep, st, es[i])}
           bs == [i \in DOMAIN es |-> es[i].batch]
<1>1. DOMAIN es = 1 .. Len(es) /\ Len(es) \in Nat
  BY SeqShape
<1>2. IsSeq(bs) /\ Len(bs) = Len(es)
  <2>1. bs \in [1 .. Len(es) -> {es[i].batch : i \in 1 .. Len(es)}]
    BY <1>1
  <2> QED BY <2>1, <1>1, SeqMade
<1>3. Batches(kind, rep, st, es) = Picked(S, bs)
  BY DEF Batches, Hits
<1>4. Marks(S, bs) = Found(kind, rep, st, es)
  BY DEF Marks, Found
<1> HIDE DEF S, bs
<1> QED BY <1>2, <1>3, <1>4, MarksSeqs, FlatIsSeq

\* The batches of two lists of events, one after the other.
LEMMA BatchesConcat ==
  ASSUME NEW kind, NEW rep, NEW st, NEW s, NEW t, IsSeq(s), IsSeq(t)
  PROVE  Batches(kind, rep, st, s \o t) = Batches(kind, rep, st, s) \o Batches(kind, rep, st, t)
<1> DEFINE F(es) == Found(kind, rep, st, es)
<1>1. IsSeq(s \o t)
  BY SeqConcat
<1>2. F(s \o t) = F(s) \o F(t)
  <2> DEFINE u == s \o t
             v == F(s) \o F(t)
  <2>1. /\ Len(u) = Len(s) + Len(t) /\ \A i \in 1 .. Len(s) : u[i] = s[i]
        /\ \A i \in 1 .. Len(t) : u[Len(s) + i] = t[i]
    BY SeqConcat
  <2>2. /\ IsSeq(F(s)) /\ IsSeq(F(t)) /\ IsSeq(F(u))
        /\ Len(F(s)) = Len(s) /\ Len(F(t)) = Len(t) /\ Len(F(u)) = Len(u)
    <3>1. IsSeq(u)
      BY <1>1
    <3>2. ASSUME NEW es, IsSeq(es) PROVE IsSeq(F(es)) /\ Len(F(es)) = Len(es)
      BY <3>2, BatchesFound DEF AllSeqs
    <3> HIDE DEF u, F
    <3> QED BY <3>1, <3>2
  <2>3. /\ IsSeq(v) /\ Len(v) = Len(s) + Len(t) /\ \A i \in 1 .. Len(s) : v[i] = F(s)[i]
        /\ \A i \in 1 .. Len(t) : v[Len(s) + i] = F(t)[i]
    <3> HIDE DEF F
    <3> QED BY <2>2, SeqConcat
  <2>4. /\ Len(s) \in Nat /\ Len(t) \in Nat /\ IsSeq(u)
        /\ DOMAIN s = 1 .. Len(s) /\ DOMAIN t = 1 .. Len(t) /\ DOMAIN u = 1 .. Len(u)
    BY <1>1, SeqShape
  <2>5. ASSUME NEW i \in 1 .. Len(u) PROVE F(u)[i] = v[i]
    <3> HIDE DEF u, v
    <3>1. CASE i <= Len(s)
      <4>1. i \in DOMAIN s /\ i \in DOMAIN u /\ u[i] = s[i] /\ v[i] = F(s)[i]
        BY <3>1, <2>1, <2>3, <2>4
      <4> QED BY <4>1 DEF Found
    <3>2. CASE i > Len(s)
      <4> DEFINE j == i - Len(s)
      <4>1. j \in 1 .. Len(t) /\ Len(s) + j = i
        BY <3>2, <2>1, <2>4
      <4>2. j \in DOMAIN t /\ i \in DOMAIN u /\ u[i] = t[j] /\ v[i] = F(t)[j]
        BY <4>1, <2>1, <2>3, <2>4
      <4> QED BY <4>2 DEF Found
    <3> QED BY <3>1, <3>2, <2>4
  <2> HIDE DEF u, v, F
  <2>6. F(u) = v
    BY <2>2, <2>3, <2>1, <2>5, SameSeq
  <2> QED BY <2>6 DEF u, v
<1>3. AllSeqs(F(s)) /\ AllSeqs(F(t))
  BY BatchesFound
<1> HIDE DEF F
<1>4. FlattenSeq(F(s) \o F(t)) = FlattenSeq(F(s)) \o FlattenSeq(F(t))
  BY <1>3, FlatConcat
<1> QED BY <1>1, <1>2, <1>4, BatchesFound DEF F

\* The batch of one event.
LEMMA BatchesOne ==
  ASSUME NEW kind, NEW rep, NEW st, NEW e
  PROVE  Batches(kind, rep, st, <<e>>) = IF Hits(kind, rep, st, e) THEN <<e.batch>> ELSE <<>>
<1> DEFINE f == IF Hits(kind, rep, st, e) THEN <<e.batch>> ELSE <<>>
<1>1. IsSeq(<<e>>) /\ Len(<<e>>) = 1 /\ <<e>>[1] = e /\ DOMAIN <<e>> = {1}
  BY SeqBasics
<1>2. IsSeq(f)
  BY SeqBasics
<1>3. Found(kind, rep, st, <<e>>) = <<f>>
  BY <1>1 DEF Found
<1> HIDE DEF f
<1> QED BY <1>1, <1>2, <1>3, BatchesFound, FlatOne DEF f

\* A row of empty sequences flattens to the empty one.
LEMMA FlatNone ==
  ASSUME NEW ss, AllSeqs(ss), \A i \in DOMAIN ss : ss[i] = <<>>
  PROVE  FlattenSeq(ss) = <<>>
<1>1. CASE DOMAIN ss = {}
  <2>1. ss = <<>>
    BY <1>1, SeqShape, SeqEmpty DEF AllSeqs
  <2> QED BY <2>1, FlatEmpty
<1>2. CASE DOMAIN ss # {}
  BY <1>2, FlatSingle
<1> QED BY <1>1, <1>2

\* Events about something else have no batches.
LEMMA BatchesNone ==
  ASSUME NEW kind, NEW rep, NEW st, NEW es, IsSeq(es),
         \A i \in DOMAIN es : ~Hits(kind, rep, st, es[i])
  PROVE  Batches(kind, rep, st, es) = <<>>
<1>1. \A i \in DOMAIN Found(kind, rep, st, es) : Found(kind, rep, st, es)[i] = <<>>
  BY DEF Found
<1> QED BY <1>1, BatchesFound, FlatNone

\* Nor have no events.
LEMMA NoBatches == \A kind, rep, st : Batches(kind, rep, st, <<>>) = <<>>
<1>1. IsSeq(<<>>) /\ DOMAIN <<>> = {}
  BY SeqBasics
<1>2. ASSUME NEW kind, NEW rep, NEW st PROVE Batches(kind, rep, st, <<>>) = <<>>
  BY <1>1, BatchesNone
<1> QED BY <1>2

\* The head of the events, and the rest.
LEMMA BatchesHead ==
  ASSUME NEW kind, NEW rep, NEW st, NEW es, IsSeq(es), es # <<>>
  PROVE  Batches(kind, rep, st, es) =
           (IF Hits(kind, rep, st, Head(es)) THEN <<Head(es).batch>> ELSE <<>>)
             \o Batches(kind, rep, st, Tail(es))
<1>1. IsSeq(Tail(es)) /\ es = <<Head(es)>> \o Tail(es) /\ IsSeq(<<Head(es)>>)
  BY SeqTail, SeqBasics
<1>2. Batches(kind, rep, st, <<Head(es)>> \o Tail(es))
        = Batches(kind, rep, st, <<Head(es)>>) \o Batches(kind, rep, st, Tail(es))
  <2> DEFINE a == <<Head(es)>>
             b == Tail(es)
  <2>1. IsSeq(a) /\ IsSeq(b)
    BY <1>1
  <2> HIDE DEF a, b
  <2>2. Batches(kind, rep, st, a \o b) = Batches(kind, rep, st, a) \o Batches(kind, rep, st, b)
    BY <2>1, BatchesConcat
  <2> QED BY <2>2 DEF a, b
<1> QED BY <1>1, <1>2, BatchesOne

\* The batches that arrive together at a stage.
LEMMA FlatOfOnes ==
  ASSUME NEW s, IsSeq(s)
  PROVE  FlattenSeq([i \in DOMAIN s |-> <<s[i]>>]) = s
<1> DEFINE ss == Marks(DOMAIN s, s)
           Good == {n \in 0 .. Len(s) :
                      /\ Len(Prefix(ss, n)) = n
                      /\ \A i \in 1 .. n : Prefix(ss, n)[i] = s[i]}
<1>1. ss = [i \in DOMAIN s |-> <<s[i]>>]
  BY DEF Marks
<1>2. /\ AllSeqs(ss) /\ Len(ss) = Len(s) /\ Len(s) \in Nat /\ DOMAIN s = 1 .. Len(s)
      /\ DOMAIN ss = DOMAIN s
  BY ZenonT(60), MarksSeqs, SeqShape DEF Marks
<1>3. \A i \in 1 .. Len(s) : ss[i] = <<s[i]>>
  BY <1>2 DEF Marks
<1> HIDE DEF ss
<1>4. 0 \in Good
  <2>1. Prefix(ss, 0) = <<>> /\ Len(<<>>) = 0
    BY <1>2, PrefixStep
  <2> QED BY <1>2, <2>1
<1>5. ASSUME NEW n \in 0 .. Len(s) - 1, n \in Good
      PROVE  n + 1 \in Good
  <2> DEFINE p == Prefix(ss, n)
             e == s[n + 1]
  <2>1. n + 1 \in 1 .. Len(s) /\ n + 1 \in 0 .. Len(s) /\ n \in 0 .. Len(ss) /\ n \in 0 .. Len(ss) - 1
    BY <1>2
  <2>2. Prefix(ss, n + 1) = p \o <<e>> /\ IsSeq(p)
    BY <2>1, <1>2, <1>3, PrefixStep
  <2>3. Len(p) = n /\ \A i \in 1 .. n : p[i] = s[i]
    BY <1>5
  <2> HIDE DEF p, e
  <2>4. /\ Len(p \o <<e>>) = n + 1 /\ \A i \in 1 .. n : (p \o <<e>>)[i] = p[i]
        /\ (p \o <<e>>)[n + 1] = e
    <3>1. Len(<<e>>) = 1 /\ <<e>>[1] = e /\ IsSeq(<<e>>) /\ 1 \in 1 .. 1
      BY SeqBasics
    <3>2. /\ Len(p \o <<e>>) = Len(p) + Len(<<e>>)
          /\ \A i \in 1 .. Len(p) : (p \o <<e>>)[i] = p[i]
          /\ \A i \in 1 .. Len(<<e>>) : (p \o <<e>>)[Len(p) + i] = <<e>>[i]
      BY <2>2, <3>1, SeqConcat
    <3> QED BY <3>1, <3>2, <2>3
  <2>5. \A i \in 1 .. n + 1 : (p \o <<e>>)[i] = s[i]
    BY <2>1, <2>3, <2>4 DEF e
  <2> QED BY <2>1, <2>2, <2>4, <2>5
<1> HIDE DEF Good
<1>6. Len(s) \in Good
  <2>1. Len(s) \in Nat /\ Len(s) \in 0 .. Len(s)
    BY <1>2
  <2> QED BY <2>1, <1>4, <1>5, Induction
<1>7. IsSeq(FlattenSeq(ss)) /\ FlattenSeq(ss) = Prefix(ss, Len(s))
  BY <1>2, PrefixStep, FlatIsSeq
<1> QED BY <1>1, <1>6, <1>7, SameSeq DEF Good

\* The events that put the batches of a schedule on the first stage carry
\* them in their order.
LEMMA BatchesOfArrivals ==
  ASSUME NEW rep, NEW made, IsSeq(made), NEW es,
         es = [i \in DOMAIN made |-> StageArrivalEvent(rep, 1, made[i])]
  PROVE  /\ IsSeq(es)
         /\ \A kind, r, st : Batches(kind, r, st, es) =
              IF kind = "stage_arrival" /\ r = rep /\ st = 1 THEN made ELSE <<>>
<1>1. DOMAIN made = 1 .. Len(made) /\ Len(made) \in Nat
  BY SeqShape
<1>2. es \in [1 .. Len(made) -> {StageArrivalEvent(rep, 1, made[i]) : i \in 1 .. Len(made)}]
  BY <1>1
<1>3. IsSeq(es) /\ DOMAIN es = DOMAIN made
  BY <1>1, <1>2, SeqMade
<1>4. \A i \in DOMAIN es : /\ es[i].kind = "stage_arrival" /\ es[i].rep = rep /\ es[i].stage = 1
                           /\ es[i].batch = made[i]
  BY DEF StageArrivalEvent, Event
<1>5. ASSUME NEW kind, NEW r, NEW st
      PROVE  Batches(kind, r, st, es) =
               IF kind = "stage_arrival" /\ r = rep /\ st = 1 THEN made ELSE <<>>
  <2>1. CASE kind = "stage_arrival" /\ r = rep /\ st = 1
    <3>1. Found(kind, r, st, es) = [i \in DOMAIN made |-> <<made[i]>>]
      BY <2>1, <1>3, <1>4 DEF Found, Hits
    <3> QED BY <3>1, <2>1, <1>3, BatchesFound, FlatOfOnes
  <2>2. CASE ~(kind = "stage_arrival" /\ r = rep /\ st = 1)
    <3>1. \A i \in DOMAIN es : ~Hits(kind, r, st, es[i])
      BY <2>2, <1>4 DEF Hits
    <3>2. Batches(kind, r, st, es) = <<>>
      BY <3>1, <1>3, BatchesNone
    <3> QED BY <3>2, <2>2
  <2> QED BY <2>1, <2>2
<1> QED BY <1>3, <1>5

\* Rows that agree after position k.
LEMMA FlatAfter ==
  ASSUME NEW ss, NEW tt, NEW u, AllSeqs(ss), AllSeqs(tt), IsSeq(u), Len(ss) = Len(tt),
         NEW k \in 0 .. Len(ss), Prefix(ss, k) = u \o Prefix(tt, k),
         \A i \in k + 1 .. Len(ss) : ss[i] = tt[i]
  PROVE  FlattenSeq(ss) = u \o FlattenSeq(tt)
<1> DEFINE n == Len(ss) - k
           Good == {m \in 0 .. n : Prefix(ss, k + m) = u \o Prefix(tt, k + m)}
<1>1. Len(ss) \in Nat /\ k \in Nat /\ n \in Nat /\ k + n = Len(ss) /\ k + 0 = k
  BY SeqShape DEF AllSeqs
<1>2. 0 \in Good
  BY <1>1
<1>3. ASSUME NEW m \in 0 .. n - 1, m \in Good
      PROVE  m + 1 \in Good
  <2> DEFINE j == k + m
             p == Prefix(tt, j)
             e == tt[j + 1]
  <2>1. /\ m \in Nat /\ j \in 0 .. Len(ss) - 1 /\ j \in 0 .. Len(ss) /\ j + 1 \in k + 1 .. Len(ss)
        /\ k + (m + 1) = j + 1 /\ m + 1 \in 0 .. n /\ j + 1 \in 1 .. Len(ss)
    BY <1>1
  <2>2. Prefix(ss, j) = u \o p
    BY <1>3
  <2>3. IsSeq(p) /\ IsSeq(e) /\ ss[j + 1] = e
    <3>1. DOMAIN tt = 1 .. Len(ss)
      BY SeqShape DEF AllSeqs
    <3> QED BY <2>1, <3>1, PrefixStep DEF AllSeqs
  <2>4. Prefix(ss, j + 1) = Prefix(ss, j) \o e /\ Prefix(tt, j + 1) = p \o e
    BY <2>1, <2>3, PrefixStep
  <2> HIDE DEF p, e
  <2>5. (u \o p) \o e = u \o (p \o e)
    BY SMTT(40), <2>3, SeqAssoc
  <2>6. Prefix(ss, j + 1) = u \o Prefix(tt, j + 1)
    BY <2>2, <2>4, <2>5
  <2> QED BY <2>1, <2>6
<1> HIDE DEF Good
<1>4. n \in Good
  <2>1. n \in 0 .. n
    BY <1>1
  <2> HIDE DEF n
  <2> QED BY <1>1, <2>1, <1>2, <1>3, Induction
<1> QED BY <1>1, <1>4, PrefixStep DEF Good

\* What is appended to the last sequence of a row is appended to the whole.
Appended(ss, tt, u, n) ==
  /\ n \in Nat /\ Len(ss) = n + 1 /\ Len(tt) = n + 1
  /\ \A i \in 1 .. n : ss[i] = tt[i]
  /\ tt[n + 1] = ss[n + 1] \o u

\* What is appended to the last sequence is appended to what all flatten to.
LEMMA FlatAppendLast ==
  ASSUME NEW ss, NEW tt, NEW u, AllSeqs(ss), AllSeqs(tt), IsSeq(u), NEW n, Appended(ss, tt, u, n)
  PROVE  FlattenSeq(tt) = FlattenSeq(ss) \o u
<1> DEFINE p == Prefix(ss, n)
           e == ss[n + 1]
<1>1. DOMAIN ss = 1 .. n + 1 /\ n + 1 \in DOMAIN ss /\ n \in 0 .. Len(ss) - 1 /\ n \in 0 .. Len(ss)
      /\ n <= Len(tt) /\ n \in 0 .. Len(tt) - 1 /\ Len(ss) = n + 1 /\ Len(tt) = n + 1
  BY SeqShape DEF AllSeqs, Appended
<1>2. IsSeq(p) /\ IsSeq(e)
  BY <1>1, PrefixStep DEF AllSeqs
<1>3. Prefix(tt, n) = p
  <2>1. \A i \in 1 .. n : ss[i] = tt[i]
    BY DEF Appended
  <2> QED BY <1>1, <2>1, PrefixSame
<1>4. FlattenSeq(ss) = p \o e
  BY <1>1, PrefixStep
<1>5. FlattenSeq(tt) = p \o (e \o u)
  <2>1. FlattenSeq(tt) = Prefix(tt, n) \o tt[n + 1]
    BY <1>1, PrefixStep
  <2> QED BY <2>1, <1>3 DEF Appended
<1> HIDE DEF p, e
<1> QED BY SMTT(40), <1>2, <1>4, <1>5, SeqAssoc

\* In tt, u is at the end of sequence k; in ss at the front of the next one.
Moved(ss, tt, u, k) ==
  /\ Len(ss) = Len(tt) /\ k \in 1 .. Len(ss) - 1
  /\ \A i \in 1 .. Len(ss) : i # k /\ i # k + 1 => ss[i] = tt[i]
  /\ tt[k] = ss[k] \o u /\ ss[k + 1] = u \o tt[k + 1]

\* What moves from the front of one sequence to the end of the one before
\* leaves what all flatten to.
LEMMA FlatMove ==
  ASSUME NEW ss, NEW tt, NEW u, AllSeqs(ss), AllSeqs(tt), IsSeq(u), NEW k, Moved(ss, tt, u, k)
  PROVE  FlattenSeq(ss) = FlattenSeq(tt)
<1> DEFINE j == k - 1
           p == Prefix(ss, j)
           a == ss[k]
           b == tt[k + 1]
<1>0. IsSeq(u) /\ Len(ss) = Len(tt) /\ k \in 1 .. Len(ss) - 1
  BY DEF Moved
<1>1. /\ Len(ss) \in Nat /\ DOMAIN ss = 1 .. Len(ss) /\ DOMAIN tt = 1 .. Len(ss)
      /\ j \in 0 .. Len(ss) - 1 /\ j \in 0 .. Len(ss) /\ j + 1 = k /\ k \in 0 .. Len(ss) - 1
      /\ j <= Len(tt) /\ k \in DOMAIN ss /\ k + 1 \in DOMAIN tt /\ k + 1 \in 0 .. Len(ss)
      /\ \A i \in 1 .. j : i \in 1 .. Len(ss) /\ i # k /\ i # k + 1
      /\ \A i \in (k + 1) + 1 .. Len(ss) : i \in 1 .. Len(ss) /\ i # k /\ i # k + 1
  <2> DEFINE n == Len(ss)
  <2>1. n \in Nat /\ DOMAIN ss = 1 .. n /\ DOMAIN tt = 1 .. n /\ Len(tt) = n /\ k \in 1 .. n - 1
    BY <1>0, SeqShape DEF AllSeqs
  <2> HIDE DEF n
  <2>2. /\ j \in 0 .. n - 1 /\ j \in 0 .. n /\ j + 1 = k /\ k \in 0 .. n - 1
        /\ j <= n /\ k \in 1 .. n /\ k + 1 \in 1 .. n /\ k + 1 \in 0 .. n
    BY <2>1
  <2>3. /\ \A i \in 1 .. j : i \in 1 .. n /\ i # k /\ i # k + 1
        /\ \A i \in (k + 1) + 1 .. n : i \in 1 .. n /\ i # k /\ i # k + 1
    BY <2>1
  <2> QED BY <2>1, <2>2, <2>3 DEF n
<1>2. IsSeq(p) /\ IsSeq(a) /\ IsSeq(b)
  BY <1>1, PrefixStep DEF AllSeqs
<1>3. Prefix(tt, j) = p
  <2>1. \A i \in 1 .. j : ss[i] = tt[i]
    BY <1>1 DEF Moved
  <2> QED BY <2>1, <1>1, PrefixSame
<1>4. Prefix(ss, k) = p \o a /\ Prefix(tt, k) = p \o (a \o u)
  <2>1. Prefix(ss, j + 1) = p \o ss[j + 1] /\ Prefix(tt, j + 1) = p \o tt[j + 1]
    <3> HIDE DEF j
    <3>1. Prefix(ss, j + 1) = Prefix(ss, j) \o ss[j + 1]
      BY <1>1, PrefixStep
    <3>2. Prefix(tt, j + 1) = Prefix(tt, j) \o tt[j + 1]
      <4>1. j \in 0 .. Len(tt) - 1
        BY <1>0, <1>1
      <4> QED BY <4>1, PrefixStep
    <3> QED BY <3>1, <3>2, <1>3
  <2> QED BY <2>1, <1>1 DEF Moved
<1>5. Prefix(ss, k + 1) = (p \o a) \o (u \o b) /\ Prefix(tt, k + 1) = (p \o (a \o u)) \o b
  <2>1. Prefix(ss, k + 1) = Prefix(ss, k) \o ss[k + 1] /\ Prefix(tt, k + 1) = Prefix(tt, k) \o tt[k + 1]
    <3>1. k \in 0 .. Len(ss) - 1 /\ k \in 0 .. Len(tt) - 1
      BY <1>0, <1>1
    <3> QED BY <3>1, PrefixStep
  <2> QED BY <2>1, <1>4 DEF Moved
<1>6. (p \o a) \o (u \o b) = (p \o (a \o u)) \o b
  <2> HIDE DEF p, a, b
  <2>1. IsSeq(p) /\ IsSeq(a) /\ IsSeq(b) /\ IsSeq(u)
    BY <1>0, <1>2
  <2> DEFINE x == p \o a
             y == a \o u
  <2>2. IsSeq(x) /\ IsSeq(y)
    BY <2>1, SeqConcat
  <2>5. x \o u = p \o y
    BY SMTT(40), <2>1, SeqAssoc
  <2> HIDE DEF x, y
  <2>3. (x \o u) \o b = x \o (u \o b)
    <3>1. \A r, s, t : IsSeq(r) /\ IsSeq(s) /\ IsSeq(t) => (r \o s) \o t = r \o (s \o t)
      BY SeqAssoc
    <3>2. IsSeq(x) /\ IsSeq(u) /\ IsSeq(b)
      BY <2>1, <2>2
    <3> HIDE DEF IsSeq
    <3> QED BY Z3, <3>1, <3>2
  <2>6. x \o (u \o b) = (p \o y) \o b
    BY <2>3, <2>5
  <2> QED BY <2>6 DEF x, y
<1>7. Prefix(ss, k + 1) = <<>> \o Prefix(tt, k + 1)
  <2>1. IsSeq(Prefix(tt, k + 1))
    BY <1>1, PrefixStep
  <2> QED BY <1>5, <1>6, <2>1, SeqEmpty
<1>8. FlattenSeq(ss) = <<>> \o FlattenSeq(tt)
  <2>1. \A i \in (k + 1) + 1 .. Len(ss) : ss[i] = tt[i]
    BY <1>1 DEF Moved
  <2> QED BY <1>0, <1>1, <1>7, <2>1, SeqBasics, FlatAfter
<1> QED BY <1>8, FlatIsSeq, SeqEmpty

\* What leaves the front of the first sequence leaves the front of the whole.
LEMMA FlatDropFirst ==
  ASSUME NEW ss, NEW tt, NEW u, AllSeqs(ss), AllSeqs(tt), IsSeq(u), Len(ss) = Len(tt),
         Len(ss) >= 1, ss[1] = u \o tt[1], \A i \in 2 .. Len(ss) : ss[i] = tt[i]
  PROVE  FlattenSeq(ss) = u \o FlattenSeq(tt)
<1>1. Len(ss) \in Nat /\ DOMAIN tt = 1 .. Len(ss) /\ 0 \in 0 .. Len(ss) - 1 /\ 0 + 1 = 1 /\ 1 + 1 = 2
      /\ 1 \in 0 .. Len(ss) /\ 1 \in DOMAIN tt
  BY SeqShape DEF AllSeqs
<1>2. IsSeq(ss[1]) /\ IsSeq(tt[1])
  <2>1. 1 \in DOMAIN ss
    BY <1>1, SeqShape DEF AllSeqs
  <2> QED BY <1>1, <2>1 DEF AllSeqs
<1>3. Prefix(ss, 1) = ss[1] /\ Prefix(tt, 1) = tt[1]
  <2>1. /\ Prefix(ss, 0 + 1) = Prefix(ss, 0) \o ss[0 + 1] /\ Prefix(ss, 0) = <<>>
        /\ Prefix(tt, 0 + 1) = Prefix(tt, 0) \o tt[0 + 1] /\ Prefix(tt, 0) = <<>>
    BY <1>1, PrefixStep
  <2> QED BY <2>1, <1>1, <1>2, SeqEmpty
<1> QED BY <1>1, <1>3, FlatAfter

-------------------------------------------------------------------------------
\* The events due, and those that stay for later

Splits(kind, rep, st, f, S) ==
  Batches(kind, rep, st, Picked(S, f)) \o Batches(kind, rep, st, Picked(DOMAIN f \ S, f))
    = Batches(kind, rep, st, f)

\* Where a stage has at most one batch among the events, the ones that are
\* due and the others have it between them, in any order of becoming due.
LEMMA SplitBatches ==
  ASSUME NEW kind, NEW rep, NEW st, NEW f, IsSeq(f), NEW S,
         Len(Batches(kind, rep, st, f)) <= 1
  PROVE  Splits(kind, rep, st, f, S)
<1> DEFINE R == DOMAIN f \ S
           T(n) == Prefix(Found(kind, rep, st, f), n)
           P(n) == Batches(kind, rep, st, Prefix(Marks(S, f), n))
           Q(n) == Batches(kind, rep, st, Prefix(Marks(R, f), n))
           Good == {n \in 0 .. Len(f) :
                      /\ Len(T(n)) = Len(P(n)) + Len(Q(n))
                      /\ Len(T(n)) <= 1 => P(n) \o Q(n) = T(n)}
<1>1. Len(f) \in Nat /\ DOMAIN f = 1 .. Len(f)
  BY SeqShape
<1>2. /\ AllSeqs(Found(kind, rep, st, f)) /\ Len(Found(kind, rep, st, f)) = Len(f)
      /\ Batches(kind, rep, st, f) = FlattenSeq(Found(kind, rep, st, f))
  BY BatchesFound
<1>3. /\ AllSeqs(Marks(S, f)) /\ Len(Marks(S, f)) = Len(f) /\ Picked(S, f) = FlattenSeq(Marks(S, f))
      /\ AllSeqs(Marks(R, f)) /\ Len(Marks(R, f)) = Len(f) /\ Picked(R, f) = FlattenSeq(Marks(R, f))
  BY MarksSeqs
<1>4. ASSUME NEW n \in 0 .. Len(f)
      PROVE  /\ IsSeq(T(n)) /\ IsSeq(P(n)) /\ IsSeq(Q(n))
             /\ IsSeq(Prefix(Marks(S, f), n)) /\ IsSeq(Prefix(Marks(R, f), n))
  <2>1. IsSeq(T(n)) /\ IsSeq(Prefix(Marks(S, f), n)) /\ IsSeq(Prefix(Marks(R, f), n))
    BY <1>2, <1>3, PrefixStep
  <2> QED BY <2>1, BatchesFound
<1>5. 0 \in Good
  <2>1. T(0) = <<>> /\ Prefix(Marks(S, f), 0) = <<>> /\ Prefix(Marks(R, f), 0) = <<>>
    BY <1>2, <1>3, PrefixStep
  <2>2. Batches(kind, rep, st, <<>>) = <<>>
    BY SeqBasics, BatchesNone
  <2>3. Len(<<>>) = 0 /\ <<>> \o <<>> = <<>> /\ 0 \in 0 .. Len(f)
    BY <1>1, SeqBasics, SeqEmpty
  <2> DEFINE o == 0
  <2>4. T(o) = <<>> /\ P(o) = <<>> /\ Q(o) = <<>>
    BY <2>1, <2>2
  <2> HIDE DEF T, P, Q
  <2>5. Len(<<>>) = Len(<<>>) + Len(<<>>)
    BY <2>3
  <2>6. Len(T(0)) = Len(P(0)) + Len(Q(0)) /\ (Len(T(0)) <= 1 => P(0) \o Q(0) = T(0))
    BY <2>3, <2>4, <2>5
  <2> HIDE DEF o
  <2> QED BY Zenon, <2>3, <2>6
<1>6. ASSUME NEW n \in 0 .. Len(f) - 1, n \in Good
      PROVE  n + 1 \in Good
  <2> DEFINE e == f[n + 1]
             h == IF Hits(kind, rep, st, e) THEN <<e.batch>> ELSE <<>>
             hp == IF n + 1 \in S THEN h ELSE <<>>
             hq == IF n + 1 \in S THEN <<>> ELSE h
             t == T(n)
             p == P(n)
             q == Q(n)
  <2>1. n \in 0 .. Len(f) /\ n + 1 \in 0 .. Len(f) /\ n + 1 \in DOMAIN f
    BY <1>1
  <2>2. IsSeq(t) /\ IsSeq(p) /\ IsSeq(q) /\ Len(t) = Len(p) + Len(q)
        /\ (Len(t) <= 1 => p \o q = t)
    BY <1>4, <1>6
  <2>3. T(n + 1) = t \o h
    <3>1. Found(kind, rep, st, f)[n + 1] = h
      BY <2>1 DEF Found
    <3> QED BY <1>2, <3>1, PrefixStep
  <2>4. Batches(kind, rep, st, <<e>>) = h /\ Batches(kind, rep, st, <<>>) = <<>> /\ IsSeq(<<e>>)
        /\ IsSeq(<<>>)
    BY BatchesOne, BatchesNone, SeqBasics
  <2>5. P(n + 1) = p \o hp
    <3> DEFINE m == IF n + 1 \in S THEN <<e>> ELSE <<>>
               w == Prefix(Marks(S, f), n)
    <3>1. Marks(S, f)[n + 1] = m
      BY <2>1 DEF Marks
    <3>2. Prefix(Marks(S, f), n + 1) = w \o m
      BY <1>3, <3>1, PrefixStep
    <3>3. IsSeq(w) /\ IsSeq(m) /\ Batches(kind, rep, st, m) = hp
      BY <1>4, <2>1, <2>4
    <3> HIDE DEF w, m, hp
    <3>4. Batches(kind, rep, st, w \o m) = Batches(kind, rep, st, w) \o Batches(kind, rep, st, m)
      BY <3>3, BatchesConcat
    <3> QED BY <3>2, <3>3, <3>4 DEF w
  <2>6. Q(n + 1) = q \o hq
    <3> DEFINE m == IF n + 1 \in R THEN <<e>> ELSE <<>>
               w == Prefix(Marks(R, f), n)
    <3>1. Marks(R, f)[n + 1] = m
      BY <2>1 DEF Marks
    <3>2. Prefix(Marks(R, f), n + 1) = w \o m
      BY <1>3, <3>1, PrefixStep
    <3>3. IsSeq(w) /\ IsSeq(m) /\ Batches(kind, rep, st, m) = hq
      BY <1>4, <2>1, <2>4
    <3> HIDE DEF w, m, hq, R
    <3>4. Batches(kind, rep, st, w \o m) = Batches(kind, rep, st, w) \o Batches(kind, rep, st, m)
      BY <3>3, BatchesConcat
    <3> QED BY <3>2, <3>3, <3>4 DEF w
  <2>7. IsSeq(h) /\ IsSeq(<<>>) /\ (h = <<>> \/ Len(h) = 1)
    BY SeqBasics
  <2>8. Len(t \o h) = Len(p \o hp) + Len(q \o hq)
        /\ (Len(t \o h) <= 1 => (p \o hp) \o (q \o hq) = t \o h)
    <3> HIDE DEF t, p, q, h
    <3>1. Len(t) \in Nat /\ Len(p) \in Nat /\ Len(q) \in Nat /\ Len(h) \in Nat /\ Len(t \o h) = Len(t) + Len(h)
          /\ Len(p \o h) = Len(p) + Len(h) /\ Len(q \o h) = Len(q) + Len(h)
          /\ p \o <<>> = p /\ q \o <<>> = q /\ t \o <<>> = t
      BY <2>2, <2>7, SeqShape, SeqConcat, SeqEmpty
    <3>2. CASE h = <<>>
      <4>1. hp = <<>> /\ hq = <<>>
        BY <3>2
      <4> QED BY <4>1, <3>1, <3>2, <2>2
    <3>3. CASE Len(h) = 1
      <4>1. Len(t \o h) = Len(p \o hp) + Len(q \o hq)
        BY <3>1, <3>3, <2>2
      <4>2. ASSUME Len(t \o h) <= 1 PROVE (p \o hp) \o (q \o hq) = t \o h
        <5>1. Len(t) = 0 /\ Len(p) = 0 /\ Len(q) = 0
          BY <4>2, <3>1, <3>3, <2>2
        <5>2. t = <<>> /\ p = <<>> /\ q = <<>>
          BY <5>1, <2>2, SeqEmpty
        <5>3. <<>> \o h = h /\ h \o <<>> = h /\ <<>> \o <<>> = <<>>
          BY <2>7, SeqEmpty
        <5> QED BY <5>2, <5>3
      <4> QED BY <4>1, <4>2
    <3> QED BY <3>2, <3>3, <2>7
  <2> HIDE DEF t, p, q, hp, hq, h, T, P, Q
  <2> QED BY <2>1, <2>3, <2>5, <2>6, <2>8
<1> HIDE DEF Good
<1>7. Len(f) \in Good
  <2>1. Len(f) \in 0 .. Len(f)
    BY <1>1
  <2> QED BY <1>1, <2>1, <1>5, <1>6, Induction
<1>8. /\ T(Len(f)) = Batches(kind, rep, st, f)
      /\ P(Len(f)) = Batches(kind, rep, st, Picked(S, f))
      /\ Q(Len(f)) = Batches(kind, rep, st, Picked(R, f))
  BY <1>2, <1>3, PrefixStep
<1> HIDE DEF T, P, Q
<1> QED BY <1>7, <1>8 DEF Good, Splits

-------------------------------------------------------------------------------
\* The pipeline of a replica as one row of sequences

\* AtStage and InPipeline, of a state that is given part by part.
AtStageOf(rep, st, stg, nw, fut) ==
  Batches("stage_end", rep, st, nw \o fut) \o stg[rep][st].queue
    \o Batches("stage_arrival", rep, st, nw)
InPipelineOf(n, rep, stg, nw, fut) ==
  Batches("batch_end", rep, 0, nw)
    \o FlattenSeq([i \in 1 .. n |-> AtStageOf(rep, n + 1 - i, stg, nw, fut)])

\* What is finished comes first, then stage n, down to stage 1.
Row(n, rep, stg, nw, fut) ==
  [i \in 1 .. n + 1 |-> IF i = 1 THEN Batches("batch_end", rep, 0, nw)
                        ELSE AtStageOf(rep, n + 2 - i, stg, nw, fut)]

\* What the row is made of are sequences.
RowTyped(n, rep, stg, nw, fut) ==
  /\ n \in Nat /\ IsSeq(nw) /\ IsSeq(fut)
  /\ \A st \in 1 .. n : IsSeq(stg[rep][st].queue)

\* What is at a stage is a sequence.
LEMMA AtStageSeq ==
  ASSUME NEW n, NEW rep, NEW stg, NEW nw, NEW fut, RowTyped(n, rep, stg, nw, fut), NEW st \in 1 .. n
  PROVE  /\ IsSeq(Batches("stage_end", rep, st, nw \o fut)) /\ IsSeq(stg[rep][st].queue)
         /\ IsSeq(Batches("stage_arrival", rep, st, nw))
         /\ IsSeq(AtStageOf(rep, st, stg, nw, fut))
<1> DEFINE a == Batches("stage_end", rep, st, nw \o fut)
           q == stg[rep][st].queue
           b == Batches("stage_arrival", rep, st, nw)
<1>1. IsSeq(nw) /\ IsSeq(nw \o fut) /\ IsSeq(q)
  BY SeqConcat DEF RowTyped
<1>2. IsSeq(a) /\ IsSeq(b)
  BY <1>1, BatchesFound
<1>3. IsSeq((a \o q) \o b)
  <2> HIDE DEF a, q, b
  <2>1. IsSeq(a \o q)
    BY <1>1, <1>2, SeqConcat
  <2> QED BY <2>1, <1>2, SeqConcat
<1> QED BY <1>1, <1>2, <1>3 DEF AtStageOf

\* A row is one of sequences, one for each stage and one for the last event.
LEMMA RowSeqs ==
  ASSUME NEW n, NEW rep, NEW stg, NEW nw, NEW fut, RowTyped(n, rep, stg, nw, fut)
  PROVE  AllSeqs(Row(n, rep, stg, nw, fut)) /\ Len(Row(n, rep, stg, nw, fut)) = n + 1
<1> DEFINE r == Row(n, rep, stg, nw, fut)
<1>1. ASSUME NEW i \in 1 .. n + 1 PROVE IsSeq(r[i])
  <2>1. CASE i = 1
    BY <2>1, BatchesFound DEF Row, RowTyped
  <2>2. CASE i # 1
    <3>1. n + 2 - i \in 1 .. n
      BY <2>2 DEF RowTyped
    <3> QED BY <3>1, <2>2, AtStageSeq DEF Row
  <2> QED BY <2>1, <2>2
<1>2. r \in [1 .. n + 1 -> {r[i] : i \in 1 .. n + 1}] /\ n + 1 \in Nat /\ DOMAIN r = 1 .. n + 1
  BY DEF Row, RowTyped
<1> HIDE DEF r
<1>3. IsSeq(r) /\ Len(r) = n + 1
  BY <1>2, SeqMade
<1> QED BY <1>1, <1>2, <1>3 DEF AllSeqs, r

\* A pipeline is its row, flattened.
LEMMA InPipelineIsRow ==
  ASSUME NEW n, NEW rep, NEW stg, NEW nw, NEW fut, RowTyped(n, rep, stg, nw, fut)
  PROVE  InPipelineOf(n, rep, stg, nw, fut) = FlattenSeq(Row(n, rep, stg, nw, fut))
<1> DEFINE r == Row(n, rep, stg, nw, fut)
           e == Batches("batch_end", rep, 0, nw)
           t == [i \in 1 .. n |-> AtStageOf(rep, n + 1 - i, stg, nw, fut)]
<1>1. n \in Nat /\ IsSeq(e)
  BY BatchesFound DEF RowTyped
<1>2. AllSeqs(t) /\ Len(t) = n
  <2>1. ASSUME NEW i \in 1 .. n PROVE IsSeq(t[i])
    <3>1. n + 1 - i \in 1 .. n
      BY <1>1
    <3> QED BY <3>1, AtStageSeq
  <2>2. t \in [1 .. n -> {t[i] : i \in 1 .. n}] /\ DOMAIN t = 1 .. n
    OBVIOUS
  <2> HIDE DEF t
  <2>3. IsSeq(t) /\ Len(t) = n
    BY <1>1, <2>2, SeqMade
  <2> QED BY <2>1, <2>2, <2>3 DEF AllSeqs
<1>3. \A i \in 1 .. n : t[i] = r[1 + i]
  <2>1. ASSUME NEW i \in 1 .. n PROVE t[i] = r[1 + i]
    <3>1. 1 + i \in 1 .. n + 1 /\ 1 + i # 1 /\ n + 2 - (1 + i) = n + 1 - i
      BY <1>1
    <3> QED BY <3>1 DEF Row
  <2> QED BY <2>1
<1>4. r[1] = e /\ AllSeqs(r) /\ Len(r) = n + 1
  BY <1>1, RowSeqs DEF Row
<1> HIDE DEF r, e, t
<1>5. AllSeqs(<<e>>) /\ FlattenSeq(<<e>>) = e /\ Len(<<e>>) = 1 /\ <<e>>[1] = e
  BY <1>1, FlatOne, SeqBasics
<1>6. <<e>> \o t = r
  <2> DEFINE c == <<e>>
  <2>1. IsSeq(c) /\ IsSeq(t) /\ IsSeq(r) /\ Len(c) = 1 /\ c[1] = e
    BY <1>2, <1>4, <1>5 DEF AllSeqs
  <2> HIDE DEF c
  <2>2. /\ IsSeq(c \o t) /\ Len(c \o t) = 1 + n /\ \A i \in 1 .. 1 : (c \o t)[i] = c[i]
        /\ \A i \in 1 .. n : (c \o t)[1 + i] = t[i]
    <3>1. Len(c) = 1 /\ Len(t) = n
      BY <2>1, <1>2
    <3>2. /\ IsSeq(c \o t) /\ Len(c \o t) = Len(c) + Len(t)
          /\ \A i \in 1 .. Len(c) : (c \o t)[i] = c[i]
          /\ \A i \in 1 .. Len(t) : (c \o t)[Len(c) + i] = t[i]
      <4>1. IsSeq(c) /\ IsSeq(t)
        BY <2>1
      <4> QED BY <4>1, SeqConcat
    <3> QED BY <3>1, <3>2
  <2>3. ASSUME NEW i \in 1 .. n + 1 PROVE (c \o t)[i] = r[i]
    <3>1. CASE i = 1
      BY <3>1, <2>1, <2>2, <1>4
    <3>2. CASE i # 1
      <4>1. i - 1 \in 1 .. n /\ 1 + (i - 1) = i
        BY <3>2, <1>1
      <4> QED BY <4>1, <2>2, <1>3
    <3> QED BY <3>1, <3>2
  <2>4. Len(c \o t) = n + 1
    BY <2>2, <1>1
  <2>5. c \o t = r
    BY <2>1, <2>2, <2>3, <2>4, <1>4, SameSeq
  <2> QED BY <2>5 DEF c
<1>7. FlattenSeq(<<e>> \o t) = e \o FlattenSeq(t)
  BY <1>2, <1>5, FlatConcat
<1> QED BY <1>6, <1>7 DEF r, e, t, InPipelineOf

-------------------------------------------------------------------------------
\* An event is handled

One(kind, rep, st, e) == IF Hits(kind, rep, st, e) THEN <<e.batch>> ELSE <<>>

\* The events nw that are due become nw2 and the later ones, fut, become fut2.
HandledTo(nw, fut, same, later, nw2, fut2) ==
  /\ IsSeq(nw) /\ IsSeq(fut) /\ IsSeq(same) /\ IsSeq(later) /\ nw # <<>>
  /\ nw2 = Tail(nw) \o same /\ fut2 = fut \o later

\* The batches among the events after a handler: those of the event it handles
\* are gone, those of the events it schedules have come.
LEMMA HandledBatches ==
  ASSUME NEW nw, NEW fut, NEW same, NEW later, NEW nw2, NEW fut2,
         HandledTo(nw, fut, same, later, nw2, fut2), NEW kind, NEW rep, NEW st
  PROVE  /\ IsSeq(nw2) /\ IsSeq(fut2) /\ IsSeq(Tail(nw))
         /\ IsSeq(Batches(kind, rep, st, Tail(nw))) /\ IsSeq(Batches(kind, rep, st, fut))
         /\ IsSeq(Batches(kind, rep, st, same)) /\ IsSeq(Batches(kind, rep, st, later))
         /\ IsSeq(One(kind, rep, st, Head(nw)))
         /\ Batches(kind, rep, st, nw)
              = One(kind, rep, st, Head(nw)) \o Batches(kind, rep, st, Tail(nw))
         /\ Batches(kind, rep, st, nw2)
              = Batches(kind, rep, st, Tail(nw)) \o Batches(kind, rep, st, same)
         /\ Batches(kind, rep, st, fut2)
              = Batches(kind, rep, st, fut) \o Batches(kind, rep, st, later)
         /\ Batches(kind, rep, st, nw \o fut)
              = Batches(kind, rep, st, nw) \o Batches(kind, rep, st, fut)
         /\ Batches(kind, rep, st, nw2 \o fut2)
              = Batches(kind, rep, st, nw2) \o Batches(kind, rep, st, fut2)
<1> DEFINE t == Tail(nw)
<1>1. IsSeq(t) /\ IsSeq(nw) /\ IsSeq(fut) /\ IsSeq(same) /\ IsSeq(later) /\ nw # <<>>
  BY SeqTail DEF HandledTo
<1>2. nw2 = t \o same /\ fut2 = fut \o later /\ IsSeq(nw2) /\ IsSeq(fut2)
  BY <1>1, SeqConcat DEF HandledTo
<1>3. IsSeq(One(kind, rep, st, Head(nw)))
  BY SeqBasics DEF One
<1>4. Batches(kind, rep, st, nw) = One(kind, rep, st, Head(nw)) \o Batches(kind, rep, st, t)
  BY <1>1, BatchesHead DEF One
<1> HIDE DEF t
<1>5. /\ Batches(kind, rep, st, nw \o fut) = Batches(kind, rep, st, nw) \o Batches(kind, rep, st, fut)
      /\ Batches(kind, rep, st, nw2 \o fut2)
           = Batches(kind, rep, st, nw2) \o Batches(kind, rep, st, fut2)
  BY <1>1, <1>2, BatchesConcat
<1>6. Batches(kind, rep, st, nw2) = Batches(kind, rep, st, t) \o Batches(kind, rep, st, same)
  BY <1>1, <1>2, BatchesConcat
<1>7. Batches(kind, rep, st, fut2) = Batches(kind, rep, st, fut) \o Batches(kind, rep, st, later)
  BY <1>1, <1>2, BatchesConcat
<1>9. /\ IsSeq(Batches(kind, rep, st, t)) /\ IsSeq(Batches(kind, rep, st, fut))
      /\ IsSeq(Batches(kind, rep, st, same)) /\ IsSeq(Batches(kind, rep, st, later))
  BY <1>1, BatchesFound
<1> QED BY <1>1, <1>2, <1>3, <1>4, <1>5, <1>6, <1>7, <1>9 DEF t

\* The parts of it.
LEMMA HandledSeqs ==
  ASSUME NEW nw, NEW fut, NEW same, NEW later, NEW nw2, NEW fut2,
         HandledTo(nw, fut, same, later, nw2, fut2), NEW kind, NEW rep, NEW st
  PROVE  /\ IsSeq(Batches(kind, rep, st, Tail(nw))) /\ IsSeq(Batches(kind, rep, st, fut))
BY HandledBatches

\* The batches of the events that are due, with the one to be handled first.
LEMMA NowHead ==
  ASSUME NEW nw, NEW fut, NEW same, NEW later, NEW nw2, NEW fut2,
         HandledTo(nw, fut, same, later, nw2, fut2), NEW kind, NEW rep, NEW st
  PROVE  Batches(kind, rep, st, nw) = One(kind, rep, st, Head(nw)) \o Batches(kind, rep, st, Tail(nw))
BY HandledBatches

\* The same, after the handler.
LEMMA NowNext ==
  ASSUME NEW nw, NEW fut, NEW same, NEW later, NEW nw2, NEW fut2,
         HandledTo(nw, fut, same, later, nw2, fut2), NEW kind, NEW rep, NEW st
  PROVE  Batches(kind, rep, st, nw2) = Batches(kind, rep, st, Tail(nw)) \o Batches(kind, rep, st, same)
BY HandledBatches

\* The batches of the events that are not due, after the handler.
LEMMA LaterNext ==
  ASSUME NEW nw, NEW fut, NEW same, NEW later, NEW nw2, NEW fut2,
         HandledTo(nw, fut, same, later, nw2, fut2), NEW kind, NEW rep, NEW st
  PROVE  Batches(kind, rep, st, fut2) = Batches(kind, rep, st, fut) \o Batches(kind, rep, st, later)
BY HandledBatches

\* The batches of all events are those of both lists.
LEMMA BothNow ==
  ASSUME NEW nw, NEW fut, NEW same, NEW later, NEW nw2, NEW fut2,
         HandledTo(nw, fut, same, later, nw2, fut2), NEW kind, NEW rep, NEW st
  PROVE  Batches(kind, rep, st, nw \o fut) = Batches(kind, rep, st, nw) \o Batches(kind, rep, st, fut)
BY HandledBatches

\* The same, after the handler.
LEMMA BothNext ==
  ASSUME NEW nw, NEW fut, NEW same, NEW later, NEW nw2, NEW fut2,
         HandledTo(nw, fut, same, later, nw2, fut2), NEW kind, NEW rep, NEW st
  PROVE  Batches(kind, rep, st, nw2 \o fut2) = Batches(kind, rep, st, nw2) \o Batches(kind, rep, st, fut2)
BY HandledBatches

\* Nothing comes or goes.
LEMMA BatchesStill ==
  ASSUME NEW nw, NEW fut, NEW same, NEW later, NEW nw2, NEW fut2,
         HandledTo(nw, fut, same, later, nw2, fut2), NEW kind, NEW rep, NEW st
  PROVE  One(kind, rep, st, Head(nw)) = <<>> /\ Batches(kind, rep, st, same) = <<>> =>
           /\ Batches(kind, rep, st, nw2) = Batches(kind, rep, st, nw)
           /\ Batches(kind, rep, st, later) = <<>> =>
                Batches(kind, rep, st, nw2 \o fut2) = Batches(kind, rep, st, nw \o fut)
<1> DEFINE t == Batches(kind, rep, st, Tail(nw))
           f == Batches(kind, rep, st, fut)
           o == One(kind, rep, st, Head(nw))
           s == Batches(kind, rep, st, same)
           l == Batches(kind, rep, st, later)
           a == Batches(kind, rep, st, nw)
           a2 == Batches(kind, rep, st, nw2)
           f2 == Batches(kind, rep, st, fut2)
           af == Batches(kind, rep, st, nw \o fut)
           af2 == Batches(kind, rep, st, nw2 \o fut2)
<1>1. IsSeq(t) /\ IsSeq(f)
  BY HandledSeqs
<1>a. a = o \o t
  BY NowHead
<1>b. a2 = t \o s
  BY NowNext
<1>c. f2 = f \o l
  BY LaterNext
<1>d. af = a \o f
  BY BothNow
<1>e. af2 = a2 \o f2
  BY BothNext
<1> HIDE DEF t, f, o, s, l, a, a2, f2, af, af2
<1>2. <<>> \o t = t /\ t \o <<>> = t /\ f \o <<>> = f
  BY <1>1, SeqEmpty
<1>3. o = <<>> /\ s = <<>> => a2 = a /\ (l = <<>> => af2 = af)
  BY <1>a, <1>b, <1>c, <1>d, <1>e, <1>2
<1> QED BY <1>3 DEF a, a2, l, af, af2, o, s

\* What is appended to the last of three sequences, or leaves the first, and
\* what moves from one of them to its neighbour.
LEMMA ThreeAppend ==
  ASSUME NEW a, NEW q, NEW b, NEW u, NEW b2, IsSeq(a), IsSeq(q), IsSeq(b), IsSeq(u), b2 = b \o u
  PROVE  (a \o q) \o b2 = ((a \o q) \o b) \o u
<1> DEFINE x == a \o q
<1>1. IsSeq(x)
  BY SeqConcat
<1> HIDE DEF x
<1>2. (x \o b) \o u = x \o (b \o u)
  BY <1>1, SeqAssoc
<1>3. x \o b2 = (x \o b) \o u
  BY <1>2
<1> QED BY <1>3 DEF x

\* A batch that leaves the first of three sequences leaves all three.
LEMMA ThreeDrop ==
  ASSUME NEW a, NEW q, NEW b, NEW u, NEW a2, IsSeq(a2), IsSeq(q), IsSeq(b), IsSeq(u), a = u \o a2
  PROVE  (a \o q) \o b = u \o ((a2 \o q) \o b)
<1> DEFINE x == a2 \o q
<1>1. IsSeq(x)
  BY SeqConcat
<1>2. (u \o a2) \o q = u \o x
  BY SeqAssoc
<1>3. a \o q = u \o x
  BY <1>2
<1> HIDE DEF x
<1>4. (u \o x) \o b = u \o (x \o b)
  BY SMTT(40), <1>1, SeqAssoc
<1>5. (a \o q) \o b = u \o (x \o b)
  BY <1>3, <1>4
<1> QED BY <1>5 DEF x

Three(a, q, b) == (a \o q) \o b
HandedOn(q, b, u, q2, b2) == q2 = q \o u /\ b = u \o b2

\* A batch handed on from the third to the second stays in its place.
LEMMA ThreeArrive ==
  ASSUME NEW a, NEW q, NEW b, NEW u, NEW q2, NEW b2, IsSeq(a), IsSeq(q), IsSeq(b2), IsSeq(u),
         HandedOn(q, b, u, q2, b2)
  PROVE  Three(a, q, b) = Three(a, q2, b2)
<1> DEFINE x == a \o q
<1>1. IsSeq(x)
  BY SeqConcat
<1>2. x \o u = a \o (q \o u)
  BY SMTT(40), SeqAssoc
<1>0. q2 = q \o u /\ b = u \o b2
  BY DEF HandedOn
<1>3. a \o q2 = x \o u
  BY <1>0, <1>2
<1> HIDE DEF x
<1>4. (x \o u) \o b2 = x \o (u \o b2)
  BY <1>1, SeqAssoc, Z3
<1>5. x \o b = (a \o q2) \o b2
  BY <1>0, <1>3, <1>4
<1> QED BY <1>5 DEF x, Three

\* A batch taken from the second to an empty first stays in its place.
LEMMA ThreeTake ==
  ASSUME NEW a, NEW q, NEW b, NEW u, NEW a2, NEW q2, IsSeq(q2), IsSeq(u), IsSeq(b),
         a = <<>>, a2 = u, q = u \o q2
  PROVE  (a \o q) \o b = (a2 \o q2) \o b
<1>1. IsSeq(q)
  BY SeqConcat
<1>2. a \o q = q
  BY <1>1, SeqEmpty
<1>3. a2 \o q2 = q
  OBVIOUS
<1> QED BY <1>2, <1>3

-------------------------------------------------------------------------------
\* What becomes of InPipeline

\* What is at each place of a row: the last event, then the stages from the
\* last to the first.
LEMMA RowAt ==
  ASSUME NEW n \in Nat, NEW rep, NEW stg, NEW nw, NEW fut
  PROVE  /\ Row(n, rep, stg, nw, fut)[1] = Batches("batch_end", rep, 0, nw)
         /\ \A i \in 2 .. n + 1 : n + 2 - i \in 1 .. n
              /\ Row(n, rep, stg, nw, fut)[i] = AtStageOf(rep, n + 2 - i, stg, nw, fut)
BY DEF Row

\* Where nothing changes at any stage nothing changes in the pipeline.
LEMMA RowSame ==
  ASSUME NEW n, NEW rep, NEW stg, NEW nw, NEW fut, NEW stg2, NEW nw2, NEW fut2, n \in Nat,
         Batches("batch_end", rep, 0, nw2) = Batches("batch_end", rep, 0, nw),
         \A st \in 1 .. n : AtStageOf(rep, st, stg2, nw2, fut2) = AtStageOf(rep, st, stg, nw, fut)
  PROVE  InPipelineOf(n, rep, stg2, nw2, fut2) = InPipelineOf(n, rep, stg, nw, fut)
<1>1. \A i \in 1 .. n : n + 1 - i \in 1 .. n
  OBVIOUS
<1>2. [i \in 1 .. n |-> AtStageOf(rep, n + 1 - i, stg2, nw2, fut2)]
        = [i \in 1 .. n |-> AtStageOf(rep, n + 1 - i, stg, nw, fut)]
  BY <1>1
<1> QED BY <1>2 DEF InPipelineOf

\* What comes to the first stage comes to the end of the pipeline.
LEMMA RowEnter ==
  ASSUME NEW n, NEW rep, NEW stg, NEW nw, NEW fut, NEW stg2, NEW nw2, NEW fut2, NEW u,
         RowTyped(n, rep, stg, nw, fut), RowTyped(n, rep, stg2, nw2, fut2), n >= 1, IsSeq(u),
         Batches("batch_end", rep, 0, nw2) = Batches("batch_end", rep, 0, nw),
         \A st \in 2 .. n : AtStageOf(rep, st, stg2, nw2, fut2) = AtStageOf(rep, st, stg, nw, fut),
         AtStageOf(rep, 1, stg2, nw2, fut2) = AtStageOf(rep, 1, stg, nw, fut) \o u
  PROVE  InPipelineOf(n, rep, stg2, nw2, fut2) = InPipelineOf(n, rep, stg, nw, fut) \o u
<1> DEFINE ss == Row(n, rep, stg, nw, fut)
           tt == Row(n, rep, stg2, nw2, fut2)
<1>1. n \in Nat /\ AllSeqs(ss) /\ AllSeqs(tt) /\ Len(ss) = n + 1 /\ Len(tt) = n + 1
  BY RowSeqs DEF RowTyped
<1>2. \A i \in 1 .. n : ss[i] = tt[i]
  <2>1. ASSUME NEW i \in 1 .. n PROVE ss[i] = tt[i]
    <3>1. CASE i = 1
      BY <3>1, <1>1, RowAt
    <3>2. CASE i # 1
      <4>1. i \in 2 .. n + 1 /\ n + 2 - i \in 2 .. n
        BY <3>2, <1>1
      <4> QED BY <4>1, <1>1, RowAt
    <3> QED BY <3>1, <3>2
  <2> QED BY <2>1
<1>3. tt[n + 1] = ss[n + 1] \o u
  <2>1. n + 1 \in 2 .. n + 1 /\ n + 2 - (n + 1) = 1
    BY <1>1
  <2>2. tt[n + 1] = AtStageOf(rep, 1, stg2, nw2, fut2) /\ ss[n + 1] = AtStageOf(rep, 1, stg, nw, fut)
    <3>1. /\ tt[n + 1] = AtStageOf(rep, n + 2 - (n + 1), stg2, nw2, fut2)
          /\ ss[n + 1] = AtStageOf(rep, n + 2 - (n + 1), stg, nw, fut)
      BY <2>1, <1>1, RowAt
    <3> QED BY <3>1, <2>1
  <2> QED BY <2>2
<1>4. /\ InPipelineOf(n, rep, stg, nw, fut) = FlattenSeq(ss)
      /\ InPipelineOf(n, rep, stg2, nw2, fut2) = FlattenSeq(tt)
  BY InPipelineIsRow
<1> HIDE DEF ss, tt
<1>5. Appended(ss, tt, u, n)
  BY <1>1, <1>2, <1>3 DEF Appended
<1>6. FlattenSeq(tt) = FlattenSeq(ss) \o u
  BY <1>1, <1>5, FlatAppendLast, Z3
<1> QED BY <1>4, <1>6

\* u, at the front of what stage s has, goes to the stage after it, or to what
\* is finished.
RowMoved(n, rep, stg, nw, fut, stg2, nw2, fut2, u, s) ==
  /\ Batches("batch_end", rep, 0, nw2)
       = IF s = n THEN Batches("batch_end", rep, 0, nw) \o u ELSE Batches("batch_end", rep, 0, nw)
  /\ AtStageOf(rep, s, stg, nw, fut) = u \o AtStageOf(rep, s, stg2, nw2, fut2)
  /\ \A st \in 1 .. n : st # s =>
       AtStageOf(rep, st, stg2, nw2, fut2)
         = IF st = s + 1 THEN AtStageOf(rep, st, stg, nw, fut) \o u ELSE AtStageOf(rep, st, stg, nw, fut)

\* What moves on to the next stage stays in its place of the pipeline.
LEMMA RowMove ==
  ASSUME NEW n, NEW rep, NEW stg, NEW nw, NEW fut, NEW stg2, NEW nw2, NEW fut2, NEW u,
         RowTyped(n, rep, stg, nw, fut), RowTyped(n, rep, stg2, nw2, fut2), IsSeq(u),
         NEW s \in 1 .. n,
         RowMoved(n, rep, stg, nw, fut, stg2, nw2, fut2, u, s)
  PROVE  InPipelineOf(n, rep, stg2, nw2, fut2) = InPipelineOf(n, rep, stg, nw, fut)
<1> DEFINE ss == Row(n, rep, stg, nw, fut)
           tt == Row(n, rep, stg2, nw2, fut2)
           k == n + 1 - s
<1>1. n \in Nat /\ AllSeqs(ss) /\ AllSeqs(tt) /\ Len(ss) = n + 1 /\ Len(tt) = n + 1
  BY RowSeqs DEF RowTyped
<1>2. k \in 1 .. n /\ k + 1 \in 2 .. n + 1 /\ n + 2 - (k + 1) = s /\ (k = 1 <=> s = n)
  BY <1>1
<1>3. ASSUME NEW i \in 1 .. n + 1, i # k, i # k + 1 PROVE ss[i] = tt[i]
  <2>1. CASE i = 1
    BY <2>1, <1>1, <1>2, <1>3, RowAt, Z3 DEF RowMoved
  <2>2. CASE i # 1
    <3>1. i \in 2 .. n + 1 /\ n + 2 - i \in 1 .. n /\ n + 2 - i # s /\ n + 2 - i # s + 1
      BY <2>2, <1>1, <1>3
    <3>2. /\ ss[i] = AtStageOf(rep, n + 2 - i, stg, nw, fut)
          /\ tt[i] = AtStageOf(rep, n + 2 - i, stg2, nw2, fut2)
      BY <3>1, <1>1, RowAt
    <3> QED BY <3>1, <3>2 DEF RowMoved
  <2> QED BY <2>1, <2>2
<1>4. tt[k] = ss[k] \o u
  <2>1. CASE s = n
    <3>1. ss[k] = Batches("batch_end", rep, 0, nw) /\ tt[k] = Batches("batch_end", rep, 0, nw2)
      BY <2>1, <1>1, <1>2, RowAt
    <3> QED BY <3>1, <2>1 DEF RowMoved
  <2>2. CASE s # n
    <3>1. k \in 2 .. n + 1 /\ n + 2 - k = s + 1 /\ s + 1 \in 1 .. n /\ s + 1 # s
      BY <2>2, <1>1, <1>2
    <3>2. /\ ss[k] = AtStageOf(rep, n + 2 - k, stg, nw, fut)
          /\ tt[k] = AtStageOf(rep, n + 2 - k, stg2, nw2, fut2)
      <4> HIDE DEF k
      <4> QED BY <3>1, <1>1, RowAt
    <3>3. ss[k] = AtStageOf(rep, s + 1, stg, nw, fut) /\ tt[k] = AtStageOf(rep, s + 1, stg2, nw2, fut2)
      BY <3>1, <3>2
    <3> QED BY <3>1, <3>3 DEF RowMoved
  <2> QED BY <2>1, <2>2
<1>5. ss[k + 1] = u \o tt[k + 1]
  <2>1. /\ ss[k + 1] = AtStageOf(rep, n + 2 - (k + 1), stg, nw, fut)
        /\ tt[k + 1] = AtStageOf(rep, n + 2 - (k + 1), stg2, nw2, fut2)
    <3> HIDE DEF k
    <3> QED BY <1>1, <1>2, RowAt
  <2>2. ss[k + 1] = AtStageOf(rep, s, stg, nw, fut) /\ tt[k + 1] = AtStageOf(rep, s, stg2, nw2, fut2)
    BY <2>1, <1>2
  <2> QED BY <2>2 DEF RowMoved
<1>6. /\ InPipelineOf(n, rep, stg, nw, fut) = FlattenSeq(ss)
      /\ InPipelineOf(n, rep, stg2, nw2, fut2) = FlattenSeq(tt)
  BY InPipelineIsRow
<1>7. k \in 1 .. Len(ss) - 1
  BY <1>1, <1>2
<1> HIDE DEF ss, tt, k
<1>8. Moved(ss, tt, u, k)
  BY <1>1, <1>3, <1>4, <1>5, <1>7 DEF Moved
<1>9. FlattenSeq(ss) = FlattenSeq(tt)
  BY <1>1, <1>8, FlatMove
<1> QED BY <1>6, <1>9

\* What the last event takes leaves the front of the pipeline.
LEMMA RowLeave ==
  ASSUME NEW n, NEW rep, NEW stg, NEW nw, NEW fut, NEW stg2, NEW nw2, NEW fut2, NEW u,
         RowTyped(n, rep, stg, nw, fut), RowTyped(n, rep, stg2, nw2, fut2), IsSeq(u),
         Batches("batch_end", rep, 0, nw) = u \o Batches("batch_end", rep, 0, nw2),
         \A st \in 1 .. n : AtStageOf(rep, st, stg2, nw2, fut2) = AtStageOf(rep, st, stg, nw, fut)
  PROVE  InPipelineOf(n, rep, stg, nw, fut) = u \o InPipelineOf(n, rep, stg2, nw2, fut2)
<1> DEFINE ss == Row(n, rep, stg, nw, fut)
           tt == Row(n, rep, stg2, nw2, fut2)
<1>1. n \in Nat /\ AllSeqs(ss) /\ AllSeqs(tt) /\ Len(ss) = n + 1 /\ Len(tt) = n + 1
  BY RowSeqs DEF RowTyped
<1>2. ss[1] = u \o tt[1]
  BY <1>1, RowAt, Z3
<1>3. \A i \in 2 .. Len(ss) : ss[i] = tt[i]
  <2>1. ASSUME NEW i \in 2 .. n + 1 PROVE ss[i] = tt[i]
    <3>1. n + 2 - i \in 1 .. n /\ ss[i] = AtStageOf(rep, n + 2 - i, stg, nw, fut)
          /\ tt[i] = AtStageOf(rep, n + 2 - i, stg2, nw2, fut2)
      BY <1>1, RowAt, Z3
    <3> QED BY <3>1
  <2> QED BY <2>1, <1>1
<1>4. /\ InPipelineOf(n, rep, stg, nw, fut) = FlattenSeq(ss)
      /\ InPipelineOf(n, rep, stg2, nw2, fut2) = FlattenSeq(tt)
  BY InPipelineIsRow
<1>5. Len(ss) >= 1
  BY <1>1
<1> HIDE DEF ss, tt
<1>6. FlattenSeq(ss) = u \o FlattenSeq(tt)
  BY <1>1, <1>2, <1>3, <1>5, FlatDropFirst
<1> QED BY <1>4, <1>6

-------------------------------------------------------------------------------
\* The events in the queue

\* The replica schedulers.
Kinds == {"vllm", "sarathi", "orca", "faster_transformer", "lightllm", "splitwise"}

AllKinds == {"arrival", "global", "replica", "stage_arrival", "stage", "stage_end", "batch_end"}
LaterKinds == {"replica", "stage_end"}

\* e is an event of one of these kinds, of a simulation of c in which the
\* requests of ids may be on replicas.
EventOk(c, ids, kinds, e) ==
  /\ e.kind \in kinds
  /\ e.kind = "arrival" => e.id \in DOMAIN c.arrivedAt
  /\ e.kind \in {"replica", "stage_arrival", "stage", "stage_end", "batch_end"} =>
       e.rep \in 1 .. c.replicas
  /\ e.kind \in {"stage_arrival", "stage", "stage_end"} => e.stage \in 1 .. c.stages
  /\ e.kind \in {"stage_arrival", "stage_end", "batch_end"} => IsBatch(ids, e.batch)
  /\ e.kind = "batch_end" => e.stage = 0

EventsOk(c, ids, kinds, es) == IsSeq(es) /\ \A i \in DOMAIN es : EventOk(c, ids, kinds, es[i])

\* Events stay well formed when more requests are known.
LEMMA EventsMono ==
  ASSUME NEW c, NEW ids, NEW kinds, NEW es, EventsOk(c, ids, kinds, es),
         NEW ids2, NEW kinds2, ids \subseteq ids2, kinds \subseteq kinds2
  PROVE  EventsOk(c, ids2, kinds2, es)
BY DEF EventsOk, EventOk, IsBatch

\* Well-formed events, one list after the other.
LEMMA EventsConcat ==
  ASSUME NEW c, NEW ids, NEW kinds, NEW s, NEW t,
         EventsOk(c, ids, kinds, s), EventsOk(c, ids, kinds, t)
  PROVE  EventsOk(c, ids, kinds, s \o t)
<1> DEFINE u == s \o t
<1>1. IsSeq(s) /\ IsSeq(t)
  BY DEF EventsOk
<1>2. /\ IsSeq(u) /\ Len(u) = Len(s) + Len(t) /\ \A i \in 1 .. Len(s) : u[i] = s[i]
      /\ \A i \in 1 .. Len(t) : u[Len(s) + i] = t[i]
  BY <1>1, SeqConcat
<1>3. /\ Len(s) \in Nat /\ Len(t) \in Nat
      /\ DOMAIN s = 1 .. Len(s) /\ DOMAIN t = 1 .. Len(t) /\ DOMAIN u = 1 .. Len(u)
  BY <1>1, <1>2, SeqShape
<1> HIDE DEF u
<1>4. ASSUME NEW i \in DOMAIN u PROVE EventOk(c, ids, kinds, u[i])
  <2>1. CASE i <= Len(s)
    <3>1. i \in DOMAIN s /\ u[i] = s[i]
      BY <2>1, <1>2, <1>3
    <3> QED BY <3>1 DEF EventsOk
  <2>2. CASE i > Len(s)
    <3>1. i - Len(s) \in DOMAIN t /\ Len(s) + (i - Len(s)) = i
      BY <2>2, <1>2, <1>3
    <3>2. u[i] = t[i - Len(s)]
      BY <3>1, <1>2, <1>3
    <3> QED BY <3>1, <3>2 DEF EventsOk
  <2> QED BY <2>1, <2>2, <1>2, <1>3
<1> QED BY <1>2, <1>4 DEF EventsOk, u

\* The first of well-formed events, and the others.
LEMMA EventsTail ==
  ASSUME NEW c, NEW ids, NEW kinds, NEW es, EventsOk(c, ids, kinds, es), es # <<>>
  PROVE  EventsOk(c, ids, kinds, Tail(es)) /\ EventOk(c, ids, kinds, Head(es))
<1>1. PICK S : es \in Seq(S)
  BY DEF EventsOk, IsSeq
<1>2. /\ Tail(es) \in Seq(S) /\ Head(es) = es[1] /\ 1 \in DOMAIN es
      /\ \A i \in DOMAIN Tail(es) : i + 1 \in DOMAIN es /\ Tail(es)[i] = es[i + 1]
  BY <1>1
<1> QED BY <1>2 DEF EventsOk, IsSeq

\* No event, one, or two.
LEMMA EventsFew ==
  ASSUME NEW c, NEW ids, NEW kinds
  PROVE  /\ EventsOk(c, ids, kinds, <<>>)
         /\ \A e : EventOk(c, ids, kinds, e) => EventsOk(c, ids, kinds, <<e>>)
         /\ \A e, f : EventOk(c, ids, kinds, e) /\ EventOk(c, ids, kinds, f) =>
              EventsOk(c, ids, kinds, <<e, f>>)
<1>1. IsSeq(<<>>) /\ DOMAIN <<>> = {}
  BY SeqBasics
<1>2. ASSUME NEW e PROVE IsSeq(<<e>>) /\ DOMAIN <<e>> = {1} /\ <<e>>[1] = e
  BY SeqBasics
<1>3. ASSUME NEW e, NEW f
      PROVE  IsSeq(<<e, f>>) /\ DOMAIN <<e, f>> = 1 .. 2 /\ <<e, f>>[1] = e /\ <<e, f>>[2] = f
  <2>1. <<e, f>> \in Seq({e, f})
    OBVIOUS
  <2>2. IsSeq(<<e, f>>)
    BY <2>1 DEF IsSeq
  <2>3. Len(<<e, f>>) = 2 /\ <<e, f>>[1] = e /\ <<e, f>>[2] = f
    OBVIOUS
  <2> QED BY <2>2, <2>3, SeqShape
<1> QED BY <1>1, <1>2, <1>3 DEF EventsOk

\* Some of well-formed events.
LEMMA EventsPicked ==
  ASSUME NEW c, NEW ids, NEW kinds, NEW S, NEW s, IsSeq(s),
         \A i \in DOMAIN s : i \in S => EventOk(c, ids, kinds, s[i])
  PROVE  EventsOk(c, ids, kinds, Picked(S, s))
<1> DEFINE V == {s[i] : i \in DOMAIN s \cap S}
           p == Picked(S, s)
<1>1. \A e \in V : EventOk(c, ids, kinds, e)
  OBVIOUS
<1>2. p \in Seq(V)
  BY PickedIn
<1> HIDE DEF V, p
<1>3. \A i \in DOMAIN p : p[i] \in V
  BY <1>2
<1>4. IsSeq(p)
  BY <1>2 DEF IsSeq
<1> QED BY <1>1, <1>3, <1>4 DEF EventsOk, p

-------------------------------------------------------------------------------
\* The invariant

\* The requests that may be on replicas: a Splitwise scheduler has chosen the
\* decode replica of each of them.
Known == {id \in Requests : Splitwise => decodeOn[id] \in Replicas}

SchedOk(ids, s) ==
  /\ DOMAIN s = SchedulerFields /\ s.queue \in Seq(ids) /\ s.preempted \in Seq(ids)
  /\ IsSeq(s.held) /\ \A i \in DOMAIN s.held : IsBatch(ids, s.held[i])

StageOk(ids, t) ==
  /\ DOMAIN t = {"queue", "busy"} /\ t.busy \in BOOLEAN
  /\ IsSeq(t.queue) /\ \A i \in DOMAIN t.queue : IsBatch(ids, t.queue[i])

Typed ==
  /\ cfg \in Configs
  /\ requestQueue \in Seq(Requests) /\ counter \in Nat
  /\ EventsOk(cfg, Known, AllKinds, now)
  /\ EventsOk(cfg, Known, LaterKinds, future)
  /\ DOMAIN sched = Replicas /\ \A rep \in Replicas : SchedOk(Known, sched[rep])
  /\ DOMAIN stage = Replicas
  /\ \A rep \in Replicas : /\ DOMAIN stage[rep] = Stages
                           /\ \A st \in Stages : StageOk(Known, stage[rep][st])

\* num_running_batches counts the batches in the pipeline, and a busy stage is
\* one whose BatchStageEndEvent is still to come.
Counted ==
  \A rep \in Replicas :
    /\ sched[rep].running = Len(InPipeline(rep)) /\ Len(InPipeline(rep)) <= cfg.stages
    /\ \A st \in Stages : Len(Batches("stage_end", rep, st, now \o future))
                            = IF stage[rep][st].busy THEN 1 ELSE 0

Inv == Typed /\ Counted

\* What ConfigsAssumption gives of the configuration that is simulated.
LEMMA ConfigShape ==
  ASSUME cfg \in Configs
  PROVE  /\ cfg.kind \in Kinds /\ cfg.replicas \in Nat /\ cfg.prefills \in Nat /\ cfg.stages \in Nat
         /\ cfg.stages >= 1 /\ cfg.arrivedAt \in Seq(Nat)
         /\ Splitwise => 0 < cfg.prefills /\ cfg.prefills < cfg.replicas
BY ConfigsAssumption DEF WellFormed, Kinds, Splitwise

\* The pipeline of every replica, before and after a step.
LEMMA Pipelines ==
  /\ \A rep : InPipeline(rep) = InPipelineOf(cfg.stages, rep, stage, now, future)
  /\ \A rep : InPipeline(rep)' = InPipelineOf(cfg'.stages, rep, stage', now', future')
BY DEF InPipeline, InPipelineOf, AtStage, AtStageOf, Stages

\* What holds of the parts of a state makes its row one of sequences.
LEMMA TypedRow ==
  ASSUME NEW c, c.stages \in Nat, NEW ids, NEW kinds, NEW kinds2, NEW rep, NEW stg, NEW nw, NEW fut,
         EventsOk(c, ids, kinds, nw), EventsOk(c, ids, kinds2, fut),
         \A st \in 1 .. c.stages : StageOk(ids, stg[rep][st])
  PROVE  RowTyped(c.stages, rep, stg, nw, fut)
BY DEF RowTyped, EventsOk, StageOk

\* e has nothing to do with the batches in the pipeline of rep.
Apart(rep, e) == e.kind \notin {"stage_arrival", "stage_end", "batch_end"} \/ e.rep # rep

\* An event about another replica, or of another kind, has no batch here.
LEMMA ApartNone ==
  ASSUME NEW rep, NEW kind \in {"stage_arrival", "stage_end", "batch_end"}, NEW st
  PROVE  /\ \A e : Apart(rep, e) => One(kind, rep, st, e) = <<>>
         /\ \A es : IsSeq(es) /\ (\A i \in DOMAIN es : Apart(rep, es[i])) =>
              Batches(kind, rep, st, es) = <<>>
<1>1. \A e : Apart(rep, e) => ~Hits(kind, rep, st, e)
  BY DEF Apart, Hits
<1> QED BY <1>1, BatchesNone DEF One

\* Nothing happens to the pipeline of rep.
Untouched(n, rep, nw, same, later, stg, stg2) ==
  /\ \A st \in 1 .. n : stg2[rep][st].queue = stg[rep][st].queue
  /\ Apart(rep, Head(nw))
  /\ \A i \in DOMAIN same : Apart(rep, same[i])
  /\ \A i \in DOMAIN later : Apart(rep, later[i])

\* A handler that does not touch a replica leaves its pipeline.
LEMMA FlowApart ==
  ASSUME NEW nw, NEW fut, NEW same, NEW later, NEW nw2, NEW fut2,
         HandledTo(nw, fut, same, later, nw2, fut2),
         NEW n \in Nat, NEW rep, NEW stg, NEW stg2, Untouched(n, rep, nw, same, later, stg, stg2)
  PROVE  /\ InPipelineOf(n, rep, stg2, nw2, fut2) = InPipelineOf(n, rep, stg, nw, fut)
         /\ \A st : Batches("stage_end", rep, st, nw2 \o fut2) = Batches("stage_end", rep, st, nw \o fut)
<1>1. ASSUME NEW kind \in {"stage_arrival", "stage_end", "batch_end"}, NEW st
      PROVE  /\ Batches(kind, rep, st, nw2) = Batches(kind, rep, st, nw)
             /\ Batches(kind, rep, st, nw2 \o fut2) = Batches(kind, rep, st, nw \o fut)
  <2>1. IsSeq(same) /\ IsSeq(later)
    BY DEF HandledTo
  <2>2. /\ One(kind, rep, st, Head(nw)) = <<>> /\ Batches(kind, rep, st, same) = <<>>
        /\ Batches(kind, rep, st, later) = <<>>
    BY <2>1, ApartNone DEF Untouched
  <2> QED BY <2>2, BatchesStill
<1>2. \A st \in 1 .. n : AtStageOf(rep, st, stg2, nw2, fut2) = AtStageOf(rep, st, stg, nw, fut)
  BY <1>1 DEF AtStageOf, Untouched
<1> QED BY <1>1, <1>2, RowSame

\* The BatchStageArrivalEvents of the batches made.
Arrivals(rep, made, es) == es = [i \in DOMAIN made |-> StageArrivalEvent(rep, 1, made[i])]

\* on_schedule: the batches made enter the pipeline.
EnteredBy(n, rep, made, stg, nw, fut, nw2, fut2) ==
  /\ InPipelineOf(n, rep, stg, nw2, fut2) = InPipelineOf(n, rep, stg, nw, fut) \o made
  /\ \A st : Batches("stage_end", rep, st, nw2 \o fut2) = Batches("stage_end", rep, st, nw \o fut)

\* on_schedule: what it makes comes to the end of the pipeline.
LEMMA FlowEnter ==
  ASSUME NEW nw, NEW fut, NEW same, NEW nw2, NEW fut2, HandledTo(nw, fut, same, <<>>, nw2, fut2),
         NEW n, NEW rep, NEW stg, n >= 1,
         RowTyped(n, rep, stg, nw, fut), RowTyped(n, rep, stg, nw2, fut2),
         Head(nw).kind = "replica", NEW made, IsSeq(made), Arrivals(rep, made, same)
  PROVE  EnteredBy(n, rep, made, stg, nw, fut, nw2, fut2)
<1>1. ASSUME NEW kind \in {"stage_arrival", "stage_end", "batch_end"}, NEW st
      PROVE  /\ One(kind, rep, st, Head(nw)) = <<>> /\ Batches(kind, rep, st, <<>>) = <<>>
             /\ Batches(kind, rep, st, same)
                  = IF kind = "stage_arrival" /\ st = 1 THEN made ELSE <<>>
  <2>1. Apart(rep, Head(nw)) /\ IsSeq(<<>>) /\ DOMAIN <<>> = {}
    BY SeqBasics DEF Apart
  <2>2. Batches(kind, rep, st, <<>>) = <<>>
    BY NoBatches
  <2>3. \A r : Batches(kind, r, st, same) = IF kind = "stage_arrival" /\ r = rep /\ st = 1 THEN made ELSE <<>>
    BY BatchesOfArrivals DEF Arrivals
  <2> QED BY <2>1, <2>2, <2>3, ApartNone
<1>2. ASSUME NEW st
      PROVE  Batches("stage_end", rep, st, nw2 \o fut2) = Batches("stage_end", rep, st, nw \o fut)
  BY <1>1, BatchesStill
<1>3. Batches("batch_end", rep, 0, nw2) = Batches("batch_end", rep, 0, nw)
  BY <1>1, BatchesStill
<1>4. ASSUME NEW st \in 2 .. n
      PROVE  AtStageOf(rep, st, stg, nw2, fut2) = AtStageOf(rep, st, stg, nw, fut)
  <2>1. Batches("stage_arrival", rep, st, nw2) = Batches("stage_arrival", rep, st, nw)
    BY <1>1, BatchesStill
  <2> QED BY <2>1, <1>2 DEF AtStageOf
<1>5. AtStageOf(rep, 1, stg, nw2, fut2) = AtStageOf(rep, 1, stg, nw, fut) \o made
  <2> DEFINE a == Batches("stage_end", rep, 1, nw \o fut)
             q == stg[rep][1].queue
             b == Batches("stage_arrival", rep, 1, nw)
             b2 == Batches("stage_arrival", rep, 1, nw2)
             t == Batches("stage_arrival", rep, 1, Tail(nw))
             o == One("stage_arrival", rep, 1, Head(nw))
             s == Batches("stage_arrival", rep, 1, same)
  <2>1. 1 \in 1 .. n
    BY DEF RowTyped
  <2>2. IsSeq(a) /\ IsSeq(q) /\ IsSeq(b)
    BY <2>1, AtStageSeq
  <2>3. b = o \o t
    BY NowHead
  <2>4. b2 = t \o s
    BY NowNext
  <2>5. IsSeq(t)
    BY HandledSeqs
  <2>6. o = <<>> /\ s = made
    BY <1>1
  <2>7. AtStageOf(rep, 1, stg, nw, fut) = (a \o q) \o b /\ AtStageOf(rep, 1, stg, nw2, fut2) = (a \o q) \o b2
    BY <1>2 DEF AtStageOf
  <2> HIDE DEF a, q, b, b2, t, o, s
  <2>8. b = t
    BY <2>3, <2>5, <2>6, SeqEmpty
  <2>9. (a \o q) \o b2 = ((a \o q) \o b) \o made
    <3>1. b2 = b \o made
      BY <2>4, <2>6, <2>8
    <3> QED BY <3>1, <2>2, ThreeAppend
  <2> QED BY <2>7, <2>9
<1>6. InPipelineOf(n, rep, stg, nw2, fut2) = InPipelineOf(n, rep, stg, nw, fut) \o made
  BY <1>3, <1>4, <1>5, RowEnter, Z3
<1> QED BY <1>2, <1>6 DEF EnteredBy

\* e is an event of that kind about batch b.
About(e, kind, rep, st, b) == e.kind = kind /\ e.rep = rep /\ e.stage = st /\ e.batch = b

\* A batch that has arrived waits for its stage.
LEMMA FlowArrive ==
  ASSUME NEW nw, NEW fut, NEW same, NEW nw2, NEW fut2, HandledTo(nw, fut, same, <<>>, nw2, fut2),
         NEW n, NEW rep, NEW stg, NEW stg2, NEW s \in 1 .. n, RowTyped(n, rep, stg, nw, fut),
         NEW b, About(Head(nw), "stage_arrival", rep, s, b),
         \A i \in DOMAIN same : Apart(rep, same[i]),
         \A st \in 1 .. n : stg2[rep][st].queue
           = IF st = s THEN stg[rep][st].queue \o <<b>> ELSE stg[rep][st].queue
  PROVE  /\ InPipelineOf(n, rep, stg2, nw2, fut2) = InPipelineOf(n, rep, stg, nw, fut)
         /\ \A st : Batches("stage_end", rep, st, nw2 \o fut2) = Batches("stage_end", rep, st, nw \o fut)
<1>1. ASSUME NEW kind \in {"stage_arrival", "stage_end", "batch_end"}, NEW st
      PROVE  /\ One(kind, rep, st, Head(nw)) = IF kind = "stage_arrival" /\ st = s THEN <<b>> ELSE <<>>
             /\ Batches(kind, rep, st, <<>>) = <<>> /\ Batches(kind, rep, st, same) = <<>>
  <2>1. IsSeq(<<>>) /\ DOMAIN <<>> = {} /\ IsSeq(same)
    BY SeqBasics DEF HandledTo
  <2>2. Batches(kind, rep, st, <<>>) = <<>> /\ Batches(kind, rep, st, same) = <<>>
    BY <2>1, ApartNone, NoBatches
  <2>3. One(kind, rep, st, Head(nw)) = IF kind = "stage_arrival" /\ st = s THEN <<b>> ELSE <<>>
    BY DEF One, Hits, About
  <2> QED BY <2>2, <2>3
<1>2. ASSUME NEW st
      PROVE  Batches("stage_end", rep, st, nw2 \o fut2) = Batches("stage_end", rep, st, nw \o fut)
  BY <1>1, BatchesStill
<1>3. Batches("batch_end", rep, 0, nw2) = Batches("batch_end", rep, 0, nw)
  BY <1>1, BatchesStill
<1>4. ASSUME NEW st \in 1 .. n, st # s
      PROVE  AtStageOf(rep, st, stg2, nw2, fut2) = AtStageOf(rep, st, stg, nw, fut)
  <2>1. Batches("stage_arrival", rep, st, nw2) = Batches("stage_arrival", rep, st, nw)
    BY <1>1, <1>4, BatchesStill
  <2> QED BY <2>1, <1>2, <1>4 DEF AtStageOf
<1>5. AtStageOf(rep, s, stg2, nw2, fut2) = AtStageOf(rep, s, stg, nw, fut)
  <2> DEFINE a == Batches("stage_end", rep, s, nw \o fut)
             q == stg[rep][s].queue
             q2 == stg2[rep][s].queue
             c == Batches("stage_arrival", rep, s, nw)
             c2 == Batches("stage_arrival", rep, s, nw2)
             t == Batches("stage_arrival", rep, s, Tail(nw))
             o == One("stage_arrival", rep, s, Head(nw))
             w == Batches("stage_arrival", rep, s, same)
             u == <<b>>
  <2>2. IsSeq(a) /\ IsSeq(q) /\ IsSeq(u)
    BY AtStageSeq, SeqBasics
  <2>3. c = o \o t
    BY NowHead
  <2>4. c2 = t \o w
    BY NowNext
  <2>5. IsSeq(t)
    BY HandledSeqs
  <2>6. o = u /\ w = <<>>
    BY <1>1
  <2>7. /\ AtStageOf(rep, s, stg, nw, fut) = (a \o q) \o c
        /\ AtStageOf(rep, s, stg2, nw2, fut2) = (a \o q2) \o c2
    BY <1>2 DEF AtStageOf
  <2>8. q2 = q \o u
    OBVIOUS
  <2> HIDE DEF a, q, q2, c, c2, t, o, w, u
  <2>9. c2 = t
    BY <2>4, <2>5, <2>6, SeqEmpty
  <2>10. (a \o q) \o c = (a \o q2) \o c2
    <3>1. c = u \o c2 /\ IsSeq(c2)
      BY <2>3, <2>5, <2>6, <2>9
    <3>2. HandedOn(q, c, u, q2, c2)
      BY <2>8, <3>1 DEF HandedOn
    <3>3. Three(a, q, c) = Three(a, q2, c2)
      BY <3>1, <3>2, <2>2, ThreeArrive
    <3> QED BY <3>3 DEF Three
  <2> QED BY <2>7, <2>10
<1>6. n \in Nat
  BY DEF RowTyped
<1>7. InPipelineOf(n, rep, stg2, nw2, fut2) = InPipelineOf(n, rep, stg, nw, fut)
  BY <1>3, <1>4, <1>5, <1>6, RowSame, Z3
<1> QED BY <1>2, <1>7

\* Which batches an event stands for, and a row of two events.
LEMMA OneEvent ==
  ASSUME NEW e, NEW kind, NEW rep, NEW st
  PROVE  One(kind, rep, st, e)
           = IF kind = e.kind /\ rep = e.rep /\ st = e.stage THEN <<e.batch>> ELSE <<>>
BY DEF One, Hits

\* An idle stage takes the batch that has waited longest.
StageTaken(n, rep, s, b, later, stg, stg2, es) ==
  /\ later = <<StageEndEvent(rep, s, b)>>
  /\ Batches("stage_end", rep, s, es) = <<>>
  /\ \A st \in 1 .. n : st # s => stg2[rep][st].queue = stg[rep][st].queue
  /\ stg[rep][s].queue = <<b>> \o stg2[rep][s].queue

\* An idle stage takes the first of its queue: the order stays.
LEMMA FlowTake ==
  ASSUME NEW nw, NEW fut, NEW later, NEW nw2, NEW fut2, HandledTo(nw, fut, <<>>, later, nw2, fut2),
         NEW n, NEW rep, NEW stg, NEW stg2, NEW s \in 1 .. n,
         RowTyped(n, rep, stg, nw, fut), RowTyped(n, rep, stg2, nw2, fut2),
         NEW b, Head(nw).kind = "stage", StageTaken(n, rep, s, b, later, stg, stg2, nw \o fut)
  PROVE  /\ InPipelineOf(n, rep, stg2, nw2, fut2) = InPipelineOf(n, rep, stg, nw, fut)
         /\ \A st : st # s =>
              Batches("stage_end", rep, st, nw2 \o fut2) = Batches("stage_end", rep, st, nw \o fut)
         /\ Batches("stage_end", rep, s, nw2 \o fut2) = <<b>>
<1>1. ASSUME NEW kind \in {"stage_arrival", "stage_end", "batch_end"}, NEW st
      PROVE  /\ One(kind, rep, st, Head(nw)) = <<>> /\ Batches(kind, rep, st, <<>>) = <<>>
             /\ Batches(kind, rep, st, later)
                  = IF kind = "stage_end" /\ st = s THEN <<b>> ELSE <<>>
  <2>1. Apart(rep, Head(nw)) /\ IsSeq(<<>>) /\ DOMAIN <<>> = {}
    BY SeqBasics DEF Apart
  <2>2. One(kind, rep, st, Head(nw)) = <<>> /\ Batches(kind, rep, st, <<>>) = <<>>
    BY <2>1, ApartNone, NoBatches
  <2> DEFINE e == StageEndEvent(rep, s, b)
  <2>3. e.kind = "stage_end" /\ e.rep = rep /\ e.stage = s /\ e.batch = b
    BY DEF StageEndEvent, Event
  <2>5. Batches(kind, rep, st, later) = IF Hits(kind, rep, st, e) THEN <<e.batch>> ELSE <<>>
    BY BatchesOne DEF StageTaken
  <2> HIDE DEF e
  <2>4. Batches(kind, rep, st, later) = IF kind = "stage_end" /\ st = s THEN <<b>> ELSE <<>>
    BY <2>3, <2>5 DEF Hits
  <2> QED BY <2>2, <2>4
<1>2. ASSUME NEW st, st # s
      PROVE  Batches("stage_end", rep, st, nw2 \o fut2) = Batches("stage_end", rep, st, nw \o fut)
  BY <1>1, <1>2, BatchesStill
<1>3. ASSUME NEW kind \in {"stage_arrival", "stage_end", "batch_end"}, NEW st
      PROVE  Batches(kind, rep, st, nw2) = Batches(kind, rep, st, nw)
  BY <1>1, BatchesStill
<1>4. ASSUME NEW st \in 1 .. n, st # s
      PROVE  AtStageOf(rep, st, stg2, nw2, fut2) = AtStageOf(rep, st, stg, nw, fut)
  BY <1>2, <1>3, <1>4 DEF AtStageOf, StageTaken
<1>5. Batches("stage_end", rep, s, nw2 \o fut2) = <<b>>
  <2> DEFINE a == Batches("stage_end", rep, s, nw \o fut)
             a2 == Batches("stage_end", rep, s, nw2 \o fut2)
             c == Batches("stage_end", rep, s, nw)
             c2 == Batches("stage_end", rep, s, nw2)
             f == Batches("stage_end", rep, s, fut)
             f2 == Batches("stage_end", rep, s, fut2)
             l == Batches("stage_end", rep, s, later)
             u == <<b>>
  <2>1. a = c \o f
    BY BothNow
  <2>2. a2 = c2 \o f2
    BY BothNext
  <2>3. f2 = f \o l
    BY LaterNext
  <2>4. IsSeq(f)
    BY HandledSeqs
  <2>5. IsSeq(c)
    BY BatchesFound DEF RowTyped
  <2>6. c2 = c /\ l = u /\ a = <<>> /\ IsSeq(u)
    BY <1>1, <1>3, SeqBasics DEF StageTaken
  <2> HIDE DEF a, a2, c, c2, f, f2, l, u
  <2>7. c = <<>> /\ f = <<>>
    <3>1. Len(a) = Len(c) + Len(f) /\ Len(c) \in Nat /\ Len(f) \in Nat /\ Len(a) = 0
      <4>1. IsSeq(c) /\ IsSeq(f)
        BY <2>4, <2>5
      <4>2. Len(c \o f) = Len(c) + Len(f) /\ Len(c) \in Nat /\ Len(f) \in Nat
        BY <4>1, SeqConcat, SeqShape
      <4>3. Len(a) = 0
        BY <2>6, SeqBasics
      <4> QED BY <4>2, <4>3, <2>1
    <3>2. Len(c) = 0 /\ Len(f) = 0
      <4> DEFINE i == Len(c)
                 j == Len(f)
      <4>1. i \in Nat /\ j \in Nat /\ i + j = 0
        BY <3>1
      <4> HIDE DEF i, j
      <4>2. i = 0 /\ j = 0
        BY <4>1
      <4> QED BY <4>2 DEF i, j
    <3> QED BY <3>2, <2>4, <2>5, SeqEmpty
  <2>8. a2 = u
    <3>1. <<>> \o u = u
      BY <2>6, SeqEmpty
    <3> QED BY <3>1, <2>2, <2>3, <2>6, <2>7
  <2> QED BY <2>8 DEF a2, u
<1>6. AtStageOf(rep, s, stg2, nw2, fut2) = AtStageOf(rep, s, stg, nw, fut)
  <2> DEFINE a == Batches("stage_end", rep, s, nw \o fut)
             a2 == Batches("stage_end", rep, s, nw2 \o fut2)
             q == stg[rep][s].queue
             q2 == stg2[rep][s].queue
             c == Batches("stage_arrival", rep, s, nw)
             u == <<b>>
  <2>1. IsSeq(q2) /\ IsSeq(c) /\ IsSeq(u)
    BY AtStageSeq, SeqBasics
  <2>2. a = <<>> /\ a2 = u /\ q = u \o q2
    BY <1>5 DEF StageTaken
  <2>3. /\ AtStageOf(rep, s, stg, nw, fut) = (a \o q) \o c
        /\ AtStageOf(rep, s, stg2, nw2, fut2) = (a2 \o q2) \o c
    BY <1>3 DEF AtStageOf
  <2> HIDE DEF a, a2, q, q2, c, u
  <2>4. (a \o q) \o c = (a2 \o q2) \o c
    BY <2>1, <2>2, ThreeTake, Z3
  <2> QED BY <2>3, <2>4
<1>7. n \in Nat
  BY DEF RowTyped
<1>8. InPipelineOf(n, rep, stg2, nw2, fut2) = InPipelineOf(n, rep, stg, nw, fut)
  BY <1>3, <1>4, <1>6, <1>7, RowSame, Z3
<1> QED BY <1>2, <1>5, <1>8, Z3

\* A stage is done with its batch, which goes to the next stage or, after the
\* last one, is finished.
PassesOn(n, rep, s, b, same) ==
  same = <<StageScheduleEvent(rep, s),
           IF s = n THEN BatchEndEvent(rep, b) ELSE StageArrivalEvent(rep, s + 1, b)>>

\* Two events are one and one.
LEMMA TwoEvents == \A e, f : <<e, f>> = <<e>> \o <<f>>
<1>1. ASSUME NEW e, NEW f PROVE <<e, f>> = <<e>> \o <<f>>
  <2> DEFINE s == <<e, f>>
             a == <<e>>
             b == <<f>>
  <2>1. s \in Seq({e, f}) /\ Len(s) = 2 /\ s[1] = e /\ s[2] = f
    OBVIOUS
  <2>2. IsSeq(a) /\ IsSeq(b) /\ Len(a) = 1 /\ Len(b) = 1 /\ a[1] = e /\ b[1] = f
    BY SeqBasics
  <2> HIDE DEF s, a, b
  <2>3. /\ IsSeq(a \o b) /\ Len(a \o b) = Len(a) + Len(b)
        /\ \A i \in 1 .. Len(a) : (a \o b)[i] = a[i]
        /\ \A i \in 1 .. Len(b) : (a \o b)[Len(a) + i] = b[i]
    BY <2>2, SeqConcat, Z3
  <2>4. Len(a \o b) = 2 /\ (a \o b)[1] = a[1] /\ (a \o b)[2] = b[1]
    <3>1. 1 \in 1 .. Len(a) /\ 1 \in 1 .. Len(b) /\ Len(a) + 1 = 2 /\ Len(a) + Len(b) = 2
      BY <2>2
    <3> QED BY <2>3, <3>1
  <2>5. \A i \in 1 .. Len(s) : s[i] = (a \o b)[i]
    <3>1. \A i \in 1 .. 2 : i = 1 \/ i = 2
      OBVIOUS
    <3> QED BY <2>1, <2>2, <2>4, <3>1
  <2>6. IsSeq(s)
    BY <2>1 DEF IsSeq
  <2>7. s = a \o b
    BY <2>1, <2>3, <2>4, <2>5, <2>6, SameSeq
  <2> QED BY <2>7 DEF s, a, b
<1> QED BY <1>1

\* What is executed on the other stages is not touched.
PassedOn(n, rep, s, b, stg, nw, fut, stg2, nw2, fut2) ==
  /\ InPipelineOf(n, rep, stg2, nw2, fut2) = InPipelineOf(n, rep, stg, nw, fut)
  /\ \A st : st # s =>
       Batches("stage_end", rep, st, nw2 \o fut2) = Batches("stage_end", rep, st, nw \o fut)
  /\ Batches("stage_end", rep, s, nw \o fut)
       = <<b>> \o Batches("stage_end", rep, s, nw2 \o fut2)

\* A batch that ends on a stage goes on to the next, or to its end: the order
\* stays.
LEMMA FlowEnd ==
  ASSUME NEW nw, NEW fut, NEW same, NEW nw2, NEW fut2, HandledTo(nw, fut, same, <<>>, nw2, fut2),
         NEW n, NEW rep, NEW stg, NEW stg2, NEW s \in 1 .. n,
         RowTyped(n, rep, stg, nw, fut), RowTyped(n, rep, stg2, nw2, fut2),
         NEW b, About(Head(nw), "stage_end", rep, s, b), PassesOn(n, rep, s, b, same),
         \A st \in 1 .. n : stg2[rep][st].queue = stg[rep][st].queue
  PROVE  PassedOn(n, rep, s, b, stg, nw, fut, stg2, nw2, fut2)
<1> DEFINE u == <<b>>
<1>0. n \in Nat /\ IsSeq(u) /\ u \o <<>> = u
  BY SeqBasics, SeqEmpty DEF RowTyped
<1>1. ASSUME NEW kind \in {"stage_arrival", "stage_end", "batch_end"}, NEW st
      PROVE  /\ One(kind, rep, st, Head(nw)) = IF kind = "stage_end" /\ st = s THEN u ELSE <<>>
             /\ Batches(kind, rep, st, <<>>) = <<>>
             /\ Batches(kind, rep, st, same)
                  = IF \/ kind = "batch_end" /\ s = n /\ st = 0
                       \/ kind = "stage_arrival" /\ s # n /\ st = s + 1 THEN u ELSE <<>>
  <2>1. One(kind, rep, st, Head(nw)) = IF kind = "stage_end" /\ st = s THEN u ELSE <<>>
    BY OneEvent DEF About
  <2>2. Batches(kind, rep, st, <<>>) = <<>>
    BY NoBatches
  <2> DEFINE v == StageScheduleEvent(rep, s)
             x == IF s = n THEN BatchEndEvent(rep, b) ELSE StageArrivalEvent(rep, s + 1, b)
             vs == <<v>>
             xs == <<x>>
  <2>3. IsSeq(vs) /\ IsSeq(xs) /\ same = vs \o xs
    <3>1. same = <<v, x>>
      BY DEF PassesOn
    <3> HIDE DEF v, x
    <3>2. <<v, x>> = <<v>> \o <<x>>
      BY TwoEvents
    <3> QED BY <3>1, <3>2, SeqBasics
  <2>4. Batches(kind, rep, st, same) = Batches(kind, rep, st, vs) \o Batches(kind, rep, st, xs)
    <3> HIDE DEF vs, xs
    <3> QED BY <2>3, BatchesConcat
  <2>5. Batches(kind, rep, st, vs) = <<>>
    <3>1. v.kind = "stage"
      BY DEF StageScheduleEvent, Event
    <3> HIDE DEF v
    <3>2. Batches(kind, rep, st, vs) = IF Hits(kind, rep, st, v) THEN <<v.batch>> ELSE <<>>
      BY BatchesOne
    <3>3. ~Hits(kind, rep, st, v)
      BY <3>1 DEF Hits
    <3> HIDE DEF vs
    <3> QED BY <3>2, <3>3
  <2>6. Batches(kind, rep, st, xs)
          = IF \/ kind = "batch_end" /\ s = n /\ st = 0
               \/ kind = "stage_arrival" /\ s # n /\ st = s + 1 THEN u ELSE <<>>
    <3>1. Batches(kind, rep, st, xs) = IF Hits(kind, rep, st, x) THEN <<x.batch>> ELSE <<>>
      <4> HIDE DEF x
      <4> QED BY BatchesOne
    <3>2. CASE s = n
      <4>1. x.kind = "batch_end" /\ x.rep = rep /\ x.stage = 0 /\ x.batch = b
        BY <3>2 DEF BatchEndEvent, Event
      <4> HIDE DEF x, xs
      <4> QED BY <3>1, <3>2, <4>1 DEF Hits
    <3>3. CASE s # n
      <4>1. x.kind = "stage_arrival" /\ x.rep = rep /\ x.stage = s + 1 /\ x.batch = b
        BY <3>3 DEF StageArrivalEvent, Event
      <4> HIDE DEF x, xs
      <4> QED BY <3>1, <3>3, <4>1 DEF Hits
    <3> QED BY <3>2, <3>3
  <2>7. <<>> \o u = u /\ <<>> \o <<>> = <<>>
    BY SeqBasics, SeqEmpty
  <2> HIDE DEF u, vs, xs
  <2>8. Batches(kind, rep, st, same)
          = IF \/ kind = "batch_end" /\ s = n /\ st = 0
               \/ kind = "stage_arrival" /\ s # n /\ st = s + 1 THEN u ELSE <<>>
    BY <2>4, <2>5, <2>6, <2>7
  <2> QED BY <2>1, <2>2, <2>8
<1> HIDE DEF u
<1>2. ASSUME NEW st, st # s
      PROVE  Batches("stage_end", rep, st, nw2 \o fut2) = Batches("stage_end", rep, st, nw \o fut)
  BY <1>1, <1>2, BatchesStill
<1>3. ASSUME NEW kind \in {"stage_arrival", "batch_end"}, NEW st
      PROVE  Batches(kind, rep, st, nw2) = Batches(kind, rep, st, nw) \o Batches(kind, rep, st, same)
  <2> DEFINE t == Batches(kind, rep, st, Tail(nw))
             o == One(kind, rep, st, Head(nw))
  <2>1. Batches(kind, rep, st, nw) = o \o t
    BY NowHead
  <2>2. Batches(kind, rep, st, nw2) = t \o Batches(kind, rep, st, same)
    BY NowNext
  <2>3. IsSeq(t)
    BY HandledSeqs
  <2>4. o = <<>>
    BY <1>1
  <2> HIDE DEF t, o
  <2> QED BY <2>1, <2>2, <2>3, <2>4, SeqEmpty
<1>4. Batches("stage_end", rep, s, nw \o fut) = u \o Batches("stage_end", rep, s, nw2 \o fut2)
  <2> DEFINE a == Batches("stage_end", rep, s, nw \o fut)
             a2 == Batches("stage_end", rep, s, nw2 \o fut2)
             c == Batches("stage_end", rep, s, nw)
             c2 == Batches("stage_end", rep, s, nw2)
             t == Batches("stage_end", rep, s, Tail(nw))
             f == Batches("stage_end", rep, s, fut)
             f2 == Batches("stage_end", rep, s, fut2)
             o == One("stage_end", rep, s, Head(nw))
             m == Batches("stage_end", rep, s, same)
             l == Batches("stage_end", rep, s, <<>>)
  <2>1. a = c \o f
    BY BothNow
  <2>2. a2 = c2 \o f2
    BY BothNext
  <2>3. f2 = f \o l
    BY LaterNext
  <2>4. c = o \o t
    BY NowHead
  <2>5. c2 = t \o m
    BY NowNext
  <2>6. IsSeq(f) /\ IsSeq(t)
    BY HandledSeqs
  <2>7. o = u /\ m = <<>> /\ l = <<>>
    BY <1>1
  <2> HIDE DEF a, a2, c, c2, t, f, f2, o, m, l
  <2>8. f2 = f /\ c2 = t
    BY <2>3, <2>5, <2>6, <2>7, SeqEmpty
  <2>9. (u \o t) \o f = u \o (t \o f)
    BY <2>6, <1>0, SeqAssoc, Z3
  <2>10. a = u \o a2
    BY <2>1, <2>2, <2>4, <2>7, <2>8, <2>9
  <2> QED BY <2>10 DEF a, a2
<1>5. Batches("batch_end", rep, 0, nw2)
        = IF s = n THEN Batches("batch_end", rep, 0, nw) \o u ELSE Batches("batch_end", rep, 0, nw)
  <2> DEFINE c == Batches("batch_end", rep, 0, nw)
             m == Batches("batch_end", rep, 0, same)
  <2>1. Batches("batch_end", rep, 0, nw2) = c \o m
    BY <1>3
  <2>2. m = IF s = n THEN u ELSE <<>>
    BY <1>1
  <2>3. IsSeq(c)
    BY BatchesFound DEF RowTyped
  <2> HIDE DEF c, m
  <2>4. c \o <<>> = c
    BY <2>3, SeqEmpty
  <2>5. Batches("batch_end", rep, 0, nw2) = IF s = n THEN c \o u ELSE c
    BY <2>1, <2>2, <2>4
  <2> QED BY <2>5 DEF c
<1>6. AtStageOf(rep, s, stg, nw, fut) = u \o AtStageOf(rep, s, stg2, nw2, fut2)
  <2> DEFINE a == Batches("stage_end", rep, s, nw \o fut)
             a2 == Batches("stage_end", rep, s, nw2 \o fut2)
             q == stg[rep][s].queue
             c == Batches("stage_arrival", rep, s, nw)
             c2 == Batches("stage_arrival", rep, s, nw2)
             m == Batches("stage_arrival", rep, s, same)
  <2>1. IsSeq(q) /\ IsSeq(c) /\ IsSeq(a2)
    BY AtStageSeq
  <2>2. c2 = c \o m
    BY <1>3
  <2>3. m = <<>>
    <3>1. s # s + 1 /\ s # 0
      BY <1>0
    <3> QED BY <3>1, <1>1
  <2>4. a = u \o a2
    BY <1>4
  <2>5. AtStageOf(rep, s, stg, nw, fut) = (a \o q) \o c /\ AtStageOf(rep, s, stg2, nw2, fut2) = (a2 \o q) \o c2
    BY DEF AtStageOf
  <2> HIDE DEF a, a2, q, c, c2, m
  <2>6. c2 = c
    BY <2>1, <2>2, <2>3, SeqEmpty
  <2>7. (a \o q) \o c = u \o ((a2 \o q) \o c)
    BY <2>1, <2>4, <1>0, ThreeDrop, Z3
  <2> QED BY <2>5, <2>6, <2>7
<1>7. ASSUME NEW st \in 1 .. n, st # s
      PROVE  AtStageOf(rep, st, stg2, nw2, fut2)
               = IF st = s + 1 THEN AtStageOf(rep, st, stg, nw, fut) \o u ELSE AtStageOf(rep, st, stg, nw, fut)
  <2> DEFINE a == Batches("stage_end", rep, st, nw \o fut)
             q == stg[rep][st].queue
             c == Batches("stage_arrival", rep, st, nw)
             c2 == Batches("stage_arrival", rep, st, nw2)
             m == Batches("stage_arrival", rep, st, same)
  <2>1. IsSeq(q) /\ IsSeq(c) /\ IsSeq(a)
    BY AtStageSeq
  <2>2. c2 = c \o m
    BY <1>3
  <2>3. m = IF st = s + 1 THEN u ELSE <<>>
    <3>1. st = s + 1 => s # n
      BY <1>0
    <3> QED BY <3>1, <1>1
  <2>4. AtStageOf(rep, st, stg, nw, fut) = (a \o q) \o c /\ AtStageOf(rep, st, stg2, nw2, fut2) = (a \o q) \o c2
    BY <1>2, <1>7 DEF AtStageOf
  <2> HIDE DEF a, q, c, c2, m
  <2>5. CASE st = s + 1
    <3>1. c2 = c \o u
      BY <2>2, <2>3, <2>5
    <3>2. (a \o q) \o c2 = ((a \o q) \o c) \o u
      BY <2>1, <1>0, <3>1, ThreeAppend, Z3
    <3> QED BY <2>4, <2>5, <3>2
  <2>6. CASE st # s + 1
    <3>1. c2 = c
      BY <2>1, <2>2, <2>3, <2>6, SeqEmpty
    <3> QED BY <2>4, <2>6, <3>1
  <2> QED BY <2>5, <2>6
<1>8. InPipelineOf(n, rep, stg2, nw2, fut2) = InPipelineOf(n, rep, stg, nw, fut)
  <2>1. RowMoved(n, rep, stg, nw, fut, stg2, nw2, fut2, u, s)
    BY <1>5, <1>6, <1>7 DEF RowMoved
  <2> QED BY <2>1, <1>0, RowMove, Z3
<1> QED BY <1>2, <1>4, <1>8 DEF u, PassedOn

\* A batch that is finished leaves.
Left(n, rep, b, stg, nw, fut, nw2, fut2) ==
  /\ InPipelineOf(n, rep, stg, nw, fut) = <<b>> \o InPipelineOf(n, rep, stg, nw2, fut2)
  /\ \A st : Batches("stage_end", rep, st, nw2 \o fut2) = Batches("stage_end", rep, st, nw \o fut)

\* The end of a batch takes the oldest of the pipeline.
LEMMA FlowLeave ==
  ASSUME NEW nw, NEW fut, NEW same, NEW later, NEW nw2, NEW fut2,
         HandledTo(nw, fut, same, later, nw2, fut2),
         NEW n, NEW rep, NEW stg,
         RowTyped(n, rep, stg, nw, fut), RowTyped(n, rep, stg, nw2, fut2),
         NEW b, About(Head(nw), "batch_end", rep, 0, b),
         \A i \in DOMAIN same : Apart(rep, same[i]), \A i \in DOMAIN later : Apart(rep, later[i])
  PROVE  Left(n, rep, b, stg, nw, fut, nw2, fut2)
<1> DEFINE u == <<b>>
<1>0. n \in Nat /\ IsSeq(u)
  BY SeqBasics DEF RowTyped
<1>1. ASSUME NEW kind \in {"stage_arrival", "stage_end", "batch_end"}, NEW st
      PROVE  /\ One(kind, rep, st, Head(nw)) = IF kind = "batch_end" /\ st = 0 THEN u ELSE <<>>
             /\ Batches(kind, rep, st, same) = <<>> /\ Batches(kind, rep, st, later) = <<>>
  <2>1. IsSeq(same) /\ IsSeq(later)
    BY DEF HandledTo
  <2>2. One(kind, rep, st, Head(nw)) = IF kind = "batch_end" /\ st = 0 THEN u ELSE <<>>
    BY OneEvent DEF About
  <2> QED BY <2>1, <2>2, ApartNone
<1> HIDE DEF u
<1>2. ASSUME NEW st
      PROVE  Batches("stage_end", rep, st, nw2 \o fut2) = Batches("stage_end", rep, st, nw \o fut)
  BY <1>1, BatchesStill
<1>3. ASSUME NEW st \in 1 .. n
      PROVE  AtStageOf(rep, st, stg, nw2, fut2) = AtStageOf(rep, st, stg, nw, fut)
  <2>1. Batches("stage_arrival", rep, st, nw2) = Batches("stage_arrival", rep, st, nw)
    BY <1>1, BatchesStill
  <2> QED BY <2>1, <1>2 DEF AtStageOf
<1>4. Batches("batch_end", rep, 0, nw) = u \o Batches("batch_end", rep, 0, nw2)
  <2> DEFINE c == Batches("batch_end", rep, 0, nw)
             c2 == Batches("batch_end", rep, 0, nw2)
             t == Batches("batch_end", rep, 0, Tail(nw))
             o == One("batch_end", rep, 0, Head(nw))
             m == Batches("batch_end", rep, 0, same)
  <2>1. c = o \o t
    BY NowHead
  <2>2. c2 = t \o m
    BY NowNext
  <2>3. IsSeq(t)
    BY HandledSeqs
  <2>4. o = u /\ m = <<>>
    BY <1>1
  <2> HIDE DEF c, c2, t, o, m
  <2>5. c2 = t
    BY <2>2, <2>3, <2>4, SeqEmpty
  <2>6. c = u \o c2
    BY <2>1, <2>4, <2>5
  <2> QED BY <2>6 DEF c, c2
<1>5. InPipelineOf(n, rep, stg, nw, fut) = u \o InPipelineOf(n, rep, stg, nw2, fut2)
  BY <1>0, <1>3, <1>4, RowLeave, Z3
<1> QED BY <1>2, <1>5 DEF u, Left

\* Nothing is due any more, and some of what comes later becomes due.
AdvancedTo(nw, fut, arrivals, due, nw2, fut2) ==
  /\ nw = <<>> /\ IsSeq(arrivals) /\ \A i \in DOMAIN arrivals : arrivals[i].kind = "arrival"
  /\ IsSeq(fut) /\ \A i \in DOMAIN fut : fut[i].kind \in LaterKinds
  /\ due \subseteq DOMAIN fut
  /\ nw2 = arrivals \o Picked(due, fut) /\ fut2 = Picked(DOMAIN fut \ due, fut)

\* No stage executes two batches.
OneEach(n, rep, es) == \A st \in 1 .. n : Len(Batches("stage_end", rep, st, es)) <= 1

\* Nothing has moved in the pipeline of rep.
Still(n, rep, stg, nw, fut, nw2, fut2) ==
  /\ InPipelineOf(n, rep, stg, nw2, fut2) = InPipelineOf(n, rep, stg, nw, fut)
  /\ \A st \in 1 .. n :
       Batches("stage_end", rep, st, nw2 \o fut2) = Batches("stage_end", rep, st, nw \o fut)

\* Time goes on: events become due in any order, the pipelines stay.
LEMMA FlowAdvance ==
  ASSUME NEW nw, NEW fut, NEW arrivals, NEW due, NEW nw2, NEW fut2,
         AdvancedTo(nw, fut, arrivals, due, nw2, fut2), NEW n \in Nat, NEW rep, NEW stg,
         OneEach(n, rep, nw \o fut)
  PROVE  Still(n, rep, stg, nw, fut, nw2, fut2)
<1> DEFINE p == Picked(due, fut)
           r == Picked(DOMAIN fut \ due, fut)
<1>1. /\ IsSeq(arrivals) /\ IsSeq(fut) /\ nw = <<>> /\ nw2 = arrivals \o p /\ fut2 = r
      /\ nw \o fut = fut
  BY SeqEmpty DEF AdvancedTo
<1>2. IsSeq(p) /\ IsSeq(r)
  BY <1>1, PickedIn DEF IsSeq
<1>3. ASSUME NEW kind \in {"stage_arrival", "stage_end", "batch_end"}, NEW st
      PROVE  Batches(kind, rep, st, arrivals) = <<>>
  <2>1. \A i \in DOMAIN arrivals : Apart(rep, arrivals[i])
    BY DEF AdvancedTo, Apart
  <2> QED BY <2>1, <1>1, ApartNone
<1>4. ASSUME NEW kind \in {"stage_arrival", "stage_end", "batch_end"}, NEW st
      PROVE  Batches(kind, rep, st, nw2) = Batches(kind, rep, st, p)
  <2>1. Batches(kind, rep, st, arrivals \o p) = Batches(kind, rep, st, arrivals) \o Batches(kind, rep, st, p)
    <3> HIDE DEF p
    <3> QED BY <1>1, <1>2, BatchesConcat
  <2>2. IsSeq(Batches(kind, rep, st, p))
    BY <1>2, BatchesFound
  <2> HIDE DEF p, r
  <2> QED BY <1>1, <1>3, <2>1, <2>2, SeqEmpty
<1>5. ASSUME NEW kind \in {"stage_arrival", "batch_end"}, NEW st
      PROVE  Batches(kind, rep, st, nw2) = Batches(kind, rep, st, nw)
  <2>1. \A e \in {fut[i] : i \in DOMAIN fut \cap due} : ~Hits(kind, rep, st, e)
    BY DEF Hits, AdvancedTo, LaterKinds
  <2>2. p \in Seq({fut[i] : i \in DOMAIN fut \cap due})
    BY <1>1, PickedIn
  <2>3. \A i \in DOMAIN p : ~Hits(kind, rep, st, p[i])
    <3> HIDE DEF p
    <3> DEFINE V == {fut[i] : i \in DOMAIN fut \cap due}
    <3>1. p \in Seq(V) /\ \A e \in V : ~Hits(kind, rep, st, e)
      BY <2>1, <2>2
    <3> HIDE DEF V
    <3>2. \A i \in DOMAIN p : p[i] \in V
      BY <3>1
    <3> QED BY <3>1, <3>2
  <2>4. Batches(kind, rep, st, p) = <<>>
    <3> HIDE DEF p
    <3> QED BY <2>3, <1>2, BatchesNone
  <2>5. Batches(kind, rep, st, <<>>) = <<>>
    BY NoBatches
  <2> HIDE DEF p, r
  <2> QED BY <1>1, <1>4, <2>4, <2>5
<1>6. ASSUME NEW st \in 1 .. n
      PROVE  Batches("stage_end", rep, st, nw2 \o fut2) = Batches("stage_end", rep, st, nw \o fut)
  <2> DEFINE a == Batches("stage_end", rep, st, p)
             c == Batches("stage_end", rep, st, r)
             f == Batches("stage_end", rep, st, fut)
  <2>1. IsSeq(nw2) /\ IsSeq(fut2)
    <3> HIDE DEF p, r
    <3> QED BY <1>1, <1>2, SeqConcat
  <2>2. Batches("stage_end", rep, st, nw2 \o fut2)
          = Batches("stage_end", rep, st, nw2) \o Batches("stage_end", rep, st, fut2)
    BY <2>1, BatchesConcat
  <2>3. Batches("stage_end", rep, st, nw2) = a /\ Batches("stage_end", rep, st, fut2) = c
    BY <1>1, <1>4
  <2>4. Len(f) <= 1 /\ Batches("stage_end", rep, st, nw \o fut) = f
    BY <1>1 DEF OneEach
  <2>5. a \o c = f
    <3>1. IsSeq(fut) /\ Len(Batches("stage_end", rep, st, fut)) <= 1
      BY <2>4, <1>1
    <3> HIDE DEF a, c, f, p, r
    <3>2. Batches("stage_end", rep, st, Picked(due, fut))
            \o Batches("stage_end", rep, st, Picked(DOMAIN fut \ due, fut))
          = Batches("stage_end", rep, st, fut)
      <4>1. Splits("stage_end", rep, st, fut, due)
        BY <3>1, SplitBatches
      <4> QED BY <4>1 DEF Splits
    <3> QED BY <3>2 DEF a, c, f, p, r
  <2> HIDE DEF a, c, f
  <2> QED BY <2>2, <2>3, <2>4, <2>5
<1>7. \A st \in 1 .. n : AtStageOf(rep, st, stg, nw2, fut2) = AtStageOf(rep, st, stg, nw, fut)
  <2> HIDE DEF p, r
  <2> QED BY <1>5, <1>6 DEF AtStageOf
<1>8. InPipelineOf(n, rep, stg, nw2, fut2) = InPipelineOf(n, rep, stg, nw, fut)
  <2> HIDE DEF p, r
  <2> QED BY <1>5, <1>7, RowSame
<1> QED BY <1>6, <1>8 DEF Still

-------------------------------------------------------------------------------
\* What every step keeps

\* Nothing enters or leaves a pipeline.
Quiet == cfg' = cfg /\ \A rep \in Replicas : InPipeline(rep)' = InPipeline(rep)

\* Known after the event.
LEMMA HandledTyped ==
  ASSUME Inv, now # <<>>, NEW same, NEW later, NEW ids, Known \subseteq ids,
         EventsOk(cfg, ids, AllKinds, same), EventsOk(cfg, ids, LaterKinds, later),
         Handled(same, later)
  PROVE  /\ EventsOk(cfg, ids, AllKinds, now') /\ EventsOk(cfg, ids, LaterKinds, future')
         /\ HandledTo(now, future, same, later, now', future')
         /\ EventOk(cfg, Known, AllKinds, Head(now)) /\ Head(now).kind \in AllKinds
<1>1. EventsOk(cfg, Known, AllKinds, now) /\ EventsOk(cfg, Known, LaterKinds, future)
  BY DEF Inv, Typed
<1>2. EventsOk(cfg, ids, AllKinds, now) /\ EventsOk(cfg, ids, LaterKinds, future)
  BY <1>1, EventsMono
<1>3. EventsOk(cfg, ids, AllKinds, Tail(now)) /\ EventOk(cfg, Known, AllKinds, Head(now))
  BY <1>1, <1>2, EventsTail
<1>4. EventsOk(cfg, ids, AllKinds, Tail(now) \o same)
  BY <1>3, EventsConcat
<1>5. EventsOk(cfg, ids, LaterKinds, future \o later)
  BY <1>2, EventsConcat
<1>6. HandledTo(now, future, same, later, now', future')
  <2>1. IsSeq(now) /\ IsSeq(future) /\ IsSeq(same) /\ IsSeq(later)
    BY <1>1 DEF EventsOk
  <2>2. now' = Tail(now) \o same /\ future' = future \o later
    BY DEF Handled
  <2> QED BY <2>1, <2>2 DEF HandledTo
<1>7. now' = Tail(now) \o same /\ future' = future \o later
  BY DEF Handled
<1>8. Head(now).kind \in AllKinds
  BY <1>3 DEF EventOk
<1> QED BY <1>3, <1>4, <1>5, <1>6, <1>7, <1>8

\* What the rows and the counts of a state need.
LEMMA InvShape ==
  ASSUME Inv
  PROVE  /\ cfg.kind \in Kinds /\ cfg.replicas \in Nat /\ cfg.prefills \in Nat /\ cfg.stages \in Nat
         /\ cfg.stages >= 1 /\ cfg.arrivedAt \in Seq(Nat)
         /\ \A rep \in Replicas : RowTyped(cfg.stages, rep, stage, now, future)
         /\ \A rep \in Replicas : InPipeline(rep) = InPipelineOf(cfg.stages, rep, stage, now, future)
         /\ \A rep \in Replicas : IsSeq(InPipeline(rep))
<1>1. /\ cfg.kind \in Kinds /\ cfg.replicas \in Nat /\ cfg.prefills \in Nat /\ cfg.stages \in Nat
      /\ cfg.stages >= 1 /\ cfg.arrivedAt \in Seq(Nat)
  BY ConfigShape DEF Inv, Typed
<1>2. ASSUME NEW rep \in Replicas PROVE RowTyped(cfg.stages, rep, stage, now, future)
  BY <1>1, TypedRow DEF Inv, Typed, Stages
<1>3. \A rep \in Replicas : InPipeline(rep) = InPipelineOf(cfg.stages, rep, stage, now, future)
  BY Pipelines
<1>4. ASSUME NEW rep \in Replicas PROVE IsSeq(InPipeline(rep))
  <2>1. InPipeline(rep) = FlattenSeq(Row(cfg.stages, rep, stage, now, future))
    BY <1>2, <1>3, InPipelineIsRow
  <2> QED BY <2>1, <1>2, RowSeqs, FlatIsSeq
<1> QED BY <1>1, <1>2, <1>3, <1>4

\* The row of a replica after the step.
LEMMA NextRow ==
  ASSUME cfg.stages \in Nat, NEW ids, EventsOk(cfg, ids, AllKinds, now'),
         EventsOk(cfg, ids, LaterKinds, future'), NEW rep,
         \A st \in Stages : StageOk(ids, stage'[rep][st])
  PROVE  RowTyped(cfg.stages, rep, stage', now', future')
BY TypedRow DEF Stages

\* The counts, when nothing but the events has changed in a pipeline.
LEMMA QuietCounts ==
  ASSUME Inv, cfg' = cfg,
         \A rep \in Replicas :
           /\ sched'[rep].running = sched[rep].running
           /\ InPipelineOf(cfg.stages, rep, stage', now', future')
                = InPipelineOf(cfg.stages, rep, stage, now, future)
           /\ \A st \in Stages : Len(Batches("stage_end", rep, st, now' \o future'))
                                   = IF stage'[rep][st].busy THEN 1 ELSE 0
  PROVE  Counted' /\ Quiet
<1>1. ASSUME NEW rep \in Replicas PROVE InPipeline(rep)' = InPipeline(rep)
  BY <1>1, Pipelines
<1>2. Replicas' = Replicas /\ Stages' = Stages
  BY DEF Replicas, Stages
<1>3. ASSUME NEW rep \in Replicas, NEW st \in Stages
      PROVE  Batches("stage_end", rep, st, now \o future)' = Batches("stage_end", rep, st, now' \o future')
  BY DEF Batches
<1> QED BY <1>1, <1>2, <1>3 DEF Quiet, Counted, Inv

-------------------------------------------------------------------------------
\* RequestArrivalEvent

\* A request arrives: no pipeline changes.
LEMMA RequestArrivalStep ==
  ASSUME Inv, RequestArrival
  PROVE  Inv' /\ Quiet
<1>1. now # <<>> /\ Head(now).kind = "arrival" /\ Handled(<<GlobalScheduleEvent>>, <<>>)
      /\ requestQueue' = Append(requestQueue, Head(now).id)
      /\ UNCHANGED <<cfg, counter, decodeOn, sched, stage>>
  BY DEF RequestArrival, IsEvent
<1> DEFINE e == GlobalScheduleEvent
<1>2. EventsOk(cfg, Known, AllKinds, <<e>>) /\ EventsOk(cfg, Known, LaterKinds, <<>>)
  <2>1. EventOk(cfg, Known, AllKinds, e)
    BY DEF EventOk, GlobalScheduleEvent, Event, AllKinds
  <2> QED BY <2>1, EventsFew
<1>3. /\ EventsOk(cfg, Known, AllKinds, now') /\ EventsOk(cfg, Known, LaterKinds, future')
      /\ HandledTo(now, future, <<e>>, <<>>, now', future')
      /\ EventOk(cfg, Known, AllKinds, Head(now))
  BY <1>1, <1>2, HandledTyped
<1>4. Known' = Known /\ Requests' = Requests /\ Replicas' = Replicas /\ Stages' = Stages
  BY <1>1 DEF Known, Requests, Replicas, Stages, Splitwise
<1>5. Typed'
  <2>1. Head(now).id \in Requests
    BY <1>1, <1>3 DEF EventOk, Requests
  <2>2. requestQueue' \in Seq(Requests)
    BY <1>1, <2>1 DEF Inv, Typed
  <2> QED BY <1>1, <1>3, <1>4, <2>2 DEF Inv, Typed
<1>6. ASSUME NEW rep \in Replicas
      PROVE  /\ InPipelineOf(cfg.stages, rep, stage, now', future')
                  = InPipelineOf(cfg.stages, rep, stage, now, future)
             /\ \A st : Batches("stage_end", rep, st, now' \o future')
                          = Batches("stage_end", rep, st, now \o future)
  <2>1. Apart(rep, Head(now)) /\ Apart(rep, e)
    BY <1>1 DEF Apart, GlobalScheduleEvent, Event
  <2>2. (\A i \in DOMAIN <<e>> : Apart(rep, <<e>>[i])) /\ (\A i \in DOMAIN <<>> : Apart(rep, <<>>[i]))
    BY <2>1
  <2>3. cfg.stages \in Nat
    BY InvShape
  <2> DEFINE same == <<e>>
             later == <<>>
  <2>4. Untouched(cfg.stages, rep, now, same, later, stage, stage)
    BY <2>1, <2>2 DEF Untouched
  <2>5. HandledTo(now, future, same, later, now', future')
    BY <1>3
  <2> HIDE DEF same, later
  <2> QED BY <2>3, <2>4, <2>5, FlowApart
<1>7. Counted' /\ Quiet
  BY <1>1, <1>6, QuietCounts DEF Inv, Counted
<1> QED BY <1>5, <1>7 DEF Inv

\* What does not change with the events.
LEMMA SameConfig ==
  ASSUME cfg' = cfg, decodeOn' = decodeOn
  PROVE  Known' = Known /\ Requests' = Requests /\ Replicas' = Replicas /\ Stages' = Stages
BY DEF Known, Requests, Replicas, Stages, Splitwise

\* Steps that change the stages alone.
LEMMA TypedStages ==
  ASSUME Inv, UNCHANGED <<cfg, requestQueue, counter, decodeOn, sched>>,
         EventsOk(cfg, Known, AllKinds, now'), EventsOk(cfg, Known, LaterKinds, future'),
         DOMAIN stage' = Replicas, \A rep \in Replicas : DOMAIN stage'[rep] = Stages,
         \A rep \in Replicas, st \in Stages : StageOk(Known, stage'[rep][st])
  PROVE  Typed'
<1>1. cfg' = cfg /\ Known' = Known /\ Requests' = Requests /\ Replicas' = Replicas /\ Stages' = Stages
  BY SameConfig
<1>2. cfg' \in Configs /\ requestQueue' \in Seq(Requests') /\ counter' \in Nat
  BY <1>1 DEF Inv, Typed
<1>3. EventsOk(cfg', Known', AllKinds, now') /\ EventsOk(cfg', Known', LaterKinds, future')
  BY <1>1
<1>4. DOMAIN sched' = Replicas' /\ \A rep \in Replicas' : SchedOk(Known', sched'[rep])
  BY <1>1 DEF Inv, Typed
<1>5. /\ DOMAIN stage' = Replicas'
      /\ \A rep \in Replicas' : /\ DOMAIN stage'[rep] = Stages'
                                /\ \A st \in Stages' : StageOk(Known', stage'[rep][st])
  BY <1>1
<1> QED BY <1>2, <1>3, <1>4, <1>5 DEF Typed

-------------------------------------------------------------------------------
\* The next events become due

\* Time goes on: no pipeline changes.
LEMMA AdvanceStep ==
  ASSUME Inv, Advance
  PROVE  Inv' /\ Quiet
<1>1. now = <<>> /\ UNCHANGED <<cfg, requestQueue, counter, decodeOn, sched, stage>>
  BY DEF Advance
<1>2. PICK due \in SUBSET DOMAIN future, arrivals \in SUBSET Requests :
        /\ now' = Picked(arrivals, [id \in Requests |-> ArrivalEvent(id)]) \o Picked(due, future)
        /\ future' = Picked(DOMAIN future \ due, future)
  BY DEF Advance
<1> DEFINE as == Picked(arrivals, [id \in Requests |-> ArrivalEvent(id)])
<1>3. EventsOk(cfg, Known, {"arrival"}, as)
  <2> DEFINE es == [id \in Requests |-> ArrivalEvent(id)]
  <2>1. cfg.arrivedAt \in Seq(Nat)
    BY InvShape
  <2>2. Len(cfg.arrivedAt) \in Nat /\ Requests = 1 .. Len(cfg.arrivedAt)
    BY <2>1 DEF Requests
  <2>3. es \in [1 .. Len(cfg.arrivedAt) -> {es[i] : i \in Requests}]
    BY <2>2
  <2>4. IsSeq(es)
    BY <2>2, <2>3, SeqMade
  <2>5. \A i \in DOMAIN es : EventOk(cfg, Known, {"arrival"}, es[i])
    BY DEF EventOk, ArrivalEvent, Event, Requests
  <2> HIDE DEF es
  <2> QED BY <2>4, <2>5, EventsPicked DEF es
<1>4. EventsOk(cfg, Known, AllKinds, as) /\ IsSeq(as) /\ \A i \in DOMAIN as : as[i].kind = "arrival"
  <2> HIDE DEF as
  <2>1. {"arrival"} \subseteq AllKinds
    BY DEF AllKinds
  <2>2. EventsOk(cfg, Known, AllKinds, as)
    BY <1>3, <2>1, EventsMono
  <2> QED BY <1>3, <2>2 DEF EventsOk, EventOk
<1> HIDE DEF as
<1>5. EventsOk(cfg, Known, LaterKinds, future)
  BY DEF Inv, Typed
<1>6. /\ EventsOk(cfg, Known, LaterKinds, Picked(due, future))
      /\ EventsOk(cfg, Known, LaterKinds, Picked(DOMAIN future \ due, future))
  BY <1>5, EventsPicked DEF EventsOk
<1>7. EventsOk(cfg, Known, AllKinds, now') /\ EventsOk(cfg, Known, LaterKinds, future')
  <2> DEFINE p == Picked(due, future)
  <2>1. LaterKinds \subseteq AllKinds
    BY DEF LaterKinds, AllKinds
  <2>2. EventsOk(cfg, Known, AllKinds, p)
    BY <1>6, <2>1, EventsMono
  <2>3. now' = as \o p
    BY <1>2 DEF as
  <2> HIDE DEF p
  <2>4. EventsOk(cfg, Known, AllKinds, as \o p)
    BY <1>4, <2>2, EventsConcat
  <2>5. EventsOk(cfg, Known, AllKinds, now')
    BY <2>3, <2>4
  <2> QED BY <2>5, <1>2, <1>6
<1>8. Typed'
  BY <1>1, <1>7, SameConfig DEF Inv, Typed
<1>9. AdvancedTo(now, future, as, due, now', future')
  <2>1. IsSeq(future) /\ \A i \in DOMAIN future : future[i].kind \in LaterKinds
    BY <1>5 DEF EventsOk, EventOk
  <2>2. now' = as \o Picked(due, future)
    BY <1>2 DEF as
  <2> QED BY <1>1, <1>2, <1>4, <2>1, <2>2 DEF AdvancedTo
<1>10. ASSUME NEW rep \in Replicas
       PROVE  /\ InPipelineOf(cfg.stages, rep, stage, now', future')
                   = InPipelineOf(cfg.stages, rep, stage, now, future)
              /\ \A st \in Stages : Batches("stage_end", rep, st, now' \o future')
                                      = Batches("stage_end", rep, st, now \o future)
  <2>1. cfg.stages \in Nat /\ Stages = 1 .. cfg.stages
    BY InvShape DEF Stages
  <2>2. \A st \in 1 .. cfg.stages : Len(Batches("stage_end", rep, st, now \o future)) <= 1
    <3>1. ASSUME NEW st \in Stages
          PROVE  Len(Batches("stage_end", rep, st, now \o future)) <= 1
      <4> DEFINE l == Len(Batches("stage_end", rep, st, now \o future))
      <4>1. l = IF stage[rep][st].busy THEN 1 ELSE 0
        BY DEF Inv, Counted
      <4> HIDE DEF l
      <4>2. l <= 1
        BY <4>1
      <4> QED BY <4>2 DEF l
    <3> QED BY <2>1, <3>1
  <2>3. /\ InPipelineOf(cfg.stages, rep, stage, now', future')
             = InPipelineOf(cfg.stages, rep, stage, now, future)
        /\ \A st \in 1 .. cfg.stages : Batches("stage_end", rep, st, now' \o future')
                                = Batches("stage_end", rep, st, now \o future)
    <3>1. OneEach(cfg.stages, rep, now \o future)
      BY <2>2 DEF OneEach
    <3>2. Still(cfg.stages, rep, stage, now, future, now', future')
      BY <1>9, <2>1, <3>1, FlowAdvance
    <3> QED BY <3>2 DEF Still
  <2> QED BY <2>1, <2>3
<1>11. Counted' /\ Quiet
  BY <1>1, <1>10, QuietCounts DEF Inv, Counted
<1> QED BY <1>8, <1>11 DEF Inv

-------------------------------------------------------------------------------
\* BatchStageArrivalEvent

\* A batch arrives at a stage: no pipeline changes.
LEMMA BatchStageArrivalStep ==
  ASSUME Inv, BatchStageArrival
  PROVE  Inv' /\ Quiet
<1> DEFINE e == Head(now)
           s == e.stage
           b == e.batch
           v == StageScheduleEvent(e.rep, s)
           same == <<v>>
           later == <<>>
<1>1. /\ now # <<>> /\ e.kind = "stage_arrival" /\ Handled(same, later)
      /\ stage' = [stage EXCEPT ![e.rep][s].queue = Append(@, b)]
      /\ UNCHANGED <<cfg, requestQueue, counter, decodeOn, sched>>
  BY DEF BatchStageArrival, IsEvent
<1>2. /\ EventOk(cfg, Known, AllKinds, e) /\ e.rep \in Replicas /\ s \in Stages /\ IsBatch(Known, b)
  <2>1. EventOk(cfg, Known, AllKinds, e)
    BY <1>1, EventsTail DEF Inv, Typed
  <2> QED BY <1>1, <2>1 DEF EventOk, Replicas, Stages
<1>3. EventsOk(cfg, Known, AllKinds, same) /\ EventsOk(cfg, Known, LaterKinds, later)
  <2>1. EventOk(cfg, Known, AllKinds, v)
    BY <1>2 DEF EventOk, StageScheduleEvent, Event, AllKinds, Replicas, Stages
  <2> QED BY <2>1, EventsFew
<1> HIDE DEF same, later
<1>4. /\ EventsOk(cfg, Known, AllKinds, now') /\ EventsOk(cfg, Known, LaterKinds, future')
      /\ HandledTo(now, future, same, later, now', future')
  BY Z3, <1>1, <1>3, HandledTyped
<1>5. \A rep \in Replicas : /\ DOMAIN stage[rep] = Stages /\ DOMAIN stage'[rep] = Stages
                            /\ \A st \in Stages :
                                 stage'[rep][st] = IF rep = e.rep /\ st = s
                                                   THEN [stage[rep][st] EXCEPT !.queue = Append(@, b)]
                                                   ELSE stage[rep][st]
  BY Zenon, <1>1 DEF Inv, Typed
<1>6. \A rep \in Replicas, st \in Stages : StageOk(Known, stage'[rep][st])
  <2>1. ASSUME NEW rep \in Replicas, NEW st \in Stages PROVE StageOk(Known, stage'[rep][st])
    <3> DEFINE t == stage[rep][st]
               q == t.queue
    <3>1. StageOk(Known, t)
      BY DEF Inv, Typed
    <3>2. IsSeq(q) /\ \A i \in DOMAIN q : IsBatch(Known, q[i])
      BY <3>1 DEF StageOk
    <3> HIDE DEF b, q
    <3>3. IsSeq(Append(q, b)) /\ \A i \in DOMAIN Append(q, b) : IsBatch(Known, Append(q, b)[i])
      <4>1. PICK S : q \in Seq(S)
        BY <3>2 DEF IsSeq
      <4>2. q \in Seq(S \cup {b})
        BY <4>1
      <4>3. /\ Append(q, b) \in Seq(S \cup {b})
            /\ \A i \in DOMAIN Append(q, b) :
                 Append(q, b)[i] = b \/ (i \in DOMAIN q /\ Append(q, b)[i] = q[i])
        BY <4>2
      <4> QED BY <4>3, <3>2, <1>2 DEF IsSeq
    <3> HIDE DEF e, s
    <3>4. CASE rep = e.rep /\ st = s
      <4>1. stage'[rep][st] = [t EXCEPT !.queue = Append(q, b)]
        BY <3>4, <1>5 DEF q
      <4> HIDE DEF t
      <4> QED BY <4>1, <3>1, <3>3 DEF StageOk
    <3>5. CASE ~(rep = e.rep /\ st = s)
      BY <3>5, <3>1, <1>5
    <3> QED BY <3>4, <3>5
  <2> QED BY <2>1
<1>7. DOMAIN stage' = Replicas
  BY <1>1 DEF Inv, Typed
<1>8. Typed'
  BY Zenon, <1>1, <1>4, <1>5, <1>6, <1>7, TypedStages
<1>9. ASSUME NEW rep \in Replicas
      PROVE  /\ InPipelineOf(cfg.stages, rep, stage', now', future')
                  = InPipelineOf(cfg.stages, rep, stage, now, future)
             /\ \A st : Batches("stage_end", rep, st, now' \o future')
                          = Batches("stage_end", rep, st, now \o future)
  <2>1. cfg.stages \in Nat /\ Stages = 1 .. cfg.stages /\ RowTyped(cfg.stages, rep, stage, now, future)
    BY InvShape DEF Stages
  <2>2. CASE rep = e.rep
    <3>1. About(Head(now), "stage_arrival", rep, s, b)
      BY <1>1, <2>2 DEF About
    <3>2. \A i \in DOMAIN same : Apart(rep, same[i])
      BY DEF same, Apart, StageScheduleEvent, Event
    <3>3. \A st \in 1 .. cfg.stages : stage'[rep][st].queue
            = IF st = s THEN stage[rep][st].queue \o <<b>> ELSE stage[rep][st].queue
      <4>1. ASSUME NEW st \in Stages
            PROVE  stage'[rep][st].queue
                     = IF st = s THEN stage[rep][st].queue \o <<b>> ELSE stage[rep][st].queue
        <5> DEFINE q == stage[rep][st].queue
        <5>1. IsSeq(q) /\ DOMAIN stage[rep][st] = {"queue", "busy"}
          BY DEF Inv, Typed, StageOk
        <5> HIDE DEF b
        <5>2. stage'[rep][st].queue = IF st = s THEN Append(q, b) ELSE q
          BY <1>5, <2>2, <5>1
        <5> HIDE DEF q
        <5>3. Append(q, b) = q \o <<b>>
          BY <5>1, SeqAppend
        <5> QED BY <5>2, <5>3 DEF q
      <4> QED BY <4>1, <2>1
    <3> HIDE DEF s, b
    <3>4. HandledTo(now, future, same, <<>>, now', future') /\ s \in 1 .. cfg.stages
      BY <1>2, <1>4, <2>1 DEF later
    <3> QED BY <3>1, <3>2, <3>3, <3>4, <2>1, FlowArrive
  <2>3. CASE rep # e.rep
    <3>1. Untouched(cfg.stages, rep, now, same, later, stage, stage')
      <4>1. \A st \in 1 .. cfg.stages : stage'[rep][st].queue = stage[rep][st].queue
        BY <1>5, <2>1, <2>3
      <4>2. Apart(rep, Head(now)) /\ (\A i \in DOMAIN same : Apart(rep, same[i]))
            /\ (\A i \in DOMAIN later : Apart(rep, later[i]))
        BY <2>3 DEF Apart, same, later, StageScheduleEvent, Event
      <4> QED BY <4>1, <4>2 DEF Untouched
    <3> QED BY <3>1, <2>1, <1>4, FlowApart
  <2> QED BY <2>2, <2>3
<1>10. Counted' /\ Quiet
  <2>1. ASSUME NEW rep \in Replicas, NEW st \in Stages PROVE stage'[rep][st].busy = stage[rep][st].busy
    <3>1. DOMAIN stage[rep][st] = {"queue", "busy"}
      BY DEF Inv, Typed, StageOk
    <3> QED BY <1>5, <3>1
  <2>2. ASSUME NEW rep \in Replicas, NEW st \in Stages
        PROVE  Len(Batches("stage_end", rep, st, now' \o future'))
                 = IF stage'[rep][st].busy THEN 1 ELSE 0
    <3>1. Batches("stage_end", rep, st, now' \o future') = Batches("stage_end", rep, st, now \o future)
      BY <1>9
    <3>2. Len(Batches("stage_end", rep, st, now \o future)) = IF stage[rep][st].busy THEN 1 ELSE 0
      BY DEF Inv, Counted
    <3> QED BY <2>1, <3>1, <3>2
  <2>3. cfg' = cfg /\ sched' = sched
    BY <1>1
  <2> QED BY <1>9, <2>2, <2>3, QuietCounts
<1> QED BY <1>8, <1>10 DEF Inv

-------------------------------------------------------------------------------
\* ReplicaStageScheduleEvent

\* A stage takes its next batch: no pipeline changes.
LEMMA ReplicaStageScheduleStep ==
  ASSUME Inv, ReplicaStageSchedule
  PROVE  Inv' /\ Quiet
<1> DEFINE e == Head(now)
           r == e.rep
           s == e.stage
           t == stage[r][s]
           b == Head(t.queue)
           same == <<>>
<1>1. now # <<>> /\ e.kind = "stage" /\ UNCHANGED <<cfg, requestQueue, counter, decodeOn, sched>>
  BY DEF ReplicaStageSchedule, IsEvent
<1>2. r \in Replicas /\ s \in Stages
  <2>1. EventOk(cfg, Known, AllKinds, e)
    BY <1>1, EventsTail DEF Inv, Typed
  <2> QED BY <1>1, <2>1 DEF EventOk, Replicas, Stages
<1>3. StageOk(Known, t)
  BY <1>2 DEF Inv, Typed
<1>n. cfg.stages \in Nat /\ Stages = 1 .. cfg.stages
  BY InvShape DEF Stages
<1>4. CASE ~StageTakes(t)
  <2> DEFINE later == <<>>
  <2>1. stage' = stage /\ Handled(same, later)
    BY <1>4 DEF ReplicaStageSchedule
  <2>2. EventsOk(cfg, Known, AllKinds, same) /\ EventsOk(cfg, Known, LaterKinds, later)
    BY EventsFew
  <2>3. DOMAIN same = {} /\ DOMAIN later = {}
    BY SeqBasics
  <2> HIDE DEF same, later
  <2>4. /\ EventsOk(cfg, Known, AllKinds, now') /\ EventsOk(cfg, Known, LaterKinds, future')
        /\ HandledTo(now, future, same, later, now', future')
    BY <1>1, <2>1, <2>2, HandledTyped
  <2>5. Typed'
    <3>1. DOMAIN stage' = Replicas /\ (\A rep \in Replicas : DOMAIN stage'[rep] = Stages)
          /\ \A rep \in Replicas, st \in Stages : StageOk(Known, stage'[rep][st])
      BY <2>1 DEF Inv, Typed
    <3> QED BY <1>1, <2>4, <3>1, TypedStages
  <2>6. ASSUME NEW rep \in Replicas
        PROVE  /\ InPipelineOf(cfg.stages, rep, stage', now', future')
                    = InPipelineOf(cfg.stages, rep, stage, now, future)
               /\ \A st : Batches("stage_end", rep, st, now' \o future')
                            = Batches("stage_end", rep, st, now \o future)
    <3>1. Untouched(cfg.stages, rep, now, same, later, stage, stage')
      BY <1>1, <2>1, <2>3 DEF Untouched, Apart
    <3> QED BY <3>1, <2>4, <1>n, FlowApart
  <2>7. Counted' /\ Quiet
    <3>1. ASSUME NEW rep \in Replicas, NEW st \in Stages
          PROVE  Len(Batches("stage_end", rep, st, now' \o future'))
                   = IF stage'[rep][st].busy THEN 1 ELSE 0
      <4>1. Batches("stage_end", rep, st, now' \o future') = Batches("stage_end", rep, st, now \o future)
        BY <2>6
      <4>2. Len(Batches("stage_end", rep, st, now \o future)) = IF stage[rep][st].busy THEN 1 ELSE 0
        BY DEF Inv, Counted
      <4> QED BY <2>1, <4>1, <4>2
    <3>2. cfg' = cfg /\ sched' = sched
      BY SMTT(40), <1>1
    <3> QED BY <2>6, <3>1, <3>2, QuietCounts
  <2> QED BY <2>5, <2>7 DEF Inv
<1>5. CASE StageTakes(t)
  <2> DEFINE v == StageEndEvent(r, s, b)
             later == <<v>>
  <2>1. /\ stage' = [stage EXCEPT ![r][s] = [queue |-> Tail(t.queue), busy |-> TRUE]]
        /\ Handled(same, later) /\ ~t.busy /\ t.queue # <<>>
    BY Z3, <1>5 DEF ReplicaStageSchedule, StageTakes
  <2>2. /\ IsSeq(Tail(t.queue)) /\ t.queue = <<b>> \o Tail(t.queue) /\ IsBatch(Known, b)
        /\ \A i \in DOMAIN Tail(t.queue) : IsBatch(Known, Tail(t.queue)[i])
    <3> DEFINE q == t.queue
    <3>1. IsSeq(q) /\ q # <<>> /\ \A i \in DOMAIN q : IsBatch(Known, q[i])
      BY Zenon, <1>3, <2>1 DEF StageOk
    <3> HIDE DEF q
    <3>2. PICK S : q \in Seq(S)
      BY <3>1 DEF IsSeq
    <3>3. /\ Head(q) = q[1] /\ 1 \in DOMAIN q
          /\ \A i \in DOMAIN Tail(q) : i + 1 \in DOMAIN q /\ Tail(q)[i] = q[i + 1]
      BY <3>1, <3>2
    <3>4. IsSeq(Tail(q)) /\ q = <<Head(q)>> \o Tail(q) /\ IsBatch(Known, Head(q))
          /\ \A i \in DOMAIN Tail(q) : IsBatch(Known, Tail(q)[i])
      BY <3>1, <3>3, SeqTail
    <3> QED BY ZenonT(60), <3>4 DEF q
  <2>3. EventsOk(cfg, Known, AllKinds, same) /\ EventsOk(cfg, Known, LaterKinds, later)
    <3>1. EventOk(cfg, Known, LaterKinds, v)
      BY Zenon, <1>2, <2>2 DEF EventOk, StageEndEvent, Event, LaterKinds, Replicas, Stages
    <3> HIDE DEF v
    <3> QED BY ZenonT(60), <3>1, EventsFew
  <2>3a. DOMAIN same = {} /\ \A i \in DOMAIN later : later[i] = v
    BY SeqBasics
  <2> HIDE DEF later
  <2>4. /\ EventsOk(cfg, Known, AllKinds, now') /\ EventsOk(cfg, Known, LaterKinds, future')
        /\ HandledTo(now, future, same, later, now', future')
    <3> HIDE DEF same
    <3> QED BY <1>1, <2>1, <2>3, HandledTyped
  <2>5. \A rep \in Replicas : /\ DOMAIN stage'[rep] = Stages
                              /\ \A st \in Stages :
                                   stage'[rep][st] = IF rep = r /\ st = s
                                                     THEN [queue |-> Tail(t.queue), busy |-> TRUE]
                                                     ELSE stage[rep][st]
    <3> HIDE DEF t, r, s
    <3>1. DOMAIN stage = Replicas /\ \A rep \in Replicas : DOMAIN stage[rep] = Stages
      BY DEF Inv, Typed
    <3> QED BY <2>1, <3>1, <1>2
  <2>6. \A rep \in Replicas, st \in Stages : StageOk(Known, stage'[rep][st])
    <3>1. StageOk(Known, [queue |-> Tail(t.queue), busy |-> TRUE])
      BY Zenon, <2>2 DEF StageOk
    <3>2. \A rep \in Replicas, st \in Stages : StageOk(Known, stage[rep][st])
      BY DEF Inv, Typed
    <3> HIDE DEF t
    <3> QED BY Z3, <2>5, <3>1, <3>2
  <2>7. Typed'
    <3>1. DOMAIN stage' = Replicas
      BY <2>1 DEF Inv, Typed
    <3> QED BY <1>1, <2>4, <2>5, <2>6, <3>1, TypedStages
  <2>8. ASSUME NEW rep \in Replicas
        PROVE  /\ InPipelineOf(cfg.stages, rep, stage', now', future')
                    = InPipelineOf(cfg.stages, rep, stage, now, future)
               /\ \A st \in Stages : Len(Batches("stage_end", rep, st, now' \o future'))
                                       = IF stage'[rep][st].busy THEN 1 ELSE 0
    <3>0. \A st \in Stages : Len(Batches("stage_end", rep, st, now \o future))
                               = IF stage[rep][st].busy THEN 1 ELSE 0
      BY DEF Inv, Counted
    <3>1. CASE rep = r
      <4>1. RowTyped(cfg.stages, rep, stage, now, future)
            /\ RowTyped(cfg.stages, rep, stage', now', future')
        <5>1. \A st \in Stages : StageOk(Known, stage'[rep][st])
          BY <2>6
        <5> QED BY <5>1, <2>4, <1>n, InvShape, NextRow
      <4>2. StageTaken(cfg.stages, rep, s, b, later, stage, stage', now \o future)
        <5>1. Batches("stage_end", rep, s, now \o future) = <<>>
          <6>1. Len(Batches("stage_end", rep, s, now \o future)) = 0
            BY <1>2, <2>1, <3>0, <3>1
          <6>2. IsSeq(Batches("stage_end", rep, s, now \o future))
            <7>1. IsSeq(now \o future)
              BY <4>1, SeqConcat DEF RowTyped
            <7> QED BY <7>1, BatchesFound
          <6> QED BY <6>1, <6>2, SeqEmpty
        <5>2. \A st \in 1 .. cfg.stages : st # s => stage'[rep][st].queue = stage[rep][st].queue
          BY <1>n, <2>5
        <5>3. stage[rep][s].queue = <<b>> \o stage'[rep][s].queue
          <6>1. stage'[rep][s].queue = Tail(t.queue) /\ stage[rep][s].queue = t.queue
            <7>1. stage'[rep][s] = [queue |-> Tail(t.queue), busy |-> TRUE]
              <8> HIDE DEF t, r, s
              <8> QED BY <1>2, <2>5, <3>1
            <7>2. stage[rep][s] = t
              BY <3>1
            <7> HIDE DEF t
            <7> QED BY <7>1, <7>2
          <6> HIDE DEF t, b
          <6> QED BY <6>1, <2>2
        <5>4. later = <<StageEndEvent(rep, s, b)>>
          BY <3>1 DEF later
        <5> HIDE DEF s, b
        <5> QED BY <5>1, <5>2, <5>3, <5>4 DEF StageTaken
      <4>3. HandledTo(now, future, <<>>, later, now', future') /\ s \in 1 .. cfg.stages
            /\ Head(now).kind = "stage"
        BY <1>1, <1>2, <1>n, <2>4
      <4> HIDE DEF s, b
      <4>4. InPipelineOf(cfg.stages, rep, stage', now', future')
              = InPipelineOf(cfg.stages, rep, stage, now, future)
        BY <4>1, <4>2, <4>3, FlowTake
      <4>5. \A st : st # s => Batches("stage_end", rep, st, now' \o future')
                                = Batches("stage_end", rep, st, now \o future)
        BY <4>1, <4>2, <4>3, FlowTake
      <4>6. Batches("stage_end", rep, s, now' \o future') = <<b>>
        BY <4>1, <4>2, <4>3, FlowTake
      <4>7. ASSUME NEW st \in Stages
            PROVE  Len(Batches("stage_end", rep, st, now' \o future'))
                     = IF stage'[rep][st].busy THEN 1 ELSE 0
        <5>1. CASE st = s
          <6>1. stage'[rep][st].busy
            BY <5>1, <2>5, <3>1
          <6>2. Len(<<b>>) = 1
            BY SeqBasics
          <6> QED BY <5>1, <6>1, <6>2, <4>6
        <5>2. CASE st # s
          <6>1. stage'[rep][st].busy = stage[rep][st].busy
            BY <5>2, <2>5
          <6>2. Batches("stage_end", rep, st, now' \o future') = Batches("stage_end", rep, st, now \o future)
            BY <5>2, <4>5
          <6> QED BY <6>1, <6>2, <3>0
        <5> QED BY <5>1, <5>2
      <4> QED BY <4>4, <4>7
    <3>2. CASE rep # r
      <4>1. \A st \in Stages : stage'[rep][st] = stage[rep][st]
        BY <2>5, <3>2
      <4>2. Untouched(cfg.stages, rep, now, same, later, stage, stage')
        <5>1. \A i \in DOMAIN later : Apart(rep, later[i])
          BY <2>3a, <3>2 DEF Apart, StageEndEvent, Event
        <5> HIDE DEF same
        <5> QED BY <1>1, <1>n, <2>3a, <4>1, <5>1 DEF Untouched, Apart
      <4> HIDE DEF same
      <4>3. /\ InPipelineOf(cfg.stages, rep, stage', now', future')
                  = InPipelineOf(cfg.stages, rep, stage, now, future)
            /\ \A st : Batches("stage_end", rep, st, now' \o future')
                         = Batches("stage_end", rep, st, now \o future)
        BY <4>2, <2>4, <1>n, FlowApart
      <4>4. ASSUME NEW st \in Stages
            PROVE  Len(Batches("stage_end", rep, st, now' \o future'))
                     = IF stage'[rep][st].busy THEN 1 ELSE 0
        <5>1. Batches("stage_end", rep, st, now' \o future') = Batches("stage_end", rep, st, now \o future)
          BY <4>3
        <5> QED BY <5>1, <4>1, <3>0
      <4> QED BY <4>3, <4>4
    <3> QED BY <3>1, <3>2
  <2>9. Counted' /\ Quiet
    <3>1. cfg' = cfg /\ sched' = sched
      BY <1>1
    <3> QED BY <2>8, <3>1, QuietCounts
  <2> QED BY <2>7, <2>9 DEF Inv
<1> QED BY <1>4, <1>5

-------------------------------------------------------------------------------
\* BatchStageEndEvent

\* A batch ends on a stage: no pipeline changes.
LEMMA BatchStageEndStep ==
  ASSUME Inv, BatchStageEnd
  PROVE  Inv' /\ Quiet
<1> DEFINE e == Head(now)
           r == e.rep
           s == e.stage
           b == e.batch
           v == StageScheduleEvent(r, s)
           w == IF s = cfg.stages THEN BatchEndEvent(r, b) ELSE StageArrivalEvent(r, s + 1, b)
           same == <<v, w>>
           later == <<>>
<1>1. /\ now # <<>> /\ e.kind = "stage_end" /\ Handled(same, later)
      /\ stage' = [stage EXCEPT ![r][s].busy = FALSE]
      /\ UNCHANGED <<cfg, requestQueue, counter, decodeOn, sched>>
  BY DEF BatchStageEnd, IsEvent, IsLast
<1>2. r \in Replicas /\ s \in Stages /\ IsBatch(Known, b)
  <2>1. EventOk(cfg, Known, AllKinds, e)
    BY <1>1, EventsTail DEF Inv, Typed
  <2> QED BY <1>1, <2>1 DEF EventOk, Replicas, Stages
<1>n. cfg.stages \in Nat /\ Stages = 1 .. cfg.stages
  BY InvShape DEF Stages
<1>3. EventsOk(cfg, Known, AllKinds, same) /\ EventsOk(cfg, Known, LaterKinds, later)
  <2>1. EventOk(cfg, Known, AllKinds, v)
    <3> HIDE DEF r, s
    <3> QED BY <1>2 DEF EventOk, StageScheduleEvent, Event, AllKinds, Replicas, Stages
  <2>2. EventOk(cfg, Known, AllKinds, w)
    <3> HIDE DEF r, s, b
    <3>1. CASE s = cfg.stages
      BY <3>1, <1>2 DEF EventOk, BatchEndEvent, Event, AllKinds, Replicas
    <3>2. CASE s # cfg.stages
      <4>1. s + 1 \in 1 .. cfg.stages
        BY <3>2, <1>2, <1>n
      <4> QED BY <3>2, <4>1, <1>2 DEF EventOk, StageArrivalEvent, Event, AllKinds, Replicas
    <3> QED BY <3>1, <3>2
  <2> HIDE DEF v, w
  <2> QED BY <2>1, <2>2, EventsFew
<1>3a. ASSUME NEW rep, rep # r
       PROVE  (\A i \in DOMAIN same : Apart(rep, same[i])) /\ (\A i \in DOMAIN later : Apart(rep, later[i]))
  <2>1. Apart(rep, v) /\ Apart(rep, w)
    BY <1>3a DEF Apart, StageScheduleEvent, BatchEndEvent, StageArrivalEvent, Event
  <2>2. DOMAIN same = 1 .. 2 /\ same[1] = v /\ same[2] = w /\ DOMAIN later = {}
    <3> HIDE DEF v, w
    <3>1. IsSeq(same) /\ Len(same) = 2 /\ same[1] = v /\ same[2] = w
      <4>1. same \in Seq({v, w})
        OBVIOUS
      <4> QED BY <4>1 DEF IsSeq
    <3> QED BY <3>1, SeqShape, SeqBasics
  <2> HIDE DEF same, later, v, w
  <2>3. \A i \in 1 .. 2 : i = 1 \/ i = 2
    OBVIOUS
  <2> QED BY <2>1, <2>2, <2>3
<1> HIDE DEF same, later
<1>4. /\ EventsOk(cfg, Known, AllKinds, now') /\ EventsOk(cfg, Known, LaterKinds, future')
      /\ HandledTo(now, future, same, later, now', future')
  BY <1>1, <1>3, HandledTyped
<1>5. \A rep \in Replicas : /\ DOMAIN stage'[rep] = Stages
                            /\ \A st \in Stages :
                                 stage'[rep][st] = IF rep = r /\ st = s
                                                   THEN [stage[rep][st] EXCEPT !.busy = FALSE]
                                                   ELSE stage[rep][st]
  <2> HIDE DEF r, s
  <2>1. DOMAIN stage = Replicas /\ \A rep \in Replicas : DOMAIN stage[rep] = Stages
    BY DEF Inv, Typed
  <2> QED BY <1>1, <2>1, <1>2
<1>6. \A rep \in Replicas, st \in Stages :
        /\ StageOk(Known, stage'[rep][st]) /\ stage'[rep][st].queue = stage[rep][st].queue
        /\ stage'[rep][st].busy = IF rep = r /\ st = s THEN FALSE ELSE stage[rep][st].busy
  <2>1. \A rep \in Replicas, st \in Stages : StageOk(Known, stage[rep][st])
    BY DEF Inv, Typed
  <2>2. ASSUME NEW t, StageOk(Known, t)
        PROVE  /\ StageOk(Known, [t EXCEPT !.busy = FALSE])
               /\ [t EXCEPT !.busy = FALSE].queue = t.queue /\ [t EXCEPT !.busy = FALSE].busy = FALSE
    BY <2>2 DEF StageOk
  <2>3. ASSUME NEW rep \in Replicas, NEW st \in Stages
        PROVE  /\ StageOk(Known, stage'[rep][st]) /\ stage'[rep][st].queue = stage[rep][st].queue
               /\ stage'[rep][st].busy = IF rep = r /\ st = s THEN FALSE ELSE stage[rep][st].busy
    <3> DEFINE t == stage[rep][st]
               t2 == [t EXCEPT !.busy = FALSE]
    <3>1. stage'[rep][st] = IF rep = r /\ st = s THEN t2 ELSE t
      BY <1>5
    <3>2. StageOk(Known, t)
      BY <2>1
    <3>3. StageOk(Known, t2) /\ t2.queue = t.queue /\ t2.busy = FALSE
      BY <3>2, <2>2
    <3> HIDE DEF t2, t, r, s
    <3>4. /\ StageOk(Known, stage'[rep][st]) /\ stage'[rep][st].queue = t.queue
          /\ stage'[rep][st].busy = IF rep = r /\ st = s THEN FALSE ELSE t.busy
      BY <3>1, <3>2, <3>3
    <3> QED BY <3>4 DEF t
  <2> HIDE DEF r, s
  <2> QED BY <2>3, Zenon
<1>7. Typed'
  <2>1. DOMAIN stage' = Replicas
    BY <1>1 DEF Inv, Typed
  <2> QED BY ZenonT(60), <1>1, <1>4, <1>5, <1>6, <2>1, TypedStages
<1>8. ASSUME NEW rep \in Replicas
      PROVE  /\ InPipelineOf(cfg.stages, rep, stage', now', future')
                  = InPipelineOf(cfg.stages, rep, stage, now, future)
             /\ \A st \in Stages : Len(Batches("stage_end", rep, st, now' \o future'))
                                     = IF stage'[rep][st].busy THEN 1 ELSE 0
  <2>0. \A st \in Stages : Len(Batches("stage_end", rep, st, now \o future))
                             = IF stage[rep][st].busy THEN 1 ELSE 0
    BY DEF Inv, Counted
  <2>1. \A st \in 1 .. cfg.stages : stage'[rep][st].queue = stage[rep][st].queue
    BY <1>6, <1>n
  <2>2. CASE rep = r
    <3>1. RowTyped(cfg.stages, rep, stage, now, future)
          /\ RowTyped(cfg.stages, rep, stage', now', future')
      <4>1. \A st \in Stages : StageOk(Known, stage'[rep][st])
        BY <1>6
      <4> QED BY <4>1, <1>4, <1>n, InvShape, NextRow
    <3>2. PassesOn(cfg.stages, rep, s, b, same)
      BY <2>2 DEF PassesOn, same
    <3>3. About(Head(now), "stage_end", rep, s, b) /\ s \in 1 .. cfg.stages
          /\ HandledTo(now, future, same, <<>>, now', future')
      BY <1>1, <1>2, <1>4, <1>n, <2>2 DEF About, later
    <3> HIDE DEF s, b
    <3>p. PassedOn(cfg.stages, rep, s, b, stage, now, future, stage', now', future')
      BY <2>1, <3>1, <3>2, <3>3, FlowEnd
    <3>4. InPipelineOf(cfg.stages, rep, stage', now', future')
            = InPipelineOf(cfg.stages, rep, stage, now, future)
      BY <3>p DEF PassedOn
    <3>5. \A st : st # s => Batches("stage_end", rep, st, now' \o future')
                              = Batches("stage_end", rep, st, now \o future)
      BY <3>p DEF PassedOn
    <3>6. Batches("stage_end", rep, s, now \o future)
            = <<b>> \o Batches("stage_end", rep, s, now' \o future')
      BY <3>p DEF PassedOn
    <3>7. ASSUME NEW st \in Stages
          PROVE  Len(Batches("stage_end", rep, st, now' \o future'))
                   = IF stage'[rep][st].busy THEN 1 ELSE 0
      <4>1. CASE st = s
        <5> DEFINE a == Batches("stage_end", rep, s, now \o future)
                   a2 == Batches("stage_end", rep, s, now' \o future')
                   u == <<b>>
        <5>1. IsSeq(a2) /\ IsSeq(u) /\ Len(u) = 1
          <6>1. IsSeq(now' \o future')
            BY <3>1, SeqConcat DEF RowTyped
          <6> QED BY <6>1, BatchesFound, SeqBasics
        <5>2. Len(a) <= 1
          <6> DEFINE l == Len(a)
          <6>1. l = IF stage[rep][s].busy THEN 1 ELSE 0
            BY <2>0, <4>1
          <6> HIDE DEF l
          <6>2. l <= 1
            BY <6>1
          <6> QED BY <6>2 DEF l
        <5>3. a = u \o a2
          BY <3>6
        <5> HIDE DEF a, a2, u
        <5>4. Len(a) = 1 + Len(a2) /\ Len(a2) \in Nat
          <6>1. Len(u \o a2) = Len(u) + Len(a2) /\ Len(a2) \in Nat
            BY <5>1, SeqConcat, SeqShape
          <6> QED BY <5>1, <5>3, <6>1
        <5>5. Len(a2) = 0
          BY <5>2, <5>4
        <5>6. ~stage'[rep][s].busy
          BY <1>6, <2>2, <4>1
        <5> QED BY <4>1, <5>5, <5>6 DEF a2
      <4>2. CASE st # s
        <5>1. stage'[rep][st].busy = stage[rep][st].busy
          BY <4>2, <1>6
        <5>2. Batches("stage_end", rep, st, now' \o future') = Batches("stage_end", rep, st, now \o future)
          BY <4>2, <3>5
        <5> QED BY <5>1, <5>2, <2>0
      <4> QED BY <4>1, <4>2
    <3> QED BY <3>4, <3>7
  <2>3. CASE rep # r
    <3>1. Untouched(cfg.stages, rep, now, same, later, stage, stage')
      <4>1. Apart(rep, Head(now))
        BY <2>3 DEF Apart
      <4> QED BY <4>1, <1>3a, <2>1, <2>3 DEF Untouched
    <3>2. /\ InPipelineOf(cfg.stages, rep, stage', now', future')
                = InPipelineOf(cfg.stages, rep, stage, now, future)
          /\ \A st : Batches("stage_end", rep, st, now' \o future')
                       = Batches("stage_end", rep, st, now \o future)
      BY <3>1, <1>4, <1>n, FlowApart
    <3>3. ASSUME NEW st \in Stages
          PROVE  Len(Batches("stage_end", rep, st, now' \o future'))
                   = IF stage'[rep][st].busy THEN 1 ELSE 0
      <4>1. Batches("stage_end", rep, st, now' \o future') = Batches("stage_end", rep, st, now \o future)
        BY <3>2
      <4>2. stage'[rep][st].busy = stage[rep][st].busy
        BY <1>6, <2>3
      <4> QED BY <4>1, <4>2, <2>0
    <3> QED BY <3>2, <3>3
  <2> QED BY <2>2, <2>3
<1>9. Counted' /\ Quiet
  <2>1. cfg' = cfg /\ sched' = sched
    BY <1>1
  <2> QED BY <1>8, <2>1, QuietCounts
<1> QED BY <1>7, <1>9 DEF Inv

-------------------------------------------------------------------------------
\* ReplicaScheduleEvent

\* A scheduler is opened and closed by a handler.
LEMMA OpenedFit ==
  ASSUME NEW ids, NEW s, SchedOk(ids, s), NEW req
  PROVE  Fit(Load(ids, s.running), Opened(s, req))
<1> DEFINE g == [req |-> req, batch |-> <<>>, cur |-> 0, prefills |-> <<>>, ok |-> TRUE]
           x == Opened(s, req)
<1>1. x = [f \in (DOMAIN s) \cup (DOMAIN g) |-> IF f \in DOMAIN s THEN s[f] ELSE g[f]]
  BY DEF Opened
<1>2. DOMAIN s = SchedulerFields /\ DOMAIN g = {"req", "batch", "cur", "prefills", "ok"}
  BY DEF SchedOk
<1>3. /\ DOMAIN x = SchedulerFields \cup {"req", "batch", "cur", "prefills", "ok"}
      /\ x.queue = s.queue /\ x.preempted = s.preempted /\ x.held = s.held /\ x.running = s.running
      /\ x.prefills = <<>> /\ x.batch = <<>> /\ x.cur = 0
  <2> HIDE DEF x
  <2> QED BY <1>1, <1>2 DEF SchedulerFields
<1>4. <<>> \in Seq(ids) /\ IsBatch(ids, <<>>)
  <2>1. IsSeq(<<>>) /\ DOMAIN <<>> = {}
    BY SeqBasics
  <2> QED BY <2>1 DEF IsBatch
<1> HIDE DEF x
<1> QED BY <1>3, <1>4 DEF Fit, Load, SchedOk, x

\* A handler that is closed leaves a scheduler.
LEMMA ClosedOk ==
  ASSUME NEW ids, NEW n, NEW x, Fit(Load(ids, n), x), NEW s, DOMAIN s = SchedulerFields
  PROVE  SchedOk(ids, Closed(s, x)) /\ Closed(s, x).running = n
BY DEF SchedOk, Closed, SchedulerFields, Fit, Load

\* Batches enter the pipeline of a replica.
Entering ==
  /\ cfg' = cfg
  /\ \E rep \in Replicas : \E made :
       /\ IsSeq(made) /\ InPipeline(rep)' = InPipeline(rep) \o made
       /\ Len(InPipeline(rep)') <= cfg.stages
       /\ \A other \in Replicas : other # rep => InPipeline(other)' = InPipeline(other)

\* The oldest batch leaves the pipeline of a replica.
Leaving ==
  /\ cfg' = cfg
  /\ \E rep \in Replicas :
       /\ InPipeline(rep) # <<>> /\ InPipeline(rep)' = Tail(InPipeline(rep))
       /\ \A other \in Replicas : other # rep => InPipeline(other)' = InPipeline(other)

\* The counts of a state, given part by part.
LEMMA NewCounts ==
  ASSUME cfg' = cfg,
         \A rep \in Replicas :
           /\ sched'[rep].running = Len(InPipelineOf(cfg.stages, rep, stage', now', future'))
           /\ Len(InPipelineOf(cfg.stages, rep, stage', now', future')) <= cfg.stages
           /\ \A st \in Stages : Len(Batches("stage_end", rep, st, now' \o future'))
                                   = IF stage'[rep][st].busy THEN 1 ELSE 0
  PROVE  Counted'
<1>1. ASSUME NEW rep \in Replicas
      PROVE  InPipeline(rep)' = InPipelineOf(cfg.stages, rep, stage', now', future')
  BY Pipelines
<1>2. Replicas' = Replicas /\ Stages' = Stages
  BY DEF Replicas, Stages
<1>3. ASSUME NEW rep \in Replicas, NEW st \in Stages
      PROVE  Batches("stage_end", rep, st, now \o future)' = Batches("stage_end", rep, st, now' \o future')
  BY DEF Batches
<1> QED BY <1>1, <1>2, <1>3 DEF Counted

\* Steps that leave the stages alone.
LEMMA TypedScheds ==
  ASSUME Inv, UNCHANGED <<cfg, stage>>, requestQueue' \in Seq(Requests), counter' \in Nat,
         Known \subseteq Known', EventsOk(cfg, Known', AllKinds, now'),
         EventsOk(cfg, Known', LaterKinds, future'),
         DOMAIN sched' = Replicas, \A rep \in Replicas : SchedOk(Known', sched'[rep])
  PROVE  Typed'
<1>1. cfg' = cfg /\ stage' = stage /\ Requests' = Requests /\ Replicas' = Replicas /\ Stages' = Stages
  BY DEF Requests, Replicas, Stages
<1>2. cfg' \in Configs /\ requestQueue' \in Seq(Requests') /\ counter' \in Nat
  BY <1>1 DEF Inv, Typed
<1>3. EventsOk(cfg', Known', AllKinds, now') /\ EventsOk(cfg', Known', LaterKinds, future')
  BY <1>1
<1>4. DOMAIN sched' = Replicas' /\ \A rep \in Replicas' : SchedOk(Known', sched'[rep])
  BY <1>1
<1>5. ASSUME NEW t, StageOk(Known, t) PROVE StageOk(Known', t)
  BY <1>5 DEF StageOk, IsBatch
<1>6. /\ DOMAIN stage' = Replicas'
      /\ \A rep \in Replicas' : /\ DOMAIN stage'[rep] = Stages'
                                /\ \A st \in Stages' : StageOk(Known', stage'[rep][st])
  BY <1>1, <1>5 DEF Inv, Typed
<1> QED BY <1>2, <1>3, <1>4, <1>6 DEF Typed

\* The busy stages, when nothing ends on them.
LEMMA SameBusy ==
  ASSUME Inv, NEW rep \in Replicas, stage' = stage,
         \A st : Batches("stage_end", rep, st, now' \o future') = Batches("stage_end", rep, st, now \o future)
  PROVE  \A st \in Stages : Len(Batches("stage_end", rep, st, now' \o future'))
                              = IF stage'[rep][st].busy THEN 1 ELSE 0
<1>1. ASSUME NEW st \in Stages
      PROVE  Len(Batches("stage_end", rep, st, now' \o future')) = IF stage'[rep][st].busy THEN 1 ELSE 0
  <2>1. Batches("stage_end", rep, st, now' \o future') = Batches("stage_end", rep, st, now \o future)
    OBVIOUS
  <2>2. Len(Batches("stage_end", rep, st, now \o future)) = IF stage[rep][st].busy THEN 1 ELSE 0
    BY DEF Inv, Counted
  <2> QED BY <2>1, <2>2
<1> QED BY <1>1

-------------------------------------------------------------------------------
\* GlobalScheduleEvent

\* The Splitwise scheduler gives a request it maps a decode replica.
LEMMA DecodeReplica ==
  ASSUME cfg \in Configs, Splitwise, NEW n \in Nat
  PROVE  SplitwiseDecode(n) \in Replicas
<1> DEFINE d == cfg.replicas - cfg.prefills
           p == cfg.prefills
           m == n % d
<1>1. cfg.replicas \in Nat /\ p \in Nat /\ d \in Nat /\ d > 0 /\ p + d = cfg.replicas
  BY ConfigShape
<1>2. m \in 0 .. d - 1
  <2> HIDE DEF d
  <2> QED BY <1>1
<1> HIDE DEF m, d, p
<1>3. m + p + 1 \in 1 .. cfg.replicas
  BY <1>1, <1>2
<1> QED BY <1>3 DEF SplitwiseDecode, Replicas, m, d, p

\* A request in a queue has a first place in it.
LEMMA FirstPlace ==
  ASSUME NEW S, NEW q \in Seq(S), NEW id \in ToSet(q), NEW I, I = {i \in 1 .. Len(q) : q[i] = id}
  PROVE  I # {} /\ Min(I) - 1 \in Nat
<1>1. Len(q) \in Nat /\ I \in SUBSET (0 .. Len(q)) /\ I # {}
  BY DEF ToSet
<1>2. \E j \in I : \A k \in I : j <= k
  BY <1>1, LeastNatural
<1>3. Min(I) \in I
  BY <1>2 DEF Min
<1> QED BY <1>1, <1>3

\* The global scheduler hands requests to replicas: no pipeline changes.
LEMMA GlobalScheduleStep ==
  ASSUME Inv, GlobalSchedule
  PROVE  Inv' /\ Quiet
<1> DEFINE q == SortByArrival(cfg, requestQueue)
<1>1. /\ now # <<>> /\ Head(now).kind = "global" /\ UNCHANGED <<cfg, stage>>
      /\ requestQueue' = <<>>
      /\ counter' = IF Splitwise \/ cfg.policy = "round_robin"
                    THEN counter + Len(requestQueue) ELSE counter
  BY DEF GlobalSchedule, IsEvent
<1>n. /\ cfg.stages \in Nat /\ Stages = 1 .. cfg.stages /\ cfg.replicas \in Nat
      /\ cfg.arrivedAt \in Seq(Nat) /\ cfg \in Configs
  BY InvShape DEF Stages, Inv, Typed
<1>2. PICK m :
        /\ sched' = [rep \in Replicas |->
                       [sched[rep] EXCEPT !.queue = @ \o Picked({i \in DOMAIN q : m[i] = rep}, q)]]
        /\ decodeOn' = [id \in Requests |->
                          IF Splitwise /\ id \in ToSet(q)
                          THEN SplitwiseDecode(counter + SelectInSeq(q, LAMBDA k : k = id) - 1)
                          ELSE decodeOn[id]]
        /\ Handled(Picked(Range(m), [rep \in Replicas |-> ReplicaScheduleEvent(rep)]), <<>>)
  BY DEF GlobalSchedule
<1> DEFINE es == [rep \in Replicas |-> ReplicaScheduleEvent(rep)]
           same == Picked(Range(m), es)
           later == <<>>
<1>3. requestQueue \in Seq(Requests) /\ counter \in Nat
  BY DEF Inv, Typed
<1>4. q \in Seq(Requests)
  BY <1>3, <1>n, SortTyped
<1> HIDE DEF q
<1>5. cfg' = cfg /\ Requests' = Requests /\ Replicas' = Replicas
  BY <1>1 DEF Requests, Replicas
<1>6. ASSUME NEW id \in Requests, Splitwise, decodeOn[id] \in Replicas \/ id \in ToSet(q)
      PROVE  decodeOn'[id] \in Replicas
  <2> DEFINE j == SelectInSeq(q, LAMBDA k : k = id)
  <2>1. CASE id \in ToSet(q)
    <3>1. decodeOn'[id] = SplitwiseDecode(counter + j - 1)
      BY <2>1, <1>2, <1>6
    <3>2. j - 1 \in Nat
      <4> DEFINE I == {i \in 1 .. Len(q) : q[i] = id}
      <4>1. I # {} /\ Min(I) - 1 \in Nat
        BY <2>1, <1>4, FirstPlace
      <4>2. j = Min(I)
        BY <4>1 DEF SelectInSeq
      <4> HIDE DEF j, I
      <4> QED BY <4>1, <4>2
    <3> HIDE DEF j
    <3>3. counter + j - 1 \in Nat
      BY <3>2, <1>3
    <3> QED BY <3>1, <3>3, <1>6, <1>n, DecodeReplica
  <2>2. CASE id \notin ToSet(q)
    <3>1. decodeOn'[id] = decodeOn[id]
      BY <2>2, <1>2
    <3> QED BY <2>2, <3>1, <1>6
  <2> QED BY <2>1, <2>2
<1>7. Known \subseteq Known' /\ ToSet(q) \subseteq Known'
  <2>1. Splitwise' = Splitwise
    BY <1>5 DEF Splitwise
  <2>2. ToSet(q) \subseteq Requests
    BY <1>4 DEF ToSet
  <2>3. \A id \in Requests : (Splitwise => decodeOn[id] \in Replicas \/ id \in ToSet(q)) => id \in Known'
    BY <1>5, <1>6, <2>1 DEF Known
  <2> QED BY <2>2, <2>3 DEF Known
<1>8. EventsOk(cfg, Known', AllKinds, same) /\ EventsOk(cfg, Known', LaterKinds, later)
      /\ \A i \in DOMAIN same : same[i].kind = "replica"
  <2>1. IsSeq(es)
    <3>1. es \in [1 .. cfg.replicas -> {es[rep] : rep \in Replicas}]
      BY DEF Replicas
    <3> HIDE DEF es
    <3> QED BY <3>1, <1>n, SeqMade
  <2>2. \A i \in DOMAIN es : EventOk(cfg, Known', {"replica"}, es[i])
    BY DEF EventOk, ReplicaScheduleEvent, Event, Replicas
  <2> HIDE DEF es
  <2>3. EventsOk(cfg, Known', {"replica"}, same)
    BY <2>1, <2>2, EventsPicked
  <2> HIDE DEF same
  <2>4. {"replica"} \subseteq AllKinds
    BY DEF AllKinds
  <2>5. EventsOk(cfg, Known', AllKinds, same)
    BY <2>3, <2>4, EventsMono
  <2>6. EventsOk(cfg, Known', LaterKinds, later)
    BY EventsFew
  <2> QED BY <2>3, <2>5, <2>6 DEF EventsOk, EventOk
<1>9. Handled(same, later) /\ DOMAIN later = {}
  BY <1>2, SeqBasics
<1> HIDE DEF same, later
<1>10. /\ EventsOk(cfg, Known', AllKinds, now') /\ EventsOk(cfg, Known', LaterKinds, future')
       /\ HandledTo(now, future, same, later, now', future')
  BY <1>1, <1>7, <1>8, <1>9, HandledTyped
<1>11. /\ DOMAIN sched' = Replicas
       /\ \A rep \in Replicas : SchedOk(Known', sched'[rep]) /\ sched'[rep].running = sched[rep].running
  <2>1. DOMAIN sched' = Replicas
    BY <1>2
  <2>2. ASSUME NEW rep \in Replicas
        PROVE  SchedOk(Known', sched'[rep]) /\ sched'[rep].running = sched[rep].running
    <3> DEFINE s == sched[rep]
               g == Picked({i \in DOMAIN q : m[i] = rep}, q)
    <3>1. sched'[rep] = [s EXCEPT !.queue = @ \o g]
      BY <1>2
    <3>2. SchedOk(Known, s)
      BY DEF Inv, Typed
    <3>3. g \in Seq(Known')
      <4>1. q \in Seq(Known')
        <5>1. q \in Seq(ToSet(q))
          BY <1>4 DEF ToSet
        <5> QED BY <5>1, <1>7, SeqMonotonic
      <4> QED BY <4>1, PickedTyped
    <3> HIDE DEF s, g
    <3>4. s.queue \in Seq(Known') /\ s.preempted \in Seq(Known')
      BY <3>2, <1>7, SeqMonotonic DEF SchedOk
    <3>5. \A i \in DOMAIN s.held : IsBatch(Known', s.held[i])
      BY <3>2, <1>7 DEF SchedOk, IsBatch
    <3>6. s.queue \o g \in Seq(Known')
      BY <3>3, <3>4
    <3>7. SchedOk(Known', sched'[rep]) /\ sched'[rep].running = s.running
      BY <3>1, <3>2, <3>4, <3>5, <3>6 DEF SchedOk, SchedulerFields
    <3> QED BY <3>7 DEF s
  <2> QED BY <2>1, <2>2
<1>12. Typed'
  <2>1. requestQueue' \in Seq(Requests)
    BY <1>1
  <2>2. counter' \in Nat
    <3>1. Len(requestQueue) \in Nat
      BY <1>3
    <3> QED BY <3>1, <1>1, <1>3
  <2> QED BY <1>1, <1>7, <1>10, <1>11, <2>1, <2>2, TypedScheds
<1>13. ASSUME NEW rep \in Replicas
       PROVE  /\ InPipelineOf(cfg.stages, rep, stage, now', future')
                   = InPipelineOf(cfg.stages, rep, stage, now, future)
              /\ \A st : Batches("stage_end", rep, st, now' \o future')
                           = Batches("stage_end", rep, st, now \o future)
  <2>1. Untouched(cfg.stages, rep, now, same, later, stage, stage)
    BY <1>1, <1>8, <1>9 DEF Untouched, Apart
  <2> QED BY <2>1, <1>10, <1>n, FlowApart
<1>14. Counted' /\ Quiet
  <2>1. stage' = stage /\ cfg' = cfg
    BY <1>1
  <2>2. ASSUME NEW rep \in Replicas
        PROVE  /\ sched'[rep].running = sched[rep].running
               /\ InPipelineOf(cfg.stages, rep, stage', now', future')
                    = InPipelineOf(cfg.stages, rep, stage, now, future)
               /\ \A st \in Stages : Len(Batches("stage_end", rep, st, now' \o future'))
                                       = IF stage'[rep][st].busy THEN 1 ELSE 0
    <3>1. \A st : Batches("stage_end", rep, st, now' \o future') = Batches("stage_end", rep, st, now \o future)
      BY <1>13
    <3>2. \A st \in Stages : Len(Batches("stage_end", rep, st, now' \o future'))
                               = IF stage'[rep][st].busy THEN 1 ELSE 0
      BY <2>1, <3>1, SameBusy
    <3> QED BY <2>1, <3>2, <1>11, <1>13
  <2> QED BY <2>1, <2>2, QuietCounts
<1> QED BY <1>12, <1>14 DEF Inv

-------------------------------------------------------------------------------
\* The loops of the replica schedulers

\* The fields Fit says nothing of.
LEMMA FitFree ==
  ASSUME NEW k, NEW x, Fit(k, x), NEW c, NEW id, NEW n
  PROVE  /\ Fit(k, Allocate(c, x, id, n))
         /\ Fit(k, Free(x, id))
         /\ Fit(k, FreeWithKv(x, id))
         /\ \A v : Fit(k, [x EXCEPT !.ok = v]) /\ Fit(k, [x EXCEPT !.waiting = v])
                   /\ Fit(k, [x EXCEPT !.req = v]) /\ Fit(k, [x EXCEPT !.kv = v])
BY DEF Fit, SchedulerFields, Allocate, Free, FreeWithKv

\* A request that joins the batch leaves the handler fit.
LEMMA FitAdd ==
  ASSUME NEW k, NEW x, Fit(k, x), NEW id \in k.ids, NEW n
  PROVE  Fit(k, AddToBatch(x, id, n))
<1> DEFINE b == Append(x.batch, [id |-> id, n |-> n])
<1>1. IsBatch(k.ids, b)
  <2>1. IsSeq(x.batch) /\ \A i \in DOMAIN x.batch : x.batch[i].id \in k.ids
    BY DEF Fit, IsBatch
  <2>2. PICK S : x.batch \in Seq(S)
    BY <2>1 DEF IsSeq
  <2> DEFINE e == [id |-> id, n |-> n]
  <2>3. x.batch \in Seq(S \cup {e})
    BY <2>2
  <2>4. e.id = id
    OBVIOUS
  <2> HIDE DEF e
  <2>5. /\ Append(x.batch, e) \in Seq(S \cup {e})
        /\ \A i \in DOMAIN Append(x.batch, e) :
             Append(x.batch, e)[i] = e \/ (i \in DOMAIN x.batch /\ Append(x.batch, e)[i] = x.batch[i])
    BY <2>3
  <2> QED BY <2>1, <2>4, <2>5 DEF IsSeq, IsBatch, e
<1> HIDE DEF b
<1>2. Fit(k, [x EXCEPT !.batch = b])
  BY <1>1 DEF Fit, SchedulerFields
<1>3. \A v : Fit(k, [[x EXCEPT !.batch = b] EXCEPT !.ok = v])
  BY <1>2, FitFree
<1> QED BY <1>3 DEF AddToBatch, b, Fit, SchedulerFields

\* So does a request that is taken from a queue.
LEMMA FitTakes ==
  ASSUME NEW k, NEW x, Fit(k, x)
  PROVE  /\ x.queue # <<>> => Fit(k, [x EXCEPT !.queue = Tail(@)]) /\ Head(x.queue) \in k.ids
         /\ x.preempted # <<>> => /\ Head(x.preempted) \in k.ids
                                  /\ Fit(k, [x EXCEPT !.preempted = Tail(@)])
                                  /\ Fit(k, [x EXCEPT !.cur = Head(x.preempted), !.preempted = Tail(@)])
                                  /\ Fit(k, [x EXCEPT !.prefills  = Append(@, Head(x.preempted)),
                                                      !.preempted = Tail(@)])
         /\ Fit(k, [x EXCEPT !.cur = 0])
BY DEF Fit, SchedulerFields

\* So does a queue of known requests in the place of another.
LEMMA FitSets ==
  ASSUME NEW k, NEW x, Fit(k, x), NEW q \in Seq(k.ids)
  PROVE  /\ Fit(k, [x EXCEPT !.queue = q]) /\ Fit(k, [x EXCEPT !.preempted = q])
         /\ Fit(k, [x EXCEPT !.prefills = q])
BY DEF Fit, SchedulerFields

\* So does a known request at the end of a queue.
LEMMA FitAppends ==
  ASSUME NEW k, NEW x, Fit(k, x), NEW id \in k.ids
  PROVE  /\ Fit(k, [x EXCEPT !.preempted = Append(@, id)])
         /\ Fit(k, [x EXCEPT !.prefills = Append(@, id)])
BY DEF Fit, SchedulerFields

\* So does a preemption.
LEMMA FitPreempt ==
  ASSUME NEW k, NEW x, Fit(k, x), NEW id \in k.ids
  PROVE  Fit(k, Preempt(x, id))
<1> DEFINE y == Free([x EXCEPT !.req[id] = Restart(@)], id)
<1>1. Fit(k, [x EXCEPT !.req[id] = Restart(@)])
  BY DEF Fit, SchedulerFields
<1>2. Fit(k, y)
  BY <1>1, FitFree
<1> HIDE DEF y
<1>3. <<id>> \o y.queue \in Seq(k.ids)
  <2>1. y.queue \in Seq(k.ids)
    BY <1>2 DEF Fit
  <2>2. <<id>> \in Seq(k.ids)
    BY OneIn
  <2> QED BY <2>1, <2>2, ConcatProperties
<1>4. Fit(k, [y EXCEPT !.queue = <<id>> \o y.queue])
  BY <1>2, <1>3, FitSets
<1> QED BY <1>4 DEF Preempt, y

\* So does the search for room, which preempts the newest, or the request itself.
LEMMA FitMakeRoom ==
  ASSUME NEW k, NEW x, Fit(k, x), x.cur # 0
  PROVE  Fit(k, MakeRoom(x))
<1>1. CASE x.preempted # <<>>
  <2>1. Front(x.preempted) \in Seq(k.ids) /\ Last(x.preempted) \in k.ids
    <3> DEFINE q == x.preempted
    <3>1. q \in Seq(k.ids) /\ q # <<>>
      BY <1>1 DEF Fit
    <3> HIDE DEF q
    <3>2. Len(q) \in Nat \ {0} /\ \A i \in 1 .. Len(q) : q[i] \in k.ids
      BY <3>1
    <3>3. SubSeq(q, 1, Len(q) - 1) \in Seq(k.ids)
      <4>1. 1 \in Int /\ Len(q) - 1 \in Int /\ \A i \in 1 .. Len(q) - 1 : q[i] \in k.ids
        BY <3>2
      <4> QED BY <4>1, SubSeqProperties
    <3> QED BY <3>2, <3>3 DEF Front, Last, q
  <2>2. Fit(k, [x EXCEPT !.preempted = Front(@)])
    BY <2>1, FitSets
  <2> QED BY <1>1, <2>1, <2>2, FitPreempt DEF MakeRoom
<1>2. CASE x.preempted = <<>>
  <2>1. Fit(k, [x EXCEPT !.cur = 0]) /\ x.cur \in k.ids
    BY FitTakes DEF Fit
  <2> QED BY <1>2, <2>1, FitPreempt DEF MakeRoom
<1> QED BY <1>1, <1>2

VLLMPrompt == INSTANCE LoopTheorems WITH
  Turn <- LAMBDA c, x, i : VLLMPromptTurn(c, x), Keeps <- Fit
VLLMDecode == INSTANCE LoopTheorems WITH
  Turn <- LAMBDA c, x, i : VLLMDecodeTurn(c, x), Keeps <- Fit

\* The lengths of the queues are natural numbers.
LEMMA Lens ==
  ASSUME NEW k, NEW x, Fit(k, x)
  PROVE  /\ Len(x.queue) \in Nat /\ Len(x.preempted) \in Nat /\ 2 * Len(x.preempted) \in Nat
         /\ Len(x.prefills) \in Nat
BY DEF Fit

\* Blocks may be allocated: Fit says nothing of them.
LEMMA FitAllocateRequest ==
  ASSUME NEW k, NEW x, Fit(k, x), NEW c, NEW id
  PROVE  Fit(k, AllocateRequest(c, x, id))
BY FitFree DEF AllocateRequest

\* The prompts of a batch of vLLM leave the handler fit.
LEMMA VLLMPromptsFit ==
  ASSUME NEW k, NEW x, Fit(k, x), NEW c
  PROVE  Fit(k, VLLMPrompts(c, x))
<1>1. ASSUME NEW y, Fit(k, y)
      PROVE  Fit(k, VLLMPromptTurn(c, y))
  <2>1. CASE y.queue # <<>>
    <3> DEFINE z == [y EXCEPT !.queue = Tail(@)]
               id == Head(y.queue)
    <3>1. Fit(k, z) /\ id \in k.ids
      BY <1>1, <2>1, FitTakes
    <3> HIDE DEF z, id
    <3>2. \A n : Fit(k, AddToBatch(AllocateRequest(c, z, id), id, n))
      BY <3>1, FitAllocateRequest, FitAdd
    <3> QED BY ZenonT(60), <3>2, <1>1 DEF VLLMPromptTurn, z, id
  <2>2. CASE y.queue = <<>>
    BY <2>2, <1>1 DEF VLLMPromptTurn
  <2> QED BY <2>1, <2>2
<1> DEFINE turns == [i \in 1 .. Len(x.queue) |-> i]
<1>2. Fit(k, VLLMPrompt!ForEach(LAMBDA d, y, i : VLLMPromptTurn(d, y), c, x, turns))
  BY <1>1, Lens, VLLMPrompt!ForEachKeeps
<1> QED
  BY <1>2 DEF VLLMPrompts, Repeat, ForEach, FoldLeft, MapThenFoldSet, Bind, Max,
    VLLMPrompt!ForEach, VLLMPrompt!FoldLeft, VLLMPrompt!MapThenFoldSet, VLLMPrompt!Bind, VLLMPrompt!Max

\* So do its decodes.
LEMMA VLLMDecodesFit ==
  ASSUME NEW k, NEW x, Fit(k, x), NEW c, c.arrivedAt \in Seq(Nat)
  PROVE  Fit(k, VLLMDecodes(c, x))
<1>1. ASSUME NEW y, Fit(k, y)
      PROVE  Fit(k, VLLMDecodeTurn(c, y))
  <2>1. CASE y.cur = 0
    BY <2>1, <1>1, FitTakes DEF VLLMDecodeTurn
  <2>2. CASE y.cur # 0 /\ ~CanAllocateRequest(c, y, y.cur)
    BY <2>2, <1>1, FitMakeRoom DEF VLLMDecodeTurn
  <2>3. CASE y.cur # 0 /\ CanAllocateRequest(c, y, y.cur)
    <3>1. y.cur \in k.ids
      BY <1>1, <2>3 DEF Fit
    <3>2. \A n : Fit(k, AddToBatch(AllocateRequest(c, y, y.cur), y.cur, n))
      BY Z3, <1>1, <3>1, FitAllocateRequest, FitAdd
    <3>3. \A n : Fit(k, [AddToBatch(AllocateRequest(c, y, y.cur), y.cur, n) EXCEPT !.cur = 0])
      BY <3>2, FitTakes
    <3> QED BY <2>3, <3>3 DEF VLLMDecodeTurn
  <2> QED BY Z3, <2>1, <2>2, <2>3
<1> DEFINE turns == [i \in 1 .. 2 * Len(x.preempted) |-> i]
           y == [x EXCEPT !.preempted = SortByArrival(c, @)]
<1>2. Fit(k, y)
  BY SortTyped, FitSets DEF Fit
<1>3. Fit(k, VLLMDecode!ForEach(LAMBDA d, z, i : VLLMDecodeTurn(d, z), c, y, turns))
  BY <1>1, <1>2, Lens, VLLMDecode!ForEachKeeps
<1> QED
  BY <1>3 DEF VLLMDecodes, Repeat, ForEach, FoldLeft, MapThenFoldSet, Bind, Max,
    VLLMDecode!ForEach, VLLMDecode!FoldLeft, VLLMDecode!MapThenFoldSet, VLLMDecode!Bind, VLLMDecode!Max

\* So does the whole batch.
LEMMA VLLMFit ==
  ASSUME NEW k, NEW x, Fit(k, x), NEW c, c.arrivedAt \in Seq(Nat)
  PROVE  Fit(k, VLLMNextBatch(c, x))
<1> DEFINE p == VLLMPrompts(c, x)
<1>1. VLLMNextBatch(c, x) = IF p.batch # <<>> THEN p ELSE VLLMDecodes(c, p)
  BY DEF VLLMNextBatch, Bind
<1>2. Fit(k, p)
  BY VLLMPromptsFit
<1> HIDE DEF p
<1>3. Fit(k, VLLMDecodes(c, p))
  BY <1>2, VLLMDecodesFit
<1> QED BY <1>1, <1>2, <1>3

SarathiDecode == INSTANCE LoopTheorems WITH
  Turn <- LAMBDA c, x, i : SarathiDecodeTurn(c, x), Keeps <- Fit
SarathiPrompt == INSTANCE LoopTheorems WITH
  Turn <- LAMBDA c, x, i : SarathiPromptTurn(c, x), Keeps <- Fit
OrcaResume == INSTANCE LoopTheorems WITH
  Turn <- LAMBDA c, x, i : ResumeTurn(c, x), Keeps <- Fit
OrcaReserve == INSTANCE LoopTheorems WITH
  Turn <- LAMBDA c, x, i : ReserveTurn(c, x), Keeps <- Fit
SplitwiseLoop == INSTANCE LoopTheorems WITH
  Turn <- LAMBDA c, x, i : SplitwiseTurn(c, x), Keeps <- Fit
LightLLMPrompt == INSTANCE LoopTheorems WITH
  Turn <- LAMBDA c, x, i : LightLLMPromptTurn(c, x), Keeps <- Fit
SarathiRunning == INSTANCE LoopTheorems WITH
  Turn <- RunningPrefillTurn, Keeps <- Fit
HeldLoop == INSTANCE LoopTheorems WITH
  Turn <- ResumeHeldTurn, Keeps <- Fit
LightLLMDecode == INSTANCE LoopTheorems WITH
  Turn <- LightLLMDecodeTurn, Keeps <- Fit
IterationEndLoop == INSTANCE LoopTheorems WITH
  Turn <- IterationEndTurn, Keeps <- Fit
FreeLoop == INSTANCE LoopTheorems WITH
  Turn <- FreeTurn, Keeps <- Fit
SplitwiseEndLoop == INSTANCE LoopTheorems WITH
  Turn <- SplitwiseEndTurn, Keeps <- Fit

\* A request moves from the queue to the batch, and is given blocks.
LEMMA FitAdmits ==
  ASSUME NEW k, NEW x, Fit(k, x), x.queue # <<>>, NEW c
  PROVE  LET id == Head(x.queue)
             y  == [x EXCEPT !.queue = Tail(@)]
         IN  \A n, m : /\ Fit(k, AddToBatch(AllocateRequest(c, y, id), id, n))
                       /\ Fit(k, AddToBatch(Allocate(c, y, id, m), id, n))
<1> DEFINE z == [x EXCEPT !.queue = Tail(@)]
           id == Head(x.queue)
<1>1. Fit(k, z) /\ id \in k.ids
  BY Zenon, FitTakes
<1> HIDE DEF z, id
<1>2. \A n, m : /\ Fit(k, AddToBatch(AllocateRequest(c, z, id), id, n))
                /\ Fit(k, AddToBatch(Allocate(c, z, id, m), id, n))
  BY <1>1, FitAllocateRequest, FitFree, FitAdd
<1> QED BY Z3, <1>2 DEF z, id

\* The decodes of a batch of Sarathi leave the handler fit.
LEMMA SarathiDecodesFit ==
  ASSUME NEW k, NEW x, Fit(k, x), NEW c
  PROVE  Fit(k, Repeat(SarathiDecodeTurn, c, x, 2 * Len(x.preempted)))
<1>1. ASSUME NEW y, Fit(k, y)
      PROVE  Fit(k, SarathiDecodeTurn(c, y))
  <2>1. CASE y.cur = 0
    BY Zenon, <2>1, <1>1, FitTakes DEF SarathiDecodeTurn
  <2>2. CASE y.cur # 0 /\ ~CanAllocateRequest(c, y, y.cur)
    BY <2>2, <1>1, FitMakeRoom DEF SarathiDecodeTurn
  <2>3. CASE y.cur # 0 /\ CanAllocateRequest(c, y, y.cur)
    <3>1. y.cur \in k.ids
      BY <1>1, <2>3 DEF Fit
    <3>2. Fit(k, AddToBatch(AllocateRequest(c, y, y.cur), y.cur, 1))
      BY <1>1, <3>1, FitAllocateRequest, FitAdd
    <3>3. Fit(k, [AddToBatch(AllocateRequest(c, y, y.cur), y.cur, 1) EXCEPT !.cur = 0])
      BY Zenon, <3>2, FitTakes
    <3> QED BY <2>3, <3>3 DEF SarathiDecodeTurn
  <2> QED BY <2>1, <2>2, <2>3
<1> DEFINE turns == [i \in 1 .. 2 * Len(x.preempted) |-> i]
<1>2. Fit(k, SarathiDecode!ForEach(LAMBDA d, z, i : SarathiDecodeTurn(d, z), c, x, turns))
  BY <1>1, Lens, SarathiDecode!ForEachKeeps
<1> QED
  BY <1>2 DEF Repeat, ForEach, FoldLeft, MapThenFoldSet, Bind, Max,
    SarathiDecode!ForEach, SarathiDecode!FoldLeft, SarathiDecode!MapThenFoldSet, SarathiDecode!Bind, SarathiDecode!Max

\* So do the prompts that go on.
LEMMA RunningPrefillsFit ==
  ASSUME NEW k, NEW x, Fit(k, x), NEW c, c.arrivedAt \in Seq(Nat)
  PROVE  Fit(k, RunningPrefills(c, x))
<1> DEFINE z == [x EXCEPT !.prefills = <<>>]
           w == ForEach(RunningPrefillTurn, c, z, x.prefills)
<1>1. ASSUME NEW y, Fit(k, y), NEW id \in k.ids
      PROVE  Fit(k, RunningPrefillTurn(c, y, id))
  <2>1. \A n : Fit(k, AddToBatch(y, id, n))
    BY <1>1, FitAdd
  <2>2. Fit(k, [y EXCEPT !.prefills = Append(@, id)])
    BY <1>1, FitAppends
  <2> QED BY <2>1, <2>2 DEF RunningPrefillTurn
<1>2. /\ DOMAIN x.prefills = 1 .. Len(x.prefills) /\ Len(x.prefills) \in Nat
      /\ \A i \in 1 .. Len(x.prefills) : x.prefills[i] \in k.ids
  BY DEF Fit
<1>3. Fit(k, z)
  <2>1. <<>> \in Seq(k.ids)
    BY EmptySeq
  <2> QED BY <2>1, FitSets
<1>4. Fit(k, SarathiRunning!ForEach(RunningPrefillTurn, c, z, x.prefills))
  <2> HIDE DEF z
  <2> QED BY <1>1, <1>2, <1>3, SarathiRunning!ForEachKeeps
<1>5. Fit(k, w)
  BY <1>4 DEF RunningPrefills, ForEach, FoldLeft, MapThenFoldSet, Bind, Max,
    SarathiRunning!ForEach, SarathiRunning!FoldLeft, SarathiRunning!MapThenFoldSet, SarathiRunning!Bind, SarathiRunning!Max
<1> HIDE DEF w
<1>6. w.prefills \o w.preempted \in Seq(k.ids)
  <2>1. w.prefills \in Seq(k.ids) /\ w.preempted \in Seq(k.ids)
    BY <1>5 DEF Fit
  <2> QED BY <2>1, ConcatProperties
<1> DEFINE q == SortByArrival(c, w.prefills \o w.preempted)
<1>7. q \in Seq(k.ids)
  BY <1>6, SortTyped
<1> HIDE DEF q
<1>8. Fit(k, [w EXCEPT !.preempted = q, !.prefills = <<>>])
  BY <1>5, <1>7 DEF Fit, SchedulerFields
<1>9. RunningPrefills(c, x) = [w EXCEPT !.preempted = q, !.prefills = <<>>]
  BY DEF RunningPrefills, Bind, w, q
<1> QED BY <1>8, <1>9

\* So do the prompts that begin.
LEMMA SarathiPromptsFit ==
  ASSUME NEW k, NEW x, Fit(k, x), NEW c
  PROVE  Fit(k, Repeat(SarathiPromptTurn, c, x, Len(x.queue)))
<1>1. ASSUME NEW y, Fit(k, y)
      PROVE  Fit(k, SarathiPromptTurn(c, y))
  <2>1. CASE y.queue # <<>>
    BY <2>1, <1>1, FitAdmits DEF SarathiPromptTurn
  <2>2. CASE y.queue = <<>>
    BY <2>2, <1>1 DEF SarathiPromptTurn
  <2> QED BY <2>1, <2>2
<1> DEFINE turns == [i \in 1 .. Len(x.queue) |-> i]
<1>2. Fit(k, SarathiPrompt!ForEach(LAMBDA d, y, i : SarathiPromptTurn(d, y), c, x, turns))
  BY <1>1, Lens, SarathiPrompt!ForEachKeeps
<1> QED
  BY <1>2 DEF Repeat, ForEach, FoldLeft, MapThenFoldSet, Bind, Max,
    SarathiPrompt!ForEach, SarathiPrompt!FoldLeft, SarathiPrompt!MapThenFoldSet, SarathiPrompt!Bind, SarathiPrompt!Max

\* So does the whole batch.
LEMMA SarathiFit ==
  ASSUME NEW k, NEW x, Fit(k, x), NEW c, c.arrivedAt \in Seq(Nat)
  PROVE  Fit(k, SarathiNextBatch(c, x))
<1> DEFINE d == Repeat(SarathiDecodeTurn, c, x, 2 * Len(x.preempted))
           r == RunningPrefills(c, d)
<1>1. SarathiNextBatch(c, x) = Repeat(SarathiPromptTurn, c, r, Len(r.queue))
  <2>1. Bind(LAMBDA y : RunningPrefills(c, y), d) = r
    BY DEF Bind
  <2> QED BY <2>1 DEF SarathiNextBatch, Bind
<1>2. Fit(k, d)
  BY SarathiDecodesFit
<1> HIDE DEF d
<1>3. Fit(k, r)
  BY <1>2, RunningPrefillsFit
<1> HIDE DEF r
<1>4. Fit(k, Repeat(SarathiPromptTurn, c, r, Len(r.queue)))
  BY <1>3, SarathiPromptsFit
<1> QED BY <1>1, <1>4

\* What is picked from a batch is a batch.
LEMMA PickedBatch ==
  ASSUME NEW ids, NEW b, IsBatch(ids, b), NEW S
  PROVE  IsBatch(ids, Picked(S, b))
<1> DEFINE V == {b[i] : i \in DOMAIN b \cap S}
<1>1. Picked(S, b) \in Seq(V)
  BY PickedIn DEF IsBatch
<1>2. \A e \in V : e.id \in ids
  BY DEF IsBatch
<1> HIDE DEF V
<1> QED BY <1>1, <1>2 DEF IsBatch, IsSeq

\* The requests that Orca resumes leave the handler fit.
LEMMA ResumeFit ==
  ASSUME NEW k, NEW x, Fit(k, x), NEW c
  PROVE  Fit(k, Resume(c, x))
<1>1. ASSUME NEW y, Fit(k, y)
      PROVE  Fit(k, ResumeTurn(c, y))
  <2>1. CASE y.preempted # <<>>
    <3> DEFINE z == [y EXCEPT !.preempted = Tail(@)]
               id == Head(y.preempted)
    <3>1. Fit(k, z) /\ id \in k.ids
      BY Zenon, <1>1, <2>1, FitTakes
    <3> HIDE DEF z, id
    <3>2. \A n : Fit(k, AddToBatch(z, id, n))
      BY <3>1, FitAdd
    <3> QED BY ZenonT(60), <3>2, <1>1 DEF ResumeTurn, z, id
  <2>2. CASE y.preempted = <<>>
    BY <2>2, <1>1 DEF ResumeTurn
  <2> QED BY <2>1, <2>2
<1> DEFINE turns == [i \in 1 .. Len(x.preempted) |-> i]
<1>2. Fit(k, OrcaResume!ForEach(LAMBDA d, y, i : ResumeTurn(d, y), c, x, turns))
  BY <1>1, Lens, OrcaResume!ForEachKeeps
<1> QED
  BY <1>2 DEF Resume, Repeat, ForEach, FoldLeft, MapThenFoldSet, Bind, Max,
    OrcaResume!ForEach, OrcaResume!FoldLeft, OrcaResume!MapThenFoldSet, OrcaResume!Bind, OrcaResume!Max

\* So do those for which it reserves blocks.
LEMMA ReserveFit ==
  ASSUME NEW k, NEW x, Fit(k, x), NEW c
  PROVE  Fit(k, Reserve(c, x))
<1>1. ASSUME NEW y, Fit(k, y)
      PROVE  Fit(k, ReserveTurn(c, y))
  <2>1. CASE y.queue # <<>>
    BY <2>1, <1>1, FitAdmits DEF ReserveTurn
  <2>2. CASE y.queue = <<>>
    <3>1. ReserveTurn(c, y) = y
      BY Zenon, <2>2 DEF ReserveTurn
    <3> QED BY <3>1, <1>1
  <2> QED BY <2>1, <2>2
<1> DEFINE turns == [i \in 1 .. Len(x.queue) |-> i]
<1>2. Fit(k, OrcaReserve!ForEach(LAMBDA d, y, i : ReserveTurn(d, y), c, x, turns))
  BY <1>1, Lens, OrcaReserve!ForEachKeeps
<1> QED
  BY <1>2 DEF Reserve, Repeat, ForEach, FoldLeft, MapThenFoldSet, Bind, Max,
    OrcaReserve!ForEach, OrcaReserve!FoldLeft, OrcaReserve!MapThenFoldSet, OrcaReserve!Bind, OrcaReserve!Max

\* So does the whole batch.
LEMMA OrcaFit ==
  ASSUME NEW k, NEW x, Fit(k, x), NEW c
  PROVE  Fit(k, OrcaNextBatch(c, x))
<1> DEFINE y == Resume(c, x)
<1>1. OrcaNextBatch(c, x) = Reserve(c, y)
  BY DEF OrcaNextBatch, Bind
<1>2. Fit(k, y)
  BY ResumeFit
<1> HIDE DEF y
<1> QED BY <1>1, <1>2, ReserveFit

\* A batch of FasterTransformer leaves the handler fit.
LEMMA FasterTransformerFit ==
  ASSUME NEW k, NEW x, Fit(k, x), NEW c
  PROVE  Fit(k, FasterTransformerNextBatch(c, x))
<1>1. CASE x.held = <<>>
  BY <1>1, ReserveFit DEF FasterTransformerNextBatch
<1>2. CASE x.held # <<>>
  <2> DEFINE batch == Head(x.held)
             live  == {i \in DOMAIN batch : ~x.req[batch[i].id].completed}
             b     == Picked(live, batch)
             z     == [x EXCEPT !.held = Tail(@)]
  <2>1. Fit(k, z) /\ IsBatch(k.ids, batch)
    <3>1. PICK S : x.held \in Seq(S)
      BY DEF Fit, IsSeq
    <3>2. \A i \in DOMAIN x.held : IsBatch(k.ids, x.held[i])
      BY DEF Fit
    <3> DEFINE h == x.held
    <3>3. h \in Seq(S) /\ h # <<>>
      BY <1>2, <3>1
    <3> HIDE DEF h
    <3>4. /\ Tail(h) \in Seq(S) /\ 1 \in DOMAIN h /\ Head(h) = h[1]
          /\ \A i \in DOMAIN Tail(h) : i + 1 \in DOMAIN h /\ Tail(h)[i] = h[i + 1]
      BY <3>3
    <3>5. IsBatch(k.ids, Head(h)) /\ \A i \in DOMAIN Tail(h) : IsBatch(k.ids, Tail(h)[i])
      BY <3>2, <3>4 DEF h
    <3>6. IsSeq(Tail(h))
      BY <3>4 DEF IsSeq
    <3>7. Fit(k, [x EXCEPT !.held = Tail(h)])
      BY <3>5, <3>6 DEF Fit, SchedulerFields
    <3> QED BY <3>5, <3>7 DEF h
  <2>2. IsBatch(k.ids, b)
    BY <2>1, PickedBatch
  <2>3. FasterTransformerNextBatch(c, x) = ForEach(ResumeHeldTurn, c, z, b)
    BY <1>2 DEF FasterTransformerNextBatch
  <2> HIDE DEF z, b
  <2>4. DOMAIN b = 1 .. Len(b) /\ Len(b) \in Nat
    BY <2>2, SeqShape DEF IsBatch
  <2>5. ASSUME NEW y, Fit(k, y), NEW i \in 1 .. Len(b)
        PROVE  Fit(k, ResumeHeldTurn(c, y, b[i]))
    <3>1. b[i].id \in k.ids
      BY <2>2, <2>4 DEF IsBatch
    <3> QED BY <3>1, <2>5, FitAdd DEF ResumeHeldTurn
  <2>6. Fit(k, HeldLoop!ForEach(ResumeHeldTurn, c, z, b))
    BY <2>1, <2>4, <2>5, HeldLoop!ForEachKeeps
  <2> QED
    BY <2>3, <2>6 DEF ForEach, FoldLeft, MapThenFoldSet, Bind, Max,
    HeldLoop!ForEach, HeldLoop!FoldLeft, HeldLoop!MapThenFoldSet, HeldLoop!Bind, HeldLoop!Max
<1> QED BY <1>1, <1>2

\* What is left of a queue without one of its elements.
LEMMA RemoveTyped ==
  ASSUME NEW S, NEW s \in Seq(S), NEW e
  PROVE  RemoveFirst(s, e) \in Seq(S)
<1> DEFINE I == {i \in 1 .. Len(s) : s[i] = e}
           j == SelectInSeq(s, LAMBDA v : v = e)
<1>1. CASE I # {}
  <2>1. j = Min(I)
    BY <1>1 DEF SelectInSeq
  <2>2. Min(I) \in I
    <3>1. \A i \in I : i \in 0 .. Len(s)
      OBVIOUS
    <3>2. Len(s) \in Nat
      OBVIOUS
    <3> HIDE DEF I
    <3>3. \E m \in I : \A i \in I : m <= i
      BY <1>1, <3>1, <3>2, LeastNatural
    <3> QED BY <3>3 DEF Min
  <2>3. j \in 1 .. Len(s)
    BY <2>1, <2>2
  <2> HIDE DEF j
  <2>4. SubSeq(s, 1, j - 1) \in Seq(S) /\ SubSeq(s, j + 1, Len(s)) \in Seq(S)
    BY <2>3, SubSeqProperties
  <2>5. RemoveAt(s, j) \in Seq(S)
    BY <2>4, ConcatProperties DEF RemoveAt
  <2> QED BY <1>1, <2>5 DEF RemoveFirst, j
<1>2. CASE I = {}
  BY <1>2 DEF RemoveFirst
<1> QED BY <1>1, <1>2

\* So does one of Splitwise, on replicas for prompts and for decodes.
LEMMA SplitwiseFit ==
  ASSUME NEW k, NEW x, Fit(k, x), NEW c, NEW prefills
  PROVE  Fit(k, SplitwiseNextBatch(c, prefills, x))
<1>1. ASSUME NEW p, NEW y, Fit(k, y)
      PROVE  Fit(k, SplitwiseTurn(p, y))
  <2> DEFINE takes == Takes(y, p.prefills)
             id == Head(takes)
  <2>1. CASE takes # <<>>
    <3>1. takes \in Seq(k.ids)
      BY <1>1, PickedTyped DEF Takes, Fit
    <3>2. id \in k.ids
      BY <3>1, <2>1
    <3> HIDE DEF takes, id
    <3> DEFINE q == RemoveFirst(y.queue, id)
    <3>3. q \in Seq(k.ids)
      BY <1>1, RemoveTyped DEF Fit
    <3>4. Fit(k, [y EXCEPT !.queue = q])
      BY <1>1, <3>3, FitSets
    <3> HIDE DEF q
    <3> DEFINE z(n) == Allocate(p.config, [y EXCEPT !.queue = q], id, n)
    <3>5. \A n : Fit(k, z(n))
      BY <3>4, FitFree
    <3> HIDE DEF z
    <3>6. \A n, v : Fit(k, [z(n) EXCEPT !.kv = v])
      BY <3>5, FitFree
    <3>7. \A n, v, m : Fit(k, AddToBatch([z(n) EXCEPT !.kv = v], id, m))
      BY <3>2, <3>6, FitAdd
    <3> QED BY <3>7, <1>1 DEF SplitwiseTurn, takes, id, q, z
  <2>2. CASE takes = <<>>
    BY <2>2, <1>1 DEF SplitwiseTurn
  <2> QED BY <2>1, <2>2
<1> DEFINE r == Resume(c, x)
           p == [config |-> c, prefills |-> prefills, resumed |-> Len(r.batch)]
           turns == [i \in 1 .. Len(r.queue) |-> i]
<1>2. Fit(k, r)
  BY ResumeFit
<1>3. SplitwiseNextBatch(c, prefills, x) = Repeat(SplitwiseTurn, p, r, Len(r.queue))
  BY DEF SplitwiseNextBatch, Bind
<1> HIDE DEF r, p
<1>4. Fit(k, SplitwiseLoop!ForEach(LAMBDA d, y, i : SplitwiseTurn(d, y), p, r, turns))
  BY <1>1, <1>2, Lens, SplitwiseLoop!ForEachKeeps
<1> QED
  BY <1>3, <1>4 DEF Repeat, ForEach, FoldLeft, MapThenFoldSet, Bind, Max,
    SplitwiseLoop!ForEach, SplitwiseLoop!FoldLeft, SplitwiseLoop!MapThenFoldSet, SplitwiseLoop!Bind, SplitwiseLoop!Max

\* The prompts of LightLLM leave the handler fit.
LEMMA LightLLMPromptsFit ==
  ASSUME NEW k, NEW x, Fit(k, x), NEW c
  PROVE  Fit(k, PrefillBatch(c, x))
<1>1. ASSUME NEW y, Fit(k, y)
      PROVE  Fit(k, LightLLMPromptTurn(c, y))
  <2>1. CASE y.queue # <<>>
    BY <2>1, <1>1, FitAdmits DEF LightLLMPromptTurn, LightLLMAllocate
  <2>2. CASE y.queue = <<>>
    <3>1. LightLLMPromptTurn(c, y) = y
      BY Zenon, <2>2 DEF LightLLMPromptTurn
    <3> QED BY <3>1, <1>1
  <2> QED BY <2>1, <2>2
<1> DEFINE turns == [i \in 1 .. Len(x.queue) |-> i]
<1>2. Fit(k, LightLLMPrompt!ForEach(LAMBDA d, y, i : LightLLMPromptTurn(d, y), c, x, turns))
  BY <1>1, Lens, LightLLMPrompt!ForEachKeeps
<1> QED
  BY <1>2 DEF PrefillBatch, Repeat, ForEach, FoldLeft, MapThenFoldSet, Bind, Max,
    LightLLMPrompt!ForEach, LightLLMPrompt!FoldLeft, LightLLMPrompt!MapThenFoldSet, LightLLMPrompt!Bind, LightLLMPrompt!Max

\* So do its decodes.
LEMMA LightLLMDecodesFit ==
  ASSUME NEW k, NEW x, Fit(k, x), NEW c
  PROVE  Fit(k, DecodeBatch(c, x))
<1> DEFINE z == [x EXCEPT !.preempted = <<>>]
           q == x.preempted
<1>1. ASSUME NEW y, Fit(k, y), NEW id \in k.ids
      PROVE  Fit(k, LightLLMDecodeTurn(c, y, id))
  <2>1. \A v : Fit(k, [y EXCEPT !.ok = v])
    BY <1>1, FitFree
  <2>2. \A v, n, m : Fit(k, AddToBatch(Allocate(c, [y EXCEPT !.ok = v], id, m), id, n))
    BY <1>1, <2>1, FitFree, FitAdd
  <2> QED BY <2>2 DEF LightLLMDecodeTurn, LightLLMAllocate
<1>2. DOMAIN q = 1 .. Len(q) /\ Len(q) \in Nat /\ \A i \in 1 .. Len(q) : q[i] \in k.ids
  BY DEF Fit
<1>3. Fit(k, z)
  <2>1. <<>> \in Seq(k.ids)
    BY EmptySeq
  <2> QED BY <2>1, FitSets
<1>4. Fit(k, LightLLMDecode!ForEach(LightLLMDecodeTurn, c, z, q))
  <2> HIDE DEF z, q
  <2> QED BY <1>1, <1>2, <1>3, LightLLMDecode!ForEachKeeps
<1> QED
  BY <1>4 DEF DecodeBatch, ForEach, FoldLeft, MapThenFoldSet, Bind, Max,
    LightLLMDecode!ForEach, LightLLMDecode!FoldLeft, LightLLMDecode!MapThenFoldSet, LightLLMDecode!Bind, LightLLMDecode!Max

\* So does its batch.
LEMMA LightLLMFit ==
  ASSUME NEW k, NEW x, Fit(k, x), NEW c
  PROVE  Fit(k, LightLLMNextBatch(c, x))
<1> DEFINE p == PrefillBatch(c, [x EXCEPT !.waiting = 0])
           D(y) == IF CanAllocate(c, y, Len(y.preempted))
                   THEN DecodeBatch(c, [y EXCEPT !.waiting = @ + 1])
                   ELSE [y EXCEPT !.ok = FALSE]
<1>1. Fit(k, p)
  BY FitFree, LightLLMPromptsFit
<1>2. \A y : Fit(k, y) => Fit(k, D(y))
  BY FitFree, LightLLMDecodesFit
<1>3. \/ LightLLMNextBatch(c, x) = IF p.batch # <<>> THEN p ELSE x
      \/ LightLLMNextBatch(c, x) = IF p.batch # <<>> THEN p ELSE D(p)
      \/ LightLLMNextBatch(c, x) = D(x)
  <2> HIDE DEF p, D
  <2>1. CASE x.preempted = <<>>
    BY <2>1 DEF LightLLMNextBatch, Bind, p, D
  <2>2. CASE x.preempted # <<>> /\ x.waiting >= c.maxWait
    BY <2>2 DEF LightLLMNextBatch, Bind, p, D
  <2>3. CASE x.preempted # <<>> /\ ~(x.waiting >= c.maxWait)
    BY <2>3 DEF LightLLMNextBatch, Bind, p, D
  <2> QED BY <2>1, <2>2, <2>3
<1> HIDE DEF p, D
<1> QED BY <1>1, <1>2, <1>3

\* A loop over a finished batch, in the schedulers without one of their own.
LEMMA IterationEndFit ==
  ASSUME NEW ids, NEW n \in Int, NEW x, Fit(Load(ids, n), x), NEW c,
         NEW b, IsBatch(ids, b)
  PROVE  Fit(Load(ids, n - 1), IterationEnd(c, x, b))
<1> DEFINE k == Load(ids, n - 1)
           z == [x EXCEPT !.running = @ - 1]
<1>1. k.ids = ids /\ k.running = n - 1
  BY DEF Load
<1>2. Fit(k, z)
  BY DEF Fit, SchedulerFields, Load
<1>3. DOMAIN b = 1 .. Len(b) /\ Len(b) \in Nat
  BY SeqShape DEF IsBatch
<1> HIDE DEF k, z
<1>4. ASSUME NEW y, Fit(k, y), NEW i \in 1 .. Len(b)
      PROVE  Fit(k, IterationEndTurn(c, y, b[i]))
  <2>1. b[i].id \in k.ids
    BY <1>1, <1>3 DEF IsBatch
  <2> QED BY <2>1, <1>4, FitFree, FitAppends DEF IterationEndTurn
<1>5. Fit(k, IterationEndLoop!ForEach(IterationEndTurn, c, z, b))
  BY <1>2, <1>3, <1>4, IterationEndLoop!ForEachKeeps
<1> QED
  BY <1>5 DEF k, z, IterationEnd, ForEach, FoldLeft, MapThenFoldSet, Bind, Max,
    IterationEndLoop!ForEach, IterationEndLoop!FoldLeft, IterationEndLoop!MapThenFoldSet, IterationEndLoop!Bind, IterationEndLoop!Max

\* The end of a batch of FasterTransformer: one batch less, still fit.
LEMMA FasterTransformerEndFit ==
  ASSUME NEW ids, NEW n \in Int, NEW x, Fit(Load(ids, n), x), NEW c,
         NEW b, IsBatch(ids, b)
  PROVE  Fit(Load(ids, n - 1), FasterTransformerEnd(c, x, b))
<1> DEFINE k == Load(ids, n - 1)
           z == [x EXCEPT !.running = @ - 1]
<1>1. k.ids = ids /\ k.running = n - 1
  BY DEF Load
<1>2. Fit(k, z)
  BY DEF Fit, SchedulerFields, Load
<1>3. DOMAIN b = 1 .. Len(b) /\ Len(b) \in Nat
  BY SeqShape DEF IsBatch
<1> HIDE DEF k
<1>4. Fit(k, FreeLoop!ForEach(FreeTurn, c, z, b))
  <2>1. ASSUME NEW y, Fit(k, y), NEW i \in 1 .. Len(b)
        PROVE  Fit(k, FreeTurn(c, y, b[i]))
    BY <2>1, FitFree DEF FreeTurn
  <2> HIDE DEF z
  <2> QED BY <1>2, <1>3, <2>1, FreeLoop!ForEachKeeps
<1>5. Fit(k, ForEach(FreeTurn, c, z, b))
  BY <1>4 DEF ForEach, FoldLeft, MapThenFoldSet, Bind, Max,
    FreeLoop!ForEach, FreeLoop!FoldLeft, FreeLoop!MapThenFoldSet, FreeLoop!Bind, FreeLoop!Max
<1>6. Fit(k, [x EXCEPT !.running = @ - 1, !.held = Append(@, b)])
  <2> DEFINE h == Append(x.held, b)
  <2>1. IsSeq(h) /\ \A i \in DOMAIN h : IsBatch(ids, h[i])
    <3>1. IsSeq(x.held) /\ \A i \in DOMAIN x.held : IsBatch(ids, x.held[i])
      BY DEF Fit, Load
    <3>2. PICK S : x.held \in Seq(S)
      BY <3>1 DEF IsSeq
    <3>3. x.held \in Seq(S \cup {b})
      BY <3>2
    <3>4. /\ h \in Seq(S \cup {b})
          /\ \A i \in DOMAIN h : h[i] = b \/ (i \in DOMAIN x.held /\ h[i] = x.held[i])
      BY <3>3
    <3> HIDE DEF h
    <3> QED BY <3>1, <3>4 DEF IsSeq
  <2> HIDE DEF h
  <2>2. Fit(k, [z EXCEPT !.held = h])
    BY <2>1, <1>1, <1>2 DEF Fit, SchedulerFields
  <2> QED BY <2>2 DEF h, Fit, SchedulerFields
<1> QED BY <1>5, <1>6 DEF FasterTransformerEnd, k

\* The same of Splitwise.
LEMMA SplitwiseEndFit ==
  ASSUME NEW ids, NEW n \in Int, NEW x, Fit(Load(ids, n), x), NEW prefills,
         NEW b, IsBatch(ids, b)
  PROVE  Fit(Load(ids, n - 1), SplitwiseEnd(prefills, x, b))
<1> DEFINE k == Load(ids, n - 1)
           z == [x EXCEPT !.running = @ - 1]
<1>1. k.ids = ids /\ k.running = n - 1
  BY DEF Load
<1>2. Fit(k, z)
  BY DEF Fit, SchedulerFields, Load
<1>3. DOMAIN b = 1 .. Len(b) /\ Len(b) \in Nat
  BY SeqShape DEF IsBatch
<1> HIDE DEF k, z
<1>4. ASSUME NEW y, Fit(k, y), NEW i \in 1 .. Len(b)
      PROVE  Fit(k, SplitwiseEndTurn(prefills, y, b[i]))
  <2> DEFINE e == b[i]
             f == FreeWithKv(y, e.id)
  <2>1. e.id \in k.ids
    BY <1>1, <1>3 DEF IsBatch
  <2>2. Fit(k, f)
    BY <1>4, FitFree
  <2> HIDE DEF e, f
  <2>3. Fit(k, [f EXCEPT !.prefills = Append(@, e.id)])
    BY <2>1, <2>2, FitAppends
  <2>4. Fit(k, [y EXCEPT !.preempted = Append(@, e.id)])
    BY <2>1, <1>4, FitAppends
  <2>5. \/ SplitwiseEndTurn(prefills, y, e) = f
        \/ SplitwiseEndTurn(prefills, y, e) = [f EXCEPT !.prefills = Append(@, e.id)]
        \/ SplitwiseEndTurn(prefills, y, e) = [y EXCEPT !.preempted = Append(@, e.id)]
    BY DEF SplitwiseEndTurn, f
  <2>6. Fit(k, SplitwiseEndTurn(prefills, y, e))
    BY <2>2, <2>3, <2>4, <2>5
  <2> QED BY <2>6 DEF e
<1>5. Fit(k, SplitwiseEndLoop!ForEach(SplitwiseEndTurn, prefills, z, b))
  BY <1>2, <1>3, <1>4, SplitwiseEndLoop!ForEachKeeps
<1> QED
  BY <1>5 DEF k, z, SplitwiseEnd, ForEach, FoldLeft, MapThenFoldSet, Bind, Max,
    SplitwiseEndLoop!ForEach, SplitwiseEndLoop!FoldLeft, SplitwiseEndLoop!MapThenFoldSet, SplitwiseEndLoop!Bind, SplitwiseEndLoop!Max

\* The same of every scheduler: on_batch_end counts one batch down, once.
LEMMA SchedulerEndFit ==
  ASSUME NEW ids, NEW n \in Int, NEW x, Fit(Load(ids, n), x), NEW rep,
         NEW b, IsBatch(ids, b)
  PROVE  Fit(Load(ids, n - 1), SchedulerEnd(rep, x, b))
<1>1. CASE cfg.kind = "faster_transformer"
  BY <1>1, FasterTransformerEndFit DEF SchedulerEnd, Splitwise
<1>2. CASE cfg.kind = "splitwise"
  BY <1>2, SplitwiseEndFit DEF SchedulerEnd, Splitwise
<1>3. CASE cfg.kind # "faster_transformer" /\ cfg.kind # "splitwise"
  BY <1>3, IterationEndFit DEF SchedulerEnd, Splitwise
<1> QED BY <1>1, <1>2, <1>3

\* Every scheduler makes its batch of known requests, and leaves the count
\* of running batches alone.
LEMMA NextBatchFit ==
  ASSUME NEW k, NEW x, Fit(k, x), NEW rep, cfg.kind \in Kinds, cfg.arrivedAt \in Seq(Nat)
  PROVE  Fit(k, NextBatch(rep, x))
<1>1. CASE cfg.kind = "vllm"
  BY <1>1, VLLMFit DEF NextBatch, Splitwise
<1>2. CASE cfg.kind = "sarathi"
  BY <1>2, SarathiFit DEF NextBatch, Splitwise
<1>3. CASE cfg.kind = "orca"
  BY <1>3, OrcaFit DEF NextBatch, Splitwise
<1>4. CASE cfg.kind = "faster_transformer"
  BY <1>4, FasterTransformerFit DEF NextBatch, Splitwise
<1>5. CASE cfg.kind = "lightllm"
  BY <1>5, LightLLMFit DEF NextBatch, Splitwise
<1>6. CASE cfg.kind = "splitwise"
  BY <1>6, SplitwiseFit DEF NextBatch, Splitwise
<1> QED BY <1>1, <1>2, <1>3, <1>4, <1>5, <1>6 DEF Kinds

\* on_schedule under way: the batches made since the pipeline held k.running.
Filling(k, z) ==
  /\ {"x", "made", "stop"} \subseteq DOMAIN z
  /\ IsSeq(z.made) /\ \A i \in DOMAIN z.made : IsBatch(k.ids, z.made[i])
  /\ k.running + Len(z.made) <= cfg.stages
  /\ Fit(Load(k.ids, k.running + Len(z.made)), z.x)

FillLoop == INSTANCE LoopTheorems WITH
  Turn <- LAMBDA rep, z, i : FillTurn(rep, z), Keeps <- Filling

\* The loop of on_schedule makes no more batches than there are free stages,
\* and counts each of them.
LEMMA FillPipelineFit ==
  ASSUME NEW ids, NEW n \in Nat, NEW x, Fit(Load(ids, n), x), NEW rep, n <= cfg.stages,
         cfg.kind \in Kinds, cfg.arrivedAt \in Seq(Nat), cfg.stages \in Nat
  PROVE  Filling(Load(ids, n), FillPipeline(rep, x))
<1> DEFINE k == Load(ids, n)
           start == [x |-> x, made |-> <<>>, stop |-> FALSE]
           turns == [i \in 1 .. cfg.stages |-> i]
<1>1. k.ids = ids /\ k.running = n
  BY DEF Load
<1> HIDE DEF k
<1>2. Filling(k, start)
  <2>1. Load(k.ids, k.running + 0) = Load(ids, n)
    BY <1>1
  <2>2. IsSeq(<<>>) /\ Len(<<>>) = 0 /\ DOMAIN <<>> = {}
    BY SeqBasics
  <2> QED BY <2>1, <2>2, <1>1 DEF Filling
<1> HIDE DEF start
<1>3. ASSUME NEW z, Filling(k, z)
      PROVE  Filling(k, FillTurn(rep, z))
  <2>1. CASE z.x.running >= cfg.stages \/ z.stop
    BY <2>1, <1>3 DEF FillTurn
  <2>2. CASE ~(z.x.running >= cfg.stages \/ z.stop)
    <3> DEFINE y == NextBatch(rep, z.x)
               m == k.running + Len(z.made)
    <3>1. m \in Nat /\ m < cfg.stages /\ Len(z.made) \in Nat
      <4>1. Len(z.made) \in Nat
        BY <1>3, SeqShape DEF Filling
      <4>2. z.x.running = m
        BY <1>3 DEF Filling, Fit, Load
      <4> QED BY <4>1, <4>2, <2>2, <1>1
    <3>2. Fit(Load(k.ids, m), y)
      BY <1>3, NextBatchFit DEF Filling
    <3>3. FillTurn(rep, z) =
            IF y.batch = <<>> \/ ~y.ok THEN [z EXCEPT !.x = y, !.stop = TRUE]
            ELSE [z EXCEPT !.x    = [y EXCEPT !.running = @ + 1, !.batch = <<>>],
                           !.made = Append(@, y.batch)]
      <4> HIDE DEF y
      <4> QED BY <2>2 DEF FillTurn, Bind, y
    <3> HIDE DEF y
    <3>4. Filling(k, [z EXCEPT !.x = y, !.stop = TRUE])
      BY <3>2, <1>3 DEF Filling
    <3> DEFINE made == Append(z.made, y.batch)
               w == [y EXCEPT !.running = @ + 1, !.batch = <<>>]
    <3>5. /\ IsSeq(made) /\ Len(made) = Len(z.made) + 1
          /\ \A i \in DOMAIN made : IsBatch(k.ids, made[i])
      <4> DEFINE s == z.made
                 b == y.batch
      <4>1. IsSeq(s) /\ \A i \in DOMAIN s : IsBatch(k.ids, s[i])
        BY <1>3 DEF Filling
      <4>2. IsBatch(k.ids, b)
        BY <3>2 DEF Fit, Load
      <4> HIDE DEF s, b
      <4>3. PICK S : s \in Seq(S)
        BY <4>1 DEF IsSeq
      <4>4. s \in Seq(S \cup {b})
        BY <4>3
      <4>5. /\ Append(s, b) \in Seq(S \cup {b}) /\ Len(Append(s, b)) = Len(s) + 1
            /\ \A i \in DOMAIN Append(s, b) :
                 Append(s, b)[i] = b \/ (i \in DOMAIN s /\ Append(s, b)[i] = s[i])
        BY <4>4
      <4>6. IsSeq(Append(s, b)) /\ \A i \in DOMAIN Append(s, b) : IsBatch(k.ids, Append(s, b)[i])
        BY <4>1, <4>2, <4>5 DEF IsSeq
      <4> QED BY <4>5, <4>6 DEF s, b
    <3>6. Fit(Load(k.ids, m + 1), w)
      <4>1. IsBatch(k.ids, <<>>)
        <5>1. IsSeq(<<>>) /\ DOMAIN <<>> = {}
          BY SeqBasics
        <5> QED BY <5>1 DEF IsBatch
      <4> QED BY <3>2, <4>1 DEF Fit, SchedulerFields, Load
    <3> HIDE DEF w, made
    <3>7. k.running + Len(made) = m + 1 /\ m + 1 <= cfg.stages
      BY <3>1, <3>5, <1>1
    <3>8. Filling(k, [z EXCEPT !.x = w, !.made = made])
      BY <3>5, <3>6, <3>7, <1>3 DEF Filling
    <3> QED BY <3>3, <3>4, <3>8 DEF w, made
  <2> QED BY <2>1, <2>2
<1>4. Filling(k, FillLoop!ForEach(LAMBDA r, z, i : FillTurn(r, z), rep, start, turns))
  BY <1>2, <1>3, FillLoop!ForEachKeeps
<1> QED
  BY <1>4 DEF k, start, FillPipeline, Repeat, ForEach, FoldLeft, MapThenFoldSet, Bind, Max,
    FillLoop!ForEach, FillLoop!FoldLeft, FillLoop!MapThenFoldSet, FillLoop!Bind, FillLoop!Max

-------------------------------------------------------------------------------
\* ReplicaScheduleEvent

\* A replica schedules: batches enter its pipeline, as many as it has room for.
LEMMA ReplicaScheduleStep ==
  ASSUME Inv, ReplicaSchedule
  PROVE  Inv' /\ Entering
<1>0. PICK r : r = Head(now).rep
  OBVIOUS
<1>1. now # <<>> /\ Head(now).kind = "replica"
      /\ UNCHANGED <<cfg, requestQueue, counter, decodeOn, stage>>
  BY DEF ReplicaSchedule, IsEvent
<1>2. r \in Replicas
  <2>1. EventOk(cfg, Known, AllKinds, Head(now))
    BY <1>1, EventsTail DEF Inv, Typed
  <2> QED BY <1>0, <1>1, <2>1 DEF EventOk, Replicas
<1>n. /\ cfg.stages \in Nat /\ cfg.stages >= 1 /\ Stages = 1 .. cfg.stages /\ cfg.kind \in Kinds
      /\ cfg.arrivedAt \in Seq(Nat)
  BY InvShape DEF Stages
<1> DEFINE z == FillPipeline(r, Opened(sched[r], request))
           made == z.made
           same == [i \in DOMAIN made |-> StageArrivalEvent(r, 1, made[i])]
           later == <<>>
<1>3. sched' = [sched EXCEPT ![r] = Closed(@, z.x)] /\ Handled(same, later)
  BY ZenonT(60), <1>0 DEF ReplicaSchedule
<1>4. /\ DOMAIN sched = Replicas /\ \A rep \in Replicas : SchedOk(Known, sched[rep])
      /\ \A rep \in Replicas : sched[rep].running = Len(InPipeline(rep)) /\ Len(InPipeline(rep)) <= cfg.stages
      /\ \A rep \in Replicas : IsSeq(InPipeline(rep))
  BY InvShape DEF Inv, Typed, Counted
<1> DEFINE n == Len(InPipeline(r))
<1>5. n \in Nat /\ n <= cfg.stages
  BY <1>2, <1>4, SeqShape
<1>6. Filling(Load(Known, n), z)
  <2>1. Fit(Load(Known, n), Opened(sched[r], request))
    <3>1. n = sched[r].running /\ SchedOk(Known, sched[r])
      BY <1>2, <1>4
    <3> HIDE DEF n
    <3> QED BY <3>1, OpenedFit
  <2> HIDE DEF n
  <2> QED BY <2>1, <1>5, <1>n, FillPipelineFit
<1> HIDE DEF z
<1>7. /\ IsSeq(made) /\ \A i \in DOMAIN made : IsBatch(Known, made[i])
      /\ n + Len(made) <= cfg.stages /\ Fit(Load(Known, n + Len(made)), z.x)
  BY <1>6 DEF Filling, Load
<1> HIDE DEF made
<1>8. EventsOk(cfg, Known, AllKinds, same) /\ EventsOk(cfg, Known, LaterKinds, later)
      /\ Arrivals(r, made, same) /\ \A i \in DOMAIN same : same[i].rep = r
  <2>1. \A i \in DOMAIN same : EventOk(cfg, Known, AllKinds, same[i]) /\ same[i].rep = r
    <3>1. 1 \in 1 .. cfg.stages
      BY <1>n
    <3> QED BY <1>2, <1>7, <3>1 DEF EventOk, StageArrivalEvent, Event, AllKinds, Replicas
  <2>2. IsSeq(same)
    BY <1>7, BatchesOfArrivals
  <2>3. EventsOk(cfg, Known, LaterKinds, later)
    BY EventsFew
  <2> QED BY <2>1, <2>2, <2>3 DEF EventsOk, Arrivals
<1> HIDE DEF same, later
<1>9. /\ EventsOk(cfg, Known, AllKinds, now') /\ EventsOk(cfg, Known, LaterKinds, future')
      /\ HandledTo(now, future, same, later, now', future')
  BY <1>1, <1>3, <1>8, HandledTyped
<1>10. /\ DOMAIN sched' = Replicas /\ \A rep \in Replicas : SchedOk(Known, sched'[rep])
       /\ \A rep \in Replicas :
            sched'[rep].running = IF rep = r THEN n + Len(made) ELSE Len(InPipeline(rep))
  <2> DEFINE s2 == Closed(sched[r], z.x)
  <2>1. DOMAIN sched' = Replicas /\ \A rep \in Replicas : sched'[rep] = IF rep = r THEN s2 ELSE sched[rep]
    BY <1>3, <1>4
  <2>2. SchedOk(Known, s2) /\ s2.running = n + Len(made)
    <3>1. DOMAIN sched[r] = SchedulerFields
      BY <1>2, <1>4 DEF SchedOk
    <3> HIDE DEF n
    <3> QED BY <3>1, <1>7, ClosedOk
  <2> HIDE DEF s2, n
  <2> QED BY <2>1, <2>2, <1>4
<1>11. Typed'
  <2>1. Known' = Known
    BY <1>1, SameConfig
  <2>2. requestQueue' \in Seq(Requests) /\ counter' \in Nat
    BY <1>1 DEF Inv, Typed
  <2> QED BY <1>1, <1>9, <1>10, <2>1, <2>2, TypedScheds
<1>12. ASSUME NEW rep \in Replicas
       PROVE  RowTyped(cfg.stages, rep, stage, now, future) /\ RowTyped(cfg.stages, rep, stage, now', future')
  <2>1. \A st \in Stages : StageOk(Known, stage'[rep][st])
    BY <1>1 DEF Inv, Typed
  <2> QED BY <2>1, <1>1, <1>9, <1>n, InvShape, NextRow
<1>13. /\ InPipelineOf(cfg.stages, r, stage, now', future')
            = InPipelineOf(cfg.stages, r, stage, now, future) \o made
       /\ \A st : Batches("stage_end", r, st, now' \o future') = Batches("stage_end", r, st, now \o future)
  <2>1. HandledTo(now, future, same, <<>>, now', future')
    BY <1>9 DEF later
  <2>2. RowTyped(cfg.stages, r, stage, now, future) /\ RowTyped(cfg.stages, r, stage, now', future')
    BY <1>2, <1>12
  <2>3. EnteredBy(cfg.stages, r, made, stage, now, future, now', future')
    BY <1>1, <1>7, <1>8, <1>n, <2>1, <2>2, FlowEnter
  <2> QED BY <2>3 DEF EnteredBy
<1>14. ASSUME NEW rep \in Replicas, rep # r
       PROVE  /\ InPipelineOf(cfg.stages, rep, stage, now', future')
                   = InPipelineOf(cfg.stages, rep, stage, now, future)
              /\ \A st : Batches("stage_end", rep, st, now' \o future')
                           = Batches("stage_end", rep, st, now \o future)
  <2>1. Untouched(cfg.stages, rep, now, same, later, stage, stage)
    <3>1. DOMAIN later = {}
      BY SeqBasics DEF later
    <3> QED BY <1>1, <1>8, <1>14, <3>1 DEF Untouched, Apart
  <2> QED BY <2>1, <1>9, <1>n, FlowApart
<1> DEFINE p == InPipeline(r)
           p2 == InPipeline(r)'
<1>15. /\ p2 = p \o made
       /\ \A rep \in Replicas : rep # r => InPipeline(rep)' = InPipeline(rep)
  <2>1. cfg' = cfg /\ stage' = stage
    BY <1>1
  <2>2. p2 = p \o made
    <3>1. InPipeline(r) = InPipelineOf(cfg.stages, r, stage, now, future)
      BY Pipelines
    <3>2. InPipeline(r)' = InPipelineOf(cfg.stages, r, stage, now', future')
      BY <2>1, Pipelines
    <3>3. InPipelineOf(cfg.stages, r, stage, now', future')
            = InPipelineOf(cfg.stages, r, stage, now, future) \o made
      BY <1>13
    <3> QED BY <3>1, <3>2, <3>3
  <2>3. \A rep \in Replicas : rep # r => InPipeline(rep)' = InPipeline(rep)
    BY <1>14, <2>1, Pipelines
  <2> QED BY <2>2, <2>3
<1>16. Len(p2) = n + Len(made) /\ Len(p2) <= cfg.stages
  <2>1. IsSeq(p) /\ n = Len(p)
    BY <1>2, <1>4
  <2> HIDE DEF p, p2, n
  <2>2. Len(p \o made) = n + Len(made)
    BY <2>1, <1>7, SeqConcat
  <2> QED BY <2>2, <1>7, <1>15
<1>17. Counted'
  <2>1. ASSUME NEW rep \in Replicas
        PROVE  /\ sched'[rep].running = Len(InPipelineOf(cfg.stages, rep, stage', now', future'))
               /\ Len(InPipelineOf(cfg.stages, rep, stage', now', future')) <= cfg.stages
               /\ \A st \in Stages : Len(Batches("stage_end", rep, st, now' \o future'))
                                       = IF stage'[rep][st].busy THEN 1 ELSE 0
    <3>1. InPipeline(rep)' = InPipelineOf(cfg.stages, rep, stage', now', future')
      BY <1>1, Pipelines
    <3>2. sched'[rep].running = Len(InPipeline(rep)') /\ Len(InPipeline(rep)') <= cfg.stages
      <4>1. CASE rep = r
        BY <4>1, <1>10, <1>16
      <4>2. CASE rep # r
        <5>1. InPipeline(rep)' = InPipeline(rep)
          BY <4>2, <1>15
        <5> QED BY <4>2, <5>1, <1>4, <1>10
      <4> QED BY <4>1, <4>2
    <3>3. \A st : Batches("stage_end", rep, st, now' \o future') = Batches("stage_end", rep, st, now \o future)
      BY <1>13, <1>14
    <3> QED BY <3>1, <3>2, <3>3, <1>1, SameBusy
  <2> QED BY <1>1, <2>1, NewCounts
<1>18. Entering
  <2>1. IsSeq(made) /\ InPipeline(r)' = InPipeline(r) \o made /\ Len(InPipeline(r)') <= cfg.stages
    BY <1>7, <1>15, <1>16
  <2>2. r \in Replicas /\ \A rep \in Replicas : rep # r => InPipeline(rep)' = InPipeline(rep)
    BY <1>2, <1>15
  <2> QED BY <2>1, <2>2, <1>1 DEF Entering
<1> QED BY <1>11, <1>17, <1>18 DEF Inv

-------------------------------------------------------------------------------
\* BatchEndEvent

\* A batch ends: the oldest leaves its pipeline, and the replica counts one less.
LEMMA BatchEndStep ==
  ASSUME Inv, BatchEnd
  PROVE  Inv' /\ Leaving
<1>0. PICK e : e = Head(now)
  OBVIOUS
<1> DEFINE r == e.rep
           b == e.batch
<1>1. now # <<>> /\ e.kind = "batch_end"
      /\ UNCHANGED <<cfg, requestQueue, counter, decodeOn, stage>>
  BY <1>0 DEF BatchEnd, IsEvent
<1>2. r \in Replicas /\ IsBatch(Known, b) /\ e.stage = 0
  <2>1. EventOk(cfg, Known, AllKinds, e)
    BY Zenon, <1>0, <1>1, EventsTail DEF Inv, Typed
  <2> QED BY <1>1, <2>1 DEF EventOk, Replicas
<1>n. /\ cfg.stages \in Nat /\ cfg.stages >= 1 /\ Stages = 1 .. cfg.stages /\ cfg.kind \in Kinds
      /\ cfg.arrivedAt \in Seq(Nat)
  BY InvShape DEF Stages
<1>4. /\ DOMAIN sched = Replicas /\ \A rep \in Replicas : SchedOk(Known, sched[rep])
      /\ \A rep \in Replicas : sched[rep].running = Len(InPipeline(rep)) /\ Len(InPipeline(rep)) <= cfg.stages
      /\ \A rep \in Replicas : IsSeq(InPipeline(rep))
  BY InvShape DEF Inv, Typed, Counted
<1>3. PICK req, x : x = SchedulerEnd(r, Opened(sched[r], req), b) /\ Finish(e, req, x)
  BY <1>0 DEF BatchEnd
<1> DEFINE moved == {i \in DOMAIN b : Splitwise /\ IsPrefill(r) /\ req[b[i].id].prefilled}
           transfers == [i \in DOMAIN b |-> TransferEvent(decodeOn[b[i].id], b[i].id)]
           given(rep) == {i \in DOMAIN x.prefills : decodeOn[x.prefills[i]] = rep}
           v == ReplicaScheduleEvent(r)
           same == <<v>>
           later == Picked(moved, transfers)
           n == Len(InPipeline(r))
<1>5. x = SchedulerEnd(r, Opened(sched[r], req), b) /\ Handled(same, later)
  <2>1. Handled(same, later)
    BY ZenonT(60), <1>3 DEF Finish
  <2> QED BY Z3, <1>3, <2>1
<1>6. sched' = [rep \in Replicas |->
                  IF rep = r THEN Closed(sched[rep], x)
                  ELSE [sched[rep] EXCEPT !.queue = @ \o Picked(given(rep), x.prefills)]]
  BY ZenonT(60), <1>3 DEF Finish
<1>7. EventsOk(cfg, Known, AllKinds, same) /\ \A i \in DOMAIN same : same[i].kind = "replica"
  <2>1. EventOk(cfg, Known, AllKinds, v) /\ v.kind = "replica"
    <3> HIDE DEF r
    <3> QED BY <1>2 DEF EventOk, ReplicaScheduleEvent, Event, AllKinds, Replicas
  <2> HIDE DEF v
  <2>2. EventsOk(cfg, Known, AllKinds, same)
    BY <2>1, EventsFew
  <2>3. \A i \in DOMAIN same : same[i] = v
    BY SeqBasics
  <2> QED BY <2>1, <2>2, <2>3
<1>8. EventsOk(cfg, Known, LaterKinds, later) /\ \A i \in DOMAIN later : later[i].kind = "replica"
  <2> HIDE DEF b, moved
  <2>1. \A i \in DOMAIN transfers : i \in moved => EventOk(cfg, Known, {"replica"}, transfers[i])
    <3>1. ASSUME NEW i \in DOMAIN b, i \in moved PROVE EventOk(cfg, Known, {"replica"}, transfers[i])
      <4>1. b[i].id \in Known /\ Splitwise
        BY <3>1, <1>2 DEF IsBatch, moved
      <4>2. decodeOn[b[i].id] \in Replicas
        BY <4>1 DEF Known
      <4> QED BY <3>1, <4>2 DEF EventOk, TransferEvent, Event, Replicas
    <3> QED BY <3>1
  <2>2. IsSeq(transfers)
    <3>1. IsSeq(b)
      BY <1>2 DEF IsBatch
    <3>2. DOMAIN b = 1 .. Len(b) /\ Len(b) \in Nat
      BY <3>1, SeqShape
    <3>3. transfers \in [1 .. Len(b) -> {transfers[i] : i \in 1 .. Len(b)}]
      BY <3>2
    <3> HIDE DEF transfers
    <3> QED BY ZenonT(60), <3>2, <3>3, SeqMade
  <2> HIDE DEF transfers
  <2>3. EventsOk(cfg, Known, {"replica"}, later)
    BY <2>1, <2>2, EventsPicked
  <2> HIDE DEF later
  <2>4. {"replica"} \subseteq LaterKinds
    BY DEF LaterKinds
  <2>5. EventsOk(cfg, Known, LaterKinds, later)
    BY <2>3, <2>4, EventsMono
  <2> QED BY <2>3, <2>5 DEF EventsOk, EventOk
<1> HIDE DEF same, later
<1>9. /\ EventsOk(cfg, Known, AllKinds, now') /\ EventsOk(cfg, Known, LaterKinds, future')
      /\ HandledTo(now, future, same, later, now', future')
  BY <1>1, <1>5, <1>7, <1>8, HandledTyped
<1>10. n \in Nat /\ n <= cfg.stages
  BY <1>2, <1>4, SeqShape
<1>11. Fit(Load(Known, n - 1), x)
  <2>1. Fit(Load(Known, n), Opened(sched[r], req))
    <3>1. n = sched[r].running /\ SchedOk(Known, sched[r])
      BY <1>2, <1>4
    <3> HIDE DEF n, r
    <3> QED BY <3>1, OpenedFit
  <2> HIDE DEF n, r, b
  <2>2. n \in Int
    BY <1>10
  <2> QED BY <2>1, <2>2, <1>2, <1>5, SchedulerEndFit
<1>12. /\ DOMAIN sched' = Replicas /\ \A rep \in Replicas : SchedOk(Known, sched'[rep])
       /\ \A rep \in Replicas : sched'[rep].running = IF rep = r THEN n - 1 ELSE Len(InPipeline(rep))
  <2> HIDE DEF given, n
  <2>1. DOMAIN sched' = Replicas
    BY <1>6
  <2>2. SchedOk(Known, sched'[r]) /\ sched'[r].running = n - 1
    <3>1. DOMAIN sched[r] = SchedulerFields
      BY <1>2, <1>4 DEF SchedOk
    <3>2. sched'[r] = Closed(sched[r], x)
      BY <1>2, <1>6
    <3> HIDE DEF r
    <3> QED BY <3>1, <3>2, <1>11, ClosedOk
  <2>3. ASSUME NEW rep \in Replicas, rep # r
        PROVE  SchedOk(Known, sched'[rep]) /\ sched'[rep].running = Len(InPipeline(rep))
    <3> DEFINE s == sched[rep]
               g == Picked(given(rep), x.prefills)
    <3>1. sched'[rep] = [s EXCEPT !.queue = @ \o g]
      BY <2>3, <1>6
    <3>2. SchedOk(Known, s) /\ s.running = Len(InPipeline(rep))
      BY <1>4
    <3>3. g \in Seq(Known)
      <4>1. x.prefills \in Seq(Known)
        BY <1>11 DEF Fit, Load
      <4> QED BY <4>1, PickedTyped
    <3> HIDE DEF s, g
    <3>4. s.queue \o g \in Seq(Known)
      <4>1. s.queue \in Seq(Known)
        BY <3>2 DEF SchedOk
      <4> QED BY <4>1, <3>3
    <3> QED BY <3>1, <3>2, <3>4 DEF SchedOk, SchedulerFields
  <2> QED BY <2>1, <2>2, <2>3
<1>13. Typed'
  <2>1. Known' = Known
    BY <1>1, SameConfig
  <2>2. requestQueue' \in Seq(Requests) /\ counter' \in Nat
    BY <1>1 DEF Inv, Typed
  <2> QED BY <1>1, <1>9, <1>12, <2>1, <2>2, TypedScheds
<1>14. ASSUME NEW rep \in Replicas
       PROVE  RowTyped(cfg.stages, rep, stage, now, future) /\ RowTyped(cfg.stages, rep, stage, now', future')
  <2>1. \A st \in Stages : StageOk(Known, stage'[rep][st])
    BY <1>1 DEF Inv, Typed
  <2> QED BY <2>1, <1>1, <1>9, <1>n, InvShape, NextRow
<1>15. \A rep : (\A i \in DOMAIN same : Apart(rep, same[i])) /\ (\A i \in DOMAIN later : Apart(rep, later[i]))
  BY <1>7, <1>8 DEF Apart
<1>16. Left(cfg.stages, r, b, stage, now, future, now', future')
  <2>1. About(Head(now), "batch_end", r, 0, b)
    BY <1>0, <1>1, <1>2 DEF About
  <2>2. RowTyped(cfg.stages, r, stage, now, future) /\ RowTyped(cfg.stages, r, stage, now', future')
    BY <1>2, <1>14
  <2> HIDE DEF r, b
  <2> QED BY <1>9, <1>15, <2>1, <2>2, FlowLeave
<1>17. ASSUME NEW rep \in Replicas, rep # r
       PROVE  /\ InPipelineOf(cfg.stages, rep, stage, now', future')
                   = InPipelineOf(cfg.stages, rep, stage, now, future)
              /\ \A st : Batches("stage_end", rep, st, now' \o future')
                           = Batches("stage_end", rep, st, now \o future)
  <2>1. Untouched(cfg.stages, rep, now, same, later, stage, stage)
    BY <1>0, <1>1, <1>15, <1>17 DEF Untouched, Apart
  <2> QED BY <2>1, <1>9, <1>n, FlowApart
<1> DEFINE p == InPipeline(r)
           p2 == InPipeline(r)'
<1>18. /\ IsSeq(p2) /\ p = <<b>> \o p2
       /\ \A rep \in Replicas : rep # r => InPipeline(rep)' = InPipeline(rep)
  <2>1. cfg' = cfg /\ stage' = stage
    BY <1>1
  <2>0. IsSeq(InPipelineOf(cfg.stages, r, stage, now', future'))
    <3> HIDE DEF r
    <3>1. RowTyped(cfg.stages, r, stage, now', future')
      BY <1>2, <1>14
    <3>2. /\ InPipelineOf(cfg.stages, r, stage, now', future')
               = FlattenSeq(Row(cfg.stages, r, stage, now', future'))
          /\ AllSeqs(Row(cfg.stages, r, stage, now', future'))
      BY <3>1, InPipelineIsRow, RowSeqs
    <3> QED BY <3>2, FlatIsSeq
  <2>2. IsSeq(p2) /\ p = <<b>> \o p2
    <3> HIDE DEF b
    <3>1. InPipeline(r) = InPipelineOf(cfg.stages, r, stage, now, future)
      BY Pipelines
    <3>2. InPipeline(r)' = InPipelineOf(cfg.stages, r, stage, now', future')
      BY <2>1, Pipelines
    <3>3. InPipelineOf(cfg.stages, r, stage, now, future)
            = <<b>> \o InPipelineOf(cfg.stages, r, stage, now', future')
      BY <1>16 DEF Left
    <3> QED BY <2>0, <3>1, <3>2, <3>3
  <2>3. \A rep \in Replicas : rep # r => InPipeline(rep)' = InPipeline(rep)
    BY <1>17, <2>1, Pipelines
  <2> QED BY <2>2, <2>3
<1>19. p # <<>> /\ p2 = Tail(p) /\ Len(p2) = n - 1 /\ Len(p2) <= cfg.stages
  <2> DEFINE u == <<b>>
  <2>1. IsSeq(u) /\ Len(u) = 1 /\ u[1] = b /\ n = Len(p) /\ p = u \o p2 /\ IsSeq(p2)
    BY <1>18, SeqBasics
  <2> HIDE DEF u, p, p2, n
  <2>2. IsSeq(p) /\ Len(u \o p2) = Len(u) + Len(p2) /\ Len(p2) \in Nat
        /\ \A i \in 1 .. Len(p2) : (u \o p2)[Len(u) + i] = p2[i]
    <3>1. IsSeq(u \o p2) /\ Len(u \o p2) = Len(u) + Len(p2)
      <4>1. IsSeq(u) /\ IsSeq(p2)
        BY <2>1
      <4> QED BY <4>1, SeqConcat
    <3>2. \A i \in 1 .. Len(p2) : (u \o p2)[Len(u) + i] = p2[i]
      <4>1. IsSeq(u) /\ IsSeq(p2)
        BY <2>1
      <4> QED BY <4>1, SeqConcat
    <3>3. Len(p2) \in Nat
      BY <2>1, SeqShape
    <3> QED BY <2>1, <3>1, <3>2, <3>3
  <2>3. n = 1 + Len(p2) /\ \A i \in 1 .. Len(p2) : p[1 + i] = p2[i]
    BY <2>1, <2>2
  <2>4. p # <<>>
    BY <2>1, <2>2, <2>3, SeqEmpty
  <2>5. p2 = Tail(p)
    <3>1. PICK S : p \in Seq(S)
      BY <2>2 DEF IsSeq
    <3>2. IsSeq(Tail(p)) /\ Len(Tail(p)) = Len(p2) /\ \A i \in 1 .. Len(Tail(p)) : Tail(p)[i] = p[i + 1]
      <4>1. IsSeq(Tail(p)) /\ Len(Tail(p)) = Len(p) - 1
        BY <2>2, <2>4, SeqTail
      <4>2. \A i \in 1 .. Len(Tail(p)) : Tail(p)[i] = p[i + 1]
        BY <2>4, <3>1
      <4>3. Len(p) - 1 = Len(p2)
        BY <2>1, <2>2, <2>3
      <4> QED BY <4>1, <4>2, <4>3
    <3>3. \A i \in 1 .. Len(Tail(p)) : Tail(p)[i] = p2[i]
      BY <2>3, <3>2
    <3> QED BY <3>2, <3>3, <2>1, SameSeq
  <2>6. Len(p2) = n - 1
    BY <2>2, <2>3
  <2>7. Len(p2) <= cfg.stages
    BY <2>2, <2>3, <1>10, <1>n
  <2> QED BY <2>4, <2>5, <2>6, <2>7
<1>20. Counted'
  <2>1. ASSUME NEW rep \in Replicas
        PROVE  /\ sched'[rep].running = Len(InPipelineOf(cfg.stages, rep, stage', now', future'))
               /\ Len(InPipelineOf(cfg.stages, rep, stage', now', future')) <= cfg.stages
               /\ \A st \in Stages : Len(Batches("stage_end", rep, st, now' \o future'))
                                       = IF stage'[rep][st].busy THEN 1 ELSE 0
    <3>1. InPipeline(rep)' = InPipelineOf(cfg.stages, rep, stage', now', future')
      BY <1>1, Pipelines
    <3>2. sched'[rep].running = Len(InPipeline(rep)') /\ Len(InPipeline(rep)') <= cfg.stages
      <4>1. CASE rep = r
        BY <4>1, <1>12, <1>19
      <4>2. CASE rep # r
        <5>1. InPipeline(rep)' = InPipeline(rep)
          BY <4>2, <1>18
        <5> QED BY <4>2, <5>1, <1>4, <1>12
      <4> QED BY <4>1, <4>2
    <3>3. \A st : Batches("stage_end", rep, st, now' \o future') = Batches("stage_end", rep, st, now \o future)
      BY <1>16, <1>17 DEF Left
    <3> QED BY <3>1, <3>2, <3>3, <1>1, SameBusy
  <2> QED BY <1>1, <2>1, NewCounts
<1>21. Leaving
  <2>1. InPipeline(r) # <<>> /\ InPipeline(r)' = Tail(InPipeline(r))
    BY <1>19
  <2>2. r \in Replicas /\ \A rep \in Replicas : rep # r => InPipeline(rep)' = InPipeline(rep)
    BY <1>2, <1>18
  <2> HIDE DEF r
  <2> QED BY <2>1, <2>2, <1>1 DEF Leaving
<1> QED BY <1>13, <1>20, <1>21 DEF Inv

-------------------------------------------------------------------------------
\* The invariant holds, and the pipelines are the abstract ones

\* The invariant holds at first, and the pipelines are empty.
LEMMA InitInv ==
  ASSUME Init
  PROVE  Inv /\ \A rep \in Replicas : InPipeline(rep) = <<>>
<1>1. /\ cfg \in Configs /\ now = <<>> /\ future = <<>> /\ requestQueue = <<>> /\ counter = 0
      /\ sched = [rep \in Replicas |-> NewScheduler(Requests)]
      /\ stage = [rep \in Replicas |-> [st \in Stages |-> [queue |-> <<>>, busy |-> FALSE]]]
  BY DEF Init
<1>2. IsSeq(<<>>) /\ DOMAIN <<>> = {} /\ Len(<<>>) = 0 /\ <<>> \o <<>> = <<>> /\ \A S : <<>> \in Seq(S)
  BY SeqBasics, SeqEmpty
<1>n. cfg.stages \in Nat /\ Stages = 1 .. cfg.stages
  BY <1>1, ConfigShape DEF Stages
<1>3. Typed
  <2>1. SchedOk(Known, NewScheduler(Requests))
    BY <1>2 DEF SchedOk, NewScheduler, SchedulerFields
  <2>2. StageOk(Known, [queue |-> <<>>, busy |-> FALSE])
    BY <1>2 DEF StageOk
  <2>3. EventsOk(cfg, Known, AllKinds, now) /\ EventsOk(cfg, Known, LaterKinds, future)
    BY <1>1, EventsFew
  <2>4. requestQueue \in Seq(Requests) /\ counter \in Nat /\ cfg \in Configs
    BY <1>1, <1>2
  <2>5. DOMAIN sched = Replicas /\ \A rep \in Replicas : SchedOk(Known, sched[rep])
    BY <1>1, <2>1
  <2>6. /\ DOMAIN stage = Replicas
        /\ \A rep \in Replicas : /\ DOMAIN stage[rep] = Stages
                                 /\ \A st \in Stages : StageOk(Known, stage[rep][st])
    BY <1>1, <2>2
  <2> QED BY <2>3, <2>4, <2>5, <2>6 DEF Typed
<1>4. ASSUME NEW rep \in Replicas
      PROVE  InPipeline(rep) = <<>> /\ \A st \in Stages : Batches("stage_end", rep, st, now \o future) = <<>>
  <2>1. \A kind, st : Batches(kind, rep, st, now) = <<>> /\ Batches(kind, rep, st, now \o future) = <<>>
    <3>1. now \o future = <<>>
      BY <1>1, <1>2
    <3> QED BY <1>1, <3>1, NoBatches
  <2>2. ASSUME NEW st \in Stages PROVE AtStageOf(rep, st, stage, now, future) = <<>>
    <3>1. stage[rep][st].queue = <<>>
      BY <1>1
    <3> QED BY <3>1, <2>1, <1>2 DEF AtStageOf
  <2> DEFINE row == Row(cfg.stages, rep, stage, now, future)
  <2>3. RowTyped(cfg.stages, rep, stage, now, future)
    BY <1>3, <1>n, TypedRow DEF Typed
  <2>4. AllSeqs(row) /\ InPipelineOf(cfg.stages, rep, stage, now, future) = FlattenSeq(row)
    BY <2>3, RowSeqs, InPipelineIsRow
  <2>5. \A i \in DOMAIN row : row[i] = <<>>
    <3>1. DOMAIN row = 1 .. cfg.stages + 1
      BY DEF Row
    <3>2. ASSUME NEW i \in 1 .. cfg.stages + 1 PROVE row[i] = <<>>
      <4>1. CASE i = 1
        BY <4>1, <1>n, <2>1, RowAt
      <4>2. CASE i # 1
        <5>1. i \in 2 .. cfg.stages + 1 /\ cfg.stages + 2 - i \in Stages
          BY <4>2, <1>n
        <5> QED BY <5>1, <1>n, <2>2, RowAt
      <4> QED BY <4>1, <4>2
    <3> QED BY <3>1, <3>2
  <2> HIDE DEF row
  <2>6. FlattenSeq(row) = <<>>
    BY <2>4, <2>5, FlatNone
  <2> QED BY <2>1, <2>4, <2>6, Pipelines
<1>5. Counted
  <2>1. \A rep \in Replicas : sched[rep].running = 0
    BY <1>1 DEF NewScheduler
  <2>2. \A rep \in Replicas, st \in Stages : ~stage[rep][st].busy
    BY <1>1
  <2> QED BY <1>2, <1>4, <1>n, <2>1, <2>2 DEF Counted
<1> QED BY <1>3, <1>4, <1>5 DEF Inv

\* Every step keeps the invariant, and batches enter a pipeline, or one leaves,
\* or nothing happens to the pipelines.
LEMMA NextInv ==
  ASSUME Inv, [Next]_vars
  PROVE  Inv' /\ (Quiet \/ Entering \/ Leaving)
<1>1. CASE UNCHANGED vars
  <2>1. UNCHANGED <<cfg, now, future, requestQueue, counter, decodeOn, sched, stage>>
    BY <1>1 DEF vars
  <2>2. Typed'
    BY <2>1, TypedStages DEF Inv, Typed
  <2>3. Counted' /\ Quiet
    BY <2>1, QuietCounts DEF Inv, Counted
  <2>4. Inv'
    BY <2>2, <2>3 DEF Inv
  <2> QED BY <2>3, <2>4
<1>2. CASE Next
  BY <1>2, AdvanceStep, RequestArrivalStep, GlobalScheduleStep, ReplicaScheduleStep,
    BatchStageArrivalStep, ReplicaStageScheduleStep, BatchStageEndStep, BatchEndStep DEF Next
<1> QED BY <1>1, <1>2

\* One step of the abstract pipelines.
LEMMA AbstractStep ==
  ASSUME Inv, Quiet \/ Entering \/ Leaving
  PROVE  [Pipeline!Next]_<<cfg.stages, [rep \in Replicas |-> InPipeline(rep)]>>
<1> DEFINE flight == [rep \in Replicas |-> InPipeline(rep)]
           flight2 == [rep \in Replicas |-> InPipeline(rep)']
<1>1. cfg' = cfg /\ cfg'.stages = cfg.stages /\ Replicas' = Replicas /\ flight' = flight2
  BY DEF Quiet, Entering, Leaving, Replicas
<1>2. CASE Quiet
  <2>1. flight2 = flight
    BY <1>2 DEF Quiet
  <2> QED BY <1>1, <2>1
<1>3. ASSUME NEW rep \in Replicas, Pipeline!Enter(rep) \/ Pipeline!Leave(rep),
             \A other \in Replicas : other # rep => InPipeline(other)' = InPipeline(other)
      PROVE  Pipeline!Next
  <2>1. flight2 = [flight EXCEPT ![rep] = flight2[rep]]
    BY <1>3
  <2>2. DOMAIN flight = Replicas
    OBVIOUS
  <2> QED BY <1>1, <1>3, <2>1, <2>2 DEF Pipeline!Next
<1>4. CASE Entering
  <2>0. PICK rep \in Replicas : \E made :
          /\ IsSeq(made) /\ InPipeline(rep)' = InPipeline(rep) \o made
          /\ Len(InPipeline(rep)') <= cfg.stages
          /\ \A other \in Replicas : other # rep => InPipeline(other)' = InPipeline(other)
    BY <1>4 DEF Entering
  <2>1. PICK made :
          /\ IsSeq(made) /\ InPipeline(rep)' = InPipeline(rep) \o made
          /\ Len(InPipeline(rep)') <= cfg.stages
          /\ \A other \in Replicas : other # rep => InPipeline(other)' = InPipeline(other)
    BY <2>0
  <2> DEFINE p == InPipeline(rep)
             p2 == InPipeline(rep)'
  <2>2. IsSeq(p)
    BY InvShape
  <2>3. flight[rep] = p /\ flight2[rep] = p2 /\ flight'[rep] = p2
    BY <1>1
  <2>4. p2 = p \o made /\ Len(p2) <= cfg.stages
    BY <2>1
  <2>5. CASE made = <<>>
    <3>1. p2 = p
      <4> HIDE DEF p, p2
      <4> QED BY <2>2, <2>4, <2>5, SeqEmpty
    <3>2. flight2 = flight
      BY <2>1, <3>1
    <3> QED BY <1>1, <3>2
  <2>6. CASE made # <<>>
    <3>1. Len(p) < Len(p2) /\ SubSeq(p2, 1, Len(p)) = p
      <4> HIDE DEF p, p2
      <4>1. IsSeq(p2) /\ Len(p2) = Len(p) + Len(made) /\ \A i \in 1 .. Len(p) : p2[i] = p[i]
        <5>1. IsSeq(made)
          BY <2>1
        <5> QED BY <2>2, <2>4, <5>1, SeqConcat
      <4>2. Len(p) \in Nat /\ Len(made) \in Nat /\ Len(made) # 0
        BY <2>1, <2>2, <2>6, SeqShape, SeqEmpty
      <4>3. SubSeq(p2, 1, Len(p)) = p
        <5> DEFINE w == SubSeq(p2, 1, Len(p))
        <5>1. PICK S : p2 \in Seq(S)
          BY <4>1 DEF IsSeq
        <5>2. w \in Seq(S) /\ Len(w) = Len(p) /\ \A i \in 1 .. Len(p) : w[i] = p2[i]
          BY <4>1, <4>2, <5>1
        <5>3. IsSeq(w)
          BY <5>2 DEF IsSeq
        <5> HIDE DEF w
        <5>4. w = p
          BY <2>2, <4>1, <5>2, <5>3, SameSeq
        <5> QED BY <5>4 DEF w
      <4> QED BY <4>1, <4>2, <4>3
    <3>2. Pipeline!Enter(rep)
      BY <2>3, <2>4, <3>1 DEF Pipeline!Enter
    <3> QED BY <2>1, <3>2, <1>3
  <2> QED BY <2>5, <2>6
<1>5. CASE Leaving
  <2>1. PICK rep \in Replicas :
          /\ InPipeline(rep) # <<>> /\ InPipeline(rep)' = Tail(InPipeline(rep))
          /\ \A other \in Replicas : other # rep => InPipeline(other)' = InPipeline(other)
    BY <1>5 DEF Leaving
  <2>2. flight[rep] = InPipeline(rep) /\ flight'[rep] = InPipeline(rep)'
    BY <1>1
  <2>3. Pipeline!Leave(rep)
    BY <2>1, <2>2 DEF Pipeline!Leave
  <2> QED BY <2>1, <2>3, <1>3
<1> QED BY <1>2, <1>4, <1>5

\* The inductive invariant of the simulator holds in every state: events,
\* queues and stages hold known requests and batches of them, a replica counts
\* as running what is in its pipeline, never more than it has stages, and a
\* stage is busy just when the event that frees it is to come.
THEOREM PipelineInvariant == Spec => []Inv
<1>1. Init => Inv
  BY InitInv
<1>2. Inv /\ [Next]_vars => Inv'
  BY NextInv
<1> QED BY <1>1, <1>2, PTL DEF Spec

\* PipelineFIFO: the pipelines of the simulator implement AbstractPipeline, for
\* any scheduler, requests, replicas and stages, and any order in which events
\* of one time are handled.  A batch leaves its pipeline only when it is the
\* oldest, and there are never more batches than stages.
THEOREM PipelineFIFOCorrect == Spec => PipelineFIFO
<1>1. Init => Pipeline!Init
  <2> SUFFICES ASSUME Init PROVE Pipeline!Init
    OBVIOUS
  <2>1. cfg.stages \in Nat /\ \A rep \in Replicas : InPipeline(rep) = <<>>
    BY InitInv, InvShape
  <2> QED BY <2>1 DEF Pipeline!Init
<1>2. Inv /\ [Next]_vars => [Pipeline!Next]_<<cfg.stages, [rep \in Replicas |-> InPipeline(rep)]>>
  BY NextInv, AbstractStep
<1> QED BY <1>1, <1>2, PipelineInvariant, PTL DEF Spec, PipelineFIFO, Pipeline!Spec

===============================================================================
