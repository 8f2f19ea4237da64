--------------------------- MODULE PredictProofs ---------------------------
(***************************************************************************)
(* Proofs about Predict: recommended are the best builds, as many as were  *)
(* asked for; each point of the grid offers the best build for each poise  *)
(* breakpoint; what is recommended spends the level; rescaled classes have *)
(* the points of all and stay as they are; training rows are labelled      *)
(* consistently; the variables keep their types.                           *)
(*                                                                         *)
(* Each rests on an inductive invariant of its own.  Ranking says that the *)
(* builds in the heap and those printed are the best of all that were      *)
(* offered, Walk what bestBreakPoints, the cache and the builds made so    *)
(* far hold, Classed that a rescaled class is a leveled one, Rowed that    *)
(* the points behind the present one have their rows, Typed is about types *)
(* and lengths.  What recursive definitions compute (SumFunction, Joined)  *)
(* is proved by induction over a set of numbers or subsets in place of a   *)
(* predicate.                                                              *)
(***************************************************************************)
EXTENDS Predict, FiniteSetTheorems, TLAPS

-----------------------------------------------------------------------------
(* Sequences *)

IsSeq(s) == \E S : s \in Seq(S)

\* Numbers up to L with all that are smaller are the first so many.
LEMMA InitialSegment ==
  ASSUME NEW L \in Nat, NEW K, K \subseteq 1..L, \A j \in K : 1..j \subseteq K
  PROVE  \E n \in 0..L : K = 1..n
<1> DEFINE n == Cardinality(K)
<1>1. IsFiniteSet(1..L) /\ Cardinality(1..L) = L
  BY FS_Interval
<1>2. IsFiniteSet(K) /\ n \in Nat /\ n <= L
  <2>1. IsFiniteSet(K) /\ Cardinality(K) <= Cardinality(1..L)
    BY <1>1, FS_Subset, Zenon
  <2>2. Cardinality(K) \in Nat
    BY <2>1, FS_CardinalityType
  <2> QED BY <2>1, <2>2, <1>1
<1>3. \A j \in K : j <= n
  <2> SUFFICES ASSUME NEW j \in K PROVE j <= n
    OBVIOUS
  <2>1. j \in Nat /\ 1..j \subseteq K
    OBVIOUS
  <2>2. Cardinality(1..j) = j
    BY <2>1, FS_Interval
  <2> QED BY <2>1, <2>2, <1>2, FS_Subset
<1>4. IsFiniteSet(1..n) /\ Cardinality(1..n) = n
  BY <1>2, FS_Interval
<1>5. K \subseteq 1..n
  BY <1>3
<1>6. K = 1..n
  BY <1>4, <1>5, FS_Subset
<1>7. n \in 0..L
  BY <1>2
<1> QED BY <1>6, <1>7

\* A function on the first numbers is a sequence.
LEMMA FunctionIsSeq ==
  ASSUME NEW n \in Nat, NEW f, f = [j \in 1..n |-> f[j]]
  PROVE  IsSeq(f) /\ Len(f) = n
<1> DEFINE S == {f[j] : j \in 1..n}
<1>1. f \in [1..n -> S]
  OBVIOUS
<1>2. f \in Seq(S) /\ Len(f) = n
  <2> HIDE DEF S
  <2> QED BY <1>1
<1> QED BY <1>2 DEF IsSeq

LEMMA SeqWidens ==
  ASSUME NEW S, NEW T, S \subseteq T, NEW s \in Seq(S)
  PROVE  s \in Seq(T)
OBVIOUS

LEMMA ConcatIsSeq ==
  ASSUME NEW s, NEW t, IsSeq(s), IsSeq(t)
  PROVE  IsSeq(s \o t)
<1>1. PICK S : s \in Seq(S)
  BY DEF IsSeq
<1>2. PICK T : t \in Seq(T)
  BY DEF IsSeq
<1>3. s \in Seq(S \cup T) /\ t \in Seq(S \cup T)
  BY <1>1, <1>2, SeqWidens
<1>4. s \o t \in Seq(S \cup T)
  BY <1>3
<1> QED BY <1>4 DEF IsSeq

LEMMA SeqLength ==
  ASSUME NEW s, IsSeq(s)
  PROVE  Len(s) \in Nat /\ DOMAIN s = 1..Len(s)
BY DEF IsSeq

-----------------------------------------------------------------------------
(* Induction over a set of numbers, and over subsets *)

\* What is so for 0 and, if for n, then for n + 1, is so for all.
LEMMA Induction ==
  ASSUME NEW K, 0 \in K, \A n \in Nat : n \in K => n + 1 \in K
  PROVE  Nat \subseteq K
<1> SUFFICES ASSUME NEW m \in Nat, m \notin K PROVE FALSE
  OBVIOUS
<1> DEFINE D == {j \in 1..m : \A k \in 1..j : k \in K}
<1>1. \A j \in D : 1..j \subseteq D
  OBVIOUS
<1>2. D \subseteq 1..m
  OBVIOUS
<1>3. PICK n \in 0..m : D = 1..n
  <2> HIDE DEF D
  <2> QED BY <1>1, <1>2, InitialSegment
<1>4. n \in K
  <2>1. CASE n = 0
    BY <2>1
  <2>2. CASE n # 0
    <3>1. n \in 1..n
      BY <2>2
    <3>2. n \in D
      <4> HIDE DEF D
      <4> QED BY <3>1, <1>3
    <3> QED BY <3>1, <3>2
  <2> QED BY <2>1, <2>2
<1>5. n < m
  BY <1>3, <1>4
<1>6. n + 1 \in K /\ n + 1 \in 1..m
  BY <1>4, <1>5
<1>7. n + 1 \in D
  <2>1. \A k \in 1..n : k \in K
    BY <1>3
  <2>2. \A k \in 1..(n + 1) : k \in 1..n \/ k = n + 1
    OBVIOUS
  <2> QED BY <2>1, <2>2, <1>6
<1> QED BY <1>3, <1>7

\* The element a fold takes from a set first.
Pick(s) == CHOOSE x \in s : TRUE

\* What is so for the empty set and, if so for a set without the element a
\* fold takes first, for the set, is so for all subsets.
LEMMA SubsetInduction ==
  ASSUME NEW D, IsFiniteSet(D), NEW K, {} \in K,
         \A s \in SUBSET D : s # {} /\ s \ {Pick(s)} \in K => s \in K
  PROVE  SUBSET D \subseteq K
<1> DEFINE N == {n \in Nat : \A s \in SUBSET D : Cardinality(s) = n => s \in K}
<1>1. \A s \in SUBSET D : IsFiniteSet(s) /\ Cardinality(s) \in Nat
  BY FS_Subset, FS_CardinalityType
<1>2. 0 \in N
  <2>1. \A s \in SUBSET D : Cardinality(s) = 0 => s = {}
    BY <1>1, FS_EmptySet
  <2> QED BY <2>1
<1>3. ASSUME NEW n \in Nat, n \in N PROVE n + 1 \in N
  <2> SUFFICES ASSUME NEW s \in SUBSET D, Cardinality(s) = n + 1 PROVE s \in K
    OBVIOUS
  <2>1. s # {}
    BY FS_EmptySet
  <2>2. Pick(s) \in s
    BY <2>1 DEF Pick
  <2>3. Cardinality(s \ {Pick(s)}) = n
    <3>1. Cardinality(s \ {Pick(s)}) = Cardinality(s) - 1
      BY <1>1, <2>2, FS_RemoveElement
    <3> QED BY <3>1
  <2>4. s \ {Pick(s)} \in K
    BY <2>3, <1>3
  <2> QED BY <2>1, <2>4
<1>4. Nat \subseteq N
  <2> HIDE DEF N
  <2> QED BY <1>2, <1>3, Induction
<1> QED BY <1>1, <1>4

-----------------------------------------------------------------------------
(* Sums *)

\* g sums the subsets of D, element after element.
IsSums(f, g, D) ==
  g = [s \in SUBSET D |-> IF s = {} THEN 0 ELSE f[Pick(s)] + g[s \ {Pick(s)}]]

\* The same for subsets of no more than n elements.
Upto(D, n) == {s \in SUBSET D : Cardinality(s) <= n}
SumsUpto(f, g, D, n) ==
  g = [s \in Upto(D, n) |-> IF s = {} THEN 0 ELSE f[Pick(s)] + g[s \ {Pick(s)}]]

LEMMA PickLess ==
  ASSUME NEW D, IsFiniteSet(D), NEW s \in SUBSET D, s # {}
  PROVE  /\ Pick(s) \in s /\ s \ {Pick(s)} \in SUBSET D
         /\ Cardinality(s) \in Nat /\ Cardinality(s \ {Pick(s)}) = Cardinality(s) - 1
<1>1. IsFiniteSet(s) /\ Cardinality(s) \in Nat
  BY FS_Subset, FS_CardinalityType
<1>2. Pick(s) \in s
  BY DEF Pick
<1> QED BY <1>1, <1>2, FS_RemoveElement

\* The recursion has a solution.
LEMMA SumsExist ==
  ASSUME NEW D, IsFiniteSet(D), NEW f
  PROVE  \E g : IsSums(f, g, D)
<1> DEFINE N == {n \in Nat : \E g : SumsUpto(f, g, D, n)}
<1>1. \A s \in SUBSET D : IsFiniteSet(s) /\ Cardinality(s) \in Nat
  BY FS_Subset, FS_CardinalityType
<1>2. 0 \in N
  <2>1. \A s \in Upto(D, 0) : s = {}
    <3>1. \A s \in Upto(D, 0) : Cardinality(s) = 0 /\ IsFiniteSet(s)
      BY <1>1 DEF Upto
    <3> QED BY <3>1, FS_EmptySet
  <2> DEFINE g == [s \in Upto(D, 0) |-> 0]
  <2>2. SumsUpto(f, g, D, 0)
    BY <2>1 DEF SumsUpto
  <2> HIDE DEF g
  <2> QED BY <2>2
<1>3. ASSUME NEW n \in Nat, n \in N PROVE n + 1 \in N
  <2>1. PICK g : SumsUpto(f, g, D, n)
    BY <1>3
  <2> DEFINE h == [s \in Upto(D, n + 1) |-> IF s = {} THEN 0 ELSE f[Pick(s)] + g[s \ {Pick(s)}]]
  <2>2. \A s \in Upto(D, n) : s \in Upto(D, n + 1)
    BY <1>1 DEF Upto
  <2>3. \A s \in Upto(D, n) : h[s] = g[s]
    BY <2>1, <2>2 DEF SumsUpto
  <2>4. \A s \in Upto(D, n + 1) : s # {} => s \ {Pick(s)} \in Upto(D, n)
    <3> SUFFICES ASSUME NEW s \in Upto(D, n + 1), s # {} PROVE s \ {Pick(s)} \in Upto(D, n)
      OBVIOUS
    <3>1. s \in SUBSET D /\ Cardinality(s) <= n + 1
      BY DEF Upto
    <3> QED BY <3>1, PickLess DEF Upto
  <2>5. SumsUpto(f, h, D, n + 1)
    BY <2>3, <2>4 DEF SumsUpto
  <2> HIDE DEF h
  <2> QED BY <2>5
<1>4. Cardinality(D) \in N
  <2>1. Nat \subseteq N
    <3> HIDE DEF N
    <3> QED BY <1>2, <1>3, Induction
  <2> QED BY <2>1, <1>1
<1>5. Upto(D, Cardinality(D)) = SUBSET D
  BY FS_Subset DEF Upto
<1> QED BY <1>4, <1>5 DEF SumsUpto, IsSums

\* The sums of all subsets of the domain of f.
Sums(f, D) == CHOOSE g : IsSums(f, g, D)

LEMMA SumIs ==
  ASSUME NEW D, NEW f, DOMAIN f = D
  PROVE  SumFunction(f) = Sums(f, D)[D]
BY DEF SumFunction, SumFunctionOnSet, FoldFunctionOnSet, MapThenFoldSet, Sums, IsSums, Pick

LEMMA SumsUnfold ==
  ASSUME NEW D, IsFiniteSet(D), NEW f
  PROVE  /\ Sums(f, D)[{}] = 0
         /\ \A s \in SUBSET D :
              s # {} => Sums(f, D)[s] = f[Pick(s)] + Sums(f, D)[s \ {Pick(s)}]
<1>1. IsSums(f, Sums(f, D), D)
  BY SumsExist DEF Sums
<1> QED BY <1>1 DEF IsSums

LEMMA SumsType ==
  ASSUME NEW D, IsFiniteSet(D), NEW f \in [D -> Int]
  PROVE  \A s \in SUBSET D : Sums(f, D)[s] \in Int
<1> DEFINE K == {s \in SUBSET D : Sums(f, D)[s] \in Int}
<1>1. {} \in K
  BY SumsUnfold
<1>2. ASSUME NEW s \in SUBSET D, s # {}, s \ {Pick(s)} \in K PROVE s \in K
  <2>1. Sums(f, D)[s] = f[Pick(s)] + Sums(f, D)[s \ {Pick(s)}]
    BY <1>2, SumsUnfold
  <2>2. f[Pick(s)] \in Int
    BY <1>2, PickLess
  <2> QED BY <2>1, <2>2, <1>2
<1>3. SUBSET D \subseteq K
  <2> HIDE DEF K
  <2> QED BY <1>1, <1>2, SubsetInduction
<1> QED BY <1>3

\* Sums of two functions add up.
LEMMA SumAdds ==
  ASSUME NEW D, IsFiniteSet(D), NEW f \in [D -> Int], NEW h \in [D -> Int], NEW e \in [D -> Int],
         \A k \in D : e[k] = f[k] + h[k]
  PROVE  SumFunction(e) = SumFunction(f) + SumFunction(h)
<1> DEFINE K == {s \in SUBSET D : Sums(e, D)[s] = Sums(f, D)[s] + Sums(h, D)[s]}
<1>1. {} \in K
  BY SumsUnfold
<1>2. ASSUME NEW s \in SUBSET D, s # {}, s \ {Pick(s)} \in K PROVE s \in K
  <2> DEFINE p == Pick(s)
             r == s \ {p}
  <2>1. p \in D /\ r \in SUBSET D
    BY <1>2, PickLess
  <2>2. /\ Sums(e, D)[s] = e[p] + Sums(e, D)[r]
        /\ Sums(f, D)[s] = f[p] + Sums(f, D)[r]
        /\ Sums(h, D)[s] = h[p] + Sums(h, D)[r]
    BY <1>2, SumsUnfold
  <2>3. Sums(f, D)[r] \in Int /\ Sums(h, D)[r] \in Int /\ f[p] \in Int /\ h[p] \in Int
    BY <2>1, SumsType
  <2>4. e[p] = f[p] + h[p] /\ Sums(e, D)[r] = Sums(f, D)[r] + Sums(h, D)[r]
    BY <1>2, <2>1
  <2> HIDE DEF p, r
  <2> QED BY <2>2, <2>3, <2>4
<1>3. SUBSET D \subseteq K
  <2> HIDE DEF K
  <2> QED BY <1>1, <1>2, SubsetInduction
<1>4. Sums(e, D)[D] = Sums(f, D)[D] + Sums(h, D)[D]
  BY <1>3
<1> QED BY <1>4, SumIs

\* A sum of m for each of the elements of up.
LEMMA SumCounts ==
  ASSUME NEW D, IsFiniteSet(D), NEW up \in SUBSET D, NEW m \in Int, NEW e,
         e = [k \in D |-> IF k \in up THEN m ELSE 0]
  PROVE  SumFunction(e) = m * Cardinality(up)
<1> DEFINE K == {s \in SUBSET D : Sums(e, D)[s] = m * Cardinality(s \cap up)}
<1>1. {} \in K
  <2>1. {} \cap up = {} /\ Cardinality({}) = 0 /\ m * 0 = 0
    BY FS_EmptySet
  <2> QED BY <2>1, SumsUnfold
<1>2. ASSUME NEW s \in SUBSET D, s # {}, s \ {Pick(s)} \in K PROVE s \in K
  <2> DEFINE p == Pick(s)
             r == s \ {p}
  <2>1. p \in s /\ p \in D /\ r \in SUBSET D
    BY <1>2, PickLess
  <2>2. Sums(e, D)[s] = e[p] + Sums(e, D)[r] /\ Sums(e, D)[r] = m * Cardinality(r \cap up)
    BY <1>2, SumsUnfold
  <2>3. IsFiniteSet(s \cap up) /\ IsFiniteSet(r \cap up) /\ Cardinality(r \cap up) \in Nat
    BY <2>1, FS_Subset, FS_CardinalityType
  <2>4. CASE p \in up
    <3>1. s \cap up = (r \cap up) \cup {p} /\ p \notin r \cap up
      BY <2>1, <2>4
    <3>2. Cardinality(s \cap up) = Cardinality(r \cap up) + 1
      BY <3>1, <2>3, FS_AddElement
    <3>3. e[p] = m
      BY <2>1, <2>4
    <3> HIDE DEF r, p
    <3>4. m * (Cardinality(r \cap up) + 1) = m + m * Cardinality(r \cap up)
      BY <2>3
    <3> QED BY <3>2, <3>3, <3>4, <2>2
  <2>5. CASE p \notin up
    <3>1. s \cap up = r \cap up
      BY <2>1, <2>5
    <3>2. e[p] = 0
      BY <2>1, <2>5
    <3> HIDE DEF r, p
    <3>3. m * Cardinality(r \cap up) \in Int
      BY <2>3
    <3>4. Sums(e, D)[r] \in Int
      BY <3>3, <2>2
    <3>5. Sums(e, D)[s] = Sums(e, D)[r]
      BY <3>2, <3>4, <2>2
    <3>6. Sums(e, D)[s] = m * Cardinality(s \cap up)
      BY <3>1, <3>5, <2>2, Zenon
    <3> QED BY <3>6
  <2> QED BY <2>4, <2>5
<1>3. SUBSET D \subseteq K
  <2> HIDE DEF K
  <2> QED BY <1>1, <1>2, SubsetInduction
<1>4. Sums(e, D)[D] = m * Cardinality(D \cap up) /\ D \cap up = up
  BY <1>3
<1> QED BY <1>4, SumIs

LEMMA SumType ==
  ASSUME NEW D, IsFiniteSet(D), NEW f \in [D -> Int]
  PROVE  SumFunction(f) \in Int
BY SumsType, SumIs

-----------------------------------------------------------------------------
(* Rescaling *)

LEMMA DivisionOf ==
  ASSUME NEW L \in Nat \ {0}, NEW n \in Int, NEW q \in Int, NEW r \in 0..(L - 1), n = L * q + r
  PROVE  n \div L = q /\ n % L = r
<1> DEFINE s == n \div L
           t == n % L
<1>1. s \in Int /\ t \in 0..(L - 1) /\ n = L * s + t
  OBVIOUS
<1> HIDE DEF s, t
<1>2. L * (q - s) = t - r
  BY <1>1
<1>3. q - s = 0
  <2> DEFINE a == q - s
  <2>1. a \in Int /\ L * a \in (1 - L)..(L - 1)
    BY <1>1, <1>2
  <2> HIDE DEF a
  <2>2. a >= 1 => L * a >= L
    BY <2>1
  <2>3. a <= -1 => L * a <= -L
    BY <2>1
  <2>4. a = 0
    BY <2>1, <2>2, <2>3
  <2> QED BY <2>4 DEF a
<1>4. s = q
  BY <1>1, <1>3
<1>5. t = r
  BY <1>1, <1>4
<1> QED BY <1>4, <1>5 DEF s, t

LEMMA DividedInto ==
  ASSUME NEW L \in Nat \ {0}, NEW n \in Int
  PROVE  /\ n \div L \in Int /\ n % L \in 0..(L - 1)
         /\ n = L * (n \div L) + (n % L)
OBVIOUS

LEMMA DivisionShifts ==
  ASSUME NEW L \in Nat \ {0}, NEW n \in Int, NEW a \in Int
  PROVE  /\ (L * a + n) \div L = a + n \div L
         /\ (L * a + n) % L = n % L
<1> DEFINE q == n \div L
           r == n % L
<1>1. q \in Int /\ r \in 0..(L - 1) /\ n = L * q + r
  BY DividedInto
<1> HIDE DEF q, r
<1>2. L * a + n = L * (a + q) + r
  BY <1>1
<1>3. L * a + n \in Int /\ a + q \in Int
  BY <1>1
<1>4. (L * a + n) \div L = a + q /\ (L * a + n) % L = r
  BY <1>1, <1>2, <1>3, DivisionOf
<1> QED BY <1>4 DEF q, r

\* The points a class is short of.
Short(c) == ClassPoints - SumFunction(c)

\* Class c with q points more in each stat, and m more in those of up.
Shifted(c, q, m, up) == [k \in 1..Len(c) |-> IF k \in up THEN c[k] + q + m ELSE c[k] + q]

LEMMA IntervalFinite ==
  ASSUME NEW L \in Nat
  PROVE  IsFiniteSet(1..L) /\ Cardinality(1..L) = L
BY FS_Interval

\* The sum over a class that is raised.
LEMMA SumShifted ==
  ASSUME NEW c \in Seq(Int), NEW q \in Int, NEW m \in Int, NEW up \in SUBSET (1..Len(c))
  PROVE  /\ SumFunction(c) \in Int /\ Cardinality(up) \in Nat
         /\ SumFunction(Shifted(c, q, m, up)) \in Int
         /\ SumFunction(Shifted(c, q, m, up)) = SumFunction(c) + q * Len(c) + m * Cardinality(up)
<1> DEFINE D == 1..Len(c)
<1> DEFINE d == Shifted(c, q, m, up)
<1>1. Len(c) \in Nat /\ c \in [D -> Int]
  OBVIOUS
<1>2. IsFiniteSet(D) /\ Cardinality(D) = Len(c)
  BY <1>1, IntervalFinite
<1>3. Cardinality(up) \in Nat
  BY <1>2, FS_Subset, FS_CardinalityType
<1> DEFINE e == [k \in D |-> IF k \in D THEN q ELSE 0]
           u == [k \in D |-> c[k] + q]
           g == [k \in D |-> IF k \in up THEN m ELSE 0]
<1> HIDE DEF D
<1>4. e \in [D -> Int] /\ u \in [D -> Int] /\ g \in [D -> Int] /\ d \in [D -> Int]
  BY <1>1 DEF D, Shifted
<1>5. SumFunction(e) = q * Len(c)
  <2>1. SumFunction(e) = q * Cardinality(D)
    BY <1>2, SumCounts
  <2> QED BY <2>1, <1>2
<1>6. SumFunction(u) = SumFunction(c) + SumFunction(e)
  <2>1. \A k \in D : u[k] = c[k] + e[k]
    OBVIOUS
  <2> HIDE DEF u, e
  <2>2. c \in [D -> Int]
    BY <1>1
  <2>3. \A f, h, w \in [D -> Int] :
          (\A k \in D : w[k] = f[k] + h[k]) => SumFunction(w) = SumFunction(f) + SumFunction(h)
    BY <1>2, SumAdds
  <2> QED BY <2>1, <2>2, <2>3, <1>4
<1>7. SumFunction(g) = m * Cardinality(up)
  <2>1. up \in SUBSET D
    BY DEF D
  <2>2. \A f : f = g => SumFunction(f) = m * Cardinality(up)
    BY <2>1, <1>2, SumCounts, Zenon
  <2> QED BY <2>2, Zenon
<1>8. SumFunction(d) = SumFunction(u) + SumFunction(g)
  <2>1. \A k \in D : d[k] = u[k] + g[k]
    BY <1>1 DEF D, Shifted
  <2> HIDE DEF u, g, d
  <2>3. \A f, h, w \in [D -> Int] :
          (\A k \in D : w[k] = f[k] + h[k]) => SumFunction(w) = SumFunction(f) + SumFunction(h)
    BY <1>2, SumAdds
  <2> QED BY <2>1, <2>3, <1>4, Zenon
<1>9. SumFunction(c) \in Int /\ SumFunction(d) \in Int
  BY <1>1, <1>2, <1>4, SumType
<1> QED BY <1>3, <1>5, <1>6, <1>7, <1>8, <1>9

\* Whatever doubles are cut, and whichever stats among equals are raised, all
\* stats change by the same, and as many as are left over by one more.
LEMMA RescaledIs ==
  ASSUME NEW c \in Seq(Int), Len(c) > 0, NEW d \in Rescalings(c)
  PROVE  \E up \in SUBSET (1..Len(c)) :
           /\ Cardinality(up) = Short(c) % Len(c)
           /\ d = Shifted(c, Short(c) \div Len(c), 1, up)
<1> DEFINE L == Len(c)
           D == 1..L
           x == Short(c)
           q == x \div L
           r == x % L
<1>1. L \in Nat \ {0} /\ DOMAIN c = D /\ \A k \in D : c[k] \in Int
  OBVIOUS
<1>2. IsFiniteSet(D)
  BY <1>1, IntervalFinite
<1>3. SumFunction(c) \in Int /\ x \in Int
  <2>1. c \in [D -> Int]
    BY <1>1
  <2> HIDE DEF D
  <2> QED BY <2>1, <1>2, SumType, ClassAssumption DEF Short
<1> HIDE DEF L, D, x
<1>4. q \in Int /\ r \in 0..(L - 1) /\ x = L * q + r
  BY <1>1, <1>3, DividedInto
<1>5. \A k \in D : /\ Projected(c, k) = L * c[k] + x
                   /\ Projected(c, k) \div L = c[k] + q
                   /\ Projected(c, k) % L = r
  <2> SUFFICES ASSUME NEW k \in D
               PROVE  /\ Projected(c, k) = L * c[k] + x
                      /\ Projected(c, k) \div L = c[k] + q
                      /\ Projected(c, k) % L = r
    OBVIOUS
  <2>1. c[k] \in Int
    BY <1>1
  <2>2. Projected(c, k) = L * c[k] + x
    <3>1. L * c[k] \in Int
      BY <2>1, <1>1
    <3> QED BY <3>1, <1>3, ClassAssumption DEF Projected, L, x, Short
  <2>3. (L * c[k] + x) \div L = c[k] + q /\ (L * c[k] + x) % L = r
    BY <2>1, <1>1, <1>3, DivisionShifts
  <2> QED BY <2>2, <2>3, Zenon
<1> HIDE DEF q, r
<1>6. PICK t \in Cuts(c) : \E u0 \in Raised(c, t) : d = Plus(t, u0)
  BY DEF Rescalings
<1>14. PICK u0 \in Raised(c, t) : d = Plus(t, u0)
  BY <1>6
<1>7. PICK low \in SUBSET Exact(c) :
        t = [k \in D |-> Projected(c, k) \div L - (IF k \in low THEN 1 ELSE 0)]
  BY <1>6, <1>1 DEF Cuts, L
<1>8. low \in SUBSET D /\ (r # 0 => low = {})
  BY <1>1, <1>5 DEF Exact, L
<1>9. t = [k \in D |-> IF k \in low THEN c[k] + q + (-1) ELSE c[k] + q]
  BY <1>1, <1>4, <1>5, <1>7
<1>10. u0 \in SUBSET D /\ Cardinality(u0) = ClassPoints - SumFunction(t)
  BY <1>14, <1>1 DEF Raised
<1>11. Cardinality(u0) = r + Cardinality(low) /\ Cardinality(low) \in Nat
  <2>1. /\ SumFunction(t) = SumFunction(c) + q * L + (-1) * Cardinality(low)
        /\ Cardinality(low) \in Nat /\ SumFunction(t) \in Int
    <3>1. /\ low \in SUBSET (1..Len(c)) /\ q \in Int /\ -1 \in Int
          /\ t = Shifted(c, q, -1, low)
      BY <1>4, <1>8, <1>9 DEF D, L, Shifted
    <3> QED BY <3>1, SumShifted DEF L
  <2>2. q * L \in Int /\ q * L = L * q
    BY <1>1, <1>4
  <2>3. (-1) * Cardinality(low) = -Cardinality(low)
    BY <2>1
  <2>4. ClassPoints - SumFunction(c) = L * q + r
    BY <1>4 DEF x, Short
  <2>5. ClassPoints \in Nat
    BY ClassAssumption
  <2>6. Cardinality(u0) = ClassPoints - SumFunction(t)
    BY <1>10
  <2> DEFINE z == L * q
             sc == SumFunction(c)
             st == SumFunction(t)
  <2>7. z \in Int /\ st = sc + z - Cardinality(low) /\ ClassPoints - sc = z + r
    BY <2>1, <2>2, <2>3, <2>4, <1>3
  <2>8. sc \in Int /\ st \in Int /\ Cardinality(u0) = ClassPoints - st /\ r \in Int
        /\ Cardinality(low) \in Nat
    BY <2>1, <2>6, <1>3, <1>4
  <2> HIDE DEF z, sc, st
  <2> QED BY <2>5, <2>7, <2>8
<1>12. CASE r # 0
  <2>1. low = {} /\ Cardinality(u0) = r
    <3>1. low = {}
      BY <1>8, <1>12
    <3> QED BY <3>1, <1>4, <1>11, FS_EmptySet
  <2>2. d = Shifted(c, q, 1, u0)
    BY <1>1, <1>4, <1>14, <1>9, <2>1 DEF Shifted, Plus, D, L
  <2> QED BY <2>1, <2>2, <1>10 DEF q, r, x, D, L
<1>13. CASE r = 0
  <2>1. \A k \in D : Lost(c, t, k) = IF k \in low THEN L ELSE 0
    <3> SUFFICES ASSUME NEW k \in D PROVE Lost(c, t, k) = IF k \in low THEN L ELSE 0
      OBVIOUS
    <3>1. Projected(c, k) = L * (c[k] + q)
      <4>1. Projected(c, k) = L * c[k] + L * q
        BY <1>1, <1>4, <1>5, <1>13
      <4> QED BY <4>1, <1>1, <1>4
    <3>2. Lost(c, t, k) = L * (c[k] + q) - L * t[k]
      BY <3>1 DEF Lost, L
    <3>3. CASE k \in low
      <4>1. t[k] = c[k] + q - 1
        BY <1>1, <1>4, <1>9, <3>3
      <4>2. L * (c[k] + q - 1) = L * (c[k] + q) - L
        BY <1>1, <1>4
      <4> QED BY <3>2, <3>3, <4>1, <4>2, <1>1, <1>4
    <3>4. CASE k \notin low
      <4>1. t[k] = c[k] + q
        BY <1>1, <1>4, <1>9, <3>4
      <4> QED BY <3>2, <3>4, <4>1, <1>1, <1>4
    <3> QED BY <3>3, <3>4
  <2>2. \A k \in u0, l \in D \ u0 : Lost(c, t, k) >= Lost(c, t, l)
    BY <1>14, <1>1 DEF Raised
  <2>3. u0 \subseteq low \/ low \subseteq u0
    BY <2>1, <2>2, <1>1, <1>8, <1>10
  <2>4. Cardinality(u0) = Cardinality(low)
    BY <1>11, <1>13
  <2>5. IsFiniteSet(low) /\ IsFiniteSet(u0)
    BY <1>2, <1>8, <1>10, FS_Subset
  <2>6. u0 = low
    BY <2>3, <2>4, <2>5, FS_Subset
  <2>7. d = Shifted(c, q, 1, {})
    <3>1. d = [k \in D |-> IF k \in low THEN t[k] + 1 ELSE t[k]]
      BY <1>14, <1>9, <2>6 DEF Plus
    <3>2. \A k \in D : d[k] = c[k] + q
      BY <3>1, <1>1, <1>4, <1>9
    <3> QED BY <3>1, <3>2 DEF Shifted, D, L
  <2>8. Cardinality({}) = r
    BY <1>13, FS_EmptySet
  <2> QED BY <2>7, <2>8 DEF q, r, x, D, L
<1> QED BY <1>12, <1>13

\* Rescaled, a class has ClassPoints points, no stat has overtaken a higher
\* one, and rescaled again it stays.
LEMMA Rescaled ==
  ASSUME NEW c \in Seq(Int), Len(c) > 0, NEW d \in Rescalings(c)
  PROVE  /\ d \in Seq(Int) /\ Len(d) = Len(c) /\ SumFunction(d) = ClassPoints
         /\ \A k, l \in DOMAIN c : c[k] < c[l] => d[k] <= d[l]
         /\ SumFunction(c) = ClassPoints => d = c
         /\ \A k \in 1..Len(c) : /\ d[k] >= c[k] + (Short(c) \div Len(c))
                                 /\ d[k] <= c[k] + (Short(c) \div Len(c)) + 1
<1> DEFINE L == Len(c)
           x == Short(c)
           q == x \div L
           r == x % L
<1>1. L \in Nat \ {0} /\ DOMAIN c = 1..L /\ \A k \in 1..L : c[k] \in Int
  OBVIOUS
<1>2. PICK up \in SUBSET (1..L) : Cardinality(up) = r /\ d = Shifted(c, q, 1, up)
  BY RescaledIs
<1>3. x \in Int /\ SumFunction(c) \in Int /\ x = ClassPoints - SumFunction(c)
  <2>1. IsFiniteSet(1..L) /\ c \in [1..L -> Int]
    BY <1>1, IntervalFinite
  <2>2. SumFunction(c) \in Int
    BY <2>1, SumType
  <2> QED BY <2>2, ClassAssumption DEF Short
<1> HIDE DEF x, L
<1>4. q \in Int /\ r \in 0..(L - 1) /\ x = L * q + r
  BY <1>1, <1>3, DividedInto
<1>5. x = 0 => q = 0 /\ r = 0
  <2>1. 0 = L * 0 + 0
    BY <1>1
  <2> QED BY <2>1, <1>1, DivisionOf
<1> HIDE DEF q, r
<1>6. d = [k \in 1..L |-> IF k \in up THEN c[k] + q + 1 ELSE c[k] + q]
  BY <1>2 DEF Shifted, L
<1>7. d \in Seq(Int) /\ Len(d) = L
  BY <1>1, <1>4, <1>6
<1>8. SumFunction(d) = ClassPoints
  <2>1. /\ SumFunction(d) \in Int
        /\ SumFunction(d) = SumFunction(c) + q * L + 1 * Cardinality(up)
    BY <1>2, <1>4, SumShifted DEF L
  <2>2. L * q \in Int /\ q * L = L * q /\ 1 * Cardinality(up) = r
    BY <1>1, <1>2, <1>4
  <2> DEFINE z == L * q
  <2>3. SumFunction(d) = SumFunction(c) + z + r /\ z \in Int
    BY <2>1, <2>2
  <2>4. ClassPoints - SumFunction(c) = z + r
    BY <1>3, <1>4
  <2> HIDE DEF z
  <2> QED BY <2>1, <2>3, <2>4, <1>3, <1>4, ClassAssumption
<1>9. \A k, l \in DOMAIN c : c[k] < c[l] => d[k] <= d[l]
  BY <1>1, <1>4, <1>6
<1>10. SumFunction(c) = ClassPoints => d = c
  <2> SUFFICES ASSUME SumFunction(c) = ClassPoints PROVE d = c
    OBVIOUS
  <2>1. x = 0
    BY <1>3
  <2>2. q = 0 /\ Cardinality(up) = 0
    BY <2>1, <1>2, <1>5
  <2>3. up = {}
    BY <2>2, <1>1, <1>2, IntervalFinite, FS_Subset, FS_EmptySet
  <2>4. d = [k \in 1..L |-> c[k]]
    BY <2>2, <2>3, <1>1, <1>6
  <2> QED BY <2>4, <1>1
<1>11. \A k \in 1..L : d[k] >= c[k] + q /\ d[k] <= c[k] + q + 1
  BY <1>1, <1>4, <1>6
<1> QED BY <1>7, <1>8, <1>9, <1>10, <1>11 DEF L, x, q

\* The classes there are after rescaling: with the points of all, and no stat
\* at its highest value.
Leveled == {c \in Seq(1..(Top - 1)) : Len(c) >= 3 /\ SumFunction(c) = ClassPoints}

\* One more for a class of the game is in range.
LEMMA ShippedInRange ==
  ASSUME NEW c \in Classes, NEW k \in 1..Len(c)
  PROVE  /\ c[k] + (Short(c) \div Len(c)) >= 1
         /\ c[k] + (Short(c) \div Len(c)) + 1 <= Top - 1
<1> DEFINE L == Len(c)
           x == Short(c)
<1>1. c \in Seq(Nat) /\ L \in Nat \ {0} /\ c[k] \in Nat /\ k \in DOMAIN c
  BY ClassAssumption
<1>2. x \in Int
  <2>1. IsFiniteSet(1..L) /\ c \in [1..L -> Int]
    BY <1>1, IntervalFinite
  <2> QED BY <2>1, SumType, ClassAssumption DEF Short
<1> DEFINE q == x \div L
           r == x % L
<1> HIDE DEF L, x
<1>3. q \in Int /\ r \in 0..(L - 1) /\ x = L * q + r
  BY <1>1, <1>2, DividedInto
<1>4. L * c[k] + x >= L /\ L * c[k] + x < L * (Top - 1)
  <2>1. Projected(c, k) = L * c[k] + x
    <3>1. L * c[k] \in Int /\ SumFunction(c) \in Int
      <4>1. IsFiniteSet(1..L) /\ c \in [1..L -> Int]
        BY <1>1, IntervalFinite DEF L
      <4> QED BY <4>1, <1>1, SumType
    <3> QED BY <3>1, <1>2, ClassAssumption DEF Projected, L, x, Short
  <2>2. Projected(c, k) >= L /\ Projected(c, k) < L * (Top - 1)
    BY <1>1, ClassAssumption, TableAssumption DEF L
  <2> QED BY <2>1, <2>2
<1> HIDE DEF q, r
<1> DEFINE p == c[k] + q
<1>5. p \in Int /\ L * p + r >= L /\ L * p + r < L * (Top - 1)
  <2>1. L * c[k] + L * q = L * (c[k] + q) /\ L * c[k] \in Int /\ L * q \in Int
    BY <1>1, <1>3
  <2> DEFINE y == L * c[k]
             z == L * q
             w == L * (Top - 1)
  <2>2. y + x >= L /\ y + x < w /\ x = z + r /\ L * p = y + z /\ p \in Int
    BY <2>1, <1>1, <1>3, <1>4
  <2>3. y \in Int /\ z \in Int
    BY <2>1
  <2> HIDE DEF y, z, w
  <2>4. L * p + r = y + x
    BY <2>2, <2>3, <1>3
  <2> QED BY <2>2, <2>4 DEF w
<1> HIDE DEF p
<1>6. p >= 1
  <2>1. ASSUME p <= 0 PROVE FALSE
    <3>1. L * p <= 0
      BY <2>1, <1>1, <1>5
    <3> QED BY <3>1, <1>1, <1>3, <1>5
  <2> QED BY <2>1, <1>5
<1>7. p + 1 <= Top - 1
  <2>1. Top \in Nat
    BY TableAssumption
  <2>2. ASSUME p >= Top - 1 PROVE FALSE
    <3>1. L * p >= L * (Top - 1)
      BY <2>1, <2>2, <1>1, <1>5
    <3>2. L * p \in Int /\ L * (Top - 1) \in Int
      BY <2>1, <1>1, <1>5
    <3> QED BY <3>1, <3>2, <1>3, <1>5
  <2> QED BY <2>1, <2>2, <1>5
<1> QED BY <1>6, <1>7 DEF p, q, L, x

\* Rescaling makes leveled classes, and leaves them.
LEMMA RescalingsLeveled ==
  /\ \A c \in Classes : Rescalings(c) \subseteq Leveled
  /\ \A c \in Leveled : Rescalings(c) \subseteq {c}
<1>1. ASSUME NEW c \in Classes, NEW d \in Rescalings(c) PROVE d \in Leveled
  <2>1. c \in Seq(Int) /\ Len(c) >= 3
    BY ClassAssumption
  <2>2. d \in Seq(Int) /\ Len(d) = Len(c) /\ SumFunction(d) = ClassPoints
    BY <2>1, Rescaled
  <2> DEFINE q == Short(c) \div Len(c)
  <2>3. \A k \in 1..Len(c) : d[k] >= c[k] + q /\ d[k] <= c[k] + q + 1
    BY <2>1, Rescaled
  <2>4. \A k \in 1..Len(c) : c[k] + q >= 1 /\ c[k] + q + 1 <= Top - 1
    BY ShippedInRange
  <2>5. \A k \in 1..Len(c) : c[k] \in Int
    BY <2>1
  <2>6. q \in Int
    <3>1. IsFiniteSet(1..Len(c)) /\ c \in [1..Len(c) -> Int] /\ Len(c) \in Nat \ {0}
      BY <2>1, IntervalFinite
    <3>2. Short(c) \in Int
      BY <3>1, SumType, ClassAssumption DEF Short
    <3> QED BY <3>1, <3>2, DividedInto
  <2> HIDE DEF q
  <2>7. \A k \in 1..Len(d) : d[k] \in 1..(Top - 1)
    <3> SUFFICES ASSUME NEW k \in 1..Len(d) PROVE d[k] \in 1..(Top - 1)
      OBVIOUS
    <3>1. /\ d[k] >= c[k] + q /\ d[k] <= c[k] + q + 1 /\ c[k] + q >= 1 /\ c[k] + q + 1 <= Top - 1
          /\ c[k] \in Int
      BY <2>2, <2>3, <2>4, <2>5
    <3>2. d[k] \in Int
      BY <2>2
    <3>3. Top \in Nat
      BY TableAssumption
    <3> QED BY <3>1, <3>2, <3>3, <2>6
  <2>8. d \in Seq(1..(Top - 1))
    <3>1. d \in [1..Len(d) -> 1..(Top - 1)] /\ Len(d) \in Nat
      BY <2>2, <2>7
    <3> DEFINE S == 1..(Top - 1)
    <3> HIDE DEF S
    <3>2. d \in [1..Len(d) -> S]
      BY <3>1 DEF S
    <3>3. d \in Seq(S)
      BY <3>1, <3>2
    <3> QED BY <3>3 DEF S
  <2> QED BY <2>1, <2>2, <2>8 DEF Leveled
<1>2. ASSUME NEW c \in Leveled, NEW d \in Rescalings(c) PROVE d = c
  <2>1. c \in Seq(Int) /\ Len(c) > 0 /\ SumFunction(c) = ClassPoints
    <3>1. c \in Seq(1..(Top - 1)) /\ Len(c) >= 3 /\ SumFunction(c) = ClassPoints
      BY DEF Leveled
    <3>2. 1..(Top - 1) \subseteq Int
      BY TableAssumption
    <3>3. c \in Seq(Int)
      BY <3>1, <3>2, SeqWidens
    <3> QED BY <3>1, <3>3
  <2> QED BY <2>1, Rescaled
<1> QED BY <1>1, <1>2

\* The class is one of the game until it is rescaled, then one of the leveled.
Classed ==
  /\ class \in Classes \cup Leveled
  /\ pc # "start" => class \in Leveled

LEMMA ClassedInit == Init => Classed
BY DEF Init, Classed

LEMMA ClassedNext ==
  ASSUME Classed, [Next]_vars
  PROVE  /\ Classed'
         /\ class' # class => class' \in Rescalings(class)
<1>1. CASE Rescale
  BY <1>1, RescalingsLeveled DEF Classed, Rescale
<1>2. CASE class' = class /\ pc \notin {"start"}
  BY <1>2 DEF Classed
<1>3. CASE UNCHANGED vars
  BY <1>3 DEF Classed, vars
<1>4. CASE Next /\ ~Rescale
  <2>1. class' = class /\ pc # "start"
    BY <1>4 DEF Next, Begin, LookUp, TrySplit, Remember, Emit, Rate, Offer, Recommend, Return
  <2> QED BY <2>1, <1>2
<1> QED BY <1>1, <1>3, <1>4

LEMMA ClassedSeq ==
  ASSUME NEW c \in Classes \cup Leveled
  PROVE  c \in Seq(Int) /\ Len(c) > 0 /\ c \in Seq(Stat) /\ Len(c) >= 3
<1>1. CASE c \in Classes
  <2>1. c \in Seq(Nat) /\ Len(c) >= 3 /\ c \in Seq(Stat)
    BY <1>1, ClassAssumption, TableAssumption
  <2>2. c \in Seq(Int)
    BY <2>1
  <2> QED BY <2>1, <2>2
<1>2. CASE c \in Leveled
  <2>1. c \in Seq(1..(Top - 1)) /\ Len(c) >= 3
    BY <1>2 DEF Leveled
  <2>2. 1..(Top - 1) \subseteq Int /\ 1..(Top - 1) \subseteq Stat
    BY TableAssumption DEF Stat
  <2>3. c \in Seq(Int) /\ c \in Seq(Stat)
    BY <2>1, <2>2, SeqWidens
  <2> QED BY <2>1, <2>3
<1> QED BY <1>1, <1>2

\* For all classes: however the doubles of project() are cut, a rescaled class
\* has STARTING_CLASS_STAT_POINTS points and keeps the order of its stats.
THEOREM ClassesLevelAlways == Spec => ClassesLevel
<1>1. ASSUME Classed, [Next]_vars, class' # class
      PROVE  /\ SumFunction(class') = ClassPoints
             /\ \A k, l \in DOMAIN class : class[k] < class[l] => class'[k] <= class'[l]
  <2>1. class' \in Rescalings(class)
    BY <1>1, ClassedNext
  <2>2. class \in Seq(Int) /\ Len(class) > 0
    BY <1>1, ClassedSeq DEF Classed
  <2> QED BY <2>1, <2>2, Rescaled
<1>2. Classed /\ [Next]_vars => Classed'
  BY ClassedNext
<1>3. Classed /\ [Next]_vars =>
        [class' # class => /\ SumFunction(class') = ClassPoints
                           /\ \A k, l \in DOMAIN class :
                                class[k] < class[l] => class'[k] <= class'[l]]_vars
  BY <1>1
<1> QED BY <1>2, <1>3, ClassedInit, PTL DEF Spec, ClassesLevel

\* For all classes: once a class has the points, rescaling it again, as every
\* entry point does, changes nothing, whatever doubles are cut.
THEOREM ClassesSettleAlways == Spec => ClassesSettle
<1>1. ASSUME Classed, [Next]_vars, SumFunction(class) = ClassPoints
      PROVE  class' = class
  <2>1. class' # class => class' \in Rescalings(class)
    BY <1>1, ClassedNext
  <2>2. class \in Seq(Int) /\ Len(class) > 0
    BY <1>1, ClassedSeq DEF Classed
  <2> QED BY <2>1, <2>2, <1>1, Rescaled
<1>2. Classed /\ [Next]_vars => Classed'
  BY ClassedNext
<1>3. Classed /\ [Next]_vars => [SumFunction(class) = ClassPoints => class' = class]_vars
  BY <1>1
<1> QED BY <1>2, <1>3, ClassedInit, PTL DEF Spec, ClassesSettle

-----------------------------------------------------------------------------
(* The heap *)

\* Of builds 1..r with the scores s, those in the heap h and those printed, in
\* the order p, are the m best; the bottom of the heap comes next.
Ranked(L, s, m, r, h, p) ==
  /\ r \in 0..L /\ h \subseteq 1..r /\ p \in Seq(1..r)
  /\ r < L => p = << >>
  /\ Cardinality(h) + Len(p) = Limit(m, r)
  /\ \A k \in 1..Len(p) : p[k] \notin h /\ \A n \in h : s[p[k]] <= s[n]
  /\ \A k, l \in 1..Len(p) : k < l => p[k] # p[l] /\ s[p[k]] <= s[p[l]]
  /\ \A d \in (1..r) \ h : (\A k \in 1..Len(p) : p[k] # d) =>
       /\ \A n \in h : s[d] <= s[n]
       /\ \A k \in 1..Len(p) : s[d] <= s[p[k]]

LEMMA EmptyRanked ==
  ASSUME NEW L \in Nat, NEW s, NEW m \in Nat
  PROVE  Ranked(L, s, m, 0, {}, << >>)
<1>1. Cardinality({}) = 0
  BY FS_EmptySet
<1> QED BY <1>1 DEF Ranked, Limit

\* There is room: the next build goes in.
LEMMA AddRanked ==
  ASSUME NEW L \in Nat, NEW s \in [1..L -> Int], NEW m \in Nat, NEW r, NEW h, NEW p,
         Ranked(L, s, m, r, h, p), r < L, Cardinality(h) < m
  PROVE  Ranked(L, s, m, r + 1, h \cup {r + 1}, p)
<1>1. /\ r \in Nat /\ h \subseteq 1..r /\ p = << >>
      /\ Cardinality(h) + Len(p) = Limit(m, r)
  BY DEF Ranked
<1>2. IsFiniteSet(1..r) /\ Cardinality(1..r) = r
  BY <1>1, FS_Interval
<1>3. IsFiniteSet(h) /\ Cardinality(h) \in Nat
  BY <1>1, <1>2, FS_Subset, FS_CardinalityType
<1>4. Cardinality(h) = r /\ r < m
  BY <1>1, <1>3 DEF Limit
<1>5. h = 1..r
  BY <1>1, <1>2, <1>4, FS_Subset
<1>6. Cardinality(h \cup {r + 1}) = r + 1
  <2>1. r + 1 \notin h
    BY <1>1
  <2> QED BY <2>1, <1>3, <1>4, FS_AddElement
<1>7. h \cup {r + 1} = 1..(r + 1)
  BY <1>1, <1>5
<1> QED BY <1>1, <1>4, <1>6, <1>7, SMTT(30) DEF Ranked, Limit

\* There is none, and the next build has to do without.
LEMMA PassRanked ==
  ASSUME NEW L \in Nat, NEW s \in [1..L -> Int], NEW m \in Nat, NEW r, NEW h, NEW p,
         Ranked(L, s, m, r, h, p), r < L, ~(Cardinality(h) < m),
         NEW n \in h, \A k \in h : s[n] <= s[k], s[n] > s[r + 1]
  PROVE  Ranked(L, s, m, r + 1, h, p)
<1>1. /\ r \in Nat /\ h \subseteq 1..r /\ p = << >>
      /\ Cardinality(h) + Len(p) = Limit(m, r)
      /\ \A d \in (1..r) \ h : \A k \in h : s[d] <= s[k]
  <2>1. r \in 0..L /\ h \subseteq 1..r /\ p = << >>
    BY DEF Ranked
  <2>2. \A k \in 1..Len(p) : FALSE
    BY <2>1
  <2> QED BY <2>1, <2>2 DEF Ranked
<1>2. IsFiniteSet(h) /\ Cardinality(h) \in Nat
  <2>1. IsFiniteSet(1..r)
    BY <1>1, FS_Interval
  <2> QED BY <2>1, <1>1, FS_Subset, FS_CardinalityType
<1>3. Cardinality(h) = m /\ m <= r
  BY <1>1, <1>2 DEF Limit
<1>4. \A d \in (1..(r + 1)) \ h : \A k \in h : s[d] <= s[k]
  <2> SUFFICES ASSUME NEW d \in (1..(r + 1)) \ h, NEW k \in h PROVE s[d] <= s[k]
    OBVIOUS
  <2>1. s[d] \in Int /\ s[k] \in Int /\ s[n] \in Int
    BY <1>1
  <2>2. CASE d = r + 1
    BY <2>1, <2>2
  <2>3. CASE d # r + 1
    BY <2>3, <1>1
  <2> QED BY <2>2, <2>3
<1>5. h \subseteq 1..(r + 1) /\ r + 1 \in 0..L /\ p \in Seq(1..(r + 1)) /\ Len(p) = 0
  BY <1>1
<1>6. Cardinality(h) + Len(p) = Limit(m, r + 1)
  BY <1>1, <1>3, <1>5 DEF Limit
<1> QED BY <1>1, <1>4, <1>5, <1>6 DEF Ranked

\* There is none, and the bottom of the heap gives way.
LEMMA ReplaceRanked ==
  ASSUME NEW L \in Nat, NEW s \in [1..L -> Int], NEW m \in Nat, NEW r, NEW h, NEW p,
         Ranked(L, s, m, r, h, p), r < L, ~(Cardinality(h) < m),
         NEW n \in h, \A k \in h : s[n] <= s[k], ~(s[n] > s[r + 1])
  PROVE  Ranked(L, s, m, r + 1, (h \ {n}) \cup {r + 1}, p)
<1> DEFINE g == (h \ {n}) \cup {r + 1}
<1>1. /\ r \in Nat /\ h \subseteq 1..r /\ p = << >>
      /\ Cardinality(h) + Len(p) = Limit(m, r)
      /\ \A d \in (1..r) \ h : \A k \in h : s[d] <= s[k]
  <2>1. r \in 0..L /\ h \subseteq 1..r /\ p = << >>
    BY DEF Ranked
  <2>2. \A k \in 1..Len(p) : FALSE
    BY <2>1
  <2> QED BY <2>1, <2>2 DEF Ranked
<1>2. IsFiniteSet(h) /\ Cardinality(h) \in Nat
  <2>1. IsFiniteSet(1..r)
    BY <1>1, FS_Interval
  <2> QED BY <2>1, <1>1, FS_Subset, FS_CardinalityType
<1>3. Cardinality(h) = m /\ m <= r
  BY <1>1, <1>2 DEF Limit
<1>4. Cardinality(g) = m
  <2>1. IsFiniteSet(h \ {n}) /\ Cardinality(h \ {n}) = m - 1
    BY <1>2, <1>3, FS_RemoveElement
  <2>2. r + 1 \notin h \ {n}
    BY <1>1
  <2>3. Cardinality(g) = m - 1 + 1
    BY <2>1, <2>2, FS_AddElement
  <2> QED BY <2>3
<1>5. \A d \in (1..(r + 1)) \ g : \A k \in g : s[d] <= s[k]
  <2> SUFFICES ASSUME NEW d \in (1..(r + 1)) \ g, NEW k \in g PROVE s[d] <= s[k]
    OBVIOUS
  <2>1. d \in 1..r /\ s[d] \in Int /\ s[k] \in Int /\ s[n] \in Int /\ s[r + 1] \in Int
    BY <1>1
  <2>2. s[d] <= s[n]
    <3>1. CASE d \in h
      BY <3>1, <2>1
    <3>2. CASE d \notin h
      BY <3>2, <2>1, <1>1
    <3> QED BY <3>1, <3>2
  <2>3. s[n] <= s[k]
    <3>1. CASE k = r + 1
      BY <3>1, <2>1
    <3>2. CASE k \in h
      BY <3>2
    <3> QED BY <3>1, <3>2
  <2> QED BY <2>1, <2>2, <2>3
<1>6. g \subseteq 1..(r + 1) /\ r + 1 \in 0..L /\ p \in Seq(1..(r + 1)) /\ Len(p) = 0
  BY <1>1
<1>7. Cardinality(g) + Len(p) = Limit(m, r + 1)
  BY <1>1, <1>3, <1>4, <1>6 DEF Limit
<1> QED BY <1>1, <1>5, <1>6, <1>7 DEF Ranked

\* The bottom of the heap is printed.
LEMMA PrintRanked ==
  ASSUME NEW L \in Nat, NEW s \in [1..L -> Int], NEW m \in Nat, NEW h, NEW p,
         Ranked(L, s, m, L, h, p), NEW n \in h, \A k \in h : s[n] <= s[k]
  PROVE  Ranked(L, s, m, L, h \ {n}, Append(p, n))
<1> DEFINE q == Append(p, n)
<1> DEFINE g == h \ {n}
<1>1. /\ h \subseteq 1..L /\ p \in Seq(1..L)
      /\ Cardinality(h) + Len(p) = Limit(m, L)
      /\ \A k \in 1..Len(p) : p[k] \notin h /\ \A j \in h : s[p[k]] <= s[j]
      /\ \A k, l \in 1..Len(p) : k < l => p[k] # p[l] /\ s[p[k]] <= s[p[l]]
      /\ \A d \in (1..L) \ h : (\A k \in 1..Len(p) : p[k] # d) =>
           /\ \A j \in h : s[d] <= s[j]
           /\ \A k \in 1..Len(p) : s[d] <= s[p[k]]
  BY DEF Ranked
<1>2. IsFiniteSet(h) /\ Cardinality(h) \in Nat
  <2>1. IsFiniteSet(1..L)
    BY FS_Interval
  <2> QED BY <2>1, <1>1, FS_Subset, FS_CardinalityType
<1>3. /\ q \in Seq(1..L) /\ Len(q) = Len(p) + 1 /\ Len(p) \in Nat
      /\ q[Len(p) + 1] = n /\ \A k \in 1..Len(p) : q[k] = p[k]
  BY <1>1
<1>4. Cardinality(g) + Len(q) = Limit(m, L)
  <2>1. Cardinality(g) = Cardinality(h) - 1
    BY <1>2, FS_RemoveElement
  <2> QED BY <2>1, <1>1, <1>2, <1>3
<1>5. \A k \in 1..Len(q) : q[k] \notin g /\ \A j \in g : s[q[k]] <= s[j]
  <2> SUFFICES ASSUME NEW k \in 1..Len(q)
               PROVE  q[k] \notin g /\ \A j \in g : s[q[k]] <= s[j]
    OBVIOUS
  <2>1. CASE k = Len(p) + 1
    BY <2>1, <1>3
  <2>2. CASE k \in 1..Len(p)
    BY <2>2, <1>3, <1>1
  <2>3. k = Len(p) + 1 \/ k \in 1..Len(p)
    <3> HIDE DEF q, g
    <3> QED BY <1>3
  <2> HIDE DEF q, g
  <2> QED BY <2>1, <2>2, <2>3
<1>6. \A k, l \in 1..Len(q) : k < l => q[k] # q[l] /\ s[q[k]] <= s[q[l]]
  <2> SUFFICES ASSUME NEW k \in 1..Len(q), NEW l \in 1..Len(q), k < l
               PROVE  q[k] # q[l] /\ s[q[k]] <= s[q[l]]
    OBVIOUS
  <2>1. k \in 1..Len(p)
    BY <1>3
  <2>2. CASE l = Len(p) + 1
    BY <2>1, <2>2, <1>3, <1>1
  <2>3. CASE l \in 1..Len(p)
    BY <2>1, <2>3, <1>3, <1>1
  <2>4. l = Len(p) + 1 \/ l \in 1..Len(p)
    <3>1. Len(q) = Len(p) + 1 /\ Len(p) \in Nat
      BY <1>3
    <3> HIDE DEF q
    <3> QED BY <3>1
  <2> QED BY <2>2, <2>3, <2>4
<1>7. \A d \in (1..L) \ g : (\A k \in 1..Len(q) : q[k] # d) =>
        /\ \A j \in g : s[d] <= s[j]
        /\ \A k \in 1..Len(q) : s[d] <= s[q[k]]
  <2> SUFFICES ASSUME NEW d \in (1..L) \ g, \A k \in 1..Len(q) : q[k] # d
               PROVE  /\ \A j \in g : s[d] <= s[j]
                      /\ \A k \in 1..Len(q) : s[d] <= s[q[k]]
    OBVIOUS
  <2>1. Len(p) + 1 \in 1..Len(q) /\ 1..Len(p) \subseteq 1..Len(q)
    BY <1>3
  <2>2. d # n
    BY <2>1, <1>3
  <2>3. d \in (1..L) \ h /\ \A k \in 1..Len(p) : p[k] # d
    BY <2>1, <2>2, <1>3
  <2>4. (\A j \in h : s[d] <= s[j]) /\ \A k \in 1..Len(p) : s[d] <= s[p[k]]
    BY <2>3, <1>1
  <2>5. ASSUME NEW k \in 1..Len(q) PROVE s[d] <= s[q[k]]
    <3>1. CASE k = Len(p) + 1
      BY <3>1, <2>4, <1>3
    <3>2. CASE k \in 1..Len(p)
      BY <3>2, <2>4, <1>3
    <3> QED BY <3>1, <3>2, <1>3, SMTT(30)
  <2> QED BY <2>4, <2>5
<1>8. g \subseteq 1..L /\ L \in 0..L /\ ~(L < L)
  BY <1>1
<1> QED BY <1>3, <1>4, <1>5, <1>6, <1>7, <1>8 DEF Ranked

-----------------------------------------------------------------------------
(* Rows that are near enough *)

\* g are the rows after each of the offers.
IsJoin(rows, offers, g, m) ==
  g = [n \in 0..m |->
         IF n = 0 THEN rows ELSE IF Near(offers[n]) THEN Append(g[n - 1], offers[n]) ELSE g[n - 1]]

\* The loop over the offers comes to its end.
LEMMA JoinExists ==
  ASSUME NEW rows, NEW offers, NEW m \in Nat
  PROVE  \E g : IsJoin(rows, offers, g, m)
<1> DEFINE K == {n \in Nat : \E g : IsJoin(rows, offers, g, n)}
<1>1. 0 \in K
  <2> DEFINE g == [n \in 0..0 |-> rows]
  <2>1. \A n \in 0..0 : n = 0
    OBVIOUS
  <2>2. IsJoin(rows, offers, g, 0)
    BY <2>1 DEF IsJoin
  <2> HIDE DEF g
  <2> QED BY <2>2
<1>2. ASSUME NEW n \in Nat, n \in K PROVE n + 1 \in K
  <2>1. PICK g : IsJoin(rows, offers, g, n)
    BY <1>2
  <2> DEFINE h == [k \in 0..(n + 1) |->
                     IF k = 0 THEN rows
                     ELSE IF Near(offers[k]) THEN Append(g[k - 1], offers[k]) ELSE g[k - 1]]
  <2>2. \A k \in 0..n : h[k] = g[k]
    <3>1. \A k \in 0..n : g[k] = IF k = 0 THEN rows
                                 ELSE IF Near(offers[k]) THEN Append(g[k - 1], offers[k])
                                 ELSE g[k - 1]
      BY <2>1, Zenon DEF IsJoin
    <3>2. \A k \in 0..n : k \in 0..(n + 1)
      OBVIOUS
    <3> QED BY <3>1, <3>2, Zenon
  <2>3. \A k \in 0..(n + 1) : k # 0 => h[k - 1] = g[k - 1]
    <3>1. \A k \in 0..(n + 1) : k # 0 => k - 1 \in 0..n
      OBVIOUS
    <3> HIDE DEF h
    <3> QED BY <2>2, <3>1
  <2>4. IsJoin(rows, offers, h, n + 1)
    BY <2>3, Zenon DEF IsJoin
  <2> HIDE DEF h
  <2> QED BY <2>4
<1>3. Nat \subseteq K
  <2> HIDE DEF K
  <2> QED BY <1>1, <1>2, Induction
<1> QED BY <1>3

\* s are the rows with those of the first m offers that are near.
Joins(rows, offers, m, s) ==
  /\ IsSeq(s) /\ Len(s) >= Len(rows)
  /\ \A n \in 1..Len(rows) : s[n] = rows[n]
  /\ \A n \in (Len(rows) + 1)..Len(s) : Near(s[n])
  /\ \A k \in 1..m : Near(offers[k]) => \E n \in (Len(rows) + 1)..Len(s) : s[n] = offers[k]

LEMMA AppendElements ==
  ASSUME NEW s, IsSeq(s), NEW e
  PROVE  /\ IsSeq(Append(s, e)) /\ Len(s) \in Nat /\ Len(Append(s, e)) = Len(s) + 1
         /\ \A n \in 1..Len(s) : Append(s, e)[n] = s[n]
         /\ Append(s, e)[Len(s) + 1] = e
<1>1. PICK S : s \in Seq(S)
  BY DEF IsSeq
<1>2. s \in Seq(S \cup {e}) /\ e \in S \cup {e}
  BY <1>1, SeqWidens
<1> DEFINE U == S \cup {e}
<1> HIDE DEF U
<1>3. s \in Seq(U) /\ e \in U
  BY <1>2 DEF U
<1>4. /\ Append(s, e) \in Seq(U) /\ Len(s) \in Nat /\ Len(Append(s, e)) = Len(s) + 1
      /\ \A n \in 1..Len(s) : Append(s, e)[n] = s[n]
      /\ Append(s, e)[Len(s) + 1] = e
  BY <1>3
<1> QED BY <1>4 DEF IsSeq

LEMMA JoinsMore ==
  ASSUME NEW rows, IsSeq(rows), NEW offers, NEW m \in Nat, NEW s, Joins(rows, offers, m, s),
         NEW t, t = IF Near(offers[m + 1]) THEN Append(s, offers[m + 1]) ELSE s
  PROVE  Joins(rows, offers, m + 1, t)
<1> DEFINE R == Len(rows)
           S == Len(s)
           e == offers[m + 1]
<1>1. R \in Nat /\ S \in Nat /\ S >= R /\ IsSeq(s)
  BY SeqLength DEF Joins
<1>2. \A k \in 1..(m + 1) : k \in 1..m \/ k = m + 1
  OBVIOUS
<1>3. /\ \A n \in 1..R : s[n] = rows[n]
      /\ \A n \in (R + 1)..S : Near(s[n])
      /\ \A k \in 1..m : Near(offers[k]) => \E n \in (R + 1)..S : s[n] = offers[k]
  BY DEF Joins
<1>4. CASE Near(e)
  <2>1. /\ IsSeq(t) /\ Len(t) = S + 1
        /\ \A n \in 1..S : t[n] = s[n]
        /\ t[S + 1] = e
    BY <1>1, <1>4, AppendElements
  <2> HIDE DEF R, S, e
  <2>2. Len(t) >= R /\ S + 1 \in (R + 1)..Len(t)
    BY <1>1, <2>1
  <2>3. \A n \in 1..R : t[n] = rows[n]
    BY <1>1, <1>3, <2>1
  <2>4. ASSUME NEW n \in (R + 1)..Len(t) PROVE Near(t[n])
    <3>1. CASE n = S + 1
      BY <3>1, <2>1, <1>4
    <3>2. CASE n # S + 1
      <4>1. n \in (R + 1)..S /\ n \in 1..S
        BY <3>2, <1>1, <2>1
      <4> QED BY <4>1, <1>3, <2>1
    <3> QED BY <3>1, <3>2
  <2>5. ASSUME NEW k \in 1..(m + 1), Near(offers[k])
        PROVE  \E n \in (R + 1)..Len(t) : t[n] = offers[k]
    <3>1. CASE k = m + 1
      BY <3>1, <2>1, <2>2 DEF e
    <3>2. CASE k \in 1..m
      <4>1. PICK n \in (R + 1)..S : s[n] = offers[k]
        BY <3>2, <2>5, <1>3
      <4>2. n \in 1..S /\ n \in (R + 1)..Len(t)
        BY <1>1, <2>1
      <4> QED BY <4>1, <4>2, <2>1
    <3> QED BY <3>1, <3>2, <1>2
  <2> QED BY <2>1, <2>2, <2>3, <2>4, <2>5 DEF Joins, R
<1>5. CASE ~Near(e)
  <2>1. t = s
    BY <1>5
  <2>2. \A k \in 1..(m + 1) : Near(offers[k]) => k \in 1..m
    BY <1>2, <1>5
  <2> QED BY <2>1, <2>2, <1>1, <1>3 DEF Joins
<1> QED BY <1>4, <1>5

LEMMA JoinedJoins ==
  ASSUME NEW rows, IsSeq(rows), NEW offers, IsSeq(offers)
  PROVE  Joins(rows, offers, Len(offers), Joined(rows, offers))
<1> DEFINE L == Len(offers)
           g == CHOOSE f : IsJoin(rows, offers, f, L)
<1>1. L \in Nat
  BY SeqLength
<1>2. IsJoin(rows, offers, g, L)
  BY <1>1, JoinExists
<1>3. Joined(rows, offers) = g[L]
  BY DEF Joined, IsJoin
<1> HIDE DEF g, L
<1> DEFINE K == {m \in Nat : m <= L => Joins(rows, offers, m, g[m])}
<1>4. 0 \in K
  <2>1. g[0] = rows
    BY <1>1, <1>2 DEF IsJoin
  <2>2. Len(rows) \in Nat
    BY SeqLength
  <2>3. Joins(rows, offers, 0, rows)
    BY <2>2 DEF Joins
  <2> QED BY <2>1, <2>3
<1>5. ASSUME NEW m \in Nat, m \in K PROVE m + 1 \in K
  <2> SUFFICES ASSUME m + 1 <= L PROVE Joins(rows, offers, m + 1, g[m + 1])
    OBVIOUS
  <2>1. Joins(rows, offers, m, g[m])
    BY <1>1, <1>5
  <2>2. g[m + 1] = IF Near(offers[m + 1]) THEN Append(g[m], offers[m + 1]) ELSE g[m]
    <3>1. m + 1 \in 0..L /\ m + 1 # 0 /\ (m + 1) - 1 = m
      BY <1>1
    <3> QED BY <3>1, <1>2 DEF IsJoin
  <2> QED BY <2>1, <2>2, JoinsMore
<1>6. Nat \subseteq K
  <2> HIDE DEF K
  <2> QED BY <1>4, <1>5, Induction
<1>7. Joins(rows, offers, L, g[L])
  BY <1>1, <1>6
<1> QED BY <1>3, <1>7 DEF L

-----------------------------------------------------------------------------
(* Builds are sequences *)

Sequences ==
  /\ request \in Requests /\ caller \in Callers
  /\ pc \in {"start", "class", "cell", "split", "emit", "rate", "rank", "aborted", "rows", "done"}
  /\ pc = "split" => bests = [j \in 1..Len(Breaks) |-> bests[j]]
  /\ pc = "emit" => IsSeq(bests)
  /\ \A n \in DOMAIN ehpCache : IsSeq(ehpCache[n])
  /\ IsSeq(builds)
  /\ pc \in {"rate", "rank", "aborted", "done"} => caller # "exponentialDecay"

\* Dropping the breakpoints out of reach leaves a sequence.
LEMMA TrimmedIsSeq == IsSeq(Trimmed)
<1> DEFINE kept == {j \in 1..Len(Breaks) : \E k \in j..Len(Breaks) : bests[k].ehp # -1}
<1>1. Len(Breaks) \in Nat
  BY TableAssumption
<1>2. \A j \in kept : 1..j \subseteq kept
  BY <1>1
<1>3. PICK n \in 0..Len(Breaks) : kept = 1..n
  <2> HIDE DEF kept
  <2>1. kept \subseteq 1..Len(Breaks)
    BY DEF kept
  <2> QED BY <1>1, <1>2, <2>1, InitialSegment
<1>4. IsSeq([j \in kept |-> bests[j]])
  <2> HIDE DEF kept
  <2> DEFINE f == [j \in 1..n |-> bests[j]]
  <2>1. f = [j \in 1..n |-> f[j]] /\ n \in Nat
    BY <1>3
  <2>2. IsSeq(f)
    <3> HIDE DEF f
    <3> QED BY <2>1, FunctionIsSeq
  <2> QED BY <1>3, <2>2
<1>5. IsSeq(<<[None EXCEPT !.vigor = 0, !.endurance = 0]>>)
  <2> DEFINE b == [None EXCEPT !.vigor = 0, !.endurance = 0]
  <2> HIDE DEF b
  <2>1. <<b>> \in Seq({b})
    OBVIOUS
  <2> QED BY <2>1 DEF IsSeq, b
<1> QED BY <1>4, <1>5 DEF Trimmed

\* A build for each breakpoint.
LEMMA OfferedIsSeq ==
  ASSUME NEW c, NEW bs, IsSeq(bs)
  PROVE  IsSeq(Offered(c, bs))
<1> DEFINE f == Offered(c, bs)
<1>1. Len(bs) \in Nat
  BY SeqLength
<1>2. f = [j \in 1..Len(bs) |-> f[j]]
  BY DEF Offered
<1> HIDE DEF f
<1>3. IsSeq(f)
  BY <1>1, <1>2, FunctionIsSeq
<1> QED BY <1>3 DEF f

LEMMA SequencesInit == Init => Sequences
<1>1. << >> \in Seq({})
  OBVIOUS
<1> QED BY <1>1 DEF Init, Sequences, IsSeq

LEMMA SequencesNext == Sequences /\ [Next]_vars => Sequences'
<1> SUFFICES ASSUME Sequences, [Next]_vars PROVE Sequences'
  OBVIOUS
<1>1. CASE Rescale
  BY <1>1 DEF Sequences, Rescale
<1>2. CASE Begin
  <2>1. builds' = << >> \/ builds' = <<OwnRow>>
    BY <1>2 DEF Begin
  <2>2. << >> \in Seq({}) /\ <<OwnRow>> \in Seq({OwnRow})
    OBVIOUS
  <2> QED BY <1>2, <2>1, <2>2 DEF Sequences, Begin, IsSeq
<1>3. CASE LookUp
  <2>1. CASE cell.health \in DOMAIN ehpCache
    BY <1>3, <2>1 DEF Sequences, LookUp
  <2>2. CASE cell.health \notin DOMAIN ehpCache
    <3>1. bests' = [j \in 1..Len(Breaks) |-> None] /\ pc' = "split"
      BY <1>3, <2>2 DEF LookUp
    <3>2. bests' = [j \in 1..Len(Breaks) |-> bests'[j]]
      BY <3>1
    <3> QED BY <1>3, <3>1, <3>2 DEF Sequences, LookUp
  <2> QED BY <2>1, <2>2
<1>4. CASE TrySplit
  <2>1. bests' = Improve(Split(i, cell.health))
    BY <1>4 DEF TrySplit
  <2>2. bests' = [j \in 1..Len(Breaks) |-> bests'[j]]
    BY <2>1 DEF Improve
  <2> QED BY <1>4, <2>2 DEF Sequences, TrySplit
<1>5. CASE Remember
  <2>1. IsSeq(bests')
    BY <1>5, TrimmedIsSeq DEF Remember
  <2>2. \A n \in DOMAIN ehpCache' : IsSeq(ehpCache'[n])
    BY <1>5, <2>1 DEF Remember, Sequences
  <2> QED BY <1>5, <2>1, <2>2 DEF Sequences, Remember
<1>6. CASE Emit
  <2>1. IsSeq(Offered(cell, bests))
    BY <1>6, OfferedIsSeq DEF Sequences, Emit
  <2>2. IsSeq(builds')
    <3>1. CASE caller = "exponentialDecay"
      <4>1. builds' = Joined(builds, Offered(cell, bests)) /\ IsSeq(builds)
        BY <1>6, <3>1 DEF Emit, Sequences
      <4> QED BY <2>1, <4>1, JoinedJoins DEF Joins
    <3>2. CASE caller # "exponentialDecay"
      <4>1. builds' = builds \o Offered(cell, bests) /\ IsSeq(builds)
        BY <1>6, <3>2 DEF Emit, Sequences
      <4> QED BY <2>1, <4>1, ConcatIsSeq
    <3> QED BY <3>1, <3>2
  <2>3. pc' \in {"rows", "rate", "cell"} /\ (pc' = "rate" => caller # "exponentialDecay")
    BY <1>6 DEF Emit
  <2> QED BY <1>6, <2>2, <2>3 DEF Sequences, Emit
<1>7. CASE Rate
  BY <1>7 DEF Sequences, Rate
<1>8. CASE Offer
  BY <1>8 DEF Sequences, Offer
<1>9. CASE Recommend
  BY <1>9 DEF Sequences, Recommend
<1>10. CASE Return
  BY <1>10 DEF Sequences, Return
<1>11. CASE UNCHANGED vars
  BY <1>11 DEF Sequences, vars
<1> QED BY <1>1, <1>2, <1>3, <1>4, <1>5, <1>6, <1>7, <1>8, <1>9, <1>10, <1>11 DEF Next

-----------------------------------------------------------------------------
(* The best builds are recommended *)

Scored == [n \in 1..Len(builds) |-> Score(n)]

\* The inductive invariant of the ranking.
Ranking ==
  /\ pc \notin {"rank", "aborted", "done"} => rated = 0 /\ heap = {} /\ printed = << >>
  /\ pc \in {"rank", "done"} =>
       /\ Scored \in [1..Len(builds) -> Int]
       /\ Ranked(Len(builds), Scored, request.numBuilds, rated, heap, printed)
  /\ pc = "done" => rated = Len(builds) /\ heap = {}
  /\ pc = "aborted" => printed \in Seq(1..Len(builds))

LEMMA RankingInit == Init => Ranking
BY DEF Init, Ranking

LEMMA RankingNext == Sequences /\ Ranking /\ [Next]_vars => Ranking'
<1> SUFFICES ASSUME Sequences, Ranking, [Next]_vars PROVE Ranking'
  OBVIOUS
<1>1. request.numBuilds \in Nat
  BY RequestAssumption DEF Sequences
<1>2. pc \in {"rate", "rank", "aborted", "done"} => Len(builds) \in Nat
  BY SeqLength DEF Sequences
<1>3. CASE Rescale \/ Begin \/ LookUp \/ TrySplit \/ Remember \/ Emit
  <2>1. /\ pc \notin {"rank", "aborted", "done"} /\ pc' \notin {"rank", "aborted", "done"}
        /\ rated' = rated /\ heap' = heap /\ printed' = printed
    <3>1. CASE Rescale
      BY <3>1 DEF Rescale
    <3>2. CASE Begin
      BY <3>2 DEF Begin
    <3>3. CASE LookUp
      BY <3>3 DEF LookUp
    <3>4. CASE TrySplit
      BY <3>4 DEF TrySplit
    <3>5. CASE Remember
      BY <3>5 DEF Remember
    <3>6. CASE Emit
      BY <3>6 DEF Emit
    <3> QED BY <1>3, <3>1, <3>2, <3>3, <3>4, <3>5, <3>6
  <2> QED BY <2>1 DEF Ranking
<1>4. CASE Rate
  <2>1. /\ pc' = "rank" /\ builds' = builds /\ request' = request
        /\ rated' = 0 /\ heap' = {} /\ printed' = << >>
        /\ rating' \in [{builds[n] : n \in 1..Len(builds)} -> Scores]
    BY <1>4 DEF Rate, Ranking
  <2>2. Scored' \in [1..Len(builds) -> Int]
    BY <2>1, RequestAssumption DEF Scored, Score
  <2>3. Len(builds) \in Nat
    BY <1>2, <1>4 DEF Rate
  <2>4. Ranked(Len(builds), Scored', request.numBuilds, 0, {}, << >>)
    BY <2>3, <1>1, EmptyRanked
  <2>5. pc' \notin {"done"} /\ pc' \in {"rank", "done"}
    BY <2>1
  <2> QED BY <2>1, <2>2, <2>4, <2>5 DEF Ranking
<1>5. ASSUME pc = "rank"
      PROVE  /\ Len(builds) \in Nat /\ Scored \in [1..Len(builds) -> Int]
             /\ Ranked(Len(builds), Scored, request.numBuilds, rated, heap, printed)
             /\ rated \in 0..Len(builds) /\ heap \subseteq 1..Len(builds)
             /\ \A n \in heap : Least(n) => \A k \in heap : Scored[n] <= Scored[k]
  <2>1. /\ Len(builds) \in Nat /\ Scored \in [1..Len(builds) -> Int]
        /\ Ranked(Len(builds), Scored, request.numBuilds, rated, heap, printed)
    BY <1>2, <1>5 DEF Ranking
  <2>2. rated \in 0..Len(builds) /\ heap \subseteq 1..rated
    BY <2>1 DEF Ranked
  <2>3. heap \subseteq 1..Len(builds)
    BY <2>1, <2>2
  <2>4. \A n \in heap : Scored[n] = Score(n) /\ Scored[n] \in Int
    <3>1. \A n \in heap : Scored[n] = Score(n)
      BY <2>3 DEF Scored
    <3> QED BY <3>1, <2>1, <2>3
  <2>5. ASSUME NEW n \in heap, Least(n), NEW k \in heap PROVE Scored[n] <= Scored[k]
    BY <2>4, <2>5 DEF Least
  <2> QED BY <2>1, <2>2, <2>3, <2>5
<1>6. CASE Offer
  <2>1. /\ pc = "rank" /\ pc' = "rank" /\ rated < Len(builds) /\ rated' = rated + 1
        /\ builds' = builds /\ request' = request /\ rating' = rating /\ printed' = printed
    BY <1>6 DEF Offer
  <2>2. Scored' = Scored
    BY <2>1 DEF Scored, Score
  <2>3. rated + 1 \in 1..Len(builds) /\ Scored[rated + 1] = Score(rated + 1)
    <3>1. rated + 1 \in 1..Len(builds)
      BY <1>5, <2>1
    <3> QED BY <3>1 DEF Scored
  <2>4. Ranked(Len(builds), Scored, request.numBuilds, rated + 1, heap', printed)
    <3>1. CASE Cardinality(heap) < request.numBuilds
      <4>1. heap' = heap \cup {rated + 1}
        BY <1>6, <3>1 DEF Offer
      <4> QED BY <4>1, <3>1, <2>1, <1>1, <1>5, AddRanked
    <3>2. CASE ~(Cardinality(heap) < request.numBuilds)
      <4>1. PICK n \in heap :
              /\ Least(n)
              /\ heap' = IF Keeps(n, rated + 1) THEN heap ELSE (heap \ {n}) \cup {rated + 1}
        BY <1>6, <3>2 DEF Offer
      <4>2. \A k \in heap : Scored[n] <= Scored[k]
        BY <4>1, <2>1, <1>5
      <4>3. Scored[n] = Score(n)
        BY <2>1, <1>5 DEF Scored
      <4>4. Keeps(n, rated + 1) <=> Scored[n] > Scored[rated + 1]
        BY <4>3, <2>3 DEF Keeps
      <4>5. CASE Scored[n] > Scored[rated + 1]
        <5>1. heap' = heap
          BY <4>1, <4>4, <4>5
        <5> QED BY <5>1, <4>2, <4>5, <3>2, <2>1, <1>1, <1>5, PassRanked
      <4>6. CASE ~(Scored[n] > Scored[rated + 1])
        <5>1. heap' = (heap \ {n}) \cup {rated + 1}
          BY <4>1, <4>4, <4>6
        <5> QED BY <5>1, <4>2, <4>6, <3>2, <2>1, <1>1, <1>5, ReplaceRanked
      <4> QED BY <4>5, <4>6
    <3> QED BY <3>1, <3>2
  <2>5. pc' \notin {"done"} /\ pc' \in {"rank", "done"}
    BY <2>1
  <2> QED BY <2>1, <2>2, <2>4, <2>5, <1>5 DEF Ranking
<1>7. CASE Recommend
  <2>1. /\ pc = "rank" /\ rated = Len(builds) /\ rated' = rated
        /\ builds' = builds /\ request' = request /\ rating' = rating
    BY <1>7 DEF Recommend
  <2>2. PICK n \in heap :
          /\ Least(n)
          /\ heap' = heap \ {n}
          /\ \/ pc' = "aborted" /\ printed' = printed
             \/ printed' = Append(printed, n) /\ pc' = pc
    BY <1>7 DEF Recommend
  <2>3. CASE pc' = "aborted" /\ printed' = printed
    <3>1. printed \in Seq(1..Len(builds))
      BY <2>1, <1>5 DEF Ranked
    <3> QED BY <3>1, <2>1, <2>3 DEF Ranking
  <2>4. CASE printed' = Append(printed, n) /\ pc' = pc
    <3>1. Scored' = Scored
      BY <2>1 DEF Scored, Score
    <3>2. \A k \in heap : Scored[n] <= Scored[k]
      BY <2>1, <2>2, <1>5
    <3>3. Ranked(Len(builds), Scored, request.numBuilds, Len(builds), heap \ {n}, Append(printed, n))
      BY <3>2, <2>1, <1>1, <1>5, PrintRanked
    <3>4. pc' \notin {"done"} /\ pc' \in {"rank", "done"}
      BY <2>1, <2>4
    <3> QED BY <3>1, <3>3, <3>4, <2>1, <2>2, <2>4, <1>5 DEF Ranking
  <2> QED BY <2>2, <2>3, <2>4
<1>8. CASE Return
  <2>1. /\ pc = "rank" /\ pc' = "done" /\ rated = Len(builds) /\ heap = {}
        /\ builds' = builds /\ request' = request /\ rating' = rating
        /\ rated' = rated /\ heap' = heap /\ printed' = printed
    BY <1>8 DEF Return
  <2>2. Scored' = Scored
    BY <2>1 DEF Scored, Score
  <2> QED BY <2>1, <2>2, <1>5 DEF Ranking
<1>9. CASE UNCHANGED vars
  <2>1. Scored' = Scored
    BY <1>9 DEF Scored, Score, vars
  <2> QED BY <1>9, <2>1 DEF Ranking, vars
<1> QED BY <1>3, <1>4, <1>6, <1>7, <1>8, <1>9 DEF Next

LEMMA RankingBest == Sequences /\ Ranking => NumBuildsBest
<1> SUFFICES ASSUME Sequences, Ranking, pc = "done" PROVE NumBuildsBest
  BY DEF NumBuildsBest
<1>1. /\ Len(builds) \in Nat /\ heap = {} /\ rated = Len(builds)
      /\ Ranked(Len(builds), Scored, request.numBuilds, Len(builds), {}, printed)
  BY SeqLength DEF Sequences, Ranking
<1>2. printed \in Seq(1..Len(builds)) /\ Len(printed) \in Nat
  BY <1>1 DEF Ranked
<1>3. \A n \in 1..Len(builds) : Scored[n] = Score(n)
  BY DEF Scored
<1>4. \A k \in 1..Len(printed) : printed[k] \in 1..Len(builds) /\ Scored[printed[k]] = Score(printed[k])
  BY <1>2, <1>3
<1>5. Len(printed) = Limit(request.numBuilds, Len(builds))
  <2>1. Cardinality({}) = 0
    BY FS_EmptySet
  <2> QED BY <2>1, <1>1, <1>2 DEF Ranked
<1>6. \A k, l \in 1..Len(printed) : k < l => printed[k] # printed[l] /\ Score(printed[k]) <= Score(printed[l])
  BY <1>1, <1>4 DEF Ranked
<1>7. \A n \in 1..Len(builds) :
        (\A k \in 1..Len(printed) : printed[k] # n) =>
          \A k \in 1..Len(printed) : Score(n) <= Score(printed[k])
  <2> SUFFICES ASSUME NEW n \in 1..Len(builds), \A k \in 1..Len(printed) : printed[k] # n,
                      NEW k \in 1..Len(printed)
               PROVE  Score(n) <= Score(printed[k])
    OBVIOUS
  <2>1. n \in (1..Len(builds)) \ {}
    OBVIOUS
  <2>2. Scored[n] <= Scored[printed[k]]
    BY <1>1, <2>1 DEF Ranked
  <2> QED BY <2>2, <1>3, <1>4
<1> QED BY <1>5, <1>6, <1>7 DEF NumBuildsBest

\* For every archive, level, stride and number of builds asked for, and
\* whatever function the model computes: rankBuilds and operator() recommend
\* that many builds, or all, and none left out is rated higher.
THEOREM NumBuildsBestAlways == Spec => []NumBuildsBest
<1>1. Init => Sequences /\ Ranking
  BY SequencesInit, RankingInit
<1>2. Sequences /\ Ranking /\ [Next]_vars => Sequences' /\ Ranking'
  BY SequencesNext, RankingNext
<1> QED BY <1>1, <1>2, RankingBest, PTL DEF Spec

-----------------------------------------------------------------------------
(* Splits: best for a breakpoint *)

Splits(n) == [0..n -> [ehp : Nat, poise : Nat, vigor : Int, endurance : Int]]

\* Of the splits f, number v reaches breakpoint j.
Meets(f, j, v) == Breaks[j] <= f[v].poise

\* b is the best of the first m splits of f that reach breakpoint j.
BestUpTo(f, j, m, b) ==
  \/ b = None /\ \A v \in 0..(m - 1) : ~Meets(f, j, v)
  \/ /\ \E v \in 0..(m - 1) : b = f[v]
     /\ Breaks[j] <= b.poise
     /\ \A v \in 0..(m - 1) : Meets(f, j, v) => f[v].ehp <= b.ehp

\* bs has the best of the splits f of n points for every breakpoint some reaches.
Good(f, n, bs) ==
  /\ IsSeq(bs) /\ Len(bs) \in 1..Len(Breaks)
  /\ \A j \in 1..Len(Breaks) : (\E v \in 0..n : Meets(f, j, v)) => j <= Len(bs)
  /\ \A j \in 1..Len(bs) :
       /\ \E v \in 0..n : bs[j] = f[v]
       /\ Breaks[j] <= bs[j].poise
       /\ \A v \in 0..n : Meets(f, j, v) => f[v].ehp <= bs[j].ehp

LEMMA BreaksType ==
  /\ Len(Breaks) \in Nat /\ 1 <= Len(Breaks) /\ Breaks[1] = 0
  /\ \A j \in 1..Len(Breaks) : Breaks[j] \in Nat
  /\ \A j, k \in 1..Len(Breaks) : j <= k => Breaks[j] <= Breaks[k]
<1>1. /\ Len(Breaks) \in Nat /\ 1 <= Len(Breaks) /\ Breaks[1] = 0
      /\ \A j \in 1..Len(Breaks) : Breaks[j] \in Nat
  BY TableAssumption
<1>2. ASSUME NEW j \in 1..Len(Breaks), NEW k \in 1..Len(Breaks), j <= k
      PROVE  Breaks[j] <= Breaks[k]
  <2>1. CASE j = k
    BY <2>1, <1>1
  <2>2. CASE j < k
    BY <2>2, <1>1, TableAssumption
  <2> QED BY <2>1, <2>2, <1>1, <1>2
<1> QED BY <1>1, <1>2

\* The loop over the breakpoints comes to those the split reaches.
LEMMA ReachedMeets ==
  ASSUME NEW b, b.poise \in Nat, NEW j \in 1..Len(Breaks)
  PROVE  j \in Reached(b) <=> Breaks[j] <= b.poise
<1>1. ASSUME j \in Reached(b) PROVE Breaks[j] <= b.poise
  <2>1. j \in 1..j
    BY BreaksType
  <2> QED BY <1>1, <2>1 DEF Reached
<1>2. ASSUME Breaks[j] <= b.poise PROVE j \in Reached(b)
  <2> SUFFICES ASSUME NEW k \in 1..j PROVE Breaks[k] <= b.poise
    BY DEF Reached
  <2>1. k \in 1..Len(Breaks) /\ k <= j
    BY BreaksType
  <2>2. Breaks[k] <= Breaks[j] /\ Breaks[k] \in Nat /\ Breaks[j] \in Nat
    BY <2>1, BreaksType
  <2> QED BY <2>2, <1>2
<1> QED BY <1>1, <1>2

\* One more split is tried.
LEMMA ImproveBest ==
  ASSUME NEW n \in Nat, NEW f \in Splits(n), NEW j \in 1..Len(Breaks), NEW m \in 0..n, NEW b,
         BestUpTo(f, j, m, b),
         NEW c, c = IF j \in Reached(f[m]) /\ f[m].ehp >= b.ehp THEN f[m] ELSE b
  PROVE  BestUpTo(f, j, m + 1, c)
<1>1. /\ m \in Nat /\ 0..((m + 1) - 1) = 0..m /\ 0..m = (0..(m - 1)) \cup {m}
      /\ 0..(m - 1) \subseteq 0..n
  OBVIOUS
<1>2. \A v \in 0..n : f[v] \in [ehp : Nat, poise : Nat, vigor : Int, endurance : Int]
  BY DEF Splits
<1>3. \A v \in 0..n : f[v].ehp \in Nat /\ f[v].poise \in Nat
  BY <1>2
<1>4. Breaks[j] \in Nat
  BY BreaksType
<1>5. j \in Reached(f[m]) <=> Meets(f, j, m)
  BY <1>3, ReachedMeets DEF Meets
<1>6. CASE b = None /\ \A v \in 0..(m - 1) : ~Meets(f, j, v)
  <2>1. b.ehp = -1
    BY <1>6 DEF None
  <2>2. CASE Meets(f, j, m)
    <3>1. c = f[m]
      BY <1>3, <1>5, <2>1, <2>2
    <3>2. \A v \in 0..m : Meets(f, j, v) => f[v].ehp <= f[m].ehp
      BY <1>1, <1>3, <1>6
    <3> QED BY <3>1, <3>2, <2>2, <1>1 DEF BestUpTo, Meets
  <2>3. CASE ~Meets(f, j, m)
    BY <1>1, <1>5, <1>6, <2>3 DEF BestUpTo
  <2> QED BY <2>2, <2>3
<1>7. CASE /\ \E v \in 0..(m - 1) : b = f[v]
           /\ Breaks[j] <= b.poise
           /\ \A v \in 0..(m - 1) : Meets(f, j, v) => f[v].ehp <= b.ehp
  <2>1. b.ehp \in Nat
    BY <1>1, <1>3, <1>7
  <2>2. CASE Meets(f, j, m) /\ f[m].ehp >= b.ehp
    <3>1. c = f[m]
      BY <1>5, <2>2
    <3>2. \A v \in 0..m : Meets(f, j, v) => f[v].ehp <= f[m].ehp
      BY <1>1, <1>3, <1>7, <2>1, <2>2
    <3> QED BY <3>1, <3>2, <2>2, <1>1 DEF BestUpTo, Meets
  <2>3. CASE ~(Meets(f, j, m) /\ f[m].ehp >= b.ehp)
    <3>1. c = b
      BY <1>5, <2>3
    <3>2. \A v \in 0..m : Meets(f, j, v) => f[v].ehp <= b.ehp
      BY <1>1, <1>3, <1>7, <2>1, <2>3
    <3> QED BY <3>1, <3>2, <1>7, <1>1 DEF BestUpTo
  <2> QED BY <2>2, <2>3
<1> QED BY <1>6, <1>7 DEF BestUpTo

\* Trimmed, the best of all splits serve the breakpoints that can be reached.
LEMMA TrimmedGood ==
  ASSUME NEW n \in Nat, NEW f \in Splits(n), DOMAIN bests = 1..Len(Breaks),
         \A j \in 1..Len(Breaks) : BestUpTo(f, j, n + 1, bests[j])
  PROVE  Good(f, n, Trimmed)
<1> DEFINE kept == {j \in 1..Len(Breaks) : \E k \in j..Len(Breaks) : bests[k].ehp # -1}
<1> DEFINE Hit(j) == \E v \in 0..n : Meets(f, j, v)
<1>1. \A v \in 0..n : f[v].ehp \in Nat /\ f[v].poise \in Nat
  <2>1. \A v \in 0..n : f[v] \in [ehp : Nat, poise : Nat, vigor : Int, endurance : Int]
    BY DEF Splits
  <2> QED BY <2>1
<1>2. 0..((n + 1) - 1) = 0..n
  OBVIOUS
<1>3. Len(Breaks) \in Nat /\ 1 \in 1..Len(Breaks)
  BY BreaksType
<1>4. ASSUME NEW j \in 1..Len(Breaks), bests[j].ehp # -1
      PROVE  /\ \E v \in 0..n : bests[j] = f[v]
             /\ Breaks[j] <= bests[j].poise
             /\ \A v \in 0..n : Meets(f, j, v) => f[v].ehp <= bests[j].ehp
  <2>1. bests[j] # None
    BY <1>4 DEF None
  <2> QED BY <2>1, <1>2 DEF BestUpTo
<1>5. ASSUME NEW j \in 1..Len(Breaks), Hit(j)
      PROVE  bests[j].ehp # -1
  <2>1. BestUpTo(f, j, n + 1, bests[j])
    OBVIOUS
  <2>2. PICK v \in 0..n : Meets(f, j, v)
    BY <1>5
  <2>3. \E u \in 0..n : bests[j] = f[u]
    BY <2>1, <2>2, <1>2 DEF BestUpTo
  <2> QED BY <2>3, <1>1
<1>6. ASSUME NEW j \in 1..Len(Breaks), NEW k \in j..Len(Breaks), Hit(k)
      PROVE  Hit(j)
  <2>1. PICK v \in 0..n : Breaks[k] <= f[v].poise
    BY <1>6 DEF Meets
  <2>2. k \in 1..Len(Breaks) /\ j <= k
    BY <1>3
  <2>3. Breaks[j] <= Breaks[k] /\ Breaks[j] \in Nat /\ Breaks[k] \in Nat
    BY <2>2, BreaksType
  <2>4. Breaks[j] <= f[v].poise
    BY <2>1, <2>3, <1>1
  <2> QED BY <2>4 DEF Meets
<1>7. \A j \in kept : Hit(j)
  <2> SUFFICES ASSUME NEW j \in kept PROVE Hit(j)
    OBVIOUS
  <2>1. PICK k \in j..Len(Breaks) : bests[k].ehp # -1
    OBVIOUS
  <2>2. k \in 1..Len(Breaks) /\ j \in 1..Len(Breaks)
    BY <1>3
  <2>3. PICK v \in 0..n : bests[k] = f[v]
    BY <2>1, <2>2, <1>4
  <2>4. Breaks[k] <= bests[k].poise
    BY <2>1, <2>2, <1>4
  <2>5. Hit(k)
    BY <2>3, <2>4 DEF Meets
  <2> QED BY <2>2, <2>5, <1>6
<1>8. \A j \in 1..Len(Breaks) : Hit(j) => j \in kept
  <2> SUFFICES ASSUME NEW j \in 1..Len(Breaks), Hit(j) PROVE j \in kept
    OBVIOUS
  <2>1. j \in j..Len(Breaks)
    BY <1>3
  <2> QED BY <2>1, <1>5
<1>9. 1 \in kept
  <2>1. 0 \in 0..n /\ Breaks[1] <= f[0].poise
    BY <1>1, BreaksType
  <2>2. Hit(1)
    BY <2>1 DEF Meets
  <2> QED BY <2>2, <1>3, <1>8
<1>10. \A j \in kept : 1..j \subseteq kept
  <2> HIDE DEF kept, Hit
  <2> SUFFICES ASSUME NEW j \in kept, NEW k \in 1..j PROVE k \in kept
    OBVIOUS
  <2>1. j \in 1..Len(Breaks)
    BY DEF kept
  <2>2. k \in 1..Len(Breaks) /\ j \in k..Len(Breaks)
    BY <2>1, <1>3
  <2> QED BY <2>1, <2>2, <1>6, <1>7, <1>8
<1>11. kept \subseteq 1..Len(Breaks)
  OBVIOUS
<1>12. Trimmed = [j \in kept |-> bests[j]]
  BY <1>9 DEF Trimmed
<1> HIDE DEF kept, Hit
<1>13. PICK m \in 0..Len(Breaks) : kept = 1..m
  BY <1>3, <1>10, <1>11, InitialSegment
<1> DEFINE bs == Trimmed
<1>14. bs = [j \in 1..m |-> bs[j]] /\ \A j \in 1..m : bs[j] = bests[j]
  BY <1>12, <1>13
<1> HIDE DEF bs
<1>15. IsSeq(bs) /\ Len(bs) = m
  BY <1>14, <1>13, <1>3, FunctionIsSeq
<1>16. m \in 1..Len(Breaks)
  BY <1>9, <1>13
<1>17. \A j \in 1..Len(Breaks) : (\E v \in 0..n : Meets(f, j, v)) => j <= Len(bs)
  <2>1. \A j \in 1..Len(Breaks) : Hit(j) => j <= m
    BY <1>8, <1>13
  <2> QED BY <2>1, <1>15 DEF Hit
<1>18. \A j \in 1..Len(bs) :
         /\ \E v \in 0..n : bs[j] = f[v]
         /\ Breaks[j] <= bs[j].poise
         /\ \A v \in 0..n : Meets(f, j, v) => f[v].ehp <= bs[j].ehp
  <2> SUFFICES ASSUME NEW j \in 1..m
               PROVE  /\ \E v \in 0..n : bs[j] = f[v]
                      /\ Breaks[j] <= bs[j].poise
                      /\ \A v \in 0..n : Meets(f, j, v) => f[v].ehp <= bs[j].ehp
    BY <1>15
  <2>1. j \in 1..Len(Breaks) /\ j \in kept /\ bs[j] = bests[j]
    BY <1>13, <1>11, <1>14
  <2>2. bests[j].ehp # -1
    BY <2>1, <1>7, <1>5
  <2> QED BY <2>1, <2>2, <1>4
<1>19. Good(f, n, bs)
  BY <1>15, <1>16, <1>17, <1>18 DEF Good
<1> QED BY <1>19 DEF bs

-----------------------------------------------------------------------------
(* The grid *)

\* A multiple that is not yet the next one is at most this one.
LEMMA NextMultiple ==
  ASSUME NEW w \in Nat \ {0}, NEW x \in Nat, NEW y \in Nat,
         x % w = 0, y % w = 0, x < y + w
  PROVE  x <= y
<1>1. x = (x \div w) * w /\ y = (y \div w) * w /\ x \div w \in Nat /\ y \div w \in Nat
  <2>1. ASSUME NEW z \in Nat, z % w = 0 PROVE z = (z \div w) * w /\ z \div w \in Nat
    BY <2>1, SMT
  <2> QED BY <2>1
<1>2. PICK a \in Nat, b \in Nat : x = a * w /\ y = b * w
  BY <1>1
<1>3. a * w < (b + 1) * w
  BY <1>2, SMT
<1>4. a < b + 1
  BY <1>3, SMT
<1>5. a <= b
  BY <1>4
<1>6. a * w <= b * w
  BY <1>5, SMT
<1> QED BY <1>2, <1>6

LEMMA SumMultiple ==
  ASSUME NEW w \in Nat \ {0}, NEW x \in Nat, x % w = 0
  PROVE  (x + w) % w = 0 /\ 0 % w = 0
<1>1. x = (x \div w) * w /\ x \div w \in Nat
  BY SMT
<1>2. PICK a \in Nat : x = a * w
  BY <1>1
<1>3. \A b \in Nat : (b * w) % w = 0
  BY SMT
<1>4. x + w = (a + 1) * w /\ a + 1 \in Nat
  BY <1>2, SMT
<1>5. 0 * w = 0
  BY SMT
<1>6. ((a + 1) * w) % w = 0
  BY <1>3, <1>4
<1>7. (0 * w) % w = 0
  BY <1>3
<1> QED BY <1>4, <1>5, <1>6, <1>7

\* gridGenerator has come past c.
Behind(c, d) == \/ c.damage < d.damage
                \/ c.damage = d.damage /\ c.health < d.health

LEMMA BehindOrEqual ==
  ASSUME NEW c, NEW d, c = [damage |-> c.damage, health |-> c.health],
         d = [damage |-> d.damage, health |-> d.health],
         c.damage \in Nat, c.health \in Nat, d.damage \in Nat, d.health \in Nat,
         c.damage <= d.damage, c.damage = d.damage => c.health <= d.health
  PROVE  Behind(c, d) \/ c = d
<1>1. \/ c.damage < d.damage
      \/ c.damage = d.damage /\ c.health < d.health
      \/ c.damage = d.damage /\ c.health = d.health
  OBVIOUS
<1>2. CASE c.damage = d.damage /\ c.health = d.health
  BY <1>2
<1> QED BY <1>1, <1>2 DEF Behind

\* Nothing of the grid lies between a point and the next.
LEMMA NextCell ==
  ASSUME level \in Nat, request.stride \in Nat \ {0}, cell \in Grid, ~(LastInRow /\ LastRow),
         NEW d, d = IF LastInRow THEN [damage |-> cell.damage + request.stride, health |-> 0]
                    ELSE [cell EXCEPT !.health = @ + request.stride]
  PROVE  /\ d \in Grid
         /\ \A c \in Grid : Behind(c, d) => Behind(c, cell) \/ c = cell
<1> DEFINE w == request.stride
<1> DEFINE L == level
<1>1. \A c \in Grid : /\ c = [damage |-> c.damage, health |-> c.health]
                      /\ c.damage \in Nat /\ c.health \in Nat /\ c.damage + c.health <= L
                      /\ c.damage % w = 0 /\ c.health % w = 0
  BY DEF Grid
<1>2. \A x \in Nat, y \in Nat : x % w = 0 /\ y % w = 0 /\ x + y <= L =>
        [damage |-> x, health |-> y] \in Grid
  BY DEF Grid
<1>3. LastInRow <=> cell.damage + cell.health + w > L
  BY DEF LastInRow
<1>4. LastRow <=> cell.damage + w > L
  BY DEF LastRow
<1>5. L \in Nat /\ w \in Nat \ {0}
  OBVIOUS
<1>6. CASE LastInRow
  <2>1. d = [damage |-> cell.damage + w, health |-> 0] /\ ~LastRow
    BY <1>6
  <2>2. d.damage = cell.damage + w /\ d.health = 0
    BY <2>1
  <2> HIDE DEF w, L
  <2>3. cell.damage + w + 0 <= L /\ cell.damage + w \in Nat
    BY <1>1, <1>4, <1>5, <2>1
  <2>4. (cell.damage + w) % w = 0 /\ 0 % w = 0
    BY <1>1, <1>5, SumMultiple
  <2>5. d \in Grid
    BY <2>1, <2>3, <2>4, <1>2
  <2>6. ASSUME NEW c \in Grid, Behind(c, d) PROVE Behind(c, cell) \/ c = cell
    <3>1. c.damage < cell.damage + w
      BY <2>6, <2>2, <1>1, <1>5 DEF Behind
    <3>2. c.damage <= cell.damage
      BY <3>1, <1>1, <1>5, NextMultiple
    <3>3. ASSUME c.damage = cell.damage PROVE c.health <= cell.health
      <4>1. c.health < cell.health + w
        BY <3>3, <1>1, <1>3, <1>5, <1>6
      <4> QED BY <4>1, <1>1, <1>5, NextMultiple
    <3> QED BY <3>2, <3>3, <1>1, BehindOrEqual
  <2> QED BY <2>5, <2>6
<1>7. CASE ~LastInRow
  <2>1. d = [damage |-> cell.damage, health |-> cell.health + w]
    <3>1. cell = [damage |-> cell.damage, health |-> cell.health]
      BY <1>1
    <3>2. d = [cell EXCEPT !.health = cell.health + w]
      BY <1>7
    <3> QED BY <3>1, <3>2
  <2>2. d.damage = cell.damage /\ d.health = cell.health + w
    BY <2>1
  <2> HIDE DEF w, L
  <2>3. cell.damage + (cell.health + w) <= L /\ cell.health + w \in Nat
    BY <1>1, <1>3, <1>5, <1>7
  <2>4. (cell.health + w) % w = 0
    BY <1>1, <1>5, SumMultiple
  <2>5. d \in Grid
    BY <2>1, <2>3, <2>4, <1>1, <1>2
  <2>6. ASSUME NEW c \in Grid, Behind(c, d) PROVE Behind(c, cell) \/ c = cell
    <3>1. CASE c.damage = cell.damage /\ c.health < cell.health + w
      <4>1. c.health <= cell.health
        BY <3>1, <1>1, <1>5, NextMultiple
      <4>2. c.damage <= cell.damage
        BY <3>1, <1>1
      <4> QED BY <4>1, <4>2, <1>1, BehindOrEqual
    <3>2. CASE c.damage < cell.damage
      BY <3>2 DEF Behind
    <3>3. c.damage < d.damage \/ (c.damage = d.damage /\ c.health < d.health)
      BY <2>6 DEF Behind
    <3> QED BY <2>2, <3>1, <3>2, <3>3
  <2> QED BY <2>5, <2>6
<1> QED BY <1>6, <1>7

\* The last point is behind none of the grid.
LEMMA LastCell ==
  ASSUME level \in Nat, request.stride \in Nat \ {0}, cell \in Grid, LastInRow, LastRow,
         NEW c \in Grid
  PROVE  Behind(c, cell) \/ c = cell
<1> DEFINE w == request.stride
<1> DEFINE L == level
<1>1. \A b \in Grid : /\ b = [damage |-> b.damage, health |-> b.health]
                      /\ b.damage \in Nat /\ b.health \in Nat /\ b.damage + b.health <= L
                      /\ b.damage % w = 0 /\ b.health % w = 0
  BY DEF Grid
<1>2. cell.damage + cell.health + w > L /\ cell.damage + w > L
  BY DEF LastInRow, LastRow
<1>3. L \in Nat /\ w \in Nat \ {0}
  OBVIOUS
<1> HIDE DEF w, L
<1>4. c.damage < cell.damage + w
  BY <1>1, <1>2, <1>3
<1>5. c.damage <= cell.damage
  BY <1>4, <1>1, <1>3, NextMultiple
<1>6. ASSUME c.damage = cell.damage PROVE c.health <= cell.health
  <2>1. c.health < cell.health + w
    BY <1>6, <1>1, <1>2, <1>3
  <2> QED BY <2>1, <1>1, <1>3, NextMultiple
<1> QED BY <1>5, <1>6, <1>1, BehindOrEqual

-----------------------------------------------------------------------------
(* Tables of a request and a class *)

SplitTable == [n \in 0..level |-> [v \in 0..n |-> Split(v, n)]]

MindTable == [z \in 0..level |-> FpOf(z)]

LEMMA TablesStay ==
  ASSUME class' = class, request' = request, caller' = caller
  PROVE  SplitTable' = SplitTable /\ MindTable' = MindTable /\ Grid' = Grid /\ level' = level
BY DEF SplitTable, MindTable, Grid, level, Split, FpOf, Base

LEMMA RequestType ==
  ASSUME request \in Requests
  PROVE  level \in Nat /\ request.stride \in Nat \ {0}
BY RequestAssumption DEF level

\* A split spends the points, or raises a stat to the top.
LEMMA SplitType ==
  ASSUME class[1] \in 1..Top, class[3] \in 1..Top, NEW n \in Nat, NEW v \in 0..n
  PROVE  /\ Split(v, n) \in [ehp : Nat, poise : Nat, vigor : Int, endurance : Int]
         /\ Split(v, n).vigor \in 0..v
         /\ Split(v, n).vigor = v \/ Split(v, n).vigor + Base.vigor = Top
         /\ Split(v, n).endurance \in 0..(n - v)
         /\ Split(v, n).endurance = n - v \/ Split(v, n).endurance + Base.endurance = Top
<1> DEFINE a == Limit(v + Base.vigor, Top)
<1> DEFINE e == Limit(n - v + Base.endurance, Top)
<1>1. Base.vigor \in 1..Top /\ Base.endurance \in 1..Top /\ Top \in Nat
  BY TableAssumption DEF Base
<1>2. /\ a \in 1..Top /\ a - Base.vigor \in 0..v
      /\ a - Base.vigor = v \/ a - Base.vigor + Base.vigor = Top
  BY <1>1 DEF Limit
<1>3. /\ e \in 1..Top /\ e - Base.endurance \in 0..(n - v)
      /\ e - Base.endurance = n - v \/ e - Base.endurance + Base.endurance = Top
  BY <1>1 DEF Limit
<1> HIDE DEF a, e
<1>4. Hp[a] \in Nat /\ Guard[e] \in Nat /\ Poise[e] \in Nat
  BY <1>2, <1>3, TableAssumption DEF Stat
<1>5. Hp[a] * Guard[e] \in Nat
  BY <1>4
<1>6. Split(v, n) = [ehp |-> Hp[a] * Guard[e], poise |-> Poise[e],
                     vigor |-> a - Base.vigor, endurance |-> e - Base.endurance]
  BY DEF Split, a, e
<1>7. a - Base.vigor \in Int /\ e - Base.endurance \in Int
  BY <1>1, <1>2, <1>3
<1> QED BY <1>2, <1>3, <1>4, <1>5, <1>6, <1>7

LEMMA TableType ==
  ASSUME request \in Requests, class[1] \in 1..Top, class[3] \in 1..Top, NEW n \in 0..level
  PROVE  /\ n \in Nat /\ SplitTable[n] \in Splits(n)
         /\ \A v \in 0..n : SplitTable[n][v] = Split(v, n)
<1>1. n \in Nat
  BY RequestType
<1>2. SplitTable[n] = [v \in 0..n |-> Split(v, n)]
  BY DEF SplitTable
<1>3. \A v \in 0..n : Split(v, n) \in [ehp : Nat, poise : Nat, vigor : Int, endurance : Int]
  BY <1>1, SplitType
<1> QED BY <1>1, <1>2, <1>3 DEF Splits

-----------------------------------------------------------------------------
(* Builds of the grid *)

\* The builds bld have the best for every breakpoint the points of c reach.
Served(sp, fps, L, bld, c) ==
  \A j \in 1..Len(Breaks) :
    (\E v \in 0..c.health : Meets(sp[c.health], j, v)) =>
      \E n \in 1..Len(bld) :
        /\ bld[n].damage = c.damage
        /\ bld[n].fp = fps[L - c.damage - c.health]
        /\ Breaks[j] <= bld[n].poise
        /\ \A v \in 0..c.health : Meets(sp[c.health], j, v) => sp[c.health][v].ehp <= bld[n].ehp

\* b spends L points: d on damage, h on a split, the rest on mind.
Made(sp, fps, L, b) ==
  \E d \in 0..L : \E h \in 0..(L - d) : \E v \in 0..h :
    /\ b.damage = d /\ b.fp = fps[L - d - h]
    /\ b.vigor = sp[h][v].vigor /\ b.endurance = sp[h][v].endurance

LEMMA ConcatElements ==
  ASSUME NEW s, NEW t, IsSeq(s), IsSeq(t)
  PROVE  /\ Len(s) \in Nat /\ Len(t) \in Nat /\ Len(s \o t) = Len(s) + Len(t)
         /\ \A k \in 1..Len(s) : (s \o t)[k] = s[k]
         /\ \A k \in 1..Len(t) : (s \o t)[Len(s) + k] = t[k]
<1>1. PICK S : s \in Seq(S)
  BY DEF IsSeq
<1>2. PICK T : t \in Seq(T)
  BY DEF IsSeq
<1>3. s \in Seq(S \cup T) /\ t \in Seq(S \cup T)
  BY <1>1, <1>2, SeqWidens
<1> QED BY <1>3

\* More builds serve no less.
LEMMA ServedGrows ==
  ASSUME NEW sp, NEW fps, NEW L, NEW s, NEW t, IsSeq(s), IsSeq(t), NEW c, Served(sp, fps, L, s, c)
  PROVE  Served(sp, fps, L, s \o t, c)
<1>1. /\ 1..Len(s) \subseteq 1..Len(s \o t)
      /\ \A k \in 1..Len(s) : (s \o t)[k] = s[k]
  BY ConcatElements
<1> SUFFICES ASSUME NEW j \in 1..Len(Breaks), \E v \in 0..c.health : Meets(sp[c.health], j, v)
             PROVE  \E n \in 1..Len(s \o t) :
                      /\ (s \o t)[n].damage = c.damage
                      /\ (s \o t)[n].fp = fps[L - c.damage - c.health]
                      /\ Breaks[j] <= (s \o t)[n].poise
                      /\ \A v \in 0..c.health :
                           Meets(sp[c.health], j, v) => sp[c.health][v].ehp <= (s \o t)[n].ehp
  BY DEF Served
<1>2. PICK n \in 1..Len(s) :
        /\ s[n].damage = c.damage
        /\ s[n].fp = fps[L - c.damage - c.health]
        /\ Breaks[j] <= s[n].poise
        /\ \A v \in 0..c.health : Meets(sp[c.health], j, v) => sp[c.health][v].ehp <= s[n].ehp
  BY DEF Served
<1> QED BY <1>1, <1>2

\* The builds of a point of the grid serve it, and are made from it.
LEMMA OfferedServes ==
  ASSUME request \in Requests, cell \in Grid, NEW bs,
         Good(SplitTable[cell.health], cell.health, bs)
  PROVE  /\ Served(SplitTable, MindTable, level, Offered(cell, bs), cell)
         /\ \A n \in 1..Len(Offered(cell, bs)) : Made(SplitTable, MindTable, level, Offered(cell, bs)[n])
<1> DEFINE h == cell.health
<1> DEFINE f == SplitTable[h]
<1> DEFINE o == Offered(cell, bs)
<1> DEFINE z == level - cell.damage - cell.health
<1>1. /\ level \in Nat /\ cell.damage \in 0..level /\ h \in 0..(level - cell.damage)
      /\ z \in 0..level
  BY RequestType DEF Grid
<1>2. Len(bs) \in Nat /\ IsSeq(bs)
  BY SeqLength DEF Good
<1>3. \A j \in 1..Len(bs) :
        /\ o[j].ehp = bs[j].ehp /\ o[j].poise = bs[j].poise /\ o[j].fp = FpOf(Rest(cell))
        /\ o[j].damage = cell.damage /\ o[j].endurance = bs[j].endurance
        /\ o[j].vigor = bs[j].vigor
  BY DEF Offered
<1>4. Len(o) = Len(bs)
  <2> DEFINE g == o
  <2>1. g = [j \in 1..Len(bs) |-> g[j]]
    BY DEF Offered
  <2> HIDE DEF g
  <2>2. Len(g) = Len(bs)
    BY <2>1, <1>2, FunctionIsSeq
  <2> QED BY <2>2 DEF g
<1>5. FpOf(Rest(cell)) = MindTable[z]
  <2>1. Rest(cell) = z
    BY DEF Rest
  <2> QED BY <2>1, <1>1 DEF MindTable
<1>6. Good(f, h, bs)
  OBVIOUS
<1> HIDE DEF f, o, z
<1>7. Served(SplitTable, MindTable, level, o, cell)
  <2> SUFFICES ASSUME NEW j \in 1..Len(Breaks), \E v \in 0..h : Meets(f, j, v)
               PROVE  \E n \in 1..Len(o) :
                        /\ o[n].damage = cell.damage
                        /\ o[n].fp = MindTable[z]
                        /\ Breaks[j] <= o[n].poise
                        /\ \A v \in 0..h : Meets(f, j, v) => f[v].ehp <= o[n].ehp
    BY DEF Served, f, z
  <2>1. j \in 1..Len(bs)
    BY <1>2, <1>6, BreaksType DEF Good
  <2>2. /\ Breaks[j] <= bs[j].poise
        /\ \A v \in 0..h : Meets(f, j, v) => f[v].ehp <= bs[j].ehp
    BY <2>1, <1>6 DEF Good
  <2> QED BY <2>1, <2>2, <1>3, <1>4, <1>5
<1>8. ASSUME NEW n \in 1..Len(o) PROVE Made(SplitTable, MindTable, level, o[n])
  <2>1. PICK v \in 0..h : bs[n] = f[v]
    BY <1>4, <1>6 DEF Good
  <2>2. /\ o[n].damage = cell.damage /\ o[n].fp = MindTable[z]
        /\ o[n].vigor = f[v].vigor /\ o[n].endurance = f[v].endurance
    BY <2>1, <1>3, <1>4, <1>5
  <2> QED BY <2>2, <1>1 DEF Made, f, z
<1> QED BY <1>7, <1>8 DEF o

-----------------------------------------------------------------------------
(* The grid is covered *)

\* Where a character's rows are made, pc never comes to the rating.
Recommending == caller # "exponentialDecay"

\* The inductive invariant of the walk: what bests and the cache hold is best
\* for its number of points, and every point of the grid behind the present
\* one is served.
Walk ==
  /\ pc \in {"start", "class"} => DOMAIN ehpCache = {} /\ cell = [damage |-> 0, health |-> 0]
  /\ pc \in {"start", "class", "cell", "split", "emit"} => cell \in Grid
  /\ pc = "split" =>
       /\ i \in 0..(cell.health + 1)
       /\ \A j \in 1..Len(Breaks) : BestUpTo(SplitTable[cell.health], j, i, bests[j])
  /\ pc = "emit" => Good(SplitTable[cell.health], cell.health, bests)
  /\ pc \notin {"start", "class"} =>
       \A n \in DOMAIN ehpCache : Good(SplitTable[n], n, ehpCache[n])
  /\ Recommending /\ pc \in {"cell", "split", "emit"} =>
       \A c \in Grid : Behind(c, cell) => Served(SplitTable, MindTable, level, builds, c)
  /\ pc = "rate" => \A c \in Grid : Served(SplitTable, MindTable, level, builds, c)
  /\ Recommending /\ pc \notin {"start", "class"} =>
       \A n \in 1..Len(builds) : Made(SplitTable, MindTable, level, builds[n])

LEMMA WalkInit == Init => Walk
<1> SUFFICES ASSUME Init PROVE Walk
  OBVIOUS
<1>1. level \in Nat /\ request.stride \in Nat \ {0}
  BY RequestType DEF Init
<1>2. 0 % request.stride = 0
  BY <1>1, SumMultiple
<1>3. cell = [damage |-> 0, health |-> 0] /\ pc = "start" /\ class \in Classes
  BY DEF Init
<1>4. cell \in Grid
  BY <1>1, <1>2, <1>3 DEF Grid
<1>5. DOMAIN ehpCache = {}
  BY DEF Init
<1> QED BY <1>3, <1>4, <1>5 DEF Walk

\* Once the class is rescaled, the tables stay.
LEMMA ClassType ==
  ASSUME Classed, pc # "start"
  PROVE  class[1] \in 1..Top /\ class[2] \in 1..(Top - 1) /\ class[3] \in 1..Top
<1>1. class \in Seq(1..(Top - 1)) /\ Len(class) >= 3 /\ Top \in Nat
  BY TableAssumption DEF Classed, Leveled
<1>2. class[1] \in 1..(Top - 1) /\ class[2] \in 1..(Top - 1) /\ class[3] \in 1..(Top - 1)
  BY <1>1
<1> QED BY <1>1, <1>2

LEMMA WalkRescale ==
  ASSUME Classed, Sequences, Walk, Rescale
  PROVE  Walk'
<1>1. pc \in {"start", "class"} /\ pc' = "class" /\ class' \in Rescalings(class)
      /\ cell' = cell /\ ehpCache' = ehpCache /\ request' = request
  BY DEF Rescale
<1>4. Grid' = Grid
  BY <1>1 DEF Grid, level
<1> QED BY <1>1, <1>4 DEF Walk

LEMMA WalkBegin ==
  ASSUME Classed, Sequences, Walk, Begin
  PROVE  Walk'
<1>1. /\ pc = "class" /\ pc' = "cell" /\ class' = class /\ request' = request /\ caller' = caller
      /\ cell' = cell /\ ehpCache' = ehpCache
      /\ Recommending => builds' = << >>
  BY DEF Begin, Recommending
<1>2. Grid' = Grid
  BY <1>1, TablesStay
<1>3. cell = [damage |-> 0, health |-> 0] /\ DOMAIN ehpCache = {}
  BY <1>1 DEF Walk
<1>4. \A c \in Grid : ~Behind(c, cell)
  <2>1. level \in Nat
    BY RequestType DEF Sequences
  <2>2. \A c \in Grid : c.damage \in Nat /\ c.health \in Nat
    BY <2>1 DEF Grid
  <2> QED BY <2>2, <1>3 DEF Behind
<1>5. Recommending' <=> Recommending
  BY <1>1 DEF Recommending
<1>6. Recommending => \A n \in 1..Len(builds') : FALSE
  BY <1>1
<1> QED BY <1>1, <1>2, <1>3, <1>4, <1>5, <1>6 DEF Walk

LEMMA WalkLookUp ==
  ASSUME Classed, Sequences, Walk, LookUp
  PROVE  Walk'
<1>1. /\ pc = "cell" /\ class' = class /\ request' = request /\ caller' = caller
      /\ cell' = cell /\ ehpCache' = ehpCache /\ builds' = builds
      /\ pc' \in {"split", "emit"}
  BY DEF LookUp
<1>2. SplitTable' = SplitTable /\ MindTable' = MindTable /\ Grid' = Grid /\ level' = level
  BY <1>1, TablesStay
<1>3. Recommending' <=> Recommending
  BY <1>1 DEF Recommending
<1>4. /\ cell \in Grid
      /\ \A n \in DOMAIN ehpCache : Good(SplitTable[n], n, ehpCache[n])
      /\ Recommending =>
           \A c \in Grid : Behind(c, cell) => Served(SplitTable, MindTable, level, builds, c)
      /\ Recommending => \A n \in 1..Len(builds) : Made(SplitTable, MindTable, level, builds[n])
  BY <1>1 DEF Walk
<1>5. pc' = "emit" => Good(SplitTable[cell.health], cell.health, bests')
  BY <1>4 DEF LookUp
<1>6. ASSUME pc' = "split"
      PROVE  /\ i' \in 0..(cell.health + 1)
             /\ \A j \in 1..Len(Breaks) : BestUpTo(SplitTable[cell.health], j, i', bests'[j])
  <2>1. i' = 0 /\ bests' = [j \in 1..Len(Breaks) |-> None]
    BY <1>6 DEF LookUp
  <2>2. cell.health \in Nat
    BY <1>4, RequestType DEF Grid, Sequences
  <2>3. \A v \in 0..(0 - 1) : FALSE
    OBVIOUS
  <2>4. \A j \in 1..Len(Breaks) : BestUpTo(SplitTable[cell.health], j, 0, None)
    BY <2>3 DEF BestUpTo
  <2> QED BY <2>1, <2>2, <2>4
<1>7. pc' \notin {"start", "class", "rate"}
  BY <1>1
<1> QED BY <1>1, <1>2, <1>3, <1>4, <1>5, <1>6, <1>7 DEF Walk

\* What the walk knows of its point.
LEMMA CellType ==
  ASSUME Classed, Sequences, Walk, pc \in {"cell", "split", "emit"}
  PROVE  /\ cell \in Grid /\ cell.health \in 0..level /\ cell.health \in Nat
         /\ SplitTable[cell.health] \in Splits(cell.health)
         /\ \A v \in 0..cell.health : SplitTable[cell.health][v] = Split(v, cell.health)
<1>1. cell \in Grid /\ request \in Requests
  BY DEF Walk, Sequences
<1>2. cell.health \in 0..level
  BY <1>1 DEF Grid
<1>3. class[1] \in 1..Top /\ class[3] \in 1..Top
  BY ClassType
<1> QED BY <1>1, <1>2, <1>3, TableType

LEMMA WalkTrySplit ==
  ASSUME Classed, Sequences, Walk, TrySplit
  PROVE  Walk'
<1>1. /\ pc = "split" /\ pc' = "split" /\ class' = class /\ request' = request /\ caller' = caller
      /\ cell' = cell /\ ehpCache' = ehpCache /\ builds' = builds
      /\ i <= cell.health /\ i' = i + 1 /\ bests' = Improve(Split(i, cell.health))
  BY DEF TrySplit
<1>2. SplitTable' = SplitTable /\ MindTable' = MindTable /\ Grid' = Grid /\ level' = level
  BY <1>1, TablesStay
<1>3. Recommending' <=> Recommending
  BY <1>1 DEF Recommending
<1> DEFINE h == cell.health
<1> DEFINE f == SplitTable[h]
<1>4. h \in Nat /\ f \in Splits(h) /\ \A v \in 0..h : f[v] = Split(v, h)
  BY <1>1, CellType
<1>5. i \in 0..(h + 1) /\ \A j \in 1..Len(Breaks) : BestUpTo(f, j, i, bests[j])
  BY <1>1 DEF Walk
<1>6. i \in 0..h /\ i + 1 \in 0..(h + 1)
  BY <1>1, <1>4, <1>5
<1>7. \A j \in 1..Len(Breaks) : BestUpTo(f, j, i + 1, bests'[j])
  <2> HIDE DEF f, h
  <2> SUFFICES ASSUME NEW j \in 1..Len(Breaks) PROVE BestUpTo(f, j, i + 1, bests'[j])
    OBVIOUS
  <2>1. f[i] = Split(i, h)
    BY <1>4, <1>6
  <2>2. bests'[j] = IF j \in Reached(f[i]) /\ f[i].ehp >= bests[j].ehp THEN f[i] ELSE bests[j]
    BY <1>1, <2>1 DEF Improve, h
  <2>3. BestUpTo(f, j, i, bests[j])
    BY <1>5
  <2> QED BY <2>2, <2>3, <1>4, <1>6, ImproveBest
<1> QED BY <1>1, <1>2, <1>3, <1>6, <1>7 DEF Walk

LEMMA WalkRemember ==
  ASSUME Classed, Sequences, Walk, Remember
  PROVE  Walk'
<1>1. /\ pc = "split" /\ pc' = "emit" /\ class' = class /\ request' = request /\ caller' = caller
      /\ cell' = cell /\ builds' = builds
      /\ i > cell.health /\ bests' = Trimmed
      /\ ehpCache' = [n \in DOMAIN ehpCache \cup {cell.health} |->
                        IF n = cell.health THEN bests' ELSE ehpCache[n]]
  BY DEF Remember
<1>2. SplitTable' = SplitTable /\ MindTable' = MindTable /\ Grid' = Grid /\ level' = level
  BY <1>1, TablesStay
<1>3. Recommending' <=> Recommending
  BY <1>1 DEF Recommending
<1> DEFINE h == cell.health
<1> DEFINE f == SplitTable[h]
<1>4. h \in Nat /\ f \in Splits(h)
  BY <1>1, CellType
<1>5. i \in 0..(h + 1) /\ \A j \in 1..Len(Breaks) : BestUpTo(f, j, i, bests[j])
  BY <1>1 DEF Walk
<1>6. i = h + 1
  BY <1>1, <1>4, <1>5
<1>7. DOMAIN bests = 1..Len(Breaks)
  <2>1. bests = [j \in 1..Len(Breaks) |-> bests[j]]
    BY <1>1 DEF Sequences
  <2> QED BY <2>1
<1>8. Good(f, h, bests')
  <2> HIDE DEF f, h
  <2>1. \A j \in 1..Len(Breaks) : BestUpTo(f, j, h + 1, bests[j])
    BY <1>5, <1>6
  <2> QED BY <1>1, <1>4, <1>7, <2>1, TrimmedGood
<1>9. \A n \in DOMAIN ehpCache' : Good(SplitTable[n], n, ehpCache'[n])
  <2>1. \A n \in DOMAIN ehpCache : Good(SplitTable[n], n, ehpCache[n])
    BY <1>1 DEF Walk
  <2> QED BY <1>1, <1>8, <2>1
<1> QED BY <1>1, <1>2, <1>3, <1>8, <1>9 DEF Walk

LEMMA WalkEmit ==
  ASSUME Classed, Sequences, Walk, Emit
  PROVE  Walk'
<1>1. /\ pc = "emit" /\ class' = class /\ request' = request /\ caller' = caller
      /\ ehpCache' = ehpCache
      /\ Recommending => builds' = builds \o Offered(cell, bests)
      /\ pc' \in {"rows", "rate", "cell"}
      /\ pc' = "rate" => Recommending
  BY DEF Emit, Recommending
<1>2. SplitTable' = SplitTable /\ MindTable' = MindTable /\ Grid' = Grid /\ level' = level
  BY <1>1, TablesStay
<1>3. Recommending' <=> Recommending
  BY <1>1 DEF Recommending
<1>4. /\ cell \in Grid /\ Good(SplitTable[cell.health], cell.health, bests)
      /\ \A n \in DOMAIN ehpCache : Good(SplitTable[n], n, ehpCache[n])
      /\ Recommending =>
           \A c \in Grid : Behind(c, cell) => Served(SplitTable, MindTable, level, builds, c)
      /\ Recommending => \A n \in 1..Len(builds) : Made(SplitTable, MindTable, level, builds[n])
  BY <1>1 DEF Walk
<1>5. request \in Requests /\ level \in Nat /\ request.stride \in Nat \ {0}
  BY RequestType DEF Sequences
<1> DEFINE o == Offered(cell, bests)
<1>6. /\ Served(SplitTable, MindTable, level, o, cell)
      /\ \A n \in 1..Len(o) : Made(SplitTable, MindTable, level, o[n])
  BY <1>4, <1>5, OfferedServes
<1>7. IsSeq(o) /\ (Recommending => IsSeq(builds))
  BY <1>1, OfferedIsSeq DEF Sequences, Recommending
<1>8. ASSUME Recommending
      PROVE  /\ \A c \in Grid : Behind(c, cell) \/ c = cell =>
                  Served(SplitTable, MindTable, level, builds', c)
             /\ \A n \in 1..Len(builds') : Made(SplitTable, MindTable, level, builds'[n])
  <2> HIDE DEF o
  <2>1. builds' = builds \o o
    BY <1>1, <1>8 DEF o
  <2>2. /\ Len(builds) \in Nat /\ Len(o) \in Nat /\ Len(builds') = Len(builds) + Len(o)
        /\ \A k \in 1..Len(builds) : builds'[k] = builds[k]
        /\ \A k \in 1..Len(o) : builds'[Len(builds) + k] = o[k]
    BY <2>1, <1>7, <1>8, ConcatElements
  <2>3. ASSUME NEW n \in 1..Len(builds')
        PROVE  Made(SplitTable, MindTable, level, builds'[n])
    <3>1. CASE n \in 1..Len(builds)
      BY <3>1, <2>2, <1>4, <1>8
    <3>2. CASE n \notin 1..Len(builds)
      <4> DEFINE k == n - Len(builds)
      <4>1. k \in 1..Len(o) /\ n = Len(builds) + k
        BY <3>2, <2>2
      <4> HIDE DEF k
      <4> QED BY <4>1, <2>2, <1>6
    <3> QED BY <3>1, <3>2
  <2>4. ASSUME NEW c \in Grid, Behind(c, cell)
        PROVE  Served(SplitTable, MindTable, level, builds', c)
    <3>1. Served(SplitTable, MindTable, level, builds, c)
      BY <2>4, <1>4, <1>8
    <3> QED BY <3>1, <2>1, <1>7, <1>8, ServedGrows
  <2>5. Served(SplitTable, MindTable, level, builds', cell)
    <3> SUFFICES ASSUME NEW j \in 1..Len(Breaks),
                        \E v \in 0..cell.health : Meets(SplitTable[cell.health], j, v)
                 PROVE  \E n \in 1..Len(builds') :
                          /\ builds'[n].damage = cell.damage
                          /\ builds'[n].fp = MindTable[level - cell.damage - cell.health]
                          /\ Breaks[j] <= builds'[n].poise
                          /\ \A v \in 0..cell.health :
                               Meets(SplitTable[cell.health], j, v) =>
                                 SplitTable[cell.health][v].ehp <= builds'[n].ehp
      BY DEF Served
    <3>1. PICK k \in 1..Len(o) :
            /\ o[k].damage = cell.damage
            /\ o[k].fp = MindTable[level - cell.damage - cell.health]
            /\ Breaks[j] <= o[k].poise
            /\ \A v \in 0..cell.health :
                 Meets(SplitTable[cell.health], j, v) => SplitTable[cell.health][v].ehp <= o[k].ehp
      BY <1>6 DEF Served
    <3>2. builds'[Len(builds) + k] = o[k] /\ Len(builds) + k \in 1..Len(builds')
      BY <2>2
    <3> QED BY <3>1, <3>2
  <2> QED BY <2>3, <2>4, <2>5
<1>9. CASE LastInRow /\ LastRow
  <2>1. pc' \in {"rows", "rate"} /\ cell' = cell
    BY <1>9 DEF Emit
  <2>2. \A c \in Grid : Behind(c, cell) \/ c = cell
    BY <1>4, <1>5, <1>9, LastCell
  <2>3. pc' = "rate" => \A c \in Grid : Served(SplitTable, MindTable, level, builds', c)
    BY <2>2, <1>1, <1>8
  <2>4. pc' \notin {"start", "class", "cell", "split", "emit"}
    BY <2>1
  <2> QED BY <2>3, <2>4, <1>1, <1>2, <1>3, <1>4, <1>8 DEF Walk
<1>10. CASE ~(LastInRow /\ LastRow)
  <2>1. /\ pc' = "cell"
        /\ cell' = IF LastInRow
                   THEN [damage |-> cell.damage + request.stride, health |-> 0]
                   ELSE [cell EXCEPT !.health = @ + request.stride]
    BY <1>10 DEF Emit
  <2>2. /\ cell' \in Grid
        /\ \A c \in Grid : Behind(c, cell') => Behind(c, cell) \/ c = cell
    BY <2>1, <1>4, <1>5, <1>10, NextCell
  <2>3. Recommending =>
          \A c \in Grid : Behind(c, cell') => Served(SplitTable, MindTable, level, builds', c)
    BY <2>2, <1>8
  <2>4. pc' \notin {"start", "class", "split", "emit", "rate"}
    BY <2>1
  <2> QED BY <2>1, <2>2, <2>3, <2>4, <1>1, <1>2, <1>3, <1>4, <1>8 DEF Walk
<1> QED BY <1>9, <1>10

LEMMA WalkNext ==
  ASSUME Classed, Sequences, Walk, [Next]_vars
  PROVE  Walk'
<1>1. CASE Rescale
  BY <1>1, WalkRescale
<1>2. CASE Begin
  BY <1>2, WalkBegin
<1>3. CASE LookUp
  BY <1>3, WalkLookUp
<1>4. CASE TrySplit
  BY <1>4, WalkTrySplit
<1>5. CASE Remember
  BY <1>5, WalkRemember
<1>6. CASE Emit
  BY <1>6, WalkEmit
<1>7. CASE Rate \/ Offer \/ Recommend \/ Return
  <2>1. /\ pc \in {"rate", "rank"} /\ pc' \in {"rank", "aborted", "done"}
        /\ class' = class /\ request' = request /\ caller' = caller
        /\ ehpCache' = ehpCache /\ builds' = builds
    <3>1. CASE Rate
      BY <3>1 DEF Rate
    <3>2. CASE Offer
      BY <3>2 DEF Offer
    <3>3. CASE Recommend
      BY <3>3 DEF Recommend
    <3>4. CASE Return
      BY <3>4 DEF Return
    <3> QED BY <1>7, <3>1, <3>2, <3>3, <3>4
  <2>2. SplitTable' = SplitTable /\ MindTable' = MindTable /\ level' = level
    BY <2>1, TablesStay
  <2>3. Recommending' <=> Recommending
    BY <2>1 DEF Recommending
  <2>4. /\ \A n \in DOMAIN ehpCache : Good(SplitTable[n], n, ehpCache[n])
        /\ Recommending => \A n \in 1..Len(builds) : Made(SplitTable, MindTable, level, builds[n])
    BY <2>1 DEF Walk
  <2>5. pc' \notin {"start", "class", "cell", "split", "emit", "rate"}
    BY <2>1
  <2> QED BY <2>1, <2>2, <2>3, <2>4, <2>5 DEF Walk
<1>8. CASE UNCHANGED vars
  <2>1. /\ pc' = pc /\ class' = class /\ request' = request /\ caller' = caller
        /\ cell' = cell /\ i' = i /\ bests' = bests /\ ehpCache' = ehpCache /\ builds' = builds
    BY <1>8 DEF vars
  <2>2. SplitTable' = SplitTable /\ MindTable' = MindTable /\ Grid' = Grid /\ level' = level
    BY <2>1, TablesStay
  <2> QED BY <2>1, <2>2 DEF Walk, Recommending
<1> QED BY <1>1, <1>2, <1>3, <1>4, <1>5, <1>6, <1>7, <1>8 DEF Next

LEMMA WalkBest ==
  ASSUME Classed, Sequences, Walk
  PROVE  BestAtEach
<1> SUFFICES ASSUME pc = "rate", NEW c \in Grid, NEW j \in 1..Len(Breaks),
                    {s \in {Split(v, c.health) : v \in 0..c.health} : Breaks[j] <= s.poise} # {}
             PROVE  \E n \in 1..Len(builds) :
                      /\ builds[n].damage = c.damage
                      /\ builds[n].fp = FpOf(Rest(c))
                      /\ Breaks[j] <= builds[n].poise
                      /\ \A s \in {s \in {Split(v, c.health) : v \in 0..c.health} : Breaks[j] <= s.poise} :
                           s.ehp <= builds[n].ehp
  BY DEF BestAtEach
<1> DEFINE h == c.health
<1> DEFINE f == SplitTable[h]
<1>1. request \in Requests /\ level \in Nat
  BY RequestType DEF Sequences
<1>2. h \in 0..level /\ level - c.damage - h \in 0..level
  BY <1>1 DEF Grid
<1>3. class[1] \in 1..Top /\ class[3] \in 1..Top
  BY ClassType
<1>4. \A v \in 0..h : f[v] = Split(v, h)
  BY <1>1, <1>2, <1>3, TableType
<1>5. Served(SplitTable, MindTable, level, builds, c)
  BY DEF Walk
<1>6. \E v \in 0..h : Meets(f, j, v)
  BY <1>4 DEF Meets
<1>7. PICK n \in 1..Len(builds) :
        /\ builds[n].damage = c.damage
        /\ builds[n].fp = MindTable[level - c.damage - h]
        /\ Breaks[j] <= builds[n].poise
        /\ \A v \in 0..h : Meets(f, j, v) => f[v].ehp <= builds[n].ehp
  BY <1>5, <1>6 DEF Served
<1>8. FpOf(Rest(c)) = MindTable[level - c.damage - h]
  BY <1>2 DEF MindTable, Rest
<1>9. ASSUME NEW v \in 0..h, Breaks[j] <= Split(v, h).poise
      PROVE  Split(v, h).ehp <= builds[n].ehp
  BY <1>4, <1>7, <1>9 DEF Meets
<1> QED BY <1>7, <1>8, <1>9

\* For all tables, classes, levels and strides: the grid
\* and the search for breakpoints lose no build that is best at one.
THEOREM BestAtEachAlways == Spec => []BestAtEach
<1>1. Init => Classed /\ Sequences /\ Walk
  BY ClassedInit, SequencesInit, WalkInit
<1>2. Classed /\ Sequences /\ Walk /\ [Next]_vars => Classed' /\ Sequences' /\ Walk'
  BY ClassedNext, SequencesNext, WalkNext
<1>3. Classed /\ Sequences /\ Walk => BestAtEach
  BY WalkBest
<1> QED BY <1>1, <1>2, <1>3, PTL DEF Spec

-----------------------------------------------------------------------------
(* Recommendations spend the level *)

\* Different values of mind have different focus points.
LEMMA MindInverted ==
  ASSUME NEW m \in Stat
  PROVE  FpToMind(Fp[m]) = m
<1>1. Top \in Nat
  BY TableAssumption
<1>2. ASSUME NEW k \in Stat, Fp[k] = Fp[m] PROVE k = m
  <2>1. k \in Nat /\ m \in Nat /\ Fp[k] \in Nat /\ Fp[m] \in Nat
    BY <1>1, TableAssumption DEF Stat
  <2>2. ~(k < m) /\ ~(m < k)
    <3>1. (k < m => Fp[k] < Fp[m]) /\ (m < k => Fp[m] < Fp[k])
      BY TableAssumption
    <3> QED BY <3>1, <2>1, <1>2
  <2> QED BY <2>1, <2>2
<1> QED BY <1>2 DEF FpToMind

\* What rankBuilds and operator() print are builds of theirs.
LEMMA RankingPrinted ==
  ASSUME Sequences, Ranking, pc \in {"rank", "done", "aborted"}
  PROVE  Recommending /\ printed \in Seq(1..Len(builds))
<1>1. Recommending /\ IsSeq(builds)
  BY DEF Sequences, Recommending
<1>2. CASE pc \in {"rank", "done"}
  <2>1. rated \in 0..Len(builds) /\ printed \in Seq(1..rated) /\ Len(builds) \in Nat
    BY <1>1, <1>2, SeqLength DEF Ranking, Ranked
  <2>2. 1..rated \subseteq 1..Len(builds)
    BY <2>1
  <2> QED BY <2>1, <2>2, <1>1, SeqWidens
<1>3. CASE pc = "aborted"
  BY <1>3, <1>1 DEF Ranking
<1> QED BY <1>2, <1>3

LEMMA MadeSpends ==
  ASSUME request \in Requests, class[1] \in 1..Top, class[2] \in 1..(Top - 1), class[3] \in 1..Top,
         Recommending, NEW b, Made(SplitTable, MindTable, level, b)
  PROVE  LET spent == b.damage + b.vigor + b.endurance + MindOf(b)
         IN /\ b.vigor >= 0 /\ b.endurance >= 0 /\ MindOf(b) >= 0
            /\ spent <= level
            /\ \/ spent = level
               \/ b.vigor + Base.vigor = Top
               \/ b.endurance + Base.endurance = Top
               \/ MindOf(b) + Base.mind = Top - 1
<1>1. level \in Nat /\ Top \in Nat
  BY RequestType, TableAssumption
<1>2. PICK d \in 0..level : \E h \in 0..(level - d) : \E v \in 0..h :
        /\ b.damage = d /\ b.fp = MindTable[level - d - h]
        /\ b.vigor = SplitTable[h][v].vigor /\ b.endurance = SplitTable[h][v].endurance
  BY DEF Made
<1>3. PICK h \in 0..(level - d) : \E v \in 0..h :
        /\ b.damage = d /\ b.fp = MindTable[level - d - h]
        /\ b.vigor = SplitTable[h][v].vigor /\ b.endurance = SplitTable[h][v].endurance
  BY <1>2
<1>4. PICK v \in 0..h :
        /\ b.damage = d /\ b.fp = MindTable[level - d - h]
        /\ b.vigor = SplitTable[h][v].vigor /\ b.endurance = SplitTable[h][v].endurance
  BY <1>3
<1> DEFINE z == level - d - h
<1> DEFINE m == Limit(Base.mind + z, Top - 1)
<1>5. d \in Nat /\ h \in Nat /\ v \in Nat /\ z \in 0..level /\ h \in 0..level
      /\ d + h + z = level
  BY <1>1
<1>6. /\ b.vigor = Split(v, h).vigor /\ b.endurance = Split(v, h).endurance
  BY <1>4, <1>5, TableType
<1>7. /\ b.vigor \in 0..v /\ b.endurance \in 0..(h - v)
      /\ b.vigor = v \/ b.vigor + Base.vigor = Top
      /\ b.endurance = h - v \/ b.endurance + Base.endurance = Top
  <2>1. /\ Split(v, h).vigor \in 0..v
        /\ Split(v, h).vigor = v \/ Split(v, h).vigor + Base.vigor = Top
        /\ Split(v, h).endurance \in 0..(h - v)
        /\ Split(v, h).endurance = h - v \/ Split(v, h).endurance + Base.endurance = Top
    BY <1>5, SplitType
  <2> QED BY <2>1, <1>6
<1>8. b.fp = Fp[m]
  BY <1>4, <1>5 DEF MindTable, FpOf, Recommending
<1>9. /\ m \in 1..(Top - 1) /\ m - Base.mind \in 0..z
      /\ m = Top - 1 \/ m - Base.mind = z
  BY <1>1, <1>5 DEF Limit, Base
<1> HIDE DEF m, z
<1>10. m \in Stat
  BY <1>1, <1>9 DEF Stat
<1>11. MindOf(b) = m - Base.mind
  BY <1>8, <1>10, MindInverted DEF MindOf
<1>12. Base.mind \in Int /\ m \in Int
  BY <1>1, <1>9 DEF Base
<1>13. MindOf(b) \in 0..z /\ (MindOf(b) + Base.mind = Top - 1 \/ MindOf(b) = z)
  BY <1>9, <1>11, <1>12
<1> DEFINE u == MindOf(b)
<1> DEFINE spent == b.damage + b.vigor + b.endurance + u
<1> HIDE DEF u
<1>14. /\ b.vigor >= 0 /\ b.endurance >= 0 /\ u >= 0 /\ spent <= level
       /\ \/ spent = level \/ b.vigor # v \/ b.endurance # h - v \/ u # z
  BY <1>1, <1>4, <1>5, <1>7, <1>13 DEF u
<1> QED BY <1>7, <1>13, <1>14 DEF u

LEMMA WalkSpends ==
  ASSUME Classed, Sequences, Ranking, Walk
  PROVE  SpendsLevel
<1>1. CASE pc \notin {"rank", "done", "aborted"}
  <2>1. printed = << >>
    BY <1>1 DEF Ranking
  <2>2. \A k \in 1..Len(printed) : FALSE
    BY <2>1
  <2> QED BY <2>2 DEF SpendsLevel
<1>2. CASE pc \in {"rank", "done", "aborted"}
  <2>1. Recommending /\ printed \in Seq(1..Len(builds)) /\ request \in Requests
    BY <1>2, RankingPrinted DEF Sequences
  <2>2. class[1] \in 1..Top /\ class[2] \in 1..(Top - 1) /\ class[3] \in 1..Top
    BY <1>2, ClassType
  <2>3. \A k \in 1..Len(printed) : Made(SplitTable, MindTable, level, builds[printed[k]])
    BY <1>2, <2>1 DEF Walk
  <2> QED BY <2>1, <2>2, <2>3, MadeSpends DEF SpendsLevel
<1> QED BY <1>1, <1>2

\* For all tables, classes, levels, strides and models: the
\* stats recommended spend the level, or less where a stat cannot rise.
THEOREM SpendsLevelAlways == Spec => []SpendsLevel
<1>1. Init => Classed /\ Sequences /\ Ranking /\ Walk
  BY ClassedInit, SequencesInit, RankingInit, WalkInit
<1>2. Classed /\ Sequences /\ Ranking /\ Walk /\ [Next]_vars => Classed' /\ Sequences' /\ Ranking' /\ Walk'
  BY ClassedNext, SequencesNext, RankingNext, WalkNext
<1>3. Classed /\ Sequences /\ Ranking /\ Walk => SpendsLevel
  BY WalkSpends
<1> QED BY <1>1, <1>2, <1>3, PTL DEF Spec

-----------------------------------------------------------------------------
(* Types *)

\* The inductive invariant of the types: TypeOK, and the lengths of what the
\* cache holds.
Typed ==
  /\ cell.damage \in 0..level /\ cell.health \in 0..(level - cell.damage)
  /\ i \in 0..(level + 1)
  /\ Len(bests) \in 0..Len(Breaks)
  /\ \A n \in DOMAIN ehpCache : n \in 0..level /\ Len(ehpCache[n]) \in 0..Len(Breaks)
  /\ rated \in 0..Len(builds) /\ heap \subseteq 1..rated /\ Cardinality(heap) <= request.numBuilds

LEMMA CellInRange ==
  ASSUME level \in Nat, cell \in Grid
  PROVE  cell.damage \in 0..level /\ cell.health \in 0..(level - cell.damage) /\ cell.health \in 0..level
BY DEF Grid

LEMMA LevelStays == [Next]_vars => request' = request /\ caller' = caller /\ own' = own /\ level' = level
BY DEF Next, Rescale, Begin, LookUp, TrySplit, Remember, Emit, Rate, Offer, Recommend, Return, vars, level

LEMMA TypedInit ==
  ASSUME Init
  PROVE  Typed
<1>1. level \in Nat /\ request.numBuilds \in Nat
  BY RequestType, RequestAssumption DEF Init
<1>2. Cardinality({}) = 0
  BY FS_EmptySet
<1>3. Len(Breaks) \in Nat
  BY BreaksType
<1>4. bests = << >> /\ builds = << >> /\ Len(<< >>) = 0
  BY DEF Init
<1>5. cell.damage = 0 /\ cell.health = 0 /\ i = 0 /\ rated = 0 /\ heap = {} /\ DOMAIN ehpCache = {}
  BY DEF Init
<1> QED BY <1>1, <1>2, <1>3, <1>4, <1>5 DEF Typed

\* The heap and what is offered to it.
LEMMA HeapTyped ==
  ASSUME Sequences', Ranking', Typed, [Next]_vars
  PROVE  /\ rated' \in 0..Len(builds') /\ heap' \subseteq 1..rated'
         /\ Cardinality(heap') <= request.numBuilds'
<1>1. /\ request' \in Requests /\ Len(builds') \in Nat
      /\ pc' \in {"start", "class", "cell", "split", "emit", "rate", "rank", "aborted", "rows", "done"}
  BY SeqLength DEF Sequences
<1>2. request'.numBuilds \in Nat
  BY <1>1, RequestAssumption
<1>3. Cardinality({}) = 0
  BY FS_EmptySet
<1>4. CASE pc' \notin {"rank", "aborted", "done"}
  <2>1. rated' = 0 /\ heap' = {}
    BY <1>4 DEF Ranking
  <2> QED BY <2>1, <1>1, <1>2, <1>3
<1>5. CASE pc' \in {"rank", "done"}
  <2>1. /\ rated' \in 0..Len(builds') /\ heap' \subseteq 1..rated' /\ IsSeq(printed')
        /\ Cardinality(heap') + Len(printed') = Limit(request'.numBuilds, rated')
    BY <1>5 DEF Ranking, Ranked, IsSeq
  <2>2. Len(printed') \in Nat /\ rated' \in Nat
    BY <2>1, <1>1, SeqLength
  <2>3. Cardinality(heap') \in Nat
    BY <2>1, <2>2, IntervalFinite, FS_Subset, FS_CardinalityType
  <2> QED BY <2>1, <2>2, <2>3, <1>2 DEF Limit
<1>6. CASE pc' = "aborted"
  <2>1. CASE Recommend
    <3>1. heap' \subseteq heap /\ rated' = rated /\ builds' = builds /\ request' = request
      BY <2>1 DEF Recommend
    <3>2. IsFiniteSet(heap) /\ Cardinality(heap) \in Nat
      <4>1. rated \in Nat /\ heap \subseteq 1..rated
        BY <3>1, <1>1 DEF Typed
      <4> QED BY <4>1, IntervalFinite, FS_Subset, FS_CardinalityType
    <3>3. Cardinality(heap') <= Cardinality(heap) /\ Cardinality(heap') \in Nat
      BY <3>1, <3>2, FS_Subset, FS_CardinalityType
    <3> QED BY <3>1, <3>2, <3>3, <1>2 DEF Typed
  <2>2. CASE UNCHANGED vars
    BY <2>2 DEF vars, Typed
  <2> QED BY <2>1, <2>2, <1>6 DEF Next, Rescale, Begin, LookUp, TrySplit, Remember, Emit, Rate, Offer, Return
<1> QED BY <1>1, <1>4, <1>5, <1>6

LEMMA TypedNext ==
  ASSUME Sequences, Sequences', Ranking', Walk, Walk', Typed, [Next]_vars
  PROVE  Typed'
<1>1. /\ level \in Nat /\ level' = level
  BY RequestType, LevelStays DEF Sequences
<1>2. /\ rated' \in 0..Len(builds') /\ heap' \subseteq 1..rated'
      /\ Cardinality(heap') <= request.numBuilds'
  BY HeapTyped
<1>3. /\ cell'.damage \in 0..level /\ cell'.health \in 0..(level - cell'.damage)
  <2>1. CASE Emit
    <3>1. CASE pc' = "cell"
      <4>1. cell' \in Grid'
        BY <3>1 DEF Walk
      <4> QED BY <4>1, <1>1 DEF Grid
    <3>2. CASE pc' # "cell"
      BY <2>1, <3>2 DEF Emit, Typed
    <3> QED BY <3>1, <3>2
  <2>2. CASE cell' = cell
    BY <2>2 DEF Typed
  <2> QED BY <2>1, <2>2 DEF Next, Rescale, Begin, LookUp, TrySplit, Remember, Rate, Offer, Recommend, Return, vars
<1>4. i' \in 0..(level + 1)
  <2>1. CASE TrySplit
    <3>1. i' = i + 1 /\ i <= cell.health /\ pc = "split" /\ i \in Nat
      BY <2>1 DEF TrySplit, Typed
    <3>2. cell.health \in 0..level
      BY <3>1, <1>1, CellInRange DEF Walk
    <3> QED BY <3>1, <3>2, <1>1
  <2>2. CASE i' = i \/ i' = 0
    BY <2>2, <1>1 DEF Typed
  <2> QED BY <2>1, <2>2 DEF Next, Rescale, Begin, LookUp, Remember, Emit, Rate, Offer, Recommend, Return, vars
<1>5. Len(Breaks) \in Nat
  BY BreaksType
<1>6. CASE TrySplit
  <2>1. bests' = Improve(Split(i, cell.health)) /\ ehpCache' = ehpCache
    BY <1>6 DEF TrySplit
  <2>2. Len(bests') = Len(Breaks)
    <3>1. bests' = [j \in 1..Len(Breaks) |-> bests'[j]]
      BY <2>1 DEF Improve
    <3> QED BY <3>1, <1>5, FunctionIsSeq
  <2> QED BY <2>1, <2>2, <1>1, <1>2, <1>3, <1>4, <1>5 DEF Typed
<1>7. CASE Remember
  <2>1. /\ pc = "split" /\ pc' = "emit" /\ cell' = cell
        /\ ehpCache' = [n \in DOMAIN ehpCache \cup {cell.health} |->
                          IF n = cell.health THEN bests' ELSE ehpCache[n]]
    BY <1>7 DEF Remember
  <2>2. Len(bests') \in 0..Len(Breaks)
    BY <2>1, <1>5 DEF Walk, Good
  <2>3. cell.health \in 0..level
    BY <2>1, <1>1, CellInRange DEF Walk
  <2>4. \A n \in DOMAIN ehpCache' : n \in 0..level /\ Len(ehpCache'[n]) \in 0..Len(Breaks)
    BY <2>1, <2>2, <2>3 DEF Typed
  <2> QED BY <2>2, <2>4, <1>1, <1>2, <1>3, <1>4 DEF Typed
<1>8. CASE LookUp
  <2>1. ehpCache' = ehpCache /\ pc = "cell"
    BY <1>8 DEF LookUp
  <2>2. Len(bests') \in 0..Len(Breaks)
    <3>1. CASE cell.health \in DOMAIN ehpCache
      BY <1>8, <3>1 DEF LookUp, Typed
    <3>2. CASE cell.health \notin DOMAIN ehpCache
      <4>1. bests' = [j \in 1..Len(Breaks) |-> None]
        BY <1>8, <3>2 DEF LookUp
      <4>2. bests' = [j \in 1..Len(Breaks) |-> bests'[j]]
        BY <4>1
      <4> QED BY <4>2, <1>5, FunctionIsSeq
    <3> QED BY <3>1, <3>2
  <2> QED BY <2>1, <2>2, <1>1, <1>2, <1>3, <1>4 DEF Typed
<1>9. CASE bests' = bests /\ ehpCache' = ehpCache
  BY <1>9, <1>1, <1>2, <1>3, <1>4 DEF Typed
<1> QED BY <1>6, <1>7, <1>8, <1>9 DEF Next, Rescale, Begin, Emit, Rate, Offer, Recommend, Return, vars

LEMMA TypedTypeOK ==
  ASSUME Classed, Sequences, Ranking, Typed
  PROVE  TypeOK
<1>1. class \in Seq(1..Top)
  BY ClassedSeq DEF Classed, Stat
<1>2. \A n \in 1..Len(printed) : printed[n] \in 1..Len(builds)
  <2>1. CASE pc \in {"rank", "aborted", "done"}
    BY <2>1, RankingPrinted
  <2>2. CASE pc \notin {"rank", "aborted", "done"}
    <3>1. printed = << >>
      BY <2>2 DEF Ranking
    <3> QED BY <3>1
  <2> QED BY <2>1, <2>2
<1>3. DOMAIN ehpCache \subseteq 0..level
  BY DEF Typed
<1> QED BY <1>1, <1>2, <1>3 DEF TypeOK, Typed, Sequences

\* For all constants: the variables keep their types, the grid stays within
\* the level, and the heap holds no more builds than were asked for.
THEOREM TypeCorrect == Spec => []TypeOK
<1>1. Init => Classed /\ Sequences /\ Ranking /\ Walk /\ Typed
  BY ClassedInit, SequencesInit, RankingInit, WalkInit, TypedInit
<1>2. Classed /\ Sequences /\ Ranking /\ Walk /\ Typed /\ [Next]_vars =>
        Classed' /\ Sequences' /\ Ranking' /\ Walk' /\ Typed'
  BY ClassedNext, SequencesNext, RankingNext, WalkNext, TypedNext
<1>3. Classed /\ Sequences /\ Ranking /\ Typed => TypeOK
  BY TypedTypeOK
<1> QED BY <1>1, <1>2, <1>3, PTL DEF Spec

-----------------------------------------------------------------------------
(* Training rows *)

Deriving == caller = "exponentialDecay"

\* The near ones of a point's rows are among the rows.
HasRows(c) ==
  LET offers == Offered(c, ehpCache[c.health])
  IN /\ c.health \in DOMAIN ehpCache
     /\ \A j \in DOMAIN offers : Near(offers[j]) => offers[j] \in Rows

\* The inductive invariant of the training rows.
Rowed ==
  /\ Deriving => own \in Owns
  /\ pc = "split" => cell.health \notin DOMAIN ehpCache
  /\ pc = "emit" => cell.health \in DOMAIN ehpCache /\ bests = ehpCache[cell.health]
  /\ Deriving /\ pc \notin {"start", "class"} =>
       /\ Len(builds) >= 1
       /\ \A n \in 2..Len(builds) : Near(builds[n])
  /\ Deriving /\ pc \in {"cell", "split", "emit"} => \A c \in Grid : Behind(c, cell) => HasRows(c)
  /\ pc = "rows" => Deriving /\ \A c \in Grid : HasRows(c)

\* Less of the distance for more of everything.
LEMMA TierMonotone ==
  ASSUME NEW p \in Nat, NEW q \in Nat, p <= q
  PROVE  Tier(p) \in Nat /\ Tier(q) \in Nat /\ Tier(p) <= Tier(q)
<1> DEFINE P == Reached([poise |-> p])
           Q == Reached([poise |-> q])
<1>1. P \subseteq Q
  <2>1. \A k \in 1..Len(Breaks) : Breaks[k] \in Nat
    BY BreaksType
  <2>2. [poise |-> p].poise = p /\ [poise |-> q].poise = q
    OBVIOUS
  <2>3. \A j \in 1..Len(Breaks) : \A k \in 1..j : k \in 1..Len(Breaks)
    BY BreaksType
  <2>4. \A j \in 1..Len(Breaks) : (\A k \in 1..j : Breaks[k] <= p) => \A k \in 1..j : Breaks[k] <= q
    BY <2>1, <2>3
  <2> QED BY <2>2, <2>4 DEF Reached
<1>2. IsFiniteSet(Q)
  <2>1. IsFiniteSet(1..Len(Breaks)) /\ Q \subseteq 1..Len(Breaks)
    BY BreaksType, IntervalFinite DEF Reached
  <2> QED BY <2>1, FS_Subset
<1> HIDE DEF P, Q
<1>3. Cardinality(P) \in Nat /\ Cardinality(Q) \in Nat /\ Cardinality(P) <= Cardinality(Q)
  BY <1>1, <1>2, FS_Subset, FS_CardinalityType
<1> QED BY <1>3 DEF Tier, P, Q

LEMMA BelowFalls ==
  ASSUME NEW m \in Nat, NEW n \in Nat, m <= n, NEW goal \in Nat
  PROVE  Below(m, goal) \in Nat /\ Below(n, goal) \in Nat /\ Below(n, goal) <= Below(m, goal)
BY DEF Below

LEMMA DistanceFalls ==
  ASSUME own \in Owns,
         NEW b, NEW a, b.ehp \in Nat, a.ehp \in Nat, b.poise \in Nat, a.poise \in Nat,
         NEW c, NEW d, c.damage \in Nat, d.damage \in Nat, NEW y \in Nat, NEW z \in Nat,
         b.ehp <= a.ehp, b.poise <= a.poise, c.damage <= d.damage, y <= z
  PROVE  /\ Distance(b, c, y) \in Nat /\ Distance(a, d, z) \in Nat
         /\ Distance(a, d, z) <= Distance(b, c, y)
<1>1. /\ own.damage \in Nat /\ own.mind \in Nat /\ own.ehp \in Nat /\ own.poise \in Nat
  BY RequestAssumption
<1> DEFINE d1 == Below(c.damage, own.damage)
           d2 == Below(d.damage, own.damage)
           t1 == Below(Tier(b.poise), Tier(own.poise))
           t2 == Below(Tier(a.poise), Tier(own.poise))
           m1 == Below(y, own.mind)
           m2 == Below(z, own.mind)
           e1 == Below(b.ehp, own.ehp)
           e2 == Below(a.ehp, own.ehp)
           s1 == d1 + 10 * t1 + 5 * m1
           s2 == d2 + 10 * t2 + 5 * m2
<1>2. d1 \in Nat /\ d2 \in Nat /\ d2 <= d1
  BY <1>1, BelowFalls
<1>3. t1 \in Nat /\ t2 \in Nat /\ t2 <= t1
  <2>1. Tier(b.poise) \in Nat /\ Tier(a.poise) \in Nat /\ Tier(b.poise) <= Tier(a.poise)
    BY TierMonotone
  <2>2. Tier(own.poise) \in Nat
    BY <1>1, TierMonotone
  <2> QED BY <2>1, <2>2, BelowFalls
<1>4. m1 \in Nat /\ m2 \in Nat /\ m2 <= m1
  BY <1>1, BelowFalls
<1>5. e1 \in Nat /\ e2 \in Nat /\ e2 <= e1
  BY <1>1, BelowFalls
<1>6. /\ Distance(b, c, y) = own.ehp * s1 + 500 * e1
      /\ Distance(a, d, z) = own.ehp * s2 + 500 * e2
  BY DEF Distance
<1> HIDE DEF d1, d2, t1, t2, m1, m2, e1, e2
<1>7. s1 \in Nat /\ s2 \in Nat /\ s2 <= s1
  BY <1>2, <1>3, <1>4
<1> HIDE DEF s1, s2
<1>8. own.ehp * s1 \in Nat /\ own.ehp * s2 \in Nat /\ own.ehp * s2 <= own.ehp * s1
  <2> DEFINE g == s1 - s2
  <2>1. g \in Nat /\ s1 = s2 + g
    BY <1>7
  <2> HIDE DEF g
  <2>2. own.ehp * s1 = own.ehp * s2 + own.ehp * g
    BY <2>1, <1>1, <1>7
  <2>3. own.ehp * s1 \in Nat /\ own.ehp * s2 \in Nat /\ own.ehp * g \in Nat
    BY <2>1, <1>1, <1>7
  <2> QED BY <2>2, <2>3
<1> DEFINE p1 == own.ehp * s1
           p2 == own.ehp * s2
<1>9. p1 \in Nat /\ p2 \in Nat /\ p2 <= p1
  BY <1>8
<1>10. Distance(b, c, y) = p1 + 500 * e1 /\ Distance(a, d, z) = p2 + 500 * e2
  BY <1>6
<1> HIDE DEF p1, p2
<1> QED BY <1>5, <1>9, <1>10

\* What is offered does not depend on what changes in the walk.
LEMMA OffersStay ==
  ASSUME own' = own, class' = class, request' = request, caller' = caller
  PROVE  /\ Grid' = Grid /\ (Deriving' <=> Deriving)
         /\ \A c, bs : Offered(c, bs)' = Offered(c, bs)
         /\ \A b : Near(b)' <=> Near(b)
BY DEF Grid, level, Deriving, Offered, FpOf, Rest, Distance, Near, Base, Tier, Reached, Below, Limit

LEMMA RowedInit == Init => Rowed
BY DEF Init, Rowed, Deriving

\* Rows stay when a point is added to the cache.
LEMMA HasRowsStays ==
  ASSUME own' = own, class' = class, request' = request, caller' = caller,
         NEW c, HasRows(c),
         c.health \in DOMAIN ehpCache', ehpCache'[c.health] = ehpCache[c.health], Rows \subseteq Rows'
  PROVE  HasRows(c)'
<1>1. \A bs : Offered(c, bs)' = Offered(c, bs)
  BY OffersStay
<1>2. \A b : Near(b)' <=> Near(b)
  BY OffersStay
<1> QED BY <1>1, <1>2 DEF HasRows

LEMMA RowedRescale ==
  ASSUME Rowed, Rescale
  PROVE  Rowed'
BY DEF Rowed, Rescale, Deriving

LEMMA RowedBegin ==
  ASSUME Sequences, Walk, Rowed, Begin
  PROVE  Rowed'
<1>1. /\ pc = "class" /\ pc' = "cell" /\ class' = class /\ request' = request /\ caller' = caller
      /\ own' = own /\ cell' = cell /\ (Deriving => builds' = <<OwnRow>>)
  BY DEF Begin, Deriving
<1>2. Deriving' <=> Deriving
  BY <1>1 DEF Deriving
<1>3. \A c \in Grid : ~Behind(c, cell)
  <2>1. level \in Nat
    BY RequestType DEF Sequences
  <2>2. \A c \in Grid : c.damage \in Nat /\ c.health \in Nat
    BY <2>1 DEF Grid
  <2>3. cell = [damage |-> 0, health |-> 0]
    BY <1>1 DEF Walk
  <2> QED BY <2>2, <2>3 DEF Behind
<1>4. Grid' = Grid
  BY <1>1, TablesStay
<1>5. ASSUME Deriving PROVE Len(builds') = 1 /\ \A n \in 2..Len(builds') : FALSE
  <2>1. Len(builds') = 1
    BY <1>1, <1>5
  <2> QED BY <2>1
<1>6. Deriving => own' \in Owns
  BY <1>1 DEF Rowed
<1> QED BY <1>1, <1>2, <1>3, <1>4, <1>5, <1>6 DEF Rowed

\* A step that leaves the builds alone leaves the rows.
LEMMA RowedLeft ==
  ASSUME Sequences, Walk, Rowed, LookUp \/ TrySplit \/ Remember \/ UNCHANGED vars
  PROVE  Rowed'
<1>1. /\ class' = class /\ request' = request /\ caller' = caller /\ own' = own
      /\ cell' = cell /\ builds' = builds
      /\ \/ pc \in {"cell", "split"} /\ pc' \in {"split", "emit"}
         \/ UNCHANGED vars
      /\ \A n \in DOMAIN ehpCache : n \in DOMAIN ehpCache' /\ ehpCache'[n] = ehpCache[n]
  <2>1. CASE LookUp
    BY <2>1 DEF LookUp
  <2>2. CASE TrySplit
    BY <2>2 DEF TrySplit
  <2>3. CASE Remember
    BY <2>3 DEF Remember, Rowed
  <2>4. CASE UNCHANGED vars
    BY <2>4 DEF vars
  <2> QED BY <2>1, <2>2, <2>3, <2>4
<1>2. Grid' = Grid /\ (Deriving' <=> Deriving) /\ \A b : Near(b)' <=> Near(b)
  BY <1>1, OffersStay
<1>3. Rows' = Rows
  BY <1>1 DEF Rows
<1>4. \A c : HasRows(c) => HasRows(c)'
  <2> SUFFICES ASSUME NEW c, HasRows(c) PROVE HasRows(c)'
    OBVIOUS
  <2>1. c.health \in DOMAIN ehpCache
    BY DEF HasRows
  <2> QED BY <2>1, <1>1, <1>3, HasRowsStays
<1>5. /\ pc' = "split" => cell'.health \notin DOMAIN ehpCache'
      /\ pc' = "emit" => cell'.health \in DOMAIN ehpCache' /\ bests' = ehpCache'[cell'.health]
  <2>1. CASE LookUp
    BY <2>1 DEF LookUp
  <2>2. CASE TrySplit
    BY <2>2 DEF TrySplit, Rowed
  <2>3. CASE Remember
    BY <2>3 DEF Remember
  <2>4. CASE UNCHANGED vars
    BY <2>4 DEF vars, Rowed
  <2> QED BY <2>1, <2>2, <2>3, <2>4
<1>6. CASE pc \in {"cell", "split"} /\ pc' \in {"split", "emit"}
  <2>1. /\ Deriving => own \in Owns /\ Len(builds) >= 1 /\ \A n \in 2..Len(builds) : Near(builds[n])
        /\ Deriving => \A c \in Grid : Behind(c, cell) => HasRows(c)
    BY <1>6 DEF Rowed
  <2> QED BY <2>1, <1>1, <1>2, <1>4, <1>5, <1>6 DEF Rowed
<1>7. CASE UNCHANGED vars
  <2>1. pc' = pc
    BY <1>7 DEF vars
  <2> QED BY <2>1, <1>1, <1>2, <1>4, <1>5 DEF Rowed
<1> QED BY <1>1, <1>6, <1>7

\* The rows of a point join the others.
LEMMA RowedEmit ==
  ASSUME Sequences, Walk, Rowed, Emit
  PROVE  Rowed'
<1> DEFINE o == Offered(cell, bests)
<1>1. /\ pc = "emit" /\ class' = class /\ request' = request /\ caller' = caller /\ own' = own
      /\ ehpCache' = ehpCache /\ pc' \in {"rows", "rate", "cell"}
      /\ Deriving => builds' = Joined(builds, o)
      /\ pc' = "rows" => Deriving
  BY DEF Emit, Deriving
<1>2. Grid' = Grid /\ (Deriving' <=> Deriving) /\ \A b : Near(b)' <=> Near(b)
  BY <1>1, OffersStay
<1>3. /\ cell \in Grid /\ request \in Requests /\ level \in Nat /\ request.stride \in Nat \ {0}
      /\ IsSeq(builds) /\ IsSeq(o)
  <2>1. IsSeq(o)
    BY <1>1, OfferedIsSeq DEF Sequences
  <2>2. cell \in Grid
    BY <1>1 DEF Walk
  <2> QED BY <2>1, <2>2, RequestType DEF Sequences
<1>4. cell.health \in DOMAIN ehpCache /\ bests = ehpCache[cell.health]
  BY <1>1 DEF Rowed
<1> HIDE DEF o
<1>5. ASSUME Deriving
      PROVE  /\ own' \in Owns /\ Len(builds') >= 1 /\ \A n \in 2..Len(builds') : Near(builds'[n])
             /\ \A c \in Grid : Behind(c, cell) \/ c = cell => HasRows(c)'
  <2>1. own \in Owns /\ Len(builds) >= 1 /\ \A n \in 2..Len(builds) : Near(builds[n])
    BY <1>1, <1>5 DEF Rowed
  <2>2. Joins(builds, o, Len(o), builds')
    BY <1>1, <1>3, <1>5, JoinedJoins
  <2>3. /\ Len(builds) \in Nat /\ Len(builds') \in Nat /\ Len(builds') >= Len(builds)
        /\ \A n \in 1..Len(builds) : builds'[n] = builds[n]
        /\ \A n \in (Len(builds) + 1)..Len(builds') : Near(builds'[n])
        /\ \A k \in 1..Len(o) :
             Near(o[k]) => \E n \in (Len(builds) + 1)..Len(builds') : builds'[n] = o[k]
    BY <2>2, <1>3, SeqLength DEF Joins
  <2>4. ASSUME NEW n \in 2..Len(builds') PROVE Near(builds'[n])
    <3>1. CASE n \in 1..Len(builds)
      BY <3>1, <2>1, <2>3
    <3>2. CASE n \in (Len(builds) + 1)..Len(builds')
      BY <3>2, <2>3
    <3> QED BY <3>1, <3>2, <2>3
  <2>5. Rows \subseteq Rows'
    <3>1. \A n \in 2..Len(builds) : n \in 2..Len(builds') /\ builds'[n] = builds[n]
      BY <2>3
    <3> QED BY <3>1 DEF Rows
  <2>6. ASSUME NEW c \in Grid, Behind(c, cell) PROVE HasRows(c)'
    <3>1. HasRows(c)
      BY <2>6, <1>1, <1>5 DEF Rowed
    <3>2. c.health \in DOMAIN ehpCache
      BY <3>1 DEF HasRows
    <3> QED BY <3>1, <3>2, <2>5, <1>1, HasRowsStays
  <2>7. ASSUME NEW c \in Grid, c = cell PROVE HasRows(c)'
    <3>1. \A bs : Offered(c, bs)' = Offered(c, bs)
      BY <1>1, OffersStay
    <3>2. DOMAIN o = 1..Len(o)
      BY <1>3, SeqLength
    <3>3. \A j \in DOMAIN o : Near(o[j]) => o[j] \in Rows'
      <4> SUFFICES ASSUME NEW j \in DOMAIN o, Near(o[j]) PROVE o[j] \in Rows'
        OBVIOUS
      <4>1. PICK n \in (Len(builds) + 1)..Len(builds') : builds'[n] = o[j]
        BY <3>2, <2>3
      <4>2. n \in 2..Len(builds')
        BY <2>1, <2>3
      <4> QED BY <4>1, <4>2 DEF Rows
    <3>4. c.health \in DOMAIN ehpCache' /\ o = Offered(c, ehpCache'[c.health])
      BY <2>7, <1>1, <1>4 DEF o
    <3> QED BY <3>1, <3>3, <3>4, <1>2 DEF HasRows
  <2> QED BY <2>1, <2>3, <2>4, <2>6, <2>7, <1>1
<1>6. CASE LastInRow /\ LastRow
  <2>1. pc' \in {"rows", "rate"}
    BY <1>6 DEF Emit
  <2>2. \A c \in Grid : Behind(c, cell) \/ c = cell
    BY <1>3, <1>6, LastCell
  <2> QED BY <2>1, <2>2, <1>1, <1>2, <1>5 DEF Rowed
<1>7. CASE ~(LastInRow /\ LastRow)
  <2>1. /\ pc' = "cell"
        /\ cell' = IF LastInRow
                   THEN [damage |-> cell.damage + request.stride, health |-> 0]
                   ELSE [cell EXCEPT !.health = @ + request.stride]
    BY <1>7 DEF Emit
  <2>2. \A c \in Grid : Behind(c, cell') => Behind(c, cell) \/ c = cell
    BY <2>1, <1>3, <1>7, NextCell
  <2> QED BY <2>1, <2>2, <1>1, <1>2, <1>5 DEF Rowed
<1> QED BY <1>6, <1>7

LEMMA RowedNext ==
  ASSUME Sequences, Walk, Rowed, [Next]_vars
  PROVE  Rowed'
<1>1. CASE Rescale
  BY <1>1, RowedRescale
<1>2. CASE Begin
  BY <1>2, RowedBegin
<1>3. CASE LookUp \/ TrySplit \/ Remember \/ UNCHANGED vars
  BY <1>3, RowedLeft
<1>4. CASE Emit
  BY <1>4, RowedEmit
<1>5. CASE Rate \/ Offer \/ Recommend \/ Return
  <2>1. /\ pc' \notin {"start", "class", "cell", "split", "emit", "rows"}
        /\ ~Deriving /\ caller' = caller
    BY <1>5 DEF Rate, Offer, Recommend, Return, Sequences, Deriving
  <2> QED BY <2>1 DEF Rowed, Deriving
<1> QED BY <1>1, <1>2, <1>3, <1>4, <1>5 DEF Next

LEMMA RowedMonotone ==
  ASSUME Classed, Sequences, Walk, Rowed
  PROVE  RowsMonotone
<1> SUFFICES ASSUME pc = "rows", NEW c \in Grid, NEW d \in Grid,
                    c.damage <= d.damage, Rest(c) <= Rest(d),
                    NEW j \in DOMAIN Offered(c, ehpCache[c.health]),
                    NEW k \in DOMAIN Offered(d, ehpCache[d.health]),
                    Offered(c, ehpCache[c.health])[j] \in Rows,
                    Offered(c, ehpCache[c.health])[j].ehp <= Offered(d, ehpCache[d.health])[k].ehp,
                    Offered(c, ehpCache[c.health])[j].poise <= Offered(d, ehpCache[d.health])[k].poise
             PROVE  /\ Offered(d, ehpCache[d.health])[k] \in Rows
                    /\ Offered(d, ehpCache[d.health])[k].distance
                         <= Offered(c, ehpCache[c.health])[j].distance
  BY DEF RowsMonotone
<1> DEFINE p == ehpCache[c.health]
           q == ehpCache[d.health]
           worse == Offered(c, p)[j]
           better == Offered(d, q)[k]
<1>1. /\ Deriving /\ own \in Owns /\ HasRows(c) /\ HasRows(d)
      /\ \A n \in 2..Len(builds) : Near(builds[n])
  BY DEF Rowed
<1>2. request \in Requests /\ level \in Nat
  BY RequestType DEF Sequences
<1>3. c.health \in DOMAIN ehpCache /\ d.health \in DOMAIN ehpCache
  BY <1>1 DEF HasRows
<1>4. Good(SplitTable[c.health], c.health, p) /\ Good(SplitTable[d.health], d.health, q)
  BY <1>3 DEF Walk
<1>5. class[1] \in 1..Top /\ class[3] \in 1..Top
  BY ClassType
<1>6. ASSUME NEW n \in 0..level, NEW bs, Good(SplitTable[n], n, bs), NEW l \in 1..Len(bs)
      PROVE  bs[l].ehp \in Nat /\ bs[l].poise \in Nat
  <2>1. SplitTable[n] \in Splits(n)
    BY <1>2, <1>5, TableType
  <2>2. PICK v \in 0..n : bs[l] = SplitTable[n][v]
    BY <1>6 DEF Good
  <2>3. SplitTable[n][v] \in [ehp : Nat, poise : Nat, vigor : Int, endurance : Int]
    BY <2>1 DEF Splits
  <2> QED BY <2>2, <2>3
<1>7. /\ c.health \in 0..level /\ d.health \in 0..level /\ c.damage \in Nat /\ d.damage \in Nat
      /\ Rest(c) \in Nat /\ Rest(d) \in Nat
  BY <1>2 DEF Grid, Rest
<1>8. j \in 1..Len(p) /\ k \in 1..Len(q)
  BY DEF Offered
<1>9. /\ worse.ehp = p[j].ehp /\ worse.poise = p[j].poise /\ worse.distance = Distance(p[j], c, Rest(c))
      /\ better.ehp = q[k].ehp /\ better.poise = q[k].poise
      /\ better.distance = Distance(q[k], d, Rest(d))
  BY <1>1, <1>8 DEF Offered, Deriving
<1>10. p[j].ehp \in Nat /\ p[j].poise \in Nat /\ q[k].ehp \in Nat /\ q[k].poise \in Nat
  BY <1>4, <1>6, <1>7, <1>8
<1> HIDE DEF p, q, worse, better
<1>11. /\ worse.distance \in Nat /\ better.distance \in Nat /\ better.distance <= worse.distance
  <2>1. p[j].ehp <= q[k].ehp /\ p[j].poise <= q[k].poise
    BY <1>9 DEF worse, better, p, q
  <2>2. /\ Distance(p[j], c, Rest(c)) \in Nat /\ Distance(q[k], d, Rest(d)) \in Nat
        /\ Distance(q[k], d, Rest(d)) <= Distance(p[j], c, Rest(c))
    <3> DEFINE y == Rest(c)
               z == Rest(d)
               b == p[j]
               a == q[k]
    <3>1. /\ own \in Owns /\ b.ehp \in Nat /\ a.ehp \in Nat /\ b.poise \in Nat /\ a.poise \in Nat
          /\ c.damage \in Nat /\ d.damage \in Nat /\ y \in Nat /\ z \in Nat
          /\ b.ehp <= a.ehp /\ b.poise <= a.poise /\ c.damage <= d.damage /\ y <= z
      BY <2>1, <1>1, <1>7, <1>10
    <3> HIDE DEF y, z, a, b
    <3>2. /\ Distance(b, c, y) \in Nat /\ Distance(a, d, z) \in Nat
          /\ Distance(a, d, z) <= Distance(b, c, y)
      BY <3>1, DistanceFalls
    <3> QED BY <3>2 DEF y, z, a, b
  <2> QED BY <2>2, <1>9, Zenon
<1>12. Near(worse)
  <2>1. worse \in Rows
    BY DEF worse, p
  <2> QED BY <2>1, <1>1 DEF Rows
<1>13. Near(better)
  <2>1. own.ehp \in Nat
    BY <1>1, RequestAssumption
  <2> QED BY <2>1, <1>11, <1>12 DEF Near
<1>14. better \in Rows
  BY <1>1, <1>13 DEF HasRows, better, q
<1> QED BY <1>11, <1>14 DEF worse, better, p, q

\* For all constants: what has at least as much of everything as a training
\* row of the same character is a row, with no lower a score.
THEOREM RowsMonotoneAlways == Spec => []RowsMonotone
<1>1. Init => Classed /\ Sequences /\ Walk /\ Rowed
  BY ClassedInit, SequencesInit, WalkInit, RowedInit
<1>2. Classed /\ Sequences /\ Walk /\ Rowed /\ [Next]_vars => Classed' /\ Sequences' /\ Walk' /\ Rowed'
  BY ClassedNext, SequencesNext, WalkNext, RowedNext
<1>3. Classed /\ Sequences /\ Walk /\ Rowed => RowsMonotone
  BY RowedMonotone
<1> QED BY <1>1, <1>2, <1>3, PTL DEF Spec
=============================================================================
