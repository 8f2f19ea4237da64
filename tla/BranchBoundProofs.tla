------------------------- MODULE BranchBoundProofs -------------------------
(***************************************************************************)
(* Proofs about the branch and bound search of module BranchBound: type    *)
(* correctness, that no allocation is lost and none is searched twice,     *)
(* that best and best_vector belong together, that every budget is         *)
(* answered exactly, and that the search implements BudgetSweep, for every *)
(* set of threads, cap, starting character, range of budgets and monotone  *)
(* damage function.                                                        *)
(***************************************************************************)
EXTENDS BranchBound, TLAPS

-----------------------------------------------------------------------------
(* Arithmetic *)

LEMMA Quotient ==
  ASSUME NEW n \in Nat, NEW w \in Nat \ {0}
  PROVE  /\ n \div w \in Nat
         /\ (n \div w) * w <= n
         /\ n < ((n \div w) + 1) * w
BY SMT

\* A quotient without remainder is exact.
LEMMA ExactQuotient ==
  ASSUME NEW n \in Nat, NEW w \in Nat \ {0}, n % w = 0
  PROVE  (n \div w) * w = n
BY SMT

LEMMA Cancel ==
  ASSUME NEW x \in Int, NEW y \in Int, NEW w \in Nat \ {0}, x * w <= y * w
  PROVE  x <= y
BY SMT

LEMMA CancelStrict ==
  ASSUME NEW x \in Int, NEW y \in Int, NEW w \in Nat \ {0}, x * w < y * w
  PROVE  x < y
BY SMT

LEMMA Distribute ==
  ASSUME NEW x \in Int, NEW y \in Int, NEW w \in Int
  PROVE  (x + y) * w = x * w + w * y
BY SMT

-----------------------------------------------------------------------------
(* Allocations *)

LEMMA SpendType ==
  ASSUME NEW a \in Alloc
  PROVE  Spend(a) \in Nat /\ \A i \in Stats : a[i] \in 0..Cap
BY BudgetAssumption, SMT DEF Alloc, Stats, Spend

LEMMA SpendTimes ==
  ASSUME NEW a \in [Stats -> Int], NEW n \in Int
  PROVE  Spend(a) * n = a[1] * n + a[2] * n + a[3] * n + a[4] * n + a[5] * n
<1>1. a[1] \in Int /\ a[2] \in Int /\ a[3] \in Int /\ a[4] \in Int /\ a[5] \in Int
  BY SMT DEF Stats
<1> QED BY <1>1, SMT DEF Spend

LEMMA SpendMonotone ==
  ASSUME NEW a \in Alloc, NEW b \in Alloc, Leq(a, b)
  PROVE  Spend(a) <= Spend(b)
BY BudgetAssumption, SMT DEF Alloc, Stats, Spend, Leq

LEMMA SpendEqual ==
  ASSUME NEW a \in Alloc, NEW b \in Alloc, Leq(a, b), Spend(a) = Spend(b)
  PROVE  a = b
<1>1. \A i \in Stats : a[i] \in Nat /\ b[i] \in Nat /\ a[i] <= b[i]
  BY BudgetAssumption, SMT DEF Alloc, Leq
<1>2. a[1] = b[1] /\ a[2] = b[2] /\ a[3] = b[3] /\ a[4] = b[4] /\ a[5] = b[5]
  <2>1. /\ a[1] \in Nat /\ b[1] \in Nat /\ a[1] <= b[1]
        /\ a[2] \in Nat /\ b[2] \in Nat /\ a[2] <= b[2]
        /\ a[3] \in Nat /\ b[3] \in Nat /\ a[3] <= b[3]
        /\ a[4] \in Nat /\ b[4] \in Nat /\ a[4] <= b[4]
        /\ a[5] \in Nat /\ b[5] \in Nat /\ a[5] <= b[5]
    BY <1>1, SMT DEF Stats
  <2>2. a[1] + a[2] + a[3] + a[4] + a[5] = b[1] + b[2] + b[3] + b[4] + b[5]
    BY DEF Spend
  <2> QED BY <2>1, <2>2, SMT
<1>3. \A i \in Stats : a[i] = b[i]
  BY <1>2, SMT DEF Stats
<1> QED BY <1>3 DEF Alloc

LEMMA LeqTransitive ==
  ASSUME NEW a \in Alloc, NEW b \in Alloc, NEW c \in Alloc,
         Leq(a, b), Leq(b, c)
  PROVE  Leq(a, c)
BY BudgetAssumption, SMT DEF Alloc, Stats, Leq

LEMMA LeqReflexive ==
  ASSUME NEW a \in Alloc
  PROVE  Leq(a, a)
BY BudgetAssumption, SMT DEF Alloc, Stats, Leq

LEMMA CeilingType ==
  ASSUME NEW T \in Nat
  PROVE  Ceiling(T) \in Alloc
BY BudgetAssumption, SMT DEF Alloc, Stats, Ceiling

\* The starting character fits under the ceiling of every budget.
LEMMA LowerFits ==
  ASSUME NEW T \in Nat, StartStats <= T
  PROVE  Lower \in Alloc /\ Leq(Lower, Ceiling(T))
BY BudgetAssumption, SMT DEF Alloc, Stats, Spend, Leq, Ceiling

\* The lesser of what is left and what has room leaves no more than has room
\* elsewhere.
LEMMA GiveOut ==
  ASSUME NEW n \in Nat, NEW v \in Nat, NEW w \in Nat, n <= v + w,
         NEW e, e = IF n <= v THEN n ELSE v
  PROVE  e \in 0..v /\ n - e \in 0..w
BY SMT

\* An allocation with points left can be raised until the budget is spent.
LEMMA SpendTheRest ==
  ASSUME NEW T \in Nat, T <= MaxStats,
         NEW b \in Alloc, Leq(b, Ceiling(T)), Spend(b) <= T
  PROVE  \E a \in Alloc : Leq(b, a) /\ Leq(a, Ceiling(T)) /\ Spend(a) = T
<1> DEFINE U == Ceiling(T)
           Low(x, y) == IF x <= y THEN x ELSE y
           e1 == Low(T - Spend(b), U[1] - b[1])
           e2 == Low(T - Spend(b) - e1, U[2] - b[2])
           e3 == Low(T - Spend(b) - e1 - e2, U[3] - b[3])
           e4 == Low(T - Spend(b) - e1 - e2 - e3, U[4] - b[4])
           e5 == T - Spend(b) - e1 - e2 - e3 - e4
           a == [i \in Stats |-> b[i] + (IF i = 1 THEN e1 ELSE
                                         IF i = 2 THEN e2 ELSE
                                         IF i = 3 THEN e3 ELSE
                                         IF i = 4 THEN e4 ELSE e5)]
<1>1. U \in Alloc /\ T <= Spend(U)
  BY BudgetAssumption, SMT DEF Alloc, Stats, Spend, Ceiling
<1>2. \A i \in Stats : b[i] \in Nat /\ U[i] \in 0..Cap /\ b[i] <= U[i]
  BY <1>1, BudgetAssumption, SMT DEF Alloc, Stats, Leq
<1>3. /\ e1 \in 0..(U[1] - b[1]) /\ e2 \in 0..(U[2] - b[2])
      /\ e3 \in 0..(U[3] - b[3]) /\ e4 \in 0..(U[4] - b[4])
      /\ e5 \in 0..(U[5] - b[5])
  <2> DEFINE n == T - Spend(b)
             v1 == U[1] - b[1]
             v2 == U[2] - b[2]
             v3 == U[3] - b[3]
             v4 == U[4] - b[4]
             v5 == U[5] - b[5]
  <2> HIDE DEF U
  <2>1. v1 \in Nat /\ v2 \in Nat /\ v3 \in Nat /\ v4 \in Nat /\ v5 \in Nat
    BY <1>2, SMT DEF Stats
  <2>2. n \in Nat /\ n <= v1 + (v2 + v3 + v4 + v5)
    BY <1>1, <1>2, SMT DEF Stats, Spend
  <2> HIDE DEF n, v1, v2, v3, v4, v5
  <2>3. e1 \in 0..v1 /\ n - e1 \in 0..(v2 + v3 + v4 + v5)
    <3>1. v2 + v3 + v4 + v5 \in Nat
      BY <2>1, SMT
    <3>2. e1 = IF n <= v1 THEN n ELSE v1
      BY DEF n, v1
    <3> HIDE DEF e1
    <3> QED BY <3>1, <3>2, <2>1, <2>2, GiveOut
  <2>4. e2 \in 0..v2 /\ n - e1 - e2 \in 0..(v3 + v4 + v5)
    <3>1. v3 + v4 + v5 \in Nat /\ n - e1 \in Nat /\ n - e1 <= v2 + (v3 + v4 + v5)
      <4> HIDE DEF e1
      <4> QED BY <2>1, <2>3, SMT
    <3>2. e2 = IF n - e1 <= v2 THEN n - e1 ELSE v2
      BY DEF n, v2
    <3> HIDE DEF e1, e2
    <3> QED BY <3>1, <3>2, <2>1, GiveOut
  <2>5. e3 \in 0..v3 /\ n - e1 - e2 - e3 \in 0..(v4 + v5)
    <3>1. v4 + v5 \in Nat /\ n - e1 - e2 \in Nat /\ n - e1 - e2 <= v3 + (v4 + v5)
      <4> HIDE DEF e1, e2
      <4> QED BY <2>1, <2>4, SMT
    <3>2. e3 = IF n - e1 - e2 <= v3 THEN n - e1 - e2 ELSE v3
      BY DEF n, v3
    <3> HIDE DEF e1, e2, e3
    <3> QED BY <3>1, <3>2, <2>1, GiveOut
  <2>6. e4 \in 0..v4 /\ n - e1 - e2 - e3 - e4 \in 0..v5
    <3>1. n - e1 - e2 - e3 \in Nat /\ n - e1 - e2 - e3 <= v4 + v5
      <4> HIDE DEF e1, e2, e3
      <4> QED BY <2>1, <2>5, SMT
    <3>2. e4 = IF n - e1 - e2 - e3 <= v4 THEN n - e1 - e2 - e3 ELSE v4
      BY DEF n, v4
    <3> HIDE DEF e1, e2, e3, e4
    <3> QED BY <3>1, <3>2, <2>1, GiveOut
  <2>7. e5 \in 0..v5
    BY <2>6 DEF n
  <2> QED BY <2>3, <2>4, <2>5, <2>6, <2>7 DEF v1, v2, v3, v4, v5
<1> HIDE DEF U, e1, e2, e3, e4
<1>4. /\ a[1] = b[1] + e1 /\ a[2] = b[2] + e2 /\ a[3] = b[3] + e3
      /\ a[4] = b[4] + e4 /\ a[5] = b[5] + e5
      /\ a = [i \in Stats |-> a[i]]
  BY SMT DEF Stats
<1>5. \A i \in Stats : a[i] \in 0..Cap /\ b[i] <= a[i] /\ a[i] <= U[i]
  <2> HIDE DEF a
  <2> QED BY <1>2, <1>3, <1>4, BudgetAssumption, SMT DEF Stats
<1>6. Spend(a) = T
  <2> HIDE DEF a
  <2> QED BY <1>2, <1>3, <1>4, SMT DEF Stats, Spend
<1>7. a \in Alloc
  BY <1>5, SMT DEF Alloc
<1> QED BY <1>5, <1>6, <1>7 DEF Leq, U

-----------------------------------------------------------------------------
(* Regions *)

\* A region of the search: a nonempty box between the starting character and
\* the ceiling of the budget.
Sound(r, T) == /\ r \in Box
               /\ Leq(Lower, r.lower)
               /\ Leq(r.lower, r.upper)
               /\ Leq(r.upper, Ceiling(T))

LEMMA BoxType ==
  ASSUME NEW r \in Box
  PROVE  r.lower \in Alloc /\ r.upper \in Alloc
BY DEF Box

\* The cut point of a region that is neither pruned nor a leaf lies in it,
\* and costs no more than the budget, however the division rounds.
LEMMA CutInside ==
  ASSUME NEW r, Sound(r, total_stats), total_stats \in Nat, StartStats <= total_stats,
         Feasible(r), Spend(r.lower) # total_stats,
         NEW p \in CutPoints(r)
  PROVE  /\ p \in Alloc
         /\ Inside(p, r)
         /\ Spend(p) \in 1..total_stats
<1> DEFINE w == Width(r)
           k == total_stats - Spend(r.lower)
           L == r.lower
           U == r.upper
           N(i) == Numerator(r, i)
<1>1. L \in Alloc /\ U \in Alloc /\ Leq(L, U)
  BY BoxType DEF Sound
<1>2. Spend(L) \in Nat /\ Spend(U) \in Nat
  BY <1>1, SpendType
<1>3. w \in Nat \ {0} /\ k \in 1..w
  BY <1>2, SMT DEF Feasible, Width
<1>4. PICK D \in SUBSET MayRoundDown(r) :
        p = [i \in Stats |-> (N(i) \div w) - (IF i \in D THEN 1 ELSE 0)]
  BY DEF CutPoints
<1>5. Spend(p) > 0
  BY DEF CutPoints
<1>6. ASSUME NEW i \in Stats
      PROVE  /\ p[i] \in Int
             /\ L[i] <= p[i] /\ p[i] <= U[i]
             /\ p[i] * w <= N(i)
  <2> DEFINE d == U[i] - L[i]
  <2>1. L[i] \in 0..Cap /\ U[i] \in 0..Cap /\ d \in Nat
    BY <1>1, SpendType, BudgetAssumption, SMT DEF Leq
  <2>2. N(i) = L[i] * w + k * d
    BY DEF Numerator
  <2>3. k * d \in Nat /\ k * d <= w * d /\ L[i] * w \in Nat
    BY <1>3, <2>1, BudgetAssumption, SMT
  <2>4. N(i) \in Nat /\ L[i] * w <= N(i) /\ N(i) <= U[i] * w
    <3> HIDE DEF N, w, k
    <3>1. U[i] * w = L[i] * w + w * d
      BY <1>3, <2>1, BudgetAssumption, SMT
    <3> QED BY <2>2, <2>3, <3>1, <2>1, <1>3, BudgetAssumption, SMT
  <2> HIDE DEF N, w, d, k
  <2>5. /\ N(i) \div w \in Nat
        /\ (N(i) \div w) * w <= N(i)
        /\ N(i) < ((N(i) \div w) + 1) * w
    BY <1>3, <2>4, Quotient
  <2>6. N(i) \div w <= U[i]
    BY <1>3, <2>1, <2>4, <2>5, BudgetAssumption, Cancel, SMT
  <2>7. L[i] <= N(i) \div w
    BY <1>3, <2>1, <2>4, <2>5, BudgetAssumption, CancelStrict, SMT
  <2>8. CASE i \notin D
    BY <1>4, <2>5, <2>6, <2>7, <2>8
  <2>9. CASE i \in D
    <3>1. L[i] < U[i] /\ N(i) % w = 0
      BY <2>9, <1>4 DEF MayRoundDown, N, w
    <3>2. (N(i) \div w) * w = N(i)
      BY <3>1, <1>3, <2>4, ExactQuotient
    <3>3. 0 < k * d
      BY <3>1, <1>3, <2>1, BudgetAssumption, SMT DEF d
    <3>4. L[i] < N(i) \div w
      BY <1>3, <2>1, <2>2, <2>3, <2>5, <3>2, <3>3, BudgetAssumption,
         CancelStrict, SMT
    <3>5. p[i] = (N(i) \div w) - 1
      BY <1>4, <2>9
    <3>6. p[i] * w <= (N(i) \div w) * w
      BY <3>5, <1>3, <2>5, SMT
    <3> QED BY <3>2, <3>4, <3>5, <3>6, <2>1, <2>5, <2>6, BudgetAssumption, SMT
  <2> QED BY <2>8, <2>9
<1>7. p \in Alloc /\ Inside(p, r)
  <2>1. \A i \in Stats : L[i] \in 0..Cap /\ U[i] \in 0..Cap
    BY <1>1, SpendType
  <2>2. \A i \in Stats : p[i] \in 0..Cap
    BY <1>6, <2>1, BudgetAssumption, SMT
  <2>3. p = [i \in Stats |-> p[i]]
    BY <1>4
  <2> QED BY <1>6, <2>2, <2>3 DEF Alloc, Inside, Leq
<1>8. Spend(p) <= total_stats
  <2>1. Spend(p) * w <= N(1) + N(2) + N(3) + N(4) + N(5)
    <3> HIDE DEF N, w
    <3>1. Spend(p) * w = p[1] * w + p[2] * w + p[3] * w + p[4] * w + p[5] * w
      BY <1>3, <1>6, SMT DEF Stats, Spend
    <3>2. \A i \in Stats : p[i] * w \in Int /\ N(i) \in Int /\ p[i] * w <= N(i)
      <4>1. \A i \in Stats : L[i] \in Int /\ U[i] \in Int
        BY <1>1, SpendType, BudgetAssumption, SMT
      <4>2. \A i \in Stats : N(i) \in Int
        BY <4>1, <1>2, <1>3, SMT DEF N, Numerator, w, Width
      <4> QED BY <1>3, <1>6, <4>2, SMT
    <3> QED BY <3>1, <3>2, SMT DEF Stats
  <2>2. N(1) + N(2) + N(3) + N(4) + N(5) = total_stats * w
    <3>1. \A i \in Stats : L[i] \in Int /\ U[i] \in Int
      BY <1>1, SpendType, BudgetAssumption, SMT
    <3>2. \A i \in Stats : N(i) = L[i] * w + k * (U[i] - L[i])
      BY DEF Numerator
    <3>3. Spend(L) + w = Spend(U) /\ Spend(L) + k = total_stats
      BY <1>2, SMT DEF Width
    <3> DEFINE d == [i \in Stats |-> U[i] - L[i]]
    <3>4. d \in [Stats -> Int] /\ L \in [Stats -> Int] /\ U \in [Stats -> Int]
      <4>1. L \in [Stats -> 0..Cap] /\ U \in [Stats -> 0..Cap]
        BY <1>1 DEF Alloc
      <4> QED BY <3>1, <4>1
    <3>5. Spend(d) = w
      <4>1. Spend(d) = Spend(U) - Spend(L)
        BY <3>4, SMT DEF Stats, Spend
      <4> QED BY <4>1 DEF w, Width
    <3>6. N(1) + N(2) + N(3) + N(4) + N(5) = Spend(L) * w + Spend(d) * k
      <4>1. Spend(L) * w = L[1] * w + L[2] * w + L[3] * w + L[4] * w + L[5] * w
        BY <3>4, <1>3, SpendTimes
      <4>2. Spend(d) * k = d[1] * k + d[2] * k + d[3] * k + d[4] * k + d[5] * k
        BY <3>4, <1>3, SpendTimes, SMT
      <4>3. \A i \in Stats : N(i) = L[i] * w + d[i] * k
        BY <3>2, <3>4, <1>3, SMT
      <4>4. \A i \in Stats : L[i] * w \in Int /\ d[i] * k \in Int
        BY <3>4, <1>3, SMT
      <4> HIDE DEF N, w, k, d
      <4> QED BY <4>1, <4>2, <4>3, <4>4, SMT DEF Stats
    <3>7. w \in Int /\ k \in Int /\ Spend(L) \in Int
      BY <1>2, <1>3
    <3> HIDE DEF N, w, k, d
    <3>8. (Spend(L) + k) * w = Spend(L) * w + w * k
      BY <3>7, Distribute
    <3> QED BY <3>3, <3>5, <3>6, <3>8
  <2> HIDE DEF N, w
  <2> QED
    BY <2>1, <2>2, <1>3, <1>7, SpendType, Cancel, SMT
<1> QED BY <1>5, <1>7, <1>8, SpendType, SMT

\* Every allocation of a region lies in one of its children.
LEMMA SubdivideCovers ==
  ASSUME NEW r \in Box, NEW p \in Alloc, NEW a \in Alloc, Inside(a, r)
  PROVE  \E c \in Subdivide(r, p) : Inside(a, c)
<1> DEFINE S == {i \in Stats : p[i] < a[i]}
           c == Child(r, p, S)
<1>1. \A i \in Stats : /\ a[i] \in 0..Cap /\ p[i] \in 0..Cap
                       /\ r.lower[i] <= a[i] /\ a[i] <= r.upper[i]
                       /\ r.lower[i] \in 0..Cap /\ r.upper[i] \in 0..Cap
  BY BoxType, SpendType DEF Inside, Leq
<1>2. \A i \in Stats :
        /\ c.lower[i] = IF i \in S THEN p[i] + 1 ELSE r.lower[i]
        /\ c.upper[i] = IF i \in S THEN r.upper[i] ELSE p[i]
  BY DEF Child
<1>3. \A i \in Stats : c.lower[i] <= a[i] /\ a[i] <= c.upper[i]
  <2> HIDE DEF c
  <2> QED BY <1>1, <1>2, BudgetAssumption, SMT
<1>4. Leq(c.lower, r.upper)
  <2> SUFFICES ASSUME NEW i \in Stats
               PROVE  c.lower[i] <= r.upper[i]
    BY DEF Leq
  <2>1. c.lower[i] \in Int
    <3> HIDE DEF c, S
    <3> QED BY <1>1, <1>2, BudgetAssumption, SMT
  <2> HIDE DEF c, S
  <2> QED BY <2>1, <1>1, <1>3, BudgetAssumption, SMT
<1>5. c \in Subdivide(r, p)
  BY <1>4 DEF Subdivide
<1> QED BY <1>3, <1>5 DEF Inside, Leq

\* The children of a sound region, cut at a point inside it, are sound.
LEMMA SubdivideSound ==
  ASSUME NEW r, Sound(r, total_stats), total_stats \in Nat,
         NEW p \in Alloc, Inside(p, r),
         NEW c \in Subdivide(r, p)
  PROVE  Sound(c, total_stats)
<1>1. PICK S \in SUBSET Stats : c = Child(r, p, S)
  BY DEF Subdivide
<1>2. Leq(c.lower, r.upper)
  BY DEF Subdivide
<1> DEFINE U == Ceiling(total_stats)
<1>3. \A i \in Stats :
        /\ p[i] \in 0..Cap /\ Lower[i] \in 0..Cap /\ U[i] \in 0..Cap
        /\ r.lower[i] \in 0..Cap /\ r.upper[i] \in 0..Cap
  BY BoxType, SpendType, CeilingType, BudgetAssumption DEF Sound
<1>4. \A i \in Stats : /\ r.lower[i] <= p[i] /\ p[i] <= r.upper[i]
                       /\ Lower[i] <= r.lower[i] /\ r.upper[i] <= U[i]
  BY DEF Sound, Inside, Leq
<1>5. \A i \in Stats :
        /\ c.lower[i] = IF i \in S THEN p[i] + 1 ELSE r.lower[i]
        /\ c.upper[i] = IF i \in S THEN r.upper[i] ELSE p[i]
        /\ c.lower[i] <= r.upper[i]
  BY <1>1, <1>2 DEF Child, Leq
<1> HIDE DEF U
<1>6. \A i \in Stats : /\ c.lower[i] \in 0..Cap /\ c.upper[i] \in 0..Cap
                       /\ Lower[i] <= c.lower[i]
                       /\ c.lower[i] <= c.upper[i]
                       /\ c.upper[i] <= U[i]
  BY <1>3, <1>4, <1>5, BudgetAssumption, SMT
<1>7. c \in Box
  <2>1. /\ c = [lower |-> c.lower, upper |-> c.upper]
        /\ c.lower = [i \in Stats |-> c.lower[i]]
        /\ c.upper = [i \in Stats |-> c.upper[i]]
    BY <1>1 DEF Child
  <2>2. c.lower \in Alloc /\ c.upper \in Alloc
    BY <2>1, <1>6 DEF Alloc
  <2> QED BY <2>1, <2>2 DEF Box
<1> QED BY <1>6, <1>7 DEF Sound, Leq, U

\* A child of a sound region lies within it, so it meets nothing the region
\* does not meet.
LEMMA ChildWithin ==
  ASSUME NEW r, Sound(r, total_stats), total_stats \in Nat,
         NEW p \in Alloc, Inside(p, r),
         NEW c \in Subdivide(r, p),
         NEW x \in Box, Overlap(c, x)
  PROVE  Overlap(r, x)
<1>1. PICK S \in SUBSET Stats : c = Child(r, p, S)
  BY DEF Subdivide
<1>2. c \in Box /\ c.lower \in Alloc /\ c.upper \in Alloc
  BY SubdivideSound, BoxType DEF Sound
<1>3. r.lower \in Alloc /\ r.upper \in Alloc /\ x.lower \in Alloc /\ x.upper \in Alloc
  BY BoxType DEF Sound
<1>4. \A i \in Stats : /\ p[i] \in 0..Cap
                       /\ r.lower[i] \in 0..Cap /\ r.upper[i] \in 0..Cap
                       /\ r.lower[i] <= p[i] /\ p[i] <= r.upper[i]
  BY <1>3, SpendType DEF Inside, Leq
<1>5. \A i \in Stats :
        /\ c.lower[i] = IF i \in S THEN p[i] + 1 ELSE r.lower[i]
        /\ c.upper[i] = IF i \in S THEN r.upper[i] ELSE p[i]
  BY <1>1 DEF Child
<1>6. Leq(r.lower, c.lower) /\ Leq(c.upper, r.upper)
  BY <1>4, <1>5, BudgetAssumption, SMT DEF Leq
<1>7. Leq(c.lower, x.upper) /\ Leq(x.lower, c.upper)
  BY DEF Overlap
<1>8. Leq(r.lower, x.upper) /\ Leq(x.lower, r.upper)
  BY <1>2, <1>3, <1>6, <1>7, LeqTransitive
<1> QED BY <1>8 DEF Overlap

LEMMA OverlapSymmetric ==
  ASSUME NEW q, NEW r
  PROVE  Overlap(q, r) <=> Overlap(r, q)
BY DEF Overlap

\* Two children lie on different sides of the cut in some stat.
LEMMA SiblingsApart ==
  ASSUME NEW r, NEW p \in Alloc,
         NEW c \in Subdivide(r, p), NEW d \in Subdivide(r, p), c # d
  PROVE  ~Overlap(c, d)
<1>1. PICK S \in SUBSET Stats : c = Child(r, p, S)
  BY DEF Subdivide
<1>2. PICK R \in SUBSET Stats : d = Child(r, p, R)
  BY DEF Subdivide
<1>3. PICK i \in Stats : (i \in S /\ i \notin R) \/ (i \in R /\ i \notin S)
  BY <1>1, <1>2
<1>4. p[i] \in Int
  BY SpendType, BudgetAssumption, SMT
<1>5. CASE i \in S /\ i \notin R
  <2>1. c.lower[i] = p[i] + 1 /\ d.upper[i] = p[i]
    BY <1>1, <1>2, <1>5 DEF Child
  <2>2. ~(c.lower[i] <= d.upper[i])
    BY <1>4, <2>1, SMT
  <2> QED BY <2>2 DEF Overlap, Leq
<1>6. CASE i \in R /\ i \notin S
  <2>1. d.lower[i] = p[i] + 1 /\ c.upper[i] = p[i]
    BY <1>1, <1>2, <1>6 DEF Child
  <2>2. ~(d.lower[i] <= c.upper[i])
    BY <1>4, <2>1, SMT
  <2> QED BY <2>2 DEF Overlap, Leq
<1> QED BY <1>3, <1>5, <1>6

\* The warm start's guess is affordable and not below the answer it stretches,
\* however its products round.
LEMMA GuessAffordable ==
  ASSUME total_stats \in Nat,
         NEW v \in Alloc, Spend(v) > 0, Spend(v) < total_stats,
         NEW g \in Guesses(v)
  PROVE  /\ g \in Alloc
         /\ Leq(v, g)
         /\ Leq(g, Ceiling(total_stats))
         /\ Spend(g) \in 1..total_stats
<1> DEFINE w == Spend(v)
           q(i) == (total_stats * v[i]) \div w
<1>1. w \in Nat \ {0} /\ w < total_stats
  BY SpendType, SMT
<1>2. PICK D \in SUBSET StretchMayRoundDown(v) :
        g = [i \in Stats |-> Stretched(v, i) - (IF i \in D THEN 1 ELSE 0)]
  BY DEF Guesses
<1>3. ASSUME NEW i \in Stats
      PROVE  /\ g[i] \in 0..Cap
             /\ v[i] <= g[i]
             /\ g[i] * w <= total_stats * v[i]
  <2>1. v[i] \in 0..Cap
    BY SpendType
  <2>2. total_stats * v[i] \in Nat
    BY <2>1, BudgetAssumption, SMT
  <2> HIDE DEF w
  <2>3. v[i] * w <= total_stats * v[i]
    BY <1>1, <2>1, BudgetAssumption, SMT
  <2>4. /\ q(i) \in Nat
        /\ q(i) * w <= total_stats * v[i]
        /\ total_stats * v[i] < (q(i) + 1) * w
    BY <1>1, <2>2, Quotient
  <2>5. v[i] <= q(i)
    <3> HIDE DEF q
    <3> QED BY <1>1, <2>1, <2>2, <2>3, <2>4, BudgetAssumption, CancelStrict, SMT
  <2>6. CASE total_stats * v[i] > Cap * w
    <3>1. i \notin D
      BY <2>6, <1>1, <2>2, BudgetAssumption, SMT DEF StretchMayRoundDown, w
    <3>2. Stretched(v, i) = Cap
      BY <2>6, <1>1, <2>2, BudgetAssumption, SMT DEF Stretched, w
    <3>3. g[i] = Cap
      BY <3>1, <3>2, <1>2, BudgetAssumption, SMT
    <3> QED BY <3>3, <2>6, <2>1, <2>2, <1>1, BudgetAssumption, SMT
  <2>7. CASE total_stats * v[i] <= Cap * w
    <3>1. Stretched(v, i) = q(i)
      BY <2>7 DEF Stretched, w
    <3>2. q(i) <= Cap
      <4> HIDE DEF q
      <4> QED BY <2>7, <2>4, <2>2, <1>1, BudgetAssumption, Cancel, SMT
    <3>3. CASE i \notin D
      <4>1. g[i] = q(i)
        BY <3>1, <3>3, <1>2, <2>4, SMT
      <4> QED BY <4>1, <3>2, <2>4, <2>5, <2>1, BudgetAssumption, SMT
    <3>4. CASE i \in D
      <4>1. v[i] > 0 /\ (total_stats * v[i]) % w = 0
        BY <3>4, <1>2 DEF StretchMayRoundDown, w
      <4>2. q(i) * w = total_stats * v[i]
        BY <4>1, <1>1, <2>2, ExactQuotient
      <4>3. v[i] * w < total_stats * v[i]
        BY <4>1, <1>1, <2>1, BudgetAssumption, SMT
      <4>4. g[i] = q(i) - 1
        BY <3>1, <3>4, <1>2
      <4> HIDE DEF q
      <4>5. v[i] < q(i)
        BY <4>2, <4>3, <1>1, <2>1, <2>4, BudgetAssumption, CancelStrict, SMT
      <4>6. g[i] * w <= q(i) * w
        BY <4>4, <2>4, <1>1, SMT
      <4> QED BY <4>2, <4>4, <4>5, <4>6, <3>2, <2>1, <2>4, BudgetAssumption, SMT
    <3> QED BY <3>3, <3>4
  <2> QED BY <2>6, <2>7, <1>1, <2>2, BudgetAssumption, SMT
<1>4. g \in Alloc /\ Leq(v, g)
  BY <1>2, <1>3 DEF Alloc, Leq
<1>5. Spend(g) \in Nat /\ w <= Spend(g)
  BY <1>4, SpendType, SpendMonotone
<1>6. Spend(g) <= total_stats
  <2>1. g \in [Stats -> Int] /\ v \in [Stats -> Int]
    <3>1. g \in [Stats -> 0..Cap] /\ v \in [Stats -> 0..Cap]
      BY <1>4 DEF Alloc
    <3>2. \A n \in 0..Cap : n \in Int
      BY BudgetAssumption, SMT
    <3> QED BY <3>1, <3>2
  <2>2. Spend(g) * w = g[1]*w + g[2]*w + g[3]*w + g[4]*w + g[5]*w
    <3>1. w \in Int
      BY <1>1
    <3> HIDE DEF w
    <3> QED BY <2>1, <3>1, SpendTimes
  <2>3. w * total_stats = v[1]*total_stats + v[2]*total_stats
          + v[3]*total_stats + v[4]*total_stats + v[5]*total_stats
    BY <2>1, SpendTimes
  <2>4. \A i \in Stats : /\ g[i] * w \in Int /\ v[i] * total_stats \in Int
                         /\ g[i] * w <= v[i] * total_stats
    <3> HIDE DEF w
    <3> QED BY <1>1, <1>3, <2>1, SMT
  <2> HIDE DEF w
  <2>5. Spend(g) * w <= w * total_stats
    BY <2>2, <2>3, <2>4, SMT DEF Stats
  <2>6. Spend(g) * w <= total_stats * w
    BY <2>5, <1>1, <1>5, SMT
  <2> QED BY <2>6, <1>1, <1>5, Cancel
<1>7. Leq(g, Ceiling(total_stats))
  <2>1. \A i \in Stats : g[i] \in 0..Cap
    BY <1>3
  <2>2. \A i \in Stats : g[i] <= Spend(g)
    BY <2>1, BudgetAssumption, SMT DEF Stats, Spend
  <2> QED BY <2>1, <2>2, <1>5, <1>6, BudgetAssumption, SMT DEF Leq, Ceiling
<1> QED BY <1>1, <1>4, <1>5, <1>6, <1>7, SMT

-----------------------------------------------------------------------------
(* The inductive invariant *)

\* Everything a thread or the queue holds is sound, the cut point of a thread
\* about to split lies in its region, and a stale best is never too high.
Regions ==
  /\ \A r \in queue : Sound(r, total_stats)
  /\ \A t \in Busy : Sound(region[t], total_stats)
  /\ \A t \in Threads : pc[t] \in {"sample", "split"} =>
       /\ Spend(region[t].lower) < total_stats
       /\ total_stats <= Spend(region[t].upper)
  /\ \A t \in Threads : pc[t] = "split" => Inside(point[t], region[t])
  /\ \A t \in Threads : pc[t] = "test" => seen[t] <= best

\* Outside a search no thread runs and nothing is left in the queue.
Quiet == /\ stage # "search" => \A t \in Threads : pc[t] = "done"
         /\ (\A t \in Threads : pc[t] = "done") => queue = {}

\* The budget in the course of the loop.
Budget ==
  /\ StartStats <= total_stats
  /\ stage = "search" => total_stats <= MaxStats
  /\ best # -1 /\ stage # "search" => StartStats + Step <= total_stats

\* Between two searches best_vector still belongs to the budget before.
Answered ==
  best # -1 /\ stage # "search" =>
    /\ Leq(Lower, best_vector)
    /\ Spend(best_vector) > 0
    /\ Spend(best_vector) < total_stats

IInv == TypeOK /\ Regions /\ Quiet /\ Budget /\ Answered
          /\ BestBacked /\ Covered

LEMMA TheInit == Init => IInv
<1> SUFFICES ASSUME Init PROVE IInv
  OBVIOUS
<1>1. TypeOK
  <2>1. NoBox \in Box
    BY BudgetAssumption DEF NoBox, Box
  <2> QED
    BY <2>1, BudgetAssumption, LeftoverAssumption, SMT DEF Init, TypeOK
<1>2. Regions /\ Quiet /\ Answered /\ BestBacked /\ Covered
  BY ThreadsAssumption, Zenon
     DEF Init, Regions, Quiet, Answered, BestBacked, Covered, Busy
<1>3. Budget
  BY BudgetAssumption, SMT DEF Init, Budget
<1> QED BY <1>1, <1>2, <1>3 DEF IInv

LEMMA SeedStep == IInv /\ Seed => IInv'
<1> SUFFICES ASSUME IInv, Seed PROVE IInv'
  OBVIOUS
<1> USE DEF IInv
<1>1. total_stats \in Nat /\ StartStats <= total_stats /\ total_stats <= MaxStats
  BY DEF TypeOK, Budget, Seed
<1>2. queue = {} /\ queue' = {Root}
  BY DEF Quiet, Seed
<1>3. Sound(Root, total_stats)
  <2>1. Leq(Lower, Ceiling(total_stats)) /\ Lower \in Alloc
    BY <1>1, LowerFits
  <2> QED
    BY <1>1, <2>1, CeilingType, LeqReflexive DEF Sound, Root, Box
<1>4. TypeOK' /\ BestBacked'
  <2>1. CASE best = -1 /\ UNCHANGED <<best, best_vector>>
    <3>1. TypeOK'
      BY <2>1, <1>2, <1>3, SMT DEF TypeOK, Seed, Sound
    <3> QED BY <2>1, <3>1 DEF BestBacked
  <2>2. CASE best # -1 /\ \E g \in Guesses(best_vector) :
                            best_vector' = g /\ best' = RawDamage[g]
    <3>1. PICK g \in Guesses(best_vector) :
            best_vector' = g /\ best' = RawDamage[g]
      BY <2>2
    <3>2. /\ Leq(Lower, best_vector) /\ best_vector \in Alloc
          /\ Spend(best_vector) > 0 /\ Spend(best_vector) < total_stats
      BY <2>2 DEF Answered, TypeOK, Seed
    <3>3. /\ g \in Alloc /\ Leq(best_vector, g)
          /\ Leq(g, Ceiling(total_stats))
          /\ Spend(g) \in 1..total_stats
      BY <1>1, <3>2, GuessAffordable
    <3>4. Leq(Lower, g)
      BY <3>2, <3>3, BudgetAssumption, LeqTransitive
    <3>5. RawDamage = Evaluate
      <4>1. StartStats + Step <= total_stats
        BY <2>2 DEF Budget, Seed
      <4> QED
        BY <4>1, <1>1, BudgetAssumption, WarmStartAssumption, SMT
    <3>6. best' = Evaluate[best_vector'] /\ best' \in Nat
      BY <3>1, <3>3, <3>5, EvaluateAssumption
    <3>7. TypeOK'
      BY <3>1, <3>3, <3>6, <1>2, <1>3, SMT DEF TypeOK, Seed, Sound
    <3>8. BestBacked'
      BY <3>1, <3>3, <3>4, <3>6 DEF BestBacked, Seed
    <3> QED BY <3>7, <3>8
  <2> QED BY <2>1, <2>2 DEF Seed
<1>5. Regions'
  <2>1. Busy' = {} /\ \A t \in Threads : pc'[t] = "idle"
    BY DEF Seed, Busy
  <2>2. Sound(Root, total_stats)'
    BY <1>3 DEF Sound, Root, Seed
  <2>3. Root' = Root
    BY DEF Root, Seed
  <2>4. \A r \in queue' : Sound(r, total_stats)'
    BY <1>2, <1>3, <2>3 DEF Sound, Seed
  <2> QED BY <2>1, <2>4, SMT DEF Regions
<1>6. Quiet' /\ Budget' /\ Answered'
  BY <1>1, ThreadsAssumption, SMT DEF Quiet, Budget, Answered, Seed
<1>7. Covered'
  <2>1. \A a \in Exactly(total_stats) : Inside(a, Root)
    BY DEF Exactly, Inside, Root
  <2> QED
    BY <1>2, <2>1 DEF Covered, Seed, Exactly, Inside
<1> QED BY <1>4, <1>5, <1>6, <1>7

LEMMA CollectStep == IInv /\ Collect => IInv'
<1> SUFFICES ASSUME IInv, Collect PROVE IInv'
  OBVIOUS
<1> USE DEF IInv, Collect, shared, locals
<1>1. TypeOK'
  BY BudgetAssumption, SMT DEF TypeOK
<1>2. queue = {} /\ Busy = {} /\ Busy' = {}
  BY DEF Quiet, Busy
<1>3. Regions'
  BY <1>2, SMT DEF Regions
<1>4. Quiet' /\ BestBacked' /\ Covered'
  BY <1>2, SMT DEF Quiet, BestBacked, Covered
<1>5. Budget'
  BY BudgetAssumption, SMT DEF TypeOK, Budget
<1>6. Answered'
  BY BudgetAssumption, SMT DEF TypeOK, Answered, BestBacked
<1> QED BY <1>1, <1>3, <1>4, <1>5, <1>6

LEMMA FinishStep == IInv /\ Finish => IInv'
<1> SUFFICES ASSUME IInv, Finish PROVE IInv'
  OBVIOUS
<1> USE DEF IInv, Finish, shared, locals
<1>1. TypeOK' /\ Quiet' /\ Budget' /\ Answered' /\ BestBacked' /\ Covered'
  BY SMT DEF TypeOK, Quiet, Budget, Answered, BestBacked, Covered
<1>2. Regions'
  BY DEF Regions, Busy, Sound, Feasible
<1> QED BY <1>1, <1>2

\* A thread that has not returned runs within a search for one budget.
LEMMA Searching ==
  ASSUME IInv, NEW t \in Threads, pc[t] # "done"
  PROVE  /\ stage = "search"
         /\ total_stats \in Nat
         /\ StartStats <= total_stats /\ total_stats <= MaxStats
BY DEF IInv, TypeOK, Quiet, Budget

\* A thread that ends its round is not busy any more; the others are as before.
LEMMA AfterRound ==
  ASSUME TypeOK, NEW t \in Threads, NextRound(t)
  PROVE  /\ Busy' = Busy \ {t}
         /\ pc' \in [Threads -> {"idle", "test", "sample", "split", "done"}]
         /\ pc'[t] = "idle"
         /\ \A u \in Threads \ {t} :
              /\ pc'[u] = pc[u] /\ region'[u] = region[u]
              /\ point'[u] = point[u] /\ seen'[u] = seen[u]
         /\ region' \in [Threads -> Box]
         /\ point' \in [Threads -> Alloc]
         /\ seen' \in [Threads -> Nat \cup {-1}]
<1>1. NoBox \in Box /\ Lower \in Alloc
  BY BudgetAssumption DEF NoBox, Box
<1> QED BY <1>1, SMT DEF TypeOK, NextRound, Busy

\* Improve keeps best and best_vector together and never lowers best.
LEMMA AfterImprove ==
  ASSUME IInv, NEW t \in Threads, pc[t] # "done",
         NEW a \in Alloc, Leq(Lower, a), Leq(a, Ceiling(total_stats)),
         Spend(a) \in 1..total_stats,
         Improve(a), UNCHANGED mains
  PROVE  /\ best' \in Nat
         /\ best <= best'
         /\ Evaluate[a] <= best'
         /\ best_vector' \in Alloc
         /\ BestBacked'
<1>1. Evaluate[a] \in Nat /\ best \in Nat \cup {-1} /\ best_vector \in Alloc
  BY EvaluateAssumption DEF IInv, TypeOK
<1>2. CASE Evaluate[a] > best
  <2>1. best' = Evaluate[a] /\ best_vector' = a
    BY <1>2 DEF Improve
  <2> QED BY <2>1, <1>1, <1>2, SMT DEF BestBacked, mains
<1>3. CASE ~(Evaluate[a] > best)
  <2>1. best' = best /\ best_vector' = best_vector
    BY <1>3 DEF Improve
  <2>2. best \in Nat /\ Evaluate[a] <= best
    BY <1>1, <1>3, SMT
  <2>3. BestBacked'
    BY <2>1 DEF IInv, BestBacked, mains
  <2> QED BY <2>1, <2>2, <2>3, <1>1, SMT
<1> QED BY <1>2, <1>3

\* The parts of the invariant that speak of main's variables only.
LEMMA MainsKept ==
  ASSUME IInv, NEW t \in Threads, pc[t] # "done", UNCHANGED mains
  PROVE  /\ Budget' /\ Answered'
         /\ total_stats' = total_stats /\ stage' = "search"
<1>1. stage = "search" /\ UNCHANGED <<total_stats, stage, output, stats>>
  BY Searching DEF mains
<1> QED
  BY <1>1 DEF IInv, Budget, Answered

LEMMA ExitStep ==
  ASSUME IInv, NEW t \in Threads, Exit(t)
  PROVE  IInv'
<1> USE DEF IInv
<1>1. pc[t] = "idle" /\ stage = "search"
  BY Searching DEF Exit
<1>2. TypeOK'
  BY SMT DEF TypeOK, Exit, shared, mains
<1>3. Busy' = Busy /\ \A u \in Busy : pc'[u] = pc[u]
  BY <1>1, SMT DEF Exit, Busy, TypeOK
<1>4. Regions'
  <2>1. \A u \in Threads : pc'[u] # "done" => pc'[u] = pc[u]
    BY DEF Exit, TypeOK
  <2> QED
    BY <1>1, <1>3, <2>1, MainsKept, SMT DEF Regions, Exit, shared, Busy
<1>5. Quiet'
  BY <1>1 DEF Quiet, Exit, shared, mains
<1>6. BestBacked' /\ Covered'
  BY <1>1, <1>3, SMT DEF BestBacked, Covered, Exit, shared, mains
<1>7. Budget' /\ Answered'
  BY <1>1, MainsKept DEF Exit
<1> QED BY <1>2, <1>4, <1>5, <1>6, <1>7

LEMMA PopStep ==
  ASSUME IInv, NEW t \in Threads, Pop(t)
  PROVE  IInv'
<1> USE DEF IInv
<1>1. PICK r \in queue : /\ queue' = queue \ {r}
                         /\ region' = [region EXCEPT ![t] = r]
  BY DEF Pop
<1>2. /\ pc[t] = "idle" /\ stage = "search"
      /\ pc' = [pc EXCEPT ![t] = "test"]
      /\ seen' = [seen EXCEPT ![t] = best]
      /\ UNCHANGED <<best, best_vector, point, mains>>
  BY Searching DEF Pop
<1>3. r \in Box /\ Sound(r, total_stats)
  BY DEF TypeOK, Regions
<1>4. TypeOK'
  BY <1>1, <1>2, <1>3, SMT DEF TypeOK, mains
<1>5. /\ Busy' = Busy \cup {t}
      /\ region'[t] = r /\ seen'[t] = best /\ pc'[t] = "test"
      /\ \A u \in Threads \ {t} : /\ pc'[u] = pc[u] /\ region'[u] = region[u]
                                  /\ point'[u] = point[u] /\ seen'[u] = seen[u]
  BY <1>1, <1>2, SMT DEF TypeOK, Busy
<1>6. t \notin Busy
  BY <1>2 DEF Busy
<1>7. Regions'
  <2>1. total_stats' = total_stats
    BY <1>2 DEF mains
  <2>2. \A q \in queue' : Sound(q, total_stats')
    BY <1>1, <2>1 DEF Regions
  <2>3. \A u \in Busy' : Sound(region'[u], total_stats')
    BY <1>3, <1>5, <2>1 DEF Regions, Busy
  <2>4. seen'[t] <= best'
    BY <1>2, <1>5, SMT DEF TypeOK
  <2>5. \A u \in Threads :
          /\ pc'[u] \in {"sample", "split"} =>
               /\ Spend(region'[u].lower) < total_stats'
               /\ total_stats' <= Spend(region'[u].upper)
          /\ pc'[u] = "split" => Inside(point'[u], region'[u])
          /\ pc'[u] = "test" => seen'[u] <= best'
    <3> SUFFICES ASSUME NEW u \in Threads
                 PROVE  /\ pc'[u] \in {"sample", "split"} =>
                             /\ Spend(region'[u].lower) < total_stats'
                             /\ total_stats' <= Spend(region'[u].upper)
                        /\ pc'[u] = "split" => Inside(point'[u], region'[u])
                        /\ pc'[u] = "test" => seen'[u] <= best'
      OBVIOUS
    <3>1. CASE u = t
      BY <3>1, <1>5, <2>4
    <3>2. CASE u # t
      BY <3>2, <1>2, <1>5, <2>1 DEF Regions
    <3> QED BY <3>1, <3>2
  <2> QED BY <2>2, <2>3, <2>5 DEF Regions
<1>8. Quiet'
  BY <1>2, <1>5 DEF Quiet, mains
<1>9. BestBacked'
  BY <1>2 DEF BestBacked, mains
<1>10. Covered'
  <2> SUFFICES ASSUME NEW a \in Exactly(total_stats)
               PROVE  \/ Evaluate[a] <= best
                      \/ \E q \in queue' : Inside(a, q)
                      \/ \E u \in Busy' : Inside(a, region'[u])
    BY <1>2, MainsKept DEF Covered, mains
  <2>1. CASE \E q \in queue : Inside(a, q)
    BY <2>1, <1>1, <1>5
  <2>2. CASE \E u \in Busy : Inside(a, region[u])
    BY <2>2, <1>5, <1>6 DEF Busy
  <2> QED BY <2>1, <2>2, <1>2 DEF Covered
<1>11. Budget' /\ Answered'
  BY <1>2, MainsKept
<1> QED BY <1>4, <1>7, <1>8, <1>9, <1>10, <1>11

\* A thread that ends its round without pushing anything may drop its region
\* when no allocation of it beats best.
LEMMA DropRegion ==
  ASSUME IInv, NEW t \in Threads, t \in Busy, NextRound(t),
         queue' = queue, UNCHANGED mains,
         best' \in Nat \cup {-1}, best <= best', best_vector' \in Alloc,
         BestBacked',
         \A a \in Exactly(total_stats) :
           Inside(a, region[t]) => Evaluate[a] <= best'
  PROVE  IInv'
<1> USE DEF IInv
<1>1. /\ stage = "search" /\ stage' = "search" /\ pc[t] # "done"
      /\ UNCHANGED <<total_stats, output, stats>>
  BY Searching DEF Busy, mains
<1>2. /\ Busy' = Busy \ {t} /\ pc'[t] = "idle"
      /\ \A u \in Threads \ {t} :
           /\ pc'[u] = pc[u] /\ region'[u] = region[u]
           /\ point'[u] = point[u] /\ seen'[u] = seen[u]
  BY AfterRound
<1>3. TypeOK'
  BY <1>1, AfterRound DEF TypeOK
<1>4. Regions'
  <2>1. \A q \in queue' : Sound(q, total_stats')
    BY <1>1 DEF Regions
  <2>2. \A u \in Busy' : Sound(region'[u], total_stats')
    BY <1>1, <1>2 DEF Regions, Busy
  <2>3. \A u \in Threads : pc'[u] = "test" => seen'[u] <= best'
    BY <1>2, SMT DEF Regions, TypeOK
  <2>4. \A u \in Threads :
          /\ pc'[u] \in {"sample", "split"} =>
               /\ Spend(region'[u].lower) < total_stats'
               /\ total_stats' <= Spend(region'[u].upper)
          /\ pc'[u] = "split" => Inside(point'[u], region'[u])
    BY <1>1, <1>2 DEF Regions
  <2> QED BY <2>1, <2>2, <2>3, <2>4 DEF Regions
<1>5. Quiet'
  BY <1>1, <1>2 DEF Quiet
<1>6. Covered'
  <2> SUFFICES ASSUME NEW a \in Exactly(total_stats)
               PROVE  \/ Evaluate[a] <= best'
                      \/ \E q \in queue' : Inside(a, q)
                      \/ \E u \in Busy' : Inside(a, region'[u])
    BY <1>1 DEF Covered
  <2>1. CASE Evaluate[a] <= best
    <3>1. Evaluate[a] \in Nat /\ best \in Nat \cup {-1}
      BY EvaluateAssumption DEF TypeOK, Exactly
    <3> QED BY <2>1, <3>1, SMT
  <2>2. CASE \E u \in Busy : Inside(a, region[u])
    BY <2>2, <1>2 DEF Busy
  <2> QED BY <2>1, <2>2, <1>1 DEF Covered
<1>7. Budget' /\ Answered'
  BY <1>1, MainsKept
<1> QED BY <1>3, <1>4, <1>5, <1>6, <1>7

LEMMA DiscardStep ==
  ASSUME IInv, NEW t \in Threads, Discard(t)
  PROVE  IInv'
<1>1. /\ t \in Busy /\ NextRound(t) /\ UNCHANGED mains /\ UNCHANGED shared
      /\ ~Feasible(region[t]) /\ region[t] \in Box
      /\ stage = "search" /\ total_stats \in Nat
  BY Searching DEF Discard, Busy, IInv, TypeOK
<1>2. \A a \in Exactly(total_stats) : ~Inside(a, region[t])
  <2> SUFFICES ASSUME NEW a \in Exactly(total_stats), Inside(a, region[t])
               PROVE  FALSE
    OBVIOUS
  <2>1. /\ region[t].lower \in Alloc /\ region[t].upper \in Alloc
        /\ a \in Alloc /\ Spend(a) = total_stats
    BY <1>1, BoxType DEF Exactly
  <2>2. Spend(region[t].lower) <= Spend(a) /\ Spend(a) <= Spend(region[t].upper)
    BY <2>1, SpendMonotone DEF Inside
  <2> QED BY <1>1, <2>1, <2>2 DEF Feasible
<1>3. /\ best' \in Nat \cup {-1} /\ best <= best' /\ best_vector' \in Alloc
      /\ queue' = queue /\ BestBacked'
  BY <1>1, SMT DEF IInv, TypeOK, shared, mains, BestBacked
<1> QED BY <1>1, <1>2, <1>3, DropRegion

LEMMA LeafStep ==
  ASSUME IInv, NEW t \in Threads, Leaf(t)
  PROVE  IInv'
<1> DEFINE L == region[t].lower
<1>1. /\ t \in Busy /\ pc[t] # "done" /\ NextRound(t) /\ UNCHANGED mains
      /\ Improve(L) /\ Spend(L) = total_stats
      /\ queue' = queue /\ Sound(region[t], total_stats)
      /\ stage = "search" /\ total_stats \in Nat /\ StartStats <= total_stats
  BY Searching DEF Leaf, Busy, IInv, Regions
<1>2. /\ L \in Alloc /\ region[t].upper \in Alloc
      /\ Leq(Lower, L) /\ Leq(L, region[t].upper)
      /\ Leq(L, Ceiling(total_stats))
  BY <1>1, BoxType, CeilingType, LeqTransitive DEF Sound
<1>3. Spend(L) \in 1..total_stats
  BY <1>1, BudgetAssumption, SMT
<1>4. /\ best' \in Nat /\ best <= best' /\ Evaluate[L] <= best'
      /\ best_vector' \in Alloc /\ BestBacked'
  BY <1>1, <1>2, <1>3, AfterImprove
<1>5. \A a \in Exactly(total_stats) : Inside(a, region[t]) => a = L
  <2> SUFFICES ASSUME NEW a \in Exactly(total_stats), Inside(a, region[t])
               PROVE  a = L
    OBVIOUS
  <2>1. a \in Alloc /\ Spend(a) = Spend(L) /\ Leq(L, a)
    BY <1>1 DEF Exactly, Inside
  <2> QED BY <1>2, <2>1, SpendEqual
<1> QED
  <2>1. \A a \in Exactly(total_stats) :
          Inside(a, region[t]) => Evaluate[a] <= best'
    BY <1>4, <1>5
  <2> QED BY <1>1, <1>4, <2>1, DropRegion

\* Where the monotone damage function meets the stale read of best: a value
\* read at any time since the lock was last held is at most best now.
LEMMA PruneStep ==
  ASSUME IInv, NEW t \in Threads, Prune(t)
  PROVE  IInv'
<1>1. /\ t \in Busy /\ NextRound(t) /\ UNCHANGED mains /\ UNCHANGED shared
      /\ Sound(region[t], total_stats) /\ pc[t] = "test"
  BY DEF Prune, Busy, IInv, Regions
<1>2. /\ seen[t] \in Nat \cup {-1} /\ best \in Nat \cup {-1} /\ seen[t] <= best
  BY <1>1 DEF IInv, TypeOK, Regions
<1>3. region[t].upper \in Alloc /\ Evaluate[region[t].upper] \in Nat
  BY <1>1, BoxType, EvaluateAssumption DEF Sound
<1>4. Evaluate[region[t].upper] <= best
  <2>1. PICK b \in {seen[t], best} : Evaluate[region[t].upper] <= b
    BY DEF Prune, Beaten, UpperBound
  <2> QED BY <2>1, <1>2, <1>3, SMT
<1>5. \A a \in Exactly(total_stats) :
        Inside(a, region[t]) => Evaluate[a] <= best
  <2> SUFFICES ASSUME NEW a \in Exactly(total_stats), Inside(a, region[t])
               PROVE  Evaluate[a] <= best
    OBVIOUS
  <2>1. a \in Alloc /\ Leq(a, region[t].upper)
    BY DEF Exactly, Inside
  <2>2. Evaluate[a] <= Evaluate[region[t].upper] /\ Evaluate[a] \in Nat
    BY <2>1, <1>3, EvaluateAssumption
  <2> QED BY <2>2, <1>2, <1>3, <1>4, SMT
<1>6. /\ best' = best /\ best <= best' /\ best_vector' \in Alloc
      /\ queue' = queue /\ BestBacked'
  BY <1>1, <1>2, SMT DEF IInv, TypeOK, shared, mains, BestBacked
<1> QED BY <1>1, <1>2, <1>5, <1>6, DropRegion

LEMMA KeepStep ==
  ASSUME IInv, NEW t \in Threads, Keep(t)
  PROVE  IInv'
<1> USE DEF IInv
<1>1. /\ pc[t] = "test" /\ Feasible(region[t])
      /\ Spend(region[t].lower) # total_stats
      /\ pc' = [pc EXCEPT ![t] = "sample"]
      /\ UNCHANGED <<best, best_vector, queue, region, point, seen,
                     total_stats, stage, output, stats>>
  BY DEF Keep, shared, mains
<1>2. stage = "search" /\ region[t] \in Box
  BY <1>1, Searching DEF TypeOK
<1>3. TypeOK'
  BY <1>1, SMT DEF TypeOK
<1>4. Busy' = Busy /\ \A u \in Threads \ {t} : pc'[u] = pc[u]
  BY <1>1, SMT DEF Busy, TypeOK
<1>5. Spend(region[t].lower) < total_stats /\ total_stats <= Spend(region[t].upper)
  BY <1>1, <1>2, BoxType, SpendType, SMT DEF Feasible, TypeOK
<1>6. pc'[t] = "sample"
  BY <1>1 DEF TypeOK
<1>7. Regions'
  BY <1>1, <1>4, <1>5, <1>6, SMT DEF Regions
<1>8. Quiet'
  BY <1>1, <1>2, <1>6 DEF Quiet
<1>9. BestBacked' /\ Covered' /\ Budget' /\ Answered'
  BY <1>1, <1>4, SMT DEF BestBacked, Covered, Budget, Answered
<1> QED BY <1>3, <1>7, <1>8, <1>9

LEMMA SampleStep ==
  ASSUME IInv, NEW t \in Threads, Sample(t)
  PROVE  IInv'
<1> USE DEF IInv
<1>1. PICK p \in CutPoints(region[t]) :
        Improve(p) /\ point' = [point EXCEPT ![t] = p]
  BY DEF Sample
<1>2. /\ pc[t] = "sample" /\ pc' = [pc EXCEPT ![t] = "split"]
      /\ UNCHANGED <<queue, region, seen, mains>>
      /\ UNCHANGED <<total_stats, stage, output, stats>>
  BY DEF Sample, mains
<1>3. /\ stage = "search" /\ total_stats \in Nat /\ StartStats <= total_stats
      /\ t \in Busy /\ Sound(region[t], total_stats)
  BY <1>2, Searching DEF Busy, Regions
<1>4. region[t] \in Box /\ region[t].lower \in Alloc /\ region[t].upper \in Alloc
  BY <1>3, BoxType DEF Sound
<1>5. Feasible(region[t]) /\ Spend(region[t].lower) # total_stats
  <2>1. /\ Spend(region[t].lower) < total_stats
        /\ total_stats <= Spend(region[t].upper)
    BY <1>2 DEF Regions
  <2> QED BY <2>1, <1>3, <1>4, SpendType, SMT DEF Feasible
<1>6. p \in Alloc /\ Inside(p, region[t]) /\ Spend(p) \in 1..total_stats
  BY <1>3, <1>5, CutInside
<1>7. Leq(Lower, p) /\ Leq(p, Ceiling(total_stats))
  BY <1>3, <1>4, <1>6, CeilingType, BudgetAssumption, LeqTransitive
     DEF Sound, Inside
<1>8. /\ best' \in Nat /\ best <= best' /\ best_vector' \in Alloc
      /\ BestBacked'
  BY <1>1, <1>2, <1>6, <1>7, AfterImprove
<1>9. TypeOK'
  BY <1>1, <1>2, <1>6, <1>8, SMT DEF TypeOK
<1>10. /\ Busy' = Busy /\ pc'[t] = "split" /\ point'[t] = p
       /\ \A u \in Threads \ {t} : pc'[u] = pc[u] /\ point'[u] = point[u]
  BY <1>1, <1>2, SMT DEF Busy, TypeOK
<1>11. Regions'
  <2>1. \A u \in Threads : pc'[u] = "test" => seen'[u] <= best'
    <3> SUFFICES ASSUME NEW u \in Threads, pc'[u] = "test"
                 PROVE  seen'[u] <= best'
      OBVIOUS
    <3>1. seen'[u] = seen[u] /\ seen[u] <= best
      BY <1>2, <1>10 DEF Regions
    <3> QED BY <3>1, <1>8, SMT DEF TypeOK
  <2>2. \A u \in Threads :
          /\ pc'[u] \in {"sample", "split"} =>
               /\ Spend(region'[u].lower) < total_stats'
               /\ total_stats' <= Spend(region'[u].upper)
          /\ pc'[u] = "split" => Inside(point'[u], region'[u])
    BY <1>2, <1>6, <1>10 DEF Regions
  <2>3. /\ \A q \in queue' : Sound(q, total_stats')
        /\ \A u \in Busy' : Sound(region'[u], total_stats')
    BY <1>2, <1>10 DEF Regions
  <2> QED BY <2>1, <2>2, <2>3 DEF Regions
<1>12. Quiet'
  BY <1>2, <1>3, <1>10 DEF Quiet
<1>13. Covered'
  <2> SUFFICES ASSUME NEW a \in Exactly(total_stats)
               PROVE  \/ Evaluate[a] <= best'
                      \/ \E q \in queue' : Inside(a, q)
                      \/ \E u \in Busy' : Inside(a, region'[u])
    BY <1>2 DEF Covered
  <2>1. CASE Evaluate[a] <= best
    <3>1. Evaluate[a] \in Nat /\ best \in Nat \cup {-1}
      BY EvaluateAssumption DEF TypeOK, Exactly
    <3> QED BY <2>1, <3>1, <1>8, SMT
  <2> QED BY <2>1, <1>2, <1>3, <1>10 DEF Covered
<1>14. Budget' /\ Answered'
  BY <1>2, MainsKept
<1> QED BY <1>8, <1>9, <1>11, <1>12, <1>13, <1>14

LEMMA SplitStep ==
  ASSUME IInv, NEW t \in Threads, Split(t)
  PROVE  IInv'
<1> USE DEF IInv
<1> DEFINE C == Subdivide(region[t], point[t])
<1>1. /\ pc[t] = "split" /\ queue' = queue \cup C /\ NextRound(t)
      /\ UNCHANGED <<best, best_vector>> /\ UNCHANGED mains
      /\ UNCHANGED <<total_stats, stage, output, stats>>
  BY DEF Split, mains
<1>2. /\ stage = "search" /\ total_stats \in Nat
      /\ t \in Busy /\ Sound(region[t], total_stats)
      /\ Inside(point[t], region[t])
      /\ point[t] \in Alloc /\ region[t] \in Box
  BY <1>1, Searching DEF Busy, Regions, TypeOK
<1>3. \A c \in C : Sound(c, total_stats)
  BY <1>2, SubdivideSound
<1>4. /\ Busy' = Busy \ {t} /\ pc'[t] = "idle"
      /\ \A u \in Threads \ {t} :
           /\ pc'[u] = pc[u] /\ region'[u] = region[u]
           /\ point'[u] = point[u] /\ seen'[u] = seen[u]
  BY <1>1, AfterRound
<1>5. TypeOK'
  <2>1. queue' \subseteq Box
    BY <1>1, <1>3 DEF TypeOK, Sound
  <2> QED BY <1>1, <2>1, AfterRound DEF TypeOK
<1>6. Regions'
  BY <1>1, <1>3, <1>4 DEF Regions, Busy
<1>7. Quiet'
  BY <1>1, <1>2, <1>4 DEF Quiet
<1>8. Covered'
  <2> SUFFICES ASSUME NEW a \in Exactly(total_stats)
               PROVE  \/ Evaluate[a] <= best
                      \/ \E q \in queue' : Inside(a, q)
                      \/ \E u \in Busy' : Inside(a, region'[u])
    BY <1>1 DEF Covered
  <2>1. CASE \E u \in Busy : Inside(a, region[u])
    <3>1. PICK u \in Busy : Inside(a, region[u])
      BY <2>1
    <3>2. CASE u = t
      <4>1. \E c \in C : Inside(a, c)
        BY <1>2, <3>1, <3>2, SubdivideCovers DEF Exactly
      <4> QED BY <4>1, <1>1
    <3>3. CASE u # t
      BY <3>1, <3>3, <1>4 DEF Busy
    <3> QED BY <3>2, <3>3
  <2> QED BY <2>1, <1>1, <1>2 DEF Covered
<1>9. BestBacked'
  BY <1>1 DEF BestBacked
<1>10. Budget' /\ Answered'
  BY <1>1, MainsKept
<1> QED BY <1>5, <1>6, <1>7, <1>8, <1>9, <1>10

LEMMA Inductive == IInv /\ [Next]_vars => IInv'
<1> SUFFICES ASSUME IInv, [Next]_vars PROVE IInv'
  OBVIOUS
<1>1. CASE Main
  BY <1>1, SeedStep, CollectStep, FinishStep DEF Main
<1>2. CASE \E t \in Threads : Worker(t)
  BY <1>2, ExitStep, PopStep, DiscardStep, LeafStep, PruneStep, KeepStep,
     SampleStep, SplitStep DEF Worker
<1>3. CASE UNCHANGED vars
  BY <1>3 DEF vars, shared, locals, mains, IInv, TypeOK, Regions, Quiet,
     Budget, Answered, BestBacked, Covered, Busy
<1> QED BY <1>1, <1>2, <1>3 DEF Next, Terminating

\* The search stays within its types and the strengthened invariant.
THEOREM Invariance == Spec => []IInv
BY TheInit, Inductive, PTL DEF Spec

\* Type correctness of the search.
THEOREM TypeCorrect == Spec => []TypeOK
<1>1. IInv => TypeOK
  BY DEF IInv
<1> QED BY <1>1, Invariance, PTL

\* No allocation is lost between the queue and the threads.
THEOREM NothingLost == Spec => []Covered
<1>1. IInv => Covered
  BY DEF IInv
<1> QED BY <1>1, Invariance, PTL

\* best and best_vector belong together and the budget affords them.
THEOREM BestBackedAlways == Spec => []BestBacked
<1>1. IInv => BestBacked
  BY DEF IInv
<1> QED BY <1>1, Invariance, PTL

\* The threads do not all leave before the queue is empty.
THEOREM Drained == Spec => []QueueDrained
<1>1. IInv => QueueDrained
  BY DEF IInv, Quiet, QueueDrained
<1> QED BY <1>1, Invariance, PTL

LEMMA InvExact == IInv => Exact
BY DEF IInv, Exact, Covered, Quiet, Busy

\* When the joins return, no allocation of the budget beats best.
THEOREM Exactness == Spec => []Exact
BY InvExact, Invariance, PTL

\* best never falls within one search, whichever thread writes it.
THEOREM BestOnlyRises == Spec => BestRises
<1>1. IInv /\ [Next]_vars =>
        [stage = "search" /\ stage' = "search" => best <= best']_vars
  <2> SUFFICES ASSUME IInv, Next, stage = "search", stage' = "search"
               PROVE  best <= best'
    BY DEF vars
  <2>1. best \in Nat \cup {-1} /\ EvaluateAssumption
    BY EvaluateAssumption DEF IInv, TypeOK
  <2>2. CASE Main
    BY <2>2 DEF Main, Seed, Collect, Finish
  <2>3. CASE UNCHANGED best
    BY <2>1, <2>3, SMT
  <2>4. ASSUME NEW a \in Alloc, Improve(a) PROVE best <= best'
    <3>1. Evaluate[a] \in Nat
      BY EvaluateAssumption
    <3> QED BY <2>1, <2>4, <3>1, SMT DEF Improve
  <2>5. ASSUME NEW t \in Threads, Leaf(t) PROVE best <= best'
    <3>1. region[t].lower \in Alloc
      BY BoxType DEF IInv, TypeOK
    <3> QED BY <2>4, <2>5, <3>1 DEF Leaf
  <2>6. ASSUME NEW t \in Threads, Sample(t) PROVE best <= best'
    <3>1. IInv'
      BY <2>6, SampleStep
    <3>2. PICK p \in CutPoints(region[t]) :
            Improve(p) /\ point' = [point EXCEPT ![t] = p]
      BY <2>6 DEF Sample
    <3>3. p \in Alloc
      <4>1. point' \in [Threads -> Alloc] /\ point'[t] = p
        BY <3>1, <3>2 DEF IInv, TypeOK
      <4> QED BY <4>1
    <3> QED BY <2>4, <3>2, <3>3
  <2> QED
    BY <2>2, <2>3, <2>5, <2>6
       DEF Next, Worker, Exit, Pop, Discard, Prune, Keep, Split, Terminating,
           shared, vars
<1> QED BY <1>1, Invariance, PTL DEF Spec, BestRises

-----------------------------------------------------------------------------
(* No region is searched twice *)

\* A thread that gives up its region leaves the others apart.
LEMMA DropApart ==
  ASSUME IInv, Disjoint, NEW t \in Threads, NextRound(t), UNCHANGED queue
  PROVE  Disjoint'
<1>1. /\ Busy' = Busy \ {t}
      /\ \A u \in Threads \ {t} : region'[u] = region[u]
  BY AfterRound DEF IInv
<1> QED BY <1>1 DEF Disjoint, Busy

\* What Pop takes from the queue it holds; the thread was not busy before.
LEMMA PopApart ==
  ASSUME IInv, Disjoint, NEW t \in Threads, Pop(t)
  PROVE  Disjoint'
<1>1. PICK r \in queue : /\ queue' = queue \ {r}
                         /\ region' = [region EXCEPT ![t] = r]
  BY DEF Pop
<1>2. /\ t \notin Busy /\ Busy' = Busy \cup {t}
      /\ region'[t] = r
      /\ \A u \in Threads \ {t} : region'[u] = region[u]
  BY <1>1, SMT DEF Pop, Busy, IInv, TypeOK
<1>3. \A q \in queue' : q \in queue /\ ~Overlap(q, r)
  BY <1>1 DEF Disjoint
<1>4. \A u \in Busy : u # t /\ region'[u] = region[u] /\ ~Overlap(r, region[u])
                      /\ ~Overlap(region[u], r)
  BY <1>2, OverlapSymmetric DEF Disjoint, Busy
<1>5. \A u \in Busy' : \A q \in queue' : ~Overlap(q, region'[u])
  BY <1>2, <1>3, <1>4 DEF Disjoint
<1>6. \A u, v \in Busy' : u # v => ~Overlap(region'[u], region'[v])
  BY <1>2, <1>4 DEF Disjoint
<1> QED BY <1>3, <1>5, <1>6 DEF Disjoint

\* The children replace the region they were cut from.
LEMMA SplitApart ==
  ASSUME IInv, Disjoint, NEW t \in Threads, Split(t)
  PROVE  Disjoint'
<1> DEFINE C == Subdivide(region[t], point[t])
<1>1. /\ pc[t] = "split" /\ queue' = queue \cup C /\ NextRound(t)
  BY DEF Split
<1>2. /\ total_stats \in Nat /\ t \in Busy /\ Sound(region[t], total_stats)
      /\ Inside(point[t], region[t]) /\ point[t] \in Alloc
  BY <1>1 DEF Busy, IInv, Regions, TypeOK
<1>3. /\ Busy' = Busy \ {t}
      /\ \A u \in Busy' : region'[u] = region[u]
  BY <1>1, AfterRound DEF IInv, Busy
<1>4. /\ queue \subseteq Box
      /\ \A u \in Threads : region[u] \in Box
  BY DEF IInv, TypeOK
<1> HIDE DEF C
<1>5. ASSUME NEW c \in C, NEW q \in queue
      PROVE  ~Overlap(c, q) /\ ~Overlap(q, c)
  <2>1. ~Overlap(region[t], q)
    BY <1>2, OverlapSymmetric DEF Disjoint
  <2>2. ~Overlap(c, q)
    BY <1>2, <1>4, <2>1, ChildWithin DEF C
  <2> QED BY <2>2, OverlapSymmetric
<1>6. ASSUME NEW c \in C, NEW u \in Busy'
      PROVE  ~Overlap(c, region'[u])
  <2>1. u \in Busy /\ u # t /\ u \in Threads
    BY <1>3 DEF Busy
  <2>2. ~Overlap(region[t], region[u])
    BY <1>2, <2>1 DEF Disjoint
  <2> QED BY <1>2, <1>3, <1>4, <2>1, <2>2, ChildWithin DEF C
<1>7. \A c, d \in C : c # d => ~Overlap(c, d)
  BY <1>2, SiblingsApart DEF C
<1>8. \A q, r \in queue' : q # r => ~Overlap(q, r)
  BY <1>1, <1>5, <1>7 DEF Disjoint, C
<1>9. \A u \in Busy' : \A q \in queue' : ~Overlap(q, region'[u])
  BY <1>1, <1>3, <1>6 DEF Disjoint, C
<1>10. \A u, v \in Busy' : u # v => ~Overlap(region'[u], region'[v])
  BY <1>3 DEF Disjoint
<1> QED BY <1>8, <1>9, <1>10 DEF Disjoint

LEMMA StaysApart == IInv /\ Disjoint /\ [Next]_vars => Disjoint'
<1> SUFFICES ASSUME IInv, Disjoint, [Next]_vars PROVE Disjoint'
  OBVIOUS
<1>1. CASE Seed
  <2>1. queue' = {Root} /\ Busy' = {}
    BY <1>1 DEF Seed, Busy, IInv, Quiet
  <2> QED BY <2>1 DEF Disjoint
<1>2. CASE UNCHANGED <<queue, pc, region>>
  BY <1>2 DEF Disjoint, Busy
<1>3. ASSUME NEW t \in Threads, Worker(t)
      PROVE  Disjoint'
  <2>1. CASE Discard(t) \/ Leaf(t) \/ Prune(t)
    BY <2>1, DropApart DEF Discard, Leaf, Prune, shared
  <2>2. ASSUME Exit(t) \/ Keep(t) \/ Sample(t)
        PROVE  Disjoint'
    <3>1. /\ queue' = queue /\ region' = region /\ Busy' \subseteq Busy
      BY <2>2, SMT
         DEF Exit, Keep, Sample, shared, Busy, IInv, TypeOK
    <3> QED BY <3>1 DEF Disjoint
  <2> QED BY <1>3, <2>1, <2>2, PopApart, SplitApart DEF Worker
<1> QED
  BY <1>1, <1>2, <1>3
     DEF Next, Main, Collect, Finish, Terminating, vars, shared, locals

\* No part of the search space is searched twice, by one thread or by two.
THEOREM DisjointAlways == Spec => []Disjoint
<1>1. Init => Disjoint
  BY DEF Init, Disjoint, Busy
<1> QED BY <1>1, StaysApart, Invariance, PTL DEF Spec

-----------------------------------------------------------------------------
(* Refinement *)

\* What the joins leave behind: an affordable allocation nothing affordable
\* beats, spent in full or not.
LEMMA CollectOptimal ==
  ASSUME IInv, Collect
  PROVE  best = Evaluate[best_vector] /\ best_vector \in Sweep!Optimal(total_stats)
<1> DEFINE T == total_stats
<1> USE DEF IInv
<1>1. /\ T \in Nat /\ StartStats <= T /\ T <= MaxStats
      /\ stage = "search" /\ \A t \in Threads : pc[t] = "done"
  BY DEF Collect, TypeOK, Budget
<1>2. \A a \in Exactly(T) : Evaluate[a] <= best
  BY <1>1, InvExact DEF Exact
<1>3. ASSUME NEW b \in Alloc, Leq(Lower, b), Leq(b, Ceiling(T)), Spend(b) <= T
      PROVE  Evaluate[b] <= best /\ Evaluate[b] \in Nat
  <2>1. PICK a \in Alloc : Leq(b, a) /\ Leq(a, Ceiling(T)) /\ Spend(a) = T
    BY <1>1, <1>3, SpendTheRest
  <2>2. Leq(Lower, a)
    BY <1>3, <2>1, BudgetAssumption, LeqTransitive
  <2>3. Evaluate[a] <= best
    BY <1>2, <2>1, <2>2 DEF Exactly
  <2>4. Evaluate[b] <= Evaluate[a]
    BY <1>3, <2>1, EvaluateAssumption
  <2>5. Evaluate[a] \in Nat /\ Evaluate[b] \in Nat /\ best \in Nat \cup {-1}
    BY <1>3, <2>1, EvaluateAssumption DEF TypeOK
  <2> QED BY <2>3, <2>4, <2>5, SMT
<1>4. best # -1
  <2>1. Lower \in Alloc /\ Leq(Lower, Lower) /\ Leq(Lower, Ceiling(T))
        /\ Spend(Lower) <= T
    BY <1>1, LowerFits, LeqReflexive, SpendType, BudgetAssumption, SMT
  <2>2. Evaluate[Lower] <= best /\ Evaluate[Lower] \in Nat
    BY <2>1, <1>3
  <2> QED BY <2>2, SMT
<1>5. /\ best = Evaluate[best_vector] /\ best_vector \in Alloc
      /\ Leq(Lower, best_vector) /\ Leq(best_vector, Ceiling(T))
      /\ Spend(best_vector) <= T
  BY <1>1, <1>4, SMT DEF BestBacked, TypeOK
<1>6. Sweep!Affordable(T) = {a \in Alloc : /\ Leq(Lower, a)
                                           /\ Leq(a, Ceiling(T))
                                           /\ Spend(a) <= T}
  BY DEF Sweep!Affordable, Sweep!Alloc, Alloc, Sweep!Leq, Leq, Sweep!Stats,
         Stats, Sweep!Ceiling, Ceiling, Sweep!Spend, Spend
<1>7. best_vector \in Sweep!Affordable(T)
  BY <1>5, <1>6
<1>8. \A b \in Sweep!Affordable(T) : Evaluate[b] <= Evaluate[best_vector]
  BY <1>3, <1>5, <1>6
<1> QED BY <1>5, <1>7, <1>8 DEF Sweep!Optimal

\* The search implements the sweep: the join of the threads is the one step
\* that answers a budget, and every other step stutters.
THEOREM Implements == Spec => Sweep!Init /\ [][Sweep!Answer]_(Sweep!vars)
<1>1. Init => Sweep!Init
  BY DEF Init, Sweep!Init
<1>2. IInv /\ [Next]_vars => [Sweep!Answer]_(Sweep!vars)
  <2> SUFFICES ASSUME IInv, [Next]_vars
               PROVE  Sweep!Answer \/ UNCHANGED <<total_stats, output, stats>>
    BY DEF Sweep!vars
  <2>1. CASE Collect
    <3>1. total_stats <= MaxStats
      BY <2>1 DEF Collect, IInv, Budget
    <3>2. /\ best = Evaluate[best_vector]
          /\ best_vector \in Sweep!Optimal(total_stats)
      BY <2>1, CollectOptimal
    <3> QED BY <2>1, <3>1, <3>2 DEF Collect, Sweep!Answer
  <2>2. CASE UNCHANGED vars
    BY <2>2 DEF vars, mains
  <2>3. CASE Seed \/ Finish
    BY <2>3 DEF Seed, Finish
  <2>4. CASE \E t \in Threads : Worker(t)
    BY <2>4 DEF Worker, Exit, Pop, Discard, Leaf, Prune, Keep, Sample, Split,
                mains
  <2> QED BY <2>1, <2>2, <2>3, <2>4 DEF Next, Main, Terminating
<1> QED BY <1>1, <1>2, Invariance, PTL DEF Spec
=============================================================================
