-------------------------- MODULE DamageStatsProofs --------------------------
(***************************************************************************)
(* Theorems about DamageStats, for every direction, point count and file.  *)
(*                                                                         *)
(* The argument is about Lag(i), what stat i is short of its exact share,  *)
(* in units of 1 / Total(dir).  The five lags add up to rest units of one  *)
(* point.  Until a stat is rounded up its lag is its fraction; after that  *)
(* the lag is negative, or zero if the fraction was as good as 1.  So a    *)
(* point left over implies a positive fraction, and the largest fraction   *)
(* belongs to a stat that was not rounded up yet.                          *)
(***************************************************************************)
EXTENDS DamageStats, TLAPS

\* What stat i lacks to its share.
Lag(i) == points * dir[i] - whole[i] * Total(dir)

\* What the loop preserves, whoever called.
Tally == pc \in {"round", "done"} => rest = points - Total(whole)

\* In the idle state nothing has been computed yet.
Idle == /\ pc \in {"idle", "crashed"} => rest = 0 /\ index = 0
        /\ pc = "done" => rest = 0

Rounding == pc \in {"round", "done"} /\ caller = "damageStatAllocation"

\* The direction survives trimming.
Aligned == Rounding => Total(dir) > 0

\* A stat not rounded up lags by its fraction, one rounded up by none.
Fractions ==
  Rounding =>
    \A i \in Stats :
      \/ Lag(i) = frac[i] /\ frac[i] <= Total(dir)
      \/ frac[i] = 0 /\ Lag(i) <= 0 /\ -Total(dir) < Lag(i)

\* Nothing is given to a stat without a component.
Untouched == Rounding => \A i \in Stats : dir[i] = 0 => whole[i] = 0 /\ frac[i] = 0

\* While a fraction as good as 1 waits, no stat has more than its share.
WholeFirst ==
  Rounding => \A i, j \in Stats : frac[i] = Total(dir) => Lag(j) >= 0

\* Who was rounded up had no smaller fraction than any that waits.
Ordered ==
  Rounding => \A i, j \in Stats : Lag(i) < 0 => frac[j] <= Lag(i) + Total(dir)

IInv == /\ TypeOK /\ Tally /\ Idle /\ Aligned /\ Fractions
        /\ Untouched /\ WholeFirst /\ Ordered

-----------------------------------------------------------------------------
(* Arithmetic *)

\* Division with remainder.
LEMMA Division ==
  ASSUME NEW a \in Nat, NEW b \in Nat, b > 0
  PROVE  /\ a \div b \in Nat /\ a % b \in Nat
         /\ a = b * (a \div b) + (a % b)
         /\ a % b < b
  OBVIOUS

\* A remainder is determined by its bounds.
LEMMA Remainder ==
  ASSUME NEW a \in Nat, NEW b \in Nat, b > 0, NEW q \in Int, NEW r \in Nat,
         r < b, a = q * b + r
  PROVE  a % b = r
  OBVIOUS

\* A product that is at most another is so in its first factor.
LEMMA Cancel ==
  ASSUME NEW a \in Int, NEW b \in Int, NEW c \in Nat, c > 0, a * c <= b * c
  PROVE  a <= b
  OBVIOUS

\* The total of a vector of numbers is a number.
LEMMA TotalNat == ASSUME NEW v \in Vectors PROVE Total(v) \in Nat
  BY DEF Total, Vectors, Stats

\* A total that is zero has only zeros.
LEMMA TotalZero ==
  ASSUME NEW v \in Vectors
  PROVE  \A i \in Stats : v[i] <= Total(v)
  BY DEF Total, Vectors, Stats

\* Trimming leaves a direction: its largest component is at least a fifth of
\* the squares' sum.
LEMMA TrimDirection ==
  ASSUME NEW d \in Vectors, Total(d) > 0
  PROVE  Trim(d) \in Vectors /\ Total(Trim(d)) > 0
<1> DEFINE q == Squares(d)
<1>1. q \in Vectors
  BY DEF Squares, Vectors
<1>2. Trim(d) \in Vectors
  BY <1>1 DEF Trim, Vectors
<1>3. PICK i \in Stats : d[i] > 0
  BY DEF Total, Vectors, Stats
<1>4. q[i] > 0
  BY <1>3 DEF Squares, Vectors
<1>5. Total(q) > 0
  BY <1>1, <1>4, TotalZero, TotalNat DEF Vectors
<1>6. PICK j \in Stats : 100 * q[j] >= Total(q)
  BY <1>1, <1>5 DEF Total, Vectors, Stats
<1>7. q[j] > 0
  BY <1>1, <1>5, <1>6 DEF Vectors, Total, Stats
<1>8. d[j] > 0
  BY <1>7 DEF Squares, Vectors
<1>9. Trim(d)[j] = d[j]
  BY <1>1, <1>6, TotalNat DEF Trim, Vectors
<1> QED  BY <1>2, <1>8, <1>9, TotalZero, TotalNat DEF Vectors

\* The two ways a share is cut.
LEMMA CutsSound ==
  ASSUME NEW share \in Nat, NEW total \in Nat, total > 0,
         NEW cut \in Cuts(share, total)
  PROVE  /\ cut[1] \in Nat /\ cut[2] \in Nat
         /\ share - cut[1] * total = cut[2]
         /\ cut[2] <= total
<1>1. CASE cut = <<share \div total, share % total>>
  BY <1>1, Division
<1>2. CASE \E n \in {share \div total} : n > 0 /\ n * total = share /\ cut = <<n - 1, total>>
  <2>1. PICK n \in {share \div total} : n > 0 /\ n * total = share /\ cut = <<n - 1, total>>
    BY <1>2
  <2>2. n \in Nat
    BY Division
  <2> QED  BY <2>1, <2>2
<1> QED  BY <1>1, <1>2 DEF Cuts

\* The row index is a small number.
LEMMA RowIndexType ==
  ASSUME NEW n \in Nat
  PROVE  RowIndex(n) \in -1..(5 + n)
  BY DEF RowIndex

-----------------------------------------------------------------------------
(* The invariant is inductive *)

\* What the invariant says of the numbers.
LEMMA Numbers ==
  ASSUME IInv
  PROVE  /\ points \in Nat /\ Total(dir) \in Nat /\ Total(whole) \in Nat
         /\ rest \in Nat /\ rest <= points
         /\ \A i \in Stats : dir[i] \in Nat /\ whole[i] \in Nat /\ frac[i] \in Nat
         /\ \A i \in Stats : points * dir[i] \in Nat /\ whole[i] * Total(dir) \in Nat
         /\ \A i \in Stats : Lag(i) \in Int
<1>1. points \in Nat /\ rest \in Nat /\ rest <= points
  BY InputAssumption DEF IInv, TypeOK
<1>2. dir \in Vectors /\ whole \in Vectors /\ frac \in Vectors
  BY DEF IInv, TypeOK
<1>3. Total(dir) \in Nat /\ Total(whole) \in Nat
  BY <1>2, TotalNat
<1>4. \A i \in Stats : dir[i] \in Nat /\ whole[i] \in Nat /\ frac[i] \in Nat
  BY <1>2 DEF Vectors
<1>5. \A i \in Stats : points * dir[i] \in Nat /\ whole[i] * Total(dir) \in Nat
  BY <1>1, <1>3, <1>4
<1> QED  BY <1>1, <1>3, <1>4, <1>5 DEF Lag

\* Five products with a common factor.
LEMMA Distribute ==
  ASSUME NEW v \in Vectors, NEW c \in Nat
  PROVE  v[1] * c + v[2] * c + v[3] * c + v[4] * c + v[5] * c = Total(v) * c
<1>1. v[1] \in Nat /\ v[2] \in Nat /\ v[3] \in Nat /\ v[4] \in Nat /\ v[5] \in Nat
  BY DEF Vectors, Stats
<1> QED  BY <1>1 DEF Total

\* The lags add up to the points left over.
LEMMA LagSum ==
  ASSUME IInv, Rounding
  PROVE  Lag(1) + Lag(2) + Lag(3) + Lag(4) + Lag(5) = rest * Total(dir)
<1> DEFINE T == Total(dir)
           P(i) == points * dir[i]
           Q(i) == whole[i] * T
<1>1. /\ T \in Nat /\ Total(whole) \in Nat /\ points \in Nat
      /\ rest = points - Total(whole)
  BY Numbers DEF IInv, Tally, Rounding
<1>2. dir \in Vectors /\ whole \in Vectors
  BY DEF IInv, TypeOK
<1>3. \A i \in Stats : P(i) = dir[i] * points
  BY Numbers
<1>4. P(1) + P(2) + P(3) + P(4) + P(5) = T * points
  BY <1>1, <1>2, <1>3, Distribute DEF Stats
<1>5. Q(1) + Q(2) + Q(3) + Q(4) + Q(5) = Total(whole) * T
  BY <1>1, <1>2, Distribute
<1>6. (points - Total(whole)) * T = T * points - Total(whole) * T
  <2> HIDE DEF T
  <2> QED  BY <1>1
<1>7. \A i \in Stats : Lag(i) = P(i) - Q(i) /\ P(i) \in Int /\ Q(i) \in Int
  BY Numbers DEF Lag
<1> HIDE DEF P, Q
<1>8. Lag(1) + Lag(2) + Lag(3) + Lag(4) + Lag(5)
        = (P(1) + P(2) + P(3) + P(4) + P(5)) - (Q(1) + Q(2) + Q(3) + Q(4) + Q(5))
  BY <1>7 DEF Stats
<1> QED  BY <1>1, <1>4, <1>5, <1>6, <1>8

\* A point left over implies a fraction: the largest one is positive.
LEMMA FractionLeft ==
  ASSUME IInv, Rounding, rest > 0, NEW i \in Stats, Biggest(i)
  PROVE  frac[i] > 0
<1>1. Total(dir) \in Nat /\ Total(dir) > 0 /\ rest \in Nat
  BY TotalNat, InputAssumption DEF IInv, TypeOK, Aligned
<1>2. rest * Total(dir) > 0
  BY <1>1
<1>3. \A j \in Stats : frac[j] \in Nat /\ Lag(j) \in Int
  BY Numbers
<1>4. \E j \in Stats : Lag(j) > 0
  <2>1. SUFFICES ASSUME \A j \in Stats : Lag(j) <= 0 PROVE FALSE
    BY <1>3
  <2> QED  BY <2>1, <1>2, <1>3, LagSum DEF Stats
<1>5. PICK j \in Stats : Lag(j) > 0
  BY <1>4
<1>6. frac[j] > 0
  BY <1>3, <1>5 DEF IInv, Fractions
<1> QED  BY <1>3, <1>6 DEF Biggest

\* Initially.
LEMMA InitInv == Init => IInv
<1> SUFFICES ASSUME Init PROVE IInv
  OBVIOUS
<1> USE DEF Init
<1>1. Zero \in Vectors /\ Total(Zero) = 0
  BY DEF Zero, Vectors, Total, Stats
<1>2. TypeOK
  BY <1>1, InputAssumption DEF TypeOK
<1> QED  BY <1>2 DEF IInv, Tally, Idle, Rounding, Aligned, Fractions, Untouched, WholeFirst, Ordered

\* damageStatAllocation cuts the shares.
LEMMA ShareInv == IInv /\ Share => IInv'
<1> SUFFICES ASSUME IInv, Share PROVE IInv'
  OBVIOUS
<1> USE DEF Share
<1>1. PICK d \in Directions :
        /\ dir' = Trim(d)
        /\ \E cut \in [Stats -> UNION {Cuts(points * dir'[i], Total(dir')) : i \in Stats}] :
             /\ \A i \in Stats : cut[i] \in Cuts(points * dir'[i], Total(dir'))
             /\ whole' = [i \in Stats |-> cut[i][1]]
             /\ frac' = [i \in Stats |-> cut[i][2]]
  OBVIOUS
<1>2. PICK cut : /\ \A i \in Stats : cut[i] \in Cuts(points * dir'[i], Total(dir'))
                 /\ whole' = [i \in Stats |-> cut[i][1]]
                 /\ frac' = [i \in Stats |-> cut[i][2]]
  BY <1>1
<1>3. dir' \in Vectors /\ Total(dir') \in Nat /\ Total(dir') > 0
  BY <1>1, TrimDirection, TotalNat, InputAssumption
<1>4. points \in Nat /\ points' = points /\ caller' = caller
  BY Numbers
<1>5. ASSUME NEW i \in Stats
      PROVE  /\ dir'[i] \in Nat /\ points * dir'[i] \in Nat
             /\ whole'[i] \in Nat /\ frac'[i] \in Nat
             /\ points * dir'[i] - whole'[i] * Total(dir') = frac'[i]
             /\ frac'[i] <= Total(dir')
             /\ frac'[i] = Total(dir') => dir'[i] > 0
  <2>1. dir'[i] \in Nat
    BY <1>3 DEF Vectors
  <2>2. points * dir'[i] \in Nat
    BY <2>1, <1>4
  <2>3. cut[i] \in Cuts(points * dir'[i], Total(dir')) /\ whole'[i] = cut[i][1] /\ frac'[i] = cut[i][2]
    BY <1>2
  <2>4. /\ whole'[i] \in Nat /\ frac'[i] \in Nat
        /\ points * dir'[i] - whole'[i] * Total(dir') = frac'[i]
        /\ frac'[i] <= Total(dir')
    BY <2>2, <2>3, <1>3, CutsSound
  <2>5. dir'[i] = 0 => frac'[i] <= 0
    <3> SUFFICES ASSUME dir'[i] = 0 PROVE frac'[i] <= 0
      OBVIOUS
    <3>1. points * dir'[i] = 0
      BY <1>4
    <3>2. whole'[i] * Total(dir') \in Nat
      BY <2>4, <1>3
    <3> QED  BY <2>4, <3>1, <3>2
  <2> QED  BY <2>1, <2>2, <2>4, <2>5, <1>3
<1>6. whole' \in Vectors /\ frac' \in Vectors
  BY <1>2, <1>5 DEF Vectors
<1>7. Total(whole') \in Nat /\ Total(whole') <= points
  <2>1. \A i \in Stats : whole'[i] * Total(dir') <= dir'[i] * points
    BY <1>3, <1>4, <1>5
  <2>2. \A i \in Stats : whole'[i] * Total(dir') \in Int /\ dir'[i] * points \in Int
    BY <1>3, <1>4, <1>5
  <2>3. Total(whole') * Total(dir') <= Total(dir') * points
    BY <2>1, <2>2, <1>3, <1>4, <1>6, Distribute DEF Stats
  <2>4. Total(whole') * Total(dir') <= points * Total(dir')
    BY <2>3, <1>3, <1>4
  <2> QED  BY <2>4, <1>3, <1>4, <1>6, TotalNat, Cancel
<1>8. TypeOK'
  <2>1. index' \in -1..(5 + points)
    BY <1>4, RowIndexType
  <2>2. rest' \in 0..points
    BY <1>4, <1>7
  <2> QED  BY <1>3, <1>4, <1>6, <2>1, <2>2 DEF TypeOK, IInv
<1>9. Tally' /\ Idle' /\ Aligned'
  BY <1>3, <1>4 DEF Tally, Idle, Aligned, Rounding
<1>10. \A i \in Stats : Lag(i)' = frac'[i]
  BY <1>4, <1>5 DEF Lag
<1>11. Fractions' /\ WholeFirst' /\ Ordered'
  BY <1>3, <1>5, <1>10 DEF Fractions, WholeFirst, Ordered
<1>12. Untouched'
  <2> SUFFICES ASSUME NEW i \in Stats, dir'[i] = 0 PROVE whole'[i] = 0 /\ frac'[i] = 0
    BY DEF Untouched
  <2>1. points * dir'[i] = 0
    BY <1>4
  <2>2. whole'[i] * Total(dir') \in Nat
    BY <1>3, <1>5
  <2>3. frac'[i] = 0 /\ whole'[i] * Total(dir') = 0
    BY <2>1, <2>2, <1>5
  <2>4. whole'[i] * Total(dir') <= 0 * Total(dir')
    BY <2>3, <1>3
  <2>5. whole'[i] <= 0
    BY <2>4, <1>3, <1>5, Cancel
  <2> QED  BY <2>3, <2>5, <1>5
<1> QED  BY <1>8, <1>9, <1>11, <1>12 DEF IInv

\* Predict stretches a row.
LEMMA StretchInv == IInv /\ Stretch => IInv'
<1> SUFFICES ASSUME IInv, Stretch PROVE IInv'
  OBVIOUS
<1> DEFINE i == IF RowIndex(points) < 0 THEN 0 ELSE RowIndex(points)
           alpha == points \div (5 * (i + 1))
<1>1. /\ pc = "idle" /\ caller = "Predict" /\ pc' = "round"
      /\ index' = IF i >= Len(DbRows) THEN Len(DbRows) - 1 ELSE i
      /\ dir' \in DbRows[index' + 1]
      /\ whole' = [n \in Stats |-> alpha * dir'[n]]
      /\ frac' = Zero
      /\ rest' = points - Total(whole')
      /\ caller' = caller /\ points' = points
  BY DEF Stretch
<1>2. points \in Nat
  BY Numbers
<1>3. i \in 0..(5 + points)
  BY <1>2, RowIndexType
<1> HIDE DEF i
<1>4. alpha \in Nat /\ alpha * (5 * (i + 1)) <= points
  <2>1. 5 * (i + 1) \in Nat /\ 5 * (i + 1) > 0
    BY <1>3
  <2> DEFINE m == 5 * (i + 1)
  <2> HIDE DEF m
  <2>2. points \div m \in Nat /\ points = m * (points \div m) + (points % m) /\ points % m \in Nat
    BY <2>1, <1>2, Division DEF m
  <2> QED  BY <2>1, <2>2 DEF m
<1> HIDE DEF alpha
<1>5. Len(DbRows) \in Nat /\ Len(DbRows) >= 1
  BY InputAssumption
<1>6. index' \in 0..i /\ index' + 1 \in 1..Len(DbRows)
  BY <1>1, <1>3, <1>5
<1>7. DbRows[index' + 1] \subseteq Vectors
  BY <1>6, InputAssumption
<1>8. dir' \in Vectors /\ Total(dir') \in Nat /\ Total(dir') <= 5 * (index' + 1)
  BY <1>1, <1>6, <1>7, TotalNat, InputAssumption
<1>9. whole' \in Vectors /\ Zero \in Vectors
  BY <1>1, <1>4, <1>8 DEF Vectors, Zero
<1>10. Total(whole') = Total(dir') * alpha
  <2>1. \A n \in Stats : whole'[n] = dir'[n] * alpha
    BY <1>1, <1>4, <1>8 DEF Vectors
  <2>2. Total(whole') = dir'[1] * alpha + dir'[2] * alpha + dir'[3] * alpha + dir'[4] * alpha + dir'[5] * alpha
    BY <2>1 DEF Total, Stats
  <2> QED  BY <2>2, <1>4, <1>8, Distribute
<1>11. Total(whole') \in Nat /\ Total(whole') <= points
  <2>1. Total(dir') <= 5 * (i + 1)
    BY <1>3, <1>6, <1>8
  <2>2. Total(dir') * alpha <= (5 * (i + 1)) * alpha
    BY <2>1, <1>3, <1>4, <1>8
  <2>3. (5 * (i + 1)) * alpha = alpha * (5 * (i + 1))
    BY <1>3, <1>4
  <2>4. Total(dir') * alpha \in Nat
    BY <1>4, <1>8
  <2> QED  BY <2>2, <2>3, <2>4, <1>2, <1>4, <1>10, <1>3
<1>12. TypeOK'
  BY <1>1, <1>2, <1>3, <1>6, <1>8, <1>9, <1>11, SMTT(30) DEF TypeOK, IInv
<1> QED
  BY <1>1, <1>12 DEF IInv, Tally, Idle, Aligned, Fractions, Untouched, WholeFirst, Ordered, Rounding

\* One point for the largest fraction.
LEMMA RoundUpInv == IInv /\ RoundUp => IInv'
<1> SUFFICES ASSUME IInv, RoundUp PROVE IInv'
  OBVIOUS
<1> DEFINE T == Total(dir)
<1>1. PICK i \in Stats : /\ Biggest(i)
                        /\ whole' = [whole EXCEPT ![i] = @ + 1]
                        /\ frac' = [frac EXCEPT ![i] = 0]
  BY DEF RoundUp
<1>2. /\ pc = "round" /\ rest > 0 /\ rest' = rest - 1
      /\ pc' = pc /\ caller' = caller /\ points' = points /\ dir' = dir /\ index' = index
  BY DEF RoundUp
<1>3. whole \in Vectors /\ frac \in Vectors /\ dir \in Vectors
  BY DEF IInv, TypeOK
<1>4. /\ whole'[i] = whole[i] + 1 /\ frac'[i] = 0
      /\ \A j \in Stats : j # i => whole'[j] = whole[j] /\ frac'[j] = frac[j]
  BY <1>1, <1>3 DEF Vectors
<1>5. whole' \in Vectors /\ frac' \in Vectors
  BY <1>1, <1>3 DEF Vectors
<1>6. Total(whole') = Total(whole) + 1
  BY <1>3, <1>4 DEF Total, Stats, Vectors
<1>7. TypeOK'
  BY <1>2, <1>5, Numbers DEF TypeOK, IInv
<1>8. Tally' /\ Idle'
  BY <1>2, <1>6, Numbers DEF Tally, Idle, IInv
<1>9. Rounding' <=> Rounding
  BY <1>2 DEF Rounding
<1>10. Aligned'
  BY <1>2, <1>9 DEF Aligned, IInv
<1>11. ASSUME Rounding PROVE Fractions' /\ Untouched' /\ WholeFirst' /\ Ordered'
  <2>1. frac[i] > 0
    BY <1>1, <1>2, <1>11, FractionLeft
  <2>2. T \in Nat /\ T > 0
    BY <1>11, Numbers DEF IInv, Aligned
  <2>3. Lag(i) = frac[i] /\ frac[i] <= T
    BY <2>1, <1>11 DEF IInv, Fractions
  <2>4. Lag(i)' = Lag(i) - T
    <3>1. (whole[i] + 1) * T = whole[i] * T + T
      BY Numbers
    <3>2. Lag(i)' = points * dir[i] - (whole[i] + 1) * T
      BY <1>2, <1>4 DEF Lag
    <3>3. points * dir[i] \in Nat /\ whole[i] * T \in Nat
      BY Numbers
    <3> QED  BY <3>1, <3>2, <3>3, <2>2 DEF Lag
  <2>5. \A j \in Stats : j # i => Lag(j)' = Lag(j)
    BY <1>2, <1>4 DEF Lag
  <2>6. \A j \in Stats : Lag(j) \in Int /\ frac[j] \in Nat /\ frac[j] <= frac[i]
    BY <1>1, Numbers DEF Biggest
  <2>7. Total(dir)' = T
    BY <1>2
  <2> HIDE DEF T
  <2>8. Fractions'
    <3>1. SUFFICES ASSUME NEW j \in Stats
                   PROVE  \/ Lag(j)' = frac'[j] /\ frac'[j] <= T
                          \/ frac'[j] = 0 /\ Lag(j)' <= 0 /\ -T < Lag(j)'
      BY <2>7 DEF Fractions
    <3>2. CASE j = i
      BY <3>2, <1>4, <2>1, <2>2, <2>3, <2>4, <2>6
    <3>3. CASE j # i
      BY <3>3, <1>4, <1>11, <2>5 DEF IInv, Fractions, T
    <3> QED  BY <3>2, <3>3
  <2>9. Untouched'
    <3>1. dir[i] # 0
      BY <2>1, <1>11 DEF IInv, Untouched
    <3> QED  BY <3>1, <1>2, <1>4, <1>11 DEF IInv, Untouched
  <2>10. WholeFirst'
    <3>1. SUFFICES ASSUME NEW k \in Stats, NEW j \in Stats, frac'[k] = T
                   PROVE  Lag(j)' >= 0
      BY <2>7 DEF WholeFirst
    <3>2. k # i /\ frac[k] = T
      BY <3>1, <1>4, <2>2
    <3>3. frac[i] = T /\ Lag(i)' = 0
      BY <3>2, <2>2, <2>3, <2>4, <2>6
    <3>4. Lag(j) >= 0
      BY <3>2, <1>11 DEF IInv, WholeFirst, T
    <3> QED  BY <3>3, <3>4, <2>5
  <2>11. Ordered'
    <3>1. SUFFICES ASSUME NEW k \in Stats, NEW j \in Stats, Lag(k)' < 0
                   PROVE  frac'[j] <= Lag(k)' + T
      BY <2>7 DEF Ordered
    <3>2. frac'[j] <= frac[j]
      BY <1>4, <2>6
    <3>3. CASE k = i
      BY <3>2, <3>3, <2>2, <2>3, <2>4, <2>6, <1>4
    <3>4. CASE k # i
      <4>1. frac[j] <= Lag(k) + T
        BY <3>1, <3>4, <2>5, <1>11 DEF IInv, Ordered, T
      <4> QED  BY <4>1, <3>2, <3>4, <2>2, <2>5, <2>6, <1>4
    <3> QED  BY <3>3, <3>4
  <2> QED  BY <2>8, <2>9, <2>10, <2>11
<1>12. CASE Rounding
  BY <1>7, <1>8, <1>10, <1>11, <1>12 DEF IInv
<1>13. CASE ~Rounding
  BY <1>7, <1>8, <1>9, <1>10, <1>13 DEF IInv, Fractions, Untouched, WholeFirst, Ordered
<1> QED  BY <1>12, <1>13

\* The end of either function.
LEMMA EndInv == IInv /\ (Return \/ Crash \/ UNCHANGED vars) => IInv'
<1> SUFFICES ASSUME IInv, Return \/ Crash \/ UNCHANGED vars PROVE IInv'
  OBVIOUS
<1>1. /\ caller' = caller /\ points' = points /\ dir' = dir /\ index' = index
      /\ whole' = whole /\ frac' = frac /\ rest' = rest
  BY DEF Return, Crash, vars
<1>2. \/ pc' = pc
      \/ pc = "round" /\ rest <= 0 /\ pc' = "done"
      \/ pc = "idle" /\ pc' = "crashed"
  BY DEF Return, Crash, vars
<1>3. Rounding' <=> Rounding
  BY <1>1, <1>2 DEF Rounding
<1>4. \A i \in Stats : Lag(i)' = Lag(i)
  BY <1>1 DEF Lag
<1>5. TypeOK' /\ Tally' /\ Idle'
  BY <1>1, <1>2, Numbers DEF IInv, TypeOK, Tally, Idle
<1>6. Aligned' /\ Untouched'
  BY <1>1, <1>3 DEF IInv, Aligned, Untouched
<1>7. Fractions' /\ WholeFirst' /\ Ordered'
  BY <1>1, <1>3, <1>4 DEF IInv, Fractions, WholeFirst, Ordered
<1> QED  BY <1>5, <1>6, <1>7 DEF IInv

\* The invariant holds in every reachable state.
THEOREM Invariance == Spec => []IInv
<1>1. IInv /\ [Next]_vars => IInv'
  BY ShareInv, StretchInv, RoundUpInv, EndInv DEF Next
<1> QED  BY InitInv, <1>1, PTL DEF Spec

-----------------------------------------------------------------------------
(* Theorems *)

\* Row indices, points given and points left over stay in range, whatever
\* direction the SVD finds and whatever the files hold.
THEOREM TypeCorrect == Spec => []TypeOK
<1>1. IInv => TypeOK
  BY DEF IInv
<1> QED  BY Invariance, <1>1, PTL

\* damageStatAllocation and Predict give out exactly the points they were
\* asked to give out.
THEOREM SumExactAlways == Spec => []SumExact
<1>1. IInv => SumExact
  BY Numbers DEF IInv, Tally, Idle, SumExact
<1> QED  BY Invariance, <1>1, PTL

\* When no point is left over, no stat lags by a whole point or more.
LEMMA QuotaHolds ==
  ASSUME IInv, pc = "done", caller = "damageStatAllocation", NEW i \in Stats
  PROVE  -Total(dir) < Lag(i) /\ Lag(i) < Total(dir)
<1> DEFINE T == Total(dir)
<1>1. Rounding /\ rest = 0
  BY DEF IInv, Idle, Rounding
<1>2. T \in Nat /\ T > 0
  BY <1>1, Numbers DEF IInv, Aligned
<1>3. \A j \in Stats : Lag(j) \in Int /\ frac[j] \in Nat
  BY Numbers
<1>4. /\ \A j \in Stats : Lag(j) <= T /\ -T < Lag(j)
      /\ \A j \in Stats : Lag(j) = T => frac[j] = T
  BY <1>1, <1>2, <1>3 DEF IInv, Fractions
<1>5. Lag(1) + Lag(2) + Lag(3) + Lag(4) + Lag(5) = 0
  BY <1>1, <1>2, LagSum
<1>6. Lag(i) # T
  <2>1. SUFFICES ASSUME Lag(i) = T PROVE FALSE
    OBVIOUS
  <2>2. \A j \in Stats : Lag(j) >= 0
    BY <2>1, <1>1, <1>4 DEF IInv, WholeFirst
  <2>3. Lag(i) > 0
    BY <2>1, <1>2
  <2>4. /\ Lag(1) = 0 /\ Lag(2) = 0 /\ Lag(3) = 0 /\ Lag(4) = 0 /\ Lag(5) = 0
    <3> DEFINE A == Lag(1)  B == Lag(2)  C == Lag(3)  D == Lag(4)  E == Lag(5)
    <3>1. /\ A \in Int /\ B \in Int /\ C \in Int /\ D \in Int /\ E \in Int
          /\ A >= 0 /\ B >= 0 /\ C >= 0 /\ D >= 0 /\ E >= 0
      BY <2>2, <1>3 DEF Stats
    <3>2. A + B + C + D + E = 0
      BY <1>5
    <3> HIDE DEF A, B, C, D, E
    <3>3. A = 0 /\ B = 0 /\ C = 0 /\ D = 0 /\ E = 0
      BY <3>1, <3>2
    <3> QED  BY <3>3 DEF A, B, C, D, E
  <2>5. i = 1 \/ i = 2 \/ i = 3 \/ i = 4 \/ i = 5
    BY DEF Stats
  <2> QED  BY <2>3, <2>4, <2>5
<1> QED  BY <1>2, <1>3, <1>4, <1>6

\* The largest remainders of damageStatAllocation keep the quota, with a
\* trimmed direction and with shares rounded just below a whole number.
THEOREM QuotaAlways == Spec => []Quota
<1>1. ASSUME IInv PROVE Quota
  <2> SUFFICES ASSUME pc = "done", caller = "damageStatAllocation", NEW i \in Stats
               PROVE  /\ whole[i] * Total(dir) < points * dir[i] + Total(dir)
                      /\ points * dir[i] < whole[i] * Total(dir) + Total(dir)
                      /\ dir[i] = 0 => whole[i] = 0
    BY DEF Quota
  <2>1. -Total(dir) < Lag(i) /\ Lag(i) < Total(dir)
    BY <1>1, QuotaHolds
  <2>2. /\ points * dir[i] \in Nat /\ whole[i] * Total(dir) \in Nat
        /\ Total(dir) \in Nat
    BY <1>1, Numbers
  <2>3. dir[i] = 0 => whole[i] = 0
    BY <1>1 DEF IInv, Untouched, Rounding
  <2> QED  BY <2>1, <2>2, <2>3 DEF Lag
<1>2. IInv => Quota
  BY <1>1
<1> QED  BY Invariance, <1>2, PTL

\* Of two stats, the one damageStatAllocation rounded up had the larger fraction.
THEOREM LargestFirstAlways == Spec => []LargestFirst
<1>1. ASSUME IInv PROVE LargestFirst
  <2> DEFINE T == Total(dir)
  <2> SUFFICES ASSUME pc = "done", caller = "damageStatAllocation",
                      NEW i \in Stats, NEW j \in Stats,
                      whole[i] * T > points * dir[i], whole[j] * T < points * dir[j]
               PROVE  (points * dir[j]) % T <= (points * dir[i]) % T
    BY DEF LargestFirst
  <2>1. Rounding
    BY DEF Rounding
  <2>2. T \in Nat /\ T > 0
    BY <1>1, <2>1, Numbers DEF IInv, Aligned
  <2>3. /\ points * dir[i] \in Nat /\ whole[i] * T \in Nat
        /\ points * dir[j] \in Nat /\ whole[j] * T \in Nat
        /\ whole[i] \in Nat /\ whole[j] \in Nat
        /\ Lag(i) \in Int /\ Lag(j) \in Int /\ frac[j] \in Nat
    BY <1>1, Numbers
  <2>4. Lag(i) = points * dir[i] - whole[i] * T /\ Lag(j) = points * dir[j] - whole[j] * T
    BY DEF Lag
  <2> HIDE DEF T
  <2>5. Lag(i) < 0 /\ Lag(j) > 0
    BY <2>3, <2>4
  <2>6. -T < Lag(i) /\ Lag(j) < T
    BY <1>1, QuotaHolds DEF T
  <2>7. frac[j] <= Lag(i) + T
    BY <1>1, <2>1, <2>5 DEF IInv, Ordered, T
  <2>8. frac[j] = Lag(j)
    BY <1>1, <2>1, <2>3, <2>5 DEF IInv, Fractions
  <2>9. (points * dir[j]) % T = Lag(j)
    <3>1. points * dir[j] = whole[j] * T + Lag(j)
      BY <2>3, <2>4
    <3>2. Lag(j) \in Nat /\ Lag(j) < T
      BY <2>3, <2>5, <2>6
    <3> DEFINE a == points * dir[j]
               q == whole[j]
               r == Lag(j)
    <3>3. a \in Nat /\ q \in Int /\ r \in Nat /\ r < T /\ a = q * T + r
      BY <3>1, <3>2, <2>3
    <3> HIDE DEF a, q, r
    <3>4. a % T = r
      BY <3>3, <2>2, Remainder
    <3> QED  BY <3>4 DEF a, r
  <2>10. (points * dir[i]) % T = Lag(i) + T
    <3>1. (whole[i] - 1) * T = whole[i] * T - T
      BY <2>2, <2>3
    <3>2. points * dir[i] = (whole[i] - 1) * T + (Lag(i) + T)
      BY <3>1, <2>2, <2>3, <2>4
    <3>3. Lag(i) + T \in Nat /\ Lag(i) + T < T /\ whole[i] - 1 \in Int
      BY <2>2, <2>3, <2>5, <2>6
    <3> DEFINE a == points * dir[i]
               q == whole[i] - 1
               r == Lag(i) + T
    <3>4. a \in Nat /\ q \in Int /\ r \in Nat /\ r < T /\ a = q * T + r
      BY <3>2, <3>3, <2>3
    <3> HIDE DEF a, q, r
    <3>5. a % T = r
      BY <3>4, <2>2, Remainder
    <3> QED  BY <3>5 DEF a, r
  <2> QED  BY <2>7, <2>8, <2>9, <2>10
<1>2. IInv => LargestFirst
  BY <1>1
<1> QED  BY Invariance, <1>2, PTL
=============================================================================
