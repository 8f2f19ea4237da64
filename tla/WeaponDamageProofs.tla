-------------------------- MODULE WeaponDamageProofs --------------------------
(***************************************************************************)
(* For every table of weapons that WeaponAssumption allows, a point more   *)
(* lowers neither the damage of a weapon nor that of a spell.  Attack      *)
(* rises with each stat because curves do not fall; what gets through is   *)
(* the attack times a part that rises with it on each of the five pieces   *)
(* and from one to the next; dividing and truncating keep the order.       *)
(***************************************************************************)
EXTENDS WeaponDamage, TLAPS

-----------------------------------------------------------------------------
(* Arithmetic *)

LEMMA TimesMonotone ==
  ASSUME NEW a \in Nat, NEW b \in Nat, NEW c \in Nat, NEW e \in Nat, a <= b, c <= e
  PROVE  a * c <= b * e /\ a * c \in Nat /\ b * e \in Nat
<1>1. a * c <= b * c
  BY SMT
<1>2. b * c <= b * e
  BY SMT
<1>3. QED
  BY <1>1, <1>2, SMT

LEMMA Cancel ==
  ASSUME NEW k \in Nat \ {0}, NEW x \in Int, NEW y \in Int
  PROVE  /\ k * x <= k * y => x <= y
         /\ k * x < k * y => x < y
BY SMT

LEMMA Division ==
  ASSUME NEW x \in Nat, NEW k \in Nat \ {0}
  PROVE  /\ x \div k \in Nat
         /\ (x \div k) * k <= x
         /\ x < (x \div k + 1) * k
BY SMT

LEMMA DivisionMonotone ==
  ASSUME NEW x \in Nat, NEW y \in Nat, NEW k \in Nat \ {0}, x <= y
  PROVE  x \div k <= y \div k
BY SMT

\* A common factor of dividend and divisor does not matter.
LEMMA DivisionCancel ==
  ASSUME NEW x \in Nat, NEW k \in Nat \ {0}, NEW m \in Nat \ {0}
  PROVE  (m * x) \div (m * k) = x \div k
<1> DEFINE q == x \div k
<1>1. q \in Nat /\ q * k <= x /\ x < (q + 1) * k
  BY Division
<1> HIDE DEF q
<1>2. m * (q * k) <= m * x /\ m * x < m * ((q + 1) * k)
  BY <1>1, SMT
<1>3. m * k \in Nat \ {0} /\ m * x \in Nat
  BY SMT
<1>4. m * (q * k) = q * (m * k) /\ m * ((q + 1) * k) = (q + 1) * (m * k)
  BY <1>1, SMT
<1> DEFINE X == m * x  K == m * k
<1>5. X \in Nat /\ K \in Nat \ {0} /\ q * K <= X /\ X < (q + 1) * K
  BY <1>2, <1>3, <1>4
<1> HIDE DEF X, K
<1>6. X \div K = q
  BY <1>1, <1>5, SMT
<1>7. QED
  BY <1>6 DEF X, K, q

-----------------------------------------------------------------------------
(* The reduction *)

\* Squares that bound the pieces: the shifted ratio lies between its values
\* at the ends of the piece.
LEMMA Squares ==
  ASSUME NEW x \in Int, NEW y \in Int, 0 <= x, x <= y
  PROVE  x * x <= y * y /\ 0 <= x * x
<1>1. x \in Nat /\ y \in Nat
  OBVIOUS
<1>2. QED
  BY <1>1, TimesMonotone

\* Between a tenth and nine tenths; and on which piece it is how much.
LEMMA ReductionBounds ==
  ASSUME NEW a \in Nat, NEW d \in Nat \ {0}
  PROVE  /\ Reduction(a, d) \in Nat
         /\ 17787 * (d * d) <= Reduction(a, d)
         /\ Reduction(a, d) <= 160083 * (d * d)
         /\ a <= d => Reduction(a, d) <= 71148 * (d * d)
         /\ d < a => 71148 * (d * d) <= Reduction(a, d)
         /\ 2 * a <= 5 * d => Reduction(a, d) <= 124509 * (d * d)
         /\ 5 * d < 2 * a => 124509 * (d * d) <= Reduction(a, d)
<1> DEFINE D == d * d
<1>0. D \in Nat /\ 0 < D
  BY SMT
<1>1. CASE 8 * a <= d
  <2>1. Reduction(a, d) = 17787 * D
    BY <1>1 DEF Reduction
  <2> HIDE DEF D
  <2>2. QED
    BY <1>0, <1>1, <2>1 DEF D
<1>2. CASE d < 8 * a /\ a <= d
  <2> DEFINE x == 8 * a - d  X == x * x
  <2>1. x \in Int /\ 0 <= x /\ x <= 7 * d
    BY <1>2
  <2>2. X <= (7 * d) * (7 * d) /\ 0 <= X /\ X \in Int
    BY <2>1, Squares
  <2>3. (7 * d) * (7 * d) = 49 * D
    BY SMT
  <2>4. Reduction(a, d) = 363 * (49 * D + 3 * X)
    <3>1. /\ 49 * d * d = 49 * D
          /\ 3 * (8 * a - d) * (8 * a - d) = 3 * X
      BY SMT
    <3>2. QED
      BY <1>2, <3>1, SMT DEF Reduction
  <2> HIDE DEF X, x, D
  <2>5. QED
    BY <1>0, <1>2, <2>2, <2>3, <2>4 DEF D
<1>3. CASE d < a /\ 2 * a <= 5 * d
  <2> DEFINE x == 5 * d - 2 * a  X == x * x
  <2>1. x \in Int /\ 0 <= x /\ x <= 3 * d
    BY <1>3
  <2>2. X <= (3 * d) * (3 * d) /\ 0 <= X /\ X \in Int
    BY <2>1, Squares
  <2>3. (3 * d) * (3 * d) = 9 * D
    BY SMT
  <2>4. Reduction(a, d) = 5929 * (21 * D - X)
    <3>1. 21 * d * d = 21 * D /\ (2 * a - 5 * d) * (2 * a - 5 * d) = X
      BY SMT
    <3>2. QED
      BY <1>3, <3>1, SMT DEF Reduction
  <2> HIDE DEF X, x, D
  <2>5. QED
    BY <1>0, <1>3, <2>2, <2>3, <2>4 DEF D
<1>4. CASE 5 * d < 2 * a /\ a <= 8 * d
  <2> DEFINE x == 2 * (8 * d - a)  X == x * x
  <2>1. x \in Int /\ 0 <= x /\ x <= 11 * d
    BY <1>4
  <2>2. X <= (11 * d) * (11 * d) /\ 0 <= X /\ X \in Int
    BY <2>1, Squares
  <2>3. (11 * d) * (11 * d) = 121 * D
    BY SMT
  <2>4. Reduction(a, d) = 147 * (1089 * D - 2 * X)
    <3>1. 1089 * d * d = 1089 * D /\ 8 * (a - 8 * d) * (a - 8 * d) = 2 * X
      BY SMT
    <3>2. QED
      BY <1>4, <3>1, SMT DEF Reduction
  <2> HIDE DEF X, x, D
  <2>5. QED
    BY <1>0, <1>4, <2>2, <2>3, <2>4 DEF D
<1>5. CASE 8 * d < a
  <2>1. Reduction(a, d) = 160083 * D
    BY <1>5 DEF Reduction
  <2> HIDE DEF D
  <2>2. QED
    BY <1>0, <1>5, <2>1 DEF D
<1>6. QED
  BY <1>1, <1>2, <1>3, <1>4, <1>5

\* The higher the attack, the larger the part that gets through.
LEMMA ReductionMonotone ==
  ASSUME NEW a \in Nat, NEW b \in Nat, NEW d \in Nat \ {0}, a <= b
  PROVE  Reduction(a, d) <= Reduction(b, d)
<1> DEFINE D == d * d
<1>0. D \in Nat
  BY SMT
<1>a. /\ Reduction(a, d) \in Nat
      /\ 17787 * D <= Reduction(a, d)
      /\ Reduction(a, d) <= 160083 * D
      /\ a <= d => Reduction(a, d) <= 71148 * D
      /\ 2 * a <= 5 * d => Reduction(a, d) <= 124509 * D
  BY ReductionBounds
<1>b. /\ Reduction(b, d) \in Nat
      /\ 17787 * D <= Reduction(b, d)
      /\ d < b => 71148 * D <= Reduction(b, d)
      /\ 5 * d < 2 * b => 124509 * D <= Reduction(b, d)
  BY ReductionBounds
<1>1. CASE 8 * a <= d
  <2>1. Reduction(a, d) = 17787 * D
    BY <1>1 DEF Reduction
  <2>2. QED
    BY <1>b, <2>1
<1>2. CASE d < 8 * a /\ b <= d
  <2> DEFINE x == 8 * a - d  y == 8 * b - d
  <2>1. x * x <= y * y /\ x \in Int /\ y \in Int
    BY <1>2, Squares
  <2>2. /\ Reduction(a, d) = 363 * (49 * D + 3 * (x * x))
        /\ Reduction(b, d) = 363 * (49 * D + 3 * (y * y))
    BY <1>2, SMT DEF Reduction
  <2> HIDE DEF x, y, D
  <2>3. QED
    BY <1>0, <2>1, <2>2
<1>3. CASE a <= d /\ d < b
  <2> HIDE DEF D
  <2>1. QED
    BY <1>0, <1>a, <1>b, <1>3
<1>4. CASE d < a /\ 2 * b <= 5 * d
  <2> DEFINE x == 5 * d - 2 * a  y == 5 * d - 2 * b
  <2>1. y * y <= x * x /\ x \in Int /\ y \in Int
    BY <1>4, Squares
  <2>2. /\ Reduction(a, d) = 5929 * (21 * D - x * x)
        /\ Reduction(b, d) = 5929 * (21 * D - y * y)
    BY <1>4, SMT DEF Reduction
  <2> HIDE DEF x, y, D
  <2>3. QED
    BY <1>0, <2>1, <2>2
<1>5. CASE d < a /\ 2 * a <= 5 * d /\ 5 * d < 2 * b
  <2> HIDE DEF D
  <2>1. QED
    BY <1>0, <1>a, <1>b, <1>5
<1>6. CASE 5 * d < 2 * a /\ b <= 8 * d
  <2> DEFINE x == 8 * d - a  y == 8 * d - b
  <2>1. y * y <= x * x /\ x \in Int /\ y \in Int
    BY <1>6, Squares
  <2>2. /\ Reduction(a, d) = 147 * (1089 * D - 8 * (x * x))
        /\ Reduction(b, d) = 147 * (1089 * D - 8 * (y * y))
    BY <1>6, SMT DEF Reduction
  <2> HIDE DEF x, y, D
  <2>3. QED
    BY <1>0, <2>1, <2>2
<1>7. CASE 8 * d < b
  <2>1. Reduction(b, d) = 160083 * D
    BY <1>7 DEF Reduction
  <2>2. QED
    BY <1>a, <2>1
<1>8. QED
  BY <1>1, <1>2, <1>3, <1>4, <1>5, <1>6, <1>7

LEMMA ThroughFacts ==
  ASSUME NEW a \in Nat, NEW b \in Nat, NEW d \in Nat \ {0}, a <= b
  PROVE  /\ Through(a, d) \in Nat
         /\ Through(a, d) <= Through(b, d)
<1>1. Reduction(a, d) \in Nat /\ Reduction(b, d) \in Nat
  BY ReductionBounds
<1>2. Reduction(a, d) <= Reduction(b, d)
  BY ReductionMonotone
<1>3. QED
  BY <1>1, <1>2, TimesMonotone DEF Through

-----------------------------------------------------------------------------
(* Sums *)

LEMMA SumFacts ==
  ASSUME NEW f \in [1..5 -> Nat], NEW g \in [1..5 -> Nat],
         \A i \in 1..5 : f[i] <= g[i]
  PROVE  Sum(f) \in Nat /\ Sum(f) <= Sum(g)
<1>1. /\ f[1] \in Nat /\ f[2] \in Nat /\ f[3] \in Nat /\ f[4] \in Nat /\ f[5] \in Nat
      /\ g[1] \in Nat /\ g[2] \in Nat /\ g[3] \in Nat /\ g[4] \in Nat /\ g[5] \in Nat
  OBVIOUS
<1>2. f[1] <= g[1] /\ f[2] <= g[2] /\ f[3] <= g[3] /\ f[4] <= g[4] /\ f[5] <= g[5]
  OBVIOUS
<1>3. QED
  BY <1>1, <1>2, SMT DEF Sum

\* The same multiple of every term.
LEMMA SumTimes ==
  ASSUME NEW f \in [1..5 -> Nat], NEW g \in [1..5 -> Nat], NEW m \in Nat,
         \A i \in 1..5 : g[i] = m * f[i]
  PROVE  Sum(g) = m * Sum(f)
<1>1. /\ f[1] \in Nat /\ f[2] \in Nat /\ f[3] \in Nat /\ f[4] \in Nat /\ f[5] \in Nat
  OBVIOUS
<1>2. /\ g[1] = m * f[1] /\ g[2] = m * f[2] /\ g[3] = m * f[3]
      /\ g[4] = m * f[4] /\ g[5] = m * f[5]
  OBVIOUS
<1> DEFINE a == f[1]  b == f[2]  c == f[3]  e == f[4]  h == f[5]
<1>3. Sum(g) = m * a + m * b + m * c + m * e + m * h /\ Sum(f) = a + b + c + e + h
  BY <1>2, Zenon DEF Sum
<1>4. a \in Nat /\ b \in Nat /\ c \in Nat /\ e \in Nat /\ h \in Nat
  BY <1>1
<1> HIDE DEF a, b, c, e, h
<1>5. m * a + m * b + m * c + m * e + m * h = m * (a + b + c + e + h)
  BY <1>4, SMT
<1>6. QED
  BY <1>3, <1>5

-----------------------------------------------------------------------------
(* Attack ratings *)

LEMMA ReadAtFacts ==
  ASSUME NEW w \in Weapons, NEW j \in Stats, NEW m \in Int, NEW n \in Int, m <= n,
         NEW two \in BOOLEAN
  PROVE  /\ ReadAt(w, j, m, two) \in 1..Top
         /\ ReadAt(w, j, m, two) <= ReadAt(w, j, n, two)
<1>1. Top \in Nat \ {0}
  BY NumbersAssumption
<1> DEFINE c(v) == Clamp(v)
<1>2. c(m) \in 1..Top /\ c(n) \in 1..Top /\ c(m) <= c(n)
  BY <1>1 DEF Clamp, AtMost
<1> HIDE DEF c
<1>3. /\ (3 * c(m)) \div 2 \in Nat /\ (3 * c(n)) \div 2 \in Nat
      /\ 1 <= (3 * c(m)) \div 2 /\ (3 * c(m)) \div 2 <= (3 * c(n)) \div 2
  BY <1>1, <1>2, SMT
<1>4. /\ ReadAt(w, j, m, two) =
           AtMost(IF j = 1 /\ two /\ ~w.isDualBlade THEN (3 * c(m)) \div 2 ELSE c(m))
      /\ ReadAt(w, j, n, two) =
           AtMost(IF j = 1 /\ two /\ ~w.isDualBlade THEN (3 * c(n)) \div 2 ELSE c(n))
  BY DEF ReadAt, c
<1>5. CASE j = 1 /\ two /\ ~w.isDualBlade
  BY <1>1, <1>3, <1>4, <1>5 DEF AtMost
<1>6. CASE ~(j = 1 /\ two /\ ~w.isDualBlade)
  BY <1>1, <1>2, <1>4, <1>6 DEF AtMost
<1>7. QED
  BY <1>5, <1>6

\* Pointwise order of allocations.
Leq(s, t) == \A j \in Stats : s[j] <= t[j]

LEMMA ArFacts ==
  ASSUME NEW w \in Weapons, NEW i \in Elements, NEW two \in BOOLEAN,
         NEW s \in [Stats -> Int], NEW t \in [Stats -> Int], Leq(s, t)
  PROVE  Ar(w, i, s, two) \in Nat /\ Ar(w, i, s, two) <= Ar(w, i, t, two)
<1>1. /\ w.attack[i] \in Nat
      /\ w.scaling[i] \in [Stats -> Nat]
      /\ w.curve[i] \in [1..Top -> Nat]
      /\ \A m, n \in 1..Top : m <= n => w.curve[i][m] <= w.curve[i][n]
  BY WeaponAssumption
<1>2. Unit \in Nat
  BY NumbersAssumption
<1> DEFINE f == Scaled(w, i, s, two)  g == Scaled(w, i, t, two)
<1>3. ASSUME NEW j \in Stats
      PROVE  f[j] \in Nat /\ g[j] \in Nat /\ f[j] <= g[j]
  <2> DEFINE p == ReadAt(w, j, s[j], two)  q == ReadAt(w, j, t[j], two)
  <2>1. s[j] \in Int /\ t[j] \in Int /\ s[j] <= t[j]
    BY DEF Leq
  <2>2. p \in 1..Top /\ q \in 1..Top /\ p <= q
    BY <2>1, ReadAtFacts
  <2>3. f[j] = w.scaling[i][j] * w.curve[i][p] /\ g[j] = w.scaling[i][j] * w.curve[i][q]
    BY DEF Scaled
  <2> HIDE DEF f, g, p, q
  <2>4. /\ w.scaling[i][j] \in Nat /\ w.curve[i][p] \in Nat /\ w.curve[i][q] \in Nat
        /\ w.curve[i][p] <= w.curve[i][q]
    BY <1>1, <2>2
  <2> DEFINE x == w.curve[i][p]  y == w.curve[i][q]  z == w.scaling[i][j]
  <2>5. x \in Nat /\ y \in Nat /\ z \in Nat /\ x <= y /\ f[j] = z * x /\ g[j] = z * y
    BY <2>3, <2>4
  <2> HIDE DEF x, y, z
  <2>6. QED
    BY <2>5, TimesMonotone
<1>4. f = [j \in 1..5 |-> f[j]] /\ g = [j \in 1..5 |-> g[j]]
  BY DEF Scaled, Stats
<1> HIDE DEF f, g
<1>5. f \in [1..5 -> Nat] /\ g \in [1..5 -> Nat] /\ \A j \in 1..5 : f[j] <= g[j]
  BY <1>3, <1>4 DEF Stats
<1>6. Sum(f) \in Nat /\ Sum(f) <= Sum(g) /\ Sum(g) \in Nat
  BY <1>5, SumFacts
<1> DEFINE x == Unit + Sum(f)  y == Unit + Sum(g)  z == w.attack[i]
<1>7. x \in Nat /\ y \in Nat /\ x <= y /\ z \in Nat
  BY <1>1, <1>2, <1>6
<1>8. Ar(w, i, s, two) = z * x /\ Ar(w, i, t, two) = z * y
  BY DEF Ar, f, g
<1> HIDE DEF x, y, z
<1>9. QED
  BY <1>7, <1>8, TimesMonotone

-----------------------------------------------------------------------------
(* Damage *)

LEMMA DefenseFacts ==
  /\ Unit * Defense \in Nat \ {0}
  /\ MotionUnit * Unit * Defense \in Nat \ {0}
  /\ Whole(Unit * Defense) * Unit \in Nat \ {0}
  /\ Whole(MotionUnit * Unit * Defense) * MotionUnit * Unit \in Nat \ {0}
<1>1. Unit \in Nat \ {0} /\ Defense \in Nat \ {0} /\ MotionUnit \in Nat \ {0}
  BY NumbersAssumption
<1>2. \A m, n \in Nat \ {0} : m * n \in Nat \ {0}
  BY SMT
<1>3. Unit * Defense \in Nat \ {0} /\ MotionUnit * Unit * Defense \in Nat \ {0}
  BY <1>1, <1>2
<1>4. \A d \in Nat \ {0} : Whole(d) \in Nat \ {0}
  BY <1>2, 177870 \in Nat \ {0} DEF Whole, Parts
<1>5. QED
  BY <1>1, <1>2, <1>3, <1>4

\* A point more never lowers the damage of a weapon.
LEMMA DamageMonotone ==
  ASSUME NEW w \in Weapons, NEW two \in BOOLEAN,
         NEW s \in [Stats -> Int], NEW t \in [Stats -> Int], Leq(s, t)
  PROVE  Damage(w, s, two) \in Nat /\ Damage(w, s, two) <= Damage(w, t, two)
<1> DEFINE d == Unit * Defense
           f == [i \in Elements |-> Through(Ar(w, i, s, two), d)]
           g == [i \in Elements |-> Through(Ar(w, i, t, two), d)]
           k == Whole(d) * Unit
<1>1. d \in Nat \ {0} /\ k \in Nat \ {0}
  BY DefenseFacts
<1>2. Leq(t, t)
  BY DEF Leq
<1>3. ASSUME NEW i \in Elements
      PROVE  f[i] \in Nat /\ g[i] \in Nat /\ f[i] <= g[i]
  <2>1. /\ Ar(w, i, s, two) \in Nat /\ Ar(w, i, t, two) \in Nat
        /\ Ar(w, i, s, two) <= Ar(w, i, t, two)
    BY <1>2, ArFacts
  <2> HIDE DEF d
  <2>2. QED
    BY <1>1, <2>1, ThroughFacts
<1>4. f \in [1..5 -> Nat] /\ g \in [1..5 -> Nat] /\ \A i \in 1..5 : f[i] <= g[i]
  BY <1>3 DEF Elements
<1>5. Sum(f) \in Nat /\ Sum(g) \in Nat /\ Sum(f) <= Sum(g)
  <2> HIDE DEF f, g
  <2>1. QED
    BY <1>4, SumFacts
<1>6. Damage(w, s, two) = Sum(f) \div k /\ Damage(w, t, two) = Sum(g) \div k
  BY DEF Damage
<1> HIDE DEF f, g, k
<1>7. QED
  BY <1>1, <1>5, <1>6, Division, DivisionMonotone

\* Nor the damage of a spell.
LEMMA SpellDamageMonotone ==
  ASSUME NEW w \in Weapons, NEW mv \in Motions,
         NEW s \in [Stats -> Int], NEW t \in [Stats -> Int], Leq(s, t)
  PROVE  SpellDamage(w, s, mv) <= SpellDamage(w, t, mv)
<1> DEFINE d == MotionUnit * Unit * Defense
           f == [i \in Elements |-> Through(mv[i] * Ar(w, i, s, FALSE), d)]
           g == [i \in Elements |-> Through(mv[i] * Ar(w, i, t, FALSE), d)]
           k == Whole(d) * MotionUnit * Unit
<1>1. d \in Nat \ {0} /\ k \in Nat \ {0}
  BY DefenseFacts
<1>2. Leq(t, t)
  BY DEF Leq
<1>3. ASSUME NEW i \in Elements
      PROVE  f[i] \in Nat /\ g[i] \in Nat /\ f[i] <= g[i]
  <2> DEFINE x == Ar(w, i, s, FALSE)  y == Ar(w, i, t, FALSE)
  <2>1. x \in Nat /\ y \in Nat /\ x <= y
    BY <1>2, ArFacts
  <2>2. mv[i] \in Nat
    BY WeaponAssumption
  <2>3. f[i] = Through(mv[i] * x, d) /\ g[i] = Through(mv[i] * y, d)
    OBVIOUS
  <2> HIDE DEF d, x, y, f, g
  <2>4. mv[i] * x \in Nat /\ mv[i] * y \in Nat /\ mv[i] * x <= mv[i] * y
    BY <2>1, <2>2, TimesMonotone
  <2>5. QED
    BY <1>1, <2>3, <2>4, ThroughFacts
<1>4. f \in [1..5 -> Nat] /\ g \in [1..5 -> Nat] /\ \A i \in 1..5 : f[i] <= g[i]
  BY <1>3 DEF Elements
<1>5. Sum(f) \in Nat /\ Sum(g) \in Nat /\ Sum(f) <= Sum(g)
  <2> HIDE DEF f, g
  <2>1. QED
    BY <1>4, SumFacts
<1>6. SpellDamage(w, s, mv) = Sum(f) \div k /\ SpellDamage(w, t, mv) = Sum(g) \div k
  BY DEF SpellDamage
<1> HIDE DEF f, g, k
<1>7. QED
  BY <1>1, <1>5, <1>6, DivisionMonotone

\* What gets through lies between a tenth and nine tenths of the attack.
LEMMA DamageBounds ==
  ASSUME NEW w \in Weapons, NEW s \in [Stats -> Int], NEW two \in BOOLEAN
  PROVE  LET total == Sum([i \in Elements |-> Ar(w, i, s, two)])
             damage == Damage(w, s, two)
         IN /\ 10 * Unit * damage <= 9 * total
            /\ total < 10 * Unit * (damage + 1)
<1> DEFINE d == Unit * Defense
           D == d * d
           ar == [i \in Elements |-> Ar(w, i, s, two)]
           f == [i \in Elements |-> Through(Ar(w, i, s, two), d)]
           low == [i \in Elements |-> (17787 * D) * ar[i]]
           high == [i \in Elements |-> (160083 * D) * ar[i]]
           total == Sum(ar)
           q == Damage(w, s, two)
<1>1. d \in Nat \ {0} /\ Whole(d) * Unit \in Nat \ {0} /\ Unit \in Nat \ {0}
  BY DefenseFacts, NumbersAssumption
<1>2. D \in Nat \ {0}
  <2> HIDE DEF d
  <2>1. QED
    BY <1>1, SMT
<1>3. ASSUME NEW i \in Elements
      PROVE  /\ ar[i] \in Nat /\ f[i] \in Nat /\ low[i] \in Nat /\ high[i] \in Nat
             /\ low[i] <= f[i] /\ f[i] <= high[i]
  <2> DEFINE a == Ar(w, i, s, two)
  <2>1. a \in Nat
    BY ArFacts DEF Leq
  <2>2. ar[i] = a /\ f[i] = Through(a, d) /\ low[i] = (17787 * D) * a /\ high[i] = (160083 * D) * a
    OBVIOUS
  <2> HIDE DEF a, d, ar, f, low, high
  <2>3. /\ Reduction(a, d) \in Nat
        /\ 17787 * D <= Reduction(a, d) /\ Reduction(a, d) <= 160083 * D
    BY <1>1, <2>1, ReductionBounds
  <2>4. 17787 * D \in Nat /\ 160083 * D \in Nat
    BY <1>2
  <2> DEFINE r == Reduction(a, d)  x == 17787 * D  y == 160083 * D
  <2>5. r \in Nat /\ x \in Nat /\ y \in Nat /\ x <= r /\ r <= y
    BY <2>3, <2>4
  <2>6. f[i] = r * a /\ low[i] = x * a /\ high[i] = y * a
    BY <2>2 DEF Through
  <2> HIDE DEF r, x, y
  <2>7. x * a <= r * a /\ r * a <= y * a /\ x * a \in Nat /\ r * a \in Nat /\ y * a \in Nat
    BY <2>1, <2>5, TimesMonotone
  <2>8. QED
    BY <2>1, <2>2, <2>6, <2>7
<1>4. /\ ar \in [1..5 -> Nat] /\ f \in [1..5 -> Nat]
      /\ low \in [1..5 -> Nat] /\ high \in [1..5 -> Nat]
  BY <1>3 DEF Elements
<1>5. /\ \A i \in 1..5 : low[i] <= f[i] /\ f[i] <= high[i]
      /\ \A i \in 1..5 : low[i] = (17787 * D) * ar[i]
      /\ \A i \in 1..5 : high[i] = (160083 * D) * ar[i]
  BY <1>3 DEF Elements
<1>6. q = Sum(f) \div (Whole(d) * Unit)
  BY DEF Damage
<1> HIDE DEF d, ar, f, low, high, q
<1>7. /\ Sum(ar) \in Nat /\ Sum(f) \in Nat
      /\ Sum(low) <= Sum(f) /\ Sum(f) <= Sum(high)
  BY <1>4, <1>5, SumFacts
<1>8. 17787 * D \in Nat /\ 160083 * D \in Nat
  BY <1>2
<1>9. Sum(low) = (17787 * D) * total /\ Sum(high) = (160083 * D) * total
  <2> HIDE DEF D
  <2>1. QED
    BY <1>4, <1>5, <1>8, SumTimes
<1>10. Whole(d) = 177870 * D
  BY <1>1, SMT DEF Whole, Parts
<1> DEFINE S == Sum(f)  k == Whole(d) * Unit
<1>11. /\ q \in Nat /\ q * k <= S /\ S < (q + 1) * k
  BY <1>1, <1>6, <1>7, Division
<1> DEFINE m == 17787 * D
<1>12. m \in Nat \ {0} /\ k = 10 * m * Unit /\ 160083 * D = 9 * m
  BY <1>1, <1>2, <1>10, SMT
<1>13. total \in Nat /\ S \in Nat /\ m * total <= S /\ S <= (9 * m) * total
  BY <1>7, <1>9, <1>12
<1>14. q * k = m * (10 * Unit * q) /\ (q + 1) * k = m * (10 * Unit * (q + 1))
  <2> HIDE DEF m, k
  <2>1. QED
    BY <1>1, <1>11, <1>12, SMT
<1>15. (9 * m) * total = m * (9 * total)
  <2> HIDE DEF m, total
  <2>1. QED
    BY <1>12, <1>13, SMT
<1> DEFINE u == 10 * Unit * q  v == 10 * Unit * (q + 1)  n == 9 * total
<1>16. u \in Int /\ v \in Int /\ n \in Int
  BY <1>1, <1>11, <1>13
<1>17. m * u \in Int /\ m * v \in Int /\ m * n \in Int /\ m * total \in Int
  <2> HIDE DEF m, u, v, n, total
  <2>1. QED
    BY <1>12, <1>13, <1>16
<1>18. m * u <= m * n /\ m * total < m * v
  <2> HIDE DEF u, v, n, S, k, m, total
  <2>1. q * k = m * u /\ (q + 1) * k = m * v /\ (9 * m) * total = m * n
    BY <1>14, <1>15 DEF u, v, n
  <2>2. m * u <= S /\ S < m * v /\ m * total <= S /\ S <= m * n
    BY <1>11, <1>13, <2>1
  <2>3. QED
    BY <1>13, <1>17, <2>2
<1>19. u <= n /\ total < v
  <2> HIDE DEF u, v, n, m, total
  <2>1. QED
    BY <1>12, <1>13, <1>16, <1>18, Cancel
<1>20. QED
  BY <1>19 DEF ar, q

-----------------------------------------------------------------------------
(* Spells *)

\* Only the ratio of attack to defense matters.
LEMMA ReductionScales ==
  ASSUME NEW m \in Nat \ {0}, NEW a \in Nat, NEW d \in Nat \ {0}
  PROVE  Reduction(m * a, m * d) = (m * m) * Reduction(a, d)
<1>1. m * a \in Nat /\ m * d \in Nat \ {0}
  BY SMT
<1> DEFINE A == m * a  D == m * d
<1>2. /\ 8 * A = m * (8 * a) /\ 2 * A = m * (2 * a)
      /\ 8 * D = m * (8 * d) /\ 5 * D = m * (5 * d)
  BY SMT
<1>3. /\ 8 * A <= D <=> 8 * a <= d
      /\ A <= D <=> a <= d
      /\ 2 * A <= 5 * D <=> 2 * a <= 5 * d
      /\ A <= 8 * D <=> a <= 8 * d
  <2>1. \A x, y \in Nat : m * x <= m * y <=> x <= y
    <3>1. TAKE x, y \in Nat
    <3>2. m * x <= m * y => x <= y
      BY Cancel
    <3>3. x <= y => m * x <= m * y
      BY TimesMonotone
    <3>4. QED
      BY <3>2, <3>3
  <2>2. 8 * a \in Nat /\ 2 * a \in Nat /\ 8 * d \in Nat /\ 5 * d \in Nat /\ d \in Nat
    OBVIOUS
  <2>3. QED
    BY <1>2, <2>1, <2>2
<1>4. ASSUME NEW x \in Int, NEW y \in Int
      PROVE  (m * x) * (m * y) = (m * m) * (x * y)
  BY SMT
<1> DEFINE M == m * m
<1>5. D * D = M * (d * d)
  BY <1>4
<1>6. /\ (8 * A - D) * (8 * A - D) = M * ((8 * a - d) * (8 * a - d))
      /\ (2 * A - 5 * D) * (2 * A - 5 * D) = M * ((2 * a - 5 * d) * (2 * a - 5 * d))
      /\ (A - 8 * D) * (A - 8 * D) = M * ((a - 8 * d) * (a - 8 * d))
  <2>1. /\ 8 * A - D = m * (8 * a - d)
        /\ 2 * A - 5 * D = m * (2 * a - 5 * d)
        /\ A - 8 * D = m * (a - 8 * d)
    BY SMT
  <2>2. 8 * a - d \in Int /\ 2 * a - 5 * d \in Int /\ a - 8 * d \in Int
    OBVIOUS
  <2> HIDE DEF A, D, M
  <2>3. QED
    BY <1>4, <2>1, <2>2 DEF M
<1> DEFINE p == d * d  q == (8 * a - d) * (8 * a - d)
           r == (2 * a - 5 * d) * (2 * a - 5 * d)  s == (a - 8 * d) * (a - 8 * d)
           P == D * D  Q == (8 * A - D) * (8 * A - D)
           R == (2 * A - 5 * D) * (2 * A - 5 * D)  S == (A - 8 * D) * (A - 8 * D)
<1>7. Reduction(a, d) = IF 8 * a <= d THEN 17787 * p
                        ELSE IF a <= d THEN 363 * (49 * p + 3 * q)
                        ELSE IF 2 * a <= 5 * d THEN 5929 * (21 * p - r)
                        ELSE IF a <= 8 * d THEN 147 * (1089 * p - 8 * s)
                        ELSE 160083 * p
  BY SMT DEF Reduction
<1>8. Reduction(A, D) = IF 8 * A <= D THEN 17787 * P
                        ELSE IF A <= D THEN 363 * (49 * P + 3 * Q)
                        ELSE IF 2 * A <= 5 * D THEN 5929 * (21 * P - R)
                        ELSE IF A <= 8 * D THEN 147 * (1089 * P - 8 * S)
                        ELSE 160083 * P
  <2> HIDE DEF A, D
  <2>1. A \in Int /\ D \in Int
    BY <1>1 DEF A, D
  <2>2. QED
    BY <2>1, SMT DEF Reduction
<1>9. P = M * p /\ Q = M * q /\ R = M * r /\ S = M * s
  BY <1>5, <1>6
<1>10. M \in Int /\ p \in Int /\ q \in Int /\ r \in Int /\ s \in Int
  BY SMT
<1> HIDE DEF M, p, q, r, s, P, Q, R, S, A, D
<1>11. /\ 17787 * P = M * (17787 * p) /\ 160083 * P = M * (160083 * p)
       /\ 363 * (49 * P + 3 * Q) = M * (363 * (49 * p + 3 * q))
       /\ 5929 * (21 * P - R) = M * (5929 * (21 * p - r))
       /\ 147 * (1089 * P - 8 * S) = M * (147 * (1089 * p - 8 * s))
  BY <1>9, <1>10, SMT
<1>12. Reduction(A, D) = M * Reduction(a, d)
  BY <1>3, <1>7, <1>8, <1>11
<1>13. QED
  BY <1>12 DEF A, D, M

LEMMA ThroughScales ==
  ASSUME NEW m \in Nat \ {0}, NEW a \in Nat, NEW d \in Nat \ {0}
  PROVE  Through(m * a, m * d) = (m * m * m) * Through(a, d)
<1>1. Through(m * a, m * d) = ((m * m) * Reduction(a, d)) * (m * a)
  BY ReductionScales DEF Through
<1>2. Reduction(a, d) \in Nat
  BY ReductionBounds
<1> DEFINE r == Reduction(a, d)
<1> HIDE DEF r
<1>3. ((m * m) * r) * (m * a) = (m * m * m) * (r * a)
  BY <1>2, SMT DEF r
<1>4. QED
  BY <1>1, <1>3 DEF r, Through

\* A full hit with a spell: both functions do the same, as dividend and divisor
\* have the cube of MotionUnit in common.
LEMMA SpellIsDamage ==
  ASSUME NEW w \in Weapons, NEW s \in [Stats -> Int]
  PROVE  SpellDamage(w, s, [i \in Elements |-> MotionUnit]) = Damage(w, s, FALSE)
<1> DEFINE m == MotionUnit
           d == Unit * Defense
           e == MotionUnit * Unit * Defense
           C == m * m * m
           f == [i \in Elements |-> Through(Ar(w, i, s, FALSE), d)]
           mv == [i \in Elements |-> m]
           g == [i \in Elements |-> Through(mv[i] * Ar(w, i, s, FALSE), e)]
           k == Whole(d) * Unit
           l == Whole(e) * MotionUnit * Unit
<1>1. m \in Nat \ {0} /\ d \in Nat \ {0} /\ k \in Nat \ {0} /\ Unit \in Nat \ {0} /\ Defense \in Nat \ {0}
  BY DefenseFacts, NumbersAssumption
<1>2. e = m * d
  BY <1>1, SMT
<1>3. C \in Nat \ {0}
  <2>1. \A x, y \in Nat \ {0} : x * y \in Nat \ {0}
    BY SMT
  <2>2. QED
    BY <1>1, <2>1
<1>4. ASSUME NEW i \in Elements
      PROVE  f[i] \in Nat /\ g[i] = C * f[i]
  <2> DEFINE a == Ar(w, i, s, FALSE)
  <2>0. Leq(s, s) /\ FALSE \in BOOLEAN
    BY DEF Leq
  <2>1. a \in Nat
    BY <2>0, ArFacts
  <2>2. f[i] = Through(a, d) /\ g[i] = Through(m * a, e)
    OBVIOUS
  <2> HIDE DEF a, d, e, f, g, m
  <2>3. f[i] \in Nat
    BY <1>1, <2>1, <2>2, ThroughFacts
  <2>4. g[i] = (m * m * m) * f[i]
    BY <1>1, <1>2, <2>1, <2>2, ThroughScales
  <2>5. QED
    BY <2>3, <2>4
<1>5. f \in [1..5 -> Nat] /\ g = [i \in 1..5 |-> g[i]] /\ \A i \in 1..5 : g[i] = C * f[i]
  BY <1>4 DEF Elements
<1>6. g \in [1..5 -> Nat]
  <2>1. \A i \in 1..5 : C * f[i] \in Nat
    <3>1. TAKE i \in 1..5
    <3>2. f[i] \in Nat
      BY <1>5
    <3> HIDE DEF C, f
    <3>3. QED
      BY <1>3, <3>2
  <2> HIDE DEF C, f, g
  <2>2. QED
    BY <1>5, <2>1
<1>7. Sum(g) = C * Sum(f) /\ Sum(f) \in Nat
  <2> HIDE DEF f, g, C
  <2>1. QED
    BY <1>3, <1>5, <1>6, SumTimes, SumFacts
<1>8. l = C * k
  <2> HIDE DEF d, m
  <2>1. Whole(m * d) = (m * m) * Whole(d) /\ Whole(d) \in Int
    BY <1>1, SMT DEF Whole, Parts
  <2> DEFINE W == Whole(d)
  <2> HIDE DEF W
  <2>2. ((m * m) * W) * m * Unit = (m * m * m) * (W * Unit)
    BY <1>1, <2>1, SMT DEF W
  <2>3. QED
    BY <1>2, <2>1, <2>2 DEF W, m
<1>9. /\ SpellDamage(w, s, mv) = Sum(g) \div l
      /\ Damage(w, s, FALSE) = Sum(f) \div k
  BY DEF SpellDamage, Damage
<1> HIDE DEF f, g, k, l, C
<1>10. (C * Sum(f)) \div (C * k) = Sum(f) \div k
  BY <1>1, <1>3, <1>7, DivisionCancel
<1>11. QED
  BY <1>7, <1>8, <1>9, <1>10

-----------------------------------------------------------------------------
(* Theorems *)

\* Type correctness, curves read only where they are tabulated included
\* (Weapon.cpp:75-81).
THEOREM TypeCorrect == Spec => []TypeOK
<1>1. Init => TypeOK
  <2> SUFFICES ASSUME Init PROVE TypeOK
    OBVIOUS
  <2>1. weapon \in Weapons /\ motion \in Motions /\ stats \in [Stats -> Nat]
    BY DEF Init
  <2>2. QED
    BY <2>1, ReadAtFacts DEF TypeOK
<1>2. TypeOK /\ [Next]_vars => TypeOK'
  <2> SUFFICES ASSUME TypeOK, [Next]_vars PROVE TypeOK'
    OBVIOUS
  <2>1. weapon' \in Weapons /\ motion' \in Motions /\ stats' \in [Stats -> Nat]
    <3>1. CASE Next
      BY <3>1 DEF TypeOK, Next, Raise
    <3>2. CASE UNCHANGED vars
      BY <3>2 DEF TypeOK, vars
    <3>3. QED
      BY <3>1, <3>2
  <2>2. \A j \in Stats, two \in BOOLEAN : ReadAt(weapon', j, stats'[j], two) \in 1..Top
    BY <2>1, ReadAtFacts
  <2>3. QED
    BY <2>1, <2>2 DEF TypeOK
<1>3. QED
  BY <1>1, <1>2, PTL DEF Spec

\* No point more ever lowers the damage of a weapon or of a spell, so that
\* Region::upper_bound (bnb.h:21) is an upper bound.
THEOREM NeverLowersAlways == Spec => NeverLowers
<1>1. TypeOK /\ [Next]_vars =>
        [/\ \A two \in BOOLEAN : Damage(weapon, stats, two) <= Damage(weapon, stats', two)
         /\ SpellDamage(weapon, stats, motion) <= SpellDamage(weapon, stats', motion)]_vars
  <2> SUFFICES ASSUME TypeOK, Next
               PROVE  /\ \A two \in BOOLEAN :
                           Damage(weapon, stats, two) <= Damage(weapon, stats', two)
                      /\ SpellDamage(weapon, stats, motion) <= SpellDamage(weapon, stats', motion)
    BY DEF vars
  <2>1. stats \in [Stats -> Int] /\ stats' \in [Stats -> Int] /\ Leq(stats, stats')
    BY DEF TypeOK, Next, Raise, Leq
  <2>2. weapon \in Weapons /\ motion \in Motions
    BY DEF TypeOK
  <2>3. QED
    BY <2>1, <2>2, DamageMonotone, SpellDamageMonotone
<1>2. QED
  BY <1>1, TypeCorrect, PTL DEF Spec, NeverLowers

\* Between a tenth and nine tenths of the attack rating is the damage, up to
\* the truncated fraction (Weapon.cpp:92-136).
THEOREM DefenseBoundsAlways == Spec => []DefenseBounds
<1>1. TypeOK => DefenseBounds
  <2> SUFFICES ASSUME TypeOK PROVE DefenseBounds
    OBVIOUS
  <2>1. weapon \in Weapons /\ stats \in [Stats -> Int]
    BY DEF TypeOK
  <2>2. QED
    BY <2>1, DamageBounds DEF DefenseBounds, TotalAr
<1>2. QED
  BY <1>1, TypeCorrect, PTL

\* The two copies of the damage computation (Weapon.cpp:123-136, 142-158)
\* agree on a spell with full motion values.
THEOREM SpellAgreesAlways == Spec => []SpellAgrees
<1>1. TypeOK => SpellAgrees
  <2> SUFFICES ASSUME TypeOK, motion = [i \in Elements |-> MotionUnit]
               PROVE  SpellDamage(weapon, stats, motion) = Damage(weapon, stats, FALSE)
    BY DEF SpellAgrees
  <2>1. weapon \in Weapons /\ stats \in [Stats -> Int]
    BY DEF TypeOK
  <2>2. QED
    BY <2>1, SpellIsDamage
<1>2. QED
  BY <1>1, TypeCorrect, PTL
=============================================================================
