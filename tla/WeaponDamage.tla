---------------------------- MODULE WeaponDamage ----------------------------
(***************************************************************************)
(* The damage a weapon does, from Weapon.cpp: calcAR() adds to the attack  *)
(* of each element what the five stats scale it with, along saturation     *)
(* curves; calculateDefenseReduction() lets a part of it through, the      *)
(* larger the higher the attack is against the defense; calculateDamage()  *)
(* adds the elements up and drops the fraction.  calculateSpellDamage()    *)
(* does the same for a spell cast with the weapon.                         *)
(*                                                                         *)
(* The search of bnb.h takes the damage at the upper corner of a box for a *)
(* bound on the whole box.  It is one if a point more never does harm,     *)
(* which is what this module is about: a step spends one point.            *)
(*                                                                         *)
(* Attack ratings are counted in fractions of Unit, which makes the        *)
(* code's products of percentages whole numbers.                           *)
(***************************************************************************)
EXTENDS Integers

CONSTANTS
  Weapons,     \* records [attack, scaling, curve, isDualBlade]
  Motions,     \* motion values of spells, for each element
  Top,         \* the last stat a curve is tabulated for, 99 in the code
  Most,        \* bound: stats asked for in the model
  Unit,        \* parts of a point of attack
  MotionUnit,  \* the motion value of a full hit, 100 in the code
  Defense      \* of each element, 140 for every caller

Stats == 1..5      \* strength, dexterity, intelligence, faith, arcane
Elements == 1..5

ASSUME NumbersAssumption ==
  /\ Top \in Nat \ {0} /\ Most \in Nat
  /\ Unit \in Nat \ {0} /\ MotionUnit \in Nat \ {0} /\ Defense \in Nat \ {0}

\* No curve of CalcCorrectGraphEZPreCalc.csv falls, no attack, scaling or
\* motion value in the tables is negative.
ASSUME WeaponAssumption ==
  /\ \A w \in Weapons :
       /\ w.attack \in [Elements -> Nat]
       /\ w.scaling \in [Elements -> [Stats -> Nat]]
       /\ w.curve \in [Elements -> [1..Top -> Nat]]
       /\ \A i \in Elements : \A m, n \in 1..Top : m <= n => w.curve[i][m] <= w.curve[i][n]
       /\ w.isDualBlade \in BOOLEAN
  /\ Motions \subseteq [Elements -> Nat]

VARIABLES weapon, motion, stats
vars == <<weapon, motion, stats>>

Sum(f) == f[1] + f[2] + f[3] + f[4] + f[5]

-----------------------------------------------------------------------------
(* calcAR *)

AtMost(n) == IF n < Top THEN n ELSE Top
Clamp(n) == IF n < 1 THEN 1 ELSE AtMost(n)

\* Mutant: strength in two hands is not cut off at the end of the curve.
ReadAtUncut(w, j, n, isTwoHanded) ==
  IF j = 1 /\ isTwoHanded /\ ~w.isDualBlade THEN (3 * Clamp(n)) \div 2 ELSE Clamp(n)

\* Where the curve is read.  Two hands are worth half again the strength.
ReadAt(w, j, n, isTwoHanded) ==
  AtMost(IF j = 1 /\ isTwoHanded /\ ~w.isDualBlade THEN (3 * Clamp(n)) \div 2 ELSE Clamp(n))

\* A stat that does not scale the element has scaling 0.
Scaled(w, i, s, isTwoHanded) ==
  [j \in Stats |-> w.scaling[i][j] * w.curve[i][ReadAt(w, j, s[j], isTwoHanded)]]

Ar(w, i, s, isTwoHanded) == w.attack[i] * (Unit + Sum(Scaled(w, i, s, isTwoHanded)))

-----------------------------------------------------------------------------
(* calculateDefenseReduction *)

\* A common denominator of the five pieces, in which they are whole numbers.
Parts == 177870
Whole(d) == Parts * d * d

\* Mutant: 0.7 where the fourth piece has 0.9.
ReductionSunk(a, d) ==
  IF 8 * a <= d THEN 17787 * d * d
  ELSE IF a <= d THEN 363 * (49 * d * d + 3 * (8 * a - d) * (8 * a - d))
  ELSE IF 2 * a <= 5 * d THEN 5929 * (21 * d * d - (2 * a - 5 * d) * (2 * a - 5 * d))
  ELSE IF a <= 8 * d THEN 147 * (847 * d * d - 8 * (a - 8 * d) * (a - 8 * d))
  ELSE 160083 * d * d

\* The part of Whole(d) that gets through when attack is to defense as a to d:
\* 1/10 up to 1/8, then 0.1 + 19.2/49 (r - 1/8)^2 up to 1,
\* 0.7 - 0.4/3 (r - 2.5)^2 up to 2.5, 0.9 - 0.8/121 (r - 8)^2 up to 8, 9/10.
Reduction(a, d) ==
  IF 8 * a <= d THEN 17787 * d * d
  ELSE IF a <= d THEN 363 * (49 * d * d + 3 * (8 * a - d) * (8 * a - d))
  ELSE IF 2 * a <= 5 * d THEN 5929 * (21 * d * d - (2 * a - 5 * d) * (2 * a - 5 * d))
  ELSE IF a <= 8 * d THEN 147 * (1089 * d * d - 8 * (a - 8 * d) * (a - 8 * d))
  ELSE 160083 * d * d

-----------------------------------------------------------------------------
(* calculateDamage and calculateSpellDamage *)

Through(a, d) == Reduction(a, d) * a

Damage(w, s, isTwoHanded) ==
  LET d == Unit * Defense
  IN Sum([i \in Elements |-> Through(Ar(w, i, s, isTwoHanded), d)]) \div (Whole(d) * Unit)

\* Never two handed.
SpellDamage(w, s, mv) ==
  LET d == MotionUnit * Unit * Defense
  IN Sum([i \in Elements |-> Through(mv[i] * Ar(w, i, s, FALSE), d)])
       \div (Whole(d) * MotionUnit * Unit)

-----------------------------------------------------------------------------
Init == /\ weapon \in Weapons /\ motion \in Motions
        /\ stats = [j \in Stats |-> 0]

\* One more point for stat j.
Raise(j) == /\ stats[j] < Most
            /\ stats' = [stats EXCEPT ![j] = @ + 1]
            /\ UNCHANGED <<weapon, motion>>

Next == \E j \in Stats : Raise(j)

Spec == Init /\ [][Next]_vars

-----------------------------------------------------------------------------
(* Properties *)

\* Type invariant; a curve is read only where it is tabulated, whatever the
\* stat and the grip (the code indexes saturationIndex unchecked).
TypeOK ==
  /\ weapon \in Weapons /\ motion \in Motions /\ stats \in [Stats -> Nat]
  /\ \A j \in Stats, two \in BOOLEAN : ReadAt(weapon, j, stats[j], two) \in 1..Top

\* A point more never lowers the damage of the weapon, in one or two hands,
\* or of a spell cast with it: across the pieces of the reduction, the curves
\* and the truncations.  The upper corner of a region bounds the region.
NeverLowers ==
  [][/\ \A two \in BOOLEAN : Damage(weapon, stats, two) <= Damage(weapon, stats', two)
     /\ SpellDamage(weapon, stats, motion) <= SpellDamage(weapon, stats', motion)]_vars

TotalAr(two) == Sum([i \in Elements |-> Ar(weapon, i, stats, two)])

\* Between a tenth and nine tenths of the attack gets through, but for the
\* fraction that is dropped.
DefenseBounds ==
  \A two \in BOOLEAN :
    LET damage == Damage(weapon, stats, two)
    IN /\ 10 * Unit * damage <= 9 * TotalAr(two)
       /\ TotalAr(two) < 10 * Unit * (damage + 1)

\* A spell with full motion values does what the weapon does in one hand:
\* the two functions differ in nothing else.
SpellAgrees ==
  motion = [i \in Elements |-> MotionUnit] =>
    SpellDamage(weapon, stats, motion) = Damage(weapon, stats, FALSE)
=============================================================================
