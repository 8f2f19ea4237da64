----------------------------- MODULE DamageStats -----------------------------
(***************************************************************************)
(* How points are shared out among the five damage stats: the end of       *)
(* damageStatAllocation, which follows a direction found by an SVD, and    *)
(* its copy in Predict::operator(), which stretches a row of the Database. *)
(* Both round down and then give the points left over to the stats with    *)
(* the largest fractions.                                                  *)
(*                                                                         *)
(* A direction is represented by whole numbers in its proportions, and the *)
(* fraction of a share by its numerator over the sum of the direction.     *)
(***************************************************************************)
EXTENDS Integers, Sequences

CONSTANTS
  Directions,  \* first left singular vectors, up to scale
  Points,      \* damage points to share out
  DbRows,      \* DbRows[n]: what row n - 1 of a weapon's file may hold
  Callers      \* which of the two functions run

Stats == 1..5
Total(v) == v[1] + v[2] + v[3] + v[4] + v[5]
Vectors == [Stats -> Nat]

\* A row affords its budget, as BranchBound's answers do, and may underspend.
ASSUME InputAssumption ==
  /\ Points \subseteq Nat
  /\ Callers \subseteq {"damageStatAllocation", "Predict"}
  /\ Directions \subseteq {v \in Vectors : Total(v) > 0}
  /\ DbRows \in Seq(SUBSET Vectors)
  /\ 1 <= Len(DbRows)
  /\ \A n \in 1..Len(DbRows) : \A v \in DbRows[n] : Total(v) <= 5 * n

\* The index both functions compute.  The points are divided by 5 as
\* integers, so that modf finds no remainder and nothing is rounded up; the
\* quotient is divided by 5 once more; the cast truncates towards zero.
RowIndex(points) ==
  LET fifth == points \div 5
  IN IF fifth < 5 THEN IF fifth = 0 THEN -1 ELSE 0
     ELSE fifth \div 5 - 1

Squares(v) == [i \in Stats |-> v[i] * v[i]]

\* Components below 0.1 of the unit vector count as zero.
Trim(dir) == [i \in Stats |->
  IF 100 * Squares(dir)[i] < Total(Squares(dir)) THEN 0 ELSE dir[i]]

VARIABLES
  pc,
  caller,
  points,  \* damage points of this call
  dir,     \* the direction, trimmed; in Predict the row
  index,   \* the row looked up
  whole,   \* points given to each stat
  frac,    \* numerator of each fraction, over Total(dir)
  rest     \* points left over
vars == <<pc, caller, points, dir, index, whole, frac, rest>>

Zero == [i \in Stats |-> 0]

Init == /\ pc = "idle"
        /\ caller \in Callers
        /\ points \in Points
        /\ dir = Zero /\ whole = Zero /\ frac = Zero
        /\ index = 0 /\ rest = 0

\* Mutant: shares are rounded up.
CutsUp(share, total) == {<<(share + total - 1) \div total, 0>>}

\* Whole part and fraction of a share.  Rounding can push a share that is a
\* whole number just below it: then the fraction is as good as 1.
Cuts(share, total) ==
  {<<share \div total, share % total>>}
    \cup {<<q - 1, total>> : q \in {n \in {share \div total} : n > 0 /\ n * total = share}}

\* damageStatAllocation: shares in the proportions of the direction.
Share ==
  /\ pc = "idle"
  /\ caller = "damageStatAllocation"
  /\ index' = RowIndex(points)
  /\ \E d \in Directions :
       /\ dir' = Trim(d)
       /\ \E cut \in [Stats -> UNION {Cuts(points * dir'[i], Total(dir')) : i \in Stats}] :
            /\ \A i \in Stats : cut[i] \in Cuts(points * dir'[i], Total(dir'))
            /\ whole' = [i \in Stats |-> cut[i][1]]
            /\ frac' = [i \in Stats |-> cut[i][2]]
  /\ rest' = points - Total(whole')
  /\ pc' = "round"
  /\ UNCHANGED <<caller, points>>

\* For fewer than 5 points there is no row -1: what is read there may end the
\* program, or be taken for a row.
Crash == /\ pc = "idle"
         /\ caller = "damageStatAllocation"
         /\ RowIndex(points) < 0
         /\ pc' = "crashed"
         /\ UNCHANGED <<caller, points, dir, index, whole, frac, rest>>

\* Predict: the row, times points / sum.  Both are ints: so is the factor,
\* and no share has a fraction.
Stretch ==
  LET i == IF RowIndex(points) < 0 THEN 0 ELSE RowIndex(points)
      alpha == points \div (5 * (i + 1))
  IN /\ pc = "idle"
     /\ caller = "Predict"
     /\ index' = IF i >= Len(DbRows) THEN Len(DbRows) - 1 ELSE i
     /\ dir' \in DbRows[index' + 1]
     /\ whole' = [n \in Stats |-> alpha * dir'[n]]
     /\ frac' = Zero
     /\ rest' = points - Total(whole')
     /\ pc' = "round"
     /\ UNCHANGED <<caller, points>>

\* The first of the largest fractions.
Biggest(i) == \A j \in Stats : frac[j] < frac[i] \/ (frac[j] = frac[i] /\ i <= j)

\* Mutant: the fraction is not set to zero.
RoundUpAgain ==
  /\ pc = "round" /\ rest > 0
  /\ \E i \in Stats : /\ Biggest(i)
                      /\ whole' = [whole EXCEPT ![i] = @ + 1]
  /\ rest' = rest - 1
  /\ UNCHANGED <<pc, caller, points, dir, index, frac>>

\* Mutant: the stats are taken in order.
RoundUpInOrder ==
  /\ pc = "round" /\ rest > 0
  /\ \E i \in Stats : /\ frac[i] > 0 /\ \A j \in Stats : j < i => frac[j] = 0
                      /\ whole' = [whole EXCEPT ![i] = @ + 1]
                      /\ frac' = [frac EXCEPT ![i] = 0]
  /\ rest' = rest - 1
  /\ UNCHANGED <<pc, caller, points, dir, index>>

\* One point for the stat with the largest fraction, which then counts as 0.
RoundUp ==
  /\ pc = "round" /\ rest > 0
  /\ \E i \in Stats : /\ Biggest(i)
                      /\ whole' = [whole EXCEPT ![i] = @ + 1]
                      /\ frac' = [frac EXCEPT ![i] = 0]
  /\ rest' = rest - 1
  /\ UNCHANGED <<pc, caller, points, dir, index>>

\* Mutant: the loop stops with a point left.
ReturnEarly == /\ pc = "round" /\ rest <= 1
               /\ pc' = "done"
               /\ UNCHANGED <<caller, points, dir, index, whole, frac, rest>>

Return == /\ pc = "round" /\ rest <= 0
          /\ pc' = "done"
          /\ UNCHANGED <<caller, points, dir, index, whole, frac, rest>>

Next == Share \/ Crash \/ Stretch \/ RoundUp \/ Return

Spec == Init /\ [][Next]_vars

-----------------------------------------------------------------------------
(* Properties *)

\* Type invariant.
TypeOK == /\ pc \in {"idle", "round", "done", "crashed"}
          /\ caller \in Callers
          /\ points \in Points
          /\ dir \in Vectors /\ whole \in Vectors /\ frac \in Vectors
          /\ index \in -1..(5 + points)
          /\ rest \in 0..points

\* All points are given out, no more and no fewer, whatever the rounding.
SumExact == pc = "done" => Total(whole) = points

\* In damageStatAllocation no stat ends a whole point or more off its share:
\* the leftover points go to different stats, and none to a stat whose
\* component was trimmed.  Of the copy in Predict it is false, and not claimed:
\* 55 points on the row <<0, 2, 8, 0, 0>> are shared as <<5, 10, 40, 0, 0>>.
Quota == pc = "done" /\ caller = "damageStatAllocation" =>
           \A i \in Stats :
             /\ whole[i] * Total(dir) < points * dir[i] + Total(dir)
             /\ points * dir[i] < whole[i] * Total(dir) + Total(dir)
             /\ dir[i] = 0 => whole[i] = 0

\* In damageStatAllocation whoever is rounded up has no smaller fraction than
\* whoever is not.  The copy in Predict has no fractions to compare: its factor is an
\* int, and the first stat gets all the points left over.
LargestFirst ==
  pc = "done" /\ caller = "damageStatAllocation" =>
    \A i, j \in Stats :
      whole[i] * Total(dir) > points * dir[i] /\ whole[j] * Total(dir) < points * dir[j]
        => (points * dir[j]) % Total(dir) <= (points * dir[i]) % Total(dir)

\* loadCharacter.cpp:655: "uses the values for the most stat points we could
\* possibly allocate to it."  Row n holds the optimum for 5 (n + 1) points.
MostPoints ==
  pc = "round" /\ caller = "damageStatAllocation" /\ points >= 5 =>
    5 * (index + 1) > points - 5
=============================================================================
