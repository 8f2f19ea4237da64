--------------------------- MODULE StartingClasses ---------------------------
(***************************************************************************)
(* rescaleClasses(): every starting class is projected on the plane of the *)
(* classes with the same number of points (project()), cut to integers,    *)
(* and the points this loses go, one each, to the stats that lost most.    *)
(*                                                                         *)
(* The projection moves all stats by the same fraction, so that all lose   *)
(* the same, and an exact integer may be computed as the double just       *)
(* below: the rounding of the doubles decides who gets a point.  project() *)
(* also clamps stats below 1, which no class of the program has            *)
(* (ClassAssumption).                                                      *)
(***************************************************************************)
EXTENDS Integers, Sequences, FiniteSets, Functions

CONSTANTS
  Classes,     \* starting classes as in the game: sequences of stats
  ClassPoints  \* STARTING_CLASS_STAT_POINTS

\* What project() makes of stat k is Projected(c, k) / Len(c).
Projected(c, k) == Len(c) * c[k] + ClassPoints - SumFunction(c)

ASSUME ClassAssumption ==
  /\ ClassPoints \in Nat
  /\ \A c \in Classes : /\ c \in Seq(Nat) /\ Len(c) >= 3
                        /\ \A k \in DOMAIN c : Projected(c, k) >= Len(c)

\* Stats whose projection is an integer.
Exact(c) == {k \in DOMAIN c : Projected(c, k) % Len(c) = 0}

\* static_cast<int> of doubles that may lie just below an integer.
Cuts(c) ==
  {[k \in DOMAIN c |-> Projected(c, k) \div Len(c) - (IF k \in low THEN 1 ELSE 0)] :
     low \in SUBSET Exact(c)}

\* What stat k lost, in parts of a point.
Lost(c, t, k) == Projected(c, k) - Len(c) * t[k]

\* Mutant: one point is given back, however many are missing.
RaisedOnce(c, t) ==
  {up \in SUBSET DOMAIN c :
     /\ Cardinality(up) = IF SumFunction(t) < ClassPoints THEN 1 ELSE 0
     /\ \A k \in up, l \in DOMAIN c \ up : Lost(c, t, k) >= Lost(c, t, l)}

\* Mutant: points go to the stats that lost least.
RaisedLeast(c, t) ==
  {up \in SUBSET DOMAIN c :
     /\ Cardinality(up) = ClassPoints - SumFunction(t)
     /\ \A k \in up, l \in DOMAIN c \ up : Lost(c, t, k) <= Lost(c, t, l)}

\* The stats the loop over remainder raises, in any order of equals.
Raised(c, t) ==
  {up \in SUBSET DOMAIN c :
     /\ Cardinality(up) = ClassPoints - SumFunction(t)
     /\ \A k \in up, l \in DOMAIN c \ up : Lost(c, t, k) >= Lost(c, t, l)}

Plus(t, up) == [k \in DOMAIN t |-> IF k \in up THEN t[k] + 1 ELSE t[k]]

\* What rescaleClasses may make of a class.
Rescalings(c) == UNION {{Plus(t, up) : up \in Raised(c, t)} : t \in Cuts(c)}
=============================================================================
