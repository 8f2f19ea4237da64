---------------------------- MODULE NegationCache ----------------------------
(***************************************************************************)
(* bestEffectiveHP (loadCharacter.cpp) and its cache of armour negations.  *)
(*                                                                         *)
(* A call tries every split of its points: i points to vigor, the rest to  *)
(* endurance.  The best negation for an equip load takes an optimizer run, *)
(* so each class has a vector of those found so far, with and without the  *)
(* Great-Jar talisman.  The vector is indexed by i alone, although the     *)
(* endurance left over also depends on the points of the call.  The mutex  *)
(* guards each lookup and the final store, not the call.                   *)
(*                                                                         *)
(* A negation is represented by the endurance it was optimized for.        *)
(***************************************************************************)
EXTENDS Integers, Sequences

CONSTANTS
  Procs,       \* the threads that call bestEffectiveHP
  Main,        \* the thread of writeTrainingData, which warms the caches
  Keys,        \* (class, Great-Jar or not): one vector each
  Endurance,   \* base endurance of the class of a key
  MaxStat,     \* the last value of a stat (99)
  WarmLevel,   \* the level writeTrainingData warms the caches for
  Levels       \* the levels of the builds

ASSUME KeysAssumption ==
  Endurance \in [Keys -> Nat] /\ MaxStat \in Nat /\ 1 <= MaxStat
ASSUME MainAssumption == Main \in Procs
ASSUME LevelsAssumption ==
  /\ WarmLevel \in Nat /\ 1 <= WarmLevel
  /\ Levels \subseteq Nat
  /\ \A level \in Levels : 1 <= level

AllLevels == Levels \cup {WarmLevel}

\* The endurance of a character who gives i of its points to vigor.
EndIndex(k, points, i) ==
  LET e == points - i + Endurance[k]
  IN IF e < 1 THEN 1 ELSE IF e > MaxStat THEN MaxStat ELSE e

\* The negations of a call that computes all of them, in the order of i.
Fresh(k, points) == [n \in 1..points |-> EndIndex(k, points, n - 1)]

VARIABLES
  cache,      \* the vectors; << >> for a class not seen yet
  busy,       \* is the thread inside a call
  key,        \* arguments of its current or last call
  points,
  negations,  \* the negations of the splits tried so far, in order
  larger,     \* did it run the optimizer
  cold        \* keys writeTrainingData has still to warm
vars == <<cache, busy, key, points, negations, larger, cold>>

Init == /\ cache = [k \in Keys |-> << >>]
        /\ busy = [p \in Procs |-> FALSE]
        /\ key \in [Procs -> Keys]
        /\ points = [p \in Procs |-> WarmLevel]
        /\ negations = [p \in Procs |-> << >>]
        /\ larger = [p \in Procs |-> FALSE]
        /\ cold = Keys

Enter(p, k, n) == /\ ~busy[p]
                  /\ busy' = [busy EXCEPT ![p] = TRUE]
                  /\ key' = [key EXCEPT ![p] = k]
                  /\ points' = [points EXCEPT ![p] = n]
                  /\ negations' = [negations EXCEPT ![p] = << >>]
                  /\ larger' = [larger EXCEPT ![p] = FALSE]
                  /\ UNCHANGED cache

\* The main thread calls for one class after the other.
Warm(k) == /\ k \in cold
           /\ Enter(Main, k, WarmLevel)
           /\ cold' = cold \ {k}

Warmed == cold = {} /\ ~busy[Main]

\* Mutant: the threads start before the caches are warm.
CallCold(p, k, n) == /\ p # Main
                     /\ Enter(p, k, n)
                     /\ UNCHANGED cold

\* A training thread calls for a build of its own level.
Call(p, k, n) == /\ Warmed
                 /\ p # Main
                 /\ Enter(p, k, n)
                 /\ UNCHANGED cold

Trying(p) == busy[p] /\ Len(negations[p]) < points[p]

\* Is there a negation at the next index.
Cached(p) == Len(negations[p]) < Len(cache[key[p]])

\* Mutant: the last entry is served whatever the index.
HitLast(p) == /\ Trying(p)
              /\ Cached(p)
              /\ negations' = [negations EXCEPT ![p] =
                   Append(@, cache[key[p]][Len(cache[key[p]])])]
              /\ UNCHANGED <<cache, busy, key, points, larger, cold>>

\* The lookup, under the lock, finds one.
Hit(p) == /\ Trying(p)
          /\ Cached(p)
          /\ negations' = [negations EXCEPT ![p] =
               Append(@, cache[key[p]][Len(@) + 1])]
          /\ UNCHANGED <<cache, busy, key, points, larger, cold>>

\* It finds none: bestNegations runs, outside the lock.
Miss(p) == /\ Trying(p)
           /\ ~Cached(p)
           /\ larger' = [larger EXCEPT ![p] = TRUE]
           /\ negations' = [negations EXCEPT ![p] =
                Append(@, EndIndex(key[p], points[p], Len(@)))]
           /\ UNCHANGED <<cache, busy, key, points, cold>>

Tried(p) == busy[p] /\ Len(negations[p]) = points[p]

\* Mutant: the vector is stored whether or not it grew.
StoreAlways(p) == /\ Tried(p)
                  /\ cache' = [cache EXCEPT ![key[p]] = negations[p]]
                  /\ busy' = [busy EXCEPT ![p] = FALSE]
                  /\ UNCHANGED <<key, points, negations, larger, cold>>

\* Mutant: the negations are added to the vector instead of replacing it.
StoreAppends(p) ==
  /\ Tried(p)
  /\ cache' = IF larger[p]
              THEN [cache EXCEPT ![key[p]] = @ \o negations[p]]
              ELSE cache
  /\ busy' = [busy EXCEPT ![p] = FALSE]
  /\ UNCHANGED <<key, points, negations, larger, cold>>

\* The vector is stored if the optimizer ran, over whatever is there now,
\* and the call returns the best of the splits it tried.
Store(p) == /\ Tried(p)
            /\ cache' = IF larger[p] \/ cache[key[p]] = << >>
                        THEN [cache EXCEPT ![key[p]] = negations[p]]
                        ELSE cache
            /\ busy' = [busy EXCEPT ![p] = FALSE]
            /\ UNCHANGED <<key, points, negations, larger, cold>>

Step(p) == Hit(p) \/ Miss(p) \/ Store(p)

Next == \/ \E k \in Keys : Warm(k)
        \/ \E p \in Procs : \/ Step(p)
                            \/ \E k \in Keys, n \in Levels : Call(p, k, n)

Spec == Init /\ [][Next]_vars

-----------------------------------------------------------------------------
(* Properties *)

\* Type invariant.  A vector is as long as the points of some call.
TypeOK == /\ cache \in [Keys -> Seq(1..MaxStat)]
          /\ \A k \in Keys : Len(cache[k]) \in AllLevels \cup {0}
          /\ busy \in [Procs -> BOOLEAN]
          /\ key \in [Procs -> Keys]
          /\ points \in [Procs -> AllLevels]
          /\ negations \in [Procs -> Seq(1..MaxStat)]
          /\ larger \in [Procs -> BOOLEAN]
          /\ cold \subseteq Keys

\* What a vector holds at an index was computed for that split by a call of
\* some level that has it: threads that overwrite each other's vectors do not
\* shift or mix up the entries.
Provenance ==
  \A k \in Keys : \A n \in 1..Len(cache[k]) :
    \E level \in AllLevels :
      n <= level /\ cache[k][n] = EndIndex(k, level, n - 1)

IsWarm(k) == k \notin cold /\ ~(busy[Main] /\ key[Main] = k)

\* Once writeTrainingData has warmed a class, the entries it computed stay as
\* they are, though calls of higher levels replace the whole vector, and may
\* replace a longer one by a shorter one.
Pinned ==
  \A k \in Keys : IsWarm(k) =>
    /\ WarmLevel <= Len(cache[k])
    /\ \A n \in 1..WarmLevel : cache[k][n] = EndIndex(k, WarmLevel, n - 1)

\* The warming is worth it: no later call of the same or a lower level runs
\* the optimizer, or stores anything.
Spared == \A p \in Procs \ {Main} : larger[p] => points[p] > WarmLevel

\* The training data can be reproduced: what a thread computes for a build up
\* to the warmed level does not depend on the other threads.
Reproducible ==
  \A p \in Procs \ {Main} :
    points[p] <= WarmLevel =>
      \A n \in 1..Len(negations[p]) :
        negations[p][n] = EndIndex(key[p], WarmLevel, n - 1)

\* loadCharacter.cpp:281: "Calculates the best effective HP value by testing
\* every possible combination of vigor and endurance values."  Every
\* combination a call tries spends the points of that call.
OwnCombinations ==
  \A p \in Procs : \A n \in 1..Len(negations[p]) :
    negations[p][n] = EndIndex(key[p], points[p], n - 1)
=============================================================================
