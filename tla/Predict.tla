------------------------------- MODULE Predict -------------------------------
(***************************************************************************)
(* Recommending builds: createBuilds walks a grid that splits the points   *)
(* of a level between damage, effective health and mind, effectiveHealth   *)
(* splits the second part between vigor and endurance for each poise       *)
(* breakpoint, a model rates every build, a heap keeps the best, and the   *)
(* stats to invest are read back from the ratios the model was shown.      *)
(* rankBuilds and Predict::operator() share all of it; Predict gives up    *)
(* when it meets a build with all points in damage.  exponentialDecay(),   *)
(* which makes the rows the model is trained on, walks the same grid: a    *)
(* build is a row if it is not too far below what the character has.       *)
(*                                                                         *)
(* Ratios are compared and read back only after multiplication with what   *)
(* they were divided by, and rounding: they stand here undivided.  1/(1-n) *)
(* for a negation n is the whole number Guard.  Sharing the damage points  *)
(* among the five stats is module DamageStats.                             *)
(***************************************************************************)
EXTENDS StartingClasses

CONSTANTS
  Requests,  \* records [level, stride, numBuilds]
  Callers,   \* "rankBuilds", "Predict" and "exponentialDecay"
  Owns,      \* what a character of the archive has: records
             \* [damage, mind, vigor, endurance, ehp, poise]
  Top,       \* the highest value of a stat, 99 in the code
  Hp,        \* hit points for each value of vigor
  Guard,     \* what the armor a value of endurance carries makes of them
  Poise,     \* its poise
  Fp,        \* focus points for each value of mind
  Breaks,    \* the poise breakpoints
  Scores     \* ratings a model may give

Stat == 1..Top
Limit(n, top) == IF n > top THEN top ELSE n

ASSUME RequestAssumption ==
  /\ \A r \in Requests : r.level \in Nat /\ r.stride \in Nat \ {0} /\ r.numBuilds \in Nat \ {0}
  /\ Callers \subseteq {"rankBuilds", "Predict", "exponentialDecay"}
  /\ \A o \in Owns : /\ o.damage \in Nat /\ o.mind \in Nat /\ o.vigor \in Nat
                     /\ o.endurance \in Nat /\ o.ehp \in Nat \ {0} /\ o.poise \in Nat
  /\ Scores \subseteq Int

\* As in the tables of the program's data directory.
ASSUME TableAssumption ==
  /\ Top \in Nat \ {0, 1}
  /\ \A c \in Classes : /\ c \in Seq(Stat)
                        /\ \A k \in DOMAIN c : Projected(c, k) < Len(c) * (Top - 1)
  /\ Hp \in [Stat -> Nat] /\ Guard \in [Stat -> Nat] /\ Poise \in [Stat -> Nat]
  /\ Fp \in [Stat -> Nat]
  /\ \A m, n \in Stat : m < n => Fp[m] < Fp[n]
  /\ Breaks \in Seq(Nat) /\ 1 <= Len(Breaks) /\ Breaks[1] = 0
  /\ \A i, j \in 1..Len(Breaks) : i < j => Breaks[i] < Breaks[j]

VARIABLES
  request, caller,
  own,       \* characterInput
  class,     \* its entry in starting_classes
  pc,
  cell,      \* point of the grid: points for damage and for health
  i,         \* points tried for vigor
  bests,     \* bestBreakPoints
  ehpCache,  \* results of effectiveHealth by points
  builds,    \* the builds to rate
  rating,    \* what the model says of each
  rated,     \* builds offered to the heap
  heap,      \* indices of the builds in the priority queue
  printed    \* indices of the builds recommended, in order
vars == <<request, caller, own, class, pc, cell, i, bests, ehpCache, builds, rating, rated, heap, printed>>

level == request.level

Base == [vigor |-> class[1], mind |-> class[2], endurance |-> class[3]]

-----------------------------------------------------------------------------
(* effectiveHealth *)

None == [ehp |-> -1, poise |-> -1, vigor |-> -1, endurance |-> -1]

\* v points for vigor, the others of n for endurance.
Split(v, n) ==
  LET hpIndex == Limit(v + Base.vigor, Top)
      enduranceIndex == Limit(n - v + Base.endurance, Top)
  IN [ehp |-> Hp[hpIndex] * Guard[enduranceIndex],
      poise |-> Poise[enduranceIndex],
      vigor |-> hpIndex - Base.vigor,
      endurance |-> enduranceIndex - Base.endurance]

\* The breakpoints the loop over j comes to before it breaks.
Reached(b) == {j \in 1..Len(Breaks) : \A k \in 1..j : Breaks[k] <= b.poise}

\* Mutant: a split counts only for a breakpoint it meets exactly.
ImproveExactly(b) ==
  [j \in 1..Len(Breaks) |->
     IF Breaks[j] = b.poise /\ b.ehp >= bests[j].ehp THEN b ELSE bests[j]]

Improve(b) ==
  [j \in 1..Len(Breaks) |-> IF j \in Reached(b) /\ b.ehp >= bests[j].ehp THEN b ELSE bests[j]]

\* Breakpoints out of reach are dropped from the end.
Trimmed ==
  LET kept == {j \in 1..Len(Breaks) : \E k \in j..Len(Breaks) : bests[k].ehp # -1}
  IN IF kept = {} THEN <<[None EXCEPT !.vigor = 0, !.endurance = 0]>>
     ELSE [j \in kept |-> bests[j]]

-----------------------------------------------------------------------------
(* The grid and the builds *)

Init == /\ request \in Requests /\ caller \in Callers
        /\ own \in IF caller = "exponentialDecay" THEN Owns ELSE {None}
        /\ class \in Classes
        /\ pc = "start"
        /\ cell = [damage |-> 0, health |-> 0]
        /\ i = 0
        /\ bests = << >> /\ builds = << >> /\ printed = << >>
        /\ ehpCache = [n \in {} |-> << >>]
        /\ rating = [b \in {} |-> 0]
        /\ rated = 0
        /\ heap = {}

\* rescaleClasses, with which every entry point of the program begins.
Rescale ==
  /\ pc \in {"start", "class"}
  /\ class' \in Rescalings(class)
  /\ pc' = "class"
  /\ UNCHANGED <<request, caller, own, cell, i, bests, ehpCache, builds, rating, rated, heap, printed>>

\* The first training row is the character itself.
OwnRow ==
  [ehp |-> own.ehp, poise |-> own.poise, fp |-> Fp[Limit(Base.mind + own.mind, Top)],
   damage |-> own.damage, endurance |-> Base.endurance + own.endurance,
   vigor |-> Base.vigor + own.vigor, distance |-> 0]

Begin ==
  /\ pc = "class"
  /\ builds' = IF caller = "exponentialDecay" THEN <<OwnRow>> ELSE << >>
  /\ pc' = "cell"
  /\ UNCHANGED <<request, caller, own, class, cell, i, bests, ehpCache, rating, rated, heap, printed>>

\* Mutant: the cache answers for any number of points.
LookUpAny ==
  /\ pc = "cell"
  /\ IF DOMAIN ehpCache # {}
     THEN /\ bests' = ehpCache[CHOOSE n \in DOMAIN ehpCache : TRUE]
          /\ pc' = "emit"
          /\ UNCHANGED i
     ELSE /\ bests' = [j \in 1..Len(Breaks) |-> None]
          /\ i' = 0
          /\ pc' = "split"
  /\ UNCHANGED <<request, caller, own, class, cell, ehpCache, builds, rating, rated, heap, printed>>

LookUp ==
  /\ pc = "cell"
  /\ IF cell.health \in DOMAIN ehpCache
     THEN /\ bests' = ehpCache[cell.health]
          /\ pc' = "emit"
          /\ UNCHANGED i
     ELSE /\ bests' = [j \in 1..Len(Breaks) |-> None]
          /\ i' = 0
          /\ pc' = "split"
  /\ UNCHANGED <<request, caller, own, class, cell, ehpCache, builds, rating, rated, heap, printed>>

TrySplit ==
  /\ pc = "split"
  /\ i <= cell.health
  /\ bests' = Improve(Split(i, cell.health))
  /\ i' = i + 1
  /\ UNCHANGED <<request, caller, own, class, pc, cell, ehpCache, builds, rating, rated, heap, printed>>

Remember ==
  /\ pc = "split"
  /\ i > cell.health
  /\ bests' = Trimmed
  /\ ehpCache' = [n \in DOMAIN ehpCache \cup {cell.health} |->
                    IF n = cell.health THEN bests' ELSE ehpCache[n]]
  /\ pc' = "emit"
  /\ UNCHANGED <<request, caller, own, class, cell, i, builds, rating, rated, heap, printed>>

\* Mutant: one point more for mind.
FpOfNext(z) == Fp[Limit(Base.mind + z + 1, Top - 1)]

\* Mind's last value is never offered.  Rows have one less than builds.
FpOf(z) ==
  IF caller = "exponentialDecay"
  THEN Fp[IF Base.mind + z - 1 < 1 THEN 1 ELSE Limit(Base.mind + z - 1, Top - 1)]
  ELSE Fp[Limit(Base.mind + z, Top - 1)]

\* getPoiseTier
Tier(poise) == Cardinality(Reached([poise |-> poise]))

Below(n, goal) == IF n < goal THEN goal - n ELSE 0

\* Mutant: the difference of the poise tiers counts in either direction.
DistanceTiers(b, c, z) ==
  own.ehp * (Below(c.damage, own.damage) + 10 * Below(Tier(b.poise), Tier(own.poise))
               + 10 * Below(Tier(own.poise), Tier(b.poise)) + 5 * Below(z, own.mind))
    + 500 * Below(b.ehp, own.ehp)

\* How far below the character a build is, in parts of own.ehp.
Distance(b, c, z) ==
  own.ehp * (Below(c.damage, own.damage) + 10 * Below(Tier(b.poise), Tier(own.poise))
               + 5 * Below(z, own.mind))
    + 500 * Below(b.ehp, own.ehp)

\* Rows have the score exp(-distance / 100), which has to exceed 0.3.
Near(b) == 1000 * b.distance < 120397 * own.ehp

\* The points that are left for mind.
Rest(c) == level - c.damage - c.health

\* One build per breakpoint.
Offered(c, bs) ==
  [j \in 1..Len(bs) |->
     [ehp |-> bs[j].ehp, poise |-> bs[j].poise, fp |-> FpOf(Rest(c)), damage |-> c.damage,
      endurance |-> bs[j].endurance, vigor |-> bs[j].vigor,
      distance |-> IF caller = "exponentialDecay" THEN Distance(bs[j], c, Rest(c)) ELSE 0]]

\* Of the rows offered, those that are near enough are added.
Joined(rows, offers) ==
  LET f[n \in 0..Len(offers)] ==
        IF n = 0 THEN rows ELSE IF Near(offers[n]) THEN Append(f[n - 1], offers[n]) ELSE f[n - 1]
  IN f[Len(offers)]

\* The next point of the grid in the order of gridGenerator.
LastInRow == cell.damage + cell.health + request.stride > level
LastRow == cell.damage + request.stride > level

Emit ==
  /\ pc = "emit"
  /\ builds' = IF caller = "exponentialDecay" THEN Joined(builds, Offered(cell, bests))
               ELSE builds \o Offered(cell, bests)
  /\ IF LastInRow /\ LastRow
     THEN /\ pc' = IF caller = "exponentialDecay" THEN "rows" ELSE "rate"
          /\ UNCHANGED cell
     ELSE /\ pc' = "cell"
          /\ cell' = IF LastInRow
                     THEN [damage |-> cell.damage + request.stride, health |-> 0]
                     ELSE [cell EXCEPT !.health = @ + request.stride]
  /\ UNCHANGED <<request, caller, own, class, i, bests, ehpCache, rating, rated, heap, printed>>

-----------------------------------------------------------------------------
(* Rating and ranking *)

\* session.Run: a function of the build, whatever function was learnt.
Rate ==
  /\ pc = "rate"
  /\ rating' \in [{builds[n] : n \in 1..Len(builds)} -> Scores]
  /\ pc' = "rank"
  /\ UNCHANGED <<request, caller, own, class, cell, i, bests, ehpCache, builds, rated, heap, printed>>

Score(n) == rating[builds[n]]

\* Pairs of a score and a build are compared as std::pair and std::vector do.
AsVector(b) == <<b.ehp, b.poise, b.fp, b.damage, b.endurance, b.vigor>>
Before(v, w) ==
  \E k \in 1..6 : v[k] < w[k] /\ \A l \in 1..(k - 1) : v[l] = w[l]

Least(n) ==
  /\ n \in heap
  /\ \A m \in heap :
       \/ Score(n) < Score(m)
       \/ Score(n) = Score(m) /\ ~Before(AsVector(builds[m]), AsVector(builds[n]))

\* Mutant: the better one goes.
KeepsWorse(old, new) == Score(old) < Score(new)

Keeps(old, new) == Score(old) > Score(new)

\* Mutant: a build more is taken before one has to go.
OfferOneMore ==
  /\ pc = "rank"
  /\ rated < Len(builds)
  /\ IF Cardinality(heap) <= request.numBuilds
     THEN heap' = heap \cup {rated + 1}
     ELSE \E n \in heap :
            /\ Least(n)
            /\ heap' = IF Keeps(n, rated + 1) THEN heap ELSE (heap \ {n}) \cup {rated + 1}
  /\ rated' = rated + 1
  /\ UNCHANGED <<request, caller, own, class, pc, cell, i, bests, ehpCache, builds, rating, printed>>

\* The next build goes into the heap, for which the least may have to go.
Offer ==
  /\ pc = "rank"
  /\ rated < Len(builds)
  /\ IF Cardinality(heap) < request.numBuilds
     THEN heap' = heap \cup {rated + 1}
     ELSE \E n \in heap :
            /\ Least(n)
            /\ heap' = IF Keeps(n, rated + 1) THEN heap ELSE (heap \ {n}) \cup {rated + 1}
  /\ rated' = rated + 1
  /\ UNCHANGED <<request, caller, own, class, pc, cell, i, bests, ehpCache, builds, rating, printed>>

\* Builds are recommended from the bottom of the heap.  "Model did not load
\* properly, try running again": Predict stops at an all damage build.
Recommend ==
  /\ pc = "rank"
  /\ rated = Len(builds)
  /\ \E n \in heap :
       /\ Least(n)
       /\ heap' = heap \ {n}
       /\ IF caller = "Predict" /\ builds[n].damage = level
          THEN pc' = "aborted" /\ UNCHANGED printed
          ELSE printed' = Append(printed, n) /\ UNCHANGED pc
  /\ UNCHANGED <<request, caller, own, class, cell, i, bests, ehpCache, builds, rating, rated>>

Return ==
  /\ pc = "rank"
  /\ rated = Len(builds)
  /\ heap = {}
  /\ pc' = "done"
  /\ UNCHANGED <<request, caller, own, class, cell, i, bests, ehpCache, builds, rating, rated, heap, printed>>

\* fpToMind: the value of mind that has these focus points.
FpToMind(fp) == CHOOSE m \in Stat : Fp[m] = fp

\* The points the program tells the player to invest in mind.
MindOf(b) == FpToMind(b.fp) - Base.mind

Next == Rescale \/ Begin \/ LookUp \/ TrySplit \/ Remember \/ Emit \/ Rate \/ Offer \/ Recommend \/ Return

Spec == Init /\ [][Next]_vars

-----------------------------------------------------------------------------
(* Properties *)

\* Type invariant.
TypeOK ==
  /\ request \in Requests /\ caller \in Callers
  /\ class \in Seq(1..Top)
  /\ pc \in {"start", "class", "cell", "split", "emit", "rate", "rank", "aborted", "rows", "done"}
  /\ cell.damage \in 0..level /\ cell.health \in 0..(level - cell.damage)
  /\ i \in 0..(level + 1)
  /\ Len(bests) \in 0..Len(Breaks)
  /\ DOMAIN ehpCache \subseteq 0..level
  /\ rated \in 0..Len(builds)
  /\ heap \subseteq 1..rated
  /\ Cardinality(heap) <= request.numBuilds
  /\ \A n \in 1..Len(printed) : printed[n] \in 1..Len(builds)

\* Rescaled, a class has STARTING_CLASS_STAT_POINTS points, and no stat has
\* overtaken a higher one: "keep the weighting/game design identity".
ClassesLevel ==
  [][class' # class => /\ SumFunction(class') = ClassPoints
                       /\ \A k, l \in DOMAIN class : class[k] < class[l] => class'[k] <= class'[l]]_vars

\* Rescaling again changes nothing, though the doubles that stand for whole
\* numbers may be cut: the entry points all rescale, one after the other.
ClassesSettle == [][SumFunction(class) = ClassPoints => class' = class]_vars

\* The points of the grid that have been dealt with when rating begins.
Grid == {c \in [damage : 0..level, health : 0..level] :
           /\ c.damage % request.stride = 0
           /\ c.health % request.stride = 0
           /\ c.damage + c.health <= level}

\* For every point of the grid and every breakpoint some split of its points
\* reaches, a build is rated that reaches it and that no such split beats:
\* the single pass with its early break, the trimming and the cache shared by
\* the points of the grid lose none.
BestAtEach ==
  pc = "rate" =>
    \A c \in Grid, j \in 1..Len(Breaks) :
      LET meeting == {s \in {Split(v, c.health) : v \in 0..c.health} : Breaks[j] <= s.poise}
      IN meeting # {} =>
           \E n \in 1..Len(builds) :
             /\ builds[n].damage = c.damage
             /\ builds[n].fp = FpOf(Rest(c))
             /\ Breaks[j] <= builds[n].poise
             /\ \A s \in meeting : s.ehp <= builds[n].ehp

\* Read back from the ratios the model was shown, a recommendation invests
\* the points of the level, and less only where a stat is as high as it gets.
SpendsLevel ==
  \A k \in 1..Len(printed) :
    LET b == builds[printed[k]]
        spent == b.damage + b.vigor + b.endurance + MindOf(b)
    IN /\ b.vigor >= 0 /\ b.endurance >= 0 /\ MindOf(b) >= 0
       /\ spent <= level
       /\ \/ spent = level
          \/ b.vigor + Base.vigor = Top
          \/ b.endurance + Base.endurance = Top
          \/ MindOf(b) + Base.mind = Top - 1

\* "This way we get the numBuilds best scores": as many builds as asked for,
\* if there are as many, and none left out is rated higher; worst first.
NumBuildsBest ==
  pc = "done" =>
    /\ Len(printed) = Limit(request.numBuilds, Len(builds))
    /\ \A k, l \in 1..Len(printed) : k < l => printed[k] # printed[l] /\ Score(printed[k]) <= Score(printed[l])
    /\ \A n \in 1..Len(builds) :
         (\A k \in 1..Len(printed) : printed[k] # n) =>
           \A k \in 1..Len(printed) : Score(n) <= Score(printed[k])

Rows == {builds[n] : n \in 2..Len(builds)}

\* What has at least as much of everything as a row is a row, with no lower a
\* score: more is never taken for worse.
RowsMonotone ==
  pc = "rows" =>
    \A c, d \in Grid :
      LET worse == Offered(c, ehpCache[c.health])
          better == Offered(d, ehpCache[d.health])
      IN c.damage <= d.damage /\ Rest(c) <= Rest(d) =>
           \A j \in DOMAIN worse, k \in DOMAIN better :
             /\ worse[j] \in Rows
             /\ worse[j].ehp <= better[k].ehp /\ worse[j].poise <= better[k].poise
             => better[k] \in Rows /\ better[k].distance <= worse[j].distance
=============================================================================
