---------------------------- MODULE BranchBound ----------------------------
(***************************************************************************)
(* The parallel branch and bound search of bnb.h: branch_bound() answers a *)
(* range of stat budgets one after the other, and for each of them starts  *)
(* four threads running thread() over one priority queue of regions.       *)
(*                                                                         *)
(* A region is a box of stat allocations; the feasible allocations are the *)
(* ones that spend exactly total_stats.  A thread takes the region with    *)
(* the largest upper bound, drops it or samples it where the box meets the *)
(* plane "spend = total_stats", and replaces it by the (up to 32) boxes    *)
(* the cut point separates.  Threads share queue, best and best_vector     *)
(* under the mutex mut, except that the pruning test reads best unlocked.  *)
(* A thread that finds the queue empty returns for good, even while other  *)
(* threads are still cutting regions and about to push more.               *)
(*                                                                         *)
(* One action is one critical section of thread(), or the unlocked stretch *)
(* between two of them; what a thread computes on its own region commutes  *)
(* with everything the others do.                                          *)
(***************************************************************************)
EXTENDS Integers, Sequences

CONSTANTS
  Threads,     \* the worker threads (t0 .. t3)
  Cap,         \* the highest value a stat can have (99 in the code)
  Lower,       \* the stats the character starts with (parameter lower)
  StartStats,  \* the first budget
  MaxStats,    \* the last budget that may be searched
  Step,        \* distance between budgets (5 in the code)
  Evaluate,    \* Region::evaluate: mean scaled damage, ranked by integers
  RawDamage,   \* the warm start's sum of calculateDamage, unscaled
  Leftover     \* values best_vector may have kept from an earlier call

Stats == 1..5

Alloc == [Stats -> 0..Cap]

\* The stat points an allocation spends.
Spend(a) == a[1] + a[2] + a[3] + a[4] + a[5]

\* Pointwise order of allocations.
Leq(a, b) == \A i \in Stats : a[i] <= b[i]

ASSUME ThreadsAssumption == Threads # {}

ASSUME BudgetAssumption ==
  /\ Cap \in Nat
  /\ Lower \in Alloc
  /\ StartStats \in Nat /\ MaxStats \in Nat /\ Step \in Nat \ {0}
  /\ 5 <= StartStats
  /\ Spend(Lower) <= StartStats
  /\ MaxStats <= 5 * Cap

\* Scaling curves never fall, and damage grows with every attack rating.
ASSUME EvaluateAssumption ==
  /\ Evaluate \in [Alloc -> Nat]
  /\ \A a, b \in Alloc : Leq(a, b) => Evaluate[a] <= Evaluate[b]

\* The warm start leaves out the scale and the mean.  Both callers are safe:
\* fullPipeline passes one weapon with scale 1, svd asks for one budget only.
ASSUME WarmStartAssumption ==
  \/ StartStats + Step > MaxStats
  \/ RawDamage = Evaluate

ASSUME LeftoverAssumption == Leftover # {} /\ Leftover \subseteq Alloc

VARIABLES
  total_stats,   \* the budget being searched
  best,          \* damage of the best allocation seen, -1 for none
  best_vector,   \* that allocation
  queue,         \* the regions waiting for a thread
  stage,         \* main thread: "seed", "search" (joining), "done"
  pc,            \* where each thread is in its loop
  region,        \* the region r each thread works on
  point,         \* the integer cut point of that region
  seen,          \* best as the thread last saw it while holding the lock
  output,        \* best for each budget finished
  stats          \* best_vector for each budget finished

shared == <<best, best_vector, queue>>
locals == <<pc, region, point, seen>>
mains  == <<total_stats, stage, output, stats>>
vars   == <<shared, locals, mains>>

Box == [lower : Alloc, upper : Alloc]

\* A thread between two regions: r and point are out of scope.
NoBox == [lower |-> Lower, upper |-> Lower]

-----------------------------------------------------------------------------
(* Regions *)

\* The root region's upper corner: no stat above the budget or the cap.
Ceiling(total) == [i \in Stats |-> IF total <= Cap THEN total ELSE Cap]

Root == [lower |-> Lower, upper |-> Ceiling(total_stats)]

Inside(a, r) == Leq(r.lower, a) /\ Leq(a, r.upper)

\* Two (nonempty) boxes have an allocation in common.
Overlap(q, r) == Leq(q.lower, r.upper) /\ Leq(r.lower, q.upper)

\* Mutant: the bound is taken at the wrong corner.
UpperBoundAtLower(r) == Evaluate[r.lower]

\* Region::upper_bound: damage cannot fall when a stat rises.
UpperBound(r) == Evaluate[r.upper]

\* Mutants: strict comparisons with the budget.
FeasibleStrictUpper(r) == /\ total_stats < Spend(r.upper)
                          /\ Spend(r.lower) <= total_stats
FeasibleStrictLower(r) == /\ total_stats <= Spend(r.upper)
                          /\ Spend(r.lower) < total_stats

\* The box meets the plane of allocations that spend the whole budget.
Feasible(r) == /\ total_stats <= Spend(r.upper)
               /\ Spend(r.lower) <= total_stats

\* Region::intersect, as a fraction Numerator/Width for each stat.
Width(r) == Spend(r.upper) - Spend(r.lower)

Numerator(r, i) ==
  r.lower[i] * Width(r) +
    (total_stats - Spend(r.lower)) * (r.upper[i] - r.lower[i])

\* Stats whose exact quotient is an integer but is computed by a division and
\* a product in floating point, which may end just below that integer.
MayRoundDown(r) ==
  {i \in Stats : /\ r.lower[i] < r.upper[i]
                 /\ Spend(r.upper) # total_stats
                 /\ Numerator(r, i) % Width(r) = 0}

\* The truncated cut points intersect() may produce.  Not every stat can be
\* rounded away to 0: that takes a budget of 5 cut at (1,1,1,1,1) from a cube
\* of side at most 5, where the product is exact.
CutPoints(r) ==
  {p \in {[i \in Stats |->
             (Numerator(r, i) \div Width(r)) - (IF i \in D THEN 1 ELSE 0)]
            : D \in SUBSET MayRoundDown(r)} : Spend(p) > 0}

\* Mutant: the cut belongs to both sides (c += 1 forgotten).
ChildShared(r, p, S) ==
  [lower |-> [i \in Stats |-> IF i \in S THEN p[i] ELSE r.lower[i]],
   upper |-> [i \in Stats |-> IF i \in S THEN r.upper[i] ELSE p[i]]]

\* The child of r that lies above the cut in the stats of S, up to it elsewhere.
Child(r, p, S) ==
  [lower |-> [i \in Stats |-> IF i \in S THEN p[i] + 1 ELSE r.lower[i]],
   upper |-> [i \in Stats |-> IF i \in S THEN r.upper[i] ELSE p[i]]]

\* Mutant: children outside the region are pushed too.
SubdivideAll(r, p) == {Child(r, p, S) : S \in SUBSET Stats}

\* Region::subdivide and backtracking: children outside r are dropped.
Subdivide(r, p) ==
  {c \in {Child(r, p, S) : S \in SUBSET Stats} : Leq(c.lower, r.upper)}

\* The warm start's guess: best_vector stretched to the new budget, truncated,
\* one lower where the exact product is an integer that came out just below.
Stretched(v, i) ==
  IF total_stats * v[i] <= Cap * Spend(v)
  THEN (total_stats * v[i]) \div Spend(v)
  ELSE Cap

StretchMayRoundDown(v) ==
  {i \in Stats : /\ v[i] > 0
                 /\ total_stats * v[i] <= Cap * Spend(v)
                 /\ (total_stats * v[i]) % Spend(v) = 0}

Guesses(v) ==
  {[i \in Stats |-> Stretched(v, i) - (IF i \in D THEN 1 ELSE 0)]
     : D \in SUBSET StretchMayRoundDown(v)}

-----------------------------------------------------------------------------
(* branch_bound(): the main thread *)

Init == /\ total_stats = StartStats
        /\ best = -1
        /\ best_vector \in Leftover
        /\ queue = {}
        /\ stage = "seed"
        /\ pc = [t \in Threads |-> "done"]
        /\ region = [t \in Threads |-> NoBox]
        /\ point = [t \in Threads |-> Lower]
        /\ seen = [t \in Threads |-> -1]
        /\ output = << >>
        /\ stats = << >>

\* Mutant: the guess is stretched but best is not evaluated again.
SeedKeepsBest == /\ stage = "seed"
                 /\ total_stats <= MaxStats
                 /\ \/ best = -1 /\ UNCHANGED best_vector
                    \/ best # -1 /\ best_vector' \in Guesses(best_vector)
                 /\ queue' = queue \cup {Root}
                 /\ pc' = [t \in Threads |-> "idle"]
                 /\ stage' = "search"
                 /\ UNCHANGED <<total_stats, best, region, point, seen, output, stats>>

\* Head of the loop over budgets: guess, push the root, start the threads.
Seed == /\ stage = "seed"
        /\ total_stats <= MaxStats
        /\ \/ /\ best = -1
              /\ UNCHANGED <<best, best_vector>>
           \/ /\ best # -1
              /\ \E g \in Guesses(best_vector) :
                   /\ best_vector' = g
                   /\ best' = RawDamage[g]
        /\ queue' = queue \cup {Root}
        /\ pc' = [t \in Threads |-> "idle"]
        /\ stage' = "search"
        /\ UNCHANGED <<total_stats, region, point, seen, output, stats>>

\* The four joins return; the result is recorded and the budget raised.
Collect == /\ stage = "search"
           /\ \A t \in Threads : pc[t] = "done"
           /\ output' = Append(output, best)
           /\ stats' = Append(stats, best_vector)
           /\ total_stats' = total_stats + Step
           /\ stage' = "seed"
           /\ UNCHANGED <<shared, locals>>

\* The loop ends and branch_bound returns.
Finish == /\ stage = "seed"
          /\ total_stats > MaxStats
          /\ stage' = "done"
          /\ UNCHANGED <<shared, locals, total_stats, output, stats>>

-----------------------------------------------------------------------------
(* thread(): the workers *)

\* End of a loop iteration: r and point go out of scope.
NextRound(t) == /\ pc' = [pc EXCEPT ![t] = "idle"]
                /\ region' = [region EXCEPT ![t] = NoBox]
                /\ point' = [point EXCEPT ![t] = Lower]
                /\ seen' = [seen EXCEPT ![t] = -1]

\* Mutant: the comparison was made before the lock and is not repeated.
ImproveBlindly(a) == best' = Evaluate[a] /\ best_vector' = a

\* Under the lock: keep a if it beats the best allocation so far.
Improve(a) == IF Evaluate[a] > best
              THEN best' = Evaluate[a] /\ best_vector' = a
              ELSE UNCHANGED <<best, best_vector>>

\* The queue is empty: this thread is finished, whatever the others hold.
Exit(t) == /\ pc[t] = "idle"
           /\ queue = {}
           /\ pc' = [pc EXCEPT ![t] = "done"]
           /\ UNCHANGED <<shared, region, point, seen, mains>>

\* Take a region with the largest upper bound.
Pop(t) == /\ pc[t] = "idle"
          /\ \E r \in queue :
               /\ \A q \in queue : UpperBound(q) <= UpperBound(r)
               /\ queue' = queue \ {r}
               /\ region' = [region EXCEPT ![t] = r]
          /\ seen' = [seen EXCEPT ![t] = best]
          /\ pc' = [pc EXCEPT ![t] = "test"]
          /\ UNCHANGED <<best, best_vector, point, mains>>

\* Mutant: the thread returns instead of going on with the next region.
DiscardAndReturn(t) == /\ pc[t] = "test"
                       /\ ~Feasible(region[t])
                       /\ pc' = [pc EXCEPT ![t] = "done"]
                       /\ UNCHANGED <<shared, region, point, seen, mains>>

\* No allocation of the region spends the budget.
Discard(t) == /\ pc[t] = "test"
              /\ ~Feasible(region[t])
              /\ NextRound(t)
              /\ UNCHANGED <<shared, mains>>

\* Only the lower corner spends the budget.
Leaf(t) == /\ pc[t] = "test"
           /\ Feasible(region[t])
           /\ Spend(region[t].lower) = total_stats
           /\ Improve(region[t].lower)
           /\ NextRound(t)
           /\ UNCHANGED <<queue, mains>>

\* Mutant: a region that only equals best is cut again.
BeatenStrictly(r, b) == UpperBound(r) < b

\* The pruning test.
Beaten(r, b) == UpperBound(r) <= b

\* The unlocked read of best races with the writers: it may return any value
\* since the thread last held the lock.  best only rises during a search, so
\* the oldest and the newest value stand for all of them.
Prune(t) == /\ pc[t] = "test"
            /\ Feasible(region[t])
            /\ Spend(region[t].lower) # total_stats
            /\ \E b \in {seen[t], best} : Beaten(region[t], b)
            /\ NextRound(t)
            /\ UNCHANGED <<shared, mains>>

Keep(t) == /\ pc[t] = "test"
           /\ Feasible(region[t])
           /\ Spend(region[t].lower) # total_stats
           /\ \E b \in {seen[t], best} : ~Beaten(region[t], b)
           /\ pc' = [pc EXCEPT ![t] = "sample"]
           /\ UNCHANGED <<shared, region, point, seen, mains>>

\* Evaluate the cut point.  It may spend less than the budget.
Sample(t) == /\ pc[t] = "sample"
             /\ \E p \in CutPoints(region[t]) :
                  /\ Improve(p)
                  /\ point' = [point EXCEPT ![t] = p]
             /\ pc' = [pc EXCEPT ![t] = "split"]
             /\ UNCHANGED <<queue, region, seen, mains>>

\* Push the children.  subdivide() repeats intersect() and gets the same point.
Split(t) == /\ pc[t] = "split"
            /\ queue' = queue \cup Subdivide(region[t], point[t])
            /\ NextRound(t)
            /\ UNCHANGED <<best, best_vector, mains>>

Worker(t) == Exit(t) \/ Pop(t) \/ Discard(t) \/ Leaf(t)
               \/ Prune(t) \/ Keep(t) \/ Sample(t) \/ Split(t)

Main == Seed \/ Collect \/ Finish

Terminating == stage = "done" /\ UNCHANGED vars

Next == Main \/ (\E t \in Threads : Worker(t)) \/ Terminating

\* The operating system runs every thread that is not blocked.
Spec == /\ Init /\ [][Next]_vars
        /\ WF_vars(Main)
        /\ \A t \in Threads : WF_vars(Worker(t))
-----------------------------------------------------------------------------
(* Properties *)

\* The threads that still answer for the region they hold.
Busy == {t \in Threads : pc[t] \in {"test", "sample", "split"}}

\* Allocations of the current budget.
Exactly(total) == {a \in Alloc : /\ Leq(Lower, a)
                                 /\ Leq(a, Ceiling(total))
                                 /\ Spend(a) = total}

\* Type invariant: regions are boxes of allocations, cut points allocations.
TypeOK == /\ total_stats \in Nat
          /\ best \in Nat \cup {-1}
          /\ best_vector \in Alloc
          /\ queue \subseteq Box
          /\ stage \in {"seed", "search", "done"}
          /\ pc \in [Threads -> {"idle", "test", "sample", "split", "done"}]
          /\ region \in [Threads -> Box]
          /\ point \in [Threads -> Alloc]
          /\ seen \in [Threads -> Nat \cup {-1}]
          /\ output \in Seq(Nat \cup {-1})
          /\ stats \in Seq(Alloc)

\* No allocation is lost: while threads search, every allocation of the budget
\* that beats best lies in a queued region or in one a thread still holds.
Covered ==
  stage = "search" =>
    \A a \in Exactly(total_stats) :
      \/ Evaluate[a] <= best
      \/ \E r \in queue : Inside(a, r)
      \/ \E t \in Busy : Inside(a, region[t])

\* No work is done twice: regions waiting and regions held never overlap, so
\* the queue, a multiset in the code, never holds the same region twice.
Disjoint ==
  /\ \A q, r \in queue : q # r => ~Overlap(q, r)
  /\ \A t \in Busy : \A r \in queue : ~Overlap(r, region[t])
  /\ \A t, u \in Busy : t # u => ~Overlap(region[t], region[u])

\* best and best_vector belong together, across both of their writers and the
\* warm start, and best_vector is an allocation the budget affords.
BestBacked ==
  stage = "search" /\ best # -1 =>
    /\ best = Evaluate[best_vector]
    /\ Leq(Lower, best_vector)
    /\ Leq(best_vector, Ceiling(total_stats))
    /\ Spend(best_vector) \in 1..total_stats

\* A thread may leave while others still hold regions, but never all of them
\* before the queue is empty: the last one to push stays to work it off.
QueueDrained == (\A t \in Threads : pc[t] = "done") => queue = {}

\* When every thread has returned, nothing affordable beats best: neither the
\* early exits nor the unlocked read of best cost the optimum.
Exact ==
  (stage = "search" /\ \A t \in Threads : pc[t] = "done") =>
    \A a \in Exactly(total_stats) : Evaluate[a] <= best

\* During one search best never falls, whichever thread writes it: what makes
\* a pruning decision taken on a stale value stand.
BestRises == [][stage = "search" /\ stage' = "search" => best <= best']_vars

\* Every budget of the range is answered and branch_bound returns: no thread
\* goes on cutting for ever, although a region whose upper corner spends the
\* budget exactly is replaced by itself.
Termination == <>(stage = "done")

\* branch_bound answers every budget as the abstract sweep does.
Sweep == INSTANCE BudgetSweep WITH
           total_stats <- total_stats, output <- output, stats <- stats
SweepSpec == Sweep!Spec
=============================================================================
