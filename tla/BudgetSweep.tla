---------------------------- MODULE BudgetSweep ----------------------------
(***************************************************************************)
(* What branch_bound() promises its callers (bnb.h): for every stat budget *)
(* of the range, in order, one allocation that no affordable allocation    *)
(* beats, together with its damage.  How the optimum is found (regions, a  *)
(* priority queue, four threads) is left to module BranchBound, which is   *)
(* shown to implement this module.                                         *)
(***************************************************************************)
EXTENDS Integers, Sequences

CONSTANTS Cap,         \* the highest value a stat can have (99 in the game)
          Lower,       \* the stats the character starts with
          StartStats,  \* the first budget
          MaxStats,    \* the last budget that may be answered
          Step,        \* distance between budgets (5 in the code)
          Evaluate     \* the damage of an allocation

Stats == 1..5

Alloc == [Stats -> 0..Cap]

\* The stat points an allocation spends.
Spend(a) == a[1] + a[2] + a[3] + a[4] + a[5]

\* Pointwise order of allocations.
Leq(a, b) == \A i \in Stats : a[i] <= b[i]

\* The largest value each stat may take under a budget.
Ceiling(total) == [i \in Stats |-> IF total <= Cap THEN total ELSE Cap]

\* The allocations a character can reach with the budget, spent in full or not.
Affordable(total) ==
  {a \in Alloc : /\ Leq(Lower, a)
                 /\ Leq(a, Ceiling(total))
                 /\ Spend(a) <= total}

\* The allocations no affordable allocation beats.
Optimal(total) ==
  LET A == Affordable(total)
  IN {a \in A : \A b \in A : Evaluate[b] <= Evaluate[a]}

VARIABLES total_stats, \* the budget to be answered next
          output,      \* the damage found for each budget answered
          stats        \* the allocation found for each budget answered

vars == <<total_stats, output, stats>>

Init == /\ total_stats = StartStats
        /\ output = << >>
        /\ stats = << >>

\* One budget is answered, optimally, in one step.
Answer == /\ total_stats <= MaxStats
          /\ \E a \in Optimal(total_stats) :
               /\ output' = Append(output, Evaluate[a])
               /\ stats' = Append(stats, a)
          /\ total_stats' = total_stats + Step

Spec == Init /\ [][Answer]_vars /\ WF_vars(Answer)
=============================================================================
