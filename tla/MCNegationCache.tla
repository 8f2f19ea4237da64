--------------------------- MODULE MCNegationCache ---------------------------
(* Small caches for model checking NegationCache. *)
EXTENDS NegationCache, TLC

CONSTANTS main, t1, t2, k1, k2

\* With base endurance 0 the stat clamps at 1, with 2 at MaxStat.
MCEndurance == k1 :> 0 @@ k2 :> 2

\* The threads are interchangeable; the keys are not.
Symmetry == Permutations({t1, t2})
=============================================================================
