--------------------------- MODULE MCBranchBound ---------------------------
(* Small characters and damage curves for model checking BranchBound. *)
EXTENDS BranchBound, TLC

\* Three stats left to raise.
LowerThree == <<2, 2, 0, 0, 0>>

\* Four: the second has one point to go.
LowerFour == <<2, 1, 0, 0, 0>>

\* Damage after defenses, which cuts low attack down to nothing.
CutDamage ==
  [a \in Alloc |-> LET ar == a[2] + a[3] + 2 * a[4] + (IF a[5] >= 2 THEN 4 ELSE a[5])
                   IN IF ar <= 4 THEN 0 ELSE ar - 4]

\* What an earlier call may have left in best_vector.
MCLeftover == {<<0, 0, 0, 0, 0>>, <<1, 0, 1, 0, 0>>}
Symmetry == Permutations(Threads)
=============================================================================
