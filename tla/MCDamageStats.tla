---------------------------- MODULE MCDamageStats ----------------------------
(* Small directions and files for model checking DamageStats. *)
EXTENDS DamageStats

\* The 1 is trimmed next to the 12.
MCDirections == {v \in [Stats -> {0, 1, 3, 12}] :
                   /\ Total(v) > 0
                   /\ v[1] >= v[2] /\ v[4] >= v[5]}
MCPoints == 0..8 \cup {30, 31, 55}

\* Rows that spend their budget in one stat or two, and one that underspends.
MCDbRows == [n \in 1..2 |-> {<<5 * n, 0, 0, 0, 0>>, <<0, n, 4 * n, 0, 0>>,
                             <<1, 0, 0, 0, n>>}]
BothCallers == {"damageStatAllocation", "Predict"}
=============================================================================
