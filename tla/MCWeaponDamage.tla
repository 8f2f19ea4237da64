--------------------------- MODULE MCWeaponDamage ---------------------------
(* Two weapons whose attacks run through all five pieces of the reduction. *)
EXTENDS WeaponDamage

Only(i, v) == [k \in 1..5 |-> IF k = i THEN v ELSE 0]
Two(i, v, k, u) == [n \in 1..5 |-> IF n = i THEN v ELSE IF n = k THEN u ELSE 0]
SoftCap == <<0, 3, 4>>
EarlyJump == <<0, 8, 10>>

\* A heavy weapon of one element that grows with strength and arcane:
\* from below its defense to more than eight times it.
Hammer == [attack |-> Only(1, 6),
           scaling |-> [i \in 1..5 |-> Two(1, 2, 5, 1)],
           curve |-> [i \in 1..5 |-> SoftCap],
           isDualBlade |-> FALSE]

\* A staff of two elements, one of them next to nothing.
Staff == [attack |-> Two(1, 1, 2, 2),
          scaling |-> [i \in 1..5 |-> IF i = 1 THEN Only(2, 1) ELSE Two(3, 1, 4, 2)],
          curve |-> [i \in 1..5 |-> IF i = 1 THEN SoftCap ELSE EarlyJump],
          isDualBlade |-> TRUE]

MCWeapons == {Hammer, Staff}
MCMotions == {[i \in 1..5 |-> 1], Only(2, 3)}
=============================================================================
