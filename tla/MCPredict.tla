------------------------------ MODULE MCPredict ------------------------------
(* A small class, small tables and small levels for model checking Predict. *)
EXTENDS Predict

\* One class above the points of all, whose rescaling is a matter of rounding,
\* and one that has them already.
MCClasses == {<<3, 3, 2, 2>>, <<2, 2, 1, 2>>}

\* Characters of the archive: one that can be met, one strong in health and
\* poise, one in mind.
MCOwns == {[damage |-> 2, mind |-> 1, vigor |-> 1, endurance |-> 0, ehp |-> 6, poise |-> 1],
           [damage |-> 0, mind |-> 0, vigor |-> 3, endurance |-> 2, ehp |-> 15, poise |-> 4],
           [damage |-> 1, mind |-> 3, vigor |-> 0, endurance |-> 0, ehp |-> 5, poise |-> 0]}
MCTop == 5

\* Two values of endurance carry the same armor, one of vigor adds little:
\* splits tie, and a build may be the best at two breakpoints.
MCHp == <<2, 4, 5, 6, 6>>
MCGuard == <<1, 1, 2, 2, 3>>
MCPoise == <<0, 0, 3, 4, 7>>
MCFp == <<5, 6, 8, 9, 10>>
MCBreaks == <<0, 3, 6>>

Request(l, s, n) == [level |-> l, stride |-> s, numBuilds |-> n]
MCRequests == {Request(2, 1, 1), Request(3, 1, 2), Request(2, 1, 3), Request(4, 2, 1), Request(4, 2, 2),
               Request(5, 2, 2), Request(6, 3, 20)}
MCCallers == {"rankBuilds", "Predict", "exponentialDecay"}
=============================================================================
