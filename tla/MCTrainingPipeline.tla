------------------------- MODULE MCTrainingPipeline -------------------------
(* Small directories for model checking TrainingPipeline. *)
EXTENDS TrainingPipeline

Build(parses, throws, possible) ==
  [parses |-> parses, throws |-> throws, possible |-> possible]

Broken == Build(FALSE, FALSE, << >>)
Good == Build(TRUE, FALSE, <<TRUE, TRUE>>)
Partly == Build(TRUE, FALSE, <<FALSE, TRUE>>)
Throwing == Build(TRUE, TRUE, << >>)

Directories(builds, n) == UNION {[1..m -> builds] : m \in 0..n}

\* Fewer files than threads, as many, and divisions that leave a remainder.
Any == Directories({Broken, Good, Partly}, 4)
         \cup Directories({Broken, Good, Throwing}, 3)

Leftover == <<<<0, 0>>>>
=============================================================================
