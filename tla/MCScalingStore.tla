--------------------------- MODULE MCScalingStore ---------------------------
(* Small stores for model checking ScalingStore: tables of three rows. *)
EXTENDS ScalingStore

CONSTANTS w1, w2

\* pinco and computeAllWeapons: they start at the first budget and skip what
\* is complete.  Their lists overlap.
Pinco == [weapons |-> <<w1, w2>>, start_stats |-> 5,
          ignore_completed |-> TRUE, use_cache |-> FALSE]
ComputeAll == [Pinco EXCEPT !.weapons = <<w2, w1>>]

\* montage: starts above the stats of its character, and saves nothing.
Montage == [weapons |-> <<w1, w2>>, start_stats |-> 10,
            ignore_completed |-> FALSE, use_cache |-> FALSE]

ProgramCalls == {Pinco, ComputeAll, Montage}

\* The call the use_cache parameter is there for.
CachedCall == [weapons |-> <<w1>>, start_stats |-> 5,
               ignore_completed |-> FALSE, use_cache |-> TRUE]
CachedCalls == {Pinco, CachedCall}
=============================================================================
