------------------------------ MODULE MCSticky ------------------------------
(* Model-checking instance of the sticky-session store: two requests, two *)
(* shards, and enough keys for the store to pass its capacity.              *)
EXTENDS Sticky, TLC

CONSTANTS k1, k2, k3, k4, k5, k6

\* The keys fall unevenly into the two shards.
MCShardOf == [k \in AffinityKeys |-> IF k \in {k1, k3, k5} THEN 1 ELSE 2]

StickySymmetry ==
  Permutations(Requests) \cup Permutations({k1, k3, k5}) \cup Permutations({k2, k4, k6})
=============================================================================
