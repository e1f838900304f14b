------------------------------ MODULE MCBcache ------------------------------
(***************************************************************************)
(* Instance of Bcache with more blocks than buffers, so that buffers are   *)
(* reused while others wait for them.                                      *)
(***************************************************************************)
EXTENDS Bcache, TLC

CONSTANTS p1, p2, k1, k2, k3, k4

TwoProcs   == {p1, p2}
FourBlocks == {k1, k2, k3, k4}

Symmetry == Permutations(Procs) \cup Permutations(Blocks)
=============================================================================
