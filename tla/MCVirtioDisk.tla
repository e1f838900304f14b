---------------------------- MODULE MCVirtioDisk ----------------------------
(***************************************************************************)
(* Instances of VirtioDisk: two chains fit in the descriptors, so a third  *)
(* process waits, and the device serves two requests in either order.      *)
(***************************************************************************)
EXTENDS VirtioDisk, TLC

CONSTANTS p1, p2, p3, b1, b2, b3

ThreeProcs == {p1, p2, p3}
ThreeBufs  == {b1, b2, b3}
TwoProcs   == {p1, p2}
TwoBufs    == {b1, b2}

Symmetry == Permutations(Procs) \cup Permutations(Bufs)
=============================================================================
