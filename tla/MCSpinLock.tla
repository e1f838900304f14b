----------------------------- MODULE MCSpinLock -----------------------------
(***************************************************************************)
(* Instances of SpinLock for TLC.  Harts are interchangeable, processes too.*)
(***************************************************************************)
EXTENDS SpinLock, TLC

CONSTANTS c1, c2, p1, p2

TwoCPUs  == {c1, c2}
TwoProcs == {p1, p2}
Symmetry == Permutations(TwoCPUs) \cup Permutations(TwoProcs)
=============================================================================
