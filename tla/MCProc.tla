------------------------------- MODULE MCProc -------------------------------
(***************************************************************************)
(* Instances of Proc for TLC.  The harts are interchangeable.              *)
(***************************************************************************)
EXTENDS Proc, TLC

CONSTANTS c1, c2

TwoCPUs  == {c1, c2}
Symmetry == Permutations(TwoCPUs)
=============================================================================
