------------------------------ MODULE MCFsLog -------------------------------
(***************************************************************************)
(* The log for TLC.                                                        *)
(***************************************************************************)
EXTENDS FsLog, TLC

CONSTANTS p1, p2, b1, b2, b3

TwoProcs    == {p1, p2}
ThreeBlocks == {b1, b2, b3}
=============================================================================
