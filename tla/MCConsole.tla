------------------------------ MODULE MCConsole ------------------------------
(***************************************************************************)
(* Instance of Console for TLC.                                            *)
(***************************************************************************)
EXTENDS Console, TLC

CONSTANTS r1, r2, w1, w2, x

TwoReaders == {r1, r2}
TwoWriters == {w1, w2}
Keys       == {x, CR, EOF, KILL, BS}
SomeReads  == {[n |-> 2, ok |-> 2], [n |-> 2, ok |-> 1]}
=============================================================================
