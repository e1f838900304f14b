------------------------------- MODULE MCPipe -------------------------------
(***************************************************************************)
(* Instance of Pipe for TLC.                                               *)
(***************************************************************************)
EXTENDS Pipe, TLC

CONSTANTS r1, w1, w2

OneReader  == {r1}
TwoWriters == {w1, w2}
=============================================================================
