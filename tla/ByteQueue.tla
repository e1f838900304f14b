----------------------------- MODULE ByteQueue ------------------------------
(***************************************************************************)
(* What a pipe promises the processes at its two ends: a bounded queue of  *)
(* bytes that come out in the order they went in.  A read delivers bytes   *)
(* from the head of the queue; when the last byte it takes off cannot be   *)
(* stored in the reader's memory, that byte is lost.                       *)
(***************************************************************************)
EXTENDS Integers, Sequences

CONSTANTS Bytes, Size

VARIABLES
    queue,      \* bytes written and not yet read
    out         \* bytes the most recent read delivered

vars == <<queue, out>>

Init == queue = << >> /\ out = << >>

Write(b) ==
    /\ Len(queue) < Size
    /\ queue' = Append(queue, b)
    /\ UNCHANGED out

\* k bytes are delivered and `lost' more leave the queue.
Read(k, lost) ==
    /\ k + lost <= Len(queue)
    /\ out' = SubSeq(queue, 1, k)
    /\ queue' = SubSeq(queue, k + lost + 1, Len(queue))

Next ==
    \/ \E b \in Bytes : Write(b)
    \/ \E k \in 0 .. Size, lost \in 0 .. 1 : Read(k, lost)

Spec == Init /\ [][Next]_vars
=============================================================================
