----------------------------- MODULE BlockStore -----------------------------
(***************************************************************************)
(* What the buffer cache promises: every disk block is a register with a   *)
(* lock.  bread() waits for the lock and brelse() gives it up; in between  *)
(* the caller alone reads and writes the block, and it finds there what    *)
(* was last written, whether or not the block left memory meanwhile.       *)
(***************************************************************************)
CONSTANTS Procs, Blocks, Nobody, Data

VARIABLES
    want,       \* block a process has asked for and not given back
    owner,      \* process that has the block
    content     \* contents of the block

vars == <<want, owner, content>>

Init ==
    /\ want = [p \in Procs |-> Nobody]
    /\ owner = [k \in Blocks |-> Nobody]
    /\ content \in [Blocks -> Data]

Ask(p, k) ==
    /\ want[p] = Nobody
    /\ want' = [want EXCEPT ![p] = k]
    /\ UNCHANGED <<owner, content>>

Lock(p) ==
    /\ want[p] # Nobody
    /\ owner[want[p]] = Nobody
    /\ owner' = [owner EXCEPT ![want[p]] = p]
    /\ UNCHANGED <<want, content>>

Write(p, v) ==
    /\ want[p] # Nobody
    /\ owner[want[p]] = p
    /\ content' = [content EXCEPT ![want[p]] = v]
    /\ UNCHANGED <<want, owner>>

Unlock(p) ==
    /\ want[p] # Nobody
    /\ owner[want[p]] = p
    /\ owner' = [owner EXCEPT ![want[p]] = Nobody]
    /\ want' = [want EXCEPT ![p] = Nobody]
    /\ UNCHANGED content

Next ==
    \E p \in Procs :
        \/ \E k \in Blocks : Ask(p, k)
        \/ \E v \in Data : Write(p, v)
        \/ Lock(p)
        \/ Unlock(p)

Spec == Init /\ [][Next]_vars
=============================================================================
