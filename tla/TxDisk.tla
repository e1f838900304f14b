------------------------------- MODULE TxDisk -------------------------------
(***************************************************************************)
(* What the file-system log promises its callers: a disk on which groups   *)
(* of file-system calls take effect atomically.  `current' is what a bread *)
(* returns while the machine is up, `durable' is what a reboot would find, *)
(* and `active' is the set of processes between begin_op and end_op.  The  *)
(* durable state only ever becomes a state in which no call was half done. *)
(***************************************************************************)

CONSTANTS
    Procs,      \* processes that make file-system calls
    Blocks,     \* home blocks of the file system
    Data,       \* contents a block can have
    Zero        \* contents of every block of a fresh disk

VARIABLES durable, current, active

vars == <<durable, current, active>>

Init ==
    /\ durable = [b \in Blocks |-> Zero]
    /\ current = [b \in Blocks |-> Zero]
    /\ active = {}

Begin(p) ==
    /\ p \notin active
    /\ active' = active \cup {p}
    /\ UNCHANGED <<durable, current>>

Write(p, b, v) ==
    /\ p \in active
    /\ current' = [current EXCEPT ![b] = v]
    /\ UNCHANGED <<durable, active>>

End(p) ==
    /\ p \in active
    /\ active' = active \ {p}
    /\ UNCHANGED <<durable, current>>

\* Every call that ever wrote has ended: all their writes become durable at once.
Commit ==
    /\ active = {}
    /\ durable' = current
    /\ UNCHANGED <<current, active>>

Crash ==
    /\ current' = durable
    /\ active' = {}
    /\ UNCHANGED durable

Next ==
    \/ \E p \in Procs : Begin(p) \/ End(p)
    \/ \E p \in Procs, b \in Blocks, v \in Data : Write(p, b, v)
    \/ Commit
    \/ Crash

Spec == Init /\ [][Next]_vars
=============================================================================
