------------------------------- MODULE BlockIO -------------------------------
(***************************************************************************)
(* What virtio_disk_rw() promises to bread() and bwrite(): the disk serves *)
(* each request once, at a moment between the call and its return, and     *)
(* moves the whole block in the direction the caller asked for.            *)
(***************************************************************************)
CONSTANTS Procs, Bufs, Nobody, Data

VARIABLES
    data,       \* b->data
    platter,    \* the blocks on the disk, named by the buffer that caches them
    req,        \* the request of a process, if it has one: [b, write]
    stage       \* "idle", "asked" or "served"

vars == <<data, platter, req, stage>>

NoReq == [b |-> Nobody, write |-> FALSE]

Init ==
    /\ data \in [Bufs -> Data]
    /\ platter \in [Bufs -> Data]
    /\ req = [p \in Procs |-> NoReq]
    /\ stage = [p \in Procs |-> "idle"]

\* A caller locks a buffer, fills it if it is to be written, and asks.
Ask(p, b, write) ==
    /\ stage[p] = "idle"
    /\ \A q \in Procs : req[q].b # b
    /\ data' \in IF write THEN {[data EXCEPT ![b] = v] : v \in Data} ELSE {data}
    /\ req' = [req EXCEPT ![p] = [b |-> b, write |-> write]]
    /\ stage' = [stage EXCEPT ![p] = "asked"]
    /\ UNCHANGED platter

Serve(p) ==
    LET b == req[p].b IN
    /\ stage[p] = "asked"
    /\ platter' = IF req[p].write THEN [platter EXCEPT ![b] = data[b]] ELSE platter
    /\ data' = IF req[p].write THEN data ELSE [data EXCEPT ![b] = platter[b]]
    /\ stage' = [stage EXCEPT ![p] = "served"]
    /\ UNCHANGED req

Return(p) ==
    /\ stage[p] = "served"
    /\ stage' = [stage EXCEPT ![p] = "idle"]
    /\ req' = [req EXCEPT ![p] = NoReq]
    /\ UNCHANGED <<data, platter>>

Next ==
    \E p \in Procs :
        \/ \E b \in Bufs, write \in BOOLEAN : Ask(p, b, write)
        \/ Serve(p)
        \/ Return(p)

Spec == Init /\ [][Next]_vars
=============================================================================
