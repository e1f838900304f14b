----------------------------- MODULE VirtioDisk -----------------------------
(***************************************************************************)
(* The virtio disk driver (kernel/virtio_disk.c).  Processes format chains *)
(* of three descriptors and publish them in the avail ring; the device     *)
(* fetches them, serves them in any order, and reports them in the used    *)
(* ring; the interrupt handler wakes the process that waits for the buffer.*)
(*                                                                         *)
(* vdisk_lock serialises the processes and the handler but not the device, *)
(* which reads and writes the rings, the descriptors and the status bytes  *)
(* at any moment.  The lock is a variable because the driver's sections    *)
(* are split at the points where the device can tell the difference.  What *)
(* nobody reads again is cleared: a ring entry that was consumed, the      *)
(* command of a freed chain, the local variables of a finished call.       *)
(***************************************************************************)
EXTENDS Integers, FiniteSets

CONSTANTS
    Procs,      \* processes that read and write blocks
    Bufs,       \* buffers of the cache; a buffer names the block it caches
    Nobody,     \* holder of a free lock; the null buffer
    NUM,        \* descriptors, and entries of each ring
    WRAP,       \* the ring indices are unsigned counters modulo WRAP (2^16)
    Data        \* contents of a block

ASSUME VirtioConstants ==
    /\ NUM \in Nat \ {0} /\ WRAP \in Nat \ {0} /\ WRAP % NUM = 0 /\ WRAP > NUM
    /\ Nobody \notin Procs \cup Bufs \cup {"intr"} /\ "intr" \notin Procs

Descs == 0 .. NUM - 1

VARIABLES
    vdisk_lock, \* process or "intr" that holds disk.vdisk_lock
    free,       \* descriptors i with disk.free[i]
    desc,       \* disk.desc: what it points to, flags and next
    ops,        \* disk.ops: command and sector of a request
    info,       \* disk.info: buffer and status byte
    avail,      \* avail ring and its index
    used,       \* used ring and its index
    used_idx,   \* disk.used_idx: how far the handler has looked
    disk,       \* b->disk: buffers the device owns
    data,       \* b->data
    platter,    \* the blocks on the disk
    req,        \* b and write, the arguments of a process's call
    idx,        \* idx[0..2] of a process's call
    pc,         \* where a process is
    handler,    \* where virtio_disk_intr() is
    irq,        \* the interrupt status register
    dev         \* the device: avail entries seen, chains in hand, chains served

vars == <<vdisk_lock, free, desc, ops, info, avail, used, used_idx, disk, data,
          platter, req, idx, pc, handler, irq, dev>>
driver == <<desc, ops, info, avail, disk>>
device == <<used, platter, irq, dev>>

NoDesc == [addr |-> Nobody, flags |-> {}, next |-> 0]
NoOp   == [type |-> "IN", sector |-> Nobody]
NoReq  == [b |-> Nobody, write |-> FALSE]
NoIdx  == <<0, 0, 0>>

\* uint16 arithmetic of the ring indices.
Uint16(n) == n % WRAP

\* virtio_disk_init(): every descriptor free, both rings empty.
Init ==
    /\ vdisk_lock = Nobody
    /\ free = Descs
    /\ desc = [d \in Descs |-> NoDesc]
    /\ ops = [d \in Descs |-> NoOp]
    /\ info = [d \in Descs |-> [b |-> Nobody, status |-> "ok"]]
    /\ avail = [ring |-> [d \in Descs |-> 0], idx |-> 0]
    /\ used = [ring |-> [d \in Descs |-> 0], idx |-> 0]
    /\ used_idx = 0
    /\ disk = {}
    /\ data \in [Bufs -> Data]
    /\ platter = data
    /\ req = [p \in Procs |-> NoReq]
    /\ idx = [p \in Procs |-> NoIdx]
    /\ pc = [p \in Procs |-> "idle"]
    /\ handler = "out"
    /\ irq = FALSE
    /\ dev = [seen |-> 0, inhand |-> {}, served |-> {}, raise |-> FALSE]

Goto(p, l) == pc' = [pc EXCEPT ![p] = l]

\* wakeup(chan): the sleepers in S try again.
Wake(S, f) ==
    [p \in Procs |-> IF p \notin S THEN f[p]
                     ELSE IF f[p] = "nodesc" THEN "alloc" ELSE "check"]

\* Variant: finishing a request wakes nobody.
NobodyFor(b) == {}

\* Those asleep on &disk.free[0], and on the buffer b.
DescSleepers    == {p \in Procs : pc[p] = "nodesc"}
BufSleepers(b)  == {p \in Procs : pc[p] = "asleep" /\ req[p].b = b}

-----------------------------------------------------------------------------
\* bread() or bwrite() calls virtio_disk_rw() with a buffer it has locked.
call(p, b, write) ==
    /\ pc[p] = "idle"
    /\ \A q \in Procs : req[q].b # b
    /\ data' \in IF write THEN {[data EXCEPT ![b] = v] : v \in Data} ELSE {data}
    /\ req' = [req EXCEPT ![p] = [b |-> b, write |-> write]]
    /\ Goto(p, "alloc")
    /\ UNCHANGED <<vdisk_lock, free, driver, used_idx, idx, handler, device>>

\* Variant: a request that finds fewer than three descriptors keeps them.
KeepTaken == free' = {}

\* alloc3_desc() gives back what it took when it fails.
GiveBack == UNCHANGED free

\* alloc_desc() finds the lowest of the free descriptors.
alloc_desc(d, S) == d \in S /\ \A e \in S : d <= e

\* virtio_disk_rw() with the lock: three descriptors, or none and to sleep.  Giving
\* back a descriptor wakes the others that wait for one.
alloc3_desc(p) ==
    /\ pc[p] = "alloc" /\ vdisk_lock = Nobody
    /\ IF Cardinality(free) >= 3
       THEN /\ \E a, b, c \in Descs :
                  /\ alloc_desc(a, free)
                  /\ alloc_desc(b, free \ {a})
                  /\ alloc_desc(c, free \ {a, b})
                  /\ idx' = [idx EXCEPT ![p] = <<a, b, c>>]
                  /\ free' = free \ {a, b, c}
            /\ vdisk_lock' = p
            /\ Goto(p, "format")
       ELSE /\ GiveBack
            /\ pc' = Wake(IF free = {} THEN {} ELSE DescSleepers, [pc EXCEPT ![p] = "nodesc"])
            /\ UNCHANGED <<vdisk_lock, idx>>
    /\ UNCHANGED <<driver, used_idx, data, req, handler, device>>

\* Variant: the status byte keeps its value of the last request.
OldStatus(i, b) == [info EXCEPT ![i].b = b]

\* disk.info[idx[0]]: the buffer, and a status only the device can make 0.
NewInfo(i, b) == [info EXCEPT ![i] = [b |-> b, status |-> "none"]]

\* Format the descriptors and put the head of the chain in the avail ring.
format(p) ==
    LET i == idx[p]
        b == req[p].b
        write == req[p].write
    IN
    /\ pc[p] = "format"
    /\ ops' = [ops EXCEPT ![i[1]] = [type |-> IF write THEN "OUT" ELSE "IN", sector |-> b]]
    /\ desc' = [desc EXCEPT
           ![i[1]] = [addr |-> i[1], flags |-> {"NEXT"}, next |-> i[2]],
           ![i[2]] = [addr |-> b, flags |-> {"NEXT"} \cup (IF write THEN {} ELSE {"WRITE"}), next |-> i[3]],
           ![i[3]] = [addr |-> i[1], flags |-> {"WRITE"}, next |-> 0]]
    /\ info' = NewInfo(i[1], b)
    /\ disk' = disk \cup {b}
    /\ avail' = [avail EXCEPT !.ring[avail.idx % NUM] = i[1]]
    /\ Goto(p, "publish")
    /\ UNCHANGED <<vdisk_lock, free, used_idx, data, req, idx, handler, device>>

\* After the fence: avail->idx += 1, notify, and sleep on the buffer.
publish(p) ==
    /\ pc[p] = "publish"
    /\ avail' = [avail EXCEPT !.idx = Uint16(@ + 1)]
    /\ vdisk_lock' = Nobody
    /\ Goto(p, "asleep")
    /\ UNCHANGED <<free, desc, ops, info, used_idx, disk, data, req, idx, handler, device>>

\* The test of the loop around sleep(b, ...).
Finished(b) == b \notin disk

\* The process is awake and has the lock again: sleep again, or free the chain,
\* which wakes those that wait for descriptors, and return.
check(p) ==
    LET i == idx[p][1]
        chain == {i, desc[i].next, desc[desc[i].next].next}
    IN
    /\ pc[p] = "check" /\ vdisk_lock = Nobody
    /\ IF ~Finished(req[p].b)
       THEN Goto(p, "asleep") /\ UNCHANGED <<free, desc, ops, info, req, idx>>
       ELSE /\ info' = [info EXCEPT ![i].b = Nobody]
            /\ ops' = [ops EXCEPT ![i] = NoOp]
            /\ req' = [req EXCEPT ![p] = NoReq]
            /\ idx' = [idx EXCEPT ![p] = NoIdx]
            /\ desc' = [d \in Descs |-> IF d \in chain THEN NoDesc ELSE desc[d]]
            /\ free' = free \cup chain
            /\ pc' = Wake(DescSleepers, [pc EXCEPT ![p] = "idle"])
    /\ UNCHANGED <<vdisk_lock, avail, disk, used_idx, data, handler, device>>

\* kill() makes a sleeping process runnable though nothing it waits for happened.
kill(p) ==
    /\ pc[p] \in {"nodesc", "asleep"}
    /\ pc' = Wake({p}, pc)
    /\ UNCHANGED <<vdisk_lock, free, driver, used_idx, data, req, idx, handler, device>>

-----------------------------------------------------------------------------

\* The interrupt status after the acknowledgment on entry, and on exit.
Ack == [enter |-> FALSE, leave |-> irq]

\* virtio_disk_intr() takes the lock and acknowledges the interrupt; the PLIC
\* gives the interrupt to one hart at a time.
intr ==
    /\ irq /\ handler = "out" /\ vdisk_lock = Nobody
    /\ handler' = "loop"
    /\ vdisk_lock' = "intr"
    /\ irq' = Ack.enter
    /\ UNCHANGED <<free, driver, used_idx, data, req, idx, pc, used, platter, dev>>

\* One turn of its loop over the used ring.
intr_entry ==
    LET b == info[used.ring[used_idx % NUM]].b IN
    /\ handler = "loop" /\ used_idx # used.idx
    /\ disk' = disk \ {b}
    /\ pc' = Wake(BufSleepers(b), pc)
    /\ used_idx' = Uint16(used_idx + 1)
    /\ used' = [used EXCEPT !.ring[used_idx % NUM] = 0]
    /\ UNCHANGED <<vdisk_lock, free, desc, ops, info, avail, data, platter, req, idx, handler, irq, dev>>

\* It has seen the whole ring, and a moment later releases the lock.
intr_end ==
    /\ handler = "loop" /\ used_idx = used.idx
    /\ handler' = "leave"
    /\ UNCHANGED <<vdisk_lock, free, driver, used_idx, data, req, idx, pc, device>>

intr_leave ==
    /\ handler = "leave"
    /\ handler' = "out"
    /\ vdisk_lock' = Nobody
    /\ irq' = Ack.leave
    /\ UNCHANGED <<free, driver, used_idx, data, req, idx, pc, used, platter, dev>>

-----------------------------------------------------------------------------
\* The device takes the next chain from the avail ring.
dev_fetch ==
    /\ dev.seen # avail.idx
    /\ dev' = [dev EXCEPT !.seen = Uint16(@ + 1), !.inhand = @ \cup {avail.ring[dev.seen % NUM]}]
    /\ avail' = [avail EXCEPT !.ring[dev.seen % NUM] = 0]
    /\ UNCHANGED <<vdisk_lock, free, desc, ops, info, disk, used, used_idx, data, platter, req, idx, pc, handler, irq>>

\* It follows the chain, moves the block and writes the status byte; a command
\* and a buffer direction that disagree are an error.
dev_serve(h) ==
    LET d   == desc[desc[h].next]
        st  == desc[d.next].addr
        out == ops[h].type = "OUT"
        ok  == out # ("WRITE" \in d.flags)
    IN
    /\ h \in dev.inhand
    /\ dev' = [dev EXCEPT !.inhand = @ \ {h}, !.served = @ \cup {h}]
    /\ platter' = IF ok /\ out THEN [platter EXCEPT ![ops[h].sector] = data[d.addr]] ELSE platter
    /\ data' = IF ok /\ ~out THEN [data EXCEPT ![d.addr] = platter[ops[h].sector]] ELSE data
    /\ info' = [info EXCEPT ![st].status = IF ok THEN "ok" ELSE "error"]
    /\ UNCHANGED <<vdisk_lock, free, desc, ops, avail, used, used_idx, disk, req, idx, pc, handler, irq>>

\* It reports the chain in the used ring, and some time later interrupts.
dev_report(h) ==
    /\ h \in dev.served
    /\ used' = [ring |-> [used.ring EXCEPT ![used.idx % NUM] = h], idx |-> Uint16(used.idx + 1)]
    /\ dev' = [dev EXCEPT !.served = @ \ {h}, !.raise = TRUE]
    /\ UNCHANGED <<vdisk_lock, free, driver, used_idx, data, platter, req, idx, pc, handler, irq>>

dev_raise ==
    /\ dev.raise
    /\ irq' = TRUE
    /\ dev' = [dev EXCEPT !.raise = FALSE]
    /\ UNCHANGED <<vdisk_lock, free, driver, used, used_idx, data, platter, req, idx, pc, handler>>

-----------------------------------------------------------------------------
Rw(p)   == alloc3_desc(p) \/ format(p) \/ publish(p) \/ check(p)
Handler == intr \/ intr_entry \/ intr_end \/ intr_leave
Device  == dev_fetch \/ dev_raise \/ \E h \in Descs : dev_serve(h) \/ dev_report(h)

Next ==
    \/ \E p \in Procs :
          \/ \E b \in Bufs, write \in BOOLEAN : call(p, b, write)
          \/ Rw(p)
          \/ kill(p)
    \/ Handler
    \/ Device

Spec == Init /\ [][Next]_vars

-----------------------------------------------------------------------------

\* How far the disk is with a request: the status byte is the device's word.
Stage(p) ==
    CASE pc[p] = "idle" -> "idle"
      [] pc[p] \in {"alloc", "nodesc", "format"} -> "asked"
      [] OTHER -> IF info[idx[p][1]].status = "ok" THEN "served" ELSE "asked"

IO == INSTANCE BlockIO WITH stage <- [p \in Procs |-> Stage(p)]

\* The driver implements BlockIO: the device serves a published request exactly
\* once and for the right buffer and block, and virtio_disk_rw() returns after
\* that, however completions, interrupts and kills are ordered.
ServedOnce == IO!Spec

Holding == {p \in Procs : pc[p] \in {"format", "publish", "asleep", "check"}}

\* No descriptor is lost or shared: the free ones and those of the requests under
\* way are disjoint and together all of them.
DescriptorsConserved ==
    /\ \A p, q \in Holding : p # q => {idx[p][k] : k \in 1 .. 3} \cap {idx[q][k] : k \in 1 .. 3} = {}
    /\ free = Descs \ UNION {{idx[p][k] : k \in 1 .. 3} : p \in Holding}

-----------------------------------------------------------------------------
\* The device serves and announces what it is given; a pending interrupt is taken;
\* a process that spins for vdisk_lock gets it when it is free again and again.
Fairness ==
    /\ WF_vars(dev_fetch \/ dev_raise)
    /\ \A h \in Descs : WF_vars(dev_serve(h) \/ dev_report(h))
    /\ SF_vars(Handler)
    /\ \A p \in Procs : SF_vars(Rw(p))

LiveSpec == Spec /\ Fairness

\* A request given to the device returns, and a process that waits for
\* descriptors is woken to try again.
RequestsReturn ==
    \A p \in Procs :
        /\ []<>(p \notin Holding)
        /\ []<>(pc[p] # "nodesc")
=============================================================================
