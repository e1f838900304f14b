-------------------------------- MODULE Pipe --------------------------------
(***************************************************************************)
(* A pipe (kernel/pipe.c): a ring of PIPESIZE bytes between processes that *)
(* read and processes that write, under one spinlock, with two unsigned    *)
(* counters that wrap around.  A process can be killed at any time, also   *)
(* between its killed() test and its sleep().                              *)
(*                                                                         *)
(* A process that holds pi->lock takes one step per turn of pipewrite's    *)
(* loop; piperead's copy loop is one step, since nothing in it can be      *)
(* observed.  sleep() and wakeup() are used through what they promise.     *)
(***************************************************************************)
EXTENDS Integers, FiniteSets, Sequences

CONSTANTS
    Readers,    \* processes with the read end open at the start
    Writers,    \* processes with the write end open at the start
    Nobody,     \* holder of a free lock
    PIPESIZE,   \* bytes of the ring
    WRAP,       \* number of values of an unsigned int: 2^32 in the code
    Bytes,      \* values of a byte
    MaxN,       \* bound: longest read or write requested
    MaxKilled   \* bound: processes that are killed

ASSUME PipeConstants ==
    /\ PIPESIZE \in Nat \ {0}
    /\ WRAP \in Nat /\ WRAP > PIPESIZE /\ WRAP % PIPESIZE = 0
    /\ Bytes # {}
    /\ Readers \cap Writers = {}
    /\ Nobody \notin Readers \cup Writers

Users == Readers \cup Writers

VARIABLES
    data,       \* pi->data
    nread,      \* pi->nread
    nwrite,     \* pi->nwrite
    readopen,   \* pi->readopen
    writeopen,  \* pi->writeopen
    freed,      \* the page has gone back to kfree()
    lock,       \* holder of pi->lock
    open,       \* processes that still have their descriptor
    killed,     \* killed processes
    pc,         \* where each process is
    n,          \* bytes its call still has to transfer: n - i in the code
    out         \* bytes the most recent piperead delivered

vars == <<data, nread, nwrite, readopen, writeopen, freed, lock, open, killed, pc, n, out>>
ring == <<data, nread, nwrite>>
ends == <<readopen, writeopen, freed, open>>

\* Unsigned arithmetic.
Uint(x) == x % WRAP

Used == (nwrite - nread) % WRAP

\* Variant: the ring is full one byte later.
FullLate == nwrite = Uint(nread + PIPESIZE + 1)

Full  == nwrite = Uint(nread + PIPESIZE)
Empty == nread = nwrite

Goto(p, l) == pc' = [pc EXCEPT ![p] = l]

Init ==
    /\ data = [k \in 0 .. PIPESIZE - 1 |-> CHOOSE b \in Bytes : TRUE]
    /\ nread = 0 /\ nwrite = 0
    /\ readopen = TRUE /\ writeopen = TRUE /\ freed = FALSE
    /\ lock = Nobody
    /\ open = Users
    /\ killed = {}
    /\ pc = [p \in Users |-> "user"]
    /\ n = [p \in Users |-> 0]
    /\ out = << >>

\* Variant: a wakeup that is forgotten.
ReadersAsleep(pcs) == pcs

\* wakeup(&pi->nread) and wakeup(&pi->nwrite), given the pc values so far.
ReadersWoken(pcs) == [p \in Users |-> IF pcs[p] = "r_asleep" THEN "r_lock" ELSE pcs[p]]
WritersWoken(pcs) == [p \in Users |-> IF pcs[p] = "w_asleep" THEN "w_lock" ELSE pcs[p]]

-----------------------------------------------------------------------------
\* A process starts a read or a write of k bytes; a killed one exits instead.
call(p, k) ==
    /\ pc[p] = "user" /\ p \in open /\ p \notin killed
    /\ Goto(p, IF p \in Readers THEN "r_lock" ELSE "w_lock")
    /\ n' = [n EXCEPT ![p] = k]
    /\ UNCHANGED <<ring, ends, lock, killed, out>>

\* A turn of pipewrite's loop starts with the lock taken or kept.
WriteTurn(p) ==
    \/ pc[p] = "w_lock" /\ lock = Nobody
    \/ pc[p] = "w_turn"

\* The loop is over, or copyin() fails: wake the readers and return i.
write_done(p) ==
    /\ WriteTurn(p)
    /\ n[p] > 0 => readopen /\ p \notin killed /\ ~Full
    /\ lock' = Nobody
    /\ pc' = ReadersWoken([pc EXCEPT ![p] = "user"])
    /\ n' = [n EXCEPT ![p] = 0]
    /\ UNCHANGED <<ring, ends, killed, out>>

\* The read end is closed, or the writer has been killed: return -1.
write_fails(p) ==
    /\ WriteTurn(p)
    /\ n[p] > 0
    /\ ~readopen \/ p \in killed
    /\ lock' = Nobody
    /\ Goto(p, "user")
    /\ n' = [n EXCEPT ![p] = 0]
    /\ UNCHANGED <<ring, ends, killed, out>>

\* The ring is full: wake the readers and go on to sleep().
write_full(p) ==
    /\ WriteTurn(p)
    /\ n[p] > 0 /\ readopen /\ p \notin killed
    /\ Full
    /\ lock' = p
    /\ pc' = ReadersWoken([pc EXCEPT ![p] = "w_sleep"])
    /\ UNCHANGED <<ring, ends, killed, n, out>>

\* One byte goes into the ring.
write_byte(p, b) ==
    /\ WriteTurn(p)
    /\ n[p] > 0 /\ readopen /\ p \notin killed
    /\ ~Full
    /\ data' = [data EXCEPT ![nwrite % PIPESIZE] = b]
    /\ nwrite' = Uint(nwrite + 1)
    /\ n' = [n EXCEPT ![p] = @ - 1]
    /\ lock' = p
    /\ Goto(p, "w_turn")
    /\ UNCHANGED <<nread, ends, killed, out>>

\* sleep(&pi->nwrite, &pi->lock) and sleep(&pi->nread, &pi->lock).
sleep(p) ==
    /\ pc[p] \in {"w_sleep", "r_sleep"}
    /\ lock' = Nobody
    /\ Goto(p, IF pc[p] = "w_sleep" THEN "w_asleep" ELSE "r_asleep")
    /\ UNCHANGED <<ring, ends, killed, n, out>>

-----------------------------------------------------------------------------
\* Nothing to read yet: a killed reader returns -1, another one goes to sleep.
read_empty(p) ==
    /\ pc[p] = "r_lock" /\ lock = Nobody
    /\ Empty /\ writeopen
    /\ IF p \in killed
       THEN Goto(p, "user") /\ n' = [n EXCEPT ![p] = 0] /\ UNCHANGED lock
       ELSE Goto(p, "r_sleep") /\ lock' = p /\ UNCHANGED n
    /\ UNCHANGED <<ring, ends, killed, out>>

\* piperead's copy loop delivers k bytes: all that it was asked for or can get,
\* or fewer when copyout() fails, which costs the byte that it failed on.
read_copy(p, k) ==
    LET most == IF n[p] < Used THEN n[p] ELSE Used
        gone == IF k < most THEN k + 1 ELSE k
    IN  /\ pc[p] = "r_lock" /\ lock = Nobody
        /\ ~Empty \/ ~writeopen
        /\ k <= most
        /\ out' = [m \in 1 .. k |-> data[Uint(nread + m - 1) % PIPESIZE]]
        /\ nread' = Uint(nread + gone)
        /\ pc' = WritersWoken([pc EXCEPT ![p] = "user"])
        /\ n' = [n EXCEPT ![p] = 0]
        /\ UNCHANGED <<data, nwrite, ends, lock, killed>>

-----------------------------------------------------------------------------
\* Variant: the pipe is freed when one end is closed.
LastEnd(ro, wo) == ~ro \/ ~wo

\* pi->readopen == 0 && pi->writeopen == 0
BothClosed(ro, wo) == ~ro /\ ~wo

\* fileclose() of the process's descriptor, by close() or exit(); pipeclose() runs
\* when it was the last descriptor of its end.
pipeclose(p) ==
    LET last == (open \ {p}) \cap (IF p \in Readers THEN Readers ELSE Writers) = {} IN
    /\ pc[p] = "user" /\ p \in open
    /\ last => lock = Nobody
    /\ open' = open \ {p}
    /\ readopen' = (readopen /\ ~(last /\ p \in Readers))
    /\ writeopen' = (writeopen /\ ~(last /\ p \in Writers))
    /\ freed' = (freed \/ (last /\ BothClosed(readopen', writeopen')))
    /\ pc' = CASE last /\ p \in Writers -> ReadersWoken(pc)
               [] last /\ p \in Readers -> WritersWoken(pc)
               [] OTHER -> pc
    /\ UNCHANGED <<ring, lock, killed, n, out>>

\* kill() marks a process and wakes it from sleep(); it does not take pi->lock.
kill(p) ==
    /\ p \notin killed /\ Cardinality(killed) < MaxKilled
    /\ killed' = killed \cup {p}
    /\ pc' = CASE pc[p] = "r_asleep" -> [pc EXCEPT ![p] = "r_lock"]
               [] pc[p] = "w_asleep" -> [pc EXCEPT ![p] = "w_lock"]
               [] OTHER -> pc
    /\ UNCHANGED <<ring, ends, lock, n, out>>

\* The steps inside a call.
Step(p) ==
    \/ write_done(p) \/ write_fails(p) \/ write_full(p)
    \/ \E b \in Bytes : write_byte(p, b)
    \/ sleep(p)
    \/ read_empty(p)
    \/ \E k \in 0 .. PIPESIZE : read_copy(p, k)

Next ==
    \E p \in Users :
        \/ \E k \in 0 .. MaxN : call(p, k)
        \/ Step(p)
        \/ pipeclose(p)
        \/ kill(p)

Spec == Init /\ [][Next]_vars

-----------------------------------------------------------------------------
Labels == {"user", "r_lock", "r_sleep", "r_asleep", "w_lock", "w_turn", "w_sleep", "w_asleep"}

\* The bytes between the two counters, oldest first.
Contents == [k \in 1 .. Used |-> data[Uint(nread + k - 1) % PIPESIZE]]

Queue == INSTANCE ByteQueue WITH Size <- PIPESIZE, queue <- Contents, out <- out

\* The pipe is a bounded queue: no byte is overwritten, duplicated or reordered,
\* by several readers and writers and when the counters wrap around.
IsByteQueue == Queue!Spec

\* kfree() of the pipe comes after every use of it: both ends are closed and
\* no process is inside a call or can start one.
NoUseAfterFree ==
    freed => open = {} /\ lock = Nobody /\ \A p \in Users : pc[p] = "user"

-----------------------------------------------------------------------------
\* Scheduling: some process inside a call takes a step as long as one can, and every
\* process exits at some time, which closes its descriptor for good.  Nothing
\* decides who of those that spin for the lock gets it.
Fairness == WF_vars(\E p \in Users : Step(p)) /\ SF_vars(\E p \in Users : pipeclose(p))

LiveSpec == Spec /\ Fairness

\* A read or a write returns in the end: the other side makes room or data, or
\* goes away, and either wakes whoever waits.
CallsReturn == \A p \in Users : []<>(pc[p] = "user")
=============================================================================
