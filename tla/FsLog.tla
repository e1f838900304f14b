------------------------------- MODULE FsLog --------------------------------
(***************************************************************************)
(* The write-ahead redo log of the file system (kernel/log.c) on top of a  *)
(* write-through buffer cache (kernel/bio.c) and a disk whose single-block *)
(* writes are atomic.  Processes run file-system calls concurrently; the   *)
(* last call to end commits for all of them, one disk write per step, and  *)
(* the machine can stop between any two steps and recover at the next boot.*)
(*                                                                         *)
(* Every section of log.c under log.lock is one step.  commit() runs       *)
(* without the lock and takes one step per block it writes.  The lock and  *)
(* sleep(&log, &log.lock) are used through what sleep() promises: giving   *)
(* up the lock and going to sleep is one step.                             *)
(***************************************************************************)
EXTENDS Integers, Sequences, FiniteSets

CONSTANTS
    Procs,          \* processes that make file-system calls
    InitProc,       \* the first process: runs fsinit() and so the recovery
    Blocks,         \* home blocks: everything outside the log
    Data,           \* contents a block can have
    Zero,           \* contents of a block mkfs wrote
    NotCached,      \* no buffer of the cache holds the block
    MAXOPBLOCKS,    \* what begin_op reserves for a call
    LOGSIZE,        \* entries of the log header
    nlog,           \* blocks of the on-disk log, its header included
    OpBlocks        \* distinct blocks one call really writes, at most

ASSUME LogConstants ==
    /\ InitProc \in Procs
    /\ IsFiniteSet(Procs)
    /\ Zero \in Data
    /\ NotCached \notin Data
    /\ MAXOPBLOCKS \in Nat \ {0}
    /\ LOGSIZE \in Nat \ {0}
    /\ nlog \in Nat \ {0}
    /\ OpBlocks \in Nat

VARIABLES
    disk,           \* home blocks on disk
    logdata,        \* data blocks of the on-disk log
    dhead,          \* header block of the on-disk log: the logged block numbers
    cache,          \* contents of the cached home blocks
    pin,            \* references the log holds on the buffer of a block
    lh,             \* log.lh: block numbers logged in memory
    outstanding,    \* log.outstanding
    committing,     \* log.committing
    pc,             \* where each process is
    tail,           \* loop index of write_log() and install_trans()
    wrote,          \* blocks the process's current call has written
    panicked        \* message of the panic that stopped the kernel, or "no"

diskVars == <<disk, logdata, dhead>>
logVars  == <<lh, outstanding, committing>>
procVars == <<pc, tail, wrote>>
vars     == <<disk, logdata, dhead, cache, pin, lh, outstanding, committing,
              pc, tail, wrote, panicked>>

\* Data blocks of the on-disk log: log.start+1 up to log.start+nlog-1.
LogSlots == 1 .. nlog - 1

RecoveryPcs == {"read_head", "r_install", "r_clear"}
CommitPcs   == {"commit", "write_log", "write_head", "install", "clear", "done"}
Pcs == {"off", "idle", "begin", "asleep", "op"} \cup RecoveryPcs \cup CommitPcs

Goto(p, l) == pc' = [pc EXCEPT ![p] = l]

\* bread(b)->data: the cached copy, or the home block read from disk.
BufData(b) == IF cache[b] # NotCached THEN cache[b] ELSE disk[b]

Logged(b) == \E i \in 1 .. Len(lh) : lh[i] = b

\* Variant: the wakeup is forgotten.
NotWoken(pcs) == pcs

\* wakeup(&log), given the pc values the rest of the step leaves.
Woken(pcs) == [p \in Procs |-> IF pcs[p] = "asleep" THEN "begin" ELSE pcs[p]]

-----------------------------------------------------------------------------
\* A machine that is powered on: nothing in memory, whatever is on the disk.
BootPc == [p \in Procs |-> IF p = InitProc THEN "read_head" ELSE "off"]

Init ==
    /\ disk = [b \in Blocks |-> Zero]
    /\ logdata = [i \in LogSlots |-> Zero]
    /\ dhead = << >>
    /\ cache = [b \in Blocks |-> NotCached]
    /\ pin = [b \in Blocks |-> 0]
    /\ lh = << >>
    /\ outstanding = 0
    /\ committing = FALSE
    /\ pc = BootPc
    /\ tail = [p \in Procs |-> 1]
    /\ wrote = [p \in Procs |-> {}]
    /\ panicked = "no"

\* The machine stops, whatever it was doing, and is switched on again.
Crash ==
    /\ cache' = [b \in Blocks |-> NotCached]
    /\ pin' = [b \in Blocks |-> 0]
    /\ lh' = << >>
    /\ outstanding' = 0
    /\ committing' = FALSE
    /\ pc' = BootPc
    /\ tail' = [p \in Procs |-> 1]
    /\ wrote' = [p \in Procs |-> {}]
    /\ panicked' = "no"
    /\ UNCHANGED diskVars

\* log.lock can be acquired: every section takes it and gives it back in one
\* step, except that a panic stops its CPU while it holds the lock.
LockFree == panicked = "no"

panic(msg) ==
    /\ panicked' = msg
    /\ UNCHANGED <<diskVars, cache, pin, logVars, procVars>>

-----------------------------------------------------------------------------
\* Variant: the new call's own reservation is not counted.
AdmitOneMore == ~committing /\ Len(lh) + outstanding * MAXOPBLOCKS <= LOGSIZE

\* begin_op's two tests, turned around: no commit, and the reservation fits.
Admit == ~committing /\ Len(lh) + (outstanding + 1) * MAXOPBLOCKS <= LOGSIZE

\* One turn of begin_op's loop; "begin" is a process that wakeup(&log) woke.
begin_op(p) ==
    /\ pc[p] \in {"idle", "begin"}
    /\ LockFree
    /\ IF Admit
       THEN /\ outstanding' = outstanding + 1
            /\ wrote' = [wrote EXCEPT ![p] = {}]
            /\ Goto(p, "op")
       ELSE /\ Goto(p, "asleep")
            /\ UNCHANGED <<outstanding, wrote>>
    /\ UNCHANGED <<diskVars, cache, pin, lh, committing, tail, panicked>>

\* Variant: the block is not pinned.
RecordUnpinned(b) ==
    /\ lh' = IF Logged(b) THEN lh ELSE Append(lh, b)
    /\ UNCHANGED pin

\* The block joins the in-memory header and is pinned, unless it is there.
RecordBlock(b) ==
    IF Logged(b)
    THEN UNCHANGED <<lh, pin>>
    ELSE /\ lh' = Append(lh, b)
         /\ pin' = [pin EXCEPT ![b] = @ + 1]

\* bread, change the data, log_write, brelse: the buffer stays locked from
\* the first to the last, so no other process sees a state in between.
log_write(p, b, v) ==
    /\ pc[p] = "op"
    /\ LockFree
    /\ Cardinality(wrote[p] \cup {b}) <= OpBlocks
    /\ IF Len(lh) >= LOGSIZE \/ Len(lh) >= nlog - 1
       THEN panic("too big a transaction")
       ELSE IF outstanding < 1
       THEN panic("log_write outside of trans")
       ELSE /\ cache' = [cache EXCEPT ![b] = v]
            /\ RecordBlock(b)
            /\ wrote' = [wrote EXCEPT ![p] = @ \cup {b}]
            /\ UNCHANGED <<diskVars, outstanding, committing, pc, tail, panicked>>

end_op(p) ==
    /\ pc[p] = "op"
    /\ LockFree
    /\ IF committing
       THEN panic("log.committing")
       ELSE /\ outstanding' = outstanding - 1
            /\ committing' = (outstanding = 1)
            /\ pc' = IF outstanding = 1
                     THEN [pc EXCEPT ![p] = "commit"]
                     ELSE Woken([pc EXCEPT ![p] = "idle"])
            /\ wrote' = [wrote EXCEPT ![p] = {}]
            /\ UNCHANGED <<diskVars, cache, pin, lh, tail, panicked>>

-----------------------------------------------------------------------------
\* Variant: the header is not written.
KeepHead == UNCHANGED dhead

\* write_head(): the in-memory header replaces the on-disk one in one write.
PutHead == dhead' = lh

\* Variant: the loop skips a block.
SkipTail(p) == [tail EXCEPT ![p] = @ + 2]

\* tail++ in write_log, and in install_trans.
NextTail(p)    == [tail EXCEPT ![p] = @ + 1]
NextInstall(p) == [tail EXCEPT ![p] = @ + 1]

\* bunpin in install_trans: a recovered block was never pinned.
Unpinned(b, recovering) == IF recovering THEN pin ELSE [pin EXCEPT ![b] = @ - 1]

commit(p) ==
    /\ pc[p] = "commit"
    /\ Goto(p, IF Len(lh) > 0 THEN "write_log" ELSE "done")
    /\ tail' = [tail EXCEPT ![p] = 1]
    /\ UNCHANGED <<diskVars, cache, pin, logVars, wrote, panicked>>

\* One turn of write_log's loop: a logged block goes from the cache to the log.
write_log(p) ==
    /\ pc[p] = "write_log"
    /\ IF tail[p] <= Len(lh)
       THEN /\ logdata' = [logdata EXCEPT ![tail[p]] = BufData(lh[tail[p]])]
            /\ cache' = [cache EXCEPT ![lh[tail[p]]] = BufData(lh[tail[p]])]
            /\ tail' = NextTail(p)
            /\ UNCHANGED pc
       ELSE /\ Goto(p, "write_head")
            /\ UNCHANGED <<logdata, cache, tail>>
    /\ UNCHANGED <<disk, dhead, pin, logVars, wrote, panicked>>

\* write_head() in commit(): from here on a reboot replays the transaction.
write_head(p) ==
    /\ pc[p] = "write_head"
    /\ PutHead
    /\ Goto(p, "install")
    /\ tail' = [tail EXCEPT ![p] = 1]
    /\ UNCHANGED <<disk, logdata, cache, pin, logVars, wrote, panicked>>

\* One turn of install_trans's loop, or, after the last, log.lh.n = 0.
install_trans(p, recovering) ==
    /\ pc[p] = IF recovering THEN "r_install" ELSE "install"
    /\ IF tail[p] <= Len(lh)
       THEN LET b == lh[tail[p]] IN
            /\ disk' = [disk EXCEPT ![b] = logdata[tail[p]]]
            /\ cache' = [cache EXCEPT ![b] = logdata[tail[p]]]
            /\ pin' = Unpinned(b, recovering)
            /\ tail' = NextInstall(p)
            /\ UNCHANGED <<lh, pc>>
       ELSE /\ lh' = << >>
            /\ Goto(p, IF recovering THEN "r_clear" ELSE "clear")
            /\ UNCHANGED <<disk, cache, pin, tail>>
    /\ UNCHANGED <<logdata, dhead, outstanding, committing, wrote, panicked>>

\* The second write_head() of commit() erases the transaction from the log.
clear_head(p) ==
    /\ pc[p] = "clear"
    /\ PutHead
    /\ Goto(p, "done")
    /\ UNCHANGED <<disk, logdata, cache, pin, logVars, tail, wrote, panicked>>

\* The tail of end_op in the committing process.
end_commit(p) ==
    /\ pc[p] = "done"
    /\ LockFree
    /\ committing' = FALSE
    /\ pc' = Woken([pc EXCEPT ![p] = "idle"])
    /\ UNCHANGED <<diskVars, cache, pin, lh, outstanding, tail, wrote, panicked>>

-----------------------------------------------------------------------------
\* recover_from_log(), run by fsinit() before any other process exists.
read_head(p) ==
    /\ pc[p] = "read_head"
    /\ lh' = dhead
    /\ tail' = [tail EXCEPT ![p] = 1]
    /\ Goto(p, "r_install")
    /\ UNCHANGED <<diskVars, cache, pin, outstanding, committing, wrote, panicked>>

\* write_head() with n = 0 ends the recovery; processes can now run.
recover_clear(p) ==
    /\ pc[p] = "r_clear"
    /\ PutHead
    /\ pc' = [q \in Procs |-> "idle"]
    /\ UNCHANGED <<disk, logdata, cache, pin, logVars, tail, wrote, panicked>>

\* bget() recycles the buffer of a block nobody references: no write-back.
Evict(b) ==
    /\ cache[b] # NotCached
    /\ pin[b] = 0
    /\ cache' = [cache EXCEPT ![b] = NotCached]
    /\ UNCHANGED <<diskVars, pin, logVars, procVars, panicked>>

Next ==
    \/ \E p \in Procs :
        \/ begin_op(p)
        \/ \E b \in Blocks, v \in Data : log_write(p, b, v)
        \/ end_op(p)
        \/ commit(p)
        \/ write_log(p)
        \/ write_head(p)
        \/ \E recovering \in BOOLEAN : install_trans(p, recovering)
        \/ clear_head(p)
        \/ end_commit(p)
        \/ read_head(p)
        \/ recover_clear(p)
    \/ \E b \in Blocks : Evict(b)
    \/ Crash

Spec == Init /\ [][Next]_vars

-----------------------------------------------------------------------------
\* Types of the variables.
TypeOK ==
    /\ disk \in [Blocks -> Data]
    /\ logdata \in [LogSlots -> Data]
    /\ dhead \in Seq(Blocks)
    /\ cache \in [Blocks -> Data \cup {NotCached}]
    /\ pin \in [Blocks -> Nat]
    /\ lh \in Seq(Blocks)
    /\ outstanding \in Nat
    /\ committing \in BOOLEAN
    /\ pc \in [Procs -> Pcs]
    /\ tail \in [Procs -> Nat \ {0}]
    /\ wrote \in [Procs -> SUBSET Blocks]
    /\ panicked \in {"no", "too big a transaction", "log_write outside of trans",
                     "log.committing"}

\* "The logging system only commits when there are no FS system calls active"
\* (log.c, first comment): while one process is inside commit(), no other is,
\* and no process is between begin_op and end_op.
CommitsAlone ==
    \A p, q \in Procs :
        pc[p] \in CommitPcs /\ q # p => pc[q] \notin CommitPcs \cup {"op"}

\* The write-ahead rule: a home block changes on disk only to what the on-disk
\* log already holds for it under a header that lists it, so that a crash
\* after the write can still redo it (commit: write_head before install_trans).
WriteAhead ==
    [][\A b \in Blocks : disk'[b] # disk[b] =>
          \E i \in 1 .. Len(dhead) : dhead[i] = b /\ logdata[i] = disk'[b]]_vars

\* The log's pins are exactly right: a buffer whose block is logged and not yet
\* installed is in the cache and pinned once, so it can be neither recycled
\* before commit() reads it nor kept for ever after install_trans unpins it.
Uninstalled(b) ==
    \E i \in 1 .. Len(lh) :
        lh[i] = b /\ \A p \in Procs : pc[p] = "install" => tail[p] <= i

PinnedWhileLogged ==
    ~(pc[InitProc] \in RecoveryPcs) =>
        \A b \in Blocks : IF Uninstalled(b) THEN pin[b] = 1 /\ cache[b] # NotCached
                                            ELSE pin[b] = 0

\* begin_op's reservation is enough: log_write never finds the log full, and
\* none of the log's other panics is reached.
NoPanic == panicked = "no"

-----------------------------------------------------------------------------
(***************************************************************************)
(* Why the log is right, as one inductive invariant: who can be where, what *)
(* the two headers say, how far the running loop has come, and when a      *)
(* cached block may differ from its home block.                            *)
(***************************************************************************)
Active  == {p \in Procs : pc[p] = "op"}
Booting == pc[InitProc] \in RecoveryPcs

WhoInv ==
    /\ \A p \in Procs : Booting /\ p # InitProc => pc[p] = "off"
    /\ \A p \in Procs : ~Booting => pc[p] \notin RecoveryPcs
    /\ Booting => ~committing /\ outstanding = 0
    /\ outstanding = Cardinality(Active)
    /\ \A p \in Procs : pc[p] \in CommitPcs => committing /\ Active = {}
    /\ CommitsAlone

HeadInv ==
    /\ \A i, j \in 1 .. Len(lh) : lh[i] = lh[j] => i = j
    /\ \A i, j \in 1 .. Len(dhead) : dhead[i] = dhead[j] => i = j
    /\ Len(lh) <= nlog - 1
    /\ Len(dhead) <= nlog - 1
    /\ \A p \in Procs : pc[p] \in {"install", "r_install"} => lh = dhead
    /\ \A p \in Procs : pc[p] \in {"read_head", "clear", "r_clear", "done"} => lh = << >>
    /\ ~Booting /\ (\A p \in Procs : pc[p] \notin {"install", "clear"}) => dhead = << >>

LoopInv ==
    \A p \in Procs :
        /\ pc[p] = "write_log" => \A j \in 1 .. Len(lh) :
                j < tail[p] => logdata[j] = BufData(lh[j])
        /\ pc[p] \in {"write_head", "install"} => \A j \in 1 .. Len(lh) :
                logdata[j] = BufData(lh[j])
        /\ pc[p] \in {"install", "r_install"} => \A j \in 1 .. Len(dhead) :
                j < tail[p] => disk[dhead[j]] = logdata[j]
        /\ pc[p] \in {"clear", "r_clear"} => \A j \in 1 .. Len(dhead) :
                disk[dhead[j]] = logdata[j]

CacheInv ==
    \A b \in Blocks :
        /\ Booting \/ ~Logged(b) => BufData(b) = disk[b]
        /\ Booting => pin[b] = 0

\* The inductive invariant behind AtomicCommit, CommitsAlone, PinnedWhileLogged
\* and WriteAhead.
LogInv == TypeOK /\ WhoInv /\ HeadInv /\ LoopInv /\ CacheInv /\ PinnedWhileLogged

-----------------------------------------------------------------------------
\* What a reboot would find: the home blocks overlaid with the blocks of the
\* transaction that the on-disk header says is committed.
LogicalDisk ==
    [b \in Blocks |->
        IF \E i \in 1 .. Len(dhead) : dhead[i] = b
        THEN logdata[CHOOSE i \in 1 .. Len(dhead) : dhead[i] = b]
        ELSE disk[b]]

\* What a bread would return; before recovery is over nobody reads.
LogicalMemory ==
    IF pc[InitProc] \in RecoveryPcs THEN LogicalDisk ELSE [b \in Blocks |-> BufData(b)]

Tx == INSTANCE TxDisk WITH
        durable <- LogicalDisk,
        current <- LogicalMemory,
        active  <- {p \in Procs : pc[p] = "op"}

\* The log implements atomic group commit: calls' writes become durable all
\* together, only when no call is half done, and a crash at any disk write of
\* commit() or of the recovery loses exactly the writes not yet committed.
AtomicCommit == Tx!Spec

-----------------------------------------------------------------------------
\* Scheduling: a process that can take a kernel step takes it, and a file-system
\* call ends.  Nothing makes a process start a call, write, or the machine stop.
Advance(p) ==
    \/ pc[p] = "begin" /\ begin_op(p)
    \/ end_op(p)
    \/ commit(p) \/ write_log(p) \/ write_head(p)
    \/ install_trans(p, TRUE) \/ install_trans(p, FALSE)
    \/ clear_head(p) \/ end_commit(p)
    \/ read_head(p) \/ recover_clear(p)

Fairness == \A p \in Procs : WF_vars(Advance(p))

LiveSpec == Spec /\ Fairness

\* A process that begin_op put to sleep is woken, unless the machine stops.
SleepersWake ==
    \A p \in Procs : []<>(pc[p] # "asleep")
=============================================================================
