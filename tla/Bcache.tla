------------------------------- MODULE Bcache -------------------------------
(***************************************************************************)
(* The buffer cache (kernel/bio.c) and the sleep locks of its buffers      *)
(* (kernel/sleeplock.c).  bcache.lock protects which buffer holds which    *)
(* block, the reference counts and the LRU list; a buffer's sleep lock     *)
(* protects its contents.  bget() releases the first before it waits for   *)
(* the second, and brelse() releases the second before it takes the first: *)
(* in both gaps only the reference count ties the buffer to its block.     *)
(*                                                                         *)
(* The clients are the file system, which changes a buffer and has the log *)
(* pin it, and the log, which writes a pinned buffer to its home and       *)
(* unpins it (kernel/log.c); both release no buffer that is neither        *)
(* written nor pinned.  A process has one buffer at a time.                *)
(***************************************************************************)
EXTENDS Integers, FiniteSets

CONSTANTS
    Procs,
    Blocks,     \* blocks of the disk
    NBUF,       \* buffers
    MaxPins,    \* bound: buffers the log has pinned
    Nobody,     \* holder of a free lock; no block
    Data

ASSUME BcacheConstants ==
    /\ IsFiniteSet(Procs)
    /\ NBUF \in Nat \ {0} /\ MaxPins \in Nat
    /\ Nobody \notin Procs \cup Blocks

Bufs == 1 .. NBUF
head == 0
Ring == Bufs \cup {head}

VARIABLES
    blockno, valid, refcnt, data,   \* fields of struct buf
    next, prev,                     \* the LRU list through the buffers and head
    lock,                           \* holder of the buffer's sleep lock
    pinned,                         \* buffers in the log's transaction
    platter,                        \* contents of the disk
    pc,                             \* where a process is
    want,                           \* the block it asked for
    cur                             \* its buffer

vars == <<blockno, valid, refcnt, data, next, prev, lock, pinned, platter, pc, want, cur>>
list == <<next, prev>>
call == <<want, cur>>

\* binit(): each buffer is linked in behind the head, so the last one is first.
Init ==
    /\ blockno = [b \in Bufs |-> Nobody]
    /\ valid = [b \in Bufs |-> FALSE]
    /\ refcnt = [b \in Bufs |-> 0]
    /\ \E v \in Data : data = [b \in Bufs |-> v]
    /\ next = [b \in Ring |-> IF b = head THEN NBUF ELSE b - 1]
    /\ prev = [b \in Ring |-> IF b = NBUF THEN head ELSE b + 1]
    /\ lock = [b \in Bufs |-> Nobody]
    /\ pinned = {}
    /\ platter \in [Blocks -> Data]
    /\ pc = [p \in Procs |-> "idle"]
    /\ want = [p \in Procs |-> Nobody]
    /\ cur = [p \in Procs |-> head]

Goto(p, l) == pc' = [pc EXCEPT ![p] = l]

\* The place of a buffer in the list, counted from the most recently used.
Place[b \in Ring] == IF b = head THEN 0 ELSE 1 + Place[prev[b]]

-----------------------------------------------------------------------------
Cached(k) == {b \in Bufs : blockno[b] = k}

\* bget()'s first loop ends without finding the block.
NotCached(k) == Cached(k) = {}

\* Variant: a buffer is reused although somebody has a reference to it.
ReuseUnlocked(b) == lock[b] = Nobody

\* bget()'s test for a buffer it may reuse.
Unused(b) == refcnt[b] = 0

\* bget() finds the block cached and takes a reference to its buffer.
bget_hit(p, k) ==
    /\ pc[p] = "idle"
    /\ \E b \in Cached(k) :
          /\ \A a \in Cached(k) : Place[b] <= Place[a]
          /\ refcnt' = [refcnt EXCEPT ![b] = @ + 1]
          /\ cur' = [cur EXCEPT ![p] = b]
    /\ want' = [want EXCEPT ![p] = k]
    /\ Goto(p, "lock")
    /\ UNCHANGED <<blockno, valid, data, list, lock, pinned, platter>>

\* bget() reuses the least recently used of the buffers without reference.
bget_miss(p, k) ==
    /\ pc[p] = "idle" /\ NotCached(k)
    /\ \E b \in Bufs :
          /\ Unused(b) /\ \A a \in Bufs : Unused(a) => Place[a] <= Place[b]
          /\ blockno' = [blockno EXCEPT ![b] = k]
          /\ valid' = [valid EXCEPT ![b] = FALSE]
          /\ refcnt' = [refcnt EXCEPT ![b] = 1]
          /\ cur' = [cur EXCEPT ![p] = b]
    /\ want' = [want EXCEPT ![p] = k]
    /\ Goto(p, "lock")
    /\ UNCHANGED <<data, list, lock, pinned, platter>>

\* panic("bget: no buffers").
bget_panic(p, k) ==
    /\ pc[p] = "idle" /\ NotCached(k) /\ \A b \in Bufs : ~Unused(b)
    /\ Goto(p, "panic")
    /\ UNCHANGED <<blockno, valid, refcnt, data, list, lock, pinned, platter, call>>

\* acquiresleep(): sleep while the lock is taken; a sleeper that is woken tries again.
acquiresleep(p) ==
    LET b == cur[p] IN
    /\ pc[p] = "lock"
    /\ IF lock[b] # Nobody
       THEN Goto(p, "asleep") /\ UNCHANGED lock
       ELSE /\ lock' = [lock EXCEPT ![b] = p]
            /\ Goto(p, IF valid[b] THEN "held" ELSE "fill")
    /\ UNCHANGED <<blockno, valid, refcnt, data, list, pinned, platter, call>>

\* kill() makes a process that sleeps for a lock runnable.
kill(p) ==
    /\ pc[p] = "asleep"
    /\ Goto(p, "lock")
    /\ UNCHANGED <<blockno, valid, refcnt, data, list, lock, pinned, platter, call>>

\* bread() of a block that is not in memory.
bread(p) ==
    LET b == cur[p] IN
    /\ pc[p] = "fill"
    /\ data' = [data EXCEPT ![b] = platter[blockno[b]]]
    /\ valid' = [valid EXCEPT ![b] = TRUE]
    /\ Goto(p, "held")
    /\ UNCHANGED <<blockno, refcnt, list, lock, pinned, platter, call>>

\* The caller changes the block.
modify(p, v) ==
    /\ pc[p] \in {"held", "dirty"}
    /\ data' = [data EXCEPT ![cur[p]] = v]
    /\ Goto(p, "dirty")
    /\ UNCHANGED <<blockno, valid, refcnt, list, lock, pinned, platter, call>>

\* Variant: absorption is forgotten.
PinAgain(b) == [refcnt EXCEPT ![b] = @ + 1]

\* bpin(), for a block that is not in the transaction yet.
Pinned(b) == IF b \in pinned THEN refcnt ELSE [refcnt EXCEPT ![b] = @ + 1]

\* log_write(): the changed buffer is pinned, once.
bpin(p) ==
    LET b == cur[p] IN
    /\ pc[p] = "dirty"
    /\ b \in pinned \/ Cardinality(pinned) < MaxPins
    /\ pinned' = pinned \cup {b}
    /\ refcnt' = Pinned(b)
    /\ Goto(p, "held")
    /\ UNCHANGED <<blockno, valid, data, list, lock, platter, call>>

\* bwrite(): the buffer goes to the disk.
bwrite(p) ==
    LET b == cur[p] IN
    /\ pc[p] \in {"held", "dirty"}
    /\ platter' = [platter EXCEPT ![blockno[b]] = data[b]]
    /\ Goto(p, "written")
    /\ UNCHANGED <<blockno, valid, refcnt, data, list, lock, pinned, call>>

\* install_trans(): bunpin() of the buffer just written.
bunpin(p) ==
    LET b == cur[p] IN
    /\ pc[p] = "written" /\ b \in pinned
    /\ pinned' = pinned \ {b}
    /\ refcnt' = [refcnt EXCEPT ![b] = @ - 1]
    /\ Goto(p, "held")
    /\ UNCHANGED <<blockno, valid, data, list, lock, platter, call>>

\* Variant: nobody is woken.
SleepOn(b, f) == f

\* wakeup(lk) of those asleep on the buffer's lock.
Awake(b, f) == [p \in Procs |-> IF f[p] = "asleep" /\ cur[p] = b THEN "lock" ELSE f[p]]

\* brelse() up to releasesleep().
releasesleep(p) ==
    LET b == cur[p] IN
    /\ pc[p] \in {"held", "written"}
    /\ lock' = [lock EXCEPT ![b] = Nobody]
    /\ pc' = Awake(b, [pc EXCEPT ![p] = "drop"])
    /\ want' = [want EXCEPT ![p] = Nobody]
    /\ UNCHANGED <<blockno, valid, refcnt, data, list, pinned, platter, cur>>

\* Unlink the buffer, then link it in behind the head.
MoveToHead(b) ==
    LET n == [next EXCEPT ![prev[b]] = next[b]]
        q == [prev EXCEPT ![next[b]] = prev[b]]
    IN /\ next' = [n EXCEPT ![b] = n[head], ![head] = b]
       /\ prev' = [q EXCEPT ![b] = head, ![n[head]] = b]

\* b->refcnt--.
Dropped(b) == [refcnt EXCEPT ![b] = @ - 1]

\* The rest of brelse(): drop the reference, and move a buffer nobody waits for.
brelse(p) ==
    LET b == cur[p] IN
    /\ pc[p] = "drop"
    /\ refcnt' = Dropped(b)
    /\ IF refcnt[b] = 1 THEN MoveToHead(b) ELSE UNCHANGED list
    /\ cur' = [cur EXCEPT ![p] = head]
    /\ Goto(p, "idle")
    /\ UNCHANGED <<blockno, valid, data, lock, pinned, platter, want>>

-----------------------------------------------------------------------------
Next ==
    \E p \in Procs :
        \/ \E k \in Blocks : bget_hit(p, k) \/ bget_miss(p, k) \/ bget_panic(p, k)
        \/ acquiresleep(p) \/ kill(p) \/ bread(p)
        \/ \E v \in Data : modify(p, v)
        \/ bpin(p) \/ bwrite(p) \/ bunpin(p)
        \/ releasesleep(p) \/ brelse(p)

Spec == Init /\ [][Next]_vars

-----------------------------------------------------------------------------

Holds(p, k) == pc[p] \in {"held", "dirty", "written"} /\ blockno[cur[p]] = k

Owner(k) == IF \E p \in Procs : Holds(p, k) THEN CHOOSE p \in Procs : Holds(p, k) ELSE Nobody

\* A block's contents: those of the buffer that caches it, or those on disk.
Content(k) ==
    IF \E b \in Cached(k) : valid[b] THEN data[CHOOSE b \in Cached(k) : valid[b]] ELSE platter[k]

Store == INSTANCE BlockStore WITH owner <- [k \in Blocks |-> Owner(k)],
                                  content <- [k \in Blocks |-> Content(k)]

\* The cache implements BlockStore: bread() returns the block that was asked for,
\* locked, with what was last written to it, though its buffer may have been
\* reused and the block read again in between.
IsBlockStore == Store!Spec

\* A buffer's reference count is the number of processes between bget() and the
\* end of brelse() plus the log's pin: none is counted twice or dropped early.
RefcntExact ==
    \A b \in Bufs :
        refcnt[b] = Cardinality({p \in Procs : cur[p] = b}) + (IF b \in pinned THEN 1 ELSE 0)

\* A process asleep in acquiresleep() has somebody to wake it.
LockSleepersHaveHolder ==
    \A p \in Procs : pc[p] = "asleep" => lock[cur[p]] # Nobody
=============================================================================
