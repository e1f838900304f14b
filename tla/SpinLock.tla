------------------------------ MODULE SpinLock ------------------------------
(***************************************************************************)
(* Spinlocks, nested interrupt disabling and the way both cross a context  *)
(* switch (kernel/spinlock.c, and sched() and scheduler() of proc.c).      *)
(*                                                                         *)
(* A hart executes a thread: a process's kernel thread or its own scheduler*)
(* loop.  Threads run arbitrary kernel code that respects the lock order:  *)
(* the locks in Shared by rank, then at most one process lock.  That covers*)
(* what sleep(), wakeup(), yield() and the drivers do.  An interrupt runs  *)
(* its handler on the stack of whatever thread the hart is in, takes locks *)
(* of its own, and may make a process yield.                               *)
(***************************************************************************)
EXTENDS Integers, FiniteSets

CONSTANTS
    CPUs,       \* harts; a hart also names its scheduler thread
    Procs,      \* processes; a process also names its p->lock
    Shared,     \* the ranks of the other spinlocks
    Free        \* owner of a free lock

ASSUME SpinConstants ==
    /\ Shared \subseteq Nat
    /\ CPUs \cap Procs = {} /\ Procs \cap Shared = {}
    /\ Free \notin CPUs

Locks   == Procs \cup Shared
Threads == Procs \cup CPUs

VARIABLES
    owner,      \* lk->cpu while lk->locked, or Free
    sie,        \* interrupts enabled on the hart
    noff,       \* c->noff
    intena,     \* c->intena
    cur,        \* the thread the hart executes
    held,       \* the locks a thread has acquired and not released
    doing,      \* "run", "spin" in acquire(), or "found" in scheduler()
    want,       \* the lock acquire() is spinning for
    saved,      \* local variable intena of sched()
    started,    \* processes that have been through forkret()
    irq,        \* threads inside an interrupt handler
    base,       \* locks the thread held when the handler started
    was         \* history: interrupts before a thread's outermost push_off()

lockVars == <<owner, sie, noff, intena, cur, held, doing, want, saved, started, irq, base, was>>
hart == <<sie, noff, intena>>
handler == <<irq, base>>

LockInit ==
    /\ owner = [l \in Locks |-> Free]
    /\ sie = [c \in CPUs |-> FALSE]
    /\ noff = [c \in CPUs |-> 0]
    /\ intena = [c \in CPUs |-> FALSE]
    /\ cur = [c \in CPUs |-> c]
    /\ held = [t \in Threads |-> {}]
    /\ doing = [t \in Threads |-> "run"]
    /\ want = [t \in Threads |-> Free]
    /\ saved = [p \in Procs |-> FALSE]
    /\ started = {}
    /\ irq = {}
    /\ base = [t \in Threads |-> {}]
    /\ was = [t \in Threads |-> FALSE]

Runs(c, t) == cur[c] = t

-----------------------------------------------------------------------------
\* Variant: interrupts stay as they are.
StayOn(c) == sie[c]

\* intr_off() in push_off().
IntrAfterPush(c) == FALSE

\* push_off(): interrupts off, and c->intena remembers the outermost state.
push_off(c) ==
    /\ sie' = [sie EXCEPT ![c] = IntrAfterPush(c)]
    /\ intena' = [intena EXCEPT ![c] = IF noff[c] = 0 THEN sie[c] ELSE @]
    /\ noff' = [noff EXCEPT ![c] = @ + 1]

\* pop_off(): interrupts come back with the outermost one.
pop_off(c) ==
    /\ noff' = [noff EXCEPT ![c] = @ - 1]
    /\ sie' = [sie EXCEPT ![c] = @ \/ (noff[c] = 1 /\ intena[c])]
    /\ UNCHANGED intena

\* The lock order: shared locks by rank, a process lock last and alone.  A handler
\* does not know what the code that it interrupted holds.
InOrder(t, l) ==
    LET mine == held[t] \ base[t] IN
    /\ mine \cap Procs = {}
    /\ l \in Shared => \A k \in mine : k < l

\* acquire() up to the test-and-set loop.
acquire(c, t, l) ==
    /\ Runs(c, t) /\ doing[t] = "run"
    /\ InOrder(t, l)
    /\ push_off(c)
    /\ was' = IF noff[c] = 0 THEN [was EXCEPT ![t] = sie[c]] ELSE was
    /\ doing' = [doing EXCEPT ![t] = "spin"]
    /\ want' = [want EXCEPT ![t] = l]
    /\ UNCHANGED <<owner, cur, held, saved, started, handler>>

\* Variant: the lock is taken without looking.
TakeAnyway(l) == TRUE

\* The swap found locked = 0.
Swapped(l) == owner[l] = Free

\* The swap succeeds and lk->cpu is set.  A scheduler thread acquires a process
\* lock only to look at the process, unless it is in an interrupt handler.
acquired(c, t) ==
    /\ Runs(c, t) /\ doing[t] = "spin"
    /\ Swapped(want[t])
    /\ owner' = [owner EXCEPT ![want[t]] = c]
    /\ held' = [held EXCEPT ![t] = @ \cup {want[t]}]
    /\ doing' = [doing EXCEPT ![t] = IF t \in CPUs \ irq /\ want[t] \in Procs THEN "found" ELSE "run"]
    /\ want' = [want EXCEPT ![t] = Free]
    /\ UNCHANGED <<hart, cur, saved, started, handler, was>>

\* release(): in any order, not only the last acquired first.
release(c, t, l) ==
    /\ Runs(c, t) /\ doing[t] \in {"run", "found"} /\ l \in held[t] \ base[t]
    /\ owner' = [owner EXCEPT ![l] = Free]
    /\ held' = [held EXCEPT ![t] = @ \ {l}]
    /\ pop_off(c)
    /\ doing' = [doing EXCEPT ![t] = "run"]
    /\ UNCHANGED <<cur, want, saved, started, handler, was>>

-----------------------------------------------------------------------------
\* intr_on() and intr_off() in usertrap(), usertrapret() and scheduler().
intr_set(c, t, on) ==
    /\ Runs(c, t) /\ doing[t] = "run" /\ held[t] = {} /\ t \notin irq
    /\ t \in CPUs => on
    /\ sie' = [sie EXCEPT ![c] = on]
    /\ UNCHANGED <<owner, noff, intena, cur, held, doing, want, saved, started, handler, was>>

\* An interrupt: the hardware disables interrupts and the handler starts.
interrupt(c, t) ==
    /\ Runs(c, t) /\ sie[c]
    /\ irq' = irq \cup {t}
    /\ base' = [base EXCEPT ![t] = held[t]]
    /\ sie' = [sie EXCEPT ![c] = FALSE]
    /\ UNCHANGED <<owner, noff, intena, cur, held, doing, want, saved, started, was>>

\* The handler has released what it took; sret enables interrupts again.
sret(c, t) ==
    /\ Runs(c, t) /\ t \in irq /\ doing[t] = "run" /\ held[t] = base[t]
    /\ irq' = irq \ {t}
    /\ base' = [base EXCEPT ![t] = {}]
    /\ sie' = [sie EXCEPT ![c] = TRUE]
    /\ UNCHANGED <<owner, noff, intena, cur, held, doing, want, saved, started, was>>

-----------------------------------------------------------------------------
\* A thread that reaches sched() holds its own lock.  That it holds no other
\* lock and that interrupts are off, sched()'s other tests, follows from InterruptsOff.
MaySched(t) == doing[t] = "run" /\ t \in held[t] /\ Cardinality(held[t]) = 1

\* sched(): the hart goes on in its scheduler, which holds p->lock now.
sched(c, p) ==
    /\ Runs(c, p) /\ MaySched(p)
    /\ saved' = [saved EXCEPT ![p] = intena[c]]
    /\ cur' = [cur EXCEPT ![c] = c]
    /\ held' = [held EXCEPT ![p] = {}, ![c] = {p}]
    /\ UNCHANGED <<owner, hart, doing, want, started, handler, was>>

\* Variant: sched() does not restore intena.
LeaveIntena(c, p) == intena[c]

\* The end of sched(): mycpu()->intena = intena.  A new process starts in forkret().
RestoredIntena(c, p) == IF p \in started THEN saved[p] ELSE intena[c]

\* scheduler() swtches into the process whose lock it has acquired.
swtch(c, p) ==
    /\ Runs(c, c) /\ doing[c] = "found" /\ held[c] = {p}
    /\ \A d \in CPUs : cur[d] # p
    /\ cur' = [cur EXCEPT ![c] = p]
    /\ held' = [held EXCEPT ![p] = {p}, ![c] = {}]
    /\ intena' = [intena EXCEPT ![c] = RestoredIntena(c, p)]
    /\ was' = IF p \in started THEN was ELSE [was EXCEPT ![p] = intena[c]]
    /\ started' = started \cup {p}
    /\ doing' = [doing EXCEPT ![c] = "run"]
    /\ UNCHANGED <<owner, sie, noff, want, saved, handler>>

LockNext ==
    \/ \E c \in CPUs, t \in Threads :
        \/ \E l \in Locks : release(c, t, l) \/ (acquire(c, t, l) /\ (t \in CPUs \ irq => l \in Procs))
        \/ acquired(c, t)
        \/ \E on \in BOOLEAN : intr_set(c, t, on)
        \/ interrupt(c, t)
        \/ sret(c, t)
    \/ \E c \in CPUs, p \in Procs : sched(c, p) \/ swtch(c, p)

LockSpec == LockInit /\ [][LockNext]_lockVars

-----------------------------------------------------------------------------
\* A lock is held by one thread, and lk->cpu is the hart that executes it: so
\* holding() answers for the thread although it looks at the hart, also after
\* the lock has been handed over in swtch().
MutualExclusion ==
    /\ \A t, u \in Threads : t # u => held[t] \cap held[u] = {}
    /\ \A t \in Threads, l \in Locks : l \in held[t] => owner[l] \in CPUs /\ cur[owner[l]] = t

\* A hart that holds or is acquiring a lock has interrupts off, so no handler
\* of its own can spin on the lock; noff counts exactly these locks.
InterruptsOff ==
    \A c \in CPUs :
        /\ noff[c] = Cardinality(held[cur[c]]) + (IF doing[cur[c]] = "spin" THEN 1 ELSE 0)
        /\ noff[c] > 0 => ~sie[c]

\* acquire()'s panic is not reached: nobody spins for a lock its own hart holds.
NoSelfDeadlock ==
    \A c \in CPUs : doing[cur[c]] = "spin" => owner[want[cur[c]]] # c

\* "intena is a property of this kernel thread, not this CPU" (sched): when the
\* outermost release() of a process runs, perhaps on another hart than its
\* acquire(), interrupts are what they were before the acquire().
InterruptsRestored ==
    [][\A c \in CPUs, p \in Procs :
          cur[c] = p /\ cur'[c] = p /\ noff[c] = 1 /\ noff'[c] = 0 => sie'[c] = was[p]]_lockVars
=============================================================================
