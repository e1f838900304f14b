-------------------------------- MODULE Proc --------------------------------
(***************************************************************************)
(* Processes and the scheduler (kernel/proc.c, and the parts of trap.c     *)
(* that decide when a process yields or exits).  A process is a slot of    *)
(* the table proc[NPROC]; its kernel thread runs on the CPU whose c->proc  *)
(* names it.  fork, exit, wait and kill run on several CPUs at once and    *)
(* are serialised only by wait_lock and by the lock of each slot.          *)
(*                                                                         *)
(* A section of code under a slot's lock is one step, unless the lock is   *)
(* carried into or out of swtch().  wait_lock is held across many steps.   *)
(* A slot's lock, like every spinlock, belongs to a CPU: the scheduler     *)
(* takes it on one thread and the process gives it back on another.        *)
(***************************************************************************)
EXTENDS Integers, FiniteSets

CONSTANTS
    NPROC,      \* slots of the process table
    CPUs,       \* harts
    NoCpu,      \* holder of a free lock
    Traps,      \* what processes do: the calls they make, and faults
    MaxPid,     \* bound: no pid above this one is handed out
    MaxKilled   \* bound: at most this many slots are marked killed at once

ASSUME ProcConstants ==
    /\ NPROC \in Nat \ {0}
    /\ NoCpu \notin CPUs
    /\ Traps \subseteq {"alloc", "wait", "exit", "kill", "fault"}
    /\ MaxPid \in Nat \ {0}
    /\ MaxKilled \in Nat

Slots    == 1 .. NPROC
initproc == 1
None     == 0       \* the null pointer, as a process or as a channel

VARIABLES
    state,      \* p->state
    chan,       \* p->chan: the only channel here is the address of a slot
    killed,     \* p->killed
    pid,        \* p->pid
    parent,     \* p->parent
    lock,       \* CPU that holds p->lock
    wait_lock,  \* CPU that holds wait_lock
    nextpid,    \* nextpid
    proc,       \* c->proc
    pc,         \* where the slot's kernel thread is
    i,          \* the slot its loop over the table has come to
    j           \* the slot its call of wakeup() has come to

vars == <<state, chan, killed, pid, parent, lock, wait_lock, nextpid, proc, pc, i, j>>
table == <<state, chan, killed, pid, parent>>
locks == <<lock, wait_lock>>
loops == <<i, j>>

States == {"UNUSED", "USED", "SLEEPING", "RUNNABLE", "RUNNING", "ZOMBIE"}

\* Labels at which the thread holds no lock, so that a timer interrupt can
\* make it yield; at the others it holds wait_lock and interrupts are off.
Preemptible == {"ret", "alloc", "fork_parent", "fork_run", "wait", "kill", "exit", "panic"}
Waiting     == {"scan", "sleep"}
Exiting     == {"reparent", "rwake", "pwake", "zombie"}
Labels      == {"none", "forkret", "user", "woken", "exited"} \cup Preemptible \cup Waiting \cup Exiting

Unlocked(p) == lock[p] = NoCpu
Kids(p)     == {t \in Slots : parent[t] = p}

\* The thread of p executes on c, past the release of p->lock that follows
\* every swtch into a process.
Runs(c, p) == proc[c] = p /\ state[p] = "RUNNING" /\ lock[p] # c

At(c, p, l) == Runs(c, p) /\ pc[p] = l
Goto(p, l)  == pc' = [pc EXCEPT ![p] = l]

\* After procinit() and userinit(): one process, not yet run.
Init ==
    /\ state = [p \in Slots |-> IF p = initproc THEN "RUNNABLE" ELSE "UNUSED"]
    /\ chan = [p \in Slots |-> None]
    /\ killed = [p \in Slots |-> FALSE]
    /\ pid = [p \in Slots |-> IF p = initproc THEN 1 ELSE 0]
    /\ parent = [p \in Slots |-> None]
    /\ lock = [p \in Slots |-> NoCpu]
    /\ wait_lock = NoCpu
    /\ nextpid = 2
    /\ proc = [c \in CPUs |-> None]
    /\ pc = [p \in Slots |-> IF p = initproc THEN "forkret" ELSE "none"]
    /\ i = [p \in Slots |-> 1]
    /\ j = [p \in Slots |-> 1]

-----------------------------------------------------------------------------
\* Variant: the scheduler looks at the state without taking the lock.
SeenRunnable(p) == state[p] = "RUNNABLE"

\* The scheduler's test, made with p->lock held.
FoundRunnable(p) == Unlocked(p) /\ state[p] = "RUNNABLE"

\* scheduler(): take the lock of a runnable slot and swtch into its thread.
scheduler(c, p) ==
    /\ proc[c] = None
    /\ FoundRunnable(p)
    /\ state' = [state EXCEPT ![p] = "RUNNING"]
    /\ lock' = [lock EXCEPT ![p] = c]
    /\ proc' = [proc EXCEPT ![c] = p]
    /\ UNCHANGED <<chan, killed, pid, parent, wait_lock, nextpid, pc, loops>>

\* The thread goes on after swtch: forkret, yield and sleep release p->lock.
resume(c, p) ==
    /\ proc[c] = p /\ state[p] = "RUNNING" /\ lock[p] = c
    /\ lock' = [lock EXCEPT ![p] = NoCpu]
    /\ chan' = IF pc[p] = "woken" THEN [chan EXCEPT ![p] = None] ELSE chan
    /\ pc' = CASE pc[p] = "forkret" -> [pc EXCEPT ![p] = "user"]
               [] pc[p] = "woken"   -> [pc EXCEPT ![p] = "wait"]
               [] OTHER             -> pc
    /\ UNCHANGED <<state, killed, pid, parent, wait_lock, nextpid, proc, loops>>

\* sched() swtches to the scheduler, which forgets the process and releases
\* the lock that the process took before it changed its state.
sched(c, p) ==
    /\ proc[c] = p /\ state[p] # "RUNNING" /\ lock[p] = c
    /\ proc' = [proc EXCEPT ![c] = None]
    /\ lock' = [lock EXCEPT ![p] = NoCpu]
    /\ UNCHANGED <<table, wait_lock, nextpid, pc, loops>>

\* yield() on a timer interrupt in the kernel.
yield(c, p) ==
    /\ Runs(c, p) /\ pc[p] \in Preemptible
    /\ lock' = [lock EXCEPT ![p] = c]
    /\ state' = [state EXCEPT ![p] = "RUNNABLE"]
    /\ UNCHANGED <<chan, killed, pid, parent, wait_lock, nextpid, proc, pc, loops>>

-----------------------------------------------------------------------------
\* usertrap() on a timer interrupt: a killed process exits, others yield.
timer(c, p) ==
    /\ At(c, p, "user")
    /\ IF killed[p]
       THEN Goto(p, "exit") /\ UNCHANGED <<state, lock>>
       ELSE /\ lock' = [lock EXCEPT ![p] = c]
            /\ state' = [state EXCEPT ![p] = "RUNNABLE"]
            /\ UNCHANGED pc
    /\ UNCHANGED <<chan, killed, pid, parent, wait_lock, nextpid, proc, loops>>

\* The bound on the slots marked killed.
MayMark(t) == Cardinality({q \in Slots : killed[q]} \cup {t}) <= MaxKilled

\* usertrap() on an exception: setkilled(p), and then exit(-1).
fault(c, p) ==
    /\ At(c, p, "user") /\ "fault" \in Traps
    /\ MayMark(p)
    /\ killed' = [killed EXCEPT ![p] = TRUE]
    /\ Goto(p, "exit")
    /\ UNCHANGED <<state, chan, pid, parent, locks, nextpid, proc, loops>>

\* usertrap() on an ecall: a killed process exits instead of entering the call.
syscall(c, p, call) ==
    /\ At(c, p, "user")
    /\ Goto(p, IF killed[p] THEN "exit" ELSE call)
    /\ UNCHANGED <<table, locks, nextpid, proc, loops>>

\* The end of usertrap(): a process killed during the call exits.  The call's
\* loop variable is gone.
usertrapret(c, p) ==
    /\ At(c, p, "ret")
    /\ Goto(p, IF killed[p] THEN "exit" ELSE "user")
    /\ i' = [i EXCEPT ![p] = 1]
    /\ UNCHANGED <<table, locks, nextpid, proc, j>>

-----------------------------------------------------------------------------
freeproc(t) ==
    /\ state' = [state EXCEPT ![t] = "UNUSED"]
    /\ pid' = [pid EXCEPT ![t] = 0]
    /\ parent' = [parent EXCEPT ![t] = None]
    /\ chan' = [chan EXCEPT ![t] = None]
    /\ killed' = [killed EXCEPT ![t] = FALSE]

\* allocpid()'s nextpid = nextpid + 1, up to the bound, and the pid it returns.
NextPid == IF nextpid <= MaxPid THEN nextpid + 1 ELSE nextpid
NewPid  == nextpid

\* One turn of allocproc()'s loop in fork().  A slot that is found becomes USED
\* with the context of forkret, and fork() fills it and releases its lock; or
\* kalloc() or uvmcopy() fails and it is freed again.
allocproc(c, p) ==
    /\ At(c, p, "alloc")
    /\ IF i[p] > NPROC
       THEN /\ Goto(p, "ret")
            /\ UNCHANGED <<table, nextpid, i>>
       ELSE /\ Unlocked(i[p])
            /\ \/ /\ state[i[p]] # "UNUSED"
                  /\ i' = [i EXCEPT ![p] = @ + 1]
                  /\ UNCHANGED <<table, nextpid, pc>>
               \/ /\ state[i[p]] = "UNUSED" /\ nextpid <= MaxPid
                  /\ state' = [state EXCEPT ![i[p]] = "USED"]
                  /\ pid' = [pid EXCEPT ![i[p]] = NewPid]
                  /\ nextpid' = NextPid
                  /\ pc' = [pc EXCEPT ![i[p]] = "forkret", ![p] = "fork_parent"]
                  /\ UNCHANGED <<chan, killed, parent, i>>
               \/ /\ state[i[p]] = "UNUSED"
                  /\ freeproc(i[p])
                  /\ nextpid' = NextPid
                  /\ Goto(p, "ret")
                  /\ UNCHANGED i
    /\ UNCHANGED <<locks, proc, j>>

\* fork(): np->parent = p, under wait_lock.
fork_parent(c, p) ==
    /\ At(c, p, "fork_parent")
    /\ wait_lock = NoCpu
    /\ parent' = [parent EXCEPT ![i[p]] = p]
    /\ Goto(p, "fork_run")
    /\ UNCHANGED <<state, chan, killed, pid, locks, nextpid, proc, loops>>

\* fork(): np->state = RUNNABLE, under np->lock.
fork_run(c, p) ==
    /\ At(c, p, "fork_run")
    /\ Unlocked(i[p])
    /\ state' = [state EXCEPT ![i[p]] = "RUNNABLE"]
    /\ Goto(p, "ret")
    /\ UNCHANGED <<chan, killed, pid, parent, locks, nextpid, proc, loops>>

-----------------------------------------------------------------------------
\* kill() reaches the slot t whose pid it was given.  Pids are unique, but every
\* unused slot has pid 0: kill(0) reaches one of them.
kill(c, p, t) ==
    /\ At(c, p, "kill")
    /\ MayMark(t)
    /\ Unlocked(t)
    /\ killed' = [killed EXCEPT ![t] = TRUE]
    /\ state' = IF state[t] = "SLEEPING" THEN [state EXCEPT ![t] = "RUNNABLE"] ELSE state
    /\ Goto(p, "ret")
    /\ UNCHANGED <<chan, pid, parent, locks, nextpid, proc, loops>>

\* kill() with a pid no slot has.
kill_nobody(c, p) ==
    /\ At(c, p, "kill")
    /\ Goto(p, "ret")
    /\ UNCHANGED <<table, locks, nextpid, proc, loops>>

-----------------------------------------------------------------------------
\* wait(): acquire wait_lock, the first time or on the way out of sleep().
wait(c, p) ==
    /\ At(c, p, "wait")
    /\ wait_lock = NoCpu
    /\ wait_lock' = c
    /\ Goto(p, "scan")
    /\ UNCHANGED <<table, lock, nextpid, proc, loops>>

\* Variant: the child's lock is not taken.
ChildSeen(t) == TRUE

\* wait() acquires the child's lock before it looks at its state.
ChildLocked(t) == Unlocked(t)

\* wait()'s loop comes to t, the next child; the other slots do not concern it.
ScanReaches(c, p, t) ==
    /\ At(c, p, "scan")
    /\ t \in Kids(p) /\ t >= i[p] /\ \A s \in Kids(p) : s < t => s < i[p]
    /\ ChildLocked(t)

\* A zombie child is freed and wait() returns its pid.
reap(c, p, t) ==
    /\ ScanReaches(c, p, t) /\ state[t] = "ZOMBIE"
    /\ freeproc(t)
    /\ wait_lock' = NoCpu
    /\ pc' = [pc EXCEPT ![t] = "none", ![p] = "ret"]
    /\ UNCHANGED <<lock, nextpid, proc, loops>>

\* copyout() of the exit status fails: wait() returns -1 and the zombie stays.
reap_fails(c, p, t) ==
    /\ ScanReaches(c, p, t) /\ state[t] = "ZOMBIE"
    /\ wait_lock' = NoCpu
    /\ Goto(p, "ret")
    /\ UNCHANGED <<table, lock, nextpid, proc, loops>>

\* The child has not exited yet.
scan_child(c, p, t) ==
    /\ ScanReaches(c, p, t) /\ state[t] # "ZOMBIE"
    /\ i' = [i EXCEPT ![p] = t + 1]
    /\ UNCHANGED <<table, locks, nextpid, proc, pc, j>>

\* wait()'s loop is over: !havekids || killed(p).
scan_end(c, p) ==
    /\ At(c, p, "scan") /\ \A t \in Kids(p) : t < i[p]
    /\ IF Kids(p) = {} \/ killed[p]
       THEN wait_lock' = NoCpu /\ Goto(p, "ret")
       ELSE Goto(p, "sleep") /\ UNCHANGED wait_lock
    /\ UNCHANGED <<table, lock, nextpid, proc, loops>>

\* Variant: the lock given to sleep() is kept.
KeepWaitLock == UNCHANGED wait_lock

\* release(lk) in sleep().
DropWaitLock == wait_lock' = NoCpu

\* sleep(p, &wait_lock) up to swtch: take p->lock, then release wait_lock.
sleep(c, p) ==
    /\ At(c, p, "sleep")
    /\ lock' = [lock EXCEPT ![p] = c]
    /\ DropWaitLock
    /\ chan' = [chan EXCEPT ![p] = p]
    /\ state' = [state EXCEPT ![p] = "SLEEPING"]
    /\ Goto(p, "woken")
    /\ i' = [i EXCEPT ![p] = 1]
    /\ UNCHANGED <<killed, pid, parent, nextpid, proc, j>>

-----------------------------------------------------------------------------
\* exit() up to acquire(&wait_lock).
exit(c, p) ==
    /\ At(c, p, "exit")
    /\ IF p = initproc
       THEN Goto(p, "panic") /\ UNCHANGED wait_lock
       ELSE /\ wait_lock = NoCpu
            /\ wait_lock' = c
            /\ Goto(p, "reparent")
    /\ UNCHANGED <<table, lock, nextpid, proc, loops>>

\* Variant: the abandoned children keep their parent.
NobodyAbandoned(p) == {}

\* The children that reparent() has still to give to init.
Abandoned(p) == Kids(p)

\* reparent(): the next child goes to init, and init is woken for it; after the
\* last, exit() goes on to wake its own parent.
reparent(c, p) ==
    /\ At(c, p, "reparent")
    /\ IF Abandoned(p) = {}
       THEN Goto(p, "pwake") /\ UNCHANGED parent
       ELSE \E pp \in Abandoned(p) :
              /\ \A q \in Abandoned(p) : pp <= q
              /\ parent' = [parent EXCEPT ![pp] = initproc] /\ Goto(p, "rwake")
    /\ UNCHANGED <<state, chan, killed, pid, locks, nextpid, proc, loops>>

\* Variant: nobody is woken.
Unwoken(t, ch) == state

\* wakeup()'s change to slot t, and the end of its loop.
Woken(t, ch) ==
    IF state[t] = "SLEEPING" /\ chan[t] = ch
    THEN [state EXCEPT ![t] = "RUNNABLE"] ELSE state
EndOfTable(n) == n > NPROC

\* One turn of the loop of wakeup(ch), which skips the caller, or its end.
wakeup(p, ch, after) ==
    IF EndOfTable(j[p])
    THEN Goto(p, after) /\ j' = [j EXCEPT ![p] = 1] /\ UNCHANGED state
    ELSE /\ j[p] # p => Unlocked(j[p])
         /\ state' = IF j[p] # p THEN Woken(j[p], ch) ELSE state
         /\ j' = [j EXCEPT ![p] = @ + 1]
         /\ UNCHANGED pc

\* wakeup(initproc) in reparent().
wakeup_init(c, p) ==
    /\ At(c, p, "rwake")
    /\ wakeup(p, initproc, "reparent")
    /\ UNCHANGED <<chan, killed, pid, parent, locks, nextpid, proc, i>>

\* wakeup(p->parent) in exit().
wakeup_parent(c, p) ==
    /\ At(c, p, "pwake")
    /\ wakeup(p, parent[p], "zombie")
    /\ UNCHANGED <<chan, killed, pid, parent, locks, nextpid, proc, i>>

\* The end of exit(): p->lock, ZOMBIE, release wait_lock, and into sched().
zombie(c, p) ==
    /\ At(c, p, "zombie")
    /\ lock' = [lock EXCEPT ![p] = c]
    /\ state' = [state EXCEPT ![p] = "ZOMBIE"]
    /\ wait_lock' = NoCpu
    /\ Goto(p, "exited")
    /\ UNCHANGED <<chan, killed, pid, parent, nextpid, proc, loops>>

-----------------------------------------------------------------------------
\* The steps a thread takes by itself once it is in the kernel.
Kernel(c, p) ==
    \/ allocproc(c, p) \/ fork_parent(c, p) \/ fork_run(c, p)
    \/ \E t \in Slots : kill(c, p, t) \/ reap(c, p, t) \/ reap_fails(c, p, t) \/ scan_child(c, p, t)
    \/ kill_nobody(c, p)
    \/ wait(c, p) \/ scan_end(c, p) \/ sleep(c, p)
    \/ exit(c, p) \/ reparent(c, p) \/ wakeup_init(c, p) \/ wakeup_parent(c, p)
    \/ zombie(c, p)
    \/ usertrapret(c, p)

Next ==
    \E c \in CPUs, p \in Slots :
        \/ scheduler(c, p) \/ resume(c, p) \/ sched(c, p) \/ yield(c, p)
        \/ timer(c, p) \/ fault(c, p)
        \/ \E call \in Traps \ {"fault"} : syscall(c, p, call)
        \/ Kernel(c, p)

Spec == Init /\ [][Next]_vars

-----------------------------------------------------------------------------

\* A kernel stack is used by one CPU at a time: no process is on two CPUs, a
\* RUNNING process is on one, and a process that another CPU may schedule or
\* free (not RUNNING, its lock free) is on none, though yield(), sleep() and
\* exit() change its state while they still run on its stack.
OneCpuPerProcess ==
    \A p \in Slots :
        /\ \A c, d \in CPUs : proc[c] = p /\ proc[d] = p => c = d
        /\ state[p] = "RUNNING" => \E c \in CPUs : proc[c] = p
        /\ state[p] # "RUNNING" /\ Unlocked(p) => \A c \in CPUs : proc[c] # p

\* sched() "must hold only p->lock": a CPU on its way into swtch holds neither
\* wait_lock nor the lock of another slot, so what runs next on it cannot
\* deadlock with the process that left.
SwitchHoldsOneLock ==
    \A c \in CPUs, p \in Slots :
        proc[c] = p /\ lock[p] = c =>
            wait_lock # c /\ \A q \in Slots \ {p} : lock[q] # c

\* Whenever nobody is changing the tree under wait_lock, the parent of a process
\* is a live process: exit() has given the children of the dead to init, and
\* wait() frees a zombie only when nothing points to it.
ParentIsAlive ==
    wait_lock = NoCpu =>
        \A p \in Slots :
            /\ state[p] \in {"SLEEPING", "RUNNABLE", "RUNNING", "ZOMBIE"} /\ p # initproc => parent[p] # None
            /\ parent[p] # None => state[parent[p]] \in {"SLEEPING", "RUNNABLE", "RUNNING"}

\* No exit is missed: while wait_lock is free, a parent asleep in wait() has no
\* zombie child, although exit() wakes it before it becomes a zombie.
NoZombieUnnoticed ==
    wait_lock = NoCpu =>
        \A p, t \in Slots :
            state[p] = "SLEEPING" /\ parent[t] = p => state[t] # "ZOMBIE"

\* A zombie keeps its slot until its own parent, inside wait(), frees it, and
\* by then no CPU is on the zombie's stack any more.
ReapedByParent ==
    [][\A t \in Slots :
          state[t] = "ZOMBIE" /\ state'[t] # "ZOMBIE" =>
              /\ state'[t] = "UNUSED"
              /\ \E c \in CPUs : proc[c] = parent[t] /\ wait_lock = c /\ pc[parent[t]] = "scan"
              /\ \A c \in CPUs : proc[c] # t]_vars
=============================================================================
