----------------------------- MODULE ProcProofs ------------------------------
(***************************************************************************)
(* Proofs about the process table and the scheduler, for any number of     *)
(* slots and harts.  The invariant says which CPU is on which kernel stack *)
(* and holds which lock, what every state of a slot says of its thread,    *)
(* that the process tree has live parents also while it is being changed,  *)
(* and what exit() and wait() know of each other under wait_lock.          *)
(***************************************************************************)
EXTENDS Proc, TLAPS

Live  == {"SLEEPING", "RUNNABLE", "RUNNING"}
Locked == Waiting \cup Exiting

TypeOK ==
    /\ state \in [Slots -> States]
    /\ chan \in [Slots -> Slots \cup {None}]
    /\ parent \in [Slots -> Slots \cup {None}]
    /\ lock \in [Slots -> CPUs \cup {NoCpu}]
    /\ wait_lock \in CPUs \cup {NoCpu}
    /\ proc \in [CPUs -> Slots \cup {None}]
    /\ pc \in [Slots -> Labels]
    /\ i \in [Slots -> 1 .. NPROC + 1]
    /\ j \in [Slots -> 1 .. NPROC + 1]

\* Which CPU executes which slot's thread, and holds the slot's lock between two steps.
OnCpu ==
    /\ \A c \in CPUs : proc[c] # None => state[proc[c]] = "RUNNING" \/ lock[proc[c]] = c
    /\ \A c, d \in CPUs : proc[c] = proc[d] /\ proc[c] # None => c = d
    /\ \A p \in Slots : state[p] = "RUNNING" => \E c \in CPUs : proc[c] = p
    /\ \A p \in Slots : lock[p] # NoCpu => proc[lock[p]] = p

\* wait_lock is held by the CPU of the one thread that is between acquire and release.
WaitLock ==
    /\ \A p \in Slots : pc[p] \in Locked =>
          state[p] = "RUNNING" /\ lock[p] = NoCpu /\ wait_lock # NoCpu /\ proc[wait_lock] = p
    /\ wait_lock # NoCpu => proc[wait_lock] # None /\ pc[proc[wait_lock]] \in Locked

\* What the state of a slot says of where its thread is, and the loops' first slot.
Phase ==
    /\ \A p \in Slots :
          /\ state[p] = "UNUSED" <=> pc[p] = "none"
          /\ state[p] = "ZOMBIE" <=> pc[p] = "exited"
          /\ state[p] = "USED" => pc[p] = "forkret"
          /\ state[p] = "SLEEPING" => pc[p] = "woken" /\ chan[p] = p
          /\ pc[p] \notin {"ret", "alloc", "fork_parent", "fork_run", "scan", "sleep"} => i[p] = 1
          /\ pc[p] \notin {"rwake", "pwake"} => j[p] = 1
          /\ pc[p] \in Exiting \cup {"exited", "none"} => p # initproc
    /\ state[initproc] \in Live

\* The slot that fork() has allocated is its own until it is made runnable.
Forking ==
    /\ \A p \in Slots : pc[p] \in {"fork_parent", "fork_run"} => i[p] \in Slots /\ state[i[p]] = "USED"
    /\ \A p, q \in Slots :
          pc[p] \in {"fork_parent", "fork_run"} /\ pc[q] \in {"fork_parent", "fork_run"} /\ i[p] = i[q] => p = q
    /\ \A p \in Slots : pc[p] = "fork_run" => parent[i[p]] = p

\* The tree: every process has a live parent, and a process gives its children away
\* before it wakes its own parent.
Tree ==
    /\ \A p \in Slots : state[p] \in Live \cup {"ZOMBIE"} /\ p # initproc => parent[p] # None
    /\ \A p \in Slots : parent[p] # None => state[parent[p]] \in Live
    /\ \A p \in Slots : pc[p] \in {"pwake", "zombie"} => Kids(p) = {}

\* What is known of zombies and sleepers.
Notice ==
    /\ \A p, t \in Slots :
          state[p] = "SLEEPING" /\ parent[t] = p /\ state[t] = "ZOMBIE" =>
              p = initproc /\ \E q \in Slots : pc[q] = "rwake" /\ j[q] = 1
    /\ \A p \in Slots, t \in Slots :
          /\ pc[p] = "scan" /\ parent[t] = p /\ t < i[p] => state[t] # "ZOMBIE"
          /\ pc[p] = "sleep" /\ parent[t] = p => state[t] # "ZOMBIE"
    /\ \A t \in Slots : parent[t] # None =>
          /\ pc[t] = "pwake" /\ j[t] > parent[t] => state[parent[t]] # "SLEEPING"
          /\ pc[t] = "zombie" => state[parent[t]] # "SLEEPING"

IInv == TypeOK /\ OnCpu /\ WaitLock /\ Phase /\ Forking /\ Tree /\ Notice

-----------------------------------------------------------------------------
\* Slots are natural numbers, and 0 is none of them.
LEMMA SlotFacts ==
    /\ initproc \in Slots /\ None \notin Slots
    /\ \A p \in Slots : p \in Nat /\ p >= 1 /\ p <= NPROC
BY ProcConstants DEF Slots, initproc, None

\* A thread past the release of its lock is on one CPU, and nobody holds its lock.
LEMMA RunsFacts ==
    ASSUME IInv, NEW c \in CPUs, NEW p \in Slots, Runs(c, p)
    PROVE  /\ proc[c] = p /\ state[p] = "RUNNING" /\ lock[p] = NoCpu
           /\ \A d \in CPUs : proc[d] = p => d = c
BY SlotFacts, ProcConstants DEF IInv, TypeOK, OnCpu, Runs

\* The thread that is between acquire(&wait_lock) and release(&wait_lock) is the only one.
LEMMA OneInWaitLock ==
    ASSUME IInv, NEW p \in Slots, NEW q \in Slots, pc[p] \in Locked, pc[q] \in Locked
    PROVE  p = q
BY Zenon DEF IInv, WaitLock

LEMMA InitInv == Init => IInv
<1>. SUFFICES ASSUME Init PROVE IInv
  BY Zenon
<1>. USE SlotFacts, ProcConstants DEF Init
<1>1. TypeOK
  BY DEF TypeOK, States, Labels
<1>2. OnCpu /\ WaitLock
  BY Zenon DEF OnCpu, WaitLock, Locked, Waiting, Exiting
<1>3. Phase
  BY Zenon DEF Phase, Exiting, Live
<1>4. Forking /\ Tree /\ Notice
  BY Zenon DEF Forking, Tree, Notice, Kids, Live
<1>. QED
  BY <1>1, <1>2, <1>3, <1>4, Zenon DEF IInv

\* The scheduler takes a runnable slot that nobody has locked: no CPU is on its stack.
LEMMA SchedulerInv ==
    ASSUME IInv, NEW c \in CPUs, NEW p \in Slots, scheduler(c, p)
    PROVE  IInv'
<1>. USE SlotFacts, ProcConstants DEF IInv
<1>1. /\ proc[c] = None /\ lock[p] = NoCpu /\ state[p] = "RUNNABLE"
      /\ state' = [state EXCEPT ![p] = "RUNNING"]
      /\ lock' = [lock EXCEPT ![p] = c]
      /\ proc' = [proc EXCEPT ![c] = p]
      /\ UNCHANGED <<chan, parent, wait_lock, pc, i, j>>
  BY Zenon DEF scheduler, FoundRunnable, Unlocked, loops
<1>2. \A d \in CPUs : proc[d] # p
  BY <1>1 DEF OnCpu, TypeOK
<1>3. TypeOK'
  BY <1>1, Zenon DEF TypeOK, States
<1>4. OnCpu'
  BY <1>1, <1>2 DEF OnCpu, TypeOK
<1>5. WaitLock'
  BY <1>1 DEF WaitLock, TypeOK
<1>6. Phase' /\ Forking'
  BY <1>1 DEF Phase, Forking, TypeOK, Live
<1>7. Tree' /\ Notice'
  BY <1>1 DEF Tree, Notice, TypeOK, Live, Kids
<1>. QED
  BY <1>3, <1>4, <1>5, <1>6, <1>7, Zenon

\* After swtch the thread releases its lock.
LEMMA ResumeInv ==
    ASSUME IInv, NEW c \in CPUs, NEW p \in Slots, resume(c, p)
    PROVE  IInv'
<1>. USE SlotFacts, ProcConstants DEF IInv
<1>1. /\ proc[c] = p /\ state[p] = "RUNNING" /\ lock[p] = c
      /\ lock' = [lock EXCEPT ![p] = NoCpu]
      /\ UNCHANGED <<state, parent, wait_lock, proc, i, j>>
      /\ chan' = IF pc[p] = "woken" THEN [chan EXCEPT ![p] = None] ELSE chan
  BY Zenon DEF resume, loops
<1>2. \/ pc[p] = "forkret" /\ pc' = [pc EXCEPT ![p] = "user"]
      \/ pc[p] = "woken" /\ pc' = [pc EXCEPT ![p] = "wait"]
      \/ pc' = pc
  BY Zenon DEF resume
<1>3. TypeOK'
  BY <1>1, <1>2 DEF TypeOK, Labels, Preemptible
<1>4. OnCpu' /\ WaitLock'
  BY <1>1, <1>2 DEF OnCpu, WaitLock, TypeOK, Locked, Waiting, Exiting
<1>5. Phase'
  BY <1>1, <1>2 DEF Phase, TypeOK, Live, Exiting
<1>6. Forking' /\ Tree' /\ Notice'
  BY <1>1, <1>2 DEF Forking, Tree, Notice, TypeOK, Live, Kids
<1>. QED
  BY <1>3, <1>4, <1>5, <1>6, Zenon

\* sched() leaves the process's stack.
LEMMA SchedInv ==
    ASSUME IInv, NEW c \in CPUs, NEW p \in Slots, sched(c, p)
    PROVE  IInv'
<1>. USE SlotFacts, ProcConstants DEF IInv
<1>1. /\ proc[c] = p /\ state[p] # "RUNNING" /\ lock[p] = c
      /\ proc' = [proc EXCEPT ![c] = None]
      /\ lock' = [lock EXCEPT ![p] = NoCpu]
      /\ UNCHANGED <<state, chan, parent, wait_lock, pc, i, j>>
  BY Zenon DEF sched, table, loops
<1>2. wait_lock # c
  BY <1>1, Zenon DEF WaitLock, TypeOK
<1>3. TypeOK'
  BY <1>1, Zenon DEF TypeOK
<1>4. OnCpu' /\ WaitLock'
  BY <1>1, <1>2 DEF OnCpu, WaitLock, TypeOK
<1>5. Phase' /\ Forking' /\ Tree' /\ Notice'
  BY <1>1 DEF Phase, Forking, Tree, Notice, Kids
<1>. QED
  BY <1>3, <1>4, <1>5, Zenon

\* A process that yields the CPU holds its lock into sched().
LEMMA YieldInv ==
    ASSUME IInv, NEW c \in CPUs, NEW p \in Slots, Runs(c, p),
           pc[p] \in Preemptible \cup {"user"},
           lock' = [lock EXCEPT ![p] = c],
           state' = [state EXCEPT ![p] = "RUNNABLE"],
           UNCHANGED <<chan, parent, wait_lock, proc, pc, i, j>>
    PROVE  IInv'
<1>. USE SlotFacts, ProcConstants DEF IInv
<1>r. /\ proc[c] = p /\ state[p] = "RUNNING" /\ lock[p] = NoCpu
      /\ \A d \in CPUs : proc[d] = p => d = c
  BY RunsFacts, Zenon
<1>. USE <1>r
<1>1. TypeOK'
  BY Zenon DEF TypeOK, States
<1>2. OnCpu'
  BY DEF OnCpu, TypeOK
<1>3. WaitLock'
  BY DEF WaitLock, TypeOK, Locked, Waiting, Exiting, Preemptible
<1>4. Phase' /\ Forking'
  BY DEF Phase, Forking, TypeOK, Live
<1>5. Tree' /\ Notice'
  BY DEF Tree, Notice, TypeOK, Live, Kids
<1>. QED
  BY <1>1, <1>2, <1>3, <1>4, <1>5, Zenon

\* The labels between which a thread moves without touching the table.
Free == {"user", "ret", "alloc", "wait", "kill", "exit", "panic"}

\* A thread that holds nothing moves to another label where it holds nothing.
LEMMA MoveInv ==
    ASSUME IInv, NEW c \in CPUs, NEW p \in Slots, Runs(c, p),
           pc[p] \in Free, NEW l \in Free, pc' = [pc EXCEPT ![p] = l],
           i' = i \/ i' = [i EXCEPT ![p] = 1],
           l \notin {"ret", "alloc"} => i'[p] = 1,
           UNCHANGED <<state, chan, parent, lock, wait_lock, proc, j>>
    PROVE  IInv'
<1>. USE SlotFacts, ProcConstants DEF IInv
<1>r. /\ proc[c] = p /\ state[p] = "RUNNING" /\ lock[p] = NoCpu
      /\ \A d \in CPUs : proc[d] = p => d = c
  BY RunsFacts, Zenon
<1>. USE <1>r
<1>1. TypeOK'
  BY DEF TypeOK, Labels, Preemptible, Free
<1>2. OnCpu' /\ WaitLock'
  BY DEF OnCpu, WaitLock, TypeOK, Locked, Waiting, Exiting, Free
<1>3. Phase'
  BY DEF Phase, TypeOK, Exiting, Free
<1>4. Forking'
  BY DEF Forking, TypeOK, Free
<1>5. Tree' /\ Notice'
  BY DEF Tree, Notice, TypeOK, Kids, Free
<1>. QED
  BY <1>1, <1>2, <1>3, <1>4, <1>5, Zenon

\* fork() takes an unused slot: no thread, no child and no lock is lost with it.
LEMMA AllocprocInv ==
    ASSUME IInv, NEW c \in CPUs, NEW p \in Slots, allocproc(c, p)
    PROVE  IInv'
<1>. USE SlotFacts, ProcConstants DEF IInv
<1>1. /\ Runs(c, p) /\ pc[p] = "alloc"
      /\ UNCHANGED <<lock, wait_lock, proc, j>>
  BY Zenon DEF allocproc, At, locks
<1>r. /\ proc[c] = p /\ state[p] = "RUNNING" /\ lock[p] = NoCpu
  BY <1>1, RunsFacts, Zenon
<1>2. CASE i[p] > NPROC
  <2>1. pc' = [pc EXCEPT ![p] = "ret"] /\ UNCHANGED <<state, chan, parent, i>>
    BY <1>2, Zenon DEF allocproc, Goto, table
  <2>. QED
    BY <1>1, <2>1, MoveInv, Zenon DEF Free
<1>3. CASE ~ i[p] > NPROC
  <2>s. PICK s \in Slots : s = i[p]
    BY <1>3 DEF TypeOK, Slots
  <2>u. lock[s] = NoCpu
    BY <1>3, <2>s, Zenon DEF allocproc, Unlocked
  <2>1. CASE /\ state[s] # "UNUSED"
             /\ i' = [i EXCEPT ![p] = s + 1]
             /\ UNCHANGED <<state, chan, parent, pc>>
    <3>0. s + 1 \in 1 .. NPROC + 1
      BY DEF Slots
    <3>1. TypeOK'
      BY <2>1, <1>1, <3>0, Zenon DEF TypeOK
    <3>2. OnCpu' /\ WaitLock' /\ Tree'
      BY <2>1, <1>1 DEF OnCpu, WaitLock, Tree, Kids
    <3>3. Phase' /\ Forking' /\ Notice'
      BY <2>1, <1>1 DEF Phase, Forking, Notice, TypeOK
    <3>. QED
      BY <3>1, <3>2, <3>3, Zenon
  <2>2. CASE /\ state[s] = "UNUSED"
             /\ state' = [state EXCEPT ![s] = "USED"]
             /\ pc' = [pc EXCEPT ![s] = "forkret", ![p] = "fork_parent"]
             /\ UNCHANGED <<chan, parent, i>>
    <3>0. s # p /\ pc[s] = "none" /\ s # initproc /\ (\A t \in Slots : parent[t] # s)
      BY <2>2, <1>r DEF Phase, Tree, Live
    <3>1. TypeOK'
      BY <2>2, <1>1, Zenon DEF TypeOK, Labels, Preemptible, States
    <3>2. OnCpu' /\ WaitLock'
      BY <2>2, <1>1, <1>r, <3>0, <2>u DEF OnCpu, WaitLock, TypeOK, Locked, Waiting, Exiting
    <3>3. Phase'
      BY <2>2, <1>1, <1>r, <3>0, <2>s DEF Phase, TypeOK, Exiting, Live
    <3>4. Forking'
      BY <2>2, <1>1, <1>r, <3>0, <2>s DEF Forking, TypeOK
    <3>5. Tree'
      BY <2>2, <1>1, <1>r, <3>0, <2>s DEF Tree, TypeOK, Live, Kids
    <3>6. Notice'
      BY <2>2, <1>1, <1>r, <3>0, <2>s DEF Notice, TypeOK
    <3>. QED
      BY <3>1, <3>2, <3>3, <3>4, <3>5, <3>6, Zenon
  <2>3. CASE /\ state[s] = "UNUSED"
             /\ freeproc(s)
             /\ pc' = [pc EXCEPT ![p] = "ret"]
             /\ UNCHANGED i
    <3>0. s # p /\ pc[s] = "none" /\ s # initproc /\ (\A t \in Slots : parent[t] # s)
      BY <2>3, <1>r DEF Phase, Tree, Live
    <3>1. /\ state' = state /\ i' = i
          /\ parent' = [parent EXCEPT ![s] = None]
          /\ chan' = [chan EXCEPT ![s] = None]
      BY <2>3, Zenon DEF freeproc, TypeOK
    <3>2. TypeOK'
      BY <2>3, <1>1, <3>1, Zenon DEF TypeOK, Labels, Preemptible
    <3>3. OnCpu' /\ WaitLock'
      BY <2>3, <1>1, <1>r, <3>1 DEF OnCpu, WaitLock, TypeOK, Locked, Waiting, Exiting
    <3>4. Phase'
      BY <2>3, <1>1, <1>r, <3>0, <3>1 DEF Phase, TypeOK, Exiting
    <3>5. Forking'
      BY <2>3, <1>1, <1>r, <3>0, <3>1 DEF Forking, TypeOK
    <3>6. Tree' /\ Notice'
      BY <2>3, <1>1, <1>r, <3>0, <3>1 DEF Tree, Notice, TypeOK, Live, Kids
    <3>. QED
      BY <3>2, <3>3, <3>4, <3>5, <3>6, Zenon
  <2>. QED
    BY <1>3, <2>s, <2>1, <2>2, <2>3, Zenon DEF allocproc, table, Goto, TypeOK
<1>. QED
  BY <1>2, <1>3, Zenon

\* The new slot gets its parent, which is running fork().
LEMMA ForkParentInv ==
    ASSUME IInv, NEW c \in CPUs, NEW p \in Slots, fork_parent(c, p)
    PROVE  IInv'
<1>. USE SlotFacts, ProcConstants DEF IInv
<1>1. /\ Runs(c, p) /\ pc[p] = "fork_parent" /\ wait_lock = NoCpu
      /\ parent' = [parent EXCEPT ![i[p]] = p]
      /\ pc' = [pc EXCEPT ![p] = "fork_run"]
      /\ UNCHANGED <<state, chan, lock, wait_lock, proc, i, j>>
  BY Zenon DEF fork_parent, At, Goto, locks, loops
<1>r. proc[c] = p /\ state[p] = "RUNNING" /\ lock[p] = NoCpu
  BY <1>1, RunsFacts, Zenon
<1>s. PICK s \in Slots : s = i[p] /\ state[s] = "USED" /\ pc[s] = "forkret"
  BY <1>1 DEF Forking, Phase
<1>2. TypeOK'
  BY <1>1, <1>s, Zenon DEF TypeOK, Labels, Preemptible
<1>3. OnCpu' /\ WaitLock'
  BY <1>1, <1>r DEF OnCpu, WaitLock, TypeOK, Locked, Waiting, Exiting
<1>4. Phase'
  BY <1>1, <1>r DEF Phase, TypeOK, Exiting
<1>5. Forking'
  BY <1>1, <1>s DEF Forking, TypeOK
<1>6. Tree'
  BY <1>1, <1>r, <1>s DEF Tree, TypeOK, Live, Kids
<1>7. Notice'
  BY <1>1, <1>r, <1>s DEF Notice, TypeOK
<1>. QED
  BY <1>2, <1>3, <1>4, <1>5, <1>6, <1>7, Zenon

\* The new slot becomes runnable.
LEMMA ForkRunInv ==
    ASSUME IInv, NEW c \in CPUs, NEW p \in Slots, fork_run(c, p)
    PROVE  IInv'
<1>. USE SlotFacts, ProcConstants DEF IInv
<1>1. /\ Runs(c, p) /\ pc[p] = "fork_run" /\ lock[i[p]] = NoCpu
      /\ state' = [state EXCEPT ![i[p]] = "RUNNABLE"]
      /\ pc' = [pc EXCEPT ![p] = "ret"]
      /\ UNCHANGED <<chan, parent, lock, wait_lock, proc, i, j>>
  BY Zenon DEF fork_run, At, Goto, Unlocked, locks, loops
<1>r. proc[c] = p /\ state[p] = "RUNNING" /\ lock[p] = NoCpu
  BY <1>1, RunsFacts, Zenon
<1>s. PICK s \in Slots : s = i[p] /\ state[s] = "USED" /\ pc[s] = "forkret" /\ parent[s] = p
  BY <1>1, Zenon DEF Forking, Phase
<1>2. TypeOK'
  BY <1>1, <1>s, Zenon DEF TypeOK, Labels, Preemptible, States
<1>3. OnCpu'
  BY <1>1, <1>r, <1>s DEF OnCpu, TypeOK
<1>4. WaitLock'
  BY <1>1, <1>r, <1>s DEF WaitLock, TypeOK, Locked, Waiting, Exiting
<1>5. Phase'
  BY <1>1, <1>r, <1>s DEF Phase, TypeOK, Exiting, Live
<1>6. Forking'
  BY <1>1, <1>s DEF Forking, TypeOK
<1>7. Tree'
  BY <1>1, <1>r, <1>s DEF Tree, TypeOK, Live, Kids
<1>8. Notice'
  BY <1>1, <1>r, <1>s DEF Notice, TypeOK
<1>. QED
  BY <1>2, <1>3, <1>4, <1>5, <1>6, <1>7, <1>8, Zenon

\* kill() may make a sleeper runnable, and nothing else that the invariant is about.
LEMMA KillInv ==
    ASSUME IInv, NEW c \in CPUs, NEW p \in Slots, NEW t \in Slots, kill(c, p, t)
    PROVE  IInv'
<1>. USE SlotFacts, ProcConstants DEF IInv
<1>1. /\ Runs(c, p) /\ pc[p] = "kill" /\ lock[t] = NoCpu
      /\ \/ state' = state
         \/ state[t] = "SLEEPING" /\ state' = [state EXCEPT ![t] = "RUNNABLE"]
      /\ pc' = [pc EXCEPT ![p] = "ret"]
      /\ UNCHANGED <<chan, parent, lock, wait_lock, proc, i, j>>
  BY Zenon DEF kill, At, Goto, Unlocked, locks, loops
<1>r. proc[c] = p /\ state[p] = "RUNNING" /\ lock[p] = NoCpu
  BY <1>1, RunsFacts, Zenon
<1>2. CASE state' = state
  BY <1>1, <1>2, MoveInv, Zenon DEF Free
<1>3. CASE state[t] = "SLEEPING" /\ state' = [state EXCEPT ![t] = "RUNNABLE"]
  <2>0. pc[t] = "woken" /\ t # p
    BY <1>3, <1>r, Zenon DEF Phase
  <2>1. TypeOK'
    BY <1>1, <1>3, Zenon DEF TypeOK, Labels, Preemptible, States
  <2>2. OnCpu' /\ WaitLock'
    BY <1>1, <1>3, <1>r, <2>0 DEF OnCpu, WaitLock, TypeOK, Locked, Waiting, Exiting
  <2>3. Phase'
    BY <1>1, <1>3, <1>r, <2>0 DEF Phase, TypeOK, Exiting, Live
  <2>4. Forking'
    BY <1>1, <1>3, <2>0 DEF Forking, TypeOK
  <2>5. Tree'
    BY <1>1, <1>3, <2>0 DEF Tree, TypeOK, Live, Kids
  <2>6. Notice'
    BY <1>1, <1>3, <1>r, <2>0 DEF Notice, TypeOK
  <2>. QED
    BY <2>1, <2>2, <2>3, <2>4, <2>5, <2>6, Zenon
<1>. QED
  BY <1>1, <1>2, <1>3, Zenon

\* wait_lock is taken by a thread that goes on to l, where the loops are at their start.
LEMMA AcquireInv ==
    ASSUME IInv, NEW c \in CPUs, NEW p \in Slots, Runs(c, p), NEW l,
           \/ pc[p] = "wait" /\ l = "scan"
           \/ pc[p] = "exit" /\ l = "reparent" /\ p # initproc,
           wait_lock = NoCpu, wait_lock' = c, pc' = [pc EXCEPT ![p] = l],
           UNCHANGED <<state, chan, parent, lock, proc, i, j>>
    PROVE  IInv'
<1>. USE SlotFacts, ProcConstants DEF IInv
<1>r. /\ proc[c] = p /\ state[p] = "RUNNING" /\ lock[p] = NoCpu
      /\ \A d \in CPUs : proc[d] = p => d = c
  BY RunsFacts, Zenon
<1>. USE <1>r
<1>v. \A q \in Slots : pc'[q] = IF q = p THEN l ELSE pc[q]
  BY Zenon DEF TypeOK
<1>1. TypeOK'
  BY Zenon DEF TypeOK, Labels, Waiting, Exiting
<1>2. OnCpu'
  BY DEF OnCpu
<1>3. WaitLock'
  BY Zenon DEF WaitLock, TypeOK, Locked, Waiting, Exiting
<1>4. Phase'
  BY <1>v DEF Phase, Exiting
<1>5. Forking' /\ Tree'
  BY <1>v DEF Forking, Tree, Kids
<1>6. i[p] = 1
  BY Zenon DEF Phase
<1>7. Notice'
  BY <1>6, <1>v DEF Notice
<1>. QED
  BY <1>1, <1>2, <1>3, <1>4, <1>5, <1>7, Zenon

\* wait() gives up wait_lock and returns.
LEMMA ReleaseInv ==
    ASSUME IInv, NEW c \in CPUs, NEW p \in Slots, Runs(c, p), pc[p] = "scan",
           wait_lock' = NoCpu, pc' = [pc EXCEPT ![p] = "ret"],
           UNCHANGED <<state, chan, parent, lock, proc, i, j>>
    PROVE  IInv'
<1>. USE SlotFacts, ProcConstants DEF IInv
<1>r. /\ proc[c] = p /\ state[p] = "RUNNING" /\ lock[p] = NoCpu
      /\ \A d \in CPUs : proc[d] = p => d = c
  BY RunsFacts, Zenon
<1>. USE <1>r
<1>0. \A q \in Slots \ {p} : pc[q] \notin Locked
  BY OneInWaitLock, Zenon DEF Locked, Waiting
<1>v. \A q \in Slots : pc'[q] = IF q = p THEN "ret" ELSE pc[q]
  BY Zenon DEF TypeOK
<1>1. TypeOK'
  BY Zenon DEF TypeOK, Labels, Preemptible
<1>2. OnCpu' /\ WaitLock'
  BY <1>0 DEF OnCpu, WaitLock, TypeOK, Locked, Waiting, Exiting
<1>3. Phase'
  BY <1>v DEF Phase, Exiting
<1>4. Forking' /\ Tree' /\ Notice'
  BY <1>v DEF Forking, Tree, Notice, Kids
<1>. QED
  BY <1>1, <1>2, <1>3, <1>4, Zenon

\* wait() frees a zombie, which has no children and is on no CPU.
LEMMA ReapInv ==
    ASSUME IInv, NEW c \in CPUs, NEW p \in Slots, NEW t \in Slots, reap(c, p, t)
    PROVE  IInv'
<1>. USE SlotFacts, ProcConstants DEF IInv
<1>1. /\ Runs(c, p) /\ pc[p] = "scan" /\ parent[t] = p /\ lock[t] = NoCpu
      /\ state[t] = "ZOMBIE"
      /\ state' = [state EXCEPT ![t] = "UNUSED"]
      /\ parent' = [parent EXCEPT ![t] = None]
      /\ chan' = [chan EXCEPT ![t] = None]
      /\ wait_lock' = NoCpu
      /\ pc' = [pc EXCEPT ![t] = "none", ![p] = "ret"]
      /\ UNCHANGED <<lock, proc, i, j>>
  BY Zenon DEF reap, ScanReaches, At, Kids, ChildLocked, Unlocked, freeproc, loops
<1>r. proc[c] = p /\ state[p] = "RUNNING" /\ lock[p] = NoCpu
  BY <1>1, RunsFacts
<1>0. /\ \A q \in Slots \ {p} : pc[q] \notin Locked
      /\ t # p /\ t # initproc /\ pc[t] = "exited"
      /\ \A q \in Slots : parent[q] # t
  BY <1>1, <1>r, OneInWaitLock DEF Locked, Waiting, Phase, Tree, Live
<1>2. TypeOK'
  BY <1>1, Zenon DEF TypeOK, Labels, Preemptible, States
<1>3. OnCpu'
  BY <1>1, <1>r, <1>0 DEF OnCpu, TypeOK
<1>4. WaitLock'
  BY <1>1, <1>r, <1>0 DEF WaitLock, TypeOK, Locked, Waiting, Exiting
<1>5. Phase'
  BY <1>1, <1>r, <1>0 DEF Phase, TypeOK, Exiting
<1>6. Forking'
  BY <1>1, <1>r, <1>0 DEF Forking, TypeOK
<1>7. Tree'
  BY <1>1, <1>r, <1>0 DEF Tree, TypeOK, Live, Kids
<1>8. Notice'
  BY <1>1, <1>r, <1>0 DEF Notice, TypeOK
<1>. QED
  BY <1>2, <1>3, <1>4, <1>5, <1>6, <1>7, <1>8, Zenon

\* wait() passes a child that is no zombie; none of those it has passed can become one
\* while it holds wait_lock.
LEMMA ScanChildInv ==
    ASSUME IInv, NEW c \in CPUs, NEW p \in Slots, NEW t \in Slots, scan_child(c, p, t)
    PROVE  IInv'
<1>. USE SlotFacts, ProcConstants DEF IInv
<1>1. /\ Runs(c, p) /\ pc[p] = "scan" /\ parent[t] = p
      /\ \A s \in Slots : parent[s] = p /\ s < t => s < i[p]
      /\ state[t] # "ZOMBIE"
      /\ i' = [i EXCEPT ![p] = t + 1]
      /\ UNCHANGED <<state, chan, parent, lock, wait_lock, proc, pc, j>>
  BY Zenon DEF scan_child, ScanReaches, At, Kids, table, locks
<1>2. t + 1 \in 1 .. NPROC + 1
  BY DEF Slots
<1>v. \A q \in Slots : i'[q] = IF q = p THEN t + 1 ELSE i[q]
  BY <1>1, Zenon DEF TypeOK
<1>3. TypeOK'
  BY <1>1, <1>2, Zenon DEF TypeOK
<1>4. OnCpu' /\ WaitLock' /\ Tree'
  BY <1>1 DEF OnCpu, WaitLock, Tree, Kids
<1>5. Phase' /\ Forking'
  BY <1>1, <1>v DEF Phase, Forking
<1>6. ASSUME NEW s \in Slots, parent[s] = p, s < t + 1 PROVE state[s] # "ZOMBIE"
  <2>1. s < t \/ s = t
    BY <1>6
  <2>. QED
    BY <1>1, <1>6, <2>1, Zenon DEF Notice
<1>7. Notice'
  BY <1>1, <1>v, <1>6 DEF Notice
<1>. QED
  BY <1>3, <1>4, <1>5, <1>7, Zenon

\* wait() has seen all its children.
LEMMA ScanEndInv ==
    ASSUME IInv, NEW c \in CPUs, NEW p \in Slots, scan_end(c, p)
    PROVE  IInv'
<1>. USE SlotFacts, ProcConstants DEF IInv
<1>1. /\ Runs(c, p) /\ pc[p] = "scan"
      /\ \A s \in Slots : parent[s] = p => s < i[p]
      /\ \/ wait_lock' = NoCpu /\ pc' = [pc EXCEPT ![p] = "ret"]
         \/ pc' = [pc EXCEPT ![p] = "sleep"] /\ UNCHANGED wait_lock
      /\ UNCHANGED <<state, chan, parent, lock, proc, i, j>>
  BY Zenon DEF scan_end, At, Kids, table, loops, Goto
<1>2. CASE wait_lock' = NoCpu /\ pc' = [pc EXCEPT ![p] = "ret"]
  BY <1>1, <1>2, ReleaseInv, Zenon
<1>3. CASE pc' = [pc EXCEPT ![p] = "sleep"] /\ UNCHANGED wait_lock
  <2>. USE <1>1, <1>3
  <2>1. TypeOK'
    BY Zenon DEF TypeOK, Labels, Waiting
  <2>2. OnCpu' /\ WaitLock'
    BY DEF OnCpu, WaitLock, TypeOK, Locked, Waiting
  <2>v. \A q \in Slots : pc'[q] = IF q = p THEN "sleep" ELSE pc[q]
    BY Zenon DEF TypeOK
  <2>u. UNCHANGED <<state, chan, parent, i, j>> /\ pc[p] = "scan"
    BY Zenon
  <2>3. Phase' /\ Forking'
    BY <2>v, <2>u DEF Phase, Forking, Exiting
  <2>4. Tree' /\ Notice'
    BY <2>v, <2>u DEF Tree, Notice, Kids
  <2>. QED
    BY <2>1, <2>2, <2>3, <2>4, Zenon
<1>. QED
  BY <1>1, <1>2, <1>3, Zenon

-----------------------------------------------------------------------------
\* A parent that goes to sleep has no zombie child, and no child of its is in exit().
LEMMA SleepInv ==
    ASSUME IInv, NEW c \in CPUs, NEW p \in Slots, sleep(c, p)
    PROVE  IInv'
<1>. USE SlotFacts, ProcConstants DEF IInv
<1>1. /\ Runs(c, p) /\ pc[p] = "sleep"
      /\ lock' = [lock EXCEPT ![p] = c]
      /\ wait_lock' = NoCpu
      /\ chan' = [chan EXCEPT ![p] = p]
      /\ state' = [state EXCEPT ![p] = "SLEEPING"]
      /\ pc' = [pc EXCEPT ![p] = "woken"]
      /\ i' = [i EXCEPT ![p] = 1]
      /\ UNCHANGED <<parent, proc, j>>
  BY Zenon DEF sleep, At, Goto, DropWaitLock
<1>r. /\ proc[c] = p /\ state[p] = "RUNNING" /\ lock[p] = NoCpu
      /\ \A d \in CPUs : proc[d] = p => d = c
  BY <1>1, RunsFacts, Zenon
<1>0. \A q \in Slots \ {p} : pc[q] \notin Locked
  BY <1>1, OneInWaitLock, Zenon DEF Locked, Waiting
<1>v. \A q \in Slots :
        /\ state'[q] = IF q = p THEN "SLEEPING" ELSE state[q]
        /\ chan'[q] = IF q = p THEN p ELSE chan[q]
        /\ pc'[q] = IF q = p THEN "woken" ELSE pc[q]
        /\ i'[q] = IF q = p THEN 1 ELSE i[q]
        /\ lock'[q] = IF q = p THEN c ELSE lock[q]
  BY <1>1, Zenon DEF TypeOK
<1>u. UNCHANGED <<parent, proc, j>> /\ wait_lock' = NoCpu /\ pc[p] = "sleep"
  BY <1>1, Zenon
<1>2. TypeOK'
  BY <1>1 DEF TypeOK, Labels, States
<1>3. OnCpu'
  BY <1>v, <1>u, <1>r DEF OnCpu, TypeOK
<1>4. WaitLock'
  BY <1>v, <1>u, <1>0, Zenon DEF WaitLock, Locked, Waiting, Exiting
<1>5. Phase'
  BY <1>v, <1>u, <1>r DEF Phase, Exiting, Live
<1>6. Forking' /\ Tree'
  <2>1. Forking'
    BY <1>v, <1>u, <1>r DEF Forking, TypeOK
  <2>2. Tree'
    BY <1>v, <1>u, <1>r DEF Tree, Live, Kids, TypeOK
  <2>. QED
    BY <2>1, <2>2, Zenon
<1>7. Notice'
  <2>1. \A q \in Slots : pc[q] \notin {"rwake", "pwake", "zombie"}
    BY <1>0, <1>1, Zenon DEF Locked, Exiting
  <2>. QED
    BY <1>v, <1>u, <2>1 DEF Notice
<1>. QED
  BY <1>2, <1>3, <1>4, <1>5, <1>6, <1>7, Zenon

\* reparent() gives a child to init, or goes on to wake the parent.
LEMMA ReparentInv ==
    ASSUME IInv, NEW c \in CPUs, NEW p \in Slots, reparent(c, p)
    PROVE  IInv'
<1>. USE SlotFacts, ProcConstants DEF IInv
<1>1. /\ Runs(c, p) /\ pc[p] = "reparent"
      /\ UNCHANGED <<state, chan, lock, wait_lock, proc, i, j>>
  BY Zenon DEF reparent, At, locks, loops
<1>r. proc[c] = p /\ state[p] = "RUNNING" /\ lock[p] = NoCpu /\ p # initproc /\ j[p] = 1
  BY <1>1, RunsFacts DEF Phase, Exiting
<1>0. \A q \in Slots \ {p} : pc[q] \notin Locked
  BY <1>1, OneInWaitLock, Zenon DEF Locked, Exiting
<1>2. CASE Kids(p) = {} /\ pc' = [pc EXCEPT ![p] = "pwake"] /\ UNCHANGED parent
  <2>v. \A q \in Slots : pc'[q] = IF q = p THEN "pwake" ELSE pc[q]
    BY <1>2, Zenon DEF TypeOK
  <2>u. UNCHANGED <<state, chan, parent, lock, wait_lock, proc, i, j>> /\ pc[p] = "reparent"
    BY <1>1, <1>2, Zenon
  <2>1. TypeOK'
    BY <1>1, <1>2, Zenon DEF TypeOK, Labels, Exiting
  <2>2. OnCpu' /\ WaitLock'
    <3>1. OnCpu'
      BY <2>v, <2>u, Zenon DEF OnCpu, TypeOK
    <3>2. WaitLock'
      BY <2>v, <2>u, Zenon DEF WaitLock, TypeOK, Locked, Exiting
    <3>. QED
      BY <3>1, <3>2, Zenon
  <2>3. Phase' /\ Forking'
    BY <2>v, <2>u, <1>r DEF Phase, Forking, Exiting
  <2>4. Tree'
    BY <2>v, <2>u, <1>2 DEF Tree, Kids
  <2>5. Notice'
    <3>1. \A q \in Slots : pc'[q] = pc[q] \/ (q = p /\ pc'[q] = "pwake" /\ pc[q] = "reparent" /\ j'[q] = 1)
      BY <2>v, <2>u, <1>r, Zenon
    <3>2. parent[p] # None => ~ (1 > parent[p])
      BY DEF TypeOK
    <3>. QED
      BY <3>1, <3>2, <2>u DEF Notice
  <2>. QED
    BY <2>1, <2>2, <2>3, <2>4, <2>5, Zenon
<1>3. CASE /\ pc' = [pc EXCEPT ![p] = "rwake"]
           /\ \E pp \in Kids(p) : parent' = [parent EXCEPT ![pp] = initproc]
  <2>m. PICK m \in Slots : parent[m] = p /\ parent' = [parent EXCEPT ![m] = initproc]
    BY <1>3, Zenon DEF Kids
  <2>v. \A q \in Slots :
          /\ pc'[q] = IF q = p THEN "rwake" ELSE pc[q]
          /\ parent'[q] = IF q = m THEN initproc ELSE parent[q]
    BY <1>3, <2>m, Zenon DEF TypeOK
  <2>u. UNCHANGED <<state, chan, lock, wait_lock, proc, i, j>> /\ pc[p] = "reparent"
    BY <1>1, Zenon
  <2>1. TypeOK'
    BY <1>1, <1>3, <2>m, Zenon DEF TypeOK, Labels, Exiting
  <2>2. OnCpu' /\ WaitLock'
    <3>1. OnCpu'
      BY <2>v, <2>u, Zenon DEF OnCpu, TypeOK
    <3>2. WaitLock'
      BY <2>v, <2>u, Zenon DEF WaitLock, TypeOK, Locked, Exiting
    <3>. QED
      BY <3>1, <3>2, Zenon
  <2>3. Phase'
    BY <2>v, <2>u, <1>r, SMTT(20) DEF Phase, Exiting
  <2>4. Forking'
    BY <2>v, <2>u, <2>m, <1>r DEF Forking
  <2>5. Tree'
    <3>1. \A q \in Slots : pc'[q] \notin {"pwake", "zombie"}
      BY <1>0, <2>v, Zenon DEF Locked, Exiting
    <3>. QED
      BY <3>1, <2>v, <2>u DEF Tree, Phase
  <2>6. Notice'
    <3>1. \A q \in Slots : pc'[q] \notin {"scan", "sleep", "pwake", "zombie"}
      BY <1>0, <2>v, Zenon DEF Locked, Exiting, Waiting
    <3>2. pc'[p] = "rwake" /\ j'[p] = 1
      BY <1>r, <2>v, <2>u, Zenon
    <3>3. \A q, t \in Slots : state[q] = "SLEEPING" /\ parent[t] = q => state[t] # "ZOMBIE"
      BY <1>0, <2>u, Zenon DEF Notice, Locked, Exiting
    <3>. QED
      BY <3>1, <3>2, <3>3, <2>v, <2>u DEF Notice
  <2>. QED
    BY <2>1, <2>2, <2>3, <2>4, <2>5, <2>6, Zenon
<1>. QED
  BY <1>2, <1>3, Zenon DEF reparent, Abandoned, Goto

\* Who is on which stack does not change with who sleeps.
LEMMA OnCpuStays ==
    ASSUME TypeOK, OnCpu, UNCHANGED <<proc, lock>>,
           \A q \in Slots : state'[q] = "RUNNING" <=> state[q] = "RUNNING"
    PROVE  OnCpu'
<1>1. \A d \in CPUs : proc[d] # None => proc[d] \in Slots
  BY Zenon DEF TypeOK
<1>2. \A d \in CPUs : proc'[d] # None => state'[proc'[d]] = "RUNNING" \/ lock'[proc'[d]] = d
  BY <1>1, Zenon DEF OnCpu
<1>3. \A q \in Slots : state'[q] = "RUNNING" => \E d \in CPUs : proc'[d] = q
  BY Zenon DEF OnCpu
<1>4. /\ \A d, e \in CPUs : proc'[d] = proc'[e] /\ proc'[d] # None => d = e
      /\ \A q \in Slots : lock'[q] # NoCpu => proc'[lock'[q]] = q
  BY Zenon DEF OnCpu
<1>. QED
  BY <1>2, <1>3, <1>4, Zenon DEF OnCpu

\* One turn of the loop of wakeup(ch), called by exit(): afterwards ch, if the loop has
\* passed it, is not asleep.
LEMMA WakeTurnInv ==
    ASSUME IInv, NEW c \in CPUs, NEW p \in Slots, Runs(c, p),
           NEW ch \in Slots,
           \/ pc[p] = "rwake" /\ ch = initproc
           \/ pc[p] = "pwake" /\ ch = parent[p],
           ~ EndOfTable(j[p]), wakeup(p, ch, "user"),
           UNCHANGED <<chan, parent, lock, wait_lock, proc, i>>
    PROVE  IInv'
<1>. USE SlotFacts, ProcConstants DEF IInv
<1>r. /\ proc[c] = p /\ state[p] = "RUNNING" /\ lock[p] = NoCpu /\ p # initproc
  BY RunsFacts, Zenon DEF Phase, Exiting
<1>0. \A q \in Slots \ {p} : pc[q] \notin Locked
  BY OneInWaitLock, Zenon DEF Locked, Exiting
<1>s. PICK s \in Slots : s = j[p]
  BY DEF TypeOK, Slots, EndOfTable
<1>1. s + 1 \in 1 .. NPROC + 1 /\ s + 1 > 1
  BY DEF Slots
<1>2. /\ s # p => lock[s] = NoCpu
      /\ state' = IF s # p THEN Woken(s, ch) ELSE state
      /\ j' = [j EXCEPT ![p] = s + 1]
      /\ pc' = pc
  BY <1>s, Zenon DEF wakeup, Unlocked
<1>c. s = ch => s # p
  BY <1>r, Zenon DEF Tree, Kids
<1>3. s = ch => state'[s] # "SLEEPING"
  BY <1>2, <1>c, Zenon DEF Woken, Phase, TypeOK
<1>4. \/ state' = state
      \/ lock[s] = NoCpu /\ state[s] = "SLEEPING" /\ state' = [state EXCEPT ![s] = "RUNNABLE"]
  BY <1>2, Zenon DEF Woken
<1>p. pc' = pc /\ j' = [j EXCEPT ![p] = s + 1]
  BY <1>2, Zenon
<1>v. \A q \in Slots :
        /\ state'[q] = state[q] \/ (q = s /\ lock[q] = NoCpu /\ state[q] = "SLEEPING" /\ state'[q] = "RUNNABLE")
        /\ j'[q] = IF q = p THEN s + 1 ELSE j[q]
  BY <1>p, <1>4 DEF TypeOK
<1>u. UNCHANGED <<chan, parent, lock, wait_lock, proc, pc, i>> /\ pc[p] \in {"rwake", "pwake"}
  BY <1>p, Zenon
<1>5. TypeOK'
  BY <1>p, <1>1, <1>4, Zenon DEF TypeOK, States
<1>w. \A q \in Slots : state'[q] = "RUNNING" <=> state[q] = "RUNNING"
  BY <1>v
<1>6. OnCpu'
  BY <1>u, <1>w, OnCpuStays, Zenon
<1>7. WaitLock'
  BY <1>u, <1>w, Zenon DEF WaitLock
<1>8. Phase'
  BY <1>v, <1>u DEF Phase, Live
<1>9. Forking' /\ Tree'
  BY <1>v, <1>u DEF Forking, Tree, Live, Kids, TypeOK
<1>10. Notice'
  <2>1. \A q \in Slots : state'[q] = "SLEEPING" => state[q] = "SLEEPING"
    BY <1>4, Zenon DEF TypeOK
  <2>2. \A q \in Slots : state'[q] = "ZOMBIE" <=> state[q] = "ZOMBIE"
    BY <1>4, Zenon DEF TypeOK
  <2>3. \A q \in Slots \ {p} : pc[q] \notin {"scan", "sleep", "rwake", "pwake", "zombie"}
    BY <1>0, Zenon DEF Locked, Waiting, Exiting
  <2>4. ASSUME NEW q \in Slots, NEW t \in Slots,
               state'[q] = "SLEEPING", parent[t] = q, state[t] = "ZOMBIE"
        PROVE  FALSE
    <3>1. q = initproc /\ pc[p] = "rwake" /\ j[p] = 1
      BY <2>4, <2>1, <2>3, Zenon DEF Notice
    <3>. QED
      BY <3>1, <1>s, <1>3, <2>4, Zenon DEF initproc
  <2>5. ASSUME pc[p] = "pwake", s + 1 > parent[p] PROVE state'[parent[p]] # "SLEEPING"
    <3>1. parent[p] \in Slots /\ (parent[p] < s \/ parent[p] = s)
      BY <2>5 DEF TypeOK
    <3>2. CASE parent[p] < s
      BY <3>1, <3>2, <2>5, <1>s, <2>1, Zenon DEF Notice
    <3>3. CASE parent[p] = s
      BY <3>3, <2>5, <1>3, Zenon
    <3>. QED
      BY <3>1, <3>2, <3>3, Zenon
  <2>. QED
    BY <1>v, <1>u, <2>2, <2>3, <2>4, <2>5 DEF Notice
<1>. QED
  BY <1>5, <1>6, <1>7, <1>8, <1>9, <1>10, Zenon

\* wakeup() has come to the end of the table.
LEMMA WakeEndInv ==
    ASSUME IInv, NEW c \in CPUs, NEW p \in Slots, Runs(c, p), NEW l,
           \/ pc[p] = "rwake" /\ l = "reparent"
           \/ pc[p] = "pwake" /\ l = "zombie",
           j[p] > NPROC, pc' = [pc EXCEPT ![p] = l], j' = [j EXCEPT ![p] = 1],
           UNCHANGED <<state, chan, parent, lock, wait_lock, proc, i>>
    PROVE  IInv'
<1>. USE SlotFacts, ProcConstants DEF IInv
<1>r. /\ proc[c] = p /\ state[p] = "RUNNING" /\ lock[p] = NoCpu /\ p # initproc
  BY RunsFacts, Zenon DEF Phase, Exiting
<1>0. \A q \in Slots \ {p} : pc[q] \notin Locked
  BY OneInWaitLock, Zenon DEF Locked, Exiting
<1>v. \A q \in Slots :
        /\ pc'[q] = IF q = p THEN l ELSE pc[q]
        /\ j'[q] = IF q = p THEN 1 ELSE j[q]
  BY Zenon DEF TypeOK
<1>1. TypeOK'
  BY SMTT(20) DEF TypeOK, Labels, Exiting
<1>2. OnCpu' /\ WaitLock'
  BY <1>v DEF OnCpu, WaitLock, Locked, Exiting
<1>u. UNCHANGED <<state, chan, parent, i>> /\ pc[p] \in {"rwake", "pwake"} /\ l \in {"reparent", "zombie"}
  BY Zenon
<1>3. Phase'
  BY <1>v, <1>u, <1>r, SMTT(20) DEF Phase, Exiting
<1>f. Forking'
  BY <1>v, <1>u, <1>r DEF Forking
<1>4. Tree'
  BY <1>v DEF Tree, Kids
<1>5. Notice'
  <2>1. \A q \in Slots \ {p} : pc[q] \notin {"scan", "sleep", "rwake", "pwake", "zombie"}
    BY <1>0, Zenon DEF Locked, Waiting, Exiting
  <2>2. \A q, t \in Slots : state[q] = "SLEEPING" /\ parent[t] = q => state[t] # "ZOMBIE"
    BY <2>1 DEF Notice, TypeOK
  <2>3. ASSUME pc[p] = "pwake", parent[p] # None PROVE state[parent[p]] # "SLEEPING"
    <3>1. parent[p] \in Slots /\ j[p] > parent[p]
      BY <2>3 DEF TypeOK
    <3>. QED
      BY <3>1, <2>3, Zenon DEF Notice
  <2>. QED
    BY <1>v, <2>1, <2>2, <2>3 DEF Notice
<1>. QED
  BY <1>1, <1>2, <1>3, <1>f, <1>4, <1>5, Zenon

LEMMA WakeupInitInv ==
    ASSUME IInv, NEW c \in CPUs, NEW p \in Slots, wakeup_init(c, p)
    PROVE  IInv'
<1>1. /\ Runs(c, p) /\ pc[p] = "rwake" /\ wakeup(p, initproc, "reparent")
      /\ UNCHANGED <<chan, parent, lock, wait_lock, proc, i>>
  BY Zenon DEF wakeup_init, At, locks
<1>2. CASE EndOfTable(j[p])
  BY <1>1, <1>2, WakeEndInv, Zenon DEF wakeup, EndOfTable, Goto
<1>3. CASE ~ EndOfTable(j[p])
  <2>1. wakeup(p, initproc, "user")
    BY <1>1, <1>3, Zenon DEF wakeup
  <2>. QED
    BY <1>1, <1>3, <2>1, WakeTurnInv, SlotFacts, Zenon
<1>. QED
  BY <1>2, <1>3, Zenon

LEMMA WakeupParentInv ==
    ASSUME IInv, NEW c \in CPUs, NEW p \in Slots, wakeup_parent(c, p)
    PROVE  IInv'
<1>1. /\ Runs(c, p) /\ pc[p] = "pwake" /\ wakeup(p, parent[p], "zombie")
      /\ UNCHANGED <<chan, parent, lock, wait_lock, proc, i>>
  BY Zenon DEF wakeup_parent, At, locks
<1>2. CASE EndOfTable(j[p])
  BY <1>1, <1>2, WakeEndInv, Zenon DEF wakeup, EndOfTable, Goto
<1>3. CASE ~ EndOfTable(j[p])
  <2>1. wakeup(p, parent[p], "user")
    BY <1>1, <1>3, Zenon DEF wakeup
  <2>2. parent[p] \in Slots
    BY <1>1, RunsFacts DEF IInv, Tree, TypeOK, Phase, Live, Exiting
  <2>. QED
    BY <1>1, <1>3, <2>1, <2>2, WakeTurnInv, Zenon
<1>. QED
  BY <1>2, <1>3, Zenon

\* exit() makes a zombie of a process without children whose parent is awake.
LEMMA ZombieInv ==
    ASSUME IInv, NEW c \in CPUs, NEW p \in Slots, zombie(c, p)
    PROVE  IInv'
<1>. USE SlotFacts, ProcConstants DEF IInv
<1>1. /\ Runs(c, p) /\ pc[p] = "zombie"
      /\ lock' = [lock EXCEPT ![p] = c]
      /\ state' = [state EXCEPT ![p] = "ZOMBIE"]
      /\ wait_lock' = NoCpu
      /\ pc' = [pc EXCEPT ![p] = "exited"]
      /\ UNCHANGED <<chan, parent, proc, i, j>>
  BY Zenon DEF zombie, At, Goto, loops
<1>r. /\ proc[c] = p /\ state[p] = "RUNNING" /\ lock[p] = NoCpu /\ p # initproc
      /\ \A d \in CPUs : proc[d] = p => d = c
  BY <1>1, RunsFacts, Zenon DEF Phase, Exiting
<1>0. \A q \in Slots \ {p} : pc[q] \notin Locked
  BY <1>1, OneInWaitLock, Zenon DEF Locked, Exiting
<1>v. \A q \in Slots :
        /\ state'[q] = IF q = p THEN "ZOMBIE" ELSE state[q]
        /\ pc'[q] = IF q = p THEN "exited" ELSE pc[q]
        /\ lock'[q] = IF q = p THEN c ELSE lock[q]
  BY <1>1, Zenon DEF TypeOK
<1>u. UNCHANGED <<chan, parent, proc, i, j>> /\ wait_lock' = NoCpu /\ pc[p] = "zombie"
  BY <1>1, Zenon
<1>2. TypeOK'
  BY <1>1, Zenon DEF TypeOK, Labels, States
<1>3. OnCpu'
  <2>1. \A d \in CPUs : proc[d] # None => proc[d] \in Slots
    BY Zenon DEF TypeOK
  <2>2. \A d \in CPUs : proc[d] = p <=> d = c
    BY <1>r, Zenon
  <2>. QED
    <3>1. \A d \in CPUs : proc'[d] # None => state'[proc'[d]] = "RUNNING" \/ lock'[proc'[d]] = d
      <4>1. SUFFICES ASSUME NEW d \in CPUs, proc[d] # None
                     PROVE  state'[proc[d]] = "RUNNING" \/ lock'[proc[d]] = d
        BY <1>u, Zenon
      <4>2. CASE d = c
        BY <1>v, <1>r, <4>2, Zenon
      <4>3. CASE d # c
        <5>1. proc[d] \in Slots /\ proc[d] # p
          BY <2>1, <2>2, <4>1, <4>3, Zenon
        <5>2. state'[proc[d]] = state[proc[d]] /\ lock'[proc[d]] = lock[proc[d]]
          BY <1>v, <5>1, Zenon
        <5>. QED
          BY <4>1, <5>2, Zenon DEF OnCpu
      <4>. QED
        BY <4>2, <4>3, Zenon
    <3>2. \A d, e \in CPUs : proc'[d] = proc'[e] /\ proc'[d] # None => d = e
      BY <1>u, Zenon DEF OnCpu
    <3>3. \A q \in Slots : state'[q] = "RUNNING" => \E d \in CPUs : proc'[d] = q
      <4>1. SUFFICES ASSUME NEW q \in Slots, state'[q] = "RUNNING" PROVE \E d \in CPUs : proc[d] = q
        BY <1>u, Zenon
      <4>2. q # p /\ state[q] = "RUNNING"
        BY <1>v, <4>1
      <4>. QED
        BY <4>2, Zenon DEF OnCpu
    <3>4. \A q \in Slots : lock'[q] # NoCpu => proc'[lock'[q]] = q
      <4>1. SUFFICES ASSUME NEW q \in Slots, lock'[q] # NoCpu PROVE proc[lock'[q]] = q
        BY <1>u, Zenon
      <4>2. CASE q = p
        BY <1>v, <1>r, <4>2, Zenon
      <4>3. CASE q # p
        <5>1. lock'[q] = lock[q]
          BY <1>v, <4>3, Zenon
        <5>. QED
          BY <4>1, <5>1, Zenon DEF OnCpu
      <4>. QED
        BY <4>2, <4>3, Zenon
    <3>. QED
      BY <3>1, <3>2, <3>3, <3>4, Zenon DEF OnCpu
<1>4. WaitLock'
  BY <1>v, <1>u, <1>0, Zenon DEF WaitLock, Locked, Waiting, Exiting
<1>5. Phase'
  BY <1>v, <1>u, <1>r, SMTT(20) DEF Phase, Exiting
<1>6. Forking'
  BY <1>v, <1>u, <1>r DEF Forking
<1>7. Tree'
  <2>1. \A q \in Slots : parent[q] # p
    BY <1>u, Zenon DEF Tree, Kids
  <2>2. \A q \in Slots : parent[q] # None => parent[q] \in Slots
    BY Zenon DEF TypeOK
  <2>. QED
    BY <1>v, <1>u, <1>r, <2>1, <2>2 DEF Tree, Live, Kids
<1>8. Notice'
  <2>1. \A q \in Slots : pc'[q] \notin {"scan", "sleep", "rwake", "pwake", "zombie"}
    BY <1>v, <1>u, <1>0 DEF Locked, Waiting, Exiting
  <2>2. ASSUME NEW q \in Slots, NEW t \in Slots, state'[q] = "SLEEPING", parent[t] = q
        PROVE  state'[t] # "ZOMBIE"
    BY <1>v, <1>u, <1>r, <1>0, <2>2 DEF Notice, Locked, Exiting
  <2>. QED
    BY <1>u, <2>1, <2>2 DEF Notice
<1>. QED
  BY <1>2, <1>3, <1>4, <1>5, <1>6, <1>7, <1>8, Zenon

-----------------------------------------------------------------------------
LEMMA TimerInv ==
    ASSUME IInv, NEW c \in CPUs, NEW p \in Slots, timer(c, p)
    PROVE  IInv'
<1>1. Runs(c, p) /\ pc[p] = "user" /\ UNCHANGED <<chan, parent, wait_lock, proc, i, j>>
  BY Zenon DEF timer, At, loops
<1>2. CASE pc' = [pc EXCEPT ![p] = "exit"] /\ UNCHANGED <<state, lock>>
  <2>1. i[p] = 1
    BY <1>1, Zenon DEF IInv, Phase
  <2>. QED
    BY <1>1, <1>2, <2>1, MoveInv, Zenon DEF Free
<1>3. CASE /\ lock' = [lock EXCEPT ![p] = c]
           /\ state' = [state EXCEPT ![p] = "RUNNABLE"]
           /\ UNCHANGED pc
  BY <1>1, <1>3, YieldInv, Zenon
<1>. QED
  BY <1>2, <1>3, Zenon DEF timer, Goto

\* The steps of a thread that only move it.
LEMMA MovesInv ==
    ASSUME IInv, NEW c \in CPUs, NEW p \in Slots,
           \/ fault(c, p) \/ kill_nobody(c, p) \/ usertrapret(c, p)
           \/ \E call \in Traps \ {"fault"} : syscall(c, p, call)
    PROVE  IInv'
<1>1. CASE fault(c, p)
  <2>1. /\ Runs(c, p) /\ pc[p] = "user" /\ pc' = [pc EXCEPT ![p] = "exit"]
        /\ UNCHANGED <<state, chan, parent, lock, wait_lock, proc, i, j>>
    BY <1>1, Zenon DEF fault, At, Goto, locks, loops
  <2>2. i[p] = 1
    BY <2>1, Zenon DEF IInv, Phase
  <2>. QED
    BY <2>1, <2>2, MoveInv, Zenon DEF Free
<1>2. CASE kill_nobody(c, p)
  <2>1. /\ Runs(c, p) /\ pc[p] = "kill" /\ pc' = [pc EXCEPT ![p] = "ret"]
        /\ UNCHANGED <<state, chan, parent, lock, wait_lock, proc, i, j>>
    BY <1>2, Zenon DEF kill_nobody, At, Goto, table, locks, loops
  <2>. QED
    BY <2>1, MoveInv, Zenon DEF Free
<1>3. CASE usertrapret(c, p)
  <2>1. PICK l \in Free :
            /\ Runs(c, p) /\ pc[p] = "ret" /\ pc' = [pc EXCEPT ![p] = l]
            /\ i' = [i EXCEPT ![p] = 1]
            /\ UNCHANGED <<state, chan, parent, lock, wait_lock, proc, j>>
    BY <1>3, Zenon DEF usertrapret, At, Goto, table, locks, Free
  <2>2. i'[p] = 1
    BY <2>1, Zenon DEF IInv, TypeOK
  <2>. QED
    BY <2>1, <2>2, MoveInv, Zenon DEF Free
<1>4. ASSUME NEW call \in Traps \ {"fault"}, syscall(c, p, call) PROVE IInv'
  <2>1. PICK l \in Free :
            /\ Runs(c, p) /\ pc[p] = "user" /\ pc' = [pc EXCEPT ![p] = l]
            /\ UNCHANGED <<state, chan, parent, lock, wait_lock, proc, i, j>>
    BY <1>4, ProcConstants, Zenon DEF syscall, At, Goto, table, locks, loops, Free
  <2>2. i[p] = 1
    BY <2>1, Zenon DEF IInv, Phase
  <2>. QED
    BY <2>1, <2>2, MoveInv, Zenon DEF Free
<1>. QED
  BY <1>1, <1>2, <1>3, <1>4, Zenon

\* The steps of a thread that only take or give up wait_lock.
LEMMA WaitLockInv ==
    ASSUME IInv, NEW c \in CPUs, NEW p \in Slots,
           wait(c, p) \/ exit(c, p) \/ \E t \in Slots : reap_fails(c, p, t)
    PROVE  IInv'
<1>1. CASE wait(c, p)
  <2>1. /\ Runs(c, p) /\ pc[p] = "wait" /\ wait_lock = NoCpu
        /\ wait_lock' = c /\ pc' = [pc EXCEPT ![p] = "scan"]
        /\ UNCHANGED <<state, chan, parent, lock, proc, i, j>>
    BY <1>1, Zenon DEF wait, At, Goto, table, loops
  <2>. QED
    BY <2>1, AcquireInv, Zenon
<1>2. CASE exit(c, p)
  <2>1. /\ Runs(c, p) /\ pc[p] = "exit"
        /\ UNCHANGED <<state, chan, parent, lock, proc, i, j>>
    BY <1>2, Zenon DEF exit, At, table, loops
  <2>2. CASE p = initproc
    <3>1. pc' = [pc EXCEPT ![p] = "panic"] /\ UNCHANGED wait_lock
      BY <1>2, <2>2, Zenon DEF exit, Goto
    <3>2. i[p] = 1
      BY <2>1, Zenon DEF IInv, Phase
    <3>. QED
      BY <2>1, <3>1, <3>2, MoveInv, Zenon DEF Free
  <2>3. CASE p # initproc
    BY <1>2, <2>1, <2>3, AcquireInv, Zenon DEF exit, Goto
  <2>. QED
    BY <2>2, <2>3, Zenon
<1>3. ASSUME NEW t \in Slots, reap_fails(c, p, t) PROVE IInv'
  <2>1. /\ Runs(c, p) /\ pc[p] = "scan"
        /\ wait_lock' = NoCpu /\ pc' = [pc EXCEPT ![p] = "ret"]
        /\ UNCHANGED <<state, chan, parent, lock, proc, i, j>>
    BY <1>3, Zenon DEF reap_fails, ScanReaches, At, Goto, table, loops
  <2>. QED
    BY <2>1, ReleaseInv, Zenon
<1>. QED
  BY <1>1, <1>2, <1>3, Zenon

LEMMA NextInv == IInv /\ [Next]_vars => IInv'
<1>. SUFFICES ASSUME IInv, [Next]_vars PROVE IInv'
  BY Zenon
<1>1. CASE UNCHANGED vars
  BY <1>1 DEF vars, IInv, TypeOK, OnCpu, WaitLock, Phase, Forking, Tree, Notice, Kids
<1>2. ASSUME NEW c \in CPUs, NEW p \in Slots, yield(c, p) PROVE IInv'
  BY <1>2, YieldInv, Zenon DEF yield, loops
<1>3. ASSUME NEW c \in CPUs, NEW p \in Slots, Kernel(c, p) PROVE IInv'
  <2>1. ASSUME NEW t \in Slots, kill(c, p, t) \/ reap(c, p, t) \/ reap_fails(c, p, t) \/ scan_child(c, p, t)
        PROVE  IInv'
    BY <2>1, KillInv, ReapInv, WaitLockInv, ScanChildInv, Zenon
  <2>2. CASE allocproc(c, p) \/ fork_parent(c, p) \/ fork_run(c, p) \/ kill_nobody(c, p) \/ usertrapret(c, p)
    BY <2>2, AllocprocInv, ForkParentInv, ForkRunInv, MovesInv, Zenon
  <2>3. CASE wait(c, p) \/ scan_end(c, p) \/ sleep(c, p) \/ exit(c, p) \/ zombie(c, p)
    BY <2>3, WaitLockInv, ScanEndInv, SleepInv, ZombieInv, Zenon
  <2>4. CASE reparent(c, p) \/ wakeup_init(c, p) \/ wakeup_parent(c, p)
    BY <2>4, ReparentInv, WakeupInitInv, WakeupParentInv, Zenon
  <2>. QED
    BY <1>3, <2>1, <2>2, <2>3, <2>4, Zenon DEF Kernel
<1>. QED
  BY <1>1, <1>2, <1>3, SchedulerInv, ResumeInv, SchedInv, TimerInv, MovesInv, Zenon DEF Next

-----------------------------------------------------------------------------
\* The invariant holds in every state the scheduler, fork, exit, wait, kill and the
\* traps reach, with any number of slots and of harts.
THEOREM Invariance == Spec => []IInv
BY InitInv, NextInv, PTL DEF Spec

\* No two CPUs are ever on one kernel stack, although yield(), sleep() and exit() change
\* a process's state before they leave its stack.
THEOREM StacksAreExclusive == Spec => []OneCpuPerProcess
<1>1. IInv => OneCpuPerProcess
  BY SlotFacts, ProcConstants DEF IInv, TypeOK, OnCpu, OneCpuPerProcess, Unlocked
<1>. QED
  BY <1>1, Invariance, PTL

\* Whoever enters swtch() holds the lock of its own slot and no other.
THEOREM SchedHoldsOneLock == Spec => []SwitchHoldsOneLock
<1>1. IInv => SwitchHoldsOneLock
  <2>. SUFFICES ASSUME IInv, NEW c \in CPUs, NEW p \in Slots, proc[c] = p, lock[p] = c
                PROVE  wait_lock # c /\ \A q \in Slots \ {p} : lock[q] # c
    BY Zenon DEF SwitchHoldsOneLock
  <2>1. wait_lock # c
    BY SlotFacts, ProcConstants, Zenon DEF IInv, TypeOK, WaitLock
  <2>2. \A q \in Slots \ {p} : lock[q] # c
    BY SlotFacts, ProcConstants DEF IInv, TypeOK, OnCpu
  <2>. QED
    BY <2>1, <2>2, Zenon
<1>. QED
  BY <1>1, Invariance, PTL

\* The process tree has no dangling parent.
THEOREM ParentsAreAlive == Spec => []ParentIsAlive
<1>1. IInv => ParentIsAlive
  BY SlotFacts, Zenon DEF IInv, TypeOK, Tree, ParentIsAlive, Live
<1>. QED
  BY <1>1, Invariance, PTL

\* wait() does not sleep through the exit of a child: the wakeup that exit() makes before
\* it becomes a zombie is not lost, because wait_lock is held from there to the end.
THEOREM ZombiesAreNoticed == Spec => []NoZombieUnnoticed
<1>1. IInv => NoZombieUnnoticed
  BY SlotFacts, Zenon DEF IInv, TypeOK, WaitLock, Notice, NoZombieUnnoticed, Locked, Exiting
<1>. QED
  BY <1>1, Invariance, PTL

\* Only wait() of its parent changes the state of a zombie.
LEMMA ZombieStays ==
    ASSUME IInv, NEW t \in Slots, state[t] = "ZOMBIE",
           NEW c \in CPUs, NEW p \in Slots,
           \/ scheduler(c, p) \/ resume(c, p) \/ sched(c, p) \/ yield(c, p)
           \/ timer(c, p) \/ fault(c, p)
           \/ \E call \in Traps \ {"fault"} : syscall(c, p, call)
           \/ Kernel(c, p) /\ ~ reap(c, p, t)
    PROVE  state'[t] = "ZOMBIE"
<1>. USE DEF IInv, TypeOK
<1>1. CASE scheduler(c, p) \/ resume(c, p) \/ sched(c, p)
  BY <1>1, Zenon DEF scheduler, FoundRunnable, resume, sched, table
<1>2. CASE yield(c, p) \/ timer(c, p) \/ sleep(c, p) \/ zombie(c, p)
  BY <1>2, Zenon DEF yield, timer, sleep, zombie, At, Runs
<1>3. CASE \/ fault(c, p) \/ (\E call \in Traps \ {"fault"} : syscall(c, p, call))
           \/ kill_nobody(c, p) \/ usertrapret(c, p) \/ fork_parent(c, p)
  BY <1>3, Zenon DEF fault, syscall, kill_nobody, usertrapret, fork_parent, table
<1>4. CASE \/ wait(c, p) \/ scan_end(c, p) \/ exit(c, p) \/ reparent(c, p)
           \/ (\E s \in Slots : reap_fails(c, p, s) \/ scan_child(c, p, s))
  BY <1>4, Zenon DEF wait, scan_end, exit, reparent, reap_fails, scan_child, table
<1>5. CASE wakeup_init(c, p) \/ wakeup_parent(c, p)
  BY <1>5 DEF wakeup_init, wakeup_parent, wakeup, Woken
<1>6. CASE \E s \in Slots : kill(c, p, s)
  BY <1>6, Zenon DEF kill
<1>7. CASE fork_run(c, p)
  BY <1>7, Zenon DEF fork_run, At, Forking
<1>8. CASE allocproc(c, p)
  BY <1>8, Zenon DEF allocproc, table, freeproc
<1>9. CASE \E s \in Slots : reap(c, p, s) /\ s # t
  BY <1>9, Zenon DEF reap, freeproc
<1>. QED
  BY <1>1, <1>2, <1>3, <1>4, <1>5, <1>6, <1>7, <1>8, <1>9, Zenon DEF Kernel

\* A zombie leaves the table by its parent's wait() alone, when no CPU uses its stack.
THEOREM ZombiesAreReaped == Spec => ReapedByParent
<1>. DEFINE Reaped(t) ==
        /\ state'[t] = "UNUSED"
        /\ \E c \in CPUs : proc[c] = parent[t] /\ wait_lock = c /\ pc[parent[t]] = "scan"
        /\ \A c \in CPUs : proc[c] # t
<1>1. ASSUME IInv, [Next]_vars, NEW t \in Slots, state[t] = "ZOMBIE", state'[t] # "ZOMBIE"
      PROVE  Reaped(t)
  <2>1. PICK c \in CPUs, p \in Slots : reap(c, p, t)
    BY <1>1, ZombieStays, Zenon DEF Next, vars
  <2>2. /\ Runs(c, p) /\ pc[p] = "scan" /\ parent[t] = p /\ lock[t] = NoCpu
        /\ state' = [state EXCEPT ![t] = "UNUSED"]
    BY <2>1, Zenon DEF reap, ScanReaches, At, Kids, ChildLocked, Unlocked, freeproc
  <2>3. proc[c] = p /\ wait_lock = c
    BY <1>1, <2>2, RunsFacts DEF IInv, TypeOK, WaitLock, Locked, Waiting
  <2>4. \A d \in CPUs : proc[d] # t
    BY <1>1, <2>2, SlotFacts, ProcConstants DEF IInv, TypeOK, OnCpu
  <2>. QED
    BY <1>1, <2>2, <2>3, <2>4, Zenon DEF IInv, TypeOK
<1>2. IInv /\ [Next]_vars =>
        [\A t \in Slots : state[t] = "ZOMBIE" /\ state'[t] # "ZOMBIE" => Reaped(t)]_vars
  BY <1>1, Zenon
<1>. QED
  BY <1>2, Invariance, PTL DEF Spec, ReapedByParent
=============================================================================
