--------------------------- MODULE LockPipeProofs ---------------------------
(***************************************************************************)
(* Proofs about spin locks and about pipes, the first for any number of    *)
(* harts, processes and locks, the second for any readers and writers, any *)
(* ring and any width of the counters that the ring's size divides.        *)
(*                                                                         *)
(* Spin locks: none of the properties is inductive.  The invariant adds    *)
(* that lk->cpu and the threads' own view of what they hold agree in both  *)
(* directions, that a thread that no hart executes is at rest, and that    *)
(* intena, on the hart or saved by sched(), is what the thread started     *)
(* from.                                                                   *)
(*                                                                         *)
(* Pipes: the pipe is freed after its last use, and its bytes form a       *)
(* bounded queue.                                                          *)
(***************************************************************************)
EXTENDS SpinLock, Pipe, FiniteSetTheorems, SequenceTheorems, TLAPS

-----------------------------------------------------------------------------
(* Spin locks *)

LockTypeOK ==
    /\ owner \in [Locks -> CPUs \cup {Free}]
    /\ sie \in [CPUs -> BOOLEAN] /\ intena \in [CPUs -> BOOLEAN]
    /\ noff \in [CPUs -> Nat]
    /\ cur \in [CPUs -> Threads]
    /\ held \in [Threads -> SUBSET Locks]
    /\ doing \in [Threads -> {"run", "spin", "found"}]
    /\ want \in [Threads -> Locks \cup {Free}]
    /\ saved \in [Procs -> BOOLEAN] /\ was \in [Threads -> BOOLEAN]
    /\ started \subseteq Procs
    /\ base \in [Threads -> {{}}]     \* an interrupted thread holds no lock

\* A hart executes a process or its own scheduler, and no thread runs on two harts.
Placed ==
    /\ \A c \in CPUs : cur[c] \in Procs \cup {c}
    /\ \A c, d \in CPUs : cur[c] = cur[d] => c = d

\* A thread that no hart executes is not in acquire().
AtRest == \A t \in Threads : doing[t] # "run" => \E c \in CPUs : cur[c] = t

\* What a thread holds is what lk->cpu says of the hart that executes it.
HeldIsOwned == \A t \in Threads, l \in Locks : l \in held[t] => owner[l] \in CPUs /\ cur[owner[l]] = t
OwnedIsHeld == \A c \in CPUs, l \in Locks : owner[l] = c => l \in held[cur[c]]

Finite == \A t \in Threads : IsFiniteSet(held[t])

\* acquire() is called for a lock that the thread does not hold.
Wanted == \A t \in Threads : doing[t] = "spin" => want[t] \in Locks \ held[t]

\* intena belongs to the thread: on the hart, and while it is saved by sched().
Intena ==
    /\ \A c \in CPUs : cur[c] \in Procs /\ noff[c] > 0 => intena[c] = was[cur[c]]
    /\ \A p \in started : (\A c \in CPUs : cur[c] # p) => saved[p] = was[p]

LockIInv == LockTypeOK /\ Placed /\ AtRest /\ HeldIsOwned /\ OwnedIsHeld /\ Finite /\ Wanted /\ InterruptsOff /\ Intena

-----------------------------------------------------------------------------
\* A thread's locks are counted by a natural number, which is 0 only without locks.
LEMMA HeldCount ==
    ASSUME LockIInv, NEW t \in Threads
    PROVE  /\ Cardinality(held[t]) \in Nat
           /\ Cardinality(held[t]) = 0 <=> held[t] = {}
BY FS_CardinalityType, FS_EmptySet, Zenon DEF LockIInv, Finite

\* The hart with interrupts on, or outside every push_off(), executes a thread without locks.
LEMMA NoLocks ==
    ASSUME LockIInv, NEW c \in CPUs, sie[c] \/ noff[c] = 0
    PROVE  noff[c] = 0 /\ held[cur[c]] = {} /\ doing[cur[c]] # "spin"
<1>1. cur[c] \in Threads /\ noff[c] \in Nat
  BY Zenon DEF LockIInv, LockTypeOK
<1>2. noff[c] = 0
  BY <1>1 DEF LockIInv, InterruptsOff
<1>. QED
  BY <1>1, <1>2, HeldCount DEF LockIInv, InterruptsOff

\* No lock is held by two threads.
LEMMA Disjoint ==
    ASSUME LockIInv, NEW t \in Threads, NEW u \in Threads, NEW l \in Locks, l \in held[t], l \in held[u]
    PROVE  t = u
BY Zenon DEF LockIInv, HeldIsOwned

LEMMA LockInitInv == LockInit => LockIInv
<1>. SUFFICES ASSUME LockInit PROVE LockIInv
  BY Zenon
<1>1. LockTypeOK
  BY Zenon DEF LockInit, LockTypeOK, Threads
<1>2. Placed /\ AtRest /\ HeldIsOwned /\ OwnedIsHeld /\ Wanted
  BY SpinConstants, Zenon DEF LockInit, Placed, AtRest, HeldIsOwned, OwnedIsHeld, Wanted, Threads
<1>3. Finite /\ InterruptsOff
  BY FS_EmptySet DEF LockInit, Finite, InterruptsOff, Threads
<1>4. Intena
  BY DEF LockInit, Intena
<1>. QED
  BY <1>1, <1>2, <1>3, <1>4, Zenon DEF LockIInv

\* acquire(): a lock the thread does not hold, by the lock order.
LEMMA AcquireInv ==
    ASSUME LockIInv, NEW c \in CPUs, NEW t \in Threads, NEW l \in Locks, acquire(c, t, l)
    PROVE  LockIInv'
<1>. USE DEF LockIInv
<1>1. cur[c] = t /\ doing[t] = "run" /\ base[t] = {}
  BY Zenon DEF acquire, Runs, LockTypeOK
<1>2. LockTypeOK'
  BY DEF acquire, push_off, IntrAfterPush, LockTypeOK, handler
<1>3. l \notin held[t]
  <2>1. held[t] \cap Procs = {} /\ (l \in Shared => \A k \in held[t] : k < l)
    BY <1>1, Zenon DEF acquire, InOrder
  <2>2. CASE l \in Procs
    BY <2>1, <2>2, Zenon
  <2>3. CASE l \in Shared
    <3>1. l \in Nat /\ ~(l < l)
      BY <2>3, SpinConstants
    <3>. QED
      BY <2>1, <2>3, <3>1, Zenon
  <2>. QED
    BY <2>2, <2>3, Zenon DEF Locks
<1>4. Placed' /\ AtRest' /\ HeldIsOwned' /\ OwnedIsHeld' /\ Finite'
  BY <1>1 DEF acquire, LockTypeOK, Placed, AtRest, HeldIsOwned, OwnedIsHeld, Finite
<1>5. Wanted'
  BY <1>3, Zenon DEF acquire, LockTypeOK, Wanted
<1>6. InterruptsOff'
  <2>. SUFFICES ASSUME NEW d \in CPUs
                PROVE  (/\ noff[d] = Cardinality(held[cur[d]]) + (IF doing[cur[d]] = "spin" THEN 1 ELSE 0)
                        /\ noff[d] > 0 => ~sie[d])'
    BY Zenon DEF InterruptsOff
  <2>1. cur[d] \in Threads /\ Cardinality(held[cur[d]]) \in Nat
    BY HeldCount, Zenon DEF LockTypeOK
  <2>2. CASE d = c
    BY <1>1, <2>1, <2>2 DEF acquire, push_off, IntrAfterPush, LockTypeOK, InterruptsOff
  <2>3. CASE d # c
    <3>1. cur[d] # t
      BY <1>1, <2>3, Zenon DEF Placed
    <3>. QED
      BY <2>1, <2>3, <3>1, Zenon DEF acquire, push_off, LockTypeOK, InterruptsOff
  <2>. QED
    BY <2>2, <2>3, Zenon
<1>7. Intena'
  <2>1. ASSUME NEW d \in CPUs, cur'[d] \in Procs, noff'[d] > 0
        PROVE  intena'[d] = was'[cur'[d]]
    <3>1. CASE d = c
      BY <1>1, <2>1, <3>1 DEF acquire, push_off, LockTypeOK, Intena
    <3>2. CASE d # c
      <4>1. cur[d] # t
        BY <1>1, <3>2, Zenon DEF Placed
      <4>. QED
        BY <2>1, <3>2, <4>1, Zenon DEF acquire, push_off, LockTypeOK, Intena
    <3>. QED
      BY <3>1, <3>2, Zenon
  <2>2. ASSUME NEW p \in started', \A d \in CPUs : cur'[d] # p
        PROVE  saved'[p] = was'[p]
    BY <1>1, <2>2 DEF acquire, LockTypeOK, Intena
  <2>. QED
    BY <2>1, <2>2, Zenon DEF Intena
<1>. QED
  BY <1>2, <1>4, <1>5, <1>6, <1>7, Zenon

\* The swap succeeds: the lock was free, so no thread held it.
LEMMA AcquiredInv ==
    ASSUME LockIInv, NEW c \in CPUs, NEW t \in Threads, acquired(c, t)
    PROVE  LockIInv'
<1>. USE DEF LockIInv
<1>1. cur[c] = t /\ doing[t] = "spin" /\ want[t] \in Locks /\ owner[want[t]] = Free /\ want[t] \notin held[t]
  BY Zenon DEF acquired, Runs, Swapped, Wanted
<1>2. \A u \in Threads : want[t] \notin held[u]
  BY <1>1, SpinConstants, Zenon DEF HeldIsOwned
<1>3. LockTypeOK'
  BY <1>1 DEF acquired, LockTypeOK, hart, handler
<1>4. Placed' /\ AtRest'
  BY <1>1 DEF acquired, LockTypeOK, Placed, AtRest
<1>5. HeldIsOwned'
  BY <1>1, <1>2 DEF acquired, LockTypeOK, HeldIsOwned
<1>6. OwnedIsHeld'
  <2>. SUFFICES ASSUME NEW d \in CPUs, NEW l \in Locks, owner'[l] = d
                PROVE  l \in held'[cur'[d]]
    BY Zenon DEF OwnedIsHeld
  <2>1. cur'[d] \in Threads /\ cur' = cur
    BY Zenon DEF acquired, LockTypeOK
  <2>2. CASE l = want[t]
    BY <1>1, <2>1, <2>2, Zenon DEF acquired, LockTypeOK
  <2>3. CASE l # want[t]
    BY <2>1, <2>3, Zenon DEF acquired, LockTypeOK, OwnedIsHeld
  <2>. QED
    BY <2>2, <2>3, Zenon
<1>7. IsFiniteSet(held'[t]) /\ Cardinality(held'[t]) = Cardinality(held[t]) + 1
  <2>1. held'[t] = held[t] \cup {want[t]}
    BY Zenon DEF acquired, LockTypeOK
  <2>2. IsFiniteSet(held[t])
    BY Zenon DEF Finite
  <2>3. /\ IsFiniteSet(held[t] \cup {want[t]})
        /\ Cardinality(held[t] \cup {want[t]}) = Cardinality(held[t]) + 1
    BY <1>1, <2>2, FS_AddElement, Zenon
  <2>. QED
    BY <2>1, <2>3, Zenon
<1>8. Finite'
  BY <1>7, Zenon DEF acquired, LockTypeOK, Finite
<1>9. Wanted'
  BY Zenon DEF acquired, LockTypeOK, Wanted
<1>10. InterruptsOff'
  <2>. SUFFICES ASSUME NEW d \in CPUs
                PROVE  (/\ noff[d] = Cardinality(held[cur[d]]) + (IF doing[cur[d]] = "spin" THEN 1 ELSE 0)
                        /\ noff[d] > 0 => ~sie[d])'
    BY Zenon DEF InterruptsOff
  <2>1. cur[d] \in Threads /\ Cardinality(held[cur[d]]) \in Nat
    BY HeldCount, Zenon DEF LockTypeOK
  <2>2. CASE d = c
    BY <1>1, <1>7, <2>1, <2>2 DEF acquired, hart, LockTypeOK, InterruptsOff
  <2>3. CASE d # c
    <3>1. cur[d] # t
      BY <1>1, <2>3, Zenon DEF Placed
    <3>. QED
      BY <2>1, <2>3, <3>1, Zenon DEF acquired, hart, LockTypeOK, InterruptsOff
  <2>. QED
    BY <2>2, <2>3, Zenon
<1>11. Intena'
  BY Zenon DEF acquired, hart, Intena
<1>. QED
  BY <1>3, <1>4, <1>5, <1>6, <1>8, <1>9, <1>10, <1>11, Zenon

\* release(): one lock less, of the thread that held it.
LEMMA ReleaseInv ==
    ASSUME LockIInv, NEW c \in CPUs, NEW t \in Threads, NEW l \in Locks, release(c, t, l)
    PROVE  LockIInv'
<1>. USE DEF LockIInv
<1>1. cur[c] = t /\ doing[t] # "spin" /\ l \in held[t]
  BY Zenon DEF release, Runs, LockTypeOK
<1>2. \A u \in Threads \ {t} : l \notin held[u]
  BY <1>1, Disjoint, Zenon
<1>3. IsFiniteSet(held'[t]) /\ Cardinality(held'[t]) = Cardinality(held[t]) - 1
  <2>1. held'[t] = held[t] \ {l}
    BY Zenon DEF release, LockTypeOK
  <2>2. IsFiniteSet(held[t])
    BY Zenon DEF Finite
  <2>3. Cardinality(held[t] \ {l}) = Cardinality(held[t]) - 1 /\ IsFiniteSet(held[t] \ {l})
    BY <1>1, <2>2, FS_RemoveElement, Zenon
  <2>. QED
    BY <2>1, <2>3, Zenon
<1>4. noff[c] \in Nat /\ noff[c] > 0 /\ ~sie[c]
  <2>1. Cardinality(held[t]) \in Nat /\ Cardinality(held[t]) # 0
    BY <1>1, HeldCount, Zenon
  <2>. QED
    BY <1>1, <2>1 DEF InterruptsOff, LockTypeOK
<1>5. LockTypeOK'
  BY <1>4 DEF release, pop_off, LockTypeOK, handler
<1>6. Placed' /\ AtRest'
  BY <1>1 DEF release, LockTypeOK, Placed, AtRest
<1>7. HeldIsOwned' /\ OwnedIsHeld'
  BY <1>1, <1>2, SpinConstants DEF release, LockTypeOK, HeldIsOwned, OwnedIsHeld
<1>8. Finite'
  BY <1>3, Zenon DEF release, LockTypeOK, Finite
<1>9. Wanted'
  BY Zenon DEF release, LockTypeOK, Wanted
<1>10. InterruptsOff'
  <2>. SUFFICES ASSUME NEW d \in CPUs
                PROVE  (/\ noff[d] = Cardinality(held[cur[d]]) + (IF doing[cur[d]] = "spin" THEN 1 ELSE 0)
                        /\ noff[d] > 0 => ~sie[d])'
    BY Zenon DEF InterruptsOff
  <2>1. cur[d] \in Threads /\ Cardinality(held[cur[d]]) \in Nat
    BY HeldCount, Zenon DEF LockTypeOK
  <2>2. CASE d = c
    BY <1>1, <1>3, <1>4, <2>1, <2>2 DEF release, pop_off, LockTypeOK, InterruptsOff
  <2>3. CASE d # c
    <3>1. cur[d] # t
      BY <1>1, <2>3, Zenon DEF Placed
    <3>. QED
      BY <2>1, <2>3, <3>1, Zenon DEF release, pop_off, LockTypeOK, InterruptsOff
  <2>. QED
    BY <2>2, <2>3, Zenon
<1>11. Intena'
  BY <1>4, Zenon DEF release, pop_off, LockTypeOK, Intena
<1>. QED
  BY <1>5, <1>6, <1>7, <1>8, <1>9, <1>10, <1>11, Zenon

\* Interrupts are switched only by a thread that holds no lock.
LEMMA SwitchInv ==
    ASSUME LockIInv, NEW c \in CPUs, NEW t \in Threads,
           interrupt(c, t) \/ sret(c, t) \/ \E on \in BOOLEAN : intr_set(c, t, on)
    PROVE  LockIInv'
<1>. USE DEF LockIInv, interrupt, sret, intr_set, handler
<1>1. cur[c] = t /\ base[t] = {}
  BY Zenon DEF Runs, LockTypeOK
<1>2. held[t] = {} /\ doing[t] # "spin"
  BY <1>1, NoLocks, Zenon
<1>3. noff[c] = 0
  <2>1. Cardinality(held[t]) = 0
    BY <1>2, FS_EmptySet, Zenon
  <2>2. noff[c] = Cardinality(held[cur[c]]) + (IF doing[cur[c]] = "spin" THEN 1 ELSE 0)
    BY Zenon DEF InterruptsOff
  <2>. QED
    BY <1>1, <1>2, <2>1, <2>2
<1>4. LockTypeOK'
  <2>1. UNCHANGED <<owner, noff, intena, cur, held, doing, want, saved, started, was>>
    OBVIOUS
  <2>2. /\ \E on \in BOOLEAN : sie' = [sie EXCEPT ![c] = on]
        /\ base' = base \/ base' = [base EXCEPT ![t] = {}]
    BY <1>2, Zenon
  <2>3. sie' \in [CPUs -> BOOLEAN] /\ base' \in [Threads -> {{}}]
    BY <2>2 DEF LockTypeOK
  <2>. QED
    BY <2>1, <2>3, Zenon DEF LockTypeOK
<1>5. Placed' /\ AtRest' /\ HeldIsOwned' /\ OwnedIsHeld' /\ Finite' /\ Wanted' /\ Intena'
  BY DEF Placed, AtRest, HeldIsOwned, OwnedIsHeld, Finite, Wanted, Intena
<1>6. InterruptsOff'
  BY <1>3 DEF InterruptsOff, LockTypeOK
<1>. QED
  BY <1>4, <1>5, <1>6, Zenon

\* sched(): the hart's scheduler, at rest until now, takes over the one lock.
LEMMA SchedInv ==
    ASSUME LockIInv, NEW c \in CPUs, NEW p \in Procs, sched(c, p)
    PROVE  LockIInv'
<1>. USE DEF LockIInv
<1>0. p \in Threads /\ c \in Threads /\ p # c /\ p \in Locks
  BY SpinConstants, Zenon DEF Threads, Locks
<1>1. cur[c] = p /\ doing[p] = "run" /\ p \in held[p] /\ Cardinality(held[p]) = 1
  BY Zenon DEF sched, Runs, MaySched
<1>2. held[p] = {p}
  <2>1. PICK x : held[p] = {x}
    BY <1>0, <1>1, FS_Singleton, Zenon DEF Finite
  <2>. QED
    BY <1>1, <2>1, Zenon
<1>3. owner[p] = c
  BY <1>0, <1>1 DEF HeldIsOwned, Placed
<1>4. \A d \in CPUs : cur[d] # c
  BY <1>0, <1>1, SpinConstants DEF Placed
<1>5. doing[c] = "run" /\ held[c] = {}
  BY <1>0, <1>4 DEF AtRest, HeldIsOwned, LockTypeOK
<1>6. held' = [held EXCEPT ![p] = {}, ![c] = {p}] /\ cur' = [cur EXCEPT ![c] = c]
  BY Zenon DEF sched
<1>7. LockTypeOK'
  BY <1>0, <1>6 DEF sched, LockTypeOK, hart, handler
<1>8. Placed'
  BY <1>0, <1>4, <1>6 DEF Placed, LockTypeOK
<1>9. AtRest'
  BY <1>0, <1>1, <1>5, <1>6 DEF sched, AtRest, LockTypeOK
<1>10. HeldIsOwned' /\ OwnedIsHeld'
  <2>0. owner' = owner
    BY Zenon DEF sched
  <2>1. HeldIsOwned'
    BY <1>0, <1>1, <1>3, <1>5, <1>6, <2>0 DEF HeldIsOwned, LockTypeOK
  <2>2. OwnedIsHeld'
    <3>. SUFFICES ASSUME NEW d \in CPUs, NEW l \in Locks, owner[l] = d
                  PROVE  l \in held'[cur'[d]]
      BY <2>0, Zenon DEF OwnedIsHeld
    <3>1. l \in held[cur[d]] /\ cur[d] \in Threads
      BY Zenon DEF OwnedIsHeld, LockTypeOK
    <3>2. CASE d = c
      BY <1>0, <1>1, <1>2, <1>6, <3>1, <3>2, Zenon DEF LockTypeOK
    <3>3. CASE d # c
      <4>1. cur[d] # p /\ cur[d] # c /\ cur'[d] = cur[d]
        BY <1>1, <1>4, <1>6, <3>3, Zenon DEF Placed, LockTypeOK
      <4>. QED
        BY <1>6, <3>1, <4>1, Zenon DEF LockTypeOK
    <3>. QED
      BY <3>2, <3>3, Zenon
  <2>. QED
    BY <2>1, <2>2, Zenon
<1>11. Finite'
  BY <1>0, <1>6, FS_EmptySet, FS_Singleton, Zenon DEF Finite, LockTypeOK
<1>12. Wanted'
  BY <1>0, <1>1, <1>5, <1>6, Zenon DEF sched, Wanted, LockTypeOK
<1>13. InterruptsOff'
  <2>. SUFFICES ASSUME NEW d \in CPUs
                PROVE  (/\ noff[d] = Cardinality(held[cur[d]]) + (IF doing[cur[d]] = "spin" THEN 1 ELSE 0)
                        /\ noff[d] > 0 => ~sie[d])'
    BY Zenon DEF InterruptsOff
  <2>0. doing' = doing /\ noff' = noff /\ sie' = sie
    BY Zenon DEF sched, hart
  <2>1. CASE d = c
    <3>1. held'[cur'[d]] = {p} /\ doing'[cur'[d]] = "run"
      BY <1>0, <1>5, <1>6, <2>0, <2>1, Zenon DEF LockTypeOK
    <3>2. Cardinality(held'[cur'[d]]) = 1
      BY <3>1, FS_Singleton, Zenon
    <3>. QED
      BY <1>1, <2>0, <2>1, <3>1, <3>2 DEF InterruptsOff
  <2>2. CASE d # c
    <3>1. cur[d] # p /\ cur[d] # c /\ cur'[d] = cur[d] /\ cur[d] \in Threads
      BY <1>1, <1>4, <1>6, <2>2, Zenon DEF Placed, LockTypeOK
    <3>2. held'[cur'[d]] = held[cur[d]]
      BY <1>6, <3>1, Zenon DEF LockTypeOK
    <3>. QED
      BY <2>0, <3>1, <3>2, Zenon DEF InterruptsOff
  <2>. QED
    BY <2>1, <2>2, Zenon
<1>14. Intena'
  <2>0. noff[c] > 0
    BY <1>1 DEF InterruptsOff
  <2>1. intena[c] = was[p]
    BY <1>1, <2>0, Zenon DEF Intena
  <2>. QED
    BY <1>0, <1>1, <1>6, <2>1, SpinConstants DEF sched, hart, Intena, LockTypeOK
<1>. QED
  BY <1>7, <1>8, <1>9, <1>10, <1>11, <1>12, <1>13, <1>14, Zenon

\* swtch(): the process, at rest until now, takes over its lock from the scheduler.
LEMMA SwtchInv ==
    ASSUME LockIInv, NEW c \in CPUs, NEW p \in Procs, swtch(c, p)
    PROVE  LockIInv'
<1>. USE DEF LockIInv
<1>0. p \in Threads /\ c \in Threads /\ p # c /\ p \in Locks
  BY SpinConstants, Zenon DEF Threads, Locks
<1>1. cur[c] = c /\ doing[c] = "found" /\ held[c] = {p} /\ \A d \in CPUs : cur[d] # p
  BY Zenon DEF swtch, Runs
<1>2. owner[p] = c
  BY <1>0, <1>1 DEF HeldIsOwned, Placed
<1>3. doing[p] = "run" /\ held[p] = {}
  BY <1>0, <1>1 DEF AtRest, HeldIsOwned, LockTypeOK
<1>4. \A d \in CPUs \ {c} : cur[d] # c
  BY <1>1, Zenon DEF Placed
<1>5. held' = [held EXCEPT ![p] = {p}, ![c] = {}] /\ cur' = [cur EXCEPT ![c] = p]
  BY Zenon DEF swtch
<1>6. doing' = [doing EXCEPT ![c] = "run"] /\ owner' = owner /\ sie' = sie /\ noff' = noff /\ want' = want /\ saved' = saved
  BY Zenon DEF swtch
<1>7. LockTypeOK'
  BY <1>0, <1>5, <1>6 DEF swtch, RestoredIntena, LockTypeOK, handler
<1>8. Placed'
  BY <1>0, <1>1, <1>5, Zenon DEF Placed, LockTypeOK
<1>9. AtRest'
  BY <1>0, <1>1, <1>3, <1>5, <1>6, Zenon DEF AtRest, LockTypeOK
<1>10. HeldIsOwned'
  BY <1>0, <1>1, <1>2, <1>5, <1>6 DEF HeldIsOwned, LockTypeOK
<1>11. OwnedIsHeld'
  <2>. SUFFICES ASSUME NEW d \in CPUs, NEW l \in Locks, owner[l] = d
                PROVE  l \in held'[cur'[d]]
    BY <1>6, Zenon DEF OwnedIsHeld
  <2>1. l \in held[cur[d]] /\ cur[d] \in Threads
    BY Zenon DEF OwnedIsHeld, LockTypeOK
  <2>2. CASE d = c
    BY <1>0, <1>1, <1>5, <2>1, <2>2, Zenon DEF LockTypeOK
  <2>3. CASE d # c
    <3>1. cur[d] # p /\ cur[d] # c /\ cur'[d] = cur[d]
      BY <1>1, <1>4, <1>5, <2>3, Zenon DEF LockTypeOK
    <3>. QED
      BY <1>5, <2>1, <3>1, Zenon DEF LockTypeOK
  <2>. QED
    BY <2>2, <2>3, Zenon
<1>12. Finite'
  BY <1>0, <1>5, FS_EmptySet, FS_Singleton, Zenon DEF Finite, LockTypeOK
<1>13. Wanted'
  BY <1>0, <1>1, <1>3, <1>5, <1>6, Zenon DEF Wanted, LockTypeOK
<1>14. noff[c] = 1
  <2>1. Cardinality(held[cur[c]]) = 1 /\ doing[cur[c]] # "spin"
    BY <1>1, FS_Singleton, Zenon
  <2>2. noff[c] = Cardinality(held[cur[c]]) + (IF doing[cur[c]] = "spin" THEN 1 ELSE 0)
    BY Zenon DEF InterruptsOff
  <2>. QED
    BY <2>1, <2>2
<1>15. InterruptsOff'
  <2>. SUFFICES ASSUME NEW d \in CPUs
                PROVE  (/\ noff[d] = Cardinality(held[cur[d]]) + (IF doing[cur[d]] = "spin" THEN 1 ELSE 0)
                        /\ noff[d] > 0 => ~sie[d])'
    BY Zenon DEF InterruptsOff
  <2>1. CASE d = c
    <3>1. held'[cur'[d]] = {p} /\ doing'[cur'[d]] = "run"
      BY <1>0, <1>3, <1>5, <1>6, <2>1, Zenon DEF LockTypeOK
    <3>2. Cardinality(held'[cur'[d]]) = 1
      BY <3>1, FS_Singleton, Zenon
    <3>. QED
      BY <1>6, <1>14, <2>1, <3>1, <3>2 DEF InterruptsOff
  <2>2. CASE d # c
    <3>1. cur[d] # p /\ cur[d] # c /\ cur'[d] = cur[d] /\ cur[d] \in Threads
      BY <1>1, <1>4, <1>5, <2>2, Zenon DEF LockTypeOK
    <3>2. held'[cur'[d]] = held[cur[d]] /\ doing'[cur'[d]] = doing[cur[d]]
      BY <1>5, <1>6, <3>1, Zenon DEF LockTypeOK
    <3>. QED
      BY <1>6, <3>1, <3>2, Zenon DEF InterruptsOff
  <2>. QED
    BY <2>1, <2>2, Zenon
<1>16. Intena'
  <2>1. ASSUME NEW d \in CPUs, cur'[d] \in Procs, noff'[d] > 0
        PROVE  intena'[d] = was'[cur'[d]]
    <3>1. CASE d = c
      <4>1. cur'[d] = p
        BY <1>5, <3>1, Zenon DEF LockTypeOK
      <4>2. CASE p \in started
        BY <1>1, <3>1, <4>1, <4>2, Zenon DEF swtch, RestoredIntena, LockTypeOK, Intena
      <4>3. CASE p \notin started
        BY <1>0, <3>1, <4>1, <4>3, Zenon DEF swtch, RestoredIntena, LockTypeOK
      <4>. QED
        BY <4>2, <4>3, Zenon
    <3>2. CASE d # c
      <4>1. cur'[d] = cur[d] /\ cur[d] # p
        BY <1>1, <1>5, <3>2, Zenon DEF LockTypeOK
      <4>. QED
        BY <1>6, <2>1, <3>2, <4>1, Zenon DEF swtch, LockTypeOK, Intena
    <3>. QED
      BY <3>1, <3>2, Zenon
  <2>2. ASSUME NEW q \in started', \A d \in CPUs : cur'[d] # q
        PROVE  saved'[q] = was'[q]
    <3>1. q # p
      BY <1>5, <2>2, Zenon DEF LockTypeOK
    <3>2. q \in started /\ q \in Procs
      BY <3>1, Zenon DEF swtch, LockTypeOK
    <3>3. \A d \in CPUs : cur[d] # q
      BY <1>0, <1>1, <1>5, <2>2, <3>2, SpinConstants DEF LockTypeOK
    <3>. QED
      BY <1>6, <3>1, <3>2, <3>3 DEF swtch, LockTypeOK, Intena
  <2>. QED
    BY <2>1, <2>2, Zenon DEF Intena
<1>. QED
  BY <1>7, <1>8, <1>9, <1>10, <1>11, <1>12, <1>13, <1>15, <1>16, Zenon

\* Every step keeps the invariant.
LEMMA LockNextInv == LockIInv /\ [LockNext]_lockVars => LockIInv'
<1>. SUFFICES ASSUME LockIInv, [LockNext]_lockVars PROVE LockIInv'
  BY Zenon
<1>1. CASE UNCHANGED lockVars
  BY <1>1 DEF lockVars, LockIInv, LockTypeOK, Placed, AtRest, HeldIsOwned, OwnedIsHeld, Finite, Wanted, InterruptsOff, Intena
<1>2. ASSUME NEW c \in CPUs, NEW t \in Threads, NEW l \in Locks, release(c, t, l) \/ acquire(c, t, l)
      PROVE  LockIInv'
  BY <1>2, ReleaseInv, AcquireInv, Zenon
<1>3. ASSUME NEW c \in CPUs, NEW t \in Threads,
             acquired(c, t) \/ interrupt(c, t) \/ sret(c, t) \/ \E on \in BOOLEAN : intr_set(c, t, on)
      PROVE  LockIInv'
  BY <1>3, AcquiredInv, SwitchInv, Zenon
<1>4. ASSUME NEW c \in CPUs, NEW p \in Procs, sched(c, p) \/ swtch(c, p)
      PROVE  LockIInv'
  BY <1>4, SchedInv, SwtchInv, Zenon
<1>. QED
  BY <1>1, <1>2, <1>3, <1>4, Zenon DEF LockNext

\* The invariant holds in every behaviour, of any number of harts, processes and locks.
THEOREM LockInvariance == LockSpec => []LockIInv
BY LockInitInv, LockNextInv, PTL DEF LockSpec

\* A spinlock is held by at most one thread, and lk->cpu is the hart that executes it, also
\* after sched() or scheduler() has handed the lock to another thread.
THEOREM LocksExclude == LockSpec => []MutualExclusion
<1>1. LockIInv => MutualExclusion
  <2>. SUFFICES ASSUME LockIInv PROVE MutualExclusion
    BY Zenon
  <2>1. \A t, u \in Threads : t # u => held[t] \cap held[u] = {}
    BY Disjoint, Zenon DEF LockIInv, LockTypeOK
  <2>. QED
    BY <2>1, Zenon DEF LockIInv, HeldIsOwned, MutualExclusion
<1>. QED
  BY <1>1, LockInvariance, PTL

\* acquire() never finds the lock held by its own hart: no thread, and no interrupt handler
\* on top of one, waits for itself.
THEOREM NobodyWaitsForItself == LockSpec => []NoSelfDeadlock
<1>1. LockIInv => NoSelfDeadlock
  BY Zenon DEF LockIInv, LockTypeOK, OwnedIsHeld, Wanted, NoSelfDeadlock
<1>. QED
  BY <1>1, LockInvariance, PTL

\* The outermost release() of a process leaves interrupts as they were before its outermost
\* acquire(), on whatever hart the process resumed.
THEOREM IntenaFollowsThread == LockSpec => InterruptsRestored
<1>. DEFINE Restores(c, p) ==
        cur[c] = p /\ cur'[c] = p /\ noff[c] = 1 /\ noff'[c] = 0 => sie'[c] = was[p]
<1>1. LockIInv /\ [LockNext]_lockVars => [\A c \in CPUs, p \in Procs : Restores(c, p)]_lockVars
  <2>. SUFFICES ASSUME LockIInv, LockNext, NEW c \in CPUs, NEW p \in Procs,
                       cur[c] = p, cur'[c] = p, noff[c] = 1, noff'[c] = 0
                PROVE  sie'[c] = was[p]
    BY Zenon
  <2>1. noff' # noff
    OBVIOUS
  <2>2. PICK d \in CPUs, t \in Threads, l \in Locks : release(d, t, l) \/ acquire(d, t, l)
    BY <2>1 DEF LockNext, acquired, interrupt, sret, intr_set, sched, swtch, hart
  <2>3. d = c
    BY <2>2 DEF release, acquire, push_off, pop_off, LockIInv, LockTypeOK
  <2>4. release(c, t, l)
    BY <2>2, <2>3 DEF acquire, push_off, LockIInv, LockTypeOK
  <2>5. ~sie[c] /\ intena[c] = was[p]
    BY DEF LockIInv, InterruptsOff, Intena
  <2>. QED
    BY <2>4, <2>5, Zenon DEF release, pop_off, LockIInv, LockTypeOK
<1>. QED
  BY <1>1, LockInvariance, PTL DEF LockSpec, InterruptsRestored

-----------------------------------------------------------------------------
(* Pipes *)

\* What the definition of % says of a quotient and a remainder.
LEMMA Division ==
    ASSUME NEW m \in Nat \ {0}, NEW x \in Int
    PROVE  /\ x % m \in 0 .. m - 1
           /\ \E q \in Int : x = m * q + (x % m)
<1>1. x % m \in 0 .. m - 1
  OBVIOUS
<1>2. x \div m \in Int
  OBVIOUS
<1>3. x = m * (x \div m) + (x % m)
  OBVIOUS
<1>. QED
  BY <1>1, <1>2, <1>3, Zenon

\* A multiple of m below m and above -m is 0.
LEMMA SmallMultiple ==
    ASSUME NEW m \in Nat \ {0}, NEW q \in Int, m * q < m, m * q > -m
    PROVE  q = 0
<1>1. CASE q >= 1
  <2>1. m * q >= m * 1
    BY <1>1
  <2>. QED
    BY <2>1
<1>2. CASE q <= -1
  <2>1. m * q <= m * (-1)
    BY <1>2
  <2>. QED
    BY <2>1
<1>. QED
  BY <1>1, <1>2

\* The remainder is unique.
LEMMA Remainder ==
    ASSUME NEW m \in Nat \ {0}, NEW x \in Int, NEW q \in Int, NEW r \in 0 .. m - 1,
           x = m * q + r
    PROVE  x % m = r
<1>1. PICK s \in Int : x = m * s + (x % m)
  BY Division, Zenon
<1>2. x % m \in 0 .. m - 1
  BY Division, Zenon
<1>3. m * (q - s) = (x % m) - r
  <2>1. m * (q - s) = m * q - m * s
    OBVIOUS
  <2>2. m * q \in Int /\ m * s \in Int
    OBVIOUS
  <2>. QED
    BY <1>1, <1>2, <2>1, <2>2
<1>4. q - s = 0
  <2>1. m * (q - s) < m /\ m * (q - s) > -m
    BY <1>2, <1>3
  <2>. QED
    BY <2>1, SmallMultiple
<1>5. m * (q - s) = 0
  BY <1>4
<1>. QED
  BY <1>2, <1>3, <1>5

\* Counting up to twice the modulus wraps once.
LEMMA WrapsOnce ==
    ASSUME NEW m \in Nat \ {0}, NEW x \in Int, 0 <= x, x < m + m
    PROVE  x % m = IF x < m THEN x ELSE x - m
<1>1. CASE x < m
  BY <1>1, Remainder, x = m * 0 + x
<1>2. CASE ~ x < m
  BY <1>2, Remainder, x = m * 1 + (x - m)
<1>. QED
  BY <1>1, <1>2, Zenon

\* Bytes that are less than a ring apart have different places.
LEMMA PlacesDiffer ==
    ASSUME NEW m \in Nat \ {0}, NEW x \in Int, NEW d \in 1 .. m - 1, NEW y \in Int, y = x + d
    PROVE  x % m # y % m
<1>. SUFFICES ASSUME x % m = y % m PROVE FALSE
  BY Zenon
<1>1. PICK q \in Int : x = m * q + (x % m)
  BY Division, Zenon
<1>2. PICK s \in Int : y = m * s + (y % m)
  BY Division, Zenon
<1>3. m * (s - q) = d
  <2>1. m * (s - q) = m * s - m * q
    OBVIOUS
  <2>2. PICK a \in Int, b \in Int, r \in Int : a = m * q /\ b = m * s /\ r = x % m
    BY Division
  <2>3. x = a + r /\ y = b + r
    BY <1>1, <1>2, <2>2, Zenon
  <2>4. b - a = d
    BY <2>3
  <2>. QED
    BY <2>1, <2>2, <2>4, Zenon
<1>4. s - q = 0
  BY <1>3, SmallMultiple
<1>5. m * (s - q) = 0
  BY <1>4
<1>. QED
  BY <1>3, <1>5

-----------------------------------------------------------------------------
TypeOK ==
    /\ data \in [0 .. PIPESIZE - 1 -> Bytes]
    /\ nread \in 0 .. WRAP - 1 /\ nwrite \in 0 .. WRAP - 1
    /\ readopen \in BOOLEAN /\ writeopen \in BOOLEAN /\ freed \in BOOLEAN
    /\ lock \in Users \cup {Nobody}
    /\ open \subseteq Users
    /\ pc \in [Users -> Labels]
    /\ n \in [Users -> Nat]

\* pi->lock is held exactly at the labels between two steps of one critical section.
LockHeld == \A p \in Users : pc[p] \in {"w_turn", "w_sleep", "r_sleep"} <=> lock = p

\* Whoever is in a call has its descriptor; an end is closed when all its descriptors are.
Ends ==
    /\ \A p \in Users : pc[p] # "user" => p \in open
    /\ ~readopen => open \cap Readers = {}
    /\ ~writeopen => open \cap Writers = {}
    /\ freed => ~readopen /\ ~writeopen

\* The ring holds no more than it has room for.
Bounded == Used <= PIPESIZE

IInv == TypeOK /\ LockHeld /\ Ends /\ Bounded

-----------------------------------------------------------------------------
LEMMA Sizes == PIPESIZE \in Nat \ {0} /\ WRAP \in Nat \ {0} /\ WRAP > PIPESIZE
BY PipeConstants

\* A counter that wraps points to the same place of the ring, whose size divides the modulus.
LEMMA SamePlace ==
    ASSUME NEW x \in Int, NEW y \in Int, y = x - WRAP
    PROVE  y % PIPESIZE = x % PIPESIZE
<1>0. PICK m \in Nat \ {0}, w \in Int : m = PIPESIZE /\ w = WRAP /\ w % m = 0 /\ y = x - w
  BY Sizes, PipeConstants
<1>1. PICK q \in Int : x = m * q + (x % m)
  BY Division, Zenon
<1>2. PICK s \in Int : w = m * s
  <2>1. PICK s \in Int : w = m * s + (w % m)
    BY Division, Zenon
  <2>2. m * s \in Int
    OBVIOUS
  <2>. QED
    BY <1>0, <2>1, <2>2
<1>3. x % m \in 0 .. m - 1
  BY Division, Zenon
<1>4. y = m * (q - s) + (x % m)
  <2>1. m * (q - s) = m * q - m * s
    OBVIOUS
  <2>2. PICK a \in Int, b \in Int, r \in Int : a = m * q /\ b = m * s /\ r = x % m
    BY <1>3
  <2>3. x = a + r /\ w = b
    BY <1>1, <1>2, <2>2, Zenon
  <2>4. y = (a - b) + r
    BY <1>0, <2>3
  <2>. QED
    BY <2>1, <2>2, <2>4, Zenon
<1>5. PICK r \in 0 .. m - 1, t \in Int : r = x % m /\ t = q - s
  BY <1>3
<1>6. y = m * t + r
  BY <1>4, <1>5, Zenon
<1>7. y % m = r
  BY <1>6, Remainder, Zenon
<1>. QED
  BY <1>0, <1>5, <1>7, Zenon

LEMMA Counters ==
    ASSUME TypeOK
    PROVE  nread \in Nat /\ nread < WRAP /\ nwrite \in Nat /\ nwrite < WRAP
BY Sizes DEF TypeOK

\* The unsigned difference of two counters, without %.
LEMMA DifferenceIs ==
    ASSUME NEW r \in Nat, r < WRAP, NEW w \in Nat, w < WRAP
    PROVE  (w - r) % WRAP = IF w >= r THEN w - r ELSE w - r + WRAP
<1>1. PICK x \in Int : x = w - r
  OBVIOUS
<1>2. CASE w >= r
  <2>1. x \in 0 .. WRAP - 1 /\ x = WRAP * 0 + x
    BY <1>1, <1>2, Sizes
  <2>2. x % WRAP = x
    BY <2>1, Remainder, Sizes
  <2>. QED
    BY <1>1, <1>2, <2>2, Zenon
<1>3. CASE ~ w >= r
  <2>1. x + WRAP \in 0 .. WRAP - 1 /\ x = WRAP * (-1) + (x + WRAP)
    BY <1>1, <1>3, Sizes
  <2>2. x % WRAP = x + WRAP
    BY <2>1, Remainder, Sizes
  <2>. QED
    BY <1>1, <1>3, <2>2, Zenon
<1>. QED
  BY <1>2, <1>3, Zenon

\* The number of bytes in the ring, without %.
LEMMA UsedIs ==
    ASSUME TypeOK
    PROVE  Used = IF nwrite >= nread THEN nwrite - nread ELSE nwrite - nread + WRAP
BY DifferenceIs, Counters, Zenon DEF Used

\* Unsigned addition of a small number, without %.
LEMMA UintIs ==
    ASSUME NEW x \in Int, 0 <= x, x < WRAP + WRAP
    PROVE  Uint(x) = IF x < WRAP THEN x ELSE x - WRAP
<1>1. x % WRAP = IF x < WRAP THEN x ELSE x - WRAP
  BY WrapsOnce, Sizes, Zenon
<1>. QED
  BY <1>1, Zenon DEF Uint

\* Unsigned addition in two parts.
LEMMA UintSum ==
    ASSUME NEW a \in Nat, a < WRAP, NEW g \in Nat, NEW m \in Nat, 1 <= m, g + m < WRAP
    PROVE  Uint(Uint(a + g) + m - 1) = Uint(a + (g + m) - 1)
<1>. USE Sizes
<1>1. PICK b \in Nat : b = Uint(a + g) /\ b = IF a + g < WRAP THEN a + g ELSE a + g - WRAP
  <2>1. PICK x \in Nat : x = a + g /\ x < WRAP + WRAP
    OBVIOUS
  <2>2. Uint(x) = IF x < WRAP THEN x ELSE x - WRAP
    BY <2>1, UintIs
  <2>. QED
    BY <2>1, <2>2
<1>2. PICK y \in Nat, z \in Nat :
         y = b + m - 1 /\ z = a + (g + m) - 1 /\ y < WRAP + WRAP /\ z < WRAP + WRAP
  BY <1>1
<1>3. Uint(y) = IF y < WRAP THEN y ELSE y - WRAP
  BY <1>2, UintIs
<1>4. Uint(z) = IF z < WRAP THEN z ELSE z - WRAP
  BY <1>2, UintIs
<1>5. Uint(y) = Uint(z)
  BY <1>1, <1>2, <1>3, <1>4
<1>. QED
  BY <1>1, <1>2, <1>5, Zenon

\* The test for a full ring is exact, although both counters wrap.
LEMMA FullIs ==
    ASSUME TypeOK
    PROVE  Full <=> Used = PIPESIZE
<1>1. PICK x \in Int : x = nread + PIPESIZE
  BY Sizes, Counters
<1>2. 0 <= x /\ x < WRAP + WRAP
  BY <1>1, Sizes, Counters
<1>3. Uint(x) = IF x < WRAP THEN x ELSE x - WRAP
  BY <1>2, UintIs, Zenon
<1>4. Full <=> nwrite = Uint(x)
  BY <1>1, Zenon DEF Full
<1>. QED
  BY <1>1, <1>3, <1>4, UsedIs, Sizes, Counters

LEMMA InitInv == Init => IInv
<1>. SUFFICES ASSUME Init PROVE IInv
  BY Zenon
<1>1. TypeOK
  <2>1. data \in [0 .. PIPESIZE - 1 -> Bytes]
    BY PipeConstants, Zenon DEF Init
  <2>2. nread \in 0 .. WRAP - 1 /\ nwrite \in 0 .. WRAP - 1
    BY Sizes DEF Init
  <2>. QED
    BY <2>1, <2>2, Zenon DEF Init, TypeOK, Labels
<1>2. LockHeld /\ Ends
  BY PipeConstants, Zenon DEF Init, LockHeld, Ends, Users
<1>3. Bounded
  BY <1>1, UsedIs, PipeConstants DEF Init, Bounded
<1>. QED
  BY <1>1, <1>2, <1>3, Zenon DEF IInv

-----------------------------------------------------------------------------
\* nwrite++ puts one byte more between the counters.
LEMMA WriteCounts ==
    ASSUME TypeOK, Bounded, ~Full, nwrite' = Uint(nwrite + 1), nread' = nread
    PROVE  /\ nwrite' \in 0 .. WRAP - 1
           /\ Used \in Nat /\ Used < PIPESIZE /\ Used' = Used + 1
           /\ Uint(nread + Used) = nwrite
<1>. USE Sizes, Counters
<1>1. PICK x \in Nat : x = nwrite + 1
  OBVIOUS
<1>2. nwrite' = IF x < WRAP THEN x ELSE x - WRAP
  BY <1>1, UintIs
<1>3. nwrite' \in Nat /\ nwrite' < WRAP
  BY <1>1, <1>2
<1>4. PICK u \in Nat : u = Used /\ u < PIPESIZE
  BY UsedIs, FullIs DEF Bounded
<1>5. (nwrite' - nread) % WRAP = IF nwrite' >= nread THEN nwrite' - nread ELSE nwrite' - nread + WRAP
  BY <1>3, DifferenceIs, Zenon
<1>6. Used' = u + 1
  <2>1. Used' = (nwrite' - nread) % WRAP
    BY Zenon DEF Used
  <2>. QED
    BY <1>1, <1>2, <1>4, <1>5, <2>1, UsedIs
<1>7. PICK y \in Nat : y = nread + u
  OBVIOUS
<1>8. Uint(y) = nwrite
  <2>1. Uint(y) = IF y < WRAP THEN y ELSE y - WRAP
    BY <1>4, <1>7, UintIs
  <2>. QED
    BY <1>4, <1>7, <2>1, UsedIs
<1>. QED
  BY <1>3, <1>4, <1>6, <1>7, <1>8

\* nread moves over bytes that are there.
LEMMA ReadCounts ==
    ASSUME TypeOK, NEW g \in Nat, g <= Used, nread' = Uint(nread + g), nwrite' = nwrite
    PROVE  /\ nread' \in 0 .. WRAP - 1
           /\ Used \in Nat /\ Used' = Used - g
<1>. USE Sizes, Counters
<1>4. PICK u \in Nat : u = Used /\ u < WRAP /\ g <= u
  BY UsedIs
<1>1. PICK x \in Nat : x = nread + g
  OBVIOUS
<1>2. nread' = IF x < WRAP THEN x ELSE x - WRAP
  BY <1>1, <1>4, UintIs
<1>3. nread' \in Nat /\ nread' < WRAP
  BY <1>1, <1>2, <1>4
<1>5. (nwrite - nread') % WRAP = IF nwrite >= nread' THEN nwrite - nread' ELSE nwrite - nread' + WRAP
  BY <1>3, DifferenceIs, Zenon
<1>6. Used' = u - g
  <2>1. Used' = (nwrite - nread') % WRAP
    BY Zenon DEF Used
  <2>. QED
    BY <1>1, <1>2, <1>4, <1>5, <2>1, UsedIs
<1>. QED
  BY <1>3, <1>4, <1>6

\* The steps that leave the ring and its ends alone.
LEMMA MoveInv ==
    ASSUME IInv, NEW p \in Users,
           \/ (\E k \in 0 .. MaxN : call(p, k)) \/ kill(p) \/ sleep(p) \/ read_empty(p)
           \/ write_done(p) \/ write_fails(p) \/ write_full(p)
    PROVE  IInv'
<1>. USE PipeConstants DEF IInv, LockHeld, Users
<1>0. UNCHANGED <<data, nread, nwrite, readopen, writeopen, freed, open>>
  BY Zenon DEF call, kill, sleep, read_empty, write_done, write_fails, write_full, ring, ends
<1>1. Bounded'
  BY <1>0, Zenon DEF Bounded, Used
<1>2. CASE \E k \in 0 .. MaxN : call(p, k)
  BY <1>0, <1>1, <1>2 DEF call, Goto, TypeOK, Labels, Ends
<1>3. CASE kill(p)
  BY <1>0, <1>1, <1>3, Zenon DEF kill, TypeOK, Labels, Ends
<1>4. CASE sleep(p)
  BY <1>0, <1>1, <1>4, Zenon DEF sleep, Goto, TypeOK, Labels, Ends
<1>5. CASE read_empty(p)
  BY <1>0, <1>1, <1>5 DEF read_empty, Goto, TypeOK, Labels, Ends
<1>6. CASE write_done(p)
  BY <1>0, <1>1, <1>6, Zenon DEF write_done, WriteTurn, ReadersWoken, TypeOK, Labels, Ends
<1>7. CASE write_fails(p)
  BY <1>0, <1>1, <1>7, Zenon DEF write_fails, WriteTurn, Goto, TypeOK, Labels, Ends
<1>8. CASE write_full(p)
  BY <1>0, <1>1, <1>8, Zenon DEF write_full, WriteTurn, ReadersWoken, TypeOK, Labels, Ends
<1>. QED
  BY <1>2, <1>3, <1>4, <1>5, <1>6, <1>7, <1>8, Zenon

\* A byte is written where there is room.
LEMMA WriteByteInv ==
    ASSUME IInv, NEW p \in Users, NEW b \in Bytes, write_byte(p, b)
    PROVE  IInv'
<1>. USE PipeConstants DEF IInv, Users
<1>0. /\ TypeOK /\ Bounded /\ ~Full /\ nwrite' = Uint(nwrite + 1) /\ nread' = nread
      /\ UNCHANGED <<readopen, writeopen, freed, open>>
  BY Zenon DEF write_byte, ends
<1>1. nwrite' \in 0 .. WRAP - 1 /\ Used \in Nat /\ Used < PIPESIZE /\ Used' = Used + 1
  BY <1>0, WriteCounts, Zenon
<1>2. Bounded'
  BY <1>1, Sizes DEF Bounded
<1>3. n' \in [Users -> Nat]
  BY DEF write_byte, TypeOK
<1>4. data' \in [0 .. PIPESIZE - 1 -> Bytes]
  BY Zenon DEF write_byte, TypeOK
<1>5. TypeOK'
  BY <1>0, <1>1, <1>3, <1>4, Zenon DEF write_byte, Goto, TypeOK, Labels
<1>6. LockHeld' /\ Ends'
  BY <1>0, Zenon DEF write_byte, WriteTurn, Goto, TypeOK, LockHeld, Ends
<1>. QED
  BY <1>2, <1>5, <1>6, Zenon

\* The number of bytes that leave the ring in a read of k, the lost one included.
LEMMA GoneIs ==
    ASSUME IInv, NEW p \in Users, NEW k \in 0 .. PIPESIZE, read_copy(p, k)
    PROVE  \E lost \in 0 .. 1 :
              /\ k + lost \in Nat /\ k + lost <= Used
              /\ nread' = Uint(nread + (k + lost))
<1>. DEFINE most == IF n[p] < Used THEN n[p] ELSE Used
            lost == IF k < most THEN 1 ELSE 0
<1>1. n[p] \in Nat /\ Used \in Nat
  BY UsedIs, Counters, Sizes DEF IInv, TypeOK
<1>2. k <= most /\ nread' = Uint(nread + (IF k < most THEN k + 1 ELSE k))
  BY Zenon DEF read_copy
<1>3. (IF k < most THEN k + 1 ELSE k) = k + lost
  BY <1>1, Sizes
<1>4. k + lost <= Used
  BY <1>1, <1>2, Sizes
<1>. HIDE DEF most
<1>5. lost \in 0 .. 1 /\ k + lost \in Nat
  BY Sizes
<1>6. nread' = Uint(nread + (k + lost))
  BY <1>2, <1>3, Zenon
<1>. QED
  BY <1>4, <1>5, <1>6, Zenon

\* A read takes off no more than there is.
LEMMA ReadCopyInv ==
    ASSUME IInv, NEW p \in Users, NEW k \in 0 .. PIPESIZE, read_copy(p, k)
    PROVE  IInv'
<1>. USE PipeConstants DEF IInv, Users
<1>0. /\ nwrite' = nwrite
      /\ UNCHANGED <<data, readopen, writeopen, freed, open, lock>>
      /\ pc[p] = "r_lock"
      /\ pc' = WritersWoken([pc EXCEPT ![p] = "user"])
      /\ n' = [n EXCEPT ![p] = 0]
  BY Zenon DEF read_copy, ends
<1>1. PICK g \in Nat : g <= Used /\ nread' = Uint(nread + g)
  BY GoneIs, Zenon
<1>2. nread' \in 0 .. WRAP - 1 /\ Used \in Nat /\ Used' = Used - g
  BY <1>0, <1>1, ReadCounts, Zenon
<1>3. Bounded'
  BY <1>1, <1>2, Sizes DEF Bounded
<1>4. TypeOK'
  BY <1>0, <1>2, Zenon DEF TypeOK, Labels, WritersWoken
<1>5. LockHeld' /\ Ends'
  BY <1>0, Zenon DEF TypeOK, LockHeld, Ends, WritersWoken
<1>. QED
  BY <1>3, <1>4, <1>5, Zenon

\* The last descriptor of an end closes it; nobody is in a call with a closed descriptor.
LEMMA PipecloseInv ==
    ASSUME IInv, NEW p \in Users, pipeclose(p)
    PROVE  IInv'
<1>. USE PipeConstants DEF IInv, Users
<1>. DEFINE last == (open \ {p}) \cap (IF p \in Readers THEN Readers ELSE Writers) = {}
<1>0. /\ pc[p] = "user" /\ p \in open
      /\ open' = open \ {p}
      /\ readopen' = (readopen /\ ~(last /\ p \in Readers))
      /\ writeopen' = (writeopen /\ ~(last /\ p \in Writers))
      /\ freed' = (freed \/ (last /\ ~readopen' /\ ~writeopen'))
      /\ UNCHANGED <<data, nread, nwrite, lock, n>>
  BY Zenon DEF pipeclose, BothClosed, ring
<1>1. \/ pc' = ReadersWoken(pc) \/ pc' = WritersWoken(pc) \/ pc' = pc
  BY Zenon DEF pipeclose
<1>2. Bounded'
  BY <1>0, Zenon DEF Bounded, Used
<1>3. pc' \in [Users -> Labels]
  BY <1>1, Zenon DEF TypeOK, Labels, ReadersWoken, WritersWoken
<1>4. TypeOK'
  BY <1>0, <1>3, Zenon DEF TypeOK
<1>5. LockHeld'
  BY <1>0, <1>1 DEF TypeOK, LockHeld, ReadersWoken, WritersWoken
<1>6. \A q \in Users : pc'[q] # "user" => q \in open'
  BY <1>0, <1>1, Zenon DEF Ends, TypeOK, ReadersWoken, WritersWoken
<1>7. (~readopen' => open' \cap Readers = {}) /\ (~writeopen' => open' \cap Writers = {})
  BY <1>0, Zenon DEF Ends, TypeOK
<1>8. freed' => ~readopen' /\ ~writeopen'
  BY <1>0, Zenon DEF Ends
<1>. QED
  BY <1>2, <1>4, <1>5, <1>6, <1>7, <1>8, Zenon DEF Ends

LEMMA NextInv == IInv /\ [Next]_vars => IInv'
<1>. SUFFICES ASSUME IInv, [Next]_vars PROVE IInv'
  BY Zenon
<1>1. CASE UNCHANGED vars
  BY <1>1, Zenon DEF vars, IInv, TypeOK, LockHeld, Ends, Bounded, Used
<1>. QED
  BY <1>1, MoveInv, WriteByteInv, ReadCopyInv, PipecloseInv, Zenon DEF Next, Step

\* The invariant holds for any readers and writers, ring and counters.
THEOREM Invariance == Spec => []IInv
BY InitInv, NextInv, PTL DEF Spec

\* The page of the pipe is freed by the last pipeclose(), when nobody is or can come inside
\* piperead() or pipewrite().
THEOREM FreedAfterUse == Spec => []NoUseAfterFree
<1>1. IInv => NoUseAfterFree
  BY PipeConstants, Zenon DEF IInv, TypeOK, LockHeld, Ends, NoUseAfterFree, Users
<1>. QED
  BY <1>1, Invariance, PTL

-----------------------------------------------------------------------------
\* The place in the ring of the k-th byte.
Place(k) == Uint(nread + k - 1) % PIPESIZE

LEMMA PlaceInRing ==
    ASSUME TypeOK, NEW k \in Nat, 1 <= k, k <= WRAP
    PROVE  Place(k) \in 0 .. PIPESIZE - 1
<1>1. PICK x \in Int : x = nread + k - 1
  BY Counters
<1>2. Uint(x) \in Int
  BY <1>1, Sizes, Counters, UintIs
<1>3. Uint(x) % PIPESIZE \in 0 .. PIPESIZE - 1
  BY <1>2, Sizes, Division, Zenon
<1>. QED
  BY <1>1, <1>3, Zenon DEF Place

\* The bytes in the ring are a sequence.
LEMMA ContentsSeq ==
    ASSUME IInv
    PROVE  /\ Used \in Nat /\ Used <= PIPESIZE
           /\ Contents \in Seq(Bytes) /\ Len(Contents) = Used
           /\ \A k \in 1 .. Used : Contents[k] = data[Place(k)]
<1>1. Used \in Nat /\ Used <= PIPESIZE
  BY UsedIs, Counters, Sizes DEF IInv, Bounded
<1>2. Contents = [k \in 1 .. Used |-> data[Place(k)]]
  BY Zenon DEF Contents, Place
<1>3. \A k \in 1 .. Used : data[Place(k)] \in Bytes
  BY <1>1, PlaceInRing, Sizes DEF IInv, TypeOK
<1>4. Contents \in Seq(Bytes) /\ Len(Contents) = Used
  BY <1>1, <1>2, <1>3
<1>. QED
  BY <1>1, <1>2, <1>4, Zenon

\* The same in the next state.
View ==
    /\ Contents \in Seq(Bytes) /\ Len(Contents) = Used
    /\ \A k \in 1 .. Used : Contents[k] = data[Place(k)]

LEMMA ViewNow == IInv => View
BY ContentsSeq, Zenon DEF View

LEMMA ViewNext == IInv' => View'
BY ViewNow, PTL

\* The byte that pipewrite() stores is the next one of the queue, and it overwrites none.
LEMMA WriteByteRefines ==
    ASSUME IInv, IInv', NEW p \in Users, NEW b \in Bytes, write_byte(p, b)
    PROVE  Queue!Write(b)
<1>0. /\ TypeOK /\ Bounded /\ ~Full /\ nwrite' = Uint(nwrite + 1) /\ nread' = nread
      /\ data' = [data EXCEPT ![nwrite % PIPESIZE] = b]
      /\ out' = out
  BY Zenon DEF write_byte, IInv
<1>1. /\ Used \in Nat /\ Used < PIPESIZE /\ Used' = Used + 1
      /\ Uint(nread + Used) = nwrite
  BY <1>0, WriteCounts, Zenon
<1>2. Contents \in Seq(Bytes) /\ Len(Contents) = Used /\ \A k \in 1 .. Used : Contents[k] = data[Place(k)]
  BY ContentsSeq, Zenon
<1>3. /\ Contents' \in Seq(Bytes) /\ Len(Contents') = Used + 1
      /\ \A k \in 1 .. Used + 1 : Contents'[k] = data'[Place(k)]
  <2>1. /\ Contents' \in Seq(Bytes) /\ Len(Contents') = Used'
        /\ \A k \in 1 .. Used' : Contents'[k] = data'[Uint(nread' + k - 1) % PIPESIZE]
    BY ViewNext, Zenon DEF View, Place
  <2>2. \A k \in 1 .. Used + 1 : Place(k) = Uint(nread' + k - 1) % PIPESIZE
    BY <1>0, Zenon DEF Place
  <2>. QED
    BY <2>1, <2>2, <1>1, Zenon
<1>4. Place(Used + 1) = nwrite % PIPESIZE
  <2>1. nread + (Used + 1) - 1 = nread + Used
    BY <1>0, <1>1, Counters
  <2>. QED
    BY <2>1, <1>1, Zenon DEF Place
<1>5. ASSUME NEW k \in 1 .. Used PROVE Place(k) # nwrite % PIPESIZE
  <2>. USE Sizes
  <2>a. PICK v \in Nat : v = Used /\ v < PIPESIZE /\ k \in 1 .. v
    BY <1>1, Zenon
  <2>b. PICK x \in Nat, u \in Nat : x = nread + k - 1 /\ u = nread + v
    BY <1>0, <2>a, Counters
  <2>c. PICK d \in 1 .. PIPESIZE - 1 : d = v - (k - 1)
    BY <2>a
  <2>1. x = nread + k - 1 /\ x + d = u /\ u = nread + Used /\ u < WRAP + WRAP
    BY <1>0, <2>a, <2>b, <2>c, Counters
  <2>2. PICK a \in Nat : a = Uint(x) /\ a = IF x < WRAP THEN x ELSE x - WRAP
    BY <2>1, <1>0, <1>1, Counters, UintIs
  <2>3. nwrite = IF u < WRAP THEN u ELSE u - WRAP
    BY <2>1, <1>0, <1>1, Counters, UintIs
  <2>4. PICK y \in Nat : y = a + d
    OBVIOUS
  <2>5. a % PIPESIZE # y % PIPESIZE
    <3>1. a \in Int /\ y \in Int
      OBVIOUS
    <3>. QED
      BY <2>4, <3>1, PlacesDiffer, Zenon
  <2>6. nwrite = y \/ nwrite = y - WRAP
    BY <2>1, <2>2, <2>3, <2>4, <1>0, <1>1, Counters
  <2>7. nwrite % PIPESIZE = y % PIPESIZE
    <3>1. y \in Int /\ nwrite \in Int
      BY <1>0, Counters
    <3>. QED
      BY <2>6, <3>1, SamePlace, Zenon
  <2>. QED
    BY <2>1, <2>2, <2>5, <2>7, Zenon DEF Place
<1>6. /\ \A k \in 1 .. Used : Contents'[k] = Contents[k]
      /\ Contents'[Used + 1] = b
  <2>1. \A k \in 1 .. Used + 1 : Place(k) \in 0 .. PIPESIZE - 1
    BY <1>0, <1>1, PlaceInRing, Sizes
  <2>2. ASSUME NEW k \in 1 .. Used PROVE Contents'[k] = Contents[k]
    <3>1. k \in 1 .. Used + 1
      BY <1>1
    <3>2. data'[Place(k)] = data[Place(k)]
      BY <1>0, <1>5, <2>1, <3>1, Zenon DEF TypeOK
    <3>. QED
      BY <1>2, <1>3, <3>1, <3>2, Zenon
  <2>3. Used + 1 \in 1 .. Used + 1
    BY <1>1
  <2>4. Contents'[Used + 1] = b
    BY <1>0, <1>3, <1>4, <2>1, <2>3, Zenon DEF TypeOK
  <2>. QED
    BY <2>2, <2>4, Zenon
<1>7. Contents' = Append(Contents, b)
  BY <1>1, <1>2, <1>3, <1>6, AppendProperties, SeqEqual
<1>. QED
  BY <1>0, <1>1, <1>2, <1>7, Zenon DEF Queue!Write

\* piperead() delivers the head of the queue and takes it off.
LEMMA ReadCopyRefines ==
    ASSUME IInv, IInv', NEW p \in Users, NEW k \in 0 .. PIPESIZE, read_copy(p, k)
    PROVE  \E lost \in 0 .. 1 : Queue!Read(k, lost)
<1>1. PICK lost \in 0 .. 1 :
         k + lost \in Nat /\ k + lost <= Used /\ nread' = Uint(nread + (k + lost))
  BY GoneIs, Zenon
<1>g. PICK g \in Nat : g = k + lost /\ k <= g /\ g <= Used /\ nread' = Uint(nread + g)
  BY <1>1, Sizes
<1>0. /\ TypeOK /\ nwrite' = nwrite /\ data' = data
      /\ out' = [m \in 1 .. k |-> data[Place(m)]]
  BY Zenon DEF read_copy, IInv, Place
<1>2. nread' \in 0 .. WRAP - 1 /\ Used \in Nat /\ Used' = Used - g
  BY <1>0, <1>g, ReadCounts, Zenon
<1>3. /\ Contents \in Seq(Bytes) /\ Len(Contents) = Used /\ Used <= PIPESIZE
      /\ \A m \in 1 .. Used : Contents[m] = data[Place(m)]
  BY ContentsSeq, Zenon
<1>4. /\ Contents' \in Seq(Bytes) /\ Len(Contents') = Used - g
      /\ \A m \in 1 .. Used - g : Contents'[m] = data[Uint(nread' + m - 1) % PIPESIZE]
  <2>1. /\ Contents' \in Seq(Bytes) /\ Len(Contents') = Used'
        /\ \A m \in 1 .. Used' : Contents'[m] = data'[Uint(nread' + m - 1) % PIPESIZE]
    BY ViewNext, Zenon DEF View, Place
  <2>. QED
    BY <2>1, <1>0, <1>2, Zenon
<1>5. out' = SubSeq(Contents, 1, k)
  <2>1. k \in Nat /\ k <= Used
    BY <1>g, <1>2, Sizes
  <2>2. \A m \in 1 .. k : m \in 1 .. Used /\ Contents[m] = data[Place(m)] /\ Contents[m] \in Bytes
    BY <1>2, <1>3, <2>1
  <2>3. /\ SubSeq(Contents, 1, k) \in Seq(Bytes)
        /\ Len(SubSeq(Contents, 1, k)) = k
        /\ \A m \in 1 .. k : SubSeq(Contents, 1, k)[m] = Contents[m]
    BY <1>2, <1>3, <2>1, <2>2, SubSeqProperties
  <2>4. /\ out' \in Seq(Bytes) /\ Len(out') = k
        /\ \A m \in 1 .. k : out'[m] = Contents[m]
    BY <1>0, <2>1, <2>2
  <2>. QED
    BY <2>3, <2>4, SeqEqual, Zenon
<1>6. ASSUME NEW m \in 1 .. Used - g PROVE Contents'[m] = Contents[g + m]
  <2>1. m \in Nat /\ 1 <= m /\ g + m < WRAP /\ g + m \in 1 .. Used
    BY <1>2, <1>3, <1>g, Sizes
  <2>2. nread \in Nat /\ nread < WRAP
    BY <1>0, Counters, Zenon
  <2>3. Uint(Uint(nread + g) + m - 1) = Uint(nread + (g + m) - 1)
    BY <2>1, <2>2, UintSum
  <2>4. Contents[g + m] = data[Uint(nread + (g + m) - 1) % PIPESIZE]
    BY <1>3, <2>1, Zenon DEF Place
  <2>5. Contents'[m] = data[Uint(Uint(nread + g) + m - 1) % PIPESIZE]
    BY <1>4, <1>g, Zenon
  <2>. QED
    BY <2>3, <2>4, <2>5, Zenon
<1>7. Contents' = SubSeq(Contents, g + 1, Used)
  <2>1. g + 1 \in Int /\ Used \in Int /\ \A m \in g + 1 .. Used : Contents[m] \in Bytes
    BY <1>2, <1>3
  <2>2. /\ SubSeq(Contents, g + 1, Used) \in Seq(Bytes)
        /\ Len(SubSeq(Contents, g + 1, Used)) = Used - g
        /\ \A m \in 1 .. Used - (g + 1) + 1 : SubSeq(Contents, g + 1, Used)[m] = Contents[(g + 1) + m - 1]
    BY <1>2, <1>g, <2>1, SubSeqProperties
  <2>3. ASSUME NEW m \in 1 .. Used - g
        PROVE  Contents'[m] = SubSeq(Contents, g + 1, Used)[m]
    <3>1. m \in 1 .. Used - (g + 1) + 1 /\ (g + 1) + m - 1 = g + m
      BY <1>2
    <3>. QED
      BY <1>6, <2>2, <3>1, Zenon
  <2>. QED
    BY <1>4, <2>2, <2>3, SeqEqual, Zenon
<1>. QED
  <2>1. k + lost <= Len(Contents)
    BY <1>1, <1>3, Zenon
  <2>2. Contents' = SubSeq(Contents, k + lost + 1, Len(Contents))
    BY <1>7, <1>g, <1>3, Zenon
  <2>. QED
    BY <2>1, <2>2, <1>5, Zenon DEF Queue!Read

\* pipe.c implements the bounded queue of bytes: with any number of readers and writers, any
\* ring and counters of any width that the ring's size divides, bytes come out in the order
\* they went in, and the only byte that is lost is the one a failing copyout() was given.
THEOREM PipeIsByteQueue == Spec => IsByteQueue
<1>1. Init => Queue!Init
  <2>. SUFFICES ASSUME Init PROVE Queue!Init
    BY Zenon
  <2>1. IInv
    BY InitInv, Zenon
  <2>2. Used = 0
    BY <2>1, UsedIs DEF Init, IInv
  <2>3. Contents = << >>
    BY <2>1, <2>2, ContentsSeq
  <2>. QED
    BY <2>3, Zenon DEF Init, Queue!Init
<1>2. IInv /\ IInv' /\ [Next]_vars => [Queue!Next]_(Queue!vars)
  <2>. SUFFICES ASSUME IInv, IInv', [Next]_vars PROVE [Queue!Next]_(Queue!vars)
    BY Zenon
  <2>1. ASSUME NEW p \in Users, NEW b \in Bytes, write_byte(p, b) PROVE Queue!Next
    BY <2>1, WriteByteRefines, Zenon DEF Queue!Next
  <2>2. ASSUME NEW p \in Users, NEW k \in 0 .. PIPESIZE, read_copy(p, k) PROVE Queue!Next
    BY <2>2, ReadCopyRefines, Zenon DEF Queue!Next
  <2>3. ASSUME UNCHANGED <<data, nread, nwrite, out>> PROVE UNCHANGED Queue!vars
    BY <2>3, Zenon DEF Queue!vars, Contents, Used
  <2>4. CASE UNCHANGED vars
    BY <2>3, <2>4, Zenon DEF vars
  <2>5. ASSUME NEW p \in Users,
               \/ (\E k \in 0 .. MaxN : call(p, k)) \/ kill(p) \/ sleep(p) \/ read_empty(p)
               \/ write_done(p) \/ write_fails(p) \/ write_full(p) \/ pipeclose(p)
        PROVE  UNCHANGED Queue!vars
    BY <2>3, <2>5, Zenon DEF call, kill, sleep, read_empty, write_done, write_fails, write_full, pipeclose, ring
  <2>. QED
    BY <2>1, <2>2, <2>4, <2>5, Zenon DEF Next, Step
<1>. QED
  BY <1>1, <1>2, Invariance, PTL DEF Spec, IsByteQueue, Queue!Spec
=============================================================================
