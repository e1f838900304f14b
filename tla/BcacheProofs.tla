----------------------------- MODULE BcacheProofs -----------------------------
(***************************************************************************)
(* Proofs that the buffer cache counts its references exactly and that it  *)
(* implements BlockStore, for any number of processes, buffers and blocks. *)
(* The invariant says what ties a process to its block in every phase of a *)
(* call: before it has the sleep lock and after it gave it up only the     *)
(* reference count does.                                                   *)
(***************************************************************************)
EXTENDS Bcache, FiniteSetTheorems, TLAPS

Outside == {"idle", "panic"}
Waits   == {"lock", "asleep"}
Using   == {"held", "dirty", "written"}

TypeOK ==
    /\ blockno \in [Bufs -> Blocks \cup {Nobody}]
    /\ valid \in [Bufs -> BOOLEAN]
    /\ refcnt \in [Bufs -> Nat]
    /\ data \in [Bufs -> Data]
    /\ lock \in [Bufs -> Procs \cup {Nobody}]
    /\ pinned \subseteq Bufs
    /\ platter \in [Blocks -> Data]
    /\ pc \in [Procs -> Outside \cup Waits \cup Using \cup {"fill", "drop"}]
    /\ want \in [Procs -> Blocks \cup {Nobody}]
    /\ cur \in [Procs -> Ring]

\* A process has a buffer from bget() to the end of brelse(), and until
\* releasesleep() the buffer is the one of the block it asked for.
Attached ==
    \A p \in Procs :
        /\ cur[p] = head <=> pc[p] \in Outside
        /\ want[p] = Nobody <=> pc[p] \in Outside \cup {"drop"}
        /\ want[p] # Nobody => blockno[cur[p]] = want[p]

\* The holder of a buffer's lock is the process that fills or uses it.
LockHeld ==
    /\ \A p \in Procs : pc[p] \in Using \cup {"fill"} => lock[cur[p]] = p
    /\ \A b \in Bufs : lock[b] # Nobody => cur[lock[b]] = b /\ pc[lock[b]] \in Using \cup {"fill"}

\* bget() never gives two buffers to a block.
OneBufferPerBlock ==
    \A a, b \in Bufs : blockno[a] = blockno[b] /\ blockno[a] # Nobody => a = b

\* A buffer is valid when its process uses it, and only bread() makes it so.
Filled ==
    /\ \A p \in Procs : pc[p] \in Using => valid[cur[p]]
    /\ \A p \in Procs : pc[p] = "fill" => ~valid[cur[p]]
    /\ \A b \in Bufs : valid[b] => blockno[b] # Nobody

\* Only a pinned buffer, or one that its process is changing, differs from the disk.
Clean ==
    /\ \A b \in Bufs :
          valid[b] /\ b \notin pinned /\ (\A p \in Procs : cur[p] = b => pc[p] # "dirty")
              => data[b] = platter[blockno[b]]
    /\ \A p \in Procs : pc[p] = "written" => data[cur[p]] = platter[blockno[cur[p]]]

IInv ==
    /\ TypeOK /\ Attached /\ LockHeld /\ OneBufferPerBlock /\ Filled /\ Clean
    /\ RefcntExact /\ LockSleepersHaveHolder

-----------------------------------------------------------------------------
\* The processes that have buffer b, and their number with the log's pin.
Refs(b)  == {p \in Procs : cur[p] = b}
Count(b) == Cardinality(Refs(b)) + (IF b \in pinned THEN 1 ELSE 0)

\* The head of the list is no buffer.
LEMMA HeadIsNoBuf == head \notin Bufs /\ Ring = Bufs \cup {head}
BY BcacheConstants DEF head, Bufs, Ring

\* The processes with a buffer can be counted.
LEMMA RefsFinite ==
    ASSUME NEW b
    PROVE  IsFiniteSet(Refs(b)) /\ Cardinality(Refs(b)) \in Nat
BY BcacheConstants, FS_Subset, FS_CardinalityType, Zenon DEF Refs

\* A process without a buffer takes b.
LEMMA CountAdd ==
    ASSUME cur \in [Procs -> Ring], NEW p \in Procs, cur[p] = head, NEW b \in Bufs,
           cur' = [cur EXCEPT ![p] = b], pinned' = pinned, NEW a \in Bufs
    PROVE  Count(a)' = IF a = b THEN Count(a) + 1 ELSE Count(a)
<1>1. CASE a = b
  <2>1. Refs(a)' = Refs(a) \cup {p} /\ p \notin Refs(a)
    BY <1>1, HeadIsNoBuf, Zenon DEF Refs
  <2>2. Cardinality(Refs(a) \cup {p}) = Cardinality(Refs(a)) + 1
    BY <2>1, RefsFinite, FS_AddElement, Zenon
  <2>3. Cardinality(Refs(a)') = Cardinality(Refs(a)) + 1
    BY <2>1, <2>2, Zenon
  <2>. QED
    BY <1>1, <2>3, RefsFinite DEF Count
<1>2. CASE a # b
  <2>1. Refs(a)' = Refs(a)
    BY <1>2, HeadIsNoBuf, Zenon DEF Refs
  <2>. QED
    BY <1>2, <2>1, Zenon DEF Count
<1>. QED
  BY <1>1, <1>2, Zenon

\* A process gives up its buffer.
LEMMA CountDrop ==
    ASSUME cur \in [Procs -> Ring], NEW p \in Procs, NEW b \in Bufs, cur[p] = b,
           cur' = [cur EXCEPT ![p] = head], pinned' = pinned, NEW a \in Bufs
    PROVE  Count(a)' = IF a = b THEN Count(a) - 1 ELSE Count(a)
<1>1. CASE a = b
  <2>1. Refs(a)' = Refs(a) \ {p} /\ p \in Refs(a)
    BY <1>1, HeadIsNoBuf, Zenon DEF Refs
  <2>2. Cardinality(Refs(a) \ {p}) = Cardinality(Refs(a)) - 1
    BY <2>1, RefsFinite, FS_RemoveElement, Zenon
  <2>3. Cardinality(Refs(a)') = Cardinality(Refs(a)) - 1
    BY <2>1, <2>2, Zenon
  <2>. QED
    BY <1>1, <2>3, RefsFinite DEF Count
<1>2. CASE a # b
  <2>1. Refs(a)' = Refs(a)
    BY <1>2, HeadIsNoBuf, Zenon DEF Refs
  <2>. QED
    BY <1>2, <2>1, Zenon DEF Count
<1>. QED
  BY <1>1, <1>2, Zenon

\* Every buffer's count is a natural number.
LEMMA CountNat == ASSUME NEW b PROVE Count(b) \in Nat
BY RefsFinite DEF Count

\* RefcntExact in terms of Count.
LEMMA RefcntIs == RefcntExact <=> \A b \in Bufs : refcnt[b] = Count(b)
BY Zenon DEF RefcntExact, Count, Refs

\* A buffer without references has no process and no pin.
LEMMA UnusedHasNoUser ==
    ASSUME IInv, NEW b \in Bufs, Unused(b)
    PROVE  b \notin pinned /\ lock[b] = Nobody /\ \A p \in Procs : cur[p] # b
<1>1. Count(b) = 0
  BY RefcntIs, Zenon DEF Unused, IInv
<1>2. b \notin pinned /\ Cardinality(Refs(b)) = 0
  BY <1>1, RefsFinite DEF Count
<1>3. Refs(b) = {}
  BY <1>2, RefsFinite, FS_EmptySet, Zenon
<1>4. \A p \in Procs : cur[p] # b
  BY <1>3, Zenon DEF Refs
<1>. QED
  BY <1>2, <1>4, BcacheConstants DEF IInv, TypeOK, LockHeld

LEMMA InitInv == Init => IInv
<1>. SUFFICES ASSUME Init PROVE IInv
  BY Zenon
<1>1. TypeOK
  BY Zenon DEF Init, TypeOK, Ring, Outside
<1>2. Attached /\ LockHeld /\ OneBufferPerBlock /\ Filled /\ Clean /\ LockSleepersHaveHolder
  BY Zenon DEF Init, Attached, LockHeld, OneBufferPerBlock, Filled, Clean, LockSleepersHaveHolder, Outside, Using
<1>3. RefcntExact
  <2>1. \A b \in Bufs : Refs(b) = {} /\ b \notin pinned /\ refcnt[b] = 0
    BY HeadIsNoBuf, Zenon DEF Init, Refs
  <2>2. Cardinality({}) = 0
    BY FS_EmptySet, Zenon
  <2>. QED
    BY <2>1, <2>2, RefcntIs DEF Count
<1>. QED
  BY <1>1, <1>2, <1>3, Zenon DEF IInv

\* bget() of a cached block: one reference more.
LEMMA HitInv ==
    ASSUME IInv, NEW p \in Procs, NEW k \in Blocks, bget_hit(p, k)
    PROVE  IInv'
<1>. USE DEF IInv, Outside, Waits, Using
<1>1. pc[p] = "idle" /\ cur[p] = head /\ k # Nobody
  BY BcacheConstants, Zenon DEF bget_hit, Attached
<1>2. PICK b \in Bufs : /\ blockno[b] = k
                        /\ refcnt' = [refcnt EXCEPT ![b] = @ + 1]
                        /\ cur' = [cur EXCEPT ![p] = b]
  BY Zenon DEF bget_hit, Cached
<1>3. /\ pc' = [pc EXCEPT ![p] = "lock"] /\ want' = [want EXCEPT ![p] = k]
      /\ UNCHANGED <<blockno, valid, data, lock, pinned, platter>>
  BY Zenon DEF bget_hit, Goto
<1>4. TypeOK'
  BY <1>2, <1>3, HeadIsNoBuf DEF TypeOK
<1>5. Attached' /\ OneBufferPerBlock'
  BY <1>1, <1>2, <1>3, HeadIsNoBuf, Zenon DEF TypeOK, Attached, OneBufferPerBlock
<1>6. LockHeld' /\ LockSleepersHaveHolder'
  BY <1>1, <1>2, <1>3 DEF TypeOK, LockHeld, LockSleepersHaveHolder
<1>7. Filled' /\ Clean'
  BY <1>1, <1>2, <1>3, HeadIsNoBuf DEF TypeOK, Filled, Clean
<1>8. RefcntExact'
  <2>1. \A a \in Bufs : Count(a)' = IF a = b THEN Count(a) + 1 ELSE Count(a)
    BY <1>1, <1>2, <1>3, CountAdd, Zenon DEF TypeOK
  <2>2. \A a \in Bufs : refcnt'[a] = Count(a)'
    BY <1>2, <2>1, RefcntIs, Zenon DEF TypeOK
  <2>. QED
    BY <2>2, Zenon DEF RefcntExact, Count, Refs
<1>. QED
  BY <1>4, <1>5, <1>6, <1>7, <1>8, Zenon

\* bget() of a block that is not cached: a buffer that nobody has changes its block.
LEMMA MissInv ==
    ASSUME IInv, NEW p \in Procs, NEW k \in Blocks, bget_miss(p, k)
    PROVE  IInv'
<1>. USE DEF IInv, Outside, Waits, Using
<1>1. pc[p] = "idle" /\ cur[p] = head /\ k # Nobody
  BY BcacheConstants, Zenon DEF bget_miss, Attached
<1>2. PICK b \in Bufs : /\ Unused(b)
                        /\ blockno' = [blockno EXCEPT ![b] = k]
                        /\ valid' = [valid EXCEPT ![b] = FALSE]
                        /\ refcnt' = [refcnt EXCEPT ![b] = 1]
                        /\ cur' = [cur EXCEPT ![p] = b]
  BY Zenon DEF bget_miss
<1>3. /\ pc' = [pc EXCEPT ![p] = "lock"] /\ want' = [want EXCEPT ![p] = k]
      /\ UNCHANGED <<data, lock, pinned, platter>>
  BY Zenon DEF bget_miss, Goto
<1>4. b \notin pinned /\ lock[b] = Nobody /\ \A q \in Procs : cur[q] # b
  BY <1>2, UnusedHasNoUser, Zenon
<1>5. \A a \in Bufs : blockno[a] # k
  BY Zenon DEF bget_miss, NotCached, Cached
<1>6. TypeOK'
  BY <1>2, <1>3, HeadIsNoBuf, Zenon DEF TypeOK
<1>7. Attached'
  BY <1>1, <1>2, <1>3, <1>4, HeadIsNoBuf DEF TypeOK, Attached
<1>8. OneBufferPerBlock'
  BY <1>2, <1>5, Zenon DEF TypeOK, OneBufferPerBlock
<1>9. LockHeld' /\ LockSleepersHaveHolder'
  BY <1>1, <1>2, <1>3, <1>4 DEF TypeOK, LockHeld, LockSleepersHaveHolder
<1>10. Filled'
  BY <1>1, <1>2, <1>3, <1>4 DEF TypeOK, Filled
<1>11. Clean'
  BY <1>1, <1>2, <1>3, <1>4 DEF TypeOK, Clean
<1>12. RefcntExact'
  <2>1. \A a \in Bufs : Count(a)' = IF a = b THEN Count(a) + 1 ELSE Count(a)
    BY <1>1, <1>2, <1>3, CountAdd, Zenon DEF TypeOK
  <2>2. \A a \in Bufs : refcnt'[a] = Count(a)'
    BY <1>2, <2>1, RefcntIs DEF TypeOK, Unused
  <2>. QED
    BY <2>2, Zenon DEF RefcntExact, Count, Refs
<1>. QED
  BY <1>6, <1>7, <1>8, <1>9, <1>10, <1>11, <1>12, Zenon

\* acquiresleep() takes a free lock or goes to sleep.
LEMMA AcquireInv ==
    ASSUME IInv, NEW p \in Procs, acquiresleep(p)
    PROVE  IInv'
<1>. USE DEF IInv, Outside, Waits, Using
<1>1. pc[p] = "lock" /\ cur[p] \in Bufs /\ p # Nobody
  BY BcacheConstants, HeadIsNoBuf, Zenon DEF acquiresleep, Attached, TypeOK
<1>2. UNCHANGED <<blockno, valid, refcnt, data, pinned, platter, want, cur>>
  BY Zenon DEF acquiresleep, call
<1>3. RefcntExact' /\ OneBufferPerBlock'
  BY <1>2, Zenon DEF RefcntExact, OneBufferPerBlock
<1>4. CASE lock[cur[p]] # Nobody
  <2>1. pc' = [pc EXCEPT ![p] = "asleep"] /\ lock' = lock
    BY <1>4, Zenon DEF acquiresleep, Goto
  <2>2. TypeOK' /\ Attached' /\ LockHeld' /\ LockSleepersHaveHolder'
    BY <1>1, <1>2, <1>4, <2>1 DEF TypeOK, Attached, LockHeld, LockSleepersHaveHolder
  <2>3. Filled' /\ Clean'
    BY <1>1, <1>2, <2>1 DEF TypeOK, Filled, Clean
  <2>. QED
    BY <1>3, <2>2, <2>3, Zenon
<1>5. CASE lock[cur[p]] = Nobody
  <2>1. /\ lock' = [lock EXCEPT ![cur[p]] = p]
        /\ pc' = [pc EXCEPT ![p] = IF valid[cur[p]] THEN "held" ELSE "fill"]
    BY <1>5, Zenon DEF acquiresleep, Goto
  <2>2. TypeOK' /\ Attached'
    BY <1>1, <1>2, <2>1, Zenon DEF TypeOK, Attached
  <2>3. LockHeld'
    <3>1. \A q \in Procs \ {p} : pc[q] \in Using \cup {"fill"} => cur[q] # cur[p]
      BY <1>5, BcacheConstants DEF LockHeld
    <3>. QED
      BY <1>1, <1>2, <2>1, <3>1 DEF TypeOK, LockHeld
  <2>4. LockSleepersHaveHolder'
    BY <1>1, <1>2, <2>1 DEF TypeOK, LockSleepersHaveHolder
  <2>5. Filled' /\ Clean'
    BY <1>1, <1>2, <2>1 DEF TypeOK, Filled, Clean
  <2>. QED
    BY <1>3, <2>2, <2>3, <2>4, <2>5, Zenon
<1>. QED
  BY <1>4, <1>5, Zenon

\* A panic, and a process that kill() wakes, change nothing but the process.
LEMMA PanicKillInv ==
    ASSUME IInv, NEW p \in Procs, kill(p) \/ \E k \in Blocks : bget_panic(p, k)
    PROVE  IInv'
<1>. USE DEF IInv, Outside, Waits, Using
<1>1. UNCHANGED <<blockno, valid, refcnt, data, lock, pinned, platter, want, cur>>
  BY Zenon DEF kill, bget_panic, call
<1>2. \/ pc[p] = "asleep" /\ pc' = [pc EXCEPT ![p] = "lock"]
      \/ pc[p] = "idle" /\ pc' = [pc EXCEPT ![p] = "panic"]
  BY Zenon DEF kill, bget_panic, Goto
<1>3. TypeOK' /\ Attached' /\ LockHeld' /\ LockSleepersHaveHolder'
  BY <1>1, <1>2 DEF TypeOK, Attached, LockHeld, LockSleepersHaveHolder
<1>4. Filled' /\ Clean' /\ RefcntExact' /\ OneBufferPerBlock'
  BY <1>1, <1>2 DEF TypeOK, Filled, Clean, RefcntExact, OneBufferPerBlock
<1>. QED
  BY <1>3, <1>4, Zenon

\* The process that fills or uses a buffer is the only one: the others that have the
\* buffer wait for its lock or have just given it up.
LEMMA SoleUser ==
    ASSUME IInv, NEW p \in Procs, pc[p] \in Using \cup {"fill"}
    PROVE  /\ cur[p] \in Bufs /\ blockno[cur[p]] = want[p] /\ want[p] \in Blocks /\ lock[cur[p]] = p
           /\ \A q \in Procs \ {p} : cur[q] = cur[p] => pc[q] \in Waits \cup {"drop"}
           /\ \A b \in Bufs \ {cur[p]} : blockno[b] # want[p]
<1>. USE DEF IInv, Outside, Waits, Using
<1>1. cur[p] \in Bufs /\ want[p] \in Blocks /\ blockno[cur[p]] = want[p]
  BY HeadIsNoBuf, Zenon DEF TypeOK, Attached
<1>2. lock[cur[p]] = p
  BY Zenon DEF LockHeld
<1>3. \A q \in Procs \ {p} : cur[q] = cur[p] => pc[q] \in Waits \cup {"drop"}
  BY <1>1, <1>2, HeadIsNoBuf DEF TypeOK, Attached, LockHeld
<1>4. \A b \in Bufs \ {cur[p]} : blockno[b] # want[p]
  BY <1>1, BcacheConstants, Zenon DEF OneBufferPerBlock
<1>. QED
  BY <1>1, <1>2, <1>3, <1>4, Zenon

\* The steps of the process that has the lock, between bread() and bunpin().
LEMMA UseInv ==
    ASSUME IInv, NEW p \in Procs,
           bread(p) \/ (\E v \in Data : modify(p, v)) \/ bpin(p) \/ bwrite(p) \/ bunpin(p)
    PROVE  IInv'
<1>. USE DEF IInv, Outside, Waits, Using
<1>1. UNCHANGED <<blockno, lock, want, cur>> /\ pc[p] \in Using \cup {"fill"}
  BY Zenon DEF bread, modify, bpin, bwrite, bunpin, call
<1>2. PICK l \in Using : pc' = [pc EXCEPT ![p] = l]
  BY Zenon DEF bread, modify, bpin, bwrite, bunpin, Goto
<1>3. /\ cur[p] \in Bufs /\ blockno[cur[p]] = want[p] /\ want[p] \in Blocks /\ lock[cur[p]] = p
      /\ \A q \in Procs \ {p} : cur[q] = cur[p] => pc[q] \in Waits \cup {"drop"}
      /\ \A b \in Bufs \ {cur[p]} : blockno[b] # want[p]
  BY <1>1, SoleUser, Zenon
<1>4. Attached' /\ LockHeld' /\ OneBufferPerBlock' /\ LockSleepersHaveHolder'
  BY <1>1, <1>2 DEF TypeOK, Attached, LockHeld, OneBufferPerBlock, LockSleepersHaveHolder
<1>5. CASE bread(p)
  <2>1. /\ pc[p] = "fill" /\ pc' = [pc EXCEPT ![p] = "held"]
        /\ data' = [data EXCEPT ![cur[p]] = platter[want[p]]]
        /\ valid' = [valid EXCEPT ![cur[p]] = TRUE]
        /\ UNCHANGED <<refcnt, pinned, platter>>
    BY <1>3, <1>5, Zenon DEF bread, Goto
  <2>2. TypeOK'
    BY <1>1, <1>3, <2>1, Zenon DEF TypeOK
  <2>3. Filled'
    BY <1>1, <1>3, <2>1, BcacheConstants DEF TypeOK, Filled
  <2>4. Clean'
    BY <1>1, <1>3, <2>1 DEF TypeOK, Clean
  <2>5. RefcntExact'
    BY <1>1, <2>1, Zenon DEF RefcntExact
  <2>. QED
    BY <1>4, <2>2, <2>3, <2>4, <2>5, Zenon
<1>6. ASSUME NEW v \in Data, modify(p, v)
      PROVE  IInv'
  <2>1. /\ pc[p] \in Using /\ pc' = [pc EXCEPT ![p] = "dirty"]
        /\ data' = [data EXCEPT ![cur[p]] = v]
        /\ UNCHANGED <<valid, refcnt, pinned, platter>>
    BY <1>6, Zenon DEF modify, Goto
  <2>2. TypeOK' /\ Filled'
    BY <1>1, <1>3, <2>1, Zenon DEF TypeOK, Filled
  <2>3. Clean'
    BY <1>1, <1>3, <2>1 DEF TypeOK, Clean
  <2>4. RefcntExact'
    BY <1>1, <2>1, Zenon DEF RefcntExact
  <2>. QED
    BY <1>4, <2>2, <2>3, <2>4, Zenon
<1>7. CASE bpin(p)
  <2>1. /\ pc[p] = "dirty" /\ pc' = [pc EXCEPT ![p] = "held"]
        /\ pinned' = pinned \cup {cur[p]} /\ refcnt' = Pinned(cur[p])
        /\ UNCHANGED <<valid, data, platter>>
    BY <1>7, Zenon DEF bpin, Goto
  <2>2. TypeOK' /\ Filled'
    BY <1>1, <1>3, <2>1 DEF TypeOK, Filled, Pinned
  <2>3. Clean'
    BY <1>1, <1>3, <2>1 DEF TypeOK, Clean
  <2>4. RefcntExact'
    <3>1. \A a \in Bufs : Refs(a)' = Refs(a)
      BY <1>1, Zenon DEF Refs
    <3>2. \A a \in Bufs : Count(a)' = IF a = cur[p] /\ a \notin pinned THEN Count(a) + 1 ELSE Count(a)
      BY <1>3, <2>1, <3>1, RefsFinite DEF Count
    <3>3. \A a \in Bufs : refcnt'[a] = Count(a)'
      BY <1>3, <2>1, <3>2, RefcntIs DEF TypeOK, Pinned
    <3>. QED
      BY <3>3, Zenon DEF RefcntExact, Count, Refs
  <2>. QED
    BY <1>4, <2>2, <2>3, <2>4, Zenon
<1>8. CASE bwrite(p)
  <2>1. /\ pc[p] \in Using /\ pc' = [pc EXCEPT ![p] = "written"]
        /\ platter' = [platter EXCEPT ![want[p]] = data[cur[p]]]
        /\ UNCHANGED <<valid, refcnt, data, pinned>>
    BY <1>3, <1>8, Zenon DEF bwrite, Goto
  <2>2. TypeOK' /\ Filled'
    BY <1>1, <1>3, <2>1, Zenon DEF TypeOK, Filled
  <2>3. Clean'
    <3>1. ASSUME NEW b \in Bufs, valid[b], b \notin pinned, \A q \in Procs : cur[q] = b => pc'[q] # "dirty"
          PROVE  data[b] = platter'[blockno[b]]
      BY <1>3, <2>1, <3>1 DEF TypeOK, Clean
    <3>2. ASSUME NEW q \in Procs, pc'[q] = "written"
          PROVE  data[cur[q]] = platter'[blockno[cur[q]]]
      <4>1. CASE q = p
        BY <1>3, <2>1, <4>1, Zenon DEF TypeOK
      <4>2. CASE q # p
        <5>1. pc[q] = "written" /\ cur[q] \in Bufs /\ cur[q] # cur[p]
          BY <1>3, <2>1, <3>2, <4>2, HeadIsNoBuf DEF TypeOK, Attached
        <5>2. blockno[cur[q]] # want[p] /\ blockno[cur[q]] \in Blocks
          BY <1>3, <5>1, SoleUser, Zenon
        <5>. QED
          BY <2>1, <5>1, <5>2, Zenon DEF TypeOK, Clean
      <4>. QED
        BY <4>1, <4>2, Zenon
    <3>. QED
      BY <1>1, <2>1, <3>1, <3>2 DEF Clean
  <2>4. RefcntExact'
    BY <1>1, <2>1, Zenon DEF RefcntExact
  <2>. QED
    BY <1>4, <2>2, <2>3, <2>4, Zenon
<1>9. CASE bunpin(p)
  <2>1. /\ pc[p] = "written" /\ cur[p] \in pinned /\ pc' = [pc EXCEPT ![p] = "held"]
        /\ pinned' = pinned \ {cur[p]} /\ refcnt' = [refcnt EXCEPT ![cur[p]] = @ - 1]
        /\ UNCHANGED <<valid, data, platter>>
    BY <1>9, Zenon DEF bunpin, Goto
  <2>2. \A a \in Bufs : Count(a)' = IF a = cur[p] THEN Count(a) - 1 ELSE Count(a)
    <3>1. \A a \in Bufs : Refs(a)' = Refs(a)
      BY <1>1, Zenon DEF Refs
    <3>. QED
      BY <1>3, <2>1, <3>1, RefsFinite DEF Count
  <2>3. \A a \in Bufs : refcnt'[a] = Count(a)'
    BY <1>3, <2>1, <2>2, RefcntIs DEF TypeOK
  <2>4. RefcntExact'
    BY <2>3, Zenon DEF RefcntExact, Count, Refs
  <2>5. refcnt[cur[p]] > 0
    BY <1>3, <2>1, RefcntIs, RefsFinite DEF Count
  <2>6. TypeOK' /\ Filled'
    BY <1>1, <1>3, <2>1, <2>5 DEF TypeOK, Filled
  <2>7. Clean'
    BY <1>1, <1>3, <2>1 DEF TypeOK, Clean
  <2>. QED
    BY <1>4, <2>4, <2>6, <2>7, Zenon
<1>. QED
  BY <1>5, <1>6, <1>7, <1>8, <1>9, Zenon

\* releasesleep() wakes everybody who sleeps for this lock.
LEMMA ReleaseInv ==
    ASSUME IInv, NEW p \in Procs, releasesleep(p)
    PROVE  IInv'
<1>. USE DEF IInv, Outside, Waits, Using
<1>1. /\ pc[p] \in {"held", "written"}
      /\ lock' = [lock EXCEPT ![cur[p]] = Nobody]
      /\ want' = [want EXCEPT ![p] = Nobody]
      /\ UNCHANGED <<blockno, valid, refcnt, data, pinned, platter, cur>>
  BY Zenon DEF releasesleep
<1>2. /\ cur[p] \in Bufs /\ lock[cur[p]] = p /\ p # Nobody
      /\ \A q \in Procs \ {p} : cur[q] = cur[p] => pc[q] \in Waits \cup {"drop"}
  BY <1>1, SoleUser, BcacheConstants
<1>3. pc' = [q \in Procs |-> IF q = p THEN "drop"
                             ELSE IF pc[q] = "asleep" /\ cur[q] = cur[p] THEN "lock" ELSE pc[q]]
  BY Zenon DEF releasesleep, Awake, TypeOK
<1>4. TypeOK' /\ Attached'
  BY <1>1, <1>2, <1>3, HeadIsNoBuf DEF TypeOK, Attached
<1>5. LockHeld' /\ LockSleepersHaveHolder'
  BY <1>1, <1>2, <1>3 DEF TypeOK, LockHeld, LockSleepersHaveHolder
<1>6. Filled' /\ Clean'
  BY <1>1, <1>2, <1>3 DEF TypeOK, Filled, Clean
<1>7. RefcntExact' /\ OneBufferPerBlock'
  BY <1>1, Zenon DEF RefcntExact, OneBufferPerBlock
<1>. QED
  BY <1>4, <1>5, <1>6, <1>7, Zenon

\* The end of brelse(): one reference less.
LEMMA BrelseInv ==
    ASSUME IInv, NEW p \in Procs, brelse(p)
    PROVE  IInv'
<1>. USE DEF IInv, Outside, Waits, Using
<1>1. /\ pc[p] = "drop" /\ pc' = [pc EXCEPT ![p] = "idle"]
      /\ refcnt' = [refcnt EXCEPT ![cur[p]] = @ - 1]
      /\ cur' = [cur EXCEPT ![p] = head]
      /\ UNCHANGED <<blockno, valid, data, lock, pinned, platter, want>>
  BY Zenon DEF brelse, Goto, Dropped
<1>2. cur[p] \in Bufs /\ want[p] = Nobody
  BY <1>1, HeadIsNoBuf, Zenon DEF TypeOK, Attached
<1>3. \A a \in Bufs : Count(a)' = IF a = cur[p] THEN Count(a) - 1 ELSE Count(a)
  BY <1>1, <1>2, CountDrop, Zenon DEF TypeOK
<1>4. \A a \in Bufs : refcnt'[a] = Count(a)'
  BY <1>1, <1>2, <1>3, RefcntIs, Zenon DEF TypeOK
<1>5. RefcntExact'
  BY <1>4, Zenon DEF RefcntExact, Count, Refs
<1>6. refcnt' \in [Bufs -> Nat]
  <2>1. p \in Refs(cur[p])
    BY Zenon DEF Refs
  <2>2. Cardinality(Refs(cur[p])) # 0
    BY <2>1, RefsFinite, FS_EmptySet, Zenon
  <2>3. refcnt[cur[p]] > 0
    BY <1>2, <2>2, RefcntIs, RefsFinite DEF Count
  <2>. QED
    BY <1>1, <1>2, <2>3 DEF TypeOK
<1>7. TypeOK'
  BY <1>1, <1>6, HeadIsNoBuf, Zenon DEF TypeOK
<1>8. Attached' /\ LockHeld' /\ LockSleepersHaveHolder'
  BY <1>1, <1>2 DEF TypeOK, Attached, LockHeld, LockSleepersHaveHolder
<1>9. Filled' /\ Clean' /\ OneBufferPerBlock'
  BY <1>1, <1>2, HeadIsNoBuf DEF TypeOK, Filled, Clean, OneBufferPerBlock
<1>. QED
  BY <1>5, <1>7, <1>8, <1>9, Zenon

\* Every step keeps the invariant.
LEMMA NextInv == IInv /\ [Next]_vars => IInv'
<1>. SUFFICES ASSUME IInv, [Next]_vars PROVE IInv'
  BY Zenon
<1>1. CASE UNCHANGED vars
  BY <1>1 DEF vars, IInv, TypeOK, Attached, LockHeld, OneBufferPerBlock, Filled, Clean, RefcntExact, LockSleepersHaveHolder
<1>2. ASSUME NEW p \in Procs, NEW k \in Blocks, bget_hit(p, k) \/ bget_miss(p, k) \/ bget_panic(p, k)
      PROVE  IInv'
  BY <1>2, HitInv, MissInv, PanicKillInv, Zenon
<1>3. ASSUME NEW p \in Procs, acquiresleep(p) \/ kill(p) \/ releasesleep(p) \/ brelse(p)
      PROVE  IInv'
  BY <1>3, AcquireInv, PanicKillInv, ReleaseInv, BrelseInv, Zenon
<1>4. ASSUME NEW p \in Procs,
             bread(p) \/ (\E v \in Data : modify(p, v)) \/ bpin(p) \/ bwrite(p) \/ bunpin(p)
      PROVE  IInv'
  BY <1>4, UseInv, Zenon
<1>. QED
  BY <1>1, <1>2, <1>3, <1>4, Zenon DEF Next

\* The invariant holds in every behaviour.
THEOREM Invariance == Spec => []IInv
BY InitInv, NextInv, PTL DEF Spec

\* b->refcnt is the number of processes between bget() and the end of brelse(), plus the
\* log's pin, with any number of processes and buffers.
THEOREM ReferencesExact == Spec => []RefcntExact
<1>1. IInv => RefcntExact
  BY Zenon DEF IInv
<1>. QED
  BY <1>1, Invariance, PTL

\* No process sleeps for a buffer's lock that nobody holds: releasesleep() loses no wakeup.
THEOREM SleepersHaveHolder == Spec => []LockSleepersHaveHolder
<1>1. IInv => LockSleepersHaveHolder
  BY Zenon DEF IInv
<1>. QED
  BY <1>1, Invariance, PTL

-----------------------------------------------------------------------------
\* The refinement.  Who owns a block is decided by who uses its buffer.
LEMMA OwnerIs ==
    ASSUME IInv, NEW k \in Blocks
    PROVE  /\ \A p \in Procs : Holds(p, k) => Owner(k) = p
           /\ (\A p \in Procs : ~Holds(p, k)) => Owner(k) = Nobody
<1>1. ASSUME NEW p \in Procs, NEW q \in Procs, Holds(p, k), Holds(q, k)
      PROVE  p = q
  <2>1. /\ cur[p] \in Bufs /\ cur[q] \in Bufs
        /\ lock[cur[p]] = p /\ lock[cur[q]] = q
        /\ blockno[cur[p]] = k /\ blockno[cur[q]] = k
    BY <1>1, SoleUser, Zenon DEF Holds, Using
  <2>. QED
    BY <2>1, BcacheConstants, Zenon DEF IInv, OneBufferPerBlock
<1>2. ASSUME NEW p \in Procs, Holds(p, k)
      PROVE  Owner(k) = p
  <2>. DEFINE x == CHOOSE q \in Procs : Holds(q, k)
  <2>1. x \in Procs /\ Holds(x, k)
    BY <1>2, Zenon
  <2>2. Owner(k) = x
    BY <1>2, Zenon DEF Owner
  <2>3. x = p
    <3>. HIDE DEF x
    <3>. QED
      BY <1>1, <1>2, <2>1, Zenon
  <2>. QED
    BY <2>2, <2>3, Zenon
<1>. QED
  BY <1>2, Zenon DEF Owner

\* A block's contents are those of its valid buffer, of which there is one, or the disk's.
LEMMA ContentIs ==
    ASSUME IInv, NEW k \in Blocks
    PROVE  /\ \A b \in Bufs : blockno[b] = k /\ valid[b] => Content(k) = data[b]
           /\ (\A b \in Bufs : ~(blockno[b] = k /\ valid[b])) => Content(k) = platter[k]
<1>1. ASSUME NEW b \in Bufs, blockno[b] = k, valid[b]
      PROVE  Content(k) = data[b]
  <2>. DEFINE x == CHOOSE a \in Cached(k) : valid[a]
  <2>1. x \in Cached(k) /\ valid[x]
    BY <1>1, Zenon DEF Cached
  <2>2. x = b
    BY <1>1, <2>1, BcacheConstants, Zenon DEF Cached, IInv, OneBufferPerBlock
  <2>. QED
    BY <1>1, <2>2, Zenon DEF Content, Cached
<1>2. (\A b \in Bufs : ~(blockno[b] = k /\ valid[b])) => Content(k) = platter[k]
  BY Zenon DEF Content, Cached
<1>. QED
  BY <1>1, <1>2, Zenon

\* Both, as facts of a state.
Views ==
    \A k \in Blocks :
        /\ \A p \in Procs : Holds(p, k) => Owner(k) = p
        /\ (\A p \in Procs : ~Holds(p, k)) => Owner(k) = Nobody
        /\ \A b \in Bufs : blockno[b] = k /\ valid[b] => Content(k) = data[b]
        /\ (\A b \in Bufs : ~(blockno[b] = k /\ valid[b])) => Content(k) = platter[k]

LEMMA ViewsHold == IInv => Views
BY OwnerIs, ContentIs, Zenon DEF Views

\* Owners and contents that a step leaves alone.
LEMMA SameOwners ==
    ASSUME Views, Views', \A p \in Procs, k \in Blocks : Holds(p, k)' <=> Holds(p, k)
    PROVE  \A k \in Blocks : Owner(k)' = Owner(k)
<1>. SUFFICES ASSUME NEW k \in Blocks PROVE Owner(k)' = Owner(k)
  BY Zenon
<1>1. CASE \E p \in Procs : Holds(p, k)
  BY <1>1, Zenon DEF Views
<1>2. CASE \A p \in Procs : ~Holds(p, k)
  BY <1>2, Zenon DEF Views
<1>. QED
  BY <1>1, <1>2, Zenon

LEMMA SameContents ==
    ASSUME Views, Views', UNCHANGED <<blockno, valid, data, platter>>
    PROVE  \A k \in Blocks : Content(k)' = Content(k)
BY Zenon DEF Content, Cached

\* A step of the cache that changes neither requests, owners nor contents.
LEMMA StoreStutters ==
    ASSUME want' = want, \A k \in Blocks : Owner(k)' = Owner(k), \A k \in Blocks : Content(k)' = Content(k)
    PROVE  UNCHANGED Store!vars
BY Zenon DEF Store!vars

\* bget() asks for a block.
LEMMA HitStep ==
    ASSUME IInv, Views, Views', NEW p \in Procs, NEW k \in Blocks, bget_hit(p, k)
    PROVE  Store!Ask(p, k)
<1>1. want[p] = Nobody
  BY Zenon DEF bget_hit, IInv, Attached, Outside
<1>2. \A j \in Blocks : Owner(j)' = Owner(j)
  <2>1. pc[p] = "idle" /\ pc' = [pc EXCEPT ![p] = "lock"] /\ blockno' = blockno
    BY Zenon DEF bget_hit, Goto
  <2>2. \A q \in Procs \ {p} : cur'[q] = cur[q]
    BY Zenon DEF bget_hit, IInv, TypeOK
  <2>3. \A q \in Procs, j \in Blocks : Holds(q, j)' <=> Holds(q, j)
    BY <2>1, <2>2, Zenon DEF Holds, IInv, TypeOK
  <2>. QED
    BY <2>3, SameOwners, Zenon
<1>3. \A j \in Blocks : Content(j)' = Content(j)
  BY SameContents, Zenon DEF bget_hit
<1>. QED
  BY <1>1, <1>2, <1>3, Zenon DEF bget_hit, Store!Ask

\* bget() reuses a buffer: the block it held before is on disk, as its buffer was.
LEMMA MissStep ==
    ASSUME IInv, Views, Views', NEW p \in Procs, NEW k \in Blocks, bget_miss(p, k)
    PROVE  Store!Ask(p, k)
<1>1. want[p] = Nobody /\ pc[p] = "idle"
  BY Zenon DEF bget_miss, IInv, Attached, Outside
<1>2. PICK b \in Bufs : /\ Unused(b)
                        /\ blockno' = [blockno EXCEPT ![b] = k]
                        /\ valid' = [valid EXCEPT ![b] = FALSE]
                        /\ cur' = [cur EXCEPT ![p] = b]
  BY Zenon DEF bget_miss
<1>3. pc' = [pc EXCEPT ![p] = "lock"] /\ UNCHANGED <<data, platter>> /\ want' = [want EXCEPT ![p] = k]
  BY Zenon DEF bget_miss, Goto
<1>4. b \notin pinned /\ \A q \in Procs : cur[q] # b
  BY <1>2, UnusedHasNoUser, Zenon
<1>5. \A j \in Blocks : Owner(j)' = Owner(j)
  <2>1. \A q \in Procs : pc[q] \in Using => cur[q] \in Bufs
    BY HeadIsNoBuf DEF IInv, TypeOK, Attached, Using, Outside
  <2>2. \A q \in Procs, j \in Blocks : Holds(q, j)' <=> Holds(q, j)
    BY <1>1, <1>2, <1>3, <1>4, <2>1, Zenon DEF Holds, Using, IInv, TypeOK
  <2>. QED
    BY <2>2, SameOwners, Zenon
<1>6. ASSUME NEW j \in Blocks
      PROVE  Content(j)' = Content(j)
  <2>1. CASE blockno[b] = j /\ valid[b]
    <3>1. Content(j) = platter[j]
      BY <1>4, <2>1 DEF Views, IInv, Clean
    <3>2. \A a \in Bufs : ~(blockno'[a] = j /\ valid'[a])
      BY <1>2, <2>1, BcacheConstants, Zenon DEF IInv, TypeOK, OneBufferPerBlock
    <3>. QED
      BY <1>3, <3>1, <3>2, Zenon DEF Views
  <2>2. CASE ~(blockno[b] = j /\ valid[b])
    <3>1. \A a \in Bufs : blockno'[a] = j /\ valid'[a] <=> blockno[a] = j /\ valid[a]
      BY <1>2, <2>2, Zenon DEF IInv, TypeOK
    <3>2. CASE \E a \in Bufs : blockno[a] = j /\ valid[a]
      BY <1>3, <3>1, <3>2 DEF Views
    <3>3. CASE \A a \in Bufs : ~(blockno[a] = j /\ valid[a])
      BY <1>3, <3>1, <3>3 DEF Views
    <3>. QED
      BY <3>2, <3>3, Zenon
  <2>. QED
    BY <2>1, <2>2, Zenon
<1>. QED
  BY <1>1, <1>3, <1>5, <1>6, Zenon DEF Store!Ask

\* A process comes to use its buffer: nobody had its block.
LEMMA LockStep ==
    ASSUME IInv, Views, Views', NEW p \in Procs, want[p] \in Blocks, blockno[cur[p]] = want[p],
           \A q \in Procs : ~Holds(q, want[p]),
           pc' = [pc EXCEPT ![p] = "held"], UNCHANGED <<blockno, want, cur>>,
           \A k \in Blocks : Content(k)' = Content(k)
    PROVE  Store!Lock(p)
<1>1. want[p] # Nobody /\ Owner(want[p]) = Nobody
  BY BcacheConstants, Zenon DEF Views
<1>2. Holds(p, want[p])'
  BY Zenon DEF Holds, IInv, TypeOK
<1>3. Owner(want[p])' = p
  BY <1>2, Zenon DEF Views
<1>4. ASSUME NEW k \in Blocks \ {want[p]}
      PROVE  Owner(k)' = Owner(k)
  <2>1. \A q \in Procs : Holds(q, k)' <=> Holds(q, k)
    BY Zenon DEF Holds, IInv, TypeOK
  <2>2. CASE \E q \in Procs : Holds(q, k)
    BY <2>1, <2>2, Zenon DEF Views
  <2>3. CASE \A q \in Procs : ~Holds(q, k)
    BY <2>1, <2>3, Zenon DEF Views
  <2>. QED
    BY <2>2, <2>3, Zenon
<1>. QED
  BY <1>1, <1>3, <1>4, Zenon DEF Store!Lock

\* acquiresleep() gives a process its block when the buffer is valid.
LEMMA AcquireStep ==
    ASSUME IInv, Views, Views', NEW p \in Procs, acquiresleep(p)
    PROVE  Store!Lock(p) \/ UNCHANGED Store!vars
<1>1. /\ pc[p] = "lock" /\ UNCHANGED <<blockno, valid, data, platter, want, cur>>
      /\ cur[p] \in Bufs /\ want[p] \in Blocks /\ blockno[cur[p]] = want[p]
  BY HeadIsNoBuf DEF acquiresleep, call, IInv, TypeOK, Attached, Outside
<1>2. \A k \in Blocks : Content(k)' = Content(k)
  BY <1>1, SameContents, Zenon
<1>3. CASE lock[cur[p]] = Nobody /\ valid[cur[p]]
  <2>1. \A q \in Procs : ~Holds(q, want[p])
    <3>. SUFFICES ASSUME NEW q \in Procs, Holds(q, want[p]) PROVE FALSE
      BY Zenon
    <3>1. cur[q] \in Bufs /\ blockno[cur[q]] = want[p] /\ lock[cur[q]] = q
      BY SoleUser, Zenon DEF Holds, Using
    <3>2. cur[q] = cur[p]
      BY <1>1, <3>1, BcacheConstants, Zenon DEF IInv, OneBufferPerBlock
    <3>. QED
      BY <1>3, <3>1, <3>2, BcacheConstants, Zenon
  <2>2. pc' = [pc EXCEPT ![p] = "held"]
    BY <1>3, Zenon DEF acquiresleep, Goto
  <2>. QED
    BY <1>1, <1>2, <2>1, <2>2, LockStep, Zenon
<1>4. CASE ~(lock[cur[p]] = Nobody /\ valid[cur[p]])
  <2>1. \E l \in {"asleep", "fill"} : pc' = [pc EXCEPT ![p] = l]
    BY <1>4, Zenon DEF acquiresleep, Goto
  <2>2. \A q \in Procs, k \in Blocks : Holds(q, k)' <=> Holds(q, k)
    BY <1>1, <2>1, Zenon DEF Holds, IInv, TypeOK
  <2>. QED
    BY <1>1, <1>2, <2>2, SameOwners, StoreStutters, Zenon
<1>. QED
  BY <1>3, <1>4, Zenon

\* bread() gives a process its block with what is on disk.
LEMMA BreadStep ==
    ASSUME IInv, Views, Views', NEW p \in Procs, bread(p)
    PROVE  Store!Lock(p)
<1>1. /\ pc[p] = "fill" /\ pc' = [pc EXCEPT ![p] = "held"]
      /\ data' = [data EXCEPT ![cur[p]] = platter[blockno[cur[p]]]]
      /\ valid' = [valid EXCEPT ![cur[p]] = TRUE]
      /\ UNCHANGED <<blockno, platter, want, cur>>
  BY Zenon DEF bread, Goto, call
<1>2. /\ cur[p] \in Bufs /\ blockno[cur[p]] = want[p] /\ want[p] \in Blocks
      /\ \A q \in Procs \ {p} : cur[q] = cur[p] => pc[q] \in Waits \cup {"drop"}
      /\ \A b \in Bufs \ {cur[p]} : blockno[b] # want[p]
  BY <1>1, SoleUser, Zenon
<1>3. \A q \in Procs : ~Holds(q, want[p])
  <2>. SUFFICES ASSUME NEW q \in Procs, Holds(q, want[p]) PROVE FALSE
    BY Zenon
  <2>1. cur[q] \in Bufs /\ blockno[cur[q]] = want[p]
    BY SoleUser, Zenon DEF Holds, Using
  <2>2. cur[q] = cur[p]
    BY <1>2, <2>1, Zenon
  <2>. QED
    BY <1>1, <1>2, <2>2, Zenon DEF Holds, Waits
<1>4. ~valid[cur[p]]
  BY <1>1, Zenon DEF IInv, Filled
<1>5. ASSUME NEW k \in Blocks
      PROVE  Content(k)' = Content(k)
  <2>1. CASE k = want[p]
    <3>1. Content(k) = platter[k]
      BY <1>2, <1>4, <2>1 DEF Views
    <3>2. Content(k)' = data'[cur[p]]
      BY <1>1, <1>2, <2>1 DEF Views, IInv, TypeOK
    <3>. QED
      BY <1>1, <1>2, <2>1, <3>1, <3>2, Zenon DEF IInv, TypeOK
  <2>2. CASE k # want[p]
    <3>1. \A b \in Bufs : blockno[b] = k => (valid'[b] <=> valid[b]) /\ data'[b] = data[b]
      BY <1>1, <1>2, <2>2, Zenon DEF IInv, TypeOK
    <3>2. CASE \E b \in Bufs : blockno[b] = k /\ valid[b]
      <4>1. PICK b \in Bufs : blockno[b] = k /\ valid[b]
        BY <3>2, Zenon
      <4>2. Content(k) = data[b] /\ Content(k)' = data'[b]
        BY <1>1, <3>1, <4>1 DEF Views
      <4>. QED
        BY <3>1, <4>1, <4>2, Zenon
    <3>3. CASE \A b \in Bufs : ~(blockno[b] = k /\ valid[b])
      BY <1>1, <3>1, <3>3, Zenon DEF Views
    <3>. QED
      BY <3>2, <3>3, Zenon
  <2>. QED
    BY <2>1, <2>2, Zenon
<1>. QED
  BY <1>1, <1>2, <1>3, <1>5, LockStep, Zenon

\* The user of a buffer changes its block.
LEMMA ModifyStep ==
    ASSUME IInv, Views, Views', NEW p \in Procs, NEW v \in Data, modify(p, v)
    PROVE  Store!Write(p, v)
<1>1. /\ pc[p] \in Using /\ pc' = [pc EXCEPT ![p] = "dirty"]
      /\ data' = [data EXCEPT ![cur[p]] = v]
      /\ UNCHANGED <<blockno, valid, platter, want, cur>>
  BY Zenon DEF modify, Goto, call, Using
<1>2. /\ cur[p] \in Bufs /\ blockno[cur[p]] = want[p] /\ want[p] \in Blocks
      /\ \A b \in Bufs \ {cur[p]} : blockno[b] # want[p]
  BY <1>1, SoleUser, Zenon
<1>3. valid[cur[p]] /\ Holds(p, want[p]) /\ want[p] # Nobody
  BY <1>1, <1>2, BcacheConstants, Zenon DEF IInv, Filled, Holds, Using
<1>4. \A q \in Procs, k \in Blocks : Holds(q, k)' <=> Holds(q, k)
  BY <1>1, Zenon DEF Holds, Using, IInv, TypeOK
<1>5. \A k \in Blocks : Owner(k)' = Owner(k)
  BY <1>4, SameOwners, Zenon
<1>6. Owner(want[p]) = p
  BY <1>2, <1>3, Zenon DEF Views
<1>7. Content(want[p])' = v
  BY <1>1, <1>2, <1>3 DEF Views, IInv, TypeOK
<1>8. ASSUME NEW k \in Blocks \ {want[p]}
      PROVE  Content(k)' = Content(k)
  <2>1. \A b \in Bufs : blockno[b] = k => data'[b] = data[b]
    BY <1>1, <1>2, Zenon DEF IInv, TypeOK
  <2>2. CASE \E b \in Bufs : blockno[b] = k /\ valid[b]
    BY <1>1, <2>1, <2>2 DEF Views
  <2>3. CASE \A b \in Bufs : ~(blockno[b] = k /\ valid[b])
    BY <1>1, <2>1, <2>3 DEF Views
  <2>. QED
    BY <2>2, <2>3, Zenon
<1>. QED
  BY <1>1, <1>2, <1>3, <1>5, <1>6, <1>7, <1>8, Zenon DEF Store!Write

\* releasesleep() gives the block back.
LEMMA ReleaseStep ==
    ASSUME IInv, Views, Views', NEW p \in Procs, releasesleep(p)
    PROVE  Store!Unlock(p)
<1>1. /\ pc[p] \in {"held", "written"}
      /\ want' = [want EXCEPT ![p] = Nobody]
      /\ UNCHANGED <<blockno, valid, data, platter, cur>>
  BY Zenon DEF releasesleep
<1>2. pc' = [q \in Procs |-> IF q = p THEN "drop"
                             ELSE IF pc[q] = "asleep" /\ cur[q] = cur[p] THEN "lock" ELSE pc[q]]
  BY Zenon DEF releasesleep, Awake, IInv, TypeOK
<1>3. PICK m \in Blocks : m = want[p] /\ m # Nobody /\ Holds(p, m)
  BY <1>1, SoleUser, BcacheConstants DEF Holds, Using
<1>4. Owner(m) = p
  BY <1>3, Zenon DEF Views
<1>5. \A q \in Procs, k \in Blocks : Holds(q, k)' <=> q # p /\ Holds(q, k)
  BY <1>1, <1>2, Zenon DEF Holds
<1>6. Owner(m)' = Nobody
  <2>1. \A q \in Procs : Holds(q, m) => q = p
    BY <1>4, Zenon DEF Views
  <2>2. \A q \in Procs : ~Holds(q, m)'
    BY <1>5, <2>1, Zenon
  <2>. QED
    BY <2>2, Zenon DEF Views
<1>7. ASSUME NEW k \in Blocks \ {m}
      PROVE  Owner(k)' = Owner(k)
  <2>1. ~Holds(p, k)
    BY <1>3, Zenon DEF Holds
  <2>2. CASE \E q \in Procs : Holds(q, k)
    BY <1>5, <2>1, <2>2, Zenon DEF Views
  <2>3. CASE \A q \in Procs : ~Holds(q, k)
    BY <1>5, <2>3, Zenon DEF Views
  <2>. QED
    BY <2>2, <2>3, Zenon
<1>8. \A k \in Blocks : Content(k)' = Content(k)
  BY <1>1, SameContents, Zenon
<1>. QED
  BY <1>1, <1>3, <1>4, <1>6, <1>7, <1>8, Zenon DEF Store!Unlock

\* The other steps are not seen from outside the cache.
LEMMA HiddenStep ==
    ASSUME IInv, Views, Views', NEW p \in Procs,
           \/ kill(p) \/ bpin(p) \/ bwrite(p) \/ bunpin(p) \/ brelse(p)
           \/ \E k \in Blocks : bget_panic(p, k)
    PROVE  UNCHANGED Store!vars
<1>1. UNCHANGED <<blockno, valid, data, want>>
  BY Zenon DEF kill, bpin, bwrite, bunpin, brelse, bget_panic, call
<1>2. \A k \in Blocks : Owner(k)' = Owner(k)
  <2>1. /\ \A q \in Procs \ {p} : pc'[q] = pc[q] /\ cur'[q] = cur[q]
        /\ pc'[p] \in Using <=> pc[p] \in Using
        /\ pc[p] \in Using => cur'[p] = cur[p]
    BY DEF kill, bpin, bwrite, bunpin, brelse, bget_panic, call, Goto, Using, IInv, TypeOK
  <2>2. \A q \in Procs, k \in Blocks : Holds(q, k)' <=> Holds(q, k)
    BY <1>1, <2>1, Zenon DEF Holds, Using
  <2>. QED
    BY <2>2, SameOwners, Zenon
<1>3. CASE platter' = platter
  BY <1>1, <1>2, <1>3, SameContents, StoreStutters, Zenon
<1>4. CASE bwrite(p)
  <2>1. /\ pc[p] \in Using /\ cur[p] \in Bufs /\ want[p] \in Blocks /\ blockno[cur[p]] = want[p]
        /\ platter' = [platter EXCEPT ![want[p]] = data[cur[p]]]
    BY <1>4, SoleUser, Zenon DEF bwrite, Using
  <2>2. valid[cur[p]]
    BY <2>1, Zenon DEF IInv, Filled
  <2>3. ASSUME NEW k \in Blocks
        PROVE  Content(k)' = Content(k)
    <3>1. CASE \E b \in Bufs : blockno[b] = k /\ valid[b]
      BY <1>1, <3>1 DEF Views
    <3>2. CASE \A b \in Bufs : ~(blockno[b] = k /\ valid[b])
      <4>1. k # want[p]
        BY <2>1, <2>2, <3>2, Zenon
      <4>. QED
        BY <1>1, <2>1, <3>2, <4>1 DEF Views, IInv, TypeOK
    <3>. QED
      BY <3>1, <3>2, Zenon
  <2>. QED
    BY <1>1, <1>2, <2>3, StoreStutters, Zenon
<1>. QED
  BY <1>3, <1>4, Zenon DEF kill, bpin, bunpin, brelse, bget_panic

\* Every step of the cache is a step of the block store, or none.
LEMMA NextStep == IInv /\ Views /\ Views' /\ [Next]_vars => [Store!Next]_(Store!vars)
<1>. SUFFICES ASSUME IInv, Views, Views', [Next]_vars
              PROVE  Store!Next \/ UNCHANGED Store!vars
  BY Zenon
<1>1. CASE UNCHANGED vars
  BY <1>1, Zenon DEF vars, Store!vars, Owner, Content, Holds, Cached
<1>2. ASSUME NEW p \in Procs, NEW k \in Blocks, bget_hit(p, k) \/ bget_miss(p, k)
      PROVE  Store!Next
  BY <1>2, HitStep, MissStep, Zenon DEF Store!Next
<1>3. ASSUME NEW p \in Procs, acquiresleep(p) \/ bread(p) \/ releasesleep(p)
      PROVE  Store!Next \/ UNCHANGED Store!vars
  BY <1>3, AcquireStep, BreadStep, ReleaseStep, Zenon DEF Store!Next
<1>4. ASSUME NEW p \in Procs, NEW v \in Data, modify(p, v)
      PROVE  Store!Next
  BY <1>4, ModifyStep, Zenon DEF Store!Next
<1>5. ASSUME NEW p \in Procs,
             \/ kill(p) \/ bpin(p) \/ bwrite(p) \/ bunpin(p) \/ brelse(p)
             \/ \E k \in Blocks : bget_panic(p, k)
      PROVE  UNCHANGED Store!vars
  BY <1>5, HiddenStep, Zenon
<1>. QED
  BY <1>1, <1>2, <1>3, <1>4, <1>5, Zenon DEF Next

\* The empty cache shows the disk.
LEMMA InitStore == Init => Store!Init
<1>. SUFFICES ASSUME Init PROVE Store!Init
  BY Zenon
<1>1. \A k \in Blocks : Owner(k) = Nobody
  BY Zenon DEF Init, Owner, Holds
<1>2. \A k \in Blocks : Content(k) = platter[k]
  BY Zenon DEF Init, Content, Cached
<1>. QED
  BY <1>1, <1>2, Zenon DEF Init, Store!Init

\* The buffer cache, with any number of processes, buffers and blocks, is a store of one
\* locked register for each block: bread() returns the block with what was last written to it.
THEOREM CacheIsBlockStore == Spec => IsBlockStore
<1>1. IInv /\ IInv' => Views /\ Views'
  BY ViewsHold, PTL
<1>. QED
  BY <1>1, InitStore, NextStep, Invariance, PTL DEF Spec, IsBlockStore, Store!Spec
=============================================================================
