---------------------------- MODULE FsLogProofs -----------------------------
(***************************************************************************)
(* Proofs about the file-system log, for any number of processes and       *)
(* blocks and any log size.                                                *)
(***************************************************************************)
EXTENDS FsLog, FiniteSetTheorems, SequenceTheorems, TLAPS

\* Active is finite, and it is empty exactly when it has no elements to count.
LEMMA ActiveCount ==
    /\ IsFiniteSet(Active)
    /\ Cardinality(Active) \in Nat
    /\ Cardinality(Active) = 0 <=> Active = {}
<1>1. Active \subseteq Procs /\ IsFiniteSet(Procs)
  BY LogConstants, Zenon DEF Active
<1>2. IsFiniteSet(Active)
  BY <1>1, FS_Subset, Zenon
<1>. QED
  BY <1>2, FS_CardinalityType, FS_EmptySet, Zenon

\* The machine starts in the invariant: nothing in memory, an empty header.
LEMMA InitInv == Init => LogInv
<1>. SUFFICES ASSUME Init PROVE LogInv
  BY Zenon
<1>1. Active = {}
  BY Zenon DEF Init, BootPc, Active
<1>2. TypeOK
  <2>1. pc \in [Procs -> Pcs]
    BY Zenon DEF Init, BootPc, Pcs, RecoveryPcs
  <2>2. lh \in Seq(Blocks) /\ dhead \in Seq(Blocks)
    BY DEF Init
  <2>3. wrote \in [Procs -> SUBSET Blocks] /\ tail \in [Procs -> Nat \ {0}]
    BY DEF Init
  <2>. QED
    BY <2>1, <2>2, <2>3, LogConstants, Zenon DEF Init, TypeOK
<1>3. WhoInv
  BY <1>1, FS_EmptySet, LogConstants, Zenon
  DEF Init, BootPc, WhoInv, Booting, RecoveryPcs, CommitPcs, CommitsAlone
<1>4. HeadInv
  BY LogConstants DEF Init, BootPc, HeadInv, Booting, RecoveryPcs
<1>5. LoopInv /\ CacheInv /\ PinnedWhileLogged
  BY LogConstants, Zenon
  DEF Init, BootPc, LoopInv, CacheInv, PinnedWhileLogged, Booting, RecoveryPcs, BufData
<1>. QED
  BY <1>2, <1>3, <1>4, <1>5, Zenon DEF LogInv

\* A crash keeps the invariant: what it says of the disk alone still holds.
LEMMA CrashInv == LogInv /\ Crash => LogInv'
<1>. SUFFICES ASSUME LogInv, Crash PROVE LogInv'
  BY Zenon
<1>1. Active' = {}
  BY Zenon DEF Crash, BootPc, Active
<1>2. TypeOK'
  <2>0. TypeOK
    BY Zenon DEF LogInv
  <2>1. pc' \in [Procs -> Pcs]
    BY Zenon DEF Crash, BootPc, Pcs, RecoveryPcs
  <2>2. lh' \in Seq(Blocks)
    BY DEF Crash
  <2>3. wrote' \in [Procs -> SUBSET Blocks] /\ tail' \in [Procs -> Nat \ {0}]
    BY DEF Crash
  <2>4. /\ cache' \in [Blocks -> Data \cup {NotCached}]
        /\ pin' \in [Blocks -> Nat]
        /\ outstanding' \in Nat
    BY Zenon DEF Crash
  <2>. QED
    BY <2>0, <2>1, <2>2, <2>3, <2>4, Zenon DEF Crash, TypeOK, diskVars
<1>3. WhoInv'
  BY <1>1, FS_EmptySet, LogConstants, Zenon
  DEF Crash, BootPc, WhoInv, Booting, RecoveryPcs, CommitPcs, CommitsAlone
<1>4. HeadInv'
  <2>1. HeadInv
    BY Zenon DEF LogInv
  <2>. QED
    BY <2>1, LogConstants DEF Crash, BootPc, HeadInv, Booting, RecoveryPcs, diskVars
<1>5. LoopInv' /\ CacheInv' /\ PinnedWhileLogged'
  BY LogConstants, Zenon
  DEF Crash, BootPc, LoopInv, CacheInv, PinnedWhileLogged, Booting, RecoveryPcs, BufData
<1>. QED
  BY <1>2, <1>3, <1>4, <1>5, Zenon DEF LogInv

\* A process that runs, and is not the one that recovers, runs after recovery.
LEMMA UpAfterRecovery ==
    ASSUME LogInv, NEW p \in Procs, pc[p] \notin RecoveryPcs \cup {"off"}
    PROVE  ~Booting
BY Zenon DEF LogInv, WhoInv, Booting

\* begin_op, admitted or put to sleep, keeps the invariant.
LEMMA BeginOpInv ==
    ASSUME LogInv, NEW p \in Procs, begin_op(p)
    PROVE  LogInv'
<1>0. TypeOK /\ WhoInv /\ HeadInv /\ LoopInv /\ CacheInv /\ PinnedWhileLogged
  BY Zenon DEF LogInv
<1>1. outstanding \in Nat /\ wrote \in [Procs -> SUBSET Blocks] /\ pc \in [Procs -> Pcs]
  BY <1>0, Zenon DEF TypeOK
<1>2. ~Booting
  BY UpAfterRecovery, Zenon DEF begin_op, RecoveryPcs
<1>3. /\ pc' = [pc EXCEPT ![p] = pc'[p]]
      /\ pc'[p] \in {"op", "asleep"}
      /\ pc[p] \in {"idle", "begin"}
      /\ UNCHANGED <<disk, logdata, dhead, cache, pin, lh, committing, tail, panicked>>
  BY <1>1, Zenon DEF begin_op, Goto, diskVars
<1>4. ~Booting'
  BY <1>1, <1>2, <1>3, LogConstants, Zenon DEF Booting, RecoveryPcs
<1>5. TypeOK'
  <2>1. outstanding' \in Nat /\ wrote' \in [Procs -> SUBSET Blocks] /\ pc' \in [Procs -> Pcs]
    BY <1>1 DEF begin_op, Goto, Pcs
  <2>. QED
    BY <1>0, <1>3, <2>1, Zenon DEF TypeOK
<1>6. WhoInv'
  <2>1. outstanding' = Cardinality(Active') /\ (committing => Active' = Active)
    <3>1. CASE ~committing /\ Admit
      <4>1. Active' = Active \cup {p} /\ p \notin Active
        BY <1>1, <3>1, Zenon DEF begin_op, Goto, Active
      <4>2. outstanding' = outstanding + 1
        BY <3>1, Zenon DEF begin_op
      <4>3. Cardinality(Active') = Cardinality(Active) + 1
        BY <4>1, ActiveCount, FS_AddElement, Zenon
      <4>. QED
        BY <1>0, <3>1, <4>2, <4>3, Zenon DEF WhoInv
    <3>2. CASE ~Admit
      <4>1. Active' = Active /\ outstanding' = outstanding
        BY <1>1, <3>2, Zenon DEF begin_op, Goto, Active
      <4>. QED
        BY <1>0, <4>1, Zenon DEF WhoInv
    <3>. QED
      BY <3>1, <3>2, Zenon DEF Admit
  <2>2. CommitsAlone'
    BY <1>0, <1>1, <1>3 DEF WhoInv, CommitsAlone, CommitPcs, begin_op, Goto, Admit
  <2>. QED
    BY <1>0, <1>1, <1>3, <1>4, <2>1, <2>2, Zenon DEF WhoInv, CommitPcs, RecoveryPcs, Booting
<1>7. HeadInv'
  BY <1>0, <1>1, <1>2, <1>3, <1>4 DEF HeadInv
<1>8. LoopInv'
  BY <1>0, <1>1, <1>3 DEF LoopInv, BufData
<1>9. CacheInv'
  BY <1>0, <1>2, <1>3, <1>4, Zenon DEF CacheInv, BufData, Logged
<1>10. PinnedWhileLogged'
  BY <1>0, <1>1, <1>2, <1>3, <1>4 DEF PinnedWhileLogged, Uninstalled, Booting
<1>. QED
  BY <1>5, <1>6, <1>7, <1>8, <1>9, <1>10, Zenon DEF LogInv

\* A step that only panics keeps all of the invariant but the type of panicked.
LEMMA LogInvFrame ==
    ASSUME LogInv,
           UNCHANGED <<disk, logdata, dhead, cache, pin, lh, outstanding, committing, pc, tail, wrote>>
    PROVE  WhoInv' /\ HeadInv' /\ LoopInv' /\ CacheInv' /\ PinnedWhileLogged'
<1>0. WhoInv /\ HeadInv /\ LoopInv /\ CacheInv /\ PinnedWhileLogged
  BY Zenon DEF LogInv
<1>1. Booting' = Booting
  BY Zenon DEF Booting
<1>2. \A b : BufData(b)' = BufData(b) /\ Logged(b)' = Logged(b) /\ Uninstalled(b)' = Uninstalled(b)
  BY Zenon DEF BufData, Logged, Uninstalled
<1>3. WhoInv'
  BY <1>0, <1>1, Zenon DEF WhoInv, Active, CommitsAlone
<1>4. HeadInv'
  <2>1. lh' = lh /\ dhead' = dhead /\ pc' = pc
    BY Zenon
  <2>. QED
    BY <1>0, <1>1, <2>1, Zenon DEF HeadInv
<1>5. LoopInv'
  BY <1>0 DEF LoopInv, BufData
<1>6. CacheInv'
  BY <1>0, <1>1, <1>2, Zenon DEF CacheInv
<1>7. PinnedWhileLogged'
  BY <1>0, <1>2, Zenon DEF PinnedWhileLogged
<1>. QED
  BY <1>3, <1>4, <1>5, <1>6, <1>7, Zenon

\* A buffer without references holds what its home block holds.
LEMMA UnpinnedIsClean ==
    ASSUME LogInv, NEW b \in Blocks, pin[b] = 0
    PROVE  BufData(b) = disk[b]
<1>0. HeadInv /\ LoopInv /\ CacheInv /\ PinnedWhileLogged
  BY Zenon DEF LogInv
<1>1. CASE Booting \/ ~Logged(b)
  BY <1>0, <1>1, Zenon DEF CacheInv
<1>2. CASE ~Booting /\ Logged(b)
  <2>0. pin[b] # 1
    OBVIOUS
  <2>1. ~Uninstalled(b)
    BY <1>0, <1>2, <2>0, Zenon DEF PinnedWhileLogged, Booting
  <2>2. PICK i \in 1 .. Len(lh) : lh[i] = b
    BY <1>2, Zenon DEF Logged
  <2>3. PICK p \in Procs : pc[p] = "install" /\ ~(tail[p] <= i)
    BY <2>1, <2>2, Zenon DEF Uninstalled
  <2>4. i < tail[p] /\ lh = dhead
    <3>1. tail \in [Procs -> Nat \ {0}]
      BY Zenon DEF LogInv, TypeOK
    <3>. QED
      BY <1>0, <2>2, <2>3, <3>1 DEF HeadInv
  <2>. QED
    BY <1>0, <2>2, <2>3, <2>4 DEF LoopInv
<1>. QED
  BY <1>1, <1>2, Zenon

\* Recycling an unpinned buffer keeps the invariant.
LEMMA EvictInv ==
    ASSUME LogInv, NEW b \in Blocks, Evict(b)
    PROVE  LogInv'
<1>0. TypeOK /\ WhoInv /\ HeadInv /\ LoopInv /\ CacheInv /\ PinnedWhileLogged
  BY Zenon DEF LogInv
<1>1. cache \in [Blocks -> Data \cup {NotCached}] /\ lh \in Seq(Blocks)
  BY <1>0, Zenon DEF TypeOK
<1>2. /\ pin[b] = 0
      /\ cache' = [cache EXCEPT ![b] = NotCached]
      /\ UNCHANGED <<disk, logdata, dhead, pin, lh, outstanding, committing, pc, tail, wrote, panicked>>
  BY Zenon DEF Evict, diskVars, logVars, procVars
<1>3. \A c \in Blocks : BufData(c)' = BufData(c)
  BY <1>1, <1>2, UnpinnedIsClean, Zenon DEF BufData
<1>4. TypeOK'
  <2>1. cache' \in [Blocks -> Data \cup {NotCached}]
    BY <1>1, <1>2, Zenon
  <2>. QED
    BY <1>0, <1>2, <2>1, Zenon DEF TypeOK
<1>5. WhoInv'
  BY <1>0, <1>2, Zenon DEF WhoInv, Booting, Active, CommitsAlone
<1>6. HeadInv'
  BY <1>0, <1>2 DEF HeadInv, Booting
<1>7. LoopInv'
  <2>1. \A j \in 1 .. Len(lh) : lh[j] \in Blocks
    BY <1>1
  <2>. QED
    BY <1>0, <1>2, <1>3, <2>1 DEF LoopInv
<1>8. CacheInv'
  BY <1>0, <1>2, <1>3, Zenon DEF CacheInv, Logged, Booting
<1>9. PinnedWhileLogged'
  <2>1. \A c \in Blocks : Uninstalled(c)' <=> Uninstalled(c)
    BY <1>2, Zenon DEF Uninstalled
  <2>2. \A c \in Blocks : pin[c] = 1 => cache'[c] = cache[c]
    BY <1>1, <1>2
  <2>. QED
    BY <1>0, <1>2, <2>1, <2>2, Zenon DEF PinnedWhileLogged
<1>. QED
  BY <1>4, <1>5, <1>6, <1>7, <1>8, <1>9, Zenon DEF LogInv

\* log_write keeps the invariant: the block it dirties is logged and pinned.
LEMMA LogWriteInv ==
    ASSUME LogInv, NEW p \in Procs, NEW b \in Blocks, NEW v \in Data, log_write(p, b, v)
    PROVE  LogInv'
<1>0. TypeOK /\ WhoInv /\ HeadInv /\ LoopInv /\ CacheInv /\ PinnedWhileLogged
  BY Zenon DEF LogInv
<1>1. CASE Len(lh) >= LOGSIZE \/ Len(lh) >= nlog - 1 \/ outstanding < 1
  <2>1. /\ UNCHANGED <<disk, logdata, dhead, cache, pin, lh, outstanding, committing, pc, tail, wrote>>
        /\ panicked' \in {"too big a transaction", "log_write outside of trans"}
    BY <1>1, Zenon DEF log_write, panic, diskVars, logVars, procVars
  <2>2. TypeOK'
    BY <1>0, <2>1, Zenon DEF TypeOK
  <2>. QED
    BY <2>1, <2>2, LogInvFrame, Zenon DEF LogInv
<1>2. CASE ~(Len(lh) >= LOGSIZE \/ Len(lh) >= nlog - 1 \/ outstanding < 1)
  <2>1. /\ cache' = [cache EXCEPT ![b] = v]
        /\ RecordBlock(b)
        /\ wrote' = [wrote EXCEPT ![p] = @ \cup {b}]
        /\ UNCHANGED <<disk, logdata, dhead, outstanding, committing, pc, tail, panicked>>
        /\ pc[p] = "op"
    BY <1>2, Zenon DEF log_write, diskVars
  <2>2. /\ cache \in [Blocks -> Data \cup {NotCached}]
        /\ pin \in [Blocks -> Nat]
        /\ lh \in Seq(Blocks)
        /\ wrote \in [Procs -> SUBSET Blocks]
    BY <1>0, Zenon DEF TypeOK
  <2>3. \A q \in Procs : pc[q] \notin CommitPcs
    BY <1>0, <2>1, Zenon DEF WhoInv, Active
  <2>4. ~Booting
    BY <2>1, UpAfterRecovery, Zenon DEF RecoveryPcs
  <2>5. Len(lh) < nlog - 1
    BY <1>2, <2>2, LogConstants
  <2>50. /\ Append(lh, b) \in Seq(Blocks)
         /\ Len(Append(lh, b)) = Len(lh) + 1
         /\ \A i \in 1 .. Len(lh) : Append(lh, b)[i] = lh[i]
         /\ Append(lh, b)[Len(lh) + 1] = b
    BY <2>2, AppendProperties
  <2>51. \/ Logged(b) /\ lh' = lh
         \/ ~Logged(b) /\ lh' = Append(lh, b)
    BY <2>1, Zenon DEF RecordBlock
  <2>52. \A c \in Blocks : Logged(c)' <=> Logged(c) \/ c = b
    <3>1. CASE Logged(b) /\ lh' = lh
      BY <3>1, Zenon DEF Logged
    <3>2. CASE lh' = Append(lh, b)
      <4>1. Len(lh) \in Nat /\ 1 .. Len(lh') = 1 .. Len(lh) \cup {Len(lh) + 1}
        BY <2>2, <2>50, <3>2
      <4>. QED
        BY <2>50, <3>2, <4>1, Zenon DEF Logged
    <3>. QED
      BY <2>51, <3>1, <3>2, Zenon
  <2>6. TypeOK'
    <3>1. cache' \in [Blocks -> Data \cup {NotCached}]
      BY <2>1, <2>2, Zenon
    <3>2. pin' \in [Blocks -> Nat]
      BY <2>1, <2>2 DEF RecordBlock
    <3>3. lh' \in Seq(Blocks)
      BY <2>2, <2>50, <2>51, Zenon
    <3>4. wrote' \in [Procs -> SUBSET Blocks]
      BY <2>1, <2>2, Zenon
    <3>. QED
      BY <1>0, <2>1, <3>1, <3>2, <3>3, <3>4, Zenon DEF TypeOK
  <2>7. WhoInv'
    BY <1>0, <2>1, Zenon DEF WhoInv, Booting, Active, CommitsAlone
  <2>8. HeadInv'
    <3>1. \A i, j \in 1 .. Len(lh') : lh'[i] = lh'[j] => i = j
      <4>1. CASE lh' = lh
        BY <1>0, <4>1 DEF HeadInv
      <4>2. CASE ~Logged(b) /\ lh' = Append(lh, b)
        <5>1. Len(lh) \in Nat /\ 1 .. Len(lh') = 1 .. Len(lh) \cup {Len(lh) + 1}
          BY <2>2, <2>50, <4>2
        <5>. QED
          BY <1>0, <2>50, <4>2, <5>1 DEF HeadInv, Logged
      <4>. QED
        BY <2>51, <4>1, <4>2, Zenon
    <3>2. Len(lh') <= nlog - 1
      BY <1>0, <2>2, <2>5, <2>50, <2>51, LogConstants DEF HeadInv
    <3>. QED
      BY <1>0, <2>1, <2>3, <2>4, <3>1, <3>2 DEF HeadInv, Booting, CommitPcs, WhoInv, RecoveryPcs
  <2>9. LoopInv'
    BY <1>0, <2>1, <2>3, <2>4, Zenon DEF LoopInv, CommitPcs, WhoInv, RecoveryPcs
  <2>10. CacheInv'
    BY <1>0, <2>1, <2>2, <2>4, <2>52, Zenon DEF CacheInv, BufData, Booting
  <2>11. PinnedWhileLogged'
    <3>1. \A c \in Blocks : Uninstalled(c) <=> Logged(c)
      BY <2>3, Zenon DEF Uninstalled, Logged, CommitPcs
    <3>2. \A c \in Blocks : Uninstalled(c)' <=> Logged(c)'
      BY <2>1, <2>3, Zenon DEF Uninstalled, Logged, CommitPcs
    <3>4. \A c \in Blocks : IF Logged(c) THEN pin[c] = 1 /\ cache[c] # NotCached ELSE pin[c] = 0
      BY <1>0, <2>4, <3>1, Zenon DEF PinnedWhileLogged, Booting
    <3>5. \A c \in Blocks :
            IF Logged(c)' THEN pin'[c] = 1 /\ cache'[c] # NotCached ELSE pin'[c] = 0
      <4>1. TAKE c \in Blocks
      <4>2. CASE c = b
        BY <2>1, <2>2, <2>52, <3>4, <4>2, LogConstants DEF RecordBlock
      <4>3. CASE c # b
        BY <2>1, <2>2, <2>52, <3>4, <4>3, Zenon DEF RecordBlock
      <4>. QED
        BY <4>2, <4>3, Zenon
    <3>. QED
      BY <3>2, <3>5, Zenon DEF PinnedWhileLogged
  <2>. QED
    BY <2>6, <2>7, <2>8, <2>9, <2>10, <2>11, Zenon DEF LogInv
<1>. QED
  BY <1>1, <1>2, Zenon

\* end_op keeps the invariant: it starts a commit only as the last call.
LEMMA EndOpInv ==
    ASSUME LogInv, NEW p \in Procs, end_op(p)
    PROVE  LogInv'
<1>0. TypeOK /\ WhoInv /\ HeadInv /\ LoopInv /\ CacheInv /\ PinnedWhileLogged
  BY Zenon DEF LogInv
<1>1. CASE committing
  <2>1. /\ UNCHANGED <<disk, logdata, dhead, cache, pin, lh, outstanding, committing, pc, tail, wrote>>
        /\ panicked' = "log.committing"
    BY <1>1, Zenon DEF end_op, panic, diskVars, logVars, procVars
  <2>2. TypeOK'
    BY <1>0, <2>1, Zenon DEF TypeOK
  <2>. QED
    BY <2>1, <2>2, LogInvFrame, Zenon DEF LogInv
<1>2. CASE ~committing
  <2>1. /\ outstanding \in Nat
        /\ pc \in [Procs -> Pcs]
        /\ wrote \in [Procs -> SUBSET Blocks]
    BY <1>0, Zenon DEF TypeOK
  <2>2. /\ outstanding' = outstanding - 1
        /\ committing' = (outstanding = 1)
        /\ wrote' = [wrote EXCEPT ![p] = {}]
        /\ UNCHANGED <<disk, logdata, dhead, cache, pin, lh, tail, panicked>>
        /\ pc[p] = "op"
    BY <1>2, Zenon DEF end_op, diskVars
  <2>3. /\ pc' \in [Procs -> Pcs]
        /\ pc'[p] = IF outstanding = 1 THEN "commit" ELSE "idle"
        /\ \A q \in Procs \ {p} :
             pc'[q] = pc[q] \/ (pc[q] = "asleep" /\ pc'[q] = "begin")
    BY <1>2, <2>1, Zenon DEF end_op, Woken, Pcs, CommitPcs
  <2>4. \A q \in Procs : pc[q] \notin CommitPcs
    BY <1>0, <1>2, Zenon DEF WhoInv
  <2>5. ~Booting
    BY <2>2, UpAfterRecovery, Zenon DEF RecoveryPcs
  <2>6. ~Booting'
    BY <2>3, <2>5, LogConstants, Zenon DEF Booting, RecoveryPcs
  <2>7. Active' = Active \ {p} /\ p \in Active
    BY <2>2, <2>3, Zenon DEF Active
  <2>8. outstanding' = Cardinality(Active')
    <3>1. Cardinality(Active') = Cardinality(Active) - 1
      BY <2>7, ActiveCount, FS_RemoveElement, Zenon
    <3>. QED
      BY <1>0, <2>2, <3>1, Zenon DEF WhoInv
  <2>9. outstanding' \in Nat
    <3>1. Cardinality(Active) # 0
      BY <2>7, ActiveCount, Zenon
    <3>. QED
      BY <1>0, <2>1, <2>2, <3>1 DEF WhoInv
  <2>10. outstanding = 1 => Active' = {}
    <3>1. IsFiniteSet(Active')
      BY <2>7, ActiveCount, FS_RemoveElement, Zenon
    <3>. QED
      BY <2>1, <2>2, <2>8, <3>1, FS_EmptySet
  <2>11. TypeOK'
    BY <1>0, <2>1, <2>2, <2>3, <2>9, Zenon DEF TypeOK
  <2>12. WhoInv'
    <3>1. CommitsAlone'
      BY <2>2, <2>3, <2>4, <2>10, Zenon DEF CommitsAlone, CommitPcs, Active
    <3>2. \A q \in Procs : pc'[q] \notin RecoveryPcs
      BY <1>0, <2>3, <2>5, Zenon DEF WhoInv, RecoveryPcs
    <3>3. \A q \in Procs : pc'[q] \in CommitPcs => committing' /\ Active' = {}
      BY <2>2, <2>3, <2>4, <2>10, Zenon DEF CommitPcs
    <3>. QED
      BY <2>6, <2>8, <3>1, <3>2, <3>3, Zenon DEF WhoInv
  <2>13. HeadInv'
    BY <1>0, <2>2, <2>3, <2>4, <2>5, <2>6 DEF HeadInv, CommitPcs, WhoInv, RecoveryPcs
  <2>14. LoopInv'
    BY <1>0, <2>2, <2>3, <2>4 DEF LoopInv, CommitPcs, BufData
  <2>15. CacheInv'
    BY <1>0, <2>2, <2>5, <2>6, Zenon DEF CacheInv, BufData, Logged
  <2>16. PinnedWhileLogged'
    <3>1. \A q \in Procs : pc[q] # "install" /\ pc'[q] # "install"
      BY <2>3, <2>4, Zenon DEF CommitPcs
    <3>. QED
      BY <1>0, <2>2, <2>5, <3>1, Zenon DEF PinnedWhileLogged, Uninstalled, Booting
  <2>. QED
    BY <2>11, <2>12, <2>13, <2>14, <2>15, <2>16, Zenon DEF LogInv
<1>. QED
  BY <1>1, <1>2, Zenon

\* The steps of commit() that leave the disk and the headers alone.
LEMMA CommitInv ==
    ASSUME LogInv, NEW p \in Procs, commit(p)
    PROVE  LogInv'
<1>0. TypeOK /\ WhoInv /\ HeadInv /\ LoopInv /\ CacheInv /\ PinnedWhileLogged
  BY Zenon DEF LogInv
<1>1. pc \in [Procs -> Pcs] /\ tail \in [Procs -> Nat \ {0}] /\ lh \in Seq(Blocks)
  BY <1>0, Zenon DEF TypeOK
<1>2. /\ pc[p] = "commit"
      /\ pc' = [pc EXCEPT ![p] = IF Len(lh) > 0 THEN "write_log" ELSE "done"]
      /\ tail' = [tail EXCEPT ![p] = 1]
      /\ UNCHANGED <<disk, logdata, dhead, cache, pin, lh, outstanding, committing, wrote, panicked>>
  BY Zenon DEF commit, Goto, diskVars, logVars
<1>3. ~Booting
  BY <1>2, UpAfterRecovery, Zenon DEF RecoveryPcs
<1>4. ~Booting'
  BY <1>1, <1>2, <1>3, LogConstants, Zenon DEF Booting, RecoveryPcs
<1>5. Active' = Active
  BY <1>1, <1>2, Zenon DEF Active
<1>6. TypeOK'
  <2>1. pc' \in [Procs -> Pcs] /\ tail' \in [Procs -> Nat \ {0}]
    BY <1>1, <1>2 DEF Pcs, CommitPcs
  <2>. QED
    BY <1>0, <1>2, <2>1, Zenon DEF TypeOK
<1>7. WhoInv'
  <2>1. CommitsAlone'
    BY <1>0, <1>1, <1>2, Zenon DEF WhoInv, CommitsAlone, CommitPcs
  <2>. QED
    BY <1>0, <1>1, <1>2, <1>3, <1>4, <1>5, <2>1, Zenon DEF WhoInv, CommitPcs, RecoveryPcs
<1>8. HeadInv'
  BY <1>0, <1>1, <1>2, <1>3, <1>4 DEF HeadInv
<1>9. LoopInv'
  BY <1>0, <1>1, <1>2 DEF LoopInv, BufData
<1>10. CacheInv'
  BY <1>0, <1>2, <1>3, <1>4, Zenon DEF CacheInv, BufData, Logged
<1>11. PinnedWhileLogged'
  <2>1. \A q \in Procs : pc[q] # "install" /\ pc'[q] # "install"
    BY <1>0, <1>1, <1>2, Zenon DEF WhoInv, CommitsAlone, CommitPcs
  <2>. QED
    BY <1>0, <1>2, <1>3, <2>1, Zenon DEF PinnedWhileLogged, Uninstalled, Booting
<1>. QED
  BY <1>6, <1>7, <1>8, <1>9, <1>10, <1>11, Zenon DEF LogInv

\* A turn of write_log keeps the invariant: one more log block is right.
LEMMA WriteLogInv ==
    ASSUME LogInv, NEW p \in Procs, write_log(p)
    PROVE  LogInv'
<1>0. TypeOK /\ WhoInv /\ HeadInv /\ LoopInv /\ CacheInv /\ PinnedWhileLogged
  BY Zenon DEF LogInv
<1>1. /\ pc \in [Procs -> Pcs]
      /\ tail \in [Procs -> Nat \ {0}]
      /\ lh \in Seq(Blocks)
      /\ logdata \in [LogSlots -> Data]
      /\ cache \in [Blocks -> Data \cup {NotCached}]
      /\ disk \in [Blocks -> Data]
  BY <1>0, Zenon DEF TypeOK
<1>2. /\ pc[p] = "write_log"
      /\ UNCHANGED <<disk, dhead, pin, lh, outstanding, committing, wrote, panicked>>
  BY Zenon DEF write_log, logVars
<1>3. ~Booting
  BY <1>2, UpAfterRecovery, Zenon DEF RecoveryPcs
<1>4. \A q \in Procs \ {p} : pc[q] \notin CommitPcs
  BY <1>0, <1>2, Zenon DEF WhoInv, CommitsAlone, CommitPcs
<1>5. /\ pc'[p] \in {"write_log", "write_head"}
      /\ pc' = [pc EXCEPT ![p] = pc'[p]]
      /\ ~Booting'
      /\ Active' = Active
  BY <1>1, <1>2, <1>3, LogConstants DEF write_log, Goto, Booting, Active, RecoveryPcs
<1>6. \A b \in Blocks : BufData(b)' = BufData(b) /\ (cache[b] # NotCached => cache'[b] # NotCached)
  <2>1. CASE tail[p] <= Len(lh)
    <3>1. lh[tail[p]] \in Blocks
      BY <1>1, <2>1
    <3>2. cache' = [cache EXCEPT ![lh[tail[p]]] = BufData(lh[tail[p]])]
      BY <2>1, Zenon DEF write_log
    <3>3. \A b \in Blocks : BufData(b) \in Data
      BY <1>1, Zenon DEF BufData
    <3>. QED
      BY <1>1, <1>2, <3>1, <3>2, <3>3, LogConstants, Zenon DEF BufData
  <2>2. CASE ~(tail[p] <= Len(lh))
    BY <1>2, <2>2, Zenon DEF write_log, BufData
  <2>. QED
    BY <2>1, <2>2, Zenon
<1>7. TypeOK'
  <2>0. \A b \in Blocks : BufData(b) \in Data
    BY <1>1, Zenon DEF BufData
  <2>1. pc' \in [Procs -> Pcs]
    BY <1>1, <1>5, Zenon DEF Pcs, CommitPcs
  <2>2. tail' \in [Procs -> Nat \ {0}]
    BY <1>1 DEF write_log, NextTail
  <2>3. logdata' \in [LogSlots -> Data]
    BY <1>1, <2>0 DEF write_log
  <2>4. cache' \in [Blocks -> Data \cup {NotCached}]
    BY <1>1, <2>0 DEF write_log
  <2>. QED
    BY <1>0, <1>2, <2>1, <2>2, <2>3, <2>4, Zenon DEF TypeOK
<1>8. WhoInv'
  <2>1. CommitsAlone'
    BY <1>0, <1>1, <1>2, <1>5 DEF WhoInv, CommitsAlone, CommitPcs
  <2>. QED
    BY <1>0, <1>1, <1>2, <1>3, <1>5, <2>1, Zenon DEF WhoInv, CommitPcs, RecoveryPcs
<1>9. HeadInv'
  BY <1>0, <1>1, <1>2, <1>3, <1>5 DEF HeadInv
<1>10. LoopInv'
  <2>1. \A q \in Procs \ {p} : pc'[q] \notin CommitPcs \cup RecoveryPcs
    BY <1>0, <1>1, <1>3, <1>4, <1>5, Zenon DEF WhoInv
  <2>2. \A j \in 1 .. Len(lh) : lh[j] \in Blocks
    BY <1>1
  <2>3. CASE tail[p] <= Len(lh)
    <3>1. tail[p] \in LogSlots
      BY <1>0, <1>1, <2>3, LogConstants DEF HeadInv, LogSlots
    <3>2. pc' = pc /\ tail'[p] = tail[p] + 1
      BY <1>1, <2>3, Zenon DEF write_log, NextTail
    <3>3. logdata' = [logdata EXCEPT ![tail[p]] = BufData(lh[tail[p]])]
      BY <2>3, Zenon DEF write_log
    <3>4. \A j \in 1 .. Len(lh) : j < tail'[p] => logdata'[j] = BufData(lh[j])
      BY <1>0, <1>1, <1>2, <3>1, <3>2, <3>3 DEF LoopInv
    <3>5. (\A j \in 1 .. Len(lh) : j < tail[p] => logdata[j] = BufData(lh[j]))'
      BY <1>2, <1>6, <2>2, <3>4, Zenon
    <3>. QED
      BY <1>2, <2>1, <3>2, <3>5, Zenon DEF LoopInv, CommitPcs, RecoveryPcs
  <2>4. CASE ~(tail[p] <= Len(lh))
    <3>1. pc'[p] = "write_head" /\ logdata' = logdata
      BY <1>1, <2>4, Zenon DEF write_log, Goto
    <3>2. \A j \in 1 .. Len(lh) : j < tail[p]
      BY <1>1, <2>4
    <3>3. (\A j \in 1 .. Len(lh) : logdata[j] = BufData(lh[j]))'
      BY <1>0, <1>2, <1>6, <2>2, <3>1, <3>2, Zenon DEF LoopInv
    <3>. QED
      BY <2>1, <3>1, <3>3, Zenon DEF LoopInv, CommitPcs, RecoveryPcs
  <2>. QED
    BY <2>3, <2>4, Zenon
<1>11. CacheInv'
  BY <1>0, <1>2, <1>3, <1>5, <1>6, Zenon DEF CacheInv, Logged
<1>12. PinnedWhileLogged'
  <2>1. \A q \in Procs : pc[q] # "install" /\ pc'[q] # "install"
    BY <1>1, <1>2, <1>4, <1>5, Zenon DEF CommitPcs
  <2>. QED
    BY <1>0, <1>2, <1>3, <1>6, <2>1 DEF PinnedWhileLogged, Uninstalled, Booting
<1>. QED
  BY <1>7, <1>8, <1>9, <1>10, <1>11, <1>12, Zenon DEF LogInv

\* The commit point keeps the invariant: every log block is in place.
LEMMA WriteHeadInv ==
    ASSUME LogInv, NEW p \in Procs, write_head(p)
    PROVE  LogInv'
<1>0. TypeOK /\ WhoInv /\ HeadInv /\ LoopInv /\ CacheInv /\ PinnedWhileLogged
  BY Zenon DEF LogInv
<1>1. pc \in [Procs -> Pcs] /\ tail \in [Procs -> Nat \ {0}] /\ lh \in Seq(Blocks)
  BY <1>0, Zenon DEF TypeOK
<1>2. /\ pc[p] = "write_head"
      /\ pc' = [pc EXCEPT ![p] = "install"]
      /\ tail' = [tail EXCEPT ![p] = 1]
      /\ dhead' = lh
      /\ UNCHANGED <<disk, logdata, cache, pin, lh, outstanding, committing, wrote, panicked>>
  BY Zenon DEF write_head, PutHead, Goto, logVars
<1>3. ~Booting
  BY <1>2, UpAfterRecovery, Zenon DEF RecoveryPcs
<1>4. ~Booting' /\ Active' = Active
  BY <1>1, <1>2, <1>3, LogConstants, Zenon DEF Booting, RecoveryPcs, Active
<1>5. \A q \in Procs \ {p} : pc[q] \notin CommitPcs
  BY <1>0, <1>2, Zenon DEF WhoInv, CommitsAlone, CommitPcs
<1>6. TypeOK'
  <2>1. pc' \in [Procs -> Pcs] /\ tail' \in [Procs -> Nat \ {0}] /\ dhead' \in Seq(Blocks)
    BY <1>1, <1>2 DEF Pcs, CommitPcs
  <2>. QED
    BY <1>0, <1>2, <2>1, Zenon DEF TypeOK
<1>7. WhoInv'
  <2>1. CommitsAlone'
    BY <1>0, <1>1, <1>2, Zenon DEF WhoInv, CommitsAlone, CommitPcs
  <2>. QED
    BY <1>0, <1>1, <1>2, <1>3, <1>4, <2>1, Zenon DEF WhoInv, CommitPcs, RecoveryPcs
<1>8. HeadInv'
  BY <1>0, <1>1, <1>2, <1>3, <1>4 DEF HeadInv, WhoInv, RecoveryPcs
<1>9. LoopInv'
  <2>1. \A q \in Procs \ {p} : pc'[q] \notin CommitPcs \cup RecoveryPcs
    BY <1>0, <1>1, <1>2, <1>3, <1>5, Zenon DEF WhoInv
  <2>2. (\A j \in 1 .. Len(lh) : logdata[j] = BufData(lh[j]))'
    BY <1>0, <1>2, Zenon DEF LoopInv, BufData
  <2>3. pc'[p] = "install" /\ tail'[p] = 1
    BY <1>1, <1>2, Zenon
  <2>4. \A j \in 1 .. Len(dhead') : ~(j < tail'[p])
    BY <1>1, <1>2, <2>3
  <2>5. \A q \in Procs \ {p} :
            pc'[q] \notin {"write_log", "write_head", "install", "r_install", "clear", "r_clear"}
    BY <2>1, Zenon DEF CommitPcs, RecoveryPcs
  <2>. QED
    BY <2>2, <2>3, <2>4, <2>5, Zenon DEF LoopInv
<1>10. CacheInv'
  BY <1>0, <1>2, <1>3, <1>4, Zenon DEF CacheInv, BufData, Logged
<1>11. PinnedWhileLogged'
  <2>1. \A b \in Blocks : Uninstalled(b)' <=> Uninstalled(b)
    BY <1>1, <1>2, <1>5 DEF Uninstalled, CommitPcs
  <2>. QED
    BY <1>0, <1>2, <1>3, <2>1, Zenon DEF PinnedWhileLogged, Booting
<1>. QED
  BY <1>6, <1>7, <1>8, <1>9, <1>10, <1>11, Zenon DEF LogInv

\* A turn of install_trans in commit() keeps the invariant.
LEMMA InstallInv ==
    ASSUME LogInv, NEW p \in Procs, install_trans(p, FALSE), tail[p] <= Len(lh)
    PROVE  LogInv'
<1>0. TypeOK /\ WhoInv /\ HeadInv /\ LoopInv /\ CacheInv /\ PinnedWhileLogged
  BY Zenon DEF LogInv
<1>1. /\ pc \in [Procs -> Pcs]
      /\ tail \in [Procs -> Nat \ {0}]
      /\ lh \in Seq(Blocks)
      /\ logdata \in [LogSlots -> Data]
      /\ cache \in [Blocks -> Data \cup {NotCached}]
      /\ disk \in [Blocks -> Data]
      /\ pin \in [Blocks -> Nat]
  BY <1>0, Zenon DEF TypeOK
<1>b. PICK b \in Blocks : b = lh[tail[p]]
  BY <1>1
<1>2. /\ pc[p] = "install"
      /\ disk' = [disk EXCEPT ![b] = logdata[tail[p]]]
      /\ cache' = [cache EXCEPT ![b] = logdata[tail[p]]]
      /\ pin' = [pin EXCEPT ![b] = @ - 1]
      /\ tail' = [tail EXCEPT ![p] = @ + 1]
      /\ UNCHANGED <<logdata, dhead, lh, outstanding, committing, pc, wrote, panicked>>
  BY <1>b, Zenon DEF install_trans, NextInstall, Unpinned
<1>3. /\ b = lh[tail[p]]
      /\ tail[p] \in 1 .. Len(lh)
      /\ tail[p] \in LogSlots
      /\ logdata[tail[p]] \in Data
      /\ lh = dhead
  BY <1>0, <1>1, <1>b, <1>2, LogConstants DEF HeadInv, LogSlots
<1>4. logdata[tail[p]] = BufData(b)
  BY <1>0, <1>2, <1>3, Zenon DEF LoopInv
<1>5. \A c \in Blocks : BufData(c)' = BufData(c)
  BY <1>1, <1>2, <1>3, <1>4, LogConstants, Zenon DEF BufData
<1>6. ~Booting /\ ~Booting'
  BY <1>2, UpAfterRecovery, Zenon DEF RecoveryPcs, Booting
<1>7. \A q \in Procs \ {p} : pc[q] \notin CommitPcs
  BY <1>0, <1>2, Zenon DEF WhoInv, CommitsAlone, CommitPcs
<1>8. \A c \in Blocks : Uninstalled(c) <=> \E i \in 1 .. Len(lh) : lh[i] = c /\ tail[p] <= i
  BY <1>2, <1>7, Zenon DEF Uninstalled, CommitPcs
<1>9. \A c \in Blocks : Uninstalled(c)' <=> \E i \in 1 .. Len(lh) : lh[i] = c /\ tail[p] + 1 <= i
  BY <1>1, <1>2, <1>7, Zenon DEF Uninstalled, CommitPcs
<1>10. PinnedWhileLogged'
  <2>1. ~Uninstalled(b)'
    <3>1. \A i \in 1 .. Len(lh) : lh[i] = b => i = tail[p]
      BY <1>0, <1>3, Zenon DEF HeadInv
    <3>. QED
      BY <1>1, <1>9, <3>1
  <2>2. Uninstalled(b)
    BY <1>1, <1>3, <1>8
  <2>3. \A c \in Blocks \ {b} : Uninstalled(c)' <=> Uninstalled(c)
    BY <1>1, <1>3, <1>8, <1>9
  <2>4. pin[b] = 1
    BY <1>0, <1>3, <1>6, <2>2, Zenon DEF PinnedWhileLogged, Booting
  <2>5. pin'[b] = 0
    BY <1>1, <1>2, <1>3, <2>4
  <2>6. \A c \in Blocks \ {b} : pin'[c] = pin[c] /\ cache'[c] = cache[c]
    BY <1>1, <1>2, Zenon
  <2>. QED
    BY <1>0, <1>6, <2>1, <2>3, <2>5, <2>6, Zenon DEF PinnedWhileLogged, Booting
<1>11. TypeOK'
  <2>1. tail' \in [Procs -> Nat \ {0}]
    BY <1>1, <1>2
  <2>2. disk' \in [Blocks -> Data] /\ cache' \in [Blocks -> Data \cup {NotCached}]
    BY <1>1, <1>2, <1>3, Zenon
  <2>3. pin' \in [Blocks -> Nat]
    <3>1. pin[b] = 1
      BY <1>0, <1>1, <1>3, <1>6, <1>8 DEF PinnedWhileLogged, Booting
    <3>. QED
      BY <1>1, <1>2, <1>3, <3>1
  <2>. QED
    BY <1>0, <1>2, <2>1, <2>2, <2>3, Zenon DEF TypeOK
<1>12. WhoInv'
  BY <1>0, <1>2, Zenon DEF WhoInv, Booting, Active, CommitsAlone
<1>13. HeadInv'
  BY <1>0, <1>2 DEF HeadInv, Booting
<1>14. LoopInv'
  <2>1. \A q \in Procs \ {p} : pc'[q] \notin CommitPcs \cup RecoveryPcs
    BY <1>0, <1>2, <1>6, <1>7, Zenon DEF WhoInv
  <2>2. \A j \in 1 .. Len(lh) : lh[j] \in Blocks
    BY <1>1
  <2>3. (\A j \in 1 .. Len(lh) : logdata[j] = BufData(lh[j]))'
    BY <1>0, <1>2, <1>5, <2>2, Zenon DEF LoopInv
  <2>4. \A j \in 1 .. Len(lh) : j < tail[p] => disk[lh[j]] = logdata[j]
    BY <1>0, <1>2, <1>3, Zenon DEF LoopInv
  <2>5. \A j \in 1 .. Len(lh) : j < tail[p] => lh[j] # b
    BY <1>0, <1>1, <1>3 DEF HeadInv
  <2>6. \A j \in 1 .. Len(lh) : j < tail[p] + 1 => disk'[lh[j]] = logdata[j]
    <3>1. TAKE j \in 1 .. Len(lh)
    <3>2. HAVE j < tail[p] + 1
    <3>3. CASE j = tail[p]
      BY <1>1, <1>2, <1>3, <3>3, Zenon
    <3>4. CASE j < tail[p]
      <4>1. lh[j] \in Blocks /\ lh[j] # b /\ disk[lh[j]] = logdata[j]
        BY <2>2, <2>4, <2>5, <3>4, Zenon
      <4>. QED
        BY <1>1, <1>2, <4>1, Zenon
    <3>5. tail[p] \in Nat /\ j \in Nat
      BY <1>1
    <3>. QED
      BY <3>2, <3>3, <3>4, <3>5
  <2>7. (\A j \in 1 .. Len(dhead) : j < tail[p] => disk[dhead[j]] = logdata[j])'
    BY <1>1, <1>2, <1>3, <2>6
  <2>. QED
    BY <1>2, <2>1, <2>3, <2>7, Zenon DEF LoopInv, CommitPcs, RecoveryPcs
<1>15. CacheInv'
  <2>1. \A c \in Blocks : ~Logged(c)' => ~Logged(c) /\ c # b
    BY <1>2, <1>3, Zenon DEF Logged
  <2>2. \A c \in Blocks : c # b => disk'[c] = disk[c]
    BY <1>1, <1>2, Zenon
  <2>. QED
    BY <1>0, <1>5, <1>6, <2>1, <2>2, Zenon DEF CacheInv
<1>. QED
  BY <1>10, <1>11, <1>12, <1>13, <1>14, <1>15, Zenon DEF LogInv

\* The end of install_trans in commit() keeps the invariant.
LEMMA InstallEndInv ==
    ASSUME LogInv, NEW p \in Procs, install_trans(p, FALSE), ~(tail[p] <= Len(lh))
    PROVE  LogInv'
<1>0. TypeOK /\ WhoInv /\ HeadInv /\ LoopInv /\ CacheInv /\ PinnedWhileLogged
  BY Zenon DEF LogInv
<1>1. pc \in [Procs -> Pcs] /\ tail \in [Procs -> Nat \ {0}] /\ lh \in Seq(Blocks)
  BY <1>0, Zenon DEF TypeOK
<1>2. /\ pc[p] = "install"
      /\ pc' = [pc EXCEPT ![p] = "clear"]
      /\ lh' = << >>
      /\ UNCHANGED <<disk, logdata, dhead, cache, pin, outstanding, committing, tail, wrote, panicked>>
  BY Zenon DEF install_trans, Goto
<1>3. ~Booting
  BY <1>2, UpAfterRecovery, Zenon DEF RecoveryPcs
<1>4. ~Booting' /\ Active' = Active
  BY <1>1, <1>2, <1>3, LogConstants, Zenon DEF Booting, RecoveryPcs, Active
<1>5. \A q \in Procs \ {p} : pc[q] \notin CommitPcs
  BY <1>0, <1>2, Zenon DEF WhoInv, CommitsAlone, CommitPcs
<1>6. lh = dhead /\ \A j \in 1 .. Len(lh) : j < tail[p]
  BY <1>0, <1>1, <1>2 DEF HeadInv
<1>7. \A j \in 1 .. Len(lh) : disk[lh[j]] = logdata[j] /\ logdata[j] = BufData(lh[j])
  BY <1>0, <1>2, <1>6, Zenon DEF LoopInv
<1>8. TypeOK'
  <2>1. pc' \in [Procs -> Pcs] /\ lh' \in Seq(Blocks)
    BY <1>1, <1>2 DEF Pcs, CommitPcs
  <2>. QED
    BY <1>0, <1>2, <2>1, Zenon DEF TypeOK
<1>9. WhoInv'
  <2>1. CommitsAlone'
    BY <1>0, <1>1, <1>2, Zenon DEF WhoInv, CommitsAlone, CommitPcs
  <2>. QED
    BY <1>0, <1>1, <1>2, <1>3, <1>4, <2>1, Zenon DEF WhoInv, CommitPcs, RecoveryPcs
<1>10. HeadInv'
  <2>1. \A q \in Procs : pc'[q] \notin RecoveryPcs \cup {"install"}
    BY <1>0, <1>1, <1>2, <1>3, <1>5, Zenon DEF WhoInv, RecoveryPcs, CommitPcs
  <2>. QED
    BY <1>0, <1>1, <1>2, <1>4, <2>1, LogConstants DEF HeadInv, RecoveryPcs
<1>11. LoopInv'
  <2>1. \A q \in Procs \ {p} : pc'[q] \notin CommitPcs \cup RecoveryPcs
    BY <1>0, <1>1, <1>2, <1>3, <1>5, Zenon DEF WhoInv
  <2>2. (\A j \in 1 .. Len(dhead) : disk[dhead[j]] = logdata[j])'
    BY <1>2, <1>6, <1>7, Zenon
  <2>. QED
    BY <1>1, <1>2, <2>1, <2>2, Zenon DEF LoopInv, CommitPcs, RecoveryPcs
<1>12. CacheInv'
  <2>1. \A b \in Blocks : BufData(b) = disk[b]
    BY <1>0, <1>7 DEF CacheInv, Logged
  <2>. QED
    BY <1>2, <1>4, <2>1, Zenon DEF CacheInv, BufData
<1>13. PinnedWhileLogged'
  <2>1. \A b \in Blocks : ~Uninstalled(b) /\ ~Uninstalled(b)'
    BY <1>1, <1>2, <1>6 DEF Uninstalled
  <2>. QED
    BY <1>0, <1>2, <1>3, <2>1, Zenon DEF PinnedWhileLogged, Booting
<1>. QED
  BY <1>8, <1>9, <1>10, <1>11, <1>12, <1>13, Zenon DEF LogInv

\* Erasing the header keeps the invariant: every block is installed.
LEMMA ClearHeadInv ==
    ASSUME LogInv, NEW p \in Procs, clear_head(p)
    PROVE  LogInv'
<1>0. TypeOK /\ WhoInv /\ HeadInv /\ LoopInv /\ CacheInv /\ PinnedWhileLogged
  BY Zenon DEF LogInv
<1>1. pc \in [Procs -> Pcs] /\ lh \in Seq(Blocks)
  BY <1>0, Zenon DEF TypeOK
<1>2. /\ pc[p] = "clear"
      /\ pc' = [pc EXCEPT ![p] = "done"]
      /\ dhead' = lh
      /\ UNCHANGED <<disk, logdata, cache, pin, lh, outstanding, committing, tail, wrote, panicked>>
  BY Zenon DEF clear_head, Goto, PutHead, logVars
<1>3. ~Booting
  BY <1>2, UpAfterRecovery, Zenon DEF RecoveryPcs
<1>4. ~Booting' /\ Active' = Active
  BY <1>1, <1>2, <1>3, LogConstants, Zenon DEF Booting, RecoveryPcs, Active
<1>5. lh = << >> /\ \A q \in Procs \ {p} : pc[q] \notin CommitPcs
  BY <1>0, <1>2, Zenon DEF WhoInv, CommitsAlone, CommitPcs, HeadInv
<1>6. TypeOK'
  <2>1. pc' \in [Procs -> Pcs] /\ dhead' \in Seq(Blocks)
    BY <1>1, <1>2, Zenon DEF Pcs, CommitPcs
  <2>. QED
    BY <1>0, <1>2, <2>1, Zenon DEF TypeOK
<1>7. WhoInv'
  <2>1. CommitsAlone'
    BY <1>0, <1>1, <1>2, Zenon DEF WhoInv, CommitsAlone, CommitPcs
  <2>. QED
    BY <1>0, <1>1, <1>2, <1>3, <1>4, <2>1, Zenon DEF WhoInv, CommitPcs, RecoveryPcs
<1>8. HeadInv'
  BY <1>0, <1>1, <1>2, <1>4, <1>5 DEF HeadInv
<1>9. LoopInv'
  <2>1. \A q \in Procs : pc'[q] \notin {"write_log", "write_head", "install", "clear"} \cup RecoveryPcs
    BY <1>0, <1>1, <1>2, <1>3, <1>5, Zenon DEF WhoInv, CommitPcs, RecoveryPcs
  <2>. QED
    BY <2>1, Zenon DEF LoopInv, RecoveryPcs
<1>10. CacheInv'
  BY <1>0, <1>2, <1>3, <1>4, Zenon DEF CacheInv, BufData, Logged
<1>11. PinnedWhileLogged'
  BY <1>0, <1>2, <1>3, <1>5 DEF PinnedWhileLogged, Booting, Uninstalled
<1>. QED
  BY <1>6, <1>7, <1>8, <1>9, <1>10, <1>11, Zenon DEF LogInv

\* The end of a commit keeps the invariant.
LEMMA EndCommitInv ==
    ASSUME LogInv, NEW p \in Procs, end_commit(p)
    PROVE  LogInv'
<1>0. TypeOK /\ WhoInv /\ HeadInv /\ LoopInv /\ CacheInv /\ PinnedWhileLogged
  BY Zenon DEF LogInv
<1>1. pc \in [Procs -> Pcs]
  BY <1>0, Zenon DEF TypeOK
<1>2. /\ pc[p] = "done"
      /\ committing' = FALSE
      /\ UNCHANGED <<disk, logdata, dhead, cache, pin, lh, outstanding, tail, wrote, panicked>>
  BY Zenon DEF end_commit, diskVars
<1>3. /\ pc' \in [Procs -> Pcs]
      /\ pc'[p] = "idle"
      /\ \A q \in Procs \ {p} : pc'[q] = pc[q] \/ (pc[q] = "asleep" /\ pc'[q] = "begin")
  BY <1>1, Zenon DEF end_commit, Woken, Pcs
<1>4. \A q \in Procs \ {p} : pc[q] \notin CommitPcs
  BY <1>0, <1>2, Zenon DEF WhoInv, CommitsAlone, CommitPcs
<1>5. ~Booting
  BY <1>2, UpAfterRecovery, Zenon DEF RecoveryPcs
<1>6. ~Booting' /\ Active' = Active
  BY <1>2, <1>3, <1>5, LogConstants, Zenon DEF Booting, RecoveryPcs, Active
<1>7. \A q \in Procs : pc'[q] \notin CommitPcs \cup RecoveryPcs
  BY <1>0, <1>3, <1>4, <1>5, Zenon DEF WhoInv, CommitPcs, RecoveryPcs
<1>8. TypeOK'
  BY <1>0, <1>2, <1>3, Zenon DEF TypeOK
<1>9. WhoInv'
  BY <1>0, <1>2, <1>6, <1>7, Zenon DEF WhoInv, CommitsAlone
<1>10. HeadInv'
  BY <1>0, <1>2, <1>4, <1>5, <1>7 DEF HeadInv, CommitPcs, RecoveryPcs
<1>11. LoopInv'
  BY <1>7, Zenon DEF LoopInv, CommitPcs, RecoveryPcs
<1>12. CacheInv'
  BY <1>0, <1>2, <1>5, <1>6, Zenon DEF CacheInv, BufData, Logged
<1>13. PinnedWhileLogged'
  <2>1. \A q \in Procs : pc[q] # "install" /\ pc'[q] # "install"
    BY <1>2, <1>4, <1>7, Zenon DEF CommitPcs
  <2>. QED
    BY <1>0, <1>2, <1>5, <2>1, Zenon DEF PinnedWhileLogged, Uninstalled, Booting
<1>. QED
  BY <1>8, <1>9, <1>10, <1>11, <1>12, <1>13, Zenon DEF LogInv

\* While the first process recovers, every other process is off.
LEMMA RecoveringAlone ==
    ASSUME LogInv, NEW p \in Procs, pc[p] \in RecoveryPcs
    PROVE  /\ Booting
           /\ p = InitProc
           /\ \A q \in Procs \ {p} : pc[q] = "off"
           /\ Active = {}
<1>1. Booting /\ p = InitProc /\ \A q \in Procs \ {p} : pc[q] = "off"
  BY Zenon DEF LogInv, WhoInv, Booting, RecoveryPcs
<1>. QED
  BY <1>1, Zenon DEF Active, RecoveryPcs

\* read_head keeps the invariant: memory now holds the on-disk header.
LEMMA ReadHeadInv ==
    ASSUME LogInv, NEW p \in Procs, read_head(p)
    PROVE  LogInv'
<1>0. TypeOK /\ WhoInv /\ HeadInv /\ LoopInv /\ CacheInv /\ PinnedWhileLogged
  BY Zenon DEF LogInv
<1>1. pc \in [Procs -> Pcs] /\ tail \in [Procs -> Nat \ {0}] /\ dhead \in Seq(Blocks)
  BY <1>0, Zenon DEF TypeOK
<1>2. /\ pc[p] = "read_head"
      /\ pc' = [pc EXCEPT ![p] = "r_install"]
      /\ lh' = dhead
      /\ tail' = [tail EXCEPT ![p] = 1]
      /\ UNCHANGED <<disk, logdata, dhead, cache, pin, outstanding, committing, wrote, panicked>>
  BY Zenon DEF read_head, Goto, diskVars
<1>3. /\ Booting
      /\ p = InitProc
      /\ \A q \in Procs \ {p} : pc[q] = "off"
      /\ Active = {}
  BY <1>2, RecoveringAlone, Zenon DEF RecoveryPcs
<1>4. Booting' /\ \A q \in Procs \ {p} : pc'[q] = "off"
  BY <1>1, <1>2, <1>3, Zenon DEF Booting, RecoveryPcs
<1>5. Active' = Active
  BY <1>1, <1>2, Zenon DEF Active
<1>6. TypeOK'
  <2>1. pc' \in [Procs -> Pcs] /\ tail' \in [Procs -> Nat \ {0}] /\ lh' \in Seq(Blocks)
    BY <1>1, <1>2 DEF Pcs, RecoveryPcs
  <2>. QED
    BY <1>0, <1>2, <2>1, Zenon DEF TypeOK
<1>7. WhoInv'
  <2>1. CommitsAlone'
    BY <1>1, <1>2, <1>4 DEF CommitsAlone, CommitPcs
  <2>. QED
    BY <1>0, <1>1, <1>2, <1>3, <1>4, <1>5, <2>1, Zenon DEF WhoInv, CommitPcs
<1>8. HeadInv'
  BY <1>0, <1>1, <1>2, <1>4 DEF HeadInv
<1>9. LoopInv'
  <2>1. pc'[p] = "r_install" /\ tail'[p] = 1
    BY <1>1, <1>2, Zenon
  <2>2. \A j \in 1 .. Len(dhead') : ~(j < tail'[p])
    BY <1>1, <1>2, <2>1
  <2>. QED
    BY <1>4, <2>1, <2>2, Zenon DEF LoopInv
<1>10. CacheInv' /\ PinnedWhileLogged'
  BY <1>0, <1>2, <1>3, <1>4, Zenon DEF CacheInv, PinnedWhileLogged, BufData, Booting
<1>. QED
  BY <1>6, <1>7, <1>8, <1>9, <1>10, Zenon DEF LogInv

\* A turn of install_trans in the recovery keeps the invariant.
LEMMA RecoverInstallInv ==
    ASSUME LogInv, NEW p \in Procs, install_trans(p, TRUE), tail[p] <= Len(lh)
    PROVE  LogInv'
<1>0. TypeOK /\ WhoInv /\ HeadInv /\ LoopInv /\ CacheInv /\ PinnedWhileLogged
  BY Zenon DEF LogInv
<1>1. /\ pc \in [Procs -> Pcs]
      /\ tail \in [Procs -> Nat \ {0}]
      /\ lh \in Seq(Blocks)
      /\ logdata \in [LogSlots -> Data]
      /\ cache \in [Blocks -> Data \cup {NotCached}]
      /\ disk \in [Blocks -> Data]
  BY <1>0, Zenon DEF TypeOK
<1>b. PICK b \in Blocks : b = lh[tail[p]]
  BY <1>1
<1>2. /\ pc[p] = "r_install"
      /\ disk' = [disk EXCEPT ![b] = logdata[tail[p]]]
      /\ cache' = [cache EXCEPT ![b] = logdata[tail[p]]]
      /\ tail' = [tail EXCEPT ![p] = @ + 1]
      /\ UNCHANGED <<logdata, dhead, lh, pin, outstanding, committing, pc, wrote, panicked>>
  BY <1>b, Zenon DEF install_trans, NextInstall, Unpinned
<1>3. /\ Booting
      /\ \A q \in Procs \ {p} : pc[q] = "off"
      /\ Booting'
  BY <1>2, RecoveringAlone, Zenon DEF RecoveryPcs, Booting
<1>4. /\ tail[p] \in 1 .. Len(lh)
      /\ logdata[tail[p]] \in Data
      /\ lh = dhead
  BY <1>0, <1>1, <1>2, LogConstants DEF HeadInv, LogSlots
<1>5. TypeOK'
  <2>1. tail' \in [Procs -> Nat \ {0}]
    BY <1>1, <1>2
  <2>2. disk' \in [Blocks -> Data] /\ cache' \in [Blocks -> Data \cup {NotCached}]
    BY <1>1, <1>2, <1>4, Zenon
  <2>. QED
    BY <1>0, <1>2, <2>1, <2>2, Zenon DEF TypeOK
<1>6. WhoInv'
  BY <1>0, <1>2, Zenon DEF WhoInv, Booting, Active, CommitsAlone
<1>7. HeadInv'
  BY <1>0, <1>2 DEF HeadInv, Booting
<1>8. LoopInv'
  <2>1. \A j \in 1 .. Len(lh) : lh[j] \in Blocks
    BY <1>1
  <2>2. \A j \in 1 .. Len(lh) : j < tail[p] => disk[lh[j]] = logdata[j]
    BY <1>0, <1>2, <1>4, Zenon DEF LoopInv
  <2>3. \A j \in 1 .. Len(lh) : j < tail[p] => lh[j] # b
    BY <1>0, <1>1, <1>b, <1>4 DEF HeadInv
  <2>4. \A j \in 1 .. Len(lh) : j < tail[p] + 1 => disk'[lh[j]] = logdata[j]
    <3>1. TAKE j \in 1 .. Len(lh)
    <3>2. HAVE j < tail[p] + 1
    <3>3. CASE j = tail[p]
      BY <1>1, <1>b, <1>2, <1>4, <3>3, Zenon
    <3>4. CASE j < tail[p]
      <4>1. lh[j] \in Blocks /\ lh[j] # b /\ disk[lh[j]] = logdata[j]
        BY <2>1, <2>2, <2>3, <3>4, Zenon
      <4>. QED
        BY <1>1, <1>2, <4>1, Zenon
    <3>5. tail[p] \in Nat /\ j \in Nat
      BY <1>1
    <3>. QED
      BY <3>2, <3>3, <3>4, <3>5
  <2>5. (\A j \in 1 .. Len(dhead) : j < tail[p] => disk[dhead[j]] = logdata[j])'
    BY <1>1, <1>2, <1>4, <2>4, Zenon
  <2>. QED
    BY <1>2, <1>3, <2>5, Zenon DEF LoopInv
<1>9. CacheInv' /\ PinnedWhileLogged'
  <2>1. \A c \in Blocks : BufData(c)' = disk'[c]
    BY <1>0, <1>1, <1>2, <1>3, <1>4, LogConstants, Zenon DEF CacheInv, BufData
  <2>. QED
    BY <1>0, <1>2, <1>3, <2>1, Zenon DEF CacheInv, PinnedWhileLogged, Booting
<1>. QED
  BY <1>5, <1>6, <1>7, <1>8, <1>9, Zenon DEF LogInv

\* The end of install_trans in the recovery keeps the invariant.
LEMMA RecoverInstallEndInv ==
    ASSUME LogInv, NEW p \in Procs, install_trans(p, TRUE), ~(tail[p] <= Len(lh))
    PROVE  LogInv'
<1>0. TypeOK /\ WhoInv /\ HeadInv /\ LoopInv /\ CacheInv /\ PinnedWhileLogged
  BY Zenon DEF LogInv
<1>1. pc \in [Procs -> Pcs] /\ tail \in [Procs -> Nat \ {0}] /\ lh \in Seq(Blocks)
  BY <1>0, Zenon DEF TypeOK
<1>2. /\ pc[p] = "r_install"
      /\ pc' = [pc EXCEPT ![p] = "r_clear"]
      /\ lh' = << >>
      /\ UNCHANGED <<disk, logdata, dhead, cache, pin, outstanding, committing, tail, wrote, panicked>>
  BY Zenon DEF install_trans, Goto
<1>3. /\ Booting
      /\ p = InitProc
      /\ \A q \in Procs \ {p} : pc[q] = "off"
      /\ Active = {}
  BY <1>2, RecoveringAlone, Zenon DEF RecoveryPcs
<1>4. Booting' /\ \A q \in Procs \ {p} : pc'[q] = "off"
  BY <1>1, <1>2, <1>3, Zenon DEF Booting, RecoveryPcs
<1>5. Active' = Active
  BY <1>1, <1>2, Zenon DEF Active
<1>6. lh = dhead /\ \A j \in 1 .. Len(lh) : j < tail[p]
  BY <1>0, <1>1, <1>2 DEF HeadInv
<1>7. TypeOK'
  <2>1. pc' \in [Procs -> Pcs] /\ lh' \in Seq(Blocks)
    BY <1>1, <1>2 DEF Pcs, RecoveryPcs
  <2>. QED
    BY <1>0, <1>2, <2>1, Zenon DEF TypeOK
<1>8. WhoInv'
  <2>1. CommitsAlone'
    BY <1>1, <1>2, <1>4 DEF CommitsAlone, CommitPcs
  <2>. QED
    BY <1>0, <1>1, <1>2, <1>3, <1>4, <1>5, <2>1, Zenon DEF WhoInv, CommitPcs
<1>9. HeadInv'
  BY <1>0, <1>1, <1>2, <1>4, LogConstants DEF HeadInv
<1>10. LoopInv'
  <2>1. (\A j \in 1 .. Len(dhead) : disk[dhead[j]] = logdata[j])'
    BY <1>0, <1>2, <1>6, Zenon DEF LoopInv
  <2>. QED
    BY <1>1, <1>2, <1>4, <2>1, Zenon DEF LoopInv
<1>11. CacheInv' /\ PinnedWhileLogged'
  BY <1>0, <1>2, <1>3, <1>4, Zenon DEF CacheInv, PinnedWhileLogged, BufData, Booting
<1>. QED
  BY <1>7, <1>8, <1>9, <1>10, <1>11, Zenon DEF LogInv

\* The end of the recovery keeps the invariant and lets processes run.
LEMMA RecoverClearInv ==
    ASSUME LogInv, NEW p \in Procs, recover_clear(p)
    PROVE  LogInv'
<1>0. TypeOK /\ WhoInv /\ HeadInv /\ LoopInv /\ CacheInv /\ PinnedWhileLogged
  BY Zenon DEF LogInv
<1>1. pc \in [Procs -> Pcs] /\ lh \in Seq(Blocks)
  BY <1>0, Zenon DEF TypeOK
<1>2. /\ pc[p] = "r_clear"
      /\ pc' = [q \in Procs |-> "idle"]
      /\ dhead' = lh
      /\ UNCHANGED <<disk, logdata, cache, pin, lh, outstanding, committing, tail, wrote, panicked>>
  BY Zenon DEF recover_clear, PutHead, logVars
<1>3. Booting /\ Active = {} /\ lh = << >>
  BY <1>0, <1>2, RecoveringAlone, Zenon DEF RecoveryPcs, HeadInv
<1>4. ~Booting' /\ Active' = {}
  BY <1>2, LogConstants, Zenon DEF Booting, RecoveryPcs, Active
<1>5. TypeOK'
  <2>1. pc' \in [Procs -> Pcs] /\ dhead' \in Seq(Blocks)
    BY <1>1, <1>2, Zenon DEF Pcs
  <2>. QED
    BY <1>0, <1>2, <2>1, Zenon DEF TypeOK
<1>6. WhoInv'
  BY <1>0, <1>2, <1>3, <1>4, Zenon DEF WhoInv, CommitsAlone, CommitPcs, RecoveryPcs
<1>7. HeadInv'
  BY <1>0, <1>2, <1>3 DEF HeadInv
<1>8. LoopInv'
  BY <1>2, Zenon DEF LoopInv
<1>9. CacheInv' /\ PinnedWhileLogged'
  <2>1. \A b \in Blocks : BufData(b)' = disk'[b] /\ pin'[b] = 0
    BY <1>0, <1>2, <1>3, Zenon DEF CacheInv, BufData
  <2>2. \A i : i \notin 1 .. Len(lh')
    BY <1>2, <1>3
  <2>3. \A b : ~Uninstalled(b)'
    BY <2>2, Zenon DEF Uninstalled
  <2>. QED
    BY <1>4, <2>1, <2>3, Zenon DEF CacheInv, PinnedWhileLogged
<1>. QED
  BY <1>5, <1>6, <1>7, <1>8, <1>9, Zenon DEF LogInv

-----------------------------------------------------------------------------
(***************************************************************************)
(* What follows from the invariant: commits happen alone, logged buffers   *)
(* stay pinned, the log implements TxDisk, home blocks change only under a *)
(* header that names them, and the blocks that begin_op() reserves are     *)
(* enough.                                                                 *)
(***************************************************************************)

\* The invariant is inductive.
LEMMA NextInv == LogInv /\ [Next]_vars => LogInv'
<1>. SUFFICES ASSUME LogInv, [Next]_vars PROVE LogInv'
  BY Zenon
<1>1. CASE UNCHANGED vars
  <2>0. TypeOK /\ WhoInv /\ HeadInv /\ LoopInv /\ CacheInv /\ PinnedWhileLogged
    BY Zenon DEF LogInv
  <2>1. UNCHANGED <<disk, logdata, dhead, cache, pin, lh, outstanding, committing,
                    pc, tail, wrote, panicked>>
    BY <1>1, Zenon DEF vars
  <2>2. TypeOK'
    BY <2>0, <2>1, Zenon DEF TypeOK
  <2>. QED
    BY <2>1, <2>2, LogInvFrame, Zenon DEF LogInv
<1>2. CASE \E p \in Procs : begin_op(p)
  BY <1>2, BeginOpInv, Zenon
<1>3. CASE \E p \in Procs, b \in Blocks, v \in Data : log_write(p, b, v)
  BY <1>3, LogWriteInv, Zenon
<1>4. CASE \E p \in Procs : end_op(p)
  BY <1>4, EndOpInv, Zenon
<1>5. CASE \E p \in Procs : commit(p)
  BY <1>5, CommitInv, Zenon
<1>6. CASE \E p \in Procs : write_log(p)
  BY <1>6, WriteLogInv, Zenon
<1>7. CASE \E p \in Procs : write_head(p)
  BY <1>7, WriteHeadInv, Zenon
<1>8. CASE \E p \in Procs : install_trans(p, FALSE)
  BY <1>8, InstallInv, InstallEndInv, Zenon
<1>9. CASE \E p \in Procs : install_trans(p, TRUE)
  BY <1>9, RecoverInstallInv, RecoverInstallEndInv, Zenon
<1>10. CASE \E p \in Procs : clear_head(p)
  BY <1>10, ClearHeadInv, Zenon
<1>11. CASE \E p \in Procs : end_commit(p)
  BY <1>11, EndCommitInv, Zenon
<1>12. CASE \E p \in Procs : read_head(p)
  BY <1>12, ReadHeadInv, Zenon
<1>13. CASE \E p \in Procs : recover_clear(p)
  BY <1>13, RecoverClearInv, Zenon
<1>14. CASE \E b \in Blocks : Evict(b)
  BY <1>14, EvictInv, Zenon
<1>15. CASE Crash
  BY <1>15, CrashInv, Zenon
<1>. QED
  BY <1>1, <1>2, <1>3, <1>4, <1>5, <1>6, <1>7, <1>8, <1>9, <1>10, <1>11, <1>12,
     <1>13, <1>14, <1>15, Zenon DEF Next

\* The inductive invariant holds in every reachable state of the log.
THEOREM LogInvariant == Spec => []LogInv
BY InitInv, NextInv, PTL DEF Spec

\* Type correctness of the log's variables.
THEOREM TypeCorrect == Spec => []TypeOK
<1>1. LogInv => TypeOK
  BY Zenon DEF LogInv
<1>. QED
  BY <1>1, LogInvariant, PTL

\* At most one process is inside commit(), and then no call is in progress.
THEOREM CommitExclusion == Spec => []CommitsAlone
<1>1. LogInv => CommitsAlone
  BY Zenon DEF LogInv, WhoInv
<1>. QED
  BY <1>1, LogInvariant, PTL

\* The log pins exactly the buffers of blocks logged and not yet installed.
THEOREM PinsExact == Spec => []PinnedWhileLogged
<1>1. LogInv => PinnedWhileLogged
  BY Zenon DEF LogInv
<1>. QED
  BY <1>1, LogInvariant, PTL

-----------------------------------------------------------------------------
\* Refinement: the log implements TxDisk.

\* What LogicalDisk is, without the CHOOSE.
LEMMA LogicalDiskValue ==
    ASSUME LogInv
    PROVE  /\ LogicalDisk = [b \in Blocks |-> LogicalDisk[b]]
           /\ \A i \in 1 .. Len(dhead) : LogicalDisk[dhead[i]] = logdata[i]
           /\ \A b \in Blocks : (\A i \in 1 .. Len(dhead) : dhead[i] # b) => LogicalDisk[b] = disk[b]
<1>1. dhead \in Seq(Blocks) /\ \A i, j \in 1 .. Len(dhead) : dhead[i] = dhead[j] => i = j
  BY Zenon DEF LogInv, TypeOK, HeadInv
<1>2. LogicalDisk = [b \in Blocks |-> LogicalDisk[b]]
  BY Zenon DEF LogicalDisk
<1>3. ASSUME NEW i \in 1 .. Len(dhead)
      PROVE  LogicalDisk[dhead[i]] = logdata[i]
  <2>1. dhead[i] \in Blocks
    BY <1>1
  <2>2. (CHOOSE k \in 1 .. Len(dhead) : dhead[k] = dhead[i]) = i
    BY <1>1, Zenon
  <2>. QED
    BY <2>1, <2>2, Zenon DEF LogicalDisk
<1>4. \A b \in Blocks : (\A i \in 1 .. Len(dhead) : dhead[i] # b) => LogicalDisk[b] = disk[b]
  BY Zenon DEF LogicalDisk
<1>. QED
  BY <1>2, <1>3, <1>4, Zenon

\* Two logical disks are equal when they agree on every block.
LEMMA LogicalDiskEqual ==
    ASSUME \A b \in Blocks : LogicalDisk'[b] = LogicalDisk[b]
    PROVE  LogicalDisk' = LogicalDisk
<1>1. LogicalDisk = [b \in Blocks |-> LogicalDisk[b]] /\ LogicalDisk' = [b \in Blocks |-> LogicalDisk'[b]]
  BY Zenon DEF LogicalDisk
<1>. QED
  BY <1>1, Zenon

\* Between commits the home blocks alone are the durable state.
LEMMA NoHeader ==
    ASSUME dhead = << >>
    PROVE  \A b \in Blocks : LogicalDisk[b] = disk[b]
<1>1. \A i : i \notin 1 .. Len(dhead)
  OBVIOUS
<1>. QED
  BY <1>1, Zenon DEF LogicalDisk

\* The initial states of the log are initial states of the transactional disk.
LEMMA InitRefines == Init => Tx!Init
<1>. SUFFICES ASSUME Init PROVE Tx!Init
  BY Zenon
<1>1. LogicalDisk = [b \in Blocks |-> Zero]
  BY DEF Init, LogicalDisk
<1>2. LogicalMemory = LogicalDisk
  BY LogConstants, Zenon DEF Init, BootPc, LogicalMemory, RecoveryPcs
<1>3. {p \in Procs : pc[p] = "op"} = {}
  BY Zenon DEF Init, BootPc
<1>. QED
  BY <1>1, <1>2, <1>3, Zenon DEF Tx!Init

\* Steps that leave the disk, the cache and the set of running calls alone.
LEMMA QuietStep ==
    ASSUME UNCHANGED <<disk, logdata, dhead, cache>>, Booting' <=> Booting, Active' = Active
    PROVE  UNCHANGED Tx!vars
<1>1. LogicalDisk' = LogicalDisk
  BY Zenon DEF LogicalDisk
<1>2. LogicalMemory' = LogicalMemory
  BY <1>1, Zenon DEF LogicalMemory, Booting, BufData
<1>. QED
  BY <1>1, <1>2, Zenon DEF Tx!vars, Active

\* begin_op starts a call of the transactional disk, or leaves it alone.
LEMMA BeginOpRefines ==
    ASSUME LogInv, NEW p \in Procs, begin_op(p)
    PROVE  Tx!Begin(p) \/ UNCHANGED Tx!vars
<1>1. pc \in [Procs -> Pcs]
  BY Zenon DEF LogInv, TypeOK
<1>2. ~Booting
  BY UpAfterRecovery, Zenon DEF begin_op, RecoveryPcs
<1>3. /\ UNCHANGED <<disk, logdata, dhead, cache>>
      /\ pc[p] \in {"idle", "begin"}
      /\ pc' = [pc EXCEPT ![p] = "op"] \/ pc' = [pc EXCEPT ![p] = "asleep"]
  BY Zenon DEF begin_op, diskVars, Goto
<1>4. ~Booting'
  BY <1>1, <1>2, <1>3, LogConstants, Zenon DEF Booting, RecoveryPcs
<1>5. LogicalDisk' = LogicalDisk
  BY <1>3, Zenon DEF LogicalDisk
<1>6. LogicalMemory' = LogicalMemory
  BY <1>2, <1>3, <1>4, Zenon DEF LogicalMemory, Booting, BufData
<1>7. CASE pc' = [pc EXCEPT ![p] = "op"]
  <2>1. /\ p \notin {q \in Procs : pc[q] = "op"}
        /\ {q \in Procs : pc[q] = "op"}' = {q \in Procs : pc[q] = "op"} \cup {p}
    BY <1>1, <1>3, <1>7, Zenon
  <2>. QED
    BY <1>5, <1>6, <2>1, Zenon DEF Tx!Begin
<1>8. CASE pc' = [pc EXCEPT ![p] = "asleep"]
  <2>1. {q \in Procs : pc[q] = "op"}' = {q \in Procs : pc[q] = "op"}
    BY <1>1, <1>3, <1>8, Zenon
  <2>. QED
    BY <1>5, <1>6, <2>1, Zenon DEF Tx!vars
<1>. QED
  BY <1>3, <1>7, <1>8, Zenon

\* log_write is a write of the transactional disk, or a panic.
LEMMA LogWriteRefines ==
    ASSUME LogInv, NEW p \in Procs, NEW b \in Blocks, NEW v \in Data, log_write(p, b, v)
    PROVE  Tx!Write(p, b, v) \/ UNCHANGED Tx!vars
<1>1. CASE Len(lh) >= LOGSIZE \/ Len(lh) >= nlog - 1 \/ outstanding < 1
  <2>1. UNCHANGED <<disk, logdata, dhead, cache, pc>>
    BY <1>1, Zenon DEF log_write, panic, diskVars, procVars
  <2>. QED
    BY <2>1, QuietStep, Zenon DEF Booting, Active
<1>2. CASE ~(Len(lh) >= LOGSIZE \/ Len(lh) >= nlog - 1 \/ outstanding < 1)
  <2>1. /\ cache' = [cache EXCEPT ![b] = v]
        /\ UNCHANGED <<disk, logdata, dhead, pc>>
        /\ pc[p] = "op"
    BY <1>2, Zenon DEF log_write, diskVars
  <2>2. cache \in [Blocks -> Data \cup {NotCached}]
    BY Zenon DEF LogInv, TypeOK
  <2>3. ~Booting /\ ~Booting'
    BY <2>1, UpAfterRecovery, Zenon DEF RecoveryPcs, Booting
  <2>4. LogicalDisk' = LogicalDisk
    BY <2>1, Zenon DEF LogicalDisk
  <2>5. LogicalMemory = [c \in Blocks |-> BufData(c)] /\ LogicalMemory' = [c \in Blocks |-> BufData(c)']
    BY <2>3, Zenon DEF LogicalMemory, Booting
  <2>6. \A c \in Blocks : BufData(c)' = IF c = b THEN v ELSE BufData(c)
    BY <2>1, <2>2, LogConstants, Zenon DEF BufData
  <2>7. LogicalMemory' = [LogicalMemory EXCEPT ![b] = v]
    BY <2>5, <2>6, Zenon
  <2>. QED
    BY <2>1, <2>4, <2>7, Zenon DEF Tx!Write
<1>. QED
  BY <1>1, <1>2, Zenon

\* end_op ends a call of the transactional disk, or panics.
LEMMA EndOpRefines ==
    ASSUME LogInv, NEW p \in Procs, end_op(p)
    PROVE  Tx!End(p) \/ UNCHANGED Tx!vars
<1>1. CASE committing
  <2>1. UNCHANGED <<disk, logdata, dhead, cache, pc>>
    BY <1>1, Zenon DEF end_op, panic, diskVars, procVars
  <2>. QED
    BY <2>1, QuietStep, Zenon DEF Booting, Active
<1>2. CASE ~committing
  <2>1. pc \in [Procs -> Pcs]
    BY Zenon DEF LogInv, TypeOK
  <2>2. /\ UNCHANGED <<disk, logdata, dhead, cache>>
        /\ pc[p] = "op"
    BY <1>2, Zenon DEF end_op, diskVars
  <2>3. /\ pc'[p] \in {"commit", "idle"}
        /\ \A q \in Procs \ {p} :
             pc'[q] = pc[q] \/ (pc[q] = "asleep" /\ pc'[q] = "begin")
    BY <1>2, <2>1, Zenon DEF end_op, Woken
  <2>4. ~Booting
    BY <2>2, UpAfterRecovery, Zenon DEF RecoveryPcs
  <2>5. ~Booting'
    BY <2>3, <2>4, LogConstants, Zenon DEF Booting, RecoveryPcs
  <2>6. LogicalDisk' = LogicalDisk
    BY <2>2, Zenon DEF LogicalDisk
  <2>7. LogicalMemory' = LogicalMemory
    BY <2>2, <2>4, <2>5, Zenon DEF LogicalMemory, Booting, BufData
  <2>8. /\ p \in {q \in Procs : pc[q] = "op"}
        /\ {q \in Procs : pc[q] = "op"}' = {q \in Procs : pc[q] = "op"} \ {p}
    BY <2>2, <2>3, Zenon
  <2>. QED
    BY <2>6, <2>7, <2>8, Zenon DEF Tx!End
<1>. QED
  BY <1>1, <1>2, Zenon

\* Filling the log is invisible: no header lists it yet.
LEMMA WriteLogRefines ==
    ASSUME LogInv, NEW p \in Procs, write_log(p)
    PROVE  UNCHANGED Tx!vars
<1>1. /\ pc \in [Procs -> Pcs]
      /\ tail \in [Procs -> Nat \ {0}]
      /\ lh \in Seq(Blocks)
      /\ cache \in [Blocks -> Data \cup {NotCached}]
      /\ disk \in [Blocks -> Data]
  BY Zenon DEF LogInv, TypeOK
<1>2. /\ pc[p] = "write_log"
      /\ UNCHANGED <<disk, dhead, lh>>
      /\ pc' = pc \/ pc' = [pc EXCEPT ![p] = "write_head"]
  BY Zenon DEF write_log, logVars, Goto
<1>3. ~Booting
  BY <1>2, UpAfterRecovery, Zenon DEF RecoveryPcs
<1>4. ~Booting' /\ {q \in Procs : pc[q] = "op"}' = {q \in Procs : pc[q] = "op"}
  BY <1>1, <1>2, <1>3, LogConstants, Zenon DEF Booting, RecoveryPcs
<1>5. dhead = << >>
  <2>1. WhoInv /\ HeadInv
    BY Zenon DEF LogInv
  <2>2. \A q \in Procs : pc[q] \notin {"install", "clear"}
    BY <1>2, <2>1, Zenon DEF WhoInv, CommitsAlone, CommitPcs
  <2>. QED
    BY <1>3, <2>1, <2>2, Zenon DEF HeadInv
<1>6. \A b \in Blocks : BufData(b)' = BufData(b)
  <2>1. CASE tail[p] <= Len(lh)
    <3>1. lh[tail[p]] \in Blocks
      BY <1>1, <2>1
    <3>2. cache' = [cache EXCEPT ![lh[tail[p]]] = BufData(lh[tail[p]])]
      BY <2>1, Zenon DEF write_log
    <3>3. \A b \in Blocks : BufData(b) \in Data
      BY <1>1, Zenon DEF BufData
    <3>. QED
      BY <1>1, <1>2, <3>1, <3>2, <3>3, LogConstants, Zenon DEF BufData
  <2>2. CASE ~(tail[p] <= Len(lh))
    BY <1>2, <2>2, Zenon DEF write_log, BufData
  <2>. QED
    BY <2>1, <2>2, Zenon
<1>7. LogicalDisk' = LogicalDisk
  <2>1. \A i : i \notin 1 .. Len(dhead)
    BY <1>5
  <2>2. \A i : i \notin 1 .. Len(dhead')
    BY <1>2, <2>1, Zenon
  <2>. QED
    BY <1>2, <2>1, <2>2, Zenon DEF LogicalDisk
<1>8. LogicalMemory' = LogicalMemory
  BY <1>3, <1>4, <1>6, Zenon DEF LogicalMemory, Booting
<1>. QED
  BY <1>4, <1>7, <1>8, Zenon DEF Tx!vars

\* The write of the header is the commit point.
LEMMA WriteHeadRefines ==
    ASSUME LogInv, LogInv', NEW p \in Procs, write_head(p)
    PROVE  Tx!Commit
<1>0. WhoInv /\ HeadInv /\ LoopInv /\ CacheInv
  BY Zenon DEF LogInv
<1>1. pc \in [Procs -> Pcs] /\ lh \in Seq(Blocks)
  BY Zenon DEF LogInv, TypeOK
<1>2. /\ pc[p] = "write_head"
      /\ pc' = [pc EXCEPT ![p] = "install"]
      /\ dhead' = lh
      /\ UNCHANGED <<disk, logdata, cache, lh>>
  BY Zenon DEF write_head, PutHead, Goto, logVars
<1>3. ~Booting
  BY <1>2, UpAfterRecovery, Zenon DEF RecoveryPcs
<1>4. ~Booting' /\ {q \in Procs : pc[q] = "op"}' = {q \in Procs : pc[q] = "op"}
  BY <1>1, <1>2, <1>3, LogConstants, Zenon DEF Booting, RecoveryPcs
<1>5. {q \in Procs : pc[q] = "op"} = {}
  BY <1>0, <1>2, Zenon DEF WhoInv, CommitPcs, Active
<1>6. LogicalMemory = [b \in Blocks |-> BufData(b)] /\ LogicalMemory' = LogicalMemory
  BY <1>2, <1>3, <1>4, Zenon DEF LogicalMemory, Booting, BufData
<1>7. /\ LogicalDisk' = [b \in Blocks |-> LogicalDisk'[b]]
      /\ \A i \in 1 .. Len(lh) : LogicalDisk'[lh[i]] = logdata[i]
      /\ \A b \in Blocks : (\A i \in 1 .. Len(lh) : lh[i] # b) => LogicalDisk'[b] = disk[b]
  <2>1. (/\ LogicalDisk = [b \in Blocks |-> LogicalDisk[b]]
         /\ \A i \in 1 .. Len(dhead) : LogicalDisk[dhead[i]] = logdata[i]
         /\ \A b \in Blocks : (\A i \in 1 .. Len(dhead) : dhead[i] # b) => LogicalDisk[b] = disk[b])'
    BY LogicalDiskValue, PTL
  <2>. QED
    BY <1>2, <2>1, Zenon
<1>8. \A b \in Blocks : LogicalDisk'[b] = BufData(b)
  <2>1. TAKE b \in Blocks
  <2>2. CASE Logged(b)
    <3>1. PICK i \in 1 .. Len(lh) : lh[i] = b
      BY <2>2, Zenon DEF Logged
    <3>. QED
      BY <1>0, <1>2, <1>7, <3>1, Zenon DEF LoopInv
  <2>3. CASE ~Logged(b)
    BY <1>0, <1>7, <2>3, Zenon DEF CacheInv, Logged
  <2>. QED
    BY <2>2, <2>3, Zenon
<1>9. LogicalDisk' = LogicalMemory
  BY <1>6, <1>7, <1>8, Zenon
<1>. QED
  BY <1>4, <1>5, <1>6, <1>9, Zenon DEF Tx!Commit

\* Installing a block that the on-disk header lists changes no logical disk.
LEMMA InstallKeepsDisk ==
    ASSUME LogInv, NEW i \in 1 .. Len(dhead), UNCHANGED <<logdata, dhead>>,
           disk' = [disk EXCEPT ![dhead[i]] = logdata[i]]
    PROVE  LogicalDisk' = LogicalDisk
<1>1. disk \in [Blocks -> Data]
  BY Zenon DEF LogInv, TypeOK
<1>2. ASSUME NEW b \in Blocks
      PROVE  LogicalDisk'[b] = LogicalDisk[b]
  <2>1. CASE \E k \in 1 .. Len(dhead) : dhead[k] = b
    BY <2>1, Zenon DEF LogicalDisk
  <2>2. CASE ~\E k \in 1 .. Len(dhead) : dhead[k] = b
    <3>1. dhead[i] # b
      BY <2>2, Zenon
    <3>2. disk'[b] = disk[b]
      BY <1>1, <3>1, Zenon
    <3>. QED
      BY <2>2, <3>2, Zenon DEF LogicalDisk
  <2>. QED
    BY <2>1, <2>2, Zenon
<1>. QED
  BY <1>2, LogicalDiskEqual, Zenon

\* install_trans, in commit() and in the recovery, is invisible to the caller.
LEMMA InstallRefines ==
    ASSUME LogInv, LogInv', NEW p \in Procs, NEW recovering \in BOOLEAN,
           install_trans(p, recovering)
    PROVE  UNCHANGED Tx!vars
<1>0. HeadInv /\ LoopInv
  BY Zenon DEF LogInv
<1>1. /\ pc \in [Procs -> Pcs]
      /\ tail \in [Procs -> Nat \ {0}]
      /\ lh \in Seq(Blocks)
      /\ cache \in [Blocks -> Data \cup {NotCached}]
      /\ disk \in [Blocks -> Data]
      /\ logdata \in [LogSlots -> Data]
  BY Zenon DEF LogInv, TypeOK
<1>2. /\ UNCHANGED <<logdata, dhead>>
      /\ pc[p] \in {"install", "r_install"}
      /\ pc[p] = "r_install" <=> recovering
  BY Zenon DEF install_trans
<1>3. lh = dhead
  BY <1>0, <1>2, Zenon DEF HeadInv
<1>4. CASE tail[p] <= Len(lh)
  <2>1. PICK i \in 1 .. Len(dhead) : i = tail[p]
    BY <1>1, <1>3, <1>4
  <2>2. /\ disk' = [disk EXCEPT ![dhead[i]] = logdata[i]]
        /\ cache' = [cache EXCEPT ![dhead[i]] = logdata[i]]
        /\ pc' = pc
    BY <1>3, <1>4, <2>1, Zenon DEF install_trans
  <2>3. LogicalDisk' = LogicalDisk
    BY <1>2, <2>2, InstallKeepsDisk, Zenon
  <2>4. CASE recovering
    <3>1. Booting /\ Booting'
      BY <1>2, <2>2, <2>4, RecoveringAlone, Zenon DEF RecoveryPcs, Booting
    <3>. QED
      BY <2>2, <2>3, <3>1, Zenon DEF LogicalMemory, Booting, Tx!vars
  <2>5. CASE ~recovering
    <3>1. ~Booting /\ ~Booting'
      BY <1>2, <2>2, <2>5, UpAfterRecovery, Zenon DEF RecoveryPcs, Booting
    <3>2. logdata[i] = BufData(dhead[i]) /\ dhead[i] \in Blocks /\ logdata[i] \in Data
      <4>1. Len(dhead) <= nlog - 1 /\ i \in LogSlots
        BY <1>0, <1>1, <1>3, LogConstants DEF HeadInv, LogSlots
      <4>2. logdata[i] = BufData(lh[i])
        BY <1>0, <1>2, <1>3, <2>5, Zenon DEF LoopInv
      <4>. QED
        BY <1>1, <1>3, <4>1, <4>2
    <3>3. \A b \in Blocks : BufData(b)' = BufData(b)
      BY <1>1, <2>2, <3>2, LogConstants, Zenon DEF BufData
    <3>4. LogicalMemory' = LogicalMemory
      BY <3>1, <3>3, Zenon DEF LogicalMemory, Booting
    <3>. QED
      BY <2>2, <2>3, <3>4, Zenon DEF Tx!vars
  <2>. QED
    BY <2>4, <2>5, Zenon
<1>5. CASE ~(tail[p] <= Len(lh))
  <2>1. /\ UNCHANGED <<disk, cache>>
        /\ pc' = [pc EXCEPT ![p] = IF recovering THEN "r_clear" ELSE "clear"]
    BY <1>5, Zenon DEF install_trans, Goto
  <2>2. Booting' <=> Booting
    BY <1>1, <1>2, <2>1 DEF Booting, RecoveryPcs
  <2>3. Active' = Active
    BY <1>1, <1>2, <2>1, Zenon DEF Active
  <2>. QED
    BY <1>2, <2>1, <2>2, <2>3, QuietStep, Zenon
<1>. QED
  BY <1>4, <1>5, Zenon

\* Erasing the header of an installed transaction is invisible to the caller.
LEMMA ClearRefines ==
    ASSUME LogInv, NEW p \in Procs, clear_head(p) \/ recover_clear(p)
    PROVE  UNCHANGED Tx!vars
<1>0. HeadInv /\ LoopInv /\ CacheInv
  BY Zenon DEF LogInv
<1>1. pc \in [Procs -> Pcs] /\ disk \in [Blocks -> Data]
  BY Zenon DEF LogInv, TypeOK
<1>2. /\ pc[p] \in {"clear", "r_clear"}
      /\ UNCHANGED <<disk, logdata, cache>>
      /\ dhead' = lh
  BY Zenon DEF clear_head, recover_clear, PutHead
<1>3. lh = << >>
  BY <1>0, <1>2, Zenon DEF HeadInv
<1>4. \A b \in Blocks : LogicalDisk[b] = disk[b]
  <2>1. TAKE b \in Blocks
  <2>2. CASE \E i \in 1 .. Len(dhead) : dhead[i] = b
    BY <1>0, <1>2, <2>2, LogicalDiskValue DEF LoopInv
  <2>3. CASE ~\E i \in 1 .. Len(dhead) : dhead[i] = b
    BY <2>3, LogicalDiskValue, Zenon
  <2>. QED
    BY <2>2, <2>3, Zenon
<1>5. \A b \in Blocks : LogicalDisk'[b] = disk[b]
  <2>1. \A i : i \notin 1 .. Len(dhead')
    BY <1>2, <1>3
  <2>2. LogicalDisk' = [b \in Blocks |-> disk'[b]]
    BY <2>1, Zenon DEF LogicalDisk
  <2>. QED
    BY <1>2, <2>2, Zenon
<1>6. LogicalDisk' = LogicalDisk
  BY <1>4, <1>5, LogicalDiskEqual, Zenon
<1>7. CASE clear_head(p)
  <2>1. pc[p] = "clear" /\ pc' = [pc EXCEPT ![p] = "done"]
    BY <1>7, Zenon DEF clear_head, Goto
  <2>2. ~Booting
    BY <2>1, UpAfterRecovery, Zenon DEF RecoveryPcs
  <2>3. ~Booting' /\ {q \in Procs : pc[q] = "op"}' = {q \in Procs : pc[q] = "op"}
    BY <1>1, <2>1, <2>2, LogConstants, Zenon DEF Booting, RecoveryPcs
  <2>4. LogicalMemory' = LogicalMemory
    BY <1>2, <2>2, <2>3, Zenon DEF LogicalMemory, Booting, BufData
  <2>. QED
    BY <1>6, <2>3, <2>4, Zenon DEF Tx!vars
<1>8. CASE recover_clear(p)
  <2>1. pc[p] = "r_clear" /\ pc' = [q \in Procs |-> "idle"]
    BY <1>8, Zenon DEF recover_clear
  <2>2. Booting /\ \A q \in Procs : pc[q] # "op"
    BY <2>1, RecoveringAlone, Zenon DEF RecoveryPcs
  <2>3. ~Booting' /\ {q \in Procs : pc[q] = "op"}' = {q \in Procs : pc[q] = "op"}
    BY <2>1, <2>2, LogConstants, Zenon DEF Booting, RecoveryPcs
  <2>4. \A b \in Blocks : BufData(b)' = disk[b]
    BY <1>0, <1>2, <2>2, Zenon DEF CacheInv, BufData
  <2>5. LogicalMemory = LogicalDisk /\ LogicalMemory' = [b \in Blocks |-> BufData(b)']
    BY <2>2, <2>3, Zenon DEF LogicalMemory, Booting
  <2>6. LogicalDisk = [b \in Blocks |-> LogicalDisk[b]]
    BY LogicalDiskValue, Zenon
  <2>7. LogicalMemory' = LogicalMemory
    BY <1>4, <2>4, <2>5, <2>6, Zenon
  <2>. QED
    BY <1>6, <2>3, <2>7, Zenon DEF Tx!vars
<1>. QED
  BY <1>7, <1>8, Zenon

\* Recycling a buffer loses nothing: it is clean.
LEMMA EvictRefines ==
    ASSUME LogInv, NEW b \in Blocks, Evict(b)
    PROVE  UNCHANGED Tx!vars
<1>1. cache \in [Blocks -> Data \cup {NotCached}] /\ disk \in [Blocks -> Data]
  BY Zenon DEF LogInv, TypeOK
<1>2. /\ cache' = [cache EXCEPT ![b] = NotCached]
      /\ UNCHANGED <<disk, logdata, dhead, pc>>
      /\ pin[b] = 0
  BY Zenon DEF Evict, diskVars, procVars
<1>3. BufData(b) = disk[b]
  BY <1>2, UnpinnedIsClean, Zenon
<1>4. \A c \in Blocks : BufData(c)' = BufData(c)
  BY <1>1, <1>2, <1>3, Zenon DEF BufData
<1>5. LogicalDisk' = LogicalDisk
  BY <1>2, Zenon DEF LogicalDisk
<1>6. LogicalMemory' = LogicalMemory
  BY <1>2, <1>4, <1>5, Zenon DEF LogicalMemory
<1>. QED
  BY <1>2, <1>5, <1>6, Zenon DEF Tx!vars

\* A crash loses the memory and keeps the logical disk.
LEMMA CrashRefines ==
    ASSUME Crash
    PROVE  Tx!Crash
<1>1. /\ UNCHANGED <<disk, logdata, dhead>>
      /\ pc' = BootPc
  BY Zenon DEF Crash, diskVars
<1>2. pc'[InitProc] \in RecoveryPcs /\ {q \in Procs : pc[q] = "op"}' = {}
  BY <1>1, LogConstants, Zenon DEF BootPc, RecoveryPcs
<1>3. LogicalDisk' = LogicalDisk
  BY <1>1, Zenon DEF LogicalDisk
<1>4. LogicalMemory' = LogicalDisk
  BY <1>2, <1>3, Zenon DEF LogicalMemory
<1>. QED
  BY <1>2, <1>3, <1>4, Zenon DEF Tx!Crash

\* The steps that only move a process between the parts of log.c.
LEMMA QuietRefines ==
    ASSUME LogInv, NEW p \in Procs, commit(p) \/ end_commit(p) \/ read_head(p)
    PROVE  UNCHANGED Tx!vars
<1>1. pc \in [Procs -> Pcs]
  BY Zenon DEF LogInv, TypeOK
<1>2. UNCHANGED <<disk, logdata, dhead, cache>>
  BY Zenon DEF commit, end_commit, read_head, diskVars
<1>3. CASE commit(p)
  <2>1. pc[p] = "commit" /\ (pc' = [pc EXCEPT ![p] = "write_log"] \/ pc' = [pc EXCEPT ![p] = "done"])
    BY <1>3, Zenon DEF commit, Goto
  <2>2. ~Booting
    BY <2>1, UpAfterRecovery, Zenon DEF RecoveryPcs
  <2>3. (Booting' <=> Booting) /\ Active' = Active
    BY <1>1, <2>1, <2>2, LogConstants, Zenon DEF Booting, Active, RecoveryPcs
  <2>. QED
    BY <1>2, <2>3, QuietStep, Zenon
<1>4. CASE end_commit(p)
  <2>1. /\ pc[p] = "done"
        /\ pc'[p] = "idle"
        /\ \A q \in Procs \ {p} : pc'[q] = pc[q] \/ (pc[q] = "asleep" /\ pc'[q] = "begin")
    BY <1>1, <1>4, Zenon DEF end_commit, Woken
  <2>2. ~Booting
    BY <2>1, UpAfterRecovery, Zenon DEF RecoveryPcs
  <2>3. (Booting' <=> Booting) /\ Active' = Active
    BY <2>1, <2>2, LogConstants, Zenon DEF Booting, Active, RecoveryPcs
  <2>. QED
    BY <1>2, <2>3, QuietStep, Zenon
<1>5. CASE read_head(p)
  <2>1. pc[p] = "read_head" /\ pc' = [pc EXCEPT ![p] = "r_install"]
    BY <1>5, Zenon DEF read_head, Goto
  <2>2. (Booting' <=> Booting) /\ Active' = Active
    BY <1>1, <2>1, LogConstants, Zenon DEF Booting, Active, RecoveryPcs
  <2>. QED
    BY <1>2, <2>2, QuietStep, Zenon
<1>. QED
  BY <1>3, <1>4, <1>5, Zenon

\* Every step of the log is a step of the transactional disk, or a stutter.
LEMMA NextRefines == LogInv /\ LogInv' /\ [Next]_vars => [Tx!Next]_(Tx!vars)
<1>. SUFFICES ASSUME LogInv, LogInv', [Next]_vars
              PROVE  Tx!Next \/ UNCHANGED Tx!vars
  BY Zenon
<1>1. CASE UNCHANGED vars
  <2>1. UNCHANGED <<disk, logdata, dhead, cache, pc>>
    BY <1>1, Zenon DEF vars
  <2>. QED
    BY <2>1, QuietStep, Zenon DEF Booting, Active
<1>2. ASSUME NEW p \in Procs, begin_op(p)
      PROVE  Tx!Next \/ UNCHANGED Tx!vars
  BY <1>2, BeginOpRefines, Zenon DEF Tx!Next
<1>3. ASSUME NEW p \in Procs, NEW b \in Blocks, NEW v \in Data, log_write(p, b, v)
      PROVE  Tx!Next \/ UNCHANGED Tx!vars
  BY <1>3, LogWriteRefines, Zenon DEF Tx!Next
<1>4. ASSUME NEW p \in Procs, end_op(p)
      PROVE  Tx!Next \/ UNCHANGED Tx!vars
  BY <1>4, EndOpRefines, Zenon DEF Tx!Next
<1>5. ASSUME NEW p \in Procs, commit(p) \/ end_commit(p) \/ read_head(p)
      PROVE  Tx!Next \/ UNCHANGED Tx!vars
  BY <1>5, QuietRefines, Zenon
<1>6. ASSUME NEW p \in Procs, write_log(p)
      PROVE  Tx!Next \/ UNCHANGED Tx!vars
  BY <1>6, WriteLogRefines, Zenon
<1>7. ASSUME NEW p \in Procs, write_head(p)
      PROVE  Tx!Next \/ UNCHANGED Tx!vars
  BY <1>7, WriteHeadRefines, Zenon DEF Tx!Next
<1>8. ASSUME NEW p \in Procs, NEW recovering \in BOOLEAN, install_trans(p, recovering)
      PROVE  Tx!Next \/ UNCHANGED Tx!vars
  BY <1>8, InstallRefines, Zenon
<1>9. ASSUME NEW p \in Procs, clear_head(p) \/ recover_clear(p)
      PROVE  Tx!Next \/ UNCHANGED Tx!vars
  BY <1>9, ClearRefines, Zenon
<1>10. ASSUME NEW b \in Blocks, Evict(b)
       PROVE  Tx!Next \/ UNCHANGED Tx!vars
  BY <1>10, EvictRefines, Zenon
<1>11. CASE Crash
  BY <1>11, CrashRefines, Zenon DEF Tx!Next
<1>. QED
  BY <1>1, <1>2, <1>3, <1>4, <1>5, <1>6, <1>7, <1>8, <1>9, <1>10, <1>11, Zenon DEF Next

\* The log implements the transactional disk, whatever the number of processes,
\* blocks and log slots: a crash between any two disk writes of commit() or of
\* the recovery leaves the writes of a whole group of calls, or none of them.
THEOREM LogImplementsTxDisk == Spec => AtomicCommit
<1>1. Tx!Init /\ [][Tx!Next]_(Tx!vars) => AtomicCommit
  BY Zenon DEF AtomicCommit, Tx!Spec
<1>. QED
  BY <1>1, InitRefines, NextRefines, LogInvariant, PTL DEF Spec

-----------------------------------------------------------------------------
\* A step that changes a home block is a turn of install_trans.
LEMMA HomeBlockChange ==
    ASSUME LogInv, [Next]_vars, NEW b \in Blocks, disk'[b] # disk[b]
    PROVE  \E i \in 1 .. Len(dhead) : dhead[i] = b /\ logdata[i] = disk'[b]
<1>1. PICK p \in Procs, recovering \in BOOLEAN : install_trans(p, recovering)
  BY Zenon DEF Next, vars, diskVars, begin_op, log_write, panic, end_op, commit, write_log,
         write_head, clear_head, end_commit, read_head, recover_clear, Evict, Crash
<1>2. /\ tail \in [Procs -> Nat \ {0}]
      /\ lh \in Seq(Blocks)
      /\ disk \in [Blocks -> Data]
  BY Zenon DEF LogInv, TypeOK
<1>3. lh = dhead
  BY <1>1, Zenon DEF install_trans, LogInv, HeadInv
<1>4. /\ tail[p] <= Len(lh)
      /\ disk' = [disk EXCEPT ![lh[tail[p]]] = logdata[tail[p]]]
  BY <1>1, Zenon DEF install_trans
<1>5. tail[p] \in 1 .. Len(dhead) /\ dhead[tail[p]] \in Blocks
  BY <1>2, <1>3, <1>4
<1>6. dhead[tail[p]] = b /\ logdata[tail[p]] = disk'[b]
  BY <1>2, <1>3, <1>4, <1>5, Zenon
<1>. QED
  BY <1>5, <1>6, Zenon

\* The write-ahead rule for every instance: a home block is only ever changed to
\* what the committed on-disk log holds for it.
THEOREM WriteAheadRule == Spec => WriteAhead
<1>1. LogInv /\ [Next]_vars =>
        [\A b \in Blocks : disk'[b] # disk[b] =>
            \E i \in 1 .. Len(dhead) : dhead[i] = b /\ logdata[i] = disk'[b]]_vars
  BY HomeBlockChange, Zenon
<1>. QED
  BY <1>1, LogInvariant, PTL DEF Spec, WriteAhead

-----------------------------------------------------------------------------
\* A set of pairs has at most n elements for every first component, if no first
\* component occurs with more than n second ones.
LEMMA PairsBound ==
    ASSUME NEW S, IsFiniteSet(S), NEW n \in Nat, NEW w, NEW P,
           \A s \in S : IsFiniteSet(w[s]) /\ Cardinality(w[s]) <= n,
           \A x \in P : \E s \in S : \E t \in w[s] : x = <<s, t>>
    PROVE  /\ IsFiniteSet(P) /\ Cardinality(P) \in Nat
           /\ Cardinality(P) <= Cardinality(S) * n
<1>1. \A s \in S : \E g : g \in Injection(w[s], 1 .. n)
  <2>. SUFFICES ASSUME NEW s \in S PROVE \E g : g \in Injection(w[s], 1 .. n)
    BY Zenon
  <2>. DEFINE m == Cardinality(w[s])
  <2>1. m \in Nat /\ ExistsBijection(1 .. m, w[s])
    BY FS_CardinalityType, Zenon
  <2>2. PICK f \in Bijection(1 .. m, w[s]) : TRUE
    BY <2>1, Zenon DEF ExistsBijection
  <2>. DEFINE g == [t \in w[s] |-> CHOOSE k \in 1 .. m : f[k] = t]
  <2>3. \A t \in w[s] : g[t] \in 1 .. m /\ f[g[t]] = t
    BY <2>2, Zenon DEF Bijection, Surjection
  <2>4. 1 .. m \subseteq 1 .. n
    BY <2>1
  <2>5. g \in [w[s] -> 1 .. n]
    BY <2>3, <2>4, Zenon
  <2>6. \A t, u \in w[s] : g[t] = g[u] => t = u
    BY <2>3, Zenon
  <2>7. g \in Injection(w[s], 1 .. n)
    <3>. HIDE DEF g
    <3>. QED
      BY <2>5, <2>6, Zenon DEF Injection, IsInjective
  <2>. QED
    BY <2>7, Zenon
<1>. DEFINE h == [s \in S |-> CHOOSE g : g \in Injection(w[s], 1 .. n)]
<1>2. \A s \in S : h[s] \in Injection(w[s], 1 .. n)
  BY <1>1, Zenon
<1>. DEFINE f == [x \in P |-> <<x[1], h[x[1]][x[2]]>>]
<1>3. ASSUME NEW x \in P
      PROVE  /\ x = <<x[1], x[2]>> /\ x[1] \in S /\ x[2] \in w[x[1]]
             /\ h[x[1]][x[2]] \in 1 .. n
  <2>1. x = <<x[1], x[2]>> /\ x[1] \in S /\ x[2] \in w[x[1]]
    OBVIOUS
  <2>. HIDE DEF h
  <2>. QED
    BY <2>1, <1>2, Zenon DEF Injection, IsInjective
<1>4. f \in [P -> S \X (1 .. n)]
  <2>. HIDE DEF h
  <2>. QED
    BY <1>3, Zenon
<1>5. ASSUME NEW x \in P, NEW y \in P, f[x] = f[y] PROVE x = y
  <2>. HIDE DEF h
  <2>1. x[1] = y[1] /\ h[x[1]][x[2]] = h[y[1]][y[2]]
    BY <1>5, Zenon
  <2>2. \A t, u \in w[x[1]] : h[x[1]][t] = h[x[1]][u] => t = u
    BY <1>2, <1>3 DEF Injection, IsInjective
  <2>3. x[2] \in w[x[1]] /\ y[2] \in w[x[1]]
    BY <2>1, <1>3, Zenon
  <2>4. x[2] = y[2]
    BY <2>1, <2>2, <2>3, Zenon
  <2>5. x = <<x[1], x[2]>> /\ y = <<y[1], y[2]>>
    BY <1>3, Zenon
  <2>. QED
    BY <2>1, <2>4, <2>5, Zenon
<1>6. f \in Injection(P, S \X (1 .. n))
  <2>. HIDE DEF f
  <2>. QED
    BY <1>4, <1>5, Zenon DEF Injection, IsInjective
<1>7. IsFiniteSet(1 .. n) /\ Cardinality(1 .. n) = n
  BY FS_Interval
<1>8. IsFiniteSet(S \X (1 .. n)) /\ Cardinality(S \X (1 .. n)) = Cardinality(S) * n
  BY <1>7, FS_Product, Zenon
<1>. QED
  <2>. HIDE DEF f
  <2>. QED
    BY <1>6, <1>8, FS_Injection, FS_CardinalityType

\* Which call has written which block.
Written == {w \in Procs \X Blocks : w[1] \in Active /\ w[2] \in wrote[w[1]]}

\* What is logged, against what is reserved.  The first call of a group finds the log
\* empty; every other one finds room for all; a call that ends gives back the part of its
\* reservation it has not used, at least MAXOPBLOCKS - OpBlocks.
ReserveInv ==
    /\ panicked = "no"
    /\ committing => Active = {}
    /\ ~Booting /\ ~committing /\ outstanding = 0 => lh = << >>
    /\ \A p \in Active :
          /\ IsFiniteSet(wrote[p]) /\ Cardinality(wrote[p]) <= OpBlocks
          /\ \A b \in wrote[p] : Logged(b)
    /\ outstanding = 1 =>
          \/ Len(lh) <= Cardinality(Written)
          \/ Len(lh) + 2 * MAXOPBLOCKS <= LOGSIZE + Cardinality(Written) + OpBlocks
    /\ outstanding >= 2 =>
          Len(lh) + outstanding * MAXOPBLOCKS <= LOGSIZE + Cardinality(Written)

\* The calls have written no more than OpBlocks blocks each.
LEMMA WrittenBound ==
    ASSUME LogInv, ReserveInv
    PROVE  /\ IsFiniteSet(Written) /\ Cardinality(Written) \in Nat
           /\ Cardinality(Written) <= outstanding * OpBlocks
<1>1. IsFiniteSet(Active) /\ outstanding = Cardinality(Active) /\ OpBlocks \in Nat
  BY ActiveCount, LogConstants, Zenon DEF LogInv, WhoInv
<1>2. \A p \in Active : IsFiniteSet(wrote[p]) /\ Cardinality(wrote[p]) <= OpBlocks
  BY Zenon DEF ReserveInv
<1>3. \A w \in Written : \E p \in Active : \E b \in wrote[p] : w = <<p, b>>
  BY DEF Written
<1>. QED
  BY <1>1, <1>2, <1>3, PairsBound

\* Steps after which no call is running.
LEMMA QuietReserve ==
    ASSUME LogInv', panicked' = "no", Active' = {}, (~Booting /\ ~committing)' => lh' = << >>
    PROVE  ReserveInv'
<1>1. outstanding' = 0
  BY FS_EmptySet, Zenon DEF LogInv, WhoInv
<1>. QED
  BY <1>1 DEF ReserveInv

\* Steps that change nothing the reservations depend on.
LEMMA ReserveFrame ==
    ASSUME ReserveInv, Active' = Active, Booting' <=> Booting,
           UNCHANGED <<panicked, committing, outstanding, lh, wrote>>
    PROVE  ReserveInv'
<1>1. Written' = Written /\ \A b : Logged(b)' <=> Logged(b)
  BY Zenon DEF Written, Logged
<1>. QED
  BY <1>1, Zenon DEF ReserveInv

\* A call that begin_op admits.
LEMMA BeginReserve ==
    ASSUME LogInv, LogInv', ReserveInv, NEW p \in Procs, pc[p] \in {"idle", "begin"}, Admit,
           outstanding' = outstanding + 1, wrote' = [wrote EXCEPT ![p] = {}], Goto(p, "op"),
           UNCHANGED <<panicked, committing, lh>>
    PROVE  ReserveInv'
<1>1. /\ outstanding \in Nat /\ wrote \in [Procs -> SUBSET Blocks] /\ pc \in [Procs -> Pcs]
      /\ MAXOPBLOCKS \in Nat /\ LOGSIZE \in Nat /\ OpBlocks \in Nat /\ Len(lh) \in Nat
  <2>1. /\ outstanding \in Nat /\ lh \in Seq(Blocks) /\ wrote \in [Procs -> SUBSET Blocks]
        /\ pc \in [Procs -> Pcs]
    BY Zenon DEF LogInv, TypeOK
  <2>2. MAXOPBLOCKS \in Nat /\ LOGSIZE \in Nat /\ OpBlocks \in Nat /\ nlog \in Nat
    BY LogConstants, Zenon
  <2>. QED
    BY <2>1, <2>2
<1>2. p \notin Active /\ Active' = Active \cup {p} /\ ~Booting
  <2>1. \A q \in Procs : pc'[q] = IF q = p THEN "op" ELSE pc[q]
    BY <1>1, Zenon DEF Goto
  <2>2. ~Booting
    <3>1. \A q \in Procs : Booting /\ q # InitProc => pc[q] = "off"
      BY Zenon DEF LogInv, WhoInv
    <3>. QED
      BY <3>1, Zenon DEF Booting, RecoveryPcs
  <2>. QED
    BY <2>1, <2>2, Zenon DEF Active
<1>3. wrote'[p] = {} /\ \A q \in Active : wrote'[q] = wrote[q]
  BY <1>1, <1>2
<1>4. Written' = Written
  BY <1>2, <1>3, Zenon DEF Written
<1>5. Cardinality(Written) \in Nat
  BY WrittenBound, Zenon
<1>6. \A b : Logged(b)' <=> Logged(b)
  BY Zenon DEF Logged
<1>7. \A q \in Active' :
        /\ IsFiniteSet(wrote'[q]) /\ Cardinality(wrote'[q]) <= OpBlocks
        /\ \A b \in wrote'[q] : Logged(b)'
  <2>1. IsFiniteSet({}) /\ Cardinality({}) = 0
    BY FS_EmptySet, Zenon
  <2>. QED
    BY <1>1, <1>2, <1>3, <1>6, <2>1 DEF ReserveInv
<1>8. outstanding = 0 => Len(lh) = 0
  BY <1>2, Zenon DEF ReserveInv, Admit
<1>9. /\ outstanding' = 1 => Len(lh') <= Cardinality(Written')
      /\ outstanding' >= 2 =>
            Len(lh') + outstanding' * MAXOPBLOCKS <= LOGSIZE + Cardinality(Written')
  <2>1. Len(lh) + (outstanding + 1) * MAXOPBLOCKS <= LOGSIZE
    BY Zenon DEF Admit
  <2>. QED
    BY <1>1, <1>4, <1>5, <1>8, <2>1
<1>10. ~committing' /\ outstanding' # 0 /\ panicked' = "no"
  BY <1>1 DEF Admit, ReserveInv
<1>. QED
  BY <1>7, <1>9, <1>10, Zenon DEF ReserveInv

\* The reservations leave room for a block of a running call.
LEMMA RoomToWrite ==
    ASSUME LogInv, ReserveInv, Active # {},
           OpBlocks < MAXOPBLOCKS, MAXOPBLOCKS < LOGSIZE, LOGSIZE <= nlog
    PROVE  outstanding >= 1 /\ Len(lh) < LOGSIZE /\ Len(lh) < nlog - 1
<1>1. /\ outstanding \in Nat /\ MAXOPBLOCKS \in Nat /\ LOGSIZE \in Nat /\ OpBlocks \in Nat
      /\ nlog \in Nat /\ Len(lh) \in Nat
  <2>1. /\ outstanding \in Nat /\ lh \in Seq(Blocks) /\ wrote \in [Procs -> SUBSET Blocks]
        /\ pc \in [Procs -> Pcs]
    BY Zenon DEF LogInv, TypeOK
  <2>2. MAXOPBLOCKS \in Nat /\ LOGSIZE \in Nat /\ OpBlocks \in Nat /\ nlog \in Nat
    BY LogConstants, Zenon
  <2>. QED
    BY <2>1, <2>2
<1>2. outstanding >= 1
  BY <1>1, ActiveCount DEF LogInv, WhoInv
<1>3. Cardinality(Written) \in Nat /\ Cardinality(Written) <= outstanding * OpBlocks
  BY WrittenBound, Zenon
<1>4. CASE outstanding = 1
  <2>1. Cardinality(Written) <= OpBlocks
    BY <1>1, <1>3, <1>4
  <2>2. \/ Len(lh) <= Cardinality(Written)
        \/ Len(lh) + 2 * MAXOPBLOCKS <= LOGSIZE + Cardinality(Written) + OpBlocks
    BY <1>4, Zenon DEF ReserveInv
  <2>. QED
    BY <1>1, <1>2, <1>3, <2>1, <2>2
<1>5. CASE outstanding >= 2
  <2>1. Len(lh) + outstanding * MAXOPBLOCKS <= LOGSIZE + Cardinality(Written)
    BY <1>5, Zenon DEF ReserveInv
  <2>2. PICK d \in Nat : MAXOPBLOCKS = OpBlocks + 1 + d
    <3>1. MAXOPBLOCKS - OpBlocks - 1 \in Nat /\ MAXOPBLOCKS = OpBlocks + 1 + (MAXOPBLOCKS - OpBlocks - 1)
      BY <1>1
    <3>. QED
      BY <3>1, Zenon
  <2>3. /\ outstanding * MAXOPBLOCKS = outstanding * OpBlocks + outstanding + outstanding * d
        /\ outstanding * d \in Nat /\ outstanding * OpBlocks \in Nat
    BY <1>1, <2>2
  <2>. QED
    BY <1>1, <1>2, <1>3, <1>5, <2>1, <2>3
<1>. QED
  BY <1>1, <1>2, <1>4, <1>5

\* A block that is written, and that the call may still write.
LEMMA WriteReserve ==
    ASSUME LogInv, ReserveInv, NEW p \in Procs, NEW b \in Blocks, p \in Active,
           Cardinality(wrote[p] \cup {b}) <= OpBlocks, RecordBlock(b),
           wrote' = [wrote EXCEPT ![p] = @ \cup {b}],
           UNCHANGED <<panicked, committing, outstanding, pc>>
    PROVE  ReserveInv'
<1>1. /\ outstanding \in Nat /\ MAXOPBLOCKS \in Nat /\ LOGSIZE \in Nat /\ OpBlocks \in Nat
      /\ lh \in Seq(Blocks) /\ Len(lh) \in Nat /\ wrote \in [Procs -> SUBSET Blocks]
  <2>1. /\ outstanding \in Nat /\ lh \in Seq(Blocks) /\ wrote \in [Procs -> SUBSET Blocks]
        /\ pc \in [Procs -> Pcs]
    BY Zenon DEF LogInv, TypeOK
  <2>2. MAXOPBLOCKS \in Nat /\ LOGSIZE \in Nat /\ OpBlocks \in Nat /\ nlog \in Nat
    BY LogConstants, Zenon
  <2>. QED
    BY <2>1, <2>2
<1>2. Active' = Active /\ (Booting' <=> Booting)
  BY Zenon DEF Active, Booting
<1>3. \A q \in Procs : wrote'[q] = IF q = p THEN wrote[p] \cup {b} ELSE wrote[q]
  BY <1>1, Zenon
<1>4. /\ \A k \in Blocks : Logged(k)' <=> Logged(k) \/ k = b
      /\ Len(lh') = IF Logged(b) THEN Len(lh) ELSE Len(lh) + 1
  <2>1. CASE Logged(b)
    BY <2>1, Zenon DEF RecordBlock, Logged
  <2>2. CASE ~Logged(b)
    <3>1. lh' = Append(lh, b)
      BY <2>2, Zenon DEF RecordBlock
    <3>2. Len(lh') = Len(lh) + 1 /\ lh'[Len(lh) + 1] = b /\ \A k \in 1 .. Len(lh) : lh'[k] = lh[k]
      BY <1>1, <3>1
    <3>. QED
      BY <1>1, <2>2, <3>2 DEF Logged
  <2>. QED
    BY <2>1, <2>2, Zenon
<1>5. \A q \in Active : wrote[q] \subseteq Blocks /\ IsFiniteSet(wrote[q])
         /\ Cardinality(wrote[q]) <= OpBlocks /\ \A k \in wrote[q] : Logged(k)
  BY <1>1, Zenon DEF ReserveInv, Active
<1>6. \A q \in Active' :
        /\ IsFiniteSet(wrote'[q]) /\ Cardinality(wrote'[q]) <= OpBlocks
        /\ \A k \in wrote'[q] : Logged(k)'
  <2>1. IsFiniteSet(wrote[p] \cup {b})
    BY <1>5, FS_AddElement, Zenon
  <2>2. Active \subseteq Procs
    BY Zenon DEF Active
  <2>. QED
    BY <1>2, <1>3, <1>4, <1>5, <2>1, <2>2
<1>7. Written' = Written \cup {<<p, b>>}
  <2>1. wrote[p] \subseteq Blocks
    BY <1>5, Zenon
  <2>. QED
    BY <1>2, <1>3, <2>1 DEF Written
<1>8. /\ Cardinality(Written) \in Nat
      /\ Cardinality(Written') = IF <<p, b>> \in Written THEN Cardinality(Written) ELSE Cardinality(Written) + 1
  BY <1>7, WrittenBound, FS_AddElement, Zenon
<1>9. ~Logged(b) => <<p, b>> \notin Written
  BY <1>5, Zenon DEF Written
<1>10. /\ outstanding' = 1 =>
            \/ Len(lh') <= Cardinality(Written')
            \/ Len(lh') + 2 * MAXOPBLOCKS <= LOGSIZE + Cardinality(Written') + OpBlocks
       /\ outstanding' >= 2 =>
            Len(lh') + outstanding' * MAXOPBLOCKS <= LOGSIZE + Cardinality(Written')
  <2>1. outstanding = 1 =>
            \/ Len(lh) <= Cardinality(Written)
            \/ Len(lh) + 2 * MAXOPBLOCKS <= LOGSIZE + Cardinality(Written) + OpBlocks
    BY Zenon DEF ReserveInv
  <2>2. Len(lh') - Len(lh) <= Cardinality(Written') - Cardinality(Written)
        /\ Len(lh') \in Nat /\ Cardinality(Written') \in Nat
    BY <1>1, <1>4, <1>8, <1>9
  <2>0. /\ Len(lh) \in Nat /\ Cardinality(Written) \in Nat
        /\ LOGSIZE \in Nat /\ MAXOPBLOCKS \in Nat /\ OpBlocks \in Nat
    BY <1>1, <1>8, Zenon
  <2>3. PICK m \in Int : m = outstanding * MAXOPBLOCKS
    BY <1>1
  <2>4. outstanding >= 2 => Len(lh) + m <= LOGSIZE + Cardinality(Written)
    BY <2>3, Zenon DEF ReserveInv
  <2>5. outstanding >= 2 => Len(lh') + m <= LOGSIZE + Cardinality(Written')
    BY <2>0, <2>2, <2>4
  <2>6. outstanding = 1 =>
            \/ Len(lh') <= Cardinality(Written')
            \/ Len(lh') + 2 * MAXOPBLOCKS <= LOGSIZE + Cardinality(Written') + OpBlocks
    BY <2>0, <2>1, <2>2
  <2>. QED
    BY <2>3, <2>5, <2>6, Zenon
<1>11. panicked' = "no" /\ ~committing' /\ outstanding' # 0
  BY ActiveCount, Zenon DEF ReserveInv, LogInv, WhoInv
<1>. QED
  BY <1>6, <1>10, <1>11, Zenon DEF ReserveInv

\* A call that ends keeps only the blocks that it has written.
LEMMA EndReserve ==
    ASSUME LogInv, LogInv', ReserveInv, NEW p \in Procs, end_op(p), OpBlocks < MAXOPBLOCKS
    PROVE  ReserveInv'
<1>1. pc[p] = "op" /\ p \in Active /\ panicked = "no"
  BY Zenon DEF end_op, Active, LockFree
<1>2. ~committing
  BY <1>1, Zenon DEF ReserveInv
<1>3. /\ outstanding' = outstanding - 1
      /\ committing' = (outstanding = 1)
      /\ pc' = IF outstanding = 1 THEN [pc EXCEPT ![p] = "commit"] ELSE Woken([pc EXCEPT ![p] = "idle"])
      /\ wrote' = [wrote EXCEPT ![p] = {}]
      /\ UNCHANGED <<lh, panicked>>
  BY <1>2, Zenon DEF end_op
<1>4. /\ outstanding \in Nat /\ pc \in [Procs -> Pcs] /\ wrote \in [Procs -> SUBSET Blocks]
      /\ lh \in Seq(Blocks)
  BY Zenon DEF LogInv, TypeOK
<1>5. MAXOPBLOCKS \in Nat /\ LOGSIZE \in Nat /\ OpBlocks \in Nat /\ Len(lh) \in Nat
  BY <1>4, LogConstants
<1>6. Active' = Active \ {p}
  <2>1. \A q \in Procs : pc'[q] = "op" <=> q # p /\ pc[q] = "op"
    BY <1>3, <1>4, Zenon DEF Woken
  <2>. QED
    BY <2>1, Zenon DEF Active
<1>7. outstanding = Cardinality(Active) /\ IsFiniteSet(Active)
  BY ActiveCount, Zenon DEF LogInv, WhoInv
<1>8. CASE outstanding = 1
  <2>1. Active' = {}
    <3>1. PICK x : Active = {x}
      BY <1>7, <1>8, FS_Singleton, Zenon
    <3>. QED
      BY <1>1, <1>6, <3>1, Zenon
  <2>2. committing' /\ panicked' = "no"
    BY <1>1, <1>3, <1>8, Zenon
  <2>. QED
    BY <2>1, <2>2, QuietReserve, Zenon
<1>9. CASE outstanding >= 2
  <2> DEFINE D == {w \in Written : w[1] = p}
  <2>1. /\ IsFiniteSet(Written) /\ Cardinality(Written) \in Nat
    BY WrittenBound, Zenon
  <2>2. \A q \in Active : wrote[q] \subseteq Blocks /\ IsFiniteSet(wrote[q])
           /\ Cardinality(wrote[q]) <= OpBlocks /\ \A b \in wrote[q] : Logged(b)
    BY <1>4, Zenon DEF ReserveInv, Active
  <2>3. Cardinality(D) \in Nat /\ Cardinality(D) <= OpBlocks
    <3>1. IsFiniteSet({p}) /\ Cardinality({p}) = 1
      BY FS_Singleton, Zenon
    <3>2. \A s \in {p} : IsFiniteSet(wrote[s]) /\ Cardinality(wrote[s]) <= OpBlocks
      BY <1>1, <2>2, Zenon
    <3>3. \A x \in D : \E s \in {p} : \E t \in wrote[s] : x = <<s, t>>
      BY DEF Written
    <3>. HIDE DEF D
    <3>4. Cardinality(D) \in Nat /\ Cardinality(D) <= Cardinality({p}) * OpBlocks
      <4>1. OpBlocks \in Nat
        BY LogConstants, Zenon
      <4>. QED
        BY <3>1, <3>2, <3>3, <4>1, PairsBound
    <3>. QED
      BY <1>5, <3>1, <3>4
  <2>4. Written' = Written \ D
    <3>1. \A q \in Procs : wrote'[q] = IF q = p THEN {} ELSE wrote[q]
      BY <1>3, <1>4, Zenon
    <3>. QED
      BY <1>6, <3>1, Zenon DEF Written
  <2>5. Cardinality(Written') = Cardinality(Written) - Cardinality(D)
    <3>1. Written \cap D = D
      BY Zenon
    <3>. HIDE DEF D
    <3>. QED
      <4>1. Cardinality(Written \ D) = Cardinality(Written) - Cardinality(Written \cap D)
        BY <2>1, FS_Difference, Zenon
      <4>. QED
        BY <2>4, <3>1, <4>1, Zenon
  <2>6. IsFiniteSet(Written') /\ Cardinality(Written') \in Nat
    <3>1. IsFiniteSet(Written')
      BY <2>1, <2>4, FS_Difference, Zenon
    <3>. QED
      BY <3>1, FS_CardinalityType, Zenon
  <2>. HIDE DEF D
  <2>7. Len(lh) + outstanding * MAXOPBLOCKS <= LOGSIZE + Cardinality(Written)
    BY <1>9, Zenon DEF ReserveInv
  <2>8. PICK m \in Int : m = (outstanding - 1) * MAXOPBLOCKS /\ outstanding * MAXOPBLOCKS = m + MAXOPBLOCKS
    BY <1>4, <1>5
  <2>9. Len(lh) + m <= LOGSIZE + Cardinality(Written')
    <3>1. Len(lh) + m + MAXOPBLOCKS <= LOGSIZE + Cardinality(Written)
      <4>1. Len(lh) + (m + MAXOPBLOCKS) <= LOGSIZE + Cardinality(Written)
        BY <2>7, <2>8, Zenon
      <4>. QED
        BY <1>5, <2>1, <4>1
    <3>2. Cardinality(Written) <= Cardinality(Written') + OpBlocks
      BY <1>5, <2>1, <2>3, <2>5, <2>6
    <3>. QED
      BY <1>5, <2>1, <2>6, <3>1, <3>2
  <2>10. outstanding' >= 2 => Len(lh') + outstanding' * MAXOPBLOCKS <= LOGSIZE + Cardinality(Written')
    BY <1>3, <1>5, <2>6, <2>8, <2>9, Zenon
  <2>11. outstanding' = 1 =>
            \/ Len(lh') <= Cardinality(Written')
            \/ Len(lh') + 2 * MAXOPBLOCKS <= LOGSIZE + Cardinality(Written') + OpBlocks
    <3>1. Cardinality(Written) <= Cardinality(Written') + OpBlocks
      BY <1>5, <2>1, <2>3, <2>5, <2>6
    <3>2. outstanding' = 1 => Len(lh) + 2 * MAXOPBLOCKS <= LOGSIZE + Cardinality(Written)
      BY <1>3, <1>4, <1>5, <2>1, <2>7
    <3>. QED
      <4>1. lh' = lh
        BY <1>3, Zenon
      <4>. QED
        BY <1>5, <2>1, <2>6, <3>1, <3>2, <4>1
  <2>12. \A q \in Active' : /\ IsFiniteSet(wrote'[q]) /\ Cardinality(wrote'[q]) <= OpBlocks
                            /\ \A b \in wrote'[q] : Logged(b)'
    <3>1. \A q \in Active' : wrote'[q] = wrote[q] /\ q \in Active
      BY <1>3, <1>4, <1>6, Zenon DEF Active
    <3>2. \A b \in Blocks : Logged(b)' <=> Logged(b)
      BY <1>3, Zenon DEF Logged
    <3>. QED
      BY <2>2, <3>1, <3>2, Zenon
  <2>13. panicked' = "no" /\ ~committing' /\ outstanding' # 0
    <3>1. panicked' = "no" /\ committing' = (outstanding = 1) /\ outstanding' = outstanding - 1
      BY <1>1, <1>3, Zenon
    <3>2. outstanding # 1 /\ outstanding - 1 # 0
      BY <1>4, <1>9
    <3>. QED
      BY <3>1, <3>2, Zenon
  <2>. QED
    BY <2>10, <2>11, <2>12, <2>13, Zenon DEF ReserveInv
<1>. QED
  <2>1. outstanding # 0
    BY <1>1, <1>7, ActiveCount, Zenon
  <2>. QED
    BY <1>4, <1>8, <1>9, <2>1

\* While a group is committed, or the log recovered, no call runs.
LEMMA CommitReserve ==
    ASSUME LogInv', panicked' = "no", NEW p \in Procs, pc'[p] \in CommitPcs \cup RecoveryPcs
    PROVE  ReserveInv'
<1>1. CASE pc'[p] \in CommitPcs
  <2>1. committing' /\ Active' = {}
    BY <1>1, Zenon DEF LogInv, WhoInv
  <2>. QED
    BY <2>1, QuietReserve, Zenon
<1>2. CASE pc'[p] \in RecoveryPcs
  <2>1. Booting' /\ \A q \in Procs : q # InitProc => pc'[q] = "off"
    BY <1>2, Zenon DEF LogInv, WhoInv
  <2>2. Active' = {}
    BY <2>1, Zenon DEF Active, Booting, RecoveryPcs
  <2>. QED
    BY <2>1, <2>2, QuietReserve, Zenon
<1>. QED
  BY <1>1, <1>2, Zenon

\* Every step keeps the reservations.
LEMMA ReserveNext ==
    ASSUME LogInv, LogInv', ReserveInv, [Next]_vars,
           OpBlocks < MAXOPBLOCKS, MAXOPBLOCKS < LOGSIZE, LOGSIZE <= nlog
    PROVE  ReserveInv'
<1>0. panicked = "no"
  BY Zenon DEF ReserveInv
<1>1. CASE UNCHANGED vars
  <2>1. UNCHANGED <<panicked, committing, outstanding, lh, wrote, pc>>
    BY <1>1, Zenon DEF vars
  <2>2. Active' = Active /\ (Booting' <=> Booting)
    BY <2>1, Zenon DEF Active, Booting
  <2>. QED
    BY <2>1, <2>2, ReserveFrame, Zenon
<1>2. CASE \E p \in Procs : begin_op(p)
  <2>1. PICK p \in Procs : begin_op(p)
    BY <1>2, Zenon
  <2>2. pc[p] \in {"idle", "begin"} /\ UNCHANGED <<panicked, committing, lh>>
    BY <2>1, Zenon DEF begin_op
  <2>3. CASE Admit
    <3>1. outstanding' = outstanding + 1 /\ wrote' = [wrote EXCEPT ![p] = {}] /\ Goto(p, "op")
      BY <2>1, <2>3, Zenon DEF begin_op
    <3>. QED
      BY <2>2, <2>3, <3>1, BeginReserve, Zenon
  <2>4. CASE ~Admit
    <3>1. pc' = [pc EXCEPT ![p] = "asleep"] /\ UNCHANGED <<outstanding, wrote>>
      BY <2>1, <2>4, Zenon DEF begin_op, Goto
    <3>2. pc \in [Procs -> Pcs]
      BY Zenon DEF LogInv, TypeOK
    <3>3. \A q \in Procs : pc'[q] = IF q = p THEN "asleep" ELSE pc[q]
      BY <3>1, <3>2, Zenon
    <3>4. Active' = Active /\ (Booting' <=> Booting)
      BY <2>2, <3>3, LogConstants, Zenon DEF Active, Booting, RecoveryPcs
    <3>. QED
      BY <2>2, <3>1, <3>4, ReserveFrame, Zenon
  <2>. QED
    BY <2>3, <2>4, Zenon
<1>3. CASE \E p \in Procs, b \in Blocks, v \in Data : log_write(p, b, v)
  <2>1. PICK p \in Procs, b \in Blocks, v \in Data : log_write(p, b, v)
    BY <1>3, Zenon
  <2>2. p \in Active /\ Cardinality(wrote[p] \cup {b}) <= OpBlocks
    BY <2>1, Zenon DEF log_write, Active
  <2>3. outstanding >= 1 /\ Len(lh) < LOGSIZE /\ Len(lh) < nlog - 1
    BY <2>2, RoomToWrite, Zenon
  <2>4. ~(Len(lh) >= LOGSIZE \/ Len(lh) >= nlog - 1) /\ ~(outstanding < 1)
    <3>1. lh \in Seq(Blocks) /\ outstanding \in Nat
      BY Zenon DEF LogInv, TypeOK
    <3>. QED
      BY <2>3, <3>1, LogConstants
  <2>5. /\ RecordBlock(b) /\ wrote' = [wrote EXCEPT ![p] = @ \cup {b}]
        /\ UNCHANGED <<panicked, committing, outstanding, pc>>
    BY <2>1, <2>4, Zenon DEF log_write
  <2>. QED
    BY <2>2, <2>5, WriteReserve, Zenon
<1>4. CASE \E p \in Procs : end_op(p)
  BY <1>4, EndReserve, Zenon
<1>5. ASSUME NEW p \in Procs,
             \/ commit(p) \/ write_log(p) \/ write_head(p) \/ clear_head(p) \/ read_head(p)
             \/ install_trans(p, FALSE) \/ install_trans(p, TRUE)
      PROVE  ReserveInv'
  <2>1. pc \in [Procs -> Pcs]
    BY Zenon DEF LogInv, TypeOK
  <2>2. panicked' = panicked
    BY <1>5, Zenon DEF commit, write_log, write_head, clear_head, read_head, install_trans
  <2>3. pc[p] \in CommitPcs \cup RecoveryPcs /\
        (pc' = pc \/ \E l \in CommitPcs \cup RecoveryPcs : pc' = [pc EXCEPT ![p] = l])
    BY <1>5, Zenon DEF commit, write_log, write_head, clear_head, read_head, install_trans, Goto,
                CommitPcs, RecoveryPcs
  <2>4. pc'[p] \in CommitPcs \cup RecoveryPcs
    BY <2>1, <2>3, Zenon
  <2>. QED
    BY <1>0, <2>2, <2>4, CommitReserve, Zenon
<1>6. ASSUME NEW p \in Procs, end_commit(p) \/ recover_clear(p) PROVE ReserveInv'
  <2>1. lh = << >>
    <3>1. pc[p] \in {"read_head", "clear", "r_clear", "done"}
      BY <1>6, Zenon DEF end_commit, recover_clear
    <3>. QED
      BY <3>1, Zenon DEF LogInv, HeadInv
  <2>2. lh' = lh /\ panicked' = panicked
    BY <1>6, Zenon DEF end_commit, recover_clear, logVars
  <2>3. Active' = {}
    <3>1. CASE end_commit(p)
      <4>1. Active = {} /\ pc \in [Procs -> Pcs] /\ pc' = Woken([pc EXCEPT ![p] = "idle"])
        BY <3>1, Zenon DEF end_commit, LogInv, WhoInv, CommitPcs, TypeOK
      <4>2. \A q \in Procs : pc'[q] # "op"
        BY <4>1, Zenon DEF Woken, Active
      <4>. QED
        BY <4>2, Zenon DEF Active
    <3>2. CASE recover_clear(p)
      BY <3>2, Zenon DEF recover_clear, Active
    <3>. QED
      BY <1>6, <3>1, <3>2, Zenon
  <2>. QED
    BY <1>0, <2>1, <2>2, <2>3, QuietReserve, Zenon
<1>7. CASE \E b \in Blocks : Evict(b)
  <2>1. UNCHANGED <<panicked, committing, outstanding, lh, wrote, pc>>
    BY <1>7, Zenon DEF Evict, logVars, procVars
  <2>2. Active' = Active /\ (Booting' <=> Booting)
    BY <2>1, Zenon DEF Active, Booting
  <2>. QED
    BY <2>1, <2>2, ReserveFrame, Zenon
<1>8. CASE Crash
  <2>1. panicked' = "no" /\ pc' = BootPc
    BY <1>8, Zenon DEF Crash
  <2>2. InitProc \in Procs /\ pc'[InitProc] \in CommitPcs \cup RecoveryPcs
    BY <2>1, LogConstants, Zenon DEF BootPc, RecoveryPcs
  <2>. QED
    BY <2>1, <2>2, CommitReserve, Zenon
<1>. QED
  BY <1>1, <1>2, <1>3, <1>4, <1>5, <1>6, <1>7, <1>8, Zenon DEF Next

\* The log is never filled: as long as a call logs fewer blocks than begin_op reserves for it,
\* and the log is larger than one reservation, no panic of log.c is reached.
THEOREM ReservationSuffices ==
    ASSUME OpBlocks < MAXOPBLOCKS, MAXOPBLOCKS < LOGSIZE, LOGSIZE <= nlog
    PROVE  Spec => []NoPanic
<1>1. Init /\ LogInv => ReserveInv
  <2>. SUFFICES ASSUME Init, LogInv PROVE ReserveInv
    BY Zenon
  <2>1. panicked = "no" /\ ~committing /\ Booting /\ outstanding = 0 /\ Active = {}
    BY LogConstants, Zenon DEF Init, BootPc, Booting, Active, RecoveryPcs
  <2>. QED
    BY <2>1 DEF ReserveInv
<1>2. LogInv /\ LogInv' /\ ReserveInv /\ [Next]_vars => ReserveInv'
  BY ReserveNext, Zenon
<1>3. ReserveInv => NoPanic
  BY Zenon DEF ReserveInv, NoPanic
<1>. QED
  BY <1>1, <1>2, <1>3, LogInvariant, PTL DEF Spec
=============================================================================
