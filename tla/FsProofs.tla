------------------------------ MODULE FsProofs ------------------------------
(***************************************************************************)
(* Proofs about the file system calls, for any number of processes,        *)
(* inodes, files and descriptors, and for any calls: the steps that open,  *)
(* close and copy files and current directories count right, and so does   *)
(* every step.                                                             *)
(***************************************************************************)
EXTENDS FsRefProofs

-----------------------------------------------------------------------------
(***************************************************************************)
(* Files and descriptors.                                                  *)
(***************************************************************************)
LEMMA FiniteFds == IsFiniteSet(Descriptors) /\ \A of, f : IsFiniteSet(FdOf(of, f))
<1>1. IsFiniteSet(Descriptors)
  BY FS_Interval, FileTableConstants DEF Descriptors
<1>2. IsFiniteSet(Procs \X Descriptors)
  BY <1>1, FsConstants, FS_Product, Zenon
<1>3. \A of, f : FdOf(of, f) \subseteq Procs \X Descriptors
  BY DEF FdOf
<1>. QED
  BY <1>1, <1>2, <1>3, FS_Subset, Zenon

AllFds == [Procs -> [Descriptors -> 0 .. NFILE]]

FdsBy(of, of2, x, y, f) ==
    /\ Cardinality(FdOf(of, f)) \in Nat /\ Cardinality(FdOf(of2, f)) \in Nat
    /\ Cardinality(FdOf(of2, f)) = Cardinality(FdOf(of, f)) - Eq(x, f) + Eq(y, f)

LEMMA FdChange ==
    ASSUME NEW of, of \in AllFds, NEW p \in Procs, NEW fd \in Descriptors, NEW g,
           NEW of2, of2 = [of EXCEPT ![p][fd] = g], NEW f
    PROVE  FdsBy(of, of2, of[p][fd], g, f)
<1>4. PICK x : x = <<p, fd>>
  BY Zenon
<1>1. FdOf(of, f) \ {x} = FdOf(of2, f) \ {x}
  BY <1>4 DEF FdOf, AllFds
<1>2. In(x, FdOf(of, f)) = Eq(of[p][fd], f) /\ In(x, FdOf(of2, f)) = Eq(g, f)
  BY <1>4 DEF In, FdOf, Eq, AllFds
<1>3. IsFiniteSet(FdOf(of, f))
  BY FiniteFds, Zenon
<1>5. Differ(FdOf(of, f), FdOf(of2, f), x)
  BY <1>1, <1>3, CardDiff, Zenon
<1>. QED
  BY <1>2, <1>5 DEF FdsBy, Differ

\* The reference of a file to inode i.
Obj(r, i) == IF r.type \in {"inode", "device"} /\ r.obj = i THEN 1 ELSE 0

ObjsBy(ft, f2, f, i) ==
    /\ Cardinality(FileOf(ft, i)) \in Nat /\ Cardinality(FileOf(f2, i)) \in Nat
    /\ Cardinality(FileOf(f2, i)) = Cardinality(FileOf(ft, i)) - Obj(ft[f], i) + Obj(f2[f], i)

LEMMA FileChange ==
    ASSUME NEW ft, DOMAIN ft = 1 .. NFILE, NEW f \in 1 .. NFILE, NEW f2, DOMAIN f2 = 1 .. NFILE,
           \A h \in (1 .. NFILE) \ {f} : f2[h] = ft[h], NEW i
    PROVE  ObjsBy(ft, f2, f, i)
<1>1. FileOf(ft, i) \ {f} = FileOf(f2, i) \ {f}
  BY DEF FileOf
<1>2. In(f, FileOf(ft, i)) = Obj(ft[f], i) /\ In(f, FileOf(f2, i)) = Obj(f2[f], i)
  BY DEF In, FileOf, Obj
<1>3. IsFiniteSet(FileOf(ft, i))
  BY FiniteSets, Zenon
<1>. QED
  BY <1>1, <1>2, <1>3, CardDiff DEF ObjsBy, Differ

\* Descriptor fd of p comes to stand for g, and file f changes; p gets the tasks ts.
FileMoved(p, fd, g, f) ==
    /\ ofile' = [ofile EXCEPT ![p][fd] = g] /\ cwd' = cwd /\ IsFiles(ftable')
    /\ \A h \in (1 .. NFILE) \ {f} : ftable'[h] = ftable[h]
    /\ \A h \in 1 .. NFILE : ftable'[h].ref = ftable[h].ref - Eq(ofile[p][fd], h) + Eq(g, h)

TasksMoved(p, ts) ==
    /\ IsFun(todo') /\ todo'[p] = ts /\ \A q \in Procs \ {p} : todo'[q] = todo[q]
    /\ Shape(ts) /\ (Leaving(ts) <=> Leaving(todo[p])) /\ ~Exiting(ts)

FilePaid(p, f, ts) ==
    /\ IsTable(itable')
    /\ \A i \in Inums : itable'[i].ref + Obj(ftable[f], i) + Ptrs(todo[p], i)
                        = itable[i].ref + Obj(ftable'[f], i) + Ptrs(ts, i)

LEMMA FdStep ==
    ASSUME RefsInv, NEW p \in Procs, cwd[p] # 0, NEW fd \in Descriptors, NEW g \in 0 .. NFILE, NEW f \in 1 .. NFILE, NEW ts,
           FileMoved(p, fd, g, f), TasksMoved(p, ts), FilePaid(p, f, ts)
    PROVE  RefsInv'
<1>. USE Zenon
<1>1. /\ DOMAIN ftable = 1 .. NFILE /\ DOMAIN ftable' = 1 .. NFILE /\ ofile \in AllFds /\ IsTable(itable) /\ IsTable(itable')
      /\ Shape(todo[p]) /\ Shape(ts) /\ IsFun(cwd) /\ \A h \in 1 .. NFILE : ftable[h].ref = Cardinality(FdOf(ofile, h))
  BY DEF RefsInv, Refs, IsFiles, FileMoved, TasksMoved, FilePaid, AllFds, Counted
<1>2. ofile' \in AllFds /\ \A q \in Procs \ {p} : ofile'[q] = ofile[q]
  BY <1>1, SMT DEF FileMoved, AllFds
<1>3. \A h : FdsBy(ofile, ofile', ofile[p][fd], g, h)
  BY <1>1, FdChange DEF FileMoved
<1>4. FilesFit(ftable', ofile')
  <2>1. \A h \in 1 .. NFILE : ftable'[h].ref = Cardinality(FdOf(ofile', h))
    BY <1>1, <1>3 DEF FileMoved, FdsBy
  <2>. QED
    BY <1>1, <1>2, <2>1 DEF FilesFit, FileMoved, AllFds
<1>5. ProcFits(ofile', cwd', todo', p) /\ Others(ofile, ofile', cwd, cwd', todo, todo', p)
  BY <1>1, <1>2 DEF ProcFits, Others, FileMoved, TasksMoved
<1>6. ASSUME NEW i \in Inums
      PROVE  itable'[i].ref + Cur(cwd, todo, p, i) + Cardinality(FileOf(ftable, i)) + Ptrs(todo[p], i)
             = itable[i].ref + Cur(cwd', todo', p, i) + Cardinality(FileOf(ftable', i)) + Ptrs(todo'[p], i)
  <2>1. PICK x, y, u, e, d, m, n, k, l :
           /\ x = itable[i].ref /\ y = itable'[i].ref /\ u = Cur(cwd, todo, p, i)
           /\ e = Cardinality(FileOf(ftable, i)) /\ d = Cardinality(FileOf(ftable', i))
           /\ m = Ptrs(todo[p], i) /\ n = Ptrs(ts, i) /\ k = Obj(ftable[f], i) /\ l = Obj(ftable'[f], i)
    OBVIOUS
  <2>2. ObjsBy(ftable, ftable', f, i)
    BY <1>1, FileChange DEF FileMoved
  <2>3. x \in Nat /\ y \in Nat /\ m \in Nat /\ n \in Nat /\ e \in Nat /\ d \in Nat /\ d = e - k + l
    BY <1>1, <2>1, <2>2, ShapeSmall, PtrsNat DEF IsTable, IsInode, ObjsBy
  <2>4. u \in Nat /\ k \in Nat /\ l \in Nat /\ y + k + m = x + l + n /\ Cur(cwd', todo', p, i) = u /\ todo'[p] = ts
    BY <2>1, SMT DEF Obj, Cur, Dir, FilePaid, FileMoved, TasksMoved
  <2>5. y + u + e + m = x + u + d + n
    BY <2>3, <2>4, SMT
  <2>. QED
    BY <2>1, <2>4, <2>5
<1>7. Shifted(itable, itable', ftable, ftable', cwd, cwd', todo, todo', p)
  BY <1>6 DEF Shifted
<1>. QED
  BY <1>1, <1>4, <1>5, <1>7, FullStep DEF RefsInv

-----------------------------------------------------------------------------
(***************************************************************************)
(* close() and exit().                                                     *)
(***************************************************************************)
\* fileclose(): when the descriptor was the last, its file's inode is put.
DropTasks(d)   == d = << >> \/ \E x : d = <<Put(x)>>
Drops(r, u, d) == \A i \in Inums : Obj(r, i) = Obj(u, i) + Ptrs(d, i)

LEMMA ObjNat == ASSUME NEW r, NEW i PROVE Obj(r, i) \in Nat
BY DEF Obj

\* The entry f of the file table becomes u, and the descriptor fd of p refers to g.
LEMMA FileSet ==
    ASSUME IsFiles(ftable), NEW f \in 1 .. NFILE, NEW u, IsFile(u), ftable' = [ftable EXCEPT ![f] = u],
           NEW p, NEW fd, NEW g, ofile' = [ofile EXCEPT ![p][fd] = g], cwd' = cwd,
           u.ref = ftable[f].ref - Eq(ofile[p][fd], f) + Eq(g, f),
           \A h \in (1 .. NFILE) \ {f} : Eq(ofile[p][fd], h) = 0 /\ Eq(g, h) = 0
    PROVE  FileMoved(p, fd, g, f)
<1>1. DOMAIN ftable' = 1 .. NFILE /\ ftable'[f] = u /\ \A h \in (1 .. NFILE) \ {f} : ftable'[h] = ftable[h]
  BY Zenon DEF IsFiles
<1>2. IsFiles(ftable')
  BY <1>1, Zenon DEF IsFiles
<1>3. ASSUME NEW h \in (1 .. NFILE) \ {f} PROVE ftable'[h].ref = ftable[h].ref - Eq(ofile[p][fd], h) + Eq(g, h)
  <2>1. PICK n : n = ftable[h].ref /\ n \in Nat
    BY Zenon DEF IsFiles, IsFile
  <2>2. n = n - 0 + 0
    BY <2>1
  <2>3. ftable'[h] = ftable[h] /\ Eq(ofile[p][fd], h) = 0 /\ Eq(g, h) = 0
    BY <1>1, Zenon
  <2>. QED
    BY <2>1, <2>2, <2>3, Zenon
<1>4. \A h \in 1 .. NFILE : ftable'[h].ref = ftable[h].ref - Eq(ofile[p][fd], h) + Eq(g, h)
  BY <1>1, <1>3, Zenon
<1>. QED
  BY <1>1, <1>2, <1>4, Zenon DEF FileMoved

LEMMA Closed ==
    ASSUME RefsInv, NEW p \in Procs, NEW fd \in Descriptors, NEW f, f = ofile[p][fd], f # 0,
           ofile' = [ofile EXCEPT ![p][fd] = 0], ftable' = fileclosed(ftable, f), cwd' = cwd, NEW d, d = Dropped(ftable, f)
    PROVE  f \in 1 .. NFILE /\ FileMoved(p, fd, 0, f) /\ DropTasks(d) /\ Drops(ftable[f], ftable'[f], d)
<1>1. ofile \in AllFds /\ IsFiles(ftable) /\ \A h \in 1 .. NFILE : ftable[h].ref = Cardinality(FdOf(ofile, h))
  BY Zenon DEF RefsInv, Refs, Counted, AllFds, IsFiles
<1>2. f \in 1 .. NFILE
  BY <1>1, FileTableConstants DEF AllFds
<1>3. FdsBy(ofile, ofile', f, 0, f)
  BY <1>1, FdChange, Zenon
<1>4. PICK r : r = ftable[f] /\ IsFile(r) /\ r.ref \in Nat /\ r.ref # 0
  <2>1. Eq(f, f) = 1 /\ Eq(0, f) = 0
    BY DEF Eq
  <2>2. PICK m \in Nat, n \in Nat : m = Cardinality(FdOf(ofile, f)) /\ n = m - 1 + 0
    BY <1>3, <2>1 DEF FdsBy
  <2>3. m # 0
    BY <2>2
  <2>. QED
    BY <1>1, <1>2, <2>2, <2>3, Zenon DEF IsFiles, IsFile
<1>5. IsFile(NoFile) /\ NoFile.ref = 0 /\ NoFile.type = "none"
  BY DEF IsFile, NoFile
<1>6. FileMoved(p, fd, 0, f)
  <2>3. Eq(f, f) = 1 /\ \A h \in 1 .. NFILE : Eq(0, h) = 0 /\ (h # f => Eq(f, h) = 0)
    BY DEF Eq
  <2>1. CASE r.ref = 1
    <3>1. ftable' = [ftable EXCEPT ![f] = NoFile] /\ NoFile.ref = r.ref - 1 + 0
      BY <1>4, <1>5, <2>1 DEF fileclosed
    <3>2. /\ NoFile.ref = ftable[f].ref - Eq(ofile[p][fd], f) + Eq(0, f)
          /\ \A h \in (1 .. NFILE) \ {f} : Eq(ofile[p][fd], h) = 0 /\ Eq(0, h) = 0
      BY <1>2, <1>4, <2>3, <3>1, Zenon
    <3>. QED
      BY <1>1, <1>2, <1>5, <3>1, <3>2, FileSet, Zenon
  <2>2. CASE r.ref # 1
    <3>1. PICK u : u = [r EXCEPT !.ref = r.ref - 1]
      BY Zenon
    <3>2. IsFile(u) /\ u.ref = r.ref - 1 + 0
      <4>1. PICK n : n = r.ref /\ n \in Nat /\ n # 0 /\ n # 1
        BY <1>4, <2>2, Zenon
      <4>2. n - 1 \in Nat /\ n - 1 # 0 /\ n - 1 + 0 = n - 1
        BY <4>1
      <4>3. DOMAIN u = DOMAIN r /\ u.ref = n - 1
        BY <1>4, <3>1, <4>1, Zenon DEF IsFile
      <4>. QED
        BY <1>4, <4>1, <4>2, <4>3, Zenon DEF IsFile
    <3>3. ftable' = [ftable EXCEPT ![f] = u]
      BY <1>4, <2>2, <3>1 DEF fileclosed
    <3>4. /\ u.ref = ftable[f].ref - Eq(ofile[p][fd], f) + Eq(0, f)
          /\ \A h \in (1 .. NFILE) \ {f} : Eq(ofile[p][fd], h) = 0 /\ Eq(0, h) = 0
      BY <1>2, <1>4, <2>3, <3>2, Zenon
    <3>. QED
      BY <1>1, <1>2, <3>2, <3>3, <3>4, FileSet, Zenon
  <2>. QED
    BY <2>1, <2>2
<1>7. CASE r.ref = 1
  <2>1. ftable'[f] = NoFile /\ \A i : Obj(NoFile, i) = 0
    BY <1>1, <1>2, <1>4, <1>5, <1>7 DEF fileclosed, IsFiles, Obj
  <2>2. CASE r.type \in {"inode", "device"}
    <3>1. d = <<Put(r.obj)>> /\ \A i \in Inums : Ptrs(<<Put(r.obj)>>, i) = Eq(r.obj, i)
      BY <1>4, <1>7, <2>2, PutOne DEF Dropped, ClosesLast
    <3>2. \A i : Obj(r, i) = 0 + Eq(r.obj, i)
      BY <2>2 DEF Obj, Eq
    <3>. QED
      BY <1>2, <1>4, <1>6, <2>1, <3>1, <3>2, Zenon DEF DropTasks, Drops
  <2>3. CASE r.type \notin {"inode", "device"}
    <3>1. d = << >> /\ \A i : Ptrs(<< >>, i) = 0
      BY <1>4, <2>3, List0, Zenon DEF Dropped
    <3>2. \A i : Obj(r, i) = 0 + 0
      BY <2>3 DEF Obj
    <3>. QED
      BY <1>2, <1>4, <1>6, <2>1, <3>1, <3>2 DEF DropTasks, Drops
  <2>. QED
    BY <2>2, <2>3
<1>8. CASE r.ref # 1
  <2>1. d = << >> /\ \A i : Ptrs(<< >>, i) = 0
    BY <1>4, <1>8, List0, Zenon DEF Dropped, ClosesLast
  <2>2. \A i : Obj(ftable'[f], i) = Obj(r, i) /\ Obj(r, i) \in Nat
    BY <1>1, <1>2, <1>4, <1>8 DEF fileclosed, IsFiles, IsFile, Obj
  <2>3. \A n \in Nat : n = n + 0
    OBVIOUS
  <2>4. \A i : Obj(r, i) = Obj(r, i) + 0
    BY <2>2, <2>3, Zenon
  <2>. QED
    BY <1>2, <1>4, <1>6, <2>1, <2>2, <2>4, Zenon DEF DropTasks, Drops
<1>. QED
  BY <1>7, <1>8, Zenon

LEMMA DropList ==
    ASSUME NEW d, DropTasks(d)
    PROVE  Shape(d) /\ Plain(d) /\ \A i \in Inums : Ptrs(d, i) \in Nat
<1>. USE Zenon
<1>1. Shape(d) /\ Plain(d)
  BY List0, PutOne DEF DropTasks
<1>. QED
  BY <1>1, ShapeSmall, PtrsNat

LEMMA SysClose == ASSUME RefsInv, NEW p \in Procs, NEW c, sys_close(p, c) PROVE RefsInv'
<1>1. PICK f, d : /\ f = ofile[p][c.fd] /\ f # 0 /\ c.fd \in Descriptors /\ d = Dropped(ftable, f)
                  /\ ofile' = [ofile EXCEPT ![p][c.fd] = 0] /\ ftable' = fileclosed(ftable, f)
                  /\ todo' = [todo EXCEPT ![p] = d] /\ itable' = itable /\ cwd' = cwd
  BY Zenon DEF sys_close, Enter, argfd
<1>2. todo[p] = << >> /\ cwd[p] # 0 /\ IsFun(todo) /\ IsTable(itable)
  BY Zenon DEF sys_close, Calls, RefsInv, Refs
<1>3. f \in 1 .. NFILE /\ FileMoved(p, c.fd, 0, f) /\ DropTasks(d) /\ Drops(ftable[f], ftable'[f], d)
  BY <1>1, Closed, Zenon
<1>4. Shape(d) /\ Plain(d) /\ Plain(<< >>) /\ \A i \in Inums : Ptrs(d, i) \in Nat /\ Ptrs(<< >>, i) = 0
  BY <1>3, DropList, List0
<1>5. TasksMoved(p, d)
  BY <1>1, <1>2, <1>4 DEF TasksMoved, IsFun, Plain
<1>6. FilePaid(p, f, d)
  <2>1. ASSUME NEW i \in Inums
        PROVE  itable'[i].ref + Obj(ftable[f], i) + Ptrs(todo[p], i) = itable[i].ref + Obj(ftable'[f], i) + Ptrs(d, i)
    <3>1. PICK x, o, n : /\ x = itable[i].ref /\ o = Obj(ftable'[f], i) /\ n = Ptrs(d, i)
                         /\ x \in Nat /\ o \in Nat /\ n \in Nat
      BY <1>2, <1>4, ObjNat, Zenon DEF IsTable, IsInode
    <3>2. itable'[i].ref = x /\ Obj(ftable[f], i) = o + n /\ Ptrs(todo[p], i) = 0
      BY <1>1, <1>2, <1>3, <1>4, <3>1, Zenon DEF Drops
    <3>3. x + (o + n) + 0 = x + o + n
      BY <3>1
    <3>. QED
      BY <3>1, <3>2, <3>3, Zenon
  <2>. QED
    BY <1>1, <1>2, <2>1, Zenon DEF FilePaid
<1>7. 0 \in 0 .. NFILE
  BY FileTableConstants
<1>. QED
  BY <1>1, <1>2, <1>3, <1>5, <1>6, <1>7, FdStep

LEMMA ExitCall == ASSUME RefsInv, NEW p \in Procs, NEW c, exit(p, c) PROVE RefsInv'
<1>1. PICK ts, a, b, d : /\ a = Task("close") /\ b = Put(cwd[p]) /\ d = Task("exit_done") /\ ts = <<a, b, d>>
                         /\ Calls(p, c) /\ Enter(p, c, ts) /\ UNCHANGED files /\ itable' = itable
  BY DEF exit
<1>2. IsPut(b) /\ \A i \in Inums : One(b, i) = Eq(cwd[p], i)
  BY <1>1, OnePut
<1>3. Triple(a, b, d) /\ a.op = "close" /\ d.op = "exit_done" /\ \A i \in Inums : One(a, i) = 0 /\ One(d, i) = 0
  BY <1>1, <1>2 DEF Task, T, Triple, IsTask, Idle, One, Eq, Inums
<1>4. Shape(ts) /\ Leaving(ts) /\ ~Exiting(ts) /\ \A i : Ptrs(ts, i) = One(a, i) + One(b, i) + One(d, i)
  BY <1>1, <1>3, List3
<1>5. \A i \in Inums : Dir(cwd[p], ts, i) = 0
  BY <1>4 DEF Dir
<1>6. IsTable(itable) /\ IsTable(itable')
  BY <1>1, Zenon DEF RefsInv, Refs
<1>7. \A i \in Inums : itable'[i].ref + Eq(cwd[p], i) = itable[i].ref + Dir(cwd[p], ts, i) + Ptrs(ts, i)
  BY <1>1, <1>2, <1>3, <1>4, <1>5, <1>6 DEF Eq, IsTable, IsInode
<1>. QED
  BY <1>1, <1>4, <1>6, <1>7, Called, Zenon

LEMMA ExitClose == ASSUME RefsInv, NEW p \in Procs, Ready(p), exit_close(p) PROVE RefsInv'
<1>. DEFINE t == Top(p)
<1>1. t.op = "close" /\ itable' = itable /\ cwd' = cwd
  BY Zenon DEF exit_close
<1>2. PICK b, c : todo[p] = <<t, b, c>> /\ Triple(t, b, c)
  <2>1. ~IsPut(t) /\ ~Final(t) /\ \A b : ~Pair(t, b)
    BY <1>1 DEF IsPut, Final, Pair, Looks, Creating
  <2>. QED
    BY <2>1, TopFirst, Zenon DEF FirstTask
<1>3. IsPut(b) /\ c.op = "exit_done" /\ Final(c) /\ \A i \in Inums : One(t, i) = 0 /\ One(b, i) \in Nat /\ One(c, i) = 0
  BY <1>1, <1>2 DEF Triple, Looks, Idle, Final, One, Eq, Inums
<1>4. Leaving(todo[p]) /\ ~Exiting(todo[p]) /\ \A i : Ptrs(todo[p], i) = One(t, i) + One(b, i) + One(c, i)
  BY <1>1, <1>2, <1>3, List3
<1>5. /\ IsTable(itable) /\ IsFun(todo) /\ IsFun(cwd) /\ cwd[p] # 0
      /\ Shape(todo[p]) /\ Call(todo[p]) /\ \A i \in Inums : Ptrs(todo[p], i) \in Nat
  BY <1>2, Typed, ShapeSmall, PtrsNat, Zenon DEF RefsInv, Refs, Call
<1>6. CASE NoFiles(ofile, p)
  <2>1. PICK ts : ts = <<b, c>> /\ Do(p, ts) /\ UNCHANGED <<ftable, ofile>>
    BY <1>2, <1>6 DEF exit_close, NoFiles, Rest
  <2>2. Shape(ts) /\ Leaving(ts) /\ \A i : Ptrs(ts, i) = One(b, i) + One(c, i)
    BY <1>3, <2>1, List2 DEF Quiet
  <2>3. Moved(p, ts, cwd[p]) /\ Settled(p, ts, cwd[p])
    BY <1>1, <1>5, <1>6, <2>1, <2>2, Zenon DEF Moved, Settled, Do
  <2>4. Paid(p, ts, cwd[p])
    BY <1>1, <1>3, <1>4, <1>5, <2>2 DEF Paid, Dir, IsTable, IsInode
  <2>. QED
    BY <2>3, <2>4, Moves, Zenon
<1>7. CASE ~NoFiles(ofile, p)
  <2>1. PICK fd, f, d, ts :
           /\ fd \in Descriptors /\ f = ofile[p][fd] /\ f # 0 /\ d = Dropped(ftable, f) /\ ts = d \o todo[p]
           /\ ofile' = [ofile EXCEPT ![p][fd] = 0] /\ ftable' = fileclosed(ftable, f) /\ Do(p, ts)
    <3>1. PICK A : A = {fd \in Descriptors : ofile[p][fd] # 0}
      BY Zenon
    <3>2. A \subseteq Nat /\ A # {}
      BY <1>7, <3>1 DEF NoFiles, Descriptors
    <3>3. Min(A) \in A
      BY <3>2, MinOfNats, Zenon
    <3>. QED
      BY <3>1, <3>2, <3>3, Zenon DEF exit_close
  <2>2. f \in 1 .. NFILE /\ FileMoved(p, fd, 0, f) /\ DropTasks(d) /\ Drops(ftable[f], ftable'[f], d)
    BY <1>1, <2>1, Closed, Zenon
  <2>3. /\ Shape(ts) /\ Leaving(ts) /\ ~Exiting(ts)
        /\ \A i \in Inums : Ptrs(ts, i) = Ptrs(d, i) + Ptrs(todo[p], i) /\ Ptrs(d, i) \in Nat
    <3>1. ASSUME NEW x, d = <<Put(x)>>
          PROVE  Shape(ts) /\ Leaving(ts) /\ ~Exiting(ts) /\ \A i \in Inums : Ptrs(ts, i) = Ptrs(d, i) + Ptrs(todo[p], i)
      <4>1. IsPut(Put(x)) /\ \A i \in Inums : Ptrs(d, i) = One(Put(x), i)
        BY <3>1, OnePut, List1, Zenon
      <4>2. /\ Shape(<<Put(x)>> \o todo[p])
            /\ Leaving(<<Put(x)>> \o todo[p]) <=> Leaving(todo[p])
            /\ Exiting(<<Put(x)>> \o todo[p]) <=> Exiting(todo[p])
            /\ \A i : Ptrs(<<Put(x)>> \o todo[p], i) = One(Put(x), i) + Ptrs(todo[p], i)
        BY <1>5, <4>1, ListPut, Zenon
      <4>. QED
        BY <1>4, <2>1, <3>1, <4>1, <4>2, Zenon
    <3>2. CASE d = << >>
      <4>1. ts = todo[p] /\ \A i : Ptrs(d, i) = 0
        BY <1>2, <2>1, <3>2, List0
      <4>. QED
        BY <1>4, <1>5, <4>1
    <3>. QED
      BY <2>2, <3>1, <3>2, DropList, Zenon DEF DropTasks
  <2>4. TasksMoved(p, ts)
    BY <1>4, <1>5, <2>1, <2>3 DEF TasksMoved, IsFun, Do
  <2>5. FilePaid(p, f, ts)
    BY <1>1, <1>5, <2>2, <2>3, ObjNat DEF FilePaid, IsTable, IsInode, Drops
  <2>6. 0 \in 0 .. NFILE
    BY FileTableConstants
  <2>. QED
    BY <1>5, <2>1, <2>2, <2>4, <2>5, <2>6, FdStep, Zenon
<1>. QED
  BY <1>6, <1>7, Zenon

-----------------------------------------------------------------------------
(***************************************************************************)
(* dup(), open(), read() and write().                                      *)
(***************************************************************************)
\* A file gets a descriptor.
Gains(p, fd, f, u) ==
    /\ fd \in Descriptors /\ ofile[p][fd] = 0 /\ f \in 1 .. NFILE /\ IsFile(u) /\ u.ref = ftable[f].ref + 1
    /\ ofile' = [ofile EXCEPT ![p][fd] = f] /\ ftable' = [ftable EXCEPT ![f] = u] /\ cwd' = cwd

LEMMA FileGains ==
    ASSUME IsFiles(ftable), ofile \in AllFds, NEW p \in Procs, NEW fd, NEW f, NEW u, Gains(p, fd, f, u)
    PROVE  FileMoved(p, fd, f, f)
<1>1. DOMAIN ftable' = 1 .. NFILE /\ ftable'[f] = u /\ \A h \in (1 .. NFILE) \ {f} : ftable'[h] = ftable[h]
  BY DEF IsFiles, Gains
<1>2. IsFiles(ftable')
  BY <1>1 DEF IsFiles, Gains
<1>3. \A h \in 1 .. NFILE : ftable'[h].ref = ftable[h].ref - Eq(ofile[p][fd], h) + Eq(f, h)
  BY <1>1 DEF IsFiles, IsFile, Eq, Gains
<1>. QED
  BY <1>1, <1>2, <1>3, Zenon DEF FileMoved, Gains

\* fdalloc() takes a free descriptor.
LEMMA FdFree == ASSUME NEW of, NEW fd, fd = fdalloc(of), fd # -1 PROVE fd \in Descriptors /\ of[fd] = 0
<1>1. PICK A : A = {d \in Descriptors : of[d] = 0}
  BY Zenon
<1>2. A \subseteq Nat
  BY <1>1 DEF Descriptors
<1>3. A # {} /\ fd = Min(A)
  BY <1>1, Zenon DEF fdalloc
<1>. QED
  BY <1>1, <1>2, <1>3, MinOfNats, Zenon

LEMMA SysDup == ASSUME RefsInv, NEW p \in Procs, NEW c, sys_dup(p, c) PROVE RefsInv'
<1>1. PICK f, fd : /\ f = ofile[p][c.fd] /\ f # 0 /\ c.fd \in Descriptors /\ fd = fdalloc(ofile[p]) /\ fd # -1
                   /\ ofile' = [ofile EXCEPT ![p][fd] = f] /\ ftable' = filedup(ftable, f)
                   /\ todo' = todo /\ itable' = itable /\ cwd' = cwd
  BY Zenon DEF sys_dup, argfd
<1>2. todo[p] = << >> /\ cwd[p] # 0 /\ IsFun(todo) /\ IsTable(itable) /\ IsFiles(ftable) /\ ofile \in AllFds
  BY Zenon DEF sys_dup, Calls, RefsInv, Refs, AllFds
<1>3. fd \in Descriptors /\ ofile[p][fd] = 0
  BY <1>1, FdFree, Zenon
<1>4. f \in 0 .. NFILE /\ f \in 1 .. NFILE
  BY <1>1, <1>2, FileTableConstants DEF AllFds
<1>5. PICK r, u : r = ftable[f] /\ IsFile(r) /\ u = [r EXCEPT !.ref = r.ref + 1] /\ ftable' = [ftable EXCEPT ![f] = u]
  BY <1>1, <1>2, <1>4, Zenon DEF filedup, IsFiles
<1>6. IsFile(u) /\ r.ref \in Nat /\ u.ref = r.ref + 1 /\ \A i : Obj(u, i) = Obj(r, i) /\ Obj(r, i) \in Nat
  BY <1>5 DEF IsFile, Obj
<1>7. FileMoved(p, fd, f, f) /\ ftable'[f] = u
  <2>1. Gains(p, fd, f, u)
    BY <1>1, <1>3, <1>4, <1>5, <1>6, Zenon DEF Gains
  <2>2. ftable'[f] = u
    BY <1>2, <1>4, <1>5 DEF IsFiles
  <2>. QED
    BY <1>2, <2>1, <2>2, FileGains, Zenon
<1>8. Shape(<< >>) /\ Plain(<< >>) /\ \A i : Ptrs(<< >>, i) = 0
  BY List0, Zenon
<1>9. TasksMoved(p, << >>)
  BY <1>1, <1>2, <1>8, Zenon DEF TasksMoved, Plain
<1>10. FilePaid(p, f, << >>)
  BY <1>1, <1>2, <1>5, <1>6, <1>7, <1>8, Zenon DEF FilePaid, IsTable, IsInode
<1>. QED
  BY <1>2, <1>3, <1>4, <1>7, <1>9, <1>10, FdStep, Zenon

\* filealloc() takes a file that no descriptor stands for.
Fresh(f, u) ==
    /\ f \in 1 .. NFILE /\ ftable[f].ref = 0 /\ ftable[f].type = "none" /\ \A i : Obj(ftable[f], i) = 0
    /\ filealloc(ftable) = [ftable EXCEPT ![f] = u] /\ u.ref = 1 /\ u.type = "none"

LEMMA FileFree == ASSUME IsFiles(ftable), NEW f, f = Unused(ftable), f # 0 PROVE \E u : Fresh(f, u)
<1>1. PICK A : A = {h \in 1 .. NFILE : ftable[h].ref = 0}
  BY Zenon
<1>2. A \subseteq Nat
  BY <1>1
<1>3. A # {} /\ f = Min(A)
  BY <1>1, Zenon DEF Unused
<1>4. f \in A
  BY <1>2, <1>3, MinOfNats, Zenon
<1>5. PICK r : r = ftable[f] /\ IsFile(r) /\ r.ref = 0 /\ r.type = "none" /\ f \in 1 .. NFILE
  BY <1>1, <1>4, Zenon DEF IsFiles, IsFile
<1>6. PICK u : u = [r EXCEPT !.ref = 1] /\ filealloc(ftable) = [ftable EXCEPT ![f] = u]
  BY <1>5, Zenon DEF filealloc
<1>7. u.ref = 1 /\ u.type = "none" /\ \A i : Obj(r, i) = 0
  BY <1>5, <1>6 DEF IsFile, Obj
<1>. QED
  BY <1>5, <1>6, <1>7, Zenon DEF Fresh

LEMMA Open == ASSUME RefsInv, NEW p \in Procs, Ready(p), open(p) PROVE RefsInv'
<1>. DEFINE t == Top(p)
            f == Unused(ftable)
            fd == fdalloc(ofile[p])
            d == S(t.ip).ip.type = "dev"
            file == [ref |-> 1, type |-> IF d THEN "device" ELSE "inode", obj |-> t.ip, off |-> 0,
                     readable |-> call[p].mode.acc # "w", writable |-> call[p].mode.acc # "r"]
<1>1. t.op \in {"open", "open_locked"} /\ \E s : itable' = iunlock(itable, t.ip, s)
  BY Zenon DEF open
<1>2. t.op \in OneOps /\ Quiet(t)
  BY <1>1 DEF OneOps, Quiet
<1>3. /\ IsTable(itable) /\ Kept(itable, itable') /\ todo[p] # << >> /\ Shape(todo[p]) /\ Final(t)
      /\ Plain(todo[p]) /\ \A i \in Inums : Ptrs(todo[p], i) = One(t, i)
  BY <1>1, <1>2, OneTop, List1, Typed, IunlockKeeps, Zenon
<1>4. \A i \in Inums : One(t, i) = Eq(t.ip, i)
  BY <1>1, <1>3 DEF Final, One, Eq, Inums
<1>5. Shape(<<Put(t.ip)>>) /\ Plain(<<Put(t.ip)>>) /\ \A i \in Inums : Ptrs(<<Put(t.ip)>>, i) = Eq(t.ip, i)
  BY PutOne, Zenon
<1>6. IsFiles(ftable) /\ IsFun(todo) /\ IsFun(cwd) /\ ofile \in AllFds /\ cwd[p] # 0
  BY <1>3, Zenon DEF RefsInv, Refs, AllFds
<1>7. ASSUME Do(p, <<Put(t.ip)>>), UNCHANGED <<ofile, cwd>>, ftable' = ftable \/ SameFiles(ftable, ftable')
      PROVE  RefsInv'
  <2>1. PICK ts : ts = <<Put(t.ip)>> /\ \A i \in Inums : Ptrs(ts, i) = Ptrs(todo[p], i)
    BY <1>3, <1>4, <1>5, Zenon
  <2>2. IsTable(itable') /\ Balanced(itable, itable', todo[p], ts)
    BY <1>3, <2>1, BalancedKept, Zenon
  <2>3. Stays(p, ts)
    BY <1>3, <1>5, <1>7, <2>1, Zenon DEF Stays, Plain
  <2>. QED
    BY <2>2, <2>3, TaskStep, Zenon
<1>8. CASE f # 0 /\ fd = -1 /\ ftable' = fileclosed(filealloc(ftable), f) /\ UNCHANGED <<ofile, cwd>>
           /\ Do(p, Dropped(filealloc(ftable), f) \o <<Put(t.ip)>>)
  <2>1. PICK u : Fresh(f, u)
    BY <1>6, <1>8, FileFree, Zenon
  <2>2. ftable' = [ftable EXCEPT ![f] = NoFile] /\ Dropped(filealloc(ftable), f) = << >>
    BY <1>6, <1>8, <2>1, Zenon DEF Fresh, fileclosed, Dropped, ClosesLast, IsFiles
  <2>3. SameFiles(ftable, ftable') /\ << >> \o <<Put(t.ip)>> = <<Put(t.ip)>>
    BY <1>6, <2>1, <2>2 DEF Fresh, SameFiles, IsFiles, IsFile, NoFile
  <2>. QED
    BY <1>7, <1>8, <2>2, <2>3, Zenon
<1>9. CASE /\ f # 0 /\ fd # -1 /\ ofile' = [ofile EXCEPT ![p][fd] = f] /\ Do(p, << >>) /\ cwd' = cwd
           /\ ftable' = [filealloc(ftable) EXCEPT ![f] = file]
  <2>1. PICK u : Fresh(f, u)
    BY <1>6, <1>9, FileFree, Zenon
  <2>2. f \in 1 .. NFILE /\ f \in 0 .. NFILE /\ \A i : Obj(ftable[f], i) = 0
    BY <2>1 DEF Fresh
  <2>3. fd \in Descriptors /\ ofile[p][fd] = 0
    BY <1>9, FdFree, Zenon
  <2>4. PICK r : /\ IsFile(r) /\ r.ref = ftable[f].ref + 1 /\ ftable' = [ftable EXCEPT ![f] = r]
                 /\ \A i : Obj(r, i) = Eq(t.ip, i)
    <3>1. ftable[f].ref = 0 /\ ftable' = [ftable EXCEPT ![f] = file]
      BY <1>9, <2>1, Zenon DEF Fresh
    <3>2. IsFile(file) /\ file.ref = 0 + 1 /\ \A i : Obj(file, i) = Eq(t.ip, i)
      <4>1. IsFile(file) /\ file.ref = 0 + 1
        BY DEF IsFile
      <4>2. file.type \in {"inode", "device"} /\ file.obj = t.ip
        OBVIOUS
      <4>. QED
        BY <4>1, <4>2 DEF Obj, Eq
    <3>. QED
      BY <3>1, <3>2, Zenon
  <2>5. FileMoved(p, fd, f, f) /\ ftable'[f] = r
    <3>1. Gains(p, fd, f, r)
      BY <1>9, <2>2, <2>3, <2>4, Zenon DEF Gains
    <3>2. ftable'[f] = r
      BY <1>6, <2>2, <2>4 DEF IsFiles
    <3>. QED
      BY <1>6, <3>1, <3>2, FileGains, Zenon
  <2>6. Shape(<< >>) /\ Plain(<< >>) /\ \A i : Ptrs(<< >>, i) = 0
    BY List0, Zenon
  <2>7. TasksMoved(p, << >>)
    BY <1>3, <1>6, <1>9, <2>6 DEF TasksMoved, Do, IsFun, Plain
  <2>8. FilePaid(p, f, << >>)
    <3>1. ASSUME NEW i \in Inums
          PROVE  itable'[i].ref + Obj(ftable[f], i) + Ptrs(todo[p], i) = itable[i].ref + Obj(ftable'[f], i) + Ptrs(<< >>, i)
      <4>1. PICK x, e : x = itable[i].ref /\ e = Eq(t.ip, i) /\ x \in Nat /\ e \in Nat
        BY <1>3, EqNat, Zenon DEF IsTable, IsInode
      <4>2. itable'[i].ref = x /\ Obj(ftable[f], i) = 0 /\ Ptrs(todo[p], i) = e /\ Obj(ftable'[f], i) = e /\ Ptrs(<< >>, i) = 0
        BY <1>3, <1>4, <2>2, <2>4, <2>5, <2>6, <4>1, Zenon DEF Kept
      <4>3. x + 0 + e = x + e + 0
        BY <4>1
      <4>. QED
        BY <4>1, <4>2, <4>3, Zenon
    <3>. QED
      BY <1>3, <3>1, Zenon DEF FilePaid, Kept
  <2>. QED
    BY <1>6, <2>2, <2>3, <2>5, <2>7, <2>8, FdStep, Zenon
<1>. QED
  BY <1>7, <1>8, <1>9, Zenon DEF open, files

LEMMA FileCall == ASSUME RefsInv, NEW p \in Procs, NEW c, file_call(p, c) PROVE RefsInv'
<1>1. PICK u : /\ Calls(p, c) /\ Enter(p, c, <<u>>) /\ UNCHANGED files /\ itable' = itable
               /\ c.op \in {"read", "write", "stat"} /\ \E f, k : u = [T(c.op, 0, 0, << >>) EXCEPT !.f = f, !.k = k]
  BY Zenon DEF file_call
<1>2. Final(u) /\ Quiet(u) /\ \A i \in Inums : One(u, i) = 0
  BY <1>1 DEF T, Final, Quiet, IsTask, Idle, One, Eq, Inums
<1>3. Shape(<<u>>) /\ Plain(<<u>>) /\ \A i \in Inums : Ptrs(<<u>>, i) = 0
  BY <1>2, List1
<1>4. \A i \in Inums : Dir(cwd[p], <<u>>, i) = Eq(cwd[p], i)
  BY <1>3 DEF Plain, Dir, Eq
<1>5. IsTable(itable) /\ IsTable(itable')
  BY <1>1 DEF RefsInv, Refs
<1>6. ASSUME NEW i \in Inums
      PROVE  itable'[i].ref + Eq(cwd[p], i) = itable[i].ref + Dir(cwd[p], <<u>>, i) + Ptrs(<<u>>, i)
  <2>1. PICK x, e : x = itable[i].ref /\ e = Eq(cwd[p], i) /\ x \in Nat /\ e \in Nat
    BY <1>5, EqNat, Zenon DEF IsTable, IsInode
  <2>2. x + e = x + e + 0
    BY <2>1
  <2>. QED
    BY <1>1, <1>3, <1>4, <2>1, <2>2, Zenon
<1>7. ~Exiting(<<u>>)
  BY <1>3, Zenon DEF Plain
<1>. QED
  BY <1>1, <1>3, <1>5, <1>6, <1>7, Called, Zenon

\* Reading and writing move an offset.
LEMMA ReadWrite == ASSUME RefsInv, NEW p \in Procs, Ready(p), fileread(p) \/ filewrite(p) \/ filestat(p) PROVE RefsInv'
<1>. USE Zenon
<1>. DEFINE t == Top(p)
<1>1. t.op \in {"read", "write", "stat"} /\ UNCHANGED <<ofile, cwd>> /\ \E x, s : itable' = iunlock(itable, x, s)
  <2>1. CASE fileread(p)
    BY <2>1 DEF fileread
  <2>2. CASE filewrite(p)
    BY <2>2 DEF filewrite
  <2>3. CASE filestat(p)
    BY <2>3 DEF filestat, files
  <2>. QED
    BY <2>1, <2>2, <2>3
<1>2. t.op \in OneOps /\ Quiet(t)
  BY <1>1, SMT DEF OneOps, Quiet
<1>3. /\ todo[p] = <<t>> /\ Final(t) /\ Plain(todo[p]) /\ todo[p] # << >> /\ Shape(todo[p]) /\ IsTable(itable)
      /\ \A i \in Inums : Ptrs(todo[p], i) = One(t, i)
  BY <1>2, OneTop, List1, Typed
<1>4. IsTask(t) /\ Idle(t) /\ \A i \in Inums : One(t, i) = 0
  <2>1. IsTask(t) /\ Idle(t)
    BY <1>1, <1>3, SMT DEF Final
  <2>. QED
    BY <2>1, SMT DEF Idle, One, Eq, Inums
<1>5. \E ts : Do(p, ts) /\ (ts = << >> \/ \E k : ts = <<[t EXCEPT !.k = k]>>)
  <2>1. CASE fileread(p)
    BY <2>1 DEF fileread
  <2>2. CASE filewrite(p)
    <3>. DEFINE n1 == Min({t.k, MAXCHUNK})
    <3>1. PICK s : Do(p, IF tot(ftable[t.f].off, s) = n1 /\ t.k > n1 THEN <<[t EXCEPT !.k = @ - n1]>> ELSE << >>)
      BY <2>2 DEF filewrite
    <3>2. CASE tot(ftable[t.f].off, s) = n1 /\ t.k > n1
      BY <3>1, <3>2
    <3>3. CASE ~(tot(ftable[t.f].off, s) = n1 /\ t.k > n1)
      BY <3>1, <3>3
    <3>. QED
      BY <3>2, <3>3
  <2>3. CASE filestat(p)
    BY <2>3 DEF filestat
  <2>. QED
    BY <2>1, <2>2, <2>3
<1>6. PICK ts : Do(p, ts) /\ Shape(ts) /\ Plain(ts) /\ \A i \in Inums : Ptrs(ts, i) = 0
  <2>1. ASSUME NEW k, NEW u, u = [t EXCEPT !.k = k]
        PROVE  Shape(<<u>>) /\ Plain(<<u>>) /\ \A i \in Inums : Ptrs(<<u>>, i) = 0
    <3>1. Final(u) /\ Quiet(u) /\ \A i \in Inums : One(u, i) = 0
      BY <1>1, <1>4, <2>1, SMT DEF Final, Quiet, IsTask, Idle, One, Eq, Inums
    <3>. QED
      BY <3>1, List1
  <2>. QED
    BY <1>5, <2>1, List0
<1>7. SameFiles(ftable, ftable')
  <2>1. SameFiles(ftable, ftable) /\ \A f, o : SameFiles(ftable, [ftable EXCEPT ![f].off = o])
    <3>1. IsFiles(ftable)
      BY DEF RefsInv, Refs
    <3>. QED
      BY <3>1, SMT DEF SameFiles, IsFiles, IsFile
  <2>2. ftable' = ftable \/ \E f, o : ftable' = [ftable EXCEPT ![f].off = o]
    BY DEF fileread, filewrite, filestat, files
  <2>. QED
    BY <2>1, <2>2, SMT
<1>8. IsTable(itable') /\ Balanced(itable, itable', todo[p], ts)
  BY <1>1, <1>3, <1>4, <1>6, IunlockKeeps, BalancedKept
<1>9. Stays(p, ts)
  BY <1>1, <1>3, <1>6, <1>7, Zenon DEF Plain, Stays
<1>. QED
  BY <1>8, <1>9, TaskStep, Zenon

-----------------------------------------------------------------------------
(***************************************************************************)
(* chdir(), fork() and booting.                                            *)
(***************************************************************************)
\* chdir() hands its old directory to an iput(), and then takes the new one.
LEMMA Chdir == ASSUME RefsInv, NEW p \in Procs, Ready(p), chdir(p) PROVE RefsInv'
<1>. DEFINE t == Top(p)
<1>1. t.op = "chdir" /\ UNCHANGED files /\ \E s : itable' = iunlock(itable, t.ip, s)
  BY Zenon DEF chdir
<1>2. t.op \in OneOps /\ Quiet(t)
  BY <1>1 DEF OneOps, Quiet
<1>3. Final(t) /\ Plain(todo[p]) /\ \A i \in Inums : Ptrs(todo[p], i) = One(t, i)
  BY <1>2, OneTop, List1, Zenon
<1>4. t.dp = 0 /\ t.ip # 0 /\ \A i \in Inums : One(t, i) = Eq(t.ip, i)
  BY <1>1, <1>3 DEF Final, One, Eq, Inums
<1>5. Kept(itable, itable')
  BY <1>1, Typed, IunlockKeeps, Zenon
<1>6. CASE Do(p, <<Put(t.ip)>>)
  BY <1>1, <1>2, <1>4, <1>5, <1>6, PutOne, PlainKept
<1>7. CASE Do(p, <<Put(cwd[p]), T("chdir_done", t.ip, 0, << >>)>>)
  <2>1. PICK ts, a, u : a = Put(cwd[p]) /\ u = T("chdir_done", t.ip, 0, << >>) /\ ts = <<a, u>>
    BY Zenon
  <2>2. IsPut(a) /\ \A i \in Inums : One(a, i) = Eq(cwd[p], i)
    BY <2>1, OnePut
  <2>3. Final(u) /\ ~Quiet(u) /\ u.op = "chdir_done" /\ \A i \in Inums : One(u, i) = Eq(t.ip, i)
    BY <1>4, <2>1, OneT DEF Final, Quiet, Eq, Inums
  <2>4. Shape(ts) /\ Leaving(ts) /\ \A i : Ptrs(ts, i) = One(a, i) + One(u, i)
    BY <2>1, <2>2, <2>3, List2, Zenon
  <2>5. ~Exiting(ts) /\ \A i : Dir(cwd[p], ts, i) = 0 /\ Dir(cwd[p], todo[p], i) = Eq(cwd[p], i)
    <3>1. \A k \in DOMAIN ts : ts[k] = a \/ ts[k] = u
      BY <2>1
    <3>2. ~Exiting(ts)
      BY <2>2, <2>3, <3>1 DEF Exiting, IsPut
    <3>. QED
      BY <1>3, <2>4, <3>2, Zenon DEF Dir, Plain, Eq
  <2>6. Paid(p, ts, cwd[p])
    <3>1. ASSUME NEW i \in Inums
          PROVE  itable'[i].ref + Dir(cwd[p], todo[p], i) + Ptrs(todo[p], i)
                 = itable[i].ref + Dir(cwd[p], ts, i) + Ptrs(ts, i)
      <4>1. PICK x, e, g : /\ x = itable[i].ref /\ e = Eq(cwd[p], i) /\ g = Eq(t.ip, i)
                           /\ x \in Nat /\ e \in Nat /\ g \in Nat
        BY Typed, EqNat, Zenon DEF IsTable, IsInode
      <4>2. /\ itable'[i].ref = x /\ Dir(cwd[p], todo[p], i) = e /\ Ptrs(todo[p], i) = g
            /\ Dir(cwd[p], ts, i) = 0 /\ Ptrs(ts, i) = e + g
        BY <1>3, <1>4, <1>5, <2>2, <2>3, <2>4, <2>5, <4>1, Zenon DEF Kept
      <4>3. x + e + g = x + 0 + (e + g)
        BY <4>1
      <4>. QED
        BY <4>1, <4>2, <4>3, Zenon
    <3>. QED
      BY <1>5, <3>1, Zenon DEF Paid, Kept
  <2>7. Moved(p, ts, cwd[p]) /\ Settled(p, ts, cwd[p])
    BY <1>1, <1>7, <2>1, <2>4, <2>5, Zenon DEF Do, files, RefsInv, Refs, Ready, Moved, Settled
  <2>. QED
    BY <2>6, <2>7, Moves
<1>. QED
  BY <1>6, <1>7, Zenon DEF chdir

LEMMA ChdirDone == ASSUME RefsInv, NEW p \in Procs, Ready(p), chdir_done(p) \/ exit_done(p) PROVE RefsInv'
<1>. DEFINE t == Top(p)
            c == IF t.op = "chdir_done" THEN t.ip ELSE 0
<1>1. /\ t.op = "chdir_done" \/ t.op = "exit_done"
      /\ cwd' = [cwd EXCEPT ![p] = c] /\ Do(p, Rest(p)) /\ itable' = itable /\ UNCHANGED <<ftable, ofile>>
  BY DEF chdir_done, exit_done
<1>2. t.op \in OneOps /\ ~Quiet(t)
  BY <1>1 DEF OneOps, Quiet
<1>3. todo[p] = <<t>> /\ Final(t) /\ Leaving(todo[p]) /\ \A i \in Inums : Ptrs(todo[p], i) = One(t, i)
  BY <1>2, OneTop, List1, Zenon
<1>4. c = t.ip /\ (c = 0 => t.op = "exit_done") /\ \A i \in Inums : One(t, i) = Eq(c, i)
  BY <1>1, <1>3 DEF Final, Idle, One, Eq, Inums
<1>. HIDE DEF c
<1>5. Rest(p) = << >> /\ (t.op = "exit_done" => Exiting(todo[p]))
  BY <1>3 DEF Rest, Exiting
<1>6. Shape(<< >>) /\ ~Leaving(<< >>) /\ ~Exiting(<< >>) /\ \A i : Ptrs(<< >>, i) = 0
  BY List0 DEF Plain
<1>7. IsTable(itable) /\ IsFun(cwd)
  BY Zenon DEF RefsInv, Refs
<1>8. Moved(p, << >>, c)
  BY <1>1, <1>5, <1>7 DEF IsFun, Moved, Do
<1>9. Paid(p, << >>, c)
  BY <1>1, <1>3, <1>4, <1>6, <1>7 DEF Dir, IsTable, IsInode, Eq, Paid
<1>10. Settled(p, << >>, c)
  BY <1>4, <1>5, <1>6, Zenon DEF RefsInv, Refs, Settled
<1>. QED
  BY <1>8, <1>9, <1>10, Moves

\* fork() gives the child its parent's descriptors, ...
FdsMore(of, o2, n, f) == n \in Nat /\ Cardinality(FdOf(o2, f)) = Cardinality(FdOf(of, f)) + n

LEMMA Copied ==
    ASSUME NEW of \in AllFds, NEW p \in Procs, NEW q \in Procs, NoFiles(of, q), NEW f, f # 0,
           NEW o2, o2 = [of EXCEPT ![q] = of[p]]
    PROVE  FdsMore(of, o2, Cardinality({fd \in Descriptors : of[p][fd] = f}), f)
<1>. DEFINE A == {fd \in Descriptors : of[p][fd] = f}
<1>1. FdOf(o2, f) = FdOf(of, f) \cup ({q} \X A) /\ FdOf(of, f) \cap ({q} \X A) = {}
  BY DEF FdOf, NoFiles, AllFds
<1>2. IsFiniteSet(A) /\ Cardinality(A) \in Nat
  <2>1. A \subseteq Descriptors
    OBVIOUS
  <2>. QED
    BY <2>1, FiniteFds, FS_Subset, FS_CardinalityType, Zenon
<1>3. IsFiniteSet(FdOf(of, f))
  BY FiniteFds, Zenon
<1>4. IsFiniteSet({q} \X A) /\ Cardinality({q} \X A) = Cardinality(A)
  BY <1>2, CardPairs, Zenon
<1>. QED
  BY <1>1, <1>2, <1>3, <1>4, CardUnion, Zenon DEF FdsMore

\* ... and its current directory.
LEMMA Fork == ASSUME RefsInv, NEW p \in Procs, NEW q \in Procs, fork(p, q) PROVE RefsInv'
<1>1. /\ cwd[p] # 0 /\ cwd[q] = 0 /\ ofile' = [ofile EXCEPT ![q] = ofile[p]]
      /\ itable' = idup(itable, cwd[p]) /\ cwd' = [cwd EXCEPT ![q] = cwd[p]] /\ todo' = todo
  BY Zenon DEF fork, Calls
<1>2. /\ IsTable(itable) /\ IsFiles(ftable) /\ ofile \in AllFds /\ IsFun(cwd) /\ IsFun(todo)
      /\ todo[q] = << >> /\ NoFiles(ofile, q) /\ \A f \in 1 .. NFILE : ftable[f].ref = Cardinality(FdOf(ofile, f))
  BY <1>1, Zenon DEF RefsInv, Refs, Counted, AllFds, IsFiles
<1>3. Added(itable, itable', cwd[p])
  BY <1>1, <1>2, IdupAdds, Zenon
<1>4. PICK k : /\ ftable' = [f \in 1 .. NFILE |-> [ftable[f] EXCEPT !.ref = ftable[f].ref + k[f]]]
               /\ \A f \in 1 .. NFILE : FdsMore(ofile, ofile', k[f], f)
  <2>. DEFINE k == [f \in 1 .. NFILE |-> Cardinality({fd \in Descriptors : ofile[p][fd] = f})]
  <2>1. ftable' = [f \in 1 .. NFILE |-> [ftable[f] EXCEPT !.ref = ftable[f].ref + k[f]]]
    BY <1>2 DEF fork, IsFiles
  <2>2. ASSUME NEW f \in 1 .. NFILE
        PROVE  FdsMore(ofile, ofile', k[f], f)
    <3>1. f # 0 /\ k[f] = Cardinality({fd \in Descriptors : ofile[p][fd] = f})
      OBVIOUS
    <3>. QED
      BY <1>1, <1>2, <3>1, Copied, Zenon
  <2>. QED
    BY <2>1, <2>2, Zenon
<1>5. ASSUME NEW f \in 1 .. NFILE
      PROVE  /\ IsFile(ftable'[f]) /\ ftable'[f].ref = ftable[f].ref + k[f]
             /\ ftable'[f].type = ftable[f].type /\ ftable'[f].obj = ftable[f].obj
  BY <1>2, <1>4 DEF IsFiles, IsFile, FdsMore
<1>6. DOMAIN ftable' = 1 .. NFILE /\ ofile' \in AllFds
  BY <1>1, <1>2, <1>4 DEF AllFds
<1>7. FilesFit(ftable', ofile')
  <2>1. \A f \in 1 .. NFILE : ftable'[f].ref = Cardinality(FdOf(ofile', f))
    BY <1>2, <1>4, <1>5, Zenon DEF FdsMore
  <2>. QED
    BY <1>5, <1>6, <2>1, Zenon DEF FilesFit, IsFiles, AllFds
<1>8. IsFun(cwd') /\ cwd'[q] = cwd[p] /\ \A o \in Procs \ {q} : ofile'[o] = ofile[o] /\ cwd'[o] = cwd[o]
  BY <1>1, <1>2 DEF IsFun, AllFds
<1>9. Shape(<< >>) /\ ~Leaving(<< >>) /\ ~Exiting(<< >>) /\ \A i : Ptrs(<< >>, i) = 0
  BY List0, Zenon DEF Plain
<1>10. ProcFits(ofile', cwd', todo', q) /\ Others(ofile, ofile', cwd, cwd', todo, todo', q)
  BY <1>1, <1>2, <1>8, <1>9, Zenon DEF ProcFits, Others
<1>11. ASSUME NEW i \in Inums
       PROVE  itable'[i].ref + Cur(cwd, todo, q, i) + Cardinality(FileOf(ftable, i)) + Ptrs(todo[q], i)
              = itable[i].ref + Cur(cwd', todo', q, i) + Cardinality(FileOf(ftable', i)) + Ptrs(todo'[q], i)
  <2>1. FileOf(ftable', i) = FileOf(ftable, i)
    BY <1>2, <1>5, <1>6 DEF FileOf, IsFiles
  <2>2. Cur(cwd, todo, q, i) = 0 /\ Cur(cwd', todo', q, i) = Eq(cwd[p], i)
    BY <1>1, <1>2, <1>8, <1>9 DEF Cur, Dir, Eq, Inums
  <2>3. Cardinality(FileOf(ftable, i)) \in Nat
    BY <1>2, FiniteSets, Zenon DEF IsFiles
  <2>4. itable'[i].ref = itable[i].ref + Eq(cwd[p], i) /\ itable[i].ref \in Nat
    BY <1>2, <1>3, Zenon DEF Added, IsTable, IsInode
  <2>. QED
    BY <1>1, <1>2, <1>9, <2>1, <2>2, <2>3, <2>4 DEF Eq
<1>12. Shifted(itable, itable', ftable, ftable', cwd, cwd', todo, todo', q) /\ IsTable(itable')
  BY <1>3, <1>11, Zenon DEF Shifted, Added
<1>. QED
  BY <1>7, <1>10, <1>12, FullStep, Zenon DEF RefsInv

\* What userinit() leaves is counted.
LEMMA Booted == Refs(Boot.itable, EmptyTable, Boot.ofile, Boot.cwd, Boot.todo)
<1>1. PICK it, of, cw, td : /\ it = Boot.itable /\ of = Boot.ofile /\ cw = Boot.cwd /\ td = Boot.todo
  BY Zenon
<1>2. IsTable(it) /\ \A i \in Inums : it[i].ref = Eq(ROOTINO, i)
  BY <1>1 DEF Boot, NoInode, IsTable, IsInode, Eq
<1>3. /\ of \in [Procs -> [Descriptors -> 0 .. NFILE]] /\ \A q \in Procs : NoFiles(of, q)
      /\ IsFun(td) /\ (\A q \in Procs : td[q] = << >>) /\ IsFun(cw) /\ \A q \in Procs : cw[q] = IF q = InitProc THEN ROOTINO ELSE 0
  BY <1>1, FileTableConstants DEF Boot, NoFiles, IsFun
<1>4. IsFiles(EmptyTable) /\ (\A f \in 1 .. NFILE : EmptyTable[f].ref = 0) /\ \A i : FileOf(EmptyTable, i) = {}
  BY DEF EmptyTable, NoFile, IsFiles, IsFile, FileOf
<1>5. Cardinality({}) = 0 /\ Cardinality({InitProc}) = 1
  BY FS_EmptySet, FS_Singleton, Zenon
<1>6. \A f \in 1 .. NFILE : FdOf(of, f) = {}
  BY <1>3 DEF FdOf, NoFiles
<1>7. \A i : IpOf(td, i) = {} /\ DpOf(td, i) = {}
  BY <1>3 DEF IpOf, DpOf, Places
<1>8. Shape(<< >>) /\ ~Leaving(<< >>) /\ ~Exiting(<< >>)
  BY List0, Zenon DEF Plain
<1>9. ASSUME NEW i \in Inums PROVE Cardinality(CwdOf(cw, td, i)) = Eq(ROOTINO, i)
  <2>1. CASE i = ROOTINO
    <3>1. CwdOf(cw, td, i) = {InitProc}
      BY <1>3, <1>8, <2>1, FsConstants DEF CwdOf, ROOTINO
    <3>. QED
      BY <1>5, <2>1, <3>1 DEF Eq
  <2>2. CASE i # ROOTINO
    <3>1. CwdOf(cw, td, i) = {}
      BY <1>3, <2>2 DEF CwdOf, Inums
    <3>. QED
      BY <1>5, <2>2, <3>1 DEF Eq
  <2>. QED
    BY <2>1, <2>2
<1>10. \A i \in Inums : it[i].ref = Cardinality(CwdOf(cw, td, i)) + Cardinality(FileOf(EmptyTable, i))
                                    + Cardinality(IpOf(td, i)) + Cardinality(DpOf(td, i))
  BY <1>2, <1>4, <1>5, <1>7, <1>9 DEF Eq
<1>11. Counted(it, EmptyTable, of, cw, td)
  BY <1>4, <1>5, <1>6, <1>10, Zenon DEF Counted, IsFiles
<1>12. Refs(it, EmptyTable, of, cw, td)
  BY <1>2, <1>3, <1>4, <1>8, <1>11, Zenon DEF Refs
<1>. QED
  BY <1>1, <1>12, Zenon

-----------------------------------------------------------------------------
(***************************************************************************)
(* Every step.                                                             *)
(***************************************************************************)
LEMMA StepRefs == ASSUME RefsInv, NEW p \in Procs, Step(p) PROVE RefsInv'
BY LookupSteps, PutSteps, LinkSteps, CreateSteps, Open, Chdir, ChdirDone, ReadWrite, ExitClose, Zenon DEF Step

LEMMA NextRefs == ASSUME RefsInv, [Next]_vars PROVE RefsInv'
<1>1. CASE UNCHANGED vars
  BY <1>1, Zenon DEF RefsInv, vars, files
<1>2. CASE Reboot
  BY <1>2, Booted, Zenon DEF Reboot, RefsInv
<1>3. ASSUME NEW p \in Procs, NEW c, path_call(p, c) \/ file_call(p, c) \/ sys_close(p, c) \/ sys_dup(p, c) \/ exit(p, c)
      PROVE  RefsInv'
  BY <1>3, LookupSteps, FileCall, SysClose, SysDup, ExitCall, Zenon
<1>. QED
  BY <1>1, <1>2, <1>3, StepRefs, Fork, Zenon DEF Next

LEMMA RefsImplied == RefsInv => RefsExact
BY Zenon DEF RefsInv, Refs, RefsExact, Counted, CwdPtrs, CwdOf, FilePtrs, FileOf, IpPtrs, DpPtrs, IpOf, DpOf, Tasks,
             Places, FdPtrs, FdOf

\* The inode that file f points to, or 0.
FilePtr(f) == IF ftable[f].type \in {"inode", "device"} THEN ftable[f].obj ELSE 0

\* What is pointed to has a reference.
PointedTo ==
    /\ \A p \in Procs : cwd[p] \in Inums /\ ~Leaving(todo[p]) => itable[cwd[p]].ref >= 1
    /\ \A f \in DOMAIN ftable : FilePtr(f) \in Inums => itable[FilePtr(f)].ref >= 1
    /\ \A p \in Procs : \A k \in DOMAIN todo[p] : \A i \in {todo[p][k].ip, todo[p][k].dp} \cap Inums : itable[i].ref >= 1
    /\ \A p \in Procs, fd \in Descriptors : ofile[p][fd] # 0 => ftable[ofile[p][fd]].ref >= 1

LEMMA Inhabited == ASSUME NEW A, IsFiniteSet(A), NEW x \in A PROVE Cardinality(A) \in Nat /\ Cardinality(A) >= 1
<1>1. Cardinality(A) # 0 /\ Cardinality(A) \in Nat
  BY FS_EmptySet, FS_CardinalityType, Zenon
<1>. QED
  BY <1>1

LEMMA RefsPositive == RefsInv => PointedTo
<1>. SUFFICES ASSUME RefsInv PROVE PointedTo
  OBVIOUS
<1>1. /\ DOMAIN ftable = 1 .. NFILE /\ ofile \in AllFds
      /\ (\A i \in Inums : IsSum(itable[i].ref, Cardinality(CwdOf(cwd, todo, i)), Cardinality(FileOf(ftable, i)),
                                 Cardinality(IpOf(todo, i)), Cardinality(DpOf(todo, i))))
      /\ \A f \in 1 .. NFILE : ftable[f].ref = Cardinality(FdOf(ofile, f))
  BY Zenon DEF RefsInv, Refs, Counted, IsFiles, AllFds, IsSum
<1>2. \A q \in Procs : Small(todo[q])
  BY ShapeSmall, Zenon DEF RefsInv, Refs
<1>3. ASSUME NEW i \in Inums, NEW x, x \in CwdOf(cwd, todo, i) \/ x \in FileOf(ftable, i) \/ x \in IpOf(todo, i) \/ x \in DpOf(todo, i)
      PROVE  itable[i].ref >= 1
  <2>1. PICK c, f, m, n : /\ c = CwdOf(cwd, todo, i) /\ f = FileOf(ftable, i) /\ m = IpOf(todo, i) /\ n = DpOf(todo, i)
    BY Zenon
  <2>2. m \subseteq Places(todo) /\ n \subseteq Places(todo) /\ c \subseteq Procs
    BY <2>1 DEF IpOf, DpOf, CwdOf
  <2>3. IsFiniteSet(c) /\ IsFiniteSet(f) /\ IsFiniteSet(m) /\ IsFiniteSet(n)
    BY <1>1, <1>2, <2>1, <2>2, FinitePlaces, FiniteSets, FsConstants, FS_Subset, Zenon
  <2>4. Cardinality(c) \in Nat /\ Cardinality(f) \in Nat /\ Cardinality(m) \in Nat /\ Cardinality(n) \in Nat
    BY <2>3, FS_CardinalityType, Zenon
  <2>5. Cardinality(c) >= 1 \/ Cardinality(f) >= 1 \/ Cardinality(m) >= 1 \/ Cardinality(n) >= 1
    BY <1>3, <2>1, <2>3, Inhabited, Zenon
  <2>6. IsSum(itable[i].ref, Cardinality(c), Cardinality(f), Cardinality(m), Cardinality(n))
    BY <1>1, <2>1, Zenon
  <2>. QED
    BY <2>4, <2>5, <2>6 DEF IsSum
<1>4. \A p \in Procs : cwd[p] \in Inums /\ ~Leaving(todo[p]) => itable[cwd[p]].ref >= 1
  BY <1>3, Zenon DEF CwdOf
<1>5. \A f \in DOMAIN ftable : FilePtr(f) \in Inums => itable[FilePtr(f)].ref >= 1
  BY <1>3 DEF FileOf, FilePtr, Inums
<1>6. ASSUME NEW p \in Procs, NEW k \in DOMAIN todo[p], NEW i \in {todo[p][k].ip, todo[p][k].dp} \cap Inums
      PROVE  itable[i].ref >= 1
  <2>1. <<p, k>> \in IpOf(todo, i) \/ <<p, k>> \in DpOf(todo, i)
    BY DEF IpOf, DpOf, Places
  <2>. QED
    BY <1>3, <2>1
<1>7. ASSUME NEW p \in Procs, NEW fd \in Descriptors, ofile[p][fd] # 0
      PROVE  ftable[ofile[p][fd]].ref >= 1
  <2>1. <<p, fd>> \in FdOf(ofile, ofile[p][fd]) /\ ofile[p][fd] \in 1 .. NFILE
    BY <1>1, <1>7 DEF FdOf, AllFds
  <2>2. Cardinality(FdOf(ofile, ofile[p][fd])) >= 1
    BY <2>1, FiniteFds, Inhabited, Zenon
  <2>. QED
    BY <1>1, <2>1, <2>2, Zenon
<1>. QED
  BY <1>4, <1>5, <1>6, <1>7, Zenon DEF PointedTo

LEMMA RefsInvariant == Spec => []RefsInv
<1>1. Init => RefsInv
  BY Booted, Zenon DEF Init, RefsInv
<1>2. RefsInv /\ [Next]_vars => RefsInv'
  BY NextRefs, Zenon
<1>. QED
  BY <1>1, <1>2, PTL DEF Spec

\* ip->ref is the number of pointers to the inode and f->ref that of the file's descriptors, in every
\* state between two sections of idup(), iget(), iput(), filealloc(), filedup() and fileclose(): on every
\* path through every call, with any number of processes, and after a crash.
THEOREM RefCounting == Spec => []RefsExact
BY RefsInvariant, RefsImplied, PTL

\* No call meets an inode or a file without references: the tests of ref in ilock(), iunlock(), filedup()
\* and fileclose() never panic, iget() reuses no entry of the inode table that a call, a file or a process
\* points to, and filealloc() takes no file that has a descriptor.
THEOREM NothingDangles == Spec => []PointedTo
BY RefsInvariant, RefsPositive, PTL
=============================================================================
