--------------------------------- MODULE Mem ---------------------------------
(***************************************************************************)
(* The calls that allocate memory: fork, exec, sbrk, exit and wait         *)
(* (kernel/proc.c, kernel/exec.c, sys_exec in kernel/sysfile.c), by        *)
(* several processes that share the physical pages.                        *)
(*                                                                         *)
(* A step is one turn of an allocating loop, so that a call can run out of *)
(* memory at every page because another process took the last one.  The    *)
(* loops that only free are one step.                                      *)
(***************************************************************************)
EXTENDS Vm

CONSTANTS
    Procs,      \* process slots
    InitProc,   \* the first process
    First,      \* the words of the first process's page
    Programs,   \* the files that exec() may find: see AddressSpace
    USERSTACK,  \* pages of the user stack
    ALIGN,      \* alignment of the stack pointer
    MAXARG,     \* most arguments of a program
    Menu,       \* bound: the calls each process may make
    MaxCalls    \* bound: number of calls of each process

ASSUME MemConstants ==
    /\ InitProc \in Procs /\ MaxCalls \in [Procs -> Nat]
    /\ {USERSTACK, ALIGN, MAXARG} \subseteq Nat \ {0}

VARIABLES
    mem,        \* see module Vm
    proc,       \* [state, pt, sz, tf]
    k,          \* the call that each process is in
    left        \* calls that each process may still make

vars == <<mem, proc, k, left>>

UNUSED == [state |-> "UNUSED", pt |-> 0, sz |-> 0, tf |-> 0]

\* A call: the table it fills, its size so far, the loop's address, bounds and
\* permissions; fork()'s child; exec()'s program, segment, arguments and their pages.
NoCall == [op |-> "none", pt |-> 0, sz |-> 0, a |-> 0, old |-> 0, new |-> 0, xperm |-> {},
           child |-> InitProc, prog |-> << >>, seg |-> 0, argv |-> 0, strs |-> << >>, argp |-> << >>]

Loop(c, op, from, to, xperm) == [c EXCEPT !.op = op, !.a = from, !.old = from, !.new = to, !.xperm = xperm]

-----------------------------------------------------------------------------
\* proc_pagetable(): trampoline and trapframe.
Framed(s, t, pt) ==
    IF s.ok THEN [m |-> s.m, pt |-> pt, ok |-> TRUE]
    ELSE [m |-> uvmfree(uvmunmap(t.m, pt, TRAMPOLINE, 1, FALSE), pt, 0), pt |-> 0, ok |-> FALSE]
WithTramp(t, pt, tf) ==
    IF t.ok THEN Framed(mappages(t.m, pt, TRAPFRAME, tf, {"R", "W"}), t, pt)
    ELSE [m |-> uvmfree(t.m, pt, 0), pt |-> 0, ok |-> FALSE]
proc_pagetable(m, tf) ==
    IF m.free = {} THEN [m |-> m, pt |-> 0, ok |-> FALSE]
    ELSE WithTramp(mappages(uvmcreate(m).m, NextFree(m), TRAMPOLINE, 0, {"R", "X"}), NextFree(m), tf)

proc_freepagetable(m, pt, sz) ==
    uvmfree(uvmunmap(uvmunmap(m, pt, TRAMPOLINE, 1, FALSE), pt, TRAPFRAME, 1, FALSE), pt, sz)

\* The memory after freeproc() of a process.
freeproc(m, p) == IF p.pt = 0 THEN kfree(m, p.tf) ELSE proc_freepagetable(kfree(m, p.tf), p.pt, p.sz)

\* allocproc(): a trapframe and an empty page table.
Tabled(s, tf) == IF s.ok THEN [m |-> s.m, pt |-> s.pt, tf |-> tf, ok |-> TRUE]
                 ELSE [m |-> kfree(s.m, tf), pt |-> 0, tf |-> 0, ok |-> FALSE]
allocproc(m) == IF m.free = {} THEN [m |-> m, pt |-> 0, tf |-> 0, ok |-> FALSE]
                ELSE Tabled(proc_pagetable(kalloc(m), NextFree(m)), NextFree(m))

\* userinit(), with uvmfirst().
FirstPage(s, pt) == [mappages(Zeroed(s), pt, 0, NextFree(s), {"R", "W", "X", "U"}).m
                        EXCEPT !.page[NextFree(s)].w = First]
Init ==
    \E s \in {allocproc(AllFree)} :
        /\ mem = FirstPage(s.m, s.pt)
        /\ proc = [[p \in Procs |-> UNUSED] EXCEPT ![InitProc] =
                    [state |-> "RUNNABLE", pt |-> s.pt, sz |-> PGSIZE, tf |-> s.tf]]
        /\ k = [p \in Procs |-> NoCall]
        /\ left = MaxCalls

-----------------------------------------------------------------------------
\* A process makes a call of its menu; one that gave up all its memory faults and exits.
Calls(p, c) ==
    /\ proc[p].state = "RUNNABLE" /\ k[p].op = "none" /\ left[p] > 0
    /\ proc[p].sz > 0 \/ c.op = "exit"
    /\ c \in Menu[p]
    /\ left' = [left EXCEPT ![p] = @ - 1]

Goes(p, c) == k' = [k EXCEPT ![p] = c]

\* sys_sbrk(), growproc(): upwards by a loop, downwards at once.
sys_sbrk(p, c) ==
    LET sz == proc[p].sz IN
    /\ c.op = "sbrk"
    /\ Calls(p, c)
    /\ IF c.n > 0 THEN
          /\ Goes(p, Loop([NoCall EXCEPT !.pt = proc[p].pt], "sbrk", PGROUNDUP(sz), sz + c.n, {"W"}))
          /\ UNCHANGED <<mem, proc>>
       ELSE
          /\ mem' = uvmdealloc(mem, proc[p].pt, sz, Shrunk(sz, (sz + c.n) % WRAP))
          /\ proc' = [proc EXCEPT ![p].sz = Shrunk(sz, (sz + c.n) % WRAP)]
          /\ UNCHANGED k

\* What a failed uvmalloc() returns to.
AllocFailed(c) == IF c.op = "sbrk" THEN NoCall ELSE [c EXCEPT !.op = "bad"]

\* One turn of uvmalloc()'s loop, for growproc() and exec().
uvmalloc(p) ==
    LET c == k[p] IN
    /\ c.op \in {"sbrk", "seg", "stack"} /\ c.a < c.new
    /\ \E s \in {NewPage(mem, c.pt, c.a, c.xperm)} :
          IF s.ok THEN /\ mem' = s.m
                       /\ Goes(p, [c EXCEPT !.a = @ + PGSIZE])
          ELSE /\ mem' = uvmdealloc(s.m, c.pt, c.a, c.old)
               /\ Goes(p, AllocFailed(c))
    /\ UNCHANGED <<proc, left>>

growproc(p) ==
    /\ k[p].op = "sbrk" /\ k[p].a >= k[p].new
    /\ proc' = [proc EXCEPT ![p].sz = k[p].new]
    /\ Goes(p, NoCall)
    /\ UNCHANGED <<mem, left>>

-----------------------------------------------------------------------------
fork(p, q) ==
    /\ \E c \in Menu[p] : c.op = "fork" /\ Calls(p, c)
    /\ proc[q] = UNUSED
    /\ \E s \in {allocproc(mem)} :
          /\ mem' = s.m
          /\ IF s.ok THEN /\ proc' = [proc EXCEPT ![q] = [state |-> "USED", pt |-> s.pt, sz |-> 0, tf |-> s.tf]]
                          /\ Goes(p, [NoCall EXCEPT !.op = "copy", !.child = q])
             ELSE UNCHANGED <<proc, k>>

\* One turn of uvmcopy()'s loop; on failure the child is dismantled.
uvmcopy(p) ==
    LET c == k[p]
        np == proc[c.child]
    IN  /\ c.op = "copy" /\ c.a < proc[p].sz
        /\ \E s \in {CopyPage(mem, Entry(mem, proc[p].pt, c.a), np.pt, c.a)} :
              IF s.ok THEN /\ mem' = s.m
                           /\ Goes(p, [c EXCEPT !.a = @ + PGSIZE])
                           /\ UNCHANGED proc
              ELSE /\ mem' = freeproc(uvmunmap(s.m, np.pt, 0, c.a \div PGSIZE, TRUE), np)
                   /\ proc' = [proc EXCEPT ![c.child] = UNUSED]
                   /\ Goes(p, NoCall)
        /\ UNCHANGED left

fork_done(p) ==
    /\ k[p].op = "copy" /\ k[p].a >= proc[p].sz
    /\ proc' = [proc EXCEPT ![k[p].child].sz = proc[p].sz, ![k[p].child].state = "RUNNABLE"]
    /\ Goes(p, NoCall)
    /\ UNCHANGED <<mem, left>>

exit(p, c) ==
    /\ c.op = "exit"
    /\ Calls(p, c)
    /\ proc' = [proc EXCEPT ![p].state = "ZOMBIE"]
    /\ UNCHANGED <<mem, k>>

\* wait() finds the zombie.
wait(q) ==
    /\ proc[q].state = "ZOMBIE"
    /\ mem' = freeproc(mem, proc[q])
    /\ proc' = [proc EXCEPT ![q] = UNUSED]
    /\ UNCHANGED <<k, left>>

\* A call that copies n words to the user's address va.
copyout_call(p, c) ==
    /\ c.op = "read"
    /\ Calls(p, c)
    /\ mem' = copyout(mem, proc[p].pt, c.va, [j \in 1 .. c.n |-> c.word]).m
    /\ UNCHANGED <<proc, k>>

-----------------------------------------------------------------------------
sys_exec(p, c) ==
    /\ c.op = "exec"
    /\ Calls(p, c)
    /\ Goes(p, [NoCall EXCEPT !.op = "arg", !.argv = c.argv, !.prog = c.prog])
    /\ UNCHANGED <<mem, proc>>

\* The word at a user address, which must lie below the size.
fetchaddr(p, addr) ==
    IF addr >= proc[p].sz \/ (addr + 1) % WRAP > proc[p].sz THEN -1 ELSE copyin(mem, proc[p].pt, addr)

\* One turn of sys_exec()'s loop over argv.
fetch_arg(p) ==
    LET c    == k[p]
        i    == Len(c.argp)
        uarg == fetchaddr(p, (c.argv + i) % WRAP)
    IN  /\ c.op = "arg"
        /\ IF i < MAXARG /\ uarg = 0 THEN
              /\ Goes(p, [c EXCEPT !.op = "open"])
              /\ UNCHANGED mem
           ELSE IF i >= MAXARG \/ uarg = -1 \/ mem.free = {} THEN
              /\ Goes(p, [c EXCEPT !.op = "bad"])
              /\ UNCHANGED mem
           ELSE
              /\ mem' = kalloc(mem)
              /\ \E s \in {copyinstr(mem, proc[p].pt, uarg, PGSIZE)} :
                    Goes(p, [c EXCEPT !.op = IF s.null THEN "arg" ELSE "bad",
                                      !.strs = Append(@, s.str), !.argp = Append(@, NextFree(mem))])
        /\ UNCHANGED <<proc, left>>

\* exec(): the file is opened and its header checked.
exec_open(p) ==
    LET c == k[p] IN
    /\ c.op = "open"
    /\ IF ~c.prog.elf THEN
          /\ Goes(p, [c EXCEPT !.op = "bad"])
          /\ UNCHANGED mem
       ELSE \E s \in {proc_pagetable(mem, proc[p].tf)} :
          /\ mem' = s.m
          /\ Goes(p, [c EXCEPT !.op = IF s.ok THEN "ph" ELSE "bad", !.pt = s.pt, !.seg = 1])
    /\ UNCHANGED <<proc, left>>

\* Variant: the file may be larger than its memory.
AnySegment(ph) == (ph.vaddr + ph.memsz) % WRAP >= ph.vaddr /\ ph.vaddr % PGSIZE = 0

GoodSegment(ph) ==
    /\ ph.memsz >= ph.filesz
    /\ (ph.vaddr + ph.memsz) % WRAP >= ph.vaddr
    /\ ph.vaddr % PGSIZE = 0

\* The next program header; after the last one, the stack.
exec_ph(p) ==
    LET c  == k[p]
        ph == c.prog.segs[c.seg]
        sz == PGROUNDUP(c.sz)
    IN  /\ c.op = "ph"
        /\ Goes(p, IF c.seg > Len(c.prog.segs) THEN
                      Loop([c EXCEPT !.sz = sz], "stack", sz, sz + (USERSTACK + 1) * PGSIZE, {"W"})
                   ELSE IF ~ph.load THEN [c EXCEPT !.seg = @ + 1]
                   ELSE IF ~GoodSegment(ph) THEN [c EXCEPT !.op = "bad"]
                   ELSE Loop(c, "seg", sz, ph.vaddr + ph.memsz, ph.flags))
        /\ UNCHANGED <<mem, proc, left>>

\* loadseg(): the file's words; s.ok when the file has them all.
loadseg(m, pt, ph) ==
    LET one(s, j) ==
            LET pg == walkaddr(s, pt, ph.vaddr + j - 1) IN
            IF pg = 0 THEN Panic(s) ELSE [s EXCEPT !.page[pg].w[(j - 1) % PGSIZE] = ph.word]
    IN  FoldLeft(one, m, [j \in 1 .. ph.filesz |-> j])

exec_seg(p) ==
    LET c   == k[p]
        ph  == c.prog.segs[c.seg]
        sz1 == Max({c.sz, c.new})
    IN  /\ c.op = "seg" /\ c.a >= c.new
        /\ IF sz1 = 0 THEN
              /\ Goes(p, [c EXCEPT !.op = "bad"])
              /\ UNCHANGED mem
           ELSE
              /\ mem' = loadseg(mem, c.pt, ph)
              /\ Goes(p, [c EXCEPT !.op = IF ph.short THEN "bad" ELSE "ph", !.sz = sz1, !.seg = @ + 1])
        /\ UNCHANGED <<proc, left>>

\* The stack with one more block of words, and where it ends.
Down(sp, n) == (sp - n) - ((sp - n) % ALIGN)
Push(s, ws, pt, base) ==
    IF ~s.ok \/ Down(s.sp, Len(ws)) < base THEN [s EXCEPT !.ok = FALSE]
    ELSE LET t == copyout(s.m, pt, Down(s.sp, Len(ws)), ws) IN
         [s EXCEPT !.m = t.m, !.ok = t.ok, !.sp = Down(@, Len(ws)), !.ustack = Append(@, Down(s.sp, Len(ws)))]

\* The argument strings, then the array of their addresses.
Stack(m, c, sz) ==
    LET base == sz - USERSTACK * PGSIZE
        strs == FoldLeft(LAMBDA s, str : Push(s, Append(str, 0), c.pt, base),
                         [m |-> m, sp |-> sz, ustack |-> << >>, ok |-> TRUE], c.strs)
    IN  Push(strs, Append(strs.ustack, 0), c.pt, base)

ArgsFreed(m, c) == FoldLeft(kfree, m, c.argp)

\* The guard page, the arguments, and the new image takes the place of the old one.
exec_commit(p) ==
    LET c == k[p] IN
    /\ c.op = "stack" /\ c.a >= c.new
    /\ \E m \in {uvmclear(mem, c.pt, c.new - (USERSTACK + 1) * PGSIZE)} :
       \E s \in {Stack(m, c, c.new)} :
          IF s.ok THEN
             /\ mem' = ArgsFreed(proc_freepagetable(s.m, proc[p].pt, proc[p].sz), c)
             /\ proc' = [proc EXCEPT ![p].pt = c.pt, ![p].sz = c.new]
             /\ Goes(p, NoCall)
          ELSE
             /\ mem' = s.m
             /\ Goes(p, [c EXCEPT !.op = "bad", !.sz = c.new])
             /\ UNCHANGED proc
    /\ UNCHANGED left

exec_bad(p) ==
    LET c == k[p] IN
    /\ c.op = "bad"
    /\ mem' = ArgsFreed(IF c.pt = 0 THEN mem ELSE proc_freepagetable(mem, c.pt, c.sz), c)
    /\ Goes(p, NoCall)
    /\ UNCHANGED <<proc, left>>

-----------------------------------------------------------------------------
Next ==
    \E p \in Procs :
        \/ \E c \in Menu[p] : sys_sbrk(p, c) \/ exit(p, c) \/ copyout_call(p, c) \/ sys_exec(p, c)
        \/ uvmalloc(p) \/ growproc(p)
        \/ \E q \in Procs : fork(p, q)
        \/ uvmcopy(p) \/ fork_done(p) \/ wait(p)
        \/ fetch_arg(p) \/ exec_open(p) \/ exec_ph(p) \/ exec_seg(p) \/ exec_commit(p) \/ exec_bad(p)

Spec == Init /\ [][Next]_vars

-----------------------------------------------------------------------------
\* The page tables: of the processes, and those that exec() is filling.
Roots == ({proc[p].pt : p \in Procs} \cup {k[p].pt : p \in Procs}) \ {0}

\* The entries for user memory.
Above(m, pt) == {<<walk(m, pt, va, FALSE).pt, PX(0, va)>> : va \in {TRAPFRAME, TRAMPOLINE}}
UserEntries(m, pt) ==
    {x \in Tables(m, pt) \X (0 .. NPTE - 1) : LET f == m.page[x[1]].e[x[2]].flags IN f # {} /\ f # {"V"}}
    \ Above(m, pt)

Sum(f) == FoldFunctionOnSet(+, 0, f, DOMAIN f)

\* Every page is free or has one use, as a trapframe, an argument, a table, or user
\* memory, whatever ran out of memory where: nothing is leaked, freed twice, or
\* mapped by two processes.  So the uses are as many as the pages that are not free.
PagesExact ==
    LET frames == {p \in Procs : proc[p].tf # 0}
        user   == [r \in Roots |-> UserEntries(mem, r)]
        tables == [r \in Roots |-> Tables(mem, r)]
        uses   == Cardinality(frames) + Sum([p \in Procs |-> Len(k[p].argp)])
                  + Sum([r \in Roots |-> Cardinality(tables[r]) + Cardinality(user[r])])
    IN  /\ Pages \ mem.free =
              {proc[p].tf : p \in frames} \cup UNION {Range(k[p].argp) : p \in Procs}
              \cup UNION {tables[r] \cup {mem.page[x[1]].e[x[2]].pa : x \in user[r]} : r \in Roots}
        /\ uses = NPAGES - Cardinality(mem.free)

\* No panic of vm.c, kalloc.c or exec.c is reached.
NoPanic == ~mem.panic

\* The memory of a process as its page table shows it.
PageAt(p, n) == LET e == Entry(mem, proc[p].pt, n * PGSIZE) IN
                [rights |-> e.flags \ {"V"}, w |-> mem.page[e.pa].w]
Seen(p) ==
    IF proc[p].state \in {"UNUSED", "USED"} THEN [sz |-> -1, pages |-> << >>]
    ELSE [sz |-> proc[p].sz, pages |-> [n \in 1 .. PGROUNDUP(proc[p].sz) \div PGSIZE |-> PageAt(p, n - 1)]]

AS == INSTANCE AddressSpace WITH
        space <- [p \in Procs |-> Seen(p)],
        First <- [sz |-> PGSIZE, pages |-> <<[rights |-> {"R", "W", "X", "U"}, w |-> First]>>],
        STACKPAGES <- USERSTACK

\* The calls implement AddressSpace: fork() copies, exec() and sbrk() succeed or
\* change nothing, and no call writes to a page that is another process's, read-only,
\* the stack's guard, or not yet zeroed.
IsAddressSpace == AS!Spec
=============================================================================
