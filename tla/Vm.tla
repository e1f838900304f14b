---------------------------------- MODULE Vm ----------------------------------
(***************************************************************************)
(* Physical pages and page tables (kernel/kalloc.c, kernel/vm.c), as       *)
(* operators on the memory m, a record                                     *)
(*    free   the pages on the free list, whose order does not matter       *)
(*    page   the contents of the pages                                     *)
(*    panic  the kernel has panicked                                       *)
(* A page is NPTE page-table entries e, or PGSIZE words w.  Addresses      *)
(* count words; page 0 is the trampoline's, which is not allocated.  The   *)
(* operators that can run out of memory return a record with the memory m  *)
(* and ok.                                                                 *)
(***************************************************************************)
EXTENDS Integers, Sequences, FiniteSets, SequencesExt, FiniteSetsExt

CONSTANTS
    NPAGES,     \* physical pages: 1 .. NPAGES
    PGSIZE,     \* words of a page
    NPTE,       \* entries of a page-table page
    LEVELS,     \* levels of a page table
    WRAP,       \* addresses are computed modulo WRAP
    JUNK        \* the word that fills free and new pages

Pages == 1 .. NPAGES
MAXVA == NPTE^LEVELS * PGSIZE

TRAMPOLINE == MAXVA - PGSIZE
TRAPFRAME  == TRAMPOLINE - PGSIZE

\* User memory cannot grow up to the trapframe: there are too few physical pages.
ASSUME VmConstants ==
    /\ {NPAGES, PGSIZE, NPTE, LEVELS, WRAP} \subseteq Nat \ {0}
    /\ NPAGES * PGSIZE < TRAPFRAME /\ WRAP > MAXVA

PGROUNDUP(sz) == ((sz + PGSIZE - 1) \div PGSIZE) * PGSIZE

NoPte   == [pa |-> 0, flags |-> {}]
JunkPte == [pa |-> 0, flags |-> {"V", "W"}]
Filled(pte, word) == [e |-> [k \in 0 .. NPTE - 1 |-> pte], w |-> [k \in 0 .. PGSIZE - 1 |-> word]]
ZeroPage == Filled(NoPte, 0)
JunkPage == Filled(JunkPte, JUNK)

Panic(m) == [m EXCEPT !.panic = TRUE]

\* kinit()
AllFree == [free |-> Pages, page |-> [pg \in Pages |-> JunkPage], panic |-> FALSE]

kfree(m, pg) ==
    IF pg \notin Pages THEN Panic(m)
    ELSE [m EXCEPT !.free = @ \cup {pg}, !.page[pg] = JunkPage]

\* The page that kalloc() returns, 0 when there is none, and the memory after it.
NextFree(m) == IF m.free = {} THEN 0 ELSE Min(m.free)
kalloc(m)   == [m EXCEPT !.free = @ \ {NextFree(m)}]

\* kalloc() and memset(0), of a page that is there.
Zeroed(m) == [kalloc(m) EXCEPT !.page[NextFree(m)] = ZeroPage]

-----------------------------------------------------------------------------
PX(level, va) == (va \div (PGSIZE * NPTE^level)) % NPTE

\* A new page-table page under the entry that s is at.
Linked(s, k, pg) ==
    [s EXCEPT !.m = [Zeroed(s.m) EXCEPT !.page[s.pt].e[k] = [pa |-> pg, flags |-> {"V"}]], !.pt = pg]

\* One turn of walk()'s loop.
Follow(s, e, k) ==
    IF "V" \in e.flags THEN [s EXCEPT !.pt = e.pa]
    ELSE IF ~s.alloc \/ s.m.free = {} THEN [s EXCEPT !.ok = FALSE]
    ELSE Linked(s, k, NextFree(s.m))
Descend(s, level) ==
    IF ~s.ok THEN s ELSE Follow(s, s.m.page[s.pt].e[PX(level, s.va)], PX(level, s.va))

\* The level-0 table that maps va, reached with s.ok.
walk(m, pt, va, alloc) ==
    LET s == [m |-> m, pt |-> pt, va |-> va, alloc |-> alloc, ok |-> TRUE] IN
    IF va >= MAXVA THEN [s EXCEPT !.m = Panic(m), !.ok = FALSE]
    ELSE FoldLeft(Descend, s, [k \in 1 .. LEVELS - 1 |-> LEVELS - k])

\* The entry that walk() found, and the memory with another one in its place.
EntryOf(s)     == IF s.ok THEN s.m.page[s.pt].e[PX(0, s.va)] ELSE NoPte
SetEntry(s, e) == [s.m EXCEPT !.page[s.pt].e[PX(0, s.va)] = e]
Entry(m, pt, va) == EntryOf(walk(m, pt, va, FALSE))

\* The physical page of a user address, 0 when there is none.
UserPage(e) == IF {"V", "U"} \subseteq e.flags THEN e.pa ELSE 0
walkaddr(m, pt, va) == IF va >= MAXVA THEN 0 ELSE UserPage(Entry(m, pt, va))

\* mappages() of one page; every caller maps one.
Mapping(s, pa, perm) ==
    IF ~s.ok THEN s
    ELSE IF "V" \in EntryOf(s).flags THEN [s EXCEPT !.m = Panic(@)]
    ELSE [s EXCEPT !.m = SetEntry(s, [pa |-> pa, flags |-> perm \cup {"V"}])]
mappages(m, pt, va, pa, perm) == Mapping(walk(m, pt, va, TRUE), pa, perm)

\* uvmunmap() of one page, and of n pages.
Unmapped(s, free) ==
    IF EntryOf(s).flags \subseteq {"V"} THEN Panic(s.m)
    ELSE IF free THEN kfree(SetEntry(s, NoPte), EntryOf(s).pa) ELSE SetEntry(s, NoPte)
uvmunmap(m, pt, va, n, free) ==
    LET one(mm, k) == Unmapped(walk(mm, pt, va + (k - 1) * PGSIZE, FALSE), free) IN
    FoldLeft(one, m, [k \in 1 .. n |-> k])

\* uvmcreate(): an empty page table.
uvmcreate(m) ==
    IF m.free = {} THEN [m |-> m, pt |-> 0, ok |-> FALSE]
    ELSE [m |-> Zeroed(m), pt |-> NextFree(m), ok |-> TRUE]

\* Variant: the page that could not be mapped is forgotten.
UndoneLeak(s, pg) == s

\* One turn of the loop of uvmalloc(): a zeroed page at va.
Undone(s, pg) == IF s.ok THEN s ELSE [s EXCEPT !.m = kfree(@, pg)]
NewPage(m, pt, va, xperm) ==
    IF m.free = {} THEN [m |-> m, ok |-> FALSE]
    ELSE Undone(mappages(Zeroed(m), pt, va, NextFree(m), {"R", "U"} \cup xperm), NextFree(m))

\* The size that uvmdealloc() returns, and the memory without the pages above it.
Shrunk(oldsz, newsz) == IF newsz >= oldsz THEN oldsz ELSE newsz
uvmdealloc(m, pt, oldsz, newsz) ==
    IF PGROUNDUP(newsz) >= PGROUNDUP(oldsz) THEN m
    ELSE uvmunmap(m, pt, PGROUNDUP(newsz), (PGROUNDUP(oldsz) - PGROUNDUP(newsz)) \div PGSIZE, TRUE)

\* One turn of the loop of uvmcopy(): a copy of the page behind e, with its flags.
CopyPage(m, e, pt, va) ==
    IF "V" \notin e.flags THEN [m |-> Panic(m), ok |-> TRUE]
    ELSE IF m.free = {} THEN [m |-> m, ok |-> FALSE]
    ELSE Undone(mappages([kalloc(m) EXCEPT !.page[NextFree(m)] = m.page[e.pa]], pt, va, NextFree(m), e.flags),
                NextFree(m))

\* The page-table pages below pt, level by level.
Below(m, S) == UNION {{e.pa : e \in {e \in Range(m.page[pg].e) : e.flags = {"V"}}} : pg \in S}
Tables(m, pt) == FoldLeft(LAMBDA S, k : S \cup Below(m, S), {pt}, [k \in 1 .. LEVELS - 1 |-> k])
Leaves(m, pt) == UNION {{e.pa : e \in {e \in Range(m.page[pg].e) : e.flags # {} /\ e.flags # {"V"}}} : pg \in Tables(m, pt)}

freewalk(m, pt) ==
    IF Leaves(m, pt) # {} THEN Panic(m)
    ELSE [m EXCEPT !.free = @ \cup Tables(m, pt),
                   !.page = [pg \in Pages |-> IF pg \in Tables(m, pt) THEN JunkPage ELSE @[pg]]]

uvmfree(m, pt, sz) == freewalk(uvmunmap(m, pt, 0, PGROUNDUP(sz) \div PGSIZE, TRUE), pt)

\* Variant: the user can still read the page.
uvmclearWrite(m, pt, va) ==
    LET s == walk(m, pt, va, FALSE) IN
    IF ~s.ok THEN Panic(m) ELSE SetEntry(s, [EntryOf(s) EXCEPT !.flags = @ \ {"W"}])

\* The user loses access to the page.
uvmclear(m, pt, va) ==
    LET s == walk(m, pt, va, FALSE) IN
    IF ~s.ok THEN Panic(m) ELSE SetEntry(s, [EntryOf(s) EXCEPT !.flags = @ \ {"U"}])

-----------------------------------------------------------------------------
\* copyout() of the words ws: stops at the first page that the user may not write.
OutTo(s, e, w) ==
    IF ~({"V", "U", "W"} \subseteq e.flags) THEN [s EXCEPT !.ok = FALSE]
    ELSE [s EXCEPT !.m.page[e.pa].w[s.va % PGSIZE] = w, !.va = (@ + 1) % WRAP]
copyout(m, pt, va, ws) ==
    LET one(s, w) == IF ~s.ok \/ s.va >= MAXVA THEN [s EXCEPT !.ok = FALSE]
                     ELSE OutTo(s, Entry(s.m, pt, s.va), w)
    IN  FoldLeft(one, [m |-> m, va |-> va, ok |-> TRUE], ws)

\* The word at a user address, -1 when it is not the user's: copyin() of one word.
WordIn(m, pg, va) == IF pg = 0 THEN -1 ELSE m.page[pg].w[va % PGSIZE]
copyin(m, pt, va) == WordIn(m, walkaddr(m, pt, va), va)

\* copyinstr(): the words before the first 0 among max words; ok when there is one.
InTo(s, w) == IF w = -1 THEN [s EXCEPT !.bad = TRUE]
              ELSE IF w = 0 THEN [s EXCEPT !.null = TRUE]
              ELSE [s EXCEPT !.str = Append(@, w), !.va = (@ + 1) % WRAP]
copyinstr(m, pt, va, max) ==
    LET one(s, k) == IF s.null \/ s.bad THEN s ELSE InTo(s, copyin(m, pt, s.va)) IN
    FoldLeft(one, [va |-> va, str |-> << >>, null |-> FALSE, bad |-> FALSE], [k \in 1 .. max |-> k])
=============================================================================
