----------------------------- MODULE AddressSpace -----------------------------
(***************************************************************************)
(* What the memory calls promise: every process has memory of its own,     *)
(* pages of words with the user's rights to them, and a call replaces it   *)
(* in one step or, when memory runs out, leaves it as it was.              *)
(***************************************************************************)
EXTENDS Integers, Sequences, FiniteSets, SequencesExt, FiniteSetsExt

CONSTANTS
    Procs,      \* process slots
    First,      \* the first process's memory
    Programs,   \* files: [elf, segs], with segments [load, vaddr, memsz, filesz, flags, word, short]
    PGSIZE,     \* words of a page
    STACKPAGES  \* pages of the user stack

VARIABLE space  \* [sz, pages] of every process; a slot without memory has no pages

None == [sz |-> -1, pages |-> << >>]

PagesOf(sz)   == (sz + PGSIZE - 1) \div PGSIZE
Empty(rights) == [rights |-> rights, w |-> [k \in 0 .. PGSIZE - 1 |-> 0]]

Init == \E p \in Procs : space = [q \in Procs |-> IF q = p THEN First ELSE None]

\* The calls, as relations of a process's memory s before and t after.

\* sbrk(): new pages are zero, the others stay as they are.
Sbrk(s, t) ==
    /\ t # s
    /\ t.pages = [k \in 1 .. PagesOf(t.sz) |-> IF k <= Len(s.pages) THEN s.pages[k] ELSE Empty({"R", "U", "W"})]

\* The kernel stores words, on pages that the user may write.
Store(s, t) ==
    /\ t.sz = s.sz
    /\ Len(t.pages) = Len(s.pages)
    /\ \A k \in DOMAIN s.pages :
          /\ t.pages[k].rights = s.pages[k].rights
          /\ {"U", "W"} \subseteq s.pages[k].rights \/ t.pages[k] = s.pages[k]

\* The segment that a program's word a comes from; the first segment that reaches
\* a page decides on its rights.
Loads(prog)    == SelectSeq(prog.segs, LAMBDA s : s.load)
Holding(ss, a) == {k \in DOMAIN ss : a >= ss[k].vaddr /\ a < ss[k].vaddr + ss[k].filesz}
Text(ss, a)    == IF Holding(ss, a) = {} THEN 0 ELSE ss[Max(Holding(ss, a))].word
Reaching(ss, n) == Min({k \in DOMAIN ss : ss[k].vaddr + ss[k].memsz > n * PGSIZE})
Size(ss) == PagesOf(Max({ss[k].vaddr + ss[k].memsz : k \in DOMAIN ss} \cup {0}))

\* A file that can be run: its header and its segments are good, and all there.
Runnable(prog) ==
    prog.elf /\ \A k \in DOMAIN Loads(prog) : LET s == Loads(prog)[k] IN
        s.memsz >= s.filesz /\ s.vaddr % PGSIZE = 0 /\ ~s.short

\* exec(): the program, an inaccessible page, and a stack.
Image(t, ss, n) ==
    /\ t.sz = (n + 1 + STACKPAGES) * PGSIZE
    /\ Len(t.pages) = n + 1 + STACKPAGES
    /\ \A k \in 0 .. n - 1 :
          t.pages[k + 1] = [rights |-> {"R", "U"} \cup ss[Reaching(ss, k)].flags,
                            w |-> [j \in 0 .. PGSIZE - 1 |-> Text(ss, k * PGSIZE + j)]]
    /\ t.pages[n + 1] = Empty({"R", "W"})
    /\ \A k \in n + 2 .. Len(t.pages) : t.pages[k].rights = {"R", "U", "W"}
Exec(t) == \E prog \in Programs : Runnable(prog) /\ Image(t, Loads(prog), Size(Loads(prog)))

Next ==
    \E p \in Procs :
        \/ \E s \in {space[p]}, t \in {space'[p]} :
              /\ s # None
              /\ Sbrk(s, t) \/ Store(s, t) \/ Exec(t) \/ t = None      \* the last is exit()
              /\ \A q \in Procs \ {p} : space'[q] = space[q]
        \/ \E q \in Procs :                                            \* fork()
              /\ space[q] = None
              /\ space' = [space EXCEPT ![q] = space[p]]

Spec == Init /\ [][Next]_space
=============================================================================
