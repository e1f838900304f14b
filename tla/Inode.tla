-------------------------------- MODULE Inode --------------------------------
(***************************************************************************)
(* Blocks, inodes and directory contents (kernel/fs.c, lower layers), as   *)
(* operators on a disk.  A disk is a record                                *)
(*    used   the blocks whose bitmap bit is set                            *)
(*    data   the contents of the data blocks                               *)
(*    inode  the on-disk inodes                                            *)
(* A block holds BSIZE words.  A word is a byte of a file, a directory     *)
(* entry or a block address: a pair of a tag and a number, <<"", 0>> when  *)
(* it is all zeroes.  An operation on an inode takes and returns a record  *)
(* s of the disk d, the in-memory copy ip of the inode, and its number.    *)
(***************************************************************************)
EXTENDS Integers, Sequences, FiniteSets, FiniteSetsExt, Functions

CONSTANTS
    NINODES,    \* sb.ninodes: inodes are numbered 1 .. NINODES - 1
    Blocks,     \* numbers of the data blocks
    BSIZE,      \* words of a block
    NDIRECT     \* direct addresses of an inode

ASSUME InodeConstants ==
    /\ NINODES \in Nat /\ NINODES > 1
    /\ Blocks \subseteq Nat \ {0} /\ IsFiniteSet(Blocks)
    /\ BSIZE \in Nat \ {0} /\ NDIRECT \in Nat \ {0}

ROOTINO == 1
Inums   == 1 .. NINODES - 1

NINDIRECT == BSIZE
MAXFILE   == NDIRECT + NINDIRECT

Zero      == <<"", 0>>
ZeroBlock == [k \in 0 .. BSIZE - 1 |-> Zero]

FreeDinode == [type |-> "none", major |-> 0, nlink |-> 0, size |-> 0,
               addrs |-> [k \in 0 .. NDIRECT |-> 0]]

\* Variant: a block is handed out without being zeroed.
ballocDirty(d) ==
    LET free == Blocks \ d.used IN
    IF free = {} THEN [d |-> d, addr |-> 0]
    ELSE [d |-> [d EXCEPT !.used = @ \cup {Min(free)}], addr |-> Min(free)]

\* The first free block, zeroed; address 0 when there is none.
balloc(d) ==
    LET free == Blocks \ d.used
        b    == Min(free)
    IN  IF free = {} THEN [d |-> d, addr |-> 0]
        ELSE [d |-> [d EXCEPT !.used = @ \cup {b}, !.data[b] = ZeroBlock], addr |-> b]

bfree(d, bs) == [d EXCEPT !.used = @ \ bs]

\* The first free inode, marked allocated; number 0 when there is none.
ialloc(d, type) ==
    LET free == {i \in Inums : d.inode[i].type = "none"}
        i    == Min(free)
    IN  IF free = {} THEN [d |-> d, inum |-> 0]
        ELSE [d |-> [d EXCEPT !.inode[i] = [FreeDinode EXCEPT !.type = type]], inum |-> i]

\* The in-memory copy goes to disk.
iupdate(s) == [s EXCEPT !.d.inode[s.inum] = s.ip]

\* Slot k of the inode's own addresses takes the block that balloc() returned.
Slot(s, k, a) == [s EXCEPT !.d = a.d, !.ip.addrs[k] = a.addr, !.addr = a.addr]
AddrIn(s, k)  == IF s.ip.addrs[k] # 0 THEN [s EXCEPT !.addr = s.ip.addrs[k]] ELSE Slot(s, k, balloc(s.d))

\* The same for entry k of the indirect block, whose address is s.addr.
IndSlot(s, k, a) ==
    IF a.addr = 0 THEN [s EXCEPT !.addr = 0]
    ELSE [s EXCEPT !.d = [a.d EXCEPT !.data[s.addr][k] = <<"addr", a.addr>>], !.addr = a.addr]
IndAddr(s, k) ==
    IF s.addr = 0 THEN s
    ELSE IF s.d.data[s.addr][k][2] # 0 THEN [s EXCEPT !.addr = s.d.data[s.addr][k][2]]
    ELSE IndSlot(s, k, balloc(s.d))

\* The address of block bn of the file, allocated on demand; 0 when out of blocks.
bmap(s, bn) == IF bn < NDIRECT THEN AddrIn(s, bn) ELSE IndAddr(AddrIn(s, NDIRECT), bn - NDIRECT)

\* Address k of the indirect block, and all blocks that the inode owns.
Indirect(d, ip, k) == IF ip.addrs[NDIRECT] = 0 THEN 0 ELSE d.data[ip.addrs[NDIRECT]][k][2]

Owned(d, ip) == ({ip.addrs[k] : k \in 0 .. NDIRECT} \cup {Indirect(d, ip, k) : k \in 0 .. NINDIRECT - 1}) \ {0}

\* Block bn of the file when it is there already: what bmap() does for a reader.
Mapped(d, ip, bn) == IF bn < NDIRECT THEN ip.addrs[bn] ELSE Indirect(d, ip, bn - NDIRECT)

\* Variant: the indirect block itself is not freed.
itruncDirect(s) ==
    iupdate([s EXCEPT !.d = bfree(@, Owned(s.d, s.ip) \ {s.ip.addrs[NDIRECT]}),
                      !.ip.addrs = FreeDinode.addrs, !.ip.size = 0])

itrunc(s) ==
    iupdate([s EXCEPT !.d = bfree(@, Owned(s.d, s.ip)),
                      !.ip.addrs = FreeDinode.addrs, !.ip.size = 0])

\* The n words from off on, up to the end of the file.
readi(s, off, n) ==
    LET m == IF off > s.ip.size THEN 0 ELSE Min({n, s.ip.size - off}) IN
    [k \in 1 .. m |-> LET o == off + k - 1 IN
        s.d.data[Mapped(s.d, s.ip, o \div BSIZE)][o % BSIZE]]

\* One word at s.off; a failed allocation stops the loop.
Stored(s, w) ==
    IF s.addr = 0 THEN [s EXCEPT !.full = TRUE]
    ELSE [s EXCEPT !.d.data[s.addr][s.off % BSIZE] = w, !.off = @ + 1]
PutWord(s, w) == IF s.full THEN s ELSE Stored(bmap(s, s.off \div BSIZE), w)

\* The inode with the offset that a write has reached, -1 when it is refused.
At(s, off)   == [d |-> s.d, ip |-> s.ip, inum |-> s.inum, addr |-> 0, off |-> off, full |-> FALSE]
Written(t)   == t.off # -1 /\ ~t.full
Grown(t)     == iupdate([t EXCEPT !.ip.size = Max({@, t.off})])

\* Writes the words ws at off.
Puts(s, off, ws) ==
    LET put[n \in 0 .. Len(ws)] == IF n = 0 THEN At(s, off) ELSE PutWord(put[n - 1], ws[n]) IN put[Len(ws)]
writei(s, off, ws) ==
    IF off > s.ip.size \/ off + Len(ws) > MAXFILE * BSIZE THEN At(s, -1)
    ELSE Grown(Puts(s, off, ws))

\* What writei() returns.
tot(off, t) == IF t.off = -1 THEN -1 ELSE t.off - off

-----------------------------------------------------------------------------
\* The entries of a directory, free ones included.
Entries(s) == readi(s, 0, s.ip.size)

\* Offset of the entry with this name, or -1.
dirlookup(s, name) ==
    LET es == Entries(s)
        at == {k \in DOMAIN es : es[k][2] # 0 /\ es[k][1] = name}
    IN  IF at = {} THEN -1 ELSE Min(at) - 1

\* Offset of the first free entry, or the end of the directory.
FreeEntry(es) == Min({k \in 1 .. Len(es) + 1 : k <= Len(es) => es[k][2] = 0}) - 1

\* Adds an entry, which is not written when the name is there or the disk is full.
dirlink(s, name, inum) ==
    IF dirlookup(s, name) # -1 THEN At(s, -1)
    ELSE writei(s, FreeEntry(Entries(s)), << <<name, inum>> >>)

\* The inodes that a directory names, apart from itself and its parent.
Named(s) == LET es == Entries(s) IN {es[k][2] : k \in 3 .. Len(es)} \ {0}

\* Nothing but "." and "..".
isdirempty(s) == Named(s) = {}
=============================================================================
