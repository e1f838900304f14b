-------------------------------- MODULE Mkfs --------------------------------
(***************************************************************************)
(* The disk image that mkfs/mkfs.c builds on the host: a root directory    *)
(* and the given files.  While it is built an image is a record of the     *)
(* disk d and the counters freeblock and freeinode; the bitmap is written  *)
(* last.                                                                   *)
(***************************************************************************)
EXTENDS Inode

CONSTANT
    Files       \* the files of the command line: sequence of [name, words]

\* A new inode: its number is freeinode.
mkfs_ialloc(im, type) ==
    [im EXCEPT !.d.inode[im.freeinode] = [FreeDinode EXCEPT !.type = type, !.nlink = 1],
               !.freeinode = @ + 1]

\* Gives the inode a block in slot k when it has none.
NewAddr(im, inum, k) ==
    IF im.d.inode[inum].addrs[k] # 0 THEN im
    ELSE [im EXCEPT !.d.inode[inum].addrs[k] = im.freeblock, !.freeblock = @ + 1]

\* Gives the inode block fbn when it has none.
NewBlock(im, inum, fbn) ==
    LET t == NewAddr(im, inum, NDIRECT)
        a == t.d.inode[inum].addrs[NDIRECT]
        k == fbn - NDIRECT
    IN  IF fbn < NDIRECT THEN NewAddr(im, inum, fbn)
        ELSE IF t.d.data[a][k][2] # 0 THEN t
        ELSE [t EXCEPT !.d.data[a][k] = <<"addr", t.freeblock>>, !.freeblock = @ + 1]

\* Appends words to a file, one after the other.
iappend(im, inum, ws) ==
    LET put(m, w) ==
            LET off == m.d.inode[inum].size
                t   == NewBlock(m, inum, off \div BSIZE)
                x   == Mapped(t.d, t.d.inode[inum], off \div BSIZE)
            IN  [t EXCEPT !.d.data[x][off % BSIZE] = w, !.d.inode[inum].size = off + 1]
        after[n \in 0 .. Len(ws)] == IF n = 0 THEN im ELSE put(after[n - 1], ws[n])
    IN  after[Len(ws)]

\* One file of the command line: its inode, its entry in the root, its contents.
AddFile(im, f) ==
    LET inum == im.freeinode
        t    == iappend(mkfs_ialloc(im, "file"), ROOTINO, << <<f.name, inum>> >>)
    IN  iappend(t, inum, [k \in 1 .. f.words |-> <<"data", inum>>])

\* The root directory is given whole blocks.
RootSize(off) == (off \div BSIZE + 1) * BSIZE

Blank == [d |-> [used |-> {}, data |-> [b \in Blocks |-> ZeroBlock],
                 inode |-> [i \in Inums |-> FreeDinode]],
          freeblock |-> Min(Blocks), freeinode |-> ROOTINO]

\* main(): the finished image.
mkfs ==
    LET root == iappend(mkfs_ialloc(Blank, "dir"), ROOTINO,
                        << <<".", ROOTINO>>, <<"..", ROOTINO>> >>)
        after[n \in 0 .. Len(Files)] == IF n = 0 THEN root ELSE AddFile(after[n - 1], Files[n])
        im   == after[Len(Files)]
    IN  [im.d EXCEPT !.inode[ROOTINO].size = RootSize(@),
                     !.used = {b \in Blocks : b < im.freeblock}]
=============================================================================
