-------------------------------- MODULE MCFs --------------------------------
(***************************************************************************)
(* Instances of Fs for TLC.                                                *)
(***************************************************************************)
EXTENDS Fs, TLC

CONSTANTS p, q

Abs(names) == [abs |-> TRUE, names |-> names]
Rel(names) == [abs |-> FALSE, names |-> names]

Open(path, acc, create, trunc) ==
    [op |-> "open", path |-> path, major |-> 0, mode |-> [acc |-> acc, create |-> create, trunc |-> trunc]]
Path(op, path)     == [op |-> op, path |-> path, major |-> 0]
Link(old, new)     == [op |-> "link", path |-> old, new |-> new]
Fd(op, fd, n)      == [op |-> op, fd |-> fd, n |-> n]
Other(op)          == [op |-> op]

A   == Abs(<<"a">>)
B   == Abs(<<"b">>)
C   == Abs(<<"c">>)
AB  == Abs(<<"a", "b">>)

TwoProcs   == {p, q}
DataBlocks == 1 .. 5
OneFile    == <<[name |-> "b", words |-> 5]>>

CallsTree == (p :> 4) @@ (q :> 2)
MenuTree ==
    (p :> {Path("mkdir", A), Other("fork"), Path("chdir", A), Open(AB, "rw", TRUE, FALSE), Link(B, AB), Link(A, AB), Path("mkdir", C),
           Fd("write", 0, 6), Fd("dup", 0, 0), Path("unlink", Rel(<<".">>))})
 @@ (q :> {Path("unlink", A), Path("unlink", AB), Path("unlink", B), Open(B, "rw", FALSE, TRUE), Path("mknod", C),
           Fd("close", 0, 0), Fd("read", 0, 2), Fd("stat", 0, 0), Other("exit")})

\* Both processes unlink /b, and one of them makes it again.
CallsOrphan == (p :> 2) @@ (q :> 2)
MenuOrphan  == (p :> {Other("fork"), Path("unlink", B)}) @@ (q :> {Path("mknod", B), Path("unlink", B)})
=============================================================================
