-------------------------------- MODULE MCMem --------------------------------
(***************************************************************************)
(* Instance of Mem for TLC.                                                *)
(***************************************************************************)
EXTENDS Mem, TLC

CONSTANTS p, q

TwoProcs == {p, q}

\* argv = <<2, 0>> at address 0, and the string "7" at address 2.
FirstWords == (0 :> 2) @@ (1 :> 0) @@ (2 :> 7) @@ (3 :> 0)

Text(memsz, filesz, short) ==
    [load |-> TRUE, vaddr |-> 0, memsz |-> memsz, filesz |-> filesz, flags |-> {"X"}, word |-> 8, short |-> short]
Note == [Text(0, 0, FALSE) EXCEPT !.load = FALSE]
Data == [load |-> TRUE, vaddr |-> 4, memsz |-> 3, filesz |-> 1, flags |-> {"W"}, word |-> 9, short |-> FALSE]

Prog   == [elf |-> TRUE, segs |-> <<Text(3, 2, FALSE), Note, Data>>]
Tiny   == [elf |-> TRUE, segs |-> <<Text(3, 2, FALSE)>>]
Short  == [elf |-> TRUE, segs |-> <<Text(3, 2, TRUE)>>]
Odd    == [elf |-> TRUE, segs |-> <<Text(3, 2, FALSE), [Data EXCEPT !.filesz = 5]>>]
Nil    == [elf |-> TRUE, segs |-> <<Text(0, 0, FALSE)>>]
Script == [elf |-> FALSE, segs |-> << >>]

AllPrograms == {Prog, Tiny, Short, Odd, Nil, Script}

Sbrk(n)         == [op |-> "sbrk", n |-> n]
Exec(prog, a)   == [op |-> "exec", prog |-> prog, argv |-> a]
Read(va, n)     == [op |-> "read", va |-> va, n |-> n, word |-> 6]
Other(op)       == [op |-> op]

CallsMem == (p :> 4) @@ (q :> 2)
MenuMem ==
    (p :> {Sbrk(2), Sbrk(-3), Sbrk(-100), Other("fork"), Exec(Tiny, 0), Read(2, 3), Other("exit")})
 @@ (q :> {Sbrk(23), Exec(Prog, 0), Exec(Short, 1), Exec(Odd, 1), Exec(Nil, 1), Exec(Script, 2), Exec(Prog, 127),
           Read(2, 3), Other("fork"), Other("exit")})
=============================================================================
