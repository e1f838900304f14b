------------------------------ MODULE FileTable ------------------------------
(***************************************************************************)
(* The table of open files (kernel/file.c) and a process's descriptors     *)
(* (kernel/sysfile.c), as operators.  Every operation on the table is one  *)
(* critical section of ftable.lock.  A file is a record of its reference   *)
(* count, its type, the inode or pipe it stands for, its offset and its    *)
(* access rights; file 0 is the null pointer.                              *)
(***************************************************************************)
EXTENDS Integers, FiniteSets, FiniteSetsExt

CONSTANTS
    NFILE,      \* open files of the system
    NOFILE      \* descriptors of a process

ASSUME FileTableConstants == NFILE \in Nat /\ NOFILE \in Nat \ {0}

Descriptors == 0 .. NOFILE - 1
NoFile      == [ref |-> 0, type |-> "none", obj |-> 0, off |-> 0, readable |-> FALSE, writable |-> FALSE]
EmptyTable  == [f \in 1 .. NFILE |-> NoFile]

\* The file that filealloc() returns, 0 when the table is full, and the table after it.
Unused(ft) == LET free == {f \in 1 .. NFILE : ft[f].ref = 0} IN IF free = {} THEN 0 ELSE Min(free)
filealloc(ft) == IF Unused(ft) = 0 THEN ft ELSE [ft EXCEPT ![Unused(ft)].ref = 1]

filedup(ft, f) == [ft EXCEPT ![f].ref = @ + 1]

\* The table after fileclose(); the file's fields are forgotten with its last reference.
\* The caller then drops the pipe or the inode of a file it closed last.
fileclosed(ft, f) == IF ft[f].ref = 1 THEN [ft EXCEPT ![f] = NoFile] ELSE [ft EXCEPT ![f].ref = @ - 1]
ClosesLast(ft, f) == ft[f].ref = 1

\* The descriptor that fdalloc() takes, -1 when all are in use.
fdalloc(of) == LET free == {fd \in Descriptors : of[fd] = 0} IN IF free = {} THEN -1 ELSE Min(free)

\* argfd(): the file behind a descriptor, 0 when there is none.
argfd(of, fd) == IF fd \in Descriptors THEN of[fd] ELSE 0
=============================================================================
