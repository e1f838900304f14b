-------------------------------- MODULE Shell --------------------------------
(***************************************************************************)
(* The shell (user/sh.c) and init (user/init.c) as processes that make     *)
(* system calls: fork, exit and wait over the process table (kernel/proc.c)*)
(* and pipe, open, dup and close over the file table (FileTable).  A       *)
(* system call is one step.  A program that the shell runs writes to       *)
(* descriptor 1, or copies descriptor 0 to 1 until the end of file, or     *)
(* does neither.  Any open() or exec() can fail, and so can a fork() or a  *)
(* pipe() that finds a table full.                                         *)
(***************************************************************************)
EXTENDS ShellParser, FileTable

CONSTANTS
    NPROC,      \* processes of the system
    NPIPE,      \* pipes that memory has room for
    PIPESIZE,
    Scripts     \* what can be typed: sequences of lines; EOF is control-D

ASSUME ShellConstants == NPROC >= 2 /\ NPIPE \in Nat /\ PIPESIZE \in Nat \ {0} /\ MAXARGS \in Nat \ {0}

VARIABLES
    proc,   \* process table: state, parent, the calls a process is still going to make, ...
    of,     \* descriptors of each process
    ft,     \* file table
    pipe,   \* bytes in a pipe, and whether its ends are open
    buf,    \* line the shell has read and not yet forked for, and what its child will parse it to
    script, \* lines still to be typed
    lines,  \* lines typed
    unforked    \* lines of which a fork() failed

vars == <<proc, of, ft, pipe, buf, script, lines, unforked>>

Procs    == 1 .. NPROC
initproc == 1
EOF      == << >>
NoLine   == [line |-> EOF, cmd |-> BAD]

(***************************************************************************)
(* What a process does is the sequence of calls it is still to make.       *)
(* A descriptor that is P(0) or P(1) stands for p[0] or p[1].              *)
(***************************************************************************)
Call(op)       == [op |-> op]
P(i)           == -1 - i
close(fd)      == [op |-> "close", fd |-> fd]
dup(fd)        == [op |-> "dup", fd |-> fd]
open(file, fd) == [op |-> "open", file |-> file, fd |-> fd]
exec(q)        == [op |-> "exec", leaf |-> q]
fork1(code, bg) == [op |-> "fork", code |-> code, bg |-> bg]
exit           == <<Call("exit")>>

RedirFd(tok)  == IF tok = "<" THEN 0 ELSE 1

\* A child of a pipe takes its end of it, the parent closes both ends and waits for two children.
PipeEndOpen(i) == <<close(i), dup(P(i)), close(P(i))>>
PipeEnd(i)     == <<close(i), dup(P(i)), close(P(0)), close(P(1))>>
PipeCloseOne   == <<close(P(0))>>
PipeClose      == <<close(P(0)), close(P(1))>>
PipeWaitOne    == <<Call("wait")>>
PipeWait       == <<Call("wait"), Call("wait")>>

\* runcmd(): the calls for a command.  The file and the leaf are named by the index of their word.
RECURSIVE runcmd(_)
runcmd(cmd) ==
    CASE cmd.type = "EXEC"  -> IF cmd.argv = << >> THEN exit ELSE <<exec(cmd.argv[1][1])>>
      [] cmd.type = "REDIR" -> <<close(RedirFd(cmd.tok)), open(cmd.file[1], RedirFd(cmd.tok))>> \o runcmd(cmd.cmd)
      [] cmd.type = "LIST"  -> <<fork1(runcmd(cmd.left), FALSE), Call("wait")>> \o runcmd(cmd.right)
      [] cmd.type = "PIPE"  -> <<Call("pipe"), fork1(PipeEnd(1) \o runcmd(cmd.left), FALSE),
                                 fork1(PipeEnd(0) \o runcmd(cmd.right), FALSE)>> \o PipeClose \o PipeWait \o exit
      [] cmd.type = "BACK"  -> <<fork1(runcmd(cmd.cmd), TRUE)>> \o exit
      [] OTHER              -> exit

Source   == <<Call("write")>> \o exit
Filter   == <<Call("copy")>> \o exit
Programs == {Source, Filter, exit}

sh       == <<Call("getcmd")>>     \* its own descriptors 0, 1 and 2 are open
init     == <<Call("forksh"), Call("waitsh")>>

NoProc == [st |-> "UNUSED", parent |-> 0, code |-> << >>, p |-> <<-1, -1>>, sh |-> 0, job |-> 0, leaf |-> 0, tree |-> BAD, bg |-> FALSE]

Console == [NoFile EXCEPT !.type = "device", !.readable = TRUE, !.writable = TRUE]

\* init has opened the console as descriptors 0, 1 and 2.
Init ==
    /\ proc = [q \in Procs |-> IF q = initproc THEN [NoProc EXCEPT !.st = "USED", !.code = init] ELSE NoProc]
    /\ ft = [EmptyTable EXCEPT ![1] = [Console EXCEPT !.ref = 3]]
    /\ of = [q \in Procs |-> [fd \in Descriptors |-> IF q = initproc /\ fd <= 2 THEN 1 ELSE 0]]
    /\ pipe = [i \in 1 .. NPIPE |-> [n |-> 0, r |-> FALSE, w |-> FALSE]]
    /\ buf = NoLine
    /\ script \in Scripts
    /\ lines = 0
    /\ unforked = {}

Runs(q, op) == proc[q].st = "USED" /\ proc[q].code[1].op = op
Then(q, code) == proc' = [proc EXCEPT ![q].code = code]
Rest(q) == Tail(proc[q].code)
Fd(q, fd) == IF fd < 0 THEN proc[q].p[-fd] ELSE fd

(***************************************************************************)
(* Files and pipes.                                                        *)
(***************************************************************************)
\* fileclose() of the files behind some descriptors of q.  The last reference to an end of a pipe
\* closes that end, and a pipe that loses its second end is freed.
Refs(q, fds, f) == Cardinality({fd \in fds : of[q][fd] = f})
LastRef(q, fds, f) == ft[f].ref > 0 /\ ft[f].ref = Refs(q, fds, f)
ClosesEnd(q, fds, i, w) == \E f \in 1 .. NFILE : LastRef(q, fds, f) /\ ft[f].type = "pipe" /\ ft[f].obj = i /\ ft[f].writable = w
Ends(pp, r, w) == [n |-> IF r \/ w THEN pp.n ELSE 0, r |-> r, w |-> w]
fileclose(q, fds) ==
    /\ ft' = [f \in 1 .. NFILE |-> IF LastRef(q, fds, f) THEN NoFile ELSE [ft[f] EXCEPT !.ref = @ - Refs(q, fds, f)]]
    /\ pipe' = [i \in 1 .. NPIPE |-> Ends(pipe[i], pipe[i].r /\ ~ClosesEnd(q, fds, i, FALSE),
                                                  pipe[i].w /\ ~ClosesEnd(q, fds, i, TRUE))]
    /\ of' = [of EXCEPT ![q] = [fd \in Descriptors |-> IF fd \in fds THEN 0 ELSE @[fd]]]

sys_close(q) ==
    /\ Runs(q, "close") /\ Then(q, Rest(q)) /\ UNCHANGED <<buf, script, lines, unforked>>
    /\ fileclose(q, {Fd(q, proc[q].code[1].fd)} \cap Descriptors)

\* dup() after close(): there is a descriptor.
sys_dup(q) ==
    /\ Runs(q, "dup") /\ Then(q, Rest(q)) /\ UNCHANGED <<pipe, buf, script, lines, unforked>>
    /\ \E f \in {argfd(of[q], Fd(q, proc[q].code[1].fd))} :
          of' = [of EXCEPT ![q][fdalloc(of[q])] = f] /\ ft' = filedup(ft, f)

\* open() of a file, and the shell's exit(1) if it fails.
Opened(q, f) ==
    /\ Unused(ft) # 0 /\ fdalloc(of[q]) # -1
    /\ ft' = [filealloc(ft) EXCEPT ![Unused(ft)] = [f EXCEPT !.ref = 1]]
    /\ of' = [of EXCEPT ![q][fdalloc(of[q])] = Unused(ft)]
Inode(c) == [NoFile EXCEPT !.type = "inode", !.obj = c.file, !.readable = c.fd = 0, !.writable = c.fd = 1]
sys_open(q) ==
    /\ Runs(q, "open") /\ UNCHANGED <<pipe, buf, script, lines, unforked>>
    /\ \/ Opened(q, Inode(proc[q].code[1])) /\ Then(q, Rest(q))
       \/ Then(q, exit) /\ UNCHANGED <<of, ft>>

\* pipe(): two files and two descriptors, or nothing and the shell's panic().
PipeFile(i, w) == [NoFile EXCEPT !.ref = 1, !.type = "pipe", !.obj = i, !.readable = ~w, !.writable = w]
FreePipes == {i \in 1 .. NPIPE : ~pipe[i].r /\ ~pipe[i].w}
FreeFiles == {f \in 1 .. NFILE : ft[f].ref = 0}
FreeFds(q) == {fd \in Descriptors : of[q][fd] = 0}
HasTwo(s) == Cardinality(s) >= 2
sys_pipe(q) ==
    /\ Runs(q, "pipe") /\ UNCHANGED <<buf, script, lines, unforked>>
    /\ \/ /\ FreePipes # {} /\ HasTwo(FreeFiles) /\ HasTwo(FreeFds(q))
          /\ \E i \in {Min(FreePipes)}, rf \in {Min(FreeFiles)}, fd0 \in {Min(FreeFds(q))} :
             \E wf \in {Min(FreeFiles \ {rf})}, fd1 \in {Min(FreeFds(q) \ {fd0})} :
                /\ pipe' = [pipe EXCEPT ![i] = [n |-> 0, r |-> TRUE, w |-> TRUE]]
                /\ ft' = [ft EXCEPT ![rf] = PipeFile(i, FALSE), ![wf] = PipeFile(i, TRUE)]
                /\ of' = [of EXCEPT ![q][fd0] = rf, ![q][fd1] = wf]
                /\ proc' = [proc EXCEPT ![q].code = Rest(q), ![q].p = <<fd0, fd1>>]
       \/ /\ ~(FreePipes # {} /\ HasTwo(FreeFiles) /\ HasTwo(FreeFds(q)))
          /\ Then(q, exit) /\ UNCHANGED <<of, ft, pipe>>

(***************************************************************************)
(* Processes.                                                              *)
(***************************************************************************)
\* fork(): the child gets a copy of the parent's memory and a reference to its files.
Dupped(t, fds) == [f \in DOMAIN t |-> [t[f] EXCEPT !.ref = @ + Cardinality({fd \in Descriptors : fds[fd] = f})]]
FreeProcs == {q \in Procs : proc[q].st = "UNUSED"}
Forked(q, child, parent, new) ==
    /\ proc' = [proc EXCEPT ![q] = parent, ![new] = [child EXCEPT !.parent = q]]
    /\ of' = [of EXCEPT ![new] = of[q]] /\ ft' = Dupped(ft, of[q])

\* fork1() in runcmd(): the child's code, or panic() if there is no process.
fork(q) ==
    /\ Runs(q, "fork") /\ UNCHANGED <<pipe, buf, script, lines>>
    /\ \E c \in {proc[q].code[1]} :
       \/ \E new \in FreeProcs :
             /\ new = Min(FreeProcs)
             /\ Forked(q, [proc[q] EXCEPT !.code = c.code, !.bg = @ \/ c.bg], [proc[q] EXCEPT !.code = Rest(q)], new)
             /\ UNCHANGED unforked
       \/ /\ FreeProcs = {}
          /\ Then(q, exit) /\ unforked' = unforked \cup {proc[q].job} /\ UNCHANGED <<of, ft>>

\* exit(): the files are closed, the children go to init, the parent finds a zombie.
sys_exit(q) ==
    /\ Runs(q, "exit") /\ q # initproc /\ UNCHANGED <<buf, script, lines, unforked>>
    /\ fileclose(q, Descriptors)
    /\ proc' = [x \in Procs |-> IF x = q THEN [NoProc EXCEPT !.st = "ZOMBIE", !.parent = proc[q].parent]
                                ELSE IF proc[x].parent = q THEN [proc[x] EXCEPT !.parent = initproc] ELSE proc[x]]

Zombies(q) == {x \in Procs : proc[x].parent = q /\ proc[x].st = "ZOMBIE"}

\* wait(0) in the shell, which always has a child to wait for.
sys_wait(q) ==
    /\ Runs(q, "wait") /\ UNCHANGED <<of, ft, pipe, buf, script, lines, unforked>>
    /\ \E z \in Zombies(q) : proc' = [proc EXCEPT ![z] = NoProc, ![q].code = Rest(q)]

\* exec() of some program; if it fails the shell's child exits.
sys_exec(q) ==
    /\ Runs(q, "exec") /\ UNCHANGED <<of, ft, pipe, buf, script, lines, unforked>>
    /\ \/ \E prog \in Programs : proc' = [proc EXCEPT ![q].code = prog, ![q].leaf = proc[q].code[1].leaf]
       \/ Then(q, exit)

(***************************************************************************)
(* The programs that run.                                                  *)
(***************************************************************************)
Std(q, fd) == IF of[q][fd] = 0 THEN NoFile ELSE ft[of[q][fd]]

\* write(1): without a file, or to a pipe without a reader, it fails and the program exits; to a full
\* pipe it waits.
sys_write(q) ==
    /\ Runs(q, "write") /\ UNCHANGED <<of, ft, buf, script, lines, unforked>>
    /\ \E f \in {Std(q, 1)} :
       IF ~f.writable THEN Then(q, exit) /\ UNCHANGED pipe
       ELSE \/ f.type # "pipe" /\ Then(q, Rest(q)) /\ UNCHANGED pipe
            \/ f.type = "pipe" /\ ~pipe[f.obj].r /\ Then(q, exit) /\ UNCHANGED pipe
            \/ /\ f.type = "pipe" /\ pipe[f.obj].r /\ pipe[f.obj].n < PIPESIZE
               /\ Then(q, Rest(q)) /\ pipe' = [pipe EXCEPT ![f.obj].n = @ + 1]

\* read(0), and write(1) of what it got: an empty pipe is waited for until its writers close it.
\* A file or the console is at its end.
copy(q) ==
    /\ Runs(q, "copy") /\ UNCHANGED <<of, ft, buf, script, lines, unforked>>
    /\ \E f \in {Std(q, 0)} :
       IF f.type # "pipe" \/ ~f.readable THEN Then(q, Rest(q)) /\ UNCHANGED pipe
       ELSE \/ /\ pipe[f.obj].n > 0 /\ pipe' = [pipe EXCEPT ![f.obj].n = @ - 1]
               /\ Then(q, <<Call("write")>> \o proc[q].code)
            \/ pipe[f.obj].n = 0 /\ ~pipe[f.obj].w /\ Then(q, Rest(q)) /\ UNCHANGED pipe

(***************************************************************************)
(* The shell's and init's own loops.                                       *)
(***************************************************************************)
\* getcmd(): a line, or the end of file at which the shell exits.
getcmd(q) ==
    /\ Runs(q, "getcmd") /\ script # << >> /\ UNCHANGED <<of, ft, pipe, unforked>>
    /\ script' = Tail(script) /\ lines' = lines + 1
    /\ \/ Head(script) = EOF /\ Then(q, exit) /\ UNCHANGED buf
       \/ Head(script) # EOF /\ Then(q, <<Call("forkcmd")>>) /\ buf' = [line |-> Head(script), cmd |-> parsecmd(Head(script))]

\* The shell forks for the line; the child parses it and runs it.
forkcmd(q) ==
    /\ Runs(q, "forkcmd") /\ buf' = NoLine /\ UNCHANGED <<pipe, script, lines, unforked>>
    /\ \/ \E new \in FreeProcs :
             /\ new = Min(FreeProcs)
             /\ Forked(q, [NoProc EXCEPT !.st = "USED", !.code = runcmd(buf.cmd), !.job = lines, !.tree = buf.cmd],
                       [proc[q] EXCEPT !.code = <<Call("wait"), Call("getcmd")>>], new)
       \/ FreeProcs = {} /\ Then(q, exit) /\ UNCHANGED <<of, ft>>

\* init starts a shell, and another when that one has exited; it reaps everything else.
forksh(q) ==
    /\ Runs(q, "forksh") /\ UNCHANGED <<pipe, buf, script, lines, unforked>>
    /\ \/ \E new \in FreeProcs :
             /\ new = Min(FreeProcs)
             /\ Forked(q, [NoProc EXCEPT !.st = "USED", !.code = sh], [proc[q] EXCEPT !.code = Rest(q), !.sh = new], new)
       \/ FreeProcs = {} /\ Then(q, exit) /\ UNCHANGED <<of, ft>>
waitsh(q) ==
    /\ Runs(q, "waitsh") /\ UNCHANGED <<of, ft, pipe, buf, script, lines, unforked>>
    /\ \E z \in Zombies(q) :
          proc' = [proc EXCEPT ![z] = NoProc, ![q].code = IF z = proc[q].sh THEN init ELSE @]

Step(q) ==
    \/ sys_close(q) \/ sys_dup(q) \/ sys_open(q) \/ sys_pipe(q)
    \/ fork(q) \/ sys_exit(q) \/ sys_wait(q) \/ sys_exec(q)
    \/ sys_write(q) \/ copy(q)
    \/ forkcmd(q) \/ forksh(q) \/ waitsh(q)

Next == \E q \in Procs : Step(q) \/ getcmd(q)
Spec == Init /\ [][Next]_vars

\* Some process runs as long as one can; nobody has to type.
LiveSpec == Spec /\ WF_vars(\E q \in Procs : Step(q))

(***************************************************************************)
(* Properties.                                                             *)
(***************************************************************************)
\* The recursive descent of sh.c, with its NULs written into the line, finds in every line the
\* commands, words and files that the grammar gives it, and rejects exactly the other lines.
ParsesAsGrammar == buf # NoLine => buf.cmd = Meaning(buf.line)

\* Where the descriptors 0 and 1 of the program at a leaf come from, by the command alone: a
\* set of <<leaf, input, output>>.  The pipe of a command is named by the leaves at its right.
RECURSIVE Wires(_, _, _), Leaves(_)
Leaves(cmd) ==
    CASE cmd.type = "EXEC" -> {cmd.argv[k][1] : k \in 1 .. Len(cmd.argv) \cap {1}}
      [] cmd.type \in {"REDIR", "BACK"} -> Leaves(cmd.cmd)
      [] OTHER -> Leaves(cmd.left) \cup Leaves(cmd.right)
Wires(cmd, in, out) ==
    CASE cmd.type = "EXEC"  -> {<<q, in, out>> : q \in Leaves(cmd)}
      [] cmd.type = "REDIR" -> IF cmd.tok = "<" THEN Wires(cmd.cmd, <<"inode", {cmd.file[1]}>>, out)
                                                ELSE Wires(cmd.cmd, in, <<"inode", {cmd.file[1]}>>)
      [] cmd.type = "BACK"  -> Wires(cmd.cmd, in, out)
      [] cmd.type = "LIST"  -> Wires(cmd.left, in, out) \cup Wires(cmd.right, in, out)
      [] cmd.type = "PIPE"  -> Wires(cmd.left, in, <<"pipe", Leaves(cmd.right)>>)
                               \cup Wires(cmd.right, <<"pipe", Leaves(cmd.right)>>, out)
Terminal == <<"device", {0}>>
WireOf(q) == CHOOSE w \in Wires(proc[q].tree, Terminal, Terminal) : w[1] = proc[q].leaf
Running == {q \in Procs : proc[q].st = "USED" /\ proc[q].leaf # 0}

Fits(f, w) == f.type = w[1] /\ (f.type = "inode" => w[2] = {f.obj})
FitsWire(q, w) == /\ Fits(Std(q, 0), w[2]) /\ Std(q, 0).readable
                  /\ Fits(Std(q, 1), w[3]) /\ Std(q, 1).writable
OnPipe(q, fd) == Std(q, fd).type = "pipe"

\* A program has exactly its three descriptors, none of them a left-over of a pipe; input and
\* output are what the command line says, and two programs share a pipe only where it has one.
WiredAsWritten ==
    /\ \A q \in Running :
          /\ {fd \in Descriptors : of[q][fd] # 0} = {0, 1, 2}
          /\ FitsWire(q, WireOf(q)) /\ Std(q, 2).type = "device"
    /\ \A q1, q2 \in Running :
          OnPipe(q1, 1) /\ OnPipe(q2, 0) /\ proc[q1].job = proc[q2].job =>
             (Std(q1, 1).obj = Std(q2, 0).obj <=> WireOf(q1)[3] = WireOf(q2)[2])

\* When the shell prompts, a process of an earlier line that still runs was put in the background,
\* or was left behind by a shell that could not fork.
PromptWaits ==
    \A q \in Procs : Runs(q, "getcmd") =>
        \A x \in Procs \ {initproc, q} : proc[x].st = "USED" => proc[x].bg \/ proc[x].job \in unforked

\* Every line comes to its end: always, later, the shell prompts, only init and the shell are
\* left, and every pipe and every file but the console is free again.  init itself exits, and with
\* it the system, only if background processes have left it none to fork.
CommandsFinish ==
    []<>(/\ \/ \A x \in Procs : proc[x].st = "UNUSED" \/ x = initproc \/ Runs(x, "getcmd")
            \/ Runs(initproc, "exit")
         /\ \A i \in 1 .. NPIPE : ~pipe[i].r /\ ~pipe[i].w
         /\ \A f \in 2 .. NFILE : ft[f] = NoFile)
=============================================================================
