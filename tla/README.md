# A TLA+ development of the xv6-riscv kernel

xv6 is a small Unix-like kernel for a RISC-V multiprocessor. This directory models
the parts of it, and of its shell, whose correctness depends on orders of events that
tests hardly reach: crashes between two disk writes, system calls that run on several
harts at once, wakeups that race with sleeps, allocations that fail half way, counters
and tables at their limits. Every module is written from the C code under `src/`;
`PROJECT.json` maps each definition to the lines it stands for, and lists the hazards
of the code with the line where each one bites.

## The system and its parts

```
 user programs            user/sh.c user/init.c ...             Shell
 -----------------------------------------------------------------------
 system calls             syscall.c sysproc.c sysfile.c         Fs Mem Shell
 processes, scheduler     proc.c trap.c swtch.S                 Proc
 exec, memory             exec.c vm.c kalloc.c                  Mem Vm
 files, pipes             file.c pipe.c                         FileTable Pipe
 console                  console.c uart.c                      Console
 inodes, directories      fs.c      disk image mkfs.c           Fs Inode Mkfs
 log                      log.c                                 FsLog
 buffer cache             bio.c     sleep locks sleeplock.c     Bcache
 disk driver              virtio_disk.c                         VirtioDisk
 spinlocks, interrupts    spinlock.c                            SpinLock
```

What is persistent is the disk only. The kernel handles a crash (the log), failing
allocations (roll-back in `fork`, `uvmalloc`, `exec`, `writei`, `sys_link`, `create`,
`pipealloc`), and `kill` of a process that sleeps. No message is lost or duplicated, but
interrupts arrive late or together.

| module | code | abstract specification it implements | proofs |
|---|---|---|---|
| `FsLog` | `log.c`, with the cache and the disk as it sees them | `TxDisk`: groups of calls become durable atomically | `FsLogProofs` |
| `Bcache` | `bio.c`, `sleeplock.c` | `BlockStore`: one locked register per block | `BcacheProofs` |
| `VirtioDisk` | `virtio_disk.c`, with the device as environment | `BlockIO`: a request is served once between call and return | `VirtioDiskProofs` |
| `Inode`, `Mkfs` | lower half of `fs.c`; `mkfs.c` (operators) | | |
| `FileTable` | `file.c`, descriptors (operators) | | |
| `Fs` | upper half of `fs.c`, `sysfile.c`, `file.c` | | `FsRefProofs`, `FsProofs` |
| `Vm` | `kalloc.c`, `vm.c` (operators) | | |
| `Mem` | `exec.c`, memory in `fork`, `exit`, `wait`, `sbrk` | `AddressSpace`: private memories, calls all or nothing | |
| `Proc` | `proc.c`, the decisions of `trap.c` | | `ProcProofs` |
| `SpinLock` | `spinlock.c`, `sched`, `scheduler`, `kerneltrap` | | `LockPipeProofs` |
| `Pipe` | `pipe.c` | `ByteQueue`: a bounded FIFO of bytes | `LockPipeProofs` |
| `Console` | `console.c`, `uart.c`, with the device as environment | `LineQueue`: an edited line, and committed lines | `ConsoleProofs` |
| `ShellParser` | parser of `sh.c` (operators) | a reference grammar in the same module | |
| `Shell` | `runcmd` and `main` of `sh.c`, `init.c` | | |

Each `MC*` module instantiates one of these for TLC. Definitions that a comment calls
a *variant* are faulty forms of the definition that follows them. No specification
uses them; `PROJECT.json` pairs each with the property that catches it.

## How the parts fit together

The components are modelled one at a time, each using what the one below promises:

- `SpinLock` justifies that a section under a spinlock is one step, and `Proc` that
  `sleep(chan, lk)` gives up the lock and goes to sleep as one step. All others use both.
- `VirtioDisk` implements `BlockIO`. `Bcache` reads and writes a block in one step, which
  is `BlockIO`'s `Serve`: nobody else touches the buffer or the block between the call and
  the return, because the caller has the buffer's sleep lock.
- `Bcache` implements `BlockStore`. `FsLog` reads and writes a cached block in one step,
  and may lose any unpinned cached copy at any time (`Evict`), which is weaker than what
  the LRU list does. `Bcache`'s clients release no changed buffer that is neither
  written nor pinned; `PinnedWhileLogged` says that the log keeps this rule.
- `FsLog` implements `TxDisk`. `Fs` writes the disk at once, and a restart finds the disk
  of a moment when no call was inside a transaction, as `TxDisk`'s crash does.
- `Mkfs` builds the disk that `Fs` starts from, `FileTable` is shared by `Fs` and `Shell`.
- `Shell` takes `fork`, `exit` and `wait` as whole calls, which `Proc` shows in detail, and a
  pipe as a count of bytes with two ends, which is what `ByteQueue` leaves when the bytes'
  values do not matter.

## The modules and the code

**FsLog.** `lh`, `outstanding` and `committing` are the fields of `struct log`; `dhead` and
`logdata` are the log on disk, `disk` the home blocks, `cache` and `pin` the buffer cache.
Sections under `log.lock` are one step. `commit()` runs without the lock, so it takes one
step per block of `write_log` and `install_trans`, and one for each `write_head`. `Crash`
may come between any two steps: it keeps the three disk variables and nothing else, and
the next boot runs `read_head`, `install_trans` and the clearing of the header, where it
can crash again. A single-block write is atomic. `panicked` records the panics of `log.c`.

**Bcache.** `bget()` is one step up to the release of `bcache.lock` and another for
`acquiresleep()`; `brelse()` is one step for `releasesleep()` and another for the rest. The
list is kept as `next` and `prev` pointers, and its update is the code's order of
assignments. A process has one buffer at a time.

**VirtioDisk.** The driver's sections are split where the device can tell: after the
descriptors and the ring entry are written, and after `avail->idx`. The handler
acknowledges, reads the ring entry by entry, and leaves. The device (external) fetches
chains, serves them in any order, reports them, and raises its interrupt some time after
the report. The 16-bit indices are modulo `WRAP`. `kill()` wakes sleepers at any time.

**Inode, Mkfs, FileTable.** Operators on records: the disk is its bitmap, its blocks and its
inodes; a word of a block is a byte of a file, a directory entry or a block address.
`balloc`, `bmap`, `itrunc`, `readi`, `writei`, `dirlookup`, `dirlink` and the image builder are
functions of the disk, including what they leave behind when a block is missing.

**Fs.** A process inside a call has a list of tasks, `todo[p]`, and executes the first. A task
covers the code from one point where another process can interfere to the next: an inode
lock taken and released with nothing in between is one task, and so is an `iput()`. The
tasks name the inodes the process points to, so that reference counts can be compared
with the pointers there are. `leaked` is a history variable: the inodes that a crash,
or a removed directory, or the gap at the end of `iput()` has cut off.

**Vm, Mem.** Memory is a set of free pages and the contents of all pages; a page holds page
table entries or words. `walk`, `mappages`, `uvmunmap`, `copyin`, `copyout` and the rest are
operators; in `Mem` a step is one turn of an allocating loop, so that a call can run out
of memory at every page because another process took the last one. Loops that only free
are one step. Page tables have two levels in the run, three in the code; `walk` goes down
`LEVELS` levels.

**Proc.** Slots of `proc[]` with their `state`, `chan`, `killed`, `pid`, `parent` and lock; `proc` is
what each hart runs. A section under one slot's lock is a step, except where the lock is
carried through `swtch()` (`scheduler`/`resume`, `sched`). `wait_lock` is held over many steps,
and the loops of `allocproc`, `wait`, `reparent` and `wakeup` take one step per slot, so other
harts run in between. A timer interrupt can come wherever interrupts are on. The only
channel is the address of a process, as in `wait()`.

**SpinLock.** The threads run any code that follows the kernel's lock order; what is modelled
exactly is `acquire`, `release`, `push_off`, `pop_off`, the interrupt entry and return, and
the switch with its saving of `intena`. Memory is sequentially consistent: the fences in
`acquire` and `release` are taken to do their work.

**Pipe.** The ring and its two counters, modulo `WRAP`. `pipewrite` holds the lock from one
sleep to the next and takes a step per byte, `piperead` a step per byte; processes are
killed, fail to copy, and close their end. The bytes a call still has to move are `n`.

**Console.** Readers take turns under `cons.lock`; `uartstart()` runs in steps under
`uart_tx_lock`; the handler's echo goes to the device without that lock. A step is one
access to the device or one turn of a loop. The PLIC gives the interrupt to one hart at a
time, so there is one handler. The device (external) is a 16550: two FIFOs, and an
interrupt raised when the transmitter runs empty.

**ShellParser, Shell.** A line is a sequence of characters and a word a pair of indices; the
parser is the recursive descent of `sh.c`, with the NULs that `nulterminate` writes. In
`Shell` every process is the list of system calls it is still to make, and a call is one
step. A program writes to descriptor 1, or copies 0 to 1 until the end of file, or does
neither. Any `open` or `exec` can fail, and so can a `fork` or `pipe` that finds a table full.

## What is checked

| run | instance | shows |
|---|---|---|
| `log` | 2 processes, 3 blocks, 2 values, log of 4 blocks | `AtomicCommit`: crashes keep whole groups of calls. `WriteAhead`; the inductive invariant `LogInv`; no panic of `log.c`; sleepers in `begin_op` wake |
| `bcache` | 2 processes, 4 blocks, 3 buffers, 2 pins | `IsBlockStore`; exact reference counts; a sleeper has a holder to wake it |
| `virtio_data` | 2 processes, 8 descriptors | `ServedOnce`: completions out of order, late interrupts and kills |
| `virtio_wait` | 3 processes, 4 descriptors | no descriptor lost or shared; published requests return, and those who wait are woken |
| `fs` | 2 processes, 4 inodes, 5 data blocks, 4 + 2 calls, 1 restart | reference, link and block counts exact on every path, files hold what was written to them, directories are a tree, no panic, no circular wait |
| `fs_orphan` | 2 processes, 2 + 2 calls | *violation*, see below |
| `mem` | 2 processes, 13 pages, 6 programs, 4 + 2 calls | every page is free or has one use whatever failed where; no panic; `IsAddressSpace` |
| `proc_tree` | 2 harts, 3 slots, pids up to 3 | one hart per stack, one lock at a switch, live parents, no missed exit, zombies freed by their parents |
| `spinlock` | 2 harts, 2 processes, 2 ranked locks | exclusion, no deadlock with the own handler, `intena` restored after migration |
| `pipe` | 1 reader, 2 writers, ring of 2, counters modulo 4 | `IsByteQueue`; freed after the last use; calls return |
| `console` | 2 readers, 2 writers, 4 events, input ring of 2, output ring of 1 | `IsLineQueue`; written characters go out once and in order; calls return |
| `shell` | all lines of up to 3 characters and 8 longer, 6 processes, 2 pipes | lines parse as the grammar says, programs get the descriptors the line gives them, the prompt waits, lines end |

Why the bounds are enough, and what they are:

- Two processes suffice for every race between a pair of calls. The third is there where
  a wakeup must choose among sleepers (`virtio_wait`, `pipe`), or a child is orphaned
  (`proc_tree`).
- Blocks outnumber buffers, so buffers are reused; a log of 4 blocks holds two calls'
  reservations but not three, so groups of two calls commit together and others wait.
- Rings and counters are small enough to wrap several times. The moduli (`WRAP`) keep the
  relation that the code relies on: the ring size divides the modulus and is less than it.
- The disk of `fs` has a root directory and one file of two blocks, so that most calls that
  allocate can fail; with one direct address and blocks of 4 words a file reaches its
  indirect block. The calls (`Menu`) make, link, open, write, truncate and remove files and
  directories that the other process is using.
- The memory of `mem` is too small for two programs at once, and the programs include an
  empty segment, a short file, an unaligned one and no ELF file at all.
- `MaxPid` bounds the forks, `MaxKilled` the slots that are marked killed at once, `MaxPins`
  the pinned buffers, `MaxN` the bytes of a call, `OpBlocks` what a call writes of
  `MAXOPBLOCKS`, `MaxCalls` and `MaxCrash` the calls and restarts, `MaxEvents` the keys, reads,
  characters written and kills of the console. `START` makes the console's indices wrap
  within these events.
- Symmetry is used in `proc_tree`, `spinlock`, `bcache` and `virtio_data`, which check no
  liveness.

Deadlock is an error except where the system may stop: when all have closed the pipe, and
when the bounded calls, events or lines of `fs`, `mem`, `console` and `shell` are used up.

Fairness, and why the code justifies it:

- A hart goes on executing what it has begun, and a file-system call comes to its end
  (`log`: weak fairness of each process's kernel steps).
- A spinlock that is free again and again is obtained in the end by a process that spins
  for it (`virtio_wait`: strong fairness of the driver and of the interrupt); the device
  serves what it is given.
- Some process runs as long as one can, the scheduler being a round robin (`pipe`, `shell`: weak
  fairness of the disjunction). `pipe` needs also that processes close their descriptors
  in the end, which `exit()` does.
- The transmitter sends what is in its FIFO, and the handler, the readers and the writers
  of the console go on (weak fairness of each).
- Nobody has to start a call, type a key or a line, write, or crash. No fairness is assumed
  of sleep locks, descriptors or log space: a process may lose the race for them again and
  again, and only "is woken" is claimed there.

## What is proved

Eight components have proofs for every value of the constants. Spin locks and pipes share a
module, and the file system takes two, of which the first holds lemmas. The safety theorems have the same form: an inductive
invariant, a lemma per action, and a last step in temporal logic.

**`FsLogProofs`** (assuming `LogConstants`: finitely many processes, sizes are
natural numbers, no relation between them). `LogInvariant`, `TypeCorrect`, `CommitExclusion`, `PinsExact`,
`WriteAheadRule` and `LogImplementsTxDisk`, the refinement of `TxDisk`. That nobody writes
while a process commits depends on `outstanding` being the number of processes between
`begin_op` and `end_op` (`WhoInv`); that the disk is right after a crash depends on how the
header on disk, the header in memory and the place of the committer are related
(`HeadInv`), on how far its copy loop has come (`LoopInv`), and on unlogged blocks being
equal in cache and on disk (`CacheInv`). The refinement maps `durable` to the home blocks
overlaid with the committed log; `write_head` is the abstract commit, `Crash` the abstract
crash, every other step of commit and recovery a stutter.

`ReservationSuffices` is that no panic of `log.c` is reached. It needs relations between the
sizes, and states them: a call logs fewer blocks than it reserves (`OpBlocks < MAXOPBLOCKS`),
a reservation is less than `LOGSIZE`, and the log on disk has `LOGSIZE` blocks with its header
or more. `begin_op` tests `lh.n + (outstanding + 1) * MAXOPBLOCKS > LOGSIZE` and then forgets who
wrote what, so the invariant (`ReserveInv`) compares the length of the log with the blocks
written by the calls that are still running: with two or more of them, the log is no
longer than `LOGSIZE` less the reservations plus those blocks. When a call ends, its blocks
stay in the log and its reservation goes; as the blocks are fewer, the comparison is kept.
With one call left it is weaker, because the group's first call is not compared with
anything. The margin in `OpBlocks < MAXOPBLOCKS` is needed: see the last but one section.

**`BcacheProofs`** (`BcacheConstants`: finitely many processes, at least one buffer).
`ReferencesExact`, `SleepersHaveHolder`, and `CacheIsBlockStore`, the refinement. Between
`bget()`'s choice of a buffer and its `acquiresleep()` only the count protects the buffer, so
`RefcntExact` is part of the invariant that ties a process to its block (`Attached`), with
the holder of each lock (`LockHeld`), uniqueness (`OneBufferPerBlock`), validity (`Filled`),
and equality with the disk of what is neither pinned nor being changed (`Clean`).

**`VirtioDiskProofs`** (`VirtioConstants`: any processes and buffers; the number of descriptors
divides the modulus of the ring indices and is less than it). `ChainsConserved`,
`DriverServesOnce`, the refinement of `BlockIO`, and `NoDriverPanic`. What is in a ring is what
lies between its two indices, a set of places modulo `NUM` (`Window`), and the arithmetic is
how that set grows and shrinks when a wrapping index moves. The invariant says that no
index laps the other and no chain is twice in a ring (`Rings`), that requests have three
descriptors of their own and all others are free (`Descriptors`), that chains stay as they
were formatted until the request returns (`Formatted`), and that each chain under way is in
one place of four (queued, with the device, served, reported) and belongs to a request whose
buffer the disk owns, and the converse (`Apart`, `Owned`, `Tracked`, `Status`). Nothing in the
driver tests whether a ring is full. That it never is follows from the rest by the
pigeonhole principle: the entries of a full ring would be all descriptors, but the chain to
be entered is in no ring. The refinement's transfer is the step in which the device serves
a chain. The device answers a command that disagrees with its buffer's direction with an
error, and with 0 otherwise; `BadStatus` and `BadFree` are the conditions under which the
handler, `free_chain` and `free_desc` panic, and `NoDriverPanic` says that no reachable state
satisfies one.

**`ProcProofs`** (`ProcConstants`: at least one slot; any harts). `StacksAreExclusive`,
`SchedHoldsOneLock`, `ParentsAreAlive`, `ZombiesAreNoticed`, `ZombiesAreReaped`. The invariant
says which hart is on which stack and holds its lock (`OnCpu`), who has `wait_lock`
(`WaitLock`), what a state says of the thread (`Phase`), that a slot between `allocproc` and
`RUNNABLE` is its creator's (`Forking`), that the tree has live parents also in the middle of
`reparent` (`Tree`), and what the scans of `wait` and the wakeups of `exit` have already
established (`Notice`). The last is why an `exit()` that wakes the parent before it becomes
a zombie is not missed: `wait_lock` is held until `sched()`.

**`LockPipeProofs`**, spin locks (`SpinConstants`: the sets are disjoint). `LocksExclude`,
`NobodyWaitsForItself`, `IntenaFollowsThread`. `lk->cpu` names a hart and a lock belongs to a
thread, so the invariant says that both agree, in both directions and across `swtch()`
(`HeldIsOwned`, `OwnedIsHeld`), that `noff` counts the locks (`InterruptsOff`), and that
`intena`, on the hart or saved, is what the thread started from (`Intena`).

**`LockPipeProofs`**, pipes (`PipeConstants`: the size of the ring divides the modulus of the counters and is
less than it). `FreedAfterUse`, and `PipeIsByteQueue`, the refinement. Its arithmetic is a
handful of lemmas on remainders: a counter that wraps still points to the next place of
the ring, and `nwrite == nread + PIPESIZE` in wrapping arithmetic is "full". The invariant
bounds the bytes in the ring and says who is inside a call.

**`ConsoleProofs`** (`ConsoleConstants`: the size of the input ring divides the modulus of its
indices and is less than it; the transmit FIFO holds two characters or more; any readers,
writers and output ring). `ConsoleIsLineQueue`, the refinement of `LineQueue`, and `OutputIsExact`.
For the input, the invariant says that committed input and line together fit the ring and
that the line has no newline (`Lined`), and that a reader outside a call has nothing
(`Outside`). The rest is lemmas on what lies between two wrapping indices (`Span`): it grows,
shrinks at either end and is joined as a sequence does, and a store at `e` changes nothing
between `r` and `e`. The newline matters for `^U`, which stops at one: there is none before
the committed input, so it erases the whole line. For the output, the invariant says who
holds `uart_tx_lock` and where (`TxLock`), that the ring has no more than its size (`Ring`), and
that the FIFO's characters, plus one for `uartstart()` and one for the echo when either has read
LSR and not yet written THR, are at most two (`Fifo`): each of the two finds the transmitter
idle, and between the test and the write only the other can come in. `Exact`, the part of
`OutputExact` about order, follows the characters of one writer through the ring, the hands of
`uartstart()` and the FIFO, with echo inserted in front of what the ring still has.

**`FsRefProofs`, `FsProofs`** (`FsConstants`: finitely many processes; `FileTableConstants`: the sizes
are natural numbers, a process has a descriptor). `RefCounting` is the invariant `RefsExact`, and
`NothingDangles` what the kernel needs of it: an inode or a file that a process, a file
or a call still points to has a reference, so it is not reused. What a call still has to do is
a list of tasks in `Fs`, and a pointer in a local variable of the C code is a field of a
task. Exactness alone is not inductive: a step is right only if the call is where the code
can be. `RefsInv` adds the forms that the lists take (`Shape`: a path lookup with what receives its
result, a creation, at most one `iput()` before the rest of a call), that a task which works on
one inode points to no second one, that a slot without a process has no files and no
tasks, and that a process past the loop of `exit()` has no files left. Every call is then
compared by what it adds to the counts and to the pointers of its process (`Balanced`, `Paid`). The
counts are cardinalities of sets of places in these lists. Least members of a set of
naturals (the first free descriptor, the first free file) come from well-foundedness;
no other induction is needed, because the lists are short.

Only model-checked: liveness everywhere, which is out of the prover's reach; the other
invariants of `Fs`; and everything about `Mem` and `Shell`. The shell's modules use recursive
operators, which the prover does not support. Links, blocks, contents and the tree of
directories in `Fs`, and the page counts of `Mem`, are sums over what recursive functions walk
(directories, block lists, page tables), and facts about those need an induction over data.

## Where code and comments disagree

`fs_orphan`. The comment of `iput()` (`fs.c:331`) says: "If that was the last reference and the
inode has no links to it, free the inode (and its content) on disk." `iput()` frees the
inode, lets go of `itable.lock`, and drops its reference afterwards (`fs.c:360`). If between
the two another process allocates the inode again, links it, unlinks it and drops its own
reference, that process sees a count of 2 and does not free it, and the first one does not
look again: the inode stays allocated without links or references.

## What the models show beside the properties

Behaviours of the code that the models have and no property forbids, or that the
instances leave out:

- Log: `begin_op` reserves up to `LOGSIZE` data blocks, but `mkfs` gives the log `LOGSIZE` blocks
  with the header, and `log_write` panics at `log.size - 1` (`log.c:133`). Three calls that each
  write `MAXOPBLOCKS` blocks would panic; the kernel's calls write fewer (`OpBlocks`).
- Processes: `kill(0)` marks a free slot, whose pid is 0, and `allocproc` does not clear the mark
  (`proc.c:124`). A kill between the test of `killed` and `sleep` in `wait` is noticed only
  when a child exits (`proc.c:427`).
- File system: a crash leaves inodes that were open and unlinked allocated. A name entered
  in a directory that is removed at the same time is lost with it, and its inode stays
  counted (`leaked`). `..` of a removed directory may lead to a free inode, and looking
  it up panics (`fs.c:313`). If the names in the root fill its last block exactly, `mkfs`
  rounds the size one block too far (`mkfs.c:168`), which leaves a hole.
- Memory: `sbrk` by a negative amount larger than the memory wraps; `uvmdealloc` then sees a
  larger size, changes nothing, and the call succeeds.
- Shell: of two redirections in one direction the first wins (`a >f >g` writes `f`), `a & b` is a
  syntax error, and `init` exits if its own `fork` fails.

## What is not modelled, and why

- `iget`'s panic on a full inode table: the table of `Fs` has an entry per inode.
- The kernel's own page table (`kvmmake`), the trampoline and `swtch`, register and device
  setup at boot: straight-line code without interleavings.
- `ticks` and `sys_sleep`: one comparison; its sleep and wakeup are those of the other modules.
- The dispatch of system calls, the fetching of integer arguments, and `sys_add`, one addition of
  two arguments: no state.
- `printf`, `panic` and what happens on other harts after a panic, `procdump`: output only.
- `string.c`, the user library and its allocator, the user programs other than the shell,
  `init`, `cat` and `echo`: sequential code within one process. The shell's `cd` is left out
  with it, since directories are in `Fs`.
- The tests were read for what they expect.
