---------------------------------- MODULE Fs ----------------------------------
(***************************************************************************)
(* The file system calls (kernel/sysfile.c, kernel/file.c) over the inode  *)
(* table and path lookup (kernel/fs.c), run by several processes at once.  *)
(*                                                                         *)
(* A process inside a call has a list of tasks, todo[p], and executes the  *)
(* first.  A task covers the code from one point where other processes can *)
(* interfere to the next: an inode lock that is taken and released without *)
(* another call in between is one task, and so is an iput().  The inodes   *)
(* that a task names in ip and dp are pointers that the process holds.     *)
(*                                                                         *)
(* Disk writes take effect at once: the log makes the calls between        *)
(* begin_op() and end_op() atomic with respect to crashes (module FsLog),  *)
(* so a machine that restarts finds the disk as it was at some moment when *)
(* no call was inside a transaction.                                       *)
(***************************************************************************)
EXTENDS Mkfs, FileTable

CONSTANTS
    Procs,      \* process slots
    InitProc,   \* the process that runs first
    Nobody,     \* holder of a free lock
    Menu,       \* bound: the calls each process may make
    MaxCalls,   \* bound: number of calls of each process
    MaxCrash,   \* bound: number of restarts
    MAXCHUNK,   \* words that filewrite() writes in one transaction
    NDEV        \* number of devices

ASSUME FsConstants ==
    /\ IsFiniteSet(Procs) /\ InitProc \in Procs /\ Nobody \notin Procs
    /\ MaxCalls \in [Procs -> Nat] /\ MaxCrash \in Nat /\ MAXCHUNK \in Nat \ {0}

VARIABLES
    disk,       \* see module Inode
    itable,     \* in-memory inodes, by number: [ref, valid, lock, copy]
    ftable,     \* open files
    ofile,      \* p->ofile
    cwd,        \* p->cwd; 0 for an unused process slot
    todo,       \* tasks of the call that each process is in
    call,       \* that call's arguments
    left,       \* calls that each process may still make
    crashes,    \* restarts so far
    leaked      \* history: inodes that lost their last way to be freed

vars  == <<disk, itable, ftable, ofile, cwd, todo, call, left, crashes, leaked>>
files == <<ftable, ofile, cwd>>
bound == <<left, crashes, leaked>>

NoInode == [ref |-> 0, valid |-> FALSE, lock |-> Nobody, copy |-> FreeDinode]
NoCall  == [op |-> "none"]

T(op, ip, dp, path) == [op |-> op, ip |-> ip, dp |-> dp, path |-> path, f |-> 0, k |-> 0]
Put(i) == T("iput", i, 0, << >>)

Top(p)    == Head(todo[p])
Rest(p)   == Tail(todo[p])

\* The tasks left in the call, which returns when there are none.
Do(p, ts) ==
    /\ todo' = [todo EXCEPT ![p] = ts]
    /\ call' = IF ts = << >> THEN [call EXCEPT ![p] = NoCall] ELSE call

\* userinit(): the memory of a machine with one process, in the root directory.
Boot ==
    [itable |-> [[i \in Inums |-> NoInode] EXCEPT ![ROOTINO].ref = 1],
     ofile  |-> [p \in Procs |-> [fd \in Descriptors |-> 0]],
     cwd    |-> [[p \in Procs |-> 0] EXCEPT ![InitProc] = ROOTINO],
     todo   |-> [p \in Procs |-> << >>],
     call   |-> [p \in Procs |-> NoCall]]

Init ==
    /\ disk = mkfs
    /\ itable = Boot.itable /\ ftable = EmptyTable /\ ofile = Boot.ofile
    /\ cwd = Boot.cwd /\ todo = Boot.todo /\ call = Boot.call
    /\ left = MaxCalls /\ crashes = 0 /\ leaked = {}

-----------------------------------------------------------------------------
\* The inode table.
iget(it, i) == IF it[i].ref > 0 THEN [it EXCEPT ![i].ref = @ + 1]
               ELSE [it EXCEPT ![i] = [NoInode EXCEPT !.ref = 1]]

\* Variant: the reference of the current directory is not counted.
idupLost(it, i) == it

idup(it, i) == [it EXCEPT ![i].ref = @ + 1]

\* The inode as ilock() leaves it in memory: read from disk when it was not valid.
Copy(i) == IF itable[i].valid THEN itable[i].copy ELSE disk.inode[i]
S(i)    == [d |-> disk, ip |-> Copy(i), inum |-> i, addr |-> 0]

\* ilock() of inode i by p, which keeps the lock; s is the inode after what p did to it.
ilock(it, i, s, p) == [it EXCEPT ![i].valid = TRUE, ![i].copy = s.ip, ![i].lock = p]
\* The same, with the lock released again: ilock() ... iunlock().
iunlock(it, i, s) == ilock(it, i, s, Nobody)

\* The inode that a task locks first, 0 when it locks none.
Locks(p) ==
    LET t == Top(p) IN
    CASE t.op \in {"namei", "nameiparent"} -> IF t.path = << >> THEN 0 ELSE t.ip
      [] t.op \in {"link_ip", "link_bad", "unlink_ip", "create_old", "create_new", "open", "chdir"} -> t.ip
      [] t.op \in {"link_dp", "unlink_dp", "create_dp"} -> t.dp
      [] t.op \in {"read", "write", "stat"} -> ftable[t.f].obj
      [] OTHER -> 0

\* Variant: the count is compared as if it had been dropped already.
LastPutLate(i) == itable[i].ref = 0 /\ itable[i].valid /\ itable[i].copy.nlink = 0

\* iput() would free the inode.
LastPut(i) == itable[i].ref = 1 /\ itable[i].valid /\ itable[i].copy.nlink = 0

\* The kernel panics: a locked inode turns out to be free, a directory not to be one, or
\* a removed name to have no links; or, what iput()'s comment rules out, it would sleep
\* for the lock of an inode that it is about to free, with itable.lock held.
Panics(p) ==
    LET t == Top(p)
        i == Locks(p)
    IN  \/ i # 0 /\ itable[i].lock = Nobody /\ Copy(i).type = "none"
        \/ /\ t.op \in {"link_dp", "unlink_dp", "create_dp"}
           /\ itable[i].lock = Nobody /\ Copy(i).type # "dir"
        \/ t.op = "unlink_ip" /\ itable[i].lock = Nobody /\ Copy(i).nlink < 1
        \/ t.op = "iput" /\ LastPut(t.ip) /\ itable[t.ip].lock # Nobody

\* The process is inside a call and can go on.
Ready(p) ==
    /\ todo[p] # << >>
    /\ ~Panics(p)
    /\ Locks(p) # 0 => itable[Locks(p)].lock = Nobody

-----------------------------------------------------------------------------
\* namex() found inode i, or the parent i of the last element: the next task gets it.
Give(ts, i, path) ==
    <<IF path = << >> THEN [Head(ts) EXCEPT !.ip = i] ELSE [Head(ts) EXCEPT !.dp = i, !.path = path]>>
    \o Tail(ts)

\* namex() failed: the call returns -1; only sys_link() has something to undo.
Failed(ts) == IF Head(ts).op = "link_dp" THEN <<[Head(ts) EXCEPT !.op = "link_bad"]>> ELSE << >>

\* Where a path starts, and the table after namex() has taken that inode.
Start(p, path) == IF path.abs THEN ROOTINO ELSE cwd[p]
Started(it, p, path) == IF path.abs THEN iget(it, ROOTINO) ELSE idup(it, cwd[p])

\* One turn of namex()'s loop: an element is looked up under its directory's lock.
namex(p) ==
    LET t    == Top(p)
        s    == S(t.ip)
        k    == dirlookup(s, Head(t.path))
        next == Entries(s)[k + 1][2]
    IN  /\ t.op \in {"namei", "nameiparent"}
        /\ IF t.path = << >> THEN
              /\ UNCHANGED itable
              /\ Do(p, IF t.op = "namei" THEN Give(Rest(p), t.ip, << >>)
                       ELSE <<Put(t.ip)>> \o Failed(Rest(p)))
           ELSE IF s.ip.type = "dir" /\ t.op = "nameiparent" /\ Len(t.path) = 1 THEN
              /\ itable' = iunlock(itable, t.ip, s)
              /\ Do(p, Give(Rest(p), t.ip, t.path))
           ELSE IF s.ip.type = "dir" /\ k # -1 THEN
              /\ itable' = iget(iunlock(itable, t.ip, s), next)
              /\ Do(p, <<Put(t.ip), T(t.op, next, 0, Tail(t.path))>> \o Rest(p))
           ELSE
              /\ itable' = iunlock(itable, t.ip, s)
              /\ Do(p, <<Put(t.ip)>> \o Failed(Rest(p)))
        /\ UNCHANGED <<disk, files, bound>>

\* ref--.  The end of an iput() that has freed the inode ("iput_last") does not look again:
\* when the inode has been allocated, linked and unlinked in between, it is lost.
iput_drop(p) ==
    LET i    == Top(p).ip
        last == itable[i].ref = 1
    IN  /\ Top(p).op = "iput_last" \/ (Top(p).op = "iput" /\ ~LastPut(i))
        /\ itable' = [itable EXCEPT ![i] = IF last THEN NoInode ELSE [@ EXCEPT !.ref = itable[i].ref - 1]]
        /\ leaked' = IF last /\ LastPut(i) THEN leaked \cup {i} ELSE leaked
        /\ Do(p, Rest(p))
        /\ UNCHANGED <<disk, files, left, crashes>>

\* Variant: the freed inode stays valid in memory.
FreedStaysValid(it, i) == [it EXCEPT ![i].copy.type = "none"]

\* valid = 0, with the lock still held.
Invalidated(it, i) == [it EXCEPT ![i].valid = FALSE, ![i].copy = FreeDinode]

\* Names made in a directory after it was removed, by a call that had looked it up
\* before: create() and link() do not ask whether the parent still has links.
Stranded(s) == IF s.ip.type # "dir" THEN {} ELSE Named(s)

iput_free(p) ==
    LET i == Top(p).ip
        s == itrunc(S(i))
    IN  /\ Top(p).op = "iput" /\ LastPut(i)
        /\ disk' = iupdate([s EXCEPT !.ip.type = "none"]).d
        /\ itable' = Invalidated(itable, i)
        /\ leaked' = leaked \cup Stranded(S(i))
        /\ Do(p, <<T("iput_last", i, 0, << >>)>> \o Rest(p))
        /\ UNCHANGED <<files, left, crashes>>

\* iunlockput() of an inode that the process holds locked.
iunlockput(p) ==
    /\ Top(p).op = "iunlockput"
    /\ itable' = [itable EXCEPT ![Top(p).ip].lock = Nobody]
    /\ Do(p, <<Put(Top(p).ip)>> \o Rest(p))
    /\ UNCHANGED <<disk, files, bound>>

-----------------------------------------------------------------------------
\* Variant: a directory may have several names.
LinkableAny(s) == TRUE

Linkable(s) == s.ip.type # "dir"

\* sys_link(): count the link, then enter the name; undo the count when that fails.
link_ip(p) ==
    LET i == Top(p).ip
        s == S(i)
        t == iupdate([s EXCEPT !.ip.nlink = @ + 1])
        new == call[p].new
    IN  /\ Top(p).op = "link_ip"
        /\ IF ~Linkable(s) THEN
              /\ itable' = iunlock(itable, i, s)
              /\ Do(p, <<Put(i)>>)
              /\ UNCHANGED disk
           ELSE
              /\ disk' = t.d
              /\ itable' = Started(iunlock(itable, i, t), p, new)
              /\ Do(p, <<T("nameiparent", Start(p, new), 0, new.names), T("link_dp", i, 0, << >>)>>)
        /\ UNCHANGED <<files, bound>>

link_dp(p) ==
    LET t == Top(p) IN
    /\ t.op = "link_dp"
    /\ \E s \in {dirlink(S(t.dp), t.path[1], t.ip)} :
          /\ disk' = s.d
          /\ itable' = iunlock(itable, t.dp, s)
          /\ Do(p, <<Put(t.dp), IF Written(s) THEN Put(t.ip) ELSE T("link_bad", t.ip, 0, << >>)>>)
    /\ UNCHANGED <<files, bound>>

link_bad(p) ==
    LET i == Top(p).ip
        s == iupdate([S(i) EXCEPT !.ip.nlink = @ - 1])
    IN  /\ Top(p).op = "link_bad"
        /\ disk' = s.d
        /\ itable' = iunlock(itable, i, s)
        /\ Do(p, <<Put(i)>>)
        /\ UNCHANGED <<files, bound>>

-----------------------------------------------------------------------------
\* Variant: only ".." is refused.
DotDotOnly(name) == name = ".."

Dots(name) == name \in {".", ".."}

\* sys_unlink(): the parent is locked and searched ...
unlink_dp(p) ==
    LET t == Top(p)
        s == S(t.dp)
        k == dirlookup(s, t.path[1])
        i == Entries(s)[k + 1][2]
    IN  /\ t.op = "unlink_dp"
        /\ IF Dots(t.path[1]) \/ k = -1 THEN
              /\ itable' = iunlock(itable, t.dp, s)
              /\ Do(p, <<Put(t.dp)>>)
           ELSE
              /\ itable' = iget(ilock(itable, t.dp, s, p), i)
              /\ Do(p, <<[t EXCEPT !.op = "unlink_ip", !.ip = i]>>)
        /\ UNCHANGED <<disk, files, bound>>

\* ... the inode is locked too, its entry is cleared and the parent released ...
unlink_ip(p) ==
    LET t   == Top(p)
        ip  == S(t.ip)
        dir == ip.ip.type = "dir"
    IN  /\ t.op = "unlink_ip"
        /\ IF dir /\ ~isdirempty(ip) THEN
              /\ itable' = iunlock(itable, t.ip, ip)
              /\ Do(p, <<Put(t.ip), T("iunlockput", t.dp, 0, << >>)>>)
              /\ UNCHANGED disk
           ELSE
              /\ \E s \in {writei(S(t.dp), dirlookup(S(t.dp), t.path[1]), <<Zero>>)} :
                 \E dp \in {iupdate([s EXCEPT !.ip.nlink = IF dir THEN @ - 1 ELSE @])} :
                    /\ disk' = dp.d
                    /\ itable' = iunlock(ilock(itable, t.ip, ip, p), t.dp, dp)
              /\ Do(p, <<Put(t.dp), T("unlink_last", t.ip, 0, << >>)>>)
        /\ UNCHANGED <<files, bound>>

\* ... and the link is uncounted.
unlink_last(p) ==
    LET i == Top(p).ip
        s == iupdate([S(i) EXCEPT !.ip.nlink = @ - 1])
    IN  /\ Top(p).op = "unlink_last"
        /\ disk' = s.d
        /\ itable' = iunlock(itable, i, s)
        /\ Do(p, <<Put(i)>>)
        /\ UNCHANGED <<files, bound>>

-----------------------------------------------------------------------------
\* The type of inode that create() is called for.
Type(c) == CASE c.op = "mkdir" -> "dir" [] c.op = "mknod" -> "dev" [] OTHER -> "file"

\* create(): the parent is locked and searched; a new inode is allocated under its lock.
create_dp(p) ==
    LET t  == Top(p)
        s  == S(t.dp)
        k  == dirlookup(s, t.path[1])
        i  == Entries(s)[k + 1][2]
        al == ialloc(disk, Type(call[p]))
    IN  /\ t.op = "create_dp"
        /\ IF k # -1 THEN
              /\ itable' = iget(iunlock(itable, t.dp, s), i)
              /\ Do(p, <<Put(t.dp), T("create_old", i, 0, << >>)>> \o Rest(p))
              /\ UNCHANGED disk
           ELSE IF al.inum = 0 THEN
              /\ itable' = iunlock(itable, t.dp, s)
              /\ Do(p, <<Put(t.dp)>>)
              /\ UNCHANGED disk
           ELSE
              /\ disk' = al.d
              /\ itable' = iget(ilock(itable, t.dp, s, p), al.inum)
              /\ Do(p, <<[t EXCEPT !.op = "create_new", !.ip = al.inum]>> \o Rest(p))
        /\ UNCHANGED <<files, bound>>

\* The name exists: good enough for open(), with the inode locked.
create_old(p) ==
    LET i == Top(p).ip
        s == S(i)
    IN  /\ Top(p).op = "create_old"
        /\ IF call[p].op = "open" /\ s.ip.type \in {"file", "dev"} THEN
              /\ itable' = ilock(itable, i, s, p)
              /\ Do(p, Give(Rest(p), i, << >>))
           ELSE
              /\ itable' = iunlock(itable, i, s)
              /\ Do(p, <<Put(i)>>)
        /\ UNCHANGED <<disk, files, bound>>

\* Variant: a directory that cannot be entered keeps its link.
LinksOfFailed(n) == n

\* fail: ip->nlink = 0
NoLinks(n) == 0

\* The new inode, locked like its parent, gets its first link ...
create_new(p) ==
    LET t == Top(p) IN
    /\ t.op = "create_new"
    /\ \E s \in {iupdate([S(t.ip) EXCEPT !.ip.nlink = 1, !.ip.major = call[p].major])} :
          /\ disk' = s.d
          /\ itable' = ilock(itable, t.ip, s, p)
    /\ Do(p, <<[t EXCEPT !.op = IF Type(call[p]) = "dir" THEN "create_dot" ELSE "create_enter"]>> \o Rest(p))
    /\ UNCHANGED <<files, bound>>

\* fail: the inode loses its link, and with the last reference its blocks.
create_fail(p, it, s) ==
    LET t == Top(p) IN
    /\ disk' = s.d
    /\ itable' = iunlock(it, t.ip, s)
    /\ Do(p, <<Put(t.ip), T("iunlockput", t.dp, 0, << >>)>>)

\* ... a directory its "." and ".." ...
create_dots(p) ==
    LET t   == Top(p)
        dot == t.op = "create_dot"
    IN  /\ t.op \in {"create_dot", "create_dotdot"}
        /\ \E s \in {dirlink(S(t.ip), IF dot THEN "." ELSE "..", IF dot THEN t.ip ELSE t.dp)} :
              IF Written(s) THEN
                 /\ disk' = s.d
                 /\ itable' = ilock(itable, t.ip, s, p)
                 /\ Do(p, <<[t EXCEPT !.op = IF dot THEN "create_dotdot" ELSE "create_enter"]>> \o Rest(p))
              ELSE create_fail(p, itable, iupdate([s EXCEPT !.ip.nlink = NoLinks(@)]))
        /\ UNCHANGED <<files, bound>>

\* ... and the parent its name, and the count of the new "..".
create_enter(p) ==
    LET t   == Top(p)
        dir == Type(call[p]) = "dir"
    IN  /\ t.op = "create_enter"
        /\ \E s \in {dirlink(S(t.dp), t.path[1], t.ip)} :
              IF Written(s) THEN
                 \E dp \in {iupdate([s EXCEPT !.ip.nlink = IF dir THEN @ + 1 ELSE @])} :
                    /\ disk' = dp.d
                    /\ itable' = iunlock(itable, t.dp, dp)
                    /\ Do(p, <<Put(t.dp)>> \o Give(Rest(p), t.ip, << >>))
              ELSE create_fail(p, ilock(itable, t.dp, s, p),
                               iupdate([S(t.ip) EXCEPT !.d = s.d, !.ip.nlink = NoLinks(@)]))
        /\ UNCHANGED <<files, bound>>

-----------------------------------------------------------------------------
\* What fileclose() of file f still has to do outside ftable.lock.
Dropped(ft, f) ==
    IF ClosesLast(ft, f) /\ ft[f].type \in {"inode", "device"} THEN <<Put(ft[f].obj)>> ELSE << >>

\* sys_open() with the inode locked, by create() or by itself ("open"): a file and
\* a descriptor for it.
open(p) ==
    LET i    == Top(p).ip
        mode == call[p].mode
        s    == S(i)
        t    == IF mode.trunc /\ s.ip.type = "file" THEN itrunc(s) ELSE s
        f    == Unused(ftable)
        fd   == fdalloc(ofile[p])
        file == [ref |-> 1, type |-> IF s.ip.type = "dev" THEN "device" ELSE "inode", obj |-> i, off |-> 0,
                 readable |-> mode.acc # "w", writable |-> mode.acc # "r"]
        full == filealloc(ftable)
    IN  /\ Top(p).op \in {"open", "open_locked"}
        /\ IF \/ Top(p).op = "open" /\ s.ip.type = "dir" /\ (mode.acc # "r" \/ mode.trunc)
              \/ s.ip.type = "dev" /\ s.ip.major \notin 0 .. NDEV - 1
              \/ f = 0
           THEN
              /\ itable' = iunlock(itable, i, s)
              /\ Do(p, <<Put(i)>>)
              /\ UNCHANGED <<disk, files>>
           ELSE IF fd = -1 THEN
              /\ ftable' = fileclosed(full, f)
              /\ itable' = iunlock(itable, i, s)
              /\ Do(p, Dropped(full, f) \o <<Put(i)>>)
              /\ UNCHANGED <<disk, ofile, cwd>>
           ELSE
              /\ disk' = t.d
              /\ itable' = iunlock(itable, i, t)
              /\ ftable' = [full EXCEPT ![f] = file]
              /\ ofile' = [ofile EXCEPT ![p][fd] = f]
              /\ Do(p, << >>)
              /\ UNCHANGED cwd
        /\ UNCHANGED bound

\* sys_chdir(): the old directory is put before the new one takes its place.
chdir(p) ==
    LET i == Top(p).ip
        s == S(i)
    IN  /\ Top(p).op = "chdir"
        /\ itable' = iunlock(itable, i, s)
        /\ Do(p, IF s.ip.type = "dir" THEN <<Put(cwd[p]), T("chdir_done", i, 0, << >>)>> ELSE <<Put(i)>>)
        /\ UNCHANGED <<disk, files, bound>>

chdir_done(p) ==
    /\ Top(p).op = "chdir_done"
    /\ cwd' = [cwd EXCEPT ![p] = Top(p).ip]
    /\ Do(p, Rest(p))
    /\ UNCHANGED <<disk, itable, ftable, ofile, bound>>

-----------------------------------------------------------------------------
\* fileread() of a file on disk: the offset moves under the inode's lock.
fileread(p) ==
    LET f == Top(p).f
        s == S(ftable[f].obj)
        r == Len(readi(s, ftable[f].off, Top(p).k))
    IN  /\ Top(p).op = "read"
        /\ ftable' = [ftable EXCEPT ![f].off = @ + r]
        /\ itable' = iunlock(itable, ftable[f].obj, s)
        /\ Do(p, << >>)
        /\ UNCHANGED <<disk, ofile, cwd, bound>>

\* One turn of filewrite()'s loop, a transaction of its own.
filewrite(p) ==
    LET f   == Top(p).f
        off == ftable[f].off
        i   == ftable[f].obj
        n1  == Min({Top(p).k, MAXCHUNK})
    IN  /\ Top(p).op = "write"
        /\ \E s \in {writei(S(i), off, [k \in 1 .. n1 |-> <<"data", i>>])} :
              LET r == tot(off, s) IN
              /\ ftable' = [ftable EXCEPT ![f].off = IF r > 0 THEN @ + r ELSE @]
              /\ disk' = s.d
              /\ itable' = iunlock(itable, i, s)
              /\ Do(p, IF r = n1 /\ Top(p).k > n1 THEN <<[Top(p) EXCEPT !.k = @ - n1]>> ELSE << >>)
        /\ UNCHANGED <<ofile, cwd, bound>>

\* filestat() only loads the inode.
filestat(p) ==
    /\ Top(p).op = "stat"
    /\ itable' = iunlock(itable, ftable[Top(p).f].obj, S(ftable[Top(p).f].obj))
    /\ Do(p, << >>)
    /\ UNCHANGED <<disk, files, bound>>

\* The loop of exit(): the next open descriptor is closed.
exit_close(p) ==
    LET fds == {fd \in Descriptors : ofile[p][fd] # 0}
        fd  == Min(fds)
        f   == ofile[p][fd]
    IN  /\ Top(p).op = "close"
        /\ IF fds = {} THEN
              /\ Do(p, Rest(p))
              /\ UNCHANGED <<ftable, ofile>>
           ELSE
              /\ ofile' = [ofile EXCEPT ![p][fd] = 0]
              /\ ftable' = fileclosed(ftable, f)
              /\ Do(p, Dropped(ftable, f) \o todo[p])
        /\ UNCHANGED <<disk, itable, cwd, bound>>

\* The end of exit(): the current directory has been put, the slot becomes free.
exit_done(p) ==
    /\ Top(p).op = "exit_done"
    /\ cwd' = [cwd EXCEPT ![p] = 0]
    /\ Do(p, Rest(p))
    /\ UNCHANGED <<disk, itable, ftable, ofile, bound>>

Step(p) ==
    /\ Ready(p)
    /\ \/ namex(p) \/ iput_drop(p) \/ iput_free(p) \/ iunlockput(p)
       \/ link_ip(p) \/ link_dp(p) \/ link_bad(p)
       \/ unlink_dp(p) \/ unlink_ip(p) \/ unlink_last(p)
       \/ create_dp(p) \/ create_old(p) \/ create_new(p)
       \/ create_dots(p) \/ create_enter(p)
       \/ open(p) \/ chdir(p) \/ chdir_done(p)
       \/ fileread(p) \/ filewrite(p) \/ filestat(p)
       \/ exit_close(p) \/ exit_done(p)

-----------------------------------------------------------------------------
\* A process that runs in user space and makes a call of its menu.
Calls(p, c) ==
    /\ todo[p] = << >> /\ cwd[p] # 0
    /\ left[p] > 0
    /\ c \in Menu[p]
    /\ left' = [left EXCEPT ![p] = @ - 1]
    /\ UNCHANGED <<crashes, leaked>>

Enter(p, c, ts) ==
    /\ todo' = [todo EXCEPT ![p] = ts]
    /\ call' = IF ts = << >> THEN call ELSE [call EXCEPT ![p] = c]

\* The calls with a path: its lookup, and the tasks that follow.
Task(op) == T(op, 0, 0, << >>)

sys_link       == <<Task("namei"), Task("link_ip")>>
sys_unlink     == <<Task("nameiparent"), Task("unlink_dp")>>
sys_mkdir      == <<Task("nameiparent"), Task("create_dp"), Task("iunlockput")>>
sys_mknod      == <<Task("nameiparent"), Task("create_dp"), Task("iunlockput")>>
sys_chdir      == <<Task("namei"), Task("chdir")>>
sys_open(mode) == IF mode.create THEN <<Task("nameiparent"), Task("create_dp"), Task("open_locked")>>
                  ELSE <<Task("namei"), Task("open")>>

path_call(p, c) ==
    LET ts == CASE c.op = "link"   -> sys_link
                [] c.op = "unlink" -> sys_unlink
                [] c.op = "mkdir"  -> sys_mkdir
                [] c.op = "mknod"  -> sys_mknod
                [] c.op = "chdir"  -> sys_chdir
                [] c.op = "open"   -> sys_open(c.mode)
    IN  /\ c.op \in {"open", "link", "unlink", "mkdir", "mknod", "chdir"}
        /\ Calls(p, c)
        /\ itable' = Started(itable, p, c.path)
        /\ Enter(p, c, <<[Head(ts) EXCEPT !.ip = Start(p, c.path), !.path = c.path.names]>> \o Tail(ts))
        /\ UNCHANGED <<disk, files>>

\* sys_read, sys_write and sys_fstat of a file that is open for it.
file_call(p, c) ==
    LET f == argfd(ofile[p], c.fd) IN
    /\ c.op \in {"read", "write", "stat"}
    /\ Calls(p, c)
    /\ f # 0 /\ ftable[f].type = "inode"
    /\ c.op = "read" => ftable[f].readable
    /\ c.op = "write" => ftable[f].writable
    /\ Enter(p, c, <<[T(c.op, 0, 0, << >>) EXCEPT !.f = f, !.k = c.n]>>)
    /\ UNCHANGED <<disk, itable, files>>

sys_close(p, c) ==
    LET f == argfd(ofile[p], c.fd) IN
    /\ c.op = "close"
    /\ Calls(p, c)
    /\ f # 0
    /\ ofile' = [ofile EXCEPT ![p][c.fd] = 0]
    /\ ftable' = fileclosed(ftable, f)
    /\ Enter(p, c, Dropped(ftable, f))
    /\ UNCHANGED <<disk, itable, cwd>>

sys_dup(p, c) ==
    LET f  == argfd(ofile[p], c.fd)
        fd == fdalloc(ofile[p])
    IN  /\ c.op = "dup"
        /\ Calls(p, c)
        /\ f # 0 /\ fd # -1
        /\ ofile' = [ofile EXCEPT ![p][fd] = f]
        /\ ftable' = filedup(ftable, f)
        /\ UNCHANGED <<disk, itable, cwd, todo, call>>

\* fork(): the child shares the open files and the current directory.
fork(p, q) ==
    /\ \E c \in Menu[p] : c.op = "fork" /\ Calls(p, c)
    /\ cwd[q] = 0 /\ p # q
    /\ ofile' = [ofile EXCEPT ![q] = ofile[p]]
    /\ ftable' = [f \in DOMAIN ftable |->
                    [ftable[f] EXCEPT !.ref = @ + Cardinality({fd \in Descriptors : ofile[p][fd] = f})]]
    /\ itable' = idup(itable, cwd[p])
    /\ cwd' = [cwd EXCEPT ![q] = cwd[p]]
    /\ UNCHANGED <<disk, todo, call>>

\* exit(): every descriptor, then the current directory.
exit(p, c) ==
    /\ c.op = "exit"
    /\ Calls(p, c)
    /\ Enter(p, c, <<Task("close"), Put(cwd[p]), Task("exit_done")>>)
    /\ UNCHANGED <<disk, itable, files>>

\* No call is between begin_op() and end_op().
Quiescent ==
    \A p \in Procs : todo[p] # << >> => Top(p).op \in {"read", "write", "stat", "close", "exit_done"}

\* The machine stops and starts again; what was in memory is lost.
Reboot ==
    /\ Quiescent
    /\ crashes < MaxCrash
    /\ crashes' = crashes + 1
    /\ leaked' = leaked \cup {i \in Inums : disk.inode[i].type # "none" /\ disk.inode[i].nlink = 0}
    /\ itable' = Boot.itable /\ ftable' = EmptyTable /\ ofile' = Boot.ofile
    /\ cwd' = Boot.cwd /\ todo' = Boot.todo /\ call' = Boot.call
    /\ UNCHANGED <<disk, left>>

Next ==
    \/ \E p \in Procs :
          \/ Step(p)
          \/ \E c \in Menu[p] : path_call(p, c) \/ file_call(p, c) \/ sys_close(p, c) \/ sys_dup(p, c) \/ exit(p, c)
          \/ \E q \in Procs : fork(p, q)
    \/ Reboot

Spec == Init /\ [][Next]_vars

-----------------------------------------------------------------------------
Sum(f) == FoldFunctionOnSet(+, 0, f, DOMAIN f)
Count(P(_), Q) == Cardinality({x \in Q : P(x)})

\* The pointers to inode i: current directories (chdir() and exit() have handed
\* theirs to an iput()), open files, and the local variables of the calls.
Leaving(ts) == \E k \in DOMAIN ts : ts[k].op \in {"chdir_done", "exit_done"}
CwdPtrs(i)  == {p \in Procs : cwd[p] = i /\ ~Leaving(todo[p])}
FilePtrs(i) == {f \in DOMAIN ftable : ftable[f].type \in {"inode", "device"} /\ ftable[f].obj = i}
Tasks       == UNION {{p} \X DOMAIN todo[p] : p \in Procs}
IpPtrs(i)   == {x \in Tasks : todo[x[1]][x[2]].ip = i}
DpPtrs(i)   == {x \in Tasks : todo[x[1]][x[2]].dp = i}

\* The descriptors of file f.
FdPtrs(f) == {x \in Procs \X Descriptors : ofile[x[1]][x[2]] = f}

\* Every pointer is counted, once: ip->ref is the number of current directories,
\* open files and local variables that point to the inode, and f->ref is the
\* number of descriptors of the file, on every path through every call.
RefsExact ==
    /\ \A i \in Inums : itable[i].ref = Cardinality(CwdPtrs(i)) + Cardinality(FilePtrs(i))
                                         + Cardinality(IpPtrs(i)) + Cardinality(DpPtrs(i))
    /\ \A f \in DOMAIN ftable : ftable[f].ref = Cardinality(FdPtrs(f))

Addresses(ip) ==
    Count(LAMBDA k : ip.addrs[k] # 0, 0 .. NDIRECT) + Count(LAMBDA k : Indirect(disk, ip, k) # 0, 0 .. NINDIRECT - 1)

\* The bitmap is exact: a block is marked in use when, and only when, it has one
\* owner.  No block is lost when a write, a link or a mkdir runs out of blocks
\* half way, or shared by two files.  And a file has no holes, which is why
\* readi() outside a transaction never makes bmap() allocate.
BlocksExact ==
    /\ disk.used = UNION {Owned(disk, disk.inode[i]) : i \in Inums}
    /\ Cardinality(disk.used) = Sum([i \in Inums |-> Addresses(disk.inode[i])])
    /\ \A i \in Inums : \A off \in 0 .. disk.inode[i].size - 1 :
          Mapped(disk, disk.inode[i], off \div BSIZE) # 0

OnDisk(i)  == [d |-> disk, ip |-> disk.inode[i], inum |-> i, addr |-> 0]
Dirs       == {i \in Inums : disk.inode[i].type = "dir"}

\* All names: directory, position, and the inode that it leads to.
Names ==
    UNION {LET es == Entries(OnDisk(d)) IN {<<d, k, es[k][2]>> : k \in {k \in 3 .. Len(es) : es[k][2] # 0}} : d \in Dirs}

Pending(i) == {p \in Procs : \E k \in DOMAIN todo[p] :
                  todo[p][k].ip = i /\ todo[p][k].op \in {"unlink_last", "link_dp", "link_bad",
                                                              "create_dot", "create_dotdot", "create_enter"}}

\* The link count of an inode is the number of names it has, plus one for each
\* subdirectory's "..", plus the links that a call has counted and not yet entered or
\* removed and not yet uncounted.  So no name ever leads to a free inode.  Only a
\* name that went away with a removed directory stays counted.
LinksExact ==
    LET names == Names IN
    \A i \in Inums :
        LET nlink == disk.inode[i].nlink
            links == Count(LAMBDA x : x[3] = i, names) + Count(LAMBDA x : x[1] = i /\ x[3] \in Dirs, names)
                     + Cardinality(Pending(i)) + (IF i = ROOTINO THEN 1 ELSE 0)
        IN  IF i \in leaked THEN nlink >= links ELSE nlink = links

Orphan(i) == disk.inode[i].type # "none" /\ disk.inode[i].nlink = 0 /\ itable[i].ref = 0

\* An inode without links is freed with its last reference, also when the call that drops
\* it is not the one that unlinked it.  A crash leaves such inodes behind, and so does
\* the gap at the end of iput(); nothing else does.
OrphansFreed == \A i \in Inums : Orphan(i) => i \in leaked

\* iput()'s promise as its comment has it: "If that was the last reference and the
\* inode has no links to it, free the inode (and its content) on disk."
FreedWithLastRef == \A i \in Inums : ~Orphan(i)

\* What is in memory is true: a valid inode equals the one on disk, and a file holds
\* nothing but what was written to it: no zeroes, no directory entries, no
\* other file's data, whatever its blocks were used for before.
ContentsTrue ==
    /\ \A i \in Inums : itable[i].valid => itable[i].copy = disk.inode[i]
    /\ \A i \in Inums : disk.inode[i].type = "file" => Range(Entries(OnDisk(i))) \subseteq {<<"data", i>>}

\* The directories are a tree: a directory has at most one name, and ".." leads
\* back to the directory that has it.
DirTree ==
    LET names == Names IN
    \A x, y \in names : x[3] \in Dirs =>
        /\ x[3] = y[3] => x = y
        /\ Entries(OnDisk(x[3]))[2][2] = x[1]

\* No panic of fs.c or sysfile.c is reached.  One sequence of calls that the instances leave out
\* does reach one: a process in a removed directory looks up ".." when the parent is removed too.
NoPanic == \A p \in Procs : todo[p] # << >> => ~Panics(p)

Blocked(p) == todo[p] # << >> /\ Locks(p) # 0 /\ itable[Locks(p)].lock # Nobody

\* The locks are taken in an order: no set of processes waits only for one another.
NoCircularWait ==
    \A W \in SUBSET {p \in Procs : Blocked(p)} :
        W # {} => \E p \in W : itable[Locks(p)].lock \notin W
=============================================================================
