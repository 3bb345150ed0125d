-------------------------------- MODULE Calls --------------------------------
(***************************************************************************)
(* Several processes inside the system calls on files, by the statement:   *)
(* sys_open, sys_close and sys_write (kernel/syscall/sysfile.c) with       *)
(* filealloc and fileclose (kernel/fs/file.c) and iget, ilock, iput,       *)
(* ialloc, balloc and the end of writei (kernel/fs/fs.c), while processes  *)
(* are made and end (kernel/proc/proc.c).  File has one process and what   *)
(* is in the blocks; Proc has the processes by the statement.              *)
(*                                                                         *)
(* A statement on shared state is one step and a tick may run another      *)
(* process after it.  Nothing is locked, so two processes can be given the *)
(* same thing; Conflict says where.  BOUND: a behaviour ends when it has   *)
(* come to such a place.                                                   *)
(*                                                                         *)
(* The buffers of bread are shared, so that bitmap and dinode are memory   *)
(* and disk.  A file is as long as its blocks, and a write appends one.    *)
(***************************************************************************)
EXTENDS Integers, FiniteSetsExt

CONSTANTS NPROC,    \* slots of proc[], 64 in the code
          NFILE,    \* files of ftable, 100 in the code
          NOFILE,   \* descriptors of a process, 16 in the code
          NB,       \* blocks
          NINODES,  \* inodes on the disk, inode 0 included
          NINODE    \* slots of icache, 50 in the code

\* BOUND: one byte of the bitmap, so that balloc loads it once.
ASSUME CallsAssumption ==
  /\ NPROC \in Nat \ {0} /\ NFILE \in Nat \ {0} /\ NOFILE \in Nat \ {0}
  /\ NB \in 1 .. 8 /\ NINODES \in Nat /\ NINODES > 1 /\ NINODE \in Nat \ {0}

VARIABLES
  status, parent,          \* struct proc: ALLOCATED to SLEEPING are "live"
  ofile,                   \* p->ofile[]
  fref, fip, off,          \* ftable.file[]: ref, ip, off
  ref, inum, valid, mem,   \* icache.inode[], mem its fields type and size
  bitmap, dinode,          \* the bitmap block, the inode blocks
  pc,                      \* the statement a process is at
  byte,                    \* balloc: m
  want, ip, empty,         \* ialloc and iget: inum, the loop pointer, empty
  f, fd,                   \* f and i of filealloc, fd
  given, made              \* history: how often balloc, ialloc returned it

procs  == <<status, parent, ofile>>
ftable == <<fref, fip, off>>
icache == <<ref, inum, valid, mem>>
disk   == <<bitmap, dinode>>
locals == <<byte, want, ip, empty, f, fd>>
past   == <<given, made>>
vars   == <<procs, ftable, icache, disk, pc, locals, past>>

Slot  == 0 .. NPROC - 1
Files == 0 .. NFILE - 1
Fds   == 0 .. NOFILE - 1
Islot == 0 .. NINODE - 1
Inum  == 1 .. NINODES - 1
Blk   == 0 .. NB - 1
Null == -1     \* no process, file, descriptor, slot of icache
Free == [type |-> "free", size |-> 0]
File == [type |-> "file", size |-> 0]

\* One process, nothing open, some files on the disk.
Init ==
  /\ status = [p \in Slot |-> IF p = 0 THEN "live" ELSE "free"]
  /\ parent = [p \in Slot |-> Null]
  /\ ofile = [p \in Slot |-> [d \in Fds |-> Null]]
  /\ fref = [g \in Files |-> 0] /\ fip = [g \in Files |-> Null]
  /\ off = [g \in Files |-> 0]
  /\ ref = [s \in Islot |-> 0] /\ inum = [s \in Islot |-> 0]
  /\ valid = [s \in Islot |-> FALSE] /\ mem = [s \in Islot |-> Free]
  /\ bitmap = {0}
  /\ dinode \in {d \in [Inum -> {Free, File}] : d[1] = File}
  /\ pc = [p \in Slot |-> "user"]
  /\ byte = [p \in Slot |-> {}] /\ want = [p \in Slot |-> 0]
  /\ ip = [p \in Slot |-> 0] /\ empty = [p \in Slot |-> Null]
  /\ f = [p \in Slot |-> 0] /\ fd = [p \in Slot |-> Null]
  /\ given = [b \in Blk |-> 0] /\ made = [i \in Inum |-> 0]

Goto(p, label) == pc' = [pc EXCEPT ![p] = label]

\* The system call returns; its locals are gone.
Return(p) ==
  /\ Goto(p, "user")
  /\ byte' = [byte EXCEPT ![p] = {}] /\ want' = [want EXCEPT ![p] = 0]
  /\ ip' = [ip EXCEPT ![p] = 0] /\ empty' = [empty EXCEPT ![p] = Null]
  /\ f' = [f EXCEPT ![p] = 0] /\ fd' = [fd EXCEPT ![p] = Null]

InUser(p) == status[p] = "live" /\ pc[p] = "user"

-----------------------------------------------------------------------------
(* sys_open: ialloc, or the iget of dirlookup                              *)

Create(p) ==
  /\ InUser(p)
  /\ want' = [want EXCEPT ![p] = 1]
  /\ Goto(p, "ialloc_test")
  /\ UNCHANGED <<procs, ftable, icache, disk, byte, ip, empty, f, fd, past>>

\* Is the dinode free?  The next one, or panic after the last ("full").
IallocTest(p) ==
  /\ pc[p] = "ialloc_test"
  /\ \/ /\ want[p] = NINODES
        /\ Goto(p, "full") /\ UNCHANGED want
     \/ /\ want[p] < NINODES /\ dinode[want[p]].type = "free"
        /\ Goto(p, "ialloc_take") /\ UNCHANGED want
     \/ /\ want[p] < NINODES /\ dinode[want[p]].type # "free"
        /\ want' = [want EXCEPT ![p] = @ + 1] /\ UNCHANGED pc
  /\ UNCHANGED <<procs, ftable, icache, disk, byte, ip, empty, f, fd, past>>

IallocTake_NotMarked(p) ==
  /\ pc[p] = "ialloc_take"
  /\ made' = [made EXCEPT ![want[p]] = @ + 1]
  /\ Goto(p, "iget_scan")
  /\ UNCHANGED <<procs, ftable, icache, disk, locals, given>>

\* memset, type = T_FILE, bwrite; then iget.
IallocTake(p) ==
  /\ pc[p] = "ialloc_take"
  /\ dinode' = [dinode EXCEPT ![want[p]] = File]
  /\ made' = [made EXCEPT ![want[p]] = @ + 1]
  /\ Goto(p, "iget_scan")
  /\ UNCHANGED <<procs, ftable, icache, bitmap, locals, given>>

\* dirlookup has found an entry, which names an inode in use.
Open(p, i) ==
  /\ InUser(p) /\ dinode[i].type # "free"
  /\ want' = [want EXCEPT ![p] = i]
  /\ Goto(p, "iget_scan")
  /\ UNCHANGED <<procs, ftable, icache, disk, byte, ip, empty, f, fd, past>>

Hit(s, i) == ref[s] > 0 /\ inum[s] = i

\* iget returns the slot s, and its locals are gone.
IgetReturn(p, s) ==
  /\ ip' = [ip EXCEPT ![p] = s]
  /\ want' = [want EXCEPT ![p] = 0] /\ empty' = [empty EXCEPT ![p] = Null]
  /\ Goto(p, "ilock_test")
  /\ UNCHANGED <<byte, f, fd>>

IgetScan_StopsAtEmpty(p) ==
  /\ pc[p] = "iget_scan"
  /\ LET s == ip[p]
     IN  \/ /\ s = NINODE
            /\ Goto(p, "full") /\ UNCHANGED <<ip, empty>>
         \/ /\ s < NINODE /\ Hit(s, want[p])
            /\ Goto(p, "iget_hit") /\ UNCHANGED <<ip, empty>>
         \/ /\ s < NINODE /\ ref[s] = 0
            /\ empty' = [empty EXCEPT ![p] = s]
            /\ Goto(p, "iget_take") /\ UNCHANGED ip
         \/ /\ s < NINODE /\ ref[s] > 0 /\ inum[s] # want[p]
            /\ ip' = [ip EXCEPT ![p] = @ + 1] /\ UNCHANGED <<pc, empty>>
  /\ UNCHANGED <<procs, ftable, icache, disk, byte, want, f, fd, past>>

\* One turn of the loop: a hit, or the first empty slot is remembered.
IgetScan(p) ==
  /\ pc[p] = "iget_scan"
  /\ LET s == ip[p]
     IN  \/ /\ s = NINODE
            /\ Goto(p, IF empty[p] = Null THEN "full" ELSE "iget_take")
            /\ UNCHANGED <<ip, empty>>
         \/ /\ s < NINODE /\ Hit(s, want[p])
            /\ Goto(p, "iget_hit") /\ UNCHANGED <<ip, empty>>
         \/ /\ s < NINODE /\ ~Hit(s, want[p])
            /\ empty' = [empty EXCEPT ![p] = IF @ = Null /\ ref[s] = 0 THEN s ELSE @]
            /\ ip' = [ip EXCEPT ![p] = @ + 1] /\ UNCHANGED pc
  /\ UNCHANGED <<procs, ftable, icache, disk, byte, want, f, fd, past>>

\* ip->ref++
IgetHit(p) ==
  /\ pc[p] = "iget_hit"
  /\ ref' = [ref EXCEPT ![ip[p]] = @ + 1]
  /\ IgetReturn(p, ip[p])
  /\ UNCHANGED <<procs, ftable, inum, valid, mem, disk, past>>

IgetTake_KeepsValid(p) ==
  /\ pc[p] = "iget_take"
  /\ LET s == empty[p]
     IN  /\ inum' = [inum EXCEPT ![s] = want[p]]
         /\ ref' = [ref EXCEPT ![s] = 1]
         /\ IgetReturn(p, s)
  /\ UNCHANGED <<procs, ftable, valid, mem, disk, past>>

\* The empty slot is filled in.
IgetTake(p) ==
  /\ pc[p] = "iget_take"
  /\ LET s == empty[p]
     IN  /\ inum' = [inum EXCEPT ![s] = want[p]]
         /\ ref' = [ref EXCEPT ![s] = 1]
         /\ valid' = [valid EXCEPT ![s] = FALSE]
         /\ IgetReturn(p, s)
  /\ UNCHANGED <<procs, ftable, mem, disk, past>>

IlockTest(p) ==
  /\ pc[p] = "ilock_test"
  /\ Goto(p, IF ref[ip[p]] < 1 THEN "panic"
             ELSE IF valid[ip[p]] THEN "filealloc_test" ELSE "ilock_load")
  /\ UNCHANGED <<procs, ftable, icache, disk, locals, past>>

\* bread, and the fields are copied from the dinode.
IlockLoad(p) ==
  /\ pc[p] = "ilock_load"
  /\ mem' = [mem EXCEPT ![ip[p]] = dinode[inum[ip[p]]]]
  /\ Goto(p, "ilock_valid")
  /\ UNCHANGED <<procs, ftable, ref, inum, valid, disk, locals, past>>

\* valid = 1, and panic if the inode is free.
IlockValid(p) ==
  /\ pc[p] = "ilock_valid"
  /\ valid' = [valid EXCEPT ![ip[p]] = TRUE]
  /\ Goto(p, IF mem[ip[p]].type = "free" THEN "panic" ELSE "filealloc_test")
  /\ UNCHANGED <<procs, ftable, ref, inum, mem, disk, locals, past>>

-----------------------------------------------------------------------------
(* sys_open: filealloc, the descriptor                                     *)

\* Is file f free?  After the last sys_open gives the inode back.
FileallocTest(p) ==
  /\ pc[p] = "filealloc_test"
  /\ \/ /\ f[p] = NFILE
        /\ Goto(p, "iput_test") /\ UNCHANGED f
     \/ /\ f[p] < NFILE /\ fref[f[p]] = 0
        /\ Goto(p, "filealloc_take") /\ UNCHANGED f
     \/ /\ f[p] < NFILE /\ fref[f[p]] # 0
        /\ f' = [f EXCEPT ![p] = @ + 1] /\ UNCHANGED pc
  /\ UNCHANGED <<procs, ftable, icache, disk, byte, want, ip, empty, fd, past>>

FileallocTake_NotMarked(p) ==
  /\ pc[p] = "filealloc_take"
  /\ Goto(p, "open_fd")
  /\ UNCHANGED <<procs, ftable, icache, disk, locals, past>>

FileallocTake(p) ==
  /\ pc[p] = "filealloc_take"
  /\ fref' = [fref EXCEPT ![f[p]] = 1]
  /\ Goto(p, "open_fd")
  /\ UNCHANGED <<procs, fip, off, icache, disk, locals, past>>

OpenFd_KeepsFile(p) ==
  /\ pc[p] = "open_fd"
  /\ LET free == {d \in Fds : ofile[p][d] = Null}
     IN  IF free = {} THEN Goto(p, "iput_test") /\ UNCHANGED <<ofile, fd>>
         ELSE /\ ofile' = [ofile EXCEPT ![p][Min(free)] = f[p]]
              /\ fd' = [fd EXCEPT ![p] = Min(free)]
              /\ Goto(p, "open_init")
  /\ UNCHANGED <<status, parent, ftable, icache, disk, byte, want, ip, empty, f, past>>

\* The lowest free descriptor, or file and inode are given back.
OpenFd(p) ==
  /\ pc[p] = "open_fd"
  /\ LET free == {d \in Fds : ofile[p][d] = Null}
     IN  IF free = {} THEN Goto(p, "close_dec") /\ UNCHANGED <<ofile, fd>>
         ELSE /\ ofile' = [ofile EXCEPT ![p][Min(free)] = f[p]]
              /\ fd' = [fd EXCEPT ![p] = Min(free)]
              /\ Goto(p, "open_init")
  /\ UNCHANGED <<status, parent, ftable, icache, disk, byte, want, ip, empty, f, past>>

\* f->ip, f->off and the modes.
OpenInit(p) ==
  /\ pc[p] = "open_init"
  /\ fip' = [fip EXCEPT ![f[p]] = ip[p]] /\ off' = [off EXCEPT ![f[p]] = 0]
  /\ Return(p)
  /\ UNCHANGED <<procs, fref, icache, disk, past>>

-----------------------------------------------------------------------------
(* sys_close: fileclose, iput; sys_open calls both where it fails          *)

Close(p, d) ==
  /\ InUser(p) /\ ofile[p][d] # Null
  /\ fd' = [fd EXCEPT ![p] = d] /\ f' = [f EXCEPT ![p] = ofile[p][d]]
  /\ Goto(p, "close_dec")
  /\ UNCHANGED <<procs, ftable, icache, disk, byte, want, ip, empty, past>>

\* if (f->ref < 1) panic; if (--f->ref > 0) return;
CloseDec(p) ==
  /\ pc[p] = "close_dec"
  /\ fref' = [fref EXCEPT ![f[p]] = IF @ < 1 THEN @ ELSE @ - 1]
  /\ Goto(p, IF fref[f[p]] < 1 THEN "panic"
             ELSE IF fref[f[p]] = 1 THEN "close_clear"
             ELSE IF fd[p] = Null THEN "iput_test" ELSE "close_fd")
  /\ UNCHANGED <<procs, fip, off, icache, disk, locals, past>>

\* ip = f->ip; the file is cleared; if (ip) iput(ip).  The file of a sys_open that
\* fails has no inode yet, and sys_open gives back its own.
CloseClear(p) ==
  /\ pc[p] = "close_clear"
  /\ fip' = [fip EXCEPT ![f[p]] = Null] /\ off' = [off EXCEPT ![f[p]] = 0]
  /\ IF fip[f[p]] = Null
       THEN Goto(p, IF fd[p] = Null THEN "iput_test" ELSE "close_fd") /\ UNCHANGED ip
       ELSE Goto(p, "iput_test") /\ ip' = [ip EXCEPT ![p] = fip[f[p]]]
  /\ UNCHANGED <<procs, fref, icache, disk, byte, want, empty, f, fd, past>>

\* if (ip->ref == 1 && ip->valid && ip->nlink == 0): ialloc has left nlink 0.
IputTest(p) ==
  /\ pc[p] = "iput_test"
  /\ Goto(p, IF ref[ip[p]] = 1 /\ valid[ip[p]] THEN "iput_drop" ELSE "iput_dec")
  /\ UNCHANGED <<procs, ftable, icache, disk, locals, past>>

\* ip->valid = 0
IputDrop(p) ==
  /\ pc[p] = "iput_drop"
  /\ valid' = [valid EXCEPT ![ip[p]] = FALSE]
  /\ Goto(p, "iput_dec")
  /\ UNCHANGED <<procs, ftable, ref, inum, mem, disk, locals, past>>

\* After iput sys_close clears the descriptor, sys_open returns.
IputReturn(p) == IF fd[p] = Null THEN Return(p) ELSE Goto(p, "close_fd") /\ UNCHANGED locals

\* ip->ref--; if (ip->ref == 0)
IputDec(p) ==
  /\ pc[p] = "iput_dec"
  /\ ref' = [ref EXCEPT ![ip[p]] = @ - 1]
  /\ IF ref[ip[p]] = 1 THEN Goto(p, "iput_clear") /\ UNCHANGED locals ELSE IputReturn(p)
  /\ UNCHANGED <<procs, ftable, inum, valid, mem, disk, past>>

\* ip->valid = 0
IputClear(p) ==
  /\ pc[p] = "iput_clear"
  /\ valid' = [valid EXCEPT ![ip[p]] = FALSE]
  /\ IputReturn(p)
  /\ UNCHANGED <<procs, ftable, ref, inum, mem, disk, past>>

CloseFd_Stays(p) ==
  /\ pc[p] = "close_fd"
  /\ Return(p)
  /\ UNCHANGED <<procs, ftable, icache, disk, past>>

CloseFd(p) ==
  /\ pc[p] = "close_fd"
  /\ ofile' = [ofile EXCEPT ![p][fd[p]] = Null]
  /\ Return(p)
  /\ UNCHANGED <<status, parent, ftable, icache, disk, past>>

-----------------------------------------------------------------------------
(* sys_write, filewrite, writei: a block at the end of the file            *)

Write(p, d) ==
  /\ InUser(p) /\ ofile[p][d] # Null
  /\ LET g == ofile[p][d]
     IN  IF fip[g] = Null THEN Goto(p, "panic") /\ UNCHANGED <<off, ip, f>>
         ELSE IF off[g] < mem[fip[g]].size
           THEN off' = [off EXCEPT ![g] = @ + 1] /\ UNCHANGED <<pc, ip, f>>
         ELSE /\ ip' = [ip EXCEPT ![p] = fip[g]] /\ f' = [f EXCEPT ![p] = g]
              /\ Goto(p, "balloc_load") /\ UNCHANGED off
  /\ UNCHANGED <<procs, fref, fip, icache, disk, byte, want, empty, fd, past>>

\* m = bp->data[bi]
BallocLoad(p) ==
  /\ pc[p] = "balloc_load"
  /\ byte' = [byte EXCEPT ![p] = bitmap]
  /\ Goto(p, IF Blk \subseteq bitmap THEN "full" ELSE "balloc_set")
  /\ UNCHANGED <<procs, ftable, icache, disk, want, ip, empty, f, fd, past>>

Clear(p) == Min(Blk \ byte[p])

BallocSet_NotMarked(p) ==
  /\ pc[p] = "balloc_set"
  /\ given' = [given EXCEPT ![Clear(p)] = @ + 1]
  /\ byte' = [byte EXCEPT ![p] = {}]
  /\ Goto(p, "grow_test")
  /\ UNCHANGED <<procs, ftable, icache, disk, want, ip, empty, f, fd, made>>

\* bp->data[bi] |= 1 << bi2 for the first bit clear in m; bwrite, bzero.
BallocSet(p) ==
  /\ pc[p] = "balloc_set"
  /\ bitmap' = bitmap \cup {Clear(p)}
  /\ given' = [given EXCEPT ![Clear(p)] = @ + 1]
  /\ byte' = [byte EXCEPT ![p] = {}]
  /\ Goto(p, "grow_test")
  /\ UNCHANGED <<procs, ftable, icache, dinode, want, ip, empty, f, fd, made>>

\* if (off > ip->size), where off is behind what was written
GrowTest(p) ==
  /\ pc[p] = "grow_test"
  /\ IF off[f[p]] + 1 > mem[ip[p]].size
       THEN Goto(p, "grow") /\ UNCHANGED <<off, locals>>
       ELSE off' = [off EXCEPT ![f[p]] = @ + 1] /\ Return(p)
  /\ UNCHANGED <<procs, fref, fip, icache, disk, past>>

\* ip->size = off
Grow(p) ==
  /\ pc[p] = "grow"
  /\ mem' = [mem EXCEPT ![ip[p]].size = off[f[p]] + 1]
  /\ Goto(p, "iupdate")
  /\ UNCHANGED <<procs, ftable, ref, inum, valid, disk, locals, past>>

\* The dinode is written; filewrite advances the offset.
Iupdate(p) ==
  /\ pc[p] = "iupdate"
  /\ dinode' = [dinode EXCEPT ![inum[ip[p]]] = mem[ip[p]]]
  /\ off' = [off EXCEPT ![f[p]] = @ + 1]
  /\ Return(p)
  /\ UNCHANGED <<procs, fref, fip, icache, bitmap, past>>

-----------------------------------------------------------------------------
(* fork, exit, wait: none of them looks at ofile[]                         *)

Fork(p, q) ==
  /\ InUser(p)
  /\ status[q] = "free" /\ \A r \in 0 .. q - 1 : status[r] # "free"
  /\ status' = [status EXCEPT ![q] = "live"]
  /\ parent' = [parent EXCEPT ![q] = p]
  /\ UNCHANGED <<ofile, ftable, icache, disk, pc, locals, past>>

\* Children go to init, which is slot 0.  BOUND: init itself stays.
Exit(p) ==
  /\ InUser(p) /\ p # 0
  /\ status' = [status EXCEPT ![p] = "zombie"]
  /\ parent' = [q \in Slot |-> IF parent[q] = p THEN 0 ELSE parent[q]]
  /\ UNCHANGED <<ofile, ftable, icache, disk, pc, locals, past>>

Wait(p, q) ==
  /\ InUser(p) /\ status[q] = "zombie" /\ parent[q] = p
  /\ status' = [status EXCEPT ![q] = "free"]
  /\ parent' = [parent EXCEPT ![q] = Null]
  /\ UNCHANGED <<ofile, ftable, icache, disk, pc, locals, past>>

-----------------------------------------------------------------------------
(* Where two processes can be given the same                               *)

\* The slot of icache p is about to take or to count.
Claims(p) == IF pc[p] = "iget_hit" THEN ip[p] ELSE empty[p]
InIget(p) == pc[p] \in {"iget_scan", "iget_hit", "iget_take"}

\* iput drops the copy of an inode that somebody has come back to since it tested ref.
Revived(p) ==
  \/ pc[p] = "iput_drop" /\ ref[ip[p]] # 1
  \/ pc[p] = "iput_clear" /\ ref[ip[p]] # 0

\* Between the load or test of something and the store that takes it p and q are
\* about the same: a bit of the bitmap, a dinode, a slot of icache or an inode that
\* has none, the fields of an inode, a file, a size.
Conflict(p, q) ==
  \/ {pc[p], pc[q]} = {"balloc_set"}
  \/ {pc[p], pc[q]} = {"ialloc_take"} /\ want[p] = want[q]
  \/ /\ InIget(p) /\ InIget(q)
     /\ \/ want[p] = want[q]
        \/ Claims(p) = Claims(q) /\ Claims(p) # Null
  \/ {pc[p], pc[q]} \subseteq {"ilock_load", "ilock_valid"} /\ ip[p] = ip[q]
  \/ {pc[p], pc[q]} \subseteq {"filealloc_take", "close_clear"} /\ f[p] = f[q]
  \/ {pc[p], pc[q]} = {"grow"} /\ ip[p] = ip[q]

Step(p) ==
  \/ Create(p) \/ IallocTest(p) \/ IallocTake(p)
  \/ \E i \in Inum : Open(p, i)
  \/ IgetScan(p) \/ IgetHit(p) \/ IgetTake(p)
  \/ IlockTest(p) \/ IlockLoad(p) \/ IlockValid(p)
  \/ FileallocTest(p) \/ FileallocTake(p) \/ OpenFd(p) \/ OpenInit(p)
  \/ \E d \in Fds : Close(p, d) \/ Write(p, d)
  \/ CloseDec(p) \/ CloseClear(p) \/ CloseFd(p)
  \/ IputTest(p) \/ IputDrop(p) \/ IputDec(p) \/ IputClear(p)
  \/ BallocLoad(p) \/ BallocSet(p) \/ GrowTest(p) \/ Grow(p) \/ Iupdate(p)
  \/ \E q \in Slot : Fork(p, q) \/ Wait(p, q)
  \/ Exit(p)

Next ==
  /\ \A p \in Slot : ~Revived(p) /\ \A q \in Slot \ {p} : ~Conflict(p, q)
  /\ \E p \in Slot : Step(p)

Spec == Init /\ [][Next]_vars

-----------------------------------------------------------------------------
(* Properties                                                              *)

OpenPc  == {"ilock_test", "ilock_load", "ilock_valid", "filealloc_test", "filealloc_take",
            "open_fd", "open_init"}
ClosePc == {"close_dec", "close_clear"}
IputPc  == {"iput_test", "iput_drop", "iput_dec"}
WritePc == {"balloc_load", "balloc_set", "grow_test", "grow", "iupdate"}
Pc == OpenPc \cup ClosePc \cup IputPc \cup WritePc \cup
      {"user", "panic", "full", "ialloc_test", "ialloc_take",
       "iget_scan", "iget_hit", "iget_take", "iput_clear", "close_fd"}

\* balloc "allocates a free disk block" (fs.c:120): nobody was given it before, unless
\* two processes were between the load and the store of the bitmap.
BlocksOnce == \A b \in Blk : given[b] + (IF b = 0 THEN 1 ELSE 0) <= 1

\* ialloc returns "an inode that is free" (fs.c:333): no two files share one, unless two
\* processes were between test and store of its type.
InodesOnce == \A i \in Inum : made[i] <= 1

\* icache holds an inode once (fs.c:206), also while others give theirs back, unless two
\* processes look for it, or for an empty slot, at the same time.
OneSlot == \A s, t \in Islot : s # t /\ ref[s] > 0 /\ ref[t] > 0 => inum[s] # inum[t]

\* p is about to give back, or has just taken, a reference to file g, to slot s.
HasFile(p, g) == f[p] = g /\ fd[p] = Null /\ pc[p] \in {"open_fd", "close_dec"}
HasInode(p, s) ==
  /\ ip[p] = s
  /\ \/ pc[p] \in OpenPc \cup IputPc
     \/ pc[p] \in ClosePc /\ fd[p] = Null

\* p's close has given back what its descriptor d counted for.
Closing(p, d) ==
  pc[p] \in {"close_clear", "iput_clear", "close_fd"} \cup IputPc /\ fd[p] = d

\* ref of a file counts the descriptors of all slots, those of dead processes too, and
\* ref of an inode the files: on every path through sys_open and sys_close, the error
\* paths included, whoever runs in between.
CountsBalance ==
  /\ \A g \in Files : fref[g] =
       Cardinality({pd \in Slot \X Fds : ofile[pd[1]][pd[2]] = g /\ ~Closing(pd[1], pd[2])})
       + Cardinality({p \in Slot : HasFile(p, g)})
  /\ \A s \in Islot : ref[s] =
       Cardinality({g \in Files : fip[g] = s}) + Cardinality({p \in Slot : HasInode(p, s)})

\* filealloc hands out a file whose ref is 0, and such a file is free (file.c:40): two
\* descriptors never share a file and its offset, but for one about to be cleared,
\* unless a process takes a file while another is taking or clearing it.
FilesPrivate ==
  \A p, q \in Slot : \A d, e \in Fds :
    /\ ofile[p][d] # Null /\ ofile[p][d] = ofile[q][e]
    /\ ~Closing(p, d) /\ ~Closing(q, e)
    => p = q /\ d = e

\* A descriptor of a process that is in no call, be it a dead one, leads to a file with
\* a loaded inode, whatever the others open and close.
OpenIsWhole ==
  \A p \in Slot, d \in Fds :
    pc[p] = "user" /\ ofile[p][d] # Null =>
      LET g == ofile[p][d]
      IN  fref[g] > 0 /\ fip[g] # Null /\ valid[fip[g]] /\ mem[fip[g]].type = "file"

NotLoaded == [type |-> "none", size |-> 0]
SlotsOf(i) == {s \in Islot : Hit(s, i)}
Refs == [i \in Inum |->
  IF SlotsOf(i) = {} THEN 0 ELSE ref[CHOOSE s \in SlotsOf(i) : TRUE]]
Copy == [i \in Inum |->
  LET loaded == {s \in SlotsOf(i) : valid[s]}
  IN  IF loaded = {} THEN NotLoaded ELSE mem[CHOOSE s \in loaded : TRUE]]

Promise == INSTANCE Inodes WITH used <- bitmap, refs <- Refs, copy <- Copy

\* The functions of fs.c do what Inodes promises, statement by statement and with other
\* processes in between, up to the first conflict: no change is lost, no copy is stale.
ImplementsInodes == Promise!Spec
=============================================================================
