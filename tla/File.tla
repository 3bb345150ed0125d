-------------------------------- MODULE File --------------------------------
(***************************************************************************)
(* Open files (kernel/fs/file.c) and the system calls on them              *)
(* (kernel/syscall/sysfile.c) over Fs: the global table of files, the      *)
(* descriptors of one process, and what each call returns.                 *)
(***************************************************************************)
EXTENDS Fs

CONSTANTS NFILE,     \* files of ftable, 100 in the code
          NOFILE,    \* descriptors of a process, 16 in the code
          Paths,     \* BOUND: paths a user opens
          Sizes,     \* BOUND: lengths a user reads and writes
          MaxCalls,  \* BOUND: system calls in a behaviour
          MaxCrash   \* BOUND: power failures in a behaviour

ASSUME FileAssumption ==
  /\ NFILE \in Nat \ {0} /\ NOFILE \in Nat \ {0} /\ MaxCalls \in Nat /\ MaxCrash \in Nat
  /\ Sizes \subseteq Nat
  /\ \A path \in Paths : path \in Seq(Names \cup {".", ".."})

VARIABLES
  file, ofile,     \* ftable.file[], p->ofile[]
  call,            \* the arguments of the system call in progress
  result,          \* what the last system call returned
  calls, crashes   \* bounds

vars == <<fsvars, file, ofile, call, result, calls, crashes>>

fsrest == <<disk, icache, w, fresh>>

Files == 0 .. NFILE - 1
Fds == 0 .. NOFILE - 1
NoFile == -1
FreeFile == [ref |-> 0, ip |-> NoInum, off |-> 0, readable |-> FALSE, writable |-> FALSE]
NoCall == [op |-> "none", fd |-> -1, ino |-> NoInum, mode |-> "none"]
Returned(n) == [n |-> n, cells |-> <<>>]
Modes == {"rdonly", "wronly", "rdwr"}

Init ==
  /\ FsInit
  /\ file = [f \in Files |-> FreeFile]
  /\ ofile = [d \in Fds |-> NoFile]
  /\ call = NoCall /\ result = Returned(0)
  /\ calls = 0 /\ crashes = 0

\* A system call starts.
Syscall ==
  /\ pc = "user" /\ calls < MaxCalls /\ calls' = calls + 1
  /\ UNCHANGED crashes

\* It returns n.
Return(n) == pc' = "user" /\ result' = Returned(n) /\ call' = NoCall

IsOpen(d) == d \in Fds /\ ofile[d] # NoFile

-----------------------------------------------------------------------------
(* sys_open                                                                *)

\* namex holds one inode and the next of the path at a time.
NamexFits(path) ==
  \A k \in 1 .. Len(path) :
    SlotsFor({Walk(SubSeq(path, 1, j)) : j \in {k - 1, k}} \ {NoInum})

\* The inode a call without O_CREAT opens, or NoInum where it returns -1.
OpenTarget(path, mode) ==
  LET i == Namei(path)
  IN  IF i = NoInum \/ (Loaded(i).type = "dir" /\ mode # "rdonly") THEN NoInum ELSE i

OpenNoCreate(path, mode) ==
  /\ Syscall
  /\ IF ~NamexFits(path) THEN Panic /\ UNCHANGED <<call, result>>
     ELSE LET i == OpenTarget(path, mode)
          IN  IF i = NoInum THEN Return(-1) /\ UNCHANGED fsrest
              ELSE /\ Hold(i)
                   /\ call' = [op |-> "open", fd |-> -1, ino |-> i, mode |-> mode]
                   /\ pc' = "filealloc" /\ UNCHANGED <<disk, w, fresh, result>>
  /\ UNCHANGED <<file, ofile>>

\* With O_CREAT, where the file is there: a directory is refused.
OpenCreateOld(path, mode) ==
  /\ Syscall
  /\ LET dp == Nameiparent(path)
         i  == IF dp = NoInum THEN NoInum ELSE Dirlookup(Loaded(dp), Last(path))
     IN  /\ dp = NoInum \/ i # NoInum
         /\ IF ~NamexFits(path) THEN Panic /\ UNCHANGED <<call, result>>
            ELSE IF dp = NoInum \/ Loaded(i).type = "dir"
              THEN Return(-1) /\ UNCHANGED fsrest
            ELSE /\ Hold(i)
                 /\ call' = [op |-> "open", fd |-> -1, ino |-> i, mode |-> mode]
                 /\ pc' = "filealloc" /\ UNCHANGED <<disk, w, fresh, result>>
  /\ UNCHANGED <<file, ofile>>

\* Where it is not: ialloc takes the first free inode on the disk, and dirlink
\* appends an entry to the directory (no entry is ever cleared).
OpenCreateNew(path, mode) ==
  /\ Syscall
  /\ LET dp   == Nameiparent(path)
         free == {i \in Inum : dinode[i].type = "free"}
         new  == Min(free)
     IN  /\ dp # NoInum
         /\ Dirlookup(Loaded(dp), Last(path)) = NoInum
         /\ IF free = {} \/ ~NamexFits(path) THEN Panic /\ UNCHANGED <<call, result>>
            ELSE /\ dinode' = [dinode EXCEPT ![new] = [FreeDinode EXCEPT !.type = "file"]]
                 /\ inode' = [inode EXCEPT ![dp] = Loaded(dp)]
                 /\ ivalid' = [ivalid EXCEPT ![dp] = TRUE, ![new] = FALSE]
                 /\ ref' = [ref EXCEPT ![dp] = @ + 1, ![new] = 1]
                 /\ w' = [ino |-> dp, src |-> Dirent(new, Last(path)),
                          off |-> Loaded(dp).size, n |-> 1, tot |-> 0]
                 /\ call' = [op |-> "open", fd |-> -1, ino |-> new, mode |-> mode]
                 /\ pc' = IF SlotsFor({dp, new}) /\ Loaded(dp).size < MAXFILE
                            THEN "writei" ELSE "panic"
                 /\ UNCHANGED <<bitmap, block, fresh, result>>
  /\ UNCHANGED <<file, ofile>>

\* The directory is given back, the new inode is locked.
OpenCreated ==
  /\ pc = "writei_ret" /\ call.op = "open"
  /\ LET i == call.ino
     IN  /\ ref' = [ref EXCEPT ![w.ino] = @ - 1]
         /\ ivalid' = [ivalid EXCEPT ![w.ino] = @ /\ ref[w.ino] > 1, ![i] = TRUE]
         /\ inode' = [inode EXCEPT ![i] = Loaded(i)]
  /\ pc' = "filealloc" /\ w' = NoWrite
  /\ UNCHANGED <<disk, fresh, file, ofile, call, result, calls, crashes>>

OpenFile_KeepsInode ==
  /\ pc = "filealloc"
  /\ LET free == {f \in Files : file[f].ref = 0}
         fds  == {d \in Fds : ofile[d] = NoFile}
     IN  IF free = {} \/ fds = {}
           THEN Return(-1) /\ UNCHANGED <<icache, file, ofile>>
           ELSE /\ file' = [file EXCEPT ![Min(free)] =
                     [ref |-> 1, ip |-> call.ino, off |-> 0,
                      readable |-> call.mode # "wronly", writable |-> call.mode # "rdonly"]]
                /\ ofile' = [ofile EXCEPT ![Min(fds)] = Min(free)]
                /\ Return(Min(fds)) /\ UNCHANGED icache
  /\ UNCHANGED <<disk, w, fresh, calls, crashes>>

\* filealloc and the first free descriptor, or the inode is given back.
OpenFile ==
  /\ pc = "filealloc"
  /\ LET free == {f \in Files : file[f].ref = 0}
         fds  == {d \in Fds : ofile[d] = NoFile}
     IN  IF free = {} \/ fds = {}
           THEN Return(-1) /\ Iput(call.ino) /\ UNCHANGED <<file, ofile>>
           ELSE /\ file' = [file EXCEPT ![Min(free)] =
                     [ref |-> 1, ip |-> call.ino, off |-> 0,
                      readable |-> call.mode # "wronly", writable |-> call.mode # "rdonly"]]
                /\ ofile' = [ofile EXCEPT ![Min(fds)] = Min(free)]
                /\ Return(Min(fds)) /\ UNCHANGED icache
  /\ UNCHANGED <<disk, w, fresh, calls, crashes>>

-----------------------------------------------------------------------------
(* sys_close, sys_read, sys_write                                          *)

Close(d) ==
  /\ Syscall
  /\ IF ~IsOpen(d) THEN Return(-1) /\ UNCHANGED <<fsrest, file, ofile>>
     ELSE LET f == ofile[d]
          IN  /\ file' = [file EXCEPT ![f] = IF @.ref > 1 THEN [@ EXCEPT !.ref = @ - 1]
                                                          ELSE FreeFile]
              /\ IF file[f].ref > 1 THEN UNCHANGED icache ELSE Iput(file[f].ip)
              /\ ofile' = [ofile EXCEPT ![d] = NoFile]
              /\ Return(0) /\ UNCHANGED <<disk, w, fresh>>

\* BOUND: directories are opened but not read.
Read(d, n) ==
  /\ Syscall
  /\ IsOpen(d) => inode[file[ofile[d]].ip].type = "file"
  /\ IF ~(IsOpen(d) /\ file[ofile[d]].readable)
       THEN Return(-1) /\ UNCHANGED file
       ELSE LET f   == ofile[d]
                got == Readi(inode[file[f].ip], file[f].off, n)
            IN  /\ file' = [file EXCEPT ![f].off = @ + Len(got)]
                /\ pc' = "user" /\ call' = NoCall
                /\ result' = [n |-> Len(got), cells |-> got]
  /\ UNCHANGED <<fsrest, ofile>>

\* Descriptor 1 is the console while nothing is open there.
Write(d, v, n) ==
  /\ Syscall
  /\ IF d = 1 /\ ~IsOpen(1) THEN Return(n) /\ UNCHANGED fsrest
     ELSE IF ~(IsOpen(d) /\ file[ofile[d]].writable)
       THEN Return(-1) /\ UNCHANGED fsrest
     ELSE LET f == file[ofile[d]]
          IN  IF WriteiFails(f.ip, f.off, n)
                THEN Return(-1) /\ UNCHANGED fsrest
                ELSE /\ WriteiCall(f.ip, v, f.off, n)
                     /\ call' = [op |-> "write", fd |-> d, ino |-> f.ip, mode |-> "none"]
                     /\ pc' = "writei" /\ UNCHANGED <<disk, icache, result>>
  /\ UNCHANGED <<file, ofile>>

\* filewrite: the offset advances by what writei returned.
WriteReturn ==
  /\ pc = "writei_ret" /\ call.op = "write"
  /\ file' = [file EXCEPT ![ofile[call.fd]].off = @ + w.n]
  /\ w' = NoWrite /\ Return(w.n)
  /\ UNCHANGED <<disk, icache, fresh, ofile, calls, crashes>>

-----------------------------------------------------------------------------

\* Power fails and the kernel boots: the disk is what is left.  fsinit clears icache.
PowerFails ==
  /\ crashes < MaxCrash /\ crashes' = crashes + 1
  /\ ref' = [i \in Inum |-> 0] /\ ivalid' = [i \in Inum |-> FALSE]
  /\ inode' = [i \in Inum |-> FreeDinode]
  /\ w' = NoWrite /\ fresh' = NoFresh
  /\ file' = [f \in Files |-> FreeFile] /\ ofile' = [d \in Fds |-> NoFile]
  /\ Return(0)
  /\ UNCHANGED <<disk, calls>>

Next ==
  \/ \E path \in Paths, mode \in Modes :
       OpenNoCreate(path, mode) \/ OpenCreateOld(path, mode) \/ OpenCreateNew(path, mode)
  \/ OpenCreated \/ OpenFile
  \/ \E d \in Fds : Close(d)
  \/ \E d \in Fds, n \in Sizes : Read(d, n) \/ \E v \in Values : Write(d, v, n)
  \/ WriteReturn
  \/ Writei /\ UNCHANGED <<file, ofile, call, result, calls, crashes>>
  \/ PowerFails

Spec == Init /\ [][Next]_vars

-----------------------------------------------------------------------------
(* Properties                                                              *)

\* The blocks a dinode refers to, by the place the number is in.
Places(i) ==
  LET d == dinode[i]
  IN  {<<i, a>> : a \in {a \in 0 .. NDIRECT : d.addrs[a] # Zero}} \cup
      (IF d.addrs[NDIRECT] = Zero THEN {}
       ELSE {<<i, NDIRECT + 1 + s>> : s \in {s \in Slot : block[d.addrs[NDIRECT]][s] # Zero}})
NumberAt(place) ==
  LET d == dinode[place[1]]
  IN  IF place[2] <= NDIRECT THEN d.addrs[place[2]]
      ELSE block[d.addrs[NDIRECT]][place[2] - NDIRECT - 1]

RootCells == Readi(dinode[ROOTINO], 0, dinode[ROOTINO].size)

\* Whatever the moment power fails, the image is consistent: a block in use is marked
\* in the bitmap and used once, the cells of a file are mapped, names are unique and
\* name allocated inodes, no two the same file.  The order of the bwrites in balloc,
\* bmap, writei, ialloc and dirlink is all that guarantees it.
DiskConsistent ==
  /\ LET places == UNION {Places(i) : i \in Inum}
     IN  /\ \A p \in places : NumberAt(p) \in bitmap
         /\ \A p, q \in places : NumberAt(p) = NumberAt(q) => p = q
  /\ \A i \in Inum : \A k \in 0 .. dinode[i].size - 1 : Bmap(dinode[i], k \div PB) # Zero
  /\ \A k \in DOMAIN RootCells :
       /\ RootCells[k] # Zero /\ dinode[RootCells[k].inum].type # "free"
       /\ \A l \in DOMAIN RootCells :
            \/ k = l
            \/ /\ RootCells[k].name # RootCells[l].name
               /\ RootCells[k].inum = RootCells[l].inum => RootCells[k].inum = ROOTINO

\* Between calls every reference to an inode is an open file's, every open file is
\* one descriptor's (each error path of sys_open gives back what it took), and the
\* cached inodes are those on the disk.
ReferencesBalance ==
  pc = "user" =>
    /\ \A i \in Inum : ref[i] = Cardinality({f \in Files : file[f].ref > 0 /\ file[f].ip = i})
    /\ \A f \in Files : file[f].ref = Cardinality({d \in Fds : ofile[d] = f})
    /\ \A i \in Inum : ivalid[i] => ref[i] > 0 /\ inode[i] = dinode[i]

(***************************************************************************)
(* The files a user sees, read off the disk alone.                         *)
(***************************************************************************)
Dir == [name \in Names |-> Dirlookup(dinode[ROOTINO], name)]
Content == [i \in Inum |-> IF dinode[i].type = "file" THEN Readi(dinode[i], 0, dinode[i].size)
                                                      ELSE <<>>]
Opened == [d \in Fds |->
  IF ofile[d] = NoFile THEN [ino |-> NoInum, off |-> 0, readable |-> FALSE, writable |-> FALSE]
  ELSE LET f == file[ofile[d]]
       IN  [ino |-> f.ip, off |-> f.off, readable |-> f.readable, writable |-> f.writable]]

Pending ==
  IF call.op = "write" THEN [fd |-> call.fd, v |-> w.src, n |-> w.n]
                       ELSE [fd |-> -1, v |-> "none", n |-> 0]

Promise == INSTANCE FileStore WITH dir <- Dir, content <- Content, fds <- Opened, writing <- Pending

\* The code implements named files with a content that open, read and write see as
\* they should, and that survives power loss: what a write that returned has written
\* is on the disk, one that has not has changed nothing outside its range.
ImplementsFileStore == Promise!Spec
=============================================================================
