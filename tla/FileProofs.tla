----------------------------- MODULE FileProofs -----------------------------
(***************************************************************************)
(* The disk of Fs and the references of File, for every size of a block,   *)
(* of the disk and of the tables, and every number of calls and of power   *)
(* failures.                                                               *)
(***************************************************************************)
EXTENDS File, TLAPS, FiniteSetTheorems, SequenceTheorems, WellFoundedInduction

-----------------------------------------------------------------------------
(* The numbers of the blocks                                               *)

Addrs == 0 .. NDIRECT
Place == 0 .. NDIRECT + PB
PlaceOf(bn) == IF bn < NDIRECT THEN bn ELSE bn + 1
Dirents == [inum : Inum, name : Names \cup {".", ".."}]
Cells == Values \cup Dirents \cup Blk \cup {Zero}
Dinode == [type : {"free", "dir", "file"}, size : 0 .. MAXFILE, addrs : [Addrs -> Blk \cup {Zero}]]

\* The numbers an inode with these addresses has in the blocks blk, by place.
NumbersOf(blk, addrs) ==
  [a \in Place |->
     IF a <= NDIRECT THEN addrs[a]
     ELSE IF addrs[NDIRECT] = Zero THEN Zero ELSE blk[addrs[NDIRECT]][a - NDIRECT - 1]]

\* No number is in two places, and each is marked.
Once(N, marked) ==
  /\ \A i \in Inum, a \in Place : N[i][a] # Zero => N[i][a] \in marked
  /\ \A i, j \in Inum, a, b \in Place : N[i][a] # Zero /\ N[i][a] = N[j][b] => i = j /\ a = b

\* d is what is on the disk of an inode, m the copy in memory that is ahead of it.
Ahead(d, m) ==
  /\ d.type = m.type /\ d.size = m.size
  /\ \A a \in Addrs : d.addrs[a] # Zero => d.addrs[a] = m.addrs[a]

Growing == pc \in {"writei", "bzero", "assign"}

\* The numbers on the disk, and with those writei has in memory.
OnDisk == [i \in Inum |-> NumbersOf(block, dinode[i].addrs)]
InUse == [i \in Inum |-> NumbersOf(block, IF Growing /\ i = w.ino THEN inode[i].addrs
                                                                 ELSE dinode[i].addrs)]

Covered(N, sizes) == \A i \in Inum, k \in Nat : k < sizes[i].size => N[i][PlaceOf(k \div PB)] # Zero

\* The entry at cell k of the root.
Entry(k) == block[OnDisk[ROOTINO][PlaceOf(k \div PB)]][k % PB]

DiskTypes ==
  /\ bitmap \subseteq Blk /\ dinode \in [Inum -> Dinode] /\ block \in [Blk -> [Slot -> Cells]]
  /\ \A i \in Inum : dinode[i].type = "dir" <=> i = ROOTINO

Entries ==
  \A k \in Nat : k < dinode[ROOTINO].size =>
    /\ Entry(k) \in Dirents /\ dinode[Entry(k).inum].type # "free"
    /\ \A l \in Nat : l < dinode[ROOTINO].size /\ k # l =>
         /\ Entry(k).name # Entry(l).name
         /\ Entry(k).inum = Entry(l).inum => Entry(k).inum = ROOTINO

DiskInv ==
  /\ DiskTypes
  /\ Once(InUse, bitmap)
  /\ Covered(OnDisk, dinode)
  /\ Entries

CacheTypes ==
  /\ ref \in [Inum -> Nat] /\ ivalid \in [Inum -> BOOLEAN] /\ inode \in [Inum -> Dinode]
  /\ pc \in {"user", "filealloc", "writei", "bzero", "assign", "writei_ret", "panic"}

\* The copy of an inode is the one on the disk, but of the inode that grows.
CacheInv ==
  \A i \in Inum : ivalid[i] =>
    IF Growing /\ i = w.ino
      THEN /\ Ahead(dinode[i], inode[i])
           /\ inode[i] # dinode[i] => w.off + w.n > dinode[i].size
      ELSE inode[i] = dinode[i]

Calling == Growing \/ pc = "writei_ret"

\* What writei was called for.
WriteInv ==
  Calling =>
    /\ w \in [ino : Inum, src : Cells, off : Nat, n : Nat, tot : Nat]
    /\ w.ino \in Inum /\ ivalid[w.ino] /\ w.off \in Nat /\ w.n \in Nat /\ w.tot \in 0 .. w.n
    /\ w.off + w.n <= MAXFILE
    /\ call.op \in {"open", "write"}
    /\ call.op = "write" => 
         /\ w.src \in Values /\ w.ino # ROOTINO
         /\ call.fd \in Fds /\ ofile[call.fd] \in Files
         /\ file[ofile[call.fd]].ref = 1
         /\ file[ofile[call.fd]].ip = w.ino /\ file[ofile[call.fd]].off = w.off
    /\ call.op = "open" => 
         /\ w.ino = ROOTINO /\ w.n = 1 /\ w.src \in Dirents /\ w.src.inum = call.ino
         /\ call.ino # ROOTINO /\ dinode[call.ino].type = "file" /\ call.mode \in Modes
    /\ pc = "writei_ret" => w.tot = w.n /\ w.off + w.n <= dinode[w.ino].size
    /\ Growing =>
         /\ w.off <= dinode[w.ino].size
         /\ \A k \in Nat : w.off <= k /\ k < w.off + w.tot => InUse[w.ino][PlaceOf(k \div PB)] # Zero
         /\ call.op = "open" =>
              /\ w.off = dinode[ROOTINO].size
              /\ \A k \in Nat : k < w.off =>
                   Entry(k).name # w.src.name /\ Entry(k).inum # w.src.inum
              /\ w.tot = 1 =>
                   block[InUse[ROOTINO][PlaceOf(w.off \div PB)]][w.off % PB] = w.src
    /\ pc \in {"bzero", "assign"} =>
         /\ w.tot < w.n /\ fresh.blk \in bitmap /\ fresh.use = Missing /\ Missing # "none"
         /\ \A i \in Inum, a \in Place : InUse[i][a] # fresh.blk
    /\ pc = "assign" => block[fresh.blk] = ZeroBlock

\* Who has a reference to inode i: open files, and the system call in progress.
FilesOf(i) == {f \in Files : file[f].ref > 0 /\ file[f].ip = i}
Took(i) ==
  \/ pc = "filealloc" /\ call.ino = i
  \/ Calling /\ call.op = "open" /\ i \in {w.ino, call.ino}

\* The count of a slot is that of the files and of the call that has one more.
Balanced == \A i \in Inum : ref[i] = Cardinality(FilesOf(i)) + IF Took(i) THEN 1 ELSE 0

FileTypes ==
  /\ ofile \in [Fds -> Files \cup {NoFile}]
  /\ DOMAIN file = Files
  /\ \A f \in Files : /\ file[f] \in [ref : {0, 1}, ip : Inum \cup {NoInum}, off : Nat,
                                      readable : BOOLEAN, writable : BOOLEAN]
                      /\ file[f].ref > 0 => file[f].ip \in Inum

FileInv ==
  /\ \A d, e \in Fds : ofile[d] # NoFile /\ ofile[d] = ofile[e] => d = e
  /\ \A f \in Files : file[f].ref > 0 <=> \E d \in Fds : ofile[d] = f
  /\ \A f \in Files : file[f].ref > 0 =>
       /\ ivalid[file[f].ip] /\ dinode[file[f].ip].type # "free"
       /\ file[f].writable => file[f].ip # ROOTINO
       /\ file[f].off <= dinode[file[f].ip].size
  /\ Balanced
  /\ \A i \in Inum : ivalid[i] => ref[i] > 0
  /\ pc = "filealloc" => 
       /\ call.ino \in Inum /\ ivalid[call.ino] /\ dinode[call.ino].type # "free"
       /\ call.op = "open" /\ call.mode \in Modes
       /\ call.ino = ROOTINO => call.mode = "rdonly"
  /\ pc = "user" => call.op = "none"

Inv == /\ DiskInv
       /\ pc # "panic" => CacheTypes /\ CacheInv /\ WriteInv /\ FileTypes /\ FileInv

-----------------------------------------------------------------------------
(* Cells and blocks                                                        *)

LEMMA Division ==
  ASSUME NEW k \in Nat
  PROVE  k \div PB \in Nat /\ k % PB \in Slot /\ k = PB * (k \div PB) + (k % PB)
  BY FsAssumption DEF FsAssumption, Slot

\* A cell is where its block and its place in the block say.
LEMMA CellPlace ==
  ASSUME NEW k \in Nat, NEW l \in Nat, k \div PB = l \div PB, k % PB = l % PB
  PROVE  k = l
  BY FsAssumption, Division DEF FsAssumption

LEMMA SameBlock ==
  ASSUME NEW k \in Nat, NEW m \in Nat, m < PB - (k % PB)
  PROVE  (k + m) \div PB = k \div PB
  BY FsAssumption DEF FsAssumption

LEMMA BlockBound ==
  ASSUME NEW k \in Nat, NEW n \in Nat, k < n * PB
  PROVE  k \div PB < n
  BY FsAssumption, Division DEF FsAssumption

\* Every cell a file can have has a place for the number of its block.
LEMMA CellOfFile ==
  ASSUME NEW k \in Nat, k < MAXFILE
  PROVE  /\ k \div PB \in 0 .. NDIRECT + PB - 1
         /\ PlaceOf(k \div PB) \in Place \ {NDIRECT}
<1>1. NDIRECT + PB \in Nat /\ NDIRECT \in Nat /\ PB \in Nat
  BY FsAssumption DEF FsAssumption
<1>2. k \div PB \in Nat /\ k \div PB < NDIRECT + PB
  BY <1>1, Division, BlockBound DEF MAXFILE
<1> QED
  BY <1>1, <1>2 DEF PlaceOf, Place

LEMMA PlaceOfOnce ==
  ASSUME NEW b \in Nat, NEW c \in Nat, PlaceOf(b) = PlaceOf(c)
  PROVE  b = c
  BY FsAssumption DEF FsAssumption, PlaceOf

LEMMA MaxFileNat == MAXFILE \in Nat /\ MAXFILE > 1
<1>1. NDIRECT \in Nat /\ PB \in Nat /\ PB > 1 /\ NDIRECT > 0
  BY FsAssumption DEF FsAssumption
<1>2. NDIRECT + PB \in Nat /\ NDIRECT + PB > 1
  BY <1>1
<1>3. \A x, y \in Nat : x > 1 /\ y > 1 => x * y \in Nat /\ x * y > 1
  OBVIOUS
<1> QED
  BY <1>1, <1>2, <1>3 DEF MAXFILE

-----------------------------------------------------------------------------
(* The numbers of an inode                                                 *)

LEMMA NumbersAt ==
  ASSUME NEW blk, NEW addrs, NEW a \in Place
  PROVE  NumbersOf(blk, addrs)[a] =
           IF a <= NDIRECT THEN addrs[a]
           ELSE IF addrs[NDIRECT] = Zero THEN Zero ELSE blk[addrs[NDIRECT]][a - NDIRECT - 1]
  BY DEF NumbersOf

\* A block that is no table may change.
LEMMA NumbersKept ==
  ASSUME NEW blk, NEW new, NEW addrs,
         addrs[NDIRECT] # Zero => blk[addrs[NDIRECT]] = new[addrs[NDIRECT]]
  PROVE  NumbersOf(blk, addrs) = NumbersOf(new, addrs)
  BY DEF NumbersOf

\* What is missing on the disk only, is missing.
LEMMA NumbersAhead ==
  ASSUME NEW blk, NEW d, NEW m, NEW a \in Place, Ahead(d, m), NumbersOf(blk, d.addrs)[a] # Zero
  PROVE  NumbersOf(blk, d.addrs)[a] = NumbersOf(blk, m.addrs)[a]
<1>1. NDIRECT \in Addrs /\ (a <= NDIRECT => a \in Addrs)
  BY FsAssumption DEF FsAssumption, Addrs, Place
<1> QED
  BY <1>1, NumbersAt DEF Ahead

\* bmap finds the number at the place of the block.
LEMMA BmapNumber ==
  ASSUME NEW d, NEW bn \in 0 .. NDIRECT + PB - 1
  PROVE  Bmap(d, bn) = NumbersOf(block, d.addrs)[PlaceOf(bn)]
<1>1. PlaceOf(bn) \in Place /\ (bn < NDIRECT => PlaceOf(bn) = bn)
      /\ (~(bn < NDIRECT) => PlaceOf(bn) = bn + 1)
  BY FsAssumption DEF FsAssumption, PlaceOf, Place
<1>2. bn \in Int /\ NDIRECT \in Int
  BY FsAssumption DEF FsAssumption
<1> QED
  BY <1>1, <1>2, NumbersAt DEF Bmap

-----------------------------------------------------------------------------
(* Once                                                                    *)

LEMMA OnceLess ==
  ASSUME NEW N, NEW M, NEW marked, Once(N, marked),
         \A i \in Inum, a \in Place : M[i][a] # Zero => M[i][a] = N[i][a]
  PROVE  Once(M, marked)
  BY DEF Once

LEMMA OnceMarks ==
  ASSUME NEW N, NEW marked, NEW more, Once(N, marked), marked \subseteq more
  PROVE  Once(N, more)
  BY DEF Once

\* A block that is marked and nobody's is given a place.
LEMMA OnceMore ==
  ASSUME NEW N, NEW M, NEW marked, NEW j \in Inum, NEW b \in Place, NEW f \in marked,
         Once(N, marked),
         \A i \in Inum, a \in Place : N[i][a] # f,
         \A i \in Inum, a \in Place : M[i][a] = IF i = j /\ a = b THEN f ELSE N[i][a]
  PROVE  Once(M, marked)
<1>1. ASSUME NEW i \in Inum, NEW a \in Place, M[i][a] # Zero
      PROVE  M[i][a] \in marked
  BY <1>1 DEF Once
<1>2. ASSUME NEW i \in Inum, NEW k \in Inum, NEW a \in Place, NEW c \in Place,
             M[i][a] # Zero, M[i][a] = M[k][c]
      PROVE  i = k /\ a = c
  <2>1. CASE i = j /\ a = b
    BY <1>2, <2>1
  <2>2. CASE k = j /\ c = b
    BY <1>2, <2>2
  <2>3. CASE ~(i = j /\ a = b) /\ ~(k = j /\ c = b)
    BY <1>2, <2>3 DEF Once
  <2> QED
    BY <2>1, <2>2, <2>3
<1> QED
  BY <1>1, <1>2 DEF Once

-----------------------------------------------------------------------------
(* What the invariant says of the disk                                     *)

LEMMA NumbersOnDisk ==
  ASSUME NEW i \in Inum
  PROVE  /\ OnDisk[i] = NumbersOf(block, dinode[i].addrs)
         /\ OnDisk'[i] = NumbersOf(block', dinode'[i].addrs)
  BY DEF OnDisk

LEMMA NumbersInUse ==
  ASSUME NEW i \in Inum
  PROVE  /\ Growing /\ i = w.ino => InUse[i] = NumbersOf(block, inode[i].addrs)
         /\ ~(Growing /\ i = w.ino) => InUse[i] = OnDisk[i]
         /\ Growing' /\ i = w'.ino => InUse'[i] = NumbersOf(block', inode'[i].addrs)
         /\ ~(Growing' /\ i = w'.ino) => InUse'[i] = OnDisk'[i]
  BY DEF InUse, OnDisk

\* A number on the disk is one in use.
LEMMA DiskInUse ==
  ASSUME NEW i \in Inum, NEW a \in Place, Inv, OnDisk[i][a] # Zero
  PROVE  OnDisk[i][a] = InUse[i][a]
<1>1. CASE Growing /\ i = w.ino
  <2>1. Ahead(dinode[i], inode[i])
    BY <1>1 DEF Inv, WriteInv, CacheInv, Calling, Growing
  <2>2. OnDisk[i] = NumbersOf(block, dinode[i].addrs) /\ InUse[i] = NumbersOf(block, inode[i].addrs)
    BY <1>1, NumbersOnDisk, NumbersInUse
  <2>3. NumbersOf(block, dinode[i].addrs)[a] # Zero
    BY <2>2
  <2>4. NumbersOf(block, dinode[i].addrs)[a] = NumbersOf(block, inode[i].addrs)[a]
    BY <2>1, <2>3, NumbersAhead
  <2> QED
    BY <2>2, <2>4
<1> QED
  BY <1>1, NumbersInUse

LEMMA OnceOnDisk ==
  ASSUME Inv
  PROVE  Once(OnDisk, bitmap)
  BY OnceLess, DiskInUse DEF Inv, DiskInv

\* A number in use is that of a block, marked.
LEMMA NumberMarked ==
  ASSUME NEW i \in Inum, NEW a \in Place, Inv
  PROVE  /\ InUse[i][a] # Zero => InUse[i][a] \in bitmap /\ InUse[i][a] \in Blk
         /\ OnDisk[i][a] # Zero => OnDisk[i][a] \in bitmap /\ OnDisk[i][a] \in Blk
  BY DiskInUse DEF Inv, DiskInv, DiskTypes, Once

\* The block of a cell of a file.
LEMMA CellCovered ==
  ASSUME NEW i \in Inum, NEW k \in Nat, Inv, k < dinode[i].size
  PROVE  /\ k < MAXFILE
         /\ PlaceOf(k \div PB) \in Place \ {NDIRECT}
         /\ OnDisk[i][PlaceOf(k \div PB)] \in Blk
         /\ OnDisk[i][PlaceOf(k \div PB)] = InUse[i][PlaceOf(k \div PB)]
<1>1. dinode[i].size \in 0 .. MAXFILE
  BY DEF Inv, DiskInv, DiskTypes, Dinode
<1>2. k < MAXFILE
  BY <1>1, MaxFileNat
<1>3. OnDisk[i][PlaceOf(k \div PB)] # Zero
  BY DEF Inv, DiskInv, Covered
<1> QED
  BY <1>2, <1>3, CellOfFile, DiskInUse, NumberMarked

\* Where the disk stays as it is.
LEMMA DiskKept ==
  ASSUME Inv, UNCHANGED disk, InUse' = InUse \/ InUse' = OnDisk
  PROVE  DiskInv'
<1>1. OnDisk' = OnDisk
  BY DEF OnDisk, disk
<1>2. Once(InUse', bitmap)
  BY OnceOnDisk DEF Inv, DiskInv
<1>3. \A k : Entry(k)' = Entry(k)
  BY <1>1 DEF Entry, disk
<1>4. Entries'
  BY <1>3 DEF Inv, DiskInv, Entries, disk
<1> QED
  BY <1>1, <1>2, <1>4 DEF Inv, DiskInv, DiskTypes, Covered, disk, Once

\* What a process leaves behind that is not in writei: the disk.
LEMMA DiskRests ==
  ASSUME Inv, UNCHANGED disk, ~Growing'
  PROVE  DiskInv'
<1>1. \A i \in Inum : InUse'[i] = OnDisk[i]
  BY NumbersInUse, NumbersOnDisk DEF disk
<1>2. InUse' = OnDisk
  BY <1>1 DEF InUse, OnDisk
<1> QED
  BY <1>2, DiskKept

-----------------------------------------------------------------------------
(* Reading                                                                 *)

LEMMA MinPair ==
  ASSUME NEW x \in Int, NEW y \in Int
  PROVE  Min({x, y}) = IF x <= y THEN x ELSE y
<1>1. CASE x <= y
  BY <1>1 DEF Min
<1>2. CASE y < x
  BY <1>2 DEF Min
<1> QED
  BY <1>1, <1>2

\* The cells readi finds: those of the file, up to its end.
LEMMA ReadiCells ==
  ASSUME NEW d, NEW off \in Nat, NEW n \in Nat, d.size \in 0 .. MAXFILE
  PROVE  /\ DOMAIN Readi(d, off, n) = 1 .. (IF n <= d.size - off THEN n ELSE d.size - off)
         /\ \A k \in DOMAIN Readi(d, off, n) :
              /\ off + k - 1 \in Nat /\ off + k - 1 < d.size
              /\ Readi(d, off, n)[k] =
                   block[NumbersOf(block, d.addrs)[PlaceOf((off + k - 1) \div PB)]]
                        [(off + k - 1) % PB]
<1> DEFINE m == IF n <= d.size - off THEN n ELSE d.size - off
<1>1. d.size \in Int /\ m \in Int /\ Min({n, d.size - off}) = m
  BY MinPair, MaxFileNat
<1>2. DOMAIN Readi(d, off, n) = 1 .. m
  BY <1>1 DEF Readi
<1>3. ASSUME NEW k \in 1 .. m
      PROVE  /\ off + k - 1 \in Nat /\ off + k - 1 < d.size
             /\ Readi(d, off, n)[k] =
                  block[NumbersOf(block, d.addrs)[PlaceOf((off + k - 1) \div PB)]]
                       [(off + k - 1) % PB]
  <2> DEFINE c == off + k - 1
  <2>1. c \in Nat /\ c < d.size /\ c < MAXFILE
    BY <1>1, <1>3, MaxFileNat
  <2>2. Readi(d, off, n)[k] = block[Bmap(d, c \div PB)][c % PB]
    BY <1>1, <1>3 DEF Readi
  <2>3. Bmap(d, c \div PB) = NumbersOf(block, d.addrs)[PlaceOf(c \div PB)]
    <3> HIDE DEF c
    <3>1. c \div PB \in 0 .. NDIRECT + PB - 1
      BY <2>1, CellOfFile
    <3> QED
      BY <3>1, BmapNumber
  <2> QED
    BY <2>1, <2>2, <2>3
<1> QED
  BY <1>2, <1>3

\* What is read from the directory on the disk.
LEMMA RootEntries ==
  ASSUME Inv
  PROVE  /\ DOMAIN RootCells = 1 .. dinode[ROOTINO].size
         /\ dinode[ROOTINO].size \in 0 .. MAXFILE
         /\ \A k \in DOMAIN RootCells : k - 1 \in Nat /\ RootCells[k] = Entry(k - 1)
<1> DEFINE size == dinode[ROOTINO].size
<1>1. ROOTINO \in Inum
  BY FsAssumption DEF FsAssumption, Inum, ROOTINO
<1>2. size \in 0 .. MAXFILE
  BY <1>1 DEF Inv, DiskInv, DiskTypes, Dinode
<1>3. size \in Nat
  BY <1>2, MaxFileNat
<1>4. DOMAIN RootCells = 1 .. size
  BY <1>2, <1>3, ReadiCells DEF RootCells
<1>5. ASSUME NEW k \in 1 .. size
      PROVE  k - 1 \in Nat /\ RootCells[k] = Entry(k - 1)
  <2>1. 0 + k - 1 = k - 1 /\ k - 1 \in Nat
    BY <1>3
  <2>2. RootCells[k] = block[NumbersOf(block, dinode[ROOTINO].addrs)[PlaceOf((k - 1) \div PB)]]
                            [(k - 1) % PB]
    <3> DEFINE d == dinode[ROOTINO]
    <3>1. k \in DOMAIN Readi(d, 0, size) /\ d.size \in 0 .. MAXFILE /\ 0 \in Nat
      BY <1>2, <1>4 DEF RootCells
    <3> HIDE DEF d
    <3>2. Readi(d, 0, size)[k] =
            block[NumbersOf(block, d.addrs)[PlaceOf((0 + k - 1) \div PB)]][(0 + k - 1) % PB]
      BY <1>3, <3>1, ReadiCells
    <3> QED
      BY <2>1, <3>2 DEF d, RootCells
  <2> QED
    BY <1>1, <2>1, <2>2, NumbersOnDisk DEF Entry
<1> QED
  BY <1>2, <1>4, <1>5

-----------------------------------------------------------------------------
(* The image is consistent                                                 *)

LEMMA PlaceNumber ==
  ASSUME NEW i \in Inum, NEW p \in Places(i), Inv
  PROVE  \E a \in Place : p = <<i, a>> /\ NumberAt(p) = OnDisk[i][a] /\ OnDisk[i][a] # Zero
<1> DEFINE d == dinode[i]
<1>1. NDIRECT \in Nat /\ PB \in Nat /\ NDIRECT \in Place
  BY FsAssumption DEF FsAssumption, Place
<1>2. CASE \E a \in 0 .. NDIRECT : p = <<i, a>> /\ d.addrs[a] # Zero
  <2>1. PICK a \in 0 .. NDIRECT : p = <<i, a>> /\ d.addrs[a] # Zero
    BY <1>2
  <2>2. a \in Place /\ a <= NDIRECT
    BY <1>1 DEF Place
  <2>3. NumberAt(p) = d.addrs[a]
    BY <2>1, <2>2 DEF NumberAt
  <2>4. OnDisk[i][a] = d.addrs[a]
    BY <2>2, NumbersAt, NumbersOnDisk
  <2> QED
    BY <2>1, <2>2, <2>3, <2>4
<1>3. CASE /\ d.addrs[NDIRECT] # Zero
           /\ \E s \in Slot : p = <<i, NDIRECT + 1 + s>> /\ block[d.addrs[NDIRECT]][s] # Zero
  <2>1. PICK s \in Slot : p = <<i, NDIRECT + 1 + s>> /\ block[d.addrs[NDIRECT]][s] # Zero
    BY <1>3
  <2>2. /\ NDIRECT + 1 + s \in Place /\ ~(NDIRECT + 1 + s <= NDIRECT)
        /\ (NDIRECT + 1 + s) - NDIRECT - 1 = s
    BY <1>1 DEF Place, Slot
  <2>3. NumberAt(p) = block[d.addrs[NDIRECT]][s]
    BY <2>1, <2>2 DEF NumberAt
  <2>4. OnDisk[i][NDIRECT + 1 + s] = block[d.addrs[NDIRECT]][s]
    BY <1>3, <2>2, NumbersAt, NumbersOnDisk
  <2> QED
    BY <2>1, <2>2, <2>3, <2>4
<1> QED
  BY <1>2, <1>3 DEF Places

LEMMA InvConsistent == Inv => DiskConsistent
<1> SUFFICES ASSUME Inv PROVE DiskConsistent
  OBVIOUS
<1> DEFINE places == UNION {Places(i) : i \in Inum}
<1>1. ASSUME NEW p \in places
      PROVE  \E i \in Inum, a \in Place :
               p = <<i, a>> /\ NumberAt(p) = OnDisk[i][a] /\ OnDisk[i][a] # Zero
  BY PlaceNumber
<1> HIDE DEF places
<1>2. \A p \in places : NumberAt(p) \in bitmap
  BY <1>1, OnceOnDisk DEF Once
<1>3. \A p, q \in places : NumberAt(p) = NumberAt(q) => p = q
  <2> SUFFICES ASSUME NEW p \in places, NEW q \in places, NumberAt(p) = NumberAt(q)
               PROVE  p = q
    OBVIOUS
  <2>1. PICK i \in Inum, a \in Place :
          p = <<i, a>> /\ NumberAt(p) = OnDisk[i][a] /\ OnDisk[i][a] # Zero
    BY <1>1
  <2>2. PICK j \in Inum, b \in Place :
          q = <<j, b>> /\ NumberAt(q) = OnDisk[j][b] /\ OnDisk[j][b] # Zero
    BY <1>1
  <2> QED
    BY <2>1, <2>2, OnceOnDisk DEF Once
<1>4. \A i \in Inum : \A k \in 0 .. dinode[i].size - 1 : Bmap(dinode[i], k \div PB) # Zero
  <2> SUFFICES ASSUME NEW i \in Inum, NEW k \in 0 .. dinode[i].size - 1
               PROVE  Bmap(dinode[i], k \div PB) # Zero
    OBVIOUS
  <2>1. dinode[i].size \in Int
    BY MaxFileNat DEF Inv, DiskInv, DiskTypes, Dinode
  <2>2. k \in Nat /\ k < dinode[i].size
    BY <2>1
  <2>3. k \div PB \in 0 .. NDIRECT + PB - 1
    BY <2>2, CellCovered, CellOfFile
  <2> QED
    BY <2>2, <2>3, BmapNumber, NumbersOnDisk DEF Inv, DiskInv, Covered
<1>5. ASSUME NEW k \in DOMAIN RootCells
      PROVE  /\ RootCells[k] # Zero /\ dinode[RootCells[k].inum].type # "free"
             /\ \A l \in DOMAIN RootCells :
                  \/ k = l
                  \/ /\ RootCells[k].name # RootCells[l].name
                     /\ RootCells[k].inum = RootCells[l].inum => RootCells[k].inum = ROOTINO
  <2>1. /\ k - 1 \in Nat /\ k - 1 < dinode[ROOTINO].size /\ RootCells[k] = Entry(k - 1)
    BY RootEntries, MaxFileNat
  <2>2. RootCells[k] # Zero
    BY <2>1, FsAssumption DEF FsAssumption, Inv, DiskInv, Entries, Dirents, Inum
  <2>3. ASSUME NEW l \in DOMAIN RootCells, k # l
        PROVE  /\ RootCells[k].name # RootCells[l].name
               /\ RootCells[k].inum = RootCells[l].inum => RootCells[k].inum = ROOTINO
    <3>1. /\ l - 1 \in Nat /\ l - 1 < dinode[ROOTINO].size /\ RootCells[l] = Entry(l - 1)
          /\ k - 1 # l - 1
      BY <2>3, RootEntries, MaxFileNat
    <3> QED
      BY <2>1, <3>1 DEF Inv, DiskInv, Entries
  <2> QED
    BY <2>1, <2>2, <2>3 DEF Inv, DiskInv, Entries
<1> QED
  BY <1>2, <1>3, <1>4, <1>5 DEF DiskConsistent, places

-----------------------------------------------------------------------------
(* The disk of mkfs                                                        *)

LEMMA Constants ==
  /\ NDIRECT \in Nat /\ NDIRECT > 0 /\ PB \in Nat /\ PB > 1 /\ NB \in Nat /\ NB > 0
  /\ ROOTINO \in Inum /\ NoInum \notin Inum /\ Inum \subseteq Nat /\ 1 \in Blk
  /\ Zero \notin Blk /\ Zero \notin Dirents /\ Zero \notin Values
  /\ NDIRECT \in Place /\ NDIRECT \in Addrs /\ Addrs \subseteq Place
  /\ 0 \in Slot /\ 1 \in Slot
  BY FsAssumption DEF FsAssumption, ROOTINO, Inum, NoInum, Blk, Dirents, Place, Addrs, Slot

LEMMA FreeDinodeType ==
  /\ FreeDinode \in Dinode /\ FreeDinode.type = "free" /\ FreeDinode.size = 0
  /\ FreeDinode.addrs = NoAddrs
  /\ \A a \in Addrs : NoAddrs[a] = Zero
  BY MaxFileNat, Constants DEF FreeDinode, Dinode, NoAddrs, Addrs

LEMMA NoNumbers ==
  ASSUME NEW blk, NEW a \in Place
  PROVE  NumbersOf(blk, NoAddrs)[a] = Zero
<1>1. a <= NDIRECT => a \in Addrs
  BY Constants DEF Place, Addrs
<1> QED
  BY <1>1, FreeDinodeType, NumbersAt, Constants

LEMMA InitDisk ==
  ASSUME Init
  PROVE  DiskInv
<1> DEFINE root == [type |-> "dir", size |-> 2, addrs |-> [NoAddrs EXCEPT ![0] = 1]]
           dots == <<Dirent(ROOTINO, "."), Dirent(ROOTINO, "..")>>
<1>1. /\ bitmap = {1} /\ pc = "user"
      /\ block = [b \in Blk |-> [s \in Slot |-> IF b = 1 /\ s < 2 THEN dots[s + 1] ELSE Zero]]
      /\ dinode = [i \in Inum |-> IF i # ROOTINO THEN FreeDinode ELSE root]
  BY DEF Init, FsInit
<1>2. root \in Dinode
  <2>1. NoAddrs \in [Addrs -> Blk \cup {Zero}] /\ 2 \in 0 .. MAXFILE
    BY MaxFileNat DEF NoAddrs, Addrs
  <2> QED
    BY <2>1, Constants DEF Dinode
<1>3. dots[1] \in Dirents /\ dots[2] \in Dirents
      /\ dots[1] = Dirent(ROOTINO, ".") /\ dots[2] = Dirent(ROOTINO, "..")
  BY Constants DEF Dirents, Dirent
<1>4. DiskTypes
  <2>1. dinode \in [Inum -> Dinode] /\ \A i \in Inum : dinode[i].type = "dir" <=> i = ROOTINO
    BY <1>1, <1>2, FreeDinodeType
  <2>2. block \in [Blk -> [Slot -> Cells]]
    <3>1. \A s \in Slot : s < 2 => dots[s + 1] \in Cells
      BY <1>3 DEF Slot, Cells
    <3> HIDE DEF dots
    <3> QED
      BY <1>1, <3>1 DEF Cells
  <2> QED
    BY <1>1, <2>1, <2>2, Constants DEF DiskTypes
<1>5. \A i \in Inum, a \in Place :
        OnDisk[i][a] = IF i = ROOTINO /\ a = 0 THEN 1 ELSE Zero
  <2> SUFFICES ASSUME NEW i \in Inum, NEW a \in Place
               PROVE  OnDisk[i][a] = IF i = ROOTINO /\ a = 0 THEN 1 ELSE Zero
    OBVIOUS
  <2>1. CASE i # ROOTINO
    <3>1. dinode[i].addrs = NoAddrs
      BY <1>1, <2>1, FreeDinodeType
    <3> QED
      BY <2>1, <3>1, NoNumbers, NumbersOnDisk
  <2>2. CASE i = ROOTINO
    <3>1. dinode[i].addrs = [NoAddrs EXCEPT ![0] = 1]
      BY <1>1, <2>2
    <3>2. \A b \in Addrs : dinode[i].addrs[b] = IF b = 0 THEN 1 ELSE Zero
      BY <3>1 DEF NoAddrs, Addrs
    <3>3. a <= NDIRECT => a \in Addrs
      BY Constants DEF Place, Addrs
    <3>4. dinode[i].addrs[NDIRECT] = Zero /\ (a = 0 => a <= NDIRECT)
      BY <3>2, Constants DEF Place
    <3> QED
      BY <2>2, <3>2, <3>3, <3>4, NumbersAt, NumbersOnDisk
  <2> QED
    BY <2>1, <2>2
<1>6. Once(InUse, bitmap)
  <2>1. \A i \in Inum : InUse[i] = OnDisk[i]
    BY <1>1, NumbersInUse DEF Growing
  <2> QED
    BY <1>1, <1>5, <2>1 DEF Once
<1>7. \A k \in Nat : k < 2 => k \div PB = 0 /\ k % PB = k /\ PlaceOf(k \div PB) = 0 /\ 0 \in Place
  BY FsAssumption DEF FsAssumption, PlaceOf, Place
<1>8. dinode[ROOTINO].size = 2 /\ \A i \in Inum : i # ROOTINO => dinode[i].size = 0
  BY <1>1, Constants, FreeDinodeType
<1>9. Covered(OnDisk, dinode)
  <2> SUFFICES ASSUME NEW i \in Inum, NEW k \in Nat, k < dinode[i].size
               PROVE  OnDisk[i][PlaceOf(k \div PB)] # Zero
    BY DEF Covered
  <2>1. i = ROOTINO /\ k < 2
    BY <1>8
  <2> QED
    BY <1>5, <1>7, <2>1, Constants
<1>10. Entries
  <2>1. \A k \in Nat : k < 2 => Entry(k) = dots[k + 1]
    <3> SUFFICES ASSUME NEW k \in Nat, k < 2 PROVE Entry(k) = dots[k + 1]
      OBVIOUS
    <3>1. Entry(k) = block[1][k]
      BY <1>5, <1>7, Constants DEF Entry
    <3>2. k \in Slot
      BY Constants DEF Slot
    <3> QED
      BY <1>1, <3>1, <3>2, Constants
  <2>2. Entry(0) = Dirent(ROOTINO, ".") /\ Entry(1) = Dirent(ROOTINO, "..")
    BY <1>3, <2>1
  <2>3. \A k \in Nat : k < 2 => k = 0 \/ k = 1
    OBVIOUS
  <2>4. dinode[ROOTINO].type = "dir"
    BY <1>1, Constants
  <2> QED
    BY <1>3, <1>8, <2>2, <2>3, <2>4 DEF Entries, Dirent
<1> QED
  BY <1>4, <1>6, <1>9, <1>10 DEF DiskInv

LEMMA InitInv == Init => Inv
<1> SUFFICES ASSUME Init PROVE Inv
  OBVIOUS
<1> USE DEF Init, FsInit
<1>1. CacheTypes
  BY FreeDinodeType DEF CacheTypes
<1>2. CacheInv
  BY DEF CacheInv
<1>3. WriteInv
  BY DEF WriteInv, Calling, Growing
<1>4. FileTypes
  BY DEF FileTypes, FreeFile
<1>5. FileInv
  <2>1. \A i \in Inum : FilesOf(i) = {}
    BY DEF FilesOf, FreeFile
  <2>2. \A i \in Inum : ~Took(i)
    BY DEF Took, Calling, Growing
  <2>3. \A d \in Fds, f \in Files : ofile[d] # f
    BY FileAssumption DEF FileAssumption, Files, NoFile
  <2>4. Balanced
    <3> SUFFICES ASSUME NEW i \in Inum
                 PROVE  ref[i] = Cardinality(FilesOf(i)) + IF Took(i) THEN 1 ELSE 0
      BY DEF Balanced
    <3>1. ref[i] = 0 /\ Cardinality(FilesOf(i)) = 0
      BY <2>1, FS_EmptySet
    <3>2. (IF Took(i) THEN 1 ELSE 0) = 0
      BY <2>2
    <3> QED
      BY <3>1, <3>2
  <2>5. \A f \in Files : file[f].ref = 0
    BY DEF FreeFile
  <2> QED
    BY <2>3, <2>4, <2>5 DEF FileInv, NoFile, NoCall
<1> QED
  BY <1>1, <1>2, <1>3, <1>4, <1>5, InitDisk DEF Inv

-----------------------------------------------------------------------------
(* References                                                              *)

LEMMA FilesFinite ==
  ASSUME NEW i \in Inum
  PROVE  IsFiniteSet(FilesOf(i)) /\ Cardinality(FilesOf(i)) \in Nat
<1>1. 0 \in Int /\ NFILE - 1 \in Int
  BY FileAssumption DEF FileAssumption
<1>2. IsFiniteSet(Files)
  BY <1>1, FS_Interval DEF Files
<1>3. FilesOf(i) \subseteq Files
  BY DEF FilesOf
<1> QED
  BY <1>2, <1>3, FS_Subset, FS_CardinalityType

\* Where the files stay, the call takes a reference to i or gives it back.
LEMMA CallTakes ==
  ASSUME NEW i \in Inum, ref \in [Inum -> Nat], Balanced,
         \A j \in Inum : FilesOf(j)' = FilesOf(j),
         \A j \in Inum : ~Took(j), \A j \in Inum : Took(j)' <=> j = i,
         ref' = [ref EXCEPT ![i] = @ + 1]
  PROVE  Balanced' /\ ref' \in [Inum -> Nat]
<1>1. ASSUME NEW j \in Inum
      PROVE  ref'[j] = Cardinality(FilesOf(j)') + IF Took(j)' THEN 1 ELSE 0
  <2>1. ref[j] = Cardinality(FilesOf(j)) + 0 /\ Cardinality(FilesOf(j)) \in Nat
    BY FilesFinite DEF Balanced
  <2>2. CASE j = i
    <3>1. (IF Took(j)' THEN 1 ELSE 0) = 1
      BY <2>2
    <3> QED
      BY <2>1, <2>2, <3>1
  <2>3. CASE j # i
    <3>1. (IF Took(j)' THEN 1 ELSE 0) = 0
      BY <2>3
    <3> QED
      BY <2>1, <2>3, <3>1
  <2> QED
    BY <2>2, <2>3
<1> QED
  BY <1>1 DEF Balanced

LEMMA CallGives ==
  ASSUME NEW i \in Inum, ref \in [Inum -> Nat], Balanced,
         \A j \in Inum : FilesOf(j)' = FilesOf(j), Took(i), ~Took(i)',
         \A j \in Inum \ {i} : Took(j)' <=> Took(j),
         ref' = [ref EXCEPT ![i] = @ - 1]
  PROVE  Balanced' /\ ref' \in [Inum -> Nat] /\ ref[i] = Cardinality(FilesOf(i)) + 1
<1>1. ASSUME NEW j \in Inum
      PROVE  /\ ref'[j] = Cardinality(FilesOf(j)') + IF Took(j)' THEN 1 ELSE 0
             /\ ref'[j] \in Nat /\ (j = i => ref[i] = Cardinality(FilesOf(i)) + 1)
  <2>1. /\ ref[j] = Cardinality(FilesOf(j)) + IF Took(j) THEN 1 ELSE 0
        /\ Cardinality(FilesOf(j)) \in Nat
    BY FilesFinite DEF Balanced
  <2>2. CASE j = i
    <3>1. (IF Took(j)' THEN 1 ELSE 0) = 0 /\ (IF Took(j) THEN 1 ELSE 0) = 1
      BY <2>2
    <3> QED
      BY <2>1, <2>2, <3>1
  <2>3. CASE j # i
    <3>1. (IF Took(j)' THEN 1 ELSE 0) = (IF Took(j) THEN 1 ELSE 0)
      BY <2>3
    <3> QED
      BY <2>1, <2>3, <3>1
  <2> QED
    BY <2>2, <2>3
<1> QED
  BY <1>1 DEF Balanced

\* Nothing changes hands.
LEMMA CallKeeps ==
  ASSUME Balanced, \A j \in Inum : FilesOf(j)' = FilesOf(j),
         \A j \in Inum : Took(j)' <=> Took(j), ref' = ref
  PROVE  Balanced'
<1> SUFFICES ASSUME NEW j \in Inum
             PROVE  ref'[j] = Cardinality(FilesOf(j)') + IF Took(j)' THEN 1 ELSE 0
  BY DEF Balanced
<1>1. (IF Took(j)' THEN 1 ELSE 0) = (IF Took(j) THEN 1 ELSE 0)
  OBVIOUS
<1> QED
  BY <1>1 DEF Balanced

\* The reference of the call becomes that of a file.
LEMMA FileTakes ==
  ASSUME NEW i \in Inum, NEW f, Balanced, ref' = ref, f \notin FilesOf(i),
         \A j \in Inum : FilesOf(j)' = IF j = i THEN FilesOf(j) \cup {f} ELSE FilesOf(j),
         \A j \in Inum : Took(j) <=> j = i, \A j \in Inum : ~Took(j)'
  PROVE  Balanced'
<1> SUFFICES ASSUME NEW j \in Inum
             PROVE  ref'[j] = Cardinality(FilesOf(j)') + IF Took(j)' THEN 1 ELSE 0
  BY DEF Balanced
<1>1. /\ ref[j] = Cardinality(FilesOf(j)) + IF Took(j) THEN 1 ELSE 0
      /\ Cardinality(FilesOf(j)) \in Nat
      /\ (IF Took(j)' THEN 1 ELSE 0) = 0
  BY FilesFinite DEF Balanced
<1>2. CASE j = i
  <2>1. (IF Took(j) THEN 1 ELSE 0) = 1
    BY <1>2
  <2>2. Cardinality(FilesOf(j)') = Cardinality(FilesOf(j)) + 1
    BY <1>2, FilesFinite, FS_AddElement
  <2> QED
    BY <1>1, <2>1, <2>2
<1>3. CASE j # i
  <2>1. (IF Took(j) THEN 1 ELSE 0) = 0
    BY <1>3
  <2> QED
    BY <1>1, <1>3, <2>1
<1> QED
  BY <1>2, <1>3

\* A file gives its reference back.
LEMMA FileGives ==
  ASSUME NEW i \in Inum, NEW f, ref \in [Inum -> Nat], Balanced, f \in FilesOf(i),
         \A j \in Inum : FilesOf(j)' = FilesOf(j) \ {f},
         \A j \in Inum \ {i} : f \notin FilesOf(j),
         \A j \in Inum : ~Took(j), \A j \in Inum : ~Took(j)',
         ref' = [ref EXCEPT ![i] = @ - 1]
  PROVE  Balanced' /\ ref' \in [Inum -> Nat] /\ ref[i] = Cardinality(FilesOf(i))
<1>1. ASSUME NEW j \in Inum
      PROVE  /\ ref'[j] = Cardinality(FilesOf(j)') + IF Took(j)' THEN 1 ELSE 0
             /\ ref'[j] \in Nat /\ (j = i => ref[i] = Cardinality(FilesOf(i)))
  <2>1. /\ ref[j] = Cardinality(FilesOf(j)) /\ Cardinality(FilesOf(j)) \in Nat
        /\ (IF Took(j)' THEN 1 ELSE 0) = 0
    <3>1. ref[j] = Cardinality(FilesOf(j)) + IF Took(j) THEN 1 ELSE 0
      BY DEF Balanced
    <3>2. (IF Took(j) THEN 1 ELSE 0) = 0 /\ (IF Took(j)' THEN 1 ELSE 0) = 0
      OBVIOUS
    <3> QED
      BY <3>1, <3>2, FilesFinite
  <2>2. CASE j = i
    <3>1. Cardinality(FilesOf(j) \ {f}) = Cardinality(FilesOf(j)) - 1
          /\ Cardinality(FilesOf(j)) - 1 \in Nat
      <4>1. IsFiniteSet(FilesOf(j)) /\ f \in FilesOf(j)
        BY <2>2, FilesFinite
      <4>2. Cardinality(FilesOf(j) \ {f}) \in Nat
        BY <4>1, FS_RemoveElement, FS_CardinalityType
      <4>3. Cardinality(FilesOf(j) \ {f}) = Cardinality(FilesOf(j)) - 1
        BY <4>1, FS_RemoveElement
      <4> QED
        BY <4>2, <4>3
    <3> QED
      BY <2>1, <2>2, <3>1
  <2>3. CASE j # i
    <3>1. FilesOf(j) \ {f} = FilesOf(j)
      BY <2>3
    <3> QED
      BY <2>1, <2>3, <3>1
  <2> QED
    BY <2>2, <2>3
<1> QED
  BY <1>1 DEF Balanced

-----------------------------------------------------------------------------
(* Steps that leave the disk alone                                         *)

LEMMA PanicStep ==
  ASSUME Inv, UNCHANGED disk, pc' = "panic"
  PROVE  Inv'
<1>1. DiskInv'
  BY DiskRests DEF Growing
<1> QED
  BY <1>1 DEF Inv

\* Outside of writei the copies in memory are those on the disk.
LEMMA LoadedIsDisk ==
  ASSUME NEW i \in Inum, Inv, pc \in {"user", "filealloc", "writei_ret"}
  PROVE  Loaded(i) = dinode[i] /\ Loaded(i) \in Dinode
  BY DEF Inv, CacheInv, Growing, Loaded, DiskInv, DiskTypes

\* A call that returns at once.
LEMMA NothingDone ==
  ASSUME Inv, pc = "user", pc' = "user", call' = NoCall,
         UNCHANGED <<disk, icache, file, ofile>>
  PROVE  Inv'
<1>1. DiskInv'
  BY DiskRests DEF Growing
<1>2. CacheTypes' /\ CacheInv' /\ WriteInv' /\ FileTypes'
  BY DEF Inv, CacheTypes, CacheInv, WriteInv, FileTypes, Growing, Calling, disk, icache
<1>3. FileInv'
  <2>1. \A j \in Inum : FilesOf(j)' = FilesOf(j) /\ ~Took(j) /\ ~Took(j)'
    BY DEF FilesOf, Took, Calling, Growing
  <2>2. Balanced'
    BY <2>1, CallKeeps DEF Inv, FileInv, icache
  <2> QED
    BY <2>2 DEF Inv, FileInv, disk, icache, NoCall
<1> QED
  BY <1>1, <1>2, <1>3 DEF Inv

\* iget and ilock of an inode in use, for open.
LEMMA HoldStep ==
  ASSUME NEW i \in Inum, NEW mode \in Modes, Inv, pc = "user", pc' = "filealloc",
         dinode[i].type # "free", i = ROOTINO => mode = "rdonly", Hold(i),
         call' = [op |-> "open", fd |-> -1, ino |-> i, mode |-> mode],
         UNCHANGED <<disk, file, ofile>>
  PROVE  Inv'
<1>1. DiskInv'
  BY DiskRests DEF Growing
<1>2. ref \in [Inum -> Nat] /\ ivalid \in [Inum -> BOOLEAN] /\ inode \in [Inum -> Dinode]
  BY DEF Inv, CacheTypes
<1>3. /\ ref' = [ref EXCEPT ![i] = @ + 1] /\ ivalid' = [ivalid EXCEPT ![i] = TRUE]
      /\ inode' = [inode EXCEPT ![i] = Loaded(i)]
      /\ Loaded(i) = dinode[i] /\ Loaded(i) \in Dinode
  BY LoadedIsDisk DEF Hold
<1>4. Balanced' /\ ref' \in [Inum -> Nat]
  <2>1. \A j \in Inum : FilesOf(j)' = FilesOf(j)
    BY DEF FilesOf
  <2>2. \A j \in Inum : ~Took(j) /\ (Took(j)' <=> j = i)
    BY DEF Took, Calling, Growing
  <2> QED
    BY <1>2, <1>3, <2>1, <2>2, CallTakes DEF Inv, FileInv
<1>5. CacheTypes'
  BY <1>2, <1>3, <1>4 DEF CacheTypes
<1>6. CacheInv'
  BY <1>2, <1>3 DEF Inv, CacheInv, Growing, disk
<1>7. WriteInv' /\ FileTypes'
  BY DEF Inv, WriteInv, FileTypes, Growing, Calling
<1>8. FileInv'
  BY <1>2, <1>3, <1>4 DEF Inv, FileInv, FileTypes, disk
<1> QED
  BY <1>1, <1>5, <1>6, <1>7, <1>8 DEF Inv

-----------------------------------------------------------------------------
(* Paths                                                                   *)

\* A set of numbers has a least one.
LEMMA LeastOf ==
  ASSUME NEW S \in SUBSET Nat, S # {}
  PROVE  Min(S) \in S /\ \A x \in S : Min(S) <= x
<1>1. IsWellFoundedOn(OpToRel(<, Nat), Nat)
  BY NatLessThanWellFounded
<1>2. PICK m \in S : \A x \in S : ~(<<x, m>> \in OpToRel(<, Nat))
  BY <1>1, WFMin
<1>3. \A x \in S : ~(x < m)
  BY <1>2 DEF OpToRel
<1>4. \A x \in S : m <= x
  BY <1>3
<1> QED
  BY <1>4 DEF Min

\* What a lookup ends at: nothing, or an inode in use.
Named == {NoInum} \cup {i \in Inum : dinode[i].type # "free"}

LEMMA DirlookupNamed ==
  ASSUME NEW name, Inv
  PROVE  /\ Dirlookup(dinode[ROOTINO], name) \in Named
         /\ Dirlookup(dinode[ROOTINO], name) = NoInum =>
              \A k \in Nat : k < dinode[ROOTINO].size => Entry(k).name # name
<1> DEFINE cells == Readi(dinode[ROOTINO], 0, dinode[ROOTINO].size)
           found == {k \in DOMAIN cells : cells[k] # Zero /\ cells[k].name = name}
<1>1. cells = RootCells
  BY DEF RootCells
<1>2. found \in SUBSET Nat
  BY <1>1, RootEntries, MaxFileNat
<1>3. \A k \in Nat : k < dinode[ROOTINO].size =>
        Entry(k) # Zero /\ Entry(k).inum \in Inum /\ dinode[Entry(k).inum].type # "free"
  BY Constants DEF Inv, DiskInv, Entries, Dirents
<1>4. \A k \in found : cells[k].inum \in Named /\ cells[k].inum # NoInum
  <2> SUFFICES ASSUME NEW k \in found PROVE cells[k].inum \in Named /\ cells[k].inum # NoInum
    OBVIOUS
  <2>1. k - 1 \in Nat /\ k - 1 < dinode[ROOTINO].size /\ cells[k] = Entry(k - 1)
    BY <1>1, RootEntries, MaxFileNat
  <2> QED
    BY <1>3, <2>1, Constants DEF Named
<1>5. ASSUME found = {}, NEW k \in Nat, k < dinode[ROOTINO].size
      PROVE  Entry(k).name # name
  <2>1. /\ k + 1 \in DOMAIN cells /\ cells[k + 1] = Entry(k)
    <3>1. k + 1 \in DOMAIN RootCells /\ (k + 1) - 1 = k
      BY <1>5, RootEntries, MaxFileNat
    <3> QED
      BY <1>1, <3>1, RootEntries
  <2> QED
    BY <1>3, <1>5, <2>1
<1>6. Dirlookup(dinode[ROOTINO], name) = IF found = {} THEN NoInum ELSE cells[Min(found)].inum
  BY DEF Dirlookup
<1> HIDE DEF cells, found
<1>7. CASE found = {}
  BY <1>5, <1>6, <1>7 DEF Named
<1>8. CASE found # {}
  <2>1. Min(found) \in found
    BY <1>2, <1>8, LeastOf
  <2> QED
    BY <1>4, <1>6, <1>8, <2>1
<1> QED
  BY <1>7, <1>8

\* One step of namex.
LEMMA NextElemNamed ==
  ASSUME NEW name, NEW i \in Named, Inv, pc = "user"
  PROVE  NextElem(i, name) \in Named
<1>1. CASE i = NoInum
  BY <1>1 DEF NextElem, Named
<1>2. CASE i # NoInum
  <2>1. i \in Inum /\ Loaded(i) = dinode[i]
    BY <1>2, LoadedIsDisk DEF Named
  <2>2. dinode[i].type = "dir" => i = ROOTINO
    BY <2>1 DEF Inv, DiskInv, DiskTypes
  <2> QED
    BY <1>2, <2>1, <2>2, DirlookupNamed DEF NextElem, Named
<1> QED
  BY <1>1, <1>2

RootNamed == ROOTINO \in Named
LEMMA RootIsNamed == Inv => RootNamed
  BY Constants DEF Inv, DiskInv, DiskTypes, RootNamed, Named

\* at is a walk of the first n elements.
Walked(at, path, n) ==
  at = [k \in 0 .. n |-> IF k = 0 THEN ROOTINO ELSE NextElem(at[k - 1], path[k])]

\* There is one: a longer is a shorter with one step more.
LEMMA WalkExists ==
  ASSUME NEW path, NEW n \in Nat
  PROVE  \E at : Walked(at, path, n)
<1> DEFINE S == {m \in Nat : ~ \E at : Walked(at, path, m)}
<1> SUFFICES ASSUME S # {} PROVE FALSE
  OBVIOUS
<1>1. PICK m \in S : \A x \in S : m <= x
  BY LeastOf
<1>2. m \in Nat /\ ~ \E at : Walked(at, path, m)
  OBVIOUS
<1>3. CASE m = 0
  <2>1. Walked([k \in 0 .. 0 |-> ROOTINO], path, 0)
    BY DEF Walked
  <2> QED
    BY <1>2, <1>3, <2>1
<1>4. CASE m # 0
  <2>1. m - 1 \in Nat /\ m - 1 \notin S
    BY <1>1, <1>2, <1>4
  <2>2. PICK at : Walked(at, path, m - 1)
    BY <2>1
  <2> DEFINE more == [k \in 0 .. m |-> IF k = m THEN NextElem(at[m - 1], path[m]) ELSE at[k]]
  <2>3. Walked(more, path, m)
    <3>1. ASSUME NEW k \in 0 .. m
          PROVE  more[k] = IF k = 0 THEN ROOTINO ELSE NextElem(more[k - 1], path[k])
      <4>1. CASE k = m
        BY <1>2, <1>4, <4>1
      <4>2. CASE k # m
        <5>1. k \in 0 .. m - 1 /\ (k # 0 => k - 1 \in 0 .. m /\ k - 1 # m)
          BY <1>2, <4>2
        <5>2. at[k] = IF k = 0 THEN ROOTINO ELSE NextElem(at[k - 1], path[k])
          BY <2>2, <5>1 DEF Walked
        <5> QED
          BY <4>2, <5>1, <5>2
      <4> QED
        BY <4>1, <4>2
    <3> QED
      BY <3>1 DEF Walked
  <2> QED
    BY <1>2, <2>3
<1> QED
  BY <1>3, <1>4

\* What every step stays in, a walk does not leave.
LEMMA WalkedIn ==
  ASSUME NEW S, NEW path, NEW n \in Nat, NEW at, Walked(at, path, n),
         ROOTINO \in S, \A i \in S : \A name : NextElem(i, name) \in S
  PROVE  \A k \in 0 .. n : at[k] \in S
<1> DEFINE out == {k \in 0 .. n : at[k] \notin S}
<1> SUFFICES ASSUME out # {} PROVE FALSE
  OBVIOUS
<1>1. out \in SUBSET Nat
  OBVIOUS
<1>2. PICK m \in out : \A x \in out : m <= x
  BY <1>1, LeastOf
<1>3. m \in 0 .. n /\ at[m] \notin S
  OBVIOUS
<1>4. at[m] = IF m = 0 THEN ROOTINO ELSE NextElem(at[m - 1], path[m])
  BY <1>3 DEF Walked
<1>5. CASE m = 0
  BY <1>3, <1>4, <1>5
<1>6. CASE m # 0
  <2>1. m - 1 \in 0 .. n /\ m - 1 \notin out
    BY <1>2, <1>3, <1>6
  <2>2. at[m - 1] \in S
    BY <2>1
  <2> QED
    BY <1>3, <1>4, <1>6, <2>2
<1> QED
  BY <1>5, <1>6

LEMMA WalkIn ==
  ASSUME NEW S, NEW path, Len(path) \in Nat,
         ROOTINO \in S, \A i \in S : \A name : NextElem(i, name) \in S
  PROVE  Walk(path) \in S
<1> DEFINE n == Len(path)
           at == CHOOSE at : Walked(at, path, n)
<1>1. Walked(at, path, n)
  BY WalkExists
<1>2. Walk(path) = at[n]
  BY DEF Walk, Walked
<1> HIDE DEF at
<1>3. n \in Nat
  OBVIOUS
<1> HIDE DEF n
<1>4. \A k \in 0 .. n : at[k] \in S
  BY <1>1, <1>3, WalkedIn
<1> QED
  BY <1>2, <1>3, <1>4

\* namex ends nowhere, or at an inode in use.
LEMMA WalkNamed ==
  ASSUME NEW path, Len(path) \in Nat, Inv, pc = "user"
  PROVE  Walk(path) \in Named
<1>1. ROOTINO \in Named
  BY RootIsNamed DEF RootNamed
<1>2. \A i \in Named : \A name : NextElem(i, name) \in Named
  BY NextElemNamed
<1> QED
  BY <1>1, <1>2, WalkIn

LEMMA PathNamed ==
  ASSUME NEW path \in Paths, Inv, pc = "user"
  PROVE  /\ Namei(path) \in Named
         /\ Nameiparent(path) \in {NoInum, ROOTINO}
         /\ Nameiparent(path) # NoInum => Last(path) \in Names \cup {".", ".."}
<1>1. path \in Seq(Names \cup {".", ".."})
  BY FileAssumption DEF FileAssumption
<1>2. Namei(path) \in Named
  BY <1>1, WalkNamed DEF Namei
<1>3. CASE path = <<>>
  BY <1>2, <1>3 DEF Nameiparent
<1>4. CASE path # <<>>
  <2>1. Len(path) \in Nat /\ Len(path) > 0 /\ Last(path) \in Names \cup {".", ".."}
    BY <1>1, <1>4 DEF Last
  <2>2. Len(Front(path)) \in Nat
    BY <1>1, <2>1 DEF Front
  <2>3. Walk(Front(path)) \in Named
    BY <2>2, WalkNamed
  <2>4. \A i \in Named \ {NoInum} : Loaded(i).type = "dir" => i = ROOTINO
    BY LoadedIsDisk DEF Named, Inv, DiskInv, DiskTypes
  <2> QED
    BY <1>2, <1>4, <2>1, <2>3, <2>4 DEF Nameiparent
<1> QED
  BY <1>3, <1>4

-----------------------------------------------------------------------------
(* open                                                                    *)

LEMMA OpenNoCreateStep ==
  ASSUME NEW path \in Paths, NEW mode \in Modes, Inv, OpenNoCreate(path, mode)
  PROVE  Inv'
<1>1. pc = "user" /\ UNCHANGED <<file, ofile>>
  BY DEF OpenNoCreate, Syscall
<1>2. CASE ~NamexFits(path)
  BY <1>1, <1>2, PanicStep DEF OpenNoCreate, Panic
<1>3. CASE NamexFits(path)
  <2> DEFINE i == OpenTarget(path, mode)
  <2>1. CASE i = NoInum
    BY <1>1, <1>3, <2>1, NothingDone DEF OpenNoCreate, Return, fsrest
  <2>2. CASE i # NoInum
    <3>1. i \in Named \ {NoInum} /\ ~(Loaded(i).type = "dir" /\ mode # "rdonly")
      BY <1>1, <2>2, PathNamed DEF OpenTarget
    <3>2. i \in Inum /\ dinode[i].type # "free" /\ (i = ROOTINO => mode = "rdonly")
      BY <1>1, <3>1, LoadedIsDisk DEF Named, Inv, DiskInv, DiskTypes
    <3>3. /\ Hold(i) /\ call' = [op |-> "open", fd |-> -1, ino |-> i, mode |-> mode]
          /\ pc' = "filealloc" /\ UNCHANGED disk
      BY <1>3, <2>2 DEF OpenNoCreate
    <3> HIDE DEF i
    <3> QED
      BY <1>1, <3>2, <3>3, HoldStep
  <2> QED
    BY <2>1, <2>2
<1> QED
  BY <1>2, <1>3

LEMMA OpenCreateOldStep ==
  ASSUME NEW path \in Paths, NEW mode \in Modes, Inv, OpenCreateOld(path, mode)
  PROVE  Inv'
<1> DEFINE dp == Nameiparent(path)
           i  == IF dp = NoInum THEN NoInum ELSE Dirlookup(Loaded(dp), Last(path))
<1>1. pc = "user" /\ UNCHANGED <<file, ofile>> /\ (dp = NoInum \/ i # NoInum)
  BY DEF OpenCreateOld, Syscall
<1>2. CASE ~NamexFits(path)
  BY <1>1, <1>2, PanicStep DEF OpenCreateOld, Panic
<1>3. CASE NamexFits(path)
  <2>1. CASE dp = NoInum \/ Loaded(i).type = "dir"
    BY <1>1, <1>3, <2>1, NothingDone DEF OpenCreateOld, Return, fsrest
  <2>2. CASE ~(dp = NoInum \/ Loaded(i).type = "dir")
    <3>1. dp = ROOTINO /\ dp # NoInum
      BY <1>1, <2>2, PathNamed
    <3>2. i = Dirlookup(dinode[ROOTINO], Last(path))
      BY <1>1, <3>1, LoadedIsDisk, Constants
    <3>3. i \in Inum /\ dinode[i].type # "free"
      BY <1>1, <3>1, <3>2, DirlookupNamed DEF Named
    <3>4. i # ROOTINO
      BY <1>1, <2>2, <3>3, LoadedIsDisk DEF Inv, DiskInv, DiskTypes
    <3>5. /\ Hold(i) /\ call' = [op |-> "open", fd |-> -1, ino |-> i, mode |-> mode]
          /\ pc' = "filealloc" /\ UNCHANGED disk
      BY <1>3, <2>2 DEF OpenCreateOld
    <3> HIDE DEF i, dp
    <3> QED
      BY <1>1, <3>3, <3>4, <3>5, HoldStep
  <2> QED
    BY <2>1, <2>2
<1> QED
  BY <1>2, <1>3

LEMMA FilesCounted ==
  ASSUME NEW i \in Inum, NEW f \in FilesOf(i)
  PROVE  Cardinality(FilesOf(i)) >= 1
<1>1. IsFiniteSet(FilesOf(i)) /\ Cardinality(FilesOf(i)) \in Nat /\ FilesOf(i) # {}
  BY FilesFinite
<1>2. Cardinality(FilesOf(i)) # 0
  BY <1>1, FS_EmptySet
<1> QED
  BY <1>1, <1>2

\* The descriptors and files that are free have a first.
LEMMA FirstFree ==
  /\ \A S \in SUBSET Files : S # {} => Min(S) \in S
  /\ \A S \in SUBSET Fds : S # {} => Min(S) \in S
<1>1. Files \subseteq Nat /\ Fds \subseteq Nat
  BY FileAssumption DEF FileAssumption, Files, Fds
<1> QED
  BY <1>1, LeastOf

\* open takes a file and a descriptor.
LEMMA OpenFileTakes ==
  ASSUME NEW f \in Files, NEW d \in Fds, Inv, pc = "filealloc", pc' = "user",
         file[f].ref = 0, ofile[d] = NoFile,
         file' = [file EXCEPT ![f] =
                    [ref |-> 1, ip |-> call.ino, off |-> 0,
                     readable |-> call.mode # "wronly", writable |-> call.mode # "rdonly"]],
         ofile' = [ofile EXCEPT ![d] = f], call' = NoCall, UNCHANGED <<disk, icache>>
  PROVE  Inv'
<1> DEFINE i == call.ino
           new == [ref |-> 1, ip |-> i, off |-> 0,
                   readable |-> call.mode # "wronly", writable |-> call.mode # "rdonly"]
<1>1. /\ i \in Inum /\ ivalid[i] /\ dinode[i].type # "free" /\ call.op = "open"
      /\ i = ROOTINO => call.mode = "rdonly"
  BY DEF Inv, FileInv
<1>2. DOMAIN file = Files /\ ofile \in [Fds -> Files \cup {NoFile}] /\ NoFile \notin Files
  BY FileAssumption DEF FileAssumption, Inv, FileTypes, NoFile, Files
<1>3. /\ \A g \in Files : file'[g] = IF g = f THEN new ELSE file[g]
      /\ \A e \in Fds : ofile'[e] = IF e = d THEN f ELSE ofile[e]
      /\ DOMAIN file' = Files /\ ofile' \in [Fds -> Files \cup {NoFile}]
  BY <1>2
<1>4. DiskInv'
  BY DiskRests DEF Growing
<1>5. CacheTypes' /\ CacheInv' /\ WriteInv'
  BY DEF Inv, CacheTypes, CacheInv, WriteInv, Growing, Calling, disk, icache
<1>6. FileTypes'
  <2>1. /\ new \in [ref : {0, 1}, ip : Inum \cup {NoInum}, off : Nat,
                    readable : BOOLEAN, writable : BOOLEAN]
        /\ new.ip \in Inum
    BY <1>1
  <2> HIDE DEF new
  <2> QED
    BY <1>3, <2>1 DEF Inv, FileTypes
<1>7. Balanced'
  <2>1. /\ f \notin FilesOf(i)
        /\ \A j \in Inum : FilesOf(j)' = IF j = i THEN FilesOf(j) \cup {f} ELSE FilesOf(j)
    BY <1>3 DEF FilesOf
  <2>2. \A j \in Inum : (Took(j) <=> j = i) /\ ~Took(j)'
    BY DEF Took, Calling, Growing
  <2> QED
    BY <1>1, <2>1, <2>2, FileTakes DEF Inv, FileInv, icache
<1>8. dinode[i].size \in 0 .. MAXFILE
  BY <1>1 DEF Inv, DiskInv, DiskTypes, Dinode
<1>9. FileInv'
  <2>1. \A g \in Files : file[g].ref > 0 <=> \E e \in Fds : ofile[e] = g
    BY DEF Inv, FileInv
  <2>2. \A e, h \in Fds : ofile'[e] # NoFile /\ ofile'[e] = ofile'[h] => e = h
    BY <1>2, <1>3, <2>1 DEF Inv, FileInv
  <2>3. \A g \in Files : file'[g].ref > 0 <=> \E e \in Fds : ofile'[e] = g
    BY <1>2, <1>3, <2>1
  <2>4. \A g \in Files : file'[g].ref > 0 =>
          /\ ivalid'[file'[g].ip] /\ dinode'[file'[g].ip].type # "free"
          /\ file'[g].writable => file'[g].ip # ROOTINO
          /\ file'[g].off <= dinode'[file'[g].ip].size
    <3> SUFFICES ASSUME NEW g \in Files, file'[g].ref > 0
                 PROVE  /\ ivalid[file'[g].ip] /\ dinode[file'[g].ip].type # "free"
                        /\ file'[g].writable => file'[g].ip # ROOTINO
                        /\ file'[g].off <= dinode[file'[g].ip].size
      BY DEF disk, icache
    <3>1. CASE g = f
      <4>1. file'[g] = new /\ new.ip = i /\ new.off = 0 /\ (new.writable <=> call.mode # "rdonly")
        BY <1>3, <3>1
      <4> HIDE DEF new, i
      <4> QED
        BY <1>1, <1>8, <4>1, MaxFileNat
    <3>2. CASE g # f
      BY <1>3, <3>2 DEF Inv, FileInv
    <3> QED
      BY <3>1, <3>2
  <2> QED
    BY <1>7, <2>2, <2>3, <2>4 DEF Inv, FileInv, NoCall, icache
<1> QED
  BY <1>4, <1>5, <1>6, <1>9 DEF Inv

\* There is none: iput.
LEMMA OpenFileFails ==
  ASSUME Inv, pc = "filealloc", pc' = "user", Iput(call.ino), call' = NoCall,
         UNCHANGED <<disk, file, ofile>>
  PROVE  Inv'
<1> DEFINE i == call.ino
<1>1. i \in Inum /\ ivalid[i]
  BY DEF Inv, FileInv
<1>2. ref \in [Inum -> Nat] /\ ivalid \in [Inum -> BOOLEAN]
  BY DEF Inv, CacheTypes
<1>3. /\ ref' = [ref EXCEPT ![i] = @ - 1] /\ ivalid' = [ivalid EXCEPT ![i] = @ /\ ref[i] > 1]
      /\ inode' = inode
  BY DEF Iput
<1>4. Balanced' /\ ref' \in [Inum -> Nat] /\ ref[i] = Cardinality(FilesOf(i)) + 1
  <2>1. \A j \in Inum : FilesOf(j)' = FilesOf(j)
    BY DEF FilesOf
  <2>2. \A j \in Inum : (Took(j) <=> j = i) /\ ~Took(j)'
    BY DEF Took, Calling, Growing
  <2> QED
    BY <1>1, <1>2, <1>3, <2>1, <2>2, CallGives DEF Inv, FileInv
<1>5. /\ ivalid' \in [Inum -> BOOLEAN]
      /\ \A j \in Inum : ivalid'[j] => ivalid[j] /\ ref'[j] > 0
  <2>1. \A j \in Inum : ivalid[j] => ref[j] > 0
    BY DEF Inv, FileInv
  <2> HIDE DEF i
  <2>2. /\ ivalid'[i] => ivalid[i] /\ ref[i] > 1
        /\ ref'[i] = ref[i] - 1 /\ ref[i] \in Nat
    BY <1>1, <1>2, <1>3
  <2>3. \A j \in Inum \ {i} : ivalid'[j] = ivalid[j] /\ ref'[j] = ref[j]
    BY <1>1, <1>2, <1>3
  <2>4. ivalid' \in [Inum -> BOOLEAN]
    BY <1>1, <1>2, <1>3
  <2> QED
    BY <2>1, <2>2, <2>3, <2>4
<1>6. DiskInv'
  BY DiskRests DEF Growing
<1>7. CacheTypes' /\ CacheInv' /\ WriteInv' /\ FileTypes'
  BY <1>3, <1>4, <1>5
     DEF Inv, CacheTypes, CacheInv, WriteInv, FileTypes, Growing, Calling, disk
<1>8. \A f \in Files : file[f].ref > 0 => ivalid'[file[f].ip]
  <2> SUFFICES ASSUME NEW f \in Files, file[f].ref > 0
               PROVE  ivalid'[file[f].ip]
    OBVIOUS
  <2>1. file[f].ip \in Inum /\ ivalid[file[f].ip]
    BY DEF Inv, FileTypes, FileInv
  <2>2. CASE file[f].ip = i
    <3>1. Cardinality(FilesOf(i)) >= 1 /\ Cardinality(FilesOf(i)) \in Nat
      BY <1>1, <2>2, FilesCounted, FilesFinite DEF FilesOf
    <3> QED
      BY <1>2, <1>3, <1>4, <2>1, <2>2, <3>1
  <2> QED
    BY <1>2, <1>3, <2>1, <2>2
<1>9. FileInv'
  BY <1>4, <1>5, <1>8 DEF Inv, FileInv, NoCall, disk
<1> QED
  BY <1>6, <1>7, <1>9 DEF Inv

LEMMA OpenFileStep ==
  ASSUME Inv, OpenFile
  PROVE  Inv'
<1> DEFINE free == {f \in Files : file[f].ref = 0}
           fds  == {d \in Fds : ofile[d] = NoFile}
<1>1. pc = "filealloc" /\ UNCHANGED disk
  BY DEF OpenFile
<1>2. CASE free = {} \/ fds = {}
  BY <1>1, <1>2, OpenFileFails DEF OpenFile, Return
<1>3. CASE ~(free = {} \/ fds = {})
  <2>1. Min(free) \in free /\ Min(fds) \in fds
    BY <1>3, FirstFree
  <2>2. /\ pc' = "user" /\ call' = NoCall /\ UNCHANGED icache
        /\ file' = [file EXCEPT ![Min(free)] =
             [ref |-> 1, ip |-> call.ino, off |-> 0,
              readable |-> call.mode # "wronly", writable |-> call.mode # "rdonly"]]
        /\ ofile' = [ofile EXCEPT ![Min(fds)] = Min(free)]
    BY <1>3 DEF OpenFile, Return
  <2> QED
    BY <1>1, <2>1, <2>2, OpenFileTakes
<1> QED
  BY <1>2, <1>3

-----------------------------------------------------------------------------
(* close, read, the ends of write and of creation                          *)

LEMMA CloseStep ==
  ASSUME NEW d \in Fds, Inv, Close(d)
  PROVE  Inv'
<1>1. pc = "user" /\ pc' = "user" /\ call' = NoCall /\ UNCHANGED disk
  BY DEF Close, Syscall, Return, fsrest
<1>2. CASE ~IsOpen(d)
  BY <1>1, <1>2, NothingDone DEF Close, fsrest
<1>3. CASE IsOpen(d)
  <2> DEFINE f == ofile[d]
             i == file[f].ip
  <2>1. /\ f \in Files /\ f # NoFile /\ DOMAIN file = Files /\ NoFile \notin Files
        /\ file[f].ref = 1 /\ i \in Inum
        /\ ofile \in [Fds -> Files \cup {NoFile}]
    <3>1. f \in Files /\ f # NoFile /\ file[f].ref > 0
      BY <1>1, <1>3 DEF IsOpen, Inv, FileTypes, FileInv
    <3> QED
      BY <1>1, <3>1, FileAssumption DEF FileAssumption, Inv, FileTypes, NoFile, Files
  <2>2. file' = [file EXCEPT ![f] = FreeFile] /\ ofile' = [ofile EXCEPT ![d] = NoFile] /\ Iput(i)
    BY <1>3, <2>1 DEF Close
  <2>3. /\ \A g \in Files : file'[g] = IF g = f THEN FreeFile ELSE file[g]
        /\ \A e \in Fds : ofile'[e] = IF e = d THEN NoFile ELSE ofile[e]
        /\ DOMAIN file' = Files /\ ofile' \in [Fds -> Files \cup {NoFile}]
    BY <2>1, <2>2
  <2>4. ref \in [Inum -> Nat] /\ ivalid \in [Inum -> BOOLEAN]
    BY <1>1 DEF Inv, CacheTypes
  <2>5. /\ ref' = [ref EXCEPT ![i] = @ - 1] /\ ivalid' = [ivalid EXCEPT ![i] = @ /\ ref[i] > 1]
        /\ inode' = inode
    BY <2>2 DEF Iput
  <2>6. \A j \in Inum : FilesOf(j)' = FilesOf(j) \ {f}
    BY <2>3 DEF FilesOf, FreeFile
  <2>7. Balanced' /\ ref' \in [Inum -> Nat] /\ ref[i] = Cardinality(FilesOf(i))
    <3>1. f \in FilesOf(i) /\ \A j \in Inum \ {i} : f \notin FilesOf(j)
      BY <2>1 DEF FilesOf
    <3>2. \A j \in Inum : ~Took(j) /\ ~Took(j)'
      BY <1>1 DEF Took, Calling, Growing
    <3> HIDE DEF f, i
    <3> QED
      BY <1>1, <2>1, <2>4, <2>5, <2>6, <3>1, <3>2, FileGives DEF Inv, FileInv
  <2>8. /\ ivalid' \in [Inum -> BOOLEAN]
        /\ \A j \in Inum : ivalid'[j] => ivalid[j] /\ ref'[j] > 0
    <3> HIDE DEF f, i
    <3>1. \A j \in Inum : ivalid[j] => ref[j] > 0
      BY <1>1 DEF Inv, FileInv
    <3>2. /\ ivalid'[i] => ivalid[i] /\ ref[i] > 1
          /\ ref'[i] = ref[i] - 1 /\ ref[i] \in Nat
      BY <2>1, <2>4, <2>5
    <3>3. \A j \in Inum \ {i} : ivalid'[j] = ivalid[j] /\ ref'[j] = ref[j]
      BY <2>1, <2>4, <2>5
    <3>4. ivalid' \in [Inum -> BOOLEAN]
      BY <2>1, <2>4, <2>5
    <3> QED
      BY <3>1, <3>2, <3>3, <3>4
  <2>9. DiskInv'
    BY <1>1, DiskRests DEF Growing
  <2>10. CacheTypes' /\ CacheInv' /\ WriteInv'
    BY <1>1, <2>5, <2>7, <2>8
       DEF Inv, CacheTypes, CacheInv, WriteInv, Growing, Calling, disk
  <2>11. FileTypes'
    <3>1. FreeFile \in [ref : {0, 1}, ip : Inum \cup {NoInum}, off : Nat,
                        readable : BOOLEAN, writable : BOOLEAN] /\ FreeFile.ref = 0
      BY DEF FreeFile
    <3> QED
      BY <1>1, <2>3, <3>1 DEF Inv, FileTypes
  <2>12. \A g \in Files \ {f} : file[g].ref > 0 => ivalid'[file[g].ip]
    <3> SUFFICES ASSUME NEW g \in Files \ {f}, file[g].ref > 0
                 PROVE  ivalid'[file[g].ip]
      OBVIOUS
    <3>1. file[g].ip \in Inum /\ ivalid[file[g].ip]
      BY <1>1 DEF Inv, FileTypes, FileInv
    <3>2. CASE file[g].ip = i
      <4>1. g \in FilesOf(i) \ {f} /\ f \in FilesOf(i)
        BY <2>1, <3>2 DEF FilesOf
      <4> HIDE DEF f, i
      <4>2. /\ IsFiniteSet(FilesOf(i)) /\ Cardinality(FilesOf(i)) \in Nat
            /\ IsFiniteSet(FilesOf(i) \ {f}) /\ Cardinality(FilesOf(i) \ {f}) \in Nat
            /\ Cardinality(FilesOf(i) \ {f}) = Cardinality(FilesOf(i)) - 1
        BY <2>1, <4>1, FilesFinite, FS_RemoveElement, FS_CardinalityType
      <4>3. Cardinality(FilesOf(i) \ {f}) # 0
        BY <4>1, <4>2, FS_EmptySet
      <4>4. ref[i] > 1
        BY <2>7, <4>2, <4>3
      <4> QED
        BY <2>1, <2>4, <2>5, <3>1, <3>2, <4>4
    <3>3. CASE file[g].ip # i
      BY <2>1, <2>4, <2>5, <3>1, <3>3
    <3> QED
      BY <3>2, <3>3
  <2>13. FileInv'
    <3>1. \A g \in Files : file[g].ref > 0 <=> \E e \in Fds : ofile[e] = g
      BY <1>1 DEF Inv, FileInv
    <3>2. \A e, h \in Fds : ofile[e] # NoFile /\ ofile[e] = ofile[h] => e = h
      BY <1>1 DEF Inv, FileInv
    <3>3. \A e, h \in Fds : ofile'[e] # NoFile /\ ofile'[e] = ofile'[h] => e = h
      BY <2>3, <3>2
    <3>4. \A g \in Files : file'[g].ref > 0 <=> \E e \in Fds : ofile'[e] = g
      <4> SUFFICES ASSUME NEW g \in Files
                   PROVE  file'[g].ref > 0 <=> \E e \in Fds : ofile'[e] = g
        OBVIOUS
      <4>1. CASE g = f
        <5>1. ~(file'[g].ref > 0)
          BY <2>3, <4>1 DEF FreeFile
        <5>2. \A e \in Fds : ofile'[e] # g
          BY <2>1, <2>3, <3>2, <4>1
        <5> QED
          BY <5>1, <5>2
      <4>2. CASE g # f
        <5>1. file'[g] = file[g]
          BY <2>3, <4>2
        <5>2. (\E e \in Fds : ofile'[e] = g) <=> \E e \in Fds : ofile[e] = g
          BY <2>1, <2>3, <4>2
        <5> QED
          BY <3>1, <5>1, <5>2
      <4> QED
        BY <4>1, <4>2
    <3>5. \A g \in Files : file'[g].ref > 0 => g # f /\ file'[g] = file[g]
      BY <2>3 DEF FreeFile
    <3>6. \A g \in Files : file'[g].ref > 0 =>
            /\ ivalid'[file'[g].ip] /\ dinode'[file'[g].ip].type # "free"
            /\ file'[g].writable => file'[g].ip # ROOTINO
            /\ file'[g].off <= dinode'[file'[g].ip].size
      <4> HIDE DEF f, i
      <4> QED
        BY <1>1, <2>12, <3>5 DEF Inv, FileInv, disk
    <3> QED
      BY <1>1, <2>7, <2>8, <3>3, <3>4, <3>6 DEF FileInv, NoCall
  <2> QED
    BY <2>9, <2>10, <2>11, <2>13 DEF Inv
<1> QED
  BY <1>2, <1>3

\* An offset moves, inside the file.
LEMMA FileMoves ==
  ASSUME NEW f \in Files, NEW m \in Nat, Inv,
         pc = "user" \/ (pc = "writei_ret" /\ call.op = "write"), pc' = "user", call' = NoCall,
         file[f].ref > 0, file[f].off + m <= dinode[file[f].ip].size,
         file' = [file EXCEPT ![f].off = @ + m], UNCHANGED <<disk, icache, ofile>>
  PROVE  Inv'
<1>1. DOMAIN file = Files /\ FileTypes /\ FileInv /\ CacheInv /\ CacheTypes /\ WriteInv
  BY DEF Inv, FileTypes
<1>2. /\ \A g \in Files : /\ file'[g].ref = file[g].ref /\ file'[g].ip = file[g].ip
                          /\ file'[g].writable = file[g].writable
                          /\ file'[g].readable = file[g].readable
                          /\ file'[g].off = IF g = f THEN file[f].off + m ELSE file[g].off
                          /\ file'[g] \in [ref : {0, 1}, ip : Inum \cup {NoInum}, off : Nat,
                                           readable : BOOLEAN, writable : BOOLEAN]
      /\ DOMAIN file' = Files
  <2> SUFFICES ASSUME NEW g \in Files
               PROVE  /\ file'[g].ref = file[g].ref /\ file'[g].ip = file[g].ip
                      /\ file'[g].writable = file[g].writable
                      /\ file'[g].readable = file[g].readable
                      /\ file'[g].off = IF g = f THEN file[f].off + m ELSE file[g].off
                      /\ file'[g] \in [ref : {0, 1}, ip : Inum \cup {NoInum}, off : Nat,
                                       readable : BOOLEAN, writable : BOOLEAN]
    BY <1>1
  <2>1. file[g] \in [ref : {0, 1}, ip : Inum \cup {NoInum}, off : Nat,
                     readable : BOOLEAN, writable : BOOLEAN]
    BY <1>1 DEF FileTypes
  <2>2. CASE g = f
    <3>1. file'[g] = [file[g] EXCEPT !.off = @ + m]
      BY <1>1, <2>2
    <3> QED
      BY <2>1, <2>2, <3>1
  <2>3. CASE g # f
    BY <1>1, <2>1, <2>3
  <2> QED
    BY <2>2, <2>3
<1>3. DiskInv'
  BY DiskRests DEF Growing
<1>4. CacheTypes' /\ CacheInv' /\ WriteInv'
  BY <1>1 DEF CacheTypes, CacheInv, WriteInv, Growing, Calling, disk, icache
<1>5. FileTypes'
  <2>1. \A g \in Files : file'[g].ref > 0 => file'[g].ip \in Inum
    BY <1>1, <1>2 DEF FileTypes
  <2> QED
    BY <1>1, <1>2, <2>1 DEF FileTypes
<1>6. Balanced'
  <2>1. \A j \in Inum : FilesOf(j)' = FilesOf(j)
    BY <1>2 DEF FilesOf
  <2>2. \A j \in Inum : ~Took(j) /\ ~Took(j)'
    BY DEF Took, Calling, Growing
  <2> QED
    BY <1>1, <2>1, <2>2, CallKeeps DEF FileInv, icache
<1>7. FileInv'
  <2>1. \A g \in Files : file'[g].ref > 0 =>
          /\ ivalid[file'[g].ip] /\ dinode[file'[g].ip].type # "free"
          /\ file'[g].writable => file'[g].ip # ROOTINO
          /\ file'[g].off <= dinode[file'[g].ip].size
    BY <1>1, <1>2 DEF FileInv
  <2>2. \A g \in Files : file'[g].ref > 0 <=> \E d \in Fds : ofile[d] = g
    BY <1>1, <1>2 DEF FileInv
  <2> QED
    BY <1>1, <1>6, <2>1, <2>2 DEF FileInv, NoCall, disk, icache
<1> QED
  BY <1>3, <1>4, <1>5, <1>7 DEF Inv

LEMMA LenOf ==
  ASSUME NEW m \in Nat, NEW s, s = [k \in 1 .. m |-> s[k]]
  PROVE  Len(s) = m
  OBVIOUS

LEMMA ReadStep ==
  ASSUME NEW d \in Fds, NEW n \in Nat, Inv, Read(d, n)
  PROVE  Inv'
<1>1. pc = "user" /\ UNCHANGED <<disk, icache, ofile>>
  BY DEF Read, Syscall, fsrest, icache, disk
<1>2. CASE ~(IsOpen(d) /\ file[ofile[d]].readable)
  BY <1>1, <1>2, NothingDone DEF Read, Return
<1>3. CASE IsOpen(d) /\ file[ofile[d]].readable
  <2> DEFINE f == ofile[d]
             i == file[f].ip
             got == Readi(inode[i], file[f].off, n)
             left == dinode[i].size - file[f].off
             m == IF n <= left THEN n ELSE left
  <2>1. f \in Files /\ f # NoFile /\ file[f].ref > 0
    BY <1>1, <1>3 DEF IsOpen, Inv, FileTypes, FileInv
  <2>2. i \in Inum /\ ivalid[i] /\ file[f].off \in Nat /\ file[f].off <= dinode[i].size
    BY <1>1, <2>1 DEF Inv, FileTypes, FileInv
  <2>3. inode[i] = dinode[i] /\ dinode[i].size \in 0 .. MAXFILE
    BY <1>1, <2>2 DEF Inv, CacheInv, Growing, DiskInv, DiskTypes, Dinode
  <2>4. m \in Nat /\ file[f].off + m <= dinode[i].size
    BY <2>2, <2>3, MaxFileNat
  <2>5. Len(got) = m
    <3>1. got = [k \in 1 .. m |-> got[k]]
      <4>1. Min({n, inode[i].size - file[f].off}) = m
        BY <2>2, <2>3, MinPair, MaxFileNat
      <4> QED
        BY <4>1 DEF Readi
    <3> HIDE DEF got, m
    <3> QED
      BY <2>4, <3>1, LenOf
  <2>6. /\ file' = [file EXCEPT ![f].off = @ + Len(got)] /\ pc' = "user" /\ call' = NoCall
    BY <1>3 DEF Read
  <2> HIDE DEF f, i, left, got, m
  <2>7. /\ file' = [file EXCEPT ![f].off = @ + m]
        /\ file[f].off + m <= dinode[file[f].ip].size
        /\ m \in Nat /\ pc' = "user" /\ call' = NoCall
    BY <2>4, <2>5, <2>6 DEF i
  <2> QED
    BY <1>1, <2>1, <2>7, FileMoves
<1> QED
  BY <1>2, <1>3

LEMMA WriteReturnStep ==
  ASSUME Inv, WriteReturn
  PROVE  Inv'
<1> DEFINE f == ofile[call.fd]
<1>1. /\ pc = "writei_ret" /\ call.op = "write" /\ pc' = "user" /\ call' = NoCall
      /\ UNCHANGED <<disk, icache, ofile>> /\ file' = [file EXCEPT ![f].off = @ + w.n]
  BY DEF WriteReturn, Return
<1>2. /\ f \in Files /\ file[f].ref = 1 /\ file[f].ip = w.ino /\ file[f].off = w.off
      /\ w.n \in Nat /\ w.off + w.n <= dinode[w.ino].size
  BY <1>1 DEF Inv, WriteInv, Calling
<1> DEFINE m == w.n
<1>3. /\ m \in Nat /\ file[f].ref > 0 /\ file[f].off + m <= dinode[file[f].ip].size
      /\ file' = [file EXCEPT ![f].off = @ + m]
  BY <1>1, <1>2
<1> HIDE DEF f, m
<1> QED
  BY <1>1, <1>2, <1>3, FileMoves

\* The directory is given back, the inode it names has been loaded.
LEMMA OpenCreatedStep ==
  ASSUME Inv, OpenCreated
  PROVE  Inv'
<1> DEFINE i == call.ino
<1>1. /\ pc = "writei_ret" /\ call.op = "open" /\ pc' = "filealloc"
      /\ UNCHANGED <<disk, file, ofile, call>>
      /\ ref' = [ref EXCEPT ![w.ino] = @ - 1]
      /\ ivalid' = [ivalid EXCEPT ![w.ino] = @ /\ ref[w.ino] > 1, ![i] = TRUE]
      /\ inode' = [inode EXCEPT ![i] = Loaded(i)]
  BY DEF OpenCreated
<1>2. CacheTypes /\ CacheInv /\ WriteInv /\ FileTypes /\ FileInv
  BY <1>1 DEF Inv
<1>3. /\ w.ino = ROOTINO /\ i \in Inum /\ i # ROOTINO /\ dinode[i].type = "file"
      /\ call.mode \in Modes
  BY <1>1, <1>2 DEF WriteInv, Calling, Dirents
<1>4. Loaded(i) = dinode[i] /\ dinode[i] \in Dinode
  BY <1>1, <1>3, LoadedIsDisk
<1>5. ref \in [Inum -> Nat] /\ ivalid \in [Inum -> BOOLEAN] /\ inode \in [Inum -> Dinode]
  BY <1>2 DEF CacheTypes
<1>6. DiskInv'
  BY <1>1, DiskRests DEF Growing
<1>7. /\ Balanced' /\ ref' \in [Inum -> Nat]
      /\ ref[ROOTINO] = Cardinality(FilesOf(ROOTINO)) + 1
  <2>1. \A j \in Inum : FilesOf(j)' = FilesOf(j)
    BY <1>1 DEF FilesOf
  <2>2. \A j \in Inum : (Took(j) <=> j \in {ROOTINO, i}) /\ (Took(j)' <=> j = i)
    BY <1>1, <1>3 DEF Took, Calling, Growing
  <2> QED
    BY <1>1, <1>2, <1>3, <1>5, <2>1, <2>2, CallGives, Constants DEF FileInv
<1>8. /\ ivalid' \in [Inum -> BOOLEAN] /\ ivalid'[i] = TRUE
      /\ ivalid'[ROOTINO] => ivalid[ROOTINO] /\ ref[ROOTINO] > 1
      /\ ivalid[ROOTINO] /\ ref[ROOTINO] > 1 => ivalid'[ROOTINO]
      /\ \A j \in Inum \ {ROOTINO, i} : ivalid'[j] = ivalid[j]
      /\ \A j \in Inum : inode'[j] = IF j = i THEN dinode[i] ELSE inode[j]
      /\ inode' \in [Inum -> Dinode]
      /\ \A j \in Inum : ref'[j] = IF j = ROOTINO THEN ref[j] - 1 ELSE ref[j]
  <2> HIDE DEF i
  <2> QED
    BY <1>1, <1>3, <1>4, <1>5, Constants
<1>9. CacheTypes'
  BY <1>1, <1>7, <1>8 DEF CacheTypes
<1>10. CacheInv'
  BY <1>1, <1>2, <1>8 DEF CacheInv, Growing, disk
<1>11. WriteInv' /\ FileTypes'
  BY <1>1, <1>2 DEF WriteInv, FileTypes, Growing, Calling
<1>12. \A f \in Files : file[f].ref > 0 => ivalid'[file[f].ip]
  <2> SUFFICES ASSUME NEW f \in Files, file[f].ref > 0
               PROVE  ivalid'[file[f].ip]
    OBVIOUS
  <2>1. file[f].ip \in Inum /\ ivalid[file[f].ip]
    BY <1>2 DEF FileTypes, FileInv
  <2>2. CASE file[f].ip = ROOTINO
    <3>1. Cardinality(FilesOf(ROOTINO)) >= 1 /\ Cardinality(FilesOf(ROOTINO)) \in Nat
      BY <2>2, Constants, FilesCounted, FilesFinite DEF FilesOf
    <3> QED
      BY <1>7, <1>8, <2>1, <2>2, <3>1
  <2> QED
    BY <1>8, <2>1, <2>2
<1>13. \A j \in Inum : ivalid'[j] => ref'[j] > 0
  <2> SUFFICES ASSUME NEW j \in Inum, ivalid'[j]
               PROVE  ref'[j] > 0
    OBVIOUS
  <2>1. CASE j = i
    <3>1. Took(i)' /\ ref'[i] = Cardinality(FilesOf(i)') + IF Took(i)' THEN 1 ELSE 0
      BY <1>1, <1>3, <1>7 DEF Took, Balanced
    <3>2. Cardinality(FilesOf(i)') \in Nat
      BY <1>1, <1>3, FilesFinite DEF FilesOf
    <3> QED
      BY <2>1, <3>1, <3>2
  <2>2. CASE j # i
    BY <1>2, <1>5, <1>8, <2>2 DEF FileInv
  <2> QED
    BY <2>1, <2>2
<1>14. FileInv'
  <2>1. /\ \A d, e \in Fds : ofile[d] # NoFile /\ ofile[d] = ofile[e] => d = e
        /\ \A f \in Files : file[f].ref > 0 <=> \E d \in Fds : ofile[d] = f
        /\ \A f \in Files : file[f].ref > 0 =>
             /\ dinode[file[f].ip].type # "free"
             /\ file[f].writable => file[f].ip # ROOTINO
             /\ file[f].off <= dinode[file[f].ip].size
    BY <1>2 DEF FileInv
  <2> QED
    BY <1>1, <1>3, <1>7, <1>8, <1>12, <1>13, <2>1 DEF FileInv, disk
<1> QED
  BY <1>6, <1>9, <1>10, <1>11, <1>14 DEF Inv

LEMMA PowerFailsStep ==
  ASSUME Inv, PowerFails
  PROVE  Inv'
<1>1. /\ ref' = [i \in Inum |-> 0] /\ ivalid' = [i \in Inum |-> FALSE]
      /\ inode' = [i \in Inum |-> FreeDinode] /\ pc' = "user" /\ call' = NoCall
      /\ file' = [f \in Files |-> FreeFile] /\ ofile' = [d \in Fds |-> NoFile]
      /\ UNCHANGED disk
  BY DEF PowerFails, Return
<1>2. DiskInv'
  BY <1>1, DiskRests DEF Growing
<1>3. CacheTypes' /\ CacheInv' /\ WriteInv'
  BY <1>1, FreeDinodeType DEF CacheTypes, CacheInv, WriteInv, Calling, Growing
<1>4. FileTypes'
  BY <1>1 DEF FileTypes, FreeFile
<1>5. FileInv'
  <2>1. \A i \in Inum : FilesOf(i)' = {} /\ ~Took(i)'
    BY <1>1 DEF FilesOf, FreeFile, Took, Calling, Growing
  <2>2. \A d \in Fds, f \in Files : ofile'[d] # f
    BY <1>1, FileAssumption DEF FileAssumption, Files, NoFile
  <2>3. Balanced'
    <3> SUFFICES ASSUME NEW i \in Inum
                 PROVE  ref'[i] = Cardinality(FilesOf(i)') + IF Took(i)' THEN 1 ELSE 0
      BY DEF Balanced
    <3>1. ref'[i] = 0 /\ Cardinality(FilesOf(i)') = 0 /\ (IF Took(i)' THEN 1 ELSE 0) = 0
      BY <1>1, <2>1, FS_EmptySet
    <3> QED
      BY <3>1
  <2>4. \A f \in Files : file'[f].ref = 0
    BY <1>1 DEF FreeFile
  <2> QED
    BY <1>1, <2>2, <2>3, <2>4 DEF FileInv, NoFile, NoCall
<1> QED
  BY <1>2, <1>3, <1>4, <1>5 DEF Inv

-----------------------------------------------------------------------------
(* Calls that start writei                                                 *)

LEMMA WriteStep ==
  ASSUME NEW d \in Fds, NEW v \in Values, NEW n \in Nat, Inv, Write(d, v, n)
  PROVE  Inv'
<1> DEFINE f == ofile[d]
           i == file[f].ip
<1>1. pc = "user" /\ UNCHANGED <<file, ofile>>
  BY DEF Write, Syscall
<1>2. CASE (d = 1 /\ ~IsOpen(1)) \/ ~(IsOpen(d) /\ file[f].writable)
           \/ WriteiFails(i, file[f].off, n)
  BY <1>1, <1>2, NothingDone DEF Write, Return, fsrest
<1>3. CASE ~((d = 1 /\ ~IsOpen(1)) \/ ~(IsOpen(d) /\ file[f].writable)
             \/ WriteiFails(i, file[f].off, n))
  <2>1. /\ w' = [ino |-> i, src |-> v, off |-> file[f].off, n |-> n, tot |-> 0]
        /\ call' = [op |-> "write", fd |-> d, ino |-> i, mode |-> "none"]
        /\ pc' = "writei" /\ UNCHANGED <<disk, icache>>
    BY <1>3 DEF Write, WriteiCall
  <2>2. CacheTypes /\ CacheInv /\ FileTypes /\ FileInv
    BY <1>1 DEF Inv
  <2>3. f \in Files /\ file[f].ref = 1 /\ i \in Inum /\ file[f].off \in Nat
    <3>1. f \in Files /\ file[f].ref > 0 /\ f # NoFile
      BY <1>3, <2>2 DEF IsOpen, FileTypes, FileInv
    <3> QED
      BY <2>2, <3>1 DEF FileTypes
  <2>4. ivalid[i] /\ i # ROOTINO
    BY <1>3, <2>2, <2>3 DEF FileInv
  <2>5. inode[i] = dinode[i] /\ dinode[i] \in Dinode
    BY <1>1, <2>2, <2>3, <2>4 DEF CacheInv, Growing, Inv, DiskInv, DiskTypes
  <2>6. file[f].off <= dinode[i].size /\ file[f].off + n <= MAXFILE
    <3>1. ~(file[f].off > dinode[i].size \/ file[f].off + n > MAXFILE)
      BY <1>3, <2>5 DEF WriteiFails
    <3>2. dinode[i].size \in Nat
      BY <2>5, MaxFileNat DEF Dinode
    <3> QED
      BY <2>3, <3>1, <3>2, MaxFileNat
  <2>7. InUse' = OnDisk
    <3> SUFFICES ASSUME NEW j \in Inum PROVE InUse'[j] = OnDisk[j]
      BY DEF InUse, OnDisk
    <3>1. w'.ino = i /\ dinode' = dinode /\ block' = block /\ inode' = inode
      BY <2>1 DEF disk, icache
    <3>2. CASE j = i
      <4>1. InUse'[j] = NumbersOf(block, inode[i].addrs)
        BY <2>1, <3>1, <3>2, NumbersInUse DEF Growing
      <4> QED
        BY <2>5, <3>2, <4>1, NumbersOnDisk
    <3>3. CASE j # i
      BY <3>1, <3>3, NumbersInUse, NumbersOnDisk
    <3> QED
      BY <3>2, <3>3
  <2>8. DiskInv'
    BY <2>1, <2>7, DiskKept
  <2> HIDE DEF f, i
  <2>9. /\ w'.ino = i /\ w'.src = v /\ w'.off = file[f].off /\ w'.n = n /\ w'.tot = 0
        /\ call'.op = "write" /\ call'.fd = d /\ call'.ino = i
    BY <2>1
  <2>10. CacheTypes' /\ CacheInv'
    BY <1>1, <2>1, <2>2, <2>5, <2>9 DEF CacheTypes, CacheInv, Growing, Ahead, disk, icache
  <2>11. WriteInv'
    <3>1. \A k \in Nat : ~(w'.off <= k /\ k < w'.off + w'.tot)
      BY <2>3, <2>9
    <3>2. w' \in [ino : Inum, src : Cells, off : Nat, n : Nat, tot : Nat]
      BY <2>1, <2>3 DEF Cells
    <3> QED
      BY <1>1, <2>1, <2>3, <2>4, <2>6, <2>9, <3>1, <3>2 DEF WriteInv, Calling, Growing, disk, icache, f, i
  <2>12. FileTypes'
    BY <1>1, <2>2 DEF FileTypes
  <2>13. FileInv'
    <3>1. \A j \in Inum : FilesOf(j)' = FilesOf(j) /\ ~Took(j) /\ ~Took(j)'
      BY <1>1, <2>1, <2>9 DEF FilesOf, Took, Calling, Growing
    <3>2. Balanced'
      BY <2>1, <2>2, <3>1, CallKeeps DEF FileInv, icache
    <3> QED
      BY <1>1, <2>1, <2>2, <3>2 DEF FileInv, disk, icache
  <2> QED
    BY <2>8, <2>10, <2>11, <2>12, <2>13 DEF Inv
<1> QED
  BY <1>2, <1>3

\* A new inode refers to no block.
LEMMA NewInode ==
  ASSUME NEW new \in Inum, Inv, pc = "user", dinode[new].type = "free",
         dinode' = [dinode EXCEPT ![new] = [FreeDinode EXCEPT !.type = "file"]],
         UNCHANGED <<bitmap, block>>,
         Growing' => inode'[w'.ino] = dinode'[w'.ino] /\ w'.ino \in Inum
  PROVE  /\ DiskInv' /\ InUse' = OnDisk'
         /\ \A j \in Inum \ {new} : dinode'[j] = dinode[j] /\ OnDisk'[j] = OnDisk[j]
         /\ dinode'[new].type = "file" /\ dinode'[new].size = 0
         /\ \A k : Entry(k)' = Entry(k)
<1> DEFINE newd == [FreeDinode EXCEPT !.type = "file"]
<1>1. newd \in Dinode /\ newd.type = "file" /\ newd.size = 0 /\ newd.addrs = NoAddrs
  BY FreeDinodeType DEF FreeDinode, Dinode
<1>2. dinode \in [Inum -> Dinode] /\ new # ROOTINO
  BY Constants DEF Inv, DiskInv, DiskTypes
<1> HIDE DEF newd
<1>3. /\ \A j \in Inum : dinode'[j] = IF j = new THEN newd ELSE dinode[j]
      /\ dinode' \in [Inum -> Dinode]
  BY <1>1, <1>2 DEF newd
<1>4. \A j \in Inum \ {new} : dinode'[j] = dinode[j] /\ OnDisk'[j] = OnDisk[j]
  BY <1>3, NumbersOnDisk
<1>5. \A a \in Place : OnDisk'[new][a] = Zero
  <2>1. OnDisk'[new] = NumbersOf(block, NoAddrs)
    BY <1>1, <1>3, NumbersOnDisk
  <2> QED
    BY <2>1, NoNumbers
<1>6. InUse' = OnDisk'
  <2> SUFFICES ASSUME NEW j \in Inum PROVE InUse'[j] = OnDisk'[j]
    BY DEF InUse, OnDisk
  <2>1. CASE Growing' /\ j = w'.ino
    <3>1. InUse'[j] = NumbersOf(block', inode'[j].addrs) /\ inode'[j] = dinode'[j]
      BY <2>1, NumbersInUse
    <3> QED
      BY <3>1, NumbersOnDisk
  <2>2. CASE ~(Growing' /\ j = w'.ino)
    BY <2>2, NumbersInUse
  <2> QED
    BY <2>1, <2>2
<1>7. Once(OnDisk', bitmap)
  BY <1>4, <1>5, OnceOnDisk, OnceLess
<1>8. \A k : Entry(k)' = Entry(k)
  BY <1>2, <1>4, Constants DEF Entry
<1>9. DiskTypes'
  BY <1>1, <1>2, <1>3 DEF Inv, DiskInv, DiskTypes
<1>10. Covered(OnDisk', dinode')
  <2> SUFFICES ASSUME NEW j \in Inum, NEW k \in Nat, k < dinode'[j].size
               PROVE  OnDisk'[j][PlaceOf(k \div PB)] # Zero
    BY DEF Covered
  <2>1. dinode'[new].size = 0
    BY <1>1, <1>3
  <2>2. j # new
    BY <2>1
  <2> QED
    BY <1>4, <2>2 DEF Inv, DiskInv, Covered
<1>11. Entries'
  <2>1. dinode'[ROOTINO] = dinode[ROOTINO]
    BY <1>2, <1>4, Constants
  <2>2. \A j \in Inum : dinode[j].type # "free" => dinode'[j].type # "free"
    BY <1>1, <1>3
  <2>3. Entries
    BY DEF Inv, DiskInv
  <2>4. \A k \in Nat : k < dinode[ROOTINO].size =>
          Entry(k) \in Dirents /\ Entry(k).inum \in Inum /\ dinode'[Entry(k).inum].type # "free"
    BY <2>2, <2>3 DEF Entries, Dirents
  <2> QED
    BY <1>8, <2>1, <2>3, <2>4 DEF Entries
<1> QED
  BY <1>1, <1>3, <1>4, <1>6, <1>7, <1>8, <1>9, <1>10, <1>11 DEF DiskInv

\* The directory and the new inode are taken at once.
LEMMA CallTakesTwo ==
  ASSUME NEW i \in Inum, NEW new \in Inum, i # new, ref \in [Inum -> Nat], Balanced,
         FilesOf(new) = {}, \A j \in Inum : FilesOf(j)' = FilesOf(j),
         \A j \in Inum : ~Took(j), \A j \in Inum : Took(j)' <=> j \in {i, new},
         ref' = [ref EXCEPT ![i] = @ + 1, ![new] = 1]
  PROVE  Balanced' /\ ref' \in [Inum -> Nat] /\ ref'[i] > 0 /\ ref[new] = 0
<1>1. \A j \in Inum : ref[j] = Cardinality(FilesOf(j)) /\ Cardinality(FilesOf(j)) \in Nat
  <2> SUFFICES ASSUME NEW j \in Inum
               PROVE  ref[j] = Cardinality(FilesOf(j)) /\ Cardinality(FilesOf(j)) \in Nat
    OBVIOUS
  <2>1. (IF Took(j) THEN 1 ELSE 0) = 0 /\ ref[j] = Cardinality(FilesOf(j)) + IF Took(j) THEN 1 ELSE 0
    BY DEF Balanced
  <2> QED
    BY <2>1, FilesFinite
<1>2. /\ \A j \in Inum \ {i, new} : ref'[j] = ref[j]
      /\ ref'[i] = ref[i] + 1 /\ ref'[new] = 1 /\ ref' \in [Inum -> Nat]
  OBVIOUS
<1>3. Cardinality(FilesOf(new)) = 0
  BY FS_EmptySet
<1>4. ASSUME NEW j \in Inum
      PROVE  ref'[j] = Cardinality(FilesOf(j)') + IF Took(j)' THEN 1 ELSE 0
  <2>1. CASE j \in {i, new}
    <3>1. (IF Took(j)' THEN 1 ELSE 0) = 1
      BY <2>1
    <3> QED
      BY <1>1, <1>2, <1>3, <2>1, <3>1
  <2>2. CASE j \notin {i, new}
    <3>1. (IF Took(j)' THEN 1 ELSE 0) = 0
      BY <2>2
    <3> QED
      BY <1>1, <1>2, <2>2, <3>1
  <2> QED
    BY <2>1, <2>2
<1> QED
  BY <1>1, <1>2, <1>3, <1>4 DEF Balanced

LEMMA OpenCreateNewStep ==
  ASSUME NEW path \in Paths, NEW mode \in Modes, Inv, OpenCreateNew(path, mode)
  PROVE  Inv'
<1> DEFINE dp   == Nameiparent(path)
           free == {i \in Inum : dinode[i].type = "free"}
           new  == Min(free)
<1>1. /\ pc = "user" /\ UNCHANGED <<file, ofile>>
      /\ dp # NoInum /\ Dirlookup(Loaded(dp), Last(path)) = NoInum
  BY DEF OpenCreateNew, Syscall
<1>2. CASE free = {} \/ ~NamexFits(path)
  BY <1>1, <1>2, PanicStep DEF OpenCreateNew, Panic
<1>3. CASE ~(free = {} \/ ~NamexFits(path))
  <2>1. dp = ROOTINO /\ Loaded(dp) = dinode[ROOTINO] /\ Last(path) \in Names \cup {".", ".."}
    BY <1>1, PathNamed, LoadedIsDisk, Constants
  <2>2. new \in free
    BY <1>3, LeastOf, Constants
  <2>3. /\ dinode' = [dinode EXCEPT ![new] = [FreeDinode EXCEPT !.type = "file"]]
        /\ inode' = [inode EXCEPT ![ROOTINO] = dinode[ROOTINO]]
        /\ ivalid' = [ivalid EXCEPT ![ROOTINO] = TRUE, ![new] = FALSE]
        /\ ref' = [ref EXCEPT ![ROOTINO] = @ + 1, ![new] = 1]
        /\ w' = [ino |-> ROOTINO, src |-> Dirent(new, Last(path)),
                 off |-> dinode[ROOTINO].size, n |-> 1, tot |-> 0]
        /\ call' = [op |-> "open", fd |-> -1, ino |-> new, mode |-> mode]
        /\ pc' = IF SlotsFor({ROOTINO, new}) /\ dinode[ROOTINO].size < MAXFILE
                   THEN "writei" ELSE "panic"
        /\ UNCHANGED <<bitmap, block>>
    BY <1>3, <2>1 DEF OpenCreateNew
  <2>4. CacheTypes /\ CacheInv /\ FileTypes /\ FileInv
    BY <1>1 DEF Inv
  <2>5. new \in Inum /\ dinode[new].type = "free" /\ new # ROOTINO
    BY <2>2, Constants DEF Inv, DiskInv, DiskTypes
  <2> HIDE DEF new, free, dp
  <2>6. /\ ref \in [Inum -> Nat] /\ ivalid \in [Inum -> BOOLEAN] /\ inode \in [Inum -> Dinode]
        /\ dinode \in [Inum -> Dinode]
    BY <2>4 DEF CacheTypes, Inv, DiskInv, DiskTypes
  <2>7. /\ \A j \in Inum : inode'[j] = IF j = ROOTINO THEN dinode[ROOTINO] ELSE inode[j]
        /\ \A j \in Inum \ {ROOTINO, new} : ivalid'[j] = ivalid[j]
        /\ ivalid'[ROOTINO] = TRUE /\ ivalid'[new] = FALSE
        /\ inode' \in [Inum -> Dinode] /\ ivalid' \in [Inum -> BOOLEAN]
    BY <2>3, <2>5, <2>6, Constants
  <2>8. dinode'[ROOTINO] = dinode[ROOTINO]
    BY <2>3, <2>5, <2>6, Constants
  <2>9. /\ w'.ino = ROOTINO /\ w'.src = Dirent(new, Last(path)) /\ w'.off = dinode[ROOTINO].size
        /\ w'.n = 1 /\ w'.tot = 0
        /\ call'.op = "open" /\ call'.ino = new /\ call'.mode = mode
    BY <2>3
  <2>10. Growing' => inode'[w'.ino] = dinode'[w'.ino] /\ w'.ino \in Inum
    BY <2>7, <2>8, <2>9, Constants
  <2>11. /\ DiskInv' /\ InUse' = OnDisk'
         /\ \A j \in Inum \ {new} : dinode'[j] = dinode[j] /\ OnDisk'[j] = OnDisk[j]
         /\ dinode'[new].type = "file" /\ dinode'[new].size = 0
         /\ \A k : Entry(k)' = Entry(k)
    BY <1>1, <2>3, <2>5, <2>10, NewInode
  <2>12. CASE pc' = "panic"
    BY <2>11, <2>12 DEF Inv
  <2>13. CASE pc' = "writei"
    <3>1. /\ \A j \in Inum : FilesOf(j)' = FilesOf(j) /\ ~Took(j)
          /\ \A j \in Inum : Took(j)' <=> j \in {ROOTINO, new}
      <4>1. /\ \A j \in Inum : FilesOf(j)' = FilesOf(j)
            /\ pc # "filealloc" /\ ~Calling
        BY <1>1 DEF FilesOf, Calling, Growing
      <4>2. Calling' /\ pc' # "filealloc"
        BY <2>13 DEF Calling, Growing
      <4> QED
        BY <2>9, <4>1, <4>2 DEF Took
    <3>2. FilesOf(new) = {}
      BY <2>4, <2>5 DEF FilesOf, FileInv
    <3>3. Balanced' /\ ref' \in [Inum -> Nat] /\ ref'[ROOTINO] > 0 /\ ref[new] = 0
      BY <2>3, <2>4, <2>5, <2>6, <3>1, <3>2, CallTakesTwo, Constants DEF FileInv
    <3>4. CacheTypes'
      BY <2>7, <2>13, <3>3 DEF CacheTypes
    <3>5. CacheInv'
      <4> SUFFICES ASSUME NEW j \in Inum, ivalid'[j]
                   PROVE  IF Growing' /\ j = w'.ino
                            THEN /\ Ahead(dinode'[j], inode'[j])
                                 /\ inode'[j] # dinode'[j] => w'.off + w'.n > dinode'[j].size
                            ELSE inode'[j] = dinode'[j]
        BY DEF CacheInv
      <4>1. CASE j = ROOTINO
        <5>1. inode'[j] = dinode'[j] /\ Ahead(dinode'[j], inode'[j])
          BY <2>7, <2>8, <4>1 DEF Ahead
        <5> QED
          BY <5>1
      <4>2. CASE j # ROOTINO
        <5>1. j # new /\ ivalid[j] /\ inode'[j] = inode[j] /\ dinode'[j] = dinode[j]
          BY <2>7, <2>11, <4>2
        <5>2. inode[j] = dinode[j]
          BY <1>1, <2>4, <5>1 DEF CacheInv, Growing
        <5> QED
          BY <2>9, <4>2, <5>1, <5>2
      <4> QED
        BY <4>1, <4>2
    <3>6. WriteInv'
      <4>1. dinode[ROOTINO].size \in Nat /\ dinode[ROOTINO].size < MAXFILE
        BY <2>3, <2>6, <2>13, Constants, MaxFileNat DEF Dinode
      <4>2. /\ w'.off \in Nat /\ w'.n \in Nat /\ w'.tot \in 0 .. w'.n /\ w'.off + w'.n <= MAXFILE
            /\ \A k \in Nat : ~(w'.off <= k /\ k < w'.off + w'.tot)
        BY <2>9, <4>1, MaxFileNat
      <4>3. w'.src \in Dirents /\ w'.src.inum = call'.ino /\ w'.src.name = Last(path)
        BY <2>1, <2>5, <2>9 DEF Dirent, Dirents
      <4>4. \A k \in Nat : k < dinode[ROOTINO].size =>
              Entry(k).name # Last(path) /\ Entry(k).inum # new
        <5>1. \A k \in Nat : k < dinode[ROOTINO].size => Entry(k).name # Last(path)
          BY <1>1, <2>1, DirlookupNamed
        <5>2. \A k \in Nat : k < dinode[ROOTINO].size => dinode[Entry(k).inum].type # "free"
          BY DEF Inv, DiskInv, Entries
        <5> QED
          BY <2>5, <5>1, <5>2
      <4>5. \A k \in Nat : k < w'.off =>
              Entry(k)'.name # w'.src.name /\ Entry(k)'.inum # w'.src.inum
        BY <2>9, <2>11, <4>3, <4>4
      <4>6. w'.off <= dinode'[w'.ino].size /\ w'.off = dinode'[ROOTINO].size
        BY <2>8, <2>9, <4>1
      <4>7. w' \in [ino : Inum, src : Cells, off : Nat, n : Nat, tot : Nat]
        BY <2>3, <2>9, <4>1, <4>3, Constants DEF Cells
      <4> QED
        BY <2>5, <2>7, <2>9, <2>11, <2>13, <4>2, <4>3, <4>5, <4>6, <4>7, Constants
           DEF WriteInv, Calling, Growing
    <3>7. FileTypes'
      BY <1>1, <2>4 DEF FileTypes
    <3>8. FileInv'
      <4>1. \A f \in Files : file[f].ref > 0 => file[f].ip \in Inum \ {new}
        BY <2>4, <2>5 DEF FileTypes, FileInv
      <4>2. \A f \in Files : file[f].ref > 0 =>
              /\ ivalid'[file[f].ip] /\ dinode'[file[f].ip].type # "free"
              /\ file[f].writable => file[f].ip # ROOTINO
              /\ file[f].off <= dinode'[file[f].ip].size
        BY <2>4, <2>7, <2>11, <4>1 DEF FileInv
      <4>3. \A j \in Inum : ivalid'[j] => ref'[j] > 0
        <5>1. \A j \in Inum \ {ROOTINO, new} : ref'[j] = ref[j]
          BY <2>3, <2>5, <2>6, Constants
        <5> QED
          BY <2>4, <2>7, <3>3, <5>1 DEF FileInv
      <4> QED
        BY <1>1, <2>4, <2>13, <3>3, <4>2, <4>3 DEF FileInv
    <3> QED
      BY <2>11, <3>4, <3>5, <3>6, <3>7, <3>8 DEF Inv
  <2> QED
    BY <2>3, <2>12, <2>13
<1> QED
  BY <1>2, <1>3

-----------------------------------------------------------------------------
(* writei                                                                  *)

\* The cell writei is at.
LEMMA GrowsAt ==
  ASSUME Inv, Growing, w.tot < w.n
  PROVE  /\ At \in Nat /\ At < MAXFILE /\ w.off <= At /\ At < w.off + w.n
         /\ At \div PB \in 0 .. NDIRECT + PB - 1 /\ PlaceOf(At \div PB) \in Place \ {NDIRECT}
         /\ Bmap(Ip, At \div PB) = InUse[w.ino][PlaceOf(At \div PB)]
         /\ Missing # "none" => /\ InUse[w.ino][PlaceOf(At \div PB)] = Zero
                                /\ At >= dinode[w.ino].size
<1>1. /\ w.ino \in Inum /\ w.off \in Nat /\ w.n \in Nat /\ w.tot \in 0 .. w.n
      /\ w.off + w.n <= MAXFILE
  BY DEF Inv, WriteInv, Calling, Growing
<1>2. At \in Nat /\ At < MAXFILE /\ w.off <= At /\ At < w.off + w.n
  BY <1>1, MaxFileNat DEF At
<1>3. At \div PB \in 0 .. NDIRECT + PB - 1 /\ PlaceOf(At \div PB) \in Place \ {NDIRECT}
  BY <1>2, CellOfFile
<1>4. Bmap(Ip, At \div PB) = InUse[w.ino][PlaceOf(At \div PB)]
  BY <1>1, <1>3, BmapNumber, NumbersInUse DEF Ip
<1>5. ASSUME Missing # "none"
      PROVE  InUse[w.ino][PlaceOf(At \div PB)] = Zero /\ At >= dinode[w.ino].size
  <2>1. InUse[w.ino][PlaceOf(At \div PB)] = Zero
    BY <1>4, <1>5 DEF Missing
  <2>2. ~(At < dinode[w.ino].size)
    <3> SUFFICES ASSUME At < dinode[w.ino].size PROVE FALSE
      OBVIOUS
    <3>1. InUse[w.ino][PlaceOf(At \div PB)] \in Blk
      BY <1>1, <1>2, CellCovered
    <3> QED
      BY <2>1, <3>1, Constants
  <2>3. dinode[w.ino].size \in Nat
    BY <1>1, MaxFileNat DEF Inv, DiskInv, DiskTypes, Dinode
  <2> QED
    BY <1>2, <2>1, <2>2, <2>3
<1> QED
  BY <1>2, <1>3, <1>4, <1>5

\* Its steps leave the tables of files and who holds which inode alone.
LEMMA WriteiKeeps ==
  ASSUME Inv, Growing, Calling', UNCHANGED <<ref, ivalid, file, ofile, call>>, w'.ino = w.ino,
         \A i \in Inum : dinode'[i].type = dinode[i].type /\ dinode'[i].size \in Nat
                         /\ dinode[i].size <= dinode'[i].size
  PROVE  FileTypes' /\ FileInv'
<1>1. FileTypes /\ FileInv
  BY DEF Inv, Growing
<1>2. FileTypes'
  BY <1>1 DEF FileTypes
<1>3. Balanced'
  <2>1. \A j \in Inum : FilesOf(j)' = FilesOf(j) /\ (Took(j)' <=> Took(j))
    BY DEF FilesOf, Took, Calling, Growing
  <2> QED
    BY <1>1, <2>1, CallKeeps DEF FileInv
<1>4. \A f \in Files : file[f].ref > 0 =>
        dinode'[file[f].ip].type # "free" /\ file[f].off <= dinode'[file[f].ip].size
  <2> SUFFICES ASSUME NEW f \in Files, file[f].ref > 0
               PROVE  dinode'[file[f].ip].type # "free" /\ file[f].off <= dinode'[file[f].ip].size
    OBVIOUS
  <2>1. /\ file[f].ip \in Inum /\ file[f].off \in Nat
        /\ dinode[file[f].ip].type # "free" /\ file[f].off <= dinode[file[f].ip].size
    BY <1>1 DEF FileTypes, FileInv
  <2>2. dinode[file[f].ip].size \in Nat
    BY <2>1, MaxFileNat DEF Inv, DiskInv, DiskTypes, Dinode
  <2> QED
    BY <2>1, <2>2
<1> QED
  BY <1>1, <1>2, <1>3, <1>4 DEF FileInv, Calling, Growing

\* balloc marks a block that nobody has.
LEMMA BallocStep ==
  ASSUME Inv, Balloc, UNCHANGED <<file, ofile, call>>
  PROVE  Inv'
<1> DEFINE clear == Blk \ bitmap
           f == Min(clear)
<1>1. pc = "writei" /\ w.tot < w.n /\ Missing # "none"
  BY DEF Balloc, Writing
<1>2. CASE clear = {}
  BY <1>2, PanicStep DEF Balloc, Panic
<1>3. CASE clear # {}
  <2>1. /\ bitmap' = bitmap \cup {f} /\ fresh' = [blk |-> f, use |-> Missing] /\ pc' = "bzero"
        /\ UNCHANGED <<dinode, block, icache, w>>
    BY <1>3 DEF Balloc
  <2>2. f \in Blk /\ f \notin bitmap
    <3>1. clear \in SUBSET Nat
      BY DEF Blk
    <3> QED
      BY <1>3, <3>1, LeastOf
  <2> HIDE DEF f
  <2>3. CacheTypes /\ CacheInv /\ WriteInv
    BY <1>1 DEF Inv
  <2>4. InUse' = InUse /\ OnDisk' = OnDisk /\ Growing /\ Growing'
    BY <1>1, <2>1 DEF InUse, OnDisk, Growing, icache
  <2>5. Missing' = Missing
    BY <2>1 DEF Missing, At, Ip, Bmap, icache
  <2>6. \A k : Entry(k)' = Entry(k)
    BY <2>1, <2>4 DEF Entry
  <2>7. DiskInv'
    <3>1. Once(InUse', bitmap')
      BY <2>1, <2>4, OnceMarks DEF Inv, DiskInv
    <3>2. DiskTypes'
      BY <2>1, <2>2 DEF Inv, DiskInv, DiskTypes
    <3>3. Covered(OnDisk', dinode') /\ Entries'
      BY <2>1, <2>4, <2>6 DEF Inv, DiskInv, Covered, Entries
    <3> QED
      BY <3>1, <3>2, <3>3 DEF DiskInv
  <2>8. CacheTypes' /\ CacheInv'
    BY <2>1, <2>3, <2>4 DEF CacheTypes, CacheInv, icache
  <2>9. WriteInv'
    <3>1. fresh'.blk = f /\ fresh'.use = Missing
      BY <2>1
    <3>2. \A i \in Inum, a \in Place : InUse[i][a] # f
      BY <2>2, NumberMarked, Constants
    <3> QED
      BY <1>1, <2>1, <2>3, <2>4, <2>5, <2>6, <3>1, <3>2 DEF WriteInv, Calling, Growing, icache
  <2>10. FileTypes' /\ FileInv'
    <3>1. \A i \in Inum : dinode'[i].type = dinode[i].type /\ dinode'[i].size \in Nat
                          /\ dinode[i].size <= dinode'[i].size
      BY <2>1, MaxFileNat DEF Inv, DiskInv, DiskTypes, Dinode
    <3> QED
      BY <2>1, <2>4, <3>1, WriteiKeeps DEF icache, Calling
  <2> QED
    BY <2>7, <2>8, <2>9, <2>10 DEF Inv
<1> QED
  BY <1>2, <1>3

\* A block that is no table is written: no number is lost.
LEMMA NumbersStay ==
  ASSUME NEW b \in Blk, NEW cells, Inv, Growing, block' = [block EXCEPT ![b] = cells],
         \A i \in Inum : InUse[i][NDIRECT] # b,
         Growing', UNCHANGED <<dinode, inode>>, w'.ino = w.ino
  PROVE  InUse' = InUse /\ OnDisk' = OnDisk
<1>1. block \in [Blk -> [Slot -> Cells]]
  BY DEF Inv, DiskInv, DiskTypes
<1>2. \A c \in Blk : c # b => block'[c] = block[c]
  BY <1>1
<1>3. ASSUME NEW i \in Inum
      PROVE  OnDisk'[i] = OnDisk[i]
  <2> DEFINE t == dinode[i].addrs[NDIRECT]
  <2>1. OnDisk[i][NDIRECT] = t
    BY NumbersOnDisk, NumbersAt, Constants
  <2>2. t # Zero => t \in Blk /\ t # b
    BY <2>1, NumberMarked, DiskInUse, Constants
  <2>3. t # Zero => block'[t] = block[t]
    BY <1>2, <2>2
  <2>4. NumbersOf(block, dinode[i].addrs) = NumbersOf(block', dinode[i].addrs)
    BY <2>3, NumbersKept
  <2> QED
    BY <2>4, NumbersOnDisk
<1>4. ASSUME NEW i \in Inum
      PROVE  InUse'[i] = InUse[i]
  <2> DEFINE t == inode[i].addrs[NDIRECT]
  <2>1. CASE i = w.ino
    <3>1. InUse[i] = NumbersOf(block, inode[i].addrs) /\ InUse'[i] = NumbersOf(block', inode[i].addrs)
      BY <2>1, NumbersInUse
    <3>2. InUse[i][NDIRECT] = t
      BY <3>1, NumbersAt, Constants
    <3>3. t # Zero => t \in Blk /\ t # b
      BY <3>2, NumberMarked, Constants
    <3>4. t # Zero => block'[t] = block[t]
      BY <1>2, <3>3
    <3>5. NumbersOf(block, inode[i].addrs) = NumbersOf(block', inode[i].addrs)
      BY <3>4, NumbersKept
    <3> QED
      BY <3>1, <3>5
  <2>2. CASE i # w.ino
    BY <1>3, <2>2, NumbersInUse
  <2> QED
    BY <2>1, <2>2
<1> QED
  BY <1>3, <1>4 DEF InUse, OnDisk

\* bzero clears the block that nobody has yet.
LEMMA BzeroStep ==
  ASSUME Inv, Bzero, UNCHANGED <<file, ofile, call>>
  PROVE  Inv'
<1> DEFINE f == fresh.blk
<1>1. /\ pc = "bzero" /\ pc' = "assign" /\ block' = [block EXCEPT ![f] = ZeroBlock]
      /\ UNCHANGED <<bitmap, dinode, icache, w, fresh>>
  BY DEF Bzero
<1>2. CacheTypes /\ CacheInv /\ WriteInv /\ Growing /\ Growing'
  BY <1>1 DEF Inv, Growing
<1>3. /\ w.tot < w.n /\ f \in bitmap /\ f \in Blk /\ fresh.use = Missing /\ Missing # "none"
      /\ \A i \in Inum, a \in Place : InUse[i][a] # f
      /\ w.ino \in Inum /\ w.n \in Nat /\ w.tot \in 0 .. w.n
  BY <1>1, <1>2 DEF WriteInv, Calling, Inv, DiskInv, DiskTypes
<1> HIDE DEF f
<1>4. InUse' = InUse /\ OnDisk' = OnDisk
  BY <1>1, <1>2, <1>3, NumbersStay, Constants DEF icache
<1>5. block \in [Blk -> [Slot -> Cells]] /\ ZeroBlock \in [Slot -> Cells]
  BY DEF Inv, DiskInv, DiskTypes, ZeroBlock, Cells
<1>6. \A c \in Blk : block'[c] = IF c = f THEN ZeroBlock ELSE block[c]
  BY <1>1, <1>3, <1>5
<1>7. Missing' = Missing
  <2> DEFINE t == Ip.addrs[NDIRECT]
  <2>1. InUse[w.ino][NDIRECT] = t
    <3>1. InUse[w.ino] = NumbersOf(block, inode[w.ino].addrs)
      BY <1>2, <1>3, NumbersInUse
    <3> QED
      BY <3>1, NumbersAt, Constants DEF Ip
  <2>2. t # Zero => t \in Blk /\ t # f
    BY <1>3, <2>1, NumberMarked, Constants
  <2>3. t # Zero => block'[t] = block[t]
    BY <1>6, <2>2
  <2>4. Ip' = Ip /\ At' = At
    BY <1>1 DEF Ip, At, icache
  <2>5. Bmap(Ip, At \div PB)' = Bmap(Ip, At \div PB)
    BY <2>3, <2>4 DEF Bmap
  <2> QED
    BY <2>4, <2>5 DEF Missing
<1>8. \A k \in Nat : k < dinode[ROOTINO].size => Entry(k)' = Entry(k)
  <2> SUFFICES ASSUME NEW k \in Nat, k < dinode[ROOTINO].size PROVE Entry(k)' = Entry(k)
    OBVIOUS
  <2>1. /\ OnDisk[ROOTINO][PlaceOf(k \div PB)] \in Blk /\ PlaceOf(k \div PB) \in Place
        /\ OnDisk[ROOTINO][PlaceOf(k \div PB)] = InUse[ROOTINO][PlaceOf(k \div PB)]
    BY CellCovered, Constants
  <2>2. OnDisk[ROOTINO][PlaceOf(k \div PB)] # f
    BY <1>3, <2>1, Constants
  <2> QED
    BY <1>4, <1>6, <2>1, <2>2 DEF Entry
<1>9. DiskInv'
  <2>1. DiskTypes'
    BY <1>1, <1>5 DEF Inv, DiskInv, DiskTypes
  <2>2. Entries'
    BY <1>1, <1>8 DEF Inv, DiskInv, Entries
  <2> QED
    BY <1>1, <1>4, <2>1, <2>2 DEF Inv, DiskInv, Covered
<1>10. CacheTypes' /\ CacheInv'
  BY <1>1, <1>2 DEF CacheTypes, CacheInv, icache
<1>11. WriteInv'
  <2>1. block'[f] = ZeroBlock
    BY <1>3, <1>6
  <2>2. call.op = "open" => w.tot # 1
    BY <1>2, <1>3 DEF WriteInv, Calling
  <2>3. call.op = "open" => \A k \in Nat : k < w.off => Entry(k)' = Entry(k)
    BY <1>2, <1>8 DEF WriteInv, Calling
  <2>4. call.op = "open" => \A k \in Nat : k < w.off =>
                   Entry(k)'.name # w.src.name /\ Entry(k)'.inum # w.src.inum
    BY <1>2, <2>3 DEF WriteInv, Calling
  <2> QED
    BY <1>1, <1>2, <1>3, <1>4, <1>7, <2>1, <2>2, <2>4 DEF WriteInv, Calling, Growing, icache, f
<1>12. FileTypes' /\ FileInv'
  <2>1. \A i \in Inum : dinode'[i].type = dinode[i].type /\ dinode'[i].size \in Nat
                        /\ dinode[i].size <= dinode'[i].size
    BY <1>1, MaxFileNat DEF Inv, DiskInv, DiskTypes, Dinode
  <2> QED
    BY <1>1, <1>2, <2>1, WriteiKeeps DEF icache, Calling
<1> QED
  BY <1>9, <1>10, <1>11, <1>12 DEF Inv

\* The block gets its place p; what the disk had stays, and what memory has is ahead of it.
Assigned(p) ==
  /\ p \in Place /\ InUse[w.ino][p] = Zero
  /\ \A i \in Inum, a \in Place :
       InUse'[i][a] = IF i = w.ino /\ a = p THEN fresh.blk ELSE InUse[i][a]
  /\ \A i \in Inum, a \in Place : OnDisk[i][a] # Zero => OnDisk'[i][a] = OnDisk[i][a]
  /\ \A i \in Inum, a \in Place \ {NDIRECT} :
       InUse[i][a] # Zero => block'[InUse[i][a]] = block[InUse[i][a]]
  /\ \A k \in Nat : k < dinode[ROOTINO].size => Entry(k)' = Entry(k)
  /\ block' \in [Blk -> [Slot -> Cells]] /\ inode' \in [Inum -> Dinode]
  /\ \A i \in Inum : i # w.ino => inode'[i] = inode[i]
  /\ Ahead(dinode[w.ino], inode'[w.ino])

\* The number of a direct block, or of the table, goes into the inode.
LEMMA AssignInode ==
  ASSUME Inv, Assign, fresh.use # "entry"
  PROVE  \E p : Assigned(p)
<1> DEFINE f == fresh.blk
           bn == At \div PB
           i == w.ino
           q == IF fresh.use = "table" THEN NDIRECT ELSE bn
           old == inode[i].addrs
           new == inode'[i].addrs
<1>1. /\ pc = "assign" /\ pc' = "writei" /\ inode' = [inode EXCEPT ![i].addrs[q] = f]
      /\ UNCHANGED <<bitmap, dinode, block, w>>
  BY DEF Assign
<1>2. CacheTypes /\ CacheInv /\ WriteInv /\ Growing /\ Growing'
  BY <1>1 DEF Inv, Growing
<1>3. /\ w.tot < w.n /\ f \in bitmap /\ f \in Blk /\ fresh.use = Missing /\ Missing # "none"
      /\ \A j \in Inum, a \in Place : InUse[j][a] # f
      /\ i \in Inum /\ ivalid[i] /\ block[f] = ZeroBlock
  BY <1>1, <1>2 DEF WriteInv, Calling, Inv, DiskInv, DiskTypes
<1>4. /\ bn \in 0 .. NDIRECT + PB - 1 /\ PlaceOf(bn) \in Place
      /\ InUse[i][PlaceOf(bn)] = Zero
  BY <1>2, <1>3, GrowsAt
<1>5. /\ q \in Addrs /\ q \in Place /\ InUse[i][q] = Zero
      /\ q = NDIRECT => old[NDIRECT] = Zero
  <2>1. CASE fresh.use = "table"
    <3>1. old[NDIRECT] = Zero
      BY <1>3, <2>1 DEF Missing, Ip
    <3>2. InUse[i][NDIRECT] = old[NDIRECT]
      <4>1. InUse[i] = NumbersOf(block, old)
        BY <1>2, <1>3, NumbersInUse
      <4> QED
        BY <4>1, NumbersAt, Constants
    <3> QED
      BY <2>1, <3>1, <3>2, Constants
  <2>2. CASE fresh.use # "table"
    <3>1. bn < NDIRECT
      BY <1>3, <2>2 DEF Missing
    <3>2. PlaceOf(bn) = bn /\ bn \in Addrs
      BY <1>4, <3>1, Constants DEF PlaceOf, Addrs
    <3> QED
      BY <1>4, <2>2, <3>1, <3>2, Constants
  <2> QED
    BY <2>1, <2>2
<1>6. inode \in [Inum -> Dinode] /\ old \in [Addrs -> Blk \cup {Zero}]
  BY <1>2, <1>3 DEF CacheTypes, Dinode
<1>7. /\ inode'[i].type = inode[i].type /\ inode'[i].size = inode[i].size
      /\ new = [old EXCEPT ![q] = f] /\ inode'[i] \in Dinode
      /\ \A j \in Inum : j # i => inode'[j] = inode[j]
      /\ inode' \in [Inum -> Dinode]
  <2> HIDE DEF q, f
  <2>1. inode'[i] = [inode[i] EXCEPT !.addrs = [@ EXCEPT ![q] = f]]
    BY <1>1, <1>3, <1>6
  <2>2. [old EXCEPT ![q] = f] \in [Addrs -> Blk \cup {Zero}]
    BY <1>3, <1>5, <1>6
  <2>3. inode[i] \in Dinode
    BY <1>3, <1>6
  <2>4. inode'[i] \in Dinode /\ new = [old EXCEPT ![q] = f]
        /\ inode'[i].type = inode[i].type /\ inode'[i].size = inode[i].size
    BY <2>1, <2>2, <2>3 DEF Dinode
  <2>5. \A j \in Inum : j # i => inode'[j] = inode[j]
    BY <1>1, <1>6
  <2>6. DOMAIN inode' = Inum /\ inode' = [j \in Inum |-> inode'[j]]
    BY <1>1, <1>6
  <2>7. \A j \in Inum : inode'[j] \in Dinode
    BY <1>6, <2>4, <2>5
  <2> QED
    BY <2>4, <2>5, <2>6, <2>7
<1>8. \A a \in Addrs : new[a] = IF a = q THEN f ELSE old[a]
  BY <1>5, <1>6, <1>7
<1> HIDE DEF q, f, new
<1>9. \A a \in Place : InUse'[i][a] = IF a = q THEN f ELSE InUse[i][a]
  <2> SUFFICES ASSUME NEW a \in Place
               PROVE  InUse'[i][a] = IF a = q THEN f ELSE InUse[i][a]
    OBVIOUS
  <2>1. InUse[i] = NumbersOf(block, old) /\ InUse'[i] = NumbersOf(block, new)
    BY <1>1, <1>2, <1>3, NumbersInUse DEF new
  <2>2. CASE a <= NDIRECT
    <3>1. a \in Addrs
      BY <2>2, Constants DEF Place, Addrs
    <3> QED
      BY <1>8, <2>1, <2>2, <3>1, NumbersAt
  <2>3. CASE ~(a <= NDIRECT)
    <3>1. a # q /\ a - NDIRECT - 1 \in Slot
      BY <1>5, <2>3, Constants DEF Addrs, Place, Slot
    <3>2. CASE q = NDIRECT
      <4>1. new[NDIRECT] = f /\ old[NDIRECT] = Zero /\ f # Zero
        BY <1>3, <1>5, <1>8, <3>2, Constants
      <4>2. block[f][a - NDIRECT - 1] = Zero
        BY <1>3, <3>1 DEF ZeroBlock
      <4> QED
        BY <2>1, <2>3, <3>1, <4>1, <4>2, NumbersAt
    <3>3. CASE q # NDIRECT
      <4>1. new[NDIRECT] = old[NDIRECT]
        BY <1>8, <3>3, Constants
      <4> QED
        BY <2>1, <2>3, <3>1, <4>1, NumbersAt
    <3> QED
      BY <3>2, <3>3
  <2> QED
    BY <2>2, <2>3
<1>10. OnDisk' = OnDisk
  BY <1>1 DEF OnDisk
<1>11. \A j \in Inum, a \in Place :
         InUse'[j][a] = IF j = w.ino /\ a = q THEN fresh.blk ELSE InUse[j][a]
  <2>1. \A j \in Inum : j # i => InUse'[j] = InUse[j]
    BY <1>1, <1>10, NumbersInUse
  <2> QED
    BY <1>9, <2>1 DEF f
<1>12. Ahead(dinode[i], inode'[i])
  <2>1. Ahead(dinode[i], inode[i])
    BY <1>2, <1>3 DEF CacheInv
  <2>2. old[q] = Zero
    BY <1>2, <1>3, <1>5, NumbersInUse, NumbersAt, Constants DEF Addrs
  <2>3. dinode[i].addrs[q] = Zero
    BY <1>5, <2>1, <2>2 DEF Ahead
  <2> QED
    BY <1>7, <1>8, <2>1, <2>3 DEF Ahead, new
<1>13. \A k \in Nat : k < dinode[ROOTINO].size => Entry(k)' = Entry(k)
  BY <1>1, <1>10 DEF Entry
<1>14. block' \in [Blk -> [Slot -> Cells]]
  BY <1>1 DEF Inv, DiskInv, DiskTypes
<1> WITNESS q
<1> QED
  BY <1>1, <1>5, <1>7, <1>10, <1>11, <1>12, <1>13, <1>14 DEF Assigned

\* The number of a block behind the table goes into the table, on the disk.
LEMMA AssignEntry ==
  ASSUME Inv, Assign, fresh.use = "entry"
  PROVE  \E p : Assigned(p)
<1> DEFINE f == fresh.blk
           bn == At \div PB
           i == w.ino
           s == bn - NDIRECT
           t == inode[i].addrs[NDIRECT]
           p == PlaceOf(bn)
<1>1. /\ pc = "assign" /\ pc' = "writei" /\ block' = [block EXCEPT ![t][s] = f]
      /\ UNCHANGED <<bitmap, dinode, inode, w>>
  BY DEF Assign, Ip
<1>2. CacheTypes /\ CacheInv /\ WriteInv /\ Growing /\ Growing'
  BY <1>1 DEF Inv, Growing
<1>3. /\ w.tot < w.n /\ f \in Blk /\ Missing = "entry" /\ i \in Inum /\ ivalid[i]
  BY <1>1, <1>2 DEF WriteInv, Calling, Inv, DiskInv, DiskTypes
<1>4. /\ bn \in 0 .. NDIRECT + PB - 1 /\ p \in Place /\ InUse[i][p] = Zero
  BY <1>2, <1>3, GrowsAt
<1>5. ~(bn < NDIRECT) /\ t # Zero
  BY <1>3 DEF Missing, Ip
<1>6. s \in Slot /\ p = NDIRECT + 1 + s /\ p # NDIRECT
  BY <1>4, <1>5, Constants DEF Slot, PlaceOf
<1>7. InUse[i] = NumbersOf(block, inode[i].addrs) /\ InUse'[i] = NumbersOf(block', inode[i].addrs)
  BY <1>1, <1>2, <1>3, NumbersInUse
<1>8. InUse[i][NDIRECT] = t /\ t \in Blk
  <2>1. InUse[i][NDIRECT] = t
    BY <1>7, NumbersAt, Constants
  <2> QED
    BY <1>3, <1>5, <2>1, NumberMarked, Constants
<1> HIDE DEF f, bn, s, t, p
<1>9. /\ block \in [Blk -> [Slot -> Cells]] /\ block' \in [Blk -> [Slot -> Cells]]
      /\ \A c \in Blk : c # t => block'[c] = block[c]
      /\ \A z \in Slot : block'[t][z] = IF z = s THEN f ELSE block[t][z]
  <2>1. block \in [Blk -> [Slot -> Cells]]
    BY DEF Inv, DiskInv, DiskTypes
  <2>2. f \in Cells
    BY <1>3 DEF Cells
  <2>3. block' = [block EXCEPT ![t] = [block[t] EXCEPT ![s] = f]]
    BY <1>1
  <2>4. block[t] \in [Slot -> Cells] /\ [block[t] EXCEPT ![s] = f] \in [Slot -> Cells]
    BY <1>6, <1>8, <2>1, <2>2
  <2>5. block'[t] = [block[t] EXCEPT ![s] = f]
    BY <1>8, <2>1, <2>3
  <2>6. \A z \in Slot : block'[t][z] = IF z = s THEN f ELSE block[t][z]
    BY <2>4, <2>5
  <2> QED
    BY <1>8, <2>1, <2>3, <2>4, <2>6
\* The table of i is no other inode's, and holds no data.
<1>10. \A j \in Inum, a \in Place : InUse[j][a] = t => j = i /\ a = NDIRECT
  <2>1. Once(InUse, bitmap) /\ NDIRECT \in Place /\ t # Zero
    BY <1>8, Constants DEF Inv, DiskInv
  <2> QED
    BY <1>3, <1>8, <2>1 DEF Once
<1>11. ASSUME NEW j \in Inum, j # i
       PROVE  OnDisk'[j] = OnDisk[j] /\ InUse'[j] = InUse[j]
  <2> DEFINE u == dinode[j].addrs[NDIRECT]
  <2>1. OnDisk[j][NDIRECT] = u
    BY NumbersOnDisk, NumbersAt, Constants
  <2>2. u # Zero => u \in Blk /\ u # t
    BY <1>10, <1>11, <2>1, NumberMarked, DiskInUse, Constants
  <2>3. u # Zero => block'[u] = block[u]
    BY <1>9, <2>2
  <2>4. NumbersOf(block, dinode[j].addrs) = NumbersOf(block', dinode[j].addrs)
    BY <2>3, NumbersKept
  <2>5. OnDisk'[j] = OnDisk[j]
    BY <1>1, <2>4, NumbersOnDisk
  <2> QED
    BY <1>1, <1>11, <2>5, NumbersInUse
<1>12. \A a \in Place : InUse'[i][a] = IF a = p THEN f ELSE InUse[i][a]
  <2> SUFFICES ASSUME NEW a \in Place
               PROVE  InUse'[i][a] = IF a = p THEN f ELSE InUse[i][a]
    OBVIOUS
  <2>1. CASE a <= NDIRECT
    <3>1. a # p
      BY <1>6, <2>1, Constants DEF Slot
    <3> QED
      BY <1>7, <2>1, <3>1, NumbersAt
  <2>2. CASE ~(a <= NDIRECT)
    <3>1. a - NDIRECT - 1 \in Slot /\ (a - NDIRECT - 1 = s <=> a = p)
      BY <1>6, <2>2, Constants DEF Place, Slot
    <3>2. /\ InUse[i][a] = block[t][a - NDIRECT - 1]
          /\ InUse'[i][a] = block'[t][a - NDIRECT - 1]
      BY <1>5, <1>7, <2>2, NumbersAt DEF t
    <3> QED
      BY <1>9, <3>1, <3>2
  <2> QED
    BY <2>1, <2>2
<1>13. \A a \in Place : OnDisk[i][a] # Zero => OnDisk'[i][a] = OnDisk[i][a]
  <2> SUFFICES ASSUME NEW a \in Place, OnDisk[i][a] # Zero
               PROVE  OnDisk'[i][a] = OnDisk[i][a]
    OBVIOUS
  <2> DEFINE u == dinode[i].addrs[NDIRECT]
  <2>1. /\ OnDisk[i] = NumbersOf(block, dinode[i].addrs)
        /\ OnDisk'[i] = NumbersOf(block', dinode[i].addrs)
    BY <1>1, <1>3, NumbersOnDisk
  <2>2. OnDisk[i][NDIRECT] = u
    BY <2>1, NumbersAt, Constants
  <2>3. CASE u = Zero
    BY <2>1, <2>3, NumbersKept
  <2>4. CASE u # Zero
    <3>1. u = t
      BY <1>3, <1>8, <2>2, <2>4, DiskInUse, Constants
    <3>2. a # p
      <4>1. OnDisk[i][a] = InUse[i][a]
        BY <1>3, DiskInUse
      <4> QED
        BY <1>4, <4>1
    <3>3. CASE a <= NDIRECT
      BY <2>1, <3>3, NumbersAt
    <3>4. CASE ~(a <= NDIRECT)
      <4>1. a - NDIRECT - 1 \in Slot /\ a - NDIRECT - 1 # s
        BY <1>6, <3>2, <3>4, Constants DEF Place, Slot
      <4>2. /\ OnDisk[i][a] = block[t][a - NDIRECT - 1]
            /\ OnDisk'[i][a] = block'[t][a - NDIRECT - 1]
        BY <2>1, <2>4, <3>1, <3>4, NumbersAt
      <4> QED
        BY <1>9, <4>1, <4>2
    <3> QED
      BY <3>3, <3>4
  <2> QED
    BY <2>3, <2>4
<1>14. \A j \in Inum, a \in Place : OnDisk[j][a] # Zero => OnDisk'[j][a] = OnDisk[j][a]
  BY <1>11, <1>13
<1>15. \A k \in Nat : k < dinode[ROOTINO].size => Entry(k)' = Entry(k)
  <2> SUFFICES ASSUME NEW k \in Nat, k < dinode[ROOTINO].size PROVE Entry(k)' = Entry(k)
    OBVIOUS
  <2> DEFINE pl == PlaceOf(k \div PB)
             c == OnDisk[ROOTINO][pl]
  <2>1. c \in Blk /\ pl \in Place /\ pl # NDIRECT /\ c = InUse[ROOTINO][pl]
    BY CellCovered, Constants
  <2> HIDE DEF pl
  <2>2. c # t /\ OnDisk'[ROOTINO][pl] = c
    BY <1>10, <1>14, <2>1, Constants
  <2>3. block'[c] = block[c]
    BY <1>9, <2>1, <2>2
  <2> QED
    BY <2>2, <2>3 DEF Entry, pl
<1>16. Ahead(dinode[i], inode'[i]) /\ inode' \in [Inum -> Dinode]
  BY <1>1, <1>2, <1>3 DEF CacheInv, CacheTypes
<1>17. \A j \in Inum, a \in Place :
         InUse'[j][a] = IF j = i /\ a = p THEN f ELSE InUse[j][a]
  BY <1>11, <1>12
<1>18. \A j \in Inum, a \in Place \ {NDIRECT} :
         InUse[j][a] # Zero => block'[InUse[j][a]] = block[InUse[j][a]]
  <2> SUFFICES ASSUME NEW j \in Inum, NEW a \in Place \ {NDIRECT}, InUse[j][a] # Zero
               PROVE  block'[InUse[j][a]] = block[InUse[j][a]]
    OBVIOUS
  <2>1. InUse[j][a] \in Blk /\ InUse[j][a] # t
    BY <1>10, NumberMarked
  <2> QED
    BY <1>9, <2>1
<1> WITNESS p
<1> QED
  BY <1>1, <1>4, <1>9, <1>14, <1>15, <1>16, <1>17, <1>18 DEF Assigned, f

LEMMA AssignStep ==
  ASSUME Inv, Assign, UNCHANGED <<file, ofile, call>>
  PROVE  Inv'
<1> DEFINE f == fresh.blk
           i == w.ino
<1>1. pc = "assign" /\ pc' = "writei" /\ UNCHANGED <<bitmap, dinode, ref, ivalid, w>>
  BY DEF Assign
<1>2. CacheTypes /\ CacheInv /\ WriteInv /\ Growing /\ Growing' /\ DiskTypes
  BY <1>1 DEF Inv, Growing, DiskInv
<1>3. /\ w.tot < w.n /\ f \in bitmap /\ Missing # "none"
      /\ \A j \in Inum, a \in Place : InUse[j][a] # f
      /\ i \in Inum /\ ivalid[i] /\ w.off \in Nat /\ w.n \in Nat /\ w.tot \in 0 .. w.n
      /\ w.off + w.n <= MAXFILE
  BY <1>1, <1>2 DEF WriteInv, Calling
<1>4. PICK p : Assigned(p)
  BY AssignInode, AssignEntry
<1>5. Once(InUse', bitmap')
  <2>1. Once(InUse, bitmap) /\ p \in Place
        /\ \A j \in Inum, a \in Place : InUse'[j][a] = IF j = i /\ a = p THEN f ELSE InUse[j][a]
    BY <1>4 DEF Assigned, Inv, DiskInv
  <2> HIDE DEF f, i
  <2>2. Once(InUse', bitmap)
    BY <1>3, <2>1, OnceMore
  <2> QED
    BY <1>1, <2>2
<1>6. DiskInv'
  <2>1. DiskTypes'
    BY <1>1, <1>2, <1>4 DEF DiskTypes, Assigned
  <2>2. Covered(OnDisk', dinode')
    <3> SUFFICES ASSUME NEW j \in Inum, NEW k \in Nat, k < dinode[j].size
                 PROVE  OnDisk'[j][PlaceOf(k \div PB)] # Zero
      BY <1>1 DEF Covered
    <3>1. OnDisk[j][PlaceOf(k \div PB)] # Zero /\ PlaceOf(k \div PB) \in Place
      BY CellCovered, Constants
    <3> QED
      BY <1>4, <3>1 DEF Assigned
  <2>3. Entries'
    BY <1>1, <1>4 DEF Assigned, Inv, DiskInv, Entries
  <2> QED
    BY <1>5, <2>1, <2>2, <2>3 DEF DiskInv
<1>7. CacheTypes'
  BY <1>1, <1>2, <1>4 DEF CacheTypes, Assigned
<1>8. CacheInv'
  <2>1. w.off + w.n > dinode[i].size
    <3>1. At >= dinode[i].size /\ At < w.off + w.n /\ At \in Nat
      BY <1>2, <1>3, GrowsAt
    <3>2. dinode[i].size \in Nat
      BY <1>2, <1>3, MaxFileNat DEF DiskTypes, Dinode
    <3> QED
      BY <1>3, <3>1, <3>2
  <2> SUFFICES ASSUME NEW j \in Inum, ivalid[j]
               PROVE  IF j = i THEN /\ Ahead(dinode[j], inode'[j])
                                    /\ inode'[j] # dinode[j] => w.off + w.n > dinode[j].size
                               ELSE inode'[j] = dinode[j]
    BY <1>1, <1>2 DEF CacheInv
  <2>2. CASE j = i
    BY <1>4, <2>1, <2>2 DEF Assigned
  <2>3. CASE j # i
    BY <1>2, <1>4, <2>3 DEF Assigned, CacheInv
  <2> QED
    BY <2>2, <2>3
<1>9. WriteInv'
  <2>1. \A k \in Nat : w.off <= k /\ k < w.off + w.tot => InUse'[i][PlaceOf(k \div PB)] # Zero
    <3> SUFFICES ASSUME NEW k \in Nat, w.off <= k, k < w.off + w.tot
                 PROVE  InUse'[i][PlaceOf(k \div PB)] # Zero
      OBVIOUS
    <3>1. InUse[i][PlaceOf(k \div PB)] # Zero
      BY <1>2 DEF WriteInv, Calling
    <3>2. PlaceOf(k \div PB) \in Place
      <4>1. k < MAXFILE
        BY <1>3, MaxFileNat
      <4> QED
        BY <4>1, CellOfFile
    <3> QED
      BY <1>3, <1>4, <3>1, <3>2 DEF Assigned
  <2>2. call.op = "open" => w.tot # 1
    BY <1>2, <1>3 DEF WriteInv, Calling
  <2>3. call.op = "open" => \A k \in Nat : k < w.off =>
                   Entry(k)'.name # w.src.name /\ Entry(k)'.inum # w.src.inum
    <3>1. call.op = "open" => w.off = dinode[ROOTINO].size
      BY <1>2 DEF WriteInv, Calling
    <3>2. call.op = "open" => \A k \in Nat : k < w.off => Entry(k)' = Entry(k)
      BY <1>4, <3>1 DEF Assigned
    <3> QED
      BY <1>2, <3>2 DEF WriteInv, Calling
  <2> QED
    BY <1>1, <1>2, <2>1, <2>2, <2>3 DEF WriteInv, Calling, Growing
<1>10. FileTypes' /\ FileInv'
  <2>1. \A j \in Inum : dinode'[j].type = dinode[j].type /\ dinode'[j].size \in Nat
                        /\ dinode[j].size <= dinode'[j].size
    BY <1>1, MaxFileNat DEF Inv, DiskInv, DiskTypes, Dinode
  <2> QED
    BY <1>1, <1>2, <2>1, WriteiKeeps DEF Calling
<1> QED
  BY <1>6, <1>7, <1>8, <1>9, <1>10 DEF Inv

LEMMA BlockPlace ==
  ASSUME NEW k \in Nat, NEW l \in Nat, k \div PB = l \div PB
  PROVE  k - l = (k % PB) - (l % PB)
<1> DEFINE x == PB * (l \div PB)
<1>1. x \in Int
  BY Division, Constants
<1>2. k % PB \in Nat /\ l % PB \in Nat /\ k = x + (k % PB) /\ l = x + (l % PB)
  BY Division DEF Slot
<1> HIDE DEF x
<1> QED
  BY <1>1, <1>2

\* The cell of a file whose number writei may have in memory only.
Used(i, k) == block[InUse[i][PlaceOf(k \div PB)]][k % PB]

\* The next m cells are written, and no other cell of a file.
Wrote(m) ==
  /\ m \in Nat /\ m > 0 /\ w.tot + m <= w.n
  /\ w' = [w EXCEPT !.tot = @ + m]
  /\ InUse' = InUse /\ OnDisk' = OnDisk /\ block' \in [Blk -> [Slot -> Cells]]
  /\ \A k \in Nat : At <= k /\ k < At + m =>
       InUse[w.ino][PlaceOf(k \div PB)] # Zero
  /\ \A i \in Inum, k \in Nat : k < MAXFILE /\ InUse[i][PlaceOf(k \div PB)] # Zero =>
       Used(i, k)' = IF i = w.ino /\ At <= k /\ k < At + m THEN w.src ELSE Used(i, k)

LEMMA BlockWritten ==
  ASSUME Inv, WriteBlock
  PROVE  \E m : Wrote(m)
<1> DEFINE i  == w.ino
           pl == PlaceOf(At \div PB)
           b  == Bmap(Ip, At \div PB)
           c  == At % PB
           m  == Min({PB - c, w.n - w.tot})
           cells == [s \in Slot |-> IF s \in c .. (c + m - 1) THEN w.src ELSE block[b][s]]
<1>1. /\ pc = "writei" /\ pc' = "writei" /\ w.tot < w.n /\ Missing = "none"
      /\ block' = [block EXCEPT ![b] = cells] /\ w' = [w EXCEPT !.tot = @ + m]
      /\ UNCHANGED <<bitmap, dinode, ref, ivalid, inode, fresh>>
  BY DEF WriteBlock, Writing, icache
<1>2. CacheTypes /\ CacheInv /\ WriteInv /\ Growing /\ Growing' /\ DiskTypes /\ Once(InUse, bitmap)
  BY <1>1 DEF Inv, Growing, DiskInv
<1>3. /\ i \in Inum /\ ivalid[i] /\ w.off \in Nat /\ w.n \in Nat /\ w.tot \in 0 .. w.n
      /\ w.off + w.n <= MAXFILE /\ w.src \in Cells
      /\ call.op = "open" => i = ROOTINO /\ w.n = 1 /\ w.tot = 0 /\ w.off = dinode[ROOTINO].size
      /\ i = ROOTINO => call.op = "open"
  BY <1>1, <1>2 DEF WriteInv, Calling, Cells
<1>4. /\ At \in Nat /\ At < MAXFILE /\ pl \in Place /\ pl # NDIRECT /\ b = InUse[i][pl]
      /\ w.off <= At /\ At = w.off + w.tot
  BY <1>1, <1>2, GrowsAt DEF At
<1>5. b \in Blk
  <2>1. b # Zero
    BY <1>1 DEF Missing
  <2> QED
    BY <1>3, <1>4, <2>1, NumberMarked
<1>6. c \in Slot /\ m \in Nat /\ m > 0 /\ m <= PB - c /\ m <= w.n - w.tot
  <2>1. c \in Slot
    BY <1>4, Division
  <2>2. PB - c \in Int /\ w.n - w.tot \in Int /\ PB - c > 0 /\ w.n - w.tot > 0
    BY <1>1, <1>3, <2>1, Constants DEF Slot
  <2> HIDE DEF c
  <2>3. m = IF PB - c <= w.n - w.tot THEN PB - c ELSE w.n - w.tot
    BY <2>2, MinPair
  <2> HIDE DEF m
  <2> QED
    BY <2>1, <2>2, <2>3
<1> HIDE DEF i, pl, b, c, m
<1>7. /\ block' \in [Blk -> [Slot -> Cells]]
      /\ \A e \in Blk : e # b => block'[e] = block[e]
      /\ \A s \in Slot : block'[b][s] = IF s \in c .. (c + m - 1) THEN w.src ELSE block[b][s]
  <2>1. block \in [Blk -> [Slot -> Cells]]
    BY <1>2 DEF DiskTypes
  <2>2. cells \in [Slot -> Cells] /\ \A s \in Slot : cells[s] =
          IF s \in c .. (c + m - 1) THEN w.src ELSE block[b][s]
    BY <1>3, <1>5, <2>1
  <2> HIDE DEF cells
  <2> QED
    BY <1>1, <1>5, <2>1, <2>2
<1> HIDE DEF cells
\* The block is one file's, and there at one place.
<1>8. \A j \in Inum, a \in Place : InUse[j][a] = b => j = i /\ a = pl
  <2>1. b # Zero
    BY <1>5, Constants
  <2> QED
    BY <1>2, <1>3, <1>4, <2>1 DEF Once
<1>9. InUse' = InUse /\ OnDisk' = OnDisk
  <2>1. \A j \in Inum : InUse[j][NDIRECT] # b
    BY <1>4, <1>8, Constants
  <2>2. w'.ino = w.ino
    BY <1>1
  <2> QED
    BY <1>1, <1>2, <1>5, <2>1, <2>2, NumbersStay
<1>10. ASSUME NEW j \in Inum, NEW k \in Nat, j = i, At <= k, k < At + m
       PROVE  InUse[j][PlaceOf(k \div PB)] # Zero /\ Used(j, k)' = w.src
  <2> DEFINE r == k - At
  <2>1. r \in Nat /\ r < m /\ k = At + r
    BY <1>4, <1>6, <1>10
  <2>2. r < PB - (At % PB)
    BY <1>6, <2>1, Constants DEF c, Slot
  <2> HIDE DEF r
  <2>3. k \div PB = At \div PB
    BY <1>4, <2>1, <2>2, SameBlock
  <2>4. InUse[j][PlaceOf(k \div PB)] = b /\ b # Zero
    BY <1>4, <1>5, <1>10, <2>3, Constants DEF pl
  <2>5. k % PB \in Slot /\ k % PB = c + r
    <3>1. k - At = (k % PB) - c /\ k % PB \in Slot
      BY <1>4, <2>3, BlockPlace, Division DEF c
    <3> QED
      BY <1>4, <1>6, <2>1, <3>1, Constants DEF Slot
  <2>6. k % PB \in c .. (c + m - 1)
    BY <1>6, <2>1, <2>5, Constants DEF Slot
  <2> QED
    BY <1>7, <1>9, <2>4, <2>5, <2>6 DEF Used
<1>11. ASSUME NEW j \in Inum, NEW k \in Nat, k < MAXFILE, InUse[j][PlaceOf(k \div PB)] # Zero,
              ~(j = i /\ At <= k /\ k < At + m)
       PROVE  Used(j, k)' = Used(j, k)
  <2> DEFINE at == PlaceOf(k \div PB)
             e  == InUse[j][at]
  <2>1. at \in Place /\ e \in Blk /\ k % PB \in Slot
    BY <1>11, CellOfFile, NumberMarked, Division
  <2>2. Used(j, k) = block[e][k % PB] /\ Used(j, k)' = block'[e][k % PB]
    BY <1>9 DEF Used
  <2>3. CASE e # b
    <3> HIDE DEF e
    <3> QED
      BY <1>7, <2>1, <2>2, <2>3
  <2>4. CASE e = b
    <3>1. j = i /\ at = pl
      BY <1>8, <2>1, <2>4
    <3>2. k \div PB = At \div PB
      BY <1>4, <3>1, Division, PlaceOfOnce DEF pl
    <3>3. k - At = (k % PB) - c
      BY <1>4, <3>2, BlockPlace DEF c
    <3>4. k % PB \notin c .. (c + m - 1)
      BY <1>4, <1>6, <1>11, <2>1, <3>1, <3>3, Constants DEF Slot
    <3> HIDE DEF e
    <3> QED
      BY <1>7, <2>1, <2>2, <2>4, <3>4
  <2> QED
    BY <2>3, <2>4
<1>12. w.tot + m <= w.n
  BY <1>3, <1>6
<1> WITNESS m
<1> QED
  BY <1>1, <1>3, <1>6, <1>7, <1>9, <1>10, <1>11, <1>12 DEF Wrote, i

\* Data is written to a block of the file, and in the root behind its last entry.
LEMMA WriteBlockStep ==
  ASSUME Inv, WriteBlock, UNCHANGED <<file, ofile, call>>
  PROVE  Inv'
<1> DEFINE i == w.ino
<1>1. /\ pc = "writei" /\ pc' = "writei" /\ w.tot < w.n
      /\ UNCHANGED <<bitmap, dinode, ref, ivalid, inode, fresh>>
  BY DEF WriteBlock, Writing, icache
<1>2. CacheTypes /\ CacheInv /\ WriteInv /\ Growing /\ Growing' /\ DiskTypes /\ Once(InUse, bitmap)
  BY <1>1 DEF Inv, Growing, DiskInv
<1>3. /\ i \in Inum /\ ivalid[i] /\ w.off \in Nat /\ w.n \in Nat /\ w.tot \in 0 .. w.n
      /\ w.off + w.n <= MAXFILE /\ w.src \in Cells
      /\ call.op = "open" => i = ROOTINO /\ w.n = 1 /\ w.tot = 0 /\ w.off = dinode[ROOTINO].size
      /\ i = ROOTINO => call.op = "open"
  BY <1>1, <1>2 DEF WriteInv, Calling, Cells
<1>4. At = w.off + w.tot
  BY DEF At
<1>5. PICK m : Wrote(m)
  BY BlockWritten
<1>6. /\ InUse' = InUse /\ OnDisk' = OnDisk /\ block' \in [Blk -> [Slot -> Cells]]
      /\ m \in Nat /\ m > 0 /\ w.tot + m <= w.n
  BY <1>5 DEF Wrote
<1>7. /\ w'.ino = w.ino /\ w'.src = w.src /\ w'.off = w.off /\ w'.n = w.n /\ w'.tot = w.tot + m
      /\ w'.tot \in 0 .. w.n /\ w' \in [ino : Inum, src : Cells, off : Nat, n : Nat, tot : Nat]
  <2>1. w' = [w EXCEPT !.tot = @ + m]
    BY <1>5 DEF Wrote
  <2>2. w'.ino = w.ino /\ w'.src = w.src /\ w'.off = w.off /\ w'.n = w.n
    BY <2>1
  <2>3. w'.tot = w.tot + m
    BY <1>2, <2>1 DEF WriteInv, Calling, Growing
  <2>4. w' \in [ino : Inum, src : Cells, off : Nat, n : Nat, tot : Nat]
    BY <1>2, <1>6, <2>1 DEF WriteInv, Calling, Growing
  <2> QED
    BY <1>3, <1>6, <2>2, <2>3, <2>4
<1>8. \A k \in Nat : k < dinode[ROOTINO].size => Entry(k)' = Entry(k)
  <2> SUFFICES ASSUME NEW k \in Nat, k < dinode[ROOTINO].size PROVE Entry(k)' = Entry(k)
    OBVIOUS
  <2> DEFINE at == PlaceOf(k \div PB)
  <2>1. /\ OnDisk[ROOTINO][at] = InUse[ROOTINO][at] /\ InUse[ROOTINO][at] # Zero /\ k < MAXFILE
    BY CellCovered, Constants
  <2>2. ~(ROOTINO = w.ino /\ At <= k /\ k < At + m)
    BY <1>3, <1>4, MaxFileNat
  <2>3. Used(ROOTINO, k)' = Used(ROOTINO, k)
    BY <1>5, <2>1, <2>2, Constants DEF Wrote
  <2> QED
    BY <1>6, <2>1, <2>3 DEF Entry, Used
<1>9. DiskInv'
  <2>1. DiskTypes'
    BY <1>1, <1>2, <1>6 DEF DiskTypes
  <2>2. Entries'
    BY <1>1, <1>8 DEF Inv, DiskInv, Entries
  <2> QED
    BY <1>1, <1>2, <1>6, <2>1, <2>2 DEF Inv, DiskInv, Covered
<1>10. CacheTypes' /\ CacheInv'
  BY <1>1, <1>2, <1>7 DEF CacheTypes, CacheInv
<1>11. WriteInv'
  <2>1. \A k \in Nat : w.off <= k /\ k < w.off + w'.tot => InUse[i][PlaceOf(k \div PB)] # Zero
    <3> SUFFICES ASSUME NEW k \in Nat, w.off <= k, k < w.off + w'.tot
                 PROVE  InUse[i][PlaceOf(k \div PB)] # Zero
      OBVIOUS
    <3>1. CASE k < w.off + w.tot
      BY <1>2, <3>1 DEF WriteInv, Calling, i
    <3>2. CASE ~(k < w.off + w.tot)
      <4>1. At <= k /\ k < At + m
        BY <1>3, <1>4, <1>6, <1>7, <3>2
      <4> QED
        BY <1>5, <4>1 DEF Wrote
    <3> QED
      BY <3>1, <3>2
  <2>2. call.op = "open" => block'[InUse[ROOTINO][PlaceOf(w.off \div PB)]][w.off % PB] = w.src
    <3> SUFFICES ASSUME call.op = "open"
                 PROVE  block'[InUse[ROOTINO][PlaceOf(w.off \div PB)]][w.off % PB] = w.src
      OBVIOUS
    <3>1. At = w.off /\ i = ROOTINO
      BY <1>3, <1>4
    <3>2. At <= w.off /\ w.off < At + m
      BY <1>3, <1>6, <3>1
    <3>3. InUse[ROOTINO][PlaceOf(w.off \div PB)] # Zero /\ w.off < MAXFILE
      BY <1>3, <1>5, <3>1, <3>2, MaxFileNat DEF Wrote
    <3>4. \A k \in Nat : k = w.off => Used(ROOTINO, k)' = w.src
      BY <1>3, <1>5, <3>1, <3>2, <3>3, Constants DEF Wrote
    <3> QED
      BY <1>3, <1>6, <3>4 DEF Used
  <2>3. call.op = "open" => \A k \in Nat : k < w.off =>
                   Entry(k)'.name # w.src.name /\ Entry(k)'.inum # w.src.inum
    <3>1. call.op = "open" => \A k \in Nat : k < w.off => Entry(k)' = Entry(k)
      BY <1>3, <1>8
    <3> QED
      BY <1>2, <3>1 DEF WriteInv, Calling
  <2> QED
    BY <1>1, <1>2, <1>6, <1>7, <2>1, <2>2, <2>3 DEF WriteInv, Calling, Growing
<1>12. FileTypes' /\ FileInv'
  <2>1. \A j \in Inum : dinode'[j].type = dinode[j].type /\ dinode'[j].size \in Nat
                        /\ dinode[j].size <= dinode'[j].size
    BY <1>1, MaxFileNat DEF Inv, DiskInv, DiskTypes, Dinode
  <2> QED
    BY <1>1, <1>2, <1>7, <2>1, WriteiKeeps DEF Calling
<1> QED
  BY <1>9, <1>10, <1>11, <1>12 DEF Inv

\* A file that has not grown is as its dinode says.
LEMMA EndStays ==
  ASSUME Inv, WriteiEnd, ~(w.n > 0 /\ At > Ip.size), UNCHANGED <<file, ofile, call>>
  PROVE  Inv'
<1> DEFINE i == w.ino
<1>1. /\ pc = "writei" /\ pc' = "writei_ret" /\ w.tot = w.n
      /\ UNCHANGED <<bitmap, dinode, block, ref, ivalid, inode, w>>
  BY DEF WriteiEnd
<1>2. CacheTypes /\ CacheInv /\ WriteInv /\ Growing /\ ~Growing'
  BY <1>1 DEF Inv, Growing
<1>3. /\ i \in Inum /\ ivalid[i] /\ w.off \in Nat /\ w.n \in Nat
      /\ w.off <= dinode[i].size /\ Ahead(dinode[i], inode[i])
      /\ inode[i] # dinode[i] => w.off + w.n > dinode[i].size
  BY <1>2 DEF WriteInv, CacheInv, Calling
<1>4. dinode[i].size \in Nat /\ inode[i].size = dinode[i].size
  BY <1>3, MaxFileNat DEF Inv, DiskInv, DiskTypes, Dinode, Ahead
<1>5. w.off + w.n <= dinode[i].size /\ inode[i] = dinode[i]
  BY <1>1, <1>3, <1>4 DEF At, Ip
<1>6. DiskInv'
  BY <1>1, <1>2, DiskRests DEF disk
<1>7. CacheTypes' /\ CacheInv'
  BY <1>1, <1>2, <1>5 DEF CacheTypes, CacheInv
<1>8. WriteInv'
  BY <1>1, <1>2, <1>5 DEF WriteInv, Calling, Growing
<1>9. FileTypes' /\ FileInv'
  <2>1. \A j \in Inum : dinode'[j].type = dinode[j].type /\ dinode'[j].size \in Nat
                        /\ dinode[j].size <= dinode'[j].size
    BY <1>1, MaxFileNat DEF Inv, DiskInv, DiskTypes, Dinode
  <2> QED
    BY <1>1, <1>2, <2>1, WriteiKeeps DEF Calling
<1> QED
  BY <1>6, <1>7, <1>8, <1>9 DEF Inv

\* iupdate of a file that has grown: the disk has the size and the numbers of memory.
LEMMA FileGrown ==
  ASSUME Inv, WriteiEnd, w.n > 0, At > Ip.size
  PROVE  /\ w.ino \in Inum /\ w.off \in Nat /\ w.off <= dinode[w.ino].size
         /\ At = w.off + w.n /\ At \in 0 .. MAXFILE /\ At > dinode[w.ino].size
         /\ dinode'[w.ino] \in Dinode /\ dinode'[w.ino].size = At
         /\ dinode'[w.ino].type = dinode[w.ino].type
         /\ \A j \in Inum : inode'[j] = IF j = w.ino THEN dinode'[w.ino] ELSE inode[j]
         /\ \A j \in Inum : j # w.ino => dinode'[j] = dinode[j]
         /\ inode' \in [Inum -> Dinode] /\ dinode' \in [Inum -> Dinode]
         /\ \A j \in Inum : OnDisk'[j] = InUse[j] /\ InUse'[j] = OnDisk'[j]
         /\ \A j \in Inum \ {w.ino} : OnDisk'[j] = OnDisk[j]
<1> DEFINE i == w.ino
           d == [inode[i] EXCEPT !.size = At]
<1>1. /\ pc = "writei" /\ pc' = "writei_ret" /\ w.tot = w.n
      /\ inode' = [inode EXCEPT ![i].size = At] /\ dinode' = [dinode EXCEPT ![i] = inode'[i]]
      /\ UNCHANGED <<bitmap, block, ref, ivalid, w>>
  BY DEF WriteiEnd
<1>2. CacheTypes /\ CacheInv /\ WriteInv /\ Growing /\ ~Growing' /\ DiskTypes
  BY <1>1 DEF Inv, Growing, DiskInv
<1>3. /\ i \in Inum /\ ivalid[i] /\ w.off \in Nat /\ w.n \in Nat /\ w.off + w.n <= MAXFILE
      /\ w.off <= dinode[i].size /\ Ahead(dinode[i], inode[i])
  BY <1>2 DEF WriteInv, CacheInv, Calling
<1>4. /\ dinode[i] \in Dinode /\ inode[i] \in Dinode /\ dinode[i].size \in Nat
      /\ inode[i].size = dinode[i].size /\ inode[i].type = dinode[i].type
  BY <1>2, <1>3, MaxFileNat DEF DiskTypes, CacheTypes, Dinode, Ahead
<1>5. At = w.off + w.n /\ At \in 0 .. MAXFILE /\ At > dinode[i].size
  BY <1>1, <1>3, <1>4, MaxFileNat DEF At, Ip
<1>6. /\ d \in Dinode /\ d.size = At /\ d.type = dinode[i].type /\ d.addrs = inode[i].addrs
      /\ \A j \in Inum : inode'[j] = IF j = i THEN d ELSE inode[j]
      /\ \A j \in Inum : dinode'[j] = IF j = i THEN d ELSE dinode[j]
      /\ inode' \in [Inum -> Dinode] /\ dinode' \in [Inum -> Dinode]
  <2>1. inode \in [Inum -> Dinode] /\ dinode \in [Inum -> Dinode]
    BY <1>2 DEF CacheTypes, DiskTypes
  <2>2. /\ d \in Dinode /\ d.size = At /\ d.type = dinode[i].type /\ d.addrs = inode[i].addrs
    BY <1>4, <1>5 DEF Dinode
  <2>3. inode' = [inode EXCEPT ![i] = d]
    BY <1>1
  <2> HIDE DEF d, i
  <2> QED
    BY <1>1, <1>3, <2>1, <2>2, <2>3
<1> HIDE DEF d
<1>7. /\ \A j \in Inum : OnDisk'[j] = InUse[j] /\ InUse'[j] = OnDisk'[j]
      /\ \A j \in Inum \ {i} : OnDisk'[j] = OnDisk[j]
  <2>1. OnDisk'[i] = InUse[i]
    BY <1>1, <1>2, <1>3, <1>6, NumbersInUse, NumbersOnDisk
  <2>2. \A j \in Inum \ {i} : OnDisk'[j] = OnDisk[j] /\ InUse[j] = OnDisk[j]
    BY <1>1, <1>6, NumbersInUse, NumbersOnDisk
  <2>3. \A j \in Inum : InUse'[j] = OnDisk'[j]
    BY <1>2, NumbersInUse
  <2> QED
    BY <2>1, <2>2, <2>3
<1> QED
  BY <1>3, <1>5, <1>6, <1>7

\* One that has grown: iupdate brings its numbers and its size to the disk, and with
\* the size of the root the new entry.
LEMMA EndGrows ==
  ASSUME Inv, WriteiEnd, w.n > 0, At > Ip.size, UNCHANGED <<file, ofile, call>>
  PROVE  Inv'
<1> DEFINE i == w.ino
           d == dinode'[w.ino]
<1>1. /\ pc = "writei" /\ pc' = "writei_ret" /\ w.tot = w.n
      /\ UNCHANGED <<bitmap, block, ref, ivalid, w>>
  BY DEF WriteiEnd
<1>2. CacheTypes /\ CacheInv /\ WriteInv /\ Growing /\ ~Growing' /\ DiskTypes
  BY <1>1 DEF Inv, Growing, DiskInv
<1>3. /\ i \in Inum /\ ivalid[i] /\ w.off \in Nat /\ w.n \in Nat /\ w.off + w.n <= MAXFILE
      /\ w.off <= dinode[i].size /\ Ahead(dinode[i], inode[i])
  BY <1>2 DEF WriteInv, CacheInv, Calling
<1>4. dinode[i].size \in Nat
  BY <1>2, <1>3, MaxFileNat DEF DiskTypes, Dinode
<1>5. At = w.off + w.n /\ At \in 0 .. MAXFILE /\ At > dinode[i].size
  BY FileGrown
<1>6. /\ d \in Dinode /\ d.size = At /\ d.type = dinode[i].type
      /\ \A j \in Inum : inode'[j] = IF j = i THEN d ELSE inode[j]
      /\ \A j \in Inum : dinode'[j] = IF j = i THEN d ELSE dinode[j]
      /\ inode' \in [Inum -> Dinode] /\ dinode' \in [Inum -> Dinode]
  BY FileGrown
<1> HIDE DEF d
<1>7. /\ \A j \in Inum : OnDisk'[j] = InUse[j] /\ InUse'[j] = OnDisk'[j]
      /\ \A j \in Inum \ {i} : OnDisk'[j] = OnDisk[j]
  BY FileGrown
<1>8. \A j \in Inum, k \in Nat : k < dinode[j].size =>
        OnDisk'[j][PlaceOf(k \div PB)] = OnDisk[j][PlaceOf(k \div PB)]
  BY <1>7, CellCovered
<1>9. Once(InUse', bitmap')
  BY <1>1, <1>7 DEF Once, Inv, DiskInv
<1>10. Covered(OnDisk', dinode')
  <2> SUFFICES ASSUME NEW j \in Inum, NEW k \in Nat, k < dinode'[j].size
               PROVE  OnDisk'[j][PlaceOf(k \div PB)] # Zero
    BY DEF Covered
  <2>1. CASE k < dinode[j].size
    <3>1. OnDisk[j][PlaceOf(k \div PB)] \in Blk
      BY <2>1, CellCovered
    <3> QED
      BY <1>8, <2>1, <3>1, Constants
  <2>2. CASE ~(k < dinode[j].size)
    <3>1. j = i /\ w.off <= k /\ k < w.off + w.tot
      BY <1>1, <1>3, <1>4, <1>5, <1>6, <2>2
    <3>2. InUse[w.ino][PlaceOf(k \div PB)] # Zero
      BY <1>2, <3>1 DEF WriteInv, Calling
    <3> QED
      BY <1>3, <1>7, <3>1, <3>2
  <2> QED
    BY <2>1, <2>2
<1>11. \A j \in Inum : dinode'[j].type = dinode[j].type /\ dinode'[j].size \in Nat
                       /\ dinode[j].size <= dinode'[j].size
  <2>1. \A j \in Inum : dinode[j].size \in Nat
    BY <1>2, MaxFileNat DEF DiskTypes, Dinode
  <2> QED
    BY <1>5, <1>6, <2>1, MaxFileNat
<1>12. DiskTypes'
  BY <1>1, <1>2, <1>6, <1>11 DEF DiskTypes
<1>13. \A k \in Nat : k < dinode[ROOTINO].size => Entry(k)' = Entry(k)
  BY <1>1, <1>8, Constants DEF Entry
<1>14. Entries'
  <2>1. CASE i # ROOTINO
    <3>1. dinode'[ROOTINO] = dinode[ROOTINO]
      BY <1>6, <2>1, Constants
    <3>2. Entries
      BY DEF Inv, DiskInv
    <3>3. \A k \in Nat : k < dinode[ROOTINO].size =>
            Entry(k)' \in Dirents /\ dinode'[Entry(k)'.inum].type # "free"
      BY <1>11, <1>13, <3>2 DEF Entries, Dirents
    <3> QED
      BY <1>13, <3>1, <3>2, <3>3 DEF Entries
  <2>2. CASE i = ROOTINO
    <3> DEFINE o == w.off
               x == w.src
    <3>1. /\ w.n = 1 /\ x \in Dirents /\ x.inum = call.ino /\ call.ino # ROOTINO
          /\ dinode[x.inum].type = "file" /\ o = dinode[ROOTINO].size
          /\ \A k \in Nat : k < o => Entry(k).name # x.name /\ Entry(k).inum # x.inum
          /\ block[InUse[ROOTINO][PlaceOf(o \div PB)]][o % PB] = x
      BY <1>1, <1>2, <2>2 DEF WriteInv, Calling
    <3>2. dinode'[ROOTINO].size = o + 1 /\ o \in Nat
      BY <1>3, <1>5, <1>6, <2>2, <3>1
    <3>3. \A k \in Nat : k = o => Entry(k)' = x
      BY <1>1, <1>7, <3>1, Constants DEF Entry
    <3> HIDE DEF o, x
    <3>4. \A k \in Nat : k < o => Entry(k)' = Entry(k)
      BY <1>13, <3>1
    <3>5. \A k \in Nat : k < o + 1 => k < o \/ k = o
      BY <3>2
    <3>6. \A k \in Nat : k < o =>
            /\ Entry(k) \in Dirents /\ dinode[Entry(k).inum].type # "free"
            /\ \A l \in Nat : l < o /\ k # l =>
                 /\ Entry(k).name # Entry(l).name
                 /\ Entry(k).inum = Entry(l).inum => Entry(k).inum = ROOTINO
      BY <3>1 DEF Inv, DiskInv, Entries
    <3>7. \A k \in Nat : k < o + 1 => Entry(k)' \in Dirents /\ dinode'[Entry(k)'.inum].type # "free"
      <4>1. \A k \in Nat : k < o => Entry(k)' \in Dirents /\ dinode'[Entry(k)'.inum].type # "free"
        BY <1>11, <3>4, <3>6 DEF Dirents
      <4>2. \A k \in Nat : k = o => Entry(k)' \in Dirents /\ dinode'[Entry(k)'.inum].type # "free"
        BY <1>11, <3>1, <3>3 DEF Dirents
      <4> QED
        BY <3>5, <4>1, <4>2
    <3>8. \A k, l \in Nat : k < o + 1 /\ l < o + 1 /\ k # l =>
            /\ Entry(k)'.name # Entry(l)'.name
            /\ Entry(k)'.inum = Entry(l)'.inum => Entry(k)'.inum = ROOTINO
      <4> SUFFICES ASSUME NEW k \in Nat, NEW l \in Nat, k < o + 1, l < o + 1, k # l
                   PROVE  /\ Entry(k)'.name # Entry(l)'.name
                          /\ Entry(k)'.inum = Entry(l)'.inum => Entry(k)'.inum = ROOTINO
        OBVIOUS
      <4>1. CASE k < o /\ l < o
        BY <3>4, <3>6, <4>1
      <4>2. CASE k < o /\ l = o
        BY <3>1, <3>3, <3>4, <4>2
      <4>3. CASE k = o /\ l < o
        BY <3>1, <3>3, <3>4, <4>3
      <4> QED
        BY <3>5, <4>1, <4>2, <4>3
    <3> QED
      BY <3>2, <3>7, <3>8 DEF Entries
  <2> QED
    BY <2>1, <2>2
<1>15. DiskInv'
  BY <1>9, <1>10, <1>12, <1>14 DEF DiskInv
<1>16. CacheTypes' /\ CacheInv'
  BY <1>1, <1>2, <1>6 DEF CacheTypes, CacheInv
<1>17. WriteInv'
  <2>1. w.off + w.n <= dinode'[i].size
    BY <1>3, <1>5, <1>6
  <2>2. call.op = "open" => dinode'[call.ino].type = "file"
    <3>1. call.op = "open" => call.ino \in Inum /\ dinode[call.ino].type = "file"
      BY <1>2 DEF WriteInv, Calling, Dirents
    <3> QED
      BY <1>11, <3>1
  <2> QED
    BY <1>1, <1>2, <2>1, <2>2 DEF WriteInv, Calling, Growing
<1>18. FileTypes' /\ FileInv'
  BY <1>1, <1>2, <1>11, WriteiKeeps DEF Calling
<1> QED
  BY <1>15, <1>16, <1>17, <1>18 DEF Inv

-----------------------------------------------------------------------------
(* Every step                                                              *)

LEMMA InvStep == Inv /\ [Next]_vars => Inv'
<1> SUFFICES ASSUME Inv, [Next]_vars PROVE Inv'
  OBVIOUS
<1>1. ASSUME NEW path \in Paths, NEW mode \in Modes, OpenNoCreate(path, mode)
      PROVE  Inv'
  BY <1>1, OpenNoCreateStep
<1>2. ASSUME NEW path \in Paths, NEW mode \in Modes, OpenCreateOld(path, mode)
      PROVE  Inv'
  BY <1>2, OpenCreateOldStep
<1>3. ASSUME NEW path \in Paths, NEW mode \in Modes, OpenCreateNew(path, mode)
      PROVE  Inv'
  BY <1>3, OpenCreateNewStep
<1>4. CASE OpenCreated
  BY <1>4, OpenCreatedStep
<1>5. CASE OpenFile
  BY <1>5, OpenFileStep
<1>6. ASSUME NEW d \in Fds, Close(d)
      PROVE  Inv'
  BY <1>6, CloseStep
<1>7. ASSUME NEW d \in Fds, NEW n \in Sizes, Read(d, n)
      PROVE  Inv'
  BY <1>7, ReadStep, FileAssumption DEF FileAssumption
<1>8. ASSUME NEW d \in Fds, NEW n \in Sizes, NEW v \in Values, Write(d, v, n)
      PROVE  Inv'
  BY <1>8, WriteStep, FileAssumption DEF FileAssumption
<1>9. CASE WriteReturn
  BY <1>9, WriteReturnStep
<1>10. CASE Writei /\ UNCHANGED <<file, ofile, call, result, calls, crashes>>
  <2>1. UNCHANGED <<file, ofile, call>>
    BY <1>10
  <2>2. CASE Balloc
    BY <2>1, <2>2, BallocStep
  <2>3. CASE Bzero
    BY <2>1, <2>3, BzeroStep
  <2>4. CASE Assign
    BY <2>1, <2>4, AssignStep
  <2>5. CASE WriteBlock
    BY <2>1, <2>5, WriteBlockStep
  <2>6. CASE WriteiEnd
    BY <2>1, <2>6, EndStays, EndGrows
  <2> QED
    BY <1>10, <2>2, <2>3, <2>4, <2>5, <2>6 DEF Writei
<1>11. CASE PowerFails
  BY <1>11, PowerFailsStep
<1>12. CASE UNCHANGED vars
  <2>1. UNCHANGED <<disk, icache, pc, w, fresh, file, ofile, call>>
    BY <1>12 DEF vars, fsvars
  <2>2. InUse' = InUse
    BY <2>1 DEF InUse, Growing, disk, icache
  <2>3. DiskInv'
    BY <2>1, <2>2, DiskKept
  <2>4. CASE pc = "panic"
    BY <2>1, <2>3, <2>4 DEF Inv
  <2>5. CASE pc # "panic"
    <3>1. CacheTypes /\ CacheInv /\ WriteInv /\ FileTypes /\ FileInv
      BY <2>5 DEF Inv
    <3>2. CacheTypes' /\ CacheInv'
      BY <2>1, <3>1 DEF CacheTypes, CacheInv, Growing, disk, icache
    <3>3. FileTypes'
      BY <2>1, <3>1 DEF FileTypes
    <3>4. FileInv'
      <4>1. \A j \in Inum : FilesOf(j)' = FilesOf(j) /\ (Took(j)' <=> Took(j))
        BY <2>1 DEF FilesOf, Took, Calling, Growing
      <4>2. Balanced'
        BY <2>1, <3>1, <4>1, CallKeeps DEF FileInv, icache
      <4> QED
        BY <2>1, <3>1, <4>2 DEF FileInv, disk, icache
    <3>5. WriteInv'
      <4>1. Missing' = Missing
        BY <2>1 DEF Missing, Bmap, Ip, At, disk, icache
      <4>2. \A k : Entry(k)' = Entry(k)
        BY <2>1 DEF Entry, OnDisk, disk
      <4> QED
        BY <2>1, <2>2, <3>1, <4>1, <4>2 DEF WriteInv, Calling, Growing, disk, icache
    <3> QED
      BY <2>3, <3>2, <3>3, <3>4, <3>5 DEF Inv
  <2> QED
    BY <2>4, <2>5
<1> QED
  BY <1>1, <1>2, <1>3, <1>4, <1>5, <1>6, <1>7, <1>8, <1>9, <1>10, <1>11, <1>12 DEF Next

\* Whatever the calls do and whenever power fails, a block in use is marked and has one
\* place, memory is ahead of the disk only in the inode writei grows, and every reference
\* is a file's or the call's: the order of the writes of fs.c and the error paths of
\* sysfile.c keep it so.
THEOREM FileInvariant == Spec => []Inv
<1> QED
  BY InitInv, InvStep, PTL DEF Spec

\* After each bwrite of balloc, bmap, writei, ialloc and dirlink (fs.c) the disk is an
\* image from which the kernel can boot: DiskConsistent, for every size of the disk.
THEOREM FileDiskConsistent == Spec => []DiskConsistent
<1> QED
  BY FileInvariant, InvConsistent, PTL

-----------------------------------------------------------------------------
(* References                                                              *)

LEMMA InvBalance == Inv => ReferencesBalance
<1> SUFFICES ASSUME Inv, pc = "user" PROVE
      /\ \A i \in Inum : ref[i] = Cardinality({f \in Files : file[f].ref > 0 /\ file[f].ip = i})
      /\ \A f \in Files : file[f].ref = Cardinality({d \in Fds : ofile[d] = f})
      /\ \A i \in Inum : ivalid[i] => ref[i] > 0 /\ inode[i] = dinode[i]
  BY DEF ReferencesBalance
<1>1. CacheInv /\ FileTypes /\ FileInv
  BY DEF Inv
<1>2. ASSUME NEW i \in Inum
      PROVE  ref[i] = Cardinality({f \in Files : file[f].ref > 0 /\ file[f].ip = i})
  <2>1. (IF Took(i) THEN 1 ELSE 0) = 0
    BY DEF Took, Calling, Growing
  <2>2. ref[i] = Cardinality(FilesOf(i)) + IF Took(i) THEN 1 ELSE 0
    BY <1>1 DEF FileInv, Balanced
  <2> QED
    BY <2>1, <2>2, FilesFinite DEF FilesOf
<1>3. ASSUME NEW f \in Files
      PROVE  file[f].ref = Cardinality({d \in Fds : ofile[d] = f})
  <2> DEFINE holds == {d \in Fds : ofile[d] = f}
  <2>1. file[f].ref \in {0, 1} /\ f # NoFile
    BY <1>1, FileAssumption DEF FileTypes, FileAssumption, Files, NoFile
  <2>2. CASE file[f].ref = 0
    <3>1. holds = {}
      BY <1>1, <2>2 DEF FileInv
    <3> QED
      BY <2>2, <3>1, FS_EmptySet
  <2>3. CASE file[f].ref = 1
    <3>1. PICK d \in Fds : ofile[d] = f
      BY <1>1, <2>3 DEF FileInv
    <3>2. holds = {d}
      BY <1>1, <2>1, <3>1 DEF FileInv
    <3> QED
      BY <2>3, <3>2, FS_Singleton
  <2> QED
    BY <2>1, <2>2, <2>3
<1>4. \A i \in Inum : ivalid[i] => ref[i] > 0 /\ inode[i] = dinode[i]
  BY <1>1 DEF FileInv, CacheInv, Growing
<1> QED
  BY <1>2, <1>3, <1>4

\* Between calls no reference to an inode, a file of ftable or a descriptor is lost or
\* held twice (file.c, sysfile.c), for every number of files, descriptors and inodes.
THEOREM FileReferencesBalance == Spec => []ReferencesBalance
<1> QED
  BY FileInvariant, InvBalance, PTL

-----------------------------------------------------------------------------
(***************************************************************************)
(* The user sees FileStore.  What that needs beyond Inv: the root begins   *)
(* with "." and "..", what is opened can be reached, a new file is empty   *)
(* and the cells writei has come past hold what is written.                *)
(***************************************************************************)
Cell(i, k) == block[OnDisk[i][PlaceOf(k \div PB)]][k % PB]

Dots == /\ dinode[ROOTINO].size >= 2
        /\ Entry(0) = Dirent(ROOTINO, ".") /\ Entry(1) = Dirent(ROOTINO, "..")

Reachable == {NoInum, ROOTINO} \cup {Dir[name] : name \in Names}

CallStore ==
  /\ pc = "filealloc" => call.ino \in Reachable
  /\ Calling /\ call.op = "open" =>
       /\ dinode[call.ino].size = 0
       /\ Growing => w.src.name \in Names
       /\ pc = "writei_ret" => call.ino \in Reachable
  /\ Calling /\ call.op = "write" =>
       \A k \in Nat : w.off <= k /\ k < w.off + w.tot =>
         block[InUse[w.ino][PlaceOf(k \div PB)]][k % PB] = w.src

StoreInv == Dots /\ (pc # "panic" => CallStore)

MappedNext == [Promise!Next]_<<Dir, Content, Opened, Pending, result>>

\* What readi finds in a file, from off.
LEMMA FileCells ==
  ASSUME NEW i \in Inum, NEW off \in Nat, NEW n \in Nat, Inv
  PROVE  Readi(dinode[i], off, n) =
           [k \in 1 .. (IF n <= dinode[i].size - off THEN n ELSE dinode[i].size - off)
              |-> Cell(i, off + k - 1)]
<1> DEFINE d == dinode[i]
           got == Readi(d, off, n)
           m == IF n <= d.size - off THEN n ELSE d.size - off
<1>1. d.size \in 0 .. MAXFILE /\ OnDisk[i] = NumbersOf(block, d.addrs)
  BY NumbersOnDisk DEF Inv, DiskInv, DiskTypes, Dinode
<1> HIDE DEF d
<1>2. /\ DOMAIN got = 1 .. m
      /\ \A k \in 1 .. m : got[k] = block[NumbersOf(block, d.addrs)[PlaceOf((off + k - 1) \div PB)]]
                                         [(off + k - 1) % PB]
  <2>1. /\ DOMAIN Readi(d, off, n) = 1 .. (IF n <= d.size - off THEN n ELSE d.size - off)
        /\ \A k \in DOMAIN Readi(d, off, n) :
             /\ off + k - 1 \in Nat /\ off + k - 1 < d.size
             /\ Readi(d, off, n)[k] =
                  block[NumbersOf(block, d.addrs)[PlaceOf((off + k - 1) \div PB)]]
                       [(off + k - 1) % PB]
    BY <1>1, ReadiCells
  <2> HIDE DEF m, got
  <2>2. DOMAIN got = 1 .. m
    BY <2>1 DEF m, got
  <2> QED
    BY <2>1, <2>2 DEF got
<1>3. \A k \in 1 .. m : got[k] = Cell(i, off + k - 1)
  BY <1>1, <1>2 DEF Cell
<1>4. got = [k \in DOMAIN got |-> got[k]]
  BY DEF Readi
<1> HIDE DEF got, m
<1>5. got = [k \in 1 .. m |-> Cell(i, off + k - 1)]
  BY <1>2, <1>3, <1>4
<1> QED
  BY <1>5 DEF got, m, d

\* The content of a file, cell by cell.
ContentIs == \A i \in Inum :
  Content[i] = IF dinode[i].type = "file" THEN [k \in 1 .. dinode[i].size |-> Cell(i, k - 1)]
                                          ELSE <<>>

LEMMA Contents == Inv => ContentIs
<1> SUFFICES ASSUME Inv, NEW i \in Inum
             PROVE  Content[i] = IF dinode[i].type = "file"
                                   THEN [k \in 1 .. dinode[i].size |-> Cell(i, k - 1)] ELSE <<>>
  BY DEF ContentIs
<1> DEFINE size == dinode[i].size
<1>1. size \in Nat
  BY MaxFileNat DEF Inv, DiskInv, DiskTypes, Dinode
<1>2. Readi(dinode[i], 0, size) = [k \in 1 .. size |-> Cell(i, k - 1)]
  <2>1. Readi(dinode[i], 0, size) =
          [k \in 1 .. (IF size <= dinode[i].size - 0 THEN size ELSE dinode[i].size - 0)
             |-> Cell(i, 0 + k - 1)]
    BY <1>1, FileCells
  <2>2. (IF size <= dinode[i].size - 0 THEN size ELSE dinode[i].size - 0) = size
    BY <1>1
  <2>3. \A k \in 1 .. size : 0 + k - 1 = k - 1
    BY <1>1
  <2> HIDE DEF size
  <2> QED
    BY <2>1, <2>2, <2>3
<1> QED
  BY <1>2 DEF Content

LEMMA ContentsNext == Inv' => ContentIs'
  BY Contents, PTL

\* What a name leads to.
DirIs == \A name \in Names :
  \/ Dir[name] = NoInum /\ \A k \in Nat : k < dinode[ROOTINO].size => Entry(k).name # name
  \/ \E k \in Nat : k < dinode[ROOTINO].size /\ Entry(k).name = name /\ Dir[name] = Entry(k).inum

\* dirlookup finds an entry with the name, if there is one.
LEMMA DirlookupEntry ==
  ASSUME NEW name, Inv, Dirlookup(dinode[ROOTINO], name) # NoInum
  PROVE  \E k \in Nat : /\ k < dinode[ROOTINO].size /\ Entry(k).name = name
                        /\ Dirlookup(dinode[ROOTINO], name) = Entry(k).inum
<1> DEFINE cells == Readi(dinode[ROOTINO], 0, dinode[ROOTINO].size)
           found == {k \in DOMAIN cells : cells[k] # Zero /\ cells[k].name = name}
<1>1. cells = RootCells
  BY DEF RootCells
<1>2. found \in SUBSET Nat
  BY <1>1, RootEntries, MaxFileNat
<1>3. Dirlookup(dinode[ROOTINO], name) = IF found = {} THEN NoInum ELSE cells[Min(found)].inum
  BY DEF Dirlookup
<1>4. \A k \in found : /\ k - 1 \in Nat /\ k - 1 < dinode[ROOTINO].size
                       /\ cells[k] = Entry(k - 1) /\ Entry(k - 1).name = name
  BY <1>1, RootEntries, MaxFileNat
<1> HIDE DEF cells, found
<1>5. found # {}
  BY <1>3
<1>6. Min(found) \in found
  BY <1>2, <1>5, LeastOf
<1>7. Dirlookup(dinode[ROOTINO], name) = cells[Min(found)].inum
  BY <1>3, <1>5
<1> QED
  BY <1>4, <1>6, <1>7

LEMMA DirSays == Inv => DirIs
<1> SUFFICES ASSUME Inv, NEW name \in Names
             PROVE  \/ Dir[name] = NoInum
                       /\ \A k \in Nat : k < dinode[ROOTINO].size => Entry(k).name # name
                    \/ \E k \in Nat : /\ k < dinode[ROOTINO].size /\ Entry(k).name = name
                                      /\ Dir[name] = Entry(k).inum
  BY DEF DirIs
<1>1. Dir[name] = Dirlookup(dinode[ROOTINO], name)
  BY DEF Dir
<1>2. CASE Dirlookup(dinode[ROOTINO], name) = NoInum
  BY <1>1, <1>2, DirlookupNamed
<1>3. CASE Dirlookup(dinode[ROOTINO], name) # NoInum
  BY <1>1, <1>3, DirlookupEntry
<1> QED
  BY <1>2, <1>3

LEMMA DirSaysNext == Inv' => DirIs'
  BY DirSays, PTL

-----------------------------------------------------------------------------
(* What a step leaves as it was                                            *)

LEMMA ContentStays ==
  ASSUME NEW i \in Inum, Inv, Inv',
         dinode[i].type = "file" =>
           /\ dinode'[i].type = "file" /\ dinode'[i].size = dinode[i].size
           /\ \A k \in Nat : k < dinode[i].size => Cell(i, k)' = Cell(i, k),
         dinode[i].type # "file" => dinode'[i].type # "file" \/ dinode'[i].size = 0
  PROVE  Content'[i] = Content[i]
<1>1. /\ Content[i] = IF dinode[i].type = "file"
                        THEN [k \in 1 .. dinode[i].size |-> Cell(i, k - 1)] ELSE <<>>
      /\ Content'[i] = IF dinode'[i].type = "file"
                         THEN [k \in 1 .. dinode'[i].size |-> Cell(i, k - 1)'] ELSE <<>>
  BY Contents, ContentsNext DEF ContentIs
<1>2. dinode[i].size \in Nat
  BY MaxFileNat DEF Inv, DiskInv, DiskTypes, Dinode
<1>3. CASE dinode[i].type = "file"
  <2>1. \A k \in 1 .. dinode[i].size : Cell(i, k - 1)' = Cell(i, k - 1)
    BY <1>2, <1>3
  <2> QED
    BY <1>1, <1>3, <2>1
<1>4. CASE dinode[i].type # "file"
  BY <1>1, <1>4
<1> QED
  BY <1>3, <1>4

LEMMA DirStays ==
  ASSUME Inv, Inv', dinode'[ROOTINO].size = dinode[ROOTINO].size,
         \A k \in Nat : k < dinode[ROOTINO].size => Entry(k)' = Entry(k)
  PROVE  Dir' = Dir /\ (Dots => Dots')
<1>1. ASSUME NEW name \in Names
      PROVE  Dir'[name] = Dir[name]
  <2> DEFINE size == dinode[ROOTINO].size
  <2>1. \/ Dir[name] = NoInum /\ \A k \in Nat : k < size => Entry(k).name # name
        \/ \E k \in Nat : k < size /\ Entry(k).name = name /\ Dir[name] = Entry(k).inum
    BY DirSays DEF DirIs
  <2>2. \/ Dir'[name] = NoInum /\ \A k \in Nat : k < size => Entry(k).name # name
        \/ \E k \in Nat : k < size /\ Entry(k).name = name /\ Dir'[name] = Entry(k).inum
    <3>1. \/ Dir'[name] = NoInum /\ \A k \in Nat : k < size => Entry(k)'.name # name
          \/ \E k \in Nat : k < size /\ Entry(k)'.name = name /\ Dir'[name] = Entry(k)'.inum
      BY DirSaysNext DEF DirIs
    <3> QED
      BY <3>1
  <2>3. \A k, l \in Nat : k < size /\ l < size /\ Entry(k).name = Entry(l).name => k = l
    BY DEF Inv, DiskInv, Entries
  <2> HIDE DEF size
  <2> QED
    BY <2>1, <2>2, <2>3
<1>2. Dir' = Dir
  BY <1>1 DEF Dir
<1>3. Dots => Dots'
  <2>1. dinode[ROOTINO].size \in Nat
    BY MaxFileNat, Constants DEF Inv, DiskInv, DiskTypes, Dinode
  <2> QED
    BY <2>1 DEF Dots
<1> QED
  BY <1>2, <1>3

LEMMA DiskShows ==
  ASSUME UNCHANGED disk
  PROVE  Dir' = Dir /\ Content' = Content /\ (Dots => Dots')
  BY DEF disk, Dir, Content, Dots, Entry, OnDisk, Dirlookup, Readi, Bmap

LEMMA StoreRests ==
  ASSUME Inv, StoreInv, UNCHANGED disk, ~Calling', pc' = "filealloc" => call'.ino \in Reachable
  PROVE  StoreInv' /\ Dir' = Dir /\ Content' = Content
  BY DiskShows DEF StoreInv, CallStore, Reachable

LEMMA NotWriting ==
  ASSUME Inv, pc \in {"user", "filealloc"}
  PROVE  Pending = Promise!NoWrite
  BY DEF Inv, FileInv, Pending, Promise!NoWrite

-----------------------------------------------------------------------------
(* Names and paths                                                         *)

LEMMA LookupReachable ==
  ASSUME NEW name, Inv, Dots
  PROVE  /\ Dirlookup(dinode[ROOTINO], name) \in Reachable
         /\ name \in {".", ".."} => Dirlookup(dinode[ROOTINO], name) # NoInum
<1> DEFINE size == dinode[ROOTINO].size
           i == Dirlookup(dinode[ROOTINO], name)
<1>1. /\ size >= 2 /\ size \in Nat
      /\ Entry(0).name = "." /\ Entry(0).inum = ROOTINO
      /\ Entry(1).name = ".." /\ Entry(1).inum = ROOTINO
  BY MaxFileNat, Constants DEF Dots, Dirent, Inv, DiskInv, DiskTypes, Dinode
<1>2. \A k, l \in Nat : k < size /\ l < size /\ Entry(k).name = Entry(l).name => k = l
  BY DEF Inv, DiskInv, Entries
<1>3. ASSUME i # NoInum
      PROVE  i \in Reachable
  <2>1. PICK k \in Nat : k < size /\ Entry(k).name = name /\ i = Entry(k).inum
    BY <1>3, DirlookupEntry
  <2>2. name \in Names \cup {".", ".."}
    BY <2>1 DEF Inv, DiskInv, Entries, Dirents
  <2>3. CASE name \in Names
    BY <2>3 DEF Reachable, Dir
  <2> HIDE DEF i, size
  <2>4. CASE name = "."
    <3>1. k = 0
      BY <1>1, <1>2, <2>1, <2>4
    <3> QED
      BY <1>1, <2>1, <3>1 DEF Reachable
  <2>5. CASE name = ".."
    <3>1. k = 1
      BY <1>1, <1>2, <2>1, <2>5
    <3> QED
      BY <1>1, <2>1, <3>1 DEF Reachable
  <2> QED
    BY <2>2, <2>3, <2>4, <2>5
<1>4. ASSUME i = NoInum, name \in {".", ".."}
      PROVE  FALSE
  <2>1. \A k \in Nat : k < size => Entry(k).name # name
    BY <1>4, DirlookupNamed
  <2> HIDE DEF size
  <2>2. Entry(0).name # name /\ Entry(1).name # name
    BY <1>1, <2>1
  <2> QED
    BY <1>1, <1>4, <2>2
<1> QED
  BY <1>3, <1>4 DEF Reachable

LEMMA ReachableInum ==
  ASSUME NEW i \in Reachable, Inv, i # NoInum
  PROVE  i \in Inum
  BY DirlookupNamed, Constants DEF Reachable, Dir, Named

LEMMA NextElemReachable ==
  ASSUME NEW i \in Reachable, NEW name, Inv, Dots, pc = "user"
  PROVE  NextElem(i, name) \in Reachable
<1>1. CASE i = NoInum
  BY <1>1 DEF NextElem, Reachable
<1>2. CASE i # NoInum
  <2>1. i \in Inum /\ Loaded(i) = dinode[i]
    BY <1>2, ReachableInum, LoadedIsDisk
  <2>2. dinode[i].type = "dir" => i = ROOTINO
    BY <2>1 DEF Inv, DiskInv, DiskTypes
  <2> QED
    BY <1>2, <2>1, <2>2, LookupReachable DEF NextElem, Reachable
<1> QED
  BY <1>1, <1>2

LEMMA PathReachable ==
  ASSUME NEW path \in Paths, Inv, Dots, pc = "user"
  PROVE  Namei(path) \in Reachable
<1>1. Len(path) \in Nat
  BY FileAssumption DEF FileAssumption
<1>2. ROOTINO \in Reachable
  BY DEF Reachable
<1>3. \A i \in Reachable : \A name : NextElem(i, name) \in Reachable
  BY NextElemReachable
<1> QED
  BY <1>1, <1>2, <1>3, WalkIn DEF Namei

-----------------------------------------------------------------------------
(* What the calls promise                                                  *)

LEMMA Unseen ==
  ASSUME Dir' = Dir, Content' = Content, Pending' = Pending, UNCHANGED <<file, ofile, result>>
  PROVE  MappedNext
<1>1. Opened' = Opened
  BY DEF Opened
<1> QED
  BY <1>1 DEF MappedNext

LEMMA CallSeen ==
  ASSUME Dir' = Dir, Content' = Content, Promise!Call
  PROVE  MappedNext
  BY DEF MappedNext, Promise!Next

LEMMA NoEffectSeen ==
  ASSUME NEW n \in Nat \cup {-1}, Inv, pc \in {"user", "filealloc"}, call' = NoCall,
         Dir' = Dir, Content' = Content, UNCHANGED <<file, ofile>>, result' = Returned(n)
  PROVE  MappedNext
<1>1. Opened' = Opened
  BY DEF Opened
<1>2. Pending' = Pending
  <2>1. call'.op = "none"
    BY DEF NoCall
  <2> QED
    BY <2>1, NotWriting DEF Pending, Promise!NoWrite
<1>3. result'.n = n /\ result' = Promise!Returned(n)
  BY DEF Returned, Promise!Returned
<1> QED
  BY <1>1, <1>2, <1>3, CallSeen DEF Promise!Call, Promise!NoEffect

\* A call that has not shown anything yet.
LEMMA CallUnseen ==
  ASSUME Inv, StoreInv, pc = "user", UNCHANGED <<disk, file, ofile, result>>, ~Calling',
         call'.op # "write", pc' = "filealloc" => call'.ino \in Reachable
  PROVE  StoreInv' /\ MappedNext
<1>1. StoreInv' /\ Dir' = Dir /\ Content' = Content
  BY StoreRests
<1>2. Pending' = Pending
  BY NotWriting DEF Pending, Promise!NoWrite
<1> QED
  BY <1>1, <1>2, Unseen

\* A call that returns and has done nothing.
LEMMA ReturnSeen ==
  ASSUME NEW n \in Nat \cup {-1}, Inv, StoreInv, pc \in {"user", "filealloc"}, Return(n),
         UNCHANGED <<disk, file, ofile>>
  PROVE  StoreInv' /\ MappedNext
<1>1. StoreInv' /\ Dir' = Dir /\ Content' = Content
  BY StoreRests DEF Return, Calling, Growing
<1> QED
  BY <1>1, NoEffectSeen DEF Return

LEMMA OpenNoCreateSeen ==
  ASSUME NEW path \in Paths, NEW mode \in Modes, Inv, StoreInv, OpenNoCreate(path, mode)
  PROVE  StoreInv' /\ MappedNext
<1>1. pc = "user" /\ UNCHANGED <<file, ofile>> /\ call.op = "none"
  BY DEF OpenNoCreate, Syscall, Inv, FileInv
<1>2. CASE ~NamexFits(path)
  BY <1>1, <1>2, CallUnseen DEF OpenNoCreate, Panic, Calling, Growing
<1>3. CASE NamexFits(path)
  <2> DEFINE i == OpenTarget(path, mode)
  <2>1. CASE i = NoInum
    BY <1>1, <1>3, <2>1, ReturnSeen DEF OpenNoCreate, fsrest
  <2>2. CASE i # NoInum
    <3>1. i \in Reachable
      BY <1>1, <2>2, PathReachable DEF OpenTarget, StoreInv
    <3>2. /\ call' = [op |-> "open", fd |-> -1, ino |-> i, mode |-> mode]
          /\ pc' = "filealloc" /\ UNCHANGED <<disk, result>>
      BY <1>3, <2>2 DEF OpenNoCreate
    <3> HIDE DEF i
    <3> QED
      BY <1>1, <3>1, <3>2, CallUnseen DEF Calling, Growing
  <2> QED
    BY <2>1, <2>2
<1> QED
  BY <1>2, <1>3

LEMMA OpenCreateOldSeen ==
  ASSUME NEW path \in Paths, NEW mode \in Modes, Inv, StoreInv, OpenCreateOld(path, mode)
  PROVE  StoreInv' /\ MappedNext
<1> DEFINE dp == Nameiparent(path)
           i  == IF dp = NoInum THEN NoInum ELSE Dirlookup(Loaded(dp), Last(path))
<1>1. pc = "user" /\ UNCHANGED <<file, ofile>> /\ call.op = "none"
  BY DEF OpenCreateOld, Syscall, Inv, FileInv
<1>2. CASE ~NamexFits(path)
  BY <1>1, <1>2, CallUnseen DEF OpenCreateOld, Panic, Calling, Growing
<1>3. CASE NamexFits(path)
  <2>1. CASE dp = NoInum \/ Loaded(i).type = "dir"
    BY <1>1, <1>3, <2>1, ReturnSeen DEF OpenCreateOld, fsrest
  <2>2. CASE ~(dp = NoInum \/ Loaded(i).type = "dir")
    <3>1. dp = ROOTINO /\ dp # NoInum
      BY <1>1, <2>2, PathNamed
    <3>2. i = Dirlookup(dinode[ROOTINO], Last(path))
      BY <1>1, <3>1, LoadedIsDisk, Constants
    <3>3. /\ call' = [op |-> "open", fd |-> -1, ino |-> i, mode |-> mode]
          /\ pc' = "filealloc" /\ UNCHANGED <<disk, result>>
      BY <1>3, <2>2 DEF OpenCreateOld
    <3> HIDE DEF i, dp
    <3>4. i \in Reachable
      BY <3>2, LookupReachable DEF StoreInv
    <3> QED
      BY <1>1, <3>3, <3>4, CallUnseen DEF Calling, Growing
  <2> QED
    BY <2>1, <2>2
<1> QED
  BY <1>2, <1>3

-----------------------------------------------------------------------------
(* Descriptors                                                             *)

LEMMA OpenedAt ==
  ASSUME NEW d \in Fds, Inv, pc # "panic"
  PROVE  /\ ofile[d] = NoFile => Opened[d] = Promise!Closed
         /\ ofile[d] # NoFile =>
              /\ ofile[d] \in Files /\ file[ofile[d]].ref = 1 /\ file[ofile[d]].ip \in Inum
              /\ Opened[d] = [ino |-> file[ofile[d]].ip, off |-> file[ofile[d]].off,
                              readable |-> file[ofile[d]].readable,
                              writable |-> file[ofile[d]].writable]
         /\ Promise!IsOpen(d) <=> ofile[d] # NoFile
<1>1. ofile[d] = NoFile => Opened[d] = Promise!Closed
  BY DEF Opened, Promise!Closed
<1>2. ASSUME ofile[d] # NoFile
      PROVE  /\ ofile[d] \in Files /\ file[ofile[d]].ref = 1 /\ file[ofile[d]].ip \in Inum
             /\ Opened[d] = [ino |-> file[ofile[d]].ip, off |-> file[ofile[d]].off,
                             readable |-> file[ofile[d]].readable,
                             writable |-> file[ofile[d]].writable]
  <2>1. ofile[d] \in Files
    BY <1>2 DEF Inv, FileTypes
  <2>2. file[ofile[d]].ref > 0 /\ file[ofile[d]].ref \in {0, 1}
    BY <2>1 DEF Inv, FileTypes, FileInv
  <2> QED
    BY <1>2, <2>1, <2>2 DEF Inv, FileTypes, Opened
<1>3. Promise!IsOpen(d) <=> ofile[d] # NoFile
  BY <1>1, <1>2, Constants DEF Promise!IsOpen, Promise!Closed
<1> QED
  BY <1>1, <1>2, <1>3

\* One descriptor changes: no other has its file.
LEMMA OpenedChanges ==
  ASSUME NEW d \in Fds, NEW f \in Files, NEW entry, Inv, pc # "panic",
         ofile[d] = f \/ file[f].ref = 0,
         \A e \in Fds \ {d} : ofile'[e] = ofile[e],
         \A g \in Files \ {f} : file'[g] = file[g],
         Opened'[d] = entry
  PROVE  Opened' = [Opened EXCEPT ![d] = entry]
<1>1. ASSUME NEW e \in Fds, e # d
      PROVE  Opened'[e] = Opened[e]
  <2>1. ofile'[e] = ofile[e]
    BY <1>1
  <2>2. CASE ofile[e] = NoFile
    BY <2>1, <2>2 DEF Opened
  <2>3. CASE ofile[e] # NoFile
    <3>1. ofile[e] \in Files /\ file[ofile[e]].ref = 1
      BY <2>3, OpenedAt
    <3>2. ofile[e] # f
      BY <1>1, <2>3, <3>1 DEF Inv, FileInv
    <3>3. file'[ofile[e]] = file[ofile[e]]
      BY <3>1, <3>2
    <3> QED
      BY <2>1, <3>3 DEF Opened
  <2> QED
    BY <2>2, <2>3
<1>2. Opened = [e \in Fds |-> Opened[e]] /\ Opened' = [e \in Fds |-> Opened'[e]]
  BY DEF Opened
<1> QED
  BY <1>1, <1>2

LEMMA OpenFileSeen ==
  ASSUME Inv, StoreInv, OpenFile
  PROVE  StoreInv' /\ MappedNext
<1> DEFINE free == {f \in Files : file[f].ref = 0}
           fds  == {d \in Fds : ofile[d] = NoFile}
<1>1. pc = "filealloc" /\ UNCHANGED disk
  BY DEF OpenFile
<1>2. CASE free = {} \/ fds = {}
  BY <1>1, <1>2, ReturnSeen DEF OpenFile
<1>3. CASE ~(free = {} \/ fds = {})
  <2> DEFINE f == Min(free)
             d == Min(fds)
             r == call.mode # "wronly"
             wr == call.mode # "rdonly"
  <2>1. f \in free /\ d \in fds /\ \A e \in fds : d <= e
    <3>1. fds \in SUBSET Nat
      BY FileAssumption DEF FileAssumption, Fds
    <3> QED
      BY <1>3, <3>1, FirstFree, LeastOf
  <2>2. /\ file' = [file EXCEPT ![f] = [ref |-> 1, ip |-> call.ino, off |-> 0,
                                        readable |-> r, writable |-> wr]]
        /\ ofile' = [ofile EXCEPT ![d] = f]
        /\ Return(d)
    BY <1>3 DEF OpenFile
  <2>3. /\ f \in Files /\ file[f].ref = 0 /\ d \in Fds /\ ofile[d] = NoFile
        /\ \A e \in Fds : e < d => ofile[e] # NoFile
    <3>1. \A e \in Fds : e \in Int
      BY DEF Fds
    <3>2. d \in Int /\ \A e \in Fds : e < d => e \notin fds
      <4> HIDE DEF d
      <4> QED
        BY <2>1, <3>1
    <3> QED
      BY <2>1, <3>2
  <2> HIDE DEF free, fds, f, d
  <2>4. /\ DOMAIN file = Files /\ DOMAIN ofile = Fds /\ f # NoFile
    BY <1>1, <2>3, FileAssumption DEF Inv, FileTypes, FileAssumption, Files, NoFile
  <2>5. /\ file'[f] = [ref |-> 1, ip |-> call.ino, off |-> 0, readable |-> r, writable |-> wr]
        /\ ofile'[d] = f
        /\ \A e \in Fds \ {d} : ofile'[e] = ofile[e]
        /\ \A g \in Files \ {f} : file'[g] = file[g]
    BY <2>2, <2>3, <2>4
  <2> DEFINE entry == [ino |-> call.ino, off |-> 0, readable |-> r, writable |-> wr]
  <2>6. Opened'[d] = entry
    BY <2>3, <2>4, <2>5 DEF Opened
  <2>7. Opened' = [Opened EXCEPT ![d] = entry]
    <3> HIDE DEF entry
    <3> QED
      BY <1>1, <2>3, <2>5, <2>6, OpenedChanges
  <2>8. StoreInv' /\ Dir' = Dir /\ Content' = Content
    BY <1>1, <2>2, StoreRests DEF Return, Calling, Growing
  <2>9. Promise!Open(d)
    <3>1. ~Promise!IsOpen(d) /\ \A e \in 0 .. d - 1 : Promise!IsOpen(e)
      <4>1. \A e \in 0 .. d - 1 : e \in Fds /\ e < d
        BY <2>3, FileAssumption DEF FileAssumption, Fds
      <4> QED
        BY <1>1, <2>3, <4>1, OpenedAt
    <3>2. result' = Promise!Returned(d)
      BY <2>2 DEF Return, Returned, Promise!Returned
    <3>3. r \/ wr
      OBVIOUS
    <3>4. call.ino \in Inum /\ (call.ino = ROOTINO => call.mode = "rdonly")
      BY <1>1 DEF Inv, FileInv
    <3>5. (call.ino = ROOTINO /\ ~wr) \/ \E name \in Names : Dir[name] = call.ino
      BY <1>1, <3>4, Constants DEF StoreInv, CallStore, Reachable
    <3>6. UNCHANGED Pending
      BY <1>1, <2>2, NotWriting DEF Return, NoCall, Pending, Promise!NoWrite
    <3>7. r \in BOOLEAN /\ wr \in BOOLEAN
      OBVIOUS
    <3> HIDE DEF r, wr
    <3> QED
      BY <2>7, <3>1, <3>2, <3>3, <3>4, <3>5, <3>6, <3>7 DEF Promise!Open
  <2>10. Promise!Call
    BY <2>3, <2>9 DEF Promise!Call, Promise!Fds, Fds
  <2> QED
    BY <2>8, <2>10, CallSeen
<1> QED
  BY <1>2, <1>3

LEMMA CloseSeen ==
  ASSUME NEW d \in Fds, Inv, StoreInv, Close(d)
  PROVE  StoreInv' /\ MappedNext
<1>1. pc = "user"
  BY DEF Close, Syscall
<1>2. CASE ~IsOpen(d)
  BY <1>1, <1>2, ReturnSeen DEF Close, fsrest
<1>3. CASE IsOpen(d)
  <2> DEFINE f == ofile[d]
  <2>1. f \in Files /\ f # NoFile /\ file[f].ref = 1
    BY <1>1, <1>3, OpenedAt DEF IsOpen
  <2>2. /\ file' = [file EXCEPT ![f] = IF @.ref > 1 THEN [@ EXCEPT !.ref = @ - 1] ELSE FreeFile]
        /\ ofile' = [ofile EXCEPT ![d] = NoFile] /\ Return(0) /\ UNCHANGED disk
    BY <1>3 DEF Close
  <2>3. DOMAIN file = Files /\ DOMAIN ofile = Fds
    BY <1>1 DEF Inv, FileTypes
  <2>4. /\ ofile'[d] = NoFile
        /\ \A e \in Fds \ {d} : ofile'[e] = ofile[e]
        /\ \A g \in Files \ {f} : file'[g] = file[g]
    BY <2>1, <2>2, <2>3
  <2>5. Opened'[d] = Promise!Closed
    BY <2>4 DEF Opened, Promise!Closed
  <2> HIDE DEF f
  <2>6. Opened' = [Opened EXCEPT ![d] = Promise!Closed]
    BY <1>1, <2>1, <2>4, <2>5, OpenedChanges DEF f
  <2>7. StoreInv' /\ Dir' = Dir /\ Content' = Content
    BY <1>1, <2>2, StoreRests DEF Return, Calling, Growing
  <2>8. UNCHANGED Pending
    BY <1>1, <2>2, NotWriting DEF Return, NoCall, Pending, Promise!NoWrite
  <2>9. Promise!Close(d)
    BY <1>1, <1>3, <2>2, <2>6, <2>8, OpenedAt
       DEF Promise!Close, Return, Returned, Promise!Returned, IsOpen
  <2>10. Promise!Call
    BY <2>9 DEF Promise!Call, Promise!Fds, Fds
  <2> QED
    BY <2>7, <2>10, CallSeen
<1> QED
  BY <1>2, <1>3

\* What readi finds in a file is a part of its content.
LEMMA ReadCells ==
  ASSUME NEW i \in Inum, NEW off \in Nat, NEW n \in Nat, Inv, dinode[i].type = "file",
         off <= dinode[i].size
  PROVE  LET got == Readi(dinode[i], off, n)
         IN  /\ Len(got) \in 0 .. Len(Content[i]) - off
             /\ got = SubSeq(Content[i], off + 1, off + Len(got))
<1> DEFINE size == dinode[i].size
           m == IF n <= size - off THEN n ELSE size - off
           got == Readi(dinode[i], off, n)
           s == Content[i]
<1>1. size \in Nat
  BY MaxFileNat DEF Inv, DiskInv, DiskTypes, Dinode
<1>2. s = [k \in 1 .. size |-> Cell(i, k - 1)]
  BY Contents DEF ContentIs
<1>3. got = [k \in 1 .. m |-> Cell(i, off + k - 1)]
  BY FileCells
<1>4. m \in Nat /\ off + m <= size
  BY <1>1
<1> HIDE DEF size, m, got, s
<1>5. Len(s) = size /\ Len(got) = m
  BY <1>1, <1>2, <1>3, <1>4
<1> DEFINE part == SubSeq(s, off + 1, off + m)
           S == {s[k] : k \in 1 .. size}
<1>6. /\ part \in Seq(S) /\ Len(part) = m
      /\ \A k \in 1 .. m : part[k] = s[off + k]
  <2>1. \A k \in off + 1 .. off + m : s[k] \in S
    BY <1>1, <1>4
  <2>2. off + 1 \in Int /\ off + m \in Int /\ (off + m) - (off + 1) + 1 = m
    BY <1>4
  <2>3. \A k \in 1 .. m : (off + 1) + k - 1 = off + k
    BY <1>4
  <2> HIDE DEF S
  <2>4. /\ part \in Seq(S)
        /\ Len(part) = IF off + 1 <= off + m THEN (off + m) - (off + 1) + 1 ELSE 0
        /\ \A k \in 1 .. (off + m) - (off + 1) + 1 : part[k] = s[(off + 1) + k - 1]
    BY <2>1, <2>2, SubSeqProperties
  <2> HIDE DEF part
  <2>5. Len(part) = m
    BY <1>4, <2>4
  <2> QED
    BY <2>2, <2>3, <2>4, <2>5
<1> HIDE DEF part, S
<1>7. \A k \in 1 .. m : s[off + k] = Cell(i, off + k - 1)
  BY <1>1, <1>2, <1>4
<1>8. part = [k \in 1 .. m |-> part[k]]
  BY <1>6
<1>9. got = part
  BY <1>3, <1>6, <1>7, <1>8
<1> QED
  BY <1>1, <1>4, <1>5, <1>9 DEF got, part, s

LEMMA ReadSeen ==
  ASSUME NEW d \in Fds, NEW n \in Nat, Inv, StoreInv, Read(d, n)
  PROVE  StoreInv' /\ MappedNext
<1>1. pc = "user" /\ UNCHANGED <<disk, icache, ofile>>
  BY DEF Read, Syscall, fsrest, icache, disk
<1>2. CASE ~(IsOpen(d) /\ file[ofile[d]].readable)
  BY <1>1, <1>2, ReturnSeen DEF Read
<1>3. CASE IsOpen(d) /\ file[ofile[d]].readable
  <2> DEFINE f == ofile[d]
             i == file[f].ip
             off == file[f].off
             got == Readi(dinode[i], off, n)
             m == Len(got)
  <2>1. /\ f \in Files /\ f # NoFile /\ file[f].ref = 1 /\ i \in Inum
        /\ Opened[d] = [ino |-> i, off |-> off, readable |-> file[f].readable,
                        writable |-> file[f].writable]
    BY <1>1, <1>3, OpenedAt DEF IsOpen
  <2>2. ivalid[i] /\ off \in Nat /\ off <= dinode[i].size
    BY <1>1, <2>1 DEF Inv, FileTypes, FileInv
  <2>3. inode[i] = dinode[i] /\ dinode[i].type = "file"
    BY <1>1, <1>3, <2>1, <2>2 DEF Inv, CacheInv, Growing, Read
  <2>4. m \in 0 .. Len(Content[i]) - off /\ got = SubSeq(Content[i], off + 1, off + m)
    <3>1. i \in Inum /\ off \in Nat /\ dinode[i].type = "file" /\ off <= dinode[i].size
      BY <2>1, <2>2, <2>3
    <3> HIDE DEF i, off
    <3> QED
      BY <3>1, ReadCells
  <2>5. /\ file' = [file EXCEPT ![f].off = @ + m] /\ pc' = "user" /\ call' = NoCall
        /\ result' = [n |-> m, cells |-> got]
    BY <1>3, <2>3 DEF Read
  <2> HIDE DEF got, m
  <2>6. /\ DOMAIN file = Files /\ \A g \in Files \ {f} : file'[g] = file[g]
        /\ file'[f] = [file[f] EXCEPT !.off = @ + m]
        /\ file[f] \in [ref : {0, 1}, ip : Inum \cup {NoInum}, off : Nat,
                        readable : BOOLEAN, writable : BOOLEAN]
    BY <1>1, <2>1, <2>5 DEF Inv, FileTypes
  <2> DEFINE entry == [Opened[d] EXCEPT !.off = @ + m]
  <2>7. Opened'[d] = entry
    <3>1. Opened'[d] = [ino |-> file'[f].ip, off |-> file'[f].off,
                        readable |-> file'[f].readable, writable |-> file'[f].writable]
      BY <1>1, <2>1 DEF Opened
    <3>2. /\ file'[f].ip = i /\ file'[f].off = off + m
          /\ file'[f].readable = file[f].readable /\ file'[f].writable = file[f].writable
      BY <2>6
    <3> QED
      BY <2>1, <3>1, <3>2
  <2>8. Opened' = [Opened EXCEPT ![d] = entry]
    <3> HIDE DEF f, entry
    <3>1. ofile[d] = f /\ \A e \in Fds \ {d} : ofile'[e] = ofile[e]
      BY <1>1 DEF f
    <3> QED
      BY <1>1, <2>1, <2>6, <2>7, <3>1, OpenedChanges
  <2>9. StoreInv' /\ Dir' = Dir /\ Content' = Content
    BY <1>1, <2>5, StoreRests DEF Calling, Growing
  <2>10. UNCHANGED Pending
    BY <1>1, <2>5, NotWriting DEF NoCall, Pending, Promise!NoWrite
  <2>11. /\ Promise!IsOpen(d) /\ Opened[d].readable /\ Opened[d].ino = i /\ Opened[d].off = off
    <3>1. Promise!IsOpen(d)
      BY <1>1, <1>3, OpenedAt DEF IsOpen
    <3> QED
      BY <1>3, <2>1, <3>1
  <2>12. result'.n = m /\ result'.cells = got
    BY <2>5
  <2> HIDE DEF f, i, off
  <2>13. Opened' = [Opened EXCEPT ![d].off = @ + m]
    BY <2>8
  <2>14. Promise!Read(d)
    BY <2>4, <2>10, <2>11, <2>12, <2>13 DEF Promise!Read
  <2>15. Promise!Call
    BY <2>14 DEF Promise!Call, Promise!Fds, Fds
  <2> QED
    BY <2>9, <2>15, CallSeen
<1> QED
  BY <1>2, <1>3

LEMMA OpenCreatedSeen ==
  ASSUME Inv, StoreInv, OpenCreated
  PROVE  StoreInv' /\ MappedNext
<1>1. /\ pc = "writei_ret" /\ call.op = "open" /\ pc' = "filealloc"
      /\ UNCHANGED <<disk, file, ofile, call, result>>
  BY DEF OpenCreated
<1>2. call.ino \in Reachable
  BY <1>1 DEF StoreInv, CallStore, Calling
<1>3. StoreInv' /\ Dir' = Dir /\ Content' = Content
  BY <1>1, <1>2, StoreRests DEF Calling, Growing
<1>4. Pending' = Pending
  BY <1>1 DEF Pending
<1> QED
  BY <1>1, <1>3, <1>4, Unseen

LEMMA PowerFailsSeen ==
  ASSUME Inv, StoreInv, PowerFails
  PROVE  StoreInv' /\ MappedNext
<1>1. pc' = "user" /\ call' = NoCall /\ result' = Returned(0) /\ UNCHANGED disk
  BY DEF PowerFails, Return
<1>2. StoreInv' /\ Dir' = Dir /\ Content' = Content
  BY <1>1, StoreRests DEF Calling, Growing
<1>3. Opened' = [d \in Promise!Fds |-> Promise!Closed]
  BY DEF PowerFails, Opened, Promise!Closed, Promise!Fds, Fds
<1>4. Pending' = Promise!NoWrite
  BY <1>1 DEF NoCall, Pending, Promise!NoWrite
<1>5. Promise!Call
  BY <1>1, <1>3, <1>4 DEF Promise!Call, Promise!PowerFails, Returned, Promise!Returned
<1> QED
  BY <1>2, <1>5, CallSeen

\* Every cell of the write is found in the file at its end.
LEMMA WriteReturnSeen ==
  ASSUME Inv, StoreInv, WriteReturn
  PROVE  StoreInv' /\ MappedNext
<1> DEFINE d == call.fd
           f == ofile[d]
<1>1. /\ pc = "writei_ret" /\ call.op = "write" /\ pc' = "user" /\ call' = NoCall
      /\ UNCHANGED <<disk, ofile>> /\ file' = [file EXCEPT ![f].off = @ + w.n]
      /\ result' = Returned(w.n)
  BY DEF WriteReturn, Return
<1>2. /\ d \in Fds /\ f \in Files /\ file[f].ref = 1 /\ file[f].ip = w.ino /\ file[f].off = w.off
      /\ w.n \in Nat /\ w.off \in Nat /\ w.off + w.n <= dinode[w.ino].size /\ w.tot = w.n
      /\ w.ino \in Inum /\ w.ino # ROOTINO
  BY <1>1 DEF Inv, WriteInv, Calling
<1>3. f # NoFile
  BY <1>2, FileAssumption DEF FileAssumption, Files, NoFile
<1>4. Opened[d] = [ino |-> w.ino, off |-> w.off, readable |-> file[f].readable,
                   writable |-> file[f].writable]
  BY <1>1, <1>2, <1>3, OpenedAt
<1>5. Pending = [fd |-> d, v |-> w.src, n |-> w.n] /\ d # -1
  BY <1>1, <1>2 DEF Pending, Fds
<1>6. \A k \in 1 .. w.n : /\ w.off + k <= Len(Content[w.ino])
                          /\ Content[w.ino][w.off + k] = w.src
  <2> DEFINE size == dinode[w.ino].size
  <2>1. size \in Nat
    BY <1>2, MaxFileNat DEF Inv, DiskInv, DiskTypes, Dinode
  <2>2. dinode[w.ino].type = "file"
    <3>1. dinode[w.ino].type # "free"
      BY <1>1, <1>2 DEF Inv, FileInv
    <3> QED
      BY <1>2, <3>1 DEF Inv, DiskInv, DiskTypes, Dinode
  <2>3. Content[w.ino] = [k \in 1 .. size |-> Cell(w.ino, k - 1)]
    BY <1>2, <2>2, Contents DEF ContentIs
  <2>4. ASSUME NEW k \in Nat, w.off <= k, k < w.off + w.n
        PROVE  Cell(w.ino, k) = w.src
    <3>1. block[InUse[w.ino][PlaceOf(k \div PB)]][k % PB] = w.src
      BY <1>1, <1>2, <2>4 DEF StoreInv, CallStore, Calling
    <3>2. InUse[w.ino] = OnDisk[w.ino]
      BY <1>1, <1>2, NumbersInUse DEF Growing
    <3> QED
      BY <3>1, <3>2 DEF Cell
  <2> HIDE DEF size
  <2>5. Len(Content[w.ino]) = size
    BY <2>1, <2>3
  <2> SUFFICES ASSUME NEW k \in 1 .. w.n
               PROVE  w.off + k <= Len(Content[w.ino]) /\ Content[w.ino][w.off + k] = w.src
    OBVIOUS
  <2> DEFINE l == w.off + k
  <2>6. /\ l \in 1 .. size /\ l - 1 \in Nat
        /\ w.off <= l - 1 /\ l - 1 < w.off + w.n
    BY <1>2, <2>1 DEF size
  <2> HIDE DEF l
  <2>7. Content[w.ino][l] = Cell(w.ino, l - 1) /\ Cell(w.ino, l - 1) = w.src
    BY <2>3, <2>4, <2>6
  <2>8. l <= Len(Content[w.ino]) /\ Content[w.ino][l] = w.src
    BY <2>1, <2>5, <2>6, <2>7
  <2> QED
    BY <2>8 DEF l
<1>7. Opened' = [Opened EXCEPT ![d].off = @ + w.n]
  <2>1. /\ DOMAIN file = Files /\ \A g \in Files \ {f} : file'[g] = file[g]
        /\ file'[f] = [file[f] EXCEPT !.off = @ + w.n]
        /\ file[f] \in [ref : {0, 1}, ip : Inum \cup {NoInum}, off : Nat,
                        readable : BOOLEAN, writable : BOOLEAN]
    BY <1>1, <1>2 DEF Inv, FileTypes
  <2> DEFINE entry == [Opened[d] EXCEPT !.off = @ + w.n]
  <2>2. Opened'[d] = entry
    <3>1. Opened'[d] = [ino |-> file'[f].ip, off |-> file'[f].off,
                        readable |-> file'[f].readable, writable |-> file'[f].writable]
      BY <1>1, <1>2, <1>3 DEF Opened
    <3>2. /\ file'[f].ip = w.ino /\ file'[f].off = w.off + w.n
          /\ file'[f].readable = file[f].readable /\ file'[f].writable = file[f].writable
      BY <1>2, <2>1
    <3> QED
      BY <1>4, <3>1, <3>2
  <2>3. Opened' = [Opened EXCEPT ![d] = entry]
    <3>1. ofile[d] = f /\ \A e \in Fds \ {d} : ofile'[e] = ofile[e]
      BY <1>1
    <3> HIDE DEF f, d, entry
    <3> QED
      BY <1>1, <1>2, <2>1, <2>2, <3>1, OpenedChanges
  <2> QED
    BY <2>3
<1>8. StoreInv' /\ Dir' = Dir /\ Content' = Content
  BY <1>1, StoreRests DEF Calling, Growing
<1>9. Pending' = Promise!NoWrite
  BY <1>1 DEF NoCall, Pending, Promise!NoWrite
<1>10. Promise!WriteEnds
  <2>1. Pending # Promise!NoWrite /\ Pending.fd = d /\ Pending.n = w.n /\ Pending.v = w.src
    BY <1>5 DEF Promise!NoWrite
  <2>2. Opened[d].ino = w.ino /\ Opened[d].off = w.off
    BY <1>4
  <2>3. result' = Promise!Returned(w.n)
    BY <1>1 DEF Returned, Promise!Returned
  <2> HIDE DEF d
  <2> QED
    BY <1>6, <1>7, <1>9, <2>1, <2>2, <2>3 DEF Promise!WriteEnds
<1>11. Promise!Call
  BY <1>10 DEF Promise!Call
<1> QED
  BY <1>8, <1>11, CallSeen

LEMMA WriteSeen ==
  ASSUME NEW d \in Fds, NEW v \in Values, NEW n \in Nat, Inv, StoreInv, Write(d, v, n)
  PROVE  StoreInv' /\ MappedNext
<1> DEFINE f == file[ofile[d]]
           console == d = 1 /\ ~IsOpen(1)
           refused == ~(IsOpen(d) /\ f.writable)
<1>1. pc = "user" /\ UNCHANGED <<file, ofile>>
  BY DEF Write, Syscall
<1>2. CASE console
  BY <1>1, <1>2, ReturnSeen DEF Write, fsrest
<1>3. CASE ~console /\ refused
  BY <1>1, <1>3, ReturnSeen DEF Write, fsrest
<1>4. CASE ~console /\ ~refused /\ WriteiFails(f.ip, f.off, n)
  BY <1>1, <1>4, ReturnSeen DEF Write, fsrest
<1>5. CASE ~console /\ ~refused /\ ~WriteiFails(f.ip, f.off, n)
  <2>1. /\ WriteiCall(f.ip, v, f.off, n)
        /\ call' = [op |-> "write", fd |-> d, ino |-> f.ip, mode |-> "none"]
        /\ pc' = "writei" /\ UNCHANGED <<disk, icache, result>>
    BY <1>5 DEF Write
  <2>2. IsOpen(d) /\ f.writable
    BY <1>5
  <2>3. /\ Promise!IsOpen(d) /\ ofile[d] \in Files /\ f.ref = 1 /\ f.ip \in Inum
        /\ Opened[d] = [ino |-> f.ip, off |-> f.off, readable |-> f.readable,
                        writable |-> f.writable]
    BY <1>1, <2>2, OpenedAt DEF IsOpen
  <2>4. f.off \in Nat
    BY <1>1, <2>3 DEF Inv, FileTypes
  <2>5. w' = [ino |-> f.ip, src |-> v, off |-> f.off, n |-> n, tot |-> 0]
    BY <2>1 DEF WriteiCall
  <2>6. f.off + n <= MAXFILE
    BY <1>5, <2>4, MaxFileNat DEF WriteiFails
  <2> HIDE DEF f, console, refused
  <2>7. n \in 0 .. MAXFILE - Opened[d].off
    BY <2>3, <2>4, <2>6, MaxFileNat
  <2>8. Dir' = Dir /\ Content' = Content /\ (Dots => Dots')
    BY <2>1, DiskShows
  <2>9. StoreInv'
    <3>1. call'.op = "write" /\ w'.tot = 0 /\ w'.off = f.off
      BY <2>1, <2>5
    <3>2. \A k \in Nat : ~(w'.off <= k /\ k < w'.off + w'.tot)
      BY <2>4, <3>1
    <3> QED
      BY <2>1, <2>8, <3>1, <3>2 DEF StoreInv, CallStore
  <2>10. Pending' = [fd |-> d, v |-> v, n |-> n]
    BY <2>1, <2>5 DEF Pending
  <2>11. Opened' = Opened /\ result' = result
    BY <1>1, <2>1 DEF Opened
  <2>12. Opened[d].writable
    BY <2>2, <2>3
  <2>13. Promise!WriteStarts(d)
    BY <1>1, <2>3, <2>7, <2>10, <2>11, <2>12, NotWriting DEF Promise!WriteStarts
  <2>14. Promise!Call
    BY <2>13 DEF Promise!Call, Promise!Fds, Fds
  <2> QED
    BY <2>8, <2>9, <2>14, CallSeen
<1> QED
  BY <1>2, <1>3, <1>4, <1>5

\* The new inode is a file that is empty and has no name yet.
LEMMA OpenCreateNewSeen ==
  ASSUME NEW path \in Paths, NEW mode \in Modes, Inv, Inv', StoreInv, OpenCreateNew(path, mode)
  PROVE  StoreInv' /\ MappedNext
<1> DEFINE dp   == Nameiparent(path)
           free == {i \in Inum : dinode[i].type = "free"}
           new  == Min(free)
<1>1. /\ pc = "user" /\ UNCHANGED <<file, ofile>> /\ call.op = "none"
      /\ dp # NoInum /\ Dirlookup(Loaded(dp), Last(path)) = NoInum
  BY DEF OpenCreateNew, Syscall, Inv, FileInv
<1>2. CASE free = {} \/ ~NamexFits(path)
  BY <1>1, <1>2, CallUnseen DEF OpenCreateNew, Panic, Calling, Growing
<1>3. CASE ~(free = {} \/ ~NamexFits(path))
  <2>1. dp = ROOTINO /\ Loaded(dp) = dinode[ROOTINO] /\ Last(path) \in Names \cup {".", ".."}
    BY <1>1, PathNamed, LoadedIsDisk, Constants
  <2>2. new \in free
    BY <1>3, LeastOf, Constants
  <2>3. /\ dinode' = [dinode EXCEPT ![new] = [FreeDinode EXCEPT !.type = "file"]]
        /\ inode' = [inode EXCEPT ![ROOTINO] = dinode[ROOTINO]]
        /\ w' = [ino |-> ROOTINO, src |-> Dirent(new, Last(path)),
                 off |-> dinode[ROOTINO].size, n |-> 1, tot |-> 0]
        /\ call' = [op |-> "open", fd |-> -1, ino |-> new, mode |-> mode]
        /\ pc' \in {"writei", "panic"} /\ UNCHANGED <<bitmap, block, result>>
    BY <1>3, <2>1 DEF OpenCreateNew
  <2>4. new \in Inum /\ dinode[new].type = "free" /\ new # ROOTINO
    BY <2>2, Constants DEF Inv, DiskInv, DiskTypes
  <2> HIDE DEF new, free, dp
  <2>5. inode \in [Inum -> Dinode] /\ dinode \in [Inum -> Dinode]
    BY <1>1 DEF CacheTypes, Inv, DiskInv, DiskTypes
  <2>6. Growing' => inode'[w'.ino] = dinode'[w'.ino] /\ w'.ino \in Inum
    <3>1. w'.ino = ROOTINO
      BY <2>3
    <3>2. inode'[ROOTINO] = dinode[ROOTINO] /\ dinode'[ROOTINO] = dinode[ROOTINO]
      BY <2>3, <2>4, <2>5, Constants
    <3> QED
      BY <3>1, <3>2, Constants
  <2>7. /\ \A j \in Inum \ {new} : dinode'[j] = dinode[j] /\ OnDisk'[j] = OnDisk[j]
        /\ dinode'[new].type = "file" /\ dinode'[new].size = 0
        /\ \A k : Entry(k)' = Entry(k)
    BY <1>1, <2>3, <2>4, <2>6, NewInode
  <2>8. Dir' = Dir /\ (Dots => Dots')
    BY <2>4, <2>7, DirStays, Constants
  <2>9. Content' = Content
    <3>1. ASSUME NEW i \in Inum
          PROVE  Content'[i] = Content[i]
      <4>1. CASE i = new
        BY <2>4, <2>7, <4>1, ContentStays
      <4>2. CASE i # new
        <5>1. \A k \in Nat : Cell(i, k)' = Cell(i, k)
          BY <2>3, <2>7, <4>2 DEF Cell
        <5> QED
          BY <2>7, <4>2, <5>1, ContentStays
      <4> QED
        BY <4>1, <4>2
    <3> QED
      BY <3>1 DEF Content
  <2>10. Pending' = Pending
    <3>1. call'.op = "open"
      BY <2>3
    <3> QED
      BY <1>1, <3>1, NotWriting DEF Pending, Promise!NoWrite
  <2>11. StoreInv'
    <3>1. call'.op = "open" /\ call'.ino = new /\ w'.src.name = Last(path)
      BY <2>3 DEF Dirent
    <3>2. Last(path) \in Names
      BY <1>1, <2>1, LookupReachable DEF StoreInv
    <3> QED
      BY <2>3, <2>7, <2>8, <3>1, <3>2 DEF StoreInv, CallStore
  <2> QED
    BY <1>1, <2>3, <2>8, <2>9, <2>10, <2>11, Unseen
<1> QED
  BY <1>2, <1>3

-----------------------------------------------------------------------------
(* What writei shows                                                       *)

\* The cells writei has come past have a place.
LEMMA PassedPlace ==
  ASSUME NEW k \in Nat, Inv, Growing, w.off <= k, k < w.off + w.tot
  PROVE  /\ w.ino \in Inum /\ k < MAXFILE /\ PlaceOf(k \div PB) \in Place \ {NDIRECT}
         /\ InUse[w.ino][PlaceOf(k \div PB)] # Zero
<1>1. /\ w.ino \in Inum /\ w.off \in Nat /\ w.n \in Nat /\ w.tot \in 0 .. w.n
      /\ w.off + w.n <= MAXFILE
      /\ InUse[w.ino][PlaceOf(k \div PB)] # Zero
  BY DEF Inv, WriteInv, Calling, Growing
<1>2. k < MAXFILE
  BY <1>1, MaxFileNat
<1> QED
  BY <1>1, <1>2, CellOfFile

\* Files stay where no number and no data is lost.
LEMMA GrowingUnseen ==
  ASSUME Inv, Inv', StoreInv, Growing, Growing',
         UNCHANGED <<dinode, w, file, ofile, call, result>>,
         \A i \in Inum, a \in Place \ {NDIRECT} : InUse[i][a] # Zero =>
           InUse'[i][a] = InUse[i][a] /\ block'[InUse[i][a]] = block[InUse[i][a]],
         \A i \in Inum, a \in Place : OnDisk[i][a] # Zero => OnDisk'[i][a] = OnDisk[i][a]
  PROVE  StoreInv' /\ MappedNext
<1>1. ASSUME NEW i \in Inum, NEW k \in Nat, k < dinode[i].size
      PROVE  Cell(i, k)' = Cell(i, k)
  <2> DEFINE a == PlaceOf(k \div PB)
  <2>1. a \in Place \ {NDIRECT} /\ OnDisk[i][a] \in Blk /\ OnDisk[i][a] = InUse[i][a]
    BY <1>1, CellCovered
  <2> HIDE DEF a
  <2>2. OnDisk'[i][a] = OnDisk[i][a] /\ block'[OnDisk[i][a]] = block[OnDisk[i][a]]
    BY <2>1, Constants
  <2> QED
    BY <2>2 DEF Cell, a
<1>2. Content' = Content
  <2>1. \A i \in Inum : Content'[i] = Content[i]
    BY <1>1, ContentStays
  <2> QED
    BY <2>1 DEF Content
<1>3. Dir' = Dir /\ (Dots => Dots')
  <2>1. \A k \in Nat : k < dinode[ROOTINO].size => Entry(k)' = Entry(k)
    BY <1>1, Constants DEF Cell, Entry
  <2> QED
    BY <2>1, DirStays
<1>4. Pending' = Pending
  BY DEF Pending
<1>5. CallStore'
  <2>1. CallStore
    BY DEF StoreInv, Growing
  <2>2. call.op = "write" => \A k \in Nat : w.off <= k /\ k < w.off + w.tot =>
          block'[InUse'[w.ino][PlaceOf(k \div PB)]][k % PB] = w.src
    <3> SUFFICES ASSUME call.op = "write", NEW k \in Nat, w.off <= k, k < w.off + w.tot
                 PROVE  block'[InUse'[w.ino][PlaceOf(k \div PB)]][k % PB] = w.src
      OBVIOUS
    <3> DEFINE a == PlaceOf(k \div PB)
    <3>1. w.ino \in Inum /\ a \in Place \ {NDIRECT} /\ InUse[w.ino][a] # Zero
      BY PassedPlace
    <3>2. block[InUse[w.ino][a]][k % PB] = w.src
      BY <2>1 DEF CallStore, Calling
    <3> HIDE DEF a
    <3>3. InUse'[w.ino][a] = InUse[w.ino][a] /\ block'[InUse[w.ino][a]] = block[InUse[w.ino][a]]
      BY <3>1
    <3> QED
      BY <3>2, <3>3 DEF a
  <2>3. call.op = "open" => dinode'[call.ino].size = 0 /\ w.src.name \in Names
    BY <2>1 DEF CallStore, Calling
  <2> QED
    BY <2>2, <2>3 DEF CallStore, Calling, Growing
<1> QED
  BY <1>2, <1>3, <1>4, <1>5, Unseen DEF StoreInv

LEMMA BallocSeen ==
  ASSUME Inv, Inv', StoreInv, Balloc, UNCHANGED <<file, ofile, call, result>>
  PROVE  StoreInv' /\ MappedNext
<1>1. pc = "writei"
  BY DEF Balloc, Writing
<1>2. CASE Blk \ bitmap = {}
  <2>1. pc' = "panic" /\ UNCHANGED <<disk, w>>
    BY <1>2 DEF Balloc, Panic
  <2>2. Pending' = Pending
    BY <2>1 DEF Pending
  <2> QED
    BY <2>1, <2>2, DiskShows, Unseen DEF StoreInv
<1>3. CASE Blk \ bitmap # {}
  <2>1. pc' = "bzero" /\ UNCHANGED <<dinode, block, icache, w>>
    BY <1>3 DEF Balloc
  <2>2. InUse' = InUse /\ OnDisk' = OnDisk
    BY <1>1, <2>1 DEF InUse, OnDisk, Growing, icache
  <2> QED
    BY <1>1, <2>1, <2>2, GrowingUnseen DEF Growing
<1> QED
  BY <1>2, <1>3

LEMMA BzeroSeen ==
  ASSUME Inv, Inv', StoreInv, Bzero, UNCHANGED <<file, ofile, call, result>>
  PROVE  StoreInv' /\ MappedNext
<1> DEFINE f == fresh.blk
<1>1. /\ pc = "bzero" /\ pc' = "assign" /\ block' = [block EXCEPT ![f] = ZeroBlock]
      /\ UNCHANGED <<bitmap, dinode, icache, w>>
  BY DEF Bzero
<1>2. f \in Blk /\ \A i \in Inum, a \in Place : InUse[i][a] # f
  BY <1>1 DEF Inv, WriteInv, Calling, Growing, DiskInv, DiskTypes
<1> HIDE DEF f
<1>3. InUse' = InUse /\ OnDisk' = OnDisk
  BY <1>1, <1>2, NumbersStay, Constants DEF icache, Growing
<1>4. \A c \in Blk : c # f => block'[c] = block[c]
  BY <1>1 DEF Inv, DiskInv, DiskTypes
<1>5. \A i \in Inum, a \in Place \ {NDIRECT} : InUse[i][a] # Zero =>
        block'[InUse[i][a]] = block[InUse[i][a]]
  BY <1>2, <1>4, NumberMarked
<1> QED
  BY <1>1, <1>3, <1>5, GrowingUnseen DEF Growing

LEMMA AssignSeen ==
  ASSUME Inv, Inv', StoreInv, Assign, UNCHANGED <<file, ofile, call, result>>
  PROVE  StoreInv' /\ MappedNext
<1>1. pc = "assign" /\ pc' = "writei" /\ UNCHANGED <<bitmap, dinode, w>>
  BY DEF Assign
<1>2. PICK p : Assigned(p)
  BY AssignInode, AssignEntry
<1>3. \A i \in Inum, a \in Place : InUse[i][a] # Zero => InUse'[i][a] = InUse[i][a]
  BY <1>2 DEF Assigned
<1>4. \A i \in Inum, a \in Place \ {NDIRECT} : InUse[i][a] # Zero =>
        InUse'[i][a] = InUse[i][a] /\ block'[InUse[i][a]] = block[InUse[i][a]]
  BY <1>2, <1>3 DEF Assigned
<1>5. \A i \in Inum, a \in Place : OnDisk[i][a] # Zero => OnDisk'[i][a] = OnDisk[i][a]
  BY <1>2 DEF Assigned
<1> QED
  BY <1>1, <1>4, <1>5, GrowingUnseen DEF Growing

\* The write in progress is one of an open file.
LEMMA WritePending ==
  ASSUME Inv, Growing, call.op = "write"
  PROVE  /\ Pending = [fd |-> call.fd, v |-> w.src, n |-> w.n] /\ Pending # Promise!NoWrite
         /\ Opened[call.fd].ino = w.ino /\ Opened[call.fd].off = w.off
         /\ w.ino \in Inum /\ w.ino # ROOTINO /\ dinode[w.ino].type = "file"
<1> DEFINE f == ofile[call.fd]
<1>1. /\ call.fd \in Fds /\ f \in Files /\ file[f].ref = 1 /\ file[f].ip = w.ino
      /\ file[f].off = w.off /\ w.ino \in Inum /\ w.ino # ROOTINO
  BY DEF Inv, WriteInv, Calling, Growing
<1>2. Pending = [fd |-> call.fd, v |-> w.src, n |-> w.n] /\ Pending # Promise!NoWrite
  BY <1>1 DEF Pending, Promise!NoWrite, Fds
<1>3. f # NoFile
  BY <1>1, FileAssumption DEF FileAssumption, Files, NoFile
<1>4. dinode[w.ino].type = "file"
  <2>1. dinode[w.ino].type # "free"
    BY <1>1 DEF Inv, FileInv, Growing
  <2> QED
    BY <1>1, <2>1 DEF Inv, DiskInv, DiskTypes, Dinode
<1>5. Opened[call.fd] = [ino |-> file[f].ip, off |-> file[f].off, readable |-> file[f].readable,
                         writable |-> file[f].writable]
  BY <1>1, <1>3, OpenedAt DEF Growing
<1>6. Opened[call.fd].ino = w.ino /\ Opened[call.fd].off = w.off
  BY <1>1, <1>5
<1> QED
  BY <1>1, <1>2, <1>4, <1>6

\* A step that brings cells of the write, or the size it gives the file, to the disk.
LEMMA GoesOnSeen ==
  ASSUME Inv, Inv', Growing, call.op = "write", UNCHANGED <<file, ofile, call, result>>,
         w'.src = w.src, w'.n = w.n, Dir' = Dir,
         \A i \in Inum : i # w.ino => Content'[i] = Content[i],
         dinode'[w.ino].type = "file",
         \/ dinode'[w.ino].size = dinode[w.ino].size
         \/ /\ dinode'[w.ino].size = w.off + w.n
            /\ w.off + w.n > dinode[w.ino].size,
         \A i \in Inum, k \in Nat : i = w.ino /\ k < dinode'[w.ino].size =>
           \/ w.off <= k /\ k < w.off + w.n /\ Cell(i, k)' = w.src
           \/ k < dinode[w.ino].size /\ Cell(i, k)' = Cell(i, k)
  PROVE  MappedNext
<1> DEFINE i == w.ino
           old == Content[i]
           new == Content'[i]
           size == dinode[i].size
           grown == dinode'[i].size
<1>1. /\ Pending = [fd |-> call.fd, v |-> w.src, n |-> w.n] /\ Pending # Promise!NoWrite
      /\ Opened[call.fd].ino = i /\ Opened[call.fd].off = w.off
      /\ i \in Inum /\ dinode[i].type = "file"
  BY WritePending
<1>2. Pending' = Pending /\ Opened' = Opened
  BY DEF Pending, Opened
<1>3. size \in Nat /\ grown \in Nat /\ w.off \in Nat /\ w.n \in Nat
  BY <1>1, MaxFileNat DEF Inv, DiskInv, DiskTypes, Dinode, WriteInv, Calling, Growing
<1>4. old = [k \in 1 .. size |-> Cell(i, k - 1)]
  BY <1>1, Contents DEF ContentIs
<1>5. DOMAIN new = 1 .. grown /\ new = [k \in 1 .. grown |-> new[k]]
      /\ \A j \in Inum : j = w.ino => \A k \in 1 .. grown : new[k] = Cell(j, k - 1)'
  <2>1. \A j \in Inum : Content'[j] = IF dinode'[j].type = "file"
                          THEN [k \in 1 .. dinode'[j].size |-> Cell(j, k - 1)'] ELSE <<>>
    BY ContentsNext DEF ContentIs
  <2> DEFINE j == w.ino
  <2>2. \A l \in Inum : l = w.ino => new = [k \in 1 .. grown |-> Cell(l, k - 1)']
    BY <2>1
  <2> HIDE DEF new, grown
  <2> QED
    BY <1>1, <2>2
<1> HIDE DEF size, grown, new, old, i
<1>6. Len(old) = size /\ Len(new) = grown /\ DOMAIN old = 1 .. size
  BY <1>3, <1>4, <1>5
<1>7. grown = size \/ (grown = w.off + w.n /\ w.off + w.n > size)
  BY DEF size, grown, i
<1>8. \A k \in DOMAIN new :
        \/ k \in w.off + 1 .. w.off + w.n /\ new[k] = w.src
        \/ k \in DOMAIN old /\ new[k] = old[k]
  <2> SUFFICES ASSUME NEW k \in 1 .. grown
               PROVE  \/ k \in w.off + 1 .. w.off + w.n /\ new[k] = w.src
                      \/ k \in 1 .. size /\ new[k] = old[k]
    BY <1>5, <1>6
  <2>1. k - 1 \in Nat /\ k - 1 < grown
    BY <1>3
  <2>2. \A j \in Inum : j = i =>
          \/ w.off <= k - 1 /\ k - 1 < w.off + w.n /\ Cell(j, k - 1)' = w.src
          \/ k - 1 < size /\ Cell(j, k - 1)' = Cell(j, k - 1)
    BY <2>1 DEF i, size, grown
  <2>3. \A j \in Inum : j = i => new[k] = Cell(j, k - 1)'
    BY <1>5 DEF i
  <2>4. \/ w.off <= k - 1 /\ k - 1 < w.off + w.n /\ new[k] = w.src
        \/ k - 1 < size /\ new[k] = Cell(i, k - 1)
    BY <1>1, <2>2, <2>3
  <2>5. k - 1 < size => k \in 1 .. size /\ old[k] = Cell(i, k - 1)
    BY <1>3, <1>4
  <2>6. w.off <= k - 1 /\ k - 1 < w.off + w.n => k \in w.off + 1 .. w.off + w.n
    BY <1>3
  <2> QED
    BY <2>4, <2>5, <2>6
<1>9. \A j \in Inum \ {i} : Content'[j] = Content[j]
  BY DEF i
<1>10. Promise!WriteGoesOn
  <2>1. Pending.fd = call.fd /\ Pending.v = w.src /\ Pending.n = w.n
    BY <1>1
  <2>2. Len(new) = Len(old) \/ (Len(new) = w.off + w.n /\ w.off + w.n > Len(old))
    BY <1>6, <1>7
  <2> QED
    BY <1>1, <1>2, <1>8, <1>9, <2>1, <2>2 DEF Promise!WriteGoesOn, new, old
<1> QED
  BY <1>10 DEF MappedNext, Promise!Next

LEMMA WriteBlockSeen ==
  ASSUME Inv, Inv', StoreInv, WriteBlock, UNCHANGED <<file, ofile, call, result>>
  PROVE  StoreInv' /\ MappedNext
<1>1. pc = "writei" /\ pc' = "writei" /\ Growing /\ Growing' /\ UNCHANGED dinode
  BY DEF WriteBlock, Writing, Growing
<1>2. PICK m : Wrote(m)
  BY BlockWritten
<1>3. /\ m \in Nat /\ m > 0 /\ w.tot + m <= w.n /\ w' = [w EXCEPT !.tot = @ + m]
      /\ InUse' = InUse /\ OnDisk' = OnDisk
  BY <1>2 DEF Wrote
<1>4. /\ w \in [ino : Inum, src : Cells, off : Nat, n : Nat, tot : Nat]
      /\ w.off + w.n <= MAXFILE /\ At = w.off + w.tot /\ call.op \in {"open", "write"}
      /\ call.op = "open" => w.ino = ROOTINO /\ w.n = 1 /\ w.off = dinode[ROOTINO].size
      /\ w.ino = ROOTINO => call.op = "open"
  BY <1>1 DEF Inv, WriteInv, Calling, At
<1>5. /\ w'.ino = w.ino /\ w'.src = w.src /\ w'.off = w.off /\ w'.n = w.n /\ w'.tot = w.tot + m
      /\ w.ino \in Inum /\ w.off \in Nat /\ w.n \in Nat /\ w.tot \in Nat
  BY <1>3, <1>4
<1> DEFINE here(i, k) == i = w.ino /\ At <= k /\ k < At + m
<1>6. \A i \in Inum, k \in Nat : k < dinode[i].size =>
        Cell(i, k)' = IF here(i, k) THEN w.src ELSE Cell(i, k)
  <2> SUFFICES ASSUME NEW i \in Inum, NEW k \in Nat, k < dinode[i].size
               PROVE  Cell(i, k)' = IF here(i, k) THEN w.src ELSE Cell(i, k)
    OBVIOUS
  <2> DEFINE a == PlaceOf(k \div PB)
  <2>1. OnDisk[i][a] = InUse[i][a] /\ InUse[i][a] # Zero /\ k < MAXFILE
    BY CellCovered, Constants
  <2>2. Used(i, k)' = IF here(i, k) THEN w.src ELSE Used(i, k)
    BY <1>2, <2>1 DEF Wrote
  <2>3. Used(i, k) = Cell(i, k) /\ Used(i, k)' = Cell(i, k)'
    BY <1>3, <2>1 DEF Used, Cell
  <2> HIDE DEF here
  <2> QED
    BY <2>2, <2>3
\* No entry of the root is overwritten: the new one is behind the last.
<1>7. Dir' = Dir /\ (Dots => Dots')
  <2>1. \A k \in Nat : k < dinode[ROOTINO].size => ~here(ROOTINO, k)
    BY <1>4, <1>5, MaxFileNat, Constants DEF Inv, DiskInv, DiskTypes, Dinode
  <2> HIDE DEF here
  <2>2. \A k \in Nat : k < dinode[ROOTINO].size => Entry(k)' = Entry(k)
    BY <1>6, <2>1, Constants DEF Cell, Entry
  <2> QED
    BY <1>1, <2>2, DirStays
<1>8. \A i \in Inum : i # w.ino \/ call.op = "open" => Content'[i] = Content[i]
  <2> SUFFICES ASSUME NEW i \in Inum, i # w.ino \/ call.op = "open"
               PROVE  Content'[i] = Content[i]
    OBVIOUS
  <2>1. dinode[i].type = "file" => i # w.ino
    BY <1>4, <1>5 DEF Inv, DiskInv, DiskTypes
  <2>2. dinode[i].type = "file" => \A k \in Nat : k < dinode[i].size => Cell(i, k)' = Cell(i, k)
    BY <1>6, <2>1
  <2> QED
    BY <1>1, <2>2, ContentStays
<1>9. CallStore'
  <2>1. CallStore
    BY <1>1 DEF StoreInv
  <2>2. call.op = "open" => dinode'[call.ino].size = 0 /\ w'.src.name \in Names
    BY <1>1, <1>5, <2>1 DEF CallStore, Calling
  <2>3. call.op = "write" => \A k \in Nat : w.off <= k /\ k < w.off + w'.tot =>
          block'[InUse'[w.ino][PlaceOf(k \div PB)]][k % PB] = w.src
    <3> SUFFICES ASSUME call.op = "write", NEW k \in Nat, w.off <= k, k < w.off + w'.tot
                 PROVE  block'[InUse'[w.ino][PlaceOf(k \div PB)]][k % PB] = w.src
      OBVIOUS
    <3> HIDE DEF here
    <3>1. \A i \in Inum : i = w.ino => Used(i, k)' = w.src
      <4>1. k < MAXFILE
        BY <1>3, <1>4, <1>5, MaxFileNat
      <4>2. CASE here(w.ino, k)
        <5>1. At <= k /\ k < At + m
          BY <4>2 DEF here
        <5> QED
          BY <1>2, <1>5, <4>1, <5>1 DEF Wrote
      <4>3. CASE ~here(w.ino, k)
        <5>1. k < w.off + w.tot
          BY <1>3, <1>4, <1>5, <4>3 DEF here
        <5>2. InUse[w.ino][PlaceOf(k \div PB)] # Zero
          BY <1>1, <5>1, PassedPlace
        <5>3. Used(w.ino, k) = w.src
          BY <1>1, <2>1, <5>1 DEF CallStore, Calling, Used
        <5>4. ~(At <= k /\ k < At + m)
          BY <4>3 DEF here
        <5> QED
          BY <1>2, <1>5, <4>1, <5>2, <5>3, <5>4 DEF Wrote
      <4> QED
        BY <4>2, <4>3
    <3> QED
      BY <1>5, <3>1 DEF Used
  <2> QED
    BY <1>1, <1>5, <2>2, <2>3 DEF CallStore, Calling
<1>10. CASE call.op = "open"
  <2>1. Content' = Content
    BY <1>8, <1>10 DEF Content
  <2>2. Pending' = Pending
    BY <1>10 DEF Pending
  <2> QED
    BY <1>7, <1>9, <2>1, <2>2, Unseen DEF StoreInv
<1>11. CASE call.op = "write"
  <2>1. dinode[w.ino].type = "file"
    BY <1>1, <1>11, WritePending
  <2>2. \A i \in Inum, k \in Nat : i = w.ino /\ k < dinode'[w.ino].size =>
          \/ w.off <= k /\ k < w.off + w.n /\ Cell(i, k)' = w.src
          \/ k < dinode[w.ino].size /\ Cell(i, k)' = Cell(i, k)
    <3>1. \A i \in Inum, k \in Nat : here(i, k) => w.off <= k /\ k < w.off + w.n
      BY <1>3, <1>4, <1>5
    <3> HIDE DEF here
    <3> QED
      BY <1>1, <1>6, <3>1
  <2>3. MappedNext
    BY <1>1, <1>5, <1>7, <1>8, <1>11, <2>1, <2>2, GoesOnSeen
  <2> QED
    BY <1>7, <1>9, <2>3 DEF StoreInv
<1> QED
  BY <1>4, <1>10, <1>11

LEMMA EndStaysSeen ==
  ASSUME Inv, Inv', StoreInv, WriteiEnd, ~(w.n > 0 /\ At > Ip.size),
         UNCHANGED <<file, ofile, call, result>>
  PROVE  StoreInv' /\ MappedNext
<1>1. /\ pc = "writei" /\ pc' = "writei_ret" /\ w.tot = w.n
      /\ UNCHANGED <<disk, w>> /\ Growing /\ ~Growing'
  BY DEF WriteiEnd, disk, Growing
<1>2. Dir' = Dir /\ Content' = Content /\ (Dots => Dots')
  BY <1>1, DiskShows
<1>3. /\ w.ino \in Inum /\ w.off \in Nat /\ w.n \in Nat /\ w.off + w.n <= dinode[w.ino].size
      /\ call.op = "open" => w.ino = ROOTINO /\ w.n = 1 /\ w.off = dinode[ROOTINO].size
  BY <1>1 DEF Inv, WriteInv, Calling, Growing, disk
<1>4. call.op # "open"
  BY <1>3, MaxFileNat, Constants DEF Inv, DiskInv, DiskTypes, Dinode
<1>5. CallStore'
  <2>1. ASSUME call.op = "write", NEW k \in Nat, w.off <= k, k < w.off + w.n
        PROVE  block'[InUse'[w.ino][PlaceOf(k \div PB)]][k % PB] = w.src
    <3>1. k < dinode[w.ino].size
      BY <1>3, <2>1, MaxFileNat DEF Inv, DiskInv, DiskTypes, Dinode
    <3>2. OnDisk[w.ino][PlaceOf(k \div PB)] = InUse[w.ino][PlaceOf(k \div PB)]
      BY <1>3, <3>1, CellCovered
    <3>3. InUse'[w.ino] = OnDisk'[w.ino] /\ OnDisk'[w.ino] = OnDisk[w.ino]
      BY <1>1, <1>3, NumbersInUse, NumbersOnDisk DEF disk
    <3>4. block[InUse[w.ino][PlaceOf(k \div PB)]][k % PB] = w.src
      BY <1>1, <2>1 DEF StoreInv, CallStore, Calling
    <3> QED
      BY <1>1, <3>2, <3>3, <3>4 DEF disk
  <2> QED
    BY <1>1, <1>4, <2>1 DEF CallStore, Calling
<1>6. Pending' = Pending
  BY <1>1 DEF Pending
<1> QED
  BY <1>2, <1>5, <1>6, Unseen DEF StoreInv

\* The cells of a file that has grown.
LEMMA GrownCells ==
  ASSUME Inv, WriteiEnd, w.n > 0, At > Ip.size
  PROVE  /\ \A i \in Inum, k \in Nat : k < dinode[i].size => Cell(i, k)' = Cell(i, k)
         /\ \A i \in Inum, k \in Nat : Cell(i, k)' = Used(i, k)
<1>1. block' = block
  BY DEF WriteiEnd
<1>2. \A i \in Inum, k \in Nat : Cell(i, k)' = Used(i, k)
  BY <1>1, FileGrown DEF Cell, Used
<1>3. \A i \in Inum, k \in Nat : k < dinode[i].size => Used(i, k) = Cell(i, k)
  BY CellCovered DEF Cell, Used
<1> QED
  BY <1>2, <1>3

LEMMA WriteGrows ==
  ASSUME Inv, Inv', StoreInv, WriteiEnd, w.n > 0, At > Ip.size, call.op = "write",
         UNCHANGED <<file, ofile, call, result>>
  PROVE  StoreInv' /\ MappedNext
<1>1. /\ pc = "writei" /\ pc' = "writei_ret" /\ w.tot = w.n /\ UNCHANGED <<bitmap, block, w>>
      /\ Growing /\ ~Growing'
  BY DEF WriteiEnd, Growing
<1>2. /\ w.ino \in Inum /\ w.off \in Nat /\ w.off <= dinode[w.ino].size
      /\ At = w.off + w.n /\ At \in 0 .. MAXFILE /\ At > dinode[w.ino].size
      /\ dinode'[w.ino].size = At /\ dinode'[w.ino].type = dinode[w.ino].type
      /\ \A j \in Inum : j # w.ino => dinode'[j] = dinode[j]
      /\ \A j \in Inum : OnDisk'[j] = InUse[j] /\ InUse'[j] = OnDisk'[j]
  BY FileGrown
<1>3. w.ino # ROOTINO /\ dinode[w.ino].type = "file"
  BY <1>1, WritePending
<1>4. CallStore
  BY <1>1 DEF StoreInv
<1>5. \A k \in Nat : w.off <= k /\ k < w.off + w.n => Used(w.ino, k) = w.src
  BY <1>1, <1>4 DEF CallStore, Calling, Used
<1>6. Dir' = Dir /\ (Dots => Dots')
  <2>1. \A k \in Nat : k < dinode[ROOTINO].size => Entry(k)' = Entry(k)
    BY GrownCells, Constants DEF Cell, Entry
  <2> QED
    BY <1>2, <1>3, <2>1, DirStays, Constants
<1>7. \A i \in Inum : i # w.ino => Content'[i] = Content[i]
  <2> SUFFICES ASSUME NEW i \in Inum, i # w.ino
               PROVE  Content'[i] = Content[i]
    OBVIOUS
  <2>1. \A k \in Nat : k < dinode[i].size => Cell(i, k)' = Cell(i, k)
    BY GrownCells
  <2> QED
    BY <1>2, <2>1, ContentStays
<1>8. CallStore'
  BY <1>1, <1>2, <1>5 DEF CallStore, Calling, Used
<1>9. \A i \in Inum, k \in Nat : i = w.ino /\ k < dinode'[w.ino].size =>
        \/ w.off <= k /\ k < w.off + w.n /\ Cell(i, k)' = w.src
        \/ k < dinode[w.ino].size /\ Cell(i, k)' = Cell(i, k)
  <2> SUFFICES ASSUME NEW i \in Inum, NEW k \in Nat, i = w.ino, k < At
               PROVE  \/ w.off <= k /\ k < w.off + w.n /\ Cell(i, k)' = w.src
                      \/ k < dinode[w.ino].size /\ Cell(i, k)' = Cell(i, k)
    BY <1>2
  <2>1. CASE k < dinode[w.ino].size
    BY <2>1, GrownCells
  <2>2. CASE ~(k < dinode[w.ino].size)
    <3>1. w.off <= k /\ k < w.off + w.n
      BY <1>2, <2>2, MaxFileNat DEF Inv, DiskInv, DiskTypes, Dinode
    <3>2. Used(i, k) = w.src
      BY <1>5, <3>1
    <3> QED
      BY <3>1, <3>2, GrownCells
  <2> QED
    BY <2>1, <2>2
<1>10. MappedNext
  <2>1. w'.src = w.src /\ w'.n = w.n
    BY <1>1
  <2>2. \/ dinode'[w.ino].size = dinode[w.ino].size
        \/ dinode'[w.ino].size = w.off + w.n /\ w.off + w.n > dinode[w.ino].size
    BY <1>2
  <2>3. dinode'[w.ino].type = "file"
    BY <1>2, <1>3
  <2> QED
    BY <1>1, <1>6, <1>7, <1>9, <2>1, <2>2, <2>3, GoesOnSeen
<1> QED
  BY <1>6, <1>8, <1>10 DEF StoreInv

\* With the size of the root the new entry appears, and with it the file.
LEMMA EntryAppears ==
  ASSUME Inv, Inv', StoreInv, WriteiEnd, w.n > 0, At > Ip.size, call.op = "open",
         UNCHANGED <<file, ofile, call, result>>
  PROVE  StoreInv' /\ MappedNext
<1> DEFINE o == w.off
           new == w.src
<1>1. /\ pc = "writei" /\ pc' = "writei_ret" /\ UNCHANGED <<bitmap, block, w>>
      /\ Growing /\ ~Growing'
  BY DEF WriteiEnd, Growing
<1>2. /\ w.ino = ROOTINO /\ w.n = 1 /\ new \in Dirents /\ new.inum = call.ino
      /\ call.ino # ROOTINO /\ dinode[call.ino].type = "file" /\ o = dinode[ROOTINO].size
      /\ \A k \in Nat : k < o => Entry(k).name # new.name /\ Entry(k).inum # new.inum
      /\ w.tot = 1
      /\ block[InUse[ROOTINO][PlaceOf(o \div PB)]][o % PB] = new
  BY <1>1 DEF Inv, WriteInv, Calling, Growing, WriteiEnd
<1>3. /\ o \in Nat /\ dinode'[ROOTINO].size = o + 1 /\ dinode'[ROOTINO].type = dinode[ROOTINO].type
      /\ \A j \in Inum : j # ROOTINO => dinode'[j] = dinode[j]
  BY <1>2, FileGrown
<1>4. /\ \A k \in Nat : k < o => Entry(k)' = Entry(k)
      /\ \A k \in Nat : k = o => Entry(k)' = new
  <2>1. \A k \in Nat : Entry(k) = Cell(ROOTINO, k) /\ Entry(k)' = Cell(ROOTINO, k)'
    BY DEF Cell, Entry
  <2>2. \A k \in Nat : k < o => Entry(k)' = Entry(k)
    BY <1>2, <2>1, GrownCells, Constants
  <2>3. \A k \in Nat : k = o => Entry(k)' = new
    BY <1>2, <2>1, GrownCells, Constants DEF Used
  <2> QED
    BY <2>2, <2>3
<1>5. call.ino \in Inum /\ dinode[call.ino].size = 0 /\ new.name \in Names
  BY <1>1, <1>2 DEF Dirents, StoreInv, CallStore, Calling
<1> HIDE DEF o, new
<1>6. Dots'
  <2>1. Dots
    BY DEF StoreInv
  <2> QED
    BY <1>2, <1>3, <1>4, <2>1 DEF Dots
<1>7. ASSUME NEW name \in Names, name # new.name
      PROVE  Dir'[name] = Dir[name]
  <2>1. \/ Dir[name] = NoInum /\ \A k \in Nat : k < o => Entry(k).name # name
        \/ \E k \in Nat : k < o /\ Entry(k).name = name /\ Dir[name] = Entry(k).inum
    BY <1>2, DirSays DEF DirIs
  <2>2. \/ Dir'[name] = NoInum /\ \A k \in Nat : k < o + 1 => Entry(k)'.name # name
        \/ \E k \in Nat : k < o + 1 /\ Entry(k)'.name = name /\ Dir'[name] = Entry(k)'.inum
    BY <1>3, DirSaysNext DEF DirIs
  <2>3. \/ Dir'[name] = NoInum /\ \A k \in Nat : k < o => Entry(k).name # name
        \/ \E k \in Nat : k < o /\ Entry(k).name = name /\ Dir'[name] = Entry(k).inum
    <3>1. \A k \in Nat : k < o + 1 => k < o \/ k = o
      BY <1>3
    <3>2. \A k \in Nat : k < o => k < o + 1
      BY <1>3
    <3>3. CASE Dir'[name] = NoInum /\ \A k \in Nat : k < o + 1 => Entry(k)'.name # name
      BY <1>4, <3>2, <3>3
    <3>4. CASE \E k \in Nat : k < o + 1 /\ Entry(k)'.name = name /\ Dir'[name] = Entry(k)'.inum
      <4>1. PICK k \in Nat : k < o + 1 /\ Entry(k)'.name = name /\ Dir'[name] = Entry(k)'.inum
        BY <3>4
      <4>2. k < o
        BY <1>4, <1>7, <3>1, <4>1
      <4> QED
        BY <1>4, <4>1, <4>2
    <3> QED
      BY <2>2, <3>3, <3>4
  <2>4. \A k, l \in Nat : k < o /\ l < o /\ Entry(k).name = Entry(l).name => k = l
    BY <1>2 DEF Inv, DiskInv, Entries
  <2> QED
    BY <2>1, <2>3, <2>4
<1>8. Dir[new.name] = NoInum
  BY <1>2, <1>5, DirSays DEF DirIs
<1>9. Dir'[new.name] = call.ino
  <2>1. \/ Dir'[new.name] = NoInum /\ \A k \in Nat : k < o + 1 => Entry(k)'.name # new.name
        \/ \E k \in Nat : k < o + 1 /\ Entry(k)'.name = new.name /\ Dir'[new.name] = Entry(k)'.inum
    <3>1. \A name \in Names :
            \/ Dir'[name] = NoInum /\ \A k \in Nat : k < o + 1 => Entry(k)'.name # name
            \/ \E k \in Nat : k < o + 1 /\ Entry(k)'.name = name /\ Dir'[name] = Entry(k)'.inum
      BY <1>3, DirSaysNext DEF DirIs
    <3> QED
      BY <1>5, <3>1
  <2>2. \A k \in Nat : k < o + 1 /\ Entry(k)'.name = new.name => k = o
    <3>1. \A k \in Nat : k < o + 1 => k < o \/ k = o
      BY <1>3
    <3> QED
      BY <1>2, <1>4, <3>1
  <2>3. \E k \in Nat : k < o + 1 /\ Entry(k)'.name = new.name
    <3>1. \A k \in Nat : k = o => k < o + 1 /\ Entry(k)'.name = new.name
      BY <1>3, <1>4
    <3> QED
      BY <1>3, <3>1
  <2>4. PICK k \in Nat : k = o /\ Dir'[new.name] = Entry(k)'.inum
    BY <2>1, <2>2, <2>3
  <2> QED
    BY <1>2, <1>4, <2>4
<1>10. Dir' = [Dir EXCEPT ![new.name] = call.ino]
  <2>1. Dir = [name \in Names |-> Dir[name]] /\ Dir' = [name \in Names |-> Dir'[name]]
    BY DEF Dir
  <2> QED
    BY <1>5, <1>7, <1>9, <2>1
<1>11. Content' = Content
  <2>1. \A i \in Inum : Content'[i] = Content[i]
    <3> SUFFICES ASSUME NEW i \in Inum PROVE Content'[i] = Content[i]
      OBVIOUS
    <3>1. CASE i = ROOTINO
      <4>1. dinode[i].type = "dir" /\ dinode'[i].type = "dir"
        BY <1>3, <3>1, Constants DEF Inv, DiskInv, DiskTypes
      <4> QED
        BY <4>1, ContentStays
    <3>2. CASE i # ROOTINO
      <4>1. \A k \in Nat : k < dinode[i].size => Cell(i, k)' = Cell(i, k)
        BY <1>2, GrownCells
      <4> QED
        BY <1>3, <3>2, <4>1, ContentStays
    <3> QED
      BY <3>1, <3>2
  <2> QED
    BY <2>1 DEF Content
<1>12. Content[call.ino] = <<>>
  <2>1. Content[call.ino] = [k \in 1 .. 0 |-> Cell(call.ino, k - 1)]
    BY <1>2, <1>5, Contents DEF ContentIs
  <2> QED
    BY <2>1
<1>13. \A other \in Names : Dir[other] # call.ino
  BY <1>2, <1>5, DirSays, Constants DEF DirIs
<1>14. Promise!Create(new.name)
  <2>1. Pending' = Pending /\ Opened' = Opened
    BY <1>1 DEF Pending, Opened
  <2>2. call.ino \in Inum \ {ROOTINO}
    BY <1>2, <1>5
  <2> QED
    BY <1>8, <1>10, <1>11, <1>12, <1>13, <2>1, <2>2 DEF Promise!Create
<1>15. MappedNext
  BY <1>5, <1>14 DEF MappedNext, Promise!Next
<1>16. CallStore'
  <2>1. dinode'[call.ino].size = 0
    BY <1>2, <1>3, <1>5
  <2>2. call.ino \in {Dir'[name] : name \in Names}
    BY <1>5, <1>9
  <2> QED
    BY <1>1, <2>1, <2>2 DEF CallStore, Calling, Reachable
<1> QED
  BY <1>6, <1>15, <1>16 DEF StoreInv

-----------------------------------------------------------------------------
(* Every step                                                              *)

LEMMA StoreInit ==
  ASSUME Init
  PROVE  StoreInv /\ Promise!Init
<1>1. Inv
  BY InitInv
<1>2. /\ pc = "user" /\ call.op = "none" /\ result = Returned(0)
      /\ ofile = [d \in Fds |-> NoFile]
  BY DEF Init, FsInit, NoCall
<1>3. /\ dinode[ROOTINO].size = 2 /\ dinode[ROOTINO].addrs[0] = 1
      /\ \A i \in Inum : dinode[i].type # "file"
      /\ block[1][0] = Dirent(ROOTINO, ".") /\ block[1][1] = Dirent(ROOTINO, "..")
  <2> DEFINE root == [type |-> "dir", size |-> 2, addrs |-> [NoAddrs EXCEPT ![0] = 1]]
             dots == <<Dirent(ROOTINO, "."), Dirent(ROOTINO, "..")>>
  <2>1. /\ block = [b \in Blk |-> [s \in Slot |-> IF b = 1 /\ s < 2 THEN dots[s + 1] ELSE Zero]]
        /\ dinode = [i \in Inum |-> IF i # ROOTINO THEN FreeDinode ELSE root]
    BY DEF Init, FsInit
  <2>2. root.size = 2 /\ root.type = "dir" /\ root.addrs[0] = 1
    BY Constants DEF NoAddrs
  <2>3. dinode[ROOTINO] = root /\ \A i \in Inum : i # ROOTINO => dinode[i] = FreeDinode
    BY <2>1, Constants
  <2>4. dots[1] = Dirent(ROOTINO, ".") /\ dots[2] = Dirent(ROOTINO, "..")
    OBVIOUS
  <2> HIDE DEF dots, root
  <2>5. block[1][0] = dots[1] /\ block[1][1] = dots[2]
    BY <2>1, Constants
  <2> QED
    BY <2>2, <2>3, <2>4, <2>5, FreeDinodeType
<1>4. \A k \in Nat : k < 2 => k \div PB = 0 /\ k % PB = k
  BY FsAssumption DEF FsAssumption
<1>5. \A k \in Nat : k < 2 => Entry(k) = block[1][k]
  <2>1. PlaceOf(0) = 0 /\ 0 \in Place /\ 0 <= NDIRECT
    BY Constants DEF PlaceOf, Place
  <2>2. OnDisk[ROOTINO] = NumbersOf(block, dinode[ROOTINO].addrs)
    BY Constants, NumbersOnDisk
  <2>3. OnDisk[ROOTINO][0] = 1
    BY <1>3, <2>1, <2>2, NumbersAt
  <2> QED
    BY <1>4, <2>1, <2>3 DEF Entry
<1>6. Dots
  BY <1>3, <1>5 DEF Dots
<1>7. StoreInv
  BY <1>2, <1>6 DEF StoreInv, CallStore, Calling, Growing
<1>8. Dir = [name \in Names |-> NoInum]
  <2>1. \A name \in Names : Dir[name] = NoInum
    <3> SUFFICES ASSUME NEW name \in Names PROVE Dir[name] = NoInum
      OBVIOUS
    <3>1. \A k \in Nat : k < 2 => k = 0 \/ k = 1
      OBVIOUS
    <3>2. \A k \in Nat : k < 2 => Entry(k).name # name
      BY <1>6, <3>1, FsAssumption DEF Dots, Dirent, FsAssumption
    <3> QED
      BY <1>1, <1>3, <3>2, DirSays DEF DirIs
  <2> QED
    BY <2>1 DEF Dir
<1>9. Content = [i \in Inum |-> <<>>]
  BY <1>3 DEF Content
<1>10. Opened = [d \in Promise!Fds |-> Promise!Closed]
  BY <1>2 DEF Opened, Promise!Closed, Promise!Fds, Fds
<1>11. Pending = Promise!NoWrite
  BY <1>2 DEF Pending, Promise!NoWrite
<1>12. result = Promise!Returned(0)
  BY <1>2 DEF Returned, Promise!Returned
<1> QED
  BY <1>7, <1>8, <1>9, <1>10, <1>11, <1>12 DEF Promise!Init

LEMMA StoreStep == Inv /\ Inv' /\ StoreInv /\ [Next]_vars => StoreInv' /\ MappedNext
<1> SUFFICES ASSUME Inv, Inv', StoreInv, [Next]_vars PROVE StoreInv' /\ MappedNext
  OBVIOUS
<1>1. ASSUME NEW path \in Paths, NEW mode \in Modes, OpenNoCreate(path, mode)
      PROVE  StoreInv' /\ MappedNext
  BY <1>1, OpenNoCreateSeen
<1>2. ASSUME NEW path \in Paths, NEW mode \in Modes, OpenCreateOld(path, mode)
      PROVE  StoreInv' /\ MappedNext
  BY <1>2, OpenCreateOldSeen
<1>3. ASSUME NEW path \in Paths, NEW mode \in Modes, OpenCreateNew(path, mode)
      PROVE  StoreInv' /\ MappedNext
  BY <1>3, OpenCreateNewSeen
<1>4. CASE OpenCreated
  BY <1>4, OpenCreatedSeen
<1>5. CASE OpenFile
  BY <1>5, OpenFileSeen
<1>6. ASSUME NEW d \in Fds, Close(d)
      PROVE  StoreInv' /\ MappedNext
  BY <1>6, CloseSeen
<1>7. ASSUME NEW d \in Fds, NEW n \in Sizes, Read(d, n)
      PROVE  StoreInv' /\ MappedNext
  BY <1>7, ReadSeen, FileAssumption DEF FileAssumption
<1>8. ASSUME NEW d \in Fds, NEW n \in Sizes, NEW v \in Values, Write(d, v, n)
      PROVE  StoreInv' /\ MappedNext
  BY <1>8, WriteSeen, FileAssumption DEF FileAssumption
<1>9. CASE WriteReturn
  BY <1>9, WriteReturnSeen
<1>10. CASE Writei /\ UNCHANGED <<file, ofile, call, result, calls, crashes>>
  <2>1. UNCHANGED <<file, ofile, call, result>>
    BY <1>10
  <2>2. CASE Balloc
    BY <2>1, <2>2, BallocSeen
  <2>3. CASE Bzero
    BY <2>1, <2>3, BzeroSeen
  <2>4. CASE Assign
    BY <2>1, <2>4, AssignSeen
  <2>5. CASE WriteBlock
    BY <2>1, <2>5, WriteBlockSeen
  <2>6. CASE WriteiEnd
    <3>1. call.op \in {"open", "write"}
      BY <2>6 DEF WriteiEnd, Inv, WriteInv, Calling, Growing
    <3> QED
      BY <2>1, <2>6, <3>1, EndStaysSeen, WriteGrows, EntryAppears
  <2> QED
    BY <1>10, <2>2, <2>3, <2>4, <2>5, <2>6 DEF Writei
<1>11. CASE PowerFails
  BY <1>11, PowerFailsSeen
<1>12. CASE UNCHANGED vars
  <2>1. UNCHANGED <<disk, icache, pc, w, fresh, file, ofile, call, result>>
    BY <1>12 DEF vars, fsvars
  <2>2. Dir' = Dir /\ Content' = Content /\ (Dots => Dots')
    BY <2>1, DiskShows
  <2>3. CallStore => CallStore'
    BY <2>1, <2>2 DEF CallStore, Calling, Growing, Reachable, InUse, disk, icache
  <2>4. Pending' = Pending
    BY <2>1 DEF Pending
  <2> QED
    BY <2>1, <2>2, <2>3, <2>4, Unseen DEF StoreInv
<1> QED
  BY <1>1, <1>2, <1>3, <1>4, <1>5, <1>6, <1>7, <1>8, <1>9, <1>10, <1>11, <1>12 DEF Next

\* open, read, write and close (sysfile.c) over writei, bmap and the directory (fs.c) do
\* to names and contents what FileStore says, at each bwrite and after any power failure:
\* for every size of blocks, inodes and tables and every number of calls.
THEOREM FileImplementsStore == Spec => ImplementsFileStore
<1>1. Init => Promise!Init
  BY StoreInit
<1>2. Init => Inv /\ StoreInv
  BY InitInv, StoreInit
<1>3. Inv /\ Inv' /\ StoreInv /\ [Next]_vars => StoreInv' /\ MappedNext
  BY StoreStep
<1>4. Inv /\ [Next]_vars => Inv'
  BY InvStep
<1>5. MappedNext => [Promise!Next]_(Promise!sys)
  BY DEF MappedNext, Promise!sys
<1> QED
  BY <1>1, <1>2, <1>3, <1>4, <1>5, PTL DEF Spec, ImplementsFileStore, Promise!Spec
=============================================================================
