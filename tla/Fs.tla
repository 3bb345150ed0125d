--------------------------------- MODULE Fs ---------------------------------
(***************************************************************************)
(* The file system (kernel/fs/fs.c): block bitmap, inodes and their cache, *)
(* bmap, writei, directories, on the disk that mkfs writes.                *)
(*                                                                         *)
(* The block layer is BlockStore, one content per block: a bwrite is one   *)
(* step, and what happens between two of them is part of the later.  Power *)
(* may fail between any two steps; there is no log and no repair.          *)
(*                                                                         *)
(* A block has PB cells.  A cell holds a byte of a file, a directory entry *)
(* or, in an indirect block, a block number; Zero is what bzero leaves.    *)
(* One process is in the file system at a time.  Only the root is a        *)
(* directory, since no system call makes another.  nlink is left out: no   *)
(* code depends on it but a branch of iput that does what the next does.   *)
(***************************************************************************)
EXTENDS Integers, Sequences, FiniteSets, SequencesExt

CONSTANTS Names,    \* BOUND: names a user gives to files
          Values,   \* BOUND: bytes a user writes
          Zero,     \* zero bytes
          PB,       \* cells of a block; also the entries of an indirect block
          NDIRECT,  \* direct addresses of an inode, 12 in the code
          NB,       \* data blocks
          NINODES,  \* inodes on the disk, inode 0 included
          NINODE    \* slots of icache, 50 in the code

ASSUME FsAssumption ==
  /\ PB \in Nat /\ PB > 1   \* the first block of the root holds both of mkfs's entries
  /\ NDIRECT \in Nat \ {0} /\ NB \in Nat \ {0}
  /\ NINODES \in Nat /\ NINODES > 1 /\ NINODE \in Nat \ {0}
  /\ {".", ".."} \cap Names = {}
  \* A block number and the inum of an entry in use are not 0.
  /\ Zero \notin Values \cup 1 .. NB
  /\ Zero \notin [inum : 1 .. NINODES - 1, name : Names \cup {".", ".."}]

VARIABLES
  \* the disk: bits set in the bitmap, dinodes, data blocks
  bitmap, dinode, block,
  \* icache, by inode number: a slot is taken while ref > 0
  ref, ivalid, inode,
  \* where the system call is; writei's arguments and tot; balloc's block
  pc, w, fresh

disk    == <<bitmap, dinode, block>>
icache  == <<ref, ivalid, inode>>
fsvars  == <<disk, icache, pc, w, fresh>>

Blk == 1 .. NB
Slot == 0 .. PB - 1
Inum == 1 .. NINODES - 1
ROOTINO == 1
NoInum == 0
MAXFILE == (NDIRECT + PB) * PB   \* in cells

NoAddrs == [a \in 0 .. NDIRECT |-> Zero]
FreeDinode == [type |-> "free", size |-> 0, addrs |-> NoAddrs]
ZeroBlock == [s \in Slot |-> Zero]
Dirent(inum, name) == [inum |-> inum, name |-> name]
NoWrite == [ino |-> NoInum, src |-> Zero, off |-> 0, n |-> 0, tot |-> 0]
NoFresh == [blk |-> 0, use |-> "none"]

\* main of mkfs: a root with "." and "..", appended one after the other.
FsInit ==
  LET dots == <<Dirent(ROOTINO, "."), Dirent(ROOTINO, "..")>>
  IN  /\ bitmap = {1}
      /\ block = [b \in Blk |-> [s \in Slot |-> IF b = 1 /\ s < 2 THEN dots[s + 1] ELSE Zero]]
      /\ dinode = [i \in Inum |-> IF i # ROOTINO THEN FreeDinode
            ELSE [type |-> "dir", size |-> 2, addrs |-> [NoAddrs EXCEPT ![0] = 1]]]
      /\ ref = [i \in Inum |-> 0] /\ ivalid = [i \in Inum |-> FALSE]
      /\ inode = [i \in Inum |-> FreeDinode]
      /\ pc = "user" /\ w = NoWrite /\ fresh = NoFresh

-----------------------------------------------------------------------------
(* Reading                                                                 *)

\* bmap on a block that is mapped; Zero if it is not.
Bmap(ip, bn) ==
  IF bn < NDIRECT THEN ip.addrs[bn]
  ELSE IF ip.addrs[NDIRECT] = Zero THEN Zero
  ELSE block[ip.addrs[NDIRECT]][bn - NDIRECT]

\* readi: the cells of the file from off, at most n, none after its end.
Readi(ip, off, n) ==
  [k \in 1 .. Min({n, ip.size - off}) |->
     block[Bmap(ip, (off + k - 1) \div PB)][(off + k - 1) % PB]]

\* dirlookup: the inode of the first entry with the name.
Dirlookup(dp, name) ==
  LET cells == Readi(dp, 0, dp.size)
      found == {k \in DOMAIN cells : cells[k] # Zero /\ cells[k].name = name}
  IN  IF found = {} THEN NoInum ELSE cells[Min(found)].inum

\* iget, ilock: what the cache holds of inode i after them.
Loaded(i) == IF ivalid[i] THEN inode[i] ELSE dinode[i]

\* iget finds slots for S besides the ones in use ("iget: no inodes").
SlotsFor(S) == Cardinality({i \in Inum : ref[i] > 0} \cup S) <= NINODE

\* A reference to i, taken and loaded.
Hold(i) ==
  /\ ref' = [ref EXCEPT ![i] = @ + 1]
  /\ ivalid' = [ivalid EXCEPT ![i] = TRUE]
  /\ inode' = [inode EXCEPT ![i] = Loaded(i)]

\* iput.
Iput(i) ==
  /\ ref' = [ref EXCEPT ![i] = @ - 1]
  /\ ivalid' = [ivalid EXCEPT ![i] = @ /\ ref[i] > 1]
  /\ UNCHANGED inode

(***************************************************************************)
(* namex.  A path is the sequence of its elements; every lookup starts at  *)
(* the root.  namei finds the inode, nameiparent the directory of the last *)
(* element, which can only be the root.                                    *)
(***************************************************************************)
NextElem(i, name) ==
  IF i = NoInum THEN NoInum
  ELSE IF Loaded(i).type # "dir" THEN NoInum ELSE Dirlookup(Loaded(i), name)

Walk(path) ==
  LET at[k \in 0 .. Len(path)] == IF k = 0 THEN ROOTINO ELSE NextElem(at[k - 1], path[k])
  IN  at[Len(path)]

Namei(path) == Walk(path)
Nameiparent(path) ==
  IF path = <<>> THEN NoInum
  ELSE LET i == Walk(Front(path))
       IN  IF i # NoInum /\ Loaded(i).type = "dir" THEN i ELSE NoInum

Panic == pc' = "panic" /\ UNCHANGED <<disk, icache, w, fresh>>

-----------------------------------------------------------------------------
(* writei(ip, src, off, n), one bwrite at a time                           *)

WriteiFails(i, off, n) == off > inode[i].size \/ off + n > MAXFILE

\* A call puts one value in all its cells.
WriteiCall(i, src, off, n) ==
  /\ w' = [ino |-> i, src |-> src, off |-> off, n |-> n, tot |-> 0]
  /\ UNCHANGED fresh

At == w.off + w.tot
Ip == inode[w.ino]

\* What bmap finds missing for the block at At: the block itself, or the
\* indirect block that holds its number.
Missing ==
  LET bn == At \div PB
  IN  IF Bmap(Ip, bn) # Zero THEN "none"
      ELSE IF bn < NDIRECT THEN "direct"
      ELSE IF Ip.addrs[NDIRECT] = Zero THEN "table" ELSE "entry"

Writing == pc = "writei" /\ w.tot < w.n

Balloc_NoMark ==
  /\ Writing /\ Missing # "none"
  /\ LET clear == Blk \ bitmap
     IN  IF clear = {} THEN Panic
         ELSE /\ fresh' = [blk |-> Min(clear), use |-> Missing]
              /\ pc' = "bzero"
              /\ UNCHANGED <<disk, icache, w>>

\* balloc: the first clear bit is set on the disk.
Balloc ==
  /\ Writing /\ Missing # "none"
  /\ LET clear == Blk \ bitmap
     IN  IF clear = {} THEN Panic
         ELSE /\ bitmap' = bitmap \cup {Min(clear)}
              /\ fresh' = [blk |-> Min(clear), use |-> Missing]
              /\ pc' = "bzero"
              /\ UNCHANGED <<dinode, block, icache, w>>

\* bzero, the end of balloc.
Bzero ==
  /\ pc = "bzero"
  /\ block' = [block EXCEPT ![fresh.blk] = ZeroBlock]
  /\ pc' = "assign"
  /\ UNCHANGED <<bitmap, dinode, icache, w, fresh>>

\* The number goes into the inode in memory, or into the indirect block on disk.
Assign ==
  /\ pc = "assign"
  /\ LET bn == At \div PB
     IN  IF fresh.use = "entry"
           THEN /\ block' = [block EXCEPT ![Ip.addrs[NDIRECT]][bn - NDIRECT] = fresh.blk]
                /\ UNCHANGED inode
           ELSE /\ inode' = [inode EXCEPT ![w.ino].addrs[IF fresh.use = "table" THEN NDIRECT ELSE bn]
                                            = fresh.blk]
                /\ UNCHANGED block
  /\ pc' = "writei" /\ fresh' = NoFresh
  /\ UNCHANGED <<bitmap, dinode, ref, ivalid, w>>

\* One block of data: bread, memmove, bwrite.
WriteBlock ==
  /\ Writing /\ Missing = "none"
  /\ LET b == Bmap(Ip, At \div PB)
         m == Min({PB - (At % PB), w.n - w.tot})
     IN  /\ block' = [block EXCEPT ![b] =
              [s \in Slot |-> IF s \in (At % PB) .. ((At % PB) + m - 1) THEN w.src ELSE @[s]]]
         /\ w' = [w EXCEPT !.tot = @ + m]
  /\ UNCHANGED <<bitmap, dinode, icache, pc, fresh>>

WriteiEnd_NoIupdate ==
  /\ pc = "writei" /\ w.tot = w.n
  /\ inode' = IF w.n > 0 /\ At > Ip.size THEN [inode EXCEPT ![w.ino].size = At] ELSE inode
  /\ pc' = "writei_ret"
  /\ UNCHANGED <<disk, ref, ivalid, w, fresh>>

\* A file that has grown: size, then iupdate.
WriteiEnd ==
  /\ pc = "writei" /\ w.tot = w.n
  /\ inode' = IF w.n > 0 /\ At > Ip.size THEN [inode EXCEPT ![w.ino].size = At] ELSE inode
  /\ dinode' = IF w.n > 0 /\ At > Ip.size THEN [dinode EXCEPT ![w.ino] = inode'[w.ino]]
                                           ELSE dinode
  /\ pc' = "writei_ret"
  /\ UNCHANGED <<bitmap, block, ref, ivalid, w, fresh>>

Writei == Balloc \/ Bzero \/ Assign \/ WriteBlock \/ WriteiEnd
=============================================================================
