------------------------------- MODULE Inodes -------------------------------
(***************************************************************************)
(* What balloc, ialloc, iget, ilock, iupdate and iput promise (the         *)
(* comments of kernel/fs/fs.c), each as one step: blocks and inodes are    *)
(* handed out once, and an inode has one copy in memory while somebody     *)
(* refers to it.  This is the grain at which Fs uses them.                 *)
(***************************************************************************)
EXTENDS Integers

CONSTANTS Blk, Inum,
          NotLoaded   \* no copy in memory

VARIABLES used,    \* blocks in use
          dinode,  \* each inode on the disk: [type, size]
          refs,    \* references to each inode
          copy     \* its copy in memory, or NotLoaded

inodes == <<used, dinode, refs, copy>>

Balloc ==
  /\ \E b \in Blk \ used : used' = used \cup {b}
  /\ UNCHANGED <<dinode, refs, copy>>

\* A free inode becomes an empty file.  Nobody can refer to it yet.
Ialloc(i) ==
  /\ dinode[i].type = "free" /\ refs[i] = 0
  /\ dinode' = [dinode EXCEPT ![i] = [type |-> "file", size |-> 0]]
  /\ UNCHANGED <<used, refs, copy>>

\* The copy may still be there.
Iget(i) ==
  /\ dinode[i].type # "free"
  /\ refs' = [refs EXCEPT ![i] = @ + 1]
  /\ copy' \in {copy, [copy EXCEPT ![i] = dinode[i]]}
  /\ refs[i] > 0 => UNCHANGED copy
  /\ UNCHANGED <<used, dinode>>

\* The copy is made once, from the disk.
Ilock(i) ==
  /\ refs[i] > 0 /\ copy[i] = NotLoaded
  /\ copy' = [copy EXCEPT ![i] = dinode[i]]
  /\ UNCHANGED <<used, dinode, refs>>

Grow(i) ==
  /\ copy[i] # NotLoaded
  /\ copy' = [copy EXCEPT ![i].size = @ + 1]
  /\ UNCHANGED <<used, dinode, refs>>

Iupdate(i) ==
  /\ copy[i] # NotLoaded
  /\ dinode' = [dinode EXCEPT ![i] = copy[i]]
  /\ UNCHANGED <<used, refs, copy>>

\* A copy that is on the disk may go before the last reference does.
Drop(i) ==
  /\ refs[i] = 1 /\ copy[i] = dinode[i]
  /\ copy' = [copy EXCEPT ![i] = NotLoaded]
  /\ UNCHANGED <<used, dinode, refs>>

\* With the last reference the copy goes, and nothing is lost with it.
Iput(i) ==
  /\ refs[i] > 0
  /\ refs' = [refs EXCEPT ![i] = @ - 1]
  /\ IF refs[i] > 1 THEN UNCHANGED copy
     ELSE /\ copy[i] \in {NotLoaded, dinode[i]}
          /\ copy' = [copy EXCEPT ![i] = NotLoaded]
  /\ UNCHANGED <<used, dinode>>

Init ==
  /\ used \subseteq Blk
  /\ \A i \in Inum : refs[i] = 0 /\ copy[i] = NotLoaded

Next ==
  \/ Balloc
  \/ \E i \in Inum :
       \/ Ialloc(i) \/ Iget(i) \/ Ilock(i) \/ Grow(i) \/ Iupdate(i) \/ Drop(i) \/ Iput(i)

Spec == Init /\ [][Next]_inodes
=============================================================================
