----------------------------- MODULE BlockStore -----------------------------
(***************************************************************************)
(* What the file system expects of the block layer (bread, bwrite, brelse  *)
(* of kernel/fs/bio.c): one content per block.  Between bread and brelse   *)
(* the caller may change it, and bwrite makes it durable.  There is no     *)
(* other way for either to change: what was read stays what was written.   *)
(***************************************************************************)
CONSTANTS Blocks, Values

VARIABLES content,  \* what a reader of the block finds in b->data
          durable,  \* what the disk holds
          inuse     \* blocks read and not released

Init == content = durable /\ durable \in [Blocks -> Values] /\ inuse = {}

Read(blk) ==
  /\ blk \notin inuse /\ inuse' = inuse \cup {blk}
  /\ UNCHANGED <<content, durable>>

Change(blk, v) ==
  /\ blk \in inuse /\ content' = [content EXCEPT ![blk] = v]
  /\ UNCHANGED <<durable, inuse>>

Write(blk) ==
  /\ blk \in inuse /\ durable' = [durable EXCEPT ![blk] = content[blk]]
  /\ UNCHANGED <<content, inuse>>

\* A caller releases only what it has written.
Release(blk) ==
  /\ blk \in inuse /\ content[blk] = durable[blk] /\ inuse' = inuse \ {blk}
  /\ UNCHANGED <<content, durable>>

Next == \E blk \in Blocks :
  Read(blk) \/ Write(blk) \/ Release(blk) \/ \E v \in Values : Change(blk, v)

Spec == Init /\ [][Next]_<<content, durable, inuse>>
=============================================================================
