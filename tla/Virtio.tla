------------------------------- MODULE Virtio -------------------------------
(***************************************************************************)
(* The disk driver (kernel/driver/virtio_disk.c): virtio_disk_rw hands a   *)
(* chain of three descriptors to the device and polls the used ring until  *)
(* its block is transferred.  The device is external: it takes requests in *)
(* the order of the available ring and finishes them in any order, without *)
(* errors.                                                                 *)
(*                                                                         *)
(* A caller is a process inside a system call; a tick can preempt it       *)
(* between any two statements and the driver has no lock.  One action is a *)
(* statement on shared state; the writes to descriptors a caller has just  *)
(* taken are one action, and so are the stores of one completion.          *)
(***************************************************************************)
EXTENDS Integers, Sequences, FiniteSets, TLC

CONSTANTS Callers,   \* processes that use the disk
          NBUF,      \* buffers of bcache, 30 in the code
          Blocks,    \* BOUND: block numbers in use
          Values,    \* BOUND: contents of a block
          Zero,      \* the content of a zeroed block, one of Values
          NUM,       \* descriptors of the virtqueue, 8 in the code
          IdxWrap    \* the ring indices are uint16: 2^16 in the code

ASSUME VirtioAssumption ==
  /\ NBUF \in Nat \ {0}
  /\ NUM \in Nat /\ NUM >= 3
  /\ IdxWrap \in Nat /\ IdxWrap % NUM = 0 /\ IdxWrap >= NUM
  /\ Zero \in Values

VARIABLES
  \* struct disk: free[], desc[], ops[], info[], used_idx
  free, desc, ops, info, used_idx,
  \* the rings: what the driver writes, what the device writes
  avail, avail_idx, used, used_dev_idx,
  \* the device: how far it has read, what it is working on, the blocks
  seen, inflight, media,
  \* struct buf, as far as the driver uses it
  bdisk, blockno, data,
  \* each caller: its statement, the arguments, idx[3], the loop index i, id
  pc, arg, idx, i, id,
  \* history: the device has made the transfer this caller asked for
  moved

queue  == <<free, desc, ops, info, used_idx, avail, avail_idx>>
device == <<used, used_dev_idx, seen, inflight, media>>
bufs   == <<bdisk, blockno, data>>
locals == <<arg, idx, i, id>>
diskvars == <<queue, device, bufs, pc, locals, moved>>

Bufs == 0 .. NBUF - 1
Desc == 0 .. NUM - 1
Ring == 0 .. IdxWrap - 1
Inc(index) == (index + 1) % IdxWrap
NoBlock == 0           \* a buffer that holds no block yet
NoBuf == -1
End == -1              \* no VRING_DESC_F_NEXT

\* The statements of virtio_disk_rw at which a caller can be.
RwPc == {"alloc_test", "alloc_set", "fill", "avail_ring", "avail_idx", "poll",
         "used", "used_done", "free_chain", "rw_return"}

NoArg == [b |-> NoBuf, write |-> FALSE]
NoReq == [write |-> FALSE, block |-> NoBlock, by |-> "nobody"]

\* virtio_disk_init.
DiskInit ==
  /\ free = [d \in Desc |-> TRUE]
  /\ desc = [d \in Desc |-> [to |-> <<"none", 0>>, next |-> End]]
  /\ ops = [d \in Desc |-> NoReq]
  /\ info = [d \in Desc |-> [b |-> NoBuf, status |-> 0]]
  /\ used_idx = 0 /\ avail_idx = 0 /\ used_dev_idx = 0 /\ seen = 0
  /\ avail = [d \in Desc |-> 0] /\ used = [d \in Desc |-> 0]
  /\ inflight = {}
  /\ media \in [Blocks -> Values]
  /\ bdisk = [b \in Bufs |-> FALSE]
  /\ blockno = [b \in Bufs |-> NoBlock]
  /\ data = [b \in Bufs |-> Zero]
  /\ pc = [c \in Callers |-> "fs"]
  /\ arg = [c \in Callers |-> NoArg]
  /\ idx = [c \in Callers |-> <<>>]
  /\ i = [c \in Callers |-> 0] /\ id = [c \in Callers |-> 0]
  /\ moved = [c \in Callers |-> FALSE]

-----------------------------------------------------------------------------
(* virtio_disk_rw                                                          *)

Goto(c, label) == pc' = [pc EXCEPT ![c] = label]

\* The call: virtio_disk_rw(b, write).
RwCall(c, b, write) ==
  /\ Goto(c, "alloc_test")
  /\ arg' = [arg EXCEPT ![c] = [b |-> b, write |-> write]]
  /\ idx' = [idx EXCEPT ![c] = <<>>]
  /\ i' = [i EXCEPT ![c] = 0]
  /\ moved' = [moved EXCEPT ![c] = FALSE]
  /\ UNCHANGED <<queue, device, bufs, id>>

\* The caller goes on; the locals of virtio_disk_rw are gone.
RwEnd(c) ==
  /\ arg' = [arg EXCEPT ![c] = NoArg]
  /\ idx' = [idx EXCEPT ![c] = <<>>]
  /\ i' = [i EXCEPT ![c] = 0] /\ id' = [id EXCEPT ![c] = 0]
  /\ moved' = [moved EXCEPT ![c] = FALSE]

\* alloc_desc: if (disk.free[i]) { disk.free[i] = 0; return i; }, or panic.
AllocTest(c) ==
  /\ pc[c] = "alloc_test"
  /\ IF i[c] = NUM THEN Goto(c, "panic") /\ UNCHANGED i
     ELSE IF free[i[c]] THEN Goto(c, "alloc_set") /\ UNCHANGED i
     ELSE i' = [i EXCEPT ![c] = @ + 1] /\ UNCHANGED pc
  /\ UNCHANGED <<queue, device, bufs, arg, idx, id, moved>>

AllocSet(c) ==
  /\ pc[c] = "alloc_set"
  /\ free' = [free EXCEPT ![i[c]] = FALSE]
  /\ idx' = [idx EXCEPT ![c] = Append(@, i[c])]
  /\ i' = [i EXCEPT ![c] = 0]
  /\ Goto(c, IF Len(idx[c]) = 2 THEN "fill" ELSE "alloc_test")
  /\ UNCHANGED <<desc, ops, info, used_idx, avail, avail_idx, device, bufs,
                 arg, id, moved>>

\* A read lets the device write the buffer, a write lets it read it.
Direction(c) == arg[c].write

\* The request header, the three descriptors, status = 0xff, info.b, b->disk = 1.
Fill(c) ==
  /\ pc[c] = "fill"
  /\ LET b == arg[c].b
         h == idx[c][1]
     IN  /\ ops' = [ops EXCEPT ![h] = [write |-> Direction(c), block |-> blockno[b], by |-> c]]
         /\ desc' = [desc EXCEPT ![h]         = [to |-> <<"ops", h>>, next |-> idx[c][2]],
                                 ![idx[c][2]] = [to |-> <<"data", b>>, next |-> idx[c][3]],
                                 ![idx[c][3]] = [to |-> <<"status", h>>, next |-> End]]
         /\ info' = [info EXCEPT ![h] = [b |-> b, status |-> 255]]
         /\ bdisk' = [bdisk EXCEPT ![b] = TRUE]
  /\ Goto(c, "avail_ring")
  /\ UNCHANGED <<free, used_idx, avail, avail_idx, device, blockno, data, locals, moved>>

AvailRing(c) ==
  /\ pc[c] = "avail_ring"
  /\ avail' = [avail EXCEPT ![avail_idx % NUM] = idx[c][1]]
  /\ Goto(c, "avail_idx")
  /\ UNCHANGED <<free, desc, ops, info, used_idx, avail_idx, device, bufs, locals, moved>>

AvailIdx_NoWrap(c) ==
  /\ pc[c] = "avail_idx"
  /\ avail_idx' = avail_idx + 1
  /\ Goto(c, "poll")
  /\ UNCHANGED <<free, desc, ops, info, used_idx, avail, device, bufs, locals, moved>>

\* disk.avail.idx++, and the notification that follows.
AvailIdx(c) ==
  /\ pc[c] = "avail_idx"
  /\ avail_idx' = Inc(avail_idx)
  /\ Goto(c, "poll")
  /\ UNCHANGED <<free, desc, ops, info, used_idx, avail, device, bufs, locals, moved>>

\* while (b->disk == 1)
Poll(c) ==
  /\ pc[c] = "poll"
  /\ Goto(c, IF bdisk[arg[c].b] THEN "used" ELSE "free_chain")
  /\ UNCHANGED <<queue, device, bufs, locals, moved>>

\* while (disk.used_idx != disk.used.idx) { id = ...
UsedTest(c) ==
  /\ pc[c] = "used"
  /\ IF used_idx # used_dev_idx
       THEN id' = [id EXCEPT ![c] = used[used_idx % NUM]] /\ Goto(c, "used_done")
       ELSE Goto(c, "poll") /\ UNCHANGED id
  /\ UNCHANGED <<queue, device, bufs, arg, idx, i, moved>>

UsedDone_NoAdvance(c) ==
  /\ pc[c] = "used_done"
  /\ bdisk' = [bdisk EXCEPT ![info[id[c]].b] = FALSE]
  /\ Goto(c, "used")
  /\ UNCHANGED <<queue, device, blockno, data, locals, moved>>

\* status check, disk.info[id].b->disk = 0, disk.used_idx++
UsedDone(c) ==
  /\ pc[c] = "used_done"
  /\ IF info[id[c]].status # 0
       THEN Goto(c, "panic") /\ UNCHANGED <<bdisk, used_idx>>
       ELSE /\ bdisk' = [bdisk EXCEPT ![info[id[c]].b] = FALSE]
            /\ used_idx' = Inc(used_idx)
            /\ Goto(c, "used")
  /\ UNCHANGED <<free, desc, ops, info, avail, avail_idx, device, blockno, data,
                 locals, moved>>

\* The descriptors from d on, by VRING_DESC_F_NEXT.
ChainFrom(d) ==
  LET second == desc[d].next
      third  == IF second = End THEN End ELSE desc[second].next
  IN  {d, second, third} \ {End}

FreeChain_HeadOnly(c) ==
  /\ pc[c] = "free_chain"
  /\ free' = [free EXCEPT ![idx[c][1]] = TRUE]
  /\ Goto(c, "rw_return")
  /\ UNCHANGED <<desc, ops, info, used_idx, avail, avail_idx, device, bufs, locals, moved>>

\* The flags go too.  Chains are three long as virtio_disk_rw builds them.
FreeChain(c) ==
  /\ pc[c] = "free_chain"
  /\ LET chain == ChainFrom(idx[c][1])
     IN  /\ free' = [d \in Desc |-> free[d] \/ d \in chain]
         /\ desc' = [d \in Desc |-> IF d \in chain THEN [desc[d] EXCEPT !.next = End]
                                                   ELSE desc[d]]
  /\ Goto(c, "rw_return")
  /\ UNCHANGED <<ops, info, used_idx, avail, avail_idx, device, bufs, locals, moved>>

-----------------------------------------------------------------------------
(* The device                                                              *)

DeviceTakes ==
  /\ seen # avail_idx
  /\ inflight' = inflight \cup {avail[seen % NUM]}
  /\ seen' = Inc(seen)
  /\ UNCHANGED <<queue, used, used_dev_idx, media, bufs, pc, locals, moved>>

\* The chain a well-formed request has; the device stops at any other.
WellFormed(h) ==
  /\ desc[h].to = <<"ops", h>> /\ desc[h].next # End
  /\ desc[desc[h].next].to[1] = "data" /\ desc[desc[h].next].next # End
  /\ desc[desc[desc[h].next].next].to = <<"status", h>>

DeviceFinishes(h) ==
  /\ h \in inflight /\ WellFormed(h)
  /\ LET b   == desc[desc[h].next].to[2]
         blk == ops[h].block
     IN  IF ops[h].write
           THEN media' = [media EXCEPT ![blk] = data[b]] /\ UNCHANGED data
           ELSE data' = [data EXCEPT ![b] = media[blk]] /\ UNCHANGED media
  /\ info' = [info EXCEPT ![h].status = 0]
  /\ used' = [used EXCEPT ![used_dev_idx % NUM] = h]
  /\ used_dev_idx' = Inc(used_dev_idx)
  /\ inflight' = inflight \ {h}
  /\ moved' = [moved EXCEPT ![ops[h].by] = TRUE]
  /\ UNCHANGED <<free, desc, ops, used_idx, avail, avail_idx, seen, bdisk,
                 blockno, pc, locals>>

Device == DeviceTakes \/ \E h \in Desc : DeviceFinishes(h)

-----------------------------------------------------------------------------

Driver(c) ==
  \/ AllocTest(c) \/ AllocSet(c) \/ Fill(c) \/ AvailRing(c) \/ AvailIdx(c)
  \/ Poll(c) \/ UsedTest(c) \/ UsedDone(c) \/ FreeChain(c)

-----------------------------------------------------------------------------
(* Properties                                                              *)

\* virtio_disk_rw "synchronously reads or writes one disk block"
\* (virtio_disk.c:226): when it returns the device has made the transfer.
Synchronous == \A c \in Callers : pc[c] \in {"free_chain", "rw_return"} => moved[c]
=============================================================================
