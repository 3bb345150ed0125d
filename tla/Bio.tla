-------------------------------- MODULE Bio --------------------------------
(***************************************************************************)
(* The buffer cache (kernel/fs/bio.c) over the disk driver of Virtio.      *)
(* bcache is a ring of buffers around a sentinel, kept in the order of     *)
(* their last release: bget looks for a block from the front, and recycles *)
(* the first idle buffer from the back.                                    *)
(*                                                                         *)
(* As in Virtio a caller can lose the CPU between any two statements.  A   *)
(* caller keeps the protocol every function of fs.c keeps: what it has     *)
(* changed in a buffer it writes before brelse, and it holds at most       *)
(* MaxHeld buffers at once (bmap holds the indirect block while balloc     *)
(* holds one of its own).                                                  *)
(***************************************************************************)
EXTENDS Virtio, SequencesExt

CONSTANT MaxHeld    \* buffers one caller holds at once, 2 in fs.c

\* Block 0, the boot block, is never read: 0 is also what binit leaves in blockno.
ASSUME BioAssumption == MaxHeld \in Nat \ {0} /\ NoBlock \notin Blocks

VARIABLES
  valid, refcnt, next, prev,  \* struct buf; next and prev also of the sentinel
  want, at,                   \* bget: the block asked for, the loop pointer b
  held, dirty,                \* each caller's buffers, those not yet written
  idle                        \* history: the idle buffers, longest idle first

ring   == <<next, prev>>
cache  == <<valid, refcnt, ring>>
users  == <<want, at, held, dirty>>
vars   == <<diskvars, cache, users, idle>>
disk   == <<queue, device, bdisk>>
request == <<locals, moved>>

Sentinel == -1          \* bcache.head
Node == Bufs \cup {Sentinel}

\* binit puts each buffer of the array in front of those before it.
BioInit ==
  /\ DiskInit
  /\ valid = [b \in Bufs |-> FALSE]
  /\ refcnt = [b \in Bufs |-> 0]
  /\ next = [x \in Node |-> IF x = Sentinel THEN NBUF - 1 ELSE x - 1]
  /\ prev = [x \in Node |-> IF x = NBUF - 1 THEN Sentinel ELSE x + 1]
  /\ idle = [k \in 1 .. NBUF |-> k - 1]
  /\ want = [c \in Callers |-> NoBlock]
  /\ at = [c \in Callers |-> Sentinel]
  /\ held = [c \in Callers |-> {}] /\ dirty = [c \in Callers |-> {}]

\* Back in fs.c: the locals of bget and brelse are gone.
Return(c) ==
  /\ Goto(c, "fs")
  /\ at' = [at EXCEPT ![c] = Sentinel]
  /\ want' = [want EXCEPT ![c] = NoBlock]

-----------------------------------------------------------------------------
(* bread                                                                   *)

Bread_SkipsFirst(c, blk) ==
  /\ pc[c] = "fs"
  /\ Cardinality(held[c]) < MaxHeld
  /\ \A b \in held[c] : blockno[b] # blk
  /\ want' = [want EXCEPT ![c] = blk]
  /\ at' = [at EXCEPT ![c] = next[next[Sentinel]]]
  /\ Goto(c, "bget_find")
  /\ UNCHANGED <<disk, blockno, data, request, cache, held, dirty, idle>>

\* The call bread(dev, blk) and bget's first b = bcache.head.next.
Bread(c, blk) ==
  /\ pc[c] = "fs"
  /\ Cardinality(held[c]) < MaxHeld
  /\ \A b \in held[c] : blockno[b] # blk
  /\ want' = [want EXCEPT ![c] = blk]
  /\ at' = [at EXCEPT ![c] = next[Sentinel]]
  /\ Goto(c, "bget_find")
  /\ UNCHANGED <<disk, blockno, data, request, cache, held, dirty, idle>>

\* Step 1 of bget: is the block cached?
BgetFind(c) ==
  /\ pc[c] = "bget_find"
  /\ \/ /\ at[c] = Sentinel
        /\ at' = [at EXCEPT ![c] = prev[Sentinel]] /\ Goto(c, "bget_evict")
     \/ /\ at[c] # Sentinel /\ blockno[at[c]] = want[c]
        /\ Goto(c, "bget_ref") /\ UNCHANGED at
     \/ /\ at[c] # Sentinel /\ blockno[at[c]] # want[c]
        /\ at' = [at EXCEPT ![c] = next[at[c]]] /\ UNCHANGED pc
  /\ UNCHANGED <<disk, blockno, data, request, cache, want, held, dirty, idle>>

BgetRef_NotCounted(c) ==
  /\ pc[c] = "bget_ref"
  /\ Goto(c, "bread_test")
  /\ UNCHANGED <<disk, blockno, data, request, cache, users, idle>>

BgetRef(c) ==
  /\ pc[c] = "bget_ref"
  /\ refcnt' = [refcnt EXCEPT ![at[c]] = @ + 1]
  /\ Goto(c, "bread_test")
  /\ idle' = RemoveFirst(idle, at[c])
  /\ UNCHANGED <<disk, blockno, data, request, valid, ring, users>>

\* Steps 2 and 3: the idle buffer nearest to the back, or panic.
BgetEvict(c) ==
  /\ pc[c] = "bget_evict"
  /\ \/ /\ at[c] = Sentinel
        /\ Goto(c, "panic") /\ UNCHANGED at
     \/ /\ at[c] # Sentinel /\ refcnt[at[c]] = 0
        /\ Goto(c, "bget_take") /\ UNCHANGED at
     \/ /\ at[c] # Sentinel /\ refcnt[at[c]] # 0
        /\ at' = [at EXCEPT ![c] = prev[at[c]]] /\ UNCHANGED pc
  /\ UNCHANGED <<disk, blockno, data, request, cache, want, held, dirty, idle>>

BgetTake_KeepsValid(c) ==
  /\ pc[c] = "bget_take"
  /\ blockno' = [blockno EXCEPT ![at[c]] = want[c]]
  /\ refcnt' = [refcnt EXCEPT ![at[c]] = 1]
  /\ Goto(c, "bread_test")
  /\ idle' = RemoveFirst(idle, at[c])
  /\ UNCHANGED <<disk, data, request, valid, ring, users>>

BgetTake(c) ==
  /\ pc[c] = "bget_take"
  /\ blockno' = [blockno EXCEPT ![at[c]] = want[c]]
  /\ valid' = [valid EXCEPT ![at[c]] = FALSE]
  /\ refcnt' = [refcnt EXCEPT ![at[c]] = 1]
  /\ Goto(c, "bread_test")
  /\ idle' = RemoveFirst(idle, at[c])
  /\ UNCHANGED <<disk, data, request, ring, users>>

\* if (!b->valid) virtio_disk_rw(b, 0)
BreadTest(c) ==
  /\ pc[c] = "bread_test"
  /\ \/ /\ valid[at[c]]
        /\ Return(c) /\ held' = [held EXCEPT ![c] = @ \cup {at[c]}]
        /\ UNCHANGED <<disk, blockno, data, request>>
     \/ /\ ~valid[at[c]]
        /\ RwCall(c, at[c], FALSE) /\ UNCHANGED <<held, want, at>>
  /\ UNCHANGED <<cache, dirty, idle>>

\* b->valid = 1
BreadValid(c) ==
  /\ pc[c] = "rw_return" /\ ~arg[c].write
  /\ valid' = [valid EXCEPT ![arg[c].b] = TRUE]
  /\ held' = [held EXCEPT ![c] = @ \cup {arg[c].b}]
  /\ RwEnd(c) /\ Return(c)
  /\ UNCHANGED <<disk, blockno, data, refcnt, ring, dirty, idle>>

-----------------------------------------------------------------------------
(* The holder of a buffer: a store into b->data, bwrite                    *)

Modify(c, b, v) ==
  /\ pc[c] = "fs" /\ b \in held[c]
  /\ data' = [data EXCEPT ![b] = v]
  /\ dirty' = [dirty EXCEPT ![c] = @ \cup {b}]
  /\ UNCHANGED <<disk, blockno, request, pc, cache, want, at, held, idle>>

Bwrite(c, b) ==
  /\ pc[c] = "fs" /\ b \in dirty[c]
  /\ RwCall(c, b, TRUE)
  /\ UNCHANGED <<cache, users, idle>>

BwriteReturn(c) ==
  /\ pc[c] = "rw_return" /\ arg[c].write
  /\ dirty' = [dirty EXCEPT ![c] = @ \ {arg[c].b}]
  /\ RwEnd(c) /\ Return(c)
  /\ UNCHANGED <<disk, blockno, data, cache, held, idle>>

-----------------------------------------------------------------------------
(* brelse                                                                  *)

\* b->refcnt--; if (b->refcnt == 0)
Brelse(c, b) ==
  /\ pc[c] = "fs" /\ b \in held[c] \ dirty[c]
  /\ held' = [held EXCEPT ![c] = @ \ {b}]
  /\ refcnt' = [refcnt EXCEPT ![b] = @ - 1]
  /\ IF refcnt[b] = 1
       THEN at' = [at EXCEPT ![c] = b] /\ Goto(c, "brelse_unlink") /\ UNCHANGED want
       ELSE Return(c)
  /\ UNCHANGED <<disk, blockno, data, request, valid, ring, dirty, idle>>

\* b->next->prev = b->prev; b->prev->next = b->next;
BrelseUnlink(c) ==
  /\ pc[c] = "brelse_unlink"
  /\ prev' = [prev EXCEPT ![next[at[c]]] = prev[at[c]]]
  /\ next' = [next EXCEPT ![prev[at[c]]] = next[at[c]]]
  /\ Goto(c, "brelse_insert")
  /\ UNCHANGED <<disk, blockno, data, request, valid, refcnt, users, idle>>

BrelseInsert_OneSide(c) ==
  /\ pc[c] = "brelse_insert"
  /\ next' = [next EXCEPT ![at[c]] = next[Sentinel], ![Sentinel] = at[c]]
  /\ prev' = [prev EXCEPT ![at[c]] = Sentinel]
  /\ Return(c)
  /\ idle' = Append(idle, at[c])
  /\ UNCHANGED <<disk, blockno, data, request, valid, refcnt, held, dirty>>

BrelseInsert_AtBack(c) ==
  /\ pc[c] = "brelse_insert"
  /\ prev' = [prev EXCEPT ![at[c]] = prev[Sentinel], ![Sentinel] = at[c]]
  /\ next' = [next EXCEPT ![at[c]] = Sentinel, ![prev[Sentinel]] = at[c]]
  /\ Return(c)
  /\ idle' = Append(idle, at[c])
  /\ UNCHANGED <<disk, blockno, data, request, valid, refcnt, held, dirty>>

\* The buffer goes to the front.
BrelseInsert(c) ==
  /\ pc[c] = "brelse_insert"
  /\ next' = [next EXCEPT ![at[c]] = next[Sentinel], ![Sentinel] = at[c]]
  /\ prev' = [prev EXCEPT ![at[c]] = Sentinel, ![next[Sentinel]] = at[c]]
  /\ Return(c)
  /\ idle' = Append(idle, at[c])
  /\ UNCHANGED <<disk, blockno, data, request, valid, refcnt, held, dirty>>

-----------------------------------------------------------------------------

\* The statements of bget, bread, brelse and virtio_disk_rw, by caller c.
Step(c) ==
  \/ BgetFind(c) \/ BgetRef(c) \/ BgetEvict(c) \/ BgetTake(c)
  \/ BreadTest(c) \/ BreadValid(c) \/ BwriteReturn(c)
  \/ BrelseUnlink(c) \/ BrelseInsert(c)
  \/ Driver(c) /\ UNCHANGED <<cache, users, idle>>

\* What fs.c may ask for next.
Ask(c) ==
  \/ \E blk \in Blocks : Bread(c, blk)
  \/ \E b \in Bufs, v \in Values : Modify(c, b, v)
  \/ \E b \in Bufs : Bwrite(c, b) \/ Brelse(c, b)

BioNext ==
  \/ \E c \in Callers : Ask(c) \/ Step(c)
  \/ Device /\ UNCHANGED <<cache, users, idle>>

Spec == BioInit /\ [][BioNext]_vars

(***************************************************************************)
(* The kernel runs a caller that is in the middle of a call (it is         *)
(* RUNNABLE and the scheduler is round-robin), and a device that has been  *)
(* notified serves its queue.  Nobody is obliged to call.                  *)
(***************************************************************************)
FairSpec ==
  /\ Spec
  /\ \A c \in Callers : WF_vars(Step(c))
  /\ WF_vars(DeviceTakes /\ UNCHANGED <<cache, users, idle>>)
  /\ \A h \in Desc : WF_vars(DeviceFinishes(h) /\ UNCHANGED <<cache, users, idle>>)

-----------------------------------------------------------------------------
(* Properties                                                              *)

BioPc == {"fs", "bget_find", "bget_ref", "bget_evict", "bget_take", "bread_test",
          "brelse_unlink", "brelse_insert", "panic"}

\* Types and ranges of the driver's and the cache's variables: struct disk and
\* struct bcache.
TypeOK ==
  /\ free \in [Desc -> BOOLEAN]
  /\ used_idx \in Ring /\ avail_idx \in Ring /\ used_dev_idx \in Ring /\ seen \in Ring
  /\ avail \in [Desc -> Desc] /\ used \in [Desc -> Desc] /\ inflight \subseteq Desc
  /\ media \in [Blocks -> Values] /\ data \in [Bufs -> Values]
  /\ bdisk \in [Bufs -> BOOLEAN] /\ blockno \in [Bufs -> Blocks \cup {NoBlock}]
  /\ valid \in [Bufs -> BOOLEAN] /\ refcnt \in [Bufs -> Nat]
  /\ next \in [Node -> Node] /\ prev \in [Node -> Node] /\ at \in [Callers -> Node]
  /\ pc \in [Callers -> RwPc \cup BioPc]
  /\ \A c \in Callers : dirty[c] \subseteq held[c] /\ held[c] \subseteq Bufs

\* bget looks first "to guarantee that a block has one copy in memory"
\* (bio.c:102): two buffers never hold the same block.
OneCopy ==
  \A a, b \in Bufs : a # b /\ blockno[a] = blockno[b] => blockno[a] = NoBlock

\* Between calls the disk is quiet: every descriptor is back (free_chain), driver
\* and device agree on the indices, and no buffer waits for the device.
QuietBetweenCalls ==
  (\A c \in Callers : pc[c] \in BioPc \ {"panic"}) =>
     /\ \A d \in Desc : free[d]
     /\ used_idx = used_dev_idx /\ seen = avail_idx /\ inflight = {}
     /\ \A b \in Bufs : ~bdisk[b]

\* Between brelses both directions of the ring visit every buffer once.
RingIntact ==
  (\A c \in Callers : pc[c] # "brelse_insert") =>
     /\ \A x \in Node : next[prev[x]] = x /\ prev[next[x]] = x
     /\ \A S \in SUBSET Node : Sentinel \in S /\ (\A x \in S : next[x] \in S) => S = Node

\* "The longest unused is the first to be replaced" (bio.c:187): bget recycles the
\* buffer that has been idle longest.
RecyclesLongestIdle == \A c \in Callers : pc[c] = "bget_take" => at[c] = idle[1]

\* While a caller holds a buffer it stays the same block, and nobody else and no
\* transfer changes its data.
HeldIsStable ==
  [][\A c \in Callers, b \in Bufs :
       b \in held[c] /\ b \in held'[c] =>
          /\ blockno'[b] = blockno[b] /\ valid'[b]
          /\ data'[b] # data[b] => b \in dirty'[c]]_vars

\* What the file system reads of a block, and what survives power loss.
Content == [blk \in Blocks |->
  LET copies == {b \in Bufs : valid[b] /\ blockno[b] = blk}
  IN  IF copies = {} THEN media[blk] ELSE data[CHOOSE b \in copies : TRUE]]

InUse == {blockno[b] : b \in UNION {held[c] : c \in Callers}}

Store == INSTANCE BlockStore WITH content <- Content, durable <- media, inuse <- InUse

\* Caching and recycling are invisible: the cache and the driver implement a store
\* of blocks whose content only the holder of the block changes, and whose durable
\* copy only ever becomes that content.
ImplementsBlockStore == Store!Spec

\* Every bread, bwrite and brelse returns: the busy wait of virtio_disk_rw ends, the
\* descriptors suffice ("virtio: no desc") and so do the buffers ("bget: no buffers").
CallsReturn == \A c \in Callers : pc[c] # "fs" ~> pc[c] = "fs"
=============================================================================
