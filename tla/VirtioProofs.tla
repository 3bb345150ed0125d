----------------------------- MODULE VirtioProofs -----------------------------
(***************************************************************************)
(* The disk driver with one process in the file system: what virtio_disk_rw *)
(* and the device know of each other at each of its statements, for any    *)
(* number of buffers, descriptors and blocks, and any width of the ring    *)
(* indices.                                                                *)
(***************************************************************************)
EXTENDS Bio, TLAPS

\* The one process; two of them break bget (see the run disk_one_copy).
Caller == CHOOSE c : Callers = {c}
OneCaller == Callers = {Caller}

Here == pc[Caller]
Chosen == idx[Caller]
Request == arg[Caller]

-----------------------------------------------------------------------------
(* The invariant                                                           *)

\* Types of the driver's and the device's variables.
DriverType ==
  /\ free \in [Desc -> BOOLEAN]
  /\ DOMAIN desc = Desc
  /\ ops \in [Desc -> [write : BOOLEAN, block : Blocks \cup {NoBlock},
                       by : Callers \cup {"nobody"}]]
  /\ info \in [Desc -> [b : Bufs \cup {NoBuf}, status : Nat]]
  /\ used_idx \in Ring /\ avail_idx \in Ring /\ used_dev_idx \in Ring /\ seen \in Ring
  /\ avail \in [Desc -> Desc] /\ used \in [Desc -> Desc] /\ inflight \subseteq Desc
  /\ media \in [Blocks -> Values] /\ data \in [Bufs -> Values]
  /\ bdisk \in [Bufs -> BOOLEAN] /\ blockno \in [Bufs -> Blocks \cup {NoBlock}]
  /\ pc \in [Callers -> RwPc \cup BioPc]
  /\ arg \in [Callers -> [b : Bufs \cup {NoBuf}, write : BOOLEAN]]
  /\ idx \in [Callers -> Seq(Desc)]
  /\ i \in [Callers -> 0 .. NUM] /\ id \in [Callers -> Desc]
  /\ moved \in [Callers -> BOOLEAN]

\* Driver and device agree on the indices: nothing is queued, in work or finished.
Agreed == seen = avail_idx /\ inflight = {} /\ used_idx = used_dev_idx

NoneWaits == \A b \in Bufs : ~bdisk[b]
OneWaits == \A b \in Bufs : bdisk[b] <=> b = Request.b

\* The descriptors not free are those in idx[], and they differ.
Taken ==
  /\ \A d \in Desc : free[d] <=> \A k \in 1 .. Len(Chosen) : Chosen[k] # d
  /\ \A j, k \in 1 .. Len(Chosen) : Chosen[j] = Chosen[k] => j = k

\* The chain Fill built.
Chained ==
  /\ Len(Chosen) = 3
  /\ desc[Chosen[1]] = [to |-> <<"ops", Chosen[1]>>, next |-> Chosen[2]]
  /\ desc[Chosen[2]] = [to |-> <<"data", Request.b>>, next |-> Chosen[3]]
  /\ desc[Chosen[3]].to = <<"status", Chosen[1]>>
  /\ ops[Chosen[1]] = [write |-> Request.write, block |-> blockno[Request.b], by |-> Caller]
  /\ info[Chosen[1]].b = Request.b

\* How far a request behind AvailIdx is.
Queued ==
  /\ avail_idx = Inc(seen) /\ avail[seen % NUM] = Chosen[1]
  /\ inflight = {} /\ used_idx = used_dev_idx /\ OneWaits

InWork ==
  /\ seen = avail_idx /\ inflight = {Chosen[1]} /\ used_idx = used_dev_idx /\ OneWaits

Finished ==
  /\ seen = avail_idx /\ inflight = {} /\ OneWaits
  /\ used_dev_idx = Inc(used_idx) /\ used[used_idx % NUM] = Chosen[1]
  /\ info[Chosen[1]].status = 0 /\ moved[Caller]

Consumed == Agreed /\ NoneWaits /\ moved[Caller]

\* One conjunct for each group of statements.
DriverInv ==
  /\ Here \in RwPc =>
       Request.b \in Bufs /\ blockno[Request.b] \in Blocks
  /\ Here \in BioPc => Agreed /\ NoneWaits
  /\ Here \in BioPc \ {"panic"} => \A d \in Desc : free[d]
  /\ Here \in {"alloc_test", "alloc_set"} =>
       Agreed /\ NoneWaits /\ Taken /\ Len(Chosen) <= 2
  /\ Here = "alloc_set" => i[Caller] \in Desc /\ free[i[Caller]]
  /\ Here = "fill" => Agreed /\ NoneWaits /\ Taken /\ Len(Chosen) = 3
  /\ Here \in {"avail_ring", "avail_idx", "poll", "used", "used_done", "free_chain"} =>
       Taken /\ Chained
  /\ Here \in {"avail_ring", "avail_idx"} => Agreed /\ OneWaits
  /\ Here = "avail_idx" => avail[avail_idx % NUM] = Chosen[1]
  /\ Here \in {"poll", "used"} => Queued \/ InWork \/ Finished \/ Consumed
  /\ Here = "used_done" => Finished /\ id[Caller] = Chosen[1]
  /\ Here = "free_chain" => Consumed
  /\ Here = "rw_return" => Consumed /\ \A d \in Desc : free[d]

-----------------------------------------------------------------------------
(* Arithmetic of the ring indices                                          *)

LEMMA IndexInRing ==
  ASSUME NEW x \in Ring
  PROVE  Inc(x) \in Ring /\ Inc(x) # x /\ x % NUM \in Desc
<1> USE VirtioAssumption DEF VirtioAssumption, Ring, Inc, Desc
<1>1. x % NUM \in Desc
  BY Z3
<1>2. CASE x = IdxWrap - 1
  <2>1. IdxWrap % IdxWrap = 0
    BY Z3
  <2> QED
    BY <1>1, <1>2, <2>1
<1>3. CASE x < IdxWrap - 1
  <2>1. (x + 1) % IdxWrap = x + 1
    BY <1>3, Z3
  <2> QED
    BY <1>1, <1>3, <2>1
<1> QED
  BY <1>2, <1>3

\* The one caller is a caller.
LEMMA CallerIsOne == OneCaller => Caller \in Callers /\ \A c \in Callers : c = Caller
  BY DEF OneCaller

-----------------------------------------------------------------------------
(* alloc_desc, three times                                                 *)

DriverOK == DriverType /\ DriverInv

LEMMA AllocTestStep ==
  ASSUME OneCaller, DriverOK, AllocTest(Caller)
  PROVE  DriverOK'
<1> USE CallerIsOne DEF OneCaller
<1>1. DriverType'
  BY VirtioAssumption
  DEF DriverOK, DriverType, AllocTest, Goto, queue, device, bufs, RwPc, BioPc, VirtioAssumption
<1>2. /\ Agreed /\ NoneWaits /\ Taken /\ Len(Chosen) <= 2
      /\ Request.b \in Bufs /\ blockno[Request.b] \in Blocks
  BY DEF DriverOK, DriverInv, AllocTest, Here, RwPc
<1>3. /\ Request' = Request /\ Chosen' = Chosen /\ blockno' = blockno
      /\ Agreed' /\ NoneWaits' /\ Taken'
  BY <1>2 DEF AllocTest, Request, Chosen, queue, device, bufs, Agreed, NoneWaits, Taken
<1>4. /\ Here' \in {"panic", "alloc_set", "alloc_test"}
      /\ Here' = "alloc_set" => i' = i /\ i[Caller] \in Desc /\ free'[i[Caller]]
  <2>1. /\ pc \in [Callers -> RwPc \cup BioPc] /\ i[Caller] \in 0 .. NUM
        /\ free' = free /\ Here = "alloc_test"
    BY DEF DriverOK, DriverType, AllocTest, queue, Here
  <2>2. CASE i[Caller] = NUM
    BY <2>1, <2>2 DEF AllocTest, Goto, Here
  <2>3. CASE i[Caller] # NUM /\ free[i[Caller]]
    BY <2>1, <2>3, VirtioAssumption DEF AllocTest, Goto, Here, Desc, VirtioAssumption
  <2>4. CASE i[Caller] # NUM /\ ~free[i[Caller]]
    BY <2>1, <2>4 DEF AllocTest, Here
  <2> QED
    BY <2>2, <2>3, <2>4
<1> QED
  BY <1>1, <1>2, <1>3, <1>4 DEF DriverOK, DriverInv, RwPc, BioPc

LEMMA AllocSetStep ==
  ASSUME OneCaller, DriverOK, AllocSet(Caller)
  PROVE  DriverOK'
<1> USE CallerIsOne DEF OneCaller
<1> DEFINE d == i[Caller]
<1>1. /\ d \in Desc /\ free[d] /\ Chosen \in Seq(Desc) /\ Len(Chosen) <= 2
      /\ Taken /\ Agreed /\ NoneWaits /\ Request.b \in Bufs /\ blockno[Request.b] \in Blocks
  BY DEF DriverOK, DriverType, DriverInv, AllocSet, Here, Chosen, Request, RwPc
<1>2. /\ Chosen' = Append(Chosen, d) /\ free' = [free EXCEPT ![d] = FALSE]
      /\ Here' = IF Len(Chosen) = 2 THEN "fill" ELSE "alloc_test"
      /\ Request' = Request
  BY DEF DriverOK, DriverType, AllocSet, Goto, Here, Chosen, Request
<1>3. /\ Chosen' \in Seq(Desc) /\ Len(Chosen') = Len(Chosen) + 1
      /\ \A k \in 1 .. Len(Chosen) : Chosen'[k] = Chosen[k]
      /\ Chosen'[Len(Chosen) + 1] = d
  BY <1>1, <1>2
<1>4. DriverType'
  BY <1>1, <1>3, VirtioAssumption
  DEF DriverOK, DriverType, AllocSet, Goto, device, bufs, RwPc, BioPc, VirtioAssumption, Chosen
<1>5. Taken'
  <2>1. \A k \in 1 .. Len(Chosen) : Chosen[k] # d
    BY <1>1 DEF Taken
  <2>2. \A k \in 1 .. Len(Chosen') : k \in 1 .. Len(Chosen) \/ k = Len(Chosen) + 1
    BY <1>1, <1>3
  <2>3. ASSUME NEW e \in Desc
        PROVE  free'[e] <=> \A k \in 1 .. Len(Chosen') : Chosen'[k] # e
    BY <1>1, <1>2, <1>3, <2>2 DEF Taken, DriverOK, DriverType
  <2>4. ASSUME NEW j \in 1 .. Len(Chosen'), NEW k \in 1 .. Len(Chosen'), Chosen'[j] = Chosen'[k]
        PROVE  j = k
    BY <1>1, <1>3, <2>1, <2>2, <2>4 DEF Taken
  <2> QED
    BY <2>3, <2>4 DEF Taken
<1>6. Agreed' /\ NoneWaits'
  BY <1>1 DEF AllocSet, Agreed, NoneWaits, device, bufs
<1>7. Len(Chosen') <= 2 \/ (Here' = "fill" /\ Len(Chosen') = 3)
  <2>1. Len(Chosen) \in Nat /\ Len(Chosen) <= 2 /\ Len(Chosen') = Len(Chosen) + 1
    BY <1>1, <1>3
  <2>2. CASE Len(Chosen) = 2
    BY <1>2, <1>3, <2>2
  <2>3. CASE Len(Chosen) < 2
    <3>1. Len(Chosen) + 1 <= 2
      BY <2>1, <2>3
    <3> QED
      BY <2>1, <3>1
  <2>4. Len(Chosen) = 2 \/ Len(Chosen) < 2
    <3>1. \A n \in Nat : n <= 2 => n = 2 \/ n < 2
      OBVIOUS
    <3> QED
      BY <2>1, <3>1, Zenon
  <2> QED
    BY <2>2, <2>3, <2>4
<1> QED
  BY <1>1, <1>2, <1>4, <1>5, <1>6, <1>7 DEF DriverOK, DriverInv, AllocSet, bufs, RwPc, BioPc

-----------------------------------------------------------------------------
(* The request                                                             *)

\* Three descriptors, all different, and nothing else is taken.
LEMMA ThreeTaken ==
  ASSUME DriverType, OneCaller, Taken, Len(Chosen) = 3
  PROVE  /\ Chosen[1] \in Desc /\ Chosen[2] \in Desc /\ Chosen[3] \in Desc
         /\ Chosen[1] # Chosen[2] /\ Chosen[1] # Chosen[3] /\ Chosen[2] # Chosen[3]
         /\ \A d \in Desc : free[d] <=> d \notin {Chosen[1], Chosen[2], Chosen[3]}
<1>1. Chosen \in Seq(Desc)
  BY CallerIsOne DEF DriverType, Chosen
<1>2. 1 .. Len(Chosen) = {1, 2, 3}
  BY Z3
<1>3. \A k \in 1 .. Len(Chosen) : Chosen[k] \in Desc
  BY <1>1
<1>4. Chosen[1] \in Desc /\ Chosen[2] \in Desc /\ Chosen[3] \in Desc
  BY <1>2, <1>3, Zenon
<1>5. Chosen[1] # Chosen[2] /\ Chosen[1] # Chosen[3] /\ Chosen[2] # Chosen[3]
  <2>1. \A j, k \in {1, 2, 3} : Chosen[j] = Chosen[k] => j = k
    BY <1>2, Zenon DEF Taken
  <2> QED
    BY <2>1
<1>6. \A d \in Desc : free[d] <=> d \notin {Chosen[1], Chosen[2], Chosen[3]}
  <2>1. \A d \in Desc : free[d] <=> \A k \in {1, 2, 3} : Chosen[k] # d
    BY <1>2, Zenon DEF Taken
  <2> QED
    BY <2>1
<1> QED
  BY <1>4, <1>5, <1>6

LEMMA FillStep ==
  ASSUME OneCaller, DriverOK, Fill(Caller)
  PROVE  DriverOK'
<1> USE CallerIsOne DEF OneCaller
<1>1. /\ Agreed /\ NoneWaits /\ Taken /\ Len(Chosen) = 3
      /\ Request.b \in Bufs /\ blockno[Request.b] \in Blocks
  BY DEF DriverOK, DriverInv, Fill, Here, RwPc
<1>2. /\ Chosen[1] \in Desc /\ Chosen[2] \in Desc /\ Chosen[3] \in Desc
      /\ Chosen[1] # Chosen[2] /\ Chosen[1] # Chosen[3] /\ Chosen[2] # Chosen[3]
  BY <1>1, ThreeTaken DEF DriverOK
<1>3. Chosen' = Chosen /\ Request' = Request /\ Here' = "avail_ring" /\ blockno' = blockno
  BY DEF DriverOK, DriverType, Fill, Goto, locals, Chosen, Request, Here
<1>4. DriverType'
  <2>1. /\ ops' \in [Desc -> [write : BOOLEAN, block : Blocks \cup {NoBlock},
                              by : Callers \cup {"nobody"}]]
        /\ info' \in [Desc -> [b : Bufs \cup {NoBuf}, status : Nat]]
        /\ bdisk' \in [Bufs -> BOOLEAN]
        /\ pc' \in [Callers -> RwPc \cup BioPc]
    BY <1>1, <1>2
    DEF DriverOK, DriverType, Fill, Goto, Chosen, Request, Direction, RwPc
  <2>2. DOMAIN desc' = Desc
    BY DEF DriverOK, DriverType, Fill
  <2> QED
    BY <2>1, <2>2 DEF DriverOK, DriverType, Fill, device, locals
<1>5. Chained'
  <2>1. /\ desc'[Chosen[1]] = [to |-> <<"ops", Chosen[1]>>, next |-> Chosen[2]]
        /\ desc'[Chosen[2]] = [to |-> <<"data", Request.b>>, next |-> Chosen[3]]
        /\ desc'[Chosen[3]] = [to |-> <<"status", Chosen[1]>>, next |-> End]
    BY <1>2 DEF DriverOK, DriverType, Fill, Chosen, Request
  <2>2. /\ ops'[Chosen[1]] = [write |-> Request.write, block |-> blockno[Request.b], by |-> Caller]
        /\ info'[Chosen[1]].b = Request.b
    BY <1>2 DEF DriverOK, DriverType, Fill, Chosen, Request, Direction
  <2> QED
    BY <1>1, <1>3, <2>1, <2>2 DEF Chained
<1>6. Agreed' /\ OneWaits' /\ Taken'
  BY <1>1, <1>3 DEF DriverOK, DriverType, Fill, device, Agreed, NoneWaits, OneWaits, Taken, Request
<1> QED
  BY <1>1, <1>3, <1>4, <1>5, <1>6 DEF DriverOK, DriverInv, RwPc, BioPc

LEMMA AvailStep ==
  ASSUME OneCaller, DriverOK, AvailRing(Caller) \/ AvailIdx(Caller)
  PROVE  DriverOK'
<1> USE CallerIsOne DEF OneCaller
<1>1. /\ Agreed /\ OneWaits /\ Taken /\ Chained
      /\ Request.b \in Bufs /\ blockno[Request.b] \in Blocks
  BY DEF DriverOK, DriverInv, AvailRing, AvailIdx, Here, RwPc
<1>2. Chosen[1] \in Desc /\ avail_idx \in Ring
  BY <1>1, ThreeTaken DEF DriverOK, DriverType, Chained
<1>3. /\ Chosen' = Chosen /\ Request' = Request
      /\ UNCHANGED <<free, desc, ops, info, used_idx, device, bufs>>
  BY DEF AvailRing, AvailIdx, locals, Chosen, Request
<1>4. Taken' /\ Chained' /\ OneWaits'
  BY <1>1, <1>3 DEF bufs, Taken, Chained, OneWaits
<1>5. CASE AvailRing(Caller)
  <2>1. Here' = "avail_idx" /\ avail'[avail_idx' % NUM] = Chosen'[1] /\ Agreed'
    BY <1>1, <1>2, <1>3, <1>5, IndexInRing
    DEF DriverOK, DriverType, AvailRing, Goto, Here, device, Agreed, Chosen
  <2>2. DriverType'
    BY <1>2, <1>5, IndexInRing
    DEF DriverOK, DriverType, AvailRing, Goto, device, bufs, locals, RwPc, Chosen
  <2> QED
    BY <1>1, <1>3, <1>4, <2>1, <2>2 DEF DriverOK, DriverInv, bufs, RwPc, BioPc
<1>6. CASE AvailIdx(Caller)
  <2>1. Here' = "poll" /\ Queued'
    BY <1>1, <1>2, <1>3, <1>4, <1>6
    DEF DriverOK, DriverType, DriverInv, AvailIdx, Goto, Here, device, Agreed, Queued
  <2>2. DriverType'
    BY <1>2, <1>6, IndexInRing
    DEF DriverOK, DriverType, AvailIdx, Goto, device, bufs, locals, RwPc
  <2> QED
    BY <1>1, <1>3, <1>4, <2>1, <2>2 DEF DriverOK, DriverInv, bufs, RwPc, BioPc
<1> QED
  BY <1>5, <1>6

-----------------------------------------------------------------------------
(* Waiting and returning                                                   *)

LEMMA PollStep ==
  ASSUME OneCaller, DriverOK, Poll(Caller) \/ UsedTest(Caller)
  PROVE  DriverOK'
<1> USE CallerIsOne DEF OneCaller
<1>1. /\ Queued \/ InWork \/ Finished \/ Consumed
      /\ Taken /\ Chained /\ Request.b \in Bufs /\ blockno[Request.b] \in Blocks
  BY DEF DriverOK, DriverInv, Poll, UsedTest, Here, RwPc
<1>2. /\ Chosen' = Chosen /\ Request' = Request
      /\ UNCHANGED <<queue, device, bufs, moved>>
  BY DEF Poll, UsedTest, locals, Chosen, Request
<1>3. /\ Taken' /\ Chained' /\ Queued' = Queued /\ InWork' = InWork
      /\ Finished' = Finished /\ Consumed' = Consumed
  BY <1>1, <1>2
  DEF queue, device, bufs, Taken, Chained, Queued, InWork, Finished, Consumed, Agreed, NoneWaits,
      OneWaits
<1>4. DriverType'
  <2>1. used[used_idx % NUM] \in Desc
    BY IndexInRing DEF DriverOK, DriverType
  <2>2. pc' \in [Callers -> RwPc \cup BioPc]
    BY DEF DriverOK, DriverType, Poll, UsedTest, Goto, RwPc
  <2>3. id' \in [Callers -> Desc] /\ UNCHANGED <<arg, idx, i>>
    BY <2>1 DEF DriverOK, DriverType, Poll, UsedTest, locals
  <2> QED
    BY <1>2, <2>2, <2>3 DEF DriverOK, DriverType, queue, device, bufs
<1>5. CASE Poll(Caller)
  <2>1. Here' = IF bdisk[Request.b] THEN "used" ELSE "free_chain"
    BY <1>5 DEF DriverOK, DriverType, Poll, Goto, Here, Request
  <2>2. ~bdisk[Request.b] => Consumed
    BY <1>1 DEF Queued, InWork, Finished, OneWaits
  <2> QED
    BY <1>1, <1>2, <1>3, <1>4, <2>1, <2>2 DEF DriverOK, DriverInv, bufs, RwPc, BioPc
<1>6. CASE UsedTest(Caller)
  <2>1. \/ Here' = "used_done" /\ used_idx # used_dev_idx /\ id'[Caller] = used[used_idx % NUM]
        \/ Here' = "poll"
    BY <1>6 DEF DriverOK, DriverType, UsedTest, Goto, Here
  <2>2. used_idx # used_dev_idx => Finished /\ used[used_idx % NUM] = Chosen[1]
    BY <1>1 DEF Queued, InWork, Finished, Consumed, Agreed
  <2> QED
    BY <1>1, <1>2, <1>3, <1>4, <2>1, <2>2 DEF DriverOK, DriverInv, bufs, RwPc, BioPc
<1> QED
  BY <1>5, <1>6

LEMMA UsedDoneStep ==
  ASSUME OneCaller, DriverOK, UsedDone(Caller)
  PROVE  DriverOK'
<1> USE CallerIsOne DEF OneCaller
<1>1. /\ Finished /\ Taken /\ Chained /\ id[Caller] = Chosen[1] /\ Chosen[1] \in Desc
      /\ Request.b \in Bufs /\ blockno[Request.b] \in Blocks
  BY ThreeTaken DEF DriverOK, DriverInv, UsedDone, Here, RwPc, Chained
<1>2. /\ bdisk' = [bdisk EXCEPT ![Request.b] = FALSE] /\ used_idx' = Inc(used_idx)
      /\ Here' = "used" /\ Chosen' = Chosen /\ Request' = Request
      /\ UNCHANGED <<free, desc, ops, info, avail, avail_idx, device, blockno, data, moved>>
  BY <1>1 DEF DriverOK, DriverType, UsedDone, Goto, Here, Finished, Chained, locals, Chosen, Request
<1>3. Taken' /\ Chained'
  BY <1>1, <1>2 DEF Taken, Chained
<1>4. Consumed'
  BY <1>1, <1>2 DEF DriverOK, DriverType, Consumed, Finished, Agreed, NoneWaits, OneWaits, device
<1>5. DriverType'
  <2>1. used_idx' \in Ring
    BY <1>2, IndexInRing DEF DriverOK, DriverType
  <2>2. pc' \in [Callers -> RwPc \cup BioPc]
    BY DEF DriverOK, DriverType, UsedDone, Goto, RwPc, BioPc
  <2>3. bdisk' \in [Bufs -> BOOLEAN] /\ UNCHANGED locals
    BY <1>2 DEF DriverOK, DriverType, UsedDone
  <2> QED
    BY <1>2, <2>1, <2>2, <2>3 DEF DriverOK, DriverType, device, locals
<1> QED
  BY <1>1, <1>2, <1>3, <1>4, <1>5 DEF DriverOK, DriverInv, RwPc, BioPc

LEMMA FreeChainStep ==
  ASSUME OneCaller, DriverOK, FreeChain(Caller)
  PROVE  DriverOK'
<1> USE CallerIsOne DEF OneCaller
<1>1. /\ Consumed /\ Taken /\ Chained /\ Request.b \in Bufs /\ blockno[Request.b] \in Blocks
  BY DEF DriverOK, DriverInv, FreeChain, Here, RwPc
<1>2. /\ Here' = "rw_return" /\ Chosen' = Chosen /\ Request' = Request
      /\ UNCHANGED <<ops, info, used_idx, avail, avail_idx, device, bufs, moved>>
  BY DEF DriverOK, DriverType, FreeChain, Goto, Here, locals, Chosen, Request
<1>3. \A d \in Desc : free'[d]
  <2>1. /\ Chosen[1] \in Desc /\ Chosen[2] \in Desc /\ Chosen[3] \in Desc
        /\ \A d \in Desc : free[d] <=> d \notin {Chosen[1], Chosen[2], Chosen[3]}
    BY <1>1, ThreeTaken DEF DriverOK, Chained
  <2>2. \A d \in Desc : d # End
    BY VirtioAssumption DEF VirtioAssumption, Desc, End
  <2>3. {Chosen[1], Chosen[2], Chosen[3]} \subseteq ChainFrom(Chosen[1])
    BY <1>1, <2>1, <2>2 DEF Chained, ChainFrom
  <2>4. \A d \in Desc : free'[d] = (free[d] \/ d \in ChainFrom(Chosen[1]))
    BY DEF FreeChain, Chosen
  <2> QED
    BY <2>1, <2>3, <2>4
<1>4. Consumed'
  BY <1>1, <1>2 DEF Consumed, Agreed, NoneWaits, device, bufs
<1>5. DriverType'
  <2>1. free' \in [Desc -> BOOLEAN] /\ DOMAIN desc' = Desc
    <3>1. free \in [Desc -> BOOLEAN]
      BY DEF DriverOK, DriverType
    <3> QED
      BY <3>1 DEF FreeChain
  <2> QED
    BY <1>2, <2>1 DEF DriverOK, DriverType, FreeChain, Goto, device, bufs, locals, RwPc
<1> QED
  BY <1>1, <1>2, <1>3, <1>4, <1>5 DEF DriverOK, DriverInv, bufs, RwPc, BioPc

-----------------------------------------------------------------------------
(* The device                                                              *)

\* It has something to take only between AvailIdx and its own step.
LEMMA TakesStep ==
  ASSUME OneCaller, DriverOK, DeviceTakes
  PROVE  DriverOK'
<1> USE CallerIsOne DEF OneCaller
<1>1. Here \in RwPc \cup BioPc
  BY DEF DriverOK, DriverType, Here
<1>2. /\ Here \in {"poll", "used"} /\ Queued /\ Taken /\ Chained
      /\ Request.b \in Bufs /\ blockno[Request.b] \in Blocks
  BY <1>1
  DEF DriverOK, DriverInv, DeviceTakes, RwPc, BioPc, Agreed, Queued, InWork, Finished, Consumed
<1>3. /\ Chosen' = Chosen /\ Request' = Request /\ Here' = Here
      /\ UNCHANGED <<queue, used, used_dev_idx, media, bufs, pc, locals, moved>>
  BY DEF DeviceTakes, locals, Chosen, Request, Here
<1>4. Taken' /\ Chained'
  BY <1>2, <1>3 DEF Taken, Chained, queue, bufs
<1>5. InWork'
  BY <1>2, <1>3 DEF DeviceTakes, Queued, InWork, queue, bufs, OneWaits
<1>6. DriverType'
  <2>1. seen' \in Ring /\ inflight' \subseteq Desc
    BY IndexInRing DEF DriverOK, DriverType, DeviceTakes
  <2> QED
    BY <1>3, <2>1 DEF DriverOK, DriverType, queue, bufs, locals
<1> QED
  BY <1>2, <1>3, <1>4, <1>5, <1>6 DEF DriverOK, DriverInv, bufs, RwPc, BioPc

LEMMA FinishesStep ==
  ASSUME OneCaller, DriverOK, NEW h \in Desc, DeviceFinishes(h)
  PROVE  DriverOK'
<1> USE CallerIsOne DEF OneCaller
<1>1. Here \in RwPc \cup BioPc
  BY DEF DriverOK, DriverType, Here
<1>2. /\ Here \in {"poll", "used"} /\ InWork /\ Taken /\ Chained
      /\ Request.b \in Bufs /\ blockno[Request.b] \in Blocks
  BY <1>1
  DEF DriverOK, DriverInv, DeviceFinishes, RwPc, BioPc, Agreed, Queued, InWork, Finished, Consumed
<1>3. /\ h = Chosen[1]
      /\ desc[desc[h].next].to[2] = Request.b
      /\ ops[h].block = blockno[Request.b] /\ ops[h].by = Caller
  BY <1>2 DEF DeviceFinishes, InWork, Chained
<1>4. /\ Chosen' = Chosen /\ Request' = Request /\ Here' = Here
      /\ UNCHANGED <<free, desc, ops, used_idx, avail, avail_idx, seen, bdisk, blockno, pc, locals>>
  BY DEF DeviceFinishes, locals, Chosen, Request, Here
<1>5. /\ info' = [info EXCEPT ![h].status = 0] /\ inflight' = {}
      /\ used' = [used EXCEPT ![used_dev_idx % NUM] = h] /\ used_dev_idx' = Inc(used_dev_idx)
      /\ moved' = [moved EXCEPT ![Caller] = TRUE]
  BY <1>2, <1>3 DEF DeviceFinishes, InWork
<1>6. Taken' /\ Chained'
  <2>1. info'[h].b = info[h].b
    BY <1>5 DEF DriverOK, DriverType
  <2> QED
    BY <1>2, <1>3, <1>4, <2>1 DEF Taken, Chained
<1>7. Finished'
  <2>1. used_dev_idx \in Ring /\ used_idx = used_dev_idx
    BY <1>2 DEF DriverOK, DriverType, InWork
  <2> QED
    BY <1>2, <1>3, <1>4, <1>5, <2>1, IndexInRing
    DEF DriverOK, DriverType, InWork, Finished, OneWaits
<1>8. DriverType'
  <2>1. media' \in [Blocks -> Values] /\ data' \in [Bufs -> Values]
    <3>1. /\ media \in [Blocks -> Values] /\ data \in [Bufs -> Values]
      BY DEF DriverOK, DriverType
    <3> QED
      BY <1>2, <1>3, <3>1 DEF DeviceFinishes
  <2>2. info' \in [Desc -> [b : Bufs \cup {NoBuf}, status : Nat]]
    <3>1. info \in [Desc -> [b : Bufs \cup {NoBuf}, status : Nat]]
      BY DEF DriverOK, DriverType
    <3>2. [info[h] EXCEPT !.status = 0] \in [b : Bufs \cup {NoBuf}, status : Nat]
      BY <3>1
    <3>3. info' = [info EXCEPT ![h] = [info[h] EXCEPT !.status = 0]]
      BY <1>5
    <3> QED
      BY <3>1, <3>2, <3>3
  <2>3. /\ used' \in [Desc -> Desc] /\ used_dev_idx' \in Ring
        /\ moved' \in [Callers -> BOOLEAN] /\ inflight' \subseteq Desc
    BY <1>5, IndexInRing DEF DriverOK, DriverType
  <2> QED
    BY <1>4, <2>1, <2>2, <2>3 DEF DriverOK, DriverType, locals
<1> QED
  BY <1>2, <1>4, <1>6, <1>7, <1>8 DEF DriverOK, DriverInv, RwPc, BioPc

-----------------------------------------------------------------------------
(* Into and out of virtio_disk_rw                                          *)

\* A step that leaves the driver's side alone and stays out of virtio_disk_rw.
LEMMA OutsideStep ==
  ASSUME OneCaller, DriverOK,
         Here \in BioPc \ {"panic"}, Here' \in BioPc, pc' \in [Callers -> RwPc \cup BioPc],
         UNCHANGED <<disk, locals, moved>>,
         blockno' \in [Bufs -> Blocks \cup {NoBlock}], data' \in [Bufs -> Values]
  PROVE  DriverOK'
<1>1. Agreed' /\ NoneWaits' /\ \A d \in Desc : free'[d]
  BY DEF DriverOK, DriverInv, disk, queue, device, Agreed, NoneWaits
<1>2. DriverType'
  BY DEF DriverOK, DriverType, disk, queue, device, locals
<1> QED
  BY <1>1, <1>2 DEF DriverOK, DriverInv, RwPc, BioPc

LEMMA RwCallStep ==
  ASSUME OneCaller, DriverOK, Here \in BioPc \ {"panic"},
         NEW b \in Bufs, blockno[b] \in Blocks, NEW write \in BOOLEAN, RwCall(Caller, b, write)
  PROVE  DriverOK'
<1> USE CallerIsOne DEF OneCaller
<1>1. Agreed /\ NoneWaits /\ \A d \in Desc : free[d]
  BY DEF DriverOK, DriverInv
<1>2. /\ Here' = "alloc_test" /\ Chosen' = <<>> /\ Request' = [b |-> b, write |-> write]
      /\ UNCHANGED <<queue, device, bufs, id>>
  BY DEF DriverOK, DriverType, RwCall, Goto, Here, Chosen, Request
<1>3. Agreed' /\ NoneWaits' /\ Taken' /\ Len(Chosen') <= 2
  BY <1>1, <1>2 DEF Agreed, NoneWaits, Taken, queue, device, bufs
<1>4. DriverType'
  <2>1. /\ pc' \in [Callers -> RwPc \cup BioPc] /\ i' \in [Callers -> 0 .. NUM]
        /\ moved' \in [Callers -> BOOLEAN] /\ idx' \in [Callers -> Seq(Desc)]
    BY VirtioAssumption DEF DriverOK, DriverType, RwCall, Goto, RwPc, VirtioAssumption
  <2>2. arg' \in [Callers -> [b : Bufs \cup {NoBuf}, write : BOOLEAN]]
    BY DEF DriverOK, DriverType, RwCall
  <2> QED
    BY <1>2, <2>1, <2>2 DEF DriverOK, DriverType, queue, device, bufs
<1> QED
  BY <1>2, <1>3, <1>4 DEF DriverOK, DriverInv, bufs, RwPc, BioPc

LEMMA RwEndStep ==
  ASSUME OneCaller, DriverOK, Here = "rw_return", RwEnd(Caller), Goto(Caller, "fs"),
         UNCHANGED <<disk, blockno, data>>
  PROVE  DriverOK'
<1> USE CallerIsOne DEF OneCaller
<1>1. Agreed /\ NoneWaits /\ \A d \in Desc : free[d]
  BY DEF DriverOK, DriverInv, Consumed
<1>2. Agreed' /\ NoneWaits' /\ \A d \in Desc : free'[d]
  BY <1>1 DEF disk, queue, device, Agreed, NoneWaits
<1>3. Here' = "fs"
  BY DEF DriverOK, DriverType, Goto, Here
<1>4. DriverType'
  <2>1. /\ pc' \in [Callers -> RwPc \cup BioPc] /\ i' \in [Callers -> 0 .. NUM]
        /\ moved' \in [Callers -> BOOLEAN] /\ idx' \in [Callers -> Seq(Desc)]
        /\ id' \in [Callers -> Desc]
    BY VirtioAssumption DEF DriverOK, DriverType, RwEnd, Goto, BioPc, VirtioAssumption, Desc
  <2>2. arg' \in [Callers -> [b : Bufs \cup {NoBuf}, write : BOOLEAN]]
    BY DEF DriverOK, DriverType, RwEnd, NoArg
  <2> QED
    BY <2>1, <2>2 DEF DriverOK, DriverType, disk, queue, device
<1> QED
  BY <1>2, <1>3, <1>4 DEF DriverOK, DriverInv, RwPc, BioPc

===============================================================================
