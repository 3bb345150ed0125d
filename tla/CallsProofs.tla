----------------------------- MODULE CallsProofs -----------------------------
(***************************************************************************)
(* What holds for any number of processes and any tables, up to the first  *)
(* Conflict, whoever runs between two statements of the system calls:      *)
(* blocks, inodes, slots of icache and files of ftable are handed out      *)
(* once; a count is the number of those that refer to what it counts; an   *)
(* open descriptor keeps a loaded inode; and the functions of fs.c do what *)
(* Inodes promises.                                                        *)
(*                                                                         *)
(* The invariant grows by layers: BlockInv, SlotInv, FileInv and InodeInv  *)
(* (what is handed out), RefInv (who refers to it), Fresh (what a copy     *)
(* says).  CallsInv is all of them, and is inductive.                      *)
(***************************************************************************)
EXTENDS Calls, WellFoundedInduction, FiniteSetTheorems, TLAPS

\* A set of naturals has a least element, which is what Min chooses.
LEMMA MinOf ==
  ASSUME NEW S \in SUBSET Nat, S # {}
  PROVE  Min(S) \in S
<1>1. PICK x \in S : \A y \in S : ~(<<y, x>> \in OpToRel(<, Nat))
  BY NatLessThanWellFounded, WFMin
<1>2. \A y \in S : ~(y < x)
  BY <1>1 DEF OpToRel
<1>3. \A y \in S : x <= y
  BY <1>2
<1> QED
  BY <1>3 DEF Min

\* No two processes are in conflict when a step is taken.
LEMMA NoConflict ==
  ASSUME NEW p \in Slot, NEW q \in Slot, p # q, Next
  PROVE  ~Conflict(p, q)
  BY DEF Next

-----------------------------------------------------------------------------
(* Blocks                                                                  *)

\* Between its load and its store balloc knows the bitmap as it is; blocks handed out
\* are marked.
BlockInv ==
  /\ pc \in [Slot -> Pc] /\ byte \in [Slot -> SUBSET Blk]
  /\ bitmap \in SUBSET Blk /\ 0 \in bitmap /\ given \in [Blk -> Nat]
  /\ \A p \in Slot : pc[p] = "balloc_set" =>
       byte[p] = bitmap /\ ~(Blk \subseteq bitmap)
  /\ \A b \in Blk : given[b] <= 1
  /\ \A b \in Blk : given[b] # 0 => b \in bitmap \ {0}

\* A process that is not in balloc leaves the blocks alone.
LEMMA BlockElsewhere ==
  ASSUME BlockInv, NEW p \in Slot, Step(p)
  PROVE  \/ BallocLoad(p)
         \/ BallocSet(p)
         \/ /\ UNCHANGED <<bitmap, given>>
            /\ pc' \in [Slot -> Pc] /\ byte' \in [Slot -> SUBSET Blk]
            /\ \A q \in Slot : q # p => pc'[q] = pc[q] /\ byte'[q] = byte[q]
            /\ pc'[p] # "balloc_set"
            /\ byte'[p] \in {byte[p], {}}
<1> USE DEF BlockInv, Pc, OpenPc, ClosePc, IputPc, WritePc, Goto, Return, IputReturn, InUser,
            icache, disk, procs, ftable, locals, past
<1>1. CASE \/ Create(p) \/ IallocTest(p) \/ IallocTake(p) \/ (\E i \in Inum : Open(p, i))
           \/ IgetScan(p) \/ IgetHit(p) \/ IgetTake(p)
  BY <1>1 DEF Create, IallocTest, IallocTake, Open, IgetScan, IgetHit, IgetTake, IgetReturn
<1>2. CASE \/ IlockTest(p) \/ IlockLoad(p) \/ IlockValid(p)
           \/ FileallocTest(p) \/ FileallocTake(p) \/ OpenFd(p) \/ OpenInit(p)
  BY <1>2 DEF IlockTest, IlockLoad, IlockValid, FileallocTest, FileallocTake, OpenFd, OpenInit
<1>3. CASE \/ (\E d \in Fds : Close(p, d)) \/ CloseDec(p) \/ CloseClear(p) \/ CloseFd(p)
           \/ IputTest(p) \/ IputDrop(p) \/ IputDec(p) \/ IputClear(p)
  BY <1>3 DEF Close, CloseDec, CloseClear, CloseFd, IputTest, IputDrop, IputDec, IputClear
<1>4. CASE \/ (\E d \in Fds : Write(p, d)) \/ GrowTest(p) \/ Grow(p) \/ Iupdate(p)
  BY <1>4 DEF Write, GrowTest, Grow, Iupdate
<1>5. CASE (\E q \in Slot : Fork(p, q) \/ Wait(p, q)) \/ Exit(p)
  BY <1>5 DEF Fork, Wait, Exit
<1> QED
  BY <1>1, <1>2, <1>3, <1>4, <1>5 DEF Step

LEMMA BlockStep ==
  ASSUME BlockInv, Next
  PROVE  BlockInv'
<1>1. PICK p \in Slot : Step(p)
  BY DEF Next
<1>2. CASE BallocLoad(p)
  <2>1. /\ pc' = [pc EXCEPT ![p] = IF Blk \subseteq bitmap THEN "full" ELSE "balloc_set"]
        /\ byte' = [byte EXCEPT ![p] = bitmap]
        /\ UNCHANGED <<bitmap, given>>
    BY <1>2 DEF BallocLoad, Goto, past, disk
  <2>2. bitmap \in SUBSET Blk /\ "full" \in Pc /\ "balloc_set" \in Pc
    BY DEF BlockInv, Pc, WritePc
  <2> QED
    BY <2>1, <2>2 DEF BlockInv
<1>3. CASE BallocSet(p)
  <2>1. Clear(p) \in Blk \ bitmap
    <3>1. byte[p] = bitmap /\ Blk \ bitmap # {} /\ Blk \ bitmap \in SUBSET Nat
      BY <1>3, CallsAssumption DEF BlockInv, BallocSet, Blk, CallsAssumption
    <3> QED
      BY <3>1, MinOf DEF Clear
  <2>2. \A q \in Slot : q # p => pc[q] # "balloc_set"
    BY <1>3, NoConflict DEF Conflict, BallocSet
  <2>3. given[Clear(p)] = 0 /\ Clear(p) # 0
    BY <2>1 DEF BlockInv
  <2>4. /\ bitmap' = bitmap \cup {Clear(p)}
        /\ given' = [given EXCEPT ![Clear(p)] = 1]
        /\ byte' = [byte EXCEPT ![p] = {}] /\ pc' = [pc EXCEPT ![p] = "grow_test"]
    BY <1>3, <2>1, <2>3 DEF BallocSet, Goto, BlockInv
  <2> QED
    BY <2>1, <2>2, <2>3, <2>4 DEF BlockInv, Pc, WritePc
<1>4. CASE ~BallocLoad(p) /\ ~BallocSet(p)
  BY <1>1, <1>4, BlockElsewhere DEF BlockInv
<1> QED
  BY <1>2, <1>3, <1>4

LEMMA BlockInit == Init => BlockInv
  BY CallsAssumption DEF Init, BlockInv, Blk, Pc, CallsAssumption

LEMMA BlockStutter == BlockInv /\ UNCHANGED vars => BlockInv'
  BY DEF BlockInv, vars, disk, locals, past

\* A block is handed out once, however many processes write: what balloc of fs.c
\* promises, up to the first conflict.
THEOREM BlocksOnceAlways == Spec => []BlocksOnce
<1>1. BlockInv => BlocksOnce
  BY DEF BlockInv, BlocksOnce
<1> QED
  BY <1>1, BlockInit, BlockStep, BlockStutter, PTL DEF Spec

-----------------------------------------------------------------------------
(* Slots of icache                                                         *)

\* A process inside iget has not passed a slot with its inode, remembers a slot nobody
\* uses, and means to count the only slot with its inode.  One outside starts afresh.
Seen(p) ==
  /\ pc[p] = "iget_scan" =>
       /\ ip[p] \in Nat /\ \A s \in Islot : s < ip[p] => ~Hit(s, want[p])
       /\ empty[p] # Null => ref[empty[p]] <= 0
  /\ pc[p] = "iget_take" =>
       /\ \A s \in Islot : ~Hit(s, want[p])
       /\ empty[p] # Null /\ ref[empty[p]] <= 0
  /\ pc[p] = "iget_hit" =>
       /\ ip[p] \in Islot /\ inum[ip[p]] = want[p]
       /\ \A s \in Islot \ {ip[p]} : ~Hit(s, want[p])
  /\ pc[p] \in {"user", "ialloc_test", "ialloc_take"} => ip[p] = 0 /\ empty[p] = Null

\* What the others do leaves a process its place in iget.
OthersStay(p) ==
  \A q \in Slot : q # p =>
    pc'[q] = pc[q] /\ want'[q] = want[q] /\ ip'[q] = ip[q] /\ empty'[q] = empty[q]

SlotTypes ==
  /\ pc \in [Slot -> Pc] /\ ref \in [Islot -> Int] /\ inum \in [Islot -> Int]
  /\ want \in [Slot -> Int] /\ ip = [p \in Slot |-> ip[p]]
  /\ empty \in [Slot -> Islot \cup {Null}]

\* The return of a system call, as far as iget is concerned.
LEMMA ReturnAfresh ==
  ASSUME SlotTypes, NEW p \in Slot, Return(p)
  PROVE  /\ pc' \in [Slot -> Pc] /\ want' \in [Slot -> Int] /\ ip' = [q \in Slot |-> ip'[q]]
         /\ empty' \in [Slot -> Islot \cup {Null}]
         /\ OthersStay(p) /\ pc'[p] = "user" /\ ip'[p] = 0 /\ empty'[p] = Null
<1>1. Null \in Islot \cup {Null} /\ "user" \in Pc
  BY DEF Pc
<1>2. /\ pc' = [pc EXCEPT ![p] = "user"] /\ want' = [want EXCEPT ![p] = 0]
      /\ ip' = [ip EXCEPT ![p] = 0] /\ empty' = [empty EXCEPT ![p] = Null]
  BY DEF Return, Goto
<1> QED
  BY SMTT(30), <1>1, <1>2 DEF SlotTypes, OthersStay

\* Outside iget no slot is taken or counted.
LEMMA SlotElsewhere ==
  ASSUME SlotTypes, NEW p \in Slot, Seen(p), Step(p),
         ~IgetScan(p), ~IgetHit(p), ~IgetTake(p)
  PROVE  /\ SlotTypes' /\ OthersStay(p)
         /\ inum' = inum /\ \A s \in Islot : ref'[s] <= ref[s]
         /\ pc'[p] \notin {"iget_take", "iget_hit"}
         /\ pc'[p] \in {"iget_scan", "user", "ialloc_test", "ialloc_take"} =>
              ip'[p] = 0 /\ empty'[p] = Null
<1> USE DEF SlotTypes, OthersStay, Pc, OpenPc, ClosePc, IputPc, WritePc, Goto,
            IputReturn, InUser, icache, disk, procs, ftable, locals, past, Null
<1>1. CASE \/ Create(p) \/ IallocTest(p) \/ IallocTake(p) \/ (\E i \in Inum : Open(p, i))
  BY <1>1 DEF Create, IallocTest, IallocTake, Open, Seen, Inum
<1>2. CASE IlockTest(p) \/ IlockLoad(p) \/ IlockValid(p)
  BY <1>2 DEF IlockTest, IlockLoad, IlockValid
<1>3. CASE FileallocTest(p) \/ FileallocTake(p) \/ OpenFd(p) \/ OpenInit(p)
  <2>1. CASE FileallocTest(p)
    BY <2>1 DEF FileallocTest
  <2>2. CASE FileallocTake(p)
    BY <2>2 DEF FileallocTake
  <2>3. CASE OpenFd(p)
    BY <2>3 DEF OpenFd
  <2>4. CASE OpenInit(p)
    BY <2>4, ReturnAfresh DEF OpenInit
  <2> QED
    BY <1>3, <2>1, <2>2, <2>3, <2>4
<1>4. CASE (\E d \in Fds : Close(p, d)) \/ CloseDec(p) \/ CloseClear(p) \/ CloseFd(p)
  BY <1>4, ReturnAfresh DEF Close, CloseDec, CloseClear, CloseFd
<1>5. CASE IputTest(p) \/ IputDrop(p) \/ IputClear(p)
  <2>1. CASE IputTest(p)
    BY <2>1 DEF IputTest
  <2>2. CASE IputDrop(p)
    BY <2>2 DEF IputDrop
  <2>3. CASE IputClear(p)
    BY <2>3, ReturnAfresh DEF IputClear
  <2> QED
    BY <1>5, <2>1, <2>2, <2>3
<1>6. CASE IputDec(p)
  <2>1. /\ ref' = [ref EXCEPT ![ip[p]] = @ - 1] /\ inum' = inum
        /\ \/ Goto(p, "iput_clear") /\ UNCHANGED <<want, ip, empty>>
           \/ Goto(p, "close_fd") /\ UNCHANGED <<want, ip, empty>>
           \/ Return(p)
    BY <1>6 DEF IputDec
  <2>2. ref' \in [Islot -> Int] /\ \A s \in Islot : ref'[s] <= ref[s]
    <3>1. /\ ref \in [Islot -> Int] /\ ref' = [ref EXCEPT ![ip[p]] = @ - 1]
      BY <2>1
    <3>2. \A s \in Islot : /\ ref[s] \in Int
                           /\ ref'[s] = IF s = ip[p] THEN ref[s] - 1 ELSE ref[s]
      BY ONLY <3>1
    <3>3. ref' \in [Islot -> Int]
      <4>1. ref' = [s \in Islot |-> ref'[s]]
        BY ONLY <3>1
      <4>2. \A s \in Islot : ref'[s] \in Int
        BY ONLY <3>2
      <4> QED
        BY ONLY <4>1, <4>2
    <3> QED
      BY ONLY <3>2, <3>3
  <2> QED
    BY <2>1, <2>2, ReturnAfresh
<1>7. CASE \E d \in Fds : Write(p, d)
  BY <1>7 DEF Write, Seen
<1>8. CASE BallocLoad(p) \/ BallocSet(p)
  BY <1>8 DEF BallocLoad, BallocSet
<1>9. CASE GrowTest(p) \/ Grow(p) \/ Iupdate(p)
  BY <1>9, ReturnAfresh DEF GrowTest, Grow, Iupdate
<1>10. CASE (\E q \in Slot : Fork(p, q) \/ Wait(p, q)) \/ Exit(p)
  BY <1>10 DEF Fork, Wait, Exit, Seen
<1> QED
  BY <1>1, <1>2, <1>3, <1>4, <1>5, <1>6, <1>7, <1>8, <1>9, <1>10 DEF Step

SlotInv == SlotTypes /\ (\A p \in Slot : Seen(p)) /\ OneSlot

\* A process that another one does not conflict with keeps what it has seen, if the
\* other takes or counts a slot with an inode of its own.
LEMMA SeenStays ==
  ASSUME SlotTypes, NEW q \in Slot, Seen(q), NEW s \in Islot, NEW i \in Int,
         pc'[q] = pc[q], want'[q] = want[q], ip'[q] = ip[q], empty'[q] = empty[q],
         inum' = [inum EXCEPT ![s] = i], ref' \in [Islot -> Int],
         \A t \in Islot \ {s} : ref'[t] = ref[t],
         InIget(q) => i # want[q] /\ (Claims(q) # Null => s # Claims(q))
  PROVE  Seen(q)'
<1>1. CASE ~InIget(q)
  BY <1>1 DEF Seen, InIget
<1>2. CASE InIget(q)
  <2>1. \A t \in Islot : ~Hit(t, want[q]) => ~Hit(t, want[q])'
    BY <1>2 DEF Hit, SlotTypes
  <2>2. CASE pc[q] = "iget_hit"
    BY <1>2, <2>1, <2>2 DEF Seen, Claims, SlotTypes, Null, Islot
  <2>3. CASE pc[q] # "iget_hit"
    BY <1>2, <2>1, <2>3 DEF Seen, Claims, SlotTypes, InIget
  <2> QED
    BY <2>2, <2>3
<1> QED
  BY <1>1, <1>2

LEMMA SlotStep ==
  ASSUME SlotInv, Next
  PROVE  SlotInv'
<1>1. PICK p \in Slot : Step(p)
  BY DEF Next
<1>2. SlotTypes /\ Seen(p) /\ OneSlot /\ want[p] \in Int
  BY DEF SlotInv, SlotTypes
<1>3. CASE IgetScan(p)
  <2>1. SlotTypes' /\ OthersStay(p) /\ UNCHANGED <<ref, inum, want>>
    <3>1. ip[p] \in Nat /\ UNCHANGED <<ref, inum, want>>
      BY <1>2, <1>3 DEF IgetScan, Seen, icache
    <3>2. /\ pc' \in [Slot -> Pc] /\ empty' \in [Slot -> Islot \cup {Null}]
          /\ ip' = [q \in Slot |-> ip'[q]]
      <4>1. CASE ip[p] = NINODE
        BY <1>2, <1>3, <3>1, <4>1, CallsAssumption
           DEF IgetScan, Goto, SlotTypes, Pc, CallsAssumption
      <4>2. CASE ip[p] < NINODE /\ Hit(ip[p], want[p])
        BY <1>2, <1>3, <3>1, <4>2, CallsAssumption
           DEF IgetScan, Goto, SlotTypes, Pc, CallsAssumption
      <4>3. CASE ip[p] < NINODE /\ ~Hit(ip[p], want[p])
        <5>1. ip[p] \in Islot
          BY <3>1, <4>3, CallsAssumption DEF Islot, CallsAssumption
        <5> QED
          BY <1>2, <1>3, <4>3, <5>1, CallsAssumption
             DEF IgetScan, Goto, SlotTypes, Pc, CallsAssumption
      <4> QED
        BY <1>3, <4>1, <4>2, <4>3 DEF IgetScan
    <3>3. OthersStay(p)
      BY <1>2, <1>3 DEF IgetScan, Goto, OthersStay, SlotTypes
    <3> QED
      BY <1>2, <3>1, <3>2, <3>3 DEF SlotTypes
  <2>2. Seen(p)'
    <3>1. pc[p] = "iget_scan" /\ ip[p] \in Nat
      BY <1>2, <1>3 DEF IgetScan, Seen
    <3>2. CASE ip[p] = NINODE
      BY <1>2, <1>3, <3>1, <3>2, CallsAssumption
         DEF IgetScan, Goto, Seen, Hit, SlotTypes, Islot, icache, CallsAssumption, Null
    <3>3. CASE ip[p] < NINODE /\ Hit(ip[p], want[p])
      BY <1>2, <1>3, <3>1, <3>3, CallsAssumption
         DEF IgetScan, Goto, Seen, Hit, SlotTypes, Islot, icache, CallsAssumption, OneSlot
    <3>4. CASE ip[p] < NINODE /\ ~Hit(ip[p], want[p])
      BY SMTT(30), <1>2, <1>3, <3>1, <3>4, CallsAssumption
         DEF IgetScan, Goto, Seen, Hit, SlotTypes, Islot, icache, CallsAssumption, Null
    <3> QED
      BY <1>3, <3>1, <3>2, <3>3, <3>4 DEF IgetScan
  <2>3. \A q \in Slot : q # p => Seen(q)'
    BY <2>1 DEF SlotInv, OthersStay, Seen, Hit
  <2> QED
    BY <1>2, <2>1, <2>2, <2>3 DEF SlotInv, OneSlot
<1>4. CASE IgetHit(p)
  <2> DEFINE s == ip[p]
  <2>1. s \in Islot /\ inum[s] = want[p] /\ \A t \in Islot \ {s} : ~Hit(t, want[p])
    BY <1>2, <1>4 DEF IgetHit, Seen
  <2>2. ref' = [ref EXCEPT ![s] = @ + 1] /\ inum' = inum /\ OthersStay(p) /\ SlotTypes'
    BY <1>2, <1>4, <2>1
       DEF IgetHit, IgetReturn, Goto, SlotTypes, OthersStay, Pc, OpenPc
  <2>3. OneSlot'
    BY <1>2, <2>1, <2>2 DEF OneSlot, Hit, SlotTypes
  <2>4. Seen(p)'
    BY <1>2, <1>4 DEF IgetHit, IgetReturn, Goto, SlotTypes, Seen
  <2>5. ASSUME NEW q \in Slot, q # p
        PROVE  Seen(q)'
    <3>1. InIget(q) => want[p] # want[q] /\ (Claims(q) # Null => s # Claims(q))
      BY <1>4, <2>1, <2>5, NoConflict DEF Conflict, IgetHit, InIget, Claims
    <3>2. inum' = [inum EXCEPT ![s] = want[p]]
      BY <1>2, <2>1, <2>2 DEF SlotTypes
    <3>3. Seen(q) /\ ref' \in [Islot -> Int] /\ \A t \in Islot \ {s} : ref'[t] = ref[t]
      BY <1>2, <2>1, <2>2 DEF SlotInv, SlotTypes
    <3> QED
      BY <1>2, <2>1, <2>2, <2>5, <3>1, <3>2, <3>3, SeenStays DEF OthersStay
  <2> QED
    BY <2>2, <2>3, <2>4, <2>5 DEF SlotInv
<1>5. CASE IgetTake(p)
  <2> DEFINE s == empty[p]
  <2>1. s \in Islot /\ s # Null /\ \A t \in Islot : ~Hit(t, want[p])
    BY <1>2, <1>5 DEF IgetTake, Seen, SlotTypes
  <2>2. /\ ref' = [ref EXCEPT ![s] = 1] /\ inum' = [inum EXCEPT ![s] = want[p]]
        /\ OthersStay(p) /\ SlotTypes'
    BY <1>2, <1>5, <2>1
       DEF IgetTake, IgetReturn, Goto, SlotTypes, OthersStay, Pc, OpenPc
  <2>3. OneSlot'
    BY <1>2, <2>1, <2>2 DEF OneSlot, Hit, SlotTypes
  <2>4. Seen(p)'
    BY <1>2, <1>5 DEF IgetTake, IgetReturn, Goto, SlotTypes, Seen
  <2>5. ASSUME NEW q \in Slot, q # p
        PROVE  Seen(q)'
    <3>1. InIget(q) => want[p] # want[q] /\ (Claims(q) # Null => s # Claims(q))
      BY <1>5, <2>1, <2>5, NoConflict DEF Conflict, IgetTake, InIget, Claims
    <3>3. Seen(q) /\ ref' \in [Islot -> Int] /\ \A t \in Islot \ {s} : ref'[t] = ref[t]
      BY <1>2, <2>1, <2>2 DEF SlotInv, SlotTypes
    <3> QED
      BY <1>2, <2>1, <2>2, <2>5, <3>1, <3>3, SeenStays DEF OthersStay
  <2> QED
    BY <2>2, <2>3, <2>4, <2>5 DEF SlotInv
<1>6. CASE ~IgetScan(p) /\ ~IgetHit(p) /\ ~IgetTake(p)
  <2>1. /\ SlotTypes' /\ OthersStay(p) /\ inum' = inum
        /\ \A s \in Islot : ref'[s] <= ref[s]
        /\ pc'[p] \notin {"iget_take", "iget_hit"}
        /\ pc'[p] \in {"iget_scan", "user", "ialloc_test", "ialloc_take"} =>
             ip'[p] = 0 /\ empty'[p] = Null
    BY <1>1, <1>2, <1>6, SlotElsewhere
  <2>2. \A s \in Islot : ref[s] \in Int /\ ref'[s] \in Int
    BY <1>2, <2>1 DEF SlotTypes
  <2>3. OneSlot'
    BY <1>2, <2>1, <2>2 DEF OneSlot
  <2>4. Seen(p)'
    BY <2>1 DEF Seen, Islot
  <2>5. ASSUME NEW q \in Slot, q # p
        PROVE  Seen(q)'
    <3>1. Seen(q) /\ empty[q] \in Islot \cup {Null}
      BY <1>2 DEF SlotInv, SlotTypes
    <3>2. \A s \in Islot : ~Hit(s, want[q]) => ~Hit(s, want[q])'
      BY <2>1, <2>2, <2>5 DEF Hit, OthersStay
    <3> QED
      BY <2>1, <2>2, <2>5, <3>1, <3>2 DEF Seen, OthersStay
  <2> QED
    BY <2>1, <2>3, <2>4, <2>5 DEF SlotInv
<1> QED
  BY <1>3, <1>4, <1>5, <1>6

LEMMA SlotInit == Init => SlotInv
  BY CallsAssumption DEF Init, SlotInv, SlotTypes, Seen, OneSlot, Pc, CallsAssumption

LEMMA SlotStutter == SlotInv /\ UNCHANGED vars => SlotInv'
  BY DEF SlotInv, SlotTypes, Seen, Hit, OneSlot, vars, icache, locals

\* icache holds an inode once, however many processes open and close files: the promise
\* of iget, up to the first conflict.
THEOREM OneSlotAlways == Spec => []OneSlot
<1>1. SlotInv => OneSlot
  BY DEF SlotInv
<1> QED
  BY <1>1, SlotInit, SlotStep, SlotStutter, PTL DEF Spec

-----------------------------------------------------------------------------
(* Files of ftable                                                         *)

\* No descriptor is at hand before one is given or closed, or in a write.
NoFd == {"user", "ialloc_test", "ialloc_take", "iget_scan", "iget_hit", "iget_take",
         "ilock_test", "ilock_load", "ilock_valid", "filealloc_test", "filealloc_take",
         "open_fd"} \cup WritePc

\* What p's statement says of its f and fd.
Tells(p) ==
  /\ pc[p] \in NoFd => fd[p] = Null
  /\ pc[p] \in {"filealloc_take", "open_fd", "close_dec"} => f[p] \in Files
  /\ pc[p] = "filealloc_take" => fref[f[p]] = 0
  /\ pc[p] = "close_dec" /\ fd[p] # Null => ofile[p][fd[p]] = f[p]

\* Descriptor d of p counts for its file.
Counts(p, d) == ofile[p][d] # Null /\ ~Closing(p, d)

\* A file is in use if a descriptor, or the local of a process, stands for it.
Owned ==
  /\ \A p \in Slot, d \in Fds : Counts(p, d) => fref[ofile[p][d]] = 1
  /\ \A p \in Slot, g \in Files : HasFile(p, g) =>
       /\ fref[g] = 1
       /\ \A q \in Slot \ {p} : ~HasFile(q, g)
       /\ \A q \in Slot, d \in Fds : Counts(q, d) => ofile[q][d] # g

FileTypes ==
  /\ pc \in [Slot -> Pc] /\ f \in [Slot -> 0 .. NFILE] /\ fd \in [Slot -> Fds \cup {Null}]
  /\ ofile \in [Slot -> [Fds -> Files \cup {Null}]] /\ fref \in [Files -> {0, 1}]

FileInv == FileTypes /\ (\A p \in Slot : Tells(p)) /\ Owned /\ FilesPrivate

OthersKeep(p) ==
  \A q \in Slot : q # p => pc'[q] = pc[q] /\ f'[q] = f[q] /\ fd'[q] = fd[q]

\* The return of a system call that has no descriptor at hand.
LEMMA ReturnKeeps ==
  ASSUME FileTypes, NEW p \in Slot, Return(p), UNCHANGED <<ofile, fref>>, fd[p] = Null
  PROVE  /\ FileTypes' /\ OthersKeep(p) /\ Tells(p)'
         /\ \A d \in Fds : Closing(p, d)' <=> Closing(p, d)
         /\ \A g \in Files : ~HasFile(p, g)'
<1>1. "user" \in Pc /\ Null \in Fds \cup {Null} /\ 0 \in 0 .. NFILE /\ Null \notin Fds
  BY CallsAssumption DEF Pc, CallsAssumption, Null, Fds
<1>2. /\ pc' = [pc EXCEPT ![p] = "user"] /\ f' = [f EXCEPT ![p] = 0]
      /\ fd' = [fd EXCEPT ![p] = Null]
  BY DEF Return, Goto
<1> QED
  BY <1>1, <1>2 DEF FileTypes, OthersKeep, Tells, Closing, HasFile, IputPc, NoFd, WritePc

\* The statements that neither count a file nor store a descriptor.
LEMMA FileElsewhere ==
  ASSUME FileTypes, NEW p \in Slot, Tells(p), Step(p),
         ~FileallocTake(p), ~OpenFd(p), ~CloseDec(p), ~CloseFd(p)
  PROVE  /\ FileTypes' /\ OthersKeep(p) /\ UNCHANGED <<ofile, fref>>
         /\ Tells(p)'
         /\ \A d \in Fds : Closing(p, d)' <=> Closing(p, d)
         /\ \A g \in Files : ~HasFile(p, g)'
<1> USE CallsAssumption
    DEF FileTypes, OthersKeep, Tells, Closing, HasFile, NoFd, Pc, OpenPc, ClosePc, IputPc,
        WritePc, Goto, Return, IputReturn, InUser, icache, disk, procs, ftable, locals, past,
        Null, Fds, Files, CallsAssumption
<1>1. CASE \/ Create(p) \/ IallocTest(p) \/ IallocTake(p) \/ (\E i \in Inum : Open(p, i))
  BY <1>1 DEF Create, IallocTest, IallocTake, Open
<1>2. CASE IgetScan(p)
  BY <1>2 DEF IgetScan
<1>3. CASE IgetHit(p) \/ IgetTake(p)
  BY <1>3 DEF IgetHit, IgetTake, IgetReturn
<1>4. CASE IlockTest(p) \/ IlockLoad(p) \/ IlockValid(p)
  BY ZenonT(60), <1>4 DEF IlockTest, IlockLoad, IlockValid
<1>5. CASE FileallocTest(p)
  <2>1. pc[p] = "filealloc_test" /\ fd' = fd /\ UNCHANGED <<ofile, fref>> /\ fd[p] = Null
    BY <1>5 DEF FileallocTest
  <2>2. CASE f[p] = NFILE
    <3>1. f' = f /\ pc' = [pc EXCEPT ![p] = "iput_test"]
      BY <1>5, <2>2 DEF FileallocTest
    <3> QED
      BY <2>1, <3>1
  <2>3. CASE f[p] < NFILE /\ fref[f[p]] = 0
    <3>1. f' = f /\ pc' = [pc EXCEPT ![p] = "filealloc_take"]
      BY <1>5, <2>3 DEF FileallocTest
    <3>2. f[p] \in Files
      BY <2>3
    <3> QED
      BY <2>1, <2>3, <3>1, <3>2
  <2>4. CASE f[p] < NFILE /\ fref[f[p]] # 0
    <3>1. f' = [f EXCEPT ![p] = @ + 1] /\ pc' = pc
      BY <1>5, <2>4 DEF FileallocTest
    <3>2. f[p] + 1 \in 0 .. NFILE
      BY <2>4
    <3>3. f' \in [Slot -> 0 .. NFILE]
      BY <3>1, <3>2
    <3> QED
      BY <2>1, <3>1, <3>3
  <2> QED
    BY <1>5, <2>2, <2>3, <2>4 DEF FileallocTest
<1>6. CASE OpenInit(p)
  BY <1>6 DEF OpenInit
<1>7. CASE \E d \in Fds : Close(p, d)
  BY <1>7 DEF Close
<1>8. CASE CloseClear(p)
  BY ZenonT(60), <1>8 DEF CloseClear
<1>9. CASE IputTest(p) \/ IputDrop(p)
  BY ZenonT(60), <1>9 DEF IputTest, IputDrop
<1>10. CASE IputDec(p)
  <2>1. UNCHANGED <<ofile, fref>> /\ pc[p] = "iput_dec"
    BY <1>10 DEF IputDec
  <2>2. CASE Goto(p, "iput_clear") /\ UNCHANGED locals
    BY <2>1, <2>2
  <2>3. CASE fd[p] # Null /\ Goto(p, "close_fd") /\ UNCHANGED locals
    BY <2>1, <2>3
  <2>4. CASE fd[p] = Null /\ Return(p)
    BY ONLY <2>1, <2>4, ReturnKeeps, FileTypes, p \in Slot
  <2> QED
    BY <1>10, <2>2, <2>3, <2>4 DEF IputDec
<1>11. CASE IputClear(p)
  <2>1. UNCHANGED <<ofile, fref>> /\ pc[p] = "iput_clear"
    BY <1>11 DEF IputClear
  <2>3. CASE fd[p] # Null /\ Goto(p, "close_fd") /\ UNCHANGED locals
    BY <2>1, <2>3
  <2>4. CASE fd[p] = Null /\ Return(p)
    BY ONLY <2>1, <2>4, ReturnKeeps, FileTypes, p \in Slot
  <2> QED
    BY <1>11, <2>3, <2>4 DEF IputClear
<1>12. CASE \E d \in Fds : Write(p, d)
  <2>1. PICK d \in Fds : Write(p, d)
    BY <1>12
  <2>2. /\ UNCHANGED <<ofile, fref, fd>> /\ pc[p] = "user" /\ ofile[p][d] \in Files
        /\ fd[p] = Null
    BY <2>1 DEF Write
  <2>3. \/ Goto(p, "panic") /\ f' = f
        \/ UNCHANGED <<pc, f>>
        \/ Goto(p, "balloc_load") /\ f' = [f EXCEPT ![p] = ofile[p][d]]
    BY <2>1 DEF Write
  <2>4. f' \in [Slot -> 0 .. NFILE]
    BY <2>2, <2>3
  <2> QED
    BY <2>2, <2>3, <2>4
<1>13. CASE BallocLoad(p) \/ BallocSet(p)
  BY <1>13 DEF BallocLoad, BallocSet
<1>14. CASE GrowTest(p)
  <2>1. UNCHANGED <<ofile, fref>> /\ pc[p] = "grow_test" /\ fd[p] = Null
    BY <1>14 DEF GrowTest
  <2>2. CASE Goto(p, "grow") /\ UNCHANGED locals
    BY <2>1, <2>2
  <2>3. CASE Return(p)
    BY ONLY <2>1, <2>3, ReturnKeeps, FileTypes, p \in Slot
  <2> QED
    BY <1>14, <2>2, <2>3 DEF GrowTest
<1>15. CASE Grow(p)
  <2>1. UNCHANGED <<ofile, fref, f, fd>> /\ pc[p] = "grow" /\ pc' = [pc EXCEPT ![p] = "iupdate"]
    BY <1>15 DEF Grow
  <2> QED
    BY <2>1
<1>16. CASE Iupdate(p)
  <2>1. UNCHANGED <<ofile, fref>> /\ fd[p] = Null /\ Return(p)
    BY <1>16 DEF Iupdate
  <2> QED
    BY ONLY <2>1, ReturnKeeps, FileTypes, p \in Slot
<1>17. CASE (\E q \in Slot : Fork(p, q) \/ Wait(p, q)) \/ Exit(p)
  BY <1>17 DEF Fork, Wait, Exit
<1> QED
  BY <1>1, <1>2, <1>3, <1>4, <1>5, <1>6, <1>7, <1>8, <1>9, <1>10, <1>11, <1>12, <1>13,
     <1>14, <1>15, <1>16, <1>17 DEF Step

LEMMA FileStep ==
  ASSUME FileInv, Next
  PROVE  FileInv'
<1>1. PICK p \in Slot : Step(p)
  BY DEF Next
<1>2. FileTypes /\ Tells(p) /\ Owned /\ FilesPrivate
  BY DEF FileInv
<1>3. CASE FileallocTake(p)
  <2> DEFINE g == f[p]
  <2>1. g \in Files /\ fref[g] = 0 /\ fd[p] = Null /\ pc[p] = "filealloc_take"
    BY <1>2, <1>3 DEF FileallocTake, Tells, NoFd
  <2>2. /\ fref' = [fref EXCEPT ![g] = 1] /\ pc' = [pc EXCEPT ![p] = "open_fd"]
        /\ UNCHANGED <<ofile, f, fd>>
    BY <1>3 DEF FileallocTake, Goto, procs, locals
  <2>3. FileTypes' /\ OthersKeep(p)
    BY <1>2, <2>1, <2>2 DEF FileTypes, OthersKeep, Pc, OpenPc
  <2>4. Tells(p)'
    BY <1>2, <2>1, <2>2 DEF Tells, FileTypes
  <2>5. \A q \in Slot : q # p => Tells(q)'
    <3>1. \A q \in Slot : q # p /\ pc[q] = "filealloc_take" => f[q] # g
      BY <2>1, NoConflict DEF Conflict
    <3>2. \A q \in Slot : q # p /\ pc[q] = "filealloc_take" =>
            f[q] \in Files /\ fref'[f[q]] = fref[f[q]]
      BY <1>2, <2>2, <3>1 DEF FileInv, Tells, FileTypes
    <3> QED
      BY <2>2, <2>3, <3>2 DEF FileInv, Tells, OthersKeep
  <2>6. \A q \in Slot, d \in Fds : Counts(q, d)' <=> Counts(q, d)
    BY <1>2, <2>1, <2>2, <2>3 DEF Counts, Closing, IputPc, FileTypes, OthersKeep
  <2>7. \A q \in Slot, d \in Fds : Counts(q, d) => ofile[q][d] \in Files \ {g}
    BY <1>2, <2>1 DEF Owned, Counts, FileTypes
  <2>8. \A q \in Slot, h \in Files : q # p => (HasFile(q, h)' <=> HasFile(q, h))
    BY <2>3 DEF HasFile, OthersKeep
  <2>9. \A h \in Files : (HasFile(p, h)' => h = g) /\ ~HasFile(p, h)
    BY <1>2, <2>1, <2>2 DEF HasFile, FileTypes
  <2>10. \A q \in Slot, h \in Files : HasFile(q, h) => h # g
    BY <1>2, <2>1 DEF Owned
  <2>11. Owned'
    <3>1. \A q \in Slot, d \in Fds : Counts(q, d)' => fref'[ofile'[q][d]] = 1
      BY <1>2, <2>2, <2>6, <2>7 DEF Owned, FileTypes
    <3>2. \A q \in Slot, h \in Files : HasFile(q, h)' =>
            /\ fref'[h] = 1
            /\ \A r \in Slot \ {q} : ~HasFile(r, h)'
            /\ \A r \in Slot, d \in Fds : Counts(r, d)' => ofile'[r][d] # h
      <4>1. SUFFICES ASSUME NEW q \in Slot, NEW h \in Files, HasFile(q, h)'
                     PROVE  /\ fref'[h] = 1
                            /\ \A r \in Slot \ {q} : ~HasFile(r, h)'
                            /\ \A r \in Slot, d \in Fds : Counts(r, d)' => ofile'[r][d] # h
        OBVIOUS
      <4>2. CASE q = p
        BY <1>2, <2>2, <2>6, <2>7, <2>8, <2>9, <2>10, <4>1, <4>2 DEF FileTypes
      <4>3. CASE q # p
        BY <1>2, <2>2, <2>6, <2>8, <2>9, <2>10, <4>1, <4>3 DEF FileTypes, Owned
      <4> QED
        BY <4>2, <4>3
    <3> QED
      BY <3>1, <3>2 DEF Owned
  <2>12. FilesPrivate'
    BY <1>2, <2>2, <2>6 DEF FilesPrivate, Counts
  <2> QED
    BY <2>3, <2>4, <2>5, <2>11, <2>12 DEF FileInv
<1>4. CASE OpenFd(p)
  <2> DEFINE free == {d \in Fds : ofile[p][d] = Null}
             g == f[p]
  <2>1. g \in Files /\ fd[p] = Null /\ pc[p] = "open_fd" /\ HasFile(p, g)
    BY <1>2, <1>4 DEF OpenFd, Tells, NoFd, HasFile
  <2>2. CASE free = {}
    <3>1. pc' = [pc EXCEPT ![p] = "close_dec"] /\ UNCHANGED <<ofile, fref, f, fd>>
      BY <1>4, <2>2 DEF OpenFd, Goto, ftable
    <3>2. FileTypes' /\ OthersKeep(p)
      BY <1>2, <3>1 DEF FileTypes, OthersKeep, Pc, ClosePc
    <3>3. \A q \in Slot : Tells(q)'
      BY <1>2, <2>1, <3>1, <3>2 DEF FileInv, Tells, NoFd, WritePc, OthersKeep, FileTypes
    <3>4. /\ \A q \in Slot, d \in Fds : Counts(q, d)' <=> Counts(q, d)
          /\ \A q \in Slot, h \in Files : HasFile(q, h)' <=> HasFile(q, h)
      BY <1>2, <2>1, <3>1, <3>2
         DEF Counts, Closing, IputPc, HasFile, OthersKeep, FileTypes
    <3>5. Owned'
      BY <1>2, <3>1, <3>4 DEF Owned
    <3>6. FilesPrivate'
      BY <1>2, <3>1, <3>4 DEF FilesPrivate, Counts
    <3> QED
      BY <3>2, <3>3, <3>5, <3>6 DEF FileInv
  <2>3. CASE free # {}
    <3> DEFINE e == Min(free)
    <3>1. e \in Fds /\ ofile[p][e] = Null
      <4>1. free \in SUBSET Nat
        BY DEF Fds
      <4> QED
        BY <2>3, <4>1, MinOf
    <3> HIDE DEF e
    <3>2. /\ pc' = [pc EXCEPT ![p] = "open_init"] /\ UNCHANGED <<fref, f>>
          /\ fd' = [fd EXCEPT ![p] = e] /\ ofile' = [ofile EXCEPT ![p][e] = g]
      BY <1>4, <2>3 DEF OpenFd, Goto, ftable, e
    <3>3. FileTypes' /\ OthersKeep(p)
      BY <1>2, <2>1, <3>1, <3>2 DEF FileTypes, OthersKeep, Pc, OpenPc
    <3>4. \A q \in Slot : Tells(q)'
      BY <1>2, <2>1, <3>1, <3>2, <3>3 DEF FileInv, Tells, NoFd, WritePc, OthersKeep, FileTypes
    <3>5. \A q \in Slot, d \in Fds :
            ofile'[q][d] = IF q = p /\ d = e THEN g ELSE ofile[q][d]
      BY <1>2, <3>1, <3>2 DEF FileTypes
    <3>6. \A q \in Slot, d \in Fds : Counts(q, d)' => Counts(q, d) \/ (q = p /\ d = e)
      BY <1>2, <2>1, <3>2, <3>3, <3>5 DEF Counts, Closing, IputPc, OthersKeep, FileTypes
    <3>7. \A q \in Slot, h \in Files : HasFile(q, h)' => HasFile(q, h) /\ h # g
      BY <1>2, <2>1, <3>2, <3>3 DEF HasFile, OthersKeep, FileTypes, Owned
    <3>8. /\ fref[g] = 1 /\ \A q \in Slot, d \in Fds : Counts(q, d) => ofile[q][d] # g
      BY <1>2, <2>1 DEF Owned
    <3>9. Owned'
      BY <1>2, <3>2, <3>5, <3>6, <3>7, <3>8 DEF Owned
    <3>10. FilesPrivate'
      <4>1. \A q, r \in Slot : \A d, c \in Fds :
              Counts(q, d) /\ Counts(r, c) /\ ofile[q][d] = ofile[r][c] => q = r /\ d = c
        BY <1>2 DEF FilesPrivate, Counts
      <4>2. \A q, r \in Slot : \A d, c \in Fds :
              Counts(q, d)' /\ Counts(r, c)' /\ ofile'[q][d] = ofile'[r][c] => q = r /\ d = c
        BY <3>5, <3>6, <3>8, <4>1
      <4> QED
        BY <4>2 DEF FilesPrivate, Counts
    <3> QED
      BY <3>3, <3>4, <3>9, <3>10 DEF FileInv
  <2> QED
    BY <2>2, <2>3
<1>5. CASE CloseDec(p)
  <2> DEFINE g == f[p]
  <2>1. g \in Files /\ pc[p] = "close_dec"
    BY <1>2, <1>5 DEF CloseDec, Tells
  <2>2. fref[g] = 1
    <3>1. CASE fd[p] = Null
      BY <1>2, <2>1, <3>1 DEF Owned, HasFile
    <3>2. CASE fd[p] # Null
      <4>1. fd[p] \in Fds /\ ofile[p][fd[p]] = g
        BY <1>2, <2>1, <3>2 DEF Tells, FileTypes
      <4>2. Counts(p, fd[p]) /\ g # Null
        BY <2>1, <4>1 DEF Counts, Closing, IputPc, Files, Null
      <4> QED
        BY <1>2, <4>1, <4>2 DEF Owned
    <3> QED
      BY <3>1, <3>2
  <2>3. /\ fref' = [fref EXCEPT ![g] = 0] /\ pc' = [pc EXCEPT ![p] = "close_clear"]
        /\ UNCHANGED <<ofile, f, fd>>
    BY <1>5, <2>2 DEF CloseDec, Goto, procs, locals
  <2>4. FileTypes' /\ OthersKeep(p)
    BY <1>2, <2>1, <2>3 DEF FileTypes, OthersKeep, Pc, ClosePc
  <2>5. \A q \in Slot : Tells(q)'
    <3>1. \A h \in Files : fref[h] = 0 => fref'[h] = 0
      BY <1>2, <2>1, <2>3 DEF FileTypes
    <3>2. Tells(p)'
      BY <1>2, <2>3 DEF Tells, NoFd, WritePc, FileTypes
    <3>3. \A q \in Slot : q # p => Tells(q)'
      BY <2>3, <2>4, <3>1 DEF FileInv, Tells, OthersKeep
    <3> QED
      BY <3>2, <3>3
  <2>6. \A q \in Slot, d \in Fds : Counts(q, d)' => Counts(q, d) /\ ~(q = p /\ d = fd[p])
    BY <1>2, <2>1, <2>3, <2>4 DEF Counts, Closing, IputPc, FileTypes, OthersKeep
  <2>7. \A q \in Slot, d \in Fds : Counts(q, d)' => ofile[q][d] \in Files \ {g}
    <3>1. SUFFICES ASSUME NEW q \in Slot, NEW d \in Fds, Counts(q, d)', ofile[q][d] = g
                   PROVE  FALSE
      BY <1>2, <2>6 DEF Counts, FileTypes
    <3>2. Counts(q, d) /\ ~(q = p /\ d = fd[p])
      BY <2>6, <3>1
    <3>3. CASE fd[p] = Null
      BY <1>2, <2>1, <3>1, <3>2, <3>3 DEF Owned, HasFile
    <3>4. CASE fd[p] # Null
      <4>1. fd[p] \in Fds /\ ofile[p][fd[p]] = g /\ Counts(p, fd[p])
        BY <1>2, <2>1, <3>4 DEF Tells, FileTypes, Counts, Closing, IputPc, Files, Null
      <4> QED
        BY <1>2, <3>1, <3>2, <4>1 DEF FilesPrivate, Counts
    <3> QED
      BY <3>3, <3>4
  <2>8. \A q \in Slot, h \in Files : HasFile(q, h)' => HasFile(q, h) /\ h # g
    <3>1. \A h \in Files : ~HasFile(p, h)'
      BY <1>2, <2>3 DEF HasFile, FileTypes
    <3>2. \A q \in Slot, h \in Files : q # p => (HasFile(q, h)' <=> HasFile(q, h))
      BY <2>4 DEF HasFile, OthersKeep
    <3>3. \A q \in Slot : q # p => ~HasFile(q, g)
      <4>1. CASE fd[p] = Null
        BY <1>2, <2>1, <4>1 DEF Owned, HasFile
      <4>2. CASE fd[p] # Null
        <5>1. fd[p] \in Fds /\ ofile[p][fd[p]] = g /\ Counts(p, fd[p])
          BY <1>2, <2>1, <4>2 DEF Tells, FileTypes, Counts, Closing, IputPc, Files, Null
        <5> QED
          BY <1>2, <2>1, <5>1 DEF Owned
      <4> QED
        BY <4>1, <4>2
    <3> QED
      BY <3>1, <3>2, <3>3
  <2>9. Owned'
    BY <1>2, <2>3, <2>6, <2>7, <2>8 DEF Owned, FileTypes
  <2>10. FilesPrivate'
    BY <1>2, <2>3, <2>6 DEF FilesPrivate, Counts
  <2> QED
    BY <2>4, <2>5, <2>9, <2>10 DEF FileInv
<1>6. CASE CloseFd(p)
  <2>1. /\ pc[p] = "close_fd" /\ pc' = [pc EXCEPT ![p] = "user"] /\ UNCHANGED fref
        /\ f' = [f EXCEPT ![p] = 0] /\ fd' = [fd EXCEPT ![p] = Null]
        /\ ofile' = [ofile EXCEPT ![p][fd[p]] = Null]
    BY <1>6 DEF CloseFd, Return, Goto, ftable
  <2>2. "user" \in Pc /\ Null \in Fds \cup {Null} /\ 0 \in 0 .. NFILE /\ Null \notin Fds
    BY CallsAssumption DEF Pc, CallsAssumption, Null, Fds
  <2>3. \A q \in Slot, d \in Fds :
          ofile'[q][d] = IF q = p /\ d = fd[p] THEN Null ELSE ofile[q][d]
    BY <1>2, <2>1 DEF FileTypes
  <2>4. FileTypes' /\ OthersKeep(p)
    BY <1>2, <2>1, <2>2 DEF FileTypes, OthersKeep
  <2>5. \A q \in Slot : Tells(q)'
    <3>1. Tells(p)'
      BY <1>2, <2>1 DEF Tells, FileTypes
    <3>2. \A q \in Slot : q # p => Tells(q)'
      BY <1>2, <2>1, <2>3, <2>4 DEF FileInv, Tells, OthersKeep, FileTypes
    <3> QED
      BY <3>1, <3>2
  <2>6. \A q \in Slot, d \in Fds :
          Counts(q, d)' => Counts(q, d) /\ ofile'[q][d] = ofile[q][d]
    BY <1>2, <2>1, <2>3, <2>4 DEF Counts, Closing, IputPc, FileTypes, OthersKeep
  <2>7. \A q \in Slot, h \in Files : HasFile(q, h)' => HasFile(q, h)
    BY <1>2, <2>1, <2>4 DEF HasFile, OthersKeep, FileTypes
  <2>8. Owned'
    BY <1>2, <2>1, <2>6, <2>7 DEF Owned
  <2>9. FilesPrivate'
    <3>1. \A q, r \in Slot : \A d, c \in Fds :
            Counts(q, d) /\ Counts(r, c) /\ ofile[q][d] = ofile[r][c] => q = r /\ d = c
      BY <1>2 DEF FilesPrivate, Counts
    <3>2. \A q, r \in Slot : \A d, c \in Fds :
            Counts(q, d)' /\ Counts(r, c)' /\ ofile'[q][d] = ofile'[r][c] => q = r /\ d = c
      BY <2>6, <3>1
    <3> QED
      BY <3>2 DEF FilesPrivate, Counts
  <2> QED
    BY <2>4, <2>5, <2>8, <2>9 DEF FileInv
<1>7. CASE ~FileallocTake(p) /\ ~OpenFd(p) /\ ~CloseDec(p) /\ ~CloseFd(p)
  <2>1. /\ FileTypes' /\ OthersKeep(p) /\ UNCHANGED <<ofile, fref>>
        /\ Tells(p)'
        /\ \A d \in Fds : Closing(p, d)' <=> Closing(p, d)
        /\ \A g \in Files : ~HasFile(p, g)'
    BY <1>1, <1>2, <1>7, FileElsewhere DEF FileInv
  <2>2. \A q \in Slot : Tells(q)'
    BY <2>1 DEF FileInv, Tells, OthersKeep
  <2>3. \A q \in Slot, d \in Fds : Counts(q, d)' <=> Counts(q, d)
    BY <2>1 DEF Counts, Closing, OthersKeep
  <2>4. \A q \in Slot, h \in Files : HasFile(q, h)' => HasFile(q, h)
    BY <2>1 DEF HasFile, OthersKeep
  <2>5. Owned'
    BY <1>2, <2>1, <2>3, <2>4 DEF Owned
  <2>6. FilesPrivate'
    BY <1>2, <2>1, <2>3 DEF FilesPrivate, Counts
  <2> QED
    BY <2>1, <2>2, <2>5, <2>6 DEF FileInv
<1> QED
  BY <1>3, <1>4, <1>5, <1>6, <1>7

LEMMA FileInit == Init => FileInv
<1> SUFFICES ASSUME Init PROVE FileInv
  OBVIOUS
<1>1. Null \notin Fds /\ Null \notin Files /\ 0 \in 0 .. NFILE
  BY CallsAssumption DEF CallsAssumption, Null, Fds, Files
<1>2. FileTypes
  BY <1>1 DEF Init, FileTypes, Pc
<1>3. /\ \A p \in Slot : Tells(p)
      /\ \A p \in Slot, d \in Fds : ofile[p][d] = Null
  BY DEF Init, Tells
<1>4. \A p \in Slot, g \in Files : ~HasFile(p, g)
  BY DEF Init, HasFile
<1> QED
  BY <1>2, <1>3, <1>4 DEF FileInv, Owned, Counts, FilesPrivate

LEMMA FileStutter == FileInv /\ UNCHANGED vars => FileInv'
<1> SUFFICES ASSUME FileInv, UNCHANGED vars PROVE FileInv'
  OBVIOUS
<1>1. UNCHANGED <<pc, f, fd, ofile, fref>>
  BY DEF vars, procs, ftable, locals
<1> QED
  BY <1>1 DEF FileInv, FileTypes, Tells, Owned, Counts, Closing, HasFile, FilesPrivate

\* No two descriptors, of living or dead processes, share an entry of ftable and with it
\* its offset (filealloc, fileclose, sys_open and sys_close): for any number of processes,
\* files and descriptors, while no two processes take or clear a file at the same time.
THEOREM FilesPrivateAlways == Spec => []FilesPrivate
<1>1. FileInv => FilesPrivate
  BY DEF FileInv
<1> QED
  BY <1>1, FileInit, FileStep, FileStutter, PTL DEF Spec

-----------------------------------------------------------------------------
(* Inodes on the disk                                                      *)

Inode == [type : {"free", "file"}, size : Nat]

\* What stays true once it is: an inode in use, a slot that has had an inode, and one
\* whose fields were loaded.
InUse(i)  == i \in Inum /\ dinode[i].type = "file"
Named(s)  == s \in Islot /\ inum[s] # 0
Loaded(s) == Named(s) /\ mem[s].type = "file"

LockedPc == {"filealloc_test", "filealloc_take", "open_fd", "open_init"}
WithFile == {"filealloc_take", "open_fd", "open_init", "close_dec", "close_clear"} \cup WritePc

InodeTypes ==
  /\ want \in [Slot -> 0 .. NINODES] /\ ip \in [Slot -> 0 .. NINODE]
  /\ fip \in [Files -> Islot \cup {Null}] /\ inum \in [Islot -> 0 .. NINODES - 1]
  /\ valid \in [Islot -> BOOLEAN] /\ off \in [Files -> Nat]
  /\ mem \in [Islot -> Inode] /\ dinode \in [Inum -> Inode] /\ made \in [Inum -> Nat]

\* The inode or slot a process has at hand.
Place(p) ==
  /\ pc[p] = "ialloc_test" => want[p] \in 1 .. NINODES
  /\ pc[p] = "ialloc_take" => want[p] \in Inum /\ dinode[want[p]].type = "free"
  /\ InIget(p) => InUse(want[p])
  /\ pc[p] \in {"ilock_test", "ilock_load"} => Named(ip[p])
  /\ pc[p] \in {"ilock_valid"} \cup LockedPc \cup WritePc => Loaded(ip[p])
  /\ pc[p] \in WithFile => f[p] \in Files

InodeInv ==
  /\ InodeTypes
  /\ \A s \in Islot : (Named(s) => InUse(inum[s])) /\ (valid[s] => Loaded(s))
  /\ \A g \in Files : fip[g] # Null => Loaded(fip[g])
  /\ \A p \in Slot : Place(p)
  /\ \A i \in Inum : made[i] <= 1 /\ (made[i] # 0 => InUse(i))

\* Which statement stores in which variable.
LEMMA Stores ==
  ASSUME NEW p \in Slot, Step(p)
  PROVE  /\ ref' = ref \/ IgetHit(p) \/ IgetTake(p) \/ IputDec(p)
         /\ inum' = inum \/ IgetTake(p)
         /\ valid' = valid \/ IgetTake(p) \/ IlockValid(p) \/ IputDrop(p) \/ IputClear(p)
         /\ mem' = mem \/ IlockLoad(p) \/ Grow(p)
         /\ dinode' = dinode \/ IallocTake(p) \/ Iupdate(p)
         /\ fip' = fip \/ OpenInit(p) \/ CloseClear(p)
         /\ off' = off \/ OpenInit(p) \/ CloseClear(p) \/ (\E d \in Fds : Write(p, d))
            \/ GrowTest(p) \/ Iupdate(p)
         /\ fref' = fref \/ FileallocTake(p) \/ CloseDec(p)
         /\ ofile' = ofile \/ OpenFd(p) \/ CloseFd(p)
         /\ bitmap' = bitmap \/ BallocSet(p)
         /\ made' = made \/ IallocTake(p)
<1> USE DEF procs, ftable, icache, disk, locals, past
<1>1. CASE Grow(p)
  BY <1>1, Zenon DEF Grow
<1>2. CASE \/ Create(p) \/ IallocTest(p) \/ IallocTake(p) \/ (\E i \in Inum : Open(p, i))
           \/ IgetScan(p) \/ IgetHit(p) \/ IgetTake(p)
  BY <1>2 DEF Create, IallocTest, IallocTake, Open, IgetScan, IgetHit, IgetTake
<1>3. CASE \/ IlockTest(p) \/ IlockLoad(p) \/ IlockValid(p)
           \/ FileallocTest(p) \/ FileallocTake(p) \/ OpenFd(p) \/ OpenInit(p)
  BY <1>3 DEF IlockTest, IlockLoad, IlockValid, FileallocTest, FileallocTake, OpenFd, OpenInit
<1>4. CASE \/ (\E d \in Fds : Close(p, d)) \/ CloseDec(p) \/ CloseClear(p) \/ CloseFd(p)
           \/ IputTest(p) \/ IputDrop(p) \/ IputDec(p) \/ IputClear(p)
  BY <1>4 DEF Close, CloseDec, CloseClear, CloseFd, IputTest, IputDrop, IputDec, IputClear
<1>5. CASE \/ (\E d \in Fds : Write(p, d)) \/ BallocLoad(p) \/ BallocSet(p)
           \/ GrowTest(p) \/ Iupdate(p)
  BY <1>5 DEF Write, BallocLoad, BallocSet, GrowTest, Iupdate
<1>6. CASE (\E q \in Slot : Fork(p, q) \/ Wait(p, q)) \/ Exit(p)
  BY <1>6 DEF Fork, Wait, Exit
<1> QED
  BY <1>1, <1>2, <1>3, <1>4, <1>5, <1>6 DEF Step

\* Which statement stores in which local.
LEMMA StoresLocals ==
  ASSUME NEW p \in Slot, Step(p)
  PROVE  /\ \/ want' = want \/ Create(p) \/ IallocTest(p) \/ (\E i \in Inum : Open(p, i))
            \/ want' = [want EXCEPT ![p] = 0]
         /\ \/ ip' = ip \/ IgetScan(p) \/ IgetHit(p) \/ IgetTake(p)
            \/ CloseClear(p) \/ (\E d \in Fds : Write(p, d))
            \/ ip' = [ip EXCEPT ![p] = 0]
<1> USE DEF locals, Return, IgetReturn, IputReturn
<1>1. CASE Grow(p)
  BY <1>1, Zenon DEF Grow
<1>2. CASE \/ Create(p) \/ IallocTest(p) \/ IallocTake(p) \/ (\E i \in Inum : Open(p, i))
           \/ IgetScan(p) \/ IgetHit(p) \/ IgetTake(p)
  BY <1>2 DEF Create, IallocTest, IallocTake, Open, IgetScan, IgetHit, IgetTake
<1>3. CASE \/ IlockTest(p) \/ IlockLoad(p) \/ IlockValid(p)
           \/ FileallocTest(p) \/ FileallocTake(p) \/ OpenFd(p) \/ OpenInit(p)
  BY <1>3 DEF IlockTest, IlockLoad, IlockValid, FileallocTest, FileallocTake, OpenFd, OpenInit
<1>4. CASE \/ (\E d \in Fds : Close(p, d)) \/ CloseDec(p) \/ CloseClear(p) \/ CloseFd(p)
           \/ IputTest(p) \/ IputDrop(p) \/ IputDec(p) \/ IputClear(p)
  BY <1>4 DEF Close, CloseDec, CloseClear, CloseFd, IputTest, IputDrop, IputDec, IputClear
<1>5. CASE \/ (\E d \in Fds : Write(p, d)) \/ BallocLoad(p) \/ BallocSet(p)
           \/ GrowTest(p) \/ Iupdate(p)
  BY <1>5 DEF Write, BallocLoad, BallocSet, GrowTest, Iupdate
<1>6. CASE (\E q \in Slot : Fork(p, q) \/ Wait(p, q)) \/ Exit(p)
  BY <1>6 DEF Fork, Wait, Exit
<1> QED
  BY <1>1, <1>2, <1>3, <1>4, <1>5, <1>6 DEF Step

\* The others stay where they are, and keep their locals.
LEMMA OthersHere ==
  ASSUME NEW p \in Slot, Step(p), SlotTypes, FileTypes, NEW q \in Slot, q # p
  PROVE  /\ pc'[q] = pc[q] /\ want'[q] = want[q] /\ ip'[q] = ip[q] /\ empty'[q] = empty[q]
         /\ f'[q] = f[q] /\ fd'[q] = fd[q]
<1> USE DEF SlotTypes, FileTypes, Goto, Return, IputReturn, procs, ftable, icache, disk,
            locals, past
<1>1. CASE Grow(p)
  <2>1. UNCHANGED locals /\ pc' = [pc EXCEPT ![p] = "iupdate"]
    BY <1>1, Zenon DEF Grow, Goto
  <2> QED
    BY <2>1
<1>2. CASE \/ Create(p) \/ IallocTest(p) \/ IallocTake(p) \/ (\E i \in Inum : Open(p, i))
           \/ IgetScan(p) \/ IgetHit(p) \/ IgetTake(p)
  BY <1>2 DEF Create, IallocTest, IallocTake, Open, IgetScan, IgetHit, IgetTake, IgetReturn
<1>3. CASE \/ IlockTest(p) \/ IlockLoad(p) \/ IlockValid(p)
           \/ FileallocTest(p) \/ FileallocTake(p) \/ OpenFd(p) \/ OpenInit(p)
  BY <1>3 DEF IlockTest, IlockLoad, IlockValid, FileallocTest, FileallocTake, OpenFd, OpenInit
<1>4. CASE \/ (\E d \in Fds : Close(p, d)) \/ CloseDec(p) \/ CloseClear(p) \/ CloseFd(p)
           \/ IputTest(p) \/ IputDrop(p) \/ IputDec(p) \/ IputClear(p)
  BY <1>4 DEF Close, CloseDec, CloseClear, CloseFd, IputTest, IputDrop, IputDec, IputClear
<1>5. CASE \/ (\E d \in Fds : Write(p, d)) \/ BallocLoad(p) \/ BallocSet(p)
           \/ GrowTest(p) \/ Iupdate(p)
  BY <1>5 DEF Write, BallocLoad, BallocSet, GrowTest, Iupdate
<1>6. CASE (\E r \in Slot : Fork(p, r) \/ Wait(p, r)) \/ Exit(p)
  BY <1>6 DEF Fork, Wait, Exit
<1> QED
  BY <1>1, <1>2, <1>3, <1>4, <1>5, <1>6 DEF Step

Same(p) == want'[p] = want[p] /\ ip'[p] = ip[p] /\ f'[p] = f[p] /\ fd'[p] = fd[p]

\* How a process gets to a statement, and what it brings.
Arrives(p) ==
  /\ pc'[p] = "ialloc_test" =>
       \/ want'[p] = 1
       \/ want'[p] = want[p] + 1 /\ pc[p] = "ialloc_test" /\ want[p] < NINODES
  /\ pc'[p] = "ialloc_take" => /\ pc[p] = "ialloc_test" /\ want'[p] = want[p]
                               /\ want[p] < NINODES /\ dinode[want[p]].type = "free"
  /\ pc'[p] = "iget_scan" =>
       \/ pc[p] = "iget_scan" /\ want'[p] = want[p]
       \/ IallocTake(p) /\ want'[p] = want[p]
       \/ InUse(want'[p]) /\ dinode' = dinode
  /\ pc'[p] \in {"iget_hit", "iget_take"} => pc[p] = "iget_scan" /\ want'[p] = want[p]
  /\ pc'[p] = "ilock_test" => \/ IgetHit(p) /\ ip'[p] = ip[p]
                              \/ IgetTake(p) /\ ip'[p] = empty[p]
  /\ pc'[p] = "ilock_load" => pc[p] = "ilock_test" /\ ~valid[ip[p]] /\ Same(p)
  /\ pc'[p] = "ilock_valid" => IlockLoad(p) /\ Same(p)
  /\ pc'[p] = "filealloc_test" =>
       /\ ip'[p] = ip[p]
       /\ \/ pc[p] = "filealloc_test"
          \/ pc[p] = "ilock_test" /\ valid[ip[p]]
          \/ IlockValid(p)
  /\ pc'[p] = "filealloc_take" =>
       /\ pc[p] = "filealloc_test" /\ Same(p) /\ f[p] # NFILE /\ fref[f[p]] = 0
  /\ pc'[p] = "open_fd" => FileallocTake(p) /\ Same(p)
  /\ pc'[p] = "open_init" => OpenFd(p) /\ ip'[p] = ip[p] /\ f'[p] = f[p]
  /\ pc'[p] = "close_dec" =>
       \/ OpenFd(p) /\ Same(p)
       \/ pc[p] = "user" /\ \E d \in Fds : ofile[p][d] # Null /\ f'[p] = ofile[p][d] /\ fd'[p] = d
  /\ pc'[p] = "close_clear" => CloseDec(p) /\ Same(p) /\ fref[f[p]] = 1
  /\ pc'[p] = "iput_test" =>
       \/ pc[p] = "filealloc_test" /\ Same(p)
       \/ CloseDec(p) /\ Same(p) /\ fd[p] = Null /\ fref[f[p]] \notin {0, 1}
       \/ CloseClear(p) /\ fip[f[p]] = Null /\ Same(p) /\ fd[p] = Null
       \/ CloseClear(p) /\ fip[f[p]] # Null /\ ip'[p] = fip[f[p]] /\ fd'[p] = fd[p]
  /\ pc'[p] = "iput_drop" => pc[p] = "iput_test" /\ Same(p)
  /\ pc'[p] = "iput_dec" => pc[p] \in {"iput_test", "iput_drop"} /\ Same(p)
  /\ pc'[p] = "iput_clear" => IputDec(p) /\ Same(p)
  /\ pc'[p] = "balloc_load" =>
       /\ pc[p] = "user" /\ \E d \in Fds : f'[p] = ofile[p][d] /\ f'[p] # Null
       /\ ip'[p] = fip[f'[p]] /\ ip'[p] # Null
  /\ pc'[p] = "balloc_set" => pc[p] = "balloc_load" /\ Same(p)
  /\ pc'[p] = "grow_test" => pc[p] = "balloc_set" /\ Same(p)
  /\ pc'[p] = "grow" => pc[p] = "grow_test" /\ Same(p) /\ off[f[p]] + 1 > mem[ip[p]].size
  /\ pc'[p] = "iupdate" => Grow(p) /\ Same(p)

\* Every statement brings what Arrives says.
LEMMA Arrivals ==
  ASSUME NEW p \in Slot, Step(p), SlotTypes, FileTypes, InodeTypes
  PROVE  Arrives(p)
<1> USE DEF SlotTypes, FileTypes, Goto, Return, procs, ftable, icache, disk,
            locals, past, Arrives, Same, InUser, InUse, WritePc
<1>1. CASE Grow(p)
  <2>1. UNCHANGED locals /\ pc' = [pc EXCEPT ![p] = "iupdate"]
    BY <1>1, Zenon DEF Grow, Goto
  <2> QED
    BY <1>1, <2>1
<1>2. CASE \/ Create(p) \/ IallocTest(p) \/ IallocTake(p) \/ (\E i \in Inum : Open(p, i))
  <2>1. CASE \E i \in Inum : Open(p, i)
    BY <2>1 DEF Open, InodeTypes, Inode
  <2>2. want[p] \in 0 .. NINODES
    BY DEF InodeTypes
  <2> QED
    BY <1>2, <2>1, <2>2 DEF Create, IallocTest, IallocTake
<1>3. CASE IgetScan(p) \/ IgetHit(p) \/ IgetTake(p)
  BY <1>3 DEF IgetScan, IgetHit, IgetTake, IgetReturn
<1>4. CASE IlockTest(p) \/ IlockLoad(p) \/ IlockValid(p)
  BY <1>4 DEF IlockTest, IlockLoad, IlockValid
<1>5. CASE FileallocTest(p) \/ FileallocTake(p) \/ OpenFd(p) \/ OpenInit(p)
  BY <1>5 DEF FileallocTest, FileallocTake, OpenFd, OpenInit
<1>6. CASE (\E d \in Fds : Close(p, d)) \/ CloseDec(p) \/ CloseClear(p) \/ CloseFd(p)
  <2>1. CASE \E d \in Fds : Close(p, d)
    BY <2>1 DEF Close
  <2>2. CASE CloseDec(p) \/ CloseFd(p)
    BY <2>2 DEF CloseDec, CloseFd
  <2>3. CASE CloseClear(p)
    BY <2>3 DEF CloseClear
  <2> QED
    BY <1>6, <2>1, <2>2, <2>3
<1>7. CASE IputTest(p) \/ IputDrop(p) \/ IputDec(p) \/ IputClear(p)
  BY <1>7 DEF IputTest, IputDrop, IputDec, IputClear, IputReturn
<1>8. CASE (\E d \in Fds : Write(p, d)) \/ BallocLoad(p) \/ BallocSet(p)
  BY <1>8 DEF Write, BallocLoad, BallocSet
<1>9. CASE GrowTest(p) \/ Iupdate(p)
  BY <1>9 DEF GrowTest, Iupdate
<1>10. CASE (\E r \in Slot : Fork(p, r) \/ Wait(p, r)) \/ Exit(p)
  BY <1>10 DEF Fork, Wait, Exit
<1> QED
  BY <1>1, <1>2, <1>3, <1>4, <1>5, <1>6, <1>7, <1>8, <1>9, <1>10 DEF Step

\* What is in use stays in use.
LEMMA Lasting ==
  ASSUME SlotInv, InodeInv, NEW p \in Slot, Step(p)
  PROVE  /\ inum' \in [Islot -> 0 .. NINODES - 1] /\ mem' \in [Islot -> Inode]
         /\ dinode' \in [Inum -> Inode]
         /\ \A i \in Inum : InUse(i) => InUse(i)'
         /\ \A s \in Islot : (Named(s) => Named(s)') /\ (Loaded(s) => Loaded(s)')
<1>1. SlotTypes /\ Seen(p) /\ InodeTypes /\ Place(p)
  BY DEF SlotInv, InodeInv
<1>2. inum' \in [Islot -> 0 .. NINODES - 1] /\ \A s \in Islot : inum[s] # 0 => inum'[s] # 0
  <2>1. CASE IgetTake(p)
    <3>1. empty[p] \in Islot /\ want[p] \in Inum
      BY <1>1, <2>1 DEF IgetTake, Seen, SlotTypes, Place, InIget, InUse
    <3> QED
      BY <1>1, <2>1, <3>1 DEF IgetTake, InodeTypes, Inum
  <2> QED
    BY <1>1, <2>1, Stores DEF InodeTypes
<1>3. dinode' \in [Inum -> Inode] /\ \A i \in Inum : InUse(i) => InUse(i)'
  <2>1. CASE IallocTake(p)
    <3>1. File \in Inode /\ File.type = "file"
      BY DEF File, Inode
    <3> QED
      BY <1>1, <2>1, <3>1 DEF IallocTake, InodeTypes, Place, InUse
  <2>2. CASE Iupdate(p)
    <3>1. Loaded(ip[p]) /\ dinode' = [dinode EXCEPT ![inum[ip[p]]] = mem[ip[p]]]
      BY <1>1, <2>2 DEF Iupdate, Place, WritePc
    <3> QED
      BY <1>1, <3>1 DEF InodeTypes, InUse, Loaded, Named
  <2> QED
    BY <1>1, <2>1, <2>2, Stores DEF InodeTypes, InUse
<1>4. mem' \in [Islot -> Inode] /\ \A s \in Islot : mem[s].type = "file" => mem'[s].type = "file"
  <2>1. CASE IlockLoad(p)
    <3>1. InUse(inum[ip[p]]) /\ mem' = [mem EXCEPT ![ip[p]] = dinode[inum[ip[p]]]]
      BY <1>1, <2>1 DEF IlockLoad, Place, Named, InodeInv
    <3> QED
      BY <1>1, <3>1 DEF InodeTypes, InUse
  <2>2. CASE Grow(p)
    <3>1. ip[p] \in Islot /\ f[p] \in Files
      BY <1>1, <2>2 DEF Grow, Place, WritePc, WithFile, Loaded, Named
    <3>2. mem[ip[p]] \in Inode /\ off[f[p]] \in Nat
      BY <1>1, <3>1 DEF InodeTypes
    <3>3. [mem[ip[p]] EXCEPT !.size = off[f[p]] + 1] =
            [type |-> mem[ip[p]].type, size |-> off[f[p]] + 1]
      BY <3>2 DEF Inode
    <3>4. mem' = [mem EXCEPT ![ip[p]] = [type |-> mem[ip[p]].type, size |-> off[f[p]] + 1]]
      BY <2>2, <3>3, Zenon DEF Grow
    <3> QED
      BY <1>1, <3>1, <3>2, <3>4 DEF InodeTypes, Inode
  <2> QED
    BY <1>1, <2>1, <2>2, Stores DEF InodeTypes
<1> QED
  BY <1>1, <1>2, <1>3, <1>4 DEF Named, Loaded

\* Where a process gets to it has the inode or slot it needs.
LEMMA PlaceStep ==
  ASSUME SlotInv, FileInv, InodeInv, NEW p \in Slot, Step(p)
  PROVE  Place(p)'
<1>1. SlotTypes /\ FileTypes /\ InodeTypes /\ Place(p) /\ Seen(p) /\ Tells(p) /\ Arrives(p)
  BY Arrivals DEF SlotInv, FileInv, InodeInv
<1>2. /\ \A i \in Inum : InUse(i) => InUse(i)'
      /\ \A s \in Islot : (Named(s) => Named(s)') /\ (Loaded(s) => Loaded(s)')
      /\ \A s \in Islot : valid[s] => Loaded(s)
      /\ \A s : Loaded(s) => Named(s) /\ s \in Islot
  BY Lasting DEF InodeInv, Loaded, Named
<1>3. pc'[p] = "ialloc_test" => want'[p] \in 1 .. NINODES
  BY <1>1, CallsAssumption DEF Arrives, Place, CallsAssumption
<1>4. pc'[p] = "ialloc_take" => want'[p] \in Inum /\ dinode'[want'[p]].type = "free"
  <2>1. pc'[p] = "ialloc_take" => dinode' = dinode
    BY <1>1, Stores DEF Arrives, IallocTake, Iupdate
  <2> QED
    BY <1>1, <2>1, CallsAssumption DEF Arrives, Place, Inum, CallsAssumption
<1>5. InIget(p)' => InUse(want[p])'
  <2>1. CASE pc'[p] = "iget_scan"
    <3>1. CASE IallocTake(p) /\ want'[p] = want[p]
      BY <1>1, <3>1 DEF IallocTake, Place, InUse, InodeTypes, File
    <3>2. CASE pc[p] = "iget_scan" /\ want'[p] = want[p]
      BY <1>1, <1>2, <3>2 DEF Place, InIget, InUse
    <3>3. CASE InUse(want'[p]) /\ dinode' = dinode
      BY <3>3 DEF InUse
    <3> QED
      BY <1>1, <2>1, <3>1, <3>2, <3>3 DEF Arrives
  <2>2. CASE pc'[p] \in {"iget_hit", "iget_take"}
    BY <1>1, <1>2, <2>2 DEF Arrives, Place, InIget, InUse
  <2> QED
    BY <2>1, <2>2 DEF InIget
<1>6. pc'[p] \in {"ilock_test", "ilock_load"} => Named(ip[p])'
  <2>1. CASE IgetHit(p) /\ ip'[p] = ip[p]
    <3>1. ip[p] \in Islot /\ inum[ip[p]] = want[p] /\ want[p] \in Inum
      BY <1>1, <2>1 DEF IgetHit, Seen, Place, InIget, InUse
    <3>2. Named(ip[p])
      BY <3>1 DEF Named, Inum
    <3> QED
      BY <1>2, <2>1, <3>1, <3>2 DEF Named
  <2>2. CASE IgetTake(p) /\ ip'[p] = empty[p]
    <3>1. empty[p] \in Islot /\ want[p] \in Inum /\ inum' = [inum EXCEPT ![empty[p]] = want[p]]
      BY <1>1, <2>2 DEF IgetTake, Seen, SlotTypes, Place, InIget, InUse
    <3> QED
      BY <1>1, <2>2, <3>1 DEF Named, InodeTypes, Inum
  <2>3. CASE pc[p] = "ilock_test" /\ Same(p)
    BY <1>1, <1>2, <2>3 DEF Place, Same, Named
  <2> QED
    BY <1>1, <2>1, <2>2, <2>3 DEF Arrives
<1>7. pc'[p] \in {"ilock_valid"} \cup LockedPc \cup WritePc => Loaded(ip[p])'
  <2>1. CASE pc'[p] = "ilock_valid"
    <3>1. IlockLoad(p) /\ ip'[p] = ip[p] /\ Named(ip[p])
      BY <1>1, <2>1 DEF Arrives, Same, IlockLoad, Place
    <3>2. InUse(inum[ip[p]])
      BY <3>1 DEF InodeInv, Named
    <3> QED
      BY <1>1, <1>2, <3>1, <3>2 DEF IlockLoad, InodeTypes, Loaded, Named, InUse
  <2>2. CASE pc'[p] = "filealloc_test"
    <3>1. Loaded(ip'[p])
      <4>1. CASE pc[p] = "filealloc_test" \/ IlockValid(p)
        BY <1>1, <2>2, <4>1 DEF Arrives, Place, LockedPc, IlockValid
      <4>2. CASE pc[p] = "ilock_test" /\ valid[ip[p]]
        <5>1. ip[p] \in Islot
          BY <1>1, <4>2 DEF Place, Named
        <5> QED
          BY <1>1, <1>2, <2>2, <4>2, <5>1 DEF Arrives
      <4> QED
        BY <1>1, <2>2, <4>1, <4>2 DEF Arrives
    <3> QED
      BY <1>2, <3>1 DEF Loaded, Named
  <2>3. CASE pc'[p] \in {"filealloc_take", "open_fd", "open_init"}
    <3>1. Loaded(ip[p]) /\ ip'[p] = ip[p]
      BY <1>1, <2>3 DEF Arrives, Same, Place, LockedPc, OpenFd, FileallocTake
    <3> QED
      BY <1>2, <3>1 DEF Loaded, Named
  <2>4. CASE pc'[p] = "balloc_load"
    <3>1. f'[p] \in Files /\ ip'[p] = fip[f'[p]] /\ ip'[p] # Null
      BY <1>1, <2>4 DEF Arrives, FileTypes
    <3>2. Loaded(ip'[p])
      BY <3>1 DEF InodeInv
    <3> QED
      BY <1>2, <3>2 DEF Loaded, Named
  <2>5. CASE pc'[p] \in WritePc \ {"balloc_load"}
    <3>1. Loaded(ip[p]) /\ ip'[p] = ip[p]
      BY <1>1, <2>5 DEF Arrives, Same, Place, WritePc, Grow
    <3> QED
      BY <1>2, <3>1 DEF Loaded, Named
  <2> QED
    BY <2>1, <2>2, <2>3, <2>4, <2>5 DEF LockedPc
<1>8. pc'[p] \in WithFile => f'[p] \in Files
  <2>1. CASE pc'[p] = "filealloc_take"
    BY <1>1, <2>1, CallsAssumption DEF Arrives, Same, FileTypes, Files, CallsAssumption
  <2>2. CASE pc'[p] \in {"close_dec", "balloc_load"}
    BY <1>1, <2>2 DEF Arrives, Same, FileTypes, OpenFd, Place, WithFile
  <2> QED
    BY <1>1, <2>1, <2>2
       DEF Arrives, Same, Place, WithFile, WritePc, OpenFd, FileallocTake, CloseDec, Grow
<1> QED
  BY <1>3, <1>4, <1>5, <1>6, <1>7, <1>8 DEF Place

\* No pointer or number leaves its range.
LEMMA InodeTypesStep ==
  ASSUME SlotInv, FileInv, InodeInv, NEW p \in Slot, Step(p)
  PROVE  InodeTypes'
<1>1. /\ SlotTypes /\ FileTypes /\ InodeTypes /\ Place(p) /\ Seen(p)
      /\ \A s : Loaded(s) => s \in Islot
  BY DEF SlotInv, FileInv, InodeInv, Loaded, Named
<1>2. /\ inum' \in [Islot -> 0 .. NINODES - 1] /\ mem' \in [Islot -> Inode]
      /\ dinode' \in [Inum -> Inode]
  BY Lasting
<1>3. /\ 0 \in 0 .. NINODES /\ 1 \in 0 .. NINODES /\ 0 \in 0 .. NINODE
      /\ \A i \in 0 .. NINODES : i < NINODES => i + 1 \in 0 .. NINODES
      /\ \A s \in 0 .. NINODE : s < NINODE => s + 1 \in 0 .. NINODE
      /\ Inum \subseteq 0 .. NINODES /\ Islot \subseteq 0 .. NINODE /\ Null \notin Islot
  BY CallsAssumption DEF CallsAssumption, Inum, Islot, Null
<1>4. want' \in [Slot -> 0 .. NINODES]
  <2>1. CASE Create(p) \/ IallocTest(p) \/ (\E i \in Inum : Open(p, i))
    BY <1>1, <1>3, <2>1 DEF InodeTypes, Create, IallocTest, Open
  <2> QED
    BY <1>1, <1>3, <2>1, StoresLocals DEF InodeTypes
<1>5. ip' \in [Slot -> 0 .. NINODE]
  <2>1. CASE IgetScan(p)
    <3>1. ip[p] \in 0 .. NINODE
      BY <1>1 DEF InodeTypes
    <3> QED
      BY <1>1, <1>3, <2>1, <3>1 DEF InodeTypes, IgetScan
  <2>2. CASE IgetHit(p) \/ IgetTake(p)
    BY <1>1, <1>3, <2>2 DEF InodeTypes, IgetHit, IgetTake, IgetReturn, SlotTypes, Seen
  <2>3. CASE CloseClear(p)
    BY <1>1, <1>3, <2>3 DEF InodeTypes, CloseClear, Place, WithFile
  <2>4. CASE \E d \in Fds : Write(p, d)
    <3>1. PICK d \in Fds : Write(p, d)
      BY <2>4
    <3>2. ofile[p][d] \in Files
      BY <1>1, <3>1 DEF Write, FileTypes
    <3>3. \/ ip' = ip
          \/ ip' = [ip EXCEPT ![p] = fip[ofile[p][d]]] /\ fip[ofile[p][d]] # Null
      BY <3>1 DEF Write
    <3> QED
      BY <1>1, <1>3, <3>2, <3>3 DEF InodeTypes
  <2> QED
    BY <1>1, <1>3, <2>1, <2>2, <2>3, <2>4, StoresLocals DEF InodeTypes
<1>6. fip' \in [Files -> Islot \cup {Null}]
  <2>1. CASE OpenInit(p)
    BY <1>1, <2>1 DEF InodeTypes, OpenInit, Place, LockedPc
  <2>2. CASE CloseClear(p)
    BY <1>1, <2>2 DEF InodeTypes, CloseClear
  <2> QED
    BY <1>1, <2>1, <2>2, Stores DEF InodeTypes
<1>7. off' \in [Files -> Nat]
  BY <1>1, Stores DEF InodeTypes, OpenInit, CloseClear, Write, GrowTest, Iupdate
<1>8. valid' \in [Islot -> BOOLEAN]
  BY <1>1, Stores DEF InodeTypes, IgetTake, IlockValid, IputDrop, IputClear
<1>9. made' \in [Inum -> Nat]
  BY <1>1, Stores DEF InodeTypes, IallocTake
<1> QED
  BY <1>2, <1>4, <1>5, <1>6, <1>7, <1>8, <1>9 DEF InodeTypes

\* What is in use stays so for the others too, and ialloc gives out only what is free.
LEMMA InodeStep ==
  ASSUME SlotInv, FileInv, InodeInv, Next
  PROVE  InodeInv'
<1>1. PICK p \in Slot : Step(p)
  BY DEF Next
<1>2. /\ SlotTypes /\ FileTypes /\ InodeTypes /\ InodeTypes' /\ Place(p) /\ Place(p)'
      /\ Seen(p)
  BY <1>1, PlaceStep, InodeTypesStep DEF SlotInv, FileInv, InodeInv
<1>3. /\ \A i \in Inum : InUse(i) => InUse(i)'
      /\ \A s \in Islot : (Named(s) => Named(s)') /\ (Loaded(s) => Loaded(s)')
      /\ \A s : Named(s) \/ Loaded(s) => s \in Islot
  BY <1>1, Lasting DEF Loaded, Named
<1>4. ASSUME NEW q \in Slot, q # p
      PROVE  Place(q)'
  <2>1. /\ Place(q) /\ pc'[q] = pc[q] /\ want'[q] = want[q] /\ ip'[q] = ip[q] /\ f'[q] = f[q]
    BY <1>1, <1>2, <1>4, OthersHere DEF InodeInv
  <2>2. pc[q] = "ialloc_take" => dinode'[want[q]].type = "free"
    <3>1. CASE IallocTake(p)
      BY <1>2, <1>4, <2>1, <3>1, NoConflict DEF IallocTake, Conflict, Place, InodeTypes
    <3>2. CASE Iupdate(p)
      <4>1. InUse(inum[ip[p]]) /\ dinode' = [dinode EXCEPT ![inum[ip[p]]] = mem[ip[p]]]
        <5>1. Named(ip[p]) /\ ip[p] \in Islot
          BY <1>2, <3>2 DEF Iupdate, Place, WritePc, Loaded, Named
        <5> QED
          BY <3>2, <5>1 DEF Iupdate, InodeInv
      <4> QED
        BY <1>2, <2>1, <4>1 DEF InUse, Place, InodeTypes
    <3> QED
      BY <1>1, <2>1, <3>1, <3>2, Stores DEF Place
  <2>3. InIget(q) => InUse(want[q]) /\ InUse(want[q])'
    BY <1>3, <2>1 DEF Place, InUse
  <2> QED
    BY <1>3, <2>1, <2>2, <2>3 DEF Place, InIget, InUse, Named, Loaded
<1>5. \A s \in Islot : (Named(s) => InUse(inum[s]))' /\ (valid[s] => Loaded(s))'
  <2>1. CASE IgetTake(p)
    <3>1. empty[p] \in Islot /\ InUse(want[p])
      BY <1>2, <2>1 DEF IgetTake, Seen, SlotTypes, Place, InIget
    <3>2. PICK i \in Inum : i = want[p] /\ InUse(i)'
      BY <1>3, <3>1 DEF InUse
    <3>3. /\ inum' = [inum EXCEPT ![empty[p]] = i]
          /\ valid' = [valid EXCEPT ![empty[p]] = FALSE] /\ mem' = mem
      BY <2>1, <3>2 DEF IgetTake
    <3> QED
      BY <1>2, <1>3, <3>1, <3>2, <3>3 DEF InodeInv, InodeTypes, Named, Loaded, InUse
  <2>2. CASE IlockValid(p)
    BY <1>1, <1>2, <1>3, <2>2, Stores DEF IlockValid, InodeInv, InodeTypes, Place, Named, InUse
  <2>3. CASE IputDrop(p) \/ IputClear(p) \/ (valid' = valid /\ ~IgetTake(p))
    <3>1. inum' = inum /\ \A s \in Islot : valid'[s] => valid[s]
      BY <1>1, <1>2, <2>3, Stores DEF IputDrop, IputClear, IgetTake, InodeTypes
    <3> QED
      BY <1>3, <3>1 DEF InodeInv, Named, InUse
  <2> QED
    BY <1>1, <2>1, <2>2, <2>3, Stores
<1>6. \A g \in Files : (fip[g] # Null => Loaded(fip[g]))'
  <2>1. \A g \in Files : fip'[g] # Null => Loaded(fip'[g])
    <3>1. CASE OpenInit(p)
      BY <1>2, <3>1 DEF OpenInit, Place, LockedPc, InodeInv, InodeTypes
    <3>2. CASE CloseClear(p)
      BY <1>2, <3>2 DEF CloseClear, InodeInv, InodeTypes
    <3> QED
      BY <1>1, <3>1, <3>2, Stores DEF InodeInv
  <2> QED
    BY <1>3, <2>1 DEF Loaded, Named
<1>7. \A i \in Inum : (made[i] <= 1 /\ (made[i] # 0 => InUse(i)))'
  <2>1. CASE IallocTake(p)
    <3>1. PICK i \in Inum : i = want[p] /\ dinode[i].type = "free"
      BY <1>2, <2>1 DEF IallocTake, Place
    <3>2. made[i] = 0
      BY <3>1 DEF InodeInv, InUse
    <3>3. made' = [made EXCEPT ![i] = 1] /\ dinode'[i] = File
      BY <1>2, <2>1, <3>1, <3>2 DEF IallocTake, InodeTypes
    <3>4. InUse(i)'
      BY <3>3 DEF InUse, File
    <3> QED
      BY <1>2, <1>3, <3>1, <3>3, <3>4 DEF InodeInv, InodeTypes, InUse
  <2> QED
    BY <1>1, <1>3, <2>1, Stores DEF InodeInv
<1> QED
  BY <1>2, <1>4, <1>5, <1>6, <1>7 DEF InodeInv

LEMMA InodeInit == Init => InodeInv
<1> SUFFICES ASSUME Init PROVE InodeInv
  OBVIOUS
<1>1. /\ 0 \in 0 .. NINODES /\ 0 \in 0 .. NINODE /\ 0 \in 0 .. NINODES - 1
      /\ Free \in Inode /\ File \in Inode
  BY CallsAssumption DEF CallsAssumption, Free, File, Inode
<1>2. InodeTypes
  BY <1>1 DEF Init, InodeTypes
<1>3. \A p \in Slot : Place(p)
  BY DEF Init, Place, InIget, LockedPc, WritePc, WithFile
<1> QED
  BY <1>2, <1>3 DEF Init, InodeInv, Named, Loaded

\* Everything said of the tables so far, together.
TablesInv == BlockInv /\ SlotInv /\ FileInv /\ InodeInv

LEMMA TablesInvariance == Spec => []TablesInv
<1>1. Init => TablesInv
  BY BlockInit, SlotInit, FileInit, InodeInit DEF TablesInv
<1>2. TablesInv /\ [Next]_vars => TablesInv'
  <2>1. ASSUME TablesInv, UNCHANGED vars
        PROVE  TablesInv'
    <3>1. InodeInv'
      BY <2>1 DEF TablesInv, InodeInv, InodeTypes, Place, InIget, InUse, Named, Loaded, vars,
                  procs, ftable, icache, disk, locals, past
    <3> QED
      BY <2>1, <3>1, BlockStutter, SlotStutter, FileStutter DEF TablesInv
  <2> QED
    BY <2>1, BlockStep, SlotStep, FileStep, InodeStep DEF TablesInv
<1> QED
  BY <1>1, <1>2, PTL DEF Spec

\* ialloc hands out an inode once, however many processes create files and whatever
\* iupdate writes back: fs.c's promise, up to the first conflict.
THEOREM InodesOnceAlways == Spec => []InodesOnce
<1>1. TablesInv => InodesOnce
  BY DEF TablesInv, InodeInv, InodesOnce
<1> QED
  BY <1>1, TablesInvariance, PTL

-----------------------------------------------------------------------------
(* References                                                              *)

\* File g is taken, and has no inode yet.
Blank(p, g) ==
  /\ f[p] = g
  /\ \/ pc[p] = "open_init" \/ HasFile(p, g)
     \/ pc[p] = "close_clear" /\ fd[p] = Null

FilesOf(s) == {g \in Files : fip[g] = s}
HoldersOf(s) == {p \in Slot : HasInode(p, s)}

UsedFiles ==
  /\ \A g \in Files : fref[g] = 1 =>
       \/ \E p \in Slot, d \in Fds : Counts(p, d) /\ ofile[p][d] = g
       \/ \E p \in Slot : HasFile(p, g)
  /\ \A g \in Files : fref[g] = 0 /\ fip[g] # Null =>
       \E p \in Slot : pc[p] = "close_clear" /\ f[p] = g
  /\ \A p \in Slot, g \in Files : Blank(p, g) => fip[g] = Null
  /\ \A p \in Slot, d \in Fds : Counts(p, d) =>
       fip[ofile[p][d]] # Null \/ (pc[p] = "open_init" /\ fd[p] = d)
  /\ \A p \in Slot :
       /\ pc[p] = "open_init" => fd[p] # Null /\ ofile[p][fd[p]] = f[p]
       /\ pc[p] = "close_clear" => fref[f[p]] = 0
       /\ pc[p] \in WritePc =>
            fip[f[p]] = ip[p] /\ \E d \in Fds : ofile[p][d] = f[p]

Validity ==
  /\ \A g \in Files : fip[g] # Null => valid[fip[g]]
  /\ \A p \in Slot :
       /\ pc[p] \in LockedPc => valid[ip[p]]
       /\ pc[p] \in {"ilock_load", "ilock_valid"} => ~valid[ip[p]]
       /\ pc[p] \in IputPc \cup {"iput_clear"} \/ (pc[p] \in ClosePc /\ fd[p] = Null) =>
            ip[p] \in Islot

Balance == \A s \in Islot : ref[s] = Cardinality(FilesOf(s)) + Cardinality(HoldersOf(s))

\* Where a process is says what it does next.
LEMMA Departs ==
  ASSUME NEW p \in Slot, Step(p)
  PROVE  /\ pc[p] = "ialloc_take" => IallocTake(p)
         /\ pc[p] = "iget_hit" => IgetHit(p)
         /\ pc[p] = "iget_take" => IgetTake(p)
         /\ pc[p] = "ilock_test" => IlockTest(p)
         /\ pc[p] = "ilock_load" => IlockLoad(p)
         /\ pc[p] = "ilock_valid" => IlockValid(p)
         /\ pc[p] = "filealloc_test" => FileallocTest(p)
         /\ pc[p] = "filealloc_take" => FileallocTake(p)
         /\ pc[p] = "open_fd" => OpenFd(p)
         /\ pc[p] = "open_init" => OpenInit(p)
         /\ pc[p] = "close_dec" => CloseDec(p)
         /\ pc[p] = "close_clear" => CloseClear(p)
         /\ pc[p] = "close_fd" => CloseFd(p)
         /\ pc[p] = "iput_test" => IputTest(p)
         /\ pc[p] = "iput_drop" => IputDrop(p)
         /\ pc[p] = "iput_dec" => IputDec(p)
         /\ pc[p] = "grow" => Grow(p)
         /\ pc[p] = "iupdate" => Iupdate(p)
  BY Zenon DEF Step, InUser, Create, IallocTest, IallocTake, Open, IgetScan, IgetHit, IgetTake,
         IlockTest, IlockLoad, IlockValid, FileallocTest, FileallocTake, OpenFd, OpenInit, Close,
         CloseDec, CloseClear, CloseFd,
         IputTest, IputDrop, IputDec, IputClear, Write, BallocLoad, BallocSet, GrowTest, Grow,
         Iupdate, Fork, Wait, Exit

\* Which descriptors begin to count for a file, and which cease to.
LEMMA CountsStep ==
  ASSUME SlotInv, FileInv, NEW p \in Slot, Step(p)
  PROVE  /\ \A q \in Slot, d \in Fds : Counts(q, d)' =>
              \/ Counts(q, d) /\ ofile'[q][d] = ofile[q][d]
              \/ q = p /\ OpenFd(p) /\ d = fd'[p] /\ pc'[p] = "open_init" /\ ofile'[p][d] = f[p]
         /\ \A q \in Slot, d \in Fds : Counts(q, d) =>
              \/ Counts(q, d)' /\ ofile'[q][d] = ofile[q][d]
              \/ q = p /\ CloseDec(p) /\ d = fd[p] /\ ofile[q][d] = f[p]
         /\ OthersKeep(p)
<1>1. FileTypes /\ Tells(p)
  BY DEF FileInv
<1>2. OthersKeep(p)
  BY <1>1, OthersHere DEF SlotInv, OthersKeep
<1>3. CASE FileallocTake(p)
  <2>1. pc[p] = "filealloc_take" /\ pc'[p] = "open_fd" /\ fd' = fd /\ ofile' = ofile
    BY <1>1, <1>3 DEF FileallocTake, FileTypes, Goto, procs, locals
  <2> QED
    BY <1>2, <2>1 DEF Counts, Closing, IputPc, OthersKeep
<1>4. CASE OpenFd(p)
  <2> DEFINE free == {d \in Fds : ofile[p][d] = Null}
             e == Min(free)
  <2>1. pc[p] = "open_fd" /\ fd[p] = Null /\ Null \notin Fds
    BY <1>1, <1>4 DEF OpenFd, Tells, NoFd, Null, Fds
  <2>2. CASE free = {}
    <3>1. pc'[p] = "close_dec" /\ fd' = fd /\ ofile' = ofile
      BY <1>1, <1>4, <2>2 DEF OpenFd, FileTypes, Goto
    <3> QED
      BY <1>2, <2>1, <3>1 DEF Counts, Closing, IputPc, OthersKeep
  <2>3. CASE free # {}
    <3>1. e \in Fds /\ ofile[p][e] = Null
      <4>1. free \in SUBSET Nat
        BY DEF Fds
      <4> QED
        BY <2>3, <4>1, MinOf
    <3>2. pc'[p] = "open_init" /\ fd'[p] = e /\ ofile' = [ofile EXCEPT ![p][e] = f[p]]
      BY <1>1, <1>4, <2>3 DEF OpenFd, FileTypes, Goto
    <3> HIDE DEF e
    <3>3. \A q \in Slot, d \in Fds :
            ofile'[q][d] = IF q = p /\ d = e THEN f[p] ELSE ofile[q][d]
      BY <1>1, <3>1, <3>2 DEF FileTypes
    <3> QED
      BY <1>2, <1>4, <2>1, <3>1, <3>2, <3>3 DEF Counts, Closing, IputPc, OthersKeep
  <2> QED
    BY <2>2, <2>3
<1>5. CASE CloseDec(p)
  <2>1. /\ pc[p] = "close_dec" /\ UNCHANGED <<ofile, fd>>
        /\ pc'[p] \in {"panic", "close_clear", "iput_test", "close_fd"}
    BY <1>1, <1>5 DEF CloseDec, FileTypes, Goto, procs, locals
  <2>2. fd[p] # Null => ofile[p][fd[p]] = f[p]
    BY <1>1, <2>1 DEF Tells
  <2>3. fd[p] \in Fds \cup {Null} /\ Null \notin Fds
    BY <1>1 DEF FileTypes, Fds, Null
  <2> QED
    BY <1>2, <1>5, <2>1, <2>2, <2>3 DEF Counts, Closing, IputPc, OthersKeep
<1>6. CASE CloseFd(p)
  <2>1. /\ pc[p] = "close_fd" /\ pc'[p] = "user" /\ fd'[p] = Null
        /\ ofile' = [ofile EXCEPT ![p][fd[p]] = Null]
    BY <1>1, <1>6 DEF CloseFd, Return, Goto, FileTypes
  <2>2. \A q \in Slot, d \in Fds :
          ofile'[q][d] = IF q = p /\ d = fd[p] THEN Null ELSE ofile[q][d]
    BY <1>1, <2>1 DEF FileTypes
  <2> QED
    BY <1>2, <2>1, <2>2 DEF Counts, Closing, IputPc, OthersKeep, Fds, Null
<1>7. CASE ~FileallocTake(p) /\ ~OpenFd(p) /\ ~CloseDec(p) /\ ~CloseFd(p)
  BY <1>1, <1>2, <1>7, FileElsewhere DEF Counts, Closing, OthersKeep
<1> QED
  BY <1>2, <1>3, <1>4, <1>5, <1>6, <1>7

\* A file stands for one thing only.
LEMMA OneOwner ==
  ASSUME FileInv, UsedFiles, NEW p \in Slot
  PROVE  /\ pc[p] = "open_init" =>
              f[p] \in Files /\ fref[f[p]] = 1 /\ fd[p] \in Fds /\ Counts(p, fd[p])
         /\ \A q \in Slot, g \in Files :
              q # p /\ pc[p] = "open_init" /\ f[p] = g =>
                ~Blank(q, g) /\ (pc[q] \in WritePc => f[q] # g)
         /\ pc[p] \in WritePc => fref[f[p]] = 1
<1>1. /\ FileTypes /\ Tells(p) /\ Owned
      /\ \A q \in Slot : Tells(q) /\ (pc[q] = "close_clear" => fref[f[q]] = 0)
  BY DEF FileInv, UsedFiles
<1>2. \A q, r \in Slot : \A d, e \in Fds :
        Counts(q, d) /\ Counts(r, e) /\ ofile[q][d] = ofile[r][e] => q = r /\ d = e
  BY DEF FileInv, FilesPrivate, Counts
<1>3. ASSUME pc[p] = "open_init"
      PROVE  /\ f[p] \in Files /\ fref[f[p]] = 1 /\ fd[p] \in Fds /\ Counts(p, fd[p])
             /\ ofile[p][fd[p]] = f[p]
  <2>1. fd[p] \in Fds /\ ofile[p][fd[p]] = f[p]
    BY <1>1, <1>3 DEF UsedFiles, FileTypes
  <2>2. f[p] # Null
    BY <1>1 DEF FileTypes, Null
  <2>3. Counts(p, fd[p]) /\ f[p] \in Files
    BY <1>1, <1>3, <2>1, <2>2 DEF Counts, Closing, IputPc, FileTypes
  <2> QED
    BY <1>1, <2>1, <2>3 DEF Owned
<1>4. ASSUME NEW q \in Slot, pc[q] \in WritePc
      PROVE  \E d \in Fds : Counts(q, d) /\ ofile[q][d] = f[q] /\ fref[f[q]] = 1
  <2>1. PICK d \in Fds : ofile[q][d] = f[q]
    BY <1>4 DEF UsedFiles
  <2>2. f[q] # Null
    BY <1>1 DEF FileTypes, Null
  <2>3. Counts(q, d)
    BY <1>4, <2>1, <2>2 DEF Counts, Closing, IputPc, WritePc
  <2> QED
    BY <1>1, <2>1, <2>3 DEF Owned
<1>5. ASSUME NEW q \in Slot, NEW g \in Files, q # p, pc[p] = "open_init", f[p] = g
      PROVE  ~Blank(q, g) /\ (pc[q] \in WritePc => f[q] # g)
  <2>1. ~HasFile(q, g)
    BY <1>1, <1>3, <1>5 DEF Owned
  <2>2. pc[q] = "open_init" => f[q] # g
    <3>1. SUFFICES ASSUME pc[q] = "open_init", f[q] = g PROVE FALSE
      OBVIOUS
    <3>2. fd[q] \in Fds /\ ofile[q][fd[q]] = g
      BY <1>1, <3>1 DEF UsedFiles, FileTypes
    <3>3. Counts(q, fd[q])
      BY <1>3, <1>5, <3>1, <3>2 DEF Counts, Closing, IputPc, Files, Null
    <3> QED
      BY <1>2, <1>3, <1>5, <3>2, <3>3
  <2>3. pc[q] = "close_clear" => f[q] # g
    BY <1>1, <1>3, <1>5
  <2>4. pc[q] \in WritePc => f[q] # g
    BY <1>2, <1>3, <1>4, <1>5
  <2> QED
    BY <2>1, <2>2, <2>3, <2>4 DEF Blank
<1> QED
  BY <1>3, <1>4, <1>5

\* sys_open has a descriptor now, or gives the file back.
LEMMA OpenFdDoes ==
  ASSUME NEW p \in Slot, FileTypes, Tells(p), OpenFd(p)
  PROVE  /\ f' = f /\ pc[p] = "open_fd" /\ fref' = fref
         /\ \/ pc'[p] = "close_dec" /\ fd'[p] = Null /\ ofile' = ofile
            \/ pc'[p] = "open_init" /\ fd'[p] \in Fds /\ ofile'[p][fd'[p]] = f[p]
<1> DEFINE free == {d \in Fds : ofile[p][d] = Null}
<1>1. f' = f /\ pc[p] = "open_fd" /\ fd[p] = Null /\ fref' = fref
  BY DEF OpenFd, Tells, NoFd, ftable
<1>2. CASE free = {}
  BY <1>1, <1>2 DEF OpenFd, FileTypes, Goto
<1>3. CASE free # {}
  <2>1. free \in SUBSET Nat
    BY DEF Fds
  <2>2. PICK e \in Fds : e = Min(free)
    BY <1>3, <2>1, MinOf
  <2>3. pc'[p] = "open_init" /\ fd'[p] = e /\ ofile' = [ofile EXCEPT ![p][e] = f[p]]
    BY <1>3, <2>2 DEF OpenFd, FileTypes, Goto
  <2> QED
    BY <1>1, <2>3 DEF FileTypes
<1> QED
  BY <1>2, <1>3

\* A file in use has an owner, and only a blank one has no inode.
LEMMA UsedFilesStep ==
  ASSUME SlotInv, FileInv, InodeInv, UsedFiles, Next
  PROVE  UsedFiles'
<1>1. PICK p \in Slot : Step(p)
  BY DEF Next
<1>2. /\ SlotTypes /\ FileTypes /\ InodeTypes /\ FileTypes' /\ Tells(p) /\ Owned /\ Place(p)
      /\ Place(p)' /\ Arrives(p) /\ OthersKeep(p) /\ FileInv'
  BY <1>1, Arrivals, PlaceStep, CountsStep, FileStep DEF SlotInv, FileInv, InodeInv
<1>3. \A q \in Slot : q # p => ip'[q] = ip[q]
  BY <1>1, <1>2, OthersHere
\* What a step does to the files
<1>4. ASSUME NEW g \in Files
      PROVE  /\ fref'[g] = fref[g] \/ f[p] = g
             /\ \/ fip'[g] = fip[g]
                \/ f[p] = g /\ CloseClear(p) /\ fip'[g] = Null
                \/ f[p] = g /\ OpenInit(p) /\ fip'[g] = ip[p] /\ ip[p] # Null
  <2>1. fref'[g] = fref[g] \/ f[p] = g
    BY <1>1, <1>2, Stores DEF FileallocTake, CloseDec, FileTypes
  <2>2. OpenInit(p) => f[p] \in Files /\ ip[p] \in Islot /\ fip' = [fip EXCEPT ![f[p]] = ip[p]]
    BY <1>2 DEF OpenInit, Place, LockedPc, WithFile, Loaded, Named
  <2>3. CloseClear(p) => f[p] \in Files /\ fip' = [fip EXCEPT ![f[p]] = Null]
    BY <1>2 DEF CloseClear, Place, WithFile
  <2>4. Null \notin Islot
    BY DEF Null, Islot
  <2> QED
    BY <1>1, <1>2, <2>1, <2>2, <2>3, <2>4, Stores DEF InodeTypes
<1>5. ASSUME NEW g \in Files, fref'[g] = 1
      PROVE  \/ \E q \in Slot, d \in Fds : (Counts(q, d) /\ ofile[q][d] = g)'
             \/ \E q \in Slot : HasFile(q, g)'
  <2>1. CASE fref[g] = 1
    <3>1. ~(CloseDec(p) /\ f[p] = g)
      BY <1>2, <1>5, <2>1 DEF CloseDec, FileTypes
    <3>2. CASE \E q \in Slot, d \in Fds : Counts(q, d) /\ ofile[q][d] = g
      BY <1>1, <3>1, <3>2, CountsStep
    <3>3. CASE \E q \in Slot \ {p} : HasFile(q, g)
      BY <1>2, <3>3 DEF HasFile, OthersKeep
    <3>4. CASE HasFile(p, g)
      <4>1. OpenFd(p) /\ f[p] = g
        BY <1>1, <3>1, <3>4, Departs DEF HasFile
      <4>2. CASE pc'[p] = "close_dec"
        BY <1>2, <4>1, <4>2, OpenFdDoes DEF HasFile
      <4>3. CASE pc'[p] = "open_init"
        <5>1. fd'[p] \in Fds /\ ofile'[p][fd'[p]] = g
          BY <1>2, <4>1, <4>3, OpenFdDoes
        <5>2. PICK d \in Fds : d = fd'[p]
          BY <5>1
        <5>3. (Counts(p, d) /\ ofile[p][d] = g)'
          BY <4>3, <5>1, <5>2 DEF Counts, Closing, IputPc, Files, Null
        <5> QED
          BY <5>3
      <4> QED
        BY <1>2, <4>1, <4>2, <4>3, OpenFdDoes
    <3> QED
      BY <2>1, <3>2, <3>3, <3>4 DEF UsedFiles
  <2>2. CASE fref[g] # 1
    <3>1. FileallocTake(p) /\ f[p] = g
      BY <1>1, <1>2, <1>5, <2>2, Stores DEF FileallocTake, CloseDec, FileTypes
    <3>2. pc'[p] = "open_fd" /\ f'[p] = g /\ fd'[p] = Null
      BY <1>2, <3>1 DEF FileallocTake, Goto, FileTypes, locals, Tells, NoFd
    <3> QED
      BY <3>2 DEF HasFile
  <2> QED
    BY <2>1, <2>2
<1>6. ASSUME NEW g \in Files, fref'[g] = 0, fip'[g] # Null
      PROVE  \E q \in Slot : pc'[q] = "close_clear" /\ f'[q] = g
  <2>1. CASE fref[g] = 0 /\ fip[g] # Null
    <3>1. PICK q \in Slot : pc[q] = "close_clear" /\ f[q] = g
      BY <2>1 DEF UsedFiles
    <3>2. q # p
      BY <1>1, <1>2, <1>6, <3>1, Departs DEF CloseClear, InodeTypes
    <3> QED
      BY <1>2, <3>1, <3>2 DEF OthersKeep
  <2>2. CASE fref[g] # 0
    <3>1. CloseDec(p) /\ f[p] = g
      BY <1>1, <1>2, <1>6, <2>2, Stores DEF FileallocTake, CloseDec, FileTypes
    <3>2. pc'[p] = "close_clear" /\ f'[p] = g
      BY <1>2, <1>6, <2>2, <3>1 DEF CloseDec, Goto, FileTypes, locals
    <3> QED
      BY <3>2
  <2>3. CASE fref[g] = 0 /\ fip[g] = Null
    <3>1. OpenInit(p) /\ f[p] = g
      BY <1>4, <1>6, <2>3
    <3> QED
      BY <2>3, <3>1, OneOwner DEF OpenInit
  <2> QED
    BY <2>1, <2>2, <2>3
<1>7. ASSUME NEW q \in Slot, NEW g \in Files, Blank(q, g)'
      PROVE  fip'[g] = Null
  <2>1. CASE q # p
    <3>1. Blank(q, g)
      BY <1>2, <1>7, <2>1 DEF Blank, HasFile, OthersKeep
    <3>2. fip[g] = Null
      BY <3>1 DEF UsedFiles
    <3>3. ~(OpenInit(p) /\ f[p] = g)
      BY <2>1, <3>1, OneOwner DEF OpenInit
    <3> QED
      BY <1>4, <3>2, <3>3
  <2>2. CASE q = p
    <3>1. f'[p] = g /\ ~OpenInit(p)
      BY <1>2, <1>7, <2>2 DEF Blank, HasFile, OpenInit, Return, Goto, FileTypes
    <3>2. CASE FileallocTake(p)
      <4>1. f[p] = g /\ fref[g] = 0 /\ pc[p] = "filealloc_take" /\ fip' = fip
        BY <1>2, <3>1, <3>2 DEF FileallocTake, Tells, locals
      <4>2. \A r \in Slot : pc[r] = "close_clear" => f[r] # g
        BY <4>1, NoConflict DEF Conflict
      <4> QED
        BY <4>1, <4>2 DEF UsedFiles
    <3>3. CASE ~FileallocTake(p)
      <4>1. Blank(p, g)
        <5>1. CASE pc'[p] = "close_clear"
          BY <1>2, <1>7, <2>2, <3>1, <5>1 DEF Blank, HasFile, Arrives, Same, CloseDec
        <5>2. CASE pc'[p] \in {"close_dec", "open_init"} /\ OpenFd(p)
          <6>1. f[p] = g /\ pc[p] = "open_fd" /\ fd[p] = Null
            BY <1>2, <3>1, <5>2, OpenFdDoes DEF Tells, NoFd
          <6> QED
            BY <6>1 DEF Blank, HasFile
        <5>3. CASE pc'[p] = "close_dec" /\ ~OpenFd(p)
          <6>1. fd'[p] \in Fds
            BY <1>2, <5>3 DEF Arrives
          <6> QED
            BY <1>7, <2>2, <5>3, <6>1 DEF Blank, HasFile, Fds, Null
        <5> QED
          BY <1>2, <1>7, <2>2, <3>3, <5>1, <5>2, <5>3 DEF Blank, HasFile, Arrives
      <4>2. fip[g] = Null
        BY <4>1 DEF UsedFiles
      <4> QED
        BY <1>4, <3>1, <4>2
    <3> QED
      BY <3>2, <3>3
  <2> QED
    BY <2>1, <2>2
<1>8. ASSUME NEW q \in Slot, NEW d \in Fds, Counts(q, d)'
      PROVE  fip'[ofile'[q][d]] # Null \/ (pc'[q] = "open_init" /\ fd'[q] = d)
  <2>1. CASE q = p /\ OpenFd(p) /\ d = fd'[p] /\ pc'[p] = "open_init"
    BY <2>1
  <2>2. CASE Counts(q, d) /\ ofile'[q][d] = ofile[q][d]
    <3>1. PICK g \in Files : g = ofile[q][d]
      BY <1>2, <2>2 DEF Counts, FileTypes
    <3>2. fref[g] = 1
      BY <1>2, <2>2, <3>1 DEF Owned
    <3>3. ~(CloseClear(p) /\ f[p] = g)
      BY <3>2 DEF CloseClear, UsedFiles
    <3>4. CASE fip[g] # Null
      BY <1>4, <2>2, <3>1, <3>3, <3>4
    <3>5. CASE pc[q] = "open_init" /\ fd[q] = d /\ q # p
      BY <1>2, <3>5 DEF OthersKeep
    <3>6. CASE pc[q] = "open_init" /\ fd[q] = d /\ q = p
      <4>1. OpenInit(p) /\ f[p] = g
        BY <1>1, <3>1, <3>6, Departs DEF UsedFiles
      <4>2. fip' = [fip EXCEPT ![g] = ip[p]] /\ ip[p] # Null
        BY <1>2, <4>1 DEF OpenInit, Place, LockedPc, Loaded, Named, Null, Islot
      <4> QED
        BY <1>2, <2>2, <3>1, <4>2 DEF InodeTypes
    <3> QED
      BY <2>2, <3>1, <3>4, <3>5, <3>6 DEF UsedFiles
  <2> QED
    BY <1>1, <1>8, <2>1, <2>2, CountsStep
<1>9. ASSUME NEW q \in Slot
      PROVE  /\ pc'[q] = "open_init" => fd'[q] # Null /\ ofile'[q][fd'[q]] = f'[q]
             /\ pc'[q] = "close_clear" => fref'[f'[q]] = 0
             /\ pc'[q] \in WritePc =>
                  fip'[f'[q]] = ip'[q] /\ \E d \in Fds : ofile'[q][d] = f'[q]
  <2>1. CASE q # p
    <3>1. /\ pc'[q] = pc[q] /\ f'[q] = f[q] /\ fd'[q] = fd[q] /\ ip'[q] = ip[q]
          /\ ofile'[q] = ofile[q] /\ Place(q)
      BY <1>1, <1>2, <1>3, <2>1, Stores DEF OthersKeep, OpenFd, CloseFd, FileTypes, InodeInv
    <3>2. pc[q] = "close_clear" => fref'[f[q]] = 0
      <4>1. SUFFICES ASSUME pc[q] = "close_clear" PROVE fref'[f[q]] = 0
        OBVIOUS
      <4>2. f[q] \in Files /\ fref[f[q]] = 0
        BY <3>1, <4>1 DEF Place, WithFile, UsedFiles
      <4>3. ~(FileallocTake(p) /\ f[p] = f[q])
        BY <2>1, <4>1, NoConflict DEF FileallocTake, Conflict
      <4> QED
        BY <1>1, <1>2, <4>2, <4>3, Stores DEF FileallocTake, CloseDec, FileTypes
    <3>3. pc[q] \in WritePc => fip'[f[q]] = fip[f[q]]
      <4>1. SUFFICES ASSUME pc[q] \in WritePc PROVE fip'[f[q]] = fip[f[q]]
        OBVIOUS
      <4>2. f[q] \in Files /\ fref[f[q]] = 1
        BY <3>1, <4>1, OneOwner DEF Place, WithFile
      <4>3. ~(OpenInit(p) /\ f[p] = f[q])
        BY <2>1, <4>1, <4>2, OneOwner DEF OpenInit
      <4>4. ~(CloseClear(p) /\ f[p] = f[q])
        BY <4>2 DEF CloseClear, UsedFiles
      <4> QED
        BY <1>4, <4>2, <4>3, <4>4
    <3> QED
      BY <3>1, <3>2, <3>3 DEF UsedFiles
  <2>2. CASE q = p
    <3>1. pc'[p] = "open_init" => fd'[p] # Null /\ ofile'[p][fd'[p]] = f'[p]
      BY <1>2, OpenFdDoes DEF Arrives, Fds, Null
    <3>2. pc'[p] = "close_clear" => fref'[f'[p]] = 0
      BY <1>2 DEF Arrives, Same, CloseDec, FileTypes, Place, WithFile
    <3>3. pc'[p] \in WritePc =>
            fip'[f'[p]] = ip'[p] /\ \E d \in Fds : ofile'[p][d] = f'[p]
      <4>1. SUFFICES ASSUME pc'[p] \in WritePc
                     PROVE  fip'[f'[p]] = ip'[p] /\ \E d \in Fds : ofile'[p][d] = f'[p]
        OBVIOUS
      <4>2. ofile' = ofile /\ fip' = fip
        BY SMTT(30), <1>1, <1>2, <4>1, Stores, OpenFdDoes
           DEF CloseFd, OpenInit, CloseClear, Return, Goto, WritePc, FileTypes
      <4>3. CASE pc'[p] = "balloc_load"
        BY <1>2, <4>2, <4>3 DEF Arrives
      <4>4. CASE pc'[p] # "balloc_load"
        BY <1>2, <4>1, <4>2, <4>4 DEF Arrives, Same, WritePc, Grow, UsedFiles
      <4> QED
        BY <4>3, <4>4
    <3> QED
      BY <2>2, <3>1, <3>2, <3>3
  <2> QED
    BY <2>1, <2>2
<1> QED
  BY <1>5, <1>6, <1>7, <1>8, <1>9 DEF UsedFiles

\* A slot with no reference has nobody, and one with a single reference only its holder.
LEMMA Counting ==
  ASSUME InodeTypes, Balance, NEW s \in Islot
  PROVE  /\ IsFiniteSet(FilesOf(s)) /\ IsFiniteSet(HoldersOf(s)) /\ ref[s] \in Nat
         /\ ref[s] <= 0 => FilesOf(s) = {} /\ HoldersOf(s) = {}
         /\ \A p \in Slot : ref[s] = 1 /\ HasInode(p, s) =>
              FilesOf(s) = {} /\ \A q \in Slot \ {p} : ~HasInode(q, s)
<1>1. IsFiniteSet(FilesOf(s)) /\ IsFiniteSet(HoldersOf(s))
  <2>1. IsFiniteSet(Files) /\ IsFiniteSet(Slot)
    BY CallsAssumption, FS_Interval DEF CallsAssumption, Files, Slot
  <2> QED
    BY <2>1, FS_Subset DEF FilesOf, HoldersOf
<1>2. Cardinality(FilesOf(s)) \in Nat /\ Cardinality(HoldersOf(s)) \in Nat
  BY <1>1, FS_CardinalityType
<1>3. ref[s] = Cardinality(FilesOf(s)) + Cardinality(HoldersOf(s))
  BY DEF Balance
<1>4. ref[s] <= 0 => FilesOf(s) = {} /\ HoldersOf(s) = {}
  BY <1>1, <1>2, <1>3, FS_EmptySet
<1>5. ASSUME NEW p \in Slot, ref[s] = 1, HasInode(p, s)
      PROVE  FilesOf(s) = {} /\ \A q \in Slot \ {p} : ~HasInode(q, s)
  <2>1. p \in HoldersOf(s)
    BY <1>5 DEF HoldersOf
  <2>2. Cardinality(HoldersOf(s)) # 0
    BY <1>1, <2>1, FS_EmptySet
  <2>3. Cardinality(FilesOf(s)) = 0 /\ Cardinality(HoldersOf(s)) = 1
    BY <1>2, <1>3, <1>5, <2>2
  <2>4. PICK x : HoldersOf(s) = {x}
    BY <1>1, <2>3, FS_Singleton
  <2> QED
    BY <1>1, <2>1, <2>3, <2>4, FS_EmptySet DEF HoldersOf
<1> QED
  BY <1>1, <1>2, <1>3, <1>4, <1>5

\* fileclose finds the reference it is about to give back.
LEMMA CloseDecOne ==
  ASSUME FileInv, NEW p \in Slot, pc[p] = "close_dec"
  PROVE  fref[f[p]] = 1
<1>1. FileTypes /\ Tells(p) /\ Owned
  BY DEF FileInv
<1>2. CASE fd[p] = Null
  BY <1>1, <1>2 DEF Owned, HasFile, Tells
<1>3. CASE fd[p] # Null
  <2>1. fd[p] \in Fds /\ ofile[p][fd[p]] = f[p] /\ f[p] # Null
    BY <1>1, <1>3 DEF Tells, FileTypes, Files, Null
  <2>2. Counts(p, fd[p])
    BY <2>1 DEF Counts, Closing, IputPc
  <2> QED
    BY <1>1, <2>1, <2>2 DEF Owned
<1> QED
  BY <1>2, <1>3

\* p refers to slot ip[p].
Holds(p) == pc[p] \in OpenPc \cup IputPc \/ (pc[p] \in ClosePc /\ fd[p] = Null)

RefInv == UsedFiles /\ Validity /\ Balance

LEMMA HoldsSlot ==
  ASSUME InodeInv, Validity, NEW p \in Slot, Holds(p)
  PROVE  ip[p] \in Islot
  BY DEF InodeInv, Place, Holds, OpenPc, LockedPc, Loaded, Named, Validity

\* Most statements leave a process the slot it refers to.
LEMMA HoldersStay ==
  ASSUME SlotInv, FileInv, InodeInv, RefInv, NEW p \in Slot, Step(p),
         ~IgetHit(p), ~IgetTake(p), ~IputDec(p), ~OpenInit(p),
         CloseClear(p) => fip[f[p]] = Null
  PROVE  \A s \in Islot : HasInode(p, s)' <=> HasInode(p, s)
<1>1. /\ SlotTypes /\ FileTypes /\ InodeTypes /\ Place(p) /\ Tells(p) /\ Arrives(p)
  BY Arrivals DEF SlotInv, FileInv, InodeInv
<1>2. ASSUME Holds(p)'
      PROVE  Holds(p) /\ ip'[p] = ip[p]
  <2>1. ~(CloseDec(p) /\ fref[f[p]] \notin {0, 1})
    BY CloseDecOne DEF CloseDec
  <2>2. ~(pc'[p] = "close_dec" /\ ~OpenFd(p))
    BY <1>1, <1>2 DEF Holds, OpenPc, IputPc, Arrives, Fds, Null
  <2> QED
    BY <1>1, <1>2, <2>1, <2>2
       DEF Holds, OpenPc, IputPc, ClosePc, Arrives, Same, FileallocTake, OpenFd, CloseDec,
           CloseClear, IlockValid, IlockLoad, Tells, NoFd
<1>3. ASSUME Holds(p)
      PROVE  Holds(p)' /\ ip'[p] = ip[p]
  <2>1. ip[p] \in Islot /\ ref[ip[p]] > 0
    <3>1. ip[p] \in Islot
      BY <1>3, HoldsSlot DEF RefInv
    <3>2. p \in HoldersOf(ip[p])
      BY <1>3 DEF Holds, HoldersOf, HasInode
    <3> QED
      BY <1>1, <3>1, <3>2, Counting DEF RefInv
  <2>2. CASE pc[p] \in {"ilock_test", "ilock_load", "ilock_valid"}
    <3>1. ref[ip[p]] \in Int /\ (pc[p] = "ilock_valid" => mem[ip[p]].type = "file")
      BY <1>1, <2>1 DEF Place, Loaded, SlotTypes
    <3> QED
      BY <1>1, <2>1, <2>2, <3>1, Departs
         DEF IlockTest, IlockLoad, IlockValid, Goto, SlotTypes, locals, Holds, OpenPc
  <2>3. CASE pc[p] \in {"filealloc_test", "filealloc_take"}
    BY <1>1, <2>3, Departs
       DEF FileallocTest, FileallocTake, Goto, SlotTypes, locals, Holds, OpenPc, IputPc
  <2>4. CASE pc[p] = "open_fd"
    <3>1. OpenFd(p) /\ ip' = ip
      BY <2>4, Departs DEF OpenFd
    <3> QED
      BY <1>1, <3>1, OpenFdDoes DEF Holds, OpenPc, ClosePc
  <2>5. CASE pc[p] \in ClosePc
    <3>1. fd[p] = Null /\ (pc[p] = "close_dec" => fref[f[p]] = 1)
      BY <1>3, <2>5, CloseDecOne DEF Holds, OpenPc, IputPc, ClosePc
    <3> QED
      BY <1>1, <2>5, <3>1, Departs
         DEF CloseDec, CloseClear, Goto, SlotTypes, FileTypes, locals, Holds, ClosePc, IputPc
  <2>6. CASE pc[p] \in {"iput_test", "iput_drop"}
    BY <1>1, <2>6, Departs DEF IputTest, IputDrop, Goto, SlotTypes, locals, Holds, IputPc
  <2> QED
    BY <1>3, <2>2, <2>3, <2>4, <2>5, <2>6, Departs DEF Holds, OpenPc, IputPc
<1> QED
  BY <1>2, <1>3 DEF HasInode, Holds

\* Each change of ref goes with one of fip or of what a process is at.
LEMMA BalanceStep ==
  ASSUME SlotInv, FileInv, InodeInv, RefInv, Next
  PROVE  Balance'
<1>1. PICK p \in Slot : Step(p)
  BY DEF Next
<1>2. /\ SlotTypes /\ FileTypes /\ InodeTypes /\ Place(p) /\ Seen(p) /\ Tells(p)
      /\ UsedFiles /\ Validity /\ Balance
  BY DEF SlotInv, FileInv, InodeInv, RefInv
<1>3. \A q \in Slot, s \in Islot : q # p => (HasInode(q, s)' <=> HasInode(q, s))
  BY <1>1, <1>2, OthersHere DEF HasInode
<1>4. \A s \in Islot :
        HoldersOf(s)' = {q \in Slot : HasInode(q, s)'} /\ FilesOf(s)' = {g \in Files : fip'[g] = s}
  BY DEF HoldersOf, FilesOf
<1>5. \A s \in Islot : /\ IsFiniteSet(FilesOf(s)) /\ IsFiniteSet(HoldersOf(s)) /\ ref[s] \in Nat
                       /\ ref[s] = Cardinality(FilesOf(s)) + Cardinality(HoldersOf(s))
                       /\ Cardinality(FilesOf(s)) \in Nat /\ Cardinality(HoldersOf(s)) \in Nat
  BY <1>2, Counting, FS_CardinalityType DEF Balance
\* A reference comes, goes, or changes hands.
<1>6. ASSUME NEW s \in Islot, NEW z \in Islot, fip' = fip, ref' = [ref EXCEPT ![z] = ref[z] + 1],
             \A t \in Islot : ~HasInode(p, t) /\ (HasInode(p, t)' <=> t = z)
      PROVE  ref'[s] = Cardinality(FilesOf(s)') + Cardinality(HoldersOf(s)')
  <2>1. FilesOf(s)' = FilesOf(s)
    BY <1>6 DEF FilesOf
  <2>2. CASE s = z
    <3>1. HoldersOf(s)' = HoldersOf(s) \cup {p} /\ p \notin HoldersOf(s)
      BY <1>3, <1>4, <1>6, <2>2 DEF HoldersOf
    <3>2. Cardinality(HoldersOf(s)') = Cardinality(HoldersOf(s)) + 1
      BY <1>5, <3>1, FS_AddElement
    <3>3. ref'[s] = ref[s] + 1
      BY <1>2, <1>6, <2>2 DEF SlotTypes
    <3> QED
      BY <1>5, <2>1, <3>2, <3>3
  <2>3. CASE s # z
    <3>1. HoldersOf(s)' = HoldersOf(s)
      BY <1>3, <1>4, <1>6, <2>3 DEF HoldersOf
    <3> QED
      BY <1>2, <1>5, <1>6, <2>1, <2>3, <3>1 DEF SlotTypes
  <2> QED
    BY <2>2, <2>3
<1>7. ASSUME NEW s \in Islot, IputDec(p)
      PROVE  ref'[s] = Cardinality(FilesOf(s)') + Cardinality(HoldersOf(s)')
  <2>1. ip[p] \in Islot /\ ref' = [ref EXCEPT ![ip[p]] = @ - 1] /\ fip' = fip /\ pc[p] = "iput_dec"
    BY <1>2, <1>7 DEF IputDec, Validity, IputPc, ftable
  <2>2. \A t \in Islot : (HasInode(p, t) <=> t = ip[p]) /\ ~HasInode(p, t)'
    BY <1>2, <1>7, <2>1 
       DEF HasInode, OpenPc, IputPc, ClosePc, IputDec, IputReturn, Return, Goto, SlotTypes,
           FileTypes
  <2>3. FilesOf(s)' = FilesOf(s) /\ HoldersOf(s)' = HoldersOf(s) \ {p}
    BY <1>3, <1>4, <2>1, <2>2 DEF HoldersOf, FilesOf
  <2>4. p \in HoldersOf(s) <=> s = ip[p]
    BY <2>2 DEF HoldersOf
  <2>5. Cardinality(HoldersOf(s)') =
          IF s = ip[p] THEN Cardinality(HoldersOf(s)) - 1 ELSE Cardinality(HoldersOf(s))
    BY <1>5, <2>3, <2>4, FS_RemoveElement
  <2>6. ref'[s] = IF s = ip[p] THEN ref[s] - 1 ELSE ref[s]
    BY <1>2, <2>1 DEF SlotTypes
  <2> QED
    BY <1>5, <2>3, <2>5, <2>6
<1>8. ASSUME NEW s \in Islot, OpenInit(p)
      PROVE  ref'[s] = Cardinality(FilesOf(s)') + Cardinality(HoldersOf(s)')
  <2>1. /\ ip[p] \in Islot /\ f[p] \in Files /\ fip[f[p]] = Null /\ ref' = ref
        /\ fip' = [fip EXCEPT ![f[p]] = ip[p]] /\ pc[p] = "open_init" /\ pc'[p] = "user"
    BY <1>2, <1>8
       DEF OpenInit, Place, LockedPc, WithFile, Loaded, Named, UsedFiles, Blank, icache, Return,
           Goto, SlotTypes
  <2>2. \A t \in Islot : (HasInode(p, t) <=> t = ip[p]) /\ ~HasInode(p, t)'
    BY <2>1 DEF HasInode, OpenPc, IputPc, ClosePc
  <2>3. HoldersOf(s)' = HoldersOf(s) \ {p} /\ (p \in HoldersOf(s) <=> s = ip[p])
    BY <1>3, <1>4, <2>1, <2>2 DEF HoldersOf
  <2>4. FilesOf(s)' = IF s = ip[p] THEN FilesOf(s) \cup {f[p]} ELSE FilesOf(s)
    <3>1. \A g \in Files : fip'[g] = IF g = f[p] THEN ip[p] ELSE fip[g]
      BY <1>2, <2>1 DEF InodeTypes
    <3> QED
      BY <1>4, <2>1, <3>1 DEF FilesOf, Null, Islot
  <2>5. f[p] \notin FilesOf(s)
    BY <2>1 DEF FilesOf, Null, Islot
  <2>6. CASE s = ip[p]
    <3>1. Cardinality(HoldersOf(s)') = Cardinality(HoldersOf(s)) - 1
      BY <1>5, <2>3, <2>6, FS_RemoveElement
    <3>2. Cardinality(FilesOf(s)') = Cardinality(FilesOf(s)) + 1
      BY <1>5, <2>4, <2>5, <2>6, FS_AddElement
    <3> QED
      BY <1>5, <2>1, <3>1, <3>2
  <2>7. CASE s # ip[p]
    <3>1. HoldersOf(s)' = HoldersOf(s)
      BY <2>3, <2>7
    <3> QED
      BY <1>5, <2>1, <2>4, <2>7, <3>1
  <2> QED
    BY <2>6, <2>7
<1>9. ASSUME NEW s \in Islot, CloseClear(p), fip[f[p]] # Null
      PROVE  ref'[s] = Cardinality(FilesOf(s)') + Cardinality(HoldersOf(s)')
  <2>1. /\ f[p] \in Files /\ fip[f[p]] \in Islot /\ ref' = ref
        /\ fip' = [fip EXCEPT ![f[p]] = Null] /\ pc[p] = "close_clear" /\ pc'[p] = "iput_test"
        /\ ip'[p] = fip[f[p]]
    BY <1>2, <1>9 DEF CloseClear, Place, WithFile, InodeTypes, icache, Goto, SlotTypes
  <2>2. fd[p] # Null
    BY <1>2, <1>9, <2>1 DEF UsedFiles, Blank
  <2>3. \A t \in Islot : ~HasInode(p, t) /\ (HasInode(p, t)' <=> t = fip[f[p]])
    BY <2>1, <2>2 DEF HasInode, OpenPc, IputPc, ClosePc
  <2>4. FilesOf(s)' = FilesOf(s) \ {f[p]} /\ (f[p] \in FilesOf(s) <=> s = fip[f[p]])
    BY <1>2, <1>4, <2>1 DEF FilesOf, InodeTypes, Null, Islot
  <2>5. HoldersOf(s)' = IF s = fip[f[p]] THEN HoldersOf(s) \cup {p} ELSE HoldersOf(s)
    BY <1>3, <1>4, <2>3 DEF HoldersOf
  <2>6. p \notin HoldersOf(s)
    BY <2>3 DEF HoldersOf
  <2>7. CASE s = fip[f[p]]
    <3>1. Cardinality(HoldersOf(s)') = Cardinality(HoldersOf(s)) + 1
      BY <1>5, <2>5, <2>6, <2>7, FS_AddElement
    <3>2. Cardinality(FilesOf(s)') = Cardinality(FilesOf(s)) - 1
      BY <1>5, <2>4, <2>7, FS_RemoveElement
    <3> QED
      BY <1>5, <2>1, <3>1, <3>2
  <2>8. CASE s # fip[f[p]]
    <3>1. FilesOf(s)' = FilesOf(s)
      BY <2>4, <2>8
    <3> QED
      BY <1>5, <2>1, <2>5, <2>8, <3>1
  <2> QED
    BY <2>7, <2>8
<1>10. CASE IgetHit(p) \/ IgetTake(p)
  <2>1. PICK z \in Islot : fip' = fip /\ ref' = [ref EXCEPT ![z] = ref[z] + 1] /\ ip'[p] = z
                           /\ pc[p] \in {"iget_hit", "iget_take"} /\ pc'[p] = "ilock_test"
    <3>1. CASE IgetHit(p)
      <4>1. ip[p] \in Islot
        BY <1>2, <3>1 DEF IgetHit, Seen
      <4> QED
        BY <1>2, <3>1, <4>1 DEF IgetHit, IgetReturn, Goto, SlotTypes, ftable
    <3>2. CASE IgetTake(p)
      <4>1. empty[p] \in Islot /\ ref[empty[p]] = 0
        BY <1>2, <1>5, <3>2 DEF IgetTake, Seen, SlotTypes
      <4>2. fip' = fip /\ ref' = [ref EXCEPT ![empty[p]] = 1] /\ pc[p] = "iget_take"
        BY <3>2 DEF IgetTake, ftable
      <4>3. ip'[p] = empty[p] /\ pc'[p] = "ilock_test"
        BY <1>2, <3>2 DEF IgetTake, IgetReturn, Goto, SlotTypes
      <4>4. ref' = [ref EXCEPT ![empty[p]] = ref[empty[p]] + 1]
        BY <4>1, <4>2
      <4> QED
        BY <4>1, <4>2, <4>3, <4>4, Zenon
    <3> QED
      BY <1>10, <3>1, <3>2
  <2>2. \A t \in Islot : ~HasInode(p, t) /\ (HasInode(p, t)' <=> t = z)
    BY <2>1 DEF HasInode, OpenPc, IputPc, ClosePc
  <2> QED
    BY <1>6, <2>1, <2>2 DEF Balance
<1>11. CASE /\ ~IgetHit(p) /\ ~IgetTake(p) /\ ~IputDec(p) /\ ~OpenInit(p)
            /\ CloseClear(p) => fip[f[p]] = Null
  <2>1. \A s \in Islot : HasInode(p, s)' <=> HasInode(p, s)
    BY <1>1, <1>11, HoldersStay
  <2>2. ref' = ref
    BY <1>1, <1>11, Stores
  <2>3. \A g \in Files : fip'[g] = fip[g]
    <3>1. CASE CloseClear(p)
      <4>1. f[p] \in Files /\ fip[f[p]] = Null /\ fip' = [fip EXCEPT ![f[p]] = Null]
        BY <1>2, <1>11, <3>1 DEF CloseClear, Place, WithFile
      <4> QED
        BY <1>2, <4>1 DEF InodeTypes
    <3> QED
      BY <1>1, <1>11, <3>1, Stores
  <2>4. \A s \in Islot : HoldersOf(s)' = HoldersOf(s) /\ FilesOf(s)' = FilesOf(s)
    BY <1>3, <1>4, <2>1, <2>3 DEF HoldersOf, FilesOf
  <2> QED
    BY <1>5, <2>2, <2>4 DEF Balance
<1> QED
  BY <1>7, <1>8, <1>9, <1>10, <1>11 DEF Balance

\* Where valid is cleared nobody refers to the slot, but for the process in iput.
LEMMA Cleared ==
  ASSUME SlotInv, FileInv, InodeInv, RefInv, Next, NEW p \in Slot, Step(p),
         NEW s \in Islot, valid[s], ~valid'[s]
  PROVE  FilesOf(s) = {} /\ \A q \in Slot \ {p} : ~HasInode(q, s)
<1>1. /\ InodeTypes /\ SlotTypes /\ Place(p) /\ Seen(p) /\ Validity /\ Balance /\ ~Revived(p)
  BY DEF SlotInv, InodeInv, RefInv, Next
<1>2. CASE IgetTake(p)
  <2>1. ref[s] <= 0
    BY <1>1, <1>2 DEF IgetTake, Seen, SlotTypes, InodeTypes
  <2> QED
    BY <1>1, <2>1, Counting DEF HoldersOf
<1>3. CASE IputDrop(p)
  <2>1. s = ip[p] /\ pc[p] = "iput_drop"
    BY <1>1, <1>3 DEF IputDrop, InodeTypes
  <2>2. ref[s] = 1 /\ HasInode(p, s)
    BY <1>1, <2>1 DEF Revived, HasInode, IputPc
  <2> QED
    BY <1>1, <2>2, Counting
<1>4. CASE IputClear(p)
  <2>1. s = ip[p] /\ pc[p] = "iput_clear"
    BY <1>1, <1>4 DEF IputClear, InodeTypes
  <2>2. ref[s] <= 0
    BY <1>1, <2>1 DEF Revived
  <2> QED
    BY <1>1, <2>2, Counting DEF HoldersOf
<1>5. CASE IlockValid(p)
  BY <1>1, <1>5 DEF IlockValid, InodeTypes
<1> QED
  BY <1>2, <1>3, <1>4, <1>5, Stores

\* No inode is unloaded under somebody who relies on it.
LEMMA ValidityStep ==
  ASSUME SlotInv, FileInv, InodeInv, RefInv, Next
  PROVE  Validity'
<1>1. PICK p \in Slot : Step(p)
  BY DEF Next
<1>2. /\ SlotTypes /\ FileTypes /\ InodeTypes /\ InodeTypes' /\ Place(p) /\ Place(p)' /\ Arrives(p)
      /\ UsedFiles /\ Validity /\ Tells(p)
  BY <1>1, Arrivals, PlaceStep, InodeTypesStep DEF SlotInv, FileInv, InodeInv, RefInv
<1>3. \A q \in Slot : q # p => pc'[q] = pc[q] /\ ip'[q] = ip[q] /\ fd'[q] = fd[q]
  BY <1>1, <1>2, OthersHere
<1>4. \A s \in Islot : valid[s] /\ ~valid'[s] =>
        FilesOf(s) = {} /\ \A q \in Slot \ {p} : ~HasInode(q, s)
  BY <1>1, Cleared
<1>5. ASSUME NEW g \in Files, fip'[g] # Null
      PROVE  valid'[fip'[g]]
  <2>1. CASE OpenInit(p) /\ f[p] = g
    BY <1>2, <1>5, <2>1 DEF OpenInit, Validity, LockedPc, icache, InodeTypes
  <2>2. CASE ~(OpenInit(p) /\ f[p] = g)
    <3>1. fip'[g] = fip[g]
      BY <1>1, <1>2, <1>5, <2>2, Stores DEF OpenInit, CloseClear, InodeTypes
    <3>2. fip[g] \in Islot /\ valid[fip[g]] /\ g \in FilesOf(fip[g])
      BY <1>2, <1>5, <3>1 DEF Validity, InodeTypes, FilesOf
    <3> QED
      BY <1>4, <3>1, <3>2
  <2> QED
    BY <2>1, <2>2
<1>6. ASSUME NEW q \in Slot, q # p
      PROVE  /\ pc'[q] \in LockedPc => valid'[ip'[q]]
             /\ pc'[q] \in {"ilock_load", "ilock_valid"} => ~valid'[ip'[q]]
  <2>1. Place(q) /\ pc'[q] = pc[q] /\ ip'[q] = ip[q]
    BY <1>3, <1>6 DEF InodeInv
  <2>2. pc[q] \in LockedPc => valid'[ip[q]]
    <3>1. SUFFICES ASSUME pc[q] \in LockedPc PROVE valid'[ip[q]]
      OBVIOUS
    <3>2. ip[q] \in Islot /\ HasInode(q, ip[q]) /\ valid[ip[q]]
      BY <1>2, <2>1, <3>1 DEF Place, Loaded, Named, Validity, HasInode, LockedPc, OpenPc
    <3> QED
      BY <1>4, <1>6, <3>2
  <2>3. pc[q] \in {"ilock_load", "ilock_valid"} => ~valid'[ip[q]]
    <3>1. SUFFICES ASSUME pc[q] \in {"ilock_load", "ilock_valid"} PROVE ~valid'[ip[q]]
      OBVIOUS
    <3>2. ip[q] \in Islot /\ ~valid[ip[q]]
      BY <1>2, <2>1, <3>1 DEF Place, Loaded, Named, Validity
    <3>3. ~(IlockValid(p) /\ ip[p] = ip[q])
      BY <1>6, <3>1, NoConflict DEF IlockValid, Conflict
    <3> QED
      BY <1>1, <1>2, <3>2, <3>3, Stores DEF IlockValid, IgetTake, IputDrop, IputClear, InodeTypes,
         SlotTypes
  <2> QED
    BY <2>1, <2>2, <2>3
<1>7. pc'[p] \in LockedPc => valid'[ip'[p]]
  <2>1. CASE pc'[p] = "filealloc_test" /\ IlockValid(p)
    BY <1>2, <2>1 DEF Arrives, IlockValid, Place, Loaded, Named, InodeTypes
  <2>2. CASE pc'[p] \in LockedPc /\ ~IlockValid(p)
    <3>1. valid[ip[p]] /\ ip'[p] = ip[p] /\ valid' = valid
      BY <1>1, <1>2, <2>2, Stores
         DEF Arrives, Same, Validity, LockedPc, FileallocTake, OpenFd, IgetTake, IgetReturn,
             IputDrop, IputClear, IputReturn, Return, Goto, SlotTypes
    <3> QED
      BY <3>1
  <2> QED
    BY <1>2, <2>1, <2>2 DEF Arrives, Same, LockedPc, IlockValid, FileallocTake, OpenFd
<1>8. pc'[p] \in {"ilock_load", "ilock_valid"} => ~valid'[ip'[p]]
  <2>1. SUFFICES ASSUME pc'[p] \in {"ilock_load", "ilock_valid"} PROVE ~valid'[ip'[p]]
    OBVIOUS
  <2>2. ~valid[ip[p]] /\ ip'[p] = ip[p] /\ pc[p] \in {"ilock_test", "ilock_load"}
    BY <1>2, <2>1 DEF Arrives, Same, IlockLoad, Validity
  <2>3. valid' = valid
    BY <1>1, <2>2, Stores DEF IgetTake, IlockValid, IputDrop, IputClear
  <2> QED
    BY <2>2, <2>3
<1>9. ASSUME NEW q \in Slot,
             pc'[q] \in IputPc \cup {"iput_clear"} \/ (pc'[q] \in ClosePc /\ fd'[q] = Null)
      PROVE  ip'[q] \in Islot
  <2>1. CASE q # p
    BY <1>2, <1>3, <1>9, <2>1 DEF Validity
  <2>2. CASE q = p /\ pc'[p] \in {"close_dec", "close_clear"}
    <3>1. CASE OpenFd(p)
      BY <1>2, <2>2, <3>1 DEF OpenFd, Place, LockedPc, Loaded, Named
    <3>2. CASE CloseDec(p) /\ Same(p)
      BY <1>2, <1>9, <2>2, <3>2 DEF CloseDec, Same, Validity, ClosePc, IputPc
    <3> QED
      BY <1>2, <1>9, <2>2, <3>1, <3>2 DEF Arrives, IputPc, Fds, Null
  <2>3. CASE q = p /\ pc'[p] = "iput_test"
    <3>1. ~(CloseDec(p) /\ fref[f[p]] \notin {0, 1})
      BY CloseDecOne DEF CloseDec
    <3>2. CASE pc[p] = "filealloc_test" /\ Same(p)
      BY <1>2, <2>3, <3>2 DEF Same, Place, LockedPc, Loaded, Named
    <3>3. CASE CloseClear(p) /\ Same(p) /\ fd[p] = Null
      BY <1>2, <2>3, <3>3 DEF CloseClear, Same, Validity, ClosePc
    <3>4. CASE CloseClear(p) /\ fip[f[p]] # Null /\ ip'[p] = fip[f[p]]
      BY <1>2, <2>3, <3>4 DEF CloseClear, Place, WithFile, InodeTypes
    <3> QED
      BY <1>2, <2>3, <3>1, <3>2, <3>3, <3>4 DEF Arrives
  <2>4. CASE q = p /\ pc'[p] \in {"iput_drop", "iput_dec", "iput_clear"}
    BY <1>2, <2>4 DEF Arrives, Same, IputDec, Validity, IputPc
  <2> QED
    BY <1>9, <2>1, <2>2, <2>3, <2>4 DEF IputPc, ClosePc
<1> QED
  BY <1>5, <1>6, <1>7, <1>8, <1>9 DEF Validity

LEMMA RefInit == Init => RefInv
<1> SUFFICES ASSUME Init PROVE RefInv
  OBVIOUS
<1>1. /\ \A p \in Slot : pc[p] = "user" /\ \A d \in Fds : ofile[p][d] = Null
      /\ \A g \in Files : fref[g] = 0 /\ fip[g] = Null
      /\ \A s \in Islot : ref[s] = 0 /\ s # Null
  BY DEF Init, Islot, Null
<1>2. UsedFiles
  BY <1>1 DEF UsedFiles, Counts, Blank, HasFile, WritePc
<1>3. Validity
  BY <1>1 DEF Validity, LockedPc, IputPc, ClosePc
<1>4. \A s \in Islot : FilesOf(s) = {} /\ HoldersOf(s) = {}
  BY <1>1 DEF FilesOf, HoldersOf, HasInode, OpenPc, IputPc, ClosePc
<1>5. Balance
  BY <1>1, <1>4, FS_EmptySet DEF Balance
<1> QED
  BY <1>2, <1>3, <1>5 DEF RefInv

LEMMA RefStutter == RefInv /\ UNCHANGED vars => RefInv'
<1> SUFFICES ASSUME RefInv, UNCHANGED vars PROVE RefInv'
  OBVIOUS
<1>1. UNCHANGED <<ofile, fref, fip, ref, valid, pc, ip, f, fd>>
  BY DEF vars, procs, ftable, icache, locals
<1>2. UsedFiles'
  BY <1>1 DEF RefInv, UsedFiles, Counts, Closing, Blank, HasFile
<1>3. Validity'
  BY <1>1 DEF RefInv, Validity
<1>4. \A s \in Islot : FilesOf(s)' = FilesOf(s) /\ HoldersOf(s)' = HoldersOf(s)
  BY <1>1 DEF FilesOf, HoldersOf, HasInode
<1>5. Balance'
  BY <1>1, <1>4 DEF RefInv, Balance
<1> QED
  BY <1>2, <1>3, <1>5 DEF RefInv

LEMMA RefInvariance == Spec => [](TablesInv /\ RefInv)
<1>1. TablesInv /\ RefInv /\ [Next]_vars => RefInv'
  BY RefStutter, UsedFilesStep, ValidityStep, BalanceStep DEF TablesInv, RefInv
<1> QED
  BY <1>1, RefInit, TablesInvariance, PTL DEF Spec

\* The second half of the balance counts what Balance does; the first has one
\* descriptor, or one process, for a file in use.
LEMMA OneReference ==
  ASSUME FileInv, RefInv
  PROVE  CountsBalance
<1>1. FileTypes /\ Owned /\ UsedFiles /\ Balance
  BY DEF FileInv, RefInv
<1>2. ASSUME NEW g \in Files
      PROVE  fref[g] =
               Cardinality({pd \in Slot \X Fds : ofile[pd[1]][pd[2]] = g /\ ~Closing(pd[1], pd[2])})
               + Cardinality({p \in Slot : HasFile(p, g)})
  <2> DEFINE D == {pd \in Slot \X Fds : ofile[pd[1]][pd[2]] = g /\ ~Closing(pd[1], pd[2])}
             H == {p \in Slot : HasFile(p, g)}
  <2>1. \A p \in Slot, d \in Fds : <<p, d>> \in D <=> Counts(p, d) /\ ofile[p][d] = g
    BY DEF Counts, Files, Null
  <2>2. \A x, y \in D : x = y
    <3>1. SUFFICES ASSUME NEW x \in D, NEW y \in D PROVE x = y
      OBVIOUS
    <3>2. x[1] = y[1] /\ x[2] = y[2]
      BY <3>1 DEF FileInv, FilesPrivate, Files, Null
    <3> QED
      BY <3>1, <3>2
  <2>3. CASE H # {}
    <3>1. PICK p \in Slot : HasFile(p, g)
      BY <2>3
    <3>2. fref[g] = 1 /\ H = {p}
      BY <1>1, <3>1 DEF Owned
    <3>3. D = {}
      BY <1>1, <2>1, <3>1 DEF Owned
    <3>4. Cardinality(H) = 1 /\ Cardinality(D) = 0
      BY <3>2, <3>3, FS_EmptySet, FS_Singleton
    <3> QED
      BY <3>2, <3>4
  <2>4. CASE H = {} /\ D # {}
    <3>1. PICK p \in Slot, d \in Fds : <<p, d>> \in D
      BY <2>4
    <3>2. fref[g] = 1
      BY <1>1, <2>1, <3>1 DEF Owned
    <3>3. D = {<<p, d>>}
      BY <2>2, <3>1
    <3>4. Cardinality(H) = 0 /\ Cardinality(D) = 1
      BY <2>4, <3>3, FS_EmptySet, FS_Singleton
    <3> QED
      BY <3>2, <3>4
  <2>5. CASE H = {} /\ D = {}
    <3>1. fref[g] = 0
      <4>1. ~(fref[g] = 1)
        <5>1. \A p \in Slot, d \in Fds : ~(Counts(p, d) /\ ofile[p][d] = g)
          BY <2>1, <2>5, Zenon
        <5>2. \A p \in Slot : ~HasFile(p, g)
          BY <2>5, Zenon
        <5> QED
          BY <1>1, <5>1, <5>2 DEF UsedFiles
      <4> QED
        BY <1>1, <4>1 DEF FileTypes
    <3>2. Cardinality(H) = 0 /\ Cardinality(D) = 0
      BY <2>5, FS_EmptySet
    <3> QED
      BY <3>1, <3>2
  <2> QED
    BY <2>3, <2>4, <2>5
<1>3. \A s \in Islot : ref[s] =
        Cardinality({g \in Files : fip[g] = s}) + Cardinality({p \in Slot : HasInode(p, s)})
  BY <1>1 DEF Balance, FilesOf, HoldersOf
<1> QED
  BY <1>2, <1>3 DEF CountsBalance

\* A reference count of a file is the number of descriptors that lead to it, of dead
\* processes too, and one of an inode the number of files and of processes in a call
\* that stand for it: whoever runs between two statements of sys_open and sys_close,
\* their error paths included, for any number of processes and any tables.
THEOREM CountsBalanceAlways == Spec => []CountsBalance
<1>1. TablesInv /\ RefInv => CountsBalance
  BY OneReference DEF TablesInv
<1> QED
  BY <1>1, RefInvariance, PTL

\* A descriptor of a process outside system calls leads to a file in use, with an inode
\* whose fields are loaded: no iput of another process takes it away (fileclose, iput).
THEOREM OpenIsWholeAlways == Spec => []OpenIsWhole
<1>1. TablesInv /\ RefInv => OpenIsWhole
  <2> SUFFICES ASSUME TablesInv, RefInv, NEW p \in Slot, NEW d \in Fds,
                      pc[p] = "user", ofile[p][d] # Null
               PROVE  LET g == ofile[p][d]
                      IN  fref[g] > 0 /\ fip[g] # Null /\ valid[fip[g]] /\ mem[fip[g]].type = "file"
    BY DEF OpenIsWhole
  <2>1. Counts(p, d) /\ ofile[p][d] \in Files
    BY DEF Counts, Closing, IputPc, TablesInv, FileInv, FileTypes
  <2>2. fref[ofile[p][d]] = 1 /\ fip[ofile[p][d]] # Null
    BY <2>1 DEF TablesInv, FileInv, Owned, RefInv, UsedFiles
  <2>3. valid[fip[ofile[p][d]]] /\ Loaded(fip[ofile[p][d]])
    BY <2>1, <2>2 DEF RefInv, Validity, TablesInv, InodeInv
  <2> QED
    BY <2>2, <2>3 DEF Loaded
<1> QED
  BY <1>1, RefInvariance, PTL

-----------------------------------------------------------------------------
(* Copies of inodes                                                        *)

\* Somebody refers to slot s, or is about to.
Live(s) == ref[s] > 0 \/ \E p \in Slot : pc[p] = "iget_hit" /\ ip[p] = s

\* A copy somebody may use is what the disk has, or iupdate is about to make it so; no
\* offset is behind the end.
Fresh ==
  /\ \A s \in Islot : valid[s] /\ Live(s) =>
       \/ mem[s] = dinode[inum[s]]
       \/ \E p \in Slot : pc[p] = "iupdate" /\ ip[p] = s
  /\ \A g \in Files : fip[g] # Null => off[g] <= mem[fip[g]].size
  /\ \A p \in Slot :
       /\ pc[p] = "ilock_valid" => mem[ip[p]] = dinode[inum[ip[p]]]
       /\ pc[p] = "grow" => off[f[p]] = mem[ip[p]].size
       /\ pc[p] = "iupdate" => off[f[p]] + 1 <= mem[ip[p]].size

\* What a process that is writing stands on.
LEMMA WriterHas ==
  ASSUME TablesInv, RefInv, NEW p \in Slot, pc[p] \in WritePc
  PROVE  /\ f[p] \in Files /\ ip[p] \in Islot /\ fip[f[p]] = ip[p] /\ fref[f[p]] = 1
         /\ valid[ip[p]] /\ Loaded(ip[p]) /\ ref[ip[p]] > 0
         /\ \E d \in Fds : ofile[p][d] = f[p] /\ ~Closing(p, d)
<1>1. InodeTypes /\ Place(p) /\ FileInv /\ UsedFiles /\ Validity /\ Balance
  BY DEF TablesInv, InodeInv, RefInv
<1>2. f[p] \in Files /\ Loaded(ip[p]) /\ ip[p] \in Islot /\ fip[f[p]] = ip[p]
  BY <1>1 DEF Place, WithFile, Loaded, Named, UsedFiles
<1>3. fref[f[p]] = 1
  BY <1>1, OneOwner
<1>4. valid[ip[p]]
  BY <1>1, <1>2 DEF Validity, Islot, Null
<1>5. ref[ip[p]] > 0
  <2>1. f[p] \in FilesOf(ip[p])
    BY <1>2 DEF FilesOf
  <2> QED
    BY <1>1, <1>2, <2>1, Counting
<1>6. \E d \in Fds : ofile[p][d] = f[p] /\ ~Closing(p, d)
  BY <1>1 DEF UsedFiles, Closing, IputPc, WritePc
<1> QED
  BY <1>2, <1>3, <1>4, <1>5, <1>6

\* Nobody else moves the offset of a file that is being written.
LEMMA OffsetStays ==
  ASSUME TablesInv, RefInv, NEW p \in Slot, Step(p),
         NEW q \in Slot, q # p, pc[q] \in WritePc
  PROVE  off'[f[q]] = off[f[q]]
<1>1. /\ FileTypes /\ InodeTypes /\ FileInv /\ UsedFiles /\ Place(p)
      /\ f[q] \in Files /\ fref[f[q]] = 1
  BY WriterHas DEF TablesInv, FileInv, InodeInv, RefInv
<1>2. PICK e \in Fds : ofile[q][e] = f[q] /\ ~Closing(q, e)
  BY WriterHas
<1>3. \A d \in Fds : ~Closing(p, d) => ofile[p][d] # f[q]
  BY <1>1, <1>2 DEF FileInv, FilesPrivate, Files, Null
<1>4. CASE OpenInit(p)
  <2>1. f[p] # f[q]
    BY <1>1, <1>4, OneOwner DEF OpenInit
  <2> QED
    BY <1>1, <1>4, <2>1 DEF OpenInit, InodeTypes
<1>5. CASE CloseClear(p)
  <2>1. f[p] # f[q]
    BY <1>1, <1>5 DEF CloseClear, UsedFiles
  <2> QED
    BY <1>1, <1>5, <2>1 DEF CloseClear, InodeTypes
<1>6. CASE \E d \in Fds : Write(p, d)
  <2>1. PICK d \in Fds : Write(p, d)
    BY <1>6
  <2>2. ofile[p][d] # f[q]
    BY <1>3, <2>1 DEF Write, InUser, Closing, IputPc
  <2> QED
    BY <1>1, <2>1, <2>2 DEF Write, InodeTypes
<1>7. CASE GrowTest(p) \/ Iupdate(p)
  <2>1. pc[p] \in WritePc
    BY <1>7 DEF GrowTest, Iupdate, WritePc
  <2>2. f[p] # f[q]
    BY <1>3, <2>1, WriterHas
  <2> QED
    BY <1>1, <1>7, <2>2 DEF GrowTest, Iupdate, InodeTypes
<1> QED
  BY <1>4, <1>5, <1>6, <1>7, Stores

\* What a step does to a copy.
LEMMA MemStep ==
  ASSUME InodeInv, NEW p \in Slot, Step(p), NEW s \in Islot
  PROVE  \/ mem'[s] = mem[s]
         \/ IlockLoad(p) /\ s = ip[p] /\ mem'[s] = dinode[inum[s]]
         \/ Grow(p) /\ s = ip[p] /\ mem'[s] = [type |-> mem[s].type, size |-> off[f[p]] + 1]
<1>1. InodeTypes /\ Place(p)
  BY DEF InodeInv
<1>2. CASE IlockLoad(p)
  BY <1>1, <1>2 DEF IlockLoad, InodeTypes
<1>3. CASE Grow(p)
  <2>1. ip[p] \in Islot /\ mem[ip[p]] \in Inode
    BY <1>1, <1>3 DEF Grow, Place, WritePc, Loaded, Named, InodeTypes
  <2>2. [mem[ip[p]] EXCEPT !.size = off[f[p]] + 1] =
          [type |-> mem[ip[p]].type, size |-> off[f[p]] + 1]
    BY <2>1 DEF Inode
  <2>3. mem' = [mem EXCEPT ![ip[p]] = [type |-> mem[ip[p]].type, size |-> off[f[p]] + 1]]
    BY <1>3, <2>2, Zenon DEF Grow
  <2> QED
    BY <1>1, <1>3, <2>1, <2>3 DEF InodeTypes
<1> QED
  BY <1>2, <1>3, Stores

\* What a step does to an inode in use.
LEMMA DinodeStep ==
  ASSUME InodeInv, NEW p \in Slot, Step(p), NEW i, InUse(i)
  PROVE  \/ dinode'[i] = dinode[i]
         \/ Iupdate(p) /\ i = inum[ip[p]] /\ dinode'[i] = mem[ip[p]]
<1>1. InodeTypes /\ Place(p)
  BY DEF InodeInv
<1>2. CASE IallocTake(p)
  BY <1>1, <1>2 DEF IallocTake, Place, InUse, InodeTypes
<1>3. CASE Iupdate(p)
  BY <1>1, <1>3 DEF Iupdate, InUse, InodeTypes
<1> QED
  BY <1>2, <1>3, Stores

\* Nobody comes to a slot without a reference but iget.
LEMMA LiveStep ==
  ASSUME TablesInv, NEW p \in Slot, Step(p), NEW s \in Islot, Live(s)'
  PROVE  Live(s) \/ (IgetTake(p) /\ s = empty[p])
<1>1. SlotTypes /\ FileTypes /\ Seen(p)
  BY DEF TablesInv, SlotInv, FileInv
<1>2. CASE ref'[s] > 0
  BY <1>1, <1>2, Stores DEF IgetHit, IgetTake, IputDec, SlotTypes, Live
<1>3. CASE \E q \in Slot : pc'[q] = "iget_hit" /\ ip'[q] = s
  <2>1. PICK q \in Slot : pc'[q] = "iget_hit" /\ ip'[q] = s
    BY <1>3
  <2>2. CASE q # p
    BY <1>1, <2>1, <2>2, OthersHere DEF Live
  <2>3. CASE q = p
    <3>1. IgetScan(p)
      <4>1. pc[p] = "iget_scan"
        BY <1>1, <2>1, <2>3, Arrivals DEF TablesInv, InodeInv, Arrives
      <4> QED
        BY <4>1, Zenon DEF Step, InUser, Create, IallocTest, IallocTake, Open, IgetHit, IgetTake,
           IlockTest, IlockLoad, IlockValid, FileallocTest, FileallocTake, OpenFd, OpenInit,
           Close, CloseDec, CloseClear, CloseFd, IputTest, IputDrop, IputDec, IputClear,
           Write, BallocLoad, BallocSet, GrowTest, Grow, Iupdate, Fork, Wait, Exit
    <3>2. ip'[p] = ip[p] /\ Hit(ip[p], want[p])
      BY <1>1, <2>1, <2>3, <3>1 DEF IgetScan, Goto, SlotTypes
    <3> QED
      BY <2>1, <2>3, <3>2 DEF Hit, Live
  <2> QED
    BY <2>2, <2>3
<1> QED
  BY <1>2, <1>3 DEF Live

\* No store makes a copy stale that somebody may use.
LEMMA FreshStep ==
  ASSUME TablesInv, RefInv, Fresh, Next
  PROVE  Fresh'
<1>1. PICK p \in Slot : Step(p)
  BY DEF Next
<1>2. /\ SlotTypes /\ FileTypes /\ InodeTypes /\ InodeTypes' /\ InodeInv /\ FileInv
      /\ Place(p) /\ Seen(p) /\ OneSlot /\ Arrives(p) /\ UsedFiles /\ Validity /\ Balance
  BY <1>1, Arrivals, InodeTypesStep DEF TablesInv, SlotInv, FileInv, InodeInv, RefInv
<1>3. \A q \in Slot : q # p => pc'[q] = pc[q] /\ ip'[q] = ip[q] /\ f'[q] = f[q]
  BY <1>1, <1>2, OthersHere
<1>4. Iupdate(p) => /\ ip[p] \in Islot /\ f[p] \in Files /\ fip[f[p]] = ip[p]
                    /\ ref[ip[p]] > 0 /\ InUse(inum[ip[p]]) /\ off' = [off EXCEPT ![f[p]] = @ + 1]
                    /\ off[f[p]] + 1 <= mem[ip[p]].size
  <2>1. SUFFICES ASSUME Iupdate(p)
                 PROVE  /\ ip[p] \in Islot /\ f[p] \in Files /\ fip[f[p]] = ip[p]
                        /\ ref[ip[p]] > 0 /\ InUse(inum[ip[p]]) /\ off' = [off EXCEPT ![f[p]] = @ + 1]
                        /\ off[f[p]] + 1 <= mem[ip[p]].size
    OBVIOUS
  <2>2. pc[p] = "iupdate" /\ pc[p] \in WritePc /\ off' = [off EXCEPT ![f[p]] = @ + 1]
    BY <2>1 DEF Iupdate, WritePc
  <2>3. Loaded(ip[p]) /\ ip[p] \in Islot /\ f[p] \in Files /\ fip[f[p]] = ip[p] /\ ref[ip[p]] > 0
    BY <2>2, WriterHas
  <2> QED
    BY <1>2, <2>2, <2>3 DEF InodeInv, Loaded, Fresh
<1>5. Grow(p) => /\ ip[p] \in Islot /\ f[p] \in Files /\ valid[ip[p]]
                 /\ off[f[p]] = mem[ip[p]].size /\ pc'[p] = "iupdate" /\ ip' = ip /\ f' = f
  <2>1. SUFFICES ASSUME Grow(p)
                 PROVE  /\ ip[p] \in Islot /\ f[p] \in Files /\ valid[ip[p]]
                        /\ off[f[p]] = mem[ip[p]].size /\ pc'[p] = "iupdate" /\ ip' = ip /\ f' = f
    OBVIOUS
  <2>2. pc[p] = "grow" /\ pc[p] \in WritePc /\ UNCHANGED locals /\ Goto(p, "iupdate")
    BY <2>1, Zenon DEF Grow, WritePc
  <2> QED
    BY <1>2, <2>2, WriterHas DEF Fresh, Goto, SlotTypes, locals
<1>6. IlockLoad(p) => ~valid[ip[p]] /\ ip[p] \in Islot
  BY <1>2 DEF IlockLoad, Validity, Place, Named
<1>7. Grow(p) => mem'[ip[p]].size = off[f[p]] + 1 /\ mem'[ip[p]].size = mem[ip[p]].size + 1
  <2>1. SUFFICES ASSUME Grow(p) PROVE mem'[ip[p]].size = off[f[p]] + 1
    BY <1>5
  <2>2. mem[ip[p]] \in Inode /\ off[f[p]] \in Nat /\ ip[p] \in Islot
    BY <1>2, <1>5, <2>1 DEF InodeTypes
  <2>3. [mem[ip[p]] EXCEPT !.size = off[f[p]] + 1] =
          [type |-> mem[ip[p]].type, size |-> off[f[p]] + 1]
    BY <2>2 DEF Inode
  <2>4. mem' = [mem EXCEPT ![ip[p]] = [type |-> mem[ip[p]].type, size |-> off[f[p]] + 1]]
    BY <2>1, <2>3, Zenon DEF Grow
  <2> QED
    BY <1>2, <2>2, <2>4 DEF InodeTypes
\* The copies that somebody may use
<1>8. ASSUME NEW s \in Islot, valid'[s], Live(s)'
      PROVE  mem'[s] = dinode'[inum'[s]] \/ \E q \in Slot : pc'[q] = "iupdate" /\ ip'[q] = s
  <2>1. ~(IgetTake(p) /\ s = empty[p])
    BY <1>2, <1>8 DEF IgetTake, InodeTypes
  <2>2. Live(s) /\ inum'[s] = inum[s]
    <3>1. inum'[s] = inum[s]
      BY <1>1, <1>2, <2>1, Stores DEF IgetTake, InodeTypes
    <3> QED
      BY <1>1, <1>8, <2>1, <3>1, LiveStep
  <2>3. CASE IlockValid(p) /\ s = ip[p]
    <3>1. mem[s] = dinode[inum[s]] /\ mem' = mem /\ dinode' = dinode
      BY <2>3 DEF IlockValid, Fresh, disk
    <3> QED
      BY <2>2, <3>1
  <2>4. CASE Grow(p) /\ s = ip[p]
    BY <1>5, <2>4
  <2>5. CASE Iupdate(p) /\ s = ip[p]
    <3>1. mem' = mem /\ dinode' = [dinode EXCEPT ![inum[s]] = mem[s]] /\ inum[s] \in Inum
      BY <1>4, <2>5 DEF Iupdate, InUse, icache
    <3> QED
      BY <1>2, <2>2, <3>1 DEF InodeTypes
  <2>6. CASE ~(IlockValid(p) /\ s = ip[p]) /\ ~(Grow(p) /\ s = ip[p]) /\ ~(Iupdate(p) /\ s = ip[p])
    <3>1. valid[s]
      BY <1>1, <1>2, <1>8, <2>6, Stores DEF IgetTake, IlockValid, IputDrop, IputClear, InodeTypes
    <3>2. InUse(inum[s])
      BY <1>2, <3>1 DEF InodeInv, Loaded
    <3>3. mem'[s] = mem[s]
      BY <1>1, <1>2, <1>6, <2>6, <3>1, MemStep
    <3>4. dinode'[inum[s]] = dinode[inum[s]]
      <4>1. SUFFICES ASSUME Iupdate(p), inum[s] = inum[ip[p]]
                     PROVE  FALSE
        BY <1>1, <1>2, <3>2, DinodeStep
      <4>2. s # ip[p] /\ ref[s] <= 0
        BY <1>2, <1>4, <2>6, <4>1 DEF OneSlot, SlotTypes
      <4>3. PICK q \in Slot : pc[q] = "iget_hit" /\ ip[q] = s
        BY <1>2, <2>2, <4>2 DEF Live, SlotTypes
      <4>4. Seen(q) /\ Hit(ip[p], inum[s])
        BY <1>4, <4>1 DEF Hit, TablesInv, SlotInv
      <4> QED
        BY <1>4, <4>1, <4>2, <4>3, <4>4 DEF Seen
    <3>5. (\E q \in Slot : pc[q] = "iupdate" /\ ip[q] = s) =>
            \E q \in Slot : pc'[q] = "iupdate" /\ ip'[q] = s
      BY <1>1, <1>3, <2>6, Departs
    <3> QED
      BY <2>2, <3>1, <3>3, <3>4, <3>5 DEF Fresh
  <2> QED
    BY <2>3, <2>4, <2>5, <2>6
\* Offsets
<1>9. ASSUME NEW g \in Files, fip'[g] # Null
      PROVE  off'[g] <= mem'[fip'[g]].size
  <2>1. fip'[g] \in Islot /\ mem'[fip'[g]].size \in Nat
    BY <1>2, <1>9 DEF InodeTypes, Inode
  <2>2. CASE OpenInit(p) /\ f[p] = g
    BY <1>2, <2>1, <2>2 DEF OpenInit, InodeTypes
  <2>3. CASE ~(OpenInit(p) /\ f[p] = g)
    <3>1. fip'[g] = fip[g] /\ ~(CloseClear(p) /\ f[p] = g)
      BY <1>1, <1>2, <1>9, <2>3, Stores DEF OpenInit, CloseClear, InodeTypes
    <3>2. valid[fip[g]] /\ off[g] <= mem[fip[g]].size /\ fip[g] \in Islot
      BY <1>2, <1>9, <2>1, <3>1 DEF Validity, Fresh
    <3>3. off[g] \in Nat /\ mem[fip[g]].size \in Nat
      BY <1>2, <3>2 DEF InodeTypes, Inode
    <3>4. mem'[fip[g]].size >= mem[fip[g]].size
      <4>1. CASE Grow(p) /\ fip[g] = ip[p]
        BY <1>7, <3>3, <4>1
      <4>2. CASE ~(Grow(p) /\ fip[g] = ip[p])
        <5>1. mem'[fip[g]] = mem[fip[g]]
          BY <1>1, <1>2, <1>6, <3>2, <4>2, MemStep
        <5> QED
          BY <3>3, <5>1
      <4> QED
        BY <4>1, <4>2
    <3>5. CASE off'[g] = off[g]
      BY <2>1, <3>1, <3>2, <3>3, <3>4, <3>5
    <3>6. CASE off'[g] # off[g]
      <4>1. off'[g] = off[g] + 1 /\ off[g] + 1 <= mem[fip[g]].size
        <5>1. CASE \E d \in Fds : Write(p, d)
          BY <1>2, <3>2, <3>3, <3>6, <5>1 DEF Write, InodeTypes
        <5>2. CASE GrowTest(p)
          <6>1. pc[p] \in WritePc
            BY <5>2 DEF GrowTest, WritePc
          <6>2. f[p] \in Files /\ fip[f[p]] = ip[p]
            BY <6>1, WriterHas
          <6> QED
            BY <1>2, <3>2, <3>3, <3>6, <5>2, <6>2 DEF GrowTest, InodeTypes
        <5>3. CASE Iupdate(p)
          BY <1>2, <1>4, <3>6, <5>3 DEF InodeTypes
        <5>4. CASE OpenInit(p) \/ CloseClear(p)
          BY <1>2, <2>3, <3>1, <3>6, <5>4 DEF OpenInit, CloseClear, InodeTypes
        <5> QED
          BY <1>1, <3>6, <5>1, <5>2, <5>3, <5>4, Stores
      <4> QED
        BY <2>1, <3>1, <3>3, <3>4, <4>1
    <3> QED
      BY <3>5, <3>6
  <2> QED
    BY <2>2, <2>3
\* What the others are about to do
<1>10. ASSUME NEW q \in Slot, q # p, pc[q] = "ilock_valid"
      PROVE  mem'[ip[q]] = dinode'[inum'[ip[q]]]
  <2>1. Place(q) /\ Loaded(ip[q]) /\ ip[q] \in Islot /\ ~valid[ip[q]] /\ InUse(inum[ip[q]])
    BY <1>2, <1>10 DEF InodeInv, Place, Validity, Loaded, Named
  <2>2. ref[ip[q]] > 0
    <3>1. q \in HoldersOf(ip[q])
      BY <1>10 DEF HoldersOf, HasInode, OpenPc
    <3> QED
      BY <1>2, <2>1, <3>1, Counting
  <2>3. inum'[ip[q]] = inum[ip[q]]
    BY <1>1, <1>2, <2>1, <2>2, Stores DEF IgetTake, Seen, SlotTypes, InodeTypes
  <2>4. mem'[ip[q]] = mem[ip[q]]
    <3>1. ~(IlockLoad(p) /\ ip[p] = ip[q])
      BY <1>10, NoConflict DEF IlockLoad, Conflict
    <3> QED
      BY <1>1, <1>2, <1>5, <2>1, <3>1, MemStep
  <2>5. dinode'[inum[ip[q]]] = dinode[inum[ip[q]]]
    <3>1. ~(Iupdate(p) /\ inum[ip[p]] = inum[ip[q]])
      <4>1. SUFFICES ASSUME Iupdate(p), inum[ip[p]] = inum[ip[q]] PROVE FALSE
        OBVIOUS
      <4>2. ip[p] = ip[q] /\ pc[p] \in WritePc
        BY <1>2, <1>4, <2>1, <2>2, <4>1 DEF OneSlot, Iupdate, WritePc
      <4> QED
        BY <2>1, <4>2, WriterHas
    <3> QED
      BY <1>1, <1>2, <2>1, <3>1, DinodeStep
  <2> QED
    BY <1>10, <2>3, <2>4, <2>5 DEF Fresh
<1>11. ASSUME NEW q \in Slot, q # p, pc[q] \in {"grow", "iupdate"}
       PROVE  /\ off'[f[q]] = off[f[q]]
              /\ \/ mem'[ip[q]] = mem[ip[q]]
                 \/ pc[q] = "iupdate" /\ mem'[ip[q]].size = mem[ip[q]].size + 1
              /\ mem[ip[q]].size \in Nat /\ off[f[q]] \in Nat
  <2>1. pc[q] \in WritePc
    BY <1>11 DEF WritePc
  <2>2. /\ off'[f[q]] = off[f[q]] /\ valid[ip[q]] /\ ip[q] \in Islot
        /\ mem[ip[q]].size \in Nat /\ off[f[q]] \in Nat
    BY <1>1, <1>2, <1>11, <2>1, OffsetStays, WriterHas DEF InodeTypes, Inode
  <2>3. ~(Grow(p) /\ pc[q] = "grow" /\ ip[p] = ip[q])
    <3>1. Grow(p) => pc[p] = "grow"
      BY Zenon DEF Grow
    <3> QED
      BY <1>11, <3>1, NoConflict DEF Conflict
  <2> QED
    BY <1>1, <1>2, <1>6, <1>11, <1>7, <2>2, <2>3, MemStep
\* What the process itself is about to do
<1>12. /\ pc'[p] = "ilock_valid" => mem'[ip'[p]] = dinode'[inum'[ip'[p]]]
       /\ pc'[p] = "grow" => off'[f'[p]] = mem'[ip'[p]].size
       /\ pc'[p] = "iupdate" => off'[f'[p]] + 1 <= mem'[ip'[p]].size
  <2>1. ASSUME pc'[p] = "ilock_valid"
        PROVE  mem'[ip'[p]] = dinode'[inum'[ip'[p]]]
    <3>1. IlockLoad(p) /\ ip'[p] = ip[p]
      BY <1>2, <2>1 DEF Arrives, Same
    <3> QED
      BY <1>2, <1>6, <3>1 DEF IlockLoad, InodeTypes, disk
  <2>2. ASSUME pc'[p] = "grow"
        PROVE  off'[f'[p]] = mem'[ip'[p]].size
    <3>1. /\ pc[p] = "grow_test" /\ pc[p] \in WritePc /\ ip'[p] = ip[p] /\ f'[p] = f[p]
          /\ off[f[p]] + 1 > mem[ip[p]].size
      BY <1>2, <2>2 DEF Arrives, Same, WritePc
    <3>2. GrowTest(p)
      BY <1>1, <3>1, Zenon
         DEF Step, InUser, Create, IallocTest, IallocTake, Open, IgetScan, IgetHit, IgetTake,
         IlockTest, IlockLoad, IlockValid, FileallocTest, FileallocTake, OpenFd,
         OpenInit, Close, CloseDec, CloseClear, CloseFd, IputTest, IputDrop, IputDec, IputClear,
         Write, BallocLoad, BallocSet, Grow, Iupdate, Fork, Wait, Exit
    <3>3. off' = off /\ mem' = mem
      BY <3>1, <3>2 DEF GrowTest, icache
    <3>4. off[f[p]] <= mem[ip[p]].size /\ off[f[p]] \in Nat /\ mem[ip[p]].size \in Nat
      BY <1>2, <3>1, WriterHas DEF Fresh, InodeTypes, Inode, Islot, Null
    <3> QED
      BY <3>1, <3>3, <3>4
  <2>3. ASSUME pc'[p] = "iupdate"
        PROVE  off'[f'[p]] + 1 <= mem'[ip'[p]].size
    <3>1. Grow(p) /\ ip'[p] = ip[p] /\ f'[p] = f[p]
      BY <1>2, <2>3 DEF Arrives, Same
    <3>2. off' = off
      BY <3>1, Zenon DEF Grow, ftable
    <3>3. mem'[ip[p]].size = off[f[p]] + 1 /\ off[f[p]] \in Nat
      BY <1>2, <1>5, <1>7, <3>1 DEF InodeTypes
    <3> QED
      BY <3>1, <3>2, <3>3
  <2> QED
    BY <2>1, <2>2, <2>3
<1>13. ASSUME NEW q \in Slot
       PROVE  /\ pc'[q] = "ilock_valid" => mem'[ip'[q]] = dinode'[inum'[ip'[q]]]
              /\ pc'[q] = "grow" => off'[f'[q]] = mem'[ip'[q]].size
              /\ pc'[q] = "iupdate" => off'[f'[q]] + 1 <= mem'[ip'[q]].size
  <2>1. CASE q = p
    BY <1>12, <2>1
  <2>2. CASE q # p
    <3>1. pc'[q] = pc[q] /\ ip'[q] = ip[q] /\ f'[q] = f[q]
      BY <1>3, <2>2
    <3>2. /\ pc[q] = "grow" => off[f[q]] = mem[ip[q]].size
          /\ pc[q] = "iupdate" => off[f[q]] + 1 <= mem[ip[q]].size
      BY DEF Fresh
    <3> QED
      BY <1>10, <1>11, <2>2, <3>1, <3>2
  <2> QED
    BY <2>1, <2>2
<1>14. \A s \in Islot :
         Live(s)' <=> (ref'[s] > 0 \/ \E q \in Slot : pc'[q] = "iget_hit" /\ ip'[q] = s)
  BY DEF Live
<1> QED
  BY <1>8, <1>9, <1>13 DEF Fresh

LEMMA FreshInit == Init => Fresh
  BY DEF Init, Fresh, Islot, Null

LEMMA FreshStutter == Fresh /\ UNCHANGED vars => Fresh'
<1> SUFFICES ASSUME Fresh, UNCHANGED vars PROVE Fresh'
  OBVIOUS
<1>1. UNCHANGED <<off, fip, ref, inum, valid, mem, dinode, pc, ip, f>>
  BY DEF vars, ftable, icache, disk, locals
<1> QED
  BY <1>1 DEF Fresh, Live

\* All of it together: the inductive invariant of the refinement.
CallsInv == TablesInv /\ RefInv /\ Fresh

LEMMA CallsInvariance == Spec => []CallsInv
<1>1. TablesInv /\ RefInv /\ Fresh /\ [Next]_vars => Fresh'
  BY FreshStep, FreshStutter
<1> QED
  BY <1>1, FreshInit, RefInvariance, PTL DEF Spec, CallsInv

-----------------------------------------------------------------------------
(* What Inodes promises                                                    *)

\* An inode is in one slot, and its count and copy are the slot's.
LEMMA TheSlot ==
  ASSUME OneSlot, NEW i \in Inum, NEW s \in Islot, Hit(s, i)
  PROVE  Refs[i] = ref[s] /\ Copy[i] = (IF valid[s] THEN mem[s] ELSE NotLoaded)
<1>1. SlotsOf(i) = {s}
  BY DEF OneSlot, SlotsOf, Hit
<1>2. {t \in SlotsOf(i) : valid[t]} = IF valid[s] THEN {s} ELSE {}
  BY <1>1
<1>3. (CHOOSE t \in {s} : TRUE) = s
  OBVIOUS
<1>4. Refs[i] = ref[s]
  <2>1. Refs[i] = ref[CHOOSE t \in SlotsOf(i) : TRUE]
    BY <1>1, Zenon DEF Refs
  <2> QED
    BY <1>1, <1>3, <2>1
<1>5. CASE valid[s]
  <2>1. Copy[i] = mem[CHOOSE t \in {t \in SlotsOf(i) : valid[t]} : TRUE]
    BY <1>2, <1>5, Zenon DEF Copy
  <2> QED
    BY <1>2, <1>3, <1>4, <1>5, <2>1
<1>6. CASE ~valid[s]
  BY <1>2, <1>4, <1>6, Zenon DEF Copy
<1> QED
  BY <1>5, <1>6

LEMMA TheSlotNext ==
  ASSUME OneSlot', NEW i \in Inum, NEW s \in Islot, Hit(s, i)'
  PROVE  Refs'[i] = ref'[s] /\ Copy'[i] = (IF valid'[s] THEN mem'[s] ELSE NotLoaded)
<1>1. SlotsOf(i)' = {s}
  BY DEF OneSlot, SlotsOf, Hit
<1>2. {t \in SlotsOf(i)' : valid'[t]} = IF valid'[s] THEN {s} ELSE {}
  BY <1>1
<1>3. (CHOOSE t \in {s} : TRUE) = s
  OBVIOUS
<1>4. Refs'[i] = ref'[s]
  <2>1. Refs'[i] = ref'[CHOOSE t \in SlotsOf(i)' : TRUE]
    BY <1>1, Zenon DEF Refs
  <2> QED
    BY <1>1, <1>3, <2>1
<1>5. CASE valid'[s]
  <2>1. Copy'[i] = mem'[CHOOSE t \in {t \in SlotsOf(i)' : valid'[t]} : TRUE]
    BY <1>2, <1>5, Zenon DEF Copy
  <2> QED
    BY <1>2, <1>3, <1>4, <1>5, <2>1
<1>6. CASE ~valid'[s]
  BY <1>2, <1>4, <1>6, Zenon DEF Copy
<1> QED
  BY <1>5, <1>6

\* An inode in no slot has no reference and no copy.
LEMMA NoSlot ==
  ASSUME NEW i \in Inum, \A s \in Islot : ~Hit(s, i)
  PROVE  Refs[i] = 0 /\ Copy[i] = NotLoaded
<1>1. SlotsOf(i) = {}
  BY DEF SlotsOf
<1>2. {t \in SlotsOf(i) : valid[t]} = {}
  BY <1>1
<1> QED
  BY <1>1, <1>2, Zenon DEF Refs, Copy

LEMMA NoSlotNext ==
  ASSUME NEW i \in Inum, \A s \in Islot : ~Hit(s, i)'
  PROVE  Refs'[i] = 0 /\ Copy'[i] = NotLoaded
<1>1. SlotsOf(i)' = {}
  BY DEF SlotsOf
<1>2. {t \in SlotsOf(i)' : valid'[t]} = {}
  BY <1>1
<1> QED
  BY <1>1, <1>2, Zenon DEF Refs, Copy

\* An inode whose slot is left as it is has the same count and copy.
LEMMA SlotStays ==
  ASSUME OneSlot, OneSlot', NEW i \in Inum,
         \A s \in Islot : Hit(s, i)' <=> Hit(s, i),
         \A s \in Islot : Hit(s, i) =>
           ref'[s] = ref[s] /\ valid'[s] = valid[s] /\ (valid[s] => mem'[s] = mem[s])
  PROVE  Refs'[i] = Refs[i] /\ Copy'[i] = Copy[i]
<1>1. CASE \E s \in Islot : Hit(s, i)
  BY <1>1, TheSlot, TheSlotNext
<1>2. CASE \A s \in Islot : ~Hit(s, i)
  BY <1>2, NoSlot, NoSlotNext
<1> QED
  BY <1>1, <1>2

\* A step that leaves the others' slots alone changes one inode.
LEMMA OneInode ==
  ASSUME NEW i \in Inum, \A j \in Inum \ {i} : Refs'[j] = Refs[j] /\ Copy'[j] = Copy[j]
  PROVE  /\ Refs' = [Refs EXCEPT ![i] = Refs'[i]] /\ (Refs'[i] = Refs[i] => Refs' = Refs)
         /\ Copy' = [Copy EXCEPT ![i] = Copy'[i]] /\ (Copy'[i] = Copy[i] => Copy' = Copy)
<1> DEFINE R(j) == IF SlotsOf(j) = {} THEN 0 ELSE ref[CHOOSE s \in SlotsOf(j) : TRUE]
           L(j) == {s \in SlotsOf(j) : valid[s]}
           C(j) == IF L(j) = {} THEN NotLoaded ELSE mem[CHOOSE s \in L(j) : TRUE]
<1>1. Refs = [j \in Inum |-> R(j)] /\ Copy = [j \in Inum |-> C(j)]
  BY Zenon DEF Refs, Copy
<1>2. Refs' = [j \in Inum |-> R(j)'] /\ Copy' = [j \in Inum |-> C(j)']
  BY Zenon DEF Refs, Copy
<1> HIDE DEF R, L, C
<1>3. Refs = [j \in Inum |-> Refs[j]] /\ Copy = [j \in Inum |-> Copy[j]]
  BY <1>1
<1>4. Refs' = [j \in Inum |-> Refs'[j]] /\ Copy' = [j \in Inum |-> Copy'[j]]
  BY <1>2
<1> QED
  BY <1>3, <1>4

\* What the last process that refers to an inode finds in its copy is on the disk.
LEMMA LastCopy ==
  ASSUME CallsInv, NEW p \in Slot, NEW s \in Islot, ref[s] = 1, HasInode(p, s), valid[s]
  PROVE  mem[s] = dinode[inum[s]]
<1>1. InodeTypes /\ Balance
  BY DEF CallsInv, TablesInv, InodeInv, RefInv
<1>2. FilesOf(s) = {}
  BY <1>1, Counting
<1>3. \A q \in Slot : ~(pc[q] = "iupdate" /\ ip[q] = s)
  <2>1. SUFFICES ASSUME NEW q \in Slot, pc[q] = "iupdate", ip[q] = s PROVE FALSE
    OBVIOUS
  <2>2. f[q] \in Files /\ fip[f[q]] = s
    BY <2>1, WriterHas DEF CallsInv, WritePc
  <2> QED
    BY <1>2, <2>2 DEF FilesOf
<1> QED
  BY <1>3 DEF CallsInv, Fresh, Live

\* One lemma for each statement that is a step of Inodes.
LEMMA RefinesIgetHit ==
  ASSUME CallsInv, CallsInv', NEW p \in Slot, IgetHit(p)
  PROVE  \E i \in Inum : Promise!Iget(i)
<1>1. /\ InodeInv /\ InodeTypes /\ SlotTypes /\ Seen(p) /\ Place(p) /\ OneSlot /\ OneSlot'
      /\ Balance /\ Fresh
  BY DEF CallsInv, TablesInv, InodeInv, SlotInv, RefInv
<1>2. PICK i \in Inum : i = want[p] /\ InUse(i)
  BY <1>1 DEF IgetHit, Place, InIget, InUse
<1>3. PICK z \in Islot : z = ip[p] /\ inum[z] = i /\ pc[p] = "iget_hit"
  BY <1>1, <1>2 DEF IgetHit, Seen
<1>4. /\ ref' = [ref EXCEPT ![z] = @ + 1] /\ UNCHANGED <<inum, valid, mem, bitmap, dinode>>
      /\ ref[z] \in Nat
  BY <1>1, <1>3, Counting DEF IgetHit, disk
<1>5. Hit(z, i)'
  BY <1>1, <1>3, <1>4 DEF Hit, SlotTypes
<1>6. Refs'[i] = ref[z] + 1 /\ Copy'[i] = (IF valid[z] THEN mem[z] ELSE NotLoaded)
  BY <1>1, <1>4, <1>5, TheSlotNext DEF SlotTypes
<1>7. ASSUME NEW j \in Inum \ {i}
      PROVE  Refs'[j] = Refs[j] /\ Copy'[j] = Copy[j]
  <2>1. \A s \in Islot : Hit(s, j)' <=> Hit(s, j)
    BY <1>1, <1>3, <1>4, <1>7 DEF Hit, SlotTypes
  <2>2. \A s \in Islot : Hit(s, j) => s # z
    BY <1>3, <1>7 DEF Hit
  <2> QED
    BY <1>1, <1>4, <2>1, <2>2, SlotStays DEF SlotTypes
<1>8. /\ Refs' = [Refs EXCEPT ![i] = Refs'[i]] /\ Copy' = [Copy EXCEPT ![i] = Copy'[i]]
      /\ Copy'[i] = Copy[i] => Copy' = Copy
  BY <1>7, OneInode
<1> SUFFICES Promise!Iget(i)
  OBVIOUS
<1>9. CASE ref[z] > 0
  <2>1. Hit(z, i)
    BY <1>3, <1>9 DEF Hit
  <2>2. Refs[i] = ref[z] /\ Copy[i] = (IF valid[z] THEN mem[z] ELSE NotLoaded)
    BY <1>1, <2>1, TheSlot
  <2>3. Copy' = Copy /\ Refs' = [Refs EXCEPT ![i] = Refs[i] + 1]
    BY <1>6, <1>8, <2>2
  <2> QED
    BY <1>2, <1>4, <2>3 DEF Promise!Iget, InUse
<1>10. CASE ref[z] = 0
  <2>1. Refs[i] = 0 /\ Copy[i] = NotLoaded
    <3>1. \A s \in Islot : ~Hit(s, i)
      BY <1>1, <1>2, <1>3, <1>10 DEF Seen, Hit
    <3> QED
      BY <3>1, NoSlot
  <2>2. valid[z] => mem[z] = dinode[i]
    <3>1. \A q \in Slot : ~(pc[q] = "iupdate" /\ ip[q] = z)
      BY <1>10, WriterHas DEF CallsInv, WritePc
    <3> QED
      BY <1>1, <1>3, <3>1 DEF Fresh, Live
  <2>3. Copy' = Copy \/ Copy' = [Copy EXCEPT ![i] = dinode[i]]
    BY <1>6, <1>8, <2>1, <2>2
  <2>4. Refs' = [Refs EXCEPT ![i] = Refs[i] + 1]
    BY <1>6, <1>8, <1>10, <2>1
  <2> QED
    BY <1>2, <1>4, <2>1, <2>3, <2>4 DEF Promise!Iget, InUse
<1> QED
  BY <1>4, <1>9, <1>10

LEMMA RefinesIgetTake ==
  ASSUME CallsInv, CallsInv', NEW p \in Slot, IgetTake(p)
  PROVE  \E i \in Inum : Promise!Iget(i)
<1>1. /\ InodeInv /\ InodeTypes /\ SlotTypes /\ Seen(p) /\ Place(p) /\ OneSlot /\ OneSlot'
  BY DEF CallsInv, TablesInv, InodeInv, SlotInv
<1>2. PICK i \in Inum : i = want[p] /\ InUse(i)
  BY <1>1 DEF IgetTake, Place, InIget, InUse
<1>3. PICK z \in Islot : z = empty[p] /\ ref[z] <= 0
  BY <1>1 DEF IgetTake, Seen, SlotTypes
<1>4. /\ ref' = [ref EXCEPT ![z] = 1] /\ inum' = [inum EXCEPT ![z] = i]
      /\ valid' = [valid EXCEPT ![z] = FALSE] /\ UNCHANGED <<mem, bitmap, dinode>>
  BY <1>2, <1>3 DEF IgetTake, disk
<1>5. Hit(z, i)' /\ ref'[z] = 1 /\ ~valid'[z]
  BY <1>1, <1>4 DEF Hit, SlotTypes, InodeTypes
<1>6. Refs'[i] = 1 /\ Copy'[i] = NotLoaded
  BY <1>1, <1>5, TheSlotNext
<1>7. Refs[i] = 0 /\ Copy[i] = NotLoaded
  BY <1>1, <1>2, NoSlot DEF IgetTake, Seen
<1>8. ASSUME NEW j \in Inum \ {i}
      PROVE  Refs'[j] = Refs[j] /\ Copy'[j] = Copy[j]
  <2>1. \A s \in Islot : (Hit(s, j)' <=> Hit(s, j)) /\ (Hit(s, j) => s # z)
    BY <1>1, <1>3, <1>4, <1>8 DEF Hit, SlotTypes
  <2> QED
    BY <1>1, <1>4, <2>1, SlotStays DEF SlotTypes, InodeTypes
<1>9. Refs' = [Refs EXCEPT ![i] = Refs[i] + 1] /\ Copy' = Copy
  BY <1>6, <1>7, <1>8, OneInode
<1> QED
  BY <1>2, <1>4, <1>9 DEF Promise!Iget, InUse

\* A step on the fields of one slot changes one copy, and no count.
LEMMA OneCopy ==
  ASSUME CallsInv, CallsInv', UNCHANGED <<ref, inum>>, NEW z \in Islot, NEW i \in Inum,
         Hit(z, i),
         \A s \in Islot \ {z} : valid'[s] = valid[s] /\ mem'[s] = mem[s]
  PROVE  /\ Refs' = Refs /\ Refs[i] = ref[z]
         /\ Copy' = [Copy EXCEPT ![i] = Copy'[i]] /\ (Copy'[i] = Copy[i] => Copy' = Copy)
         /\ Copy[i] = (IF valid[z] THEN mem[z] ELSE NotLoaded)
         /\ Copy'[i] = (IF valid'[z] THEN mem'[z] ELSE NotLoaded)
<1>1. OneSlot /\ OneSlot' /\ \A s, j : Hit(s, j)' <=> Hit(s, j)
  BY DEF CallsInv, TablesInv, SlotInv, Hit
<1>2. /\ Refs[i] = ref[z] /\ Refs'[i] = ref[z]
      /\ Copy[i] = (IF valid[z] THEN mem[z] ELSE NotLoaded)
      /\ Copy'[i] = (IF valid'[z] THEN mem'[z] ELSE NotLoaded)
  BY <1>1, TheSlot, TheSlotNext
<1>3. ASSUME NEW j \in Inum \ {i}
      PROVE  Refs'[j] = Refs[j] /\ Copy'[j] = Copy[j]
  <2>1. \A s \in Islot : Hit(s, j) => s # z
    BY <1>3 DEF Hit
  <2> QED
    BY <1>1, <2>1, SlotStays
<1> QED
  BY <1>2, <1>3, OneInode

\* A step on a slot that holds no inode in use changes none.
LEMMA NoCopies ==
  ASSUME CallsInv, CallsInv', NEW z \in Islot,
         \A s \in Islot, i \in Inum : Hit(s, i)' <=> Hit(s, i),
         \A s \in Islot \ {z} :
           ref'[s] = ref[s] /\ valid'[s] = valid[s] /\ (valid[s] => mem'[s] = mem[s]),
         \A i \in Inum : Hit(z, i) =>
           ref'[z] = ref[z] /\ valid'[z] = valid[z] /\ (valid[z] => mem'[z] = mem[z])
  PROVE  Refs' = Refs /\ Copy' = Copy
<1>1. OneSlot /\ OneSlot'
  BY DEF CallsInv, TablesInv, SlotInv
<1>2. \A i \in Inum : Refs'[i] = Refs[i] /\ Copy'[i] = Copy[i]
  BY <1>1, SlotStays
<1>3. 1 \in Inum
  BY CallsAssumption DEF CallsAssumption, Inum
<1> QED
  BY <1>2, <1>3, OneInode

LEMMA RefinesIlockValid ==
  ASSUME CallsInv, CallsInv', NEW p \in Slot, IlockValid(p)
  PROVE  \E i \in Inum : Promise!Ilock(i)
<1>1. /\ InodeInv /\ InodeTypes /\ Place(p) /\ Validity /\ Balance /\ Fresh
  BY DEF CallsInv, TablesInv, InodeInv, RefInv
<1>2. PICK z \in Islot : z = ip[p] /\ Loaded(z) /\ ~valid[z] /\ mem[z] = dinode[inum[z]]
  BY <1>1 DEF IlockValid, Place, Loaded, Named, Validity, Fresh
<1>3. PICK i \in Inum : i = inum[z]
  BY <1>1, <1>2 DEF InodeInv, Loaded, InUse
<1>4. ref[z] > 0
  <2>1. z \in Islot /\ p \in HoldersOf(z)
    BY <1>2 DEF HoldersOf, HasInode, IlockValid, OpenPc
  <2> QED
    BY <1>1, <2>1, Counting
<1>5. valid' = [valid EXCEPT ![z] = TRUE] /\ UNCHANGED <<ref, inum, mem, bitmap, dinode>>
  BY <1>2 DEF IlockValid, disk
<1>6. /\ Refs' = Refs /\ Refs[i] = ref[z]
      /\ Copy' = [Copy EXCEPT ![i] = dinode[i]] /\ Copy[i] = NotLoaded
  <2>1. Hit(z, i) /\ valid'[z] /\ \A s \in Islot \ {z} : valid'[s] = valid[s] /\ mem'[s] = mem[s]
    BY <1>1, <1>3, <1>4, <1>5 DEF Hit, InodeTypes
  <2>2. /\ Refs' = Refs /\ Refs[i] = ref[z]
        /\ Copy' = [Copy EXCEPT ![i] = Copy'[i]]
        /\ Copy[i] = (IF valid[z] THEN mem[z] ELSE NotLoaded)
        /\ Copy'[i] = (IF valid'[z] THEN mem'[z] ELSE NotLoaded)
    BY <1>5, <2>1, OneCopy
  <2> QED
    BY <1>2, <1>3, <1>5, <2>1, <2>2
<1> QED
  BY <1>4, <1>5, <1>6 DEF Promise!Ilock

LEMMA RefinesGrow ==
  ASSUME CallsInv, CallsInv', NEW p \in Slot, Grow(p)
  PROVE  \E i \in Inum : Promise!Grow(i)
<1>1. /\ InodeInv /\ InodeTypes /\ Fresh /\ pc[p] = "grow" /\ pc[p] \in WritePc
  BY Zenon DEF CallsInv, TablesInv, InodeInv, Grow, WritePc
<1>2. PICK z \in Islot : z = ip[p] /\ Loaded(z) /\ valid[z] /\ ref[z] > 0
  BY <1>1, WriterHas DEF CallsInv
<1>3. PICK i \in Inum : i = inum[z]
  BY <1>1, <1>2 DEF InodeInv, Loaded, InUse
<1>4. /\ off[f[p]] = mem[z].size /\ mem[z] \in Inode
  BY <1>1, <1>2 DEF Fresh, InodeTypes
<1>5. /\ mem' = [mem EXCEPT ![z].size = off[f[p]] + 1]
      /\ UNCHANGED <<ref, inum, valid, bitmap, dinode>>
  BY <1>2, Zenon DEF Grow, disk
<1>6. [mem[z] EXCEPT !.size = off[f[p]] + 1] = [mem[z] EXCEPT !.size = mem[z].size + 1]
  BY <1>4
<1> DEFINE new == [mem[z] EXCEPT !.size = mem[z].size + 1]
<1>7. mem' = [mem EXCEPT ![z] = new]
  BY <1>5, <1>6, Zenon
<1>8. /\ Refs' = Refs /\ Copy' = [Copy EXCEPT ![i] = new] /\ Copy[i] = mem[z]
  <2> HIDE DEF new
  <2>1. /\ Hit(z, i) /\ valid'[z] /\ mem'[z] = new
        /\ \A s \in Islot \ {z} : valid'[s] = valid[s] /\ mem'[s] = mem[s]
    BY <1>1, <1>2, <1>3, <1>5, <1>7 DEF Hit, InodeTypes
  <2> QED
    BY <1>2, <1>5, <2>1, OneCopy
<1>9. Copy[i] # NotLoaded
  BY <1>2, <1>8 DEF Loaded, NotLoaded
<1>10. Copy' = [Copy EXCEPT ![i] = [Copy[i] EXCEPT !.size = Copy[i].size + 1]]
  BY <1>8
<1>11. Promise!Grow(i)
  BY <1>5, <1>8, <1>9, <1>10, Zenon DEF Promise!Grow
<1> QED
  BY <1>11

LEMMA RefinesIupdate ==
  ASSUME CallsInv, CallsInv', NEW p \in Slot, Iupdate(p)
  PROVE  \E i \in Inum : Promise!Iupdate(i)
<1>1. /\ InodeInv /\ InodeTypes /\ pc[p] \in WritePc /\ OneSlot
  BY DEF CallsInv, TablesInv, InodeInv, SlotInv, Iupdate, WritePc
<1>2. PICK z \in Islot : z = ip[p] /\ Loaded(z) /\ valid[z] /\ ref[z] > 0
  BY <1>1, WriterHas DEF CallsInv
<1>3. PICK i \in Inum : i = inum[z]
  BY <1>1, <1>2 DEF InodeInv, Loaded, InUse
<1>4. dinode' = [dinode EXCEPT ![i] = mem[z]] /\ UNCHANGED <<ref, inum, valid, mem, bitmap>>
  BY <1>2, <1>3 DEF Iupdate, icache
<1>5. Copy[i] = mem[z] /\ mem[z].type = "file"
  BY <1>1, <1>2, <1>3, TheSlot DEF Hit, Loaded
<1>6. Refs' = Refs /\ Copy' = Copy
  BY <1>2, <1>4, NoCopies DEF Hit
<1>7. Copy[i] # NotLoaded
  BY <1>5 DEF NotLoaded
<1>8. dinode' = [dinode EXCEPT ![i] = Copy[i]]
  BY <1>4, <1>5
<1>9. Promise!Iupdate(i)
  BY <1>4, <1>6, <1>7, <1>8 DEF Promise!Iupdate
<1> QED
  BY <1>9

LEMMA RefinesIputDrop ==
  ASSUME CallsInv, CallsInv', NEW p \in Slot, IputDrop(p), ~Revived(p)
  PROVE  (\E i \in Inum : Promise!Drop(i)) \/ UNCHANGED <<bitmap, dinode, Refs, Copy>>
<1>1. /\ InodeTypes /\ Validity
  BY DEF CallsInv, TablesInv, InodeInv, RefInv
<1>2. PICK z \in Islot : z = ip[p] /\ ref[z] = 1 /\ HasInode(p, z)
  BY <1>1 DEF IputDrop, Revived, Validity, HasInode, IputPc
<1>3. valid' = [valid EXCEPT ![z] = FALSE] /\ UNCHANGED <<ref, inum, mem, bitmap, dinode>>
  BY <1>2 DEF IputDrop, disk
<1>4. \A s \in Islot : \A j : Hit(s, j)' <=> Hit(s, j)
  BY <1>3 DEF Hit
<1>5. \A s \in Islot \ {z} : valid'[s] = valid[s] /\ mem'[s] = mem[s]
  BY <1>1, <1>3 DEF InodeTypes
<1>6. CASE valid[z] /\ inum[z] \in Inum
  <2>1. PICK i \in Inum : i = inum[z] /\ Hit(z, i)
    BY <1>2, <1>6 DEF Hit
  <2>2. mem[z] = dinode[i]
    BY <1>2, <1>6, <2>1, LastCopy
  <2>3. /\ Refs' = Refs /\ Refs[i] = ref[z]
        /\ Copy' = [Copy EXCEPT ![i] = Copy'[i]]
        /\ Copy[i] = (IF valid[z] THEN mem[z] ELSE NotLoaded)
        /\ Copy'[i] = (IF valid'[z] THEN mem'[z] ELSE NotLoaded)
    BY <1>3, <1>5, <2>1, OneCopy
  <2>4. Copy' = [Copy EXCEPT ![i] = NotLoaded] /\ Copy[i] = dinode[i]
    BY <1>1, <1>3, <1>6, <2>2, <2>3 DEF InodeTypes
  <2> QED
    BY <1>2, <1>3, <2>3, <2>4 DEF Promise!Drop
<1>7. CASE ~(valid[z] /\ inum[z] \in Inum)
  <2>1. \A i \in Inum : Hit(z, i) => valid'[z] = valid[z]
    BY <1>1, <1>3, <1>7 DEF Hit, InodeTypes
  <2>2. Refs' = Refs /\ Copy' = Copy
    BY <1>3, <1>4, <1>5, <2>1, NoCopies
  <2> QED
    BY <1>3, <2>2
<1> QED
  BY <1>6, <1>7

LEMMA RefinesIputDec ==
  ASSUME CallsInv, CallsInv', NEW p \in Slot, IputDec(p)
  PROVE  (\E i \in Inum : Promise!Iput(i)) \/ UNCHANGED <<bitmap, dinode, Refs, Copy>>
<1>1. /\ InodeTypes /\ SlotTypes /\ Validity /\ Balance /\ OneSlot /\ OneSlot'
  BY DEF CallsInv, TablesInv, SlotInv, InodeInv, RefInv
<1>2. PICK z \in Islot : z = ip[p] /\ HasInode(p, z)
  BY <1>1 DEF IputDec, Validity, HasInode, IputPc
<1>3. ref[z] \in Nat /\ ref[z] > 0
  <2>1. p \in HoldersOf(z)
    BY <1>2 DEF HoldersOf
  <2> QED
    BY <1>1, <2>1, Counting
<1>4. ref' = [ref EXCEPT ![z] = ref[z] - 1] /\ UNCHANGED <<inum, valid, mem, bitmap, dinode>>
  BY <1>2 DEF IputDec, disk
<1>5. CASE inum[z] \in Inum
  <2>1. PICK i \in Inum : i = inum[z] /\ Hit(z, i)
    BY <1>3, <1>5 DEF Hit
  <2>2. Refs[i] = ref[z] /\ Copy[i] = (IF valid[z] THEN mem[z] ELSE NotLoaded)
    BY <1>1, <2>1, TheSlot
  <2>3. ASSUME NEW j \in Inum \ {i}
        PROVE  Refs'[j] = Refs[j] /\ Copy'[j] = Copy[j]
    <3>1. \A s \in Islot : (Hit(s, j)' <=> Hit(s, j)) /\ (Hit(s, j) => s # z)
      BY <1>1, <1>4, <2>1, <2>3 DEF Hit, SlotTypes
    <3> QED
      BY <1>1, <1>4, <3>1, SlotStays DEF SlotTypes
  <2>4. CASE ref[z] > 1
    <3>1. Hit(z, i)' /\ ref'[z] = ref[z] - 1
      BY <1>1, <1>3, <1>4, <2>1, <2>4 DEF Hit, SlotTypes
    <3>2. Refs'[i] = ref[z] - 1 /\ Copy'[i] = Copy[i]
      BY <1>1, <1>4, <2>2, <3>1, TheSlotNext
    <3>3. Refs' = [Refs EXCEPT ![i] = Refs[i] - 1] /\ Copy' = Copy
      BY <2>2, <2>3, <3>2, OneInode
    <3> QED
      BY <1>3, <1>4, <2>2, <2>4, <3>3 DEF Promise!Iput
  <2>5. CASE ref[z] = 1
    <3>1. \A s \in Islot : ~Hit(s, i)'
      BY <1>1, <1>4, <2>1, <2>5 DEF Hit, SlotTypes, OneSlot
    <3>2. Refs'[i] = 0 /\ Copy'[i] = NotLoaded
      BY <3>1, NoSlotNext
    <3>3. Refs' = [Refs EXCEPT ![i] = Refs[i] - 1] /\ Copy' = [Copy EXCEPT ![i] = NotLoaded]
      BY <2>2, <2>3, <2>5, <3>2, OneInode
    <3>4. valid[z] => mem[z] = dinode[i]
      BY <1>2, <2>1, <2>5, LastCopy
    <3>5. Copy[i] \in {NotLoaded, dinode[i]}
      BY <2>2, <3>4
    <3>6. Promise!Iput(i)
      <4>1. Refs[i] > 0 /\ ~(Refs[i] > 1)
        BY <2>2, <2>5
      <4> QED
        BY <1>4, <3>3, <3>5, <4>1, Zenon DEF Promise!Iput
    <3> QED
      BY <3>6
  <2> QED
    BY <1>3, <2>4, <2>5
<1>6. CASE inum[z] \notin Inum
  <2>1. /\ \A s \in Islot, i \in Inum : (Hit(s, i)' <=> Hit(s, i)) /\ ~Hit(z, i)
        /\ \A s \in Islot \ {z} : ref'[s] = ref[s]
    BY <1>1, <1>4, <1>6 DEF Hit, SlotTypes
  <2>2. Refs' = Refs /\ Copy' = Copy
    BY <1>4, <2>1, NoCopies
  <2> QED
    BY <1>4, <2>2
<1> QED
  BY <1>5, <1>6

LEMMA RefinesBallocSet ==
  ASSUME CallsInv, CallsInv', NEW p \in Slot, BallocSet(p)
  PROVE  Promise!Balloc
<1>1. Clear(p) \in Blk \ bitmap
  <2>1. byte[p] = bitmap /\ Blk \ bitmap # {} /\ Blk \ bitmap \in SUBSET Nat
    BY CallsAssumption DEF CallsInv, TablesInv, BlockInv, BallocSet, Blk, CallsAssumption
  <2> QED
    BY <2>1, MinOf DEF Clear
<1>2. bitmap' = bitmap \cup {Clear(p)} /\ UNCHANGED <<ref, inum, valid, mem, dinode>>
  BY DEF BallocSet, icache
<1>3. Refs' = Refs /\ Copy' = Copy
  <2>1. 0 \in Islot
    BY CallsAssumption DEF CallsAssumption, Islot
  <2> QED
    BY <1>2, <2>1, NoCopies DEF Hit
<1> QED
  BY <1>1, <1>2, <1>3 DEF Promise!Balloc

LEMMA RefinesIallocTake ==
  ASSUME CallsInv, CallsInv', NEW p \in Slot, IallocTake(p)
  PROVE  \E i \in Inum : Promise!Ialloc(i)
<1>1. /\ InodeInv /\ InodeTypes /\ Place(p) /\ Balance
  BY DEF CallsInv, TablesInv, InodeInv, RefInv
<1>2. PICK i \in Inum : i = want[p] /\ dinode[i].type = "free"
  BY <1>1 DEF IallocTake, Place
<1>3. /\ dinode' = [dinode EXCEPT ![i] = [type |-> "file", size |-> 0]]
      /\ UNCHANGED <<ref, inum, valid, mem, bitmap>>
  BY <1>2 DEF IallocTake, icache, File
<1>4. Refs[i] = 0
  <2>1. \A s \in Islot : ~Hit(s, i)
    BY <1>1, <1>2 DEF InodeInv, Hit, Named, InUse, Inum
  <2> QED
    BY <2>1, NoSlot
<1>5. Refs' = Refs /\ Copy' = Copy
  <2>1. 0 \in Islot
    BY CallsAssumption DEF CallsAssumption, Islot
  <2> QED
    BY <1>3, <2>1, NoCopies DEF Hit
<1> QED
  BY <1>2, <1>3, <1>4, <1>5 DEF Promise!Ialloc

\* The other statements change nothing that Inodes speaks of.
LEMMA RefinesElsewhere ==
  ASSUME CallsInv, CallsInv', NEW p \in Slot, Step(p), ~Revived(p),
         ~BallocSet(p), ~IallocTake(p), ~IgetHit(p), ~IgetTake(p), ~IlockValid(p), ~Grow(p),
         ~Iupdate(p), ~IputDrop(p), ~IputDec(p)
  PROVE  UNCHANGED <<bitmap, dinode, Refs, Copy>>
<1>1. /\ InodeTypes /\ Place(p) /\ Validity
      /\ UNCHANGED <<bitmap, dinode, ref, inum>>
  BY Stores DEF CallsInv, TablesInv, InodeInv, RefInv
<1>2. \A s \in Islot : \A j : Hit(s, j)' <=> Hit(s, j)
  BY <1>1 DEF Hit
<1>3. CASE IlockLoad(p)
  <2>1. ip[p] \in Islot /\ ~valid[ip[p]] /\ valid' = valid
    BY <1>1, <1>3 DEF IlockLoad, Place, Named, Validity
  <2>2. mem' = [mem EXCEPT ![ip[p]] = dinode[inum[ip[p]]]]
    BY <1>3 DEF IlockLoad
  <2>3. \A s \in Islot \ {ip[p]} : mem'[s] = mem[s]
    BY <1>1, <2>1, <2>2 DEF InodeTypes
  <2>4. Refs' = Refs /\ Copy' = Copy
    BY <1>1, <1>2, <2>1, <2>3, NoCopies
  <2> QED
    BY <1>1, <2>4
<1>4. CASE IputClear(p)
  <2>1. /\ ip[p] \in Islot /\ ref[ip[p]] = 0 /\ mem' = mem
        /\ valid' = [valid EXCEPT ![ip[p]] = FALSE]
    BY <1>1, <1>4 DEF IputClear, Validity, Revived
  <2>2. \A s \in Islot \ {ip[p]} : valid'[s] = valid[s]
    BY <1>1, <2>1 DEF InodeTypes
  <2>3. \A i \in Inum : ~Hit(ip[p], i)
    BY <2>1 DEF Hit
  <2>4. Refs' = Refs /\ Copy' = Copy
    BY <1>1, <1>2, <2>1, <2>2, <2>3, NoCopies
  <2> QED
    BY <1>1, <2>4
<1>5. CASE ~IlockLoad(p) /\ ~IputClear(p)
  <2>1. valid' = valid /\ mem' = mem
    BY <1>5, Stores
  <2>2. 0 \in Islot
    BY CallsAssumption DEF CallsAssumption, Islot
  <2>3. Refs' = Refs /\ Copy' = Copy
    BY <1>1, <1>2, <2>1, <2>2, NoCopies
  <2> QED
    BY <1>1, <2>3
<1> QED
  BY <1>3, <1>4, <1>5

LEMMA RefinesStep ==
  ASSUME CallsInv, CallsInv', Next
  PROVE  [Promise!Next]_<<bitmap, dinode, Refs, Copy>>
<1>1. PICK p \in Slot : Step(p)
  BY DEF Next
<1>2. ~Revived(p)
  BY DEF Next
<1>3. CASE BallocSet(p)
  BY <1>3, RefinesBallocSet DEF Promise!Next
<1>4. CASE IallocTake(p)
  BY <1>4, RefinesIallocTake DEF Promise!Next
<1>5. CASE IgetHit(p)
  BY <1>5, RefinesIgetHit DEF Promise!Next
<1>6. CASE IgetTake(p)
  BY <1>6, RefinesIgetTake DEF Promise!Next
<1>7. CASE IlockValid(p)
  BY <1>7, RefinesIlockValid DEF Promise!Next
<1>8. CASE Grow(p)
  BY <1>8, RefinesGrow DEF Promise!Next
<1>9. CASE Iupdate(p)
  BY <1>9, RefinesIupdate DEF Promise!Next
<1>10. CASE IputDrop(p)
  BY <1>2, <1>10, RefinesIputDrop DEF Promise!Next
<1>11. CASE IputDec(p)
  BY <1>11, RefinesIputDec DEF Promise!Next
<1>12. CASE /\ ~BallocSet(p) /\ ~IallocTake(p) /\ ~IgetHit(p) /\ ~IgetTake(p) /\ ~IlockValid(p)
            /\ ~Grow(p) /\ ~Iupdate(p) /\ ~IputDrop(p) /\ ~IputDec(p)
  BY <1>1, <1>2, <1>12, RefinesElsewhere
<1> QED
  BY <1>3, <1>4, <1>5, <1>6, <1>7, <1>8, <1>9, <1>10, <1>11, <1>12

LEMMA RefinesStutter ==
  ASSUME UNCHANGED vars
  PROVE  UNCHANGED <<bitmap, dinode, Refs, Copy>>
<1>1. UNCHANGED <<bitmap, dinode, ref, inum, valid, mem>>
  BY DEF vars, icache, disk
<1> QED
  BY <1>1 DEF Refs, Copy, SlotsOf, Hit

LEMMA RefinesInit == Init => Promise!Init
<1> SUFFICES ASSUME Init PROVE Promise!Init
  OBVIOUS
<1>1. bitmap \subseteq Blk
  BY CallsAssumption DEF Init, Blk, CallsAssumption
<1>2. \A i \in Inum : \A s \in Islot : ~Hit(s, i)
  BY DEF Init, Hit
<1> QED
  BY <1>1, <1>2, NoSlot DEF Promise!Init

\* balloc, ialloc, iget, ilock, writei, iupdate and iput, statement by statement and with
\* any number of other processes in between, do what Inodes promises: a block and an
\* inode are handed out once, an inode in use has one copy in memory, and no change to
\* its size is lost when the copy goes, up to the first conflict.
THEOREM CallsImplementInodes == Spec => ImplementsInodes
<1>1. CallsInv /\ CallsInv' /\ [Next]_vars => [Promise!Next]_<<bitmap, dinode, Refs, Copy>>
  BY RefinesStep, RefinesStutter
<1>2. [Promise!Next]_<<bitmap, dinode, Refs, Copy>> <=> [Promise!Next]_(Promise!inodes)
  BY DEF Promise!inodes
<1> QED
  BY <1>1, <1>2, RefinesInit, CallsInvariance, PTL DEF Spec, ImplementsInodes, Promise!Spec
=============================================================================
