------------------------------ MODULE BioProofs ------------------------------
(***************************************************************************)
(* The buffer cache with one process in the file system, over the driver   *)
(* of VirtioProofs: the ring of bcache through unlink and insert, what the *)
(* search of bget has seen, in which order the idle buffers stand in the   *)
(* ring, and who may change a buffer; then, that what the callers see is   *)
(* BlockStore.                                                             *)
(***************************************************************************)
EXTENDS VirtioProofs, WellFoundedInduction, SequenceTheorems

At == at[Caller]
Want == want[Caller]
Holds == held[Caller]

-----------------------------------------------------------------------------
(* The ring                                                                *)

\* n and p run through all of N, in opposite directions.
Intact(N, n, p) ==
  /\ \A x \in N : n[x] \in N /\ p[x] \in N /\ n[p[x]] = x /\ p[n[x]] = x
  /\ \A S \in SUBSET N : Sentinel \in S /\ (\A x \in S : n[x] \in S) => S = N

\* brelse takes a out of the ring ...
LEMMA Unlink ==
  ASSUME NEW n \in [Node -> Node], NEW p \in [Node -> Node], Intact(Node, n, p),
         NEW a \in Node, a # Sentinel
  PROVE  Intact(Node \ {a}, [n EXCEPT ![p[a]] = n[a]], [p EXCEPT ![n[a]] = p[a]])
<1> DEFINE m == [n EXCEPT ![p[a]] = n[a]]
           q == [p EXCEPT ![n[a]] = p[a]]
           N == Node \ {a}
<1>1. \A x \in Node : n[x] \in Node /\ p[x] \in Node /\ n[p[x]] = x /\ p[n[x]] = x
  BY DEF Intact
<1>2. \A S \in SUBSET Node : Sentinel \in S /\ (\A x \in S : n[x] \in S) => S = Node
  BY DEF Intact
<1>3. \A x \in Node : m[x] = (IF x = p[a] THEN n[a] ELSE n[x])
                      /\ q[x] = (IF x = n[a] THEN p[a] ELSE p[x])
  OBVIOUS
<1>4. n[a] # a /\ p[a] # a
  <2>1. Sentinel \in N /\ N # Node
    BY DEF Node
  <2>2. PICK x \in N : n[x] \notin N
    BY <1>2, <2>1
  <2>3. n[x] = a /\ p[a] = x
    BY <1>1, <2>2
  <2> QED
    BY <1>1, <2>3
<1>5. \A x \in N : m[x] \in N /\ q[x] \in N /\ m[q[x]] = x /\ q[m[x]] = x
  BY <1>1, <1>3, <1>4
<1>6. ASSUME NEW S \in SUBSET N, Sentinel \in S, \A x \in S : m[x] \in S
      PROVE  S = N
  <2>1. p[a] \in S
    <3>1. SUFFICES ASSUME p[a] \notin S PROVE FALSE
      OBVIOUS
    <3>2. \A x \in S : n[x] \in S
      BY <1>3, <1>6, <3>1
    <3> QED
      BY <1>2, <1>6, <3>2
  <2>2. n[a] \in S
    BY <1>1, <1>3, <1>6, <2>1
  <2>3. \A x \in S \cup {a} : n[x] \in S \cup {a}
    BY <1>1, <1>3, <1>6, <2>2
  <2>4. S \cup {a} \in SUBSET Node /\ Sentinel \in S \cup {a}
    BY <1>6
  <2>5. S \cup {a} = Node
    BY <1>2, <2>3, <2>4, Zenon
  <2> QED
    BY <1>6, <2>5
<1> QED
  BY <1>5, <1>6 DEF Intact

\* ... and puts it back behind the sentinel.
LEMMA Insert ==
  ASSUME NEW n \in [Node -> Node], NEW p \in [Node -> Node],
         NEW a \in Node, a # Sentinel, Intact(Node \ {a}, n, p)
  PROVE  Intact(Node, [n EXCEPT ![a] = n[Sentinel], ![Sentinel] = a],
                      [p EXCEPT ![a] = Sentinel, ![n[Sentinel]] = a])
<1> DEFINE m == [n EXCEPT ![a] = n[Sentinel], ![Sentinel] = a]
           q == [p EXCEPT ![a] = Sentinel, ![n[Sentinel]] = a]
           N == Node \ {a}
<1>1. \A x \in N : n[x] \in N /\ p[x] \in N /\ n[p[x]] = x /\ p[n[x]] = x
  BY DEF Intact
<1>2. \A S \in SUBSET N : Sentinel \in S /\ (\A x \in S : n[x] \in S) => S = N
  BY DEF Intact
<1>3. Sentinel \in N
  BY DEF Node
<1>4. \A x \in Node :
        /\ m[x] = (IF x = Sentinel THEN a ELSE IF x = a THEN n[Sentinel] ELSE n[x])
        /\ q[x] = (IF x = n[Sentinel] THEN a ELSE IF x = a THEN Sentinel ELSE p[x])
  BY <1>1, <1>3
<1>5. \A x \in Node : m[x] \in Node /\ q[x] \in Node /\ m[q[x]] = x /\ q[m[x]] = x
  BY <1>1, <1>3, <1>4
<1>6. ASSUME NEW S \in SUBSET Node, Sentinel \in S, \A x \in S : m[x] \in S
      PROVE  S = Node
  <2>1. a \in S /\ n[Sentinel] \in S
    BY <1>3, <1>4, <1>6
  <2>2. \A x \in S \ {a} : n[x] \in S \ {a}
    BY <1>1, <1>3, <1>4, <1>6, <2>1
  <2>3. S \ {a} = N
    BY <1>2, <1>3, <1>6, <2>2
  <2> QED
    BY <2>1, <2>3
<1> QED
  BY <1>5, <1>6 DEF Intact

\* A set of naturals has a least element.
LEMMA Least ==
  ASSUME NEW T \in SUBSET Nat, T # {}
  PROVE  \E x \in T : \A y \in T : x <= y
<1>1. IsWellFoundedOn(OpToRel(<, Nat), Nat)
  BY NatLessThanWellFounded
<1>2. PICK x \in T : \A y \in T : ~(<<y, x>> \in OpToRel(<, Nat))
  BY <1>1, WFMin
<1>3. \A y \in T : ~(y < x)
  BY <1>2 DEF OpToRel
<1> QED
  BY <1>3

\* binit leaves a ring.
LEMMA InitRing ==
  ASSUME BioInit
  PROVE  Intact(Node, next, prev)
<1> USE VirtioAssumption DEF VirtioAssumption, Node, Bufs, Sentinel
<1>1. \A x \in Node : /\ next[x] = (IF x = -1 THEN NBUF - 1 ELSE x - 1)
                      /\ prev[x] = (IF x = NBUF - 1 THEN -1 ELSE x + 1)
  BY DEF BioInit
<1>2. \A x \in Node : next[x] \in Node /\ prev[x] \in Node
  BY <1>1
<1>3. \A x \in Node : next[prev[x]] = x /\ prev[next[x]] = x
  BY <1>1, <1>2
<1>4. ASSUME NEW S \in SUBSET Node, -1 \in S, \A x \in S : next[x] \in S
      PROVE  S = Node
  <2> DEFINE Missed == {k \in 0 .. NBUF - 1 : NBUF - 1 - k \notin S}
  <2>1. SUFFICES ASSUME S # Node PROVE FALSE
    OBVIOUS
  <2>2. PICK b \in Node : b \notin S
    BY <1>4, <2>1
  <2>3. Missed # {}
    <3>1. b \in 0 .. NBUF - 1
      BY <1>4, <2>2
    <3>2. NBUF - 1 - b \in 0 .. NBUF - 1 /\ NBUF - 1 - (NBUF - 1 - b) = b
      BY <3>1
    <3> QED
      BY <2>2, <3>2
  <2>4. PICK k \in Missed : \A j \in Missed : k <= j
    <3>1. Missed \in SUBSET Nat
      OBVIOUS
    <3> HIDE DEF Missed
    <3> QED
      BY <2>3, <3>1, Least, Zenon
  <2>5. k # 0
    <3>1. NBUF - 1 \in S
      BY <1>1, <1>4
    <3> QED
      BY <3>1
  <2>6. NBUF - 1 - (k - 1) \in S
    <3>1. k - 1 \notin Missed
      BY <2>4, <2>5
    <3> QED
      BY <2>5, <3>1
  <2>7. next[NBUF - 1 - (k - 1)] = NBUF - 1 - k
    BY <1>1, <2>5
  <2> QED
    BY <1>4, <2>6, <2>7
<1> QED
  BY <1>2, <1>3, <1>4 DEF Intact

-----------------------------------------------------------------------------
(* The invariant                                                           *)

CacheType ==
  /\ pc \in [Callers -> RwPc \cup BioPc] /\ blockno \in [Bufs -> Blocks \cup {NoBlock}]
  /\ valid \in [Bufs -> BOOLEAN] /\ refcnt \in [Bufs -> Nat]
  /\ next \in [Node -> Node] /\ prev \in [Node -> Node]
  /\ at \in [Callers -> Node] /\ want \in [Callers -> Blocks \cup {NoBlock}]
  /\ held \in [Callers -> SUBSET Bufs] /\ dirty \in [Callers -> SUBSET Bufs]

\* The buffers the caller counts in: those it holds and the one it is getting.
Counted(b) ==
  \/ b \in Holds
  \/ Here = "bread_test" /\ b = At
  \/ Here \in RwPc /\ b = Request.b

\* bget at x has not passed a buffer with its block: from x on, the ring reaches
\* them all before the sentinel.
NotPassed(x) ==
  \A S \in SUBSET Node :
    x \in S /\ (\A y \in S \ {Sentinel} : next[y] \in S) =>
      \A b \in Bufs : blockno[b] = Want => b \in S

NoneCaches(blk) == \A b \in Bufs : blockno[b] # blk

CacheInv ==
  /\ OneCopy
  /\ Here # "panic" => \A b \in Bufs : refcnt[b] = IF Counted(b) THEN 1 ELSE 0
  /\ \A b \in Holds : valid[b] /\ blockno[b] \in Blocks
  /\ dirty[Caller] \subseteq Holds
  /\ Here \in {"bget_find", "bget_ref", "bget_evict", "bget_take", "bread_test"} =>
       Want \in Blocks /\ \A b \in Holds : blockno[b] # Want
  /\ Here = "bget_find" => NotPassed(At)
  /\ Here \in {"bget_evict", "bget_take"} => NoneCaches(Want)
  /\ Here \in {"bget_ref", "bread_test"} => At \in Bufs /\ blockno[At] = Want
  /\ Here = "bget_take" => At \in Bufs /\ refcnt[At] = 0
  /\ Here \in {"brelse_unlink", "brelse_insert"} => At \in Bufs
  /\ Here \in RwPc => (Request.write <=> Request.b \in Holds)
  /\ IF Here = "brelse_insert" THEN Intact(Node \ {At}, next, prev) ELSE Intact(Node, next, prev)

CacheOK == CacheType /\ CacheInv

-----------------------------------------------------------------------------
(* bread and bget                                                          *)

\* A step of the driver or the device leaves the cache's side alone.
LEMMA CacheKept ==
  ASSUME OneCaller, CacheOK, UNCHANGED <<cache, users, blockno>>, Request' = Request,
         pc' \in [Callers -> RwPc \cup BioPc],
         Here' = Here \/ (Here \in RwPc /\ Here' \in RwPc \cup {"panic"})
  PROVE  CacheOK'
<1>1. CacheType'
  BY DEF CacheOK, CacheType, cache, users, ring
<1>2. At' = At /\ Want' = Want /\ Holds' = Holds /\ OneCopy' = OneCopy
      /\ UNCHANGED <<valid, refcnt, next, prev, dirty, blockno>>
  BY DEF cache, users, ring, At, Want, Holds, OneCopy
<1>3. CASE Here' = Here
  BY <1>1, <1>2, <1>3 DEF CacheOK, CacheInv, Counted, NotPassed, NoneCaches
<1>4. CASE Here \in RwPc /\ Here' \in RwPc \cup {"panic"}
  BY <1>1, <1>2, <1>4 DEF CacheOK, CacheInv, Counted, RwPc
<1> QED
  BY <1>3, <1>4

LEMMA BreadStep ==
  ASSUME OneCaller, CacheOK, NEW blk \in Blocks, Bread(Caller, blk)
  PROVE  CacheOK'
<1> USE CallerIsOne DEF OneCaller
<1>1. Here = "fs" /\ Intact(Node, next, prev)
  BY DEF CacheOK, CacheInv, Bread, Here
<1>2. /\ Here' = "bget_find" /\ At' = next[Sentinel] /\ Want' = blk
      /\ Holds' = Holds /\ Request' = Request
      /\ UNCHANGED <<cache, blockno, held, dirty>>
  BY DEF CacheOK, CacheType, Bread, Goto, Here, At, Want, Holds, request, locals, Request
<1>3. CacheType'
  BY <1>2 DEF CacheOK, CacheType, Bread, Goto, BioPc, cache, ring, Node, Sentinel
<1>4. NotPassed(At)'
  <2>1. SUFFICES ASSUME NEW S \in SUBSET Node, next[Sentinel] \in S,
                        \A y \in S \ {Sentinel} : next[y] \in S
                 PROVE  Bufs \subseteq S
    BY <1>2 DEF NotPassed, cache, ring
  <2>2. \A y \in S \cup {Sentinel} : next[y] \in S \cup {Sentinel}
    BY <2>1
  <2>3. S \cup {Sentinel} \in SUBSET Node /\ Sentinel \in S \cup {Sentinel}
    BY DEF Node
  <2>4. S \cup {Sentinel} = Node
    BY <1>1, <2>2, <2>3, Zenon DEF Intact
  <2>5. Sentinel \notin Bufs
    BY VirtioAssumption DEF VirtioAssumption, Sentinel, Bufs
  <2> QED
    BY <2>4, <2>5 DEF Node
<1>5. OneCopy' /\ \A b \in Holds : blockno[b] # blk
  BY <1>2 DEF CacheOK, CacheInv, OneCopy, Bread, Holds
<1> QED
  BY <1>1, <1>2, <1>3, <1>4, <1>5 DEF CacheOK, CacheInv, Counted, cache, ring, RwPc

LEMMA BgetFindStep ==
  ASSUME OneCaller, CacheOK, BgetFind(Caller)
  PROVE  CacheOK'
<1> USE CallerIsOne DEF OneCaller
<1>1. /\ Here = "bget_find" /\ NotPassed(At) /\ At \in Node /\ Want \in Blocks
      /\ Want' = Want /\ Holds' = Holds /\ Request' = Request
      /\ UNCHANGED <<valid, refcnt, next, prev, blockno, held, dirty, want>>
  BY DEF CacheOK, CacheType, CacheInv, BgetFind, Here, cache, ring, request, locals, At, Want, Holds,
         Request
<1>2. CacheType'
  BY <1>1 DEF CacheOK, CacheType, BgetFind, Goto, BioPc, Node, Sentinel, At
<1>3. OneCopy'
  BY <1>1 DEF CacheOK, CacheInv, OneCopy
<1>4. CASE At = Sentinel
  <2>1. Here' = "bget_evict"
    BY <1>4 DEF CacheOK, CacheType, BgetFind, Goto, Here, At
  <2>2. NoneCaches(Want)
    <3>1. {Sentinel} \in SUBSET Node /\ \A y \in {Sentinel} \ {Sentinel} : next[y] \in {Sentinel}
      BY DEF Node
    <3>2. \A b \in Bufs : blockno[b] = Want => b \in {Sentinel}
      BY <1>1, <1>4, <3>1, Zenon DEF NotPassed
    <3>3. Sentinel \notin Bufs
      BY VirtioAssumption DEF VirtioAssumption, Sentinel, Bufs
    <3> QED
      BY <3>2, <3>3 DEF NoneCaches
  <2> QED
    BY <1>1, <1>2, <1>3, <2>1, <2>2 DEF CacheOK, CacheInv, Counted, NoneCaches, RwPc
<1>5. CASE At # Sentinel /\ blockno[At] = Want
  <2>1. Here' = "bget_ref" /\ At' = At /\ At \in Bufs
    BY <1>1, <1>5 DEF CacheOK, CacheType, BgetFind, Goto, Here, At, Want, Node
  <2> QED
    BY <1>1, <1>2, <1>3, <1>5, <2>1 DEF CacheOK, CacheInv, Counted, RwPc
<1>6. CASE At # Sentinel /\ blockno[At] # Want
  <2>1. Here' = "bget_find" /\ At' = next[At] /\ At \in Bufs
    BY <1>1, <1>6 DEF CacheOK, CacheType, BgetFind, Here, At, Want, Node
  <2>2. NotPassed(At)'
    <3>1. SUFFICES ASSUME NEW S \in SUBSET Node, next[At] \in S,
                          \A y \in S \ {Sentinel} : next[y] \in S,
                          NEW b \in Bufs, blockno[b] = Want
                   PROVE  b \in S
      BY <1>1, <2>1 DEF NotPassed
    <3>2. S \cup {At} \in SUBSET Node /\ At \in S \cup {At}
          /\ \A y \in (S \cup {At}) \ {Sentinel} : next[y] \in S \cup {At}
      BY <1>1, <3>1
    <3>3. b \in S \cup {At}
      BY <1>1, <3>1, <3>2, Zenon DEF NotPassed
    <3> QED
      BY <1>6, <3>1, <3>3
  <2> QED
    BY <1>1, <1>2, <1>3, <2>1, <2>2 DEF CacheOK, CacheInv, Counted, RwPc
<1> QED
  BY <1>4, <1>5, <1>6

LEMMA BgetRefStep ==
  ASSUME OneCaller, CacheOK, BgetRef(Caller)
  PROVE  CacheOK'
<1> USE CallerIsOne DEF OneCaller
<1>1. /\ Here = "bget_ref" /\ At \in Bufs /\ blockno[At] = Want
      /\ Here' = "bread_test" /\ refcnt' = [refcnt EXCEPT ![At] = @ + 1]
      /\ At' = At /\ Want' = Want /\ Holds' = Holds /\ Request' = Request
      /\ UNCHANGED <<valid, next, prev, blockno, held, dirty, want, at>>
  BY DEF CacheOK, CacheType, CacheInv, BgetRef, Goto, Here, users, ring, request, locals, At, Want,
         Holds, Request
<1>2. CacheType'
  BY <1>1 DEF CacheOK, CacheType, BgetRef, Goto, BioPc
<1>3. At \notin Holds
  BY <1>1 DEF CacheOK, CacheInv
<1>4. \A b \in Bufs : refcnt'[b] = IF Counted(b)' THEN 1 ELSE 0
  BY <1>1, <1>3 DEF CacheOK, CacheType, CacheInv, Counted, RwPc
<1> QED
  BY <1>1, <1>2, <1>4 DEF CacheOK, CacheInv, OneCopy, RwPc

LEMMA BgetEvictStep ==
  ASSUME OneCaller, CacheOK, BgetEvict(Caller)
  PROVE  CacheOK'
<1> USE CallerIsOne DEF OneCaller
<1>1. /\ Here = "bget_evict" /\ NoneCaches(Want) /\ At \in Node
      /\ Want' = Want /\ Holds' = Holds /\ Request' = Request
      /\ UNCHANGED <<valid, refcnt, next, prev, blockno, held, dirty, want>>
  BY DEF CacheOK, CacheType, CacheInv, BgetEvict, Here, cache, ring, request, locals, At, Want, Holds,
         Request
<1>2. CacheType'
  BY <1>1 DEF CacheOK, CacheType, BgetEvict, Goto, BioPc, At
<1>3. \/ Here' = "panic"
      \/ Here' = "bget_take" /\ At' = At /\ At \in Bufs /\ refcnt[At] = 0
      \/ Here' = "bget_evict"
  BY <1>1 DEF CacheOK, CacheType, BgetEvict, Goto, Here, At, Node
<1> QED
  BY <1>1, <1>2, <1>3 DEF CacheOK, CacheInv, Counted, OneCopy, NoneCaches, RwPc

LEMMA BgetTakeStep ==
  ASSUME OneCaller, CacheOK, BgetTake(Caller)
  PROVE  CacheOK'
<1> USE CallerIsOne DEF OneCaller
<1>1. /\ Here = "bget_take" /\ At \in Bufs /\ refcnt[At] = 0 /\ NoneCaches(Want) /\ Want \in Blocks
      /\ Here' = "bread_test" /\ refcnt' = [refcnt EXCEPT ![At] = 1]
      /\ blockno' = [blockno EXCEPT ![At] = Want] /\ valid' = [valid EXCEPT ![At] = FALSE]
      /\ At' = At /\ Want' = Want /\ Holds' = Holds /\ Request' = Request
      /\ UNCHANGED <<next, prev, held, dirty, want, at>>
  BY DEF CacheOK, CacheType, CacheInv, BgetTake, Goto, Here, users, ring, request, locals, At, Want,
         Holds, Request
<1>2. CacheType'
  BY <1>1 DEF CacheOK, CacheType, BgetTake, Goto, BioPc
<1>3. At \notin Holds
  BY <1>1 DEF CacheOK, CacheInv, Counted
<1>4. \A b \in Bufs : refcnt'[b] = IF Counted(b)' THEN 1 ELSE 0
  BY <1>1, <1>3 DEF CacheOK, CacheType, CacheInv, Counted, RwPc
<1>5. OneCopy'
  BY <1>1 DEF CacheOK, CacheType, CacheInv, OneCopy, NoneCaches
<1>6. \A b \in Holds : valid'[b] /\ blockno'[b] = blockno[b]
  BY <1>1, <1>3 DEF CacheOK, CacheType, CacheInv, Holds
<1> QED
  BY <1>1, <1>2, <1>3, <1>4, <1>5, <1>6 DEF CacheOK, CacheType, CacheInv, RwPc

\* bread returns a valid buffer, or starts to read it.
LEMMA BreadTestStep ==
  ASSUME OneCaller, DriverType, CacheOK, BreadTest(Caller)
  PROVE  CacheOK'
<1> USE CallerIsOne DEF OneCaller
<1>1. /\ Here = "bread_test" /\ At \in Bufs /\ blockno[At] = Want /\ Want \in Blocks
      /\ At \notin Holds
      /\ UNCHANGED <<valid, refcnt, next, prev, blockno, dirty>>
  BY DEF CacheOK, CacheType, CacheInv, BreadTest, RwCall, bufs, Here, cache, ring, At, Want, Holds
<1>2. CASE valid[At]
  <2>1. Here' = "fs" /\ Holds' = Holds \cup {At}
    BY <1>2 DEF CacheOK, CacheType, BreadTest, Return, Goto, Here, Holds, At
  <2>2. CacheType'
    BY <1>1, <1>2 DEF CacheOK, CacheType, BreadTest, Return, Goto, BioPc, Node, Holds, At
  <2>3. \A b \in Bufs : refcnt'[b] = IF Counted(b)' THEN 1 ELSE 0
    BY <1>1, <2>1 DEF CacheOK, CacheInv, Counted, RwPc
  <2> QED
    BY <1>1, <1>2, <2>1, <2>2, <2>3 DEF CacheOK, CacheInv, OneCopy, RwPc
<1>3. CASE ~valid[At]
  <2>1. RwCall(Caller, At, FALSE) /\ UNCHANGED <<at, want, held>>
    BY <1>3 DEF BreadTest, At
  <2>2. /\ Here' = "alloc_test" /\ Request' = [b |-> At, write |-> FALSE] /\ Holds' = Holds
        /\ pc' \in [Callers -> RwPc \cup BioPc]
    BY <2>1 DEF DriverType, RwCall, Goto, Here, Holds, Request, RwPc
  <2>3. \A b \in Bufs : refcnt'[b] = IF Counted(b)' THEN 1 ELSE 0
    BY <1>1, <2>2 DEF CacheOK, CacheInv, Counted, RwPc
  <2>4. CacheType'
    BY <1>1, <2>1, <2>2 DEF CacheOK, CacheType
  <2> QED
    BY <1>1, <2>2, <2>3, <2>4 DEF CacheOK, CacheInv, OneCopy, RwPc
<1> QED
  BY <1>2, <1>3

\* The end of virtio_disk_rw, after a read and after a write.
LEMMA BreadValidStep ==
  ASSUME OneCaller, DriverOK, CacheOK, BreadValid(Caller)
  PROVE  CacheOK'
<1> USE CallerIsOne DEF OneCaller
<1>1. /\ Here = "rw_return" /\ ~Request.write /\ Request.b \in Bufs /\ blockno[Request.b] \in Blocks
      /\ Here' = "fs" /\ valid' = [valid EXCEPT ![Request.b] = TRUE]
      /\ Holds' = Holds \cup {Request.b}
      /\ UNCHANGED <<blockno, refcnt, next, prev, dirty>>
  BY DEF DriverOK, DriverInv, CacheOK, CacheType, BreadValid, Return, Goto, Here, ring, Holds, Request,
         RwPc
<1>2. CacheType'
  BY <1>1 DEF CacheOK, CacheType, BreadValid, Return, Goto, BioPc, Node, Holds, Request
<1>3. \A b \in Bufs : refcnt'[b] = IF Counted(b)' THEN 1 ELSE 0
  BY <1>1 DEF CacheOK, CacheInv, Counted, RwPc
<1>4. \A b \in Holds' : valid'[b] /\ blockno'[b] \in Blocks
  BY <1>1 DEF CacheOK, CacheType, CacheInv, Holds
<1> QED
  BY <1>1, <1>2, <1>3, <1>4 DEF CacheOK, CacheInv, OneCopy, RwPc

LEMMA BwriteReturnStep ==
  ASSUME OneCaller, DriverOK, CacheOK, BwriteReturn(Caller)
  PROVE  CacheOK'
<1> USE CallerIsOne DEF OneCaller
<1>1. /\ Here = "rw_return" /\ Request.write
      /\ Here' = "fs" /\ dirty'[Caller] = dirty[Caller] \ {Request.b}
      /\ Holds' = Holds /\ UNCHANGED <<blockno, valid, refcnt, next, prev, held>>
  BY DEF CacheOK, CacheType, BwriteReturn, Return, Goto, Here, cache, ring, Holds, Request
<1>2. CacheType'
  BY <1>1 DEF CacheOK, CacheType, BwriteReturn, Return, Goto, BioPc, Node, Request
<1>3. \A b \in Bufs : refcnt'[b] = IF Counted(b)' THEN 1 ELSE 0
  BY <1>1 DEF CacheOK, CacheInv, Counted, RwPc
<1> QED
  BY <1>1, <1>2, <1>3 DEF CacheOK, CacheInv, OneCopy, RwPc

-----------------------------------------------------------------------------
(* The holder                                                              *)

LEMMA ModifyStep ==
  ASSUME OneCaller, CacheOK, NEW b \in Bufs, NEW v \in Values, Modify(Caller, b, v)
  PROVE  CacheOK'
<1> USE CallerIsOne DEF OneCaller
<1>1. /\ Here = "fs" /\ b \in Holds /\ dirty'[Caller] = dirty[Caller] \cup {b}
      /\ Here' = Here /\ Holds' = Holds /\ Request' = Request
      /\ UNCHANGED <<blockno, valid, refcnt, next, prev, held, at, want, pc>>
  BY DEF CacheOK, CacheType, Modify, Here, cache, ring, request, locals, Holds, Request
<1>2. CacheType'
  BY <1>1 DEF CacheOK, CacheType, Modify
<1> QED
  BY <1>1, <1>2 DEF CacheOK, CacheInv, OneCopy, Counted, RwPc

LEMMA BwriteStep ==
  ASSUME OneCaller, DriverType, CacheOK, NEW b \in Bufs, Bwrite(Caller, b)
  PROVE  CacheOK'
<1> USE CallerIsOne DEF OneCaller
<1>1. /\ Here = "fs" /\ b \in Holds
      /\ Here' = "alloc_test" /\ Request' = [b |-> b, write |-> TRUE] /\ Holds' = Holds
      /\ pc' \in [Callers -> RwPc \cup BioPc]
      /\ UNCHANGED <<blockno, valid, refcnt, next, prev, held, dirty, at, want>>
  BY DEF DriverType, CacheOK, CacheInv, Bwrite, RwCall, Goto, Here, bufs, cache, ring, users, Holds,
         Request, RwPc
<1>2. CacheType'
  BY <1>1 DEF CacheOK, CacheType
<1>3. \A x \in Bufs : refcnt'[x] = IF Counted(x)' THEN 1 ELSE 0
  BY <1>1 DEF CacheOK, CacheInv, Counted, RwPc
<1> QED
  BY <1>1, <1>2, <1>3 DEF CacheOK, CacheInv, OneCopy, RwPc

-----------------------------------------------------------------------------
(* brelse                                                                  *)

LEMMA BrelseStep ==
  ASSUME OneCaller, CacheOK, NEW b \in Bufs, Brelse(Caller, b)
  PROVE  CacheOK'
<1> USE CallerIsOne DEF OneCaller
<1>0. Here = "fs" /\ b \in Holds /\ b \notin dirty[Caller] /\ refcnt[b] = 1
  BY DEF CacheOK, CacheInv, Counted, Brelse, Here, Holds
<1>1. /\ Holds' = Holds \ {b} /\ refcnt' = [refcnt EXCEPT ![b] = 0]
      /\ Here' = "brelse_unlink" /\ At' = b
      /\ UNCHANGED <<blockno, valid, next, prev, dirty, want>>
  BY <1>0 DEF CacheOK, CacheType, Brelse, Goto, Here, ring, Holds, At
<1>2. CacheType'
  BY <1>0, <1>1 DEF CacheOK, CacheType, Brelse, Goto, BioPc, Node
<1>3. \A x \in Bufs : refcnt'[x] = IF Counted(x)' THEN 1 ELSE 0
  BY <1>0, <1>1 DEF CacheOK, CacheType, CacheInv, Counted, RwPc
<1> QED
  BY <1>0, <1>1, <1>2, <1>3 DEF CacheOK, CacheInv, OneCopy, RwPc

LEMMA UnlinkStep ==
  ASSUME OneCaller, CacheOK, BrelseUnlink(Caller)
  PROVE  CacheOK'
<1> USE CallerIsOne DEF OneCaller
<1>1. /\ Here = "brelse_unlink" /\ At \in Node /\ At # Sentinel /\ At \in Bufs
      /\ Intact(Node, next, prev)
  BY VirtioAssumption
  DEF VirtioAssumption, CacheOK, CacheInv, BrelseUnlink, Here, Node, Sentinel, Bufs
<1>2. /\ next' = [next EXCEPT ![prev[At]] = next[At]]
      /\ prev' = [prev EXCEPT ![next[At]] = prev[At]]
      /\ Here' = "brelse_insert" /\ At' = At /\ Holds' = Holds /\ Want' = Want /\ Request' = Request
      /\ UNCHANGED <<blockno, valid, refcnt, held, dirty, at, want>>
  BY DEF CacheOK, CacheType, BrelseUnlink, Goto, Here, users, request, locals, Holds, At, Want, Request
<1>3. CacheType'
  BY <1>2 DEF CacheOK, CacheType, BrelseUnlink, Goto, BioPc, At
<1>4. Intact(Node \ {At'}, next', prev')
  BY <1>1, <1>2, Unlink DEF CacheOK, CacheType
<1> QED
  BY <1>1, <1>2, <1>3, <1>4 DEF CacheOK, CacheInv, OneCopy, Counted, RwPc

LEMMA InsertStep ==
  ASSUME OneCaller, CacheOK, BrelseInsert(Caller)
  PROVE  CacheOK'
<1> USE CallerIsOne DEF OneCaller
<1>1. /\ Here = "brelse_insert" /\ At \in Node /\ At # Sentinel /\ At \in Bufs
      /\ Intact(Node \ {At}, next, prev)
  BY VirtioAssumption
  DEF VirtioAssumption, CacheOK, CacheInv, BrelseInsert, Here, Node, Sentinel, Bufs
<1>2. /\ next' = [next EXCEPT ![At] = next[Sentinel], ![Sentinel] = At]
      /\ prev' = [prev EXCEPT ![At] = Sentinel, ![next[Sentinel]] = At]
      /\ Here' = "fs" /\ Holds' = Holds /\ Request' = Request
      /\ UNCHANGED <<blockno, valid, refcnt, held, dirty>>
  BY DEF CacheOK, CacheType, BrelseInsert, Return, Goto, Here, request, locals, Holds, At, Request
<1>3. CacheType'
  <2>1. next' \in [Node -> Node] /\ prev' \in [Node -> Node]
    BY <1>1, <1>2 DEF CacheOK, CacheType, Node
  <2>2. /\ pc' \in [Callers -> RwPc \cup BioPc] /\ at' \in [Callers -> Node]
        /\ want' \in [Callers -> Blocks \cup {NoBlock}]
    BY DEF CacheOK, CacheType, BrelseInsert, Return, Goto, BioPc, Node
  <2> QED
    BY <1>2, <2>1, <2>2 DEF CacheOK, CacheType
<1>4. Intact(Node, next', prev')
  BY <1>1, <1>2, Insert DEF CacheOK, CacheType
<1> QED
  BY <1>1, <1>2, <1>3, <1>4 DEF CacheOK, CacheInv, OneCopy, Counted, RwPc

-----------------------------------------------------------------------------
(* Driver and cache together                                               *)

BioOK == DriverOK /\ CacheOK

LEMMA BioStart == OneCaller /\ BioInit => BioOK
<1> SUFFICES ASSUME OneCaller, BioInit PROVE BioOK
  OBVIOUS
<1> USE CallerIsOne DEF OneCaller
<1>1. Here = "fs" /\ Holds = {} /\ dirty[Caller] = {}
  BY DEF BioInit, DiskInit, Here, Holds
<1>2. DriverType
  <2>1. 0 \in Desc /\ 0 \in Ring /\ 0 \in 0 .. NUM
    BY VirtioAssumption DEF VirtioAssumption, Desc, Ring
  <2>2. /\ ops \in [Desc -> [write : BOOLEAN, block : Blocks \cup {NoBlock},
                             by : Callers \cup {"nobody"}]]
        /\ info \in [Desc -> [b : Bufs \cup {NoBuf}, status : Nat]]
        /\ arg \in [Callers -> [b : Bufs \cup {NoBuf}, write : BOOLEAN]]
    BY DEF BioInit, DiskInit, NoReq, NoArg
  <2> QED
    BY <2>1, <2>2, VirtioAssumption DEF BioInit, DiskInit, DriverType, BioPc, VirtioAssumption
<1>3. DriverInv
  BY <1>1 DEF BioInit, DiskInit, DriverInv, Agreed, NoneWaits, RwPc, BioPc
<1>4. CacheType
  <2>1. next \in [Node -> Node] /\ prev \in [Node -> Node]
    BY VirtioAssumption DEF BioInit, Node, Bufs, Sentinel, VirtioAssumption
  <2> QED
    BY <2>1 DEF BioInit, DiskInit, CacheType, BioPc, Node
<1>5. CacheInv
  <2>1. Intact(Node, next, prev)
    BY InitRing
  <2> QED
    BY <1>1, <2>1 DEF BioInit, DiskInit, CacheInv, OneCopy, Counted, RwPc
<1> QED
  BY <1>2, <1>3, <1>4, <1>5 DEF BioOK, DriverOK, CacheOK

\* The statements of bget and brelse, and the stores of a holder.
LEMMA CacheSide ==
  ASSUME OneCaller, BioOK,
         \/ \E blk \in Blocks : Bread(Caller, blk)
         \/ \E b \in Bufs, v \in Values : Modify(Caller, b, v)
         \/ \E b \in Bufs : Brelse(Caller, b)
         \/ BgetFind(Caller) \/ BgetRef(Caller) \/ BgetEvict(Caller) \/ BgetTake(Caller)
         \/ BrelseUnlink(Caller) \/ BrelseInsert(Caller)
  PROVE  BioOK'
<1> USE CallerIsOne DEF OneCaller
<1>1. CacheOK'
  BY BreadStep, ModifyStep, BrelseStep, BgetFindStep, BgetRefStep, BgetEvictStep, BgetTakeStep,
     UnlinkStep, InsertStep DEF BioOK
<1>2. /\ Here \in BioPc \ {"panic"}
      /\ UNCHANGED <<disk, locals, moved>>
  BY DEF Bread, Modify, Brelse, BgetFind, BgetRef, BgetEvict, BgetTake, BrelseUnlink, BrelseInsert,
         request, Here, BioPc
<1>3. Here' \in BioPc
  <2>1. pc \in [Callers -> RwPc \cup BioPc]
    BY DEF BioOK, DriverOK, DriverType
  <2> QED
    BY <2>1, <1>2 DEF Bread, Modify, Brelse, BgetFind, BgetRef, BgetEvict, BgetTake, BrelseUnlink,
       BrelseInsert, Return, Goto, Here, BioPc
<1>4. data' \in [Bufs -> Values]
  <2>1. data \in [Bufs -> Values]
    BY DEF BioOK, DriverOK, DriverType
  <2> QED
    BY <2>1 DEF Bread, Modify, Brelse, BgetFind, BgetRef, BgetEvict, BgetTake, BrelseUnlink,
       BrelseInsert
<1>5. DriverOK'
  BY <1>1, <1>2, <1>3, <1>4, OutsideStep DEF BioOK, CacheOK, CacheType
<1> QED
  BY <1>1, <1>5 DEF BioOK

\* The calls of virtio_disk_rw and their ends.
LEMMA CallSide ==
  ASSUME OneCaller, BioOK,
         \/ BreadTest(Caller) \/ BreadValid(Caller) \/ BwriteReturn(Caller)
         \/ \E b \in Bufs : Bwrite(Caller, b)
  PROVE  BioOK'
<1> USE CallerIsOne DEF OneCaller
<1>1. CacheOK'
  BY BreadTestStep, BreadValidStep, BwriteReturnStep, BwriteStep DEF BioOK, DriverOK
<1>2. CASE BreadTest(Caller)
  <2>1. /\ Here = "bread_test" /\ At \in Bufs /\ blockno[At] \in Blocks
    BY <1>2 DEF BioOK, CacheOK, CacheInv, BreadTest, Here
  <2>2. CASE RwCall(Caller, At, FALSE)
    BY <1>1, <2>1, <2>2, RwCallStep DEF BioOK, BioPc
  <2>3. CASE valid[At]
    <3>1. Goto(Caller, "fs") /\ UNCHANGED <<disk, blockno, data, locals, moved>>
      BY <1>2, <2>3 DEF BreadTest, Return, At, request
    <3>2. Here' = "fs" /\ data' \in [Bufs -> Values]
      BY <3>1 DEF BioOK, DriverOK, DriverType, Goto, Here
    <3>3. DriverOK'
      BY <1>1, <2>1, <3>1, <3>2, OutsideStep DEF BioOK, CacheOK, CacheType, BioPc
    <3> QED
      BY <1>1, <3>3 DEF BioOK
  <2> QED
    BY <1>2, <2>2, <2>3 DEF BreadTest, At
<1>3. CASE BreadValid(Caller) \/ BwriteReturn(Caller)
  <2>1. /\ Here = "rw_return" /\ RwEnd(Caller) /\ Goto(Caller, "fs")
        /\ UNCHANGED <<disk, blockno, data>>
    BY <1>3 DEF BreadValid, BwriteReturn, Return, Here
  <2> QED
    BY <1>1, <2>1, RwEndStep DEF BioOK
<1>4. ASSUME NEW b \in Bufs, Bwrite(Caller, b)
      PROVE  BioOK'
  <2>1. Here = "fs" /\ blockno[b] \in Blocks /\ RwCall(Caller, b, TRUE)
    BY <1>4 DEF BioOK, CacheOK, CacheInv, Bwrite, Here, Holds
  <2> QED
    BY <1>1, <2>1, RwCallStep DEF BioOK, BioPc
<1> QED
  BY <1>2, <1>3, <1>4

\* The statements of virtio_disk_rw and the device.
LEMMA DriverSide ==
  ASSUME OneCaller, BioOK, Driver(Caller) \/ Device, UNCHANGED <<cache, users, idle>>
  PROVE  BioOK'
<1> USE CallerIsOne DEF OneCaller
<1>1. DriverOK'
  BY AllocTestStep, AllocSetStep, FillStep, AvailStep, PollStep, UsedDoneStep, FreeChainStep,
     TakesStep, FinishesStep DEF BioOK, Driver, Device
<1>2. pc \in [Callers -> RwPc \cup BioPc] /\ pc' \in [Callers -> RwPc \cup BioPc]
  BY <1>1 DEF BioOK, DriverOK, DriverType
<1>3. Request' = Request /\ UNCHANGED blockno
  BY DEF Driver, AllocTest, AllocSet, Fill, AvailRing, AvailIdx, Poll, UsedTest, UsedDone, FreeChain,
         Device, DeviceTakes, DeviceFinishes, bufs, locals, Request
<1>4. Here' = Here \/ (Here \in RwPc /\ Here' \in RwPc \cup {"panic"})
  <2>1. CASE Device
    BY <2>1 DEF Device, DeviceTakes, DeviceFinishes, Here
  <2>2. CASE Driver(Caller)
    BY <1>2, <2>2
    DEF Driver, AllocTest, AllocSet, Fill, AvailRing, AvailIdx, Poll, UsedTest, UsedDone, FreeChain,
        Goto, Here, RwPc
  <2> QED
    BY <2>1, <2>2
<1>5. CacheOK'
  BY <1>2, <1>3, <1>4, CacheKept DEF BioOK
<1> QED
  BY <1>1, <1>5 DEF BioOK

LEMMA BioStep == OneCaller /\ BioOK /\ [BioNext]_vars => BioOK'
<1> SUFFICES ASSUME OneCaller, BioOK, [BioNext]_vars PROVE BioOK'
  OBVIOUS
<1>1. CASE BioNext
  <2>1. Callers = {Caller}
    BY DEF OneCaller
  <2>2. \/ Ask(Caller) \/ Step(Caller)
        \/ Device /\ UNCHANGED <<cache, users, idle>>
    BY <1>1, <2>1 DEF BioNext
  <2> QED
    BY <2>2, CacheSide, CallSide, DriverSide DEF Ask, Step
<1>2. CASE UNCHANGED vars
  <2>1. UNCHANGED <<queue, device, bufs, pc, locals, moved, cache, users>>
    BY <1>2 DEF vars, diskvars
  <2>2. Here' = Here /\ Chosen' = Chosen /\ Request' = Request
    BY <2>1 DEF locals, Here, Chosen, Request
  <2>3. DriverOK'
    BY <2>1, <2>2
    DEF BioOK, DriverOK, DriverType, DriverInv, queue, device, bufs, locals, Agreed, NoneWaits,
        OneWaits, Taken, Chained, Queued, InWork, Finished, Consumed
  <2>4. CacheOK'
    BY <2>1, <2>2, CacheKept DEF BioOK, CacheOK, CacheType, bufs
  <2> QED
    BY <2>3, <2>4 DEF BioOK
<1> QED
  BY <1>1, <1>2

LEMMA BioInvariant ==
  ASSUME OneCaller
  PROVE  Spec => []BioOK
<1>1. BioInit => BioOK
  BY BioStart
<1>2. BioOK /\ [BioNext]_vars => BioOK'
  BY BioStep
<1> QED
  BY <1>1, <1>2, PTL DEF Spec

-----------------------------------------------------------------------------
(* The order of the idle buffers                                           *)

\* Going back along p from x, past buffers that are not idle, one comes to y.
Comes(p, I, x, y) ==
  \A S \in SUBSET Node :
    x \in S /\ (\A z \in S \ I : z # Sentinel => p[z] \in S) => y \in S

\* The k-th idle buffer; the sentinel is in front of the first and behind the last.
Elt(s, k) == IF k \in 1 .. Len(s) THEN s[k] ELSE Sentinel

\* Going back from the sentinel one meets the idle buffers in the order of s.
InOrder(p, s) ==
  \A k \in 0 .. Len(s) : Comes(p, Range(s), p[Elt(s, k)], Elt(s, k + 1))

Once(s) == \A m, j \in 1 .. Len(s) : s[m] = s[j] => m = j

\* idle is the order of the ring, and in it is what nobody counts in; what the caller is
\* giving back is idle when it is in the ring again.
IdleInv ==
  /\ idle \in Seq(Bufs) /\ Once(idle) /\ InOrder(prev, idle)
  /\ Here # "panic" =>
       \A b \in Bufs : b \in Range(idle) <=>
         refcnt[b] = 0 /\ ~(Here \in {"brelse_unlink", "brelse_insert"} /\ b = At)
  /\ Here \in {"brelse_unlink", "brelse_insert"} => refcnt[At] = 0
  /\ Here \in {"bget_evict", "bget_take"} => Comes(prev, Range(idle), At, Elt(idle, 1))

\* The sentinel is a node and no buffer.
LEMMA SentinelApart == Sentinel \in Node /\ Sentinel \notin Bufs /\ Bufs \subseteq Node
  BY VirtioAssumption DEF VirtioAssumption, Node, Bufs, Sentinel

\* What is in a sequence of buffers, and at each of its places.
LEMMA RangeOf ==
  ASSUME NEW s \in Seq(Bufs)
  PROVE  /\ Range(s) = {s[k] : k \in 1 .. Len(s)} /\ Range(s) \subseteq Bufs
         /\ \A k \in Nat : Elt(s, k) \in Range(s) \cup {Sentinel}
  BY DEF Range, Elt

\* RemoveFirst on a sequence without repetitions.
LEMMA RemovesOne ==
  ASSUME NEW S, NEW s \in Seq(S), NEW k \in 1 .. Len(s),
         \A m, j \in 1 .. Len(s) : s[m] = s[j] => m = j
  PROVE  /\ RemoveFirst(s, s[k]) \in Seq(S)
         /\ Len(RemoveFirst(s, s[k])) = Len(s) - 1
         /\ \A j \in 1 .. Len(s) - 1 : RemoveFirst(s, s[k])[j] = IF j < k THEN s[j] ELSE s[j + 1]
<1> DEFINE u == SubSeq(s, 1, k - 1)
           v == SubSeq(s, k + 1, Len(s))
<1>1. {m \in 1 .. Len(s) : s[m] = s[k]} = {k}
  OBVIOUS
<1>2. Min({k}) = k
  BY DEF Min
<1>3. SelectInSeq(s, LAMBDA e : e = s[k]) = k
  BY <1>1, <1>2 DEF SelectInSeq
<1>4. RemoveFirst(s, s[k]) = u \o v
  BY <1>3 DEF RemoveFirst, RemoveAt
<1>5. /\ u \in Seq(S) /\ Len(u) = k - 1
      /\ \A j \in 1 .. k - 1 : u[j] = s[j]
  OBVIOUS
<1>6. /\ v \in Seq(S) /\ Len(v) = Len(s) - k
      /\ \A j \in 1 .. Len(s) - k : v[j] = s[j + k]
  OBVIOUS
<1> HIDE DEF u, v
<1>0. Len(s) \in Nat
  OBVIOUS
<1>7. u \o v \in Seq(S) /\ Len(u \o v) = Len(s) - 1
  <2>1. u \o v \in Seq(S) /\ Len(u \o v) = Len(u) + Len(v)
    BY <1>5, <1>6, ConcatProperties
  <2> QED BY <1>0, <1>5, <1>6, <2>1
<1>8. ASSUME NEW j \in 1 .. Len(s) - 1
      PROVE  (u \o v)[j] = IF j < k THEN s[j] ELSE s[j + 1]
  <2>1. (u \o v)[j] = IF j <= k - 1 THEN u[j] ELSE v[j - (k - 1)]
    <3>1. j \in 1 .. Len(u) + Len(v)
      BY <1>0, <1>5, <1>6
    <3> QED
      BY <1>5, <1>6, <3>1, ConcatProperties
  <2>2. CASE j < k
    <3>1. j \in 1 .. k - 1 /\ j <= k - 1
      BY <1>0, <2>2
    <3> QED
      BY <1>5, <2>1, <2>2, <3>1
  <2>3. CASE ~(j < k)
    <3>1. j - (k - 1) \in 1 .. Len(s) - k /\ (j - (k - 1)) + k = j + 1 /\ ~(j <= k - 1)
      BY <1>0, <2>3
    <3> QED
      BY <1>6, <2>1, <2>3, <3>1
  <2> QED
    BY <2>2, <2>3
<1> QED
  BY <1>4, <1>7, <1>8

\* A buffer that is taken is passed from then on: what was behind it comes next.
LEMMA OrderRemoves ==
  ASSUME NEW p \in [Node -> Node], NEW s \in Seq(Bufs), Once(s), InOrder(p, s),
         NEW a \in Range(s)
  PROVE  LET t == RemoveFirst(s, a)
         IN  t \in Seq(Bufs) /\ Once(t) /\ Range(t) = Range(s) \ {a} /\ InOrder(p, t)
<1> DEFINE t == RemoveFirst(s, a)
<1>1. PICK k \in 1 .. Len(s) : a = s[k]
  BY RangeOf
<1>2. /\ t \in Seq(Bufs) /\ Len(t) = Len(s) - 1
      /\ \A j \in 1 .. Len(s) - 1 : t[j] = IF j < k THEN s[j] ELSE s[j + 1]
  BY <1>1, RemovesOne DEF Once
<1>3. Len(s) \in Nat /\ k \in Nat /\ k >= 1 /\ k <= Len(s)
  OBVIOUS
<1> HIDE DEF t
<1>4. Once(t)
  <2> SUFFICES ASSUME NEW m \in 1 .. Len(t), NEW j \in 1 .. Len(t), t[m] = t[j]
               PROVE  m = j
    BY DEF Once
  <2> DEFINE m1 == IF m < k THEN m ELSE m + 1
             j1 == IF j < k THEN j ELSE j + 1
  <2>1. m1 \in 1 .. Len(s) /\ j1 \in 1 .. Len(s) /\ s[m1] = t[m] /\ s[j1] = t[j]
    BY <1>2, <1>3
  <2>2. m1 = j1
    BY <2>1 DEF Once
  <2> QED
    BY <1>2, <1>3, <2>2
<1>5. Range(t) = Range(s) \ {a}
  <2>1. \A j \in 1 .. Len(t) : t[j] \in Range(s) \ {a}
    <3> SUFFICES ASSUME NEW j \in 1 .. Len(t) PROVE t[j] \in Range(s) \ {a}
      OBVIOUS
    <3> DEFINE j1 == IF j < k THEN j ELSE j + 1
    <3>1. j1 \in 1 .. Len(s) /\ s[j1] = t[j] /\ j1 # k
      BY <1>2, <1>3
    <3> QED
      BY <1>1, <3>1, RangeOf DEF Once
  <2>2. \A m \in 1 .. Len(s) : m # k => \E j \in 1 .. Len(t) : t[j] = s[m]
    <3> SUFFICES ASSUME NEW m \in 1 .. Len(s), m # k PROVE \E j \in 1 .. Len(t) : t[j] = s[m]
      OBVIOUS
    <3> DEFINE j1 == IF m < k THEN m ELSE m - 1
    <3>1. j1 \in 1 .. Len(t) /\ t[j1] = s[m]
      BY <1>2, <1>3
    <3> QED
      BY <3>1
  <2>3. Range(t) = {t[j] : j \in 1 .. Len(t)} /\ Range(s) = {s[j] : j \in 1 .. Len(s)}
    BY <1>2, RangeOf
  <2> QED
    BY <1>1, <2>1, <2>2, <2>3
<1>6. \A j \in Nat : Elt(t, j) = IF j < k THEN Elt(s, j) ELSE Elt(s, j + 1)
  BY <1>2, <1>3 DEF Elt
<1>7. ASSUME NEW j \in 0 .. Len(t)
      PROVE  Comes(p, Range(t), p[Elt(t, j)], Elt(t, j + 1))
  <2>1. \A m \in 0 .. Len(s) : Comes(p, Range(s), p[Elt(s, m)], Elt(s, m + 1))
    BY DEF InOrder
  <2>2. ASSUME NEW x, NEW y, Comes(p, Range(s), x, y)
        PROVE  Comes(p, Range(t), x, y)
    BY <1>5, <2>2 DEF Comes
  <2>0. j \in Nat /\ j + 1 \in Nat /\ j \in 0 .. Len(s)
    BY <1>2, <1>3
  <2>3. CASE j + 1 < k
    <3>1. Elt(t, j) = Elt(s, j) /\ Elt(t, j + 1) = Elt(s, j + 1)
      BY <1>3, <1>6, <2>0, <2>3
    <3> QED
      BY <2>0, <2>1, <2>2, <3>1
  <2>4. CASE j + 1 = k
    <3>1. /\ Elt(t, j) = Elt(s, j) /\ Elt(t, j + 1) = Elt(s, k + 1)
          /\ Elt(s, k) = a /\ j \in 0 .. Len(s) /\ k \in 0 .. Len(s)
      BY <1>1, <1>2, <1>3, <1>6, <2>4 DEF Elt
    <3>2. Comes(p, Range(s), p[Elt(s, j)], a) /\ Comes(p, Range(s), p[a], Elt(s, k + 1))
      BY <2>1, <2>4, <3>1
    <3>3. a # Sentinel
      BY RangeOf, SentinelApart
    <3>4. Comes(p, Range(t), p[Elt(s, j)], Elt(s, k + 1))
      BY <1>5, <3>2, <3>3 DEF Comes
    <3> QED
      BY <3>1, <3>4
  <2>5. CASE j >= k
    <3>1. /\ Elt(t, j) = Elt(s, j + 1) /\ Elt(t, j + 1) = Elt(s, (j + 1) + 1)
          /\ j + 1 \in 0 .. Len(s)
      BY <1>2, <1>3, <1>6, <2>5
    <3> QED
      BY <2>1, <2>2, <3>1
  <2> QED
    BY <1>3, <2>3, <2>4, <2>5
<1> QED
  BY <1>2, <1>4, <1>5, <1>7 DEF InOrder, t

\* Unlinking a buffer that is not idle shortens the way, not the order.
LEMMA OrderUnlinks ==
  ASSUME NEW n \in [Node -> Node], NEW p \in [Node -> Node], Intact(Node, n, p),
         NEW s \in Seq(Bufs), InOrder(p, s), NEW a \in Bufs, a \notin Range(s)
  PROVE  InOrder([p EXCEPT ![n[a]] = p[a]], s)
<1> DEFINE q == [p EXCEPT ![n[a]] = p[a]]
<1>1. \A x \in Node : n[x] \in Node /\ p[x] \in Node /\ n[p[x]] = x /\ p[n[x]] = x
  BY DEF Intact
<1>2. a \in Node /\ a # Sentinel
  BY SentinelApart
<1>3. \A x \in Node : q[x] = IF p[x] = a THEN p[a] ELSE p[x]
  BY <1>1, <1>2
<1> HIDE DEF q
<1>4. ASSUME NEW x \in Node, x # a, NEW y, y # a, Comes(p, Range(s), p[x], y)
      PROVE  Comes(q, Range(s), q[x], y)
  <2> SUFFICES ASSUME NEW S \in SUBSET Node, q[x] \in S,
                      \A z \in S \ Range(s) : z # Sentinel => q[z] \in S
               PROVE  y \in S
    BY DEF Comes
  <2> DEFINE T == IF p[a] \in S THEN S \cup {a} ELSE S \ {a}
  <2>1. T \in SUBSET Node /\ p[x] \in T
    BY <1>1, <1>2, <1>3, <1>4
  <2>2. \A z \in T \ Range(s) : z # Sentinel => p[z] \in T
    BY <1>1, <1>2, <1>3
  <2>3. y \in T
    <3> HIDE DEF T
    <3> QED
      BY <1>4, <2>1, <2>2 DEF Comes
  <2> QED
    BY <1>4, <2>3
<1>5. ASSUME NEW k \in 0 .. Len(s)
      PROVE  Comes(q, Range(s), q[Elt(s, k)], Elt(s, k + 1))
  <2>1. k \in Nat /\ k + 1 \in Nat
    OBVIOUS
  <2>2. Elt(s, k) \in Node /\ Elt(s, k) # a /\ Elt(s, k + 1) # a
    BY <1>2, <2>1, RangeOf, SentinelApart
  <2> QED
    BY <1>4, <2>2 DEF InOrder
<1> QED
  BY <1>5 DEF InOrder, q

\* q is p with a, which was not in the ring, in front of what was the first.
InFront(n, p, q, a) ==
  /\ Intact(Node \ {a}, n, p)
  /\ q \in [Node -> Node] /\ q[a] = Sentinel
  /\ \A x \in Node \ {a} : q[x] = IF x = n[Sentinel] THEN a ELSE p[x]

\* t is s with a at its end.
IsLast(s, a, t) == t = Append(s, a)

\* Inserted in front, a buffer is met last.
LEMMA OrderInserts ==
  ASSUME NEW n \in [Node -> Node], NEW p \in [Node -> Node], NEW a \in Bufs,
         NEW s \in Seq(Bufs), Once(s), InOrder(p, s), a \notin Range(s),
         NEW q, InFront(n, p, q, a), NEW t, IsLast(s, a, t)
  PROVE  t \in Seq(Bufs) /\ Once(t) /\ Range(t) = Range(s) \cup {a} /\ InOrder(q, t)
<1> DEFINE N == Node \ {a}
<1>1. \A x \in N : n[x] \in N /\ p[x] \in N /\ n[p[x]] = x /\ p[n[x]] = x
  BY DEF Intact, InFront
<1>2. a \in Node /\ a # Sentinel /\ Sentinel \in N
  BY SentinelApart
<1>3. q[a] = Sentinel /\ \A x \in N : q[x] = IF p[x] = Sentinel THEN a ELSE p[x]
  BY <1>1, <1>2 DEF InFront
<1>4. /\ t \in Seq(Bufs) /\ Len(t) = Len(s) + 1 /\ t[Len(s) + 1] = a
      /\ \A k \in 1 .. Len(s) : t[k] = s[k]
  BY DEF IsLast
<1>5. Len(s) \in Nat
  OBVIOUS
<1>6. /\ Range(t) = {t[k] : k \in 1 .. Len(t)} /\ Range(s) = {s[k] : k \in 1 .. Len(s)}
      /\ Range(s) \subseteq Bufs
  BY <1>4, RangeOf
<1>7. Once(t)
  <2>1. \A k \in 1 .. Len(s) : t[k] # a
    BY <1>4, <1>6
  <2>2. \A k \in 1 .. Len(t) : k \in 1 .. Len(s) \/ k = Len(s) + 1
    BY <1>4, <1>5
  <2> QED
    BY <1>4, <2>1, <2>2 DEF Once
<1>8. Range(t) = Range(s) \cup {a}
  <2>1. \A k \in 1 .. Len(t) : k \in 1 .. Len(s) \/ k = Len(s) + 1
    BY <1>4, <1>5
  <2>2. Len(s) + 1 \in 1 .. Len(t) /\ \A k \in 1 .. Len(s) : k \in 1 .. Len(t)
    BY <1>4, <1>5
  <2> QED
    BY <1>4, <1>6, <2>1, <2>2
<1>9. ASSUME NEW x \in N, NEW y, y # a, y # Sentinel, Comes(p, Range(s), p[x], y)
      PROVE  Comes(q, Range(t), q[x], y)
  <2> SUFFICES ASSUME NEW S \in SUBSET Node, q[x] \in S,
                      \A z \in S \ Range(t) : z # Sentinel => q[z] \in S
               PROVE  y \in S
    BY DEF Comes
  <2> DEFINE T == (S \ {a}) \cup {Sentinel}
  <2>1. T \in SUBSET Node /\ p[x] \in T
    BY <1>1, <1>2, <1>3, <1>9
  <2>2. \A z \in T \ Range(s) : z # Sentinel => p[z] \in T
    BY <1>1, <1>2, <1>3, <1>8
  <2>3. y \in T
    <3> HIDE DEF T
    <3> QED
      BY <1>9, <2>1, <2>2 DEF Comes
  <2> QED
    BY <1>9, <2>3
<1>10. ASSUME NEW x \in N, Comes(p, Range(s), p[x], Sentinel)
       PROVE  Comes(q, Range(t), q[x], a)
  <2> SUFFICES ASSUME NEW S \in SUBSET Node, q[x] \in S, a \notin S,
                      \A z \in S \ Range(t) : z # Sentinel => q[z] \in S
               PROVE  FALSE
    BY DEF Comes
  <2> DEFINE T == S \ {Sentinel}
  <2>1. T \in SUBSET Node /\ p[x] \in T
    BY <1>1, <1>2, <1>3, <1>10
  <2>2. \A z \in T \ Range(s) : z # Sentinel => p[z] \in T
    BY <1>1, <1>2, <1>3, <1>8
  <2>3. Sentinel \in T
    <3> HIDE DEF T
    <3> QED
      BY <1>10, <2>1, <2>2 DEF Comes
  <2> QED
    BY <2>3
<1>11. ASSUME NEW k \in 0 .. Len(t)
       PROVE  Comes(q, Range(t), q[Elt(t, k)], Elt(t, k + 1))
  <2>1. CASE k < Len(s)
    <3>1. /\ Elt(t, k) = Elt(s, k) /\ Elt(t, k + 1) = Elt(s, k + 1) /\ Elt(s, k + 1) \in Range(s)
          /\ k \in 0 .. Len(s) /\ k \in Nat
      BY <1>4, <1>5, <1>6, <2>1 DEF Elt
    <3>2. Elt(s, k) \in N /\ Elt(s, k + 1) # a /\ Elt(s, k + 1) # Sentinel
      BY <1>2, <3>1, RangeOf, SentinelApart
    <3> QED
      BY <1>9, <3>1, <3>2 DEF InOrder
  <2>2. CASE k = Len(s)
    <3>1. /\ Elt(t, k) = Elt(s, k) /\ Elt(t, k + 1) = a /\ Elt(s, k + 1) = Sentinel
          /\ k \in 0 .. Len(s) /\ k \in Nat
      BY <1>4, <1>5, <2>2 DEF Elt
    <3>2. Elt(s, k) \in N
      BY <1>2, <3>1, RangeOf, SentinelApart
    <3> QED
      BY <1>10, <3>1, <3>2 DEF InOrder
  <2>3. CASE k = Len(s) + 1
    <3>1. Elt(t, k) = a /\ Elt(t, k + 1) = Sentinel
      BY <1>4, <1>5, <2>3 DEF Elt
    <3> QED
      BY <1>3, <3>1 DEF Comes
  <2> QED
    BY <1>4, <1>5, <2>1, <2>2, <2>3
<1> QED
  BY <1>4, <1>7, <1>8, <1>11 DEF InOrder

-----------------------------------------------------------------------------
(* bget and brelse keep the order                                          *)

\* binit leaves every buffer idle, the last of the array in front.
LEMMA IdleStart == OneCaller /\ BioInit => IdleInv
<1> SUFFICES ASSUME OneCaller, BioInit PROVE IdleInv
  OBVIOUS
<1> USE CallerIsOne DEF OneCaller
<1>1. NBUF \in Nat /\ NBUF > 0 /\ Bufs = 0 .. NBUF - 1
  BY VirtioAssumption DEF VirtioAssumption, Bufs
<1>2. idle = [k \in 1 .. NBUF |-> k - 1]
  BY DEF BioInit
<1>3. idle \in Seq(Bufs) /\ Len(idle) = NBUF /\ \A k \in 1 .. NBUF : idle[k] = k - 1
  BY <1>1, <1>2
<1> HIDE <1>2
<1>4. Once(idle)
  BY <1>1, <1>3 DEF Once
<1>5. Range(idle) = Bufs
  <2>1. \A b \in Bufs : b + 1 \in 1 .. NBUF /\ idle[b + 1] = b
    BY <1>1, <1>3
  <2> QED
    BY <1>3, <2>1, RangeOf
<1>6. \A k \in 0 .. NBUF : prev[Elt(idle, k)] = Elt(idle, k + 1)
  <2> SUFFICES ASSUME NEW k \in 0 .. NBUF PROVE prev[Elt(idle, k)] = Elt(idle, k + 1)
    OBVIOUS
  <2>1. Elt(idle, k) = IF k = 0 THEN -1 ELSE k - 1
    BY <1>1, <1>3 DEF Elt, Sentinel
  <2>2. Elt(idle, k + 1) = IF k = NBUF THEN -1 ELSE k
    BY <1>1, <1>3 DEF Elt, Sentinel
  <2>3. \A x \in -1 .. NBUF - 1 : prev[x] = IF x = NBUF - 1 THEN -1 ELSE x + 1
    BY <1>1 DEF BioInit, Node, Sentinel
  <2>4. (IF k = 0 THEN -1 ELSE k - 1) \in -1 .. NBUF - 1
    BY <1>1
  <2> QED
    BY <1>1, <2>1, <2>2, <2>3, <2>4
<1>7. InOrder(prev, idle)
  BY <1>3, <1>6 DEF InOrder, Comes
<1>8. Here = "fs" /\ \A b \in Bufs : refcnt[b] = 0
  BY DEF BioInit, DiskInit, Here
<1> QED
  BY <1>3, <1>4, <1>5, <1>7, <1>8 DEF IdleInv

\* A step that changes neither ring nor counts, outside the search for an idle buffer.
LEMMA IdleKept ==
  ASSUME IdleInv, UNCHANGED <<refcnt, prev, idle>>,
         \/ Here' = Here /\ At' = At
         \/ /\ Here \notin {"panic", "brelse_unlink", "brelse_insert"}
            /\ Here' \notin {"brelse_unlink", "brelse_insert", "bget_evict", "bget_take"}
         \/ Here' = "panic"
  PROVE  IdleInv'
  BY DEF IdleInv

\* The search starts at the back of the ring.
LEMMA IdleFind ==
  ASSUME OneCaller, BioOK, IdleInv, BgetFind(Caller)
  PROVE  IdleInv'
<1> USE CallerIsOne DEF OneCaller
<1>1. /\ Here = "bget_find" /\ UNCHANGED <<refcnt, prev, idle>>
      /\ \/ Here' = "bget_evict" /\ At' = prev[Sentinel]
         \/ Here' \in {"bget_find", "bget_ref"}
  BY DEF BioOK, CacheOK, CacheType, BgetFind, Goto, Here, At, cache, ring
<1>2. CASE Here' = "bget_evict" /\ At' = prev[Sentinel]
  <2>1. 0 \in 0 .. Len(idle) /\ 0 + 1 = 1 /\ Elt(idle, 0) = Sentinel
    BY DEF IdleInv, Elt
  <2>2. Comes(prev, Range(idle), prev[Sentinel], Elt(idle, 1))
    BY <2>1 DEF IdleInv, InOrder
  <2> QED
    BY <1>1, <1>2, <2>2 DEF IdleInv
<1>3. CASE Here' \in {"bget_find", "bget_ref"}
  BY <1>1, <1>3, IdleKept
<1> QED
  BY <1>1, <1>2, <1>3

\* Where bget_take is reached, the search has come to the first of idle.
LEMMA FoundIsFirst ==
  ASSUME OneCaller, BioOK, IdleInv, Here = "bget_take"
  PROVE  1 \in 1 .. Len(idle) /\ At = idle[1] /\ At \in Range(idle)
<1>1. At \in Bufs /\ refcnt[At] = 0
  BY DEF BioOK, CacheOK, CacheInv
<1>2. At \in Range(idle) /\ Comes(prev, Range(idle), At, Elt(idle, 1))
  BY <1>1 DEF IdleInv
<1>3. Elt(idle, 1) = At
  <2>1. {At} \in SUBSET Node
    BY <1>1, SentinelApart
  <2>2. Elt(idle, 1) \in {At}
    BY <1>2, <2>1 DEF Comes
  <2> QED
    BY <2>2
<1> QED
  BY <1>1, <1>2, <1>3, SentinelApart DEF Elt

\* A buffer that is in use is passed.
LEMMA IdleEvict ==
  ASSUME OneCaller, BioOK, IdleInv, BgetEvict(Caller)
  PROVE  IdleInv'
<1> USE CallerIsOne DEF OneCaller
<1>1. /\ Here = "bget_evict" /\ UNCHANGED <<refcnt, prev, idle>> /\ At \in Node
      /\ \/ Here' = "panic"
         \/ Here' = "bget_take" /\ At' = At
         \/ Here' = "bget_evict" /\ At' = prev[At] /\ At # Sentinel /\ refcnt[At] # 0
  BY DEF BioOK, CacheOK, CacheType, BgetEvict, Goto, Here, At, cache, ring
<1>2. Comes(prev, Range(idle), At, Elt(idle, 1))
  BY <1>1 DEF IdleInv
<1>3. CASE Here' = "bget_evict" /\ At' = prev[At] /\ At # Sentinel /\ refcnt[At] # 0
  <2>1. At \notin Range(idle) /\ At \in Bufs
    BY <1>1, <1>3 DEF IdleInv, Node
  <2>2. Elt(idle, 1) # At
    BY <1>3, <2>1, RangeOf DEF IdleInv
  <2>3. ASSUME NEW S \in SUBSET Node, prev[At] \in S,
               \A z \in S \ Range(idle) : z # Sentinel => prev[z] \in S
        PROVE  Elt(idle, 1) \in S
    <3>1. S \cup {At} \in SUBSET Node /\ At \in S \cup {At}
          /\ \A z \in (S \cup {At}) \ Range(idle) : z # Sentinel => prev[z] \in S \cup {At}
      BY <1>1, <2>3
    <3>2. Elt(idle, 1) \in S \cup {At}
      BY <1>2, <3>1, Zenon DEF Comes
    <3> QED
      BY <2>2, <3>2
  <2>4. Comes(prev, Range(idle), prev[At], Elt(idle, 1))
    BY <2>3 DEF Comes
  <2> QED
    BY <1>1, <1>3, <2>4 DEF IdleInv
<1>4. CASE Here' = "panic"
  BY <1>1, <1>4, IdleKept
<1>5. CASE Here' = "bget_take" /\ At' = At
  BY <1>1, <1>2, <1>5 DEF IdleInv
<1> QED
  BY <1>1, <1>3, <1>4, <1>5

\* A buffer taken, found or recycled, is idle no more.
LEMMA IdleTaken ==
  ASSUME OneCaller, BioOK, IdleInv, BgetRef(Caller) \/ BgetTake(Caller)
  PROVE  IdleInv'
<1> USE CallerIsOne DEF OneCaller
<1>1. /\ Here \in {"bget_ref", "bget_take"} /\ At \in Bufs
      /\ Here' = "bread_test" /\ At' = At /\ prev' = prev
      /\ idle' = RemoveFirst(idle, At)
      /\ \/ refcnt' = [refcnt EXCEPT ![At] = @ + 1]
         \/ refcnt' = [refcnt EXCEPT ![At] = 1]
  BY DEF BioOK, CacheOK, CacheType, CacheInv, BgetRef, BgetTake, Goto, Here, At, ring, users
<1>2. refcnt \in [Bufs -> Nat] /\ refcnt[At] = 0
  <2>1. At \notin Holds \/ refcnt[At] = 0
    BY <1>1 DEF BioOK, CacheOK, CacheInv
  <2> QED
    BY <1>1, <2>1 DEF BioOK, CacheOK, CacheType, CacheInv, Counted, RwPc
<1>3. refcnt'[At] # 0 /\ \A b \in Bufs : b # At => refcnt'[b] = refcnt[b]
  BY <1>1, <1>2
<1>4. At \in Range(idle)
  BY <1>1, <1>2 DEF IdleInv
<1>5. prev \in [Node -> Node]
  BY DEF BioOK, CacheOK, CacheType
<1>6. idle' \in Seq(Bufs) /\ Once(idle') /\ Range(idle') = Range(idle) \ {At}
      /\ InOrder(prev, idle')
  BY <1>1, <1>4, <1>5, OrderRemoves DEF IdleInv
<1> QED
  BY <1>1, <1>3, <1>6 DEF IdleInv

\* brelse: the last reference is gone, the buffer comes out of the ring ...
LEMMA IdleReleased ==
  ASSUME OneCaller, BioOK, IdleInv, NEW b \in Bufs, Brelse(Caller, b)
  PROVE  IdleInv'
<1> USE CallerIsOne DEF OneCaller
<1>1. /\ Here = "fs" /\ UNCHANGED <<prev, idle>>
      /\ refcnt[b] = 1 /\ refcnt \in [Bufs -> Nat]
  BY DEF BioOK, CacheOK, CacheType, CacheInv, Counted, Brelse, Here, Holds, ring
<1>2. /\ Here' = "brelse_unlink" /\ At' = b /\ refcnt' = [refcnt EXCEPT ![b] = 0]
  BY <1>1 DEF BioOK, CacheOK, CacheType, Brelse, Goto, Here, At
<1> QED
  BY <1>1, <1>2 DEF IdleInv

\* ... which shortens the way past it ...
LEMMA IdleUnlinked ==
  ASSUME OneCaller, BioOK, IdleInv, BrelseUnlink(Caller)
  PROVE  IdleInv'
<1> USE CallerIsOne DEF OneCaller
<1>1. /\ Here = "brelse_unlink" /\ Here' = "brelse_insert" /\ At' = At /\ At \in Bufs
      /\ UNCHANGED <<refcnt, idle>> /\ prev' = [prev EXCEPT ![next[At]] = prev[At]]
      /\ Intact(Node, next, prev) /\ next \in [Node -> Node] /\ prev \in [Node -> Node]
  BY DEF BioOK, CacheOK, CacheType, CacheInv, BrelseUnlink, Goto, Here, At, users
<1>2. At \notin Range(idle)
  BY <1>1 DEF IdleInv
<1>3. InOrder(prev', idle)
  BY <1>1, <1>2, OrderUnlinks DEF IdleInv
<1> QED
  BY <1>1, <1>3 DEF IdleInv

\* ... and goes back in, as the one that is idle for the shortest time.
LEMMA IdleInserted ==
  ASSUME OneCaller, BioOK, IdleInv, BrelseInsert(Caller)
  PROVE  IdleInv'
<1> USE CallerIsOne DEF OneCaller
<1>1. /\ Here = "brelse_insert" /\ Here' = "fs" /\ At \in Bufs
      /\ refcnt' = refcnt /\ idle' = Append(idle, At)
      /\ prev' = [prev EXCEPT ![At] = Sentinel, ![next[Sentinel]] = At]
      /\ Intact(Node \ {At}, next, prev) /\ next \in [Node -> Node] /\ prev \in [Node -> Node]
  BY DEF BioOK, CacheOK, CacheType, CacheInv, BrelseInsert, Return, Goto, Here, At
<1>2. At \notin Range(idle) /\ refcnt[At] = 0
  BY <1>1 DEF IdleInv
<1>3. idle' \in Seq(Bufs) /\ Once(idle') /\ Range(idle') = Range(idle) \cup {At}
      /\ InOrder(prev', idle')
  <2>1. InFront(next, prev, prev', At) /\ IsLast(idle, At, idle')
    BY <1>1, SentinelApart DEF Intact, InFront, IsLast
  <2> QED
    BY <1>1, <1>2, <2>1, OrderInserts DEF IdleInv
<1> QED
  BY <1>1, <1>2, <1>3 DEF IdleInv

\* Every step; those of the driver and the holder change neither ring nor counts.
LEMMA IdleStep == OneCaller /\ BioOK /\ BioOK' /\ IdleInv /\ [BioNext]_vars => IdleInv'
<1> SUFFICES ASSUME OneCaller, BioOK, BioOK', IdleInv, [BioNext]_vars PROVE IdleInv'
  OBVIOUS
<1> USE CallerIsOne DEF OneCaller
<1>1. Here \in RwPc \cup BioPc /\ Here' \in RwPc \cup BioPc /\ pc \in [Callers -> RwPc \cup BioPc]
  BY DEF BioOK, DriverOK, DriverType, Here
<1>2. CASE UNCHANGED vars
  <2>1. UNCHANGED <<refcnt, prev, idle>> /\ Here' = Here /\ At' = At
    BY <1>2 DEF vars, diskvars, cache, ring, users, Here, At
  <2> QED
    BY <2>1, IdleKept
<1>3. CASE \/ \E blk \in Blocks : Bread(Caller, blk)
           \/ \E b \in Bufs, v \in Values : Modify(Caller, b, v)
           \/ \E b \in Bufs : Bwrite(Caller, b)
  <2>1. Here = "fs" /\ UNCHANGED <<refcnt, prev, idle>>
    BY <1>3 DEF Bread, Modify, Bwrite, Here, cache, ring
  <2>2. Here' \in {"bget_find", "fs"} \cup RwPc
    BY <1>1, <1>3 DEF Bread, Modify, Bwrite, RwCall, Goto, Here, RwPc
  <2> QED
    BY <2>1, <2>2, IdleKept DEF RwPc
<1>4. CASE BreadTest(Caller) \/ BreadValid(Caller) \/ BwriteReturn(Caller)
  <2>1. Here \in {"bread_test", "rw_return"} /\ UNCHANGED <<refcnt, prev, idle>>
    BY <1>4 DEF BreadTest, BreadValid, BwriteReturn, Here, cache, ring
  <2>2. Here' \in {"fs"} \cup RwPc
    BY <1>1, <1>4 DEF BreadTest, BreadValid, BwriteReturn, Return, RwCall, Goto, Here, RwPc
  <2> QED
    BY <2>1, <2>2, IdleKept DEF RwPc
<1>5. CASE (Driver(Caller) \/ Device) /\ UNCHANGED <<cache, users, idle>>
  <2>1. UNCHANGED <<refcnt, prev, idle>> /\ At' = At
    BY <1>5 DEF cache, ring, users, At
  <2>2. Here' = Here \/ (Here \in RwPc /\ Here' \in RwPc \cup {"panic"})
    BY <1>1, <1>5
    DEF Driver, AllocTest, AllocSet, Fill, AvailRing, AvailIdx, Poll, UsedTest, UsedDone, FreeChain,
        Device, DeviceTakes, DeviceFinishes, Goto, Here, RwPc
  <2> QED
    BY <2>1, <2>2, IdleKept DEF RwPc
<1>6. \/ UNCHANGED vars
      \/ Ask(Caller) \/ Step(Caller)
      \/ Device /\ UNCHANGED <<cache, users, idle>>
  BY DEF BioNext
<1> QED
  BY <1>2, <1>3, <1>4, <1>5, <1>6, IdleFind, IdleEvict, IdleTaken, IdleReleased, IdleUnlinked,
     IdleInserted DEF Ask, Step

-----------------------------------------------------------------------------
(* Theorems: one process, any number of buffers, blocks and descriptors    *)

\* The variables of struct disk and struct bcache keep their types.
THEOREM CacheTyped ==
  ASSUME OneCaller
  PROVE  Spec => []TypeOK
<1>1. BioOK => TypeOK
  BY CallerIsOne DEF BioOK, DriverOK, DriverType, CacheOK, CacheType, CacheInv, TypeOK, Holds
<1> QED
  BY <1>1, BioInvariant, PTL

\* bget never makes a second copy of a block (bio.c:102).
THEOREM NeverTwoCopies ==
  ASSUME OneCaller
  PROVE  Spec => []OneCopy
<1>1. BioOK => OneCopy
  BY DEF BioOK, CacheOK, CacheInv
<1> QED
  BY <1>1, BioInvariant, PTL

\* virtio_disk_rw has returned only when the device has made the transfer
\* (virtio_disk.c:226).
THEOREM TransfersBeforeReturn ==
  ASSUME OneCaller
  PROVE  Spec => []Synchronous
<1>1. BioOK => Synchronous
  BY CallerIsOne DEF BioOK, DriverOK, DriverInv, Consumed, Synchronous, Here, RwPc
<1> QED
  BY <1>1, BioInvariant, PTL

\* No descriptor, ring index or waiting buffer is left over by a call.
THEOREM CallsLeaveNothing ==
  ASSUME OneCaller
  PROVE  Spec => []QuietBetweenCalls
<1>1. BioOK => QuietBetweenCalls
  BY CallerIsOne DEF BioOK, DriverOK, DriverInv, Agreed, NoneWaits, QuietBetweenCalls, Here
<1> QED
  BY <1>1, BioInvariant, PTL

\* The two half relinks of brelse leave one ring of all buffers (bio.c:184-196).
THEOREM RingStaysWhole ==
  ASSUME OneCaller
  PROVE  Spec => []RingIntact
<1>1. BioOK => RingIntact
  BY CallerIsOne DEF BioOK, CacheOK, CacheInv, Intact, RingIntact, Here
<1> QED
  BY <1>1, BioInvariant, PTL

\* bget recycles the buffer that has been idle longest (bio.c:187): the ring is the only
\* record of it, and buffers in use stand between the idle ones.
THEOREM OldestRecycled ==
  ASSUME OneCaller
  PROVE  Spec => []RecyclesLongestIdle
<1>1. BioInit => IdleInv
  BY IdleStart
<1>2. BioOK /\ BioOK' /\ IdleInv /\ [BioNext]_vars => IdleInv'
  BY IdleStep
<1>3. BioOK /\ IdleInv => RecyclesLongestIdle
  BY CallerIsOne, FoundIsFirst DEF RecyclesLongestIdle, Here, At
<1> QED
  BY <1>1, <1>2, <1>3, BioInvariant, PTL DEF Spec

\* A held buffer keeps its block; only its holder changes its data.
THEOREM HolderOnly ==
  ASSUME OneCaller
  PROVE  Spec => HeldIsStable
<1> DEFINE Stable == \A c \in Callers, b \in Bufs :
                       b \in held[c] /\ b \in held'[c] =>
                          /\ blockno'[b] = blockno[b] /\ valid'[b]
                          /\ data'[b] # data[b] => b \in dirty'[c]
<1>1. ASSUME BioOK, BioOK', BioNext
      PROVE  Stable
  <2> USE CallerIsOne DEF OneCaller
  <2>1. SUFFICES ASSUME NEW b \in Bufs, b \in Holds, b \in Holds'
                 PROVE  blockno'[b] = blockno[b] /\ valid'[b]
                        /\ (data'[b] # data[b] => b \in dirty'[Caller])
    BY Zenon DEF Holds
  <2>2. valid'[b]
    BY <1>1, <2>1 DEF BioOK, CacheOK, CacheInv
  <2>3. /\ blockno \in [Bufs -> Blocks \cup {NoBlock}] /\ data \in [Bufs -> Values]
        /\ dirty \in [Callers -> SUBSET Bufs]
    BY <1>1 DEF BioOK, DriverOK, DriverType, CacheOK, CacheType
  <2>4. \/ Ask(Caller) \/ Step(Caller)
        \/ Device /\ UNCHANGED <<cache, users, idle>>
    BY <1>1 DEF BioNext
  <2>5. CASE \E x \in Bufs, v \in Values : Modify(Caller, x, v)
    BY <2>1, <2>2, <2>3, <2>5 DEF Modify, Holds
  <2>6. CASE BgetTake(Caller)
    <3>1. Here = "bget_take" /\ refcnt[At] = 0 /\ refcnt[b] = 1
      BY <1>1, <2>1, <2>6 DEF BioOK, CacheOK, CacheInv, Counted, BgetTake, Here
    <3> QED
      BY <2>2, <2>3, <2>6, <3>1 DEF BgetTake, At
  <2>7. ASSUME NEW h \in Desc, DeviceFinishes(h)
        PROVE  data'[b] = data[b] /\ UNCHANGED blockno
    <3>1. Here \in RwPc \cup BioPc
      BY <1>1 DEF BioOK, DriverOK, DriverType, Here
    <3>2. InWork /\ Chained /\ Here \in RwPc /\ Request.b \in Bufs
      BY <1>1, <2>7, <3>1
      DEF BioOK, DriverOK, DriverInv, DeviceFinishes, RwPc, BioPc, Agreed, Queued, Finished, Consumed,
          InWork
    <3>3. ops[h].write = Request.write /\ desc[desc[h].next].to[2] = Request.b
      BY <2>7, <3>2 DEF DeviceFinishes, InWork, Chained
    <3>4. Request.write \/ Request.b # b
      BY <1>1, <2>1, <3>2 DEF BioOK, CacheOK, CacheInv
    <3>5. data'[b] = data[b]
      BY <2>3, <2>7, <3>2, <3>3, <3>4 DEF DeviceFinishes
    <3> QED
      BY <2>7, <3>5 DEF DeviceFinishes
  <2>8. CASE \/ \E blk \in Blocks : Bread(Caller, blk)
             \/ \E x \in Bufs : Bwrite(Caller, x) \/ Brelse(Caller, x)
    BY <2>2, <2>8 DEF Bread, Bwrite, RwCall, Brelse, bufs
  <2>9. CASE \/ BgetFind(Caller) \/ BgetRef(Caller) \/ BgetEvict(Caller)
             \/ BreadTest(Caller) \/ BreadValid(Caller) \/ BwriteReturn(Caller)
             \/ BrelseUnlink(Caller) \/ BrelseInsert(Caller)
    BY <2>2, <2>9 DEF BgetFind, BgetRef, BgetEvict, BreadTest, RwCall, BreadValid, BwriteReturn,
       BrelseUnlink, BrelseInsert, bufs
  <2>10. CASE Driver(Caller) \/ DeviceTakes
    BY <2>2, <2>10 DEF Driver, AllocTest, AllocSet, Fill, AvailRing, AvailIdx, Poll, UsedTest, UsedDone,
       FreeChain, DeviceTakes, bufs
  <2> QED
    BY <2>2, <2>4, <2>5, <2>6, <2>7, <2>8, <2>9, <2>10 DEF Ask, Step, Device
<1>2. BioOK /\ BioOK' /\ [BioNext]_vars => [Stable]_vars
  BY <1>1
<1>3. Spec => [][Stable]_vars
  <2> HIDE DEF Stable
  <2> QED
    BY <1>2, BioInvariant, PTL DEF Spec
<1> QED
  BY <1>3 DEF HeldIsStable

(***************************************************************************)
(* With one process the cache over the driver implements BlockStore: a     *)
(* buffer that is recycled, read again or written is never seen as         *)
(* anything but the one content of its block.                              *)
(***************************************************************************)

-----------------------------------------------------------------------------
(* The content of a block                                                  *)

\* Content, as a function of what it depends on.
Reads(v, bn, dt, md, blk) ==
  LET copies == {b \in Bufs : v[b] /\ bn[b] = blk}
  IN  IF copies = {} THEN md[blk] ELSE dt[CHOOSE b \in copies : TRUE]

LEMMA ContentReads ==
  /\ Content = [blk \in Blocks |-> Reads(valid, blockno, data, media, blk)]
  /\ Content' = [blk \in Blocks |-> Reads(valid', blockno', data', media', blk)]
  BY DEF Content, Reads

LEMMA ReadsMedia ==
  ASSUME NEW v, NEW bn, NEW dt, NEW md, NEW blk, \A b \in Bufs : bn[b] = blk => ~v[b]
  PROVE  Reads(v, bn, dt, md, blk) = md[blk]
<1>1. {b \in Bufs : v[b] /\ bn[b] = blk} = {}
  OBVIOUS
<1> QED
  BY <1>1, Zenon DEF Reads

LEMMA ReadsCopy ==
  ASSUME NEW v, NEW bn, NEW dt, NEW md, NEW b \in Bufs, v[b],
         \A a \in Bufs : a # b => bn[a] # bn[b]
  PROVE  Reads(v, bn, dt, md, bn[b]) = dt[b]
<1>1. {a \in Bufs : v[a] /\ bn[a] = bn[b]} = {b}
  OBVIOUS
<1>2. (CHOOSE a \in {b} : TRUE) = b
  OBVIOUS
<1> QED
  BY <1>1, <1>2 DEF Reads

\* The contents agree where copies and media do.
LEMMA ReadsSame ==
  ASSUME NEW v, NEW bn, NEW dt, NEW md, NEW w, NEW bm, NEW du, NEW mf, NEW blk,
         \A b \in Bufs : (v[b] /\ bn[b] = blk) <=> (w[b] /\ bm[b] = blk),
         \A b \in Bufs : v[b] /\ bn[b] = blk => dt[b] = du[b],
         md[blk] = mf[blk]
  PROVE  Reads(v, bn, dt, md, blk) = Reads(w, bm, du, mf, blk)
<1> DEFINE copies == {b \in Bufs : v[b] /\ bn[b] = blk}
<1>1. copies = {b \in Bufs : w[b] /\ bm[b] = blk}
  OBVIOUS
<1>2. CASE copies = {}
  BY <1>1, <1>2 DEF Reads
<1>3. CASE copies # {}
  <2>1. (CHOOSE b \in copies : TRUE) \in copies
    BY <1>3
  <2>2. dt[CHOOSE b \in copies : TRUE] = du[CHOOSE b \in copies : TRUE]
    BY <2>1
  <2> QED
    BY <1>1, <1>3, <2>2 DEF Reads
<1> QED
  BY <1>2, <1>3

LEMMA OneInUse == OneCaller => InUse = {blockno[b] : b \in Holds}
                               /\ InUse' = {blockno'[b] : b \in Holds'}
<1> SUFFICES ASSUME OneCaller PROVE InUse = {blockno[b] : b \in Holds}
                                    /\ InUse' = {blockno'[b] : b \in Holds'}
  OBVIOUS
<1>1. UNION {held[c] : c \in Callers} = Holds /\ UNION {held'[c] : c \in Callers} = Holds'
  BY DEF OneCaller, Holds
<1> QED
  BY <1>1 DEF InUse

-----------------------------------------------------------------------------
(* The invariant                                                           *)

StoreInv ==
  /\ \A b \in Bufs : valid[b] =>
       blockno[b] \in Blocks /\ (b \notin dirty[Caller] => data[b] = media[blockno[b]])
  /\ Here \in RwPc /\ moved[Caller] => data[Request.b] = media[blockno[Request.b]]
  /\ Here \in RwPc /\ ~Request.write => ~valid[Request.b]

StoreOK == BioOK /\ StoreInv

\* No two buffers hold one block of the disk.
LEMMA CopiesDiffer ==
  ASSUME BioOK, NEW a \in Bufs, NEW b \in Bufs, a # b, blockno[b] \in Blocks
  PROVE  blockno[a] # blockno[b]
  BY BioAssumption DEF BioAssumption, BioOK, CacheOK, CacheInv, OneCopy

MappedNext == [Store!Next]_<<Content, media, InUse>>

\* Steps that leave every copy and every held buffer alone.
LEMMA QuietStep ==
  ASSUME OneCaller, StoreOK, UNCHANGED <<valid, blockno, data, media, held, dirty>>,
         Here' \in RwPc =>
            \/ Here \in RwPc /\ Request' = Request /\ moved'[Caller] = moved[Caller]
            \/ ~moved'[Caller] /\ (~Request'.write => ~valid[Request'.b])
  PROVE  StoreInv' /\ MappedNext
<1>1. StoreInv'
  BY DEF StoreOK, StoreInv
<1>2. UNCHANGED <<Content, media, InUse>>
  BY DEF Content, InUse
<1> QED
  BY <1>1, <1>2 DEF MappedNext

-----------------------------------------------------------------------------
(* The steps that matter                                                   *)

\* bread returns buffer b: Read of its block.
LEMMA Returned ==
  ASSUME OneCaller, StoreOK, NEW b \in Bufs, b \notin Holds, blockno[b] \in Blocks,
         Holds' = Holds \cup {b}, UNCHANGED <<blockno, media>>, Content' = Content
  PROVE  MappedNext
<1>1. InUse' = InUse \cup {blockno[b]}
  BY OneInUse
<1>2. blockno[b] \notin InUse
  <2>1. Holds \subseteq Bufs
    BY CallerIsOne DEF StoreOK, BioOK, CacheOK, CacheType, Holds
  <2>2. \A a \in Holds : blockno[a] # blockno[b]
    BY <2>1, CopiesDiffer DEF StoreOK
  <2> QED
    BY <2>2, OneInUse
<1>3. Store!Read(blockno[b])
  BY <1>1, <1>2 DEF Store!Read
<1> QED
  BY <1>3 DEF MappedNext, Store!Next

LEMMA TestMaps ==
  ASSUME OneCaller, StoreOK, BreadTest(Caller)
  PROVE  StoreInv' /\ MappedNext
<1> USE CallerIsOne DEF OneCaller
<1>1. /\ Here = "bread_test" /\ At \in Bufs /\ blockno[At] \in Blocks /\ At \notin Holds
      /\ UNCHANGED <<valid, blockno, data, media, dirty>>
  BY DEF StoreOK, BioOK, CacheOK, CacheInv, BreadTest, RwCall, disk, bufs, device, cache, Here
<1>2. CASE valid[At]
  <2>1. Here' = "fs" /\ Holds' = Holds \cup {At}
    BY <1>2 DEF StoreOK, BioOK, CacheOK, CacheType, BreadTest, Return, Goto, Here, Holds, At
  <2>2. Content' = Content
    BY <1>1 DEF Content
  <2>3. StoreInv'
    BY <1>1, <2>1 DEF StoreOK, StoreInv, RwPc
  <2> QED
    BY <1>1, <2>1, <2>2, <2>3, Returned
<1>3. CASE ~valid[At]
  <2>1. RwCall(Caller, At, FALSE) /\ UNCHANGED held
    BY <1>3 DEF BreadTest, At
  <2>2. Request' = [b |-> At, write |-> FALSE] /\ ~moved'[Caller]
    BY <2>1 DEF StoreOK, BioOK, DriverOK, DriverType, RwCall, Request
  <2> QED
    BY <1>1, <1>3, <2>1, <2>2, QuietStep
<1> QED
  BY <1>2, <1>3

LEMMA ValidMaps ==
  ASSUME OneCaller, StoreOK, BreadValid(Caller)
  PROVE  StoreInv' /\ MappedNext
<1> USE CallerIsOne DEF OneCaller
<1> DEFINE b == Request.b
<1>1. /\ Here = "rw_return" /\ ~Request.write /\ b \in Bufs /\ blockno[b] \in Blocks
      /\ b \notin Holds /\ ~valid[b] /\ data[b] = media[blockno[b]]
  BY DEF StoreOK, StoreInv, BioOK, DriverOK, DriverInv, Consumed, CacheOK, CacheInv, BreadValid, Here,
         Request, RwPc
<1>2. /\ Here' = "fs" /\ Holds' = Holds \cup {b} /\ valid' = [valid EXCEPT ![b] = TRUE]
      /\ UNCHANGED <<blockno, data, media, dirty>>
  BY DEF StoreOK, BioOK, CacheOK, CacheType, BreadValid, Return, Goto, disk, device, Here, Holds,
         Request
<1> HIDE DEF b
<1>3. valid \in [Bufs -> BOOLEAN]
  BY DEF StoreOK, BioOK, CacheOK, CacheType
<1>4. StoreInv'
  BY <1>1, <1>2, <1>3 DEF StoreOK, StoreInv, RwPc
<1>5. ASSUME NEW blk \in Blocks
      PROVE  Reads(valid, blockno, data, media, blk) = Reads(valid', blockno', data', media', blk)
  <2>1. CASE blk = blockno[b]
    <3>1. \A a \in Bufs : a # b => blockno[a] # blockno[b]
      BY <1>1, CopiesDiffer DEF StoreOK
    <3>2. Reads(valid, blockno, data, media, blk) = media[blk]
      BY <1>1, <2>1, <3>1, ReadsMedia
    <3>3. valid'[b]
      BY <1>1, <1>2, <1>3
    <3>4. Reads(valid', blockno, data, media, blockno[b]) = data[b]
      BY <1>1, <3>1, <3>3, ReadsCopy
    <3> QED
      BY <1>1, <1>2, <2>1, <3>2, <3>4
  <2>2. CASE blk # blockno[b]
    <3>1. \A a \in Bufs : (valid[a] /\ blockno[a] = blk) <=> (valid'[a] /\ blockno'[a] = blk)
      BY <1>1, <1>2, <1>3, <2>2
    <3>2. (\A a \in Bufs : valid[a] /\ blockno[a] = blk => data[a] = data'[a])
          /\ media[blk] = media'[blk]
      BY <1>2
    <3> QED
      BY <3>1, <3>2, ReadsSame
  <2> QED
    BY <2>1, <2>2
<1>6. Content' = Content
  BY <1>5, ContentReads
<1> QED
  BY <1>1, <1>2, <1>4, <1>6, Returned

\* Recycling a buffer loses nothing: what it held is on the disk.
LEMMA TakeMaps ==
  ASSUME OneCaller, StoreOK, BgetTake(Caller)
  PROVE  StoreInv' /\ MappedNext
<1> USE CallerIsOne DEF OneCaller
<1> DEFINE b == At
<1>1. /\ Here = "bget_take" /\ b \in Bufs /\ b \notin Holds /\ b \notin dirty[Caller]
      /\ NoneCaches(Want) /\ Want \in Blocks
  BY DEF StoreOK, BioOK, CacheOK, CacheInv, Counted, BgetTake, Here
<1>2. /\ Here' = "bread_test" /\ blockno' = [blockno EXCEPT ![b] = Want]
      /\ valid' = [valid EXCEPT ![b] = FALSE] /\ Holds' = Holds
      /\ UNCHANGED <<data, media, held, dirty>>
  BY DEF StoreOK, BioOK, CacheOK, CacheType, BgetTake, Goto, disk, device, users, Here, Holds, At, Want
<1> HIDE DEF b
<1>3. valid \in [Bufs -> BOOLEAN] /\ blockno \in [Bufs -> Blocks \cup {NoBlock}] /\ Holds \subseteq Bufs
  BY DEF StoreOK, BioOK, CacheOK, CacheType, Holds
<1>4. \A a \in Bufs : valid'[a] => valid[a] /\ a # b /\ blockno'[a] = blockno[a]
  BY <1>1, <1>2, <1>3
<1>5. StoreInv'
  BY <1>1, <1>2, <1>4 DEF StoreOK, StoreInv, RwPc
<1>6. ASSUME NEW blk \in Blocks
      PROVE  Reads(valid, blockno, data, media, blk) = Reads(valid', blockno', data', media', blk)
  <2>1. CASE valid[b] /\ blockno[b] = blk
    <3>1. \A a \in Bufs : a # b => blockno[a] # blockno[b]
      BY <1>1, <2>1, CopiesDiffer DEF StoreOK
    <3>2. Reads(valid, blockno, data, media, blockno[b]) = data[b]
      BY <1>1, <2>1, <3>1, ReadsCopy
    <3>3. data[b] = media[blk]
      BY <1>1, <2>1 DEF StoreOK, StoreInv
    <3>4. \A a \in Bufs : blockno'[a] = blk => ~valid'[a]
      BY <1>4, <2>1, <3>1
    <3>5. Reads(valid', blockno', data', media', blk) = media'[blk]
      BY <3>4, ReadsMedia
    <3> QED
      BY <1>2, <2>1, <3>2, <3>3, <3>5
  <2>2. CASE ~(valid[b] /\ blockno[b] = blk)
    <3>1. \A a \in Bufs : (valid[a] /\ blockno[a] = blk) <=> (valid'[a] /\ blockno'[a] = blk)
      BY <1>1, <1>2, <1>3, <1>4, <2>2
    <3>2. (\A a \in Bufs : valid[a] /\ blockno[a] = blk => data[a] = data'[a])
          /\ media[blk] = media'[blk]
      BY <1>2
    <3> QED
      BY <3>1, <3>2, ReadsSame
  <2> QED
    BY <2>1, <2>2
<1>7. Content' = Content
  BY <1>6, ContentReads
<1>8. InUse' = InUse
  <2>1. \A a \in Holds : blockno'[a] = blockno[a]
    BY <1>1, <1>2, <1>3
  <2> QED
    BY <1>2, <2>1, OneInUse
<1> QED
  BY <1>2, <1>5, <1>7, <1>8 DEF MappedNext

\* A store into a held buffer: Change of its block.
LEMMA ModifyMaps ==
  ASSUME OneCaller, StoreOK, NEW b \in Bufs, NEW v \in Values, Modify(Caller, b, v)
  PROVE  StoreInv' /\ MappedNext
<1> USE CallerIsOne DEF OneCaller
<1>1. /\ Here = "fs" /\ b \in Holds /\ valid[b] /\ blockno[b] \in Blocks
  BY DEF StoreOK, BioOK, CacheOK, CacheInv, Modify, Here, Holds
<1>2. /\ Here' = "fs" /\ data' = [data EXCEPT ![b] = v] /\ Holds' = Holds
      /\ dirty'[Caller] = dirty[Caller] \cup {b}
      /\ UNCHANGED <<blockno, valid, media, held>>
  BY DEF StoreOK, BioOK, CacheOK, CacheType, Modify, disk, device, cache, Here, Holds
<1>3. data \in [Bufs -> Values]
  BY DEF StoreOK, BioOK, DriverOK, DriverType
<1>4. StoreInv'
  BY <1>2, <1>3 DEF StoreOK, StoreInv, RwPc
<1>5. \A a \in Bufs : a # b => blockno[a] # blockno[b]
  BY <1>1, CopiesDiffer DEF StoreOK
<1>6. Reads(valid', blockno', data', media', blockno[b]) = v
  <2>1. valid'[b] /\ \A a \in Bufs : a # b => blockno'[a] # blockno'[b]
    BY <1>1, <1>2, <1>5
  <2>2. Reads(valid', blockno', data', media', blockno'[b]) = data'[b]
    BY <2>1, ReadsCopy
  <2> QED
    BY <1>2, <1>3, <2>2
<1>7. ASSUME NEW blk \in Blocks, blk # blockno[b]
      PROVE  Reads(valid, blockno, data, media, blk) = Reads(valid', blockno', data', media', blk)
  <2>1. \A a \in Bufs : valid[a] /\ blockno[a] = blk => data[a] = data'[a]
    BY <1>2, <1>3, <1>7
  <2>2. (\A a \in Bufs : (valid[a] /\ blockno[a] = blk) <=> (valid'[a] /\ blockno'[a] = blk))
        /\ media[blk] = media'[blk]
    BY <1>2
  <2> QED
    BY <2>1, <2>2, ReadsSame
<1>8. Content' = [Content EXCEPT ![blockno[b]] = v]
  BY <1>1, <1>6, <1>7, ContentReads
<1>9. blockno[b] \in InUse /\ InUse' = InUse
  BY <1>1, <1>2, OneInUse
<1>10. Store!Change(blockno[b], v)
  BY <1>2, <1>8, <1>9 DEF Store!Change
<1> QED
  BY <1>1, <1>4, <1>10 DEF MappedNext, Store!Next

\* The end of bwrite: the device has the content.
LEMMA WrittenMaps ==
  ASSUME OneCaller, StoreOK, BwriteReturn(Caller)
  PROVE  StoreInv' /\ MappedNext
<1> USE CallerIsOne DEF OneCaller
<1>1. /\ Here = "rw_return" /\ data[Request.b] = media[blockno[Request.b]]
      /\ Here' = "fs" /\ dirty'[Caller] = dirty[Caller] \ {Request.b}
      /\ UNCHANGED <<blockno, valid, data, media, held>>
  BY DEF StoreOK, StoreInv, BioOK, DriverOK, DriverInv, Consumed, CacheOK, CacheType, BwriteReturn,
     Return, Goto, disk, device, cache, Here, Request, RwPc
<1>2. StoreInv'
  BY <1>1 DEF StoreOK, StoreInv, RwPc
<1>3. UNCHANGED <<Content, media, InUse>>
  BY <1>1 DEF Content, InUse
<1> QED
  BY <1>2, <1>3 DEF MappedNext

LEMMA BrelseMaps ==
  ASSUME OneCaller, StoreOK, NEW b \in Bufs, Brelse(Caller, b)
  PROVE  StoreInv' /\ MappedNext
<1> USE CallerIsOne DEF OneCaller
<1>1. /\ b \in Holds /\ b \notin dirty[Caller] /\ valid[b] /\ blockno[b] \in Blocks
      /\ data[b] = media[blockno[b]]
  BY DEF StoreOK, StoreInv, BioOK, CacheOK, CacheInv, Brelse, Here, Holds
<1>2. /\ Here' \in {"fs", "brelse_unlink"} /\ Holds' = Holds \ {b}
      /\ UNCHANGED <<blockno, valid, data, media, dirty>>
  BY DEF StoreOK, BioOK, CacheOK, CacheType, Brelse, Return, Goto, disk, device, Here, Holds
<1>3. StoreInv'
  BY <1>2 DEF StoreOK, StoreInv, RwPc
<1>4. Content' = Content /\ Content[blockno[b]] = media[blockno[b]]
  <2>1. \A a \in Bufs : a # b => blockno[a] # blockno[b]
    BY <1>1, CopiesDiffer DEF StoreOK
  <2>2. Reads(valid, blockno, data, media, blockno[b]) = data[b]
    BY <1>1, <2>1, ReadsCopy
  <2>3. Content' = Content
    BY <1>2 DEF Content
  <2> QED
    BY <1>1, <2>2, <2>3, ContentReads
<1>5. InUse' = InUse \ {blockno[b]} /\ blockno[b] \in InUse
  <2>1. \A a \in Holds : a # b => blockno[a] # blockno[b]
    <3>1. Holds \subseteq Bufs
      BY DEF StoreOK, BioOK, CacheOK, CacheType, Holds
    <3> QED
      BY <1>1, <3>1, CopiesDiffer DEF StoreOK
  <2> QED
    BY <1>1, <1>2, <2>1, OneInUse
<1>6. Store!Release(blockno[b])
  BY <1>2, <1>4, <1>5 DEF Store!Release
<1> QED
  BY <1>1, <1>3, <1>6 DEF MappedNext, Store!Next

\* The device ends a write: Write of its block.  The end of a read is not seen.
LEMMA FinishMaps ==
  ASSUME OneCaller, StoreOK, NEW h \in Desc, DeviceFinishes(h), UNCHANGED <<cache, users>>
  PROVE  StoreInv' /\ MappedNext
<1> USE CallerIsOne DEF OneCaller
<1> DEFINE b == Request.b
           own == blockno[b]
<1>1. Here \in RwPc \cup BioPc
  BY DEF StoreOK, BioOK, DriverOK, DriverType, Here
<1>2. InWork /\ Chained /\ Here \in RwPc /\ b \in Bufs /\ own \in Blocks
  BY <1>1
  DEF StoreOK, BioOK, DriverOK, DriverInv, DeviceFinishes, RwPc, BioPc, Agreed, Queued, Finished,
      Consumed, InWork
<1>3. /\ ops[h].write = Request.write /\ ops[h].block = own
      /\ desc[desc[h].next].to[2] = b
  BY <1>2 DEF DeviceFinishes, InWork, Chained
<1>4. /\ Here' = Here /\ Request' = Request /\ Holds' = Holds
      /\ UNCHANGED <<valid, blockno, held, dirty>>
  BY DEF DeviceFinishes, cache, users, locals, Here, Request, Holds
<1>5. media \in [Blocks -> Values] /\ data \in [Bufs -> Values] /\ Holds \subseteq Bufs
  BY DEF StoreOK, BioOK, DriverOK, DriverType, CacheOK, CacheType, Holds
<1>6. \A a \in Bufs : a # b => blockno[a] # own
  BY <1>2, CopiesDiffer DEF StoreOK
<1>7. InUse' = InUse
  BY <1>4 DEF InUse
<1>8. CASE Request.write
  <2>1. b \in Holds /\ valid[b] /\ own \in InUse
    BY <1>2, <1>8, OneInUse DEF StoreOK, BioOK, CacheOK, CacheInv
  <2>2. media' = [media EXCEPT ![own] = data[b]] /\ data' = data
    BY <1>3, <1>8 DEF DeviceFinishes
  <2> HIDE DEF b, own
  <2>3. StoreInv'
    <3>1. \A a \in Bufs : valid'[a] =>
            blockno'[a] \in Blocks /\ (a \notin dirty'[Caller] => data'[a] = media'[blockno'[a]])
      <4>1. \A a \in Bufs : valid[a] =>
              blockno[a] \in Blocks /\ (a \notin dirty[Caller] => data[a] = media[blockno[a]])
        BY DEF StoreOK, StoreInv
      <4> QED
        BY <1>2, <1>4, <1>5, <1>6, <2>2, <4>1 DEF own
    <3>2. data'[b] = media'[own]
      BY <1>2, <1>5, <2>2
    <3> QED
      BY <1>4, <1>8, <3>1, <3>2 DEF StoreInv, b, own
  <2>4. Reads(valid, blockno, data, media, own) = data[b]
    BY <1>2, <1>6, <2>1, ReadsCopy DEF own
  <2>5. ASSUME NEW blk \in Blocks
        PROVE  Reads(valid, blockno, data, media, blk) = Reads(valid', blockno', data', media', blk)
    <3>1. CASE blk = own
      <4>1. valid'[b] /\ \A a \in Bufs : a # b => blockno'[a] # blockno'[b]
        BY <1>4, <1>6, <2>1 DEF own
      <4>2. Reads(valid', blockno', data', media', blockno'[b]) = data'[b]
        BY <1>2, <4>1, ReadsCopy
      <4> QED
        BY <1>4, <2>2, <2>4, <3>1, <4>2 DEF own
    <3>2. CASE blk # own
      <4>1. /\ \A a \in Bufs : (valid[a] /\ blockno[a] = blk) <=> (valid'[a] /\ blockno'[a] = blk)
            /\ \A a \in Bufs : valid[a] /\ blockno[a] = blk => data[a] = data'[a]
            /\ media[blk] = media'[blk]
        BY <1>4, <1>5, <2>2, <3>2
      <4> QED
        BY <4>1, ReadsSame
    <3> QED
      BY <3>1, <3>2
  <2>6. Content' = Content /\ Content[own] = data[b]
    BY <1>2, <2>4, <2>5, ContentReads
  <2>7. Store!Write(own)
    BY <1>7, <2>1, <2>2, <2>6 DEF Store!Write
  <2> QED
    BY <1>2, <2>3, <2>7 DEF MappedNext, Store!Next
<1>9. CASE ~Request.write
  <2>1. ~valid[b]
    BY <1>2, <1>9 DEF StoreOK, StoreInv
  <2>2. data' = [data EXCEPT ![b] = media[own]] /\ media' = media
    BY <1>3, <1>9 DEF DeviceFinishes
  <2> HIDE DEF b, own
  <2>3. StoreInv'
    <3>1. \A a \in Bufs : valid'[a] => valid[a] /\ data'[a] = data[a]
      BY <1>4, <1>5, <2>1, <2>2
    <3>2. data'[b] = media'[own]
      BY <1>2, <1>5, <2>2
    <3> QED
      BY <1>4, <2>2, <3>1, <3>2 DEF StoreOK, StoreInv, b, own
  <2>4. ASSUME NEW blk \in Blocks
        PROVE  Reads(valid, blockno, data, media, blk) = Reads(valid', blockno', data', media', blk)
    <3>1. /\ \A a \in Bufs : (valid[a] /\ blockno[a] = blk) <=> (valid'[a] /\ blockno'[a] = blk)
          /\ \A a \in Bufs : valid[a] /\ blockno[a] = blk => data[a] = data'[a]
          /\ media[blk] = media'[blk]
      BY <1>4, <1>5, <2>1, <2>2
    <3> QED
      BY <3>1, ReadsSame
  <2>5. Content' = Content
    BY <2>4, ContentReads
  <2> QED
    BY <1>7, <2>2, <2>3, <2>5 DEF MappedNext
<1> QED
  BY <1>8, <1>9

-----------------------------------------------------------------------------
(* All steps                                                               *)

LEMMA CallMaps ==
  ASSUME OneCaller, StoreOK, NEW b \in Bufs, Bwrite(Caller, b)
  PROVE  StoreInv' /\ MappedNext
<1>1. Request' = [b |-> b, write |-> TRUE] /\ ~moved'[Caller]
  BY CallerIsOne DEF StoreOK, BioOK, DriverOK, DriverType, Bwrite, RwCall, Request
<1>2. UNCHANGED <<valid, blockno, data, media, held, dirty>>
  BY DEF Bwrite, RwCall, bufs, device, cache, users
<1> QED
  BY <1>1, <1>2, QuietStep

\* bget, the relinks of brelse, virtio_disk_rw and the device taking a request.
LEMMA OtherMaps ==
  ASSUME OneCaller, StoreOK,
         \/ \E blk \in Blocks : Bread(Caller, blk)
         \/ BgetFind(Caller) \/ BgetRef(Caller) \/ BgetEvict(Caller)
         \/ BrelseUnlink(Caller) \/ BrelseInsert(Caller)
         \/ (Driver(Caller) \/ DeviceTakes) /\ UNCHANGED <<cache, users, idle>>
  PROVE  StoreInv' /\ MappedNext
<1>1. UNCHANGED <<valid, blockno, data, media, held, dirty>>
  BY DEF Bread, BgetFind, BgetRef, BgetEvict, BrelseUnlink, BrelseInsert, Driver, AllocTest, AllocSet,
     Fill, AvailRing, AvailIdx, Poll, UsedTest, UsedDone, FreeChain, DeviceTakes, disk, device, bufs,
     cache, ring, users
<1>2. Request' = Request /\ moved' = moved
  BY DEF Bread, BgetFind, BgetRef, BgetEvict, BrelseUnlink, BrelseInsert, Driver, AllocTest, AllocSet,
     Fill, AvailRing, AvailIdx, Poll, UsedTest, UsedDone, FreeChain, DeviceTakes, request, locals,
     Request
<1>3. pc \in [Callers -> RwPc \cup BioPc]
  BY DEF StoreOK, BioOK, DriverOK, DriverType
<1>4. Here' \in RwPc => Here \in RwPc
  <2>1. CASE DeviceTakes
    BY <2>1 DEF DeviceTakes, Here
  <2>2. CASE Driver(Caller)
    BY <2>2 DEF Driver, AllocTest, AllocSet, Fill, AvailRing, AvailIdx, Poll, UsedTest, UsedDone,
       FreeChain, Here, RwPc
  <2>3. CASE \/ \E blk \in Blocks : Bread(Caller, blk)
             \/ BgetFind(Caller) \/ BgetRef(Caller) \/ BgetEvict(Caller)
             \/ BrelseUnlink(Caller) \/ BrelseInsert(Caller)
    BY <1>3, <2>3, CallerIsOne
    DEF Bread, BgetFind, BgetRef, BgetEvict, BrelseUnlink, BrelseInsert, Return, Goto, Here, RwPc
  <2> QED
    BY <2>1, <2>2, <2>3
<1> QED
  BY <1>1, <1>2, <1>4, QuietStep

LEMMA StoreStep ==
  ASSUME OneCaller, StoreOK, [BioNext]_vars
  PROVE  StoreOK' /\ MappedNext
<1>1. BioOK'
  BY BioStep DEF StoreOK
<1>2. CASE BioNext
  <2>1. Callers = {Caller}
    BY DEF OneCaller
  <2>2. \/ Ask(Caller) \/ Step(Caller)
        \/ Device /\ UNCHANGED <<cache, users, idle>>
    BY <1>2, <2>1 DEF BioNext
  <2> QED
    BY <1>1, <2>2, TestMaps, ValidMaps, TakeMaps, ModifyMaps, WrittenMaps, BrelseMaps, FinishMaps,
       CallMaps, OtherMaps DEF Ask, Step, Device, StoreOK
<1>3. CASE UNCHANGED vars
  <2>1. UNCHANGED <<valid, blockno, data, media, held, dirty, moved, pc, arg>>
    BY <1>3 DEF vars, diskvars, bufs, device, locals, cache, users
  <2>2. Here' = Here /\ Request' = Request
    BY <2>1 DEF Here, Request
  <2> QED
    BY <1>1, <2>1, <2>2, QuietStep DEF StoreOK
<1> QED
  BY <1>2, <1>3

LEMMA StoreStart == ASSUME OneCaller, BioInit PROVE StoreOK /\ Store!Init
<1> USE CallerIsOne DEF OneCaller
<1>1. BioOK
  BY BioStart
<1>2. StoreInv
  BY DEF BioInit, DiskInit, StoreInv, Here, RwPc
<1>3. InUse = {}
  BY DEF BioInit, InUse
<1>4. media \in [Blocks -> Values] /\ \A b \in Bufs : ~valid[b]
  BY DEF BioInit, DiskInit
<1>5. \A blk \in Blocks : Reads(valid, blockno, data, media, blk) = media[blk]
  BY <1>4, ReadsMedia
<1>6. Content = media
  BY <1>4, <1>5, ContentReads
<1> QED
  BY <1>1, <1>2, <1>3, <1>4, <1>6 DEF StoreOK, Store!Init

\* Cache and driver implement a store of blocks whose content only a holder changes
\* and whose durable copy only becomes that content: bread, bwrite and brelse are
\* its Read, Write and Release, recycling and the device's reads are not seen.
THEOREM CacheImplementsStore ==
  ASSUME OneCaller
  PROVE  Spec => ImplementsBlockStore
<1>1. BioInit => StoreOK /\ Store!Init
  BY StoreStart
<1>2. StoreOK /\ [BioNext]_vars => StoreOK' /\ [Store!Next]_<<Content, media, InUse>>
  BY StoreStep DEF MappedNext
<1> QED
  BY <1>1, <1>2, PTL DEF Spec, ImplementsBlockStore, Store!Spec

===============================================================================
