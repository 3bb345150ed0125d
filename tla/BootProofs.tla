------------------------------ MODULE BootProofs ------------------------------
(***************************************************************************)
(* start.c against the timer it arms, and what boot builds in memory: the  *)
(* pages it takes and where each one is, the page table the hardware       *)
(* walks, and the translations the hart keeps, for every page size,        *)
(* layout, interval and workload.                                          *)
(***************************************************************************)
EXTENDS Boot, FiniteSetTheorems, SequenceTheorems, WellFoundedInduction, TLAPS

-----------------------------------------------------------------------------
(* M-mode                                                                  *)

\* What holds in M-mode: the interrupt is enabled only behind its vector and
\* mtimecmp, of the interval at most a tick for each statement since is gone, and
\* what mret will use has been set.
MachineInv ==
  priv = "M" =>
    /\ bpc \in {"start", "delegate", "mtimecmp", "mtvec", "mtie", "mie", "tp", "mret"}
    /\ left \in Int
    /\ mtie => bpc \in {"mie", "tp", "mret"}
    /\ bpc = "mtvec" => left >= Interval
    /\ bpc = "mtie" => left >= Interval - 1
    /\ bpc = "mie" => left >= Interval - 2
    /\ bpc = "tp" => left >= Interval - 3
    /\ bpc = "mret" => left >= Interval - 4
    /\ bpc # "start" => mpp = "S" /\ mepc = "start_main"
    /\ bpc \notin {"start", "delegate"} => granted

\* timerinit enables the timer interrupt while start still runs in M-mode, where
\* timervec would destroy mepc and MPP: it is never pending there.
StartUninterrupted == priv = "M" /\ mtie /\ mie => left # 0

\* mret enters start_main in S-mode with memory it may touch.
MretEntersStartMain == Mret => priv' = "S" /\ bpc' = "start_main"

LEMMA InitMachine == Init => MachineInv
  BY DEF Init, MachineInv

\* No interrupt in M-mode.
LEMMA Uninterrupted == MachineInv => StartUninterrupted
  BY BootAssumption DEF BootAssumption, MachineInv, StartUninterrupted

\* One tick at most passes in a statement.
LEMMA OneTick ==
  ASSUME left \in Int, Elapses
  PROVE  left' \in Int /\ left' >= left - 1
  BY DEF Elapses

\* The statements of start and timerinit.
LEMMA StartStep ==
  ASSUME MachineInv,
         StartMret \/ StartDelegate \/ TimerArm \/ TimerVector \/ TimerEnable
           \/ TimerUnmask \/ StartTp
  PROVE  MachineInv'
<1> USE BootAssumption DEF BootAssumption, MachineInv, Statement, From, machine
<1>1. CASE StartMret
  BY <1>1, OneTick DEF StartMret
<1>2. CASE StartDelegate
  BY <1>2, OneTick DEF StartDelegate
<1>3. CASE TimerArm
  BY <1>3 DEF TimerArm
<1>4. CASE TimerVector
  BY <1>4, OneTick DEF TimerVector
<1>5. CASE TimerEnable
  BY <1>5, OneTick DEF TimerEnable
<1>6. CASE TimerUnmask
  BY <1>6, OneTick DEF TimerUnmask
<1>7. CASE StartTp
  BY <1>7, OneTick DEF StartTp
<1> QED
  BY <1>1, <1>2, <1>3, <1>4, <1>5, <1>6, <1>7

\* Everything else leaves M-mode or happens outside it.
LEMMA OtherStep ==
  ASSUME MachineInv,
         Next,
         ~(StartMret \/ StartDelegate \/ TimerArm \/ TimerVector \/ TimerEnable
             \/ TimerUnmask \/ StartTp)
  PROVE  MachineInv'
<1>1. CASE Mret
  BY <1>1 DEF Mret, MachineInv
<1>2. CASE StartMain \/ Kinit \/ Kvmininit \/ KvminithartSatp \/ KvminithartFence
             \/ Trapinithart \/ IntrOn \/ Initializes
  BY <1>2 DEF StartMain, Kinit, Kvmininit, KvminithartSatp, KvminithartFence,
              Trapinithart, IntrOn, Initializes, KernelRuns, panic, MachineInv
<1>3. CASE Mappages
  BY <1>3 DEF Mappages, KernelRuns, panic, MachineInv
<1>4. CASE Userinit
  BY <1>4 DEF Userinit, UserinitPage, UserinitGrant, KernelRuns, panic, MachineInv
<1>5. CASE MachineTimer
  <2>1. priv # "M"
    BY <1>5, Uninterrupted DEF MachineTimer, StartUninterrupted
  <2> QED
    BY <1>5, <2>1 DEF MachineTimer, MachineInv
<1>6. CASE SoftwareInterrupt \/ Cache \/ Evict \/ KernelFaults
  BY <1>6 DEF SoftwareInterrupt, Cache, Evict, KernelFaults, Booting, MachineInv
<1>7. CASE CallerRuns \/ CallerFaults
  BY <1>7 DEF CallerRuns, CallerFaults, panic, MachineInv
<1>8. CASE Rests
  BY <1>8 DEF Rests, vars, machine, MachineInv
<1> QED
  BY <1>1, <1>2, <1>3, <1>4, <1>5, <1>6, <1>7, <1>8 DEF Next, Hart

LEMMA MachineStep == MachineInv /\ [Next]_vars => MachineInv'
<1> SUFFICES ASSUME MachineInv, [Next]_vars PROVE MachineInv'
  OBVIOUS
<1>1. CASE Next
  BY <1>1, StartStep, OtherStep
<1>2. CASE UNCHANGED vars
  BY <1>2 DEF vars, machine, MachineInv
<1> QED
  BY <1>1, <1>2

LEMMA MachineInvariant == Spec => []MachineInv
  BY InitMachine, MachineStep, PTL DEF Spec

\* The timer never interrupts start and timerinit.
THEOREM StartNeverInterrupted == Spec => []StartUninterrupted
  BY MachineInvariant, Uninterrupted, PTL

\* mret ends in start_main, in S-mode.
THEOREM StartReachesStartMain == Spec => [][MretEntersStartMain]_vars
<1>1. MachineInv /\ [Next]_vars => [MretEntersStartMain]_vars
  BY DEF MachineInv, MretEntersStartMain, Mret
<1> QED
  BY <1>1, MachineInvariant, PTL DEF Spec

-----------------------------------------------------------------------------
(* Pages                                                                   *)

Variable == layout.kernel_pagetable
Low == PGROUNDUP(layout.end)

LEMMA SizeNat == PGSIZE \in Nat /\ PGSIZE > 1
  BY BootAssumption DEF BootAssumption

LEMMA QuotientOf ==
  ASSUME NEW d \in Nat, d > 0, NEW q \in Int, NEW k \in 0 .. d - 1, NEW x \in Int, x = q * d + k
  PROVE  x \div d = q /\ x % d = k
  OBVIOUS

LEMMA Multiple ==
  ASSUME NEW n \in Int, NEW x \in Int, x = n * PGSIZE
  PROVE  x % PGSIZE = 0 /\ x \div PGSIZE = n
  BY SizeNat

LEMMA Divides ==
  ASSUME NEW x \in Nat
  PROVE  /\ x \div PGSIZE \in Nat /\ x % PGSIZE \in 0 .. PGSIZE - 1
         /\ (x \div PGSIZE) * PGSIZE \in Nat
         /\ x = (x \div PGSIZE) * PGSIZE + (x % PGSIZE)
         /\ x % PGSIZE = 0 => x = (x \div PGSIZE) * PGSIZE
<1> DEFINE q == x \div PGSIZE
           k == x % PGSIZE
<1>1. q \in Int /\ k \in 0 .. PGSIZE - 1 /\ x = q * PGSIZE + k
  BY SizeNat
<1> HIDE DEF q, k
<1>2. q >= 0
  <2> SUFFICES ASSUME q <= -1 PROVE FALSE
    BY <1>1
  <2>1. q * PGSIZE <= -PGSIZE
    BY <1>1, SizeNat
  <2> QED
    BY <1>1, <2>1, SizeNat
<1>3. q \in Nat /\ q * PGSIZE \in Nat
  BY <1>1, <1>2, SizeNat
<1>4. k = 0 => x = q * PGSIZE
  BY <1>1, <1>3
<1> QED
  BY <1>1, <1>3, <1>4 DEF q, k

\* A word is in the page its address is rounded to.
LEMMA WordPage ==
  ASSUME NEW page \in Nat, page % PGSIZE = 0, NEW x \in WordsOf(page)
  PROVE  x \in Nat /\ PGROUNDDOWN(x) = page
<1>1. page = (page \div PGSIZE) * PGSIZE /\ page \div PGSIZE \in Nat
  BY Divides
<1>2. x \in Nat /\ x - page \in 0 .. PGSIZE - 1 /\ x = page + (x - page)
  BY SizeNat DEF WordsOf
<1>3. x \div PGSIZE = page \div PGSIZE
  BY <1>1, <1>2, QuotientOf, SizeNat
<1> QED
  BY <1>1, <1>2, <1>3 DEF PGROUNDDOWN

LEMMA PageUp ==
  ASSUME NEW x \in Nat
  PROVE  /\ PGROUNDUP(x) \in Nat /\ PGROUNDUP(x) % PGSIZE = 0
         /\ x <= PGROUNDUP(x) /\ PGROUNDUP(x) < x + PGSIZE
<1> DEFINE n == (x + PGSIZE - 1) \div PGSIZE
<1>1. n \in Nat /\ n * PGSIZE \in Nat /\ x + PGSIZE - 1 = n * PGSIZE + ((x + PGSIZE - 1) % PGSIZE)
      /\ (x + PGSIZE - 1) % PGSIZE \in 0 .. PGSIZE - 1
  <2>1. x + PGSIZE - 1 \in Nat
    BY SizeNat
  <2> QED
    BY <2>1, Divides
<1>2. PGROUNDUP(x) = n * PGSIZE
  BY DEF PGROUNDUP
<1> HIDE DEF n
<1>3. n * PGSIZE \in Nat /\ n * PGSIZE = n * PGSIZE + 0
  BY <1>1, SizeNat
<1>4. (n * PGSIZE) % PGSIZE = 0
  BY <1>1, <1>3, Multiple
<1> QED
  BY <1>1, <1>2, <1>3, <1>4, SizeNat

\* Pages that come one after the other.
LEMMA PageOrder ==
  ASSUME NEW p \in Nat, NEW q \in Nat, p % PGSIZE = 0, q % PGSIZE = 0, p < q
  PROVE  p <= q - PGSIZE /\ q - PGSIZE \in Nat /\ (q - PGSIZE) % PGSIZE = 0
<1> DEFINE m == p \div PGSIZE
           n == q \div PGSIZE
<1>1. m \in Nat /\ n \in Nat /\ p = m * PGSIZE /\ q = n * PGSIZE
  BY Divides
<1> HIDE DEF m, n
<1>2. m < n
  BY <1>1, SizeNat
<1>3. m * PGSIZE <= (n - 1) * PGSIZE /\ (n - 1) * PGSIZE = n * PGSIZE - PGSIZE
  BY <1>1, <1>2, SizeNat
<1>4. q - PGSIZE = (n - 1) * PGSIZE + 0 /\ n - 1 \in Int /\ q - PGSIZE \in Int
  BY <1>1, <1>3, SizeNat
<1>5. (q - PGSIZE) % PGSIZE = 0
  BY <1>4, QuotientOf, SizeNat
<1> QED
  BY <1>1, <1>3, <1>5, SizeNat

LEMMA PageNext ==
  ASSUME NEW p \in Nat, p % PGSIZE = 0
  PROVE  p + PGSIZE \in Nat /\ (p + PGSIZE) % PGSIZE = 0
<1>1. p \div PGSIZE \in Nat /\ p = (p \div PGSIZE) * PGSIZE
  BY Divides
<1>2. p + PGSIZE = (p \div PGSIZE + 1) * PGSIZE /\ p + PGSIZE \in Nat /\ p \div PGSIZE + 1 \in Int
  BY <1>1, SizeNat
<1>3. (p + PGSIZE) % PGSIZE = 0
  BY <1>1, <1>2, Multiple
<1> QED
  BY <1>2, <1>3

\* The pool is the pages from Low to the end of memory.
LEMMA PoolIs ==
  ASSUME layout \in Layouts
  PROVE  /\ Low \in Nat /\ Low % PGSIZE = 0 /\ Low >= layout.end
         /\ layout.phystop \in Nat /\ layout.phystop % PGSIZE = 0
         /\ \A p : p \in Pool <=> p \in Nat /\ p % PGSIZE = 0 /\ Low <= p /\ p < layout.phystop
<1>1. layout.end \in Nat /\ layout.phystop \in Nat /\ layout.phystop % PGSIZE = 0
  BY BootAssumption DEF BootAssumption
<1>2. Low \in Nat /\ Low % PGSIZE = 0 /\ Low >= layout.end
  BY <1>1, PageUp DEF Low
<1> DEFINE l == Low \div PGSIZE
           h == layout.phystop \div PGSIZE
<1>3. /\ l \in Nat /\ h \in Nat /\ Low = l * PGSIZE /\ layout.phystop = h * PGSIZE
      /\ Pool = {n * PGSIZE : n \in l .. h - 1}
  BY <1>1, <1>2, Divides DEF Pool, Low
<1> HIDE DEF l, h
<1>4. ASSUME NEW p \in Pool
      PROVE  p \in Nat /\ p % PGSIZE = 0 /\ Low <= p /\ p < layout.phystop
  <2>1. PICK n \in l .. h - 1 : p = n * PGSIZE
    BY <1>3
  <2>2. n \in Nat /\ l <= n /\ n < h
    BY <1>3
  <2>3. n * PGSIZE \in Nat /\ l * PGSIZE <= n * PGSIZE /\ n * PGSIZE < h * PGSIZE
    BY <1>3, <2>2, SizeNat
  <2>4. p = n * PGSIZE + 0
    BY <2>1, <2>3
  <2>5. p % PGSIZE = 0
    BY <2>1, <2>2, <2>3, <2>4, QuotientOf, SizeNat
  <2> QED
    BY <1>3, <2>1, <2>3, <2>5
<1>5. ASSUME NEW p \in Nat, p % PGSIZE = 0, Low <= p, p < layout.phystop
      PROVE  p \in Pool
  <2> DEFINE n == p \div PGSIZE
  <2>1. n \in Nat /\ p = n * PGSIZE
    BY <1>5, Divides
  <2> HIDE DEF n
  <2>2. l <= n /\ n < h
    BY <1>3, <1>5, <2>1, SizeNat
  <2> QED
    BY <1>3, <2>1, <2>2
<1> QED
  BY <1>1, <1>2, <1>4, <1>5

-----------------------------------------------------------------------------
(* The invariant.  A heap is a memory m and a word l, the head of the list. *)

Spare == Pool \ {Variable}

\* The tables that the entries of the tables T point to.
Sub(m, T) == {t \in Pool : \E s \in T : \E e \in WordsOf(s) : Load(m, e) = PA2PTE(t, {})}
One(m, root) == Sub(m, {root})
Two(m, root) == Sub(m, One(m, root))
Inner(m, root) == {root} \cup One(m, root)
Taken(m, root) == Inner(m, root) \cup Two(m, root)

Perms == (SUBSET {R, W, X, U}) \ {{}}

Leaf(word) == word = PA2PTE(word.at, word.perm) /\ word.at \in Nat /\ word.perm \in Perms

\* The page table is a tree of pages: an entry of the two upper levels is 0 or
\* the one pointer to a table, an entry of the last level 0 or a leaf.
TreeInv(m, root) ==
  /\ root \in Spare /\ Load(m, Variable) = Ptr(root)
  /\ \A t \in Inner(m, root) : \A e \in WordsOf(t) :
       Load(m, e) = Null \/ \E s \in Spare \ {root} : Load(m, e) = PA2PTE(s, {})
  /\ \A t \in Two(m, root) : \A e \in WordsOf(t) :
       Load(m, e) = Null \/ Leaf(Load(m, e))
  /\ \A t, s \in Inner(m, root) : \A e \in WordsOf(t), f \in WordsOf(s) :
       Load(m, e) # Null /\ Load(m, e) = Load(m, f) => e = f

\* During boot the list is all pages below one, each linked to the one before it.
Free(l) == {p \in Pool : l # Null /\ p <= l.at}

BootList(m, l) ==
  /\ l = Null \/ \E h \in Pool : l = Ptr(h)
  /\ Variable \in Pool => l # Null
  /\ \A p \in Free(l) \ {Variable} : Load(m, p) = IF p = Low THEN Null ELSE Ptr(p - PGSIZE)

BootHeap(m, l, root, used) ==
  /\ TreeInv(m, root) /\ BootList(m, l)
  /\ Taken(m, root) \cup used = Pool \ Free(l) /\ Taken(m, root) \cap used = {}

\* Words are stored in pages of the pool, and in kernel_pagetable.
Places == {x \in Int : PGROUNDDOWN(x) \in Pool \/ x = Variable}
Typed(m) == \A x \in DOMAIN m : m[x] \in Word /\ x \in Places

Users == {user[u] : u \in UserPages} \ {0}

Early == {"start", "delegate", "mtimecmp", "mtvec", "mtie", "mie", "tp", "mret",
          "start_main", "kinit", "kvmininit"}
Mapping == {"mappages", "w_satp"}
Paged == {"sfence_vma", "trapinithart", "uartinit", "plicinit", "plicinithart", "intr_on",
          "procinit", "virtio_disk_init", "fsinit", "trapframe", "kstack", "code",
          "code_pte", "stack", "stack_pte"}

\* The statements behind the allocation of a page of init.
Behind(u) ==
  CASE u = "trapframe" -> {"kstack", "code", "code_pte", "stack", "stack_pte", "scheduler"}
    [] u = "kstack" -> {"code", "code_pte", "stack", "stack_pte", "scheduler"}
    [] u = "code" -> {"code_pte", "stack", "stack_pte", "scheduler"}
    [] u = "stack" -> {"stack_pte", "scheduler"}

\* Before kvmininit: kinit puts one page after the other on the list.
EarlyInv ==
  /\ satp = 0 /\ tlb = NoEntry /\ region = 0
  /\ bpc \notin {"kinit", "kvmininit"} => mem = <<>> /\ free_mem_list = Null
  /\ bpc = "kinit" =>
       /\ a \in Nat /\ a % PGSIZE = 0 /\ Low <= a
       /\ free_mem_list = IF a = Low THEN Null ELSE Ptr(a - PGSIZE)
       /\ a = Low \/ a - PGSIZE \in Pool
       /\ \A p \in Pool : p < a => Load(mem, p) = IF p = Low THEN Null ELSE Ptr(p - PGSIZE)
  /\ bpc = "kvmininit" => BootList(mem, free_mem_list) /\ Free(free_mem_list) = Pool

\* While the page table is built and userinit takes its pages.
BootInv ==
  /\ BootHeap(mem, free_mem_list, kernel_pagetable, Users)
  /\ \A p \in Users : Load(mem, p) = Null
  /\ bpc = "mappages" => region # 0 /\ a \in Nat
  /\ satp = IF bpc \in Mapping THEN 0 ELSE kernel_pagetable

Idle == \A c \in Callers : call[c] = "none" /\ r[c] = Null /\ next[c] = Null /\ held[c] = {}

\* What a caller can find in a word of the list or of a page that is no table.
Others == Spare \ Taken(mem, satp)
Loose(word) ==
  word \in {Null, KernelSatp} \/ \E p \in Others \cup ({Variable} \cap Pool) : word = Ptr(p)

Calls(c) ==
  /\ call[c] \in {"none", "kalloc_next", "kalloc_store", "kalloc_zero", "kfree_link",
                  "kfree_store"}
  /\ Loose(r[c]) /\ Loose(next[c]) /\ held[c] \subseteq Others
  /\ call[c] \notin {"none", "kalloc_next"} => \E p \in Others : r[c] = Ptr(p)

CallerInv ==
  /\ TreeInv(mem, satp) /\ Users \subseteq Others
  /\ Loose(free_mem_list) /\ \A p \in Others : Loose(Load(mem, p))
  /\ \A c \in Callers : Calls(c)

Running == bpc = "scheduler" \/ (bpc = "lost" /\ satp # 0)

UserInv ==
  \A u \in UserPages : /\ user[u] \in Spare \cup {0}
                       /\ bpc \in Behind(u) => user[u] # 0
                       /\ bpc \notin Behind(u) \cup {"lost"} => user[u] = 0

ControlInv ==
  /\ layout \in Layouts /\ active \in Workloads
  /\ priv \in {"M", "S", "panic", "wild"} /\ left \in 0 .. Interval /\ region \in 0 .. 5
  /\ bpc \in Early \cup Mapping \cup Paged \cup {"scheduler", "lost"}
  /\ DOMAIN call = Callers /\ DOMAIN r = Callers /\ DOMAIN next = Callers /\ DOMAIN held = Callers

PagesInv ==
  /\ ControlInv /\ Typed(mem)
  /\ DOMAIN user = UserPages /\ UserInv
  /\ bpc \in Early => EarlyInv
  /\ bpc \in Mapping \cup Paged => BootInv
  /\ bpc = "lost" => priv = "wild"
  /\ free_mem_list \in Word
  /\ Running => CallerInv
  /\ ~Running => Idle

\* Nobody is given the page kernel_pagetable lies in, if it is one of the list: the
\* head is another page whenever a page is taken, and of two pages when walk may take two.
VariableSpared ==
  /\ bpc \in {"kvmininit", "mappages"} \cup UserPages => free_mem_list # Ptr(Variable)
  /\ bpc = "mappages" /\ free_mem_list # Null => Load(mem, free_mem_list.at) # Ptr(Variable)
  /\ \A c \in Callers : r[c] # Ptr(Variable)

-----------------------------------------------------------------------------
(* Words                                                                   *)

LEMMA LoadStored ==
  ASSUME NEW m, NEW x, NEW word, NEW y
  PROVE  Load(Store(m, x, word), y) = IF y = x THEN word ELSE Load(m, y)
  BY DEF Load, Store

LEMMA LoadZeroed ==
  ASSUME NEW m, NEW page, NEW y
  PROVE  Load(Zeroed(m, page), y) = IF y \in WordsOf(page) THEN Null ELSE Load(m, y)
  BY DEF Load, Zeroed

LEMMA StoredTypes ==
  ASSUME NEW m, NEW x, NEW word \in Word, NEW S, x \in S,
         \A y \in DOMAIN m : m[y] \in Word /\ y \in S
  PROVE  \A y \in DOMAIN Store(m, x, word) : Store(m, x, word)[y] \in Word /\ y \in S
  BY DEF Store

LEMMA ZeroedTypes ==
  ASSUME NEW m, NEW page, NEW S, \A y \in DOMAIN m : m[y] \in Word /\ y \in S
  PROVE  \A y \in DOMAIN Zeroed(m, page) : Zeroed(m, page)[y] \in Word /\ y \in S
  BY DEF Zeroed

LEMMA Kinds ==
  ASSUME NEW x, NEW y, NEW p, NEW q
  PROVE  /\ Null # Ptr(x) /\ Null # PA2PTE(x, p) /\ Null # KernelSatp
         /\ Ptr(x) # PA2PTE(y, p) /\ Ptr(x) # KernelSatp /\ PA2PTE(x, p) # KernelSatp
         /\ Ptr(x) = Ptr(y) => x = y
         /\ PA2PTE(x, p) = PA2PTE(y, q) => x = y /\ p = q
         /\ ~Valid(Null) /\ ~Valid(Ptr(x)) /\ ~Valid(KernelSatp) /\ Valid(PA2PTE(x, p))
         /\ Ptr(x).at = x /\ PA2PTE(x, p).at = x /\ PA2PTE(x, p).perm = p
         /\ Null.at = 0 /\ Null.perm = {}
  BY DEF Null, Ptr, PA2PTE, KernelSatp, Valid

LEMMA WordsTyped ==
  /\ Null \in Word /\ KernelSatp \in Word
  /\ \A x \in Int : Ptr(x) \in Word
  /\ \A x \in Int : \A p \in SUBSET {R, W, X, U} : PA2PTE(x, p) \in Word
  BY DEF Word, Null, KernelSatp, Ptr, PA2PTE

\* Words of different pages are different.
LEMMA WordsApart ==
  ASSUME NEW p \in Nat, NEW q \in Nat, p % PGSIZE = 0, q % PGSIZE = 0,
         NEW x \in WordsOf(p), x \in WordsOf(q)
  PROVE  p = q
  BY WordPage

LEMMA PoolWords ==
  ASSUME layout \in Layouts
  PROVE  /\ \A p \in Pool : p \in Nat /\ p % PGSIZE = 0 /\ p > 0 /\ p \in WordsOf(p)
         /\ \A p, q \in Pool : \A x \in WordsOf(p) : x \in WordsOf(q) => p = q
         /\ \A p \in Pool : \A x \in WordsOf(p) : PGROUNDDOWN(x) = p /\ x \in Nat
         /\ \A p \in Spare : Variable \notin WordsOf(p)
         /\ Variable \in Nat /\ (Variable \in Pool => Variable = Low)
<1>1. \A p \in Pool : p \in Nat /\ p % PGSIZE = 0 /\ Low <= p
  BY PoolIs
<1>2. Low \in Nat /\ Low > 0
  <2>1. layout.end > 0
    BY BootAssumption DEF BootAssumption
  <2>2. layout.end \in Nat
    BY BootAssumption DEF BootAssumption
  <2> QED
    BY <2>1, <2>2, PoolIs
<1>3. Variable \in Nat /\ Variable <= Low
  BY BootAssumption DEF BootAssumption, Variable, Low
<1>4. \A p \in Pool : p \in WordsOf(p)
  BY <1>1, SizeNat DEF WordsOf
<1>5. Variable \in Pool => Variable = Low
  BY <1>1, <1>2, <1>3
<1>6. ASSUME NEW p \in Spare, Variable \in WordsOf(p) PROVE FALSE
  <2>1. p \in Nat /\ p <= Variable /\ Low <= p /\ p # Variable
    BY <1>1, <1>4, <1>6, SizeNat DEF Spare, WordsOf
  <2> QED
    BY <1>2, <1>3, <2>1
<1> QED
  BY <1>1, <1>2, <1>3, <1>4, <1>5, <1>6, WordsApart, WordPage

-----------------------------------------------------------------------------
(* The list during boot                                                    *)

\* kalloc takes the highest page.
LEMMA PopList ==
  ASSUME layout \in Layouts, NEW m, NEW l, BootList(m, l), l # Null, l # Ptr(Variable)
  PROVE  /\ l.at \in Spare /\ l = Ptr(l.at) /\ l.at \in Free(l)
         /\ BootList(Zeroed(m, l.at), Load(m, l.at))
         /\ Free(Load(m, l.at)) = Free(l) \ {l.at}
<1> DEFINE h == l.at
           n == Load(m, h)
<1>1. h \in Spare /\ l = Ptr(h) /\ h \in Free(l)
  <2>1. PICK p \in Pool : l = Ptr(p)
    BY DEF BootList
  <2>2. h = p /\ p # Variable
    BY <2>1, Kinds
  <2> QED
    BY <2>1, <2>2, PoolWords DEF Free, Spare
<1> HIDE DEF h
<1>2. h \in Nat /\ h % PGSIZE = 0 /\ Low <= h /\ h < layout.phystop /\ h \in Pool /\ Low \in Nat
      /\ Low % PGSIZE = 0 /\ layout.phystop \in Nat
  BY <1>1, PoolIs DEF Spare
<1>3. n = IF h = Low THEN Null ELSE Ptr(h - PGSIZE)
  BY <1>1 DEF BootList, Spare
<1>4. h # Low => h - PGSIZE \in Pool
  <2>1. h # Low => Low < h
    BY <1>2
  <2>2. h # Low => Low <= h - PGSIZE /\ h - PGSIZE \in Nat /\ (h - PGSIZE) % PGSIZE = 0
    BY <1>2, <2>1, PageOrder
  <2>3. h - PGSIZE < layout.phystop
    BY <1>2, SizeNat
  <2> QED
    BY <2>2, <2>3, PoolIs
<1>5. Free(n) = Free(l) \ {h}
  <2>1. ASSUME NEW p \in Pool PROVE p <= h /\ p # h <=> h # Low /\ p <= h - PGSIZE
    <3>1. p \in Nat /\ p % PGSIZE = 0 /\ Low <= p
      BY PoolIs
    <3>2. CASE p <= h /\ p # h
      BY <1>2, <3>1, <3>2, PageOrder
    <3>3. CASE h # Low /\ p <= h - PGSIZE
      BY <1>2, <3>1, <3>3, SizeNat
    <3> QED
      BY <3>2, <3>3
  <2>2. Free(l) = {p \in Pool : p <= h}
    BY <1>1, Kinds DEF Free
  <2>3. Free(n) = {p \in Pool : h # Low /\ p <= h - PGSIZE}
    <3>1. CASE h = Low
      BY <1>3, <3>1 DEF Free
    <3>2. CASE h # Low
      <4>1. n = Ptr(h - PGSIZE)
        BY <1>3, <3>2
      <4>2. n # Null /\ n.at = h - PGSIZE
        BY <4>1, Kinds
      <4> QED
        BY <3>2, <4>2 DEF Free
    <3> QED
      BY <3>1, <3>2
  <2> QED
    BY <2>1, <2>2, <2>3
<1>6. BootList(Zeroed(m, h), n)
  <2>1. n = Null \/ \E g \in Pool : n = Ptr(g)
    BY <1>3, <1>4
  <2>2. ASSUME Variable \in Pool PROVE n # Null
    <3>1. h # Low
      BY <1>1, <2>2, PoolWords DEF Spare
    <3> QED
      BY <1>3, <3>1, Kinds
  <2>3. ASSUME NEW p \in Free(n) \ {Variable}
        PROVE  Load(Zeroed(m, h), p) = IF p = Low THEN Null ELSE Ptr(p - PGSIZE)
    <3>1. p \in Free(l) \ {Variable} /\ p # h /\ p \in Pool
      BY <1>5 DEF Free
    <3>2. p \notin WordsOf(h)
      BY <1>2, <3>1, PoolWords
    <3> QED
      BY <3>1, <3>2, LoadZeroed DEF BootList
  <2> QED
    BY <2>1, <2>2, <2>3 DEF BootList
<1> QED
  BY <1>1, <1>5, <1>6 DEF h

LEMMA ListKept ==
  ASSUME NEW m, NEW m2, NEW l, BootList(m, l),
         \A p \in Free(l) \ {Variable} : Load(m2, p) = Load(m, p)
  PROVE  BootList(m2, l)
  BY DEF BootList

-----------------------------------------------------------------------------
(* The tree of tables                                                      *)

LEMMA TreeShape ==
  ASSUME layout \in Layouts, NEW m, NEW root, TreeInv(m, root)
  PROVE  /\ One(m, root) \subseteq Spare \ {root} /\ Two(m, root) \subseteq Spare \ {root}
         /\ One(m, root) \cap Two(m, root) = {}
         /\ Taken(m, root) \subseteq Spare /\ Spare \subseteq Pool
<1>1. ASSUME NEW T, T \subseteq Inner(m, root) PROVE Sub(m, T) \subseteq Spare \ {root}
  <2> SUFFICES ASSUME NEW t \in Sub(m, T) PROVE t \in Spare \ {root}
    OBVIOUS
  <2>1. PICK s \in T : \E e \in WordsOf(s) : Load(m, e) = PA2PTE(t, {})
    BY DEF Sub
  <2>10. PICK e \in WordsOf(s) : Load(m, e) = PA2PTE(t, {})
    BY <2>1
  <2>2. PICK u \in Spare \ {root} : Load(m, e) = PA2PTE(u, {})
    BY <1>1, <2>10, Kinds DEF TreeInv
  <2> QED
    BY <2>10, <2>2, Kinds
<1>2. One(m, root) \subseteq Spare \ {root} /\ Two(m, root) \subseteq Spare \ {root}
  BY <1>1 DEF One, Two, Inner
<1>3. ASSUME NEW t \in One(m, root), t \in Two(m, root) PROVE FALSE
  <2>1. PICK e \in WordsOf(root) : Load(m, e) = PA2PTE(t, {})
    BY <1>3 DEF One, Sub
  <2>2. PICK s \in One(m, root) : \E f \in WordsOf(s) : Load(m, f) = PA2PTE(t, {})
    BY <1>3 DEF Two, Sub
  <2>20. PICK f \in WordsOf(s) : Load(m, f) = PA2PTE(t, {})
    BY <2>2
  <2>3. e = f
    BY <2>1, <2>20, Kinds DEF TreeInv, Inner
  <2>4. root = s
    BY <1>2, <2>3, PoolWords DEF TreeInv, Spare
  <2> QED
    BY <1>2, <2>4
<1>4. root \in Spare
  BY DEF TreeInv
<1> QED
  BY <1>2, <1>3, <1>4 DEF Taken, Inner, Spare

\* What the run calls the tables.
LEMMA TreeTables ==
  ASSUME layout \in Layouts, NEW m, NEW root, TreeInv(m, root)
  PROVE  Tables(m, root) = Taken(m, root)
<1> DEFINE Below(T) == {Load(m, e).at : e \in {e \in UNION {WordsOf(t) : t \in T} :
                                               Valid(Load(m, e)) /\ Load(m, e).perm = {}}}
<1>1. ASSUME NEW T, T \subseteq Inner(m, root) PROVE Below(T) = Sub(m, T)
  <2>1. ASSUME NEW t \in Below(T) PROVE t \in Sub(m, T)
    <3>1. PICK s \in T : \E e \in WordsOf(s) : Valid(Load(m, e)) /\ t = Load(m, e).at
      BY <2>1
    <3>10. PICK e \in WordsOf(s) : Valid(Load(m, e)) /\ t = Load(m, e).at
      BY <3>1
    <3>2. PICK u \in Spare \ {root} : Load(m, e) = PA2PTE(u, {})
      BY <1>1, <3>10, Kinds DEF TreeInv
    <3> QED
      BY <3>10, <3>2, Kinds DEF Sub, Spare
  <2>2. ASSUME NEW t \in Sub(m, T) PROVE t \in Below(T)
    <3>1. PICK s \in T : \E e \in WordsOf(s) : Load(m, e) = PA2PTE(t, {})
      BY <2>2 DEF Sub
    <3>10. PICK e \in WordsOf(s) : Load(m, e) = PA2PTE(t, {})
      BY <3>1
    <3>2. e \in UNION {WordsOf(u) : u \in T} /\ Valid(Load(m, e)) /\ Load(m, e).perm = {}
          /\ Load(m, e).at = t
      BY <3>10, Kinds
    <3> QED
      BY <3>2
  <2> QED
    BY <2>1, <2>2
<1>2. Tables(m, root) = {root} \cup Below({root}) \cup Below(Below({root}))
  BY DEF Tables
<1> HIDE DEF Below
<1>3. Below({root}) = One(m, root)
  BY <1>1 DEF Inner, One
<1>4. Below(One(m, root)) = Two(m, root)
  BY <1>1 DEF Inner, Two
<1> QED
  BY <1>2, <1>3, <1>4 DEF Taken, Inner

\* A heap with the same words in the tables has the same tree.
LEMMA TreeKept ==
  ASSUME layout \in Layouts, NEW m, NEW m2, NEW root, TreeInv(m, root),
         Load(m2, Variable) = Load(m, Variable),
         \A t \in Taken(m, root) : \A e \in WordsOf(t) : Load(m2, e) = Load(m, e)
  PROVE  /\ TreeInv(m2, root)
         /\ One(m2, root) = One(m, root) /\ Two(m2, root) = Two(m, root)
         /\ Taken(m2, root) = Taken(m, root)
<1>1. \A T \in SUBSET Taken(m, root) : Sub(m2, T) = Sub(m, T)
  BY DEF Sub
<1>2. One(m2, root) = One(m, root) /\ Two(m2, root) = Two(m, root)
  BY <1>1 DEF One, Two, Taken, Inner
<1>3. Inner(m2, root) = Inner(m, root) /\ Taken(m2, root) = Taken(m, root)
  BY <1>2 DEF Taken, Inner
<1>4. Inner(m, root) \subseteq Taken(m, root) /\ Two(m, root) \subseteq Taken(m, root)
  BY DEF Taken
<1> QED
  BY <1>2, <1>3, <1>4 DEF TreeInv

\* An entry that is 0 becomes the pointer to a page of zeroes that is no table.
LEMMA GrowTree ==
  ASSUME layout \in Layouts, NEW m, NEW root, TreeInv(m, root),
         NEW page \in Spare \ Taken(m, root), \A x \in WordsOf(page) : Load(m, x) = Null,
         NEW t \in Inner(m, root), NEW e \in WordsOf(t), Load(m, e) = Null,
         NEW m2, m2 = Store(m, e, PA2PTE(page, {}))
  PROVE  /\ TreeInv(m2, root) /\ Taken(m2, root) = Taken(m, root) \cup {page}
         /\ t = root => One(m2, root) = One(m, root) \cup {page} /\ Two(m2, root) = Two(m, root)
         /\ t # root => One(m2, root) = One(m, root) /\ Two(m2, root) = Two(m, root) \cup {page}
<1>1. \A x : Load(m2, x) = IF x = e THEN PA2PTE(page, {}) ELSE Load(m, x)
  BY LoadStored
<1>2. /\ One(m, root) \subseteq Spare \ {root} /\ Two(m, root) \subseteq Spare \ {root}
      /\ One(m, root) \cap Two(m, root) = {} /\ Taken(m, root) \subseteq Spare
      /\ Spare \subseteq Pool /\ root \in Spare /\ page \in Pool /\ page # root /\ t \in Pool
  BY TreeShape DEF TreeInv, Taken, Inner
<1>3. \A s \in Pool : e \in WordsOf(s) => s = t
  BY <1>2, PoolWords
<1>4. Load(m2, Variable) = Ptr(root)
  <2>1. Variable # e
    BY <1>2, PoolWords DEF Taken
  <2> QED
    BY <1>1, <2>1 DEF TreeInv
\* The entries of a set of tables.
<1>5. ASSUME NEW T \in SUBSET Pool, t \notin T PROVE Sub(m2, T) = Sub(m, T)
  <2>1. \A s \in T : \A x \in WordsOf(s) : Load(m2, x) = Load(m, x)
    BY <1>1, <1>3, <1>5
  <2> QED
    BY <2>1 DEF Sub
<1>6. ASSUME NEW T \in SUBSET Pool, t \in T PROVE Sub(m2, T) = Sub(m, T) \cup {page}
  <2>1. page \in Sub(m2, T)
    BY <1>1, <1>2, <1>6 DEF Sub
  <2>2. ASSUME NEW s \in T, NEW x \in WordsOf(s), NEW u \in Pool
        PROVE  Load(m2, x) = PA2PTE(u, {}) <=> Load(m, x) = PA2PTE(u, {}) \/ (x = e /\ u = page)
    BY <1>1, Kinds
  <2>3. Sub(m, T) \subseteq Sub(m2, T)
    BY <2>2 DEF Sub
  <2>4. Sub(m2, T) \subseteq Sub(m, T) \cup {page}
    BY <2>2 DEF Sub
  <2> QED
    BY <2>1, <2>3, <2>4
<1>7. Sub(m2, {page}) = {}
  <2>1. \A x \in WordsOf(page) : Load(m2, x) = Null
    <3>1. t # page
      BY <1>2 DEF Taken
    <3> QED
      BY <1>1, <1>2, <1>3, <3>1
  <2> QED
    BY <2>1, Kinds DEF Sub
<1>8. t = root => One(m2, root) = One(m, root) \cup {page} /\ Two(m2, root) = Two(m, root)
  <2> SUFFICES ASSUME t = root
               PROVE  One(m2, root) = One(m, root) \cup {page} /\ Two(m2, root) = Two(m, root)
    OBVIOUS
  <2>1. One(m2, root) = One(m, root) \cup {page}
    BY <1>2, <1>6 DEF One
  <2>2. Sub(m2, One(m, root)) = Sub(m, One(m, root))
    BY <1>2, <1>5
  <2>3. Two(m2, root) = Sub(m2, One(m, root)) \cup Sub(m2, {page})
    BY <2>1 DEF Two, Sub
  <2> QED
    BY <1>7, <2>1, <2>2, <2>3 DEF Two
<1>9. t # root => One(m2, root) = One(m, root) /\ Two(m2, root) = Two(m, root) \cup {page}
  <2> SUFFICES ASSUME t # root
               PROVE  One(m2, root) = One(m, root) /\ Two(m2, root) = Two(m, root) \cup {page}
    OBVIOUS
  <2>1. One(m2, root) = One(m, root)
    BY <1>2, <1>5 DEF One
  <2>2. t \in One(m, root)
    BY DEF Inner
  <2> QED
    BY <1>2, <1>6, <2>1, <2>2 DEF Two
<1>10. Taken(m2, root) = Taken(m, root) \cup {page}
  BY <1>8, <1>9 DEF Taken, Inner
<1>11. TreeInv(m2, root)
  <2>1. \A s \in Inner(m2, root) : s \in Inner(m, root) \/ s = page
    BY <1>8, <1>9 DEF Inner
  <2>2. \A x \in WordsOf(page) : Load(m2, x) = Null
    <3>1. t # page
      BY <1>2 DEF Taken
    <3> QED
      BY <1>1, <1>2, <1>3, <3>1
  <2>3. ASSUME NEW s \in Inner(m2, root), NEW x \in WordsOf(s)
        PROVE  /\ Load(m2, x) = Null \/ \E u \in Spare \ {root} : Load(m2, x) = PA2PTE(u, {})
               /\ Load(m2, x) # Null =>
                    /\ s \in Inner(m, root)
                    /\ x = e \/ (Load(m2, x) = Load(m, x) /\ Load(m2, x) # PA2PTE(page, {}))
    <3>1. CASE s = page
      BY <2>2, <3>1
    <3>2. CASE s \in Inner(m, root)
      <4>1. CASE x = e
        BY <1>1, <1>2, <3>2, <4>1
      <4>2. CASE x # e
        <5>1. Load(m2, x) = Load(m, x)
          BY <1>1, <4>2
        <5>2. Load(m, x) = Null \/ \E u \in Spare \ {root} : Load(m, x) = PA2PTE(u, {})
          BY <3>2 DEF TreeInv
        <5>3. Load(m, x) # PA2PTE(page, {})
          <6> SUFFICES ASSUME Load(m, x) = PA2PTE(page, {}) PROVE FALSE
            OBVIOUS
          <6>1. page \in One(m, root) \/ page \in Two(m, root)
            BY <1>2, <3>2 DEF One, Two, Sub, Inner
          <6> QED
            BY <6>1 DEF Taken, Inner
        <5> QED
          BY <3>2, <5>1, <5>2, <5>3
      <4> QED
        BY <4>1, <4>2
    <3> QED
      BY <2>1, <3>1, <3>2
  <2>4. ASSUME NEW s \in Two(m2, root), NEW x \in WordsOf(s)
        PROVE  Load(m2, x) = Null \/ Leaf(Load(m2, x))
    <3>1. CASE s = page
      BY <2>2, <3>1
    <3>2. CASE s \in Two(m, root)
      <4>1. s \in Pool /\ s # t
        BY <1>2, <3>2 DEF Inner
      <4>2. Load(m2, x) = Load(m, x)
        BY <1>1, <1>3, <4>1
      <4> QED
        BY <3>2, <4>2 DEF TreeInv
    <3> QED
      BY <1>8, <1>9, <3>1, <3>2
  <2>5. ASSUME NEW s \in Inner(m2, root), NEW u \in Inner(m2, root),
               NEW x \in WordsOf(s), NEW y \in WordsOf(u),
               Load(m2, x) # Null, Load(m2, x) = Load(m2, y)
        PROVE  x = y
    <3>1. s \in Inner(m, root) /\ u \in Inner(m, root)
      BY <2>3, <2>5
    <3>2. CASE x = e
      BY <1>1, <2>3, <2>5, <3>2
    <3>3. CASE y = e
      BY <1>1, <2>3, <2>5, <3>3
    <3>4. CASE x # e /\ y # e
      BY <1>1, <2>5, <3>1, <3>4 DEF TreeInv
    <3> QED
      BY <3>2, <3>3, <3>4
  <2> QED
    BY <1>2, <1>4, <2>3, <2>4, <2>5 DEF TreeInv
<1> QED
  BY <1>8, <1>9, <1>10, <1>11

\* A leaf is stored.
LEMMA LeafTree ==
  ASSUME layout \in Layouts, NEW m, NEW root, TreeInv(m, root),
         NEW t \in Two(m, root), NEW e \in WordsOf(t), NEW word, Leaf(word),
         NEW m2, m2 = Store(m, e, word)
  PROVE  /\ TreeInv(m2, root) /\ Taken(m2, root) = Taken(m, root)
         /\ One(m2, root) = One(m, root) /\ Two(m2, root) = Two(m, root)
<1>1. \A x : Load(m2, x) = IF x = e THEN word ELSE Load(m, x)
  BY LoadStored
<1>2. /\ One(m, root) \subseteq Spare \ {root} /\ Two(m, root) \subseteq Spare \ {root}
      /\ One(m, root) \cap Two(m, root) = {} /\ Spare \subseteq Pool /\ root \in Spare
  BY TreeShape DEF TreeInv
<1>3. \A s \in Inner(m, root) : \A x \in WordsOf(s) : Load(m2, x) = Load(m, x)
  <2>1. \A s \in Inner(m, root) : s \in Pool /\ s # t /\ t \in Pool
    BY <1>2 DEF Inner
  <2> QED
    BY <1>1, <2>1, PoolWords
<1>4. One(m2, root) = One(m, root) /\ Two(m2, root) = Two(m, root)
  <2>1. One(m2, root) = One(m, root)
    BY <1>3 DEF One, Sub, Inner
  <2>2. Sub(m2, One(m, root)) = Sub(m, One(m, root))
    BY <1>3 DEF Sub, Inner
  <2> QED
    BY <2>1, <2>2 DEF Two
<1>5. Variable # e
  BY <1>2, PoolWords
<1>6. Inner(m2, root) = Inner(m, root) /\ Taken(m2, root) = Taken(m, root)
  BY <1>4 DEF Taken, Inner
<1> QED
  BY <1>1, <1>3, <1>4, <1>5, <1>6 DEF TreeInv

-----------------------------------------------------------------------------
(* walk                                                                    *)

LEMMA Indices ==
  ASSUME NEW va \in Nat
  PROVE  /\ \A level \in 0 .. 2 : PX(level, va) \in 0 .. PGSIZE - 1 /\ VPN(level, va) = PX(level, va)
         /\ \A level \in 0 .. 2, t \in Nat : t + PX(level, va) \in WordsOf(t)
<1>1. ASSUME NEW level \in 0 .. 2
      PROVE  PX(level, va) \in 0 .. PGSIZE - 1 /\ VPN(level, va) = PX(level, va)
  <2>1. PXSHIFT(level) \in Nat /\ PXSHIFT(level) > 0
    <3>1. PGSIZE * PGSIZE \in Nat /\ PGSIZE * PGSIZE > 0
      BY SizeNat
    <3>2. PGSIZE * PGSIZE * PGSIZE \in Nat /\ PGSIZE * PGSIZE * PGSIZE > 0
      BY <3>1, SizeNat
    <3> QED
      BY <3>1, <3>2, SizeNat DEF PXSHIFT
  <2>2. va \div PXSHIFT(level) \in Int
    BY <2>1
  <2> QED
    BY <2>2, SizeNat DEF PX, VPN
<1>2. ASSUME NEW level \in 0 .. 2, NEW t \in Nat PROVE t + PX(level, va) \in WordsOf(t)
  BY <1>1, SizeNat DEF WordsOf
<1> QED
  BY <1>1, <1>2

\* What the hardware finds, level by level.
LEMMA TranslateTree ==
  ASSUME layout \in Layouts, NEW m, NEW root, TreeInv(m, root), NEW va \in Nat
  PROVE  /\ Load(m, root + PX(2, va)) = Null => Translate(m, root, va) = NoEntry
         /\ \A one : Load(m, root + PX(2, va)) = PA2PTE(one, {}) =>
              /\ one \in One(m, root)
              /\ Load(m, one + PX(1, va)) = Null => Translate(m, root, va) = NoEntry
              /\ \A t : Load(m, one + PX(1, va)) = PA2PTE(t, {}) =>
                   /\ t \in Two(m, root)
                   /\ Translate(m, root, va) =
                        IF Load(m, t + PX(0, va)) = Null THEN NoEntry
                        ELSE [va |-> va, pa |-> Load(m, t + PX(0, va)).at,
                              perm |-> Load(m, t + PX(0, va)).perm]
<1>1. \A level \in 0 .. 2 : VPN(level, va) = PX(level, va)
  BY Indices
<1>2. \A level \in 0 .. 2, t \in Pool : t + PX(level, va) \in WordsOf(t)
  BY Indices, PoolWords
<1>3. root \in Pool /\ One(m, root) \subseteq Pool /\ Two(m, root) \subseteq Pool
  BY TreeShape DEF TreeInv, Taken
<1> DEFINE w2 == Load(m, root + PX(2, va))
<1>4. /\ VPN(2, va) = PX(2, va) /\ VPN(1, va) = PX(1, va) /\ VPN(0, va) = PX(0, va)
      /\ root + PX(2, va) \in WordsOf(root)
  BY <1>1, <1>2, <1>3
<1>5. w2 = Null => Translate(m, root, va) = NoEntry
  BY <1>4, Kinds DEF Translate
<1>6. ASSUME NEW one, w2 = PA2PTE(one, {})
      PROVE  /\ one \in One(m, root)
             /\ Load(m, one + PX(1, va)) = Null => Translate(m, root, va) = NoEntry
             /\ \A t : Load(m, one + PX(1, va)) = PA2PTE(t, {}) =>
                  /\ t \in Two(m, root)
                  /\ Translate(m, root, va) =
                       IF Load(m, t + PX(0, va)) = Null THEN NoEntry
                       ELSE [va |-> va, pa |-> Load(m, t + PX(0, va)).at,
                             perm |-> Load(m, t + PX(0, va)).perm]
  <2>1. one \in Pool
    <3>1. PICK u \in Spare \ {root} : w2 = PA2PTE(u, {})
      BY <1>4, <1>6, Kinds DEF TreeInv, Inner
    <3> QED
      BY <1>6, <3>1, Kinds DEF Spare
  <2>2. one \in One(m, root)
    BY <1>4, <1>6, <2>1 DEF One, Sub
  <2>3. w2.at = one /\ Valid(w2) /\ w2.perm = {}
    BY <1>6, Kinds
  <2>4. one + PX(1, va) \in WordsOf(one)
    BY <1>2, <2>1
  <2>5. Load(m, one + PX(1, va)) = Null => Translate(m, root, va) = NoEntry
    BY <1>4, <2>3, Kinds DEF Translate
  <2>6. ASSUME NEW t, Load(m, one + PX(1, va)) = PA2PTE(t, {})
        PROVE  /\ t \in Two(m, root)
               /\ Translate(m, root, va) =
                    IF Load(m, t + PX(0, va)) = Null THEN NoEntry
                    ELSE [va |-> va, pa |-> Load(m, t + PX(0, va)).at,
                          perm |-> Load(m, t + PX(0, va)).perm]
    <3> DEFINE w1 == Load(m, one + PX(1, va))
               w0 == Load(m, t + PX(0, va))
    <3>1. t \in Pool
      <4>1. PICK u \in Spare \ {root} : w1 = PA2PTE(u, {})
        BY <2>2, <2>4, <2>6, Kinds DEF TreeInv, Inner
      <4> QED
        BY <2>6, <4>1, Kinds DEF Spare
    <3>2. t \in Two(m, root)
      BY <2>2, <2>4, <2>6, <3>1 DEF Two, Sub
    <3>3. w1.at = t /\ Valid(w1) /\ w1.perm = {}
      BY <2>6, Kinds
    <3>4. w0 = Null \/ Leaf(w0)
      BY <1>2, <3>1, <3>2 DEF TreeInv
    <3>5. w0 = Null => ~Valid(w0)
      BY Kinds
    <3>6. w0 # Null => Valid(w0) /\ w0.perm # {}
      BY <3>4, Kinds DEF Leaf, Perms
    <3>7. Translate(m, root, va) =
            IF Valid(w0) /\ w0.perm # {} THEN [va |-> va, pa |-> w0.at, perm |-> w0.perm]
                                         ELSE NoEntry
      BY <1>4, <2>3, <3>3 DEF Translate
    <3> QED
      BY <3>2, <3>5, <3>6, <3>7
  <2> QED
    BY <2>2, <2>5, <2>6
<1> QED
  BY <1>5, <1>6

\* Either nothing, or a table, or a table behind a table is found for va.
LEMMA PathTree ==
  ASSUME layout \in Layouts, NEW m, NEW root, TreeInv(m, root), NEW va \in Nat
  PROVE  \/ Load(m, root + PX(2, va)) = Null
         \/ \E one \in One(m, root) :
              /\ Load(m, root + PX(2, va)) = PA2PTE(one, {})
              /\ \/ Load(m, one + PX(1, va)) = Null
                 \/ \E t \in Two(m, root) : Load(m, one + PX(1, va)) = PA2PTE(t, {})
<1>1. \A level \in 0 .. 2, t \in Pool : t + PX(level, va) \in WordsOf(t)
  BY Indices, PoolWords
<1>2. root \in Pool /\ One(m, root) \subseteq Pool /\ Two(m, root) \subseteq Pool
  BY TreeShape DEF TreeInv, Taken
<1>3. \A t \in Inner(m, root) : \A level \in 0 .. 2 :
        Load(m, t + PX(level, va)) = Null
        \/ \E s \in Spare \ {root} : Load(m, t + PX(level, va)) = PA2PTE(s, {})
  BY <1>1, <1>2 DEF TreeInv, Inner
<1>4. Load(m, root + PX(2, va)) = Null
      \/ \E s \in Spare \ {root} : Load(m, root + PX(2, va)) = PA2PTE(s, {})
  BY <1>3 DEF Inner
<1>5. ASSUME NEW one, Load(m, root + PX(2, va)) = PA2PTE(one, {})
      PROVE  /\ one \in One(m, root)
             /\ \/ Load(m, one + PX(1, va)) = Null
                \/ \E t \in Two(m, root) : Load(m, one + PX(1, va)) = PA2PTE(t, {})
  <2>1. one \in One(m, root)
    BY <1>5, TranslateTree
  <2>2. Load(m, one + PX(1, va)) = Null
        \/ \E s \in Spare \ {root} : Load(m, one + PX(1, va)) = PA2PTE(s, {})
    BY <1>3, <2>1 DEF Inner
  <2>3. \A t : Load(m, one + PX(1, va)) = PA2PTE(t, {}) => t \in Two(m, root)
    BY <1>5, TranslateTree
  <2> QED
    BY <2>1, <2>2, <2>3
<1> QED
  BY <1>4, <1>5

\* With the same words in the tables every address is translated in the same way.
LEMMA TranslateKept ==
  ASSUME layout \in Layouts, NEW m, NEW m2, NEW root, TreeInv(m, root), TreeInv(m2, root),
         NEW va \in Nat,
         \A t \in Taken(m, root) : \A e \in WordsOf(t) : Load(m2, e) = Load(m, e)
  PROVE  Translate(m2, root, va) = Translate(m, root, va)
<1>1. \A level \in 0 .. 2, t \in Taken(m, root) : Load(m2, t + PX(level, va)) = Load(m, t + PX(level, va))
  BY Indices, PoolWords, TreeShape
<1>2. root \in Taken(m, root) /\ One(m, root) \subseteq Taken(m, root)
      /\ Two(m, root) \subseteq Taken(m, root)
  BY DEF Taken, Inner
<1>3. CASE Load(m, root + PX(2, va)) = Null
  BY <1>1, <1>2, <1>3, TranslateTree
<1>4. ASSUME NEW one \in One(m, root), Load(m, root + PX(2, va)) = PA2PTE(one, {}),
             Load(m, one + PX(1, va)) = Null
      PROVE  Translate(m2, root, va) = Translate(m, root, va)
  <2>1. Load(m2, root + PX(2, va)) = PA2PTE(one, {}) /\ Load(m2, one + PX(1, va)) = Null
    BY <1>1, <1>2, <1>4
  <2> QED
    BY <1>4, <2>1, TranslateTree
<1>5. ASSUME NEW one \in One(m, root), Load(m, root + PX(2, va)) = PA2PTE(one, {}),
             NEW t \in Two(m, root), Load(m, one + PX(1, va)) = PA2PTE(t, {})
      PROVE  Translate(m2, root, va) = Translate(m, root, va)
  <2>1. /\ Load(m2, root + PX(2, va)) = PA2PTE(one, {}) /\ Load(m2, one + PX(1, va)) = PA2PTE(t, {})
        /\ Load(m2, t + PX(0, va)) = Load(m, t + PX(0, va))
    BY <1>1, <1>2, <1>5
  <2>2. Translate(m, root, va) =
          IF Load(m, t + PX(0, va)) = Null THEN NoEntry
          ELSE [va |-> va, pa |-> Load(m, t + PX(0, va)).at, perm |-> Load(m, t + PX(0, va)).perm]
    BY <1>5, TranslateTree
  <2>3. Translate(m2, root, va) =
          IF Load(m2, t + PX(0, va)) = Null THEN NoEntry
          ELSE [va |-> va, pa |-> Load(m2, t + PX(0, va)).at, perm |-> Load(m2, t + PX(0, va)).perm]
    BY <2>1, TranslateTree
  <2> QED
    BY <2>1, <2>2, <2>3
<1> QED
  BY <1>3, <1>4, <1>5, PathTree

\* A new table is empty: nothing is translated in another way.
LEMMA GrowTranslate ==
  ASSUME layout \in Layouts, NEW m, NEW root, TreeInv(m, root),
         NEW page \in Spare \ Taken(m, root), \A x \in WordsOf(page) : Load(m, x) = Null,
         NEW t \in Inner(m, root), NEW e \in WordsOf(t), Load(m, e) = Null,
         NEW m2, m2 = Store(m, e, PA2PTE(page, {})), NEW va \in Nat
  PROVE  Translate(m2, root, va) = Translate(m, root, va)
<1>1. \A x : Load(m2, x) = IF x = e THEN PA2PTE(page, {}) ELSE Load(m, x)
  BY LoadStored
<1>2. TreeInv(m2, root)
  BY GrowTree
<1>3. /\ Taken(m, root) \subseteq Spare /\ Spare \subseteq Pool /\ root \in Taken(m, root)
      /\ One(m, root) \subseteq Taken(m, root) /\ Two(m, root) \subseteq Taken(m, root)
      /\ page \in Pool /\ t \in Taken(m, root) /\ t \in Pool
      /\ One(m, root) \cap Two(m, root) = {} /\ root \notin One(m, root) /\ root \notin Two(m, root)
  BY TreeShape DEF Taken, Inner
<1>4. \A level \in 0 .. 2, s \in Pool : s + PX(level, va) \in WordsOf(s)
  BY Indices, PoolWords
<1>5. \A level \in 0 .. 2, s \in Pool : s # t => Load(m2, s + PX(level, va)) = Load(m, s + PX(level, va))
  BY <1>1, <1>3, <1>4, PoolWords
<1>6. \A level \in 0 .. 2 : Load(m2, page + PX(level, va)) = Null
  BY <1>3, <1>4, <1>5
<1>7. \A level \in 0 .. 2 : Load(m, t + PX(level, va)) # Null =>
                              Load(m2, t + PX(level, va)) = Load(m, t + PX(level, va))
  BY <1>1
<1>8. \A level \in 0 .. 2 : Load(m, t + PX(level, va)) = Null =>
                              Load(m2, t + PX(level, va)) \in {Null, PA2PTE(page, {})}
  BY <1>1
<1>9. CASE Load(m, root + PX(2, va)) = Null
  <2>1. Load(m2, root + PX(2, va)) \in {Null, PA2PTE(page, {})}
    BY <1>3, <1>5, <1>8, <1>9
  <2>2. Translate(m2, root, va) = NoEntry
    <3>1. CASE Load(m2, root + PX(2, va)) = Null
      BY <1>2, <3>1, TranslateTree
    <3>2. CASE Load(m2, root + PX(2, va)) = PA2PTE(page, {})
      <4>1. Load(m2, page + PX(1, va)) = Null
        BY <1>6
      <4> QED
        BY <1>2, <3>2, <4>1, TranslateTree
    <3> QED
      BY <2>1, <3>1, <3>2
  <2> QED
    BY <1>9, <2>2, TranslateTree
<1>10. ASSUME NEW one \in One(m, root), Load(m, root + PX(2, va)) = PA2PTE(one, {}),
              Load(m, one + PX(1, va)) = Null
       PROVE  Translate(m2, root, va) = Translate(m, root, va)
  <2>1. Load(m2, root + PX(2, va)) = PA2PTE(one, {})
    BY <1>3, <1>5, <1>7, <1>10, Kinds
  <2>2. Load(m2, one + PX(1, va)) \in {Null, PA2PTE(page, {})}
    BY <1>3, <1>5, <1>8, <1>10
  <2>3. Translate(m2, root, va) = NoEntry
    <3>1. CASE Load(m2, one + PX(1, va)) = Null
      BY <1>2, <2>1, <3>1, TranslateTree
    <3>2. CASE Load(m2, one + PX(1, va)) = PA2PTE(page, {})
      <4>1. Load(m2, page + PX(0, va)) = Null
        BY <1>6
      <4> QED
        BY <1>2, <2>1, <3>2, <4>1, TranslateTree
    <3> QED
      BY <2>2, <3>1, <3>2
  <2> QED
    BY <1>10, <2>3, TranslateTree
<1>11. ASSUME NEW one \in One(m, root), Load(m, root + PX(2, va)) = PA2PTE(one, {}),
              NEW u \in Two(m, root), Load(m, one + PX(1, va)) = PA2PTE(u, {})
       PROVE  Translate(m2, root, va) = Translate(m, root, va)
  <2>1. u # t
    BY <1>3, <1>11 DEF Inner
  <2>2. Load(m2, root + PX(2, va)) = PA2PTE(one, {}) /\ Load(m2, one + PX(1, va)) = PA2PTE(u, {})
        /\ Load(m2, u + PX(0, va)) = Load(m, u + PX(0, va))
    BY <1>3, <1>5, <1>7, <1>11, <2>1, Kinds
  <2>3. Translate(m, root, va) =
          IF Load(m, u + PX(0, va)) = Null THEN NoEntry
          ELSE [va |-> va, pa |-> Load(m, u + PX(0, va)).at, perm |-> Load(m, u + PX(0, va)).perm]
    BY <1>11, TranslateTree
  <2>4. Translate(m2, root, va) =
          IF Load(m2, u + PX(0, va)) = Null THEN NoEntry
          ELSE [va |-> va, pa |-> Load(m2, u + PX(0, va)).at, perm |-> Load(m2, u + PX(0, va)).perm]
    BY <1>2, <2>2, TranslateTree
  <2> QED
    BY <2>2, <2>3, <2>4
<1> QED
  BY <1>9, <1>10, <1>11, PathTree

\* kalloc during boot: the page is nobody's, and comes off the list as zeroes.
LEMMA PopHeap ==
  ASSUME layout \in Layouts, NEW m, NEW l, NEW root, NEW used, BootHeap(m, l, root, used),
         l # Null, l # Ptr(Variable)
  PROVE  /\ l.at \in Spare \ Taken(m, root) /\ l.at \notin used /\ l = Ptr(l.at)
         /\ l.at \in Free(l) /\ Free(Load(m, l.at)) = Free(l) \ {l.at}
         /\ BootHeap(Zeroed(m, l.at), Load(m, l.at), root, used \cup {l.at})
         /\ Taken(Zeroed(m, l.at), root) = Taken(m, root)
         /\ One(Zeroed(m, l.at), root) = One(m, root) /\ Two(Zeroed(m, l.at), root) = Two(m, root)
         /\ \A x : Load(Zeroed(m, l.at), x) = IF x \in WordsOf(l.at) THEN Null ELSE Load(m, x)
         /\ \A t \in Taken(m, root) : \A e \in WordsOf(t) : Load(Zeroed(m, l.at), e) = Load(m, e)
         /\ Load(Zeroed(m, l.at), Variable) = Load(m, Variable)
         /\ Typed(m) => Typed(Zeroed(m, l.at))
<1> DEFINE h == l.at
           m2 == Zeroed(m, h)
<1>1. /\ h \in Spare /\ l = Ptr(h) /\ h \in Free(l)
      /\ BootList(m2, Load(m, h)) /\ Free(Load(m, h)) = Free(l) \ {h}
  BY PopList DEF BootHeap
<1> HIDE DEF h
<1>2. h \notin Taken(m, root) /\ h \notin used
  BY <1>1 DEF BootHeap
<1>3. \A x : Load(m2, x) = IF x \in WordsOf(h) THEN Null ELSE Load(m, x)
  BY LoadZeroed
<1>4. TreeInv(m, root) /\ Taken(m, root) \subseteq Pool /\ h \in Pool
  BY <1>1, TreeShape DEF BootHeap, Spare
<1>5. \A t \in Taken(m, root) : \A e \in WordsOf(t) : Load(m2, e) = Load(m, e)
  BY <1>2, <1>3, <1>4, PoolWords
<1>6. Load(m2, Variable) = Load(m, Variable)
  BY <1>1, <1>3, PoolWords
<1>7. /\ TreeInv(m2, root) /\ Taken(m2, root) = Taken(m, root)
      /\ One(m2, root) = One(m, root) /\ Two(m2, root) = Two(m, root)
  BY <1>4, <1>5, <1>6, TreeKept
<1>8. Free(l) \subseteq Pool
  BY DEF Free
<1>9. BootHeap(m2, Load(m, h), root, used \cup {h})
  BY <1>1, <1>2, <1>4, <1>7, <1>8 DEF BootHeap
<1>10. Typed(m) => Typed(m2)
  BY ZeroedTypes DEF Typed
<1> HIDE DEF m2
<1> QED
  BY <1>1, <1>2, <1>3, <1>5, <1>6, <1>7, <1>9, <1>10 DEF h, m2

\* One turn of walk's loop at table t.
LEMMA DescendStep ==
  ASSUME layout \in Layouts, NEW m, NEW l, NEW root, NEW used, BootHeap(m, l, root, used),
         Typed(m), l # Ptr(Variable), NEW va \in Nat, NEW level \in 1 .. 2,
         NEW t \in Inner(m, root), level = 2 => t = root, level = 1 => t # root,
         NEW s, s = Descend([mem |-> m, list |-> l, pt |-> t], level, va)
  PROVE  /\ s = [mem |-> s.mem, list |-> s.list, pt |-> s.pt]
         /\ BootHeap(s.mem, s.list, root, used) /\ Typed(s.mem)
         /\ s.list = l \/ (l # Null /\ s.list = Load(m, l.at))
         /\ s.pt = 0 => s.mem = m /\ s.list = Null
         /\ s.pt # 0 => /\ Load(s.mem, t + PX(level, va)) = PA2PTE(s.pt, {})
                        /\ s.pt \in Pool
                        /\ level = 2 => s.pt \in One(s.mem, root)
                        /\ level = 1 => s.pt \in Two(s.mem, root)
         /\ \A u \in Taken(m, root) : \A x \in WordsOf(u) :
              x # t + PX(level, va) => Load(s.mem, x) = Load(m, x)
         /\ \A v \in Nat : Translate(s.mem, root, v) = Translate(m, root, v)
<1> DEFINE e == t + PX(level, va)
           s0 == [mem |-> m, list |-> l, pt |-> t]
           new == Kalloc(Heap(s0))
<1>1. /\ TreeInv(m, root) /\ Inner(m, root) \subseteq Taken(m, root)
      /\ Taken(m, root) \subseteq Spare /\ Spare \subseteq Pool
      /\ t \in Pool /\ t # 0 /\ e \in WordsOf(t) /\ e \in Int /\ PGROUNDDOWN(e) \in Pool
  <2>1. TreeInv(m, root) /\ Inner(m, root) \subseteq Taken(m, root)
        /\ Taken(m, root) \subseteq Spare /\ Spare \subseteq Pool
    BY TreeShape DEF BootHeap, Taken
  <2>2. t \in Pool
    BY <2>1
  <2>3. t \in Nat /\ t > 0
    BY <2>2, PoolWords
  <2>4. e \in WordsOf(t)
    <3>1. level \in 0 .. 2
      OBVIOUS
    <3> QED
      BY <2>3, <3>1, Indices
  <2> QED
    BY <2>1, <2>2, <2>3, <2>4, PoolWords
<1>2. s = IF Valid(Load(m, e)) THEN [s0 EXCEPT !.pt = Load(m, e).at]
          ELSE IF l = Null THEN [s0 EXCEPT !.pt = 0]
          ELSE [mem |-> Store(Zeroed(new.mem, l.at), e, PA2PTE(l.at, {})),
                list |-> new.list, pt |-> l.at]
  BY <1>1 DEF Descend
<1> HIDE DEF e
<1>3. Load(m, e) = Null \/ \E u \in Spare \ {root} : Load(m, e) = PA2PTE(u, {})
  BY <1>1 DEF TreeInv
<1>4. CASE Valid(Load(m, e))
  <2>1. PICK u \in Spare \ {root} : Load(m, e) = PA2PTE(u, {})
    BY <1>3, <1>4, Kinds
  <2>2. s = [mem |-> m, list |-> l, pt |-> u]
    BY <1>2, <1>4, <2>1, Kinds
  <2>3. u \in Pool /\ u # 0
    BY <1>1, <2>1, PoolWords
  <2>4. (level = 2 => u \in One(m, root)) /\ (level = 1 => u \in Two(m, root))
    BY <1>1, <2>1, <2>3 DEF One, Two, Sub, Inner
  <2>5. s.mem = m /\ s.list = l /\ s.pt = u /\ s = [mem |-> s.mem, list |-> s.list, pt |-> s.pt]
    BY <2>2
  <2> QED
    BY <2>1, <2>3, <2>4, <2>5 DEF e
<1>5. CASE ~Valid(Load(m, e)) /\ l = Null
  <2>1. s = [mem |-> m, list |-> l, pt |-> 0]
    BY <1>2, <1>5
  <2>2. s.mem = m /\ s.list = l /\ s.pt = 0 /\ s = [mem |-> s.mem, list |-> s.list, pt |-> s.pt]
    BY <2>1
  <2> QED
    BY <1>5, <2>2
<1>6. CASE ~Valid(Load(m, e)) /\ l # Null
  <2> DEFINE m1 == Zeroed(m, l.at)
             p == l.at
             n == Load(m, l.at)
  <2>1. new = [mem |-> m1, list |-> n]
    BY <1>6 DEF Kalloc, Heap
  <2>2. /\ p \in Spare \ Taken(m, root) /\ p \notin used
        /\ p \in Free(l) /\ Free(n) = Free(l) \ {p}
        /\ BootHeap(m1, n, root, used \cup {p})
        /\ Taken(m1, root) = Taken(m, root)
        /\ One(m1, root) = One(m, root) /\ Two(m1, root) = Two(m, root)
        /\ \A x : Load(m1, x) = IF x \in WordsOf(p) THEN Null ELSE Load(m, x)
        /\ \A u \in Taken(m, root) : \A x \in WordsOf(u) : Load(m1, x) = Load(m, x)
        /\ Typed(m1)
    <3>2. /\ l.at \in Spare \ Taken(m, root) /\ l.at \notin used
          /\ l.at \in Free(l) /\ Free(Load(m, l.at)) = Free(l) \ {l.at}
          /\ BootHeap(m1, Load(m, l.at), root, used \cup {l.at})
          /\ Taken(m1, root) = Taken(m, root)
      BY <1>6, PopHeap
    <3>3. /\ One(m1, root) = One(m, root) /\ Two(m1, root) = Two(m, root)
          /\ \A x : Load(m1, x) = IF x \in WordsOf(l.at) THEN Null ELSE Load(m, x)
      BY <1>6, PopHeap
    <3>4. \A u \in Taken(m, root) : \A x \in WordsOf(u) : Load(m1, x) = Load(m, x)
      <4>1. Taken(m, root) \subseteq Pool /\ l.at \in Pool /\ l.at \notin Taken(m, root)
        BY <3>2, TreeShape DEF BootHeap, Spare
      <4> HIDE DEF m1
      <4> QED
        BY <3>3, <4>1, PoolWords
    <3>5. Typed(m1)
      BY <1>6, PopHeap
    <3> QED
      BY <3>2, <3>3, <3>4, <3>5
  <2> DEFINE m2 == Zeroed(m1, p)
             m3 == Store(m2, e, PA2PTE(p, {}))
  <2>3. s = [mem |-> m3, list |-> n, pt |-> p]
    BY <1>2, <1>6, <2>1
  <2>4. \A x : Load(m2, x) = Load(m1, x)
    BY <2>2, LoadZeroed
  <2>5. Typed(m2)
    BY <2>2, ZeroedTypes DEF Typed
  <2> HIDE DEF m1, p, n, m2
  <2>6. /\ TreeInv(m2, root) /\ Taken(m2, root) = Taken(m, root)
        /\ One(m2, root) = One(m, root) /\ Two(m2, root) = Two(m, root)
    BY <2>2, <2>4, TreeKept DEF BootHeap
  <2>7. \A v \in Nat : Translate(m2, root, v) = Translate(m, root, v)
    BY <1>1, <2>2, <2>4, <2>6, TranslateKept
  <2>8. \A x \in WordsOf(p) : Load(m2, x) = Null
    BY <2>2, <2>4
  <2>9. Load(m2, e) = Null
    <3>1. Load(m, e) = Null
      BY <1>3, <1>6, Kinds
    <3> QED
      BY <1>1, <2>2, <2>4, <3>1
  <2>10. t \in Inner(m2, root) /\ p \in Spare \ Taken(m2, root)
    BY <2>2, <2>6 DEF Inner
  <2>11. /\ TreeInv(m3, root) /\ Taken(m3, root) = Taken(m, root) \cup {p}
         /\ t = root => One(m3, root) = One(m, root) \cup {p}
         /\ t # root => Two(m3, root) = Two(m, root) \cup {p}
    BY <1>1, <2>6, <2>8, <2>9, <2>10, GrowTree
  <2>12. \A v \in Nat : Translate(m3, root, v) = Translate(m2, root, v)
    BY <1>1, <2>6, <2>8, <2>9, <2>10, GrowTranslate
  <2>13. \A x : Load(m3, x) = IF x = e THEN PA2PTE(p, {}) ELSE Load(m2, x)
    BY LoadStored
  <2>14. Typed(m3)
    <3>1. p \in Int
      BY <1>1, <2>2, PoolWords
    <3>2. PA2PTE(p, {}) \in Word
      BY <3>1, WordsTyped
    <3>3. e \in Places
      BY <1>1 DEF Places
    <3> QED
      BY <2>5, <3>2, <3>3, StoredTypes DEF Typed
  <2>15. BootList(m3, n)
    <3>1. \A q \in Free(n) \ {Variable} : Load(m3, q) = Load(m1, q)
      <4>1. ASSUME NEW q \in Free(n) PROVE q # e
        <5>1. q \in Pool /\ q \notin Taken(m, root)
          BY <2>2, <4>1 DEF BootHeap, Free
        <5>2. q \in WordsOf(q)
          BY <5>1, PoolWords
        <5> QED
          BY <1>1, <5>1, <5>2, PoolWords
      <4> QED
        BY <2>4, <2>13, <4>1
    <3> QED
      BY <2>2, <3>1, ListKept DEF BootHeap
  <2>16. BootHeap(m3, n, root, used)
    BY <2>2, <2>11, <2>15 DEF BootHeap
  <2>17. p \in Pool /\ p # 0
    BY <1>1, <2>2, PoolWords
  <2>18. \A u \in Taken(m, root) : \A x \in WordsOf(u) : x # e => Load(m3, x) = Load(m, x)
    BY <2>2, <2>4, <2>13
  <2> HIDE DEF m3
  <2>19. s.mem = m3 /\ s.list = n /\ s.pt = p /\ s = [mem |-> s.mem, list |-> s.list, pt |-> s.pt]
    BY <2>3
  <2>20. Load(m3, e) = PA2PTE(p, {})
    BY <2>13
  <2>21. (level = 2 => p \in One(m3, root)) /\ (level = 1 => p \in Two(m3, root))
    BY <2>11
  <2>22. \A v \in Nat : Translate(m3, root, v) = Translate(m, root, v)
    BY <2>7, <2>12
  <2> QED
    BY <1>6, <2>14, <2>16, <2>17, <2>18, <2>19, <2>20, <2>21, <2>22 DEF e, n
<1> QED
  BY <1>4, <1>5, <1>6

\* walk(kernel_pagetable, va, 1): the table of the last level, or no memory is left; the
\* hardware sees no difference.
LEMMA WalkStep ==
  ASSUME layout \in Layouts, NEW m, NEW l, NEW root, NEW used, BootHeap(m, l, root, used),
         Typed(m), l # Ptr(Variable), l # Null => Load(m, l.at) # Ptr(Variable),
         NEW va \in Nat, NEW w, w = Walk([mem |-> m, list |-> l], root, va)
  PROVE  /\ BootHeap(w.mem, w.list, root, used) /\ Typed(w.mem)
         /\ w.pt = 0 => w.list = Null
         /\ w.pt # 0 =>
              /\ w.pt \in Pool /\ w.pt \in Two(w.mem, root)
              /\ \E one \in One(w.mem, root) :
                   /\ Load(w.mem, root + PX(2, va)) = PA2PTE(one, {})
                   /\ Load(w.mem, one + PX(1, va)) = PA2PTE(w.pt, {})
         /\ \A v \in Nat : Translate(w.mem, root, v) = Translate(m, root, v)
<1> DEFINE s == Descend([mem |-> m, list |-> l, pt |-> root], 2, va)
<1>1. w = Descend(s, 1, va)
  BY DEF Walk
<1>2. root \in Inner(m, root) /\ 2 \in 1 .. 2 /\ 1 \in 1 .. 2
  BY DEF Inner
<1>3. /\ s = [mem |-> s.mem, list |-> s.list, pt |-> s.pt]
      /\ BootHeap(s.mem, s.list, root, used) /\ Typed(s.mem)
      /\ s.list = l \/ (l # Null /\ s.list = Load(m, l.at))
      /\ s.pt = 0 => s.mem = m /\ s.list = Null
      /\ s.pt # 0 => /\ Load(s.mem, root + PX(2, va)) = PA2PTE(s.pt, {})
                     /\ s.pt \in Pool /\ s.pt \in One(s.mem, root)
      /\ \A v \in Nat : Translate(s.mem, root, v) = Translate(m, root, v)
  BY <1>2, DescendStep
<1> HIDE DEF s
<1>4. CASE s.pt = 0
  <2>1. w = s
    BY <1>1, <1>4 DEF Descend
  <2> QED
    BY <1>3, <1>4, <2>1
<1>5. CASE s.pt # 0
  <2> DEFINE one == s.pt
             n == s.mem
             k == s.list
  <2>1. TreeInv(n, root) /\ one \in One(n, root) /\ one \in Inner(n, root) /\ one # root
        /\ root \in Pool /\ one \in Pool /\ root \in Taken(n, root) /\ one \in Nat /\ root \in Nat
    BY <1>3, <1>5, TreeShape, PoolWords DEF BootHeap, TreeInv, Inner, Taken
  <2>2. k # Ptr(Variable)
    BY <1>3
  <2>3. w = Descend([mem |-> n, list |-> k, pt |-> one], 1, va)
    BY <1>1, <1>3
  <2> HIDE DEF n, k, one
  <2>4. BootHeap(n, k, root, used) /\ Typed(n) /\ Load(n, root + PX(2, va)) = PA2PTE(one, {})
        /\ \A v \in Nat : Translate(n, root, v) = Translate(m, root, v)
    BY <1>3, <1>5 DEF n, k, one
  <2>5. /\ BootHeap(w.mem, w.list, root, used) /\ Typed(w.mem)
        /\ w.pt = 0 => w.list = Null
        /\ w.pt # 0 => /\ Load(w.mem, one + PX(1, va)) = PA2PTE(w.pt, {})
                       /\ w.pt \in Pool /\ w.pt \in Two(w.mem, root)
        /\ \A u \in Taken(n, root) : \A x \in WordsOf(u) :
             x # one + PX(1, va) => Load(w.mem, x) = Load(n, x)
        /\ \A v \in Nat : Translate(w.mem, root, v) = Translate(n, root, v)
    <3>1. BootHeap(w.mem, w.list, root, used) /\ Typed(w.mem)
      BY <1>2, <2>1, <2>2, <2>3, <2>4, DescendStep
    <3>2. w.pt = 0 => w.list = Null
      BY <1>2, <2>1, <2>2, <2>3, <2>4, DescendStep
    <3>3. w.pt # 0 => Load(w.mem, one + PX(1, va)) = PA2PTE(w.pt, {})
      BY <1>2, <2>1, <2>2, <2>3, <2>4, DescendStep
    <3>4. w.pt # 0 => w.pt \in Pool /\ w.pt \in Two(w.mem, root)
      BY <1>2, <2>1, <2>2, <2>3, <2>4, DescendStep
    <3>5. \A u \in Taken(n, root) : \A x \in WordsOf(u) :
            x # one + PX(1, va) => Load(w.mem, x) = Load(n, x)
      BY <1>2, <2>1, <2>2, <2>3, <2>4, DescendStep
    <3>6. \A v \in Nat : Translate(w.mem, root, v) = Translate(n, root, v)
      BY <1>2, <2>1, <2>2, <2>3, <2>4, DescendStep
    <3> QED
      BY <3>1, <3>2, <3>3, <3>4, <3>5, <3>6
  <2>6. root + PX(2, va) \in WordsOf(root) /\ one + PX(1, va) \in WordsOf(one)
    BY <2>1, Indices
  <2>7. Load(w.mem, root + PX(2, va)) = PA2PTE(one, {})
    BY <2>1, <2>4, <2>5, <2>6, PoolWords
  <2>8. TreeInv(w.mem, root)
    BY <2>5 DEF BootHeap
  <2>9. one \in One(w.mem, root)
    BY <2>7, <2>8, TranslateTree
  <2> QED
    BY <2>4, <2>5, <2>7, <2>9
<1> QED
  BY <1>4, <1>5

-----------------------------------------------------------------------------
(* What is said of heaps does not depend on anything that changes.         *)

LEMMA PoolSame ==
  ASSUME layout' = layout
  PROVE  Pool' = Pool /\ Variable' = Variable /\ Low' = Low /\ Spare' = Spare /\ Places' = Places
<1>1. Pool' = Pool
  BY DEF Pool
<1>2. Variable' = Variable /\ Low' = Low
  BY DEF Variable, Low
<1> QED
  BY <1>1, <1>2 DEF Spare, Places

LEMMA HeapSame ==
  ASSUME layout' = layout
  PROVE  /\ \A m : Typed(m)' <=> Typed(m)
         /\ \A m, root : Taken(m, root)' = Taken(m, root)
         /\ \A m, root : TreeInv(m, root)' <=> TreeInv(m, root)
         /\ \A l : Free(l)' = Free(l)
         /\ \A m, l : BootList(m, l)' <=> BootList(m, l)
         /\ \A m, l, root, used : BootHeap(m, l, root, used)' <=> BootHeap(m, l, root, used)
<1>1. \A m : Typed(m)' <=> Typed(m)
  BY PoolSame DEF Typed
<1>2. \A m, T : Sub(m, T)' = Sub(m, T)
  BY PoolSame DEF Sub
<1>3. \A m, root : One(m, root)' = One(m, root)
  BY <1>2 DEF One
<1>4. \A m, root : Two(m, root)' = Two(m, root)
  BY <1>2, <1>3 DEF Two
<1>5. \A m, root : Inner(m, root)' = Inner(m, root)
  BY <1>3 DEF Inner
<1>6. \A m, root : Taken(m, root)' = Taken(m, root)
  BY <1>4, <1>5 DEF Taken
<1>7. \A m, root : TreeInv(m, root)' <=> TreeInv(m, root)
  BY <1>4, <1>5, PoolSame DEF TreeInv
<1>8. \A l : Free(l)' = Free(l)
  BY PoolSame DEF Free
<1>9. \A m, l : BootList(m, l)' <=> BootList(m, l)
  BY <1>8, PoolSame DEF BootList
<1>10. \A m, l, root, used : BootHeap(m, l, root, used)' <=> BootHeap(m, l, root, used)
  BY <1>6, <1>7, <1>8, <1>9, PoolSame DEF BootHeap
<1> QED
  BY <1>1, <1>6, <1>7, <1>8, <1>9, <1>10

-----------------------------------------------------------------------------
(* The steps                                                               *)

LEMMA InitPages == Init => PagesInv
<1> SUFFICES ASSUME Init PROVE PagesInv
  OBVIOUS
<1>1. mem = <<>> /\ free_mem_list = Null /\ DOMAIN mem = {}
  BY DEF Init
<1>2. ControlInv
  BY BootAssumption DEF Init, ControlInv, Early, BootAssumption
<1>3. Typed(mem) /\ free_mem_list \in Word
  BY <1>1, WordsTyped DEF Typed
<1>4. DOMAIN user = UserPages /\ \A u \in UserPages : user[u] = 0
  BY DEF Init
<1>5. UserInv
  BY <1>4 DEF UserInv, Init, Behind, UserPages
<1>6. EarlyInv
  BY <1>1 DEF EarlyInv, Init
<1>7. Idle
  BY DEF Idle, Init
<1> QED
  BY <1>2, <1>3, <1>4, <1>5, <1>6, <1>7 DEF PagesInv, Init, Mapping, Paged, Running, Early

LEMMA ControlStep == ControlInv /\ [Next]_vars => ControlInv'
<1> SUFFICES ASSUME ControlInv, [Next]_vars PROVE ControlInv'
  OBVIOUS
<1> USE DEF ControlInv, Early, Mapping, Paged, callers
<1>1. CASE StartMret \/ StartDelegate \/ TimerArm \/ TimerVector \/ TimerEnable
             \/ TimerUnmask \/ StartTp
  <2>1. left \in 0 .. Interval /\ Interval \in Nat
    BY BootAssumption DEF BootAssumption
  <2>2. Elapses => left' \in 0 .. Interval
    BY <2>1 DEF Elapses
  <2>3. left' \in 0 .. Interval
    BY <1>1, <2>1, <2>2 DEF StartMret, StartDelegate, TimerArm, TimerVector, TimerEnable,
           TimerUnmask, StartTp
  <2> QED
    BY <1>1, <2>3 DEF StartMret, StartDelegate, TimerArm, TimerVector, TimerEnable,
           TimerUnmask, StartTp, Statement, From, machine, locals
<1>2. CASE Mret
  BY <1>2, BootAssumption DEF Mret, locals, BootAssumption
<1>3. CASE StartMain \/ Kinit \/ Kvmininit
  BY <1>3 DEF StartMain, Kinit, Kvmininit, Elsewhere, panic, KernelRuns
<1>4. CASE Mappages
  BY <1>4 DEF Mappages, Elsewhere, panic, NextRegion, KernelRuns
<1>5. CASE KvminithartSatp \/ KvminithartFence \/ Trapinithart \/ IntrOn
  BY <1>5 DEF KvminithartSatp, KvminithartFence, Trapinithart, IntrOn, Elsewhere, locals
<1>6. CASE Initializes
  BY <1>6 DEF Initializes, Sets, Elsewhere, locals
<1>7. CASE Userinit
  BY <1>7 DEF Userinit, UserinitPage, UserinitGrant, UserPages, UserAfter, Elsewhere, locals,
              panic, KernelRuns
<1>8. CASE MachineTimer
  <2>1. left' \in 0 .. Interval
    BY <1>8, BootAssumption DEF MachineTimer, BootAssumption
  <2> QED
    BY <1>8, <2>1 DEF MachineTimer, locals
<1>9. CASE SoftwareInterrupt \/ Cache \/ Evict \/ KernelFaults
  BY <1>9 DEF SoftwareInterrupt, Cache, Evict, KernelFaults, locals
<1>10. CASE CallerRuns \/ CallerFaults \/ Rests
  <2>1. CASE CallerRuns
    <3>1. DOMAIN call' = Callers /\ DOMAIN r' = Callers /\ DOMAIN next' = Callers
          /\ DOMAIN held' = Callers
      BY <2>1 DEF CallerRuns, CallerStep, KallocHead, KallocNext, KallocStore, KallocZero,
                  KfreeLoad, KfreeLink, KfreeStore, UseAsTrapframe, Goto
    <3> QED
      BY <2>1, <3>1 DEF CallerRuns, locals
  <2> QED
    BY <1>10, <2>1 DEF CallerFaults, Rests, vars, locals, panic
<1>11. CASE UNCHANGED vars
  BY <1>11 DEF vars, locals
<1> QED
  BY <1>1, <1>2, <1>3, <1>4, <1>5, <1>6, <1>7, <1>8, <1>9, <1>10, <1>11 DEF Next, Hart

\* With paging on and nobody running yet, what boot has built is what callers meet.
LEMMA BootToCaller ==
  layout \in Layouts /\ BootInv /\ bpc \notin Mapping /\ UserInv /\ Idle => CallerInv
<1> SUFFICES ASSUME layout \in Layouts, BootInv, bpc \notin Mapping, UserInv, Idle
             PROVE  CallerInv
  OBVIOUS
<1> DEFINE l == free_mem_list
<1>1. satp = kernel_pagetable /\ BootHeap(mem, l, satp, Users) /\ \A p \in Users : Load(mem, p) = Null
  BY DEF BootInv
<1>2. TreeInv(mem, satp) /\ BootList(mem, l) /\ Taken(mem, satp) \cup Users = Pool \ Free(l)
      /\ Taken(mem, satp) \cap Users = {}
  BY <1>1 DEF BootHeap
<1>3. Users \subseteq Others
  <2>1. Users \subseteq Spare
    BY DEF Users, UserInv
  <2> QED
    BY <1>2, <2>1 DEF Others
<1>4. \A p \in Free(l) : Loose(Ptr(p))
  <2>1. \A p \in Free(l) : p \in Pool /\ p \notin Taken(mem, satp)
    BY <1>2 DEF Free
  <2> QED
    BY <2>1 DEF Loose, Others, Spare
<1>5. Loose(Null)
  BY DEF Loose
<1>6. Loose(l)
  <2>1. ASSUME NEW h \in Pool, l = Ptr(h) PROVE h \in Free(l)
    <3>1. Ptr(h) # Null /\ Ptr(h).at = h
      BY Kinds
    <3>2. h \in Nat /\ h <= h
      BY PoolWords
    <3> QED
      BY <2>1, <3>1, <3>2 DEF Free
  <2> QED
    BY <1>2, <1>4, <1>5, <2>1 DEF BootList
<1>7. ASSUME NEW p \in Others PROVE Loose(Load(mem, p))
  <2>1. p \in Pool /\ p # Variable /\ p \notin Taken(mem, satp)
    BY DEF Others, Spare
  <2>2. CASE p \in Users
    BY <1>1, <1>5, <2>2
  <2>3. CASE p \in Free(l)
    <3>1. Load(mem, p) = IF p = Low THEN Null ELSE Ptr(p - PGSIZE)
      BY <1>2, <2>1, <2>3 DEF BootList
    <3>2. p # Low => p - PGSIZE \in Free(l)
      <4>1. Low \in Nat /\ Low % PGSIZE = 0 /\ p \in Nat /\ p % PGSIZE = 0 /\ Low <= p
            /\ p < layout.phystop /\ layout.phystop \in Nat
        BY <2>1, PoolIs
      <4>2. p # Low => Low <= p - PGSIZE /\ p - PGSIZE \in Nat /\ (p - PGSIZE) % PGSIZE = 0
        BY <4>1, PageOrder
      <4>3. p - PGSIZE < layout.phystop /\ p - PGSIZE <= p
        BY <4>1, SizeNat
      <4>4. p # Low => p - PGSIZE \in Pool
        BY <4>2, <4>3, PoolIs
      <4>5. PICK h \in Pool : l = Ptr(h)
        BY <1>2, <2>3 DEF BootList, Free
      <4>6. l # Null /\ l.at = h /\ p <= h /\ h \in Nat
        BY <2>3, <4>5, Kinds, PoolWords DEF Free
      <4>7. p - PGSIZE <= h
        BY <4>1, <4>6, SizeNat
      <4> QED
        BY <4>4, <4>6, <4>7 DEF Free
    <3> QED
      BY <1>4, <1>5, <3>1, <3>2
  <2> QED
    BY <1>2, <2>1, <2>2, <2>3
<1>8. \A c \in Callers : Calls(c)
  BY <1>5 DEF Idle, Calls
<1> QED
  BY <1>2, <1>3, <1>6, <1>7, <1>8 DEF CallerInv


LEMMA LooseSame ==
  ASSUME layout' = layout, Taken(mem, satp)' = Taken(mem, satp)
  PROVE  Others' = Others /\ \A word : Loose(word)' <=> Loose(word)
<1>1. Others' = Others
  BY PoolSame DEF Others
<1> QED
  BY <1>1, PoolSame DEF Loose

LEMMA CallerSame ==
  ASSUME CallerInv, UNCHANGED <<layout, heap, satp, callers, user>>
  PROVE  CallerInv'
<1>1. mem' = mem /\ satp' = satp /\ user' = user /\ layout' = layout /\ free_mem_list' = free_mem_list
      /\ call' = call /\ r' = r /\ next' = next /\ held' = held
  BY DEF heap, callers
<1>2. Taken(mem, satp)' = Taken(mem, satp) /\ TreeInv(mem, satp)'
  BY <1>1, HeapSame DEF CallerInv
<1>3. Others' = Others /\ \A word : Loose(word)' <=> Loose(word)
  BY <1>1, <1>2, LooseSame
<1>4. Users' = Users
  BY <1>1 DEF Users
<1>5. \A c \in Callers : Calls(c)'
  BY <1>1, <1>3 DEF CallerInv, Calls
<1>6. Loose(free_mem_list)' /\ \A p \in Others' : Loose(Load(mem, p))'
  BY <1>1, <1>3 DEF CallerInv
<1> QED
  BY <1>2, <1>3, <1>4, <1>5, <1>6 DEF CallerInv

LEMMA BootSame ==
  ASSUME BootInv, UNCHANGED <<layout, heap, satp, user>>, bpc' \in Paged \cup {"scheduler"},
         bpc \in Paged \cup {"scheduler"}
  PROVE  BootInv'
<1>1. mem' = mem /\ satp' = satp /\ user' = user /\ layout' = layout /\ free_mem_list' = free_mem_list
  BY DEF heap
<1>2. Users' = Users /\ kernel_pagetable' = kernel_pagetable
  BY <1>1 DEF Users, kernel_pagetable
<1>3. BootHeap(mem, free_mem_list, kernel_pagetable, Users)'
  BY <1>1, <1>2, HeapSame DEF BootInv
<1> QED
  BY <1>1, <1>2, <1>3 DEF BootInv, Paged, Mapping

\* Where the hart is lost what it has built is still there.
LEMMA LostStep ==
  ASSUME PagesInv, ControlInv', UNCHANGED <<layout, heap, callers, satp, user>>,
         bpc' = "lost", priv' = "wild"
  PROVE  PagesInv'
<1>1. mem' = mem /\ satp' = satp /\ user' = user /\ layout' = layout /\ free_mem_list' = free_mem_list
      /\ call' = call /\ r' = r /\ next' = next /\ held' = held
  BY DEF heap, callers
<1>2. Typed(mem)' /\ DOMAIN user' = UserPages /\ free_mem_list' \in Word
  BY <1>1, HeapSame DEF PagesInv
<1>3. UserInv'
  BY <1>1, PoolSame DEF PagesInv, UserInv, UserPages, Behind
<1>4. CASE bpc \in Early \cup Mapping
  <2>1. satp = 0 /\ Idle
    BY <1>4 DEF PagesInv, EarlyInv, BootInv, Running, Early, Mapping
  <2> QED
    BY <1>1, <1>2, <1>3, <2>1 DEF PagesInv, Running, Idle, Early, Mapping, Paged
<1>5. CASE bpc \notin Early \cup Mapping
  <2>1. (bpc \in Paged \/ Running) \/ (bpc = "lost" /\ satp = 0)
    BY <1>5 DEF PagesInv, ControlInv, Running
  <2>2. bpc \in Paged => BootInv /\ Idle /\ bpc \notin Mapping
    BY DEF PagesInv, Running, Paged, Mapping
  <2>3. bpc \in Paged \/ Running => CallerInv
    BY <2>2, BootToCaller DEF PagesInv, ControlInv
  <2>4. bpc \in Paged \/ Running => CallerInv'
    BY <2>3, CallerSame
  <2>5. bpc \in Paged \/ Running => satp # 0
    <3>1. CallerInv => satp \in Pool
      BY DEF CallerInv, TreeInv, Spare
    <3> QED
      BY <2>3, <3>1, PoolWords DEF PagesInv, ControlInv
  <2>6. bpc = "lost" /\ satp = 0 => Idle'
    BY <1>1 DEF PagesInv, Running, Idle
  <2> QED
    BY <1>1, <1>2, <1>3, <2>1, <2>4, <2>5, <2>6 DEF PagesInv, Running, Early, Mapping, Paged
<1> QED
  BY <1>4, <1>5

\* A step that moves from one statement to the next and touches nothing else of this.
LEMMA MoveStep ==
  ASSUME PagesInv, ControlInv', UNCHANGED <<layout, heap, callers, satp, user>>,
         bpc \notin {"scheduler", "lost"}, bpc' \notin {"scheduler", "lost"}, UserInv',
         bpc' \in Early => EarlyInv', bpc' \in Mapping \cup Paged => BootInv'
  PROVE  PagesInv'
<1>1. mem' = mem /\ satp' = satp /\ user' = user /\ layout' = layout /\ free_mem_list' = free_mem_list
      /\ call' = call /\ r' = r /\ next' = next /\ held' = held
  BY DEF heap, callers
<1>2. Typed(mem)' /\ DOMAIN user' = UserPages /\ free_mem_list' \in Word
  BY <1>1, HeapSame DEF PagesInv
<1>3. Idle'
  BY <1>1 DEF PagesInv, Running, Idle
<1> QED
  BY <1>2, <1>3 DEF PagesInv, Running

LEMMA MachineSteps ==
  ASSUME PagesInv, ControlInv',
         StartMret \/ StartDelegate \/ TimerArm \/ TimerVector \/ TimerEnable
           \/ TimerUnmask \/ StartTp \/ (Mret /\ priv' = "S")
  PROVE  PagesInv'
<1> DEFINE M == {"start", "delegate", "mtimecmp", "mtvec", "mtie", "mie", "tp", "mret"}
<1>1. /\ UNCHANGED <<layout, heap, callers, satp, user, tlb, region>>
      /\ bpc \in M /\ bpc' \in M \cup {"start_main"}
  BY DEF StartMret, StartDelegate, TimerArm, TimerVector, TimerEnable, TimerUnmask, StartTp,
         Mret, Statement, From, locals, supervisor
<1>2. UserInv'
  BY <1>1, PoolSame DEF PagesInv, UserInv, UserPages, Behind
<1>3. EarlyInv'
  <2>1. EarlyInv
    BY <1>1 DEF PagesInv, Early
  <2> QED
    BY <1>1, <2>1 DEF EarlyInv, heap
<1> QED
  BY <1>1, <1>2, <1>3, MoveStep DEF Early, Mapping, Paged

LEMMA StartMainStep ==
  ASSUME PagesInv, ControlInv', StartMain
  PROVE  PagesInv'
<1>1. /\ UNCHANGED <<layout, heap, callers, satp, user, tlb, region>>
      /\ bpc = "start_main" /\ bpc' = "kinit" /\ a' = Low
  BY DEF StartMain, KernelRuns, Elsewhere, supervisor, Low
<1>2. UserInv'
  BY <1>1, PoolSame DEF PagesInv, UserInv, UserPages, Behind
<1>3. EarlyInv'
  <2>1. EarlyInv
    BY <1>1 DEF PagesInv, Early
  <2>2. layout \in Layouts
    BY DEF PagesInv, ControlInv
  <2>3. Low \in Nat /\ Low % PGSIZE = 0 /\ Low <= Low /\ \A p \in Pool : ~ (p < Low)
    BY <2>2, PoolIs
  <2>4. free_mem_list' = Null /\ satp' = 0 /\ tlb' = NoEntry /\ region' = 0
    BY <1>1, <2>1 DEF EarlyInv, heap
  <2>5. Low' = Low /\ Pool' = Pool
    BY <1>1, PoolSame
  <2> QED
    BY <1>1, <2>3, <2>4, <2>5 DEF EarlyInv
<1> QED
  BY <1>1, <1>2, <1>3, MoveStep DEF Early, Mapping, Paged

LEMMA PagedSteps ==
  ASSUME PagesInv, ControlInv',
         KvminithartSatp \/ KvminithartFence \/ Trapinithart \/ IntrOn \/ Initializes
  PROVE  PagesInv'
<1>1. /\ UNCHANGED <<layout, heap, callers, user>>
      /\ bpc \in Paged \cup {"w_satp"} /\ bpc' \in Paged
      /\ bpc = "w_satp" => satp' = kernel_pagetable /\ bpc' = "sfence_vma"
      /\ bpc # "w_satp" => satp' = satp
      /\ \A u \in UserPages : bpc \notin Behind(u) /\ bpc' \notin Behind(u)
  BY DEF KvminithartSatp, KvminithartFence, Trapinithart, IntrOn, Initializes, Sets, KernelRuns,
         Elsewhere, locals, supervisor, Paged, UserPages, Behind
<1>2. UserInv'
  BY <1>1, PoolSame DEF PagesInv, UserInv, Paged
<1>3. BootInv
  BY <1>1 DEF PagesInv, Mapping
<1>4. kernel_pagetable' = kernel_pagetable /\ Users' = Users
  BY <1>1 DEF kernel_pagetable, heap, Users
<1>5. BootInv'
  <2>1. BootHeap(mem, free_mem_list, kernel_pagetable, Users)'
    BY <1>1, <1>3, <1>4, HeapSame DEF BootInv, heap
  <2>2. satp' = kernel_pagetable'
    BY <1>1, <1>3, <1>4 DEF BootInv, Paged, Mapping
  <2> QED
    BY <1>1, <1>3, <1>4, <2>1, <2>2 DEF BootInv, Paged, Mapping, heap
<1>6. Typed(mem)' /\ DOMAIN user' = UserPages /\ free_mem_list' \in Word
  BY <1>1, HeapSame DEF PagesInv, heap
<1>7. Idle'
  BY <1>1 DEF PagesInv, Running, Idle, callers, Paged
<1> QED
  BY <1>1, <1>2, <1>5, <1>6, <1>7 DEF PagesInv, Running, Paged, Early


\* A step of start_main or userinit: nobody runs yet.
LEMMA BootStep ==
  ASSUME PagesInv, ControlInv', bpc \notin {"scheduler", "lost"}, bpc' \notin {"scheduler", "lost"},
         UNCHANGED callers, Typed(mem'), DOMAIN user' = UserPages, UserInv', free_mem_list' \in Word,
         layout' = layout,
         bpc' \in Early => EarlyInv', bpc' \in Mapping \cup Paged => BootInv'
  PROVE  PagesInv'
<1>1. Idle'
  BY DEF PagesInv, Running, Idle, callers
<1>2. Typed(mem)'
  BY HeapSame
<1> QED
  BY <1>1, <1>2 DEF PagesInv, Running

LEMMA KinitStep ==
  ASSUME PagesInv, ControlInv', Kinit
  PROVE  PagesInv'
<1>1. /\ UNCHANGED <<layout, callers, satp, user, tlb, region>>
      /\ bpc = "kinit" /\ bpc' \in {"kinit", "kvmininit"} /\ layout \in Layouts
  BY DEF Kinit, KernelRuns, Elsewhere, panic, supervisor, PagesInv, ControlInv
<1>2. UserInv' /\ DOMAIN user' = UserPages
  BY <1>1, PoolSame DEF PagesInv, UserInv, UserPages, Behind
<1>3. EarlyInv
  BY <1>1 DEF PagesInv, Early
<1>4. Low' = Low /\ Pool' = Pool /\ Variable' = Variable
  BY <1>1, PoolSame
<1>5. /\ a \in Nat /\ a % PGSIZE = 0 /\ Low <= a
      /\ free_mem_list = IF a = Low THEN Null ELSE Ptr(a - PGSIZE)
      /\ a = Low \/ a - PGSIZE \in Pool
      /\ \A p \in Pool : p < a => Load(mem, p) = IF p = Low THEN Null ELSE Ptr(p - PGSIZE)
  BY <1>1, <1>3 DEF EarlyInv
<1>6. satp' = 0 /\ tlb' = NoEntry /\ region' = 0
  BY <1>1, <1>3 DEF EarlyInv
<1>7. Typed(mem) /\ free_mem_list \in Word
  BY DEF PagesInv
<1>8. /\ Low \in Nat /\ Low % PGSIZE = 0
      /\ layout.phystop \in Nat /\ layout.phystop % PGSIZE = 0
      /\ \A p : p \in Pool <=> p \in Nat /\ p % PGSIZE = 0 /\ Low <= p /\ p < layout.phystop
  BY <1>1, PoolIs
<1>9. CASE KinitMore /\ KfreeValid(a)
  <2>1. mem' = Store(mem, a, free_mem_list) /\ free_mem_list' = Ptr(a) /\ a' = a + PGSIZE
        /\ bpc' = "kinit"
    BY <1>1, <1>9 DEF Kinit, Kfree
  <2>2. a \in Pool
    BY <1>5, <1>8, <1>9, SizeNat DEF KinitMore
  <2>3. a \in Places
    BY <1>1, <1>5, <2>2, PoolWords DEF Places
  <2>4. Typed(mem')
    BY <1>7, <2>1, <2>3, StoredTypes DEF Typed
  <2>5. free_mem_list' \in Word
    BY <1>5, <2>1, WordsTyped
  <2>6. a + PGSIZE \in Nat /\ (a + PGSIZE) % PGSIZE = 0 /\ Low <= a + PGSIZE /\ a + PGSIZE # Low
        /\ (a + PGSIZE) - PGSIZE = a
    <3>1. a + PGSIZE \in Nat /\ (a + PGSIZE) % PGSIZE = 0
      BY <1>5, PageNext
    <3> QED
      BY <1>5, <1>8, <3>1, SizeNat
  <2>7. ASSUME NEW p \in Pool, p < a + PGSIZE
        PROVE  Load(mem', p) = IF p = Low THEN Null ELSE Ptr(p - PGSIZE)
    <3>1. CASE p = a
      BY <1>5, <2>1, <3>1, LoadStored
    <3>2. CASE p # a
      <4>1. ~ (a < p)
        BY <1>5, <1>8, <2>7, PageOrder, SizeNat
      <4>2. p < a
        BY <1>5, <1>8, <3>2, <4>1
      <4> QED
        BY <1>5, <2>1, <3>2, <4>2, LoadStored
    <3> QED
      BY <3>1, <3>2
  <2>8. EarlyInv'
    <3>1. a' \in Nat /\ a' % PGSIZE = 0 /\ Low' <= a'
      BY <1>4, <2>1, <2>6
    <3>2. free_mem_list' = IF a' = Low' THEN Null ELSE Ptr(a' - PGSIZE)
      BY <1>4, <2>1, <2>6
    <3>3. a' - PGSIZE \in Pool'
      BY <1>4, <2>1, <2>2, <2>6
    <3>4. \A p \in Pool' : p < a' => Load(mem', p) = IF p = Low' THEN Null ELSE Ptr(p - PGSIZE)
      BY <1>4, <2>1, <2>7
    <3> QED
      BY <1>6, <2>1, <3>1, <3>2, <3>3, <3>4 DEF EarlyInv
  <2> QED
    BY <1>1, <1>2, <2>1, <2>4, <2>5, <2>8, BootStep DEF Mapping, Paged
<1>10. CASE KinitMore /\ ~KfreeValid(a)
  <2>1. UNCHANGED <<mem, free_mem_list, a>> /\ bpc' = "kinit"
    BY <1>1, <1>10 DEF Kinit, panic, heap
  <2>2. EarlyInv'
    BY <1>4, <1>5, <1>6, <2>1 DEF EarlyInv
  <2> QED
    BY <1>1, <1>2, <1>7, <2>1, <2>2, BootStep DEF Mapping, Paged
<1>11. CASE ~KinitMore
  <2>1. UNCHANGED <<mem, free_mem_list, a>> /\ bpc' = "kvmininit"
    BY <1>1, <1>11 DEF Kinit, panic, heap
  <2>2. ASSUME NEW p \in Pool PROVE p < a
    <3>1. p \in Nat /\ p % PGSIZE = 0 /\ p <= layout.phystop - PGSIZE
      BY <1>8, PageOrder
    <3>2. layout.phystop < a + PGSIZE
      BY <1>5, <1>8, <1>11, SizeNat DEF KinitMore
    <3> QED
      BY <1>5, <1>8, <3>1, <3>2, SizeNat
  <2>3. Free(free_mem_list) = Pool
    <3>1. CASE a = Low
      <4>1. Pool = {}
        BY <1>8, <2>2, <3>1
      <4> QED
        BY <4>1 DEF Free
    <3>2. CASE a # Low
      <4>1. free_mem_list = Ptr(a - PGSIZE) /\ free_mem_list # Null /\ free_mem_list.at = a - PGSIZE
        BY <1>5, <3>2, Kinds
      <4>2. \A p \in Pool : p <= a - PGSIZE
        BY <1>5, <1>8, <2>2, PageOrder
      <4> QED
        BY <4>1, <4>2 DEF Free
    <3> QED
      BY <3>1, <3>2
  <2>4. BootList(mem, free_mem_list)
    <3>1. free_mem_list = Null \/ \E h \in Pool : free_mem_list = Ptr(h)
      BY <1>5
    <3>2. Variable \in Pool => free_mem_list # Null
      <4>1. Variable \in Pool => Low < a
        BY <1>1, <2>2, PoolWords
      <4> QED
        BY <1>5, <1>8, <4>1, Kinds
    <3>3. \A p \in Free(free_mem_list) : Load(mem, p) = IF p = Low THEN Null ELSE Ptr(p - PGSIZE)
      BY <1>5, <2>2, <2>3
    <3> QED
      BY <3>1, <3>2, <3>3 DEF BootList
  <2>5. BootList(mem, free_mem_list)' /\ Free(free_mem_list)' = Pool'
    BY <1>1, <1>4, <2>1, <2>3, <2>4, HeapSame
  <2>6. EarlyInv'
    BY <1>6, <2>1, <2>5 DEF EarlyInv
  <2> QED
    BY <1>1, <1>2, <1>7, <2>1, <2>6, BootStep DEF Mapping, Paged
<1> QED
  BY <1>9, <1>10, <1>11

LEMMA Regions ==
  ASSUME layout \in Layouts, NEW i \in 1 .. 5
  PROVE  First(i) \in Nat /\ Region(i).perm \in Perms
<1>1. Region(i).va \in Nat
  BY BootAssumption DEF BootAssumption, Region
<1>2. First(i) \in Nat
  BY <1>1, Divides DEF First, PGROUNDDOWN
<1>3. Region(i).perm \in {{R, W}, {R, X}}
  BY DEF Region
<1> QED
  BY <1>2, <1>3 DEF Perms, R, W, X, U

\* The first table: an empty page is a tree.
LEMMA RootTree ==
  ASSUME layout \in Layouts, NEW m, NEW root \in Spare, Load(m, Variable) = Ptr(root),
         \A e \in WordsOf(root) : Load(m, e) = Null
  PROVE  TreeInv(m, root) /\ Taken(m, root) = {root}
<1>1. One(m, root) = {}
  BY Kinds DEF One, Sub
<1>2. Two(m, root) = {} /\ Inner(m, root) = {root} /\ Taken(m, root) = {root}
  BY <1>1 DEF Two, Inner, Taken, Sub
<1> QED
  BY <1>2 DEF TreeInv

LEMMA KvmininitStep ==
  ASSUME PagesInv, VariableSpared, ControlInv', Kvmininit
  PROVE  PagesInv'
<1>1. /\ UNCHANGED <<layout, callers, satp, user, tlb>>
      /\ bpc = "kvmininit" /\ bpc' \in {"kvmininit", "mappages"} /\ layout \in Layouts
  BY DEF Kvmininit, KernelRuns, Elsewhere, panic, supervisor, PagesInv, ControlInv
<1>2. UserInv' /\ DOMAIN user' = UserPages
  BY <1>1, PoolSame DEF PagesInv, UserInv, UserPages, Behind
<1>3. EarlyInv
  BY <1>1 DEF PagesInv, Early
<1>4. Typed(mem) /\ free_mem_list \in Word
  BY DEF PagesInv
<1>5. CASE free_mem_list = Null
  <2>1. UNCHANGED <<mem, free_mem_list, a, region>> /\ bpc' = "kvmininit"
    BY <1>1, <1>5 DEF Kvmininit, panic, heap
  <2>2. BootList(mem, free_mem_list)' /\ Free(free_mem_list)' = Pool'
    BY <1>1, <1>3, <2>1, HeapSame, PoolSame DEF EarlyInv
  <2>3. EarlyInv'
    BY <1>1, <1>3, <2>1, <2>2 DEF EarlyInv
  <2> QED
    BY <1>1, <1>2, <1>4, <2>1, <2>3, BootStep DEF Mapping, Paged
<1>6. CASE free_mem_list # Null
  <2> DEFINE l == free_mem_list
             root == l.at
             n == Load(mem, root)
             m == Zeroed(mem, root)
  <2>1. /\ mem' = Store(Zeroed(m, root), Variable, l)
        /\ free_mem_list' = n /\ region' = 1 /\ a' = First(1) /\ bpc' = "mappages"
    BY <1>1, <1>6 DEF Kvmininit, Kalloc, Variable
  <2>2. BootList(mem, l) /\ Free(l) = Pool /\ l # Ptr(Variable)
    BY <1>1, <1>3 DEF EarlyInv, VariableSpared
  <2>3. /\ root \in Spare /\ l = Ptr(root) /\ root \in Free(l) /\ BootList(m, n)
        /\ Free(n) = Free(l) \ {root}
    BY <1>1, <1>6, <2>2, PopList
  <2> HIDE DEF m, n, root
  <2>4. \A x : Load(m, x) = IF x \in WordsOf(root) THEN Null ELSE Load(mem, x)
    BY LoadZeroed DEF m
  <2>5. \A x : Load(mem', x) = IF x = Variable THEN l ELSE Load(m, x)
    BY <2>1, <2>4, LoadStored, LoadZeroed
  <2>6. TreeInv(mem', root) /\ Taken(mem', root) = {root}
    <3>1. Variable \notin WordsOf(root)
      BY <1>1, <2>3, PoolWords
    <3>2. Load(mem', Variable) = Ptr(root) /\ \A e \in WordsOf(root) : Load(mem', e) = Null
      BY <2>3, <2>4, <2>5, <3>1
    <3> QED
      BY <1>1, <2>3, <3>2, RootTree
  <2>7. BootList(mem', n)
    BY <2>3, <2>5, ListKept
  <2>8. Users = {}
    BY <1>1 DEF PagesInv, UserInv, Users, UserPages, Behind
  <2>9. BootHeap(mem', n, root, {})
    BY <2>2, <2>3, <2>6, <2>7 DEF BootHeap, Free
  <2>10. Variable' = Variable /\ Users' = {} /\ Load(mem', Variable).at = root
    BY <1>1, <2>3, <2>5, <2>8, PoolSame, Kinds DEF Users
  <2>11. kernel_pagetable' = root
    BY <2>10 DEF kernel_pagetable, Variable
  <2>12. BootInv'
    <3>1. BootHeap(mem, free_mem_list, kernel_pagetable, Users)'
      BY <1>1, <2>1, <2>9, <2>10, <2>11, HeapSame
    <3>2. First(1) \in Nat
      BY <1>1, Regions
    <3>3. satp' = 0
      BY <1>1, <1>3 DEF EarlyInv
    <3> QED
      BY <2>1, <2>10, <3>1, <3>2, <3>3 DEF BootInv, Mapping
  <2>13. Typed(mem') /\ n \in Word
    <3>1. Variable \in Places
      BY <1>1, PoolWords DEF Places
    <3>2. Typed(m)
      BY <1>4, ZeroedTypes DEF Typed, m
    <3>3. Typed(Zeroed(m, root))
      BY <3>2, ZeroedTypes DEF Typed
    <3>4. Typed(mem')
      BY <1>4, <2>1, <3>1, <3>3, StoredTypes DEF Typed
    <3>5. n \in Word
      BY <1>4, WordsTyped DEF Typed, Load, n
    <3> QED
      BY <3>4, <3>5
  <2> QED
    BY <1>1, <1>2, <2>1, <2>12, <2>13, BootStep DEF Early
<1> QED
  BY <1>5, <1>6


\* A leaf in a table of the last level.
LEMMA LeafHeap ==
  ASSUME layout \in Layouts, NEW m, NEW l, NEW root, NEW used, BootHeap(m, l, root, used), Typed(m),
         NEW t \in Two(m, root), NEW e \in WordsOf(t), NEW word, Leaf(word)
  PROVE  /\ BootHeap(Store(m, e, word), l, root, used) /\ Typed(Store(m, e, word))
         /\ Load(Store(m, e, word), Variable) = Load(m, Variable)
         /\ \A p \in Pool \ Taken(m, root) : Load(Store(m, e, word), p) = Load(m, p)
<1> DEFINE m2 == Store(m, e, word)
<1>1. /\ TreeInv(m, root) /\ BootList(m, l)
      /\ Taken(m, root) \cup used = Pool \ Free(l) /\ Taken(m, root) \cap used = {}
  BY DEF BootHeap
<1>2. TreeInv(m2, root) /\ Taken(m2, root) = Taken(m, root)
  BY <1>1, LeafTree
<1>3. t \in Spare /\ t \in Pool /\ t \in Taken(m, root)
  BY <1>1, TreeShape DEF Taken
<1>4. \A x : Load(m2, x) = IF x = e THEN word ELSE Load(m, x)
  BY LoadStored
<1> HIDE DEF m2
<1>5. \A p \in Pool \ Taken(m, root) : Load(m2, p) = Load(m, p)
  BY <1>3, <1>4, PoolWords
<1>6. Load(m2, Variable) = Load(m, Variable)
  BY <1>3, <1>4, PoolWords
<1>7. BootList(m2, l)
  <2>1. Free(l) \subseteq Pool \ Taken(m, root)
    BY <1>1 DEF Free
  <2> QED
    BY <1>1, <1>5, <2>1, ListKept
<1>8. BootHeap(m2, l, root, used)
  BY <1>1, <1>2, <1>7 DEF BootHeap
<1>9. Typed(m2)
  <2>1. e \in Places
    BY <1>3, PoolWords DEF Places
  <2>2. word.perm \in SUBSET {R, W, X, U} /\ word.at \in Int /\ word = PA2PTE(word.at, word.perm)
    BY DEF Leaf, Perms
  <2>3. word \in Word
    BY <2>2, WordsTyped
  <2> QED
    BY <2>1, <2>3, StoredTypes DEF Typed, m2
<1> QED
  BY <1>5, <1>6, <1>8, <1>9 DEF m2

LEMMA ListTyped ==
  ASSUME layout \in Layouts, NEW m, NEW l, BootList(m, l)
  PROVE  l \in Word
  BY PoolWords, WordsTyped DEF BootList

LEMMA MappagesStep ==
  ASSUME PagesInv, VariableSpared, ControlInv', Mappages
  PROVE  PagesInv'
<1>1. /\ UNCHANGED <<layout, callers, satp, user, tlb>>
      /\ bpc = "mappages" /\ bpc' \in {"mappages", "w_satp"} /\ layout \in Layouts
  BY DEF Mappages, NextRegion, KernelRuns, Elsewhere, panic, supervisor, PagesInv, ControlInv
<1>2. UserInv' /\ DOMAIN user' = UserPages
  BY <1>1, PoolSame DEF PagesInv, UserInv, UserPages, Behind
<1>3. BootInv /\ Typed(mem) /\ free_mem_list \in Word
  BY <1>1 DEF PagesInv, Mapping
<1> DEFINE root == kernel_pagetable
<1>4. BootHeap(mem, free_mem_list, root, Users) /\ region # 0 /\ a \in Nat /\ satp = 0
  BY <1>1, <1>3 DEF BootInv, Mapping
<1>5. Users = {} /\ Users' = {}
  BY <1>1 DEF PagesInv, UserInv, Users, UserPages, Behind
<1>6. region \in 1 .. 5
  BY <1>4 DEF PagesInv, ControlInv
<1>7. root = Load(mem, Variable).at
  BY DEF kernel_pagetable, Variable
<1> HIDE DEF root
<1>8. ASSUME BootHeap(mem', free_mem_list', root, {}), Load(mem', Variable) = Load(mem, Variable),
             bpc' = "mappages" => region' # 0 /\ a' \in Nat
      PROVE  BootInv'
  <2>1. Variable' = Variable /\ kernel_pagetable' = Load(mem', Variable').at
    BY <1>1, PoolSame DEF kernel_pagetable, Variable
  <2>2. kernel_pagetable' = root
    BY <1>7, <1>8, <2>1
  <2>3. BootHeap(mem, free_mem_list, kernel_pagetable, Users)'
    BY <1>1, <1>5, <1>8, <2>2, HeapSame
  <2> QED
    BY <1>1, <1>4, <1>5, <1>8, <2>3 DEF BootInv, Mapping
<1>9. CASE a >= MAXVA \/ Region(region).size = 0
  <2>1. UNCHANGED <<mem, free_mem_list, a, region>>
    BY <1>9 DEF Mappages, heap
  <2>2. BootInv'
    BY <1>4, <1>5, <1>8, <2>1
  <2> QED
    BY <1>1, <1>2, <1>3, <2>1, <2>2, BootStep DEF Early
<1>10. CASE ~ (a >= MAXVA \/ Region(region).size = 0)
  <2> DEFINE w == Walk([mem |-> mem, list |-> free_mem_list], kernel_pagetable, a)
             pte == w.pt + PX(0, a)
             remap == w.pt # 0 /\ Valid(Load(w.mem, pte))
             leaf == PA2PTE(a, Region(region).perm)
  <2>1. /\ free_mem_list' = w.list
        /\ mem' = IF w.pt = 0 \/ remap THEN w.mem ELSE Store(w.mem, pte, leaf)
        /\ IF remap
             THEN panic /\ UNCHANGED <<a, region>>
             ELSE IF w.pt = 0 \/ a = Last(region)
                    THEN NextRegion
                    ELSE a' = a + PGSIZE /\ UNCHANGED <<bpc, region>>
    BY <1>10 DEF Mappages
  <2> HIDE DEF w
  <2>2. free_mem_list # Ptr(Variable) /\ (free_mem_list # Null => Load(mem, free_mem_list.at) # Ptr(Variable))
    BY <1>1 DEF VariableSpared
  <2>3. w = Walk([mem |-> mem, list |-> free_mem_list], root, a)
    BY DEF w, root
  <2>4. BootHeap(w.mem, w.list, root, {}) /\ Typed(w.mem)
    BY <1>1, <1>3, <1>4, <1>5, <2>2, <2>3, WalkStep
  <2>5. w.pt # 0 => w.pt \in Pool /\ w.pt \in Two(w.mem, root)
    BY <1>1, <1>3, <1>4, <1>5, <2>2, <2>3, WalkStep
  <2>6. Load(mem, Variable) = Ptr(root) /\ Load(w.mem, Variable) = Ptr(root)
    BY <1>4, <2>4 DEF BootHeap, TreeInv
  <2>7. bpc' = "mappages" => region' # 0 /\ a' \in Nat
    <3>1. region < 5 => First(region + 1) \in Nat /\ region + 1 # 0
      BY <1>1, <1>6, Regions
    <3>2. a + PGSIZE \in Nat
      BY <1>4, SizeNat
    <3> QED
      BY <1>4, <2>1, <3>1, <3>2 DEF NextRegion
  <2>8. BootHeap(mem', free_mem_list', root, {}) /\ Load(mem', Variable) = Load(mem, Variable)
        /\ Typed(mem')
    <3>1. CASE w.pt = 0 \/ remap
      BY <2>1, <2>4, <2>6, <3>1
    <3>2. CASE w.pt # 0 /\ ~remap
      <4>1. mem' = Store(w.mem, pte, leaf)
        BY <2>1, <3>2
      <4>2. pte \in WordsOf(w.pt)
        <5>1. w.pt \in Nat
          BY <1>1, <2>5, <3>2, PoolWords
        <5> QED
          BY <1>4, <5>1, Indices, 0 \in 0 .. 2
      <4>3. Leaf(leaf)
        BY <1>1, <1>4, <1>6, Regions, Kinds DEF Leaf
      <4> HIDE DEF pte, leaf, remap
      <4>4. BootHeap(Store(w.mem, pte, leaf), w.list, root, {}) /\ Typed(Store(w.mem, pte, leaf))
            /\ Load(Store(w.mem, pte, leaf), Variable) = Load(w.mem, Variable)
        BY <1>1, <2>4, <2>5, <3>2, <4>2, <4>3, LeafHeap
      <4> QED
        BY <2>1, <2>6, <4>1, <4>4
    <3> QED
      BY <3>1, <3>2
  <2>9. free_mem_list' \in Word
    BY <1>1, <2>8, ListTyped DEF BootHeap
  <2>10. BootInv'
    BY <1>8, <2>7, <2>8
  <2> QED
    BY <1>1, <1>2, <2>8, <2>9, <2>10, BootStep DEF Early
<1> QED
  BY <1>9, <1>10

LEMMA UserinitPageStep ==
  ASSUME PagesInv, VariableSpared, ControlInv', NEW u \in UserPages, UserinitPage(u)
  PROVE  PagesInv'
<1>1. /\ UNCHANGED <<layout, callers, satp, tlb, a, region>>
      /\ bpc = u /\ bpc' \in {u, UserAfter[u]} /\ layout \in Layouts
      /\ bpc \in Paged /\ bpc' \in Paged
      /\ \A v \in UserPages : v # u => (bpc' \in Behind(v) <=> bpc \in Behind(v))
      /\ bpc \notin Behind(u) /\ UserAfter[u] \in Behind(u) \ {u}
  BY DEF UserinitPage, KernelRuns, Elsewhere, panic, supervisor, PagesInv, ControlInv, UserPages,
         UserAfter, Paged, Behind
<1>2. BootInv /\ Typed(mem) /\ free_mem_list \in Word /\ DOMAIN user = UserPages /\ user[u] = 0
  BY <1>1 DEF PagesInv, Paged, UserInv
<1> DEFINE root == kernel_pagetable
           l == free_mem_list
<1>3. BootHeap(mem, l, root, Users) /\ satp = root /\ \A p \in Users : Load(mem, p) = Null
  BY <1>1, <1>2 DEF BootInv, Paged, Mapping
<1>4. root = Load(mem, Variable).at
  BY DEF kernel_pagetable, Variable
<1> HIDE DEF root
<1>5. CASE l = Null
  <2>1. UNCHANGED <<mem, free_mem_list, user, bpc>>
    BY <1>5 DEF UserinitPage, heap, panic
  <2>2. BootInv'
    BY <1>1, <1>2, <2>1, BootSame DEF heap
  <2>3. UserInv'
    BY <1>1, <2>1, PoolSame DEF PagesInv, UserInv, UserPages, Behind
  <2> QED
    BY <1>1, <1>2, <2>1, <2>2, <2>3, HeapSame, BootStep DEF Paged, Early
<1>6. CASE l # Null
  <2> DEFINE h == l.at
  <2>1. /\ mem' = Zeroed(mem, h) /\ free_mem_list' = Load(mem, h)
        /\ user' = [user EXCEPT ![u] = h] /\ bpc' = UserAfter[u]
    BY <1>6 DEF UserinitPage, Kalloc
  <2>2. l # Ptr(Variable)
    BY <1>1 DEF VariableSpared
  <2>3. /\ h \in Spare \ Taken(mem, root) /\ h \notin Users /\ l = Ptr(h)
        /\ BootHeap(Zeroed(mem, h), Load(mem, h), root, Users \cup {h})
        /\ \A x : Load(Zeroed(mem, h), x) = IF x \in WordsOf(h) THEN Null ELSE Load(mem, x)
        /\ Load(Zeroed(mem, h), Variable) = Load(mem, Variable)
        /\ Typed(Zeroed(mem, h))
    BY <1>1, <1>2, <1>3, <1>6, <2>2, PopHeap
  <2> HIDE DEF h
  <2>4. Users' = Users \cup {h} /\ DOMAIN user' = UserPages
    <3>1. h # 0
      BY <1>1, <2>3, PoolWords DEF Spare
    <3> QED
      BY <1>2, <2>1, <3>1 DEF Users
  <2>5. kernel_pagetable' = root
    <3>1. Variable' = Variable /\ kernel_pagetable' = Load(mem', Variable').at
      BY <1>1, PoolSame DEF kernel_pagetable, Variable
    <3> QED
      BY <1>4, <2>1, <2>3, <3>1
  <2>6. BootInv'
    <3>1. BootHeap(mem, free_mem_list, kernel_pagetable, Users)'
      BY <1>1, <2>1, <2>3, <2>4, <2>5, HeapSame
    <3>2. \A p \in Users' : Load(mem', p) = Null
      BY <1>1, <1>3, <2>1, <2>3, <2>4, PoolWords DEF Spare
    <3>3. bpc' # "mappages" /\ satp' = root /\ bpc' \notin Mapping
      BY <1>1, <1>3 DEF Paged, Mapping
    <3> QED
      BY <2>5, <3>1, <3>2, <3>3 DEF BootInv
  <2>7. UserInv'
    <3>1. Spare' = Spare /\ h # 0
      BY <1>1, <2>3, PoolSame, PoolWords DEF Spare
    <3>2. \A v \in UserPages : v # u => user'[v] = user[v]
      BY <1>2, <2>1
    <3>3. user'[u] = h
      BY <1>2, <2>1
    <3>4. bpc' \in Behind(u) /\ \A v \in UserPages : Behind(v)' = Behind(v)
      BY <1>1, <2>1 DEF Behind
    <3>5. ASSUME NEW v \in UserPages
          PROVE  /\ user'[v] \in Spare \cup {0}
                 /\ bpc' \in Behind(v) => user'[v] # 0
                 /\ bpc' \notin Behind(v) \cup {"lost"} => user'[v] = 0
      <4>1. CASE v = u
        BY <2>3, <3>1, <3>3, <3>4, <4>1
      <4>2. CASE v # u
        BY <1>1, <3>2, <4>2 DEF PagesInv, UserInv, Paged
      <4> QED
        BY <4>1, <4>2
    <3> QED
      BY <3>1, <3>4, <3>5 DEF UserInv
  <2>8. free_mem_list' \in Word
    BY <1>1, <2>1, <2>3, ListTyped DEF BootHeap
  <2> QED
    BY <1>1, <2>1, <2>3, <2>4, <2>6, <2>7, <2>8, BootStep DEF Paged, Early
<1> QED
  BY <1>5, <1>6


\* walk(pagetable, va, 0) finds an entry of a last table or nothing.
LEMMA FindLeaf ==
  ASSUME layout \in Layouts, NEW m, NEW root, TreeInv(m, root), NEW va \in Nat,
         WalkNoAlloc(m, root, va) # 0
  PROVE  \E one \in One(m, root) : \E t \in Two(m, root) :
           /\ Load(m, root + PX(2, va)) = PA2PTE(one, {})
           /\ Load(m, one + PX(1, va)) = PA2PTE(t, {})
           /\ WalkNoAlloc(m, root, va) = t + PX(0, va)
           /\ t + PX(0, va) \in WordsOf(t)
<1>1. Load(m, root + PX(2, va)) # Null
  BY Kinds DEF WalkNoAlloc
<1>2. PICK one \in One(m, root) :
        /\ Load(m, root + PX(2, va)) = PA2PTE(one, {})
        /\ \/ Load(m, one + PX(1, va)) = Null
           \/ \E t \in Two(m, root) : Load(m, one + PX(1, va)) = PA2PTE(t, {})
  BY <1>1, PathTree
<1>3. Load(m, root + PX(2, va)).at = one
  BY <1>2, Kinds
<1>4. Load(m, one + PX(1, va)) # Null
  BY <1>3, Kinds DEF WalkNoAlloc
<1>5. PICK t \in Two(m, root) : Load(m, one + PX(1, va)) = PA2PTE(t, {})
  BY <1>2, <1>4
<1>6. Load(m, one + PX(1, va)).at = t
  BY <1>5, Kinds
<1>7. WalkNoAlloc(m, root, va) = t + PX(0, va)
  BY <1>3, <1>6 DEF WalkNoAlloc
<1>8. t \in Nat
  BY TreeShape, PoolWords
<1>9. t + PX(0, va) \in WordsOf(t)
  BY <1>8, Indices
<1> QED
  BY <1>2, <1>5, <1>7, <1>9

LEMMA UserinitGrantStep ==
  ASSUME PagesInv, ControlInv',
         NEW label, NEW u, NEW perm, NEW to, UserinitGrant(label, u, perm, to),
         \/ label = "code_pte" /\ u = "code" /\ perm = {X, U} /\ to = "stack"
         \/ label = "stack_pte" /\ u = "stack" /\ perm = {U} /\ to = "scheduler"
  PROVE  PagesInv' /\ BootInv' /\ Idle'
<1> DEFINE root == kernel_pagetable
           va == user[u]
           pte == WalkNoAlloc(mem, kernel_pagetable, user[u])
           word == PA2PTE(Load(mem, pte).at, Load(mem, pte).perm \cup perm)
<1>1. /\ UNCHANGED <<layout, callers, satp, tlb, a, region, user, free_mem_list>>
      /\ bpc = label /\ bpc' \in {label, to} /\ layout \in Layouts
      /\ bpc \in Paged /\ bpc' \in Paged \cup {"scheduler"} /\ u \in UserPages
      /\ \A v \in UserPages : bpc' \in Behind(v) <=> bpc \in Behind(v)
      /\ bpc \in Behind(u) /\ bpc # "lost"
      /\ IF pte = 0 THEN bpc' = bpc /\ mem' = mem ELSE bpc' = to /\ mem' = Store(mem, pte, word)
  BY DEF UserinitGrant, KernelRuns, Elsewhere, panic, supervisor, locals, PagesInv, ControlInv,
         UserPages, Paged, Behind
<1>2. BootInv /\ Typed(mem) /\ free_mem_list \in Word /\ DOMAIN user = UserPages
      /\ va \in Spare /\ Idle
  BY <1>1 DEF PagesInv, Paged, UserInv, Running
<1>3. BootHeap(mem, free_mem_list, root, Users) /\ satp = root /\ TreeInv(mem, root)
      /\ \A p \in Users : Load(mem, p) = Null
  BY <1>1, <1>2 DEF BootInv, Paged, Mapping, BootHeap
<1>4. root = Load(mem, Variable).at
  BY DEF kernel_pagetable, Variable
<1>5. pte = WalkNoAlloc(mem, root, va)
  OBVIOUS
<1>6. perm \in Perms
  BY DEF Perms, R, W, X, U
<1> HIDE DEF root, va, pte
<1>7. /\ BootHeap(mem', free_mem_list, root, Users) /\ Typed(mem')
      /\ Load(mem', Variable) = Load(mem, Variable)
      /\ \A p \in Users : Load(mem', p) = Null
  <2>1. CASE pte = 0
    BY <1>1, <1>2, <1>3, <2>1
  <2>2. CASE pte # 0
    <3>1. va \in Nat
      BY <1>1, <1>2, PoolWords DEF Spare
    <3>2. PICK t \in Two(mem, root) : pte \in WordsOf(t)
      BY <1>1, <1>3, <1>5, <2>2, <3>1, FindLeaf
    <3>3. Load(mem, pte) = Null \/ Leaf(Load(mem, pte))
      BY <1>3, <3>2 DEF TreeInv
    <3>4. Load(mem, pte).at \in Nat /\ Load(mem, pte).perm \in SUBSET {R, W, X, U}
      BY <3>3, Kinds DEF Leaf, Perms
    <3>5. Leaf(word)
      <4>1. word.at = Load(mem, pte).at /\ word.perm = Load(mem, pte).perm \cup perm
        BY Kinds
      <4>2. perm # {} /\ perm \in SUBSET {R, W, X, U}
        BY <1>6 DEF Perms
      <4>3. (Load(mem, pte).perm \cup perm) \in Perms
        BY <3>4, <4>2 DEF Perms
      <4> QED
        BY <3>4, <4>1, <4>3 DEF Leaf
    <3> HIDE DEF word
    <3>6. /\ BootHeap(Store(mem, pte, word), free_mem_list, root, Users)
          /\ Typed(Store(mem, pte, word))
          /\ Load(Store(mem, pte, word), Variable) = Load(mem, Variable)
          /\ \A p \in Pool \ Taken(mem, root) : Load(Store(mem, pte, word), p) = Load(mem, p)
      BY <1>1, <1>2, <1>3, <3>2, <3>5, LeafHeap
    <3>7. Users \subseteq Pool \ Taken(mem, root)
      BY <1>3 DEF BootHeap
    <3> QED
      BY <1>1, <1>3, <2>2, <3>6, <3>7
  <2> QED
    BY <2>1, <2>2
<1>8. kernel_pagetable' = root
  <2>1. Variable' = Variable /\ kernel_pagetable' = Load(mem', Variable').at
    BY <1>1, PoolSame DEF kernel_pagetable, Variable
  <2> QED
    BY <1>4, <1>7, <2>1
<1>9. Users' = Users
  BY <1>1 DEF Users
<1>10. BootInv'
  <2>1. BootHeap(mem, free_mem_list, kernel_pagetable, Users)'
    BY <1>1, <1>7, <1>8, <1>9, HeapSame
  <2> QED
    BY <1>1, <1>3, <1>7, <1>8, <1>9, <2>1 DEF BootInv, Paged, Mapping
<1>11. UserInv'
  <2>1. Spare' = Spare /\ \A v \in UserPages : Behind(v)' = Behind(v)
    BY <1>1, PoolSame DEF Behind
  <2> QED
    BY <1>1, <2>1 DEF PagesInv, UserInv, Paged
<1>12. Typed(mem)'
  BY <1>1, <1>7, HeapSame
<1>13. Idle'
  BY <1>1, <1>2 DEF Idle, callers
<1>14. bpc' = "scheduler" => CallerInv'
  <2>1. layout' \in Layouts
    BY <1>1
  <2>2. bpc' \notin Mapping'
    BY <1>1 DEF Mapping, Paged
  <2>3. (layout \in Layouts /\ BootInv /\ bpc \notin Mapping /\ UserInv /\ Idle)' => CallerInv'
    BY BootToCaller, PTL
  <2> QED
    BY <1>10, <1>11, <1>13, <2>1, <2>2, <2>3
<1>15. bpc' \in Paged \cup {"scheduler"} /\ bpc' \notin Early /\ bpc' # "lost"
  BY <1>1 DEF Paged, Early
<1> QED
  BY <1>1, <1>2, <1>10, <1>11, <1>12, <1>13, <1>14, <1>15 DEF PagesInv, Running


-----------------------------------------------------------------------------
(* The callers                                                             *)

LEMMA LooseTyped ==
  ASSUME layout \in Layouts, NEW word, Loose(word)
  PROVE  word \in Word
<1>1. \A p \in Pool : p \in Int
  BY PoolWords
<1> QED
  BY <1>1, WordsTyped DEF Loose, Others, Spare

\* A caller clears or stores in a page that is none of the tables.
LEMMA PageWritten ==
  ASSUME layout \in Layouts, CallerInv, NEW p \in Others, NEW m,
         \A x : x \notin WordsOf(p) => Load(m, x) = Load(mem, x), Loose(Load(m, p))
  PROVE  /\ TreeInv(m, satp) /\ Taken(m, satp) = Taken(mem, satp)
         /\ \A q \in Others : Loose(Load(m, q))
<1>1. p \in Spare /\ p \in Pool /\ p \notin Taken(mem, satp) /\ TreeInv(mem, satp)
  BY DEF Others, Spare, CallerInv
<1>2. Load(m, Variable) = Load(mem, Variable)
  BY <1>1, PoolWords
<1>3. \A t \in Taken(mem, satp) : \A e \in WordsOf(t) : Load(m, e) = Load(mem, e)
  <2>1. Taken(mem, satp) \subseteq Pool
    BY <1>1, TreeShape
  <2> QED
    BY <1>1, <2>1, PoolWords
<1>4. TreeInv(m, satp) /\ Taken(m, satp) = Taken(mem, satp)
  BY <1>1, <1>2, <1>3, TreeKept
<1>5. ASSUME NEW q \in Others PROVE Loose(Load(m, q))
  <2>1. CASE q = p
    BY <2>1
  <2>2. CASE q # p
    BY <1>1, <2>2, PoolWords DEF CallerInv, Others, Spare
  <2> QED
    BY <2>1, <2>2
<1> QED
  BY <1>4, <1>5

\* Any step of a caller, seen from the heap.
LEMMA CallerKept ==
  ASSUME layout \in Layouts, CallerInv, UNCHANGED <<layout, satp, user>>,
         TreeInv(mem', satp), Taken(mem', satp) = Taken(mem, satp),
         \A q \in Others : Loose(Load(mem', q)), Loose(free_mem_list'),
         \A c \in Callers :
           /\ call'[c] \in {"none", "kalloc_next", "kalloc_store", "kalloc_zero", "kfree_link",
                            "kfree_store"}
           /\ Loose(r'[c]) /\ Loose(next'[c]) /\ held'[c] \subseteq Others
           /\ call'[c] \notin {"none", "kalloc_next"} => \E p \in Others : r'[c] = Ptr(p)
  PROVE  CallerInv'
<1>1. TreeInv(mem, satp)' /\ Taken(mem, satp)' = Taken(mem, satp)
  BY HeapSame
<1>2. Others' = Others /\ \A word : Loose(word)' <=> Loose(word)
  BY <1>1, LooseSame
<1>3. Users' = Users
  BY DEF Users
<1>4. \A c \in Callers : Calls(c)'
  BY <1>2 DEF Calls
<1>5. Loose(free_mem_list)' /\ \A q \in Others' : Loose(Load(mem, q))'
  BY <1>2
<1> QED
  BY <1>1, <1>2, <1>3, <1>4, <1>5 DEF CallerInv


LEMMA CallerStepKept ==
  ASSUME ControlInv, CallerInv, Typed(mem), free_mem_list \in Word, VariableSpared,
         UNCHANGED <<layout, satp, user>>, NEW c \in Callers, CallerStep(c)
  PROVE  CallerInv' /\ Typed(mem') /\ free_mem_list' \in Word
<1>1. layout \in Layouts /\ DOMAIN call = Callers /\ DOMAIN r = Callers /\ DOMAIN next = Callers
      /\ DOMAIN held = Callers
  BY DEF ControlInv
<1>2. TreeInv(mem, satp) /\ Loose(free_mem_list) /\ Loose(Null) /\ \A q \in Others : Loose(Load(mem, q))
  BY DEF CallerInv, Loose
<1>3. \A d \in Callers :
        /\ call[d] \in {"none", "kalloc_next", "kalloc_store", "kalloc_zero", "kfree_link",
                        "kfree_store"}
        /\ Loose(r[d]) /\ Loose(next[d]) /\ held[d] \subseteq Others
        /\ call[d] \notin {"none", "kalloc_next"} => \E p \in Others : r[d] = Ptr(p)
  BY DEF CallerInv, Calls
<1>4. Others \subseteq Places /\ \A p \in Others : p \in WordsOf(p)
  BY <1>1, PoolWords DEF Others, Spare, Places
<1>5. CASE KallocHead(c)
  <2>1. /\ UNCHANGED <<mem, free_mem_list>> /\ next' = next /\ held' = held
        /\ r' = [r EXCEPT ![c] = free_mem_list]
        /\ call' = call \/ call' = [call EXCEPT ![c] = "kalloc_next"]
        /\ call[c] = "none"
    BY <1>5 DEF KallocHead, Goto, At, heap
  <2>2. \A d \in Callers :
           /\ call'[d] \in {"none", "kalloc_next", "kalloc_store", "kalloc_zero", "kfree_link",
                            "kfree_store"}
           /\ Loose(r'[d]) /\ Loose(next'[d]) /\ held'[d] \subseteq Others
           /\ call'[d] \notin {"none", "kalloc_next"} => \E p \in Others : r'[d] = Ptr(p)
    BY <1>1, <1>2, <1>3, <2>1
  <2>3. CallerInv'
    BY <1>1, <1>2, <2>1, <2>2, CallerKept
  <2> QED
    BY <2>1, <2>3
<1>6. CASE KallocNext(c)
  <2>1. /\ UNCHANGED <<mem, free_mem_list>> /\ r' = r /\ held' = held
        /\ next' = [next EXCEPT ![c] = Load(mem, r[c].at)]
        /\ call' = [call EXCEPT ![c] = "kalloc_store"]
        /\ r[c].kind = "ptr"
    BY <1>6 DEF KallocNext, Goto, heap
  <2>2. PICK p \in Others : r[c] = Ptr(p)
    <3>1. r[c] # Null /\ r[c] # KernelSatp
      BY <2>1 DEF Null, KernelSatp
    <3>2. r[c] # Ptr(Variable)
      BY DEF VariableSpared
    <3> QED
      BY <1>3, <3>1, <3>2 DEF Loose
  <2>3. Loose(Load(mem, r[c].at))
    BY <1>2, <2>2, Kinds
  <2>4. \A d \in Callers :
           /\ call'[d] \in {"none", "kalloc_next", "kalloc_store", "kalloc_zero", "kfree_link",
                            "kfree_store"}
           /\ Loose(r'[d]) /\ Loose(next'[d]) /\ held'[d] \subseteq Others
           /\ call'[d] \notin {"none", "kalloc_next"} => \E q \in Others : r'[d] = Ptr(q)
    BY <1>1, <1>3, <2>1, <2>2, <2>3
  <2>5. CallerInv'
    BY <1>1, <1>2, <2>1, <2>4, CallerKept
  <2> QED
    BY <2>1, <2>5
<1>7. CASE KallocStore(c)
  <2>1. /\ UNCHANGED mem /\ r' = r /\ held' = held /\ free_mem_list' = next[c]
        /\ next' = [next EXCEPT ![c] = Null]
        /\ call' = [call EXCEPT ![c] = "kalloc_zero"] /\ call[c] = "kalloc_store"
    BY <1>7 DEF KallocStore, Goto, At
  <2>2. \A d \in Callers :
           /\ call'[d] \in {"none", "kalloc_next", "kalloc_store", "kalloc_zero", "kfree_link",
                            "kfree_store"}
           /\ Loose(r'[d]) /\ Loose(next'[d]) /\ held'[d] \subseteq Others
           /\ call'[d] \notin {"none", "kalloc_next"} => \E q \in Others : r'[d] = Ptr(q)
    BY <1>1, <1>2, <1>3, <2>1
  <2>3. Loose(free_mem_list')
    BY <1>3, <2>1
  <2>4. CallerInv'
    BY <1>1, <1>2, <2>1, <2>2, <2>3, CallerKept
  <2> QED
    BY <1>1, <2>1, <2>3, <2>4, LooseTyped
<1>8. CASE KallocZero(c)
  <2>1. /\ mem' = Zeroed(mem, r[c].at) /\ free_mem_list' = free_mem_list /\ next' = next
        /\ held' = [held EXCEPT ![c] = @ \cup {r[c].at}]
        /\ r' = [r EXCEPT ![c] = Null]
        /\ call' = [call EXCEPT ![c] = "none"] /\ call[c] = "kalloc_zero"
    BY <1>8 DEF KallocZero, Goto, At
  <2>2. PICK p \in Others : r[c] = Ptr(p)
    BY <1>3, <2>1
  <2>3. r[c].at = p
    BY <2>2, Kinds
  <2>4. \A x : Load(mem', x) = IF x \in WordsOf(p) THEN Null ELSE Load(mem, x)
    BY <2>1, <2>3, LoadZeroed
  <2>5. /\ TreeInv(mem', satp) /\ Taken(mem', satp) = Taken(mem, satp)
        /\ \A q \in Others : Loose(Load(mem', q))
    BY <1>1, <1>2, <1>4, <2>4, PageWritten
  <2>6. \A d \in Callers :
           /\ call'[d] \in {"none", "kalloc_next", "kalloc_store", "kalloc_zero", "kfree_link",
                            "kfree_store"}
           /\ Loose(r'[d]) /\ Loose(next'[d]) /\ held'[d] \subseteq Others
           /\ call'[d] \notin {"none", "kalloc_next"} => \E q \in Others : r'[d] = Ptr(q)
    BY <1>1, <1>2, <1>3, <2>1, <2>3
  <2>7. CallerInv'
    BY <1>1, <1>2, <2>1, <2>5, <2>6, CallerKept
  <2>8. Typed(mem')
    BY <2>1, ZeroedTypes DEF Typed
  <2> QED
    BY <2>1, <2>7, <2>8
<1>9. CASE KfreeLink(c)
  <2>1. /\ mem' = Store(mem, r[c].at, next[c]) /\ free_mem_list' = free_mem_list
        /\ r' = r /\ held' = held /\ next' = [next EXCEPT ![c] = Null]
        /\ call' = [call EXCEPT ![c] = "kfree_store"] /\ call[c] = "kfree_link"
    BY <1>9 DEF KfreeLink, Goto, At
  <2>2. PICK p \in Others : r[c] = Ptr(p)
    BY <1>3, <2>1
  <2>3. r[c].at = p /\ Loose(next[c])
    BY <1>3, <2>2, Kinds
  <2>4. \A x : Load(mem', x) = IF x = p THEN next[c] ELSE Load(mem, x)
    BY <2>1, <2>3, LoadStored
  <2>5. /\ TreeInv(mem', satp) /\ Taken(mem', satp) = Taken(mem, satp)
        /\ \A q \in Others : Loose(Load(mem', q))
    <3>1. Loose(Load(mem', p)) /\ \A x : x \notin WordsOf(p) => Load(mem', x) = Load(mem, x)
      BY <1>4, <2>3, <2>4
    <3> QED
      BY <1>1, <3>1, PageWritten
  <2>6. \A d \in Callers :
           /\ call'[d] \in {"none", "kalloc_next", "kalloc_store", "kalloc_zero", "kfree_link",
                            "kfree_store"}
           /\ Loose(r'[d]) /\ Loose(next'[d]) /\ held'[d] \subseteq Others
           /\ call'[d] \notin {"none", "kalloc_next"} => \E q \in Others : r'[d] = Ptr(q)
    BY <1>1, <1>2, <1>3, <2>1, <2>2
  <2>7. CallerInv'
    BY <1>1, <1>2, <2>1, <2>5, <2>6, CallerKept
  <2>8. Typed(mem')
    BY <1>1, <1>4, <2>1, <2>3, LooseTyped, StoredTypes DEF Typed
  <2> QED
    BY <2>1, <2>7, <2>8
<1>10. CASE KfreeStore(c)
  <2>1. /\ UNCHANGED mem /\ next' = next /\ held' = held /\ free_mem_list' = r[c]
        /\ r' = [r EXCEPT ![c] = Null]
        /\ call' = [call EXCEPT ![c] = "none"]
    BY <1>10 DEF KfreeStore, Goto, At
  <2>2. \A d \in Callers :
           /\ call'[d] \in {"none", "kalloc_next", "kalloc_store", "kalloc_zero", "kfree_link",
                            "kfree_store"}
           /\ Loose(r'[d]) /\ Loose(next'[d]) /\ held'[d] \subseteq Others
           /\ call'[d] \notin {"none", "kalloc_next"} => \E q \in Others : r'[d] = Ptr(q)
    BY <1>1, <1>2, <1>3, <2>1
  <2>3. Loose(free_mem_list')
    BY <1>3, <2>1
  <2>4. CallerInv'
    BY <1>1, <1>2, <2>1, <2>2, <2>3, CallerKept
  <2> QED
    BY <1>1, <2>1, <2>3, <2>4, LooseTyped
<1>11. ASSUME NEW page \in held[c], KfreeLoad(c, page)
       PROVE  CallerInv' /\ Typed(mem') /\ free_mem_list' \in Word
  <2>1. /\ UNCHANGED <<mem, free_mem_list>>
        /\ held' = [held EXCEPT ![c] = @ \ {page}]
        /\ r' = [r EXCEPT ![c] = Ptr(page)]
        /\ next' = [next EXCEPT ![c] = free_mem_list]
        /\ call' = [call EXCEPT ![c] = "kfree_link"]
    BY <1>11 DEF KfreeLoad, Goto, heap
  <2>2. page \in Others /\ Loose(Ptr(page))
    BY <1>3 DEF Loose
  <2>3. \A d \in Callers :
           /\ call'[d] \in {"none", "kalloc_next", "kalloc_store", "kalloc_zero", "kfree_link",
                            "kfree_store"}
           /\ Loose(r'[d]) /\ Loose(next'[d]) /\ held'[d] \subseteq Others
           /\ call'[d] \notin {"none", "kalloc_next"} => \E q \in Others : r'[d] = Ptr(q)
    BY <1>1, <1>2, <1>3, <2>1, <2>2
  <2>4. CallerInv'
    BY <1>1, <1>2, <2>1, <2>3, CallerKept
  <2> QED
    BY <2>1, <2>4
<1>12. ASSUME NEW page \in held[c], UseAsTrapframe(c, page)
       PROVE  CallerInv' /\ Typed(mem') /\ free_mem_list' \in Word
  <2>1. /\ mem' = Store(mem, page, KernelSatp) /\ free_mem_list' = free_mem_list
        /\ UNCHANGED <<call, r, next, held>>
    BY <1>12 DEF UseAsTrapframe, callers
  <2>2. page \in Others /\ Loose(KernelSatp)
    BY <1>3 DEF Loose
  <2>3. \A x : Load(mem', x) = IF x = page THEN KernelSatp ELSE Load(mem, x)
    BY <2>1, LoadStored
  <2>4. /\ TreeInv(mem', satp) /\ Taken(mem', satp) = Taken(mem, satp)
        /\ \A q \in Others : Loose(Load(mem', q))
    <3>1. Loose(Load(mem', page)) /\ \A x : x \notin WordsOf(page) => Load(mem', x) = Load(mem, x)
      BY <1>4, <2>2, <2>3
    <3> QED
      BY <1>1, <2>2, <3>1, PageWritten
  <2>5. CallerInv'
    BY <1>1, <1>2, <1>3, <2>1, <2>4, CallerKept
  <2>6. Typed(mem')
    BY <1>1, <1>4, <2>1, <2>2, LooseTyped, StoredTypes DEF Typed
  <2> QED
    BY <2>1, <2>5, <2>6
<1> QED
  BY <1>5, <1>6, <1>7, <1>8, <1>9, <1>10, <1>11, <1>12 DEF CallerStep


LEMMA CallersStep ==
  ASSUME PagesInv, VariableSpared, ControlInv', CallerRuns
  PROVE  PagesInv'
<1>1. PICK c \in active : CallerStep(c)
  BY DEF CallerRuns
<1>2. UNCHANGED <<layout, satp, user>> /\ bpc = "scheduler" /\ bpc' = bpc
  BY DEF CallerRuns, supervisor, locals
<1>3. c \in Callers
  BY <1>1, BootAssumption DEF BootAssumption, PagesInv, ControlInv
<1>4. CallerInv' /\ Typed(mem') /\ free_mem_list' \in Word
  BY <1>1, <1>2, <1>3, CallerStepKept DEF PagesInv, Running
<1>5. Typed(mem)'
  BY <1>2, <1>4, HeapSame
<1>6. UserInv'
  BY <1>2, PoolSame DEF PagesInv, UserInv, UserPages, Behind
<1> QED
  BY <1>2, <1>4, <1>5, <1>6 DEF PagesInv, Running, Early, Mapping, Paged

\* Nothing of this is touched.
LEMMA PagesSame ==
  ASSUME PagesInv, ControlInv', UNCHANGED <<layout, heap, callers, satp, user, bpc, region, a>>,
         tlb' = tlb \/ bpc \notin Early, bpc = "lost" => priv' = "wild"
  PROVE  PagesInv'
<1>1. mem' = mem /\ user' = user /\ layout' = layout /\ free_mem_list' = free_mem_list
      /\ call' = call /\ r' = r /\ next' = next /\ held' = held
  BY DEF heap, callers
<1>2. Typed(mem)' /\ DOMAIN user' = UserPages /\ free_mem_list' \in Word
  BY <1>1, HeapSame DEF PagesInv
<1>3. UserInv'
  BY <1>1, PoolSame DEF PagesInv, UserInv, UserPages, Behind
<1>4. bpc \in Early => EarlyInv'
  <2>1. Low' = Low /\ Pool' = Pool
    BY PoolSame
  <2>2. BootList(mem, free_mem_list) => BootList(mem, free_mem_list)'
    BY <1>1, HeapSame
  <2>3. Free(free_mem_list)' = Free(free_mem_list)
    BY <1>1, HeapSame
  <2> QED
    BY <1>1, <2>1, <2>2, <2>3 DEF PagesInv, EarlyInv
<1>5. bpc \in Mapping \cup Paged => BootInv'
  <2>1. Users' = Users /\ kernel_pagetable' = kernel_pagetable
    BY <1>1 DEF Users, kernel_pagetable
  <2>2. BootInv => BootHeap(mem, free_mem_list, kernel_pagetable, Users)'
    BY <1>1, <2>1, HeapSame DEF BootInv
  <2> QED
    BY <1>1, <2>1, <2>2 DEF PagesInv, BootInv
<1>6. Running' <=> Running
  BY DEF Running
<1>7. Running => CallerInv'
  BY CallerSame DEF PagesInv
<1>8. ~Running => Idle'
  BY <1>1 DEF PagesInv, Idle
<1> QED
  BY <1>2, <1>3, <1>4, <1>5, <1>6, <1>7, <1>8 DEF PagesInv

LEMMA PagesStep == PagesInv /\ VariableSpared /\ [Next]_vars => PagesInv'
<1> SUFFICES ASSUME PagesInv, VariableSpared, [Next]_vars PROVE PagesInv'
  OBVIOUS
<1>1. ControlInv'
  BY ControlStep DEF PagesInv
<1>2. CASE StartMret \/ StartDelegate \/ TimerArm \/ TimerVector \/ TimerEnable
             \/ TimerUnmask \/ StartTp
  BY <1>1, <1>2, MachineSteps
<1>3. CASE Mret
  <2>1. CASE priv' = "S"
    BY <1>1, <1>3, <2>1, MachineSteps
  <2>2. CASE priv' # "S"
    BY <1>1, <1>3, <2>2, LostStep DEF Mret, locals, supervisor
  <2> QED
    BY <2>1, <2>2
<1>4. CASE StartMain
  BY <1>1, <1>4, StartMainStep
<1>5. CASE Kinit
  BY <1>1, <1>5, KinitStep
<1>6. CASE Kvmininit
  BY <1>1, <1>6, KvmininitStep
<1>7. CASE Mappages
  BY <1>1, <1>7, MappagesStep
<1>8. CASE KvminithartSatp \/ KvminithartFence \/ Trapinithart \/ IntrOn \/ Initializes
  BY <1>1, <1>8, PagedSteps
<1>9. CASE Userinit
  <2>1. CASE \E u \in UserPages : UserinitPage(u)
    BY <1>1, <2>1, UserinitPageStep
  <2>2. CASE UserinitGrant("code_pte", "code", {X, U}, "stack")
    BY <1>1, <2>2, UserinitGrantStep
  <2>3. CASE UserinitGrant("stack_pte", "stack", {U}, "scheduler")
    BY <1>1, <2>3, UserinitGrantStep
  <2> QED
    BY <1>9, <2>1, <2>2, <2>3 DEF Userinit
<1>10. CASE MachineTimer
  <2>1. CASE mtvec = "timervec"
    <3>1. priv' = priv /\ bpc' = bpc
      BY <1>10, <2>1 DEF MachineTimer
    <3> QED
      BY <1>1, <1>10, <3>1, PagesSame DEF MachineTimer, locals, supervisor, PagesInv
  <2>2. CASE mtvec # "timervec"
    BY <1>1, <1>10, <2>2, LostStep DEF MachineTimer, locals, supervisor
  <2> QED
    BY <2>1, <2>2
<1>11. CASE SoftwareInterrupt
  <2>1. CASE priv' = priv /\ bpc' = bpc
    BY <1>1, <1>11, <2>1, PagesSame DEF SoftwareInterrupt, locals, supervisor, PagesInv
  <2>2. CASE priv' = "wild" /\ bpc' = "lost"
    BY <1>1, <1>11, <2>2, LostStep DEF SoftwareInterrupt, locals, supervisor
  <2> QED
    BY <1>11, <2>1, <2>2 DEF SoftwareInterrupt
<1>12. CASE KernelFaults
  BY <1>1, <1>12, LostStep DEF KernelFaults, locals, supervisor
<1>13. CASE Cache \/ Evict
  <2>1. bpc \notin Early
    BY <1>13 DEF Cache, Evict, PagesInv, EarlyInv
  <2>2. priv' = priv
    BY <1>13 DEF Cache, Evict
  <2> QED
    BY <1>1, <1>13, <2>1, <2>2, PagesSame DEF Cache, Evict, locals, supervisor, PagesInv
<1>14. CASE CallerRuns
  BY <1>1, <1>14, CallersStep
<1>15. CASE CallerFaults
  BY <1>1, <1>15, PagesSame DEF CallerFaults, panic, locals, supervisor, PagesInv
<1>16. CASE Rests \/ UNCHANGED vars
  BY <1>1, <1>16, PagesSame DEF Rests, vars, locals, supervisor, PagesInv
<1> QED
  BY <1>2, <1>3, <1>4, <1>5, <1>6, <1>7, <1>8, <1>9, <1>10, <1>11, <1>12, <1>13, <1>14, <1>15,
     <1>16 DEF Next, Hart

LEMMA PagesInvariant == Spec /\ []VariableSpared => []PagesInv
  BY InitPages, PagesStep, PTL DEF Spec


-----------------------------------------------------------------------------
(* What the pages are worth                                                *)

LEMMA PagesTyped == PagesInv => TypeOK
<1> SUFFICES ASSUME PagesInv PROVE TypeOK
  OBVIOUS
<1>1. layout \in Layouts
  BY DEF PagesInv, ControlInv
<1>2. \A address \in DOMAIN mem :
        /\ mem[address] \in Word
        /\ PGROUNDDOWN(address) \in Pool \/ address = layout.kernel_pagetable
  BY DEF PagesInv, Typed, Places, Variable
<1>3. \A c \in Callers : held[c] \subseteq Pool /\ r[c] \in Word /\ next[c] \in Word
  <2>1. CASE Running
    <3>1. \A c \in Callers : Calls(c)
      BY <2>1 DEF PagesInv, CallerInv
    <3> QED
      BY <1>1, <3>1, LooseTyped DEF Calls, Others, Spare
  <2>2. CASE ~Running
    BY <2>2, WordsTyped DEF PagesInv, Idle
  <2> QED
    BY <2>1, <2>2
<1>4. \A u \in UserPages : user[u] \in Pool \cup {0}
  BY DEF PagesInv, UserInv, Spare
<1> QED
  BY <1>2, <1>3, <1>4 DEF PagesInv, ControlInv, TypeOK

\* What is handed out is no table.
LEMMA HandedOthers == CallerInv => Handed \subseteq Others
<1> SUFFICES ASSUME CallerInv PROVE Handed \subseteq Others
  OBVIOUS
<1>1. \A c \in Callers : held[c] \subseteq Others
  BY DEF CallerInv, Calls
<1>2. ASSUME NEW c \in Callers, call[c] \in {"kalloc_zero", "kfree_link", "kfree_store"}
      PROVE  r[c].at \in Others
  <2>1. PICK p \in Others : r[c] = Ptr(p)
    BY <1>2 DEF CallerInv, Calls
  <2> QED
    BY <2>1, Kinds
<1> DEFINE away == {r[c].at : c \in {c \in Callers : call[c] \in {"kalloc_zero", "kfree_link", "kfree_store"}}}
           taken == UNION {held[c] : c \in Callers}
<1>3. away \subseteq Others
  BY <1>2
<1>4. taken \subseteq Others
  BY <1>1
<1>5. Handed = taken \cup Users \cup away
  BY DEF Handed, Users
<1>6. Users \subseteq Others
  BY DEF CallerInv
<1> HIDE DEF away, taken
<1> QED
  BY <1>3, <1>4, <1>5, <1>6

LEMMA PagesKeepTables == PagesInv => TablesKept
<1> SUFFICES ASSUME PagesInv, satp # 0
             PROVE  kernel_pagetable = satp /\ Tables(mem, satp) \cap Handed = {}
  BY DEF TablesKept
<1>1. layout \in Layouts
  BY DEF PagesInv, ControlInv
<1>2. CallerInv
  <2>1. CASE Running
    BY <2>1 DEF PagesInv
  <2>2. CASE ~Running
    <3>1. bpc \in Paged
      BY <2>2 DEF PagesInv, ControlInv, EarlyInv, BootInv, Running, Mapping
    <3> QED
      BY <1>1, <2>2, <3>1, BootToCaller DEF PagesInv, Paged, Mapping
  <2> QED
    BY <2>1, <2>2
<1>3. TreeInv(mem, satp) /\ Users \subseteq Others
  BY <1>2 DEF CallerInv
<1>4. kernel_pagetable = satp
  BY <1>3, Kinds DEF TreeInv, kernel_pagetable, Variable
<1>5. Handed \subseteq Others
  BY <1>2, HandedOthers
<1>6. Tables(mem, satp) = Taken(mem, satp)
  BY <1>1, <1>3, TreeTables
<1> QED
  BY <1>4, <1>5, <1>6 DEF Others

\* Where the linker puts the variable in front of the pool, as the listing has it
\* whenever end is not at the end of a page, no page of the list holds it.
VariableLow == \A l \in Layouts : l.kernel_pagetable < PGROUNDUP(l.end)

LEMMA LowSpared == VariableLow /\ PagesInv => VariableSpared
<1> SUFFICES ASSUME VariableLow, PagesInv PROVE VariableSpared
  OBVIOUS
<1>1. layout \in Layouts
  BY DEF PagesInv, ControlInv
<1>2. Variable \notin Pool
  <2>1. Variable < Low
    BY <1>1 DEF VariableLow, Variable, Low
  <2>2. Variable \in Nat /\ Low \in Nat /\ (Variable \in Pool => Variable = Low)
    BY <1>1, PoolWords, PoolIs
  <2> QED
    BY <2>1, <2>2
<1>3. (\A h \in Pool : Ptr(h) # Ptr(Variable)) /\ Null # Ptr(Variable)
  BY <1>2, Kinds
<1>4. CASE bpc \in {"kvmininit", "mappages"} \cup UserPages
  <2>1. BootList(mem, free_mem_list) /\ ~Running
    BY <1>4 DEF PagesInv, EarlyInv, BootInv, BootHeap, Running, Early, Mapping, Paged, UserPages
  <2>2. free_mem_list # Ptr(Variable)
    BY <1>3, <2>1 DEF BootList
  <2>3. \A c \in Callers : r[c] = Null
    BY <2>1 DEF PagesInv, Idle
  <2>4. free_mem_list # Null => Load(mem, free_mem_list.at) # Ptr(Variable)
    <3>1. SUFFICES ASSUME free_mem_list # Null
                   PROVE  Load(mem, free_mem_list.at) # Ptr(Variable)
      OBVIOUS
    <3>2. BootList(Zeroed(mem, free_mem_list.at), Load(mem, free_mem_list.at))
      BY <1>1, <2>1, <2>2, <3>1, PopList
    <3> QED
      BY <1>3, <3>2 DEF BootList
  <2> QED
    BY <1>3, <2>2, <2>3, <2>4 DEF VariableSpared
<1>5. CASE bpc \notin {"kvmininit", "mappages"} \cup UserPages
  <2>1. \A c \in Callers : r[c] = Null \/ Loose(r[c])
    BY DEF PagesInv, Idle, CallerInv, Calls
  <2>2. ASSUME NEW c \in Callers PROVE r[c] # Ptr(Variable)
    <3>1. r[c] \in {Null, KernelSatp} \/ \E p \in Pool : r[c] = Ptr(p)
      BY <2>1 DEF Loose, Others, Spare
    <3> QED
      BY <1>3, <3>1, Kinds
  <2> QED
    BY <1>5, <2>2 DEF VariableSpared
<1> QED
  BY <1>4, <1>5

-----------------------------------------------------------------------------
(* Where an address is in the tree                                         *)

LEMMA Split ==
  ASSUME NEW n \in Nat
  PROVE  \E q \in Nat : \E k \in 0 .. PGSIZE - 1 :
           n = q * PGSIZE + k /\ n \div PGSIZE = q /\ n % PGSIZE = k
  BY Divides

\* A number is its quotient pages and the rest.
LEMMA Quotient ==
  ASSUME NEW x \in Nat, NEW q, q = x \div PGSIZE
  PROVE  q \in Nat /\ x = q * PGSIZE + (x % PGSIZE) /\ x % PGSIZE \in Nat
<1>1. \A k \in 0 .. PGSIZE - 1 : k \in Nat
  BY SizeNat
<1> QED
  BY <1>1, Divides

LEMMA Products ==
  ASSUME NEW x \in Nat, NEW y \in Nat
  PROVE  x * y \in Nat
  OBVIOUS

LEMMA Below ==
  ASSUME NEW x \in Nat, NEW y \in Nat, x < y, NEW k \in 0 .. PGSIZE - 1
  PROVE  x * PGSIZE + k < y * PGSIZE
<1>1. (x + 1) * PGSIZE <= y * PGSIZE
  BY SizeNat
<1>2. (x + 1) * PGSIZE = x * PGSIZE + PGSIZE
  BY SizeNat
<1> QED
  BY <1>1, <1>2, SizeNat

LEMMA LevelIndices ==
  ASSUME NEW n \in Nat
  PROVE  /\ PX(0, n * PGSIZE) = n % PGSIZE
         /\ PX(1, n * PGSIZE) = (n \div PGSIZE) % PGSIZE
         /\ PX(2, n * PGSIZE) = ((n \div PGSIZE) \div PGSIZE) % PGSIZE
<1>1. PICK q \in Nat : \E k \in 0 .. PGSIZE - 1 : n = q * PGSIZE + k /\ n \div PGSIZE = q
  BY Split
<1>2. PICK k \in 0 .. PGSIZE - 1 : n = q * PGSIZE + k /\ n \div PGSIZE = q
  BY <1>1
<1>3. PICK q2 \in Nat : \E j \in 0 .. PGSIZE - 1 : q = q2 * PGSIZE + j /\ q \div PGSIZE = q2
  BY Split
<1>4. PICK j \in 0 .. PGSIZE - 1 : q = q2 * PGSIZE + j /\ q \div PGSIZE = q2
  BY <1>3
<1> DEFINE D == PGSIZE * PGSIZE
           E == PGSIZE * PGSIZE * PGSIZE
<1>5. D \in Nat /\ E \in Nat /\ D > 0 /\ E > 0 /\ E = D * PGSIZE
  <2>1. D \in Nat /\ D > 0
    BY SizeNat
  <2> HIDE DEF D
  <2>2. D * PGSIZE \in Nat /\ D * PGSIZE > 0
    BY <2>1, SizeNat
  <2> QED
    BY <2>1, <2>2 DEF D
<1>6. (n * PGSIZE) \div PGSIZE = n
  BY SizeNat, Multiple
<1>7. (n * PGSIZE) \div D = q
  <2>1. n * PGSIZE = q * D + k * PGSIZE
    BY <1>2, SizeNat
  <2>2. k * PGSIZE \in 0 .. D - 1
    <3>1. k * PGSIZE <= (PGSIZE - 1) * PGSIZE /\ k * PGSIZE >= 0 /\ k * PGSIZE \in Int
      BY SizeNat
    <3>2. (PGSIZE - 1) * PGSIZE = D - PGSIZE
      BY SizeNat
    <3> QED
      BY <1>5, <3>1, <3>2, SizeNat
  <2>3. n * PGSIZE \in Int
    BY SizeNat
  <2> HIDE DEF D
  <2> QED
    BY <1>5, <2>1, <2>2, <2>3, QuotientOf
<1>8. (n * PGSIZE) \div E = q2
  <2>1. n * PGSIZE = (q2 * PGSIZE + j) * PGSIZE * PGSIZE + k * PGSIZE
    BY <1>2, <1>4, SizeNat
  <2>2. n * PGSIZE = q2 * E + (j * PGSIZE + k) * PGSIZE
    BY <2>1, SizeNat
  <2> DEFINE s == j * PGSIZE + k
  <2>3. s \in Nat /\ s < D
    <3>1. j * PGSIZE + k < PGSIZE * PGSIZE
      BY Below, SizeNat
    <3> QED
      BY <3>1, SizeNat
  <2>4. s * PGSIZE \in 0 .. E - 1
    <3> HIDE DEF s, D, E
    <3>1. s * PGSIZE + 0 < D * PGSIZE
      BY <1>5, <2>3, Below, SizeNat
    <3>2. s * PGSIZE \in Nat
      BY <2>3, SizeNat
    <3> QED
      BY <1>5, <3>1, <3>2
  <2>5. n * PGSIZE \in Int
    BY SizeNat
  <2>6. n * PGSIZE = q2 * E + s * PGSIZE
    BY <2>2
  <2> DEFINE x == n * PGSIZE
             y == s * PGSIZE
  <2>7. x = q2 * E + y /\ x \in Int /\ y \in 0 .. E - 1
    BY <2>4, <2>5, <2>6
  <2> HIDE DEF E, s, x, y
  <2>8. x \div E = q2
    BY <1>5, <2>7, QuotientOf
  <2> QED
    BY <2>8 DEF x
<1> HIDE DEF D, E
<1>9. PX(0, n * PGSIZE) = n % PGSIZE
  BY <1>6 DEF PX, PXSHIFT
<1>10. PX(1, n * PGSIZE) = (n \div PGSIZE) % PGSIZE
  BY <1>2, <1>7 DEF PX, PXSHIFT, D
<1>11. PX(2, n * PGSIZE) = ((n \div PGSIZE) \div PGSIZE) % PGSIZE
  BY <1>2, <1>4, <1>8 DEF PX, PXSHIFT, E
<1> QED
  BY <1>9, <1>10, <1>11


LEMMA VirtualIs ==
  /\ MAXVA \in Nat
  /\ \A x : x \in VirtualPages <=> x \in Nat /\ x % PGSIZE = 0 /\ x < MAXVA
  /\ \A x \in VirtualPages : x \div PGSIZE < PGSIZE * PGSIZE * PGSIZE
<1> DEFINE E == PGSIZE * PGSIZE * PGSIZE
           H == E \div 2
<1>1. E \in Nat
  BY SizeNat, Products
<1> HIDE DEF E
<1>2. H \in Nat /\ H <= E
  BY <1>1
<1> HIDE DEF H
<1>3. MAXVA = H * PGSIZE /\ MAXVA \in Nat
  BY <1>2, SizeNat DEF MAXVA, H, E
<1>4. MAXVA \div PGSIZE = H
  BY <1>2, <1>3, SizeNat, Multiple
<1>5. VirtualPages = {n * PGSIZE : n \in 0 .. H - 1}
  BY <1>4 DEF VirtualPages
<1>6. ASSUME NEW n \in 0 .. H - 1
      PROVE  /\ n * PGSIZE \in Nat /\ (n * PGSIZE) % PGSIZE = 0 /\ n * PGSIZE < MAXVA
             /\ (n * PGSIZE) \div PGSIZE < E
  <2>1. n \in Nat /\ n < H
    BY <1>2
  <2>2. (n * PGSIZE) % PGSIZE = 0 /\ (n * PGSIZE) \div PGSIZE = n
    BY <2>1, SizeNat, Multiple
  <2>3. n * PGSIZE + 0 < H * PGSIZE
    BY <1>2, <2>1, Below, SizeNat
  <2>4. n * PGSIZE \in Nat
    BY <2>1, SizeNat
  <2> QED
    BY <1>1, <1>2, <1>3, <2>1, <2>2, <2>3, <2>4
<1>7. ASSUME NEW x \in Nat, x % PGSIZE = 0, x < MAXVA PROVE x \in VirtualPages
  <2> DEFINE n == x \div PGSIZE
  <2>1. n \in Nat /\ x = n * PGSIZE
    BY <1>7, Divides
  <2> HIDE DEF n
  <2>2. n < H
    <3> SUFFICES ASSUME H <= n PROVE FALSE
      BY <1>2, <2>1
    <3>1. H * PGSIZE <= n * PGSIZE
      BY <1>2, <2>1, SizeNat
    <3> QED
      BY <1>3, <1>7, <2>1, <3>1
  <2> QED
    BY <1>2, <1>5, <2>1, <2>2
<1> QED
  BY <1>3, <1>5, <1>6, <1>7 DEF E

\* Two pages are at different places of the tree.
LEMMA SamePlace ==
  ASSUME NEW va \in VirtualPages, NEW vb \in VirtualPages,
         \A level \in 0 .. 2 : PX(level, va) = PX(level, vb)
  PROVE  va = vb
<1> DEFINE n == va \div PGSIZE
           m == vb \div PGSIZE
           n1 == n \div PGSIZE
           m1 == m \div PGSIZE
           n2 == n1 \div PGSIZE
           m2 == m1 \div PGSIZE
<1>1. /\ n \in Nat /\ va = n * PGSIZE /\ n < PGSIZE * PGSIZE * PGSIZE
      /\ m \in Nat /\ vb = m * PGSIZE /\ m < PGSIZE * PGSIZE * PGSIZE
  BY VirtualIs, Divides
<1> HIDE DEF n, m
<1>2. /\ n1 \in Nat /\ n = n1 * PGSIZE + (n % PGSIZE)
      /\ m1 \in Nat /\ m = m1 * PGSIZE + (m % PGSIZE)
      /\ n % PGSIZE \in Nat /\ m % PGSIZE \in Nat
  BY <1>1, Quotient
<1> HIDE DEF n1, m1
<1>3. /\ n2 \in Nat /\ n1 = n2 * PGSIZE + (n1 % PGSIZE)
      /\ m2 \in Nat /\ m1 = m2 * PGSIZE + (m1 % PGSIZE)
      /\ n1 % PGSIZE \in Nat /\ m1 % PGSIZE \in Nat
  BY <1>2, Quotient
<1> HIDE DEF n2, m2
<1>4. ASSUME NEW x \in Nat, NEW x1 \in Nat, NEW x2 \in Nat, NEW k \in Nat, NEW j \in Nat,
             x = x1 * PGSIZE + k, x1 = x2 * PGSIZE + j, x < PGSIZE * PGSIZE * PGSIZE
      PROVE  x2 < PGSIZE
  <2> SUFFICES ASSUME PGSIZE <= x2 PROVE FALSE
    BY SizeNat
  <2>1. PGSIZE * PGSIZE \in Nat /\ PGSIZE * PGSIZE <= x2 * PGSIZE
    BY SizeNat
  <2>2. PGSIZE * PGSIZE <= x1
    BY <1>4, <2>1, SizeNat
  <2> DEFINE D == PGSIZE * PGSIZE
  <2>3. D \in Nat /\ D <= x1 /\ x < D * PGSIZE
    BY <1>4, <2>1, <2>2
  <2> HIDE DEF D
  <2>4. D * PGSIZE <= x1 * PGSIZE
    BY <2>3, SizeNat
  <2> QED
    BY <1>4, <2>3, <2>4, SizeNat
<1>5. n2 < PGSIZE /\ m2 < PGSIZE
  <2>1. n2 < PGSIZE
    BY <1>1, <1>2, <1>3, <1>4
  <2>2. m2 < PGSIZE
    BY <1>1, <1>2, <1>3, <1>4
  <2> QED
    BY <2>1, <2>2
<1>6. n2 % PGSIZE = n2 /\ m2 % PGSIZE = m2
  <2>1. ASSUME NEW x \in Nat, x < PGSIZE PROVE x % PGSIZE = x
    <3>1. x = 0 * PGSIZE + x /\ x \in 0 .. PGSIZE - 1
      BY <2>1, SizeNat
    <3> QED
      BY <3>1, SizeNat, QuotientOf
  <2> QED
    BY <1>3, <1>5, <2>1
<1>7. n % PGSIZE = m % PGSIZE /\ n1 % PGSIZE = m1 % PGSIZE /\ n2 % PGSIZE = m2 % PGSIZE
  <2>1. /\ PX(0, va) = n % PGSIZE /\ PX(1, va) = n1 % PGSIZE /\ PX(2, va) = n2 % PGSIZE
        /\ PX(0, vb) = m % PGSIZE /\ PX(1, vb) = m1 % PGSIZE /\ PX(2, vb) = m2 % PGSIZE
    BY <1>1, LevelIndices DEF n1, n2, m1, m2
  <2>2. 0 \in 0 .. 2 /\ 1 \in 0 .. 2 /\ 2 \in 0 .. 2
    OBVIOUS
  <2> QED
    BY <2>1, <2>2
<1> QED
  BY <1>1, <1>2, <1>3, <1>6, <1>7


\* A leaf stored where walk leads for va is what the hardware finds for va, and for
\* no other page.
LEMMA LeafTranslate ==
  ASSUME layout \in Layouts, NEW m, NEW root, TreeInv(m, root), NEW va \in VirtualPages,
         NEW one \in One(m, root), NEW t \in Two(m, root),
         Load(m, root + PX(2, va)) = PA2PTE(one, {}), Load(m, one + PX(1, va)) = PA2PTE(t, {}),
         NEW word, Leaf(word)
  PROVE  /\ Translate(Store(m, t + PX(0, va), word), root, va)
              = [va |-> va, pa |-> word.at, perm |-> word.perm]
         /\ \A v \in VirtualPages : v # va =>
              Translate(Store(m, t + PX(0, va), word), root, v) = Translate(m, root, v)
<1> DEFINE e == t + PX(0, va)
           m2 == Store(m, e, word)
<1>1. /\ one \in Spare /\ t \in Spare /\ one # root /\ t # root /\ one # t /\ root \in Spare
      /\ one \in Inner(m, root) /\ root \in Inner(m, root)
      /\ One(m, root) \subseteq Spare /\ Two(m, root) \subseteq Spare
      /\ One(m, root) \cap Two(m, root) = {} /\ root \notin Two(m, root)
  BY TreeShape DEF TreeInv, Inner
<1>2. \A p \in Spare : p \in Pool /\ p \in Nat
  BY PoolWords DEF Spare
<1>3. ASSUME NEW v \in VirtualPages, NEW p \in Spare, NEW level \in 0 .. 2
      PROVE  p + PX(level, v) \in WordsOf(p) /\ PX(level, v) \in Nat
  <2>1. v \in Nat /\ p \in Nat
    BY <1>2, VirtualIs
  <2>2. p + PX(level, v) \in WordsOf(p)
    BY <2>1, Indices
  <2>3. PX(level, v) \in 0 .. PGSIZE - 1
    BY <2>1, Indices
  <2> QED
    BY <2>2, <2>3, SizeNat
<1>4. 0 \in 0 .. 2 /\ 1 \in 0 .. 2 /\ 2 \in 0 .. 2
  OBVIOUS
<1>5. \A x : Load(m2, x) = IF x = e THEN word ELSE Load(m, x)
  BY LoadStored
<1>6. e \in WordsOf(t)
  BY <1>1, <1>3, <1>4
<1>7. TreeInv(m2, root)
  BY <1>6, LeafTree
<1>8. \A p \in Spare : p # t => \A x \in WordsOf(p) : Load(m2, x) = Load(m, x)
  BY <1>1, <1>2, <1>5, <1>6, PoolWords
<1>9. word # Null /\ word.at \in Nat
  BY Kinds DEF Leaf
<1>10. Translate(m2, root, va) = [va |-> va, pa |-> word.at, perm |-> word.perm]
  <2>1. Load(m2, root + PX(2, va)) = PA2PTE(one, {})
    BY <1>1, <1>3, <1>4, <1>8
  <2>2. Load(m2, one + PX(1, va)) = PA2PTE(t, {})
    BY <1>1, <1>3, <1>4, <1>8
  <2>3. Load(m2, t + PX(0, va)) = word
    BY <1>5
  <2>4. va \in Nat
    BY VirtualIs
  <2> HIDE DEF m2
  <2> QED
    BY <1>7, <1>9, <2>1, <2>2, <2>3, <2>4, TranslateTree
<1>11. ASSUME NEW v \in VirtualPages, v # va
       PROVE  Translate(m2, root, v) = Translate(m, root, v)
  <2>1. v \in Nat
    BY VirtualIs
  <2>2. Load(m2, root + PX(2, v)) = Load(m, root + PX(2, v))
    BY <1>1, <1>3, <1>4, <1>8
  <2>3. CASE Load(m, root + PX(2, v)) = Null
    BY <1>7, <2>1, <2>2, <2>3, TranslateTree
  <2>4. ASSUME NEW on \in One(m, root), Load(m, root + PX(2, v)) = PA2PTE(on, {})
        PROVE  Translate(m2, root, v) = Translate(m, root, v)
    <3>1. on \in Spare /\ on # t /\ on \in Inner(m, root)
      BY <1>1 DEF Inner
    <3>2. Load(m2, on + PX(1, v)) = Load(m, on + PX(1, v)) /\ on + PX(1, v) \in WordsOf(on)
      BY <1>3, <1>4, <1>8, <3>1
    <3>3. CASE Load(m, on + PX(1, v)) = Null
      <4> HIDE DEF m2
      <4> QED
        BY <1>7, <2>1, <2>2, <2>4, <3>2, <3>3, TranslateTree
    <3>4. ASSUME NEW s \in Two(m, root), Load(m, on + PX(1, v)) = PA2PTE(s, {})
          PROVE  Translate(m2, root, v) = Translate(m, root, v)
      <4>1. s + PX(0, v) # e
        <5> SUFFICES ASSUME s + PX(0, v) = e PROVE FALSE
          OBVIOUS
        <5>1. s \in Spare /\ s + PX(0, v) \in WordsOf(s)
          BY <1>1, <1>3, <1>4
        <5>2. s = t
          BY <1>1, <1>2, <1>6, <5>1, PoolWords
        <5>3. on + PX(1, v) = one + PX(1, va)
          <6>1. Load(m, on + PX(1, v)) = Load(m, one + PX(1, va))
                /\ Load(m, on + PX(1, v)) # Null
            BY <3>4, <5>2, Kinds
          <6>2. one + PX(1, va) \in WordsOf(one)
            BY <1>1, <1>3, <1>4
          <6> QED
            BY <1>1, <3>1, <3>2, <6>1, <6>2 DEF TreeInv
        <5>4. on = one
          <6>1. one + PX(1, va) \in WordsOf(one)
            BY <1>1, <1>3, <1>4
          <6> QED
            BY <1>1, <1>2, <3>1, <3>2, <5>3, <6>1, PoolWords
        <5>5. root + PX(2, v) = root + PX(2, va)
          <6>1. root + PX(2, va) \in WordsOf(root) /\ root + PX(2, v) \in WordsOf(root)
            BY <1>1, <1>3, <1>4
          <6>2. Load(m, root + PX(2, v)) = Load(m, root + PX(2, va))
                /\ Load(m, root + PX(2, v)) # Null
            BY <2>4, <5>4, Kinds
          <6> QED
            BY <1>1, <6>1, <6>2 DEF TreeInv
        <5>6. PX(0, v) = PX(0, va) /\ PX(1, v) = PX(1, va) /\ PX(2, v) = PX(2, va)
          <6>1. /\ PX(0, v) \in Nat /\ PX(0, va) \in Nat /\ PX(1, v) \in Nat /\ PX(1, va) \in Nat
                /\ PX(2, v) \in Nat /\ PX(2, va) \in Nat
            BY <1>1, <1>3, <1>4
          <6>2. t \in Nat /\ one \in Nat /\ root \in Nat
            BY <1>1, <1>2
          <6> QED
            BY <5>2, <5>3, <5>4, <5>5, <6>1, <6>2
        <5>7. \A level \in 0 .. 2 : PX(level, v) = PX(level, va)
          BY <5>6
        <5> QED
          BY <1>11, <5>7, SamePlace
      <4>2. Load(m2, s + PX(0, v)) = Load(m, s + PX(0, v))
        BY <1>5, <4>1
      <4> HIDE DEF m2
      <4> QED
        BY <1>7, <2>1, <2>2, <2>4, <3>2, <3>4, <4>2, TranslateTree
    <3> QED
      BY <2>1, <2>4, <3>3, <3>4, PathTree, Kinds
  <2> QED
    BY <2>1, <2>3, <2>4, PathTree
<1> QED
  BY <1>10, <1>11


-----------------------------------------------------------------------------
(* The map as kvmininit has built it when mappages is at page b of region i. *)

In(i, va) == Region(i).va <= va /\ va < Region(i).va + Region(i).size
Covers(j, va, i, b) == In(j, va) /\ (j < i \/ (j = i /\ va < b))
Leads(i, va) == [va |-> va, pa |-> va, perm |-> Region(i).perm]

Built(m, root, i, b) ==
  \A va \in Nat : va % PGSIZE = 0 =>
    /\ \A j \in 1 .. 5 : Covers(j, va, i, b) =>
         /\ va < MAXVA /\ Translate(m, root, va) = Leads(j, va)
         /\ \A k \in 1 .. 5 : Covers(k, va, i, b) => k = j
    /\ va < MAXVA /\ (\A j \in 1 .. 5 : ~Covers(j, va, i, b)) => Translate(m, root, va) = NoEntry

\* Where mappages is.
Place(i, b) == i \in 1 .. 5 /\ b \in Nat /\ b % PGSIZE = 0 /\ In(i, b)

LEMMA Differ ==
  ASSUME NEW x \in Nat, NEW y \in Nat, x % PGSIZE = 0, y % PGSIZE = 0
  PROVE  /\ x + y \in Nat /\ (x + y) % PGSIZE = 0
         /\ x <= y => y - x \in Nat /\ (y - x) % PGSIZE = 0
<1> DEFINE m == x \div PGSIZE
           n == y \div PGSIZE
<1>1. m \in Nat /\ n \in Nat /\ x = m * PGSIZE /\ y = n * PGSIZE
  BY Divides
<1> HIDE DEF m, n
<1>2. x + y = (m + n) * PGSIZE /\ y - x = (n - m) * PGSIZE
  BY <1>1, SizeNat
<1>3. (x + y) % PGSIZE = 0
  BY <1>1, <1>2, Multiple
<1>4. (y - x) % PGSIZE = 0
  BY <1>1, <1>2, Multiple
<1> QED
  BY <1>3, <1>4

LEMMA RegionIs ==
  ASSUME layout \in Layouts, NEW i \in 1 .. 5
  PROVE  /\ Region(i).va \in Nat /\ Region(i).va % PGSIZE = 0
         /\ Region(i).size \in Nat /\ Region(i).size % PGSIZE = 0 /\ Region(i).size > 0
         /\ First(i) = Region(i).va
         /\ Last(i) = Region(i).va + Region(i).size - PGSIZE
         /\ Place(i, First(i))
<1>1. /\ layout.etext \in Nat /\ layout.phystop \in Nat /\ KERNBASE \in Nat
      /\ KERNBASE < layout.etext /\ layout.etext < layout.phystop
      /\ layout.etext % PGSIZE = 0 /\ layout.phystop % PGSIZE = 0 /\ KERNBASE % PGSIZE = 0
  <2>1. /\ layout.etext \in Nat /\ layout.phystop \in Nat /\ layout.end \in Nat
        /\ KERNBASE < layout.etext /\ layout.etext < layout.end /\ layout.end < layout.phystop
        /\ layout.etext % PGSIZE = 0 /\ layout.phystop % PGSIZE = 0
    BY BootAssumption DEF BootAssumption
  <2>2. KERNBASE \in Nat /\ KERNBASE % PGSIZE = 0
    BY BootAssumption DEF BootAssumption
  <2> QED
    BY <2>1, <2>2
<1>2. /\ layout.etext - KERNBASE \in Nat /\ (layout.etext - KERNBASE) % PGSIZE = 0
      /\ layout.phystop - layout.etext \in Nat /\ (layout.phystop - layout.etext) % PGSIZE = 0
  <2>1. ASSUME NEW x \in Nat, NEW y \in Nat, x % PGSIZE = 0, y % PGSIZE = 0, x < y
        PROVE  y - x \in Nat /\ (y - x) % PGSIZE = 0
    <3>1. x <= y
      BY <2>1
    <3> QED
      BY <2>1, <3>1, Differ
  <2> QED
    BY <1>1, <2>1
<1>3. PGSIZE \in Nat /\ PGSIZE % PGSIZE = 0 /\ PGSIZE > 0
  <2>1. PGSIZE = 1 * PGSIZE
    BY SizeNat
  <2> QED
    BY <2>1, SizeNat, Multiple
<1>4. PlicSize \in Nat /\ PlicSize % PGSIZE = 0 /\ PlicSize > 0
  <2> DEFINE n == 2 * PGSIZE
  <2>1. n \in Nat /\ n > 0
    BY SizeNat
  <2>2. PlicSize = n * PGSIZE
    BY SizeNat DEF PlicSize
  <2> HIDE DEF n
  <2>3. n * PGSIZE \in Nat /\ n * PGSIZE > 0
    BY <2>1, SizeNat
  <2>4. PlicSize % PGSIZE = 0
    BY <2>1, <2>2, <2>3, Multiple
  <2> QED
    BY <2>2, <2>3, <2>4
<1>5. /\ Region(i).va \in Nat /\ Region(i).va % PGSIZE = 0
      /\ Region(i).size \in Nat /\ Region(i).size % PGSIZE = 0 /\ Region(i).size > 0
  <2>1. CASE i = 1
    BY <1>3, <2>1, BootAssumption DEF BootAssumption, Region
  <2>2. CASE i = 2
    BY <1>4, <2>2, BootAssumption DEF BootAssumption, Region
  <2>3. CASE i = 3
    BY <1>3, <2>3, BootAssumption DEF BootAssumption, Region
  <2>4. CASE i = 4
    BY <1>1, <1>2, <2>4 DEF Region
  <2>5. CASE i = 5
    BY <1>1, <1>2, <2>5 DEF Region
  <2> QED
    BY <2>1, <2>2, <2>3, <2>4, <2>5
<1> DEFINE v == Region(i).va
           s == Region(i).size
<1> HIDE DEF v, s
<1>6. v \in Nat /\ v % PGSIZE = 0 /\ s \in Nat /\ s % PGSIZE = 0 /\ s > 0
  BY <1>5 DEF v, s
<1>7. PGROUNDDOWN(v) = v
  BY <1>6, Divides DEF PGROUNDDOWN
<1>8. PGROUNDDOWN(v + s - 1) = v + s - PGSIZE
  <2>1. v + s \in Nat /\ (v + s) % PGSIZE = 0 /\ v + s > 0
    BY <1>6, Differ
  <2> DEFINE n == (v + s) \div PGSIZE
  <2>2. n \in Nat /\ v + s = n * PGSIZE
    BY <2>1, Divides
  <2> HIDE DEF n
  <2>3. (n - 1) * PGSIZE = n * PGSIZE - PGSIZE
    BY <2>2, SizeNat
  <2>4. v + s - 1 = (n - 1) * PGSIZE + (PGSIZE - 1) /\ v + s - 1 \in Int
    BY <1>6, <2>2, <2>3, SizeNat
  <2>5. (v + s - 1) \div PGSIZE = n - 1
    BY <2>2, <2>4, SizeNat, QuotientOf
  <2> QED
    BY <1>6, <2>2, <2>3, <2>5, SizeNat DEF PGROUNDDOWN
<1>9. First(i) = v /\ Last(i) = v + s - PGSIZE
  BY <1>7, <1>8 DEF First, Last, v, s
<1>10. In(i, v)
  BY <1>6 DEF In, v, s
<1>11. Place(i, First(i))
  BY <1>6, <1>9, <1>10 DEF Place
<1> QED
  BY <1>5, <1>9, <1>11 DEF v, s


\* The next page: of the region, or the first of the next one.
Turn(i, b, i2, b2) ==
  \/ b # Last(i) /\ i2 = i /\ b2 = b + PGSIZE
  \/ b = Last(i) /\ i < 5 /\ i2 = i + 1 /\ b2 = First(i + 1)
  \/ b = Last(i) /\ i = 5 /\ i2 = 6

LEMMA TurnPlace ==
  ASSUME layout \in Layouts, NEW i, NEW b, Place(i, b), NEW i2, NEW b2, Turn(i, b, i2, b2)
  PROVE  i2 # 6 => Place(i2, b2)
<1>1. i \in 1 .. 5 /\ b \in Nat /\ b % PGSIZE = 0 /\ In(i, b)
  BY DEF Place
<1> DEFINE v == Region(i).va
           s == Region(i).size
<1>2. v \in Nat /\ v % PGSIZE = 0 /\ s \in Nat /\ s % PGSIZE = 0 /\ Last(i) = v + s - PGSIZE
  BY <1>1, RegionIs
<1>3. v <= b /\ b < v + s
  BY <1>1 DEF In
<1>4. v + s \in Nat /\ (v + s) % PGSIZE = 0
  BY <1>2, Differ
<1> HIDE DEF v, s
<1>5. b <= v + s - PGSIZE
  <2> DEFINE e == v + s
  <2>1. e \in Nat /\ e % PGSIZE = 0 /\ b < e
    BY <1>3, <1>4
  <2> HIDE DEF e
  <2>2. b <= e - PGSIZE
    BY <1>1, <2>1, PageOrder
  <2> QED
    BY <1>2, <2>2, SizeNat DEF e
<1>6. CASE b # Last(i) /\ i2 = i /\ b2 = b + PGSIZE
  <2>1. b2 \in Nat /\ b2 % PGSIZE = 0
    BY <1>1, <1>6, PageNext
  <2>2. v <= b2 /\ b2 < v + s
    BY <1>1, <1>2, <1>3, <1>5, <1>6, SizeNat
  <2> QED
    BY <1>1, <1>6, <2>1, <2>2 DEF Place, In, v, s
<1>7. CASE i < 5 /\ i2 = i + 1 /\ b2 = First(i + 1)
  BY <1>1, <1>7, RegionIs
<1> QED
  BY <1>1, <1>6, <1>7 DEF Turn

LEMMA TurnCovers ==
  ASSUME layout \in Layouts, NEW i, NEW b, Place(i, b), NEW i2, NEW b2, Turn(i, b, i2, b2),
         NEW va \in Nat, va % PGSIZE = 0, NEW j \in 1 .. 5
  PROVE  Covers(j, va, i2, b2) <=> Covers(j, va, i, b) \/ (j = i /\ va = b)
<1>1. i \in 1 .. 5 /\ b \in Nat /\ b % PGSIZE = 0 /\ In(i, b)
  BY DEF Place
<1> DEFINE v == Region(i).va
           s == Region(i).size
<1>2. v \in Nat /\ v % PGSIZE = 0 /\ s \in Nat /\ s % PGSIZE = 0 /\ Last(i) = v + s - PGSIZE
  BY <1>1, RegionIs
<1>3. v <= b /\ b < v + s
  BY <1>1 DEF In
<1>4. v + s \in Nat /\ (v + s) % PGSIZE = 0
  BY <1>2, Differ
<1> HIDE DEF v, s
<1>5. va < b + PGSIZE <=> va < b \/ va = b
  <2>1. b < va => b <= va - PGSIZE
    BY <1>1, PageOrder
  <2> QED
    BY <1>1, <2>1, SizeNat
<1>6. va < v + s => va <= v + s - PGSIZE
  <2> DEFINE e == v + s
  <2>1. e \in Nat /\ e % PGSIZE = 0
    BY <1>4
  <2> HIDE DEF e
  <2>2. va < e => va <= e - PGSIZE
    BY <2>1, PageOrder
  <2> QED
    BY <1>2, <2>2, SizeNat DEF e
<1>7. In(i, va) <=> v <= va /\ va < v + s
  BY DEF In, v, s
<1>8. CASE b # Last(i) /\ i2 = i /\ b2 = b + PGSIZE
  BY <1>1, <1>5, <1>8 DEF Covers
<1>9. CASE b = Last(i) /\ i2 = i + 1 /\ (i2 # 6 => b2 = First(i2))
  <2>1. In(i, va) => va < b \/ va = b
    BY <1>1, <1>2, <1>6, <1>7, <1>9, SizeNat
  <2>2. ~ (j = i2 /\ In(j, va) /\ va < b2)
    <3> SUFFICES ASSUME j = i2, In(j, va), va < b2 PROVE FALSE
      OBVIOUS
    <3>1. i2 \in 1 .. 5 /\ b2 = Region(i2).va /\ Region(i2).va \in Nat
      BY <1>9, RegionIs
    <3>2. b2 <= va
      BY <3>1 DEF In
    <3> QED
      BY <3>1, <3>2
  <2>3. Covers(j, va, i2, b2) <=> In(j, va) /\ (j < i \/ j = i)
    BY <1>1, <1>9, <2>2 DEF Covers
  <2>4. Covers(j, va, i, b) <=> In(j, va) /\ (j < i \/ (j = i /\ va < b))
    BY DEF Covers
  <2> QED
    BY <1>1, <2>1, <2>3, <2>4
<1> QED
  BY <1>1, <1>8, <1>9 DEF Turn

\* mappages stores a leaf for its page, which nothing maps yet.
LEMMA LeafBuilt ==
  ASSUME layout \in Layouts, NEW m, NEW root, TreeInv(m, root), NEW i, NEW b, Place(i, b),
         b < MAXVA, Built(m, root, i, b),
         NEW one \in One(m, root), NEW t \in Two(m, root),
         Load(m, root + PX(2, b)) = PA2PTE(one, {}), Load(m, one + PX(1, b)) = PA2PTE(t, {}),
         ~Valid(Load(m, t + PX(0, b))), NEW i2, NEW b2, Turn(i, b, i2, b2)
  PROVE  Built(Store(m, t + PX(0, b), PA2PTE(b, Region(i).perm)), root, i2, b2)
<1> DEFINE word == PA2PTE(b, Region(i).perm)
           m2 == Store(m, t + PX(0, b), word)
<1>1. i \in 1 .. 5 /\ b \in Nat /\ b % PGSIZE = 0 /\ In(i, b) /\ b \in VirtualPages
  BY VirtualIs DEF Place
<1>2. Leaf(word) /\ word.at = b /\ word.perm = Region(i).perm
  BY <1>1, Regions, Kinds DEF Leaf
<1> HIDE DEF word
<1>3. /\ Translate(Store(m, t + PX(0, b), word), root, b)
              = [va |-> b, pa |-> word.at, perm |-> word.perm]
       /\ \A v \in VirtualPages : v # b =>
              Translate(Store(m, t + PX(0, b), word), root, v) = Translate(m, root, v)
  BY <1>1, <1>2, LeafTranslate
<1>4. Translate(m2, root, b) = Leads(i, b)
  BY <1>2, <1>3 DEF Leads
<1>5. \A v \in VirtualPages : v # b => Translate(m2, root, v) = Translate(m, root, v)
  BY <1>3
<1>6. Translate(m, root, b) = NoEntry
  <2>1. Load(m, t + PX(0, b)) = Null
    <3>1. t \in Pool /\ t \in Nat
      BY TreeShape, PoolWords DEF Spare
    <3>2. t + PX(0, b) \in WordsOf(t)
      BY <1>1, <3>1, Indices, 0 \in 0 .. 2
    <3>3. ~Leaf(Load(m, t + PX(0, b)))
      BY Kinds DEF Leaf
    <3> QED
      BY <3>2, <3>3 DEF TreeInv
  <2> QED
    BY <1>1, <2>1, TranslateTree
<1> HIDE DEF m2
<1>7. \A j \in 1 .. 5 : ~Covers(j, b, i, b)
  <2>1. \A j \in 1 .. 5 : Leads(j, b) # NoEntry
    <3>1. \A j \in 1 .. 5 : Leads(j, b).va = b /\ NoEntry.va = -1
      BY DEF Leads, NoEntry
    <3> QED
      BY <1>1, <3>1
  <2> QED
    BY <1>1, <1>6, <2>1 DEF Built
<1>8. ASSUME NEW va \in Nat, va % PGSIZE = 0
      PROVE  /\ \A j \in 1 .. 5 : Covers(j, va, i2, b2) =>
                  /\ va < MAXVA /\ Translate(m2, root, va) = Leads(j, va)
                  /\ \A k \in 1 .. 5 : Covers(k, va, i2, b2) => k = j
             /\ va < MAXVA /\ (\A j \in 1 .. 5 : ~Covers(j, va, i2, b2))
                  => Translate(m2, root, va) = NoEntry
  <2>1. \A j \in 1 .. 5 : Covers(j, va, i2, b2) <=> Covers(j, va, i, b) \/ (j = i /\ va = b)
    BY <1>8, TurnCovers
  <2>2. CASE va = b
    <3>1. \A j \in 1 .. 5 : Covers(j, va, i2, b2) <=> j = i
      BY <1>7, <2>1, <2>2
    <3> QED
      BY <1>1, <1>4, <2>2, <3>1
  <2>3. CASE va # b
    <3>1. \A j \in 1 .. 5 : Covers(j, va, i2, b2) <=> Covers(j, va, i, b)
      BY <2>1, <2>3
    <3>2. va < MAXVA => Translate(m2, root, va) = Translate(m, root, va)
      BY <1>5, <1>8, <2>3, VirtualIs
    <3>3. /\ \A j \in 1 .. 5 : Covers(j, va, i, b) =>
               /\ va < MAXVA /\ Translate(m, root, va) = Leads(j, va)
               /\ \A k \in 1 .. 5 : Covers(k, va, i, b) => k = j
          /\ va < MAXVA /\ (\A j \in 1 .. 5 : ~Covers(j, va, i, b)) => Translate(m, root, va) = NoEntry
      BY <1>8 DEF Built
    <3> QED
      BY <3>1, <3>2, <3>3
  <2> QED
    BY <2>2, <2>3
<1>9. Built(m2, root, i2, b2)
  BY <1>8 DEF Built
<1> QED
  BY <1>9 DEF m2, word


-----------------------------------------------------------------------------
(* The finished map, with what userinit has added for the page code and the *)
(* page stack (-1: nothing yet).                                            *)

Sound ==
  \A va \in Nat : va % PGSIZE = 0 =>
    \A j \in 1 .. 5 : In(j, va) => va < MAXVA /\ \A k \in 1 .. 5 : In(k, va) => k = j

More(va, code, stack) ==
  (IF va = code THEN {X, U} ELSE {}) \cup (IF va = stack THEN {U} ELSE {})

Complete(m, root, code, stack) ==
  \A va \in VirtualPages :
    /\ \A j \in 1 .. 5 : In(j, va) =>
         Translate(m, root, va) = [va |-> va, pa |-> va,
                                   perm |-> Region(j).perm \cup More(va, code, stack)]
    /\ (\A j \in 1 .. 5 : ~In(j, va)) => Translate(m, root, va) = NoEntry

CodeGranted == IF bpc \in {"stack", "stack_pte", "scheduler"} THEN user["code"] ELSE -1
StackGranted == IF bpc = "scheduler" THEN user["stack"] ELSE -1

TlbInv ==
  tlb # NoEntry =>
    /\ satp # 0 /\ tlb.va \in VirtualPages /\ tlb.perm # {}
    /\ tlb.pa = Translate(mem, satp, tlb.va).pa
    /\ tlb.perm \subseteq Translate(mem, satp, tlb.va).perm
    /\ tlb.perm # Translate(mem, satp, tlb.va).perm
         => tlb.va \in {user["code"], user["stack"]} \ {0}

\* Interrupts are enabled behind their vectors.
VectorInv ==
  /\ bpc = "mtie" \/ mtie => mtvec = "timervec"
  /\ bpc \in (Paged \ {"sfence_vma", "trapinithart"}) \/ sie => stvec = "sys_trap_vector"

Finished == Paged \cup {"w_satp", "scheduler"}

MapInv ==
  /\ satp = 0 => tlb = NoEntry
  /\ TlbInv /\ VectorInv
  /\ bpc = "mappages" /\ ~dry => Place(region, a) /\ Built(mem, kernel_pagetable, region, a)
  /\ bpc \in Finished /\ ~dry =>
       Sound /\ Complete(mem, kernel_pagetable, CodeGranted, StackGranted)
  /\ bpc = "lost" /\ ~dry => satp = 0

LEMMA RegionSame ==
  ASSUME layout' = layout
  PROVE  /\ \A i : Region(i)' = Region(i) /\ First(i)' = First(i) /\ Last(i)' = Last(i)
         /\ \A i, va : In(i, va)' <=> In(i, va)
         /\ \A i, b : Place(i, b)' <=> Place(i, b)
         /\ \A m, root, i, b : Built(m, root, i, b)' <=> Built(m, root, i, b)
         /\ Sound' <=> Sound
         /\ \A m, root, code, stack : Complete(m, root, code, stack)' <=> Complete(m, root, code, stack)
<1>1. \A i : Region(i)' = Region(i)
  BY DEF Region
<1>2. \A i : First(i)' = First(i) /\ Last(i)' = Last(i)
  BY <1>1 DEF First, Last
<1>3. \A i, va : In(i, va)' <=> In(i, va)
  BY <1>1 DEF In
<1>4. \A i, b : Place(i, b)' <=> Place(i, b)
  BY <1>3 DEF Place
<1>5. \A j, va, i, b : Covers(j, va, i, b)' <=> Covers(j, va, i, b)
  BY <1>3 DEF Covers
<1>6. \A j, va : Leads(j, va)' = Leads(j, va)
  BY <1>1 DEF Leads
<1>7. \A m, root, i, b : Built(m, root, i, b)' <=> Built(m, root, i, b)
  BY <1>5, <1>6 DEF Built
<1>8. Sound' <=> Sound
  BY <1>3 DEF Sound
<1>9. \A m, root, code, stack : Complete(m, root, code, stack)' <=> Complete(m, root, code, stack)
  BY <1>1, <1>3 DEF Complete
<1> QED
  BY <1>1, <1>2, <1>3, <1>4, <1>7, <1>8, <1>9

\* The map when mappages has done the last page of the last region.
LEMMA BuiltComplete ==
  ASSUME layout \in Layouts, NEW m, NEW root, NEW b, Built(m, root, 6, b)
  PROVE  Sound /\ Complete(m, root, -1, -1)
<1>1. \A j \in 1 .. 5 : \A va : Covers(j, va, 6, b) <=> In(j, va)
  BY DEF Covers
<1>2. Sound
  BY <1>1 DEF Sound, Built
<1>3. \A va \in VirtualPages : More(va, -1, -1) = {}
  BY VirtualIs DEF More
<1>4. Complete(m, root, -1, -1)
  <2> SUFFICES ASSUME NEW va \in VirtualPages
               PROVE  /\ \A j \in 1 .. 5 : In(j, va) =>
                           Translate(m, root, va) = [va |-> va, pa |-> va,
                                                     perm |-> Region(j).perm \cup More(va, -1, -1)]
                      /\ (\A j \in 1 .. 5 : ~In(j, va)) => Translate(m, root, va) = NoEntry
    BY DEF Complete
  <2>1. va \in Nat /\ va % PGSIZE = 0 /\ va < MAXVA
    BY VirtualIs
  <2>2. /\ \A j \in 1 .. 5 : In(j, va) => Translate(m, root, va) = Leads(j, va)
        /\ (\A j \in 1 .. 5 : ~In(j, va)) => Translate(m, root, va) = NoEntry
    BY <1>1, <2>1 DEF Built
  <2>3. \A j \in 1 .. 5 : Region(j).perm \cup More(va, -1, -1) = Region(j).perm
    BY <1>3
  <2> QED
    BY <2>2, <2>3 DEF Leads
<1> QED
  BY <1>2, <1>4

LEMMA ReferenceIs ==
  ASSUME Sound, NEW m, NEW root, Complete(m, root, CodeGranted, StackGranted),
         NEW va \in VirtualPages
  PROVE  Translate(m, root, va) = Reference(va)
<1> DEFINE inside == {i \in 1 .. 5 : /\ Region(i).va <= va
                                     /\ va < Region(i).va + Region(i).size}
           more == (IF user["code"] = va /\ bpc \in {"stack", "stack_pte", "scheduler"}
                      THEN {X, U} ELSE {})
                   \cup (IF user["stack"] = va /\ bpc \in {"scheduler"} THEN {U} ELSE {})
<1>1. Reference(va) = IF inside = {} THEN NoEntry
                      ELSE [va |-> va, pa |-> va,
                            perm |-> Region(CHOOSE i \in inside : TRUE).perm \cup more]
  BY DEF Reference
<1>2. inside = {i \in 1 .. 5 : In(i, va)}
  BY DEF In
<1>3. more = More(va, CodeGranted, StackGranted)
  BY VirtualIs DEF More, CodeGranted, StackGranted
<1> HIDE DEF inside, more
<1>4. CASE inside = {}
  BY <1>1, <1>2, <1>4 DEF Complete
<1>5. CASE inside # {}
  <2> DEFINE j == CHOOSE i \in inside : TRUE
  <2>1. j \in inside
    BY <1>5
  <2>2. j \in 1 .. 5 /\ In(j, va)
    BY <1>2, <2>1
  <2> HIDE DEF j
  <2>3. Translate(m, root, va) = [va |-> va, pa |-> va,
                                  perm |-> Region(j).perm \cup More(va, CodeGranted, StackGranted)]
    BY <2>2 DEF Complete
  <2> QED
    BY <1>1, <1>3, <1>5, <2>3 DEF j
<1> QED
  BY <1>4, <1>5


-----------------------------------------------------------------------------
(* The kernel runs on the map it has built                                 *)

LEMMA MapReaches ==
  ASSUME PagesInv, MapInv, satp # 0, ~dry, NEW va \in Nat, va % PGSIZE = 0, va \notin Pool,
         NEW j \in 1 .. 5, In(j, va), NEW need, need \subseteq Region(j).perm
  PROVE  Reaches(va, need)
<1>1. bpc \in Paged \cup {"scheduler"}
  BY DEF MapInv, PagesInv, ControlInv, EarlyInv, BootInv
<1>2. Sound /\ Complete(mem, kernel_pagetable, CodeGranted, StackGranted) /\ TlbInv
  BY <1>1 DEF MapInv, Finished
<1>3. kernel_pagetable = satp
  BY PagesKeepTables DEF TablesKept
<1>4. {user["code"], user["stack"]} \ {0} \subseteq Pool
  BY DEF PagesInv, UserInv, UserPages, Spare
<1>5. More(va, CodeGranted, StackGranted) = {}
  <2>1. CodeGranted # -1 => CodeGranted \in Pool
    <3>1. bpc \in {"stack", "stack_pte", "scheduler"} => user["code"] # 0
      BY DEF PagesInv, UserInv, UserPages, Behind
    <3> QED
      BY <1>4, <3>1 DEF CodeGranted
  <2>2. StackGranted # -1 => StackGranted \in Pool
    <3>1. bpc \in {"scheduler"} => user["stack"] # 0
      BY DEF PagesInv, UserInv, UserPages, Behind
    <3> QED
      BY <1>4, <3>1 DEF StackGranted
  <2>3. va # -1
    OBVIOUS
  <2> QED
    BY <2>1, <2>2, <2>3 DEF More
<1>6. va \in VirtualPages
  BY <1>2, VirtualIs DEF Sound
<1>7. Translate(mem, satp, va) = [va |-> va, pa |-> va, perm |-> Region(j).perm]
  <2>1. Region(j).perm \cup More(va, CodeGranted, StackGranted) = Region(j).perm
    BY <1>5
  <2> QED
    BY <1>2, <1>3, <1>6, <2>1 DEF Complete
<1>8. U \notin Region(j).perm
  BY DEF Region, R, W, X, U
<1> DEFINE used == IF tlb.va = va THEN tlb ELSE Translate(mem, satp, va)
<1>9. used.pa = va /\ used.perm = Region(j).perm
  <2>1. CASE tlb.va # va
    BY <1>7, <2>1
  <2>2. CASE tlb.va = va
    <3>1. tlb # NoEntry
      BY <2>2 DEF NoEntry
    <3>2. tlb.pa = va /\ tlb.perm = Region(j).perm
      BY <1>2, <1>4, <1>7, <2>2, <3>1 DEF TlbInv
    <3> QED
      BY <2>2, <3>2
  <2> QED
    BY <2>1, <2>2
<1> QED
  BY <1>8, <1>9 DEF Reaches

LEMMA MapTranslates ==
  ASSUME PagesInv, MapInv, satp # 0, ~dry
  PROVE  Translates
<1>1. layout \in Layouts
  BY DEF PagesInv, ControlInv
<1>2. bpc \in Paged \cup {"scheduler"} /\ Sound
  BY DEF MapInv, PagesInv, ControlInv, EarlyInv, BootInv, Finished
<1>3. /\ KERNBASE \in Nat /\ KERNBASE % PGSIZE = 0 /\ UART0 \in Nat /\ UART0 % PGSIZE = 0
      /\ PLIC \in Nat /\ PLIC % PGSIZE = 0 /\ VIRTIO0 \in Nat /\ VIRTIO0 % PGSIZE = 0
      /\ layout.etext \in Nat /\ layout.etext % PGSIZE = 0 /\ layout.phystop \in Nat
      /\ KERNBASE < layout.etext /\ layout.etext < layout.end /\ layout.end < layout.phystop
      /\ layout.end \in Nat
  BY <1>1, BootAssumption DEF BootAssumption
<1>4. /\ Low \in Nat /\ layout.end <= Low
      /\ \A p \in Pool : p \in Nat /\ p % PGSIZE = 0 /\ Low <= p /\ p < layout.phystop
  BY <1>1, PoolIs
<1>5. \A p \in Pool : In(5, p)
  BY <1>3, <1>4 DEF In, Region
<1>6. \A va \in Nat : va % PGSIZE = 0 =>
        \A j \in 1 .. 4 : In(j, va) => va \notin Pool
  BY <1>2, <1>5 DEF Sound
<1>7. Reaches(KERNBASE, {R, X})
  <2>1. In(4, KERNBASE) /\ {R, X} \subseteq Region(4).perm
    BY <1>3 DEF In, Region
  <2> QED
    BY <1>3, <1>6, <2>1, MapReaches
<1>8. Reaches(layout.etext, {R, W})
  <2>1. In(5, layout.etext) /\ {R, W} \subseteq Region(5).perm
    BY <1>3 DEF In, Region
  <2>2. layout.etext \notin Pool
    BY <1>3, <1>4
  <2> QED
    BY <1>3, <2>1, <2>2, MapReaches
<1>9. ASSUME NEW d \in Devices, d % PGSIZE = 0 PROVE Reaches(d, {R, W})
  <2>1. d = UART0 \/ d \in PLIC .. PLIC + PlicSize - 1 \/ d = VIRTIO0
    BY <1>9 DEF Devices
  <2>2. CASE d = UART0
    <3>1. In(1, d) /\ {R, W} \subseteq Region(1).perm
      BY <1>3, <2>2, SizeNat DEF In, Region
    <3> QED
      BY <1>3, <1>6, <2>2, <3>1, MapReaches
  <2>3. CASE d \in PLIC .. PLIC + PlicSize - 1
    <3>1. PlicSize \in Nat
      <4>1. Region(2).size = PlicSize
        BY DEF Region
      <4> QED
        BY <1>1, <4>1, RegionIs
    <3>2. d \in Nat /\ In(2, d) /\ {R, W} \subseteq Region(2).perm
      BY <1>3, <2>3, <3>1 DEF In, Region
    <3> QED
      BY <1>6, <1>9, <3>2, MapReaches
  <2>4. CASE d = VIRTIO0
    <3>1. In(3, d) /\ {R, W} \subseteq Region(3).perm
      BY <1>3, <2>4, SizeNat DEF In, Region
    <3> QED
      BY <1>3, <1>6, <2>4, <3>1, MapReaches
  <2> QED
    BY <2>1, <2>2, <2>3, <2>4
<1> QED
  BY <1>7, <1>8, <1>9 DEF Translates


-----------------------------------------------------------------------------
(* The steps                                                               *)

LEMMA RootIs ==
  ASSUME PagesInv, satp # 0
  PROVE  kernel_pagetable = satp /\ TreeInv(mem, satp) /\ bpc \in Paged \cup {"scheduler", "lost"}
<1>1. bpc \in Paged \cup {"scheduler", "lost"}
  BY DEF PagesInv, ControlInv, EarlyInv, BootInv
<1>2. CASE bpc \in Paged
  BY <1>1, <1>2 DEF PagesInv, BootInv, BootHeap, Paged, Mapping
<1>3. CASE bpc \notin Paged
  <2>1. TreeInv(mem, satp)
    BY <1>1, <1>3 DEF PagesInv, Running, CallerInv
  <2>2. kernel_pagetable = satp
    BY <2>1, Kinds DEF TreeInv, kernel_pagetable, Variable
  <2> QED
    BY <1>1, <2>1, <2>2
<1> QED
  BY <1>2, <1>3, <1>1

LEMMA InitMap == Init => MapInv
  BY DEF Init, MapInv, TlbInv, VectorInv, Finished, Paged

LEMMA VectorStep ==
  ASSUME PagesInv, VectorInv, [Next]_vars
  PROVE  VectorInv'
<1> USE DEF VectorInv, Paged
<1>1. CASE StartMret \/ StartDelegate \/ TimerArm \/ TimerVector \/ TimerEnable
             \/ TimerUnmask \/ StartTp
  BY <1>1 DEF StartMret, StartDelegate, TimerArm, TimerVector, TimerEnable,
           TimerUnmask, StartTp, Statement, From, machine, supervisor
<1>2. CASE Mret
  BY <1>2 DEF Mret, supervisor
<1>3. CASE StartMain \/ Kinit \/ Kvmininit
  BY <1>3 DEF StartMain, Kinit, Kvmininit, Elsewhere, panic, KernelRuns, machine, supervisor
<1>4. CASE Mappages
  BY <1>4 DEF Mappages, Elsewhere, panic, NextRegion, KernelRuns, machine, supervisor
<1>5. CASE KvminithartSatp \/ KvminithartFence \/ Trapinithart \/ IntrOn
  BY <1>5 DEF KvminithartSatp, KvminithartFence, Trapinithart, IntrOn, Elsewhere, KernelRuns,
              machine, supervisor
<1>6. CASE Initializes
  BY <1>6 DEF Initializes, Sets, Elsewhere, KernelRuns, machine, supervisor
<1>7. CASE Userinit
  BY <1>7 DEF Userinit, UserinitPage, UserinitGrant, UserPages, UserAfter, Elsewhere,
              panic, KernelRuns, machine, supervisor
<1>8. CASE MachineTimer
  BY <1>8 DEF MachineTimer, supervisor
<1>9. CASE SoftwareInterrupt \/ Cache \/ Evict \/ KernelFaults
  BY <1>9 DEF SoftwareInterrupt, Cache, Evict, KernelFaults, machine, supervisor
<1>10. CASE CallerRuns \/ CallerFaults \/ Rests
  BY <1>10 DEF CallerRuns, CallerFaults, Rests, vars, panic, machine, supervisor
<1>11. CASE UNCHANGED vars
  BY <1>11 DEF vars, machine, supervisor
<1> QED
  BY <1>1, <1>2, <1>3, <1>4, <1>5, <1>6, <1>7, <1>8, <1>9, <1>10, <1>11 DEF Next, Hart

\* A step that changes nothing the hardware finds.
LEMMA MapKept ==
  ASSUME PagesInv, MapInv, VectorInv', layout' = layout, bpc \in Finished, bpc' \in Finished,
         dry' = dry \/ dry', tlb' = NoEntry \/ tlb' = tlb, satp' = satp \/ satp = 0,
         kernel_pagetable' = kernel_pagetable,
         \A v \in VirtualPages :
           Translate(mem', kernel_pagetable, v) = Translate(mem, kernel_pagetable, v),
         CodeGranted' = CodeGranted, StackGranted' = StackGranted,
         {user["code"], user["stack"]} \ {0} \subseteq {user'["code"], user'["stack"]} \ {0}
  PROVE  MapInv'
<1>1. tlb' # NoEntry => satp # 0 /\ satp' = satp /\ tlb' = tlb /\ kernel_pagetable = satp
  BY RootIs DEF MapInv
<1>2. TlbInv'
  <2> SUFFICES ASSUME tlb' # NoEntry PROVE TlbInv'
    BY DEF TlbInv
  <2>1. TlbInv /\ tlb.va \in VirtualPages
    BY <1>1 DEF MapInv, TlbInv
  <2>2. Translate(mem', satp, tlb.va) = Translate(mem, satp, tlb.va)
    BY <1>1, <2>1
  <2> QED
    BY <1>1, <2>1, <2>2 DEF TlbInv
<1>3. satp' = 0 => tlb' = NoEntry
  BY <1>1
<1>4. ~dry' => Sound' /\ Complete(mem, kernel_pagetable, CodeGranted, StackGranted)'
  <2> SUFFICES ASSUME ~dry'
               PROVE  Sound' /\ Complete(mem, kernel_pagetable, CodeGranted, StackGranted)'
    OBVIOUS
  <2>1. Sound /\ Complete(mem, kernel_pagetable, CodeGranted, StackGranted)
    BY DEF MapInv
  <2>2. Complete(mem', kernel_pagetable, CodeGranted, StackGranted)
    BY <2>1 DEF Complete
  <2> QED
    BY <2>1, <2>2, RegionSame
<1> QED
  BY <1>2, <1>3, <1>4 DEF MapInv, Finished, Paged


LEMMA MapEarly ==
  ASSUME PagesInv', VectorInv', bpc' \in Early
  PROVE  MapInv'
<1>1. satp' = 0 /\ tlb' = NoEntry
  BY DEF PagesInv, EarlyInv
<1> QED
  BY <1>1 DEF MapInv, TlbInv, Early, Finished, Paged

LEMMA MapLost ==
  ASSUME MapInv, VectorInv', UNCHANGED <<layout, mem, satp, tlb, user, dry>>, bpc' = "lost",
         ~dry => satp = 0
  PROVE  MapInv'
<1>1. TlbInv'
  BY DEF MapInv, TlbInv
<1> QED
  BY <1>1 DEF MapInv, Finished, Paged

\* The translation of the new root: nothing is mapped.
LEMMA KvmininitMap ==
  ASSUME PagesInv, PagesInv', VariableSpared, MapInv, VectorInv', Kvmininit
  PROVE  MapInv'
<1>1. CASE free_mem_list = Null
  <2>1. bpc' = "kvmininit"
    BY <1>1 DEF Kvmininit, KernelRuns, panic
  <2> QED
    BY <2>1, MapEarly DEF Early
<1>2. CASE free_mem_list # Null
  <2> DEFINE l == free_mem_list
             root == l.at
  <2>1. /\ mem' = Store(Zeroed(Zeroed(mem, root), root), Variable, l)
        /\ region' = 1 /\ a' = First(1) /\ bpc' = "mappages" /\ layout' = layout
        /\ bpc = "kvmininit" /\ satp' = satp /\ tlb' = tlb
    BY <1>2 DEF Kvmininit, Kalloc, Variable, KernelRuns, Elsewhere, supervisor
  <2>2. layout \in Layouts /\ BootList(mem, l) /\ l # Ptr(Variable) /\ satp = 0
    BY <2>1 DEF PagesInv, ControlInv, Early, EarlyInv, VariableSpared
  <2>3. root \in Spare /\ l = Ptr(root)
    BY <1>2, <2>2, PopList
  <2> HIDE DEF root
  <2>4. \A x \in WordsOf(root) : Load(mem', x) = Null
    <3>1. \A x : Load(mem', x) = IF x = Variable THEN l
                                 ELSE IF x \in WordsOf(root) THEN Null ELSE Load(Zeroed(mem, root), x)
      BY <2>1, LoadStored, LoadZeroed
    <3> QED
      BY <2>2, <2>3, <3>1, PoolWords
  <2>5. Load(mem', Variable) = l
    BY <2>1, LoadStored
  <2>6. TreeInv(mem', root)
    BY <2>2, <2>3, <2>4, <2>5, RootTree
  <2>7. kernel_pagetable' = root
    <3>1. kernel_pagetable' = Load(mem', Variable).at
      BY <2>1 DEF kernel_pagetable, Variable
    <3>2. Ptr(root).at = root
      BY Kinds
    <3> QED
      BY <2>3, <2>5, <3>1, <3>2
  <2>8. \A va \in Nat : Translate(mem', root, va) = NoEntry
    <3> SUFFICES ASSUME NEW va \in Nat PROVE Translate(mem', root, va) = NoEntry
      OBVIOUS
    <3>1. root \in Nat
      BY <2>2, <2>3, PoolWords DEF Spare
    <3>2. root + PX(2, va) \in WordsOf(root)
      BY <3>1, Indices, 2 \in 0 .. 2
    <3> QED
      BY <2>2, <2>4, <2>6, <3>2, TranslateTree
  <2>9. Place(1, First(1)) /\ First(1) = Region(1).va /\ Region(1).va \in Nat
    BY <2>2, RegionIs
  <2>10. Built(mem', root, 1, First(1))
    <3>1. \A va \in Nat : \A j \in 1 .. 5 : ~Covers(j, va, 1, First(1))
      BY <2>9 DEF Covers, In
    <3> QED
      BY <2>8, <3>1 DEF Built
  <2>11. Place(region, a)' /\ Built(mem, kernel_pagetable, region, a)'
    BY <2>1, <2>7, <2>9, <2>10, RegionSame
  <2>12. tlb' = NoEntry
    BY <2>1, <2>2 DEF MapInv
  <2> QED
    BY <2>1, <2>11, <2>12 DEF MapInv, TlbInv, Finished, Paged
<1> QED
  BY <1>1, <1>2

LEMMA MappagesMap ==
  ASSUME PagesInv, PagesInv', VariableSpared, MapInv, VectorInv', Mappages
  PROVE  MapInv'
<1>1. /\ layout' = layout /\ satp' = satp /\ tlb' = tlb /\ user' = user
      /\ bpc = "mappages" /\ bpc' \in {"mappages", "w_satp"} /\ layout \in Layouts
  BY DEF Mappages, NextRegion, KernelRuns, Elsewhere, panic, supervisor, PagesInv, ControlInv
<1>2. BootInv /\ Typed(mem) /\ satp = 0 /\ tlb = NoEntry
  BY <1>1 DEF PagesInv, Mapping, BootInv, MapInv
<1>3. BootInv' /\ satp' = 0 /\ tlb' = NoEntry
  BY <1>1, <1>2 DEF PagesInv, Mapping
<1> DEFINE root == kernel_pagetable
<1>4. BootHeap(mem, free_mem_list, root, Users) /\ a \in Nat
  BY <1>1, <1>2 DEF BootInv
<1> HIDE DEF root
<1>5. SUFFICES ASSUME ~dry'
               PROVE  /\ bpc' = "mappages" => Place(region, a)' /\ Built(mem, kernel_pagetable, region, a)'
                      /\ bpc' = "w_satp" =>
                           Sound' /\ Complete(mem, kernel_pagetable, CodeGranted, StackGranted)'
  BY <1>1, <1>3 DEF MapInv, TlbInv, Finished, Paged
<1>6. CASE a >= MAXVA \/ Region(region).size = 0
  <2>1. UNCHANGED <<mem, free_mem_list, a, region, dry, bpc>>
    BY <1>6 DEF Mappages, heap, panic
  <2>2. Place(region, a) /\ Built(mem, kernel_pagetable, region, a)
    BY <1>1, <1>5, <2>1 DEF MapInv
  <2>3. kernel_pagetable' = kernel_pagetable
    BY <1>1, <2>1 DEF kernel_pagetable
  <2> QED
    BY <1>1, <2>1, <2>2, <2>3, RegionSame
<1>7. CASE ~ (a >= MAXVA \/ Region(region).size = 0)
  <2> DEFINE w == Walk([mem |-> mem, list |-> free_mem_list], kernel_pagetable, a)
             pte == w.pt + PX(0, a)
             remap == w.pt # 0 /\ Valid(Load(w.mem, pte))
             leaf == PA2PTE(a, Region(region).perm)
  <2>1. /\ dry' = (dry \/ w.pt = 0)
        /\ mem' = IF w.pt = 0 \/ remap THEN w.mem ELSE Store(w.mem, pte, leaf)
        /\ IF remap
             THEN panic /\ UNCHANGED <<a, region>>
             ELSE IF w.pt = 0 \/ a = Last(region)
                    THEN NextRegion
                    ELSE a' = a + PGSIZE /\ UNCHANGED <<bpc, region>>
    BY <1>7 DEF Mappages
  <2> HIDE DEF w
  <2>2. free_mem_list # Ptr(Variable) /\ (free_mem_list # Null => Load(mem, free_mem_list.at) # Ptr(Variable))
    BY <1>1 DEF VariableSpared
  <2>3. w = Walk([mem |-> mem, list |-> free_mem_list], root, a)
    BY DEF w, root
  <2>4. w.pt # 0 /\ ~dry
    BY <1>5, <2>1
  <2>5. BootHeap(w.mem, w.list, root, Users)
    BY <1>1, <1>2, <1>4, <2>2, <2>3, WalkStep
  <2>6. /\ w.pt \in Pool /\ w.pt \in Two(w.mem, root)
        /\ \E one \in One(w.mem, root) :
              /\ Load(w.mem, root + PX(2, a)) = PA2PTE(one, {})
              /\ Load(w.mem, one + PX(1, a)) = PA2PTE(w.pt, {})
    BY <1>1, <1>2, <1>4, <2>2, <2>3, <2>4, WalkStep
  <2>7. \A v \in Nat : Translate(w.mem, root, v) = Translate(mem, root, v)
    BY <1>1, <1>2, <1>4, <2>2, <2>3, WalkStep
  <2>8. Place(region, a) /\ Built(mem, root, region, a) /\ TreeInv(w.mem, root)
    BY <1>1, <2>4, <2>5 DEF MapInv, root, BootHeap
  <2>9. Built(w.mem, root, region, a)
    BY <2>7, <2>8 DEF Built
  <2>10. PICK one \in One(w.mem, root) :
           /\ Load(w.mem, root + PX(2, a)) = PA2PTE(one, {})
           /\ Load(w.mem, one + PX(1, a)) = PA2PTE(w.pt, {})
    BY <2>6
  <2>11. Load(w.mem, Variable) = Ptr(root)
    BY <2>8 DEF TreeInv
  <2>12. Variable' = Variable /\ kernel_pagetable' = Load(mem', Variable').at
    BY <1>1, PoolSame DEF kernel_pagetable, Variable
  <2>13. CASE remap
    <3>1. mem' = w.mem /\ bpc' = bpc /\ a' = a /\ region' = region
      BY <2>1, <2>13 DEF panic
    <3>2. kernel_pagetable' = root
      BY <2>11, <2>12, <3>1, Kinds
    <3> QED
      BY <1>1, <2>8, <2>9, <3>1, <3>2, RegionSame
  <2>14. CASE ~remap
    <3>1. mem' = Store(w.mem, pte, leaf)
      BY <2>1, <2>4, <2>14
    <3>2. MAXVA \in Nat /\ a < MAXVA
      BY <1>4, <1>7, VirtualIs
    <3>3. region \in 1 .. 5
      BY <2>8 DEF Place
    <3>4. kernel_pagetable' = root
      <4>1. w.pt \in Spare
        BY <1>1, <2>6, <2>8, TreeShape
      <4>2. w.pt \in Nat
        BY <1>1, <2>6, PoolWords
      <4>3. pte \in WordsOf(w.pt)
        BY <1>4, <4>2, Indices, 0 \in 0 .. 2
      <4>4. pte # Variable
        BY <1>1, <4>1, <4>3, PoolWords
      <4>5. Load(mem', Variable) = Ptr(root)
        BY <2>11, <3>1, <4>4, LoadStored
      <4> QED
        BY <2>12, <4>5, Kinds
    <3>5. ASSUME NEW i2, NEW b2, Turn(region, a, i2, b2)
          PROVE  Built(mem', root, i2, b2)
      <4>1. ~Valid(Load(w.mem, w.pt + PX(0, a)))
        BY <2>4, <2>14
      <4> HIDE DEF leaf, pte, remap
      <4>2. Built(Store(w.mem, w.pt + PX(0, a), PA2PTE(a, Region(region).perm)), root, i2, b2)
        BY <1>1, <2>6, <2>8, <2>9, <2>10, <3>2, <3>5, <4>1, LeafBuilt
      <4> QED
        BY <3>1, <4>2 DEF leaf, pte
    <3>6. CASE a # Last(region)
      <4>1. a' = a + PGSIZE /\ region' = region /\ bpc' = bpc
        BY <2>1, <2>4, <2>14, <3>6
      <4>2. Turn(region, a, region, a + PGSIZE)
        BY <3>6 DEF Turn
      <4>3. Built(mem', root, region, a + PGSIZE) /\ Place(region, a + PGSIZE)
        BY <1>1, <2>8, <3>3, <3>5, <4>2, TurnPlace
      <4> QED
        BY <1>1, <3>4, <4>1, <4>3, RegionSame
    <3>7. CASE a = Last(region) /\ region < 5
      <4>1. a' = First(region + 1) /\ region' = region + 1 /\ bpc' = "mappages"
        BY <2>1, <2>4, <2>14, <3>7 DEF NextRegion
      <4>2. Turn(region, a, region + 1, First(region + 1))
        BY <3>7 DEF Turn
      <4>3. region + 1 # 6
        BY <3>3, <3>7
      <4>4. Built(mem', root, region + 1, First(region + 1)) /\ Place(region + 1, First(region + 1))
        BY <1>1, <2>8, <3>5, <4>2, <4>3, TurnPlace
      <4> QED
        BY <1>1, <3>4, <4>1, <4>4, RegionSame
    <3>8. CASE a = Last(region) /\ region = 5
      <4>1. bpc' = "w_satp"
        BY <2>1, <2>4, <2>14, <3>8 DEF NextRegion
      <4>2. Turn(region, a, 6, 0)
        BY <3>8 DEF Turn
      <4>3. Built(mem', root, 6, 0)
        BY <3>5, <4>2
      <4>4. Sound /\ Complete(mem', root, -1, -1)
        BY <1>1, <4>3, BuiltComplete
      <4>5. CodeGranted' = -1 /\ StackGranted' = -1
        BY <4>1 DEF CodeGranted, StackGranted
      <4> QED
        BY <1>1, <3>4, <4>1, <4>4, <4>5, RegionSame
    <3> QED
      BY <3>3, <3>6, <3>7, <3>8
  <2> QED
    BY <2>13, <2>14
<1> QED
  BY <1>6, <1>7


LEMMA MapSame ==
  ASSUME MapInv, VectorInv', UNCHANGED <<layout, mem, satp, user, bpc, dry, a, region>>, TlbInv',
         satp' = 0 => tlb' = NoEntry
  PROVE  MapInv'
<1>1. kernel_pagetable' = kernel_pagetable /\ CodeGranted' = CodeGranted
      /\ StackGranted' = StackGranted
  BY DEF kernel_pagetable, CodeGranted, StackGranted
<1>2. bpc = "mappages" /\ ~dry => Place(region, a)' /\ Built(mem, kernel_pagetable, region, a)'
  BY <1>1, RegionSame DEF MapInv
<1>3. bpc \in Finished /\ ~dry =>
        Sound' /\ Complete(mem, kernel_pagetable, CodeGranted, StackGranted)'
  BY <1>1, RegionSame DEF MapInv
<1> QED
  BY <1>2, <1>3 DEF MapInv, Finished, Paged

LEMMA FinishedMap ==
  ASSUME PagesInv, MapInv, VectorInv',
         KvminithartSatp \/ KvminithartFence \/ Trapinithart \/ IntrOn \/ Initializes
  PROVE  MapInv'
<1>1. /\ UNCHANGED <<layout, mem, user, dry>> /\ bpc \in Finished /\ bpc' \in Finished
      /\ tlb' = NoEntry \/ tlb' = tlb
      /\ satp' = satp \/ bpc = "w_satp"
      /\ {bpc, bpc'} \cap {"stack", "stack_pte", "scheduler"} = {}
  BY DEF KvminithartSatp, KvminithartFence, Trapinithart, IntrOn, Initializes, Sets, KernelRuns,
         Elsewhere, locals, supervisor, heap, Finished, Paged
<1>2. bpc = "w_satp" => satp = 0
  BY DEF PagesInv, BootInv, Mapping
<1>3. kernel_pagetable' = kernel_pagetable /\ CodeGranted' = CodeGranted
      /\ StackGranted' = StackGranted
  BY <1>1 DEF kernel_pagetable, CodeGranted, StackGranted
<1> QED
  BY <1>1, <1>2, <1>3, MapKept

LEMMA UserinitPageMap ==
  ASSUME PagesInv, PagesInv', VariableSpared, MapInv, VectorInv', NEW u \in UserPages, UserinitPage(u)
  PROVE  MapInv'
<1>1. /\ layout' = layout /\ satp' = satp /\ tlb' = tlb
      /\ bpc = u /\ bpc' \in {u, UserAfter[u]} /\ layout \in Layouts
      /\ bpc \in Paged /\ bpc' \in Paged /\ bpc \in Finished /\ bpc' \in Finished
      /\ bpc' \in {"stack", "stack_pte", "scheduler"} <=> u = "stack"
      /\ bpc \in {"stack", "stack_pte", "scheduler"} <=> u = "stack"
      /\ bpc # "scheduler" /\ bpc' # "scheduler" /\ bpc \notin Behind(u)
  BY DEF UserinitPage, KernelRuns, Elsewhere, panic, supervisor, PagesInv, ControlInv, UserPages,
         UserAfter, Paged, Finished, Behind
<1>2. BootInv /\ BootInv' /\ user[u] = 0 /\ DOMAIN user = UserPages
  BY <1>1 DEF PagesInv, Paged, UserInv
<1> DEFINE root == kernel_pagetable
           l == free_mem_list
<1>3. BootHeap(mem, l, root, Users) /\ TreeInv(mem, root)
  BY <1>2 DEF BootInv, BootHeap
<1>4. root = Load(mem, Variable).at
  BY DEF kernel_pagetable, Variable
<1> HIDE DEF root
<1>5. CASE l = Null
  <2>1. UNCHANGED <<mem, user, bpc>> /\ dry'
    BY <1>5 DEF UserinitPage, heap, panic
  <2>2. kernel_pagetable' = kernel_pagetable /\ CodeGranted' = CodeGranted
        /\ StackGranted' = StackGranted
    BY <1>1, <2>1 DEF kernel_pagetable, CodeGranted, StackGranted
  <2> QED
    BY <1>1, <2>1, <2>2, MapKept
<1>6. CASE l # Null
  <2> DEFINE h == l.at
  <2>1. /\ mem' = Zeroed(mem, h) /\ user' = [user EXCEPT ![u] = h] /\ dry' = dry
    BY <1>6 DEF UserinitPage, Kalloc
  <2>2. l # Ptr(Variable)
    BY <1>1 DEF VariableSpared
  <2>3. /\ BootHeap(Zeroed(mem, h), Load(mem, h), root, Users \cup {h})
        /\ \A t \in Taken(mem, root) : \A e \in WordsOf(t) : Load(Zeroed(mem, h), e) = Load(mem, e)
        /\ Load(Zeroed(mem, h), Variable) = Load(mem, Variable)
    <3>1. BootHeap(Zeroed(mem, h), Load(mem, h), root, Users \cup {h})
      BY <1>1, <1>3, <1>6, <2>2, PopHeap, <1>2 DEF PagesInv
    <3>2. \A t \in Taken(mem, root) : \A e \in WordsOf(t) : Load(Zeroed(mem, h), e) = Load(mem, e)
      BY <1>1, <1>3, <1>6, <2>2, PopHeap
    <3>3. Load(Zeroed(mem, h), Variable) = Load(mem, Variable)
      BY <1>1, <1>3, <1>6, <2>2, PopHeap
    <3> QED
      BY <3>1, <3>2, <3>3
  <2> HIDE DEF h
  <2>4. \A v \in VirtualPages : Translate(mem', root, v) = Translate(mem, root, v)
    <3>1. TreeInv(Zeroed(mem, h), root)
      BY <2>3 DEF BootHeap
    <3>2. \A v \in VirtualPages : v \in Nat
      BY VirtualIs
    <3> QED
      BY <1>1, <1>3, <2>1, <2>3, <3>1, <3>2, TranslateKept
  <2>5. kernel_pagetable' = kernel_pagetable
    BY <1>1, <2>1, <2>3 DEF kernel_pagetable, Variable
  <2>6. CodeGranted' = CodeGranted /\ StackGranted' = StackGranted
    BY <1>1, <1>2, <2>1 DEF CodeGranted, StackGranted, UserPages
  <2>7. {user["code"], user["stack"]} \ {0} \subseteq {user'["code"], user'["stack"]} \ {0}
    BY <1>1, <1>2, <2>1 DEF UserPages
  <2> QED
    BY <1>1, <2>1, <2>4, <2>5, <2>6, <2>7, MapKept DEF root
<1> QED
  BY <1>5, <1>6


\* userinit adds its permissions to the one entry of its page.
LEMMA UserinitGrantMap ==
  ASSUME PagesInv, PagesInv', MapInv, VectorInv',
         NEW label, NEW u, NEW perm, NEW to, UserinitGrant(label, u, perm, to),
         \/ label = "code_pte" /\ u = "code" /\ perm = {X, U} /\ to = "stack"
         \/ label = "stack_pte" /\ u = "stack" /\ perm = {U} /\ to = "scheduler"
  PROVE  MapInv'
<1> DEFINE root == kernel_pagetable
           va == user[u]
           pte == WalkNoAlloc(mem, kernel_pagetable, user[u])
           word == PA2PTE(Load(mem, pte).at, Load(mem, pte).perm \cup perm)
<1>1. /\ UNCHANGED <<layout, satp, tlb, dry, user>>
      /\ bpc = label /\ bpc' \in {label, to} /\ layout \in Layouts
      /\ bpc \in Paged /\ bpc \in Finished /\ bpc' \in Finished /\ u \in {"code", "stack"}
      /\ u \in UserPages /\ bpc \in Behind(u) /\ bpc' # "lost" /\ bpc' # "mappages"
      /\ IF pte = 0 THEN bpc' = bpc /\ mem' = mem ELSE bpc' = to /\ mem' = Store(mem, pte, word)
  BY DEF UserinitGrant, KernelRuns, Elsewhere, panic, supervisor, locals, PagesInv, ControlInv,
         UserPages, Paged, Behind, Finished
<1>2. BootInv /\ va \in Spare /\ va \in Pool /\ va # 0 /\ va \in Nat
  <2>1. BootInv /\ va \in Spare
    BY <1>1 DEF PagesInv, Paged, UserInv
  <2> QED
    BY <1>1, <2>1, PoolWords DEF Spare
<1>3. satp = root /\ TreeInv(mem, root) /\ Load(mem, Variable) = Ptr(root)
  BY <1>1, <1>2 DEF BootInv, Paged, Mapping, BootHeap, TreeInv
<1>4. CASE pte = 0
  <2>1. kernel_pagetable' = kernel_pagetable /\ CodeGranted' = CodeGranted
        /\ StackGranted' = StackGranted
    BY <1>1, <1>4 DEF kernel_pagetable, CodeGranted, StackGranted
  <2> QED
    BY <1>1, <1>4, <2>1, MapKept
<1>5. CASE pte # 0
  <2> HIDE DEF va
  <2>1. pte = WalkNoAlloc(mem, root, va)
    BY DEF va
  <2> HIDE DEF root, pte
  <2>2. PICK one \in One(mem, root) : \E t \in Two(mem, root) :
           /\ Load(mem, root + PX(2, va)) = PA2PTE(one, {})
           /\ Load(mem, one + PX(1, va)) = PA2PTE(t, {})
           /\ pte = t + PX(0, va) /\ pte \in WordsOf(t)
    BY <1>1, <1>2, <1>3, <1>5, <2>1, FindLeaf
  <2>3. PICK t \in Two(mem, root) :
           /\ Load(mem, root + PX(2, va)) = PA2PTE(one, {})
           /\ Load(mem, one + PX(1, va)) = PA2PTE(t, {})
           /\ pte = t + PX(0, va) /\ pte \in WordsOf(t)
    BY <2>2
  <2>4. Load(mem, pte) = Null \/ Leaf(Load(mem, pte))
    BY <1>3, <2>3 DEF TreeInv
  <2>5. Load(mem, pte).at \in Nat /\ Load(mem, pte).perm \in SUBSET {R, W, X, U}
    BY <2>4, Kinds DEF Leaf, Perms
  <2>6. word.at = Load(mem, pte).at /\ word.perm = Load(mem, pte).perm \cup perm
    BY Kinds
  <2>7. Leaf(word)
    <3>1. perm \in Perms
      BY DEF Perms, R, W, X, U
    <3>2. perm # {} /\ perm \in SUBSET {R, W, X, U}
      BY <3>1 DEF Perms
    <3>3. (Load(mem, pte).perm \cup perm) \in Perms
      BY <2>5, <3>2 DEF Perms
    <3> QED
      BY <2>5, <2>6, <3>3 DEF Leaf
  <2> HIDE DEF word
  <2>8. mem' = Store(mem, pte, word) /\ bpc' = to
    BY <1>1, <1>5
  <2>9. va \in VirtualPages
    <3>1. va % PGSIZE = 0 /\ va < layout.phystop /\ layout.phystop \in Nat
      BY <1>1, <1>2, PoolIs
    <3>2. layout.phystop <= MAXVA
      BY <1>1, BootAssumption DEF BootAssumption
    <3> QED
      BY <1>2, <3>1, <3>2, VirtualIs
  <2>10. /\ Translate(mem', root, va) = [va |-> va, pa |-> word.at, perm |-> word.perm]
         /\ \A v \in VirtualPages : v # va => Translate(mem', root, v) = Translate(mem, root, v)
    <3>1. /\ Translate(Store(mem, t + PX(0, va), word), root, va)
               = [va |-> va, pa |-> word.at, perm |-> word.perm]
          /\ \A v \in VirtualPages : v # va =>
               Translate(Store(mem, t + PX(0, va), word), root, v) = Translate(mem, root, v)
      BY <1>1, <1>3, <2>3, <2>7, <2>9, LeafTranslate
    <3> QED
      BY <2>3, <2>8, <3>1
  <2>11. Translate(mem, root, va) =
           IF Load(mem, pte) = Null THEN NoEntry
           ELSE [va |-> va, pa |-> Load(mem, pte).at, perm |-> Load(mem, pte).perm]
    BY <1>1, <1>2, <1>3, <2>3, TranslateTree
  <2>12. kernel_pagetable' = root
    <3>1. Variable' = Variable /\ kernel_pagetable' = Load(mem', Variable').at
      BY <1>1, PoolSame DEF kernel_pagetable, Variable
    <3>2. t \in Spare
      BY <1>1, <1>3, TreeShape
    <3>3. pte # Variable
      BY <1>1, <2>3, <3>2, PoolWords
    <3>4. Load(mem', Variable) = Ptr(root)
      BY <1>3, <2>8, <3>3, LoadStored
    <3> QED
      BY <3>1, <3>4, Kinds
  <2>13. TlbInv'
    <3> SUFFICES ASSUME tlb # NoEntry PROVE TlbInv'
      BY <1>1 DEF TlbInv
    <3>1. /\ satp # 0 /\ tlb.va \in VirtualPages /\ tlb.perm # {}
          /\ tlb.pa = Translate(mem, root, tlb.va).pa
          /\ tlb.perm \subseteq Translate(mem, root, tlb.va).perm
          /\ tlb.perm # Translate(mem, root, tlb.va).perm
               => tlb.va \in {user["code"], user["stack"]} \ {0}
      BY <1>3 DEF MapInv, TlbInv
    <3>2. CASE tlb.va # va
      <4>1. Translate(mem', root, tlb.va) = Translate(mem, root, tlb.va)
        BY <2>10, <3>1, <3>2
      <4> QED
        BY <1>1, <1>3, <3>1, <4>1 DEF TlbInv
    <3>3. CASE tlb.va = va
      <4>1. Load(mem, pte) # Null
        BY <2>11, <3>1, <3>3 DEF NoEntry
      <4>2. tlb.pa = Load(mem, pte).at /\ tlb.perm \subseteq Load(mem, pte).perm
        BY <2>11, <3>1, <3>3, <4>1
      <4>3. Translate(mem', root, tlb.va).pa = Load(mem, pte).at
            /\ Translate(mem', root, tlb.va).perm = Load(mem, pte).perm \cup perm
        BY <2>6, <2>10, <3>3
      <4>4. tlb.va \in {user["code"], user["stack"]} \ {0}
        BY <1>1, <1>2, <3>3 DEF va
      <4>5. tlb.perm \subseteq Load(mem, pte).perm \cup perm
        BY <4>2
      <4> QED
        BY <1>1, <1>3, <3>1, <4>2, <4>3, <4>4, <4>5 DEF TlbInv
    <3> QED
      BY <3>2, <3>3
  <2>14. ASSUME ~dry
         PROVE  Sound' /\ Complete(mem, kernel_pagetable, CodeGranted, StackGranted)'
    <3>1. Sound /\ Complete(mem, root, CodeGranted, StackGranted)
      BY <1>1, <2>14 DEF MapInv, root
    <3> DEFINE c == CodeGranted
               s == StackGranted
               c2 == IF u = "code" THEN va ELSE c
               s2 == IF u = "stack" THEN va ELSE s
    <3>2. CodeGranted' = c2 /\ StackGranted' = s2
      BY <1>1, <2>8 DEF CodeGranted, StackGranted, va
    <3>3. /\ u = "code" => c = -1 /\ perm = {X, U}
          /\ u = "stack" => s = -1 /\ perm = {U}
      BY <1>1 DEF CodeGranted, StackGranted
    <3> HIDE DEF c, s
    <3>4. More(va, c2, s2) = More(va, c, s) \cup perm
      <4>1. CASE u = "code"
        BY <1>1, <1>2, <3>3, <4>1 DEF More
      <4>2. CASE u = "stack"
        BY <1>1, <1>2, <3>3, <4>2 DEF More
      <4> QED
        BY <1>1, <4>1, <4>2
    <3>5. \A v \in VirtualPages : v # va => More(v, c2, s2) = More(v, c, s)
      <4>1. ASSUME NEW v \in VirtualPages, v # va PROVE More(v, c2, s2) = More(v, c, s)
        <5>1. v # -1
          BY VirtualIs
        <5> QED
          BY <1>1, <3>3, <4>1, <5>1 DEF More
      <4> QED
        BY <4>1
    <3>6. In(5, va)
      <4>1. /\ layout.etext \in Nat /\ layout.end \in Nat /\ layout.phystop \in Nat
            /\ layout.etext < layout.end
        BY <1>1, BootAssumption DEF BootAssumption
      <4>2. Low \in Nat /\ layout.end <= Low /\ Low <= va /\ va < layout.phystop
        BY <1>1, <1>2, PoolIs
      <4> QED
        BY <1>2, <4>1, <4>2 DEF In, Region
    <3>7. \A j \in 1 .. 5 : In(j, va) => j = 5
      BY <1>2, <2>9, <3>1, <3>6, VirtualIs DEF Sound
    <3>8. Translate(mem, root, va) = [va |-> va, pa |-> va, perm |-> Region(5).perm \cup More(va, c, s)]
      BY <2>9, <3>1, <3>6 DEF Complete, c, s
    <3>9. word.at = va /\ word.perm = Region(5).perm \cup More(va, c2, s2)
      <4>1. Load(mem, pte) # Null
        BY <1>2, <2>11, <3>8 DEF NoEntry
      <4>2. Load(mem, pte).at = va /\ Load(mem, pte).perm = Region(5).perm \cup More(va, c, s)
        BY <2>11, <3>8, <4>1
      <4> QED
        BY <2>6, <3>4, <4>2
    <3>10. Complete(mem', root, c2, s2)
      <4> SUFFICES ASSUME NEW v \in VirtualPages
                   PROVE  /\ \A j \in 1 .. 5 : In(j, v) =>
                               Translate(mem', root, v) = [va |-> v, pa |-> v,
                                                           perm |-> Region(j).perm \cup More(v, c2, s2)]
                          /\ (\A j \in 1 .. 5 : ~In(j, v)) => Translate(mem', root, v) = NoEntry
        BY DEF Complete
      <4>1. CASE v = va
        BY <2>10, <3>6, <3>7, <3>9, <4>1
      <4>2. CASE v # va
        <5>1. Translate(mem', root, v) = Translate(mem, root, v) /\ More(v, c2, s2) = More(v, c, s)
          BY <2>10, <3>5, <4>2
        <5> HIDE DEF c2, s2
        <5>2. Complete(mem, root, c, s)
          BY <3>1 DEF c, s
        <5> QED
          BY <5>1, <5>2 DEF Complete
      <4> QED
        BY <4>1, <4>2
    <3> QED
      BY <1>1, <2>12, <3>1, <3>2, <3>10, RegionSame
  <2> QED
    BY <1>1, <1>3, <2>13, <2>14, <1>2, PoolWords DEF MapInv, Paged, Early
<1> QED
  BY <1>4, <1>5


\* What a caller stores it stores in a page of its own: a page that is no table.
LEMMA CallerStores ==
  ASSUME layout \in Layouts, CallerInv, NEW c \in Callers, CallerStep(c)
  PROVE  \A t \in Taken(mem, satp) : \A e \in WordsOf(t) : Load(mem', e) = Load(mem, e)
<1>1. /\ held[c] \subseteq Others
      /\ call[c] \notin {"none", "kalloc_next"} => \E p \in Others : r[c] = Ptr(p)
  BY DEF CallerInv, Calls
<1>2. Taken(mem, satp) \subseteq Pool
  BY TreeShape DEF CallerInv
<1>3. \A p \in Others : \A t \in Taken(mem, satp) : \A e \in WordsOf(t) : e \notin WordsOf(p) /\ e # p
  BY <1>2, PoolWords DEF Others, Spare
<1>4. CASE mem' = mem
  BY <1>4
<1>5. CASE KallocZero(c)
  <2>1. mem' = Zeroed(mem, r[c].at) /\ call[c] = "kalloc_zero"
    BY <1>5 DEF KallocZero, At
  <2>2. r[c].at \in Others
    BY <1>1, <2>1, Kinds
  <2> QED
    BY <1>3, <2>1, <2>2, LoadZeroed
<1>6. CASE KfreeLink(c)
  <2>1. mem' = Store(mem, r[c].at, next[c]) /\ call[c] = "kfree_link"
    BY <1>6 DEF KfreeLink, At
  <2>2. r[c].at \in Others
    BY <1>1, <2>1, Kinds
  <2> QED
    BY <1>3, <2>1, <2>2, LoadStored
<1>7. ASSUME NEW page \in held[c], UseAsTrapframe(c, page)
      PROVE  \A t \in Taken(mem, satp) : \A e \in WordsOf(t) : Load(mem', e) = Load(mem, e)
  <2>1. mem' = Store(mem, page, KernelSatp) /\ page \in Others
    BY <1>1, <1>7 DEF UseAsTrapframe
  <2> QED
    BY <1>3, <2>1, LoadStored
<1> QED
  BY <1>4, <1>5, <1>6, <1>7
  DEF CallerStep, KallocHead, KallocNext, KallocStore, KfreeLoad, KfreeStore, heap

LEMMA CallersMap ==
  ASSUME PagesInv, PagesInv', MapInv, VectorInv', CallerRuns
  PROVE  MapInv'
<1>1. PICK c \in active : CallerStep(c)
  BY DEF CallerRuns
<1>2. UNCHANGED <<layout, satp, user, tlb, dry, bpc>> /\ bpc = "scheduler"
  BY DEF CallerRuns, supervisor, locals
<1>3. layout \in Layouts /\ c \in Callers
  BY <1>1, BootAssumption DEF BootAssumption, PagesInv, ControlInv
<1>4. CallerInv /\ CallerInv'
  BY <1>2 DEF PagesInv, Running
<1>5. TreeInv(mem, satp) /\ TreeInv(mem', satp)
  <2>1. TreeInv(mem, satp) /\ TreeInv(mem, satp)'
    BY <1>4 DEF CallerInv
  <2> QED
    BY <1>2, <2>1, HeapSame
<1>6. \A v \in VirtualPages : Translate(mem', satp, v) = Translate(mem, satp, v)
  <2>1. \A t \in Taken(mem, satp) : \A e \in WordsOf(t) : Load(mem', e) = Load(mem, e)
    BY <1>1, <1>3, <1>4, CallerStores
  <2>2. \A v \in VirtualPages : v \in Nat
    BY VirtualIs
  <2> QED
    BY <1>3, <1>5, <2>1, <2>2, TranslateKept
<1>7. kernel_pagetable = satp /\ kernel_pagetable' = satp
  <2>1. Load(mem, Variable) = Ptr(satp) /\ Load(mem', Variable) = Ptr(satp)
    BY <1>5 DEF TreeInv
  <2>2. kernel_pagetable = Load(mem, Variable).at /\ kernel_pagetable' = Load(mem', Variable).at
    BY <1>2 DEF kernel_pagetable, Variable
  <2> QED
    BY <2>1, <2>2, Kinds
<1>8. CodeGranted' = CodeGranted /\ StackGranted' = StackGranted
  BY <1>2 DEF CodeGranted, StackGranted
<1>9. bpc \in Finished /\ bpc' \in Finished
  BY <1>2 DEF Finished
<1> QED
  BY <1>2, <1>6, <1>7, <1>8, <1>9, MapKept

\* The hart keeps a translation: one that is there, complete.
LEMMA CacheMap ==
  ASSUME MapInv, VectorInv', Cache
  PROVE  MapInv'
<1>1. /\ UNCHANGED <<layout, mem, satp, user, bpc, dry, a, region>> /\ satp # 0
      /\ \E va \in VirtualPages : tlb' = Translate(mem, satp, va)
  BY DEF Cache, heap, supervisor, locals
<1>2. PICK va \in VirtualPages : tlb' = Translate(mem, satp, va)
  BY <1>1
<1>3. tlb' # NoEntry => tlb'.va = va /\ tlb'.perm # {}
  BY <1>2 DEF Translate
<1>4. TlbInv'
  <2> SUFFICES ASSUME tlb' # NoEntry PROVE TlbInv'
    BY DEF TlbInv
  <2>1. tlb' = Translate(mem, satp, tlb'.va) /\ tlb'.va \in VirtualPages
    BY <1>2, <1>3
  <2> QED
    BY <1>1, <1>3, <2>1 DEF TlbInv
<1> QED
  BY <1>1, <1>4, MapSame

\* The hart leaves the map alone.
LEMMA RestMap ==
  ASSUME MapInv, VectorInv', UNCHANGED <<layout, mem, satp, user, bpc, dry, a, region>>,
         tlb' = NoEntry \/ tlb' = tlb
  PROVE  MapInv'
<1>1. TlbInv' /\ (satp' = 0 => tlb' = NoEntry)
  BY DEF MapInv, TlbInv
<1> QED
  BY <1>1, MapSame

LEMMA MapStep == PagesInv /\ PagesInv' /\ VariableSpared /\ MapInv /\ [Next]_vars => MapInv'
<1> SUFFICES ASSUME PagesInv, PagesInv', VariableSpared, MapInv, [Next]_vars PROVE MapInv'
  OBVIOUS
<1>1. VectorInv /\ VectorInv'
  BY VectorStep DEF MapInv
<1>2. CASE StartMret \/ StartDelegate \/ TimerArm \/ TimerVector \/ TimerEnable
             \/ TimerUnmask \/ StartTp
  <2>1. bpc' \in Early
    BY <1>2 DEF StartMret, StartDelegate, TimerArm, TimerVector, TimerEnable,
           TimerUnmask, StartTp, Statement, From, Early
  <2> QED
    BY <1>1, <2>1, MapEarly
<1>3. CASE Mret
  <2>1. CASE priv' = "S"
    <3>1. bpc' \in Early
      BY <1>3, <2>1 DEF Mret, Early
    <3> QED
      BY <1>1, <3>1, MapEarly
  <2>2. CASE priv' # "S"
    <3>1. satp = 0
      BY <1>3 DEF Mret, PagesInv, Early, EarlyInv
    <3> QED
      BY <1>1, <1>3, <2>2, <3>1, MapLost DEF Mret, heap, supervisor, locals
  <2> QED
    BY <2>1, <2>2
<1>4. CASE StartMain \/ Kinit
  <2>1. bpc' \in Early
    BY <1>4 DEF StartMain, Kinit, KernelRuns, panic, Early
  <2> QED
    BY <1>1, <2>1, MapEarly
<1>5. CASE Kvmininit
  BY <1>1, <1>5, KvmininitMap
<1>6. CASE Mappages
  BY <1>1, <1>6, MappagesMap
<1>7. CASE KvminithartSatp \/ KvminithartFence \/ Trapinithart \/ IntrOn \/ Initializes
  BY <1>1, <1>7, FinishedMap
<1>8. CASE Userinit
  <2>1. CASE \E u \in UserPages : UserinitPage(u)
    BY <1>1, <2>1, UserinitPageMap
  <2>2. CASE UserinitGrant("code_pte", "code", {X, U}, "stack")
    BY <1>1, <2>2, UserinitGrantMap
  <2>3. CASE UserinitGrant("stack_pte", "stack", {U}, "scheduler")
    BY <1>1, <2>3, UserinitGrantMap
  <2> QED
    BY <1>8, <2>1, <2>2, <2>3 DEF Userinit
<1>9. CASE MachineTimer
  <2>1. mtvec = "timervec"
    BY <1>1, <1>9 DEF MachineTimer, VectorInv
  <2> QED
    BY <1>1, <1>9, <2>1, RestMap DEF MachineTimer, heap, supervisor, locals
<1>10. CASE SoftwareInterrupt
  <2>1. CASE Translates
    <3>1. stvec = "sys_trap_vector"
      BY <1>1, <1>10 DEF SoftwareInterrupt, VectorInv
    <3> QED
      BY <1>1, <1>10, <2>1, <3>1, RestMap DEF SoftwareInterrupt, heap, supervisor, locals
  <2>2. CASE ~Translates
    <3>1. ~dry => satp = 0
      BY <2>2, MapTranslates
    <3> QED
      BY <1>1, <1>10, <2>2, <3>1, MapLost DEF SoftwareInterrupt, heap, supervisor, locals
  <2> QED
    BY <2>1, <2>2
<1>11. CASE KernelFaults
  <2>1. ~dry => satp = 0
    BY <1>11, MapTranslates DEF KernelFaults
  <2> QED
    BY <1>1, <1>11, <2>1, MapLost DEF KernelFaults, heap, supervisor, locals
<1>12. CASE Cache
  BY <1>1, <1>12, CacheMap
<1>13. CASE Evict
  BY <1>1, <1>13, RestMap DEF Evict, heap, supervisor, locals
<1>14. CASE CallerRuns
  BY <1>1, <1>14, CallersMap
<1>15. CASE CallerFaults
  BY <1>1, <1>15, RestMap DEF CallerFaults, panic, heap, supervisor, locals
<1>16. CASE Rests \/ UNCHANGED vars
  BY <1>1, <1>16, RestMap DEF Rests, vars, heap, supervisor, locals
<1> QED
  BY <1>2, <1>3, <1>4, <1>5, <1>6, <1>7, <1>8, <1>9, <1>10, <1>11, <1>12, <1>13, <1>14, <1>15,
     <1>16 DEF Next, Hart

LEMMA MapInvariant == Spec /\ []VariableSpared => [](PagesInv /\ MapInv)
  BY InitPages, PagesStep, InitMap, MapStep, PTL DEF Spec

LEMMA MapRight == PagesInv /\ MapInv => MapIsReference
<1> SUFFICES ASSUME PagesInv, MapInv, Mapped, ~dry, NEW va \in VirtualPages
             PROVE  Translate(mem, kernel_pagetable, va) = Reference(va)
  BY DEF MapIsReference
<1>1. bpc \in Finished
  <2>1. CASE bpc = "w_satp"
    BY <2>1 DEF Finished
  <2>2. CASE satp # 0
    BY <2>2, RootIs DEF MapInv, Finished
  <2> QED
    BY <2>1, <2>2 DEF Mapped
<1> QED
  BY <1>1, ReferenceIs DEF MapInv

LEMMA TlbRight == MapInv => StaleOnlyForUser
  BY DEF MapInv, TlbInv, StaleOnlyForUser



-----------------------------------------------------------------------------
(* Boot does not fail                                                      *)

\* memlayout.h: the PLIC, the UART and the disk lie below memory, in this order.
DevicesBelow ==
  PLIC + PlicSize <= UART0 /\ UART0 + PGSIZE <= VIRTIO0 /\ VIRTIO0 + PGSIZE <= KERNBASE

\* While memory lasts, boot reaches the scheduler without a panic, a fault of the
\* kernel, an interrupt without a handler or an mret to the wrong place.
NoFailure == ~dry => priv \in {"M", "S"} \/ (priv = "panic" /\ bpc = "scheduler")

LEMMA RegionsApart ==
  ASSUME DevicesBelow, layout \in Layouts
  PROVE  /\ \A i, j \in 1 .. 5 : \A va \in Nat : In(i, va) /\ In(j, va) => i = j
         /\ \A i \in 1 .. 5 : \A va \in Nat : In(i, va) => va < MAXVA
<1>1. /\ layout.etext \in Nat /\ layout.phystop \in Nat /\ KERNBASE \in Nat
      /\ KERNBASE < layout.etext /\ layout.etext < layout.phystop /\ layout.phystop <= MAXVA
      /\ UART0 \in Nat /\ PLIC \in Nat /\ VIRTIO0 \in Nat
  BY BootAssumption DEF BootAssumption
<1>2. PlicSize \in Nat /\ PGSIZE \in Nat /\ PGSIZE > 0 /\ MAXVA \in Nat
  <2>1. Region(2).size = PlicSize
    BY DEF Region
  <2> QED
    BY <2>1, RegionIs, SizeNat, VirtualIs
<1>3. \A va \in Nat :
        /\ In(1, va) <=> UART0 <= va /\ va < UART0 + PGSIZE
        /\ In(2, va) <=> PLIC <= va /\ va < PLIC + PlicSize
        /\ In(3, va) <=> VIRTIO0 <= va /\ va < VIRTIO0 + PGSIZE
        /\ In(4, va) <=> KERNBASE <= va /\ va < layout.etext
        /\ In(5, va) <=> layout.etext <= va /\ va < layout.phystop
  <2>1. \A va : /\ In(1, va) <=> UART0 <= va /\ va < UART0 + PGSIZE
                /\ In(2, va) <=> PLIC <= va /\ va < PLIC + PlicSize
                /\ In(3, va) <=> VIRTIO0 <= va /\ va < VIRTIO0 + PGSIZE
                /\ In(4, va) <=> KERNBASE <= va /\ va < KERNBASE + (layout.etext - KERNBASE)
                /\ In(5, va) <=> layout.etext <= va /\ va < layout.etext + (layout.phystop - layout.etext)
    BY DEF In, Region
  <2> QED
    BY <1>1, <2>1
<1>4. ASSUME NEW va \in Nat
      PROVE  /\ \A i, j \in 1 .. 5 : In(i, va) /\ In(j, va) => i = j
             /\ \A i \in 1 .. 5 : In(i, va) => va < MAXVA
  <2>1. /\ In(1, va) <=> UART0 <= va /\ va < UART0 + PGSIZE
        /\ In(2, va) <=> PLIC <= va /\ va < PLIC + PlicSize
        /\ In(3, va) <=> VIRTIO0 <= va /\ va < VIRTIO0 + PGSIZE
        /\ In(4, va) <=> KERNBASE <= va /\ va < layout.etext
        /\ In(5, va) <=> layout.etext <= va /\ va < layout.phystop
    BY <1>3
  <2>2. \A i \in 1 .. 5 : i = 1 \/ i = 2 \/ i = 3 \/ i = 4 \/ i = 5
    OBVIOUS
  <2> QED
    BY <1>1, <1>2, <2>1, <2>2 DEF DevicesBelow
<1> QED
  BY <1>4

\* kinit frees only pages of the pool.
LEMMA KinitValid ==
  ASSUME PagesInv, bpc = "kinit", KinitMore
  PROVE  KfreeValid(a)
<1>1. layout \in Layouts /\ a \in Nat /\ a % PGSIZE = 0 /\ Low <= a
  BY DEF PagesInv, ControlInv, Early, EarlyInv
<1>2. layout.end \in Nat
  BY <1>1, BootAssumption DEF BootAssumption
<1> QED
  BY <1>1, <1>2, PoolIs, SizeNat DEF KinitMore, KfreeValid

\* The page mappages comes to has no leaf yet.
LEMMA NoRemap ==
  ASSUME DevicesBelow, PagesInv, MapInv, VariableSpared, bpc = "mappages", ~dry,
         NEW w, w = Walk([mem |-> mem, list |-> free_mem_list], kernel_pagetable, a), w.pt # 0
  PROVE  ~Valid(Load(w.mem, w.pt + PX(0, a)))
<1> DEFINE root == kernel_pagetable
<1>1. /\ layout \in Layouts /\ BootInv /\ Typed(mem)
      /\ Place(region, a) /\ Built(mem, root, region, a)
  BY DEF PagesInv, ControlInv, Mapping, MapInv
<1>2. BootHeap(mem, free_mem_list, root, Users) /\ a \in Nat /\ a % PGSIZE = 0
      /\ region \in 1 .. 5 /\ In(region, a)
  BY <1>1 DEF BootInv, Place
<1> HIDE DEF root
<1>3. free_mem_list # Ptr(Variable) /\ (free_mem_list # Null => Load(mem, free_mem_list.at) # Ptr(Variable))
  BY DEF VariableSpared
<1>4. w = Walk([mem |-> mem, list |-> free_mem_list], root, a)
  BY DEF root
<1>5. BootHeap(w.mem, w.list, root, Users)
  BY <1>1, <1>2, <1>3, <1>4, WalkStep
<1>6. \E one \in One(w.mem, root) :
        /\ Load(w.mem, root + PX(2, a)) = PA2PTE(one, {})
        /\ Load(w.mem, one + PX(1, a)) = PA2PTE(w.pt, {})
  BY <1>1, <1>2, <1>3, <1>4, WalkStep
<1>7. Translate(w.mem, root, a) = Translate(mem, root, a)
  BY <1>1, <1>2, <1>3, <1>4, WalkStep
<1>8. Translate(mem, root, a) = NoEntry
  <2>1. a < MAXVA /\ \A j \in 1 .. 5 : In(j, a) => j = region
    BY <1>1, <1>2, RegionsApart
  <2>2. \A j \in 1 .. 5 : ~Covers(j, a, region, a)
    BY <1>2, <2>1 DEF Covers
  <2> QED
    BY <1>1, <1>2, <2>1, <2>2 DEF Built
<1>9. Load(w.mem, w.pt + PX(0, a)) = Null
  <2>1. TreeInv(w.mem, root)
    BY <1>5 DEF BootHeap
  <2>2. PICK one : /\ Load(w.mem, root + PX(2, a)) = PA2PTE(one, {})
                   /\ Load(w.mem, one + PX(1, a)) = PA2PTE(w.pt, {})
    BY <1>6
  <2>3. Translate(w.mem, root, a) =
          IF Load(w.mem, w.pt + PX(0, a)) = Null THEN NoEntry
          ELSE [va |-> a, pa |-> Load(w.mem, w.pt + PX(0, a)).at,
                perm |-> Load(w.mem, w.pt + PX(0, a)).perm]
    BY <1>1, <1>2, <2>1, <2>2, TranslateTree
  <2> QED
    BY <1>2, <1>7, <1>8, <2>3 DEF NoEntry
<1> QED
  BY <1>9 DEF Valid, Null

\* walk finds the entry of each page userinit grants.
LEMMA GrantFinds ==
  ASSUME PagesInv, MapInv, ~dry, NEW u \in {"code", "stack"}, bpc \in Paged, bpc \in Behind(u)
  PROVE  WalkNoAlloc(mem, kernel_pagetable, user[u]) # 0
<1> DEFINE root == kernel_pagetable
           va == user[u]
<1>1. layout \in Layouts /\ BootInv /\ va \in Spare /\ va # 0
  BY DEF PagesInv, ControlInv, UserInv, UserPages, Paged
<1>2. TreeInv(mem, root) /\ Sound /\ Complete(mem, root, CodeGranted, StackGranted)
  BY <1>1 DEF BootInv, BootHeap, MapInv, Finished
<1>3. va \in Pool /\ va \in Nat /\ va % PGSIZE = 0 /\ Low <= va /\ va < layout.phystop
  BY <1>1, PoolIs DEF Spare
<1> HIDE DEF root, va
<1>4. In(5, va) /\ va \in VirtualPages
  <2>1. /\ layout.etext \in Nat /\ layout.end \in Nat /\ layout.phystop \in Nat
        /\ layout.etext < layout.end /\ layout.phystop <= MAXVA
    BY <1>1, BootAssumption DEF BootAssumption
  <2>2. Low \in Nat /\ layout.end <= Low
    BY <1>1, PoolIs
  <2>3. In(5, va)
    BY <1>3, <2>1, <2>2 DEF In, Region
  <2> QED
    BY <1>3, <2>1, <2>3, VirtualIs
<1>5. Translate(mem, root, va) # NoEntry
  BY <1>2, <1>3, <1>4 DEF Complete, NoEntry
<1>6. PICK one \in One(mem, root) : \E t \in Two(mem, root) :
        /\ Load(mem, root + PX(2, va)) = PA2PTE(one, {})
        /\ Load(mem, one + PX(1, va)) = PA2PTE(t, {})
  <2>1. Load(mem, root + PX(2, va)) # Null
    BY <1>1, <1>2, <1>3, <1>5, TranslateTree
  <2>2. ASSUME NEW one, Load(mem, root + PX(2, va)) = PA2PTE(one, {})
        PROVE  Load(mem, one + PX(1, va)) # Null
    BY <1>1, <1>2, <1>3, <1>5, <2>2, TranslateTree
  <2> QED
    BY <1>1, <1>2, <1>3, <2>1, <2>2, PathTree
<1>7. PICK t \in Two(mem, root) :
        /\ Load(mem, root + PX(2, va)) = PA2PTE(one, {})
        /\ Load(mem, one + PX(1, va)) = PA2PTE(t, {})
  BY <1>6
<1>8. WalkNoAlloc(mem, root, va) = t + PX(0, va)
  BY <1>7, Kinds DEF WalkNoAlloc, Valid, PA2PTE
<1>9. t \in Nat /\ t > 0 /\ PX(0, va) \in Nat
  <2>1. t \in Pool
    BY <1>1, <1>2, <1>7, TreeShape
  <2> QED
    BY <1>1, <1>3, <2>1, PoolWords, Indices, 0 \in 0 .. 2
<1> QED
  BY <1>8, <1>9 DEF root, va

LEMMA FailureStep ==
  DevicesBelow /\ PagesInv /\ MapInv /\ MachineInv /\ VariableSpared /\ NoFailure /\ [Next]_vars
    => NoFailure'
<1> SUFFICES ASSUME DevicesBelow, PagesInv, MapInv, MachineInv, VariableSpared, NoFailure,
                    [Next]_vars, ~dry'
             PROVE  priv' \in {"M", "S"} \/ (priv' = "panic" /\ bpc' = "scheduler")
  BY DEF NoFailure
<1>1. CASE StartMret \/ StartDelegate \/ TimerArm \/ TimerVector \/ TimerEnable
             \/ TimerUnmask \/ StartTp
  BY <1>1 DEF StartMret, StartDelegate, TimerArm, TimerVector, TimerEnable,
           TimerUnmask, StartTp, Statement
<1>2. CASE Mret
  BY <1>2 DEF Mret, MachineInv
<1>3. CASE StartMain \/ KvminithartSatp \/ KvminithartFence \/ Trapinithart \/ IntrOn \/ Initializes
  BY <1>3 DEF StartMain, KvminithartSatp, KvminithartFence, Trapinithart, IntrOn, Initializes,
              KernelRuns
<1>4. CASE Kinit
  <2>1. bpc = "kinit" /\ priv = "S"
    BY <1>4 DEF Kinit, KernelRuns
  <2>2. KinitMore => KfreeValid(a)
    BY <2>1, KinitValid
  <2> QED
    BY <1>4, <2>1, <2>2 DEF Kinit
<1>5. CASE Kvmininit
  BY <1>5 DEF Kvmininit, KernelRuns
<1>6. CASE Mappages
  <2>1. bpc = "mappages" /\ priv = "S" /\ layout \in Layouts
    BY <1>6 DEF Mappages, KernelRuns, PagesInv, ControlInv
  <2>2. CASE a >= MAXVA \/ Region(region).size = 0
    <3>1. ~dry
      BY <1>6, <2>2 DEF Mappages
    <3>2. Place(region, a)
      BY <2>1, <3>1 DEF MapInv
    <3>3. a < MAXVA /\ a \in Nat /\ MAXVA \in Nat
      BY <2>1, <3>2, RegionsApart, VirtualIs DEF Place
    <3>4. Region(region).size # 0
      <4>1. Region(region).size \in Nat /\ Region(region).size > 0
        BY <2>1, <3>2, RegionIs DEF Place
      <4> QED
        BY <4>1
    <3> QED
      BY <2>2, <3>3, <3>4
  <2>3. CASE ~(a >= MAXVA \/ Region(region).size = 0)
    <3> DEFINE w == Walk([mem |-> mem, list |-> free_mem_list], kernel_pagetable, a)
               remap == w.pt # 0 /\ Valid(Load(w.mem, w.pt + PX(0, a)))
    <3>1. dry' = (dry \/ w.pt = 0) /\ (~remap => priv' = priv)
      BY <1>6, <2>3 DEF Mappages
    <3> HIDE DEF w
    <3>2. w.pt # 0 /\ ~dry
      BY <3>1
    <3>3. ~remap
      BY <2>1, <3>2, NoRemap DEF w
    <3> QED
      BY <2>1, <3>1, <3>3
  <2> QED
    BY <2>2, <2>3
<1>7. CASE \E u \in UserPages : UserinitPage(u)
  BY <1>7 DEF UserinitPage, KernelRuns
<1>8. ASSUME NEW label, NEW u, NEW perm, NEW to, UserinitGrant(label, u, perm, to),
             <<label, u>> \in {<<"code_pte", "code">>, <<"stack_pte", "stack">>}
      PROVE  priv' = "S"
  <2>1. ~dry /\ bpc = label /\ priv = "S"
    BY <1>8 DEF UserinitGrant, KernelRuns
  <2>2. u \in {"code", "stack"} /\ bpc \in Paged /\ bpc \in Behind(u)
    BY <1>8, <2>1 DEF Paged, Behind
  <2>3. WalkNoAlloc(mem, kernel_pagetable, user[u]) # 0
    BY <2>1, <2>2, GrantFinds
  <2> QED
    BY <1>8, <2>1, <2>3 DEF UserinitGrant
<1>9. CASE MachineTimer
  BY <1>9 DEF MachineTimer, NoFailure, MapInv, VectorInv
<1>10. CASE SoftwareInterrupt
  <2>1. Translates /\ stvec = "sys_trap_vector"
    BY <1>10, MapTranslates DEF SoftwareInterrupt, Translates, MapInv, VectorInv
  <2> QED
    BY <1>10, <2>1 DEF SoftwareInterrupt, Booting
<1>11. CASE KernelFaults
  BY <1>11, MapTranslates DEF KernelFaults, Translates
<1>12. CASE Cache \/ Evict
  BY <1>12 DEF Cache, Evict, NoFailure
<1>13. CASE CallerRuns \/ CallerFaults
  BY <1>13 DEF CallerRuns, CallerFaults, panic
<1>14. CASE Rests \/ UNCHANGED vars
  BY <1>14 DEF Rests, vars, NoFailure
<1> QED
  BY <1>1, <1>2, <1>3, <1>4, <1>5, <1>6, <1>7, <1>8, <1>9, <1>10, <1>11, <1>12, <1>13, <1>14
  DEF Next, Hart, Userinit

-----------------------------------------------------------------------------
(* The free list                                                           *)

\* The n pages s from the head l on, each linked to the next; the last one is the
\* page kernel_pagetable lies in, if it is one of the pool.
Linked(m, l, n, s) ==
  /\ n \in Nat /\ s \in [1 .. n -> Pool] /\ \A i, j \in 1 .. n : s[i] = s[j] => i = j
  /\ l = IF n = 0 THEN Null ELSE Ptr(s[1])
  /\ \A i \in 1 .. n : i < n => s[i] # Variable /\ Load(m, s[i]) = Ptr(s[i + 1])
  /\ n > 0 => s[n] = Variable \/ Load(m, s[n]) = Null
  /\ Variable \in Pool => n > 0 /\ s[n] = Variable

\* A set of naturals has a least element.
LEMMA Least ==
  ASSUME NEW T \in SUBSET Nat, T # {}
  PROVE  \E x \in T : \A y \in T : x <= y
<1>1. IsWellFoundedOn(OpToRel(<, Nat), Nat)
  BY NatLessThanWellFounded
<1>2. PICK x \in T : \A y \in T : ~(<<y, x>> \in OpToRel(<, Nat))
  BY <1>1, WFMin
<1>3. \A y \in T : ~(y < x)
  BY <1>2 DEF OpToRel
<1> QED
  BY <1>3

LEMMA SeqIs ==
  ASSUME NEW S, NEW q \in Seq(S)
  PROVE  DOMAIN q = 1 .. Len(q) /\ q \in [1 .. Len(q) -> S]
  OBVIOUS

LEMMA PoolFinite ==
  ASSUME layout \in Layouts
  PROVE  IsFiniteSet(Pool) /\ Cardinality(Pool) \in Nat
<1>1. Pool \in SUBSET Nat /\ layout.phystop \in Nat /\ \A p \in Pool : p <= layout.phystop
  BY PoolIs
<1>2. IsFiniteSet(Pool)
  BY <1>1, FS_BoundedSetOfNaturals
<1> QED
  BY <1>2, FS_CardinalityType

\* A list of different pages is no longer than the pool, and has as many pages.
LEMMA LinkedSize ==
  ASSUME layout \in Layouts, NEW m, NEW l, NEW n, NEW s, Linked(m, l, n, s)
  PROVE  /\ n <= Cardinality(Pool)
         /\ IsFiniteSet({s[i] : i \in 1 .. n}) /\ Cardinality({s[i] : i \in 1 .. n}) = n
<1> DEFINE T == {s[i] : i \in 1 .. n}
<1>1. n \in Nat /\ s \in [1 .. n -> Pool] /\ \A i, j \in 1 .. n : s[i] = s[j] => i = j
  BY DEF Linked
<1>2. IsFiniteSet(1 .. n) /\ Cardinality(1 .. n) = n
  BY <1>1, FS_Interval
<1>3. s \in Bijection(1 .. n, T)
  BY <1>1 DEF Bijection, Injection, Surjection, IsInjective
<1>4. ExistsBijection(1 .. n, T)
  BY <1>3 DEF ExistsBijection
<1>5. IsFiniteSet(T) /\ Cardinality(T) = n
  BY <1>2, <1>4, FS_Bijection
<1>6. T \in SUBSET Pool
  BY <1>1
<1>7. Cardinality(T) <= Cardinality(Pool)
  BY <1>6, PoolFinite, FS_Subset
<1> QED
  BY <1>5, <1>7

\* FreeList, which follows the links for as many steps as there are pages.
LEMMA FreeListIs ==
  ASSUME layout \in Layouts, NEW n, NEW s, Linked(mem, free_mem_list, n, s)
  PROVE  FreeList = [i \in 1 .. Cardinality(Pool) + 1 |-> IF i <= n THEN s[i] ELSE 0]
<1> DEFINE N == Cardinality(Pool)
           F(i) == IF i <= n THEN s[i] ELSE 0
           pool == Pool \ {Variable}
           After(list, j) == Append(list, IF list[j] \in pool THEN Load(mem, list[j]).at ELSE 0)
           Turn1(C) == [j \in 0 .. N |-> IF j = 0 THEN <<free_mem_list.at>> ELSE After(C[j - 1], j)]
           G == [j \in 0 .. N |-> [i \in 1 .. j + 1 |-> F(i)]]
           C == CHOOSE f : f = Turn1(f)
<1>1. N \in Nat
  BY PoolFinite
<1>2. FreeList = C[N]
  BY DEF FreeList, Variable
<1> HIDE DEF N
<1>3. /\ n \in Nat /\ s \in [1 .. n -> Pool]
      /\ \A i \in 1 .. n : s[i] \in Pool /\ s[i] \in Nat
      /\ 0 \notin Pool
  BY PoolWords DEF Linked
<1>4. \A i \in Nat : i > 0 => F(i) \in Nat
  BY <1>3
<1>5. F(1) = free_mem_list.at
  <2>1. CASE n = 0
    BY <2>1 DEF Linked, Null
  <2>2. CASE n # 0
    <3>1. free_mem_list = Ptr(s[1]) /\ F(1) = s[1]
      BY <1>3, <2>2 DEF Linked
    <3> QED
      BY <3>1, Kinds
  <2> QED
    BY <2>1, <2>2
<1>6. ASSUME NEW j \in Nat, j > 0
      PROVE  F(j + 1) = IF F(j) \in pool THEN Load(mem, F(j)).at ELSE 0
  <2>1. CASE j < n
    <3>1. F(j) = s[j] /\ F(j + 1) = s[j + 1] /\ j \in 1 .. n /\ s[j] \in pool
          /\ Load(mem, s[j]) = Ptr(s[j + 1])
      BY <1>3, <1>6, <2>1 DEF Linked
    <3> QED
      BY <3>1, Kinds
  <2>2. CASE j = n
    <3>1. F(j) = s[n] /\ F(j + 1) = 0 /\ (s[n] = Variable \/ Load(mem, s[n]) = Null)
      BY <1>3, <1>6, <2>2 DEF Linked
    <3> QED
      BY <3>1 DEF Null
  <2>3. CASE j > n
    BY <1>3, <1>6, <2>3
  <2> QED
    BY <1>3, <1>6, <2>1, <2>2, <2>3
<1> HIDE DEF F, pool
<1>7. \A j \in 0 .. N : /\ G[j] = [i \in 1 .. j + 1 |-> F(i)] /\ G[j] \in Seq(Nat) /\ Len(G[j]) = j + 1
                        /\ \A i \in 1 .. j + 1 : G[j][i] = F(i)
  <2> SUFFICES ASSUME NEW j \in 0 .. N
               PROVE  /\ G[j] = [i \in 1 .. j + 1 |-> F(i)] /\ G[j] \in Seq(Nat) /\ Len(G[j]) = j + 1
                      /\ \A i \in 1 .. j + 1 : G[j][i] = F(i)
    OBVIOUS
  <2> DEFINE g == [i \in 1 .. j + 1 |-> F(i)]
  <2>1. j + 1 \in Nat /\ \A i \in 1 .. j + 1 : F(i) \in Nat
    BY <1>1, <1>4
  <2>2. g \in [1 .. j + 1 -> Nat]
    BY <2>1
  <2>3. g \in Seq(Nat) /\ Len(g) = j + 1
    BY <2>1, <2>2
  <2>4. G[j] = g
    OBVIOUS
  <2> QED
    BY <2>3, <2>4
<1>8. ASSUME NEW j \in 0 .. N
      PROVE  G[j] = IF j = 0 THEN <<free_mem_list.at>> ELSE After(G[j - 1], j)
  <2>1. CASE j = 0
    <3>1. G[0] = [i \in 1 .. 1 |-> F(i)]
      BY <1>7, <2>1
    <3>2. [i \in 1 .. 1 |-> F(i)] = <<F(1)>>
      OBVIOUS
    <3> QED
      BY <1>5, <2>1, <3>1, <3>2
  <2>2. CASE j # 0
    <3> DEFINE g == G[j - 1]
               e == IF F(j) \in pool THEN Load(mem, F(j)).at ELSE 0
    <3>1. j - 1 \in 0 .. N /\ j \in Nat /\ j > 0
      BY <1>1, <2>2
    <3>2. g \in Seq(Nat) /\ Len(g) = j /\ (\A i \in 1 .. j : g[i] = F(i)) /\ g[j] = F(j)
      BY <1>7, <3>1
    <3>3. e = F(j + 1) /\ e \in Nat
      BY <1>4, <1>6, <3>1
    <3>4. After(g, j) = Append(g, e)
      BY <3>2
    <3> HIDE DEF g, e, After
    <3>5. /\ Append(g, e) \in Seq(Nat) /\ Len(Append(g, e)) = j + 1
          /\ \A i \in 1 .. j : Append(g, e)[i] = F(i)
          /\ Append(g, e)[j + 1] = F(j + 1)
      BY <3>1, <3>2, <3>3, AppendProperties
    <3>6. Append(g, e) = [i \in 1 .. j + 1 |-> F(i)]
      <4>1. DOMAIN Append(g, e) = 1 .. j + 1 /\ Append(g, e) \in [1 .. j + 1 -> Nat]
        BY <3>1, <3>5, SeqIs
      <4>2. \A i \in 1 .. j + 1 : Append(g, e)[i] = F(i)
        BY <3>1, <3>5
      <4> QED
        BY <4>1, <4>2
    <3> QED
      BY <1>7, <2>2, <3>4, <3>6 DEF g
  <2> QED
    BY <2>1, <2>2
<1> HIDE DEF G, After
<1>9. \E f : f = Turn1(f)
  <2>1. G = [j \in 0 .. N |-> G[j]]
    BY DEF G
  <2>2. G = Turn1(G)
    BY <1>8, <2>1
  <2> QED
    BY <2>2
<1>10. C = Turn1(C)
  BY <1>9
<1> HIDE DEF C
<1>11. \A j \in 0 .. N : C[j] = IF j = 0 THEN <<free_mem_list.at>> ELSE After(C[j - 1], j)
  BY <1>10
<1>12. C[N] = G[N]
  <2> DEFINE T == {j \in 0 .. N : C[j] # G[j]}
  <2>1. ASSUME T # {} PROVE FALSE
    <3>1. PICK j \in T : \A k \in T : j <= k
      <4>1. T \in SUBSET Nat
        BY <1>1
      <4> HIDE DEF T
      <4> QED
        BY <2>1, <4>1, Least
    <3>2. j # 0
      BY <1>8, <1>11, <3>1
    <3>3. j - 1 \in 0 .. N /\ j - 1 \notin T
      BY <1>1, <3>1, <3>2
    <3>4. C[j - 1] = G[j - 1]
      BY <3>3
    <3> QED
      BY <1>8, <1>11, <3>1, <3>2, <3>4
  <2> QED
    BY <1>1, <2>1
<1> QED
  BY <1>1, <1>2, <1>7, <1>12 DEF F, N

\* What the properties make of such a list when the rest of the pool is accounted for.
Cells(n, s) == {s[i] : i \in 1 .. n}
Listed(list) == {list[k] : k \in DOMAIN list} \ {0}

LEMMA BalanceIs ==
  ASSUME layout \in Layouts, NEW n, NEW s, Linked(mem, free_mem_list, n, s),
         NEW T, NEW H, Cells(n, s) \cup T \cup H = Pool,
         Cells(n, s) \cap (T \cup H) = {}, T \cap H = {},
         NEW list, list = FreeList
  PROVE  /\ list[Len(list)] = 0 /\ Listed(list) \cup T \cup H = Pool
         /\ Cardinality(Listed(list)) + Cardinality(T) + Cardinality(H) = Cardinality(Pool)
<1> DEFINE N == Cardinality(Pool)
           S == {s[i] : i \in 1 .. n}
           free == {list[k] : k \in DOMAIN list} \ {0}
<1>0. Cells(n, s) = S /\ Listed(list) = free
  BY DEF Cells, Listed
<1>1. N \in Nat /\ n \in Nat /\ n <= N /\ IsFiniteSet(Pool)
  BY PoolFinite, LinkedSize DEF Linked
<1>2. list = [i \in 1 .. N + 1 |-> IF i <= n THEN s[i] ELSE 0]
  BY FreeListIs
<1>3. \A i \in 1 .. n : s[i] # 0
  BY PoolWords DEF Linked
<1> HIDE DEF N
<1>4. DOMAIN list = 1 .. N + 1 /\ Len(list) = N + 1
  BY <1>1, <1>2
<1>5. list[Len(list)] = 0
  BY <1>1, <1>2, <1>4
<1>6. free = S
  <2>1. \A i \in 1 .. n : i \in DOMAIN list /\ list[i] = s[i]
    BY <1>1, <1>2, <1>4
  <2>2. \A i \in DOMAIN list : list[i] # 0 => i \in 1 .. n /\ list[i] = s[i]
    BY <1>1, <1>2, <1>4
  <2>3. S \subseteq free
    BY <1>3, <2>1
  <2>4. free \subseteq S
    BY <2>2
  <2> QED
    BY <2>3, <2>4
<1>7. S \cup T \cup H = Pool /\ S \cap (T \cup H) = {}
  BY <1>0
<1> HIDE DEF S, free
<1>8. IsFiniteSet(S) /\ IsFiniteSet(T) /\ IsFiniteSet(H) /\ IsFiniteSet(T \cup H)
  <2>1. S \in SUBSET Pool /\ T \in SUBSET Pool /\ H \in SUBSET Pool /\ (T \cup H) \in SUBSET Pool
    BY <1>7
  <2> QED
    BY <1>1, <2>1, FS_Subset
<1>9. Cardinality(T \cup H) = Cardinality(T) + Cardinality(H)
  <2>1. Cardinality(T \cap H) = 0
    BY FS_EmptySet
  <2>2. Cardinality(T) \in Nat /\ Cardinality(H) \in Nat
    BY <1>8, FS_CardinalityType
  <2>3. Cardinality(T \cup H) = Cardinality(T) + Cardinality(H) - Cardinality(T \cap H)
    BY <1>8, FS_Union
  <2> QED
    BY <2>1, <2>2, <2>3
<1>10. Cardinality(S \cup (T \cup H)) = Cardinality(S) + Cardinality(T \cup H)
  <2>1. Cardinality(S \cap (T \cup H)) = 0
    BY <1>7, FS_EmptySet
  <2>2. Cardinality(S) \in Nat /\ Cardinality(T \cup H) \in Nat
    BY <1>8, FS_CardinalityType
  <2>3. Cardinality(S \cup (T \cup H)) = Cardinality(S) + Cardinality(T \cup H) - Cardinality(S \cap (T \cup H))
    BY <1>8, FS_Union
  <2> QED
    BY <2>1, <2>2, <2>3
<1>11. Cardinality(S) + Cardinality(T) + Cardinality(H) = Cardinality(Pool)
  <2>1. Cardinality(S \cup (T \cup H)) = Cardinality(Pool)
    <3>1. S \cup (T \cup H) = Pool
      BY <1>7
    <3> QED
      BY <3>1
  <2>2. Cardinality(S) \in Nat /\ Cardinality(T) \in Nat /\ Cardinality(H) \in Nat
    BY <1>8, FS_CardinalityType
  <2> QED
    BY <1>9, <1>10, <2>1, <2>2
<1> QED
  BY <1>0, <1>5, <1>6, <1>7, <1>11

LEMMA LinkedSame ==
  ASSUME layout' = layout
  PROVE  \A m, l, n, s : Linked(m, l, n, s)' <=> Linked(m, l, n, s)
<1>1. Pool' = Pool /\ Variable' = Variable
  BY PoolSame
<1> QED
  BY <1>1 DEF Linked

\* Stores elsewhere.
LEMMA LinkedKept ==
  ASSUME NEW m, NEW m2, NEW l, NEW n, NEW s, Linked(m, l, n, s),
         \A i \in 1 .. n : Load(m2, s[i]) = Load(m, s[i])
  PROVE  Linked(m2, l, n, s)
  BY DEF Linked

\* kalloc takes the first page,
LEMMA LinkedTail ==
  ASSUME layout \in Layouts, NEW m, NEW l, NEW n, NEW s, Linked(m, l, n, s), l # Null,
         l # Ptr(Variable)
  PROVE  /\ l.at \in {s[i] : i \in 1 .. n}
         /\ \E t : /\ Linked(m, Load(m, l.at), n - 1, t)
                   /\ {t[i] : i \in 1 .. n - 1} = {s[i] : i \in 1 .. n} \ {l.at}
<1>1. /\ n \in Nat /\ s \in [1 .. n -> Pool] /\ \A i, j \in 1 .. n : s[i] = s[j] => i = j
      /\ l = IF n = 0 THEN Null ELSE Ptr(s[1])
      /\ \A i \in 1 .. n : i < n => s[i] # Variable /\ Load(m, s[i]) = Ptr(s[i + 1])
      /\ n > 0 => s[n] = Variable \/ Load(m, s[n]) = Null
      /\ Variable \in Pool => n > 0 /\ s[n] = Variable
  BY DEF Linked
<1>2. n > 0 /\ l = Ptr(s[1]) /\ l.at = s[1] /\ s[1] # Variable
  <2>1. n > 0 /\ l = Ptr(s[1])
    BY <1>1
  <2> QED
    BY <2>1, Kinds
<1> DEFINE t == [i \in 1 .. n - 1 |-> s[i + 1]]
<1>3. n - 1 \in Nat /\ \A i \in 1 .. n - 1 : i \in 1 .. n /\ i + 1 \in 1 .. n /\ t[i] = s[i + 1]
  BY <1>1, <1>2
<1>4. t \in [1 .. n - 1 -> Pool] /\ \A i, j \in 1 .. n - 1 : t[i] = t[j] => i = j
  BY <1>1, <1>3
<1>5. \A i \in 1 .. n - 1 : i < n - 1 => t[i] # Variable /\ Load(m, t[i]) = Ptr(t[i + 1])
  BY <1>1, <1>3
<1>6. Load(m, l.at) = IF n - 1 = 0 THEN Null ELSE Ptr(t[1])
  <2>1. CASE n = 1
    BY <1>1, <1>2, <2>1
  <2>2. CASE n # 1
    BY <1>1, <1>2, <1>3, <2>2
  <2> QED
    BY <2>1, <2>2
<1>7. /\ n - 1 > 0 => t[n - 1] = Variable \/ Load(m, t[n - 1]) = Null
      /\ Variable \in Pool => n - 1 > 0 /\ t[n - 1] = Variable
  <2>1. n - 1 > 0 => t[n - 1] = s[n]
    BY <1>1, <1>3
  <2>2. Variable \in Pool => n # 1
    BY <1>1, <1>2
  <2> QED
    BY <1>1, <1>2, <2>1, <2>2
<1>8. Linked(m, Load(m, l.at), n - 1, t)
  BY <1>3, <1>4, <1>5, <1>6, <1>7 DEF Linked
<1>9. {t[i] : i \in 1 .. n - 1} = {s[i] : i \in 1 .. n} \ {l.at}
  <2>1. ASSUME NEW i \in 1 .. n - 1 PROVE t[i] \in {s[j] : j \in 1 .. n} \ {l.at}
    <3>1. i + 1 # 1 /\ 1 \in 1 .. n
      BY <1>1, <1>2, <2>1
    <3> QED
      BY <1>1, <1>2, <1>3, <2>1, <3>1
  <2>2. ASSUME NEW j \in 1 .. n, s[j] # l.at PROVE s[j] \in {t[i] : i \in 1 .. n - 1}
    <3>1. j - 1 \in 1 .. n - 1 /\ (j - 1) + 1 = j
      BY <1>1, <1>2, <2>2
    <3> QED
      BY <1>3, <3>1
  <2> QED
    BY <2>1, <2>2
<1>10. l.at \in {s[i] : i \in 1 .. n}
  BY <1>1, <1>2
<1> QED
  BY <1>8, <1>9, <1>10

\* and kfree puts one in front of it.
LEMMA LinkedCons ==
  ASSUME NEW m, NEW l, NEW n, NEW s, Linked(m, l, n, s), NEW p \in Pool, p # Variable,
         p \notin {s[i] : i \in 1 .. n}, Load(m, p) = l
  PROVE  \E t : /\ Linked(m, Ptr(p), n + 1, t)
                /\ {t[i] : i \in 1 .. n + 1} = {s[i] : i \in 1 .. n} \cup {p}
<1>1. /\ n \in Nat /\ s \in [1 .. n -> Pool] /\ \A i, j \in 1 .. n : s[i] = s[j] => i = j
      /\ l = IF n = 0 THEN Null ELSE Ptr(s[1])
      /\ \A i \in 1 .. n : i < n => s[i] # Variable /\ Load(m, s[i]) = Ptr(s[i + 1])
      /\ n > 0 => s[n] = Variable \/ Load(m, s[n]) = Null
      /\ Variable \in Pool => n > 0 /\ s[n] = Variable
  BY DEF Linked
<1> DEFINE t == [i \in 1 .. n + 1 |-> IF i = 1 THEN p ELSE s[i - 1]]
<1>2. n + 1 \in Nat /\ n + 1 > 0 /\ t[1] = p
      /\ \A i \in 1 .. n : i + 1 \in 1 .. n + 1 /\ t[i + 1] = s[i] /\ s[i] # p
  BY <1>1
<1>3. \A j \in 1 .. n + 1 : j = 1 \/ (j - 1 \in 1 .. n /\ t[j] = s[j - 1])
  BY <1>1
<1>4. t \in [1 .. n + 1 -> Pool] /\ \A i, j \in 1 .. n + 1 : t[i] = t[j] => i = j
  BY <1>1, <1>2, <1>3
<1>5. ASSUME NEW i \in 1 .. n + 1, i < n + 1
      PROVE  t[i] # Variable /\ Load(m, t[i]) = Ptr(t[i + 1])
  <2>1. CASE i = 1
    <3>1. n > 0 /\ 1 \in 1 .. n /\ t[1 + 1] = s[1]
      BY <1>1, <1>2, <1>5, <2>1
    <3> QED
      BY <1>1, <1>2, <2>1, <3>1
  <2>2. CASE i # 1
    <3>1. i - 1 \in 1 .. n /\ i - 1 < n /\ i \in 1 .. n /\ t[i] = s[i - 1] /\ t[i + 1] = s[i]
      BY <1>1, <1>2, <1>3, <1>5, <2>2
    <3>2. (i - 1) + 1 = i
      OBVIOUS
    <3> QED
      BY <1>1, <3>1, <3>2
  <2> QED
    BY <2>1, <2>2
<1>6. t[n + 1] = Variable \/ Load(m, t[n + 1]) = Null
  BY <1>1, <1>2, n = 0 \/ n \in 1 .. n
<1>7. Variable \in Pool => t[n + 1] = Variable
  BY <1>1, <1>2
<1>8. Linked(m, Ptr(p), n + 1, t)
  BY <1>2, <1>4, <1>5, <1>6, <1>7 DEF Linked
<1>9. {t[i] : i \in 1 .. n + 1} = {s[i] : i \in 1 .. n} \cup {p}
  <2>1. ASSUME NEW j \in 1 .. n + 1 PROVE t[j] \in {s[i] : i \in 1 .. n} \cup {p}
    BY <1>2, <1>3
  <2>2. ASSUME NEW i \in 1 .. n PROVE s[i] \in {t[j] : j \in 1 .. n + 1}
    BY <1>2
  <2>3. p \in {t[j] : j \in 1 .. n + 1}
    <3>1. 1 \in 1 .. n + 1
      BY <1>1
    <3> QED
      BY <1>2, <3>1
  <2> HIDE DEF t
  <2> QED
    BY <2>1, <2>2, <2>3
<1> QED
  BY <1>8, <1>9

\* During boot the list runs through its pages from the last to the first.
LEMMA BootLinked ==
  ASSUME layout \in Layouts, NEW m, NEW l, BootList(m, l)
  PROVE  \E n, s : Linked(m, l, n, s) /\ {s[i] : i \in 1 .. n} = Free(l)
<1>1. CASE l = Null
  <2> DEFINE s == [i \in 1 .. 0 |-> Low]
  <2>1. Free(l) = {} /\ Variable \notin Pool
    BY <1>1 DEF Free, BootList
  <2>2. Linked(m, l, 0, s)
    BY <1>1, <2>1 DEF Linked
  <2>3. {s[i] : i \in 1 .. 0} = {}
    OBVIOUS
  <2> QED
    BY <2>1, <2>2, <2>3
<1>2. CASE l # Null
  <2>1. PICK h \in Pool : l = Ptr(h)
    BY <1>2 DEF BootList
  <2> DEFINE x == h \div PGSIZE
             y == Low \div PGSIZE
             n == (x - y) + 1
             s == [i \in 1 .. n |-> h - (i - 1) * PGSIZE]
  <2>2. /\ Low \in Nat /\ Low % PGSIZE = 0 /\ PGSIZE \in Nat /\ PGSIZE > 0
        /\ h \in Nat /\ h % PGSIZE = 0 /\ Low <= h
        /\ \A p : p \in Pool <=> p \in Nat /\ p % PGSIZE = 0 /\ Low <= p /\ p < layout.phystop
        /\ layout.phystop \in Nat /\ h < layout.phystop
    BY PoolIs, SizeNat
  <2>3. x \in Nat /\ h = x * PGSIZE /\ y \in Nat /\ Low = y * PGSIZE
    BY <2>2, Divides
  <2> HIDE DEF x, y
  <2>4. y <= x
    <3> SUFFICES ASSUME x + 1 <= y PROVE FALSE
      BY <2>3
    <3>1. (x + 1) * PGSIZE <= y * PGSIZE
      BY <2>2, <2>3
    <3> QED
      BY <2>2, <2>3, <3>1
  <2>5. n \in Nat /\ n > 0
    BY <2>3, <2>4
  <2>6. ASSUME NEW i \in 1 .. n
        PROVE  /\ s[i] = (x - (i - 1)) * PGSIZE /\ x - (i - 1) \in Nat /\ y <= x - (i - 1)
               /\ s[i] \in Pool /\ s[i] \in Nat /\ s[i] <= h /\ Low <= s[i]
               /\ i < n => s[i] # Low /\ s[i] - PGSIZE = s[i + 1]
               /\ i = n => s[i] = Low
    <3>1. x - (i - 1) \in Nat /\ y <= x - (i - 1) /\ i \in Nat /\ i > 0
      BY <2>3, <2>4
    <3> DEFINE z == x - (i - 1)
    <3>2. s[i] = h - (i - 1) * PGSIZE
      OBVIOUS
    <3>3. s[i] = z * PGSIZE
      BY <2>2, <2>3, <3>1, <3>2
    <3>4. z * PGSIZE \in Nat /\ (z * PGSIZE) % PGSIZE = 0
      <4>1. z \in Nat
        BY <3>1
      <4> HIDE DEF z
      <4>2. z * PGSIZE \in Nat
        BY <4>1, <2>2, Products
      <4>3. z \in Int /\ z * PGSIZE \in Int
        BY <4>1, <4>2
      <4> QED
        BY <4>2, <4>3, Multiple
    <3>5. y * PGSIZE <= z * PGSIZE
      BY <2>2, <2>3, <3>1
    <3>6. 0 <= (i - 1) * PGSIZE
      BY <2>2, <3>1
    <3>7. s[i] <= h
      BY <2>2, <3>2, <3>1, <3>6, Products
    <3>8. s[i] \in Pool
      <4>1. s[i] \in Nat /\ s[i] % PGSIZE = 0 /\ Low <= s[i]
        BY <2>3, <3>3, <3>4, <3>5
      <4>2. s[i] < layout.phystop
        BY <2>2, <3>7, <4>1
      <4> HIDE DEF s
      <4> QED
        BY <2>2, <4>1, <4>2
    <3>9. i < n => s[i] # Low /\ s[i] - PGSIZE = s[i + 1]
      <4> SUFFICES ASSUME i < n PROVE s[i] # Low /\ s[i] - PGSIZE = s[i + 1]
        OBVIOUS
      <4>1. y + 1 <= z /\ i + 1 \in 1 .. n
        BY <2>3, <2>5, <3>1
      <4>2. (y + 1) * PGSIZE <= z * PGSIZE
        BY <2>2, <2>3, <3>1, <4>1
      <4>3. (y + 1) * PGSIZE = y * PGSIZE + PGSIZE
        BY <2>2, <2>3
      <4>4. s[i + 1] = h - i * PGSIZE
        BY <4>1, <3>1
      <4>5. i * PGSIZE = (i - 1) * PGSIZE + PGSIZE
        BY <2>2, <3>1
      <4>6. (i - 1) * PGSIZE \in Nat /\ y * PGSIZE \in Nat
        BY <2>2, <2>3, <3>1, Products
      <4> QED
        BY <2>2, <2>3, <3>2, <3>3, <3>4, <4>2, <4>3, <4>4, <4>5, <4>6
    <3>10. i = n => s[i] = Low
      <4>1. i = n => z = y
        BY <2>3, <3>1
      <4> QED
        BY <2>3, <3>3, <4>1
    <3> QED
      BY <2>3, <3>1, <3>3, <3>4, <3>5, <3>7, <3>8, <3>9, <3>10
  <2>7. \A i, j \in 1 .. n : s[i] = s[j] => i = j
    <3>0. SUFFICES ASSUME NEW i \in 1 .. n, NEW j \in 1 .. n, s[i] = s[j] PROVE i = j
      OBVIOUS
    <3> DEFINE zi == x - (i - 1)
               zj == x - (j - 1)
    <3>1. zi \in Nat /\ zj \in Nat /\ zi * PGSIZE = zj * PGSIZE
      <4>1. s[i] = zi * PGSIZE /\ zi \in Nat
        BY <2>6
      <4>2. s[j] = zj * PGSIZE /\ zj \in Nat
        BY <2>6
      <4> HIDE DEF s, zi, zj
      <4> QED
        BY <3>0, <4>1, <4>2
    <3> HIDE DEF zi, zj
    <3>2. zi = zj
      BY <2>2, <3>1, Multiple
    <3> QED
      BY <2>3, <3>2 DEF zi, zj
  <2> HIDE DEF s
  <2>8. s[1] = h
    <3>1. 1 \in 1 .. n
      BY <2>5
    <3>2. s[1] = h - (1 - 1) * PGSIZE
      BY <3>1 DEF s
    <3> QED
      BY <2>2, <3>2
  <2> HIDE DEF n
  <2>9. \A p \in Free(l) \ {Variable} : Load(m, p) = IF p = Low THEN Null ELSE Ptr(p - PGSIZE)
    BY DEF BootList
  <2>10. Variable \in Nat /\ (Variable \in Pool => Variable = Low)
    BY PoolWords
  <2>11. l.at = h /\ Free(l) = {p \in Pool : p <= h}
    BY <1>2, <2>1, Kinds DEF Free
  <2>12. ASSUME NEW i \in 1 .. n, i < n
         PROVE  s[i] # Variable /\ Load(m, s[i]) = Ptr(s[i + 1])
    <3>1. s[i] # Variable /\ s[i] \in Free(l)
      BY <2>6, <2>10, <2>11, <2>12
    <3> QED
      BY <2>6, <2>9, <2>12, <3>1
  <2>13. s[n] = Low /\ s[n] \in Free(l)
    <3>1. n \in 1 .. n
      BY <2>5
    <3> QED
      BY <2>6, <2>11, <3>1
  <2>14. s[n] = Variable \/ Load(m, s[n]) = Null
    BY <2>9, <2>13
  <2>15. s \in [1 .. n -> Pool]
    <3>1. s = [i \in 1 .. n |-> s[i]]
      BY DEF s
    <3> QED
      BY <2>6, <3>1
  <2>16. Linked(m, l, n, s)
    BY <1>2, <2>1, <2>5, <2>7, <2>8, <2>10, <2>12, <2>13, <2>14, <2>15 DEF Linked
  <2>17. {s[i] : i \in 1 .. n} = Free(l)
    <3>1. ASSUME NEW p \in Free(l) PROVE \E i \in 1 .. n : s[i] = p
      <4> DEFINE z == p \div PGSIZE
      <4>1. p \in Nat /\ p % PGSIZE = 0 /\ Low <= p /\ p <= h
        BY <2>2, <2>11
      <4>2. z \in Nat /\ p = z * PGSIZE
        BY <4>1, Divides
      <4> HIDE DEF z
      <4>3. y <= z /\ z <= x
        <5>1. ASSUME z + 1 <= y PROVE FALSE
          <6>1. (z + 1) * PGSIZE <= y * PGSIZE
            BY <2>2, <2>3, <4>2, <5>1
          <6>2. (z + 1) * PGSIZE = z * PGSIZE + PGSIZE /\ z * PGSIZE \in Nat /\ y * PGSIZE \in Nat
            BY <2>2, <2>3, <4>2, Products
          <6> QED
            BY <2>2, <2>3, <4>1, <4>2, <6>1, <6>2
        <5>2. ASSUME x + 1 <= z PROVE FALSE
          <6>1. (x + 1) * PGSIZE <= z * PGSIZE
            BY <2>2, <2>3, <4>2, <5>2
          <6>2. (x + 1) * PGSIZE = x * PGSIZE + PGSIZE /\ z * PGSIZE \in Nat /\ x * PGSIZE \in Nat
            BY <2>2, <2>3, <4>2, Products
          <6> QED
            BY <2>2, <2>3, <4>1, <4>2, <6>1, <6>2
        <5> QED
          BY <2>3, <4>2, <5>1, <5>2
      <4> DEFINE i == (x - z) + 1
      <4>4. i \in 1 .. n /\ x - (i - 1) = z
        BY <2>3, <4>2, <4>3 DEF n
      <4>5. s[i] = z * PGSIZE
        BY <2>6, <4>4
      <4> QED
        BY <4>2, <4>4, <4>5
    <3>2. \A i \in 1 .. n : s[i] \in Free(l)
      BY <2>6, <2>11
    <3> QED
      BY <3>1, <3>2
  <2> QED
    BY <2>16, <2>17
<1> QED
  BY <1>1, <1>2
-----------------------------------------------------------------------------
(* Every page is in one place                                              *)

Away == {"kalloc_zero", "kfree_link", "kfree_store"}

\* The list, the tables and the pages handed out are the pool, and none of the
\* list is one of the others.
Account ==
  \E n, s :
    /\ Linked(mem, free_mem_list, n, s)
    /\ {s[i] : i \in 1 .. n} \cup Taken(mem, kernel_pagetable) \cup Handed = Pool
    /\ {s[i] : i \in 1 .. n} \cap (Taken(mem, kernel_pagetable) \cup Handed) = {}

\* The one caller: the list has not moved since it looked at it.
Undisturbed(c) ==
  /\ held[c] \cap Users = {}
  /\ call[c] \in {"kalloc_next", "kalloc_store"} => r[c] = free_mem_list /\ free_mem_list # Null
  /\ call[c] = "kalloc_store" => next[c] = Load(mem, r[c].at)
  /\ call[c] \in Away => r[c].at \notin Users \cup held[c]
  /\ call[c] = "kfree_link" => next[c] = free_mem_list
  /\ call[c] = "kfree_store" => Load(mem, r[c].at) = free_mem_list

Absent(c) == call[c] = "none" /\ held[c] = {}

BalanceInv ==
  bpc = "scheduler" /\ priv = "S" /\ Cardinality(active) <= 1 =>
    /\ \A c \in Callers \ active : Absent(c)
    /\ \A c \in active : Undisturbed(c)
    /\ Account

\* M-mode is left with start.
ModeInv ==
  bpc \in {"start", "delegate", "mtimecmp", "mtvec", "mtie", "mie", "tp", "mret"} => priv = "M"

LEMMA InitMode == Init => ModeInv
  BY DEF Init, ModeInv

LEMMA ModeStep == ModeInv /\ [Next]_vars => ModeInv'
<1> SUFFICES ASSUME ModeInv, [Next]_vars PROVE ModeInv'
  OBVIOUS
<1>1. CASE StartMret \/ StartDelegate \/ TimerArm \/ TimerVector \/ TimerEnable
             \/ TimerUnmask \/ StartTp
  BY <1>1 DEF ModeInv, StartMret, StartDelegate, TimerArm, TimerVector, TimerEnable,
              TimerUnmask, StartTp, Statement, From, machine
<1>2. CASE Mret
  BY <1>2 DEF ModeInv, Mret
<1>3. CASE StartMain \/ Kinit \/ Kvmininit
  BY <1>3 DEF ModeInv, StartMain, Kinit, Kvmininit, KernelRuns, panic
<1>4. CASE Mappages
  BY <1>4 DEF ModeInv, Mappages, NextRegion, KernelRuns, panic
<1>5. CASE KvminithartSatp \/ KvminithartFence \/ Trapinithart \/ IntrOn \/ Initializes
  BY <1>5 DEF ModeInv, KvminithartSatp, KvminithartFence, Trapinithart, IntrOn, Initializes,
              Sets, KernelRuns
<1>6. CASE Userinit
  BY <1>6 DEF ModeInv, Userinit, UserinitPage, UserinitGrant, UserAfter, UserPages, KernelRuns,
              panic
<1>7. CASE MachineTimer \/ SoftwareInterrupt \/ KernelFaults
  BY <1>7 DEF ModeInv, MachineTimer, SoftwareInterrupt, KernelFaults
<1>8. CASE Cache \/ Evict \/ CallerRuns \/ CallerFaults
  BY <1>8 DEF ModeInv, Cache, Evict, CallerRuns, CallerFaults, panic
<1>9. CASE Rests \/ UNCHANGED vars
  BY <1>9 DEF ModeInv, Rests, vars
<1> QED
  BY <1>1, <1>2, <1>3, <1>4, <1>5, <1>6, <1>7, <1>8, <1>9 DEF Next, Hart

\* What is handed out when c is the only caller.
OneCaller ==
  \A c \in Callers : (\A d \in Callers \ {c} : Absent(d)) =>
    Handed = held[c] \cup Users \cup (IF call[c] \in Away THEN {r[c].at} ELSE {})

LEMMA HandedIs == OneCaller
<1> SUFFICES ASSUME NEW c \in Callers, \A d \in Callers \ {c} : Absent(d)
             PROVE  Handed = held[c] \cup Users \cup (IF call[c] \in Away THEN {r[c].at} ELSE {})
  BY DEF OneCaller
<1> DEFINE taken == UNION {held[d] : d \in Callers}
           away == {r[d].at : d \in {d \in Callers : call[d] \in {"kalloc_zero", "kfree_link", "kfree_store"}}}
<1>1. taken = held[c]
  BY DEF Absent
<1>2. away = IF call[c] \in Away THEN {r[c].at} ELSE {}
  BY DEF Absent, Away
<1>3. Handed = taken \cup Users \cup away
  BY DEF Handed, Users
<1> HIDE DEF taken, away
<1> QED
  BY <1>1, <1>2, <1>3

LEMMA IdleHanded == (\A c \in Callers : Absent(c)) => Handed = Users
<1> SUFFICES ASSUME \A c \in Callers : Absent(c) PROVE Handed = Users
  OBVIOUS
<1> DEFINE taken == UNION {held[d] : d \in Callers}
           away == {r[d].at : d \in {d \in Callers : call[d] \in {"kalloc_zero", "kfree_link", "kfree_store"}}}
<1>1. taken = {}
  BY DEF Absent
<1>2. away = {}
  BY DEF Absent
<1>3. Handed = taken \cup Users \cup away
  BY DEF Handed, Users
<1> HIDE DEF taken, away
<1> QED
  BY <1>1, <1>2, <1>3

LEMMA BootAccount == layout \in Layouts /\ BootInv /\ Idle => Account
<1> SUFFICES ASSUME layout \in Layouts, BootInv, Idle PROVE Account
  OBVIOUS
<1>1. BootHeap(mem, free_mem_list, kernel_pagetable, Users)
  BY DEF BootInv
<1>2. /\ BootList(mem, free_mem_list)
      /\ Taken(mem, kernel_pagetable) \cup Users = Pool \ Free(free_mem_list)
      /\ Taken(mem, kernel_pagetable) \cap Users = {}
  BY <1>1 DEF BootHeap
<1>3. PICK n, s : Linked(mem, free_mem_list, n, s) /\ {s[i] : i \in 1 .. n} = Free(free_mem_list)
  BY <1>2, BootLinked
<1>4. Handed = Users
  BY IdleHanded DEF Idle, Absent
<1>5. Free(free_mem_list) \subseteq Pool
  BY DEF Free
<1> QED
  BY <1>2, <1>3, <1>4, <1>5 DEF Account

\* A step of the only caller c.
LEMMA AccountStep ==
  ASSUME ControlInv, CallerInv, CallerInv', VariableSpared, UNCHANGED <<layout, satp, user>>,
         NEW c \in Callers, \A d \in Callers \ {c} : Absent(d), Undisturbed(c), Account,
         CallerStep(c)
  PROVE  /\ \A d \in Callers \ {c} : Absent(d)'
         /\ Undisturbed(c)' /\ Account'
<1> DEFINE T == Taken(mem, satp)
           away(k, q) == IF k \in Away THEN {q.at} ELSE {}
           L(m, l, n, s) == Linked(m, l, n, s)
<1>1. layout \in Layouts /\ DOMAIN call = Callers /\ DOMAIN r = Callers /\ DOMAIN next = Callers
      /\ DOMAIN held = Callers
  BY DEF ControlInv
<1>2. Pool' = Pool /\ Users' = Users /\ Variable' = Variable
  BY PoolSame DEF Users
<1>3. kernel_pagetable = satp /\ kernel_pagetable' = satp
  <2>1. Load(mem, Variable) = Ptr(satp) /\ Load(mem', Variable') = Ptr(satp')
    BY DEF CallerInv, TreeInv
  <2>2. kernel_pagetable = Load(mem, Variable).at /\ kernel_pagetable' = Load(mem', Variable').at
    BY DEF kernel_pagetable, Variable
  <2> QED
    BY <2>1, <2>2, Kinds
<1>4. Handed = held[c] \cup Users \cup away(call[c], r[c])
  BY HandedIs DEF OneCaller
<1>5. (\A d \in Callers \ {c} : Absent(d)') =>
        Handed' = held'[c] \cup Users \cup away(call'[c], r'[c])
  <2>1. (\A d \in Callers \ {c} : Absent(d)') =>
          Handed' = held'[c] \cup Users' \cup (IF call'[c] \in Away' THEN {r'[c].at} ELSE {})
    <3>1. OneCaller'
      BY HandedIs, PTL
    <3> QED
      BY <3>1 DEF OneCaller
  <2>2. Away' = Away
    BY DEF Away
  <2> QED
    BY <1>2, <2>1, <2>2
<1>6. PICK n, s : /\ L(mem, free_mem_list, n, s)
                  /\ {s[i] : i \in 1 .. n} \cup T \cup Handed = Pool
                  /\ {s[i] : i \in 1 .. n} \cap (T \cup Handed) = {}
  BY <1>3 DEF Account
<1> DEFINE S == {s[i] : i \in 1 .. n}
<1>7. \A i \in 1 .. n : s[i] \in S /\ s[i] \in Pool
  BY <1>6 DEF Linked
<1>8. ASSUME NEW k, NEW q, L(mem', free_mem_list', k, q), Taken(mem', satp) = T,
             {q[i] : i \in 1 .. k} \cup T \cup Handed' = Pool,
             {q[i] : i \in 1 .. k} \cap (T \cup Handed') = {}
      PROVE  Account'
  <2>1. Linked(mem, free_mem_list, k, q)'
    BY <1>8, LinkedSame
  <2>2. Taken(mem, kernel_pagetable)' = T
    <3>1. Taken(mem, satp)' = T
      BY <1>8, HeapSame
    <3> QED
      BY <1>3, <3>1, HeapSame
  <2> HIDE DEF T, L
  <2> QED
    BY <1>2, <1>8, <2>1, <2>2 DEF Account
<1>9. /\ r[c] # Ptr(Variable) /\ held[c] \subseteq Others
      /\ call[c] \notin {"none", "kalloc_next"} => \E p \in Others : r[c] = Ptr(p)
  BY DEF VariableSpared, CallerInv, Calls
<1>10. Others \subseteq Pool /\ Variable \notin Others /\ Others \cap T = {}
       /\ \A p \in Others : p \in WordsOf(p)
  BY <1>1, PoolWords DEF Others, Spare
<1>11. /\ held[c] \cap Users = {}
       /\ call[c] \in {"kalloc_next", "kalloc_store"} => r[c] = free_mem_list /\ free_mem_list # Null
       /\ call[c] = "kalloc_store" => next[c] = Load(mem, r[c].at)
       /\ call[c] \in Away => r[c].at \notin Users \cup held[c]
       /\ call[c] = "kfree_link" => next[c] = free_mem_list
       /\ call[c] = "kfree_store" => Load(mem, r[c].at) = free_mem_list
  BY DEF Undisturbed
<1>12. ASSUME NEW p \in Others, p \notin S, NEW m, Loose(Load(m, p)),
              \A x : x \notin WordsOf(p) => Load(m, x) = Load(mem, x)
       PROVE  Taken(m, satp) = T /\ L(m, free_mem_list, n, s)
  <2>1. Taken(m, satp) = T
    BY <1>1, <1>12, PageWritten
  <2>2. \A i \in 1 .. n : Load(m, s[i]) = Load(mem, s[i])
    <3> SUFFICES ASSUME NEW i \in 1 .. n PROVE s[i] \notin WordsOf(p)
      BY <1>12
    <3>1. s[i] # p /\ s[i] \in Pool /\ p \in Pool
      BY <1>7, <1>10, <1>12
    <3> QED
      BY <1>1, <3>1, PoolWords
  <2> QED
    BY <1>6, <2>1, <2>2, LinkedKept
<1> HIDE DEF T, L, S
<1>13. /\ L(mem, free_mem_list, n, s) /\ S \cup T \cup Handed = Pool /\ S \cap (T \cup Handed) = {}
       /\ S = {s[i] : i \in 1 .. n}
  BY <1>6 DEF S
<1>14. Taken(mem, satp) = T
  BY DEF T
<1>15. "none" \notin Away /\ "kalloc_next" \notin Away /\ "kalloc_store" \notin Away
       /\ "kalloc_zero" \in Away /\ "kfree_link" \in Away /\ "kfree_store" \in Away
  BY DEF Away
<1>16. CASE KallocHead(c)
  <2>1. /\ UNCHANGED <<mem, free_mem_list>> /\ next' = next /\ held' = held
        /\ r' = [r EXCEPT ![c] = free_mem_list] /\ call[c] = "none"
        /\ IF free_mem_list = Null THEN call' = call ELSE call' = [call EXCEPT ![c] = "kalloc_next"]
    BY <1>16 DEF KallocHead, Goto, At, heap
  <2>2. \A d \in Callers \ {c} : Absent(d)'
    BY <1>1, <2>1 DEF Absent
  <2>3. held'[c] = held[c] /\ call'[c] \in {"none", "kalloc_next"}
        /\ (call'[c] = "kalloc_next" => r'[c] = free_mem_list /\ free_mem_list # Null)
    BY <1>1, <2>1
  <2>4. Handed' = Handed
    BY <1>4, <1>5, <1>15, <2>1, <2>2, <2>3
  <2>5. Account'
    BY <1>8, <1>13, <1>14, <2>1, <2>4
  <2>6. Undisturbed(c)'
    BY <1>2, <1>11, <2>1, <2>3 DEF Undisturbed, Away
  <2> QED
    BY <2>2, <2>5, <2>6
<1>17. CASE KallocNext(c)
  <2>1. /\ UNCHANGED <<mem, free_mem_list>> /\ r' = r /\ held' = held
        /\ next' = [next EXCEPT ![c] = Load(mem, r[c].at)] /\ call[c] = "kalloc_next"
        /\ call' = [call EXCEPT ![c] = "kalloc_store"]
    BY <1>17 DEF KallocNext, Goto, At, heap
  <2>2. \A d \in Callers \ {c} : Absent(d)'
    BY <1>1, <2>1 DEF Absent
  <2>3. call'[c] = "kalloc_store" /\ next'[c] = Load(mem, r[c].at)
    BY <1>1, <2>1
  <2>4. Handed' = Handed
    BY <1>4, <1>5, <1>15, <2>1, <2>2, <2>3
  <2>5. Account'
    BY <1>8, <1>13, <1>14, <2>1, <2>4
  <2>6. Undisturbed(c)'
    BY <1>2, <1>11, <2>1, <2>3 DEF Undisturbed, Away
  <2> QED
    BY <2>2, <2>5, <2>6
<1>18. CASE KallocStore(c)
  <2>1. /\ UNCHANGED mem /\ r' = r /\ held' = held /\ free_mem_list' = next[c]
        /\ next' = [next EXCEPT ![c] = Null] /\ call[c] = "kalloc_store"
        /\ call' = [call EXCEPT ![c] = "kalloc_zero"]
    BY <1>18 DEF KallocStore, Goto, At
  <2>2. \A d \in Callers \ {c} : Absent(d)'
    BY <1>1, <2>1 DEF Absent
  <2>3. call'[c] = "kalloc_zero" /\ free_mem_list' = Load(mem, free_mem_list.at)
        /\ r'[c] = free_mem_list /\ free_mem_list # Null /\ free_mem_list # Ptr(Variable)
    BY <1>1, <1>9, <1>11, <2>1
  <2> DEFINE p == free_mem_list.at
  <2>4. PICK t : /\ L(mem, Load(mem, p), n - 1, t) /\ p \in S
                 /\ {t[i] : i \in 1 .. n - 1} = S \ {p}
    BY <1>1, <1>13, <2>3, LinkedTail DEF L
  <2> HIDE DEF p
  <2>5. Handed = held[c] \cup Users /\ Handed' = Handed \cup {p}
    BY <1>4, <1>5, <1>15, <2>1, <2>2, <2>3 DEF p
  <2>6. L(mem', free_mem_list', n - 1, t)
    BY <2>1, <2>3, <2>4 DEF p
  <2>7. /\ (S \ {p}) \cup T \cup Handed' = Pool /\ (S \ {p}) \cap (T \cup Handed') = {}
        /\ p \notin Users \cup held[c]
    BY <1>13, <2>4, <2>5
  <2>8. Account'
    BY <1>8, <1>14, <2>1, <2>4, <2>6, <2>7
  <2>9. Undisturbed(c)'
    BY <1>2, <1>11, <2>1, <2>3, <2>7 DEF Undisturbed, p
  <2> QED
    BY <2>2, <2>8, <2>9
<1>19. CASE KallocZero(c)
  <2>1. /\ mem' = Zeroed(mem, r[c].at) /\ free_mem_list' = free_mem_list /\ next' = next
        /\ held' = [held EXCEPT ![c] = @ \cup {r[c].at}] /\ call[c] = "kalloc_zero"
        /\ r' = [r EXCEPT ![c] = Null] /\ call' = [call EXCEPT ![c] = "none"]
    BY <1>19 DEF KallocZero, Goto, At
  <2>2. \A d \in Callers \ {c} : Absent(d)'
    BY <1>1, <2>1 DEF Absent
  <2>3. PICK p \in Others : r[c] = Ptr(p)
    BY <1>9, <2>1
  <2>4. call'[c] = "none" /\ held'[c] = held[c] \cup {p} /\ r[c].at = p /\ p \notin Users \cup held[c]
    BY <1>1, <1>11, <1>15, <2>1, <2>3, Kinds
  <2>5. Handed = held[c] \cup Users \cup {p} /\ Handed' = Handed
    BY <1>4, <1>5, <1>15, <2>1, <2>2, <2>4
  <2>6. \A x : Load(mem', x) = IF x \in WordsOf(p) THEN Null ELSE Load(mem, x)
    BY <2>1, <2>4, LoadZeroed
  <2>7. Taken(mem', satp) = T /\ L(mem', free_mem_list', n, s)
    <3>1. p \notin S /\ Loose(Load(mem', p))
      BY <1>10, <1>13, <2>5, <2>6 DEF Loose
    <3> QED
      BY <1>12, <2>1, <2>6, <3>1
  <2>8. Account'
    BY <1>8, <1>13, <2>5, <2>7
  <2>9. Undisturbed(c)'
    BY <1>2, <1>11, <2>4 DEF Undisturbed, Away
  <2> QED
    BY <2>2, <2>8, <2>9
<1>20. CASE KfreeLink(c)
  <2>1. /\ mem' = Store(mem, r[c].at, next[c]) /\ free_mem_list' = free_mem_list
        /\ r' = r /\ held' = held /\ next' = [next EXCEPT ![c] = Null] /\ call[c] = "kfree_link"
        /\ call' = [call EXCEPT ![c] = "kfree_store"]
    BY <1>20 DEF KfreeLink, Goto, At
  <2>2. \A d \in Callers \ {c} : Absent(d)'
    BY <1>1, <2>1 DEF Absent
  <2>3. PICK p \in Others : r[c] = Ptr(p)
    BY <1>9, <2>1
  <2>4. call'[c] = "kfree_store" /\ r[c].at = p /\ p \notin Users \cup held[c]
        /\ next[c] = free_mem_list
    BY <1>1, <1>11, <1>15, <2>1, <2>3, Kinds
  <2>5. Handed = held[c] \cup Users \cup {p} /\ Handed' = Handed
    BY <1>4, <1>5, <1>15, <2>1, <2>2, <2>4
  <2>6. \A x : Load(mem', x) = IF x = p THEN free_mem_list ELSE Load(mem, x)
    BY <2>1, <2>4, LoadStored
  <2>7. Taken(mem', satp) = T /\ L(mem', free_mem_list', n, s)
    <3>1. p \notin S /\ Loose(Load(mem', p)) /\ p \in WordsOf(p)
      BY <1>10, <1>13, <2>5, <2>6 DEF CallerInv
    <3> QED
      BY <1>12, <2>1, <2>6, <3>1
  <2>8. Account'
    BY <1>8, <1>13, <2>5, <2>7
  <2>9. Undisturbed(c)'
    BY <1>2, <1>11, <2>1, <2>4, <2>6 DEF Undisturbed, Away
  <2> QED
    BY <2>2, <2>8, <2>9
<1>21. CASE KfreeStore(c)
  <2>1. /\ UNCHANGED mem /\ next' = next /\ held' = held /\ free_mem_list' = r[c]
        /\ r' = [r EXCEPT ![c] = Null] /\ call[c] = "kfree_store"
        /\ call' = [call EXCEPT ![c] = "none"]
    BY <1>21 DEF KfreeStore, Goto, At
  <2>2. \A d \in Callers \ {c} : Absent(d)'
    BY <1>1, <2>1 DEF Absent
  <2>3. PICK p \in Others : r[c] = Ptr(p)
    BY <1>9, <2>1
  <2>4. call'[c] = "none" /\ r[c].at = p /\ p \notin Users \cup held[c]
        /\ Load(mem, p) = free_mem_list
    BY <1>1, <1>11, <1>15, <2>1, <2>3, Kinds
  <2>5. Handed = held[c] \cup Users \cup {p} /\ Handed' = held[c] \cup Users
    BY <1>4, <1>5, <1>15, <2>1, <2>2, <2>4
  <2>6. p \in Pool /\ p # Variable /\ p \notin S /\ p \notin T
    BY <1>10, <1>13, <2>5
  <2>7. PICK t : /\ L(mem, Ptr(p), n + 1, t)
                 /\ {t[i] : i \in 1 .. n + 1} = S \cup {p}
    BY <1>13, <2>4, <2>6, LinkedCons DEF L
  <2>8. (S \cup {p}) \cup T \cup Handed' = Pool /\ (S \cup {p}) \cap (T \cup Handed') = {}
    BY <1>13, <2>4, <2>5, <2>6
  <2>9. Account'
    BY <1>8, <1>14, <2>1, <2>3, <2>7, <2>8
  <2>10. Undisturbed(c)'
    BY <1>2, <1>11, <2>1, <2>4 DEF Undisturbed, Away
  <2> QED
    BY <2>2, <2>9, <2>10
<1>22. ASSUME NEW page \in held[c], KfreeLoad(c, page)
       PROVE  (\A d \in Callers \ {c} : Absent(d)') /\ Undisturbed(c)' /\ Account'
  <2>1. /\ UNCHANGED <<mem, free_mem_list>> /\ held' = [held EXCEPT ![c] = @ \ {page}]
        /\ r' = [r EXCEPT ![c] = Ptr(page)] /\ next' = [next EXCEPT ![c] = free_mem_list]
        /\ call[c] = "none" /\ call' = [call EXCEPT ![c] = "kfree_link"]
    BY <1>22 DEF KfreeLoad, Goto, At, heap
  <2>2. \A d \in Callers \ {c} : Absent(d)'
    BY <1>1, <2>1 DEF Absent
  <2>3. call'[c] = "kfree_link" /\ r'[c].at = page /\ next'[c] = free_mem_list
        /\ held'[c] = held[c] \ {page} /\ page \notin Users
    BY <1>1, <1>11, <1>22, <2>1, Kinds
  <2>4. Handed' = Handed
    BY <1>4, <1>5, <1>15, <1>22, <2>1, <2>2, <2>3
  <2>5. Account'
    BY <1>8, <1>13, <1>14, <2>1, <2>4
  <2>6. Undisturbed(c)'
    BY <1>2, <1>11, <2>1, <2>3 DEF Undisturbed, Away
  <2> QED
    BY <2>2, <2>5, <2>6
<1>23. ASSUME NEW page \in held[c], UseAsTrapframe(c, page)
       PROVE  (\A d \in Callers \ {c} : Absent(d)') /\ Undisturbed(c)' /\ Account'
  <2>1. /\ mem' = Store(mem, page, KernelSatp) /\ free_mem_list' = free_mem_list
        /\ UNCHANGED <<call, r, next, held>>
    BY <1>23 DEF UseAsTrapframe, callers
  <2>2. \A d \in Callers \ {c} : Absent(d)'
    BY <2>1 DEF Absent
  <2>3. Handed' = Handed /\ page \in Handed
    BY <1>4, <1>5, <1>23, <2>1, <2>2
  <2>4. \A x : Load(mem', x) = IF x = page THEN KernelSatp ELSE Load(mem, x)
    BY <2>1, LoadStored
  <2>5. page \in Others /\ page \notin S /\ page \in WordsOf(page)
    BY <1>9, <1>10, <1>13, <1>23, <2>3
  <2>6. Taken(mem', satp) = T /\ L(mem', free_mem_list', n, s)
    <3>1. Loose(Load(mem', page))
      BY <2>4 DEF Loose
    <3> QED
      BY <1>12, <2>1, <2>4, <2>5, <3>1
  <2>7. Account'
    BY <1>8, <1>13, <2>3, <2>6
  <2>8. Undisturbed(c)'
    <3>1. call[c] = "kalloc_store" => Load(mem', r[c].at) = Load(mem, r[c].at)
      <4> SUFFICES ASSUME call[c] = "kalloc_store" PROVE r[c].at # page
        BY <2>4
      <4>1. r[c] = free_mem_list /\ free_mem_list # Null
        BY <1>11
      <4>2. r[c].at \in S
        BY <1>1, <1>9, <1>13, <4>1, LinkedTail DEF L
      <4> QED
        BY <2>5, <4>2
    <3>2. call[c] = "kfree_store" => Load(mem', r[c].at) = Load(mem, r[c].at)
      BY <1>11, <1>15, <1>23, <2>4
    <3> QED
      BY <1>2, <1>11, <2>1, <3>1, <3>2 DEF Undisturbed, Away
  <2> QED
    BY <2>2, <2>7, <2>8
<1> QED
  BY <1>16, <1>17, <1>18, <1>19, <1>20, <1>21, <1>22, <1>23 DEF CallerStep

\* Of at most one caller there is no other.
LEMMA OnlyCaller ==
  ASSUME active \in Workloads, Cardinality(active) <= 1, NEW c \in active
  PROVE  active = {c}
<1>1. IsFiniteSet(active)
  BY BootAssumption DEF BootAssumption
<1>2. IsFiniteSet(active \ {c}) /\ Cardinality(active \ {c}) = Cardinality(active) - 1
  BY <1>1, FS_RemoveElement
<1>3. Cardinality(active \ {c}) \in Nat /\ Cardinality(active) \in Nat
  BY <1>1, <1>2, FS_CardinalityType
<1>4. Cardinality(active \ {c}) = 0
  BY <1>2, <1>3
<1> QED
  BY <1>2, <1>4, FS_EmptySet

LEMMA AccountSame ==
  ASSUME UNCHANGED <<layout, mem, free_mem_list, callers, user>>
  PROVE  /\ Account => Account'
         /\ \A c \in Callers : (Absent(c) => Absent(c)') /\ (Undisturbed(c) => Undisturbed(c)')
<1>1. Pool' = Pool /\ Users' = Users /\ Handed' = Handed /\ kernel_pagetable' = kernel_pagetable
  BY PoolSame DEF Users, Handed, callers, kernel_pagetable
<1>2. Taken(mem, kernel_pagetable)' = Taken(mem, kernel_pagetable)
  BY <1>1, HeapSame
<1>3. \A n, s : Linked(mem, free_mem_list, n, s)' <=> Linked(mem, free_mem_list, n, s)
  BY LinkedSame
<1>4. Account => Account'
  BY <1>1, <1>2, <1>3 DEF Account
<1>5. \A c \in Callers : (Absent(c) => Absent(c)') /\ (Undisturbed(c) => Undisturbed(c)')
  BY <1>1 DEF Absent, Undisturbed, callers, Away
<1> QED
  BY <1>4, <1>5

LEMMA InitBalance == Init => BalanceInv
  BY DEF Init, BalanceInv

LEMMA BalanceStep ==
  PagesInv /\ PagesInv' /\ VariableSpared /\ BalanceInv /\ [Next]_vars => BalanceInv'
<1> SUFFICES ASSUME PagesInv, PagesInv', VariableSpared, BalanceInv, [Next]_vars,
                    bpc' = "scheduler", priv' = "S", Cardinality(active') <= 1
             PROVE  /\ \A c \in Callers \ active' : Absent(c)'
                    /\ \A c \in active' : Undisturbed(c)'
                    /\ Account'
  BY DEF BalanceInv
<1>1. active \in Workloads /\ active \subseteq Callers /\ active' \subseteq Callers /\ layout' \in Layouts
  BY BootAssumption DEF BootAssumption, PagesInv, ControlInv
<1>2. ControlInv /\ (bpc = "scheduler" => CallerInv) /\ CallerInv'
  BY DEF PagesInv, Running
<1>3. CASE CallerRuns
  <2>1. /\ bpc = "scheduler" /\ priv = "S" /\ active' = active
        /\ UNCHANGED <<layout, satp, user>>
    BY <1>3 DEF CallerRuns, supervisor, locals
  <2>2. PICK c \in active : CallerStep(c)
    BY <1>3 DEF CallerRuns
  <2>3. c \in Callers /\ active = {c}
    BY <1>1, <2>1, <2>2, OnlyCaller
  <2>4. (\A d \in Callers \ {c} : Absent(d)) /\ Undisturbed(c) /\ Account
    BY <2>1, <2>3 DEF BalanceInv
  <2>5. /\ \A d \in Callers \ {c} : Absent(d)'
        /\ Undisturbed(c)' /\ Account'
    BY <1>2, <2>1, <2>2, <2>3, <2>4, AccountStep
  <2> QED
    BY <2>1, <2>3, <2>5
<1>4. CASE UserinitGrant("stack_pte", "stack", {U}, "scheduler")
  <2>1. ControlInv'
    BY DEF PagesInv
  <2>2. BootInv' /\ Idle'
    BY <1>4, <2>1, UserinitGrantStep
  <2>3. Account'
    <3>1. (layout \in Layouts /\ BootInv /\ Idle => Account)'
      BY BootAccount, PTL
    <3> QED
      BY <1>1, <2>2, <3>1
  <2>4. \A c \in Callers : Absent(c)' /\ Undisturbed(c)'
    BY <2>2 DEF Idle, Absent, Undisturbed, Away
  <2> QED
    BY <1>1, <2>3, <2>4
<1>5. CASE Rests \/ UNCHANGED vars
  <2>1. UNCHANGED <<layout, mem, free_mem_list, callers, user, bpc, priv, active>>
    BY <1>5 DEF Rests, vars, heap, locals
  <2>2. bpc = "scheduler" /\ priv = "S" /\ active' = active
    BY <2>1
  <2> QED
    BY <1>1, <2>1, <2>2, AccountSame DEF BalanceInv
<1>6. CASE StartMret \/ StartDelegate \/ TimerArm \/ TimerVector \/ TimerEnable
             \/ TimerUnmask \/ StartTp \/ Mret
  BY <1>6 DEF StartMret, StartDelegate, TimerArm, TimerVector, TimerEnable,
              TimerUnmask, StartTp, Statement, From, Mret
<1>7. CASE StartMain \/ Kinit \/ Kvmininit
  BY <1>7 DEF StartMain, Kinit, Kvmininit, KernelRuns, panic
<1>8. CASE Mappages
  BY <1>8 DEF Mappages, NextRegion, KernelRuns, panic
<1>9. CASE KvminithartSatp \/ KvminithartFence \/ Trapinithart \/ IntrOn \/ Initializes
  BY <1>9 DEF KvminithartSatp, KvminithartFence, Trapinithart, IntrOn, Initializes,
              Sets, KernelRuns
<1>10. CASE \/ \E u \in UserPages : UserinitPage(u)
            \/ UserinitGrant("code_pte", "code", {X, U}, "stack")
  BY <1>10 DEF UserinitPage, UserinitGrant, UserAfter, UserPages, KernelRuns, panic
<1>11. CASE MachineTimer \/ SoftwareInterrupt \/ KernelFaults \/ Cache \/ Evict
  BY <1>11 DEF MachineTimer, SoftwareInterrupt, KernelFaults, Cache, Evict, Booting
<1>12. CASE CallerFaults
  BY <1>12 DEF CallerFaults, panic
<1> QED
  BY <1>3, <1>4, <1>5, <1>6, <1>7, <1>8, <1>9, <1>10, <1>11, <1>12 DEF Next, Hart, Userinit

LEMMA BalanceRight == PagesInv /\ ModeInv /\ BalanceInv => PagesBalance
<1> DEFINE tables == IF bpc = "kvmininit" THEN {} ELSE Tables(mem, kernel_pagetable)
           free == {FreeList[n] : n \in DOMAIN FreeList} \ {0}
<1> SUFFICES ASSUME PagesInv, ModeInv, BalanceInv, Cardinality(active) <= 1, priv = "S",
                    bpc \notin {"start_main", "kinit"}
             PROVE  /\ FreeList[Len(FreeList)] = 0
                    /\ free \cup tables \cup Handed = Pool
                    /\ Cardinality(free) + Cardinality(tables) + Cardinality(Handed) = Cardinality(Pool)
  BY DEF PagesBalance
<1>1. /\ layout \in Layouts
      /\ bpc \in {"kvmininit"} \cup Mapping \cup Paged \cup {"scheduler"}
  BY DEF PagesInv, ControlInv, ModeInv, Early
<1>2. \E n, s : /\ Linked(mem, free_mem_list, n, s)
                /\ {s[i] : i \in 1 .. n} \cup tables \cup Handed = Pool
                /\ {s[i] : i \in 1 .. n} \cap (tables \cup Handed) = {}
                /\ tables \cap Handed = {}
  <2>1. CASE bpc = "kvmininit"
    <3>1. BootList(mem, free_mem_list) /\ Free(free_mem_list) = Pool /\ Idle
      BY <2>1 DEF PagesInv, EarlyInv, Early, Running
    <3>2. Users = {}
      BY <2>1 DEF PagesInv, UserInv, Users, Behind, UserPages
    <3>3. Handed = {} /\ tables = {}
      BY <2>1, <3>1, <3>2, IdleHanded DEF Idle, Absent
    <3>4. PICK n, s : Linked(mem, free_mem_list, n, s) /\ {s[i] : i \in 1 .. n} = Pool
      BY <1>1, <3>1, BootLinked
    <3> QED
      BY <3>3, <3>4
  <2>2. CASE bpc \in Mapping \cup Paged
    <3>1. BootInv /\ Idle /\ bpc # "kvmininit"
      BY <2>2 DEF PagesInv, Running, Mapping, Paged
    <3>2. TreeInv(mem, kernel_pagetable) /\ Taken(mem, kernel_pagetable) \cap Users = {}
      BY <3>1 DEF BootInv, BootHeap
    <3>3. tables = Taken(mem, kernel_pagetable) /\ Handed = Users
      BY <1>1, <3>1, <3>2, TreeTables, IdleHanded DEF Idle, Absent
    <3>4. Account
      BY <1>1, <3>1, BootAccount
    <3> HIDE DEF tables
    <3> QED
      BY <3>2, <3>3, <3>4 DEF Account
  <2>3. CASE bpc = "scheduler"
    <3>1. CallerInv /\ Account
      BY <2>3 DEF PagesInv, Running, BalanceInv
    <3>2. TreeInv(mem, satp) /\ Handed \cap Taken(mem, satp) = {}
      BY <3>1, HandedOthers DEF CallerInv, Others
    <3>3. kernel_pagetable = satp
      BY <3>2, Kinds DEF TreeInv, kernel_pagetable, Variable
    <3>4. tables = Taken(mem, kernel_pagetable)
      BY <1>1, <2>3, <3>2, <3>3, TreeTables
    <3> HIDE DEF tables
    <3> QED
      BY <3>1, <3>2, <3>3, <3>4 DEF Account
  <2> QED
    BY <1>1, <2>1, <2>2, <2>3
<1> HIDE DEF tables
<1>3. PICK n, s : /\ Linked(mem, free_mem_list, n, s)
                  /\ Cells(n, s) \cup tables \cup Handed = Pool
                  /\ Cells(n, s) \cap (tables \cup Handed) = {}
                  /\ tables \cap Handed = {}
  BY <1>2 DEF Cells
<1>4. free = Listed(FreeList)
  BY DEF Listed
<1> HIDE DEF free
<1> QED
  BY <1>1, <1>3, <1>4, BalanceIs

-----------------------------------------------------------------------------
(* The theorems                                                            *)

\* Boot and the callers write words of the pages kinit freed and kernel_pagetable,
\* no others.
THEOREM BootTypeOK == Spec /\ []VariableSpared => []TypeOK
  BY PagesInvariant, PagesTyped, PTL

\* kernel_pagetable keeps naming the root, and no table is handed out, however the
\* loads and stores of kalloc and kfree interleave.
THEOREM BootTablesKept == Spec /\ []VariableSpared => []TablesKept
  BY PagesInvariant, PagesKeepTables, PTL

\* While no two calls of kalloc and kfree overlap, every page kinit freed is on the
\* list once, or a table, or handed out.
THEOREM BootPagesBalance == Spec /\ []VariableSpared => []PagesBalance
<1>1. Spec /\ []VariableSpared => [](PagesInv /\ ModeInv)
  BY PagesInvariant, InitMode, ModeStep, PTL DEF Spec
<1>2. Spec /\ []VariableSpared => []BalanceInv
  BY <1>1, InitBalance, BalanceStep, PTL DEF Spec
<1> QED
  BY <1>1, <1>2, BalanceRight, PTL

\* What walk and mappages built is what kvmininit and userinit mean, for every address.
THEOREM BootMapIsReference == Spec /\ []VariableSpared => []MapIsReference
  BY MapInvariant, MapRight, PTL

\* Without a fence behind userinit only init's two pages can be seen too narrowly.
THEOREM BootStaleOnlyForUser == Spec /\ []VariableSpared => []StaleOnlyForUser
  BY MapInvariant, TlbRight, PTL

\* On its map the kernel gets to the scheduler, unless memory runs out.
THEOREM BootDoesNotFail == DevicesBelow => (Spec /\ []VariableSpared => []NoFailure)
<1> SUFFICES ASSUME DevicesBelow PROVE Spec /\ []VariableSpared => []NoFailure
  OBVIOUS
<1>1. PagesInv /\ MapInv /\ MachineInv /\ VariableSpared /\ NoFailure /\ [Next]_vars => NoFailure'
  BY FailureStep
<1>2. Init => NoFailure
  BY DEF Init, NoFailure
<1> QED
  BY <1>1, <1>2, MapInvariant, MachineInvariant, PTL DEF Spec

\* With the variable in front of the pool nothing is assumed of the behaviour.
THEOREM BootSafe ==
  VariableLow /\ DevicesBelow =>
    (Spec => [](/\ TypeOK /\ TablesKept /\ PagesBalance
                /\ MapIsReference /\ StaleOnlyForUser /\ NoFailure))
<1> SUFFICES ASSUME VariableLow, DevicesBelow
             PROVE  Spec => [](/\ TypeOK /\ TablesKept /\ PagesBalance
                               /\ MapIsReference /\ StaleOnlyForUser /\ NoFailure)
  OBVIOUS
<1>1. PagesInv => VariableSpared
  BY LowSpared
<1>2. PagesInv /\ [Next]_vars => PagesInv'
  BY <1>1, PagesStep
<1>3. Spec => []VariableSpared
  BY <1>1, <1>2, InitPages, PTL DEF Spec
<1> QED
  BY <1>3, BootTypeOK, BootTablesKept, BootPagesBalance, BootMapIsReference, BootStaleOnlyForUser,
     BootDoesNotFail, PTL

===============================================================================
