--------------------------------- MODULE Boot ---------------------------------
(***************************************************************************)
(* From reset to the scheduler on one hart: start.c in M-mode, start_main, *)
(* kinit, kvmininit, kvminithart and userinit, with the timer, the         *)
(* translation buffer and, once the scheduler runs, processes that         *)
(* allocate and free.                                                      *)
(***************************************************************************)
EXTENDS Vm

CONSTANTS
  Layouts,    \* [etext, end, phystop, kernel_pagetable]: what is linked where
  Workloads,  \* which callers run after boot; none: the translation buffer does
  Interval    \* ticks between two timer interrupts

VARIABLES
  priv,       \* "M", "S", "panic", or "wild": the hart runs what nobody wrote
  bpc,        \* the statement it is at
  mpp, mepc, mtvec, mtie, mie,   \* M-mode CSRs
  left,       \* ticks until mtime reaches mtimecmp (0 at reset: mtimecmp is 0)
  granted,    \* PMP open, traps delegated, paging off
  stvec, sie, ssip, satp,        \* S-mode CSRs; satp: the root, 0 for off
  a, region,  \* loop locals of kinit and of kvmininit's calls of mappages
  user,       \* userinit's pages, 0 before they are allocated
  tlb,        \* the one cached translation that is watched
  dry,        \* history: kalloc returned 0 to boot code
  active      \* the workload

machine == <<mpp, mepc, mtvec, mtie, mie, granted>>
supervisor == <<stvec, sie, satp>>
locals == <<a, region, user>>
vars == <<layout, heap, callers, priv, bpc, machine, left, supervisor, ssip, locals,
          tlb, dry, active>>

BootAssumption ==
  /\ PGSIZE \in Nat /\ PGSIZE >= 2
  /\ \A w \in Workloads : w \subseteq Callers /\ IsFiniteSet(w)
  /\ Interval \in Nat /\ Interval > 4   \* more ticks than statements between TimerArm and Mret
  /\ \A device \in {UART0, PLIC, VIRTIO0, KERNBASE} : device \in Nat /\ device % PGSIZE = 0
  /\ \A l \in Layouts :
       /\ {l.etext, l.end, l.phystop, l.kernel_pagetable} \subseteq Nat
       /\ l.etext % PGSIZE = 0 /\ l.phystop % PGSIZE = 0    \* kernel.ld:64
       /\ KERNBASE < l.etext /\ l.etext < l.end /\ l.end < l.phystop
       /\ l.phystop <= MAXVA
       /\ l.kernel_pagetable <= PGROUNDUP(l.end)   \* .sbss, at most the first word behind end
ASSUME BootAssumption

\* Pages userinit allocates, in order.
UserPages == {"trapframe", "kstack", "code", "stack"}

Init ==
  /\ layout \in Layouts
  /\ active \in Workloads
  /\ mem = <<>> /\ free_mem_list = Null
  /\ call = [c \in Callers |-> "none"] /\ held = [c \in Callers |-> {}]
  /\ r = [c \in Callers |-> Null] /\ next = [c \in Callers |-> Null]
  /\ calls = [c \in Callers |-> 0]
  /\ priv = "M" /\ bpc = "start"
  /\ mpp = "M" /\ mepc = "reset" /\ mtvec = "reset" /\ mtie = FALSE /\ mie = FALSE
  /\ left = 0 /\ granted = FALSE
  /\ stvec = "reset" /\ sie = FALSE /\ ssip = FALSE /\ satp = 0
  /\ a = 0 /\ region = 0 /\ user = [u \in UserPages |-> 0]
  /\ tlb = NoEntry /\ dry = FALSE

-----------------------------------------------------------------------------
(* M-mode: start and timerinit.  Each statement takes one tick at most.    *)

From(label, to) == bpc = label /\ bpc' = to

Statement(label, to) ==
  /\ priv = "M" /\ From(label, to)
  /\ UNCHANGED <<layout, heap, callers, supervisor, ssip, locals, tlb, dry, active>>

Elapses == left' = left \/ (left > 0 /\ left' = left - 1)

\* w_mstatus(MPP = S); w_mepc(start_main);
StartMret ==
  /\ Statement("start", "delegate")
  /\ mpp' = "S" /\ mepc' = "start_main"
  /\ Elapses /\ UNCHANGED <<priv, mtvec, mtie, mie, granted>>

\* medeleg, mideleg, sie, PMP, satp = 0.
StartDelegate ==
  /\ Statement("delegate", "mtimecmp")
  /\ granted' = TRUE
  /\ Elapses /\ UNCHANGED <<priv, mpp, mepc, mtvec, mtie, mie>>

\* mtimecmp = mtime + interval.
TimerArm ==
  /\ Statement("mtimecmp", "mtvec")
  /\ left' = Interval
  /\ UNCHANGED <<priv, machine>>

\* w_mscratch, w_mtvec(timervec).
TimerVector ==
  /\ Statement("mtvec", "mtie")
  /\ mtvec' = "timervec"
  /\ Elapses /\ UNCHANGED <<priv, mpp, mepc, mtie, mie, granted>>

TimerEnable ==
  /\ Statement("mtie", "mie")
  /\ mtie' = TRUE
  /\ Elapses /\ UNCHANGED <<priv, mpp, mepc, mtvec, mie, granted>>

\* mstatus.MIE: from here the timer interrupts start() itself.
TimerUnmask ==
  /\ Statement("mie", "tp")
  /\ mie' = TRUE
  /\ Elapses /\ UNCHANGED <<priv, mpp, mepc, mtvec, mtie, granted>>

StartTp ==
  /\ Statement("tp", "mret")
  /\ Elapses /\ UNCHANGED <<priv, machine>>

\* mret: to mepc in the mode MPP names.  U-mode, or S-mode before PMP lets it at
\* memory, is not where start_main can run.
Mret ==
  /\ priv = "M" /\ bpc = "mret"
  /\ priv' = IF mpp = "S" /\ mepc = "start_main" /\ granted THEN "S" ELSE "wild"
  /\ bpc' = IF priv' = "S" THEN "start_main" ELSE "lost"
  /\ mpp' = "U" /\ left' = 0
  /\ UNCHANGED <<layout, heap, callers, mepc, mtvec, mtie, mie, granted, supervisor, ssip,
                 locals, tlb, dry, active>>

-----------------------------------------------------------------------------
(* S-mode: start_main                                                      *)

\* Where the next statement goes through the MMU: code, data and, for some,
\* device registers.
Devices ==
  CASE bpc \in {"start_main", "uartinit"} -> {UART0}
    [] bpc \in {"plicinit", "plicinithart"} -> PLIC .. PLIC + PlicSize - 1
    [] bpc \in {"virtio_disk_init", "fsinit"} -> {VIRTIO0}
    [] OTHER -> {}

Reaches(va, need) ==
  LET used == IF tlb.va = va THEN tlb ELSE Translate(mem, satp, va)
  IN  used.pa = va /\ need \subseteq used.perm /\ U \notin used.perm

Translates ==
  satp # 0 => /\ Reaches(KERNBASE, {R, X})
              /\ Reaches(layout.etext, {R, W})
              /\ \A d \in Devices : d % PGSIZE = 0 => Reaches(d, {R, W})

KernelRuns(label) == priv = "S" /\ bpc = label /\ Translates

\* A page fault of the kernel itself.
KernelFaults ==
  /\ priv = "S" /\ ~Translates
  /\ priv' = "wild" /\ bpc' = "lost"
  /\ UNCHANGED <<layout, heap, callers, machine, left, supervisor, ssip, locals, tlb, dry,
                 active>>

panic ==
  /\ priv' = "panic"
  /\ UNCHANGED bpc

\* What a statement of start_main leaves alone.
Elsewhere == UNCHANGED <<layout, callers, machine, left, ssip, active>>

\* Statements that set up what other modules model: the screen, the UART, the
\* PLIC, the process table, the block cache, the disk, the file system.
Sets == {<<"uartinit", "plicinit">>, <<"plicinit", "plicinithart">>,
         <<"plicinithart", "intr_on">>, <<"procinit", "virtio_disk_init">>,
         <<"virtio_disk_init", "fsinit">>, <<"fsinit", "trapframe">>}

Initializes ==
  \E step \in Sets :
    /\ KernelRuns(step[1]) /\ bpc' = step[2]
    /\ UNCHANGED <<priv, heap, supervisor, locals, tlb, dry>> /\ Elsewhere

\* clear_screen; p = PGROUNDUP(end_address);
StartMain ==
  /\ KernelRuns("start_main") /\ bpc' = "kinit"
  /\ a' = PGROUNDUP(layout.end)
  /\ UNCHANGED <<priv, heap, supervisor, region, user, tlb, dry>> /\ Elsewhere

KinitMore_Strict == a + PGSIZE < layout.phystop

\* Whether there is another page.
KinitMore == a + PGSIZE <= layout.phystop

\* for (; p + PGSIZE <= PHYSTOP; p += PGSIZE) kfree(p);
Kinit ==
  /\ KernelRuns("kinit")
  /\ \/ /\ KinitMore
        /\ IF KfreeValid(a)
             THEN /\ mem' = Kfree([mem |-> mem, list |-> free_mem_list], a).mem
                  /\ free_mem_list' = Kfree([mem |-> mem, list |-> free_mem_list], a).list
                  /\ a' = a + PGSIZE
                  /\ UNCHANGED <<priv, bpc>>
             ELSE panic /\ UNCHANGED <<heap, a>>
     \/ /\ ~KinitMore
        /\ bpc' = "kvmininit"
        /\ UNCHANGED <<priv, heap, a>>
  /\ UNCHANGED <<supervisor, region, user, tlb, dry>> /\ Elsewhere

\* kernel_pagetable = kalloc(): a store to a variable that may lie in the pool.
Kvmininit ==
  /\ KernelRuns("kvmininit")
  /\ IF free_mem_list = Null
       THEN panic /\ dry' = TRUE /\ UNCHANGED <<heap, a, region>>
       ELSE LET h == Kalloc([mem |-> mem, list |-> free_mem_list])
            IN  /\ mem' = Store(Zeroed(h.mem, free_mem_list.at), layout.kernel_pagetable,
                                free_mem_list)
                /\ free_mem_list' = h.list
                /\ region' = 1 /\ a' = First(1)
                /\ bpc' = "mappages"
                /\ UNCHANGED <<priv, dry>>
  /\ UNCHANGED <<supervisor, user, tlb>> /\ Elsewhere

kernel_pagetable == Load(mem, layout.kernel_pagetable).at

\* The next of kvmininit's calls; what the last one returned is not looked at.
NextRegion ==
  IF region < 5
    THEN region' = region + 1 /\ a' = First(region + 1) /\ bpc' = "mappages"
    ELSE region' = 0 /\ a' = 0 /\ bpc' = "w_satp"

\* One turn of mappages: walk(pagetable, a, 1), the check for a remap, the leaf,
\* the step.  Without memory for a table mappages returns -1.
Mappages ==
  /\ KernelRuns("mappages")
  /\ IF a >= MAXVA \/ Region(region).size = 0
       THEN panic /\ UNCHANGED <<heap, a, region, dry>>
       ELSE \E w \in {Walk([mem |-> mem, list |-> free_mem_list], kernel_pagetable, a)} :
              LET pte == w.pt + PX(0, a)
                  remap == w.pt # 0 /\ Valid(Load(w.mem, pte))
                  leaf == PA2PTE(a, Region(region).perm)
              IN  /\ free_mem_list' = w.list
                  /\ dry' = (dry \/ w.pt = 0)
                  /\ mem' = IF w.pt = 0 \/ remap THEN w.mem ELSE Store(w.mem, pte, leaf)
                  /\ IF remap
                       THEN panic /\ UNCHANGED <<a, region>>
                       ELSE /\ IF w.pt = 0 \/ a = Last(region)
                                 THEN NextRegion
                                 ELSE a' = a + PGSIZE /\ UNCHANGED <<bpc, region>>
                            /\ UNCHANGED priv
  /\ UNCHANGED <<supervisor, user, tlb>> /\ Elsewhere

\* w_satp(MAKE_SATP(kernel_pagetable));
KvminithartSatp ==
  /\ KernelRuns("w_satp") /\ bpc' = "sfence_vma"
  /\ satp' = kernel_pagetable
  /\ UNCHANGED <<priv, heap, stvec, sie, locals, tlb, dry>> /\ Elsewhere

KvminithartFence ==
  /\ KernelRuns("sfence_vma") /\ bpc' = "trapinithart"
  /\ tlb' = NoEntry
  /\ UNCHANGED <<priv, heap, supervisor, locals, dry>> /\ Elsewhere

Trapinithart ==
  /\ KernelRuns("trapinithart") /\ bpc' = "uartinit"
  /\ stvec' = "sys_trap_vector"
  /\ UNCHANGED <<priv, heap, sie, satp, locals, tlb, dry>> /\ Elsewhere

IntrOn ==
  /\ KernelRuns("intr_on") /\ bpc' = "procinit"
  /\ sie' = TRUE
  /\ UNCHANGED <<priv, heap, stvec, satp, locals, tlb, dry>> /\ Elsewhere

-----------------------------------------------------------------------------
(* userinit (allocproc's trapframe first)                                  *)

UserAfter == [trapframe |-> "kstack", kstack |-> "code", code |-> "code_pte",
              stack |-> "stack_pte"]

UserinitPage(u) ==
  /\ KernelRuns(u)
  /\ IF free_mem_list = Null
       THEN panic /\ dry' = TRUE /\ UNCHANGED <<heap, user>>
       ELSE LET h == Kalloc([mem |-> mem, list |-> free_mem_list])
            IN  /\ mem' = h.mem /\ free_mem_list' = h.list
                /\ user' = [user EXCEPT ![u] = free_mem_list.at]
                /\ bpc' = UserAfter[u]
                /\ UNCHANGED <<priv, dry>>
  /\ UNCHANGED <<supervisor, a, region, tlb>> /\ Elsewhere

UserinitGrant_Replaces(label, u, perm, to) ==
  /\ KernelRuns(label)
  /\ LET pte == WalkNoAlloc(mem, kernel_pagetable, user[u])
     IN  IF pte = 0
           THEN panic /\ UNCHANGED mem
           ELSE /\ mem' = Store(mem, pte, PA2PTE(Load(mem, pte).at, perm))
                /\ bpc' = to /\ UNCHANGED priv
  /\ UNCHANGED <<free_mem_list, supervisor, locals, tlb, dry>> /\ Elsewhere

\* pte = walk(kernel_pagetable, page, 0); *pte |= perm;  No sfence.vma follows.
UserinitGrant(label, u, perm, to) ==
  /\ KernelRuns(label)
  /\ LET pte == WalkNoAlloc(mem, kernel_pagetable, user[u])
     IN  IF pte = 0
           THEN panic /\ UNCHANGED mem
           ELSE /\ mem' = Store(mem, pte, PA2PTE(Load(mem, pte).at, Load(mem, pte).perm \cup perm))
                /\ bpc' = to /\ UNCHANGED priv
  /\ UNCHANGED <<free_mem_list, supervisor, locals, tlb, dry>> /\ Elsewhere

Userinit ==
  \/ \E u \in UserPages : UserinitPage(u)
  \/ UserinitGrant("code_pte", "code", {X, U}, "stack")
  \/ UserinitGrant("stack_pte", "stack", {U}, "scheduler")

-----------------------------------------------------------------------------
(* The machine beside it                                                   *)

Booting == priv = "S" /\ bpc # "scheduler"

\* The machine timer and timervec, which posts SSIP and returns with mret.  Taken
\* in M-mode it leaves mepc at a statement of start and MPP = U behind; out of
\* S-mode code it disturbs nothing, and its next comes at any time.
MachineTimer ==
  /\ mtie /\ IF priv = "M" THEN mie /\ left = 0 ELSE Booting /\ ~ssip
  /\ ssip' = (mtvec = "timervec")
  /\ priv' = IF ssip' THEN priv ELSE "wild"
  /\ bpc' = IF ssip' THEN bpc ELSE "lost"
  /\ mepc' = IF priv = "M" THEN "start" ELSE mepc
  /\ mpp' = IF priv = "M" THEN "U" ELSE mpp
  /\ left' = IF priv = "M" THEN Interval ELSE left
  /\ UNCHANGED <<layout, heap, callers, mtvec, mtie, mie, granted, supervisor, locals, tlb,
                 dry, active>>

\* The software interrupt: handled (c->proc is 0, nobody yields), if there is a
\* handler and the kernel's code can be fetched.
SoftwareInterrupt ==
  /\ Booting /\ sie /\ ssip
  /\ IF stvec = "sys_trap_vector" /\ Translates
       THEN ssip' = FALSE /\ UNCHANGED <<priv, bpc>>
       ELSE priv' = "wild" /\ bpc' = "lost" /\ UNCHANGED ssip
  /\ UNCHANGED <<layout, heap, callers, machine, left, supervisor, locals, tlb, dry, active>>

\* The hart may keep any translation it can make, and drop it.
Cache ==
  /\ Booting /\ active = {} /\ satp # 0 /\ tlb = NoEntry
  /\ \E va \in VirtualPages :
       tlb' = Translate(mem, satp, va)
  /\ UNCHANGED <<layout, heap, callers, priv, bpc, machine, left, supervisor, ssip, locals,
                 dry, active>>

Evict ==
  /\ Booting /\ tlb # NoEntry /\ tlb' = NoEntry
  /\ UNCHANGED <<layout, heap, callers, priv, bpc, machine, left, supervisor, ssip, locals,
                 dry, active>>

\* The scheduler runs the callers.
CallerRuns ==
  /\ bpc = "scheduler" /\ priv = "S"
  /\ \E c \in active : CallerStep(c)
  /\ UNCHANGED <<layout, priv, bpc, machine, left, supervisor, ssip, locals, tlb, dry, active>>

\* kalloc follows a pointer that is none: sys_trap_handler panics.
CallerFaults ==
  /\ bpc = "scheduler" /\ priv = "S"
  /\ \E c \in active : LoadFaults(c)
  /\ panic
  /\ UNCHANGED <<layout, heap, callers, machine, left, supervisor, ssip, locals, tlb, dry,
                 active>>

\* The scheduler goes on without the callers; a panic loops for ever.
Rests ==
  /\ bpc = "scheduler" \/ priv \in {"panic", "wild"}
  /\ UNCHANGED vars

Hart ==
  \/ StartMret \/ StartDelegate \/ TimerArm \/ TimerVector \/ TimerEnable
  \/ TimerUnmask \/ StartTp \/ Mret
  \/ StartMain \/ Kinit \/ Kvmininit \/ Mappages \/ KvminithartSatp
  \/ KvminithartFence \/ Trapinithart \/ IntrOn \/ Initializes \/ Userinit

Next ==
  \/ Hart \/ MachineTimer \/ SoftwareInterrupt \/ Cache \/ Evict
  \/ KernelFaults \/ CallerRuns \/ CallerFaults \/ Rests

\* The hart executes: interrupts come an interval apart, so a statement that is
\* interrupted is executed when the handler has returned.
Spec == Init /\ [][Next]_vars /\ WF_vars(Hart)

-----------------------------------------------------------------------------
(* Properties                                                              *)

Word == [kind : {"null", "ptr", "pte", "satp"}, at : Int, perm : SUBSET {R, W, X, U}]

\* The types; boot and the callers write no word outside the pages kinit freed but
\* kernel_pagetable, and get no page from anywhere else.
TypeOK ==
  /\ priv \in {"M", "S", "panic", "wild"} /\ left \in 0 .. Interval /\ region \in 0 .. 5
  /\ free_mem_list \in Word
  /\ \A address \in DOMAIN mem :
       /\ mem[address] \in Word
       /\ PGROUNDDOWN(address) \in Pool \/ address = layout.kernel_pagetable
  /\ \A c \in Callers : held[c] \subseteq Pool /\ r[c] \in Word /\ next[c] \in Word
  /\ \A u \in UserPages : user[u] \in Pool \cup {0}

Mapped == satp # 0 \/ bpc = "w_satp"

\* What the page table is meant to be: every page of a region to itself with the
\* permissions of the region, and the user's two pages with U.
Reference(va) ==
  LET granted_to(u, labels) == user[u] = va /\ bpc \in labels
      inside == {i \in 1 .. 5 : /\ Region(i).va <= va
                                /\ va < Region(i).va + Region(i).size}
      more == (IF granted_to("code", {"stack", "stack_pte", "scheduler"}) THEN {X, U} ELSE {})
              \cup (IF granted_to("stack", {"scheduler"}) THEN {U} ELSE {})
  IN  IF inside = {}
        THEN NoEntry
        ELSE [va |-> va, pa |-> va, perm |-> Region(CHOOSE i \in inside : TRUE).perm \cup more]

\* With enough memory the hardware's walk of the table walk and mappages built
\* is the reference for every address, also across the borders of tables, and
\* after userinit changed two entries in it.
MapIsReference ==
  Mapped /\ ~dry =>
    \A va \in VirtualPages :
      Translate(mem, kernel_pagetable, va) = Reference(va)

\* A page kalloc has returned, or is about to.
Handed ==
  (UNION {held[c] : c \in Callers}) \cup ({user[u] : u \in UserPages} \ {0})
  \cup {r[c].at : c \in {c \in Callers : call[c] \in {"kalloc_zero", "kfree_link", "kfree_store"}}}

\* However the loads and stores of two callers interleave: the map stays, no
\* table of it is handed out, and kernel_pagetable still names its root although
\* the linker put that variable into the last page of the free list.
TablesKept ==
  satp # 0 /\ ~dry =>
    /\ kernel_pagetable = satp
    /\ Tables(mem, satp) \cap Handed = {}

\* The free list from its head, with 0 behind its end.  It is meant to end at the
\* page that holds kernel_pagetable, if one does: that word is the variable, no
\* longer a link.
FreeList ==
  LET pool == Pool \ {layout.kernel_pagetable}
      Chain[n \in 0 .. Cardinality(Pool)] ==
        IF n = 0
          THEN <<free_mem_list.at>>
          ELSE LET list == Chain[n - 1]
               IN  Append(list, IF list[n] \in pool THEN Load(mem, list[n]).at ELSE 0)
  IN  Chain[Cardinality(Pool)]

\* While no two calls overlap, every page is in one place: once on the list, or
\* a table, or one of init's, or with its caller.
PagesBalance ==
  /\ Cardinality(active) <= 1 /\ priv = "S"
  /\ bpc \notin {"start_main", "kinit"}
  => LET list == FreeList
         free == {list[n] : n \in DOMAIN list} \ {0}
         tables == IF bpc = "kvmininit" THEN {} ELSE Tables(mem, kernel_pagetable)
     IN  /\ list[Len(list)] = 0
         /\ free \cup tables \cup Handed = Pool
         /\ Cardinality(free) + Cardinality(tables) + Cardinality(Handed) = Cardinality(Pool)

\* A cached translation is the page table's; one of the user's two pages may lack
\* what userinit added behind it, and no other and never grants more.
StaleOnlyForUser ==
  tlb # NoEntry =>
    LET entry == Translate(mem, satp, tlb.va)
    IN  /\ tlb.pa = entry.pa /\ tlb.perm \subseteq entry.perm
        /\ tlb.perm # entry.perm => tlb.va \in {user["code"], user["stack"]}

\* Boot ends with the scheduler.
BootEnds == <>(dry \/ bpc = "scheduler")

=============================================================================
