-------------------------------- MODULE Kalloc --------------------------------
(***************************************************************************)
(* The page allocator of kernel/mm/kalloc.c in the memory it manages.      *)
(*                                                                         *)
(* Memory is words; an address is the number of a word and a page is       *)
(* PGSIZE words (512 of 8 bytes on the machine).  The free list lives in   *)
(* the free pages: word 0 of a free page is the pointer to the next.  Only *)
(* the words that are not 0 are in mem.                                    *)
(*                                                                         *)
(* Callers are processes in fork or wait: the kernel yields in the middle  *)
(* of either, so kalloc and kfree are interleaved load by load and store   *)
(* by store.                                                               *)
(***************************************************************************)
EXTENDS Integers, FiniteSets

CONSTANTS
  PGSIZE,    \* words in a page, and entries in a page table
  Callers,   \* processes that allocate and free
  MaxCalls   \* bound: calls one caller makes

VARIABLES
  layout,         \* what the linker fixed: see Layouts in Boot
  mem,            \* the words that are not 0
  free_mem_list,  \* the head of the list, a word
  call,           \* where each caller is in kalloc or kfree
  r,              \* its local r, a word
  next,           \* the register between the load and the store of a list step
  held,           \* the pages kalloc returned to it
  calls           \* how many calls it has made

heap == <<mem, free_mem_list>>
callers == <<call, r, next, held, calls>>

-----------------------------------------------------------------------------
(* Words.  A page address has its low bits clear, so it is no valid PTE; a  *)
(* kernel_satp (word 0 of a trapframe, trap.c:272) is no canonical address. *)

Null == [kind |-> "null", at |-> 0, perm |-> {}]
Ptr(address) == [kind |-> "ptr", at |-> address, perm |-> {}]
PA2PTE(pa, perm) == [kind |-> "pte", at |-> pa, perm |-> perm]
KernelSatp == [kind |-> "satp", at |-> 0, perm |-> {}]

Load(m, address) == IF address \in DOMAIN m THEN m[address] ELSE Null

Store(m, address, word) ==
  [b \in IF word = Null THEN DOMAIN m \ {address} ELSE DOMAIN m \cup {address} |->
     IF b = address THEN word ELSE m[b]]

WordsOf(page) == page .. page + PGSIZE - 1

\* for (i = 0; i < PGSIZE / 8; i++) p[i] = 0;
Zeroed(m, page) == [b \in DOMAIN m \ WordsOf(page) |-> m[b]]

PGROUNDUP(address) == ((address + PGSIZE - 1) \div PGSIZE) * PGSIZE
PGROUNDDOWN(address) == (address \div PGSIZE) * PGSIZE

\* The pages kinit frees.
Pool ==
  {n * PGSIZE : n \in PGROUNDUP(layout.end) \div PGSIZE .. layout.phystop \div PGSIZE - 1}

-----------------------------------------------------------------------------
(* kalloc and kfree where nothing can interrupt them with another call:    *)
(* during boot.  A heap is the memory and the head of the list.            *)

KfreeValid(page) ==
  page % PGSIZE = 0 /\ page >= layout.end /\ page < layout.phystop

\* r->next = free_mem_list; free_mem_list = r;
Kfree(h, page) == [mem |-> Store(h.mem, page, h.list), list |-> Ptr(page)]

\* The heap after the call; the page is the old head, Null when there is none.
Kalloc(h) ==
  IF h.list = Null
    THEN h
    ELSE [mem |-> Zeroed(h.mem, h.list.at), list |-> Load(h.mem, h.list.at)]

-----------------------------------------------------------------------------
(* kalloc, preempted at every load and store                               *)

At(c, label) == call[c] = label
Goto(c, label) == call' = [call EXCEPT ![c] = label]
Counted(c) == calls[c] < MaxCalls /\ calls' = [calls EXCEPT ![c] = @ + 1]

\* r = free_mem_list; if (r) -- an empty list returns 0.
KallocHead(c) ==
  /\ At(c, "none") /\ Counted(c)
  /\ r' = [r EXCEPT ![c] = free_mem_list]
  /\ IF free_mem_list = Null THEN UNCHANGED call ELSE Goto(c, "kalloc_next")
  /\ UNCHANGED <<heap, next, held>>

\* The load of r->next; one through a word that is no address faults (see
\* LoadFaults).
KallocNext(c) ==
  /\ At(c, "kalloc_next") /\ r[c].kind = "ptr"
  /\ next' = [next EXCEPT ![c] = Load(mem, r[c].at)]
  /\ Goto(c, "kalloc_store")
  /\ UNCHANGED <<heap, r, held, calls>>

KallocStore(c) ==
  /\ At(c, "kalloc_store")
  /\ free_mem_list' = next[c]
  /\ next' = [next EXCEPT ![c] = Null]
  /\ Goto(c, "kalloc_zero")
  /\ UNCHANGED <<mem, r, held, calls>>

\* The page is cleared and returned.
KallocZero(c) ==
  /\ At(c, "kalloc_zero")
  /\ mem' = Zeroed(mem, r[c].at)
  /\ held' = [held EXCEPT ![c] = @ \cup {r[c].at}]
  /\ r' = [r EXCEPT ![c] = Null]
  /\ Goto(c, "none")
  /\ UNCHANGED <<free_mem_list, next, calls>>

-----------------------------------------------------------------------------
(* kfree, preempted in the same way                                        *)

\* The load of free_mem_list; the check before it does not fail for a page
\* kalloc returned.
KfreeLoad(c, page) ==
  /\ At(c, "none") /\ Counted(c) /\ page \in held[c] /\ KfreeValid(page)
  /\ held' = [held EXCEPT ![c] = @ \ {page}]
  /\ r' = [r EXCEPT ![c] = Ptr(page)]
  /\ next' = [next EXCEPT ![c] = free_mem_list]
  /\ Goto(c, "kfree_link")
  /\ UNCHANGED heap

KfreeLink_Unlinked(c) ==
  /\ At(c, "kfree_link")
  /\ next' = [next EXCEPT ![c] = Null]
  /\ Goto(c, "kfree_store")
  /\ UNCHANGED <<heap, r, held, calls>>

KfreeLink(c) ==
  /\ At(c, "kfree_link")
  /\ mem' = Store(mem, r[c].at, next[c])
  /\ next' = [next EXCEPT ![c] = Null]
  /\ Goto(c, "kfree_store")
  /\ UNCHANGED <<free_mem_list, r, held, calls>>

KfreeStore(c) ==
  /\ At(c, "kfree_store")
  /\ free_mem_list' = r[c]
  /\ r' = [r EXCEPT ![c] = Null]
  /\ Goto(c, "none")
  /\ UNCHANGED <<mem, next, held, calls>>

\* usertrapret stores satp in the first word of the trapframe, whenever the
\* process the page belongs to returns to user mode.
UseAsTrapframe(c, page) ==
  /\ page \in held[c] /\ Load(mem, page) # KernelSatp
  /\ mem' = Store(mem, page, KernelSatp)
  /\ UNCHANGED <<free_mem_list, callers>>

LoadFaults(c) == At(c, "kalloc_next") /\ r[c].kind # "ptr"

CallerStep(c) ==
  \/ KallocHead(c) \/ KallocNext(c) \/ KallocStore(c) \/ KallocZero(c)
  \/ KfreeLink(c) \/ KfreeStore(c)
  \/ \E page \in held[c] : KfreeLoad(c, page) \/ UseAsTrapframe(c, page)

=============================================================================
