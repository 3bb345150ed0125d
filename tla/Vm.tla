---------------------------------- MODULE Vm ----------------------------------
(***************************************************************************)
(* Page tables: walk and mappages of kernel/mm/vm.c, and the walk the      *)
(* hardware makes of the same words.  Three levels of PGSIZE entries.      *)
(***************************************************************************)
EXTENDS Kalloc, Sequences

CONSTANTS UART0, PLIC, VIRTIO0, KERNBASE   \* page addresses (memlayout.h)

R == "R"  W == "W"  X == "X"  U == "U"

\* Half of what three levels reach.
MAXVA == PGSIZE * ((PGSIZE * PGSIZE * PGSIZE) \div 2)

VirtualPages == {n * PGSIZE : n \in 0 .. MAXVA \div PGSIZE - 1}

\* What an entry of a table spans.
PXSHIFT(level) ==
  CASE level = 0 -> PGSIZE
    [] level = 1 -> PGSIZE * PGSIZE
    [] level = 2 -> PGSIZE * PGSIZE * PGSIZE

PX_Unmasked(level, va) == va \div PXSHIFT(level)

\* The index of va at a level.
PX(level, va) == (va \div PXSHIFT(level)) % PGSIZE

Valid(word) == word.kind = "pte"

-----------------------------------------------------------------------------
(* walk.  Its state: the heap, and pt, the table it has come to (0 after an *)
(* allocation failed).                                                      *)

Heap(s) == [mem |-> s.mem, list |-> s.list]

\* One turn of the loop; a table is allocated where there is none.
Descend(s, level, va) ==
  LET pte == s.pt + PX(level, va)
      new == Kalloc(Heap(s))
  IN  IF s.pt = 0
        THEN s
        ELSE IF Valid(Load(s.mem, pte))
        THEN [s EXCEPT !.pt = Load(s.mem, pte).at]
        ELSE IF s.list = Null
        THEN [s EXCEPT !.pt = 0]
        ELSE [mem  |-> Store(Zeroed(new.mem, s.list.at), pte, PA2PTE(s.list.at, {})),
              list |-> new.list,
              pt   |-> s.list.at]

\* walk(pagetable, va, 1): the heap after it and the last table.
Walk(h, pagetable, va) ==
  Descend(Descend([mem |-> h.mem, list |-> h.list, pt |-> pagetable], 2, va), 1, va)

WalkNoAlloc_Middle(m, pagetable, va) ==
  LET two == Load(m, pagetable + PX(2, va))
      one == Load(m, two.at + PX(1, va))
  IN  IF Valid(two) /\ Valid(one) THEN one.at + PX(1, va) ELSE 0

\* walk(pagetable, va, 0): the address of the last entry, 0 if a table is missing.
WalkNoAlloc(m, pagetable, va) ==
  LET two == Load(m, pagetable + PX(2, va))
      one == Load(m, two.at + PX(1, va))
  IN  IF Valid(two) /\ Valid(one) THEN one.at + PX(0, va) ELSE 0

-----------------------------------------------------------------------------
(* The hardware                                                            *)

NoEntry == [va |-> -1, pa |-> -1, perm |-> {}]

VPN(level, va) == (va \div PXSHIFT(level)) % PGSIZE

\* What the MMU makes of va: a leaf is an entry with permissions, and anything
\* but two pointers and a leaf is a page fault (a leaf above level 0 would be a
\* superpage: the code builds none).
Translate(m, root, va) ==
  LET two  == Load(m, root + VPN(2, va))
      one  == Load(m, two.at + VPN(1, va))
      zero == Load(m, one.at + VPN(0, va))
  IN  IF /\ Valid(two) /\ two.perm = {} /\ Valid(one) /\ one.perm = {}
         /\ Valid(zero) /\ zero.perm # {}
        THEN [va |-> va, pa |-> zero.at, perm |-> zero.perm]
        ELSE NoEntry

\* The tables the hardware can reach from the root.
Tables(m, root) ==
  LET Below(tables) == {Load(m, e).at : e \in
                          {e \in UNION {WordsOf(t) : t \in tables} :
                             Valid(Load(m, e)) /\ Load(m, e).perm = {}}}
  IN  {root} \cup Below({root}) \cup Below(Below({root}))

-----------------------------------------------------------------------------
(* What kvmininit maps, in order.                                          *)

PlicSize == 2 * PGSIZE * PGSIZE     \* 0x400000: the reach of two last-level tables

Region(i) ==
  CASE i = 1 -> [va |-> UART0, size |-> PGSIZE, perm |-> {R, W}]
    [] i = 2 -> [va |-> PLIC, size |-> PlicSize, perm |-> {R, W}]
    [] i = 3 -> [va |-> VIRTIO0, size |-> PGSIZE, perm |-> {R, W}]
    [] i = 4 -> [va |-> KERNBASE, size |-> layout.etext - KERNBASE, perm |-> {R, X}]
    [] i = 5 -> [va |-> layout.etext, size |-> layout.phystop - layout.etext,
                 perm |-> {R, W}]

First(i) == PGROUNDDOWN(Region(i).va)
Last_Unaligned(i) == Region(i).va + Region(i).size - 1
Last(i) == PGROUNDDOWN(Region(i).va + Region(i).size - 1)

=============================================================================
