# riscv-os-lab in TLA+

A model of the kernel of riscv-os-lab: processes and scheduling, traps, the disk
driver, the block cache, the file system and open files, the page allocator, the page
table and boot, each translated from the C and assembly under `src/kernel`. TLC checks
small instances; TLAPS proves, for every size, the safety of the process table and of the
trap code, that fork, exit and wait implement a process tree up to a race, that boot builds the
page table it means to, loses no page and reaches the scheduler without a fault while memory
lasts, that the block cache over the disk driver implements a store of blocks and
recycles the oldest buffer, that the image is consistent whenever power fails and the calls on
files implement a store of named files that survives it, and that several processes in these
calls keep every count and implement atomic operations on inodes until two of them meet in a
window the code leaves open.

The kernel runs on one hart. It has no lock of any kind: a system call runs with
interrupts on (`usertrap`, trap.c:214) and a timer interrupt taken inside the kernel
yields (trap.c:139-140), so two processes inside the kernel can interleave at every
statement. Most of what is hard in this system comes from that; the rest comes from
power failure during a multi-block write, and from tables that fill up.

## 1. The system

| component | state | operations | hard part |
|---|---|---|---|
| process table and scheduler (proc.c, swtch.S) | `proc[]`, `nextpid`, `c->proc`, `c->context` | allocproc, fork, exit, wait, sleep, wakeup, yield, scheduler | every pair of statements can be split by a tick; sleep and wakeup have no lock |
| traps (trap.c, kernelvec.S) | sstatus, sepc, stvec, sscratch, sip, the frames on the kernel stacks | timervec, user_trap_entry, sys_trap_vector, usertrap, usertrapret, sys_trap_handler | CSRs are one per hart while processes yield inside handlers |
| disk driver (virtio_disk.c) | `struct disk`: descriptors, rings, indices | virtio_disk_rw, alloc_desc, free_chain | polling a device that writes the same memory; wrapping indices |
| block cache (bio.c) | `bcache`: buffers in LRU order | bread, bwrite, brelse | one copy of a block, recycling only idle buffers |
| file system (fs.c) | bitmap, dinodes, blocks; `icache` | balloc, iget/ilock/iput, ialloc, iupdate, bmap, readi, writei, dirlookup, dirlink, namex | order of block writes is the only protection against power loss |
| open files (file.c, sysfile.c) | `ftable`, `ofile[]` of each process | open, read, write, close | error paths of sys_open; references |
| page allocator (kalloc.c) | free list, in the free pages themselves | kinit, kalloc, kfree | unlocked list; the linker script decides which pages are in it |
| page tables (vm.c) | one table, identity map; satp | walk, mappages, kvmininit, kvminithart | regions that share tables, no memory half way, cached translations |
| boot (entry.S, start.c, main.c) | CSRs of M mode, stvec, SIE | start, timerinit, start_main, userinit | the timer runs before M-mode is left; paging and interrupts are turned on under running code |
| system call dispatch (syscall.c, sysproc.c) | none | syscall, argraw, argstr | argument fetching |
| console, UART (console.c, uart.c) | none read back | printf, uart_putc | none |
| mkfs | the image | main | the initial state of the file system |
| user program (proczero.c, usys.S) | none | fork, wait, exit, write | the workload |

Interaction: user programs enter through traps; a system call of the process table
calls kalloc and kfree and gives up the hart through swtch; a system call on files
goes sysfile -> file -> fs -> bio -> virtio_disk_rw and waits by polling, never by
sleeping; a tick calls yield from either vector. The device and the timer are the
only other actors.

What makes each part correct:

* processes: pids and pages are unique, one process is RUNNING, fork returns its own
  child, exit never returns, every zombie is reaped, nobody starves;
* traps: the vector matches the mode whenever an interrupt can be taken, a program
  resumes where it was interrupted, ticks are not lost;
* driver and cache: a call returns, and only when its transfer is done; a block has
  one copy; reads return what was written;
* memory and boot: the page table is the intended map whatever memory there is; a page is
  free, a table or somebody's; no interrupt comes before what it needs is there;
* files: the image is consistent whenever power fails; a write that returned is
  durable; references are given back on every path.

## 2. Modules

```
Family <--refines-- Proc <-- MCProc          FileStore <--refines-- File <-- MCFile
                     ^                                             |    ^      |
        ProcProofs <-- FamilyProofs                                Fs   |     Path
Trap <-- TrapProofs                                                 FileProofs
                                             Inodes <--refines-- Calls <-- CallsProofs

Virtio <-- Bio --refines--> BlockStore       Kalloc <-- Vm <-- Boot <-- MCBoot
            ^                                                  ^
   VirtioProofs <-- BioProofs                              BootProofs
```

An operator `Action_Fault` is `Action` with a plausible bug. None is in a next-state
relation; each shows that some property can fail.

**Proc** - proc.c, one action per statement, or group of statements that no other
process can tell apart. `status`, `pid`, `parent`, ... are the fields of `proc[]`;
`pc`, `slot`, `reg` are a process's statement, loop pointer and local at hand;
`spc`, `sp` are scheduler's. `Tick` is the timer interrupt: enabled between any two
actions while `sie`. `cpu` says what the hart executes. The window between
`p->status = TASK_RUNNING` and the end of swtch in scheduler (proc.c:238-241) is
modelled: a tick there saves the scheduler's frame in the context of the process,
whose own is then `"lost"`. kalloc and kfree are atomic here. The nested-trap window
at the end of sys_trap_handler is left to Trap.

**Family** - what fork, exit and wait promise: a tree of processes in which a
slot is nobody, alive or a zombie.

**Trap** - trap.c and kernelvec.S: the CSRs, a stack of frames per thread, `due`
(a history of where each program must go on). Code that runs with SIE clear is one
action up to the next statement that can set it, give up the hart or return. The
scheduler dispatches in one step (its window belongs to Proc).

**Virtio** - virtio_disk_rw, one action per statement on shared memory. The device
is external: it takes requests in ring order, finishes them in any order, without
errors. `moved` is history: the device has made the transfer of this call.

**Bio** - extends Virtio with bcache: `next` and `prev` are the links of the ring,
`Sentinel` is `bcache.head`; `at` and `want` are the locals of bget. Callers follow
the protocol of every function in fs.c: what was changed is written before brelse.
`idle` is history: the idle buffers by age.

**BlockStore** - one content per block; between bread and brelse the caller may change
it; bwrite makes it durable.

**Fs** - fs.c over a disk of blocks, one bwrite per step: `Balloc`, `Bzero`, `Assign`,
`WriteBlock`, `WriteiEnd` are the steps of writei. A block has `PB` cells, each a
byte, a directory entry or a block number. What is read is a function of the state
(`Bmap`, `Readi`, `Dirlookup`, `Walk`). icache is kept by inode number, since its
slots are told apart by nothing else; its capacity is `SlotsFor`.

**File** - file.c and sysfile.c over Fs: `file` is ftable, `ofile` the descriptors of
one process, `call` the call in progress, `result` what the last one returned.
`PowerFails` can happen between any two steps and leaves the disk.

**FileStore** - named files as sequences of bytes, with an unfinished write allowed to
have changed only its own range.

**Path** - names character by character: argstr, skipelem, the loop of namex, the
comparison of dirlookup and the copy of dirlink, as operators, with a reference definition
each. Fs and File work on sequences of elements; MCFile makes its paths from user strings
with these operators and assumes `PathsAreSplit`, which TLC evaluates for every string of
up to five characters (pairs of up to four) over two letters and the slash.

**Calls** - the composition of File with Proc: several processes inside sys_open, sys_close
and sys_write by the statement, while processes are forked, end and leave their `ofile[]` to
the next process of the slot. `pc` and the locals (`want`, `ip`, `empty`, `f`, `fd`, `byte`) are
those of each process; a statement on shared state (the bitmap, the dinodes, icache, ftable,
`ofile`) is one step. `given` and `made` are history: how often balloc and ialloc have
returned something. Blocks have no content here, that is File's. Nothing in the code
keeps two processes out of the same window, so a behaviour ends when it reaches one:
`Conflict(p, q)` (both between load and store of the same bitmap byte, dinode, icache slot,
inode fields, file or size) or `Revived(p)` (iput about to drop an inode that was opened
again since its test). The list of conflicts is thus part of what is claimed: the calls
are right everywhere else. None is there for convenience: without the one for the
bitmap BlocksOnce is violated, without the one for dinodes InodesOnce, without
the same inode in two igets, or in two loads by ilock, CountsBalance, without the same slot of
icache or the same file the refinement, without Revived OpenIsWhole. (`grow`, the size of one file
in two writes, needs one block more than the run has.)

**Inodes** - what balloc, ialloc, iget, ilock, iupdate and iput promise to each other: each is one
step, which is how Fs and File take them.

**Kalloc** - kalloc.c in the words it manages: `mem` is memory, `free_mem_list` the head, and
word 0 of a free page is the link, as in the code. During boot `Kalloc` and `Kfree` are
functions on a heap. For processes they are one action per load and store (`KallocHead`,
`KallocNext`, ...; `r` and `next` are the local and the register), and `UseAsTrapframe` is
the store of usertrapret to word 0 of a page somebody holds (trap.c:272), which a second
owner of the page would take for a link.

**Vm** - walk, with and without allocation, and the regions of kvmininit, on tables of
`PGSIZE` entries (512 in the code). `Translate` is the hardware's walk of the same words.

**Boot** - start and timerinit statement by statement in M-mode against mtime, with at
most one tick of the interval for each; mret; start_main with kinit and every turn of
mappages an action; then `Userinit`, and the scheduler with callers of kalloc. `left` is the
time to mtimecmp. `Translates` says whether the next statement can be executed and its
devices reached through the MMU, `tlb` is one translation the hart has cached (any one,
kept as long as it likes; none at reset). A hart that runs what nobody wrote is "wild".
Statements that only set up another module's initial state are `Initializes`.

### Simplifications worth knowing

* In Fs and File a call runs alone: that is where the contents of blocks, directories and
  power failure are. Several processes are in Calls, up to the first conflict, and below it in
  `disk_one_copy`.
* `ref++`, `ref--` and the fields of one structure stored in a row are one step of Calls.
* fork copies no `ofile[]` and counts no file, although file.c:65 has filedup for it; exit
  closes nothing. Calls does the same.
* A path that ends in a slash names what is in front of it, for namex as for nameiparent:
  skipelem skips the slashes behind an element (fs.c:655).
* nlink is left out: it is 0 for every file the kernel creates (ialloc clears the
  dinode), and the only code that reads it, a branch of iput, does what the next
  statement does. fs.c:291 takes 0 to mean unlinked; nothing unlinks.
* O_TRUNC (sysfile.c:32) is not in `Modes`: sys_open never tests it.
* Reading a directory through a descriptor, negative lengths, bfree and filedup (which
  nothing calls), and bitmap blocks after the first are left out.
* The data area of the disk is all of `bitmap`; the bits of the metadata are always set.

## 3. Runs

Times are for two cores.

| run | what it asks | bounds | result |
|---|---|---|---|
| `proc_family` | does the code implement Family, keep the hart, pages, fork results, sleepers and zombies right, while one process forks at a time? | 3 slots, all pages or one short | holds (50 s) |
| `proc_live` | is every READY process dispatched, every woken parent up again? | 3 slots, fair | holds (20 s) |
| `proc_lost_wakeup` | is the zombie of the shipped workload reaped? | 2 slots, fair | violated |
| `proc_zombie_returned` | does exit never return? | 3 slots | violated |
| `proc_slot` | does fork return its child when two fork? | 3 slots | violated |
| `trap` | vectors, resumption, restored status, ticks | 2 processes, traps nested 2 deep, 1 byte at the UART | holds (40 s) |
| `trap_sepc` | does sret return to where the trap was taken? | same | violated |
| `disk` | do cache and driver implement BlockStore, with every call returning? | 1 caller, 2 buffers, 3 blocks, 3 descriptors, indices modulo 6 | holds (75 s) |
| `boot` | does every amount of memory end in the intended page table or a panic, is `start()` left in time, do two callers of kalloc leave the tables alone? | tables of 6 entries, 17 layouts, 0 to 2 callers with 2 calls each, interval of 5 ticks | holds (60 s) |
| `disk_one_copy` | has a block one copy when two processes read it? | 2 callers, 2 buffers, 1 block | violated |
| `file` | is the image consistent at every moment, do references balance, is FileStore implemented across a power failure, are paths split as they should be? | 5 calls, 1 power failure, 2 names, 7 blocks of 2 cells, 1 direct address; strings of 5 characters | holds (140 s) |
| `calls` | are several processes in the file calls given different things, do counts balance on every path, do the functions implement Inodes? | 2 processes, 2 files, 1 descriptor each, 3 blocks, 1 or 2 inodes, 2 slots of icache | holds (140 s) |

**Why the bounds are enough.** Three slots are the fewest with a process, its child
and a third who can take a freed slot or be reparented. Page supply one short of
enough makes fork fail half way. Two processes and the scheduler are enough for a
handler to yield to code that returns to user mode and back; nesting beyond two only
repeats a frame. Two buffers for three blocks force recycling on a miss while another
buffer is held; three descriptors are exactly one request, so a leaked one shows at
once; indices modulo 6 over a ring of 3 wrap twice per round. A file of 3 blocks with
one direct address passes direct, new indirect and old indirect blocks, and the root
grows into its indirect block when the first file is made; seven blocks run out when
two files grow; two files, two descriptors and three opens fill both tables. Tables of
6 entries keep the shape of the real map (MCBoot.tla): devices and memory at different
top-level entries, UART and disk in one table, the PLIC in two, text and data in one. The
layouts go from one page, where kvmininit itself fails, to more than boot needs, so kalloc
fails at each of its calls; `Linked` is kernel.elf as committed. Two calls are enough for one
caller to free a page between the load and the store of another's kalloc, which makes them
share it; more would only lose more. Two processes in `calls` open, write and close at the same time or one
after the other in the same slot; two files and two slots of icache are enough for both and run
out when a slot is inherited, one descriptor makes the second open of a process fail after it
has everything; three blocks let one file grow while another does. What two forks at once
break is in `proc_slot`; that pages, types and the hart survive it is proved for every
workload. An interval of 5 is one tick more than there are
statements from `TimerArm` to `Mret`. Crashes
after the first only repeat it, since the memory is then as at boot. The bound on calls
stops `file`, and the bounded workloads and panics stop the others that say
CHECK_DEADLOCK FALSE.

### Fairness

* Proc: the hart never stops, so the statement it is at is executed (weak fairness of
  the scheduler); a tick returns every interval (weak fairness of Timer); an interval is
  some 10^6 cycles, so a process that is dispatched again and again makes progress
  (strong fairness of its step). User programs are not obliged to call anything.
* Trap: the same for handlers; an interrupt that stays pending is taken when SIE is on
  again and again (strong fairness of Interrupt).
* Boot: the hart executes (weak fairness of Hart); interrupts are an interval apart, so
  they cannot keep a statement from being executed.
* Bio: the one caller in the middle of a call keeps running, and a device that was
  notified serves its queue (weak fairness of both). Nobody is obliged to call.

### What the violations say

* `proc_lost_wakeup` - exit wakes the parent (proc.c:309) before it is a ZOMBIE (311),
  and wait goes to sleep after its scan. An exit in between is never noticed.
* `proc_zombie_returned` - wakeup tests SLEEPING and stores READY in two steps; the
  sleeper can have become a ZOMBIE between them and is run again, after its exit.
* `proc_slot` - allocproc leaves the slot FREE until line 100; two forks take it
  (and `nextpid++`, split, gives two children one pid).
* `trap_sepc` - sys_trap_handler restores sepc before sstatus; after a yield it runs with
  SIE on, and an interrupt between the two leaves sepc inside the handler.
* `disk_one_copy` - bget searches and then recycles; two processes that miss the same
  block give it two buffers.

Each needs a tick at one of a few instructions, which is why the lab's own tests pass.

### What `boot` says

What holds is stated so that it stays true of this code; three things do not hold and no
document of the repository claims them:

* pages have more than one owner once two processes overlap in kalloc or kfree.
  `PagesBalance` is for one caller; `TablesKept` is what survives two;
* `end_address` ends .bss, and the linker puts `kernel_pagetable` (vm.c:22, .sbss) behind
  it: the variable is word 0 of the page kinit frees first. `TablesKept` holds because
  that page is the last of the list, and boot does not come to it: only with memory to the
  last page would kalloc clear the variable;
* after userinit's stores into the page table (proc.c:174, 184) there is no sfence.vma.
  `StaleOnlyForUser`: the two pages of init, and nothing else, can have a stale translation,
  and it grants too little, never too much.

## 4. Proofs

`ProcProofs` (checked by tlapm) proves, for every `NPROC`, `NPAGES`, page supply and
workload allowed by `ProcAssumption`:

* `TypeCorrect` - the types: no loop pointer leaves `proc[]`;
* `OneRunningAlways` - one slot at most is RUNNING and `c->proc` names it;
* `SwtchKeepsHartAlways` - a process that has stored SLEEPING or ZOMBIE keeps the hart
  until its swtch;
* `PagesDisjointAlways` - no page is in two fields, or in a field and free.

They hold in every interleaving, those of the violations included. The invariant is

    IInv == TypeOK /\ SchedulerState /\ SlotAtHand /\ SwtchKeepsHart /\ OneRunning

OneRunning alone is not inductive: `SchedBack` clears `c->proc` and needs to know that
the process it clears is no longer RUNNING, which `SwtchKeepsHart` gives; yield and swtch
need `c->proc` to be defined, which `SchedulerState` gives; and a statement that stores
through `np` or `child` needs it to point into the table, which `SlotAtHand` gives.
PagesDisjoint is inductive relative to IInv. There is one lemma per conjunct and group of
actions, and a lemma for each helper (Kalloc, Kfree, SwtchToScheduler).

`FamilyProofs` proves the rest of what `proc_family` checks, for every size and workload:

* `LiveHasPagesApart`, `ForkReturnsChildApart`, `SleeperHasChildApart`, `ZombieFrozenApart` and
  `KeepsFamilyApart` - the refinement to Family - each as `Spec /\ []NoRace => ...`;
* `OneForkerIsRaceFree` - `Spec => []NoRace` if only init forks and init does not exit
  (`OnlyInitForks`), which is what proczero.c does up to its last call;
* `OneForkerKeepsFamily` - so with these programs Family is implemented, without a hypothesis
  about the behaviour.

`NoRace` is a state predicate with two halves, and neither can be spared. `SlotsApart`: no two
processes work on one FREE slot, which two forks do (`proc_slot`), or a fork and a wait that
is still clearing. `WokenLives`: what exit is about to make READY has not died since exit tested
it, which is how a zombie comes back (`proc_zombie_returned`). Everything else the interleaving of fork,
exit and wait can do is proved harmless. The invariant `FInv`, on top of IInv, says process by
process what the statement it is at knows: of its hart and context (`HartOf`, `ContextOf`), of the
slot fork or wait has in hand (`WorkOf`, `ChildOf`), that a slot that is nobody's has a parent
only while that one works on it (`ParentOf`), that exit leaves no child behind its loop pointer
(`OrphansOf`) and that who goes to sleep in wait has a child (`KidsOf`). `Effects` says once
what a statement may store in another slot; the lemmas for the conjuncts rest on it.
With one forker SlotsApart holds since nobody else takes or clears a slot, and WokenLives since
init, which only exits wake, does not die.

`TrapProofs` proves every safety property the run `trap` checks, for any number of
processes, any `MaxDepth` of nested traps and any number of bytes in the UART:

* `TypeCorrect` - the types: a frame fits the stack, no byte is read that is not there;
* `VectorMatchesModeAlways` - stvec and sscratch are those of the mode and the process
  whenever an interrupt can be taken;
* `HandlerNeverPanicsEver` - the two entry panics of sys_trap_handler are unreachable;
* `UserResumesAlways` - a program goes on with its registers at its pc;
* `SretRestoresStatusAlways` - sret finds SPP and SPIE of its own trap.

Its invariant says where a thread can be when it does not hold the hart or when an
interrupt is taken: in the scheduler or a system call under no frame, or before
w_sepc or w_sstatus of a handler whose locals are saved (`Waiting`, and `StackInv` for the
frames below). SretRestoresStatus needs it: what `w_sstatus` writes back was saved by a
trap taken in supervisor mode with SIE set, also when other traps came in between.
VectorMatchesMode needs `UserSideInv` and `KernelInv`, which say of stvec what holds
until it is next written. There is one lemma per action. A hart that has gone on at the
wrong sepc (run `trap_sepc`) executes unknown code, of which nothing is claimed: the
mode is then "wild".

`BootProofs` proves every safety property the run `boot` checks, for every layout, workload,
`PGSIZE` of two words and more, and interval of more than four ticks. `BootAssumption` says what
is taken from kernel.ld and memlayout.h: the text ends and memory ends on a page, the devices and
KERNBASE are page numbers, `kernel_pagetable` is at most the first word behind `end`; workloads are
finite sets. M-mode first, without a further hypothesis:

* `StartNeverInterrupted` - in M-mode the enabled timer interrupt is never pending; there
  timervec would overwrite mepc and MPP;
* `StartReachesStartMain` - mret enters start_main in S-mode with memory opened by PMP.

The invariant counts: at each statement behind `TimerArm` the time left is the interval less
one tick for each statement since. That is also why the bound on the interval is needed. Then
memory, each as `Spec /\ []VariableSpared => [](...)`:

* `BootTypeOK`, `BootTablesKept` - boot and any number of callers of kalloc store in no page but
  those kinit freed; kernel_pagetable goes on naming the root and no table is handed out, however
  the callers' loads and stores interleave;
* `BootPagesBalance` - while no two of these calls overlap, each page kinit freed is once on the
  list, or a table, or handed out;
* `BootMapIsReference` - the hardware's walk of what walk and mappages built translates each
  address as the regions of kvmininit and the two grants of userinit say;
* `BootStaleOnlyForUser` - the stale translation, with no sfence.vma behind userinit, is of
  one of init's two pages and grants too little;
* `BootDoesNotFail` - with the devices below memory in the order of memlayout.h (`DevicesBelow`)
  nothing before the scheduler panics, no statement of the kernel faults, no interrupt comes
  without its handler, unless kalloc returned 0 (`NoFailure`). That is the safety half of BootEnds;
* `BootSafe` - where the linker puts kernel_pagetable in front of the pool (`VariableLow`), all of
  these hold of Spec without a condition on the behaviour.

`VariableSpared` says that nobody takes the page kernel_pagetable lies in. As committed it is the
page kinit frees first, so the last of the list, and whoever got it would clear the variable:
with exactly so much memory the properties do fail, so the hypothesis cannot be dropped, and it is a
state predicate TLC finds true in all states of the run `boot`. There are three invariants; TLC
checked each of the first two on the instance of `boot` before it was proved:

* `PagesInv`. The tables are a tree (`TreeInv`): entries of the upper two levels are 0 or the one
  pointer to a table (no two entries point to the same), those of the last level 0 or leaves. During
  boot the list is every page below its head, each linked to the one before (`BootList`), so it
  needs no induction; tables, init's pages and the list are the pool (`BootHeap`). Once callers
  run the list can be broken: all that is left is what a caller can *find* (`Loose`): 0, a satp,
  or a pointer to a page that is no table. A page kalloc hands out, wherever it came from, is then no
  table. That is why TablesKept survives the races that PagesBalance does not.
* `MapInv`. `Built(m, root, i, b)` says that the regions before the i-th, and the i-th up to b, are
  mapped, and nothing else is; each turn of mappages moves b by a page (`LeafBuilt`), or to the next
  region; at the end that is `Complete`. It rests on the arithmetic of PX: two page addresses below
  MAXVA with the same three indices are the same. It also holds what is cached (`TlbInv`) and
  that the vector is set before interrupts are on (`VectorInv`).
* `BalanceInv`, for one caller: there is a sequence of different pages that the links run through
  (`Linked`), to the page of the variable or to 0; it, the tables and what is handed out are the pool,
  and the list has not moved since the caller looked at it (`Undisturbed`). kalloc takes the first
  (`LinkedTail`), kfree adds one in front (`LinkedCons`), every other store is in a page that is not
  on the list. `FreeListIs` then evaluates the recursive FreeList on such a sequence (by the least
  index at which it would differ), and the cardinalities follow from the disjoint union.

`VirtioProofs` and `BioProofs` are about one process in the file system
(`OneCaller`: `Callers` has one element; with two, `disk_one_copy` violates OneCopy), for any
number of buffers, blocks, values and held buffers, any queue of at least three
descriptors and any width of the indices that is a multiple of it:

* `CacheTyped`, `NeverTwoCopies`, `TransfersBeforeReturn`, `CallsLeaveNothing`, `RingStaysWhole`,
  `HolderOnly`, `OldestRecycled` - all the safety properties of the run `disk`;
* `CacheImplementsStore` - the refinement to BlockStore.

The invariant is `DriverInv` (VirtioProofs), `CacheInv`, `IdleInv` and `StoreInv`
(BioProofs), each relative to the ones before:

* DriverInv follows a request: behind the store to avail.idx it is `Queued`, `InWork`, `Finished`
  or `Consumed`, and in each the four indices are related, idx[] is exactly what is taken
  (`Taken`) and the descriptors are the chain Fill built (`Chained`). The device's steps
  move it on, and free_chain gives back all three because the chain is still there.
* CacheInv has exact reference counts (`Counted`), the ring (`Intact`, also without the one
  buffer brelse has unlinked), and what bget's search has seen. `NotPassed(b)` says it
  as: a set that contains b and is closed under `next` up to the sentinel contains every
  buffer with the block. At the first buffer that is the ring's connectedness, at the sentinel
  it says nobody has the block - what evicting needs for OneCopy. Connectedness
  is itself about closed sets of nodes, so unlinking and inserting preserve it without
  induction; for binit's ring the least number not reached gives the contradiction.
* IdleInv, on top of it, is for `OldestRecycled`: going back along `prev` from the sentinel, past
  buffers in use, one meets the idle buffers in the order of `idle` (`InOrder`). `Comes(p, I, x, y)`
  says one step of that with closed sets again: a set that has x, and with a node that is not
  idle also the one before it, has y. A buffer taken is passed from then on (`OrderRemoves`), one
  that is unlinked only shortens the way (`OrderUnlinks`), one inserted in front is met last
  (`OrderInserts`).
* StoreInv says a valid buffer that is not dirty is what the disk holds, so recycling it
  changes no content; and the device reads only into a buffer that is not valid.

`CallsProofs` is about any number of processes, files, descriptors, inodes and slots of
icache, and up to eight blocks (one byte of the bitmap), up to the first conflict:

* `BlocksOnceAlways` - no block is given twice. A block given is marked, and the byte in the hand
  of the one process at `balloc_set` is what is in the bitmap (`BlockInv`): a second
  would be a conflict.
* `OneSlotAlways` - an inode has one slot. `SlotInv` says of a scan what it has `Seen`: no slot it
  has passed holds the inode it wants, in spite of what others have taken and given back
  meanwhile, and the slot it remembers is still empty when it takes it.
* `FilesPrivateAlways` - no two descriptors share a file. `FileInv` says that a descriptor counts
  for exactly one reference until its close has given it back (`Counts`), and so does
  the local of a process that has taken a file and not yet stored it, or is about to give
  it back (`Owned`); `Tells` is what each statement knows of its `f` and `fd`. These are
  about the references to files; the results that follow are about the inode cache.
* `CountsBalanceAlways`, `OpenIsWholeAlways`, `InodesOnceAlways` - on every path through open and
  close, error paths included, `ref` of a slot is the number of files and of processes in
  the middle of a call that refer to it; an open file is loaded and its offset not behind its
  end; no inode number is given twice.
* `CallsImplementInodes` - the refinement to Inodes: IallocTake is Ialloc, IgetHit and IgetTake are
  Iget, IlockValid is Ilock, Grow and Iupdate are themselves, IputDec and IputDrop are Iput and Drop or
  are not seen, BallocSet is Balloc, and every other statement of fs.c, file.c and sysfile.c
  changes nothing Inodes can see.

The invariant `CallsInv` has three layers, each proved inductive relative to the ones before:
`TablesInv` (BlockInv, SlotInv, FileInv, and `InodeInv`: what each statement knows of the inode
it has a pointer to), `RefInv` and `Fresh`. RefInv's `Balance` counts `ref[s]` as the files and
the processes that stand for slot s (`FilesOf`, `HoldersOf`); for it to be inductive a file in
use must be somebody's (`UsedFiles`) and a pointer that is held must be to a loaded inode
(`Validity`). Sets only ever gain or lose one element in a step, which is all of cardinality
that is used. Fresh says a valid copy that somebody can use is the dinode on the disk or is
about to be written by iupdate, and no offset is behind the size. It is restricted to slots
that are `Live`: a dead copy may be old. `Conflict` and `Revived` enter where a statement uses
what another process could have changed since it was read.

`FileProofs` proves all the run `file` checks, for any number of blocks, inodes, files and
descriptors, any size of a block and of the direct part of an inode, any paths, and any number
of calls and power failures (`FsAssumption`: a block has two cells at least, since mkfs puts "."
and ".." in the first, and a cell that is not zero can be told from one that is):

* `FileDiskConsistent` - the image is consistent after every bwrite, so whenever power fails;
* `FileReferencesBalance` - every reference to an inode is an open file's and every open file is
  one descriptor's, on all the error paths of sys_open;
* `FileImplementsStore` - the refinement to FileStore: a returned write survives a power failure.

An inode has its numbers of blocks in places: one for each direct address, one for the indirect
block, and one for each cell of that. The invariant (`Inv`; TLC checked it on a run of `file`
first) says of them:

* `OnDisk` and `InUse` are the numbers by place, on the disk, and with those which writei has so
  far only in memory. `Once` says of InUse that a number is in one place of one inode, and marked.
  DiskConsistent says so of OnDisk only, which is not inductive: power may fail before iupdate, but
  a second balloc must not give what the first gave. The block in hand between balloc and the store
  of its number (`fresh`) is marked and in no place (`WriteInv`); a power failure loses it for ever.
* `CacheInv`: a copy in icache is the dinode, but of the inode that grows, and there it is
  `Ahead`: same type and size, and an address that is on the disk is the same in memory. Then whoever
  reads the disk in between sees the old file.
* `Covered` and `Entries`: every cell below the size has a block, and the entries of the root
  are unique names of allocated inodes. A new entry is behind the size until iupdate writes the
  size, and ialloc has written its dinode before (`WriteInv`, op "open"). That a path leads to an
  allocated inode (`PathNamed`) follows for every step of namex, and for any number of them by taking
  the first step after which it does not.
* `Balanced` counts a slot's `ref` as its files (`FilesOf`) and the call in progress (`Took`):
  sys_open holds the directory and the new inode at once.

ReferencesBalance needs all of this, since iput looks at what the inode is. For the refinement
`StoreInv` adds what a user sees of a write in progress: cells that writei has passed hold
what is written, in the blocks InUse names. `Content` and `Dir` are read from the disk alone, so
Balloc, Bzero and a store of a number are seen by nobody; WriteBlock changes cells in the write's
range below the size; iupdate makes the file end where the write ends, with all of it there
(`WriteGrows`), or, for the root, makes the new name appear with its empty file (`EntryAppears`):
that step is FileStore's Create. PowerFails leaves the disk and so the names and contents. There is one lemma per
action for Inv and one for what FileStore sees of it.

Only model-checked:

* the disagreements the violation runs show, which are counterexamples and not theorems.
* all liveness, which is out of the prover's reach: NoStarvation, ExitWakesParent, TickHandled,
  CallsReturn and BootEnds, of which the safety half is `BootDoesNotFail`. Every invariant, action
  property and refinement a passing run checks is also a theorem.

## 5. Not modelled

* the instructions of M-mode before start (entry.S sets the stack pointer) and the
  initialisation of devices and tables beyond its result.
* printf, UART output, argument fetching, assembly register moves: no state that a
  property is about.
* bfree, filedup: nothing calls them. Bitmap blocks after the first, reading a directory
  through a descriptor: nothing the kernel or its user program does comes to them.
* what the kernel does after two processes have met in a window of fs.c or file.c: from there
  on anything can be lost, and no document claims otherwise. The windows are listed in
  `Conflict`.
* the dispatch table of syscall.c and the fetching of arguments from the trapframe.

## 6. Plan

1. **Several callers of the disk** - descriptors shared by two alloc_desc, completions
   consumed twice, a second reader of a buffer that is being read, 30 buffers held; the
   actions are in Virtio and Bio, the runs stop at OneCopy.
2. **Calls over Bio** - the conflicts of the cache and those of fs.c in one model.
3. **Proofs** - that boot never comes to the page of kernel_pagetable, from a bound on the tables
   the regions need, to replace `VariableSpared` by an assumption on the amount of memory.
