-------------------------------- MODULE Proc --------------------------------
(***************************************************************************)
(* The process table of the kernel (kernel/proc/proc.c): allocproc, fork,  *)
(* exit, wait, sleep, wakeup, yield and the scheduler, on one hart.        *)
(*                                                                         *)
(* There is no lock anywhere in this code.  A system call runs with        *)
(* interrupts on (usertrap, trap.c:214) and a timer interrupt taken inside *)
(* the kernel yields (trap.c:139-140), so a process can lose the hart      *)
(* between any two statements.  One action is one statement, or a group of *)
(* statements no other process can tell apart; Tick is the timer interrupt *)
(* and is enabled between any two actions while SIE is set.                *)
(*                                                                         *)
(* Kernel pages come from kalloc/kfree, atomic here; their own races are   *)
(* another module's subject.  Page contents, names, the shared page table  *)
(* and printf are left out.                                                *)
(*                                                                         *)
(* An operator named Action_Fault is the action with a plausible bug; it is *)
(* not part of Next and serves to show that a property can fail.           *)
(***************************************************************************)
EXTENDS Integers, Sequences

CONSTANTS NPROC,       \* slots of the process table, proc[NPROC]
          NPAGES,      \* BOUND: pages for trapframes and kernel stacks
          FreePages,   \* how many of them kalloc's list may hold after boot
          ExitCodes,   \* the statuses a program passes to exit
          Workloads,   \* BOUND: the fork calls the program in each slot makes
          MayExit,     \* slots whose program may call exit
          MayWait      \* slots whose program may call wait

Slot == 0 .. NPROC - 1
Pointer == 0 .. NPROC    \* a loop pointer over proc[], its end included
Null == -1               \* the null struct proc pointer, and the null channel
Init0 == 0               \* &proc[0], the init process
Page == 1 .. NPAGES
NoPage == 0              \* the null page pointer

ASSUME ProcAssumption ==
  /\ NPROC \in Nat \ {0}
  /\ NPAGES \in Nat /\ NPAGES >= 2    \* userinit panics without its pages
  /\ ExitCodes \subseteq Int
  /\ FreePages \subseteq 0 .. NPAGES - 2
  /\ Workloads \subseteq [Slot -> Nat]
  /\ MayExit \subseteq Slot
  /\ MayWait \subseteq Slot

VARIABLES
  \* struct proc, field by field
  status, pid, parent, chan, xstate, trapframe, kstack, context,
  \* allocpid's counter and kalloc's free list, head first
  nextpid, freelist,
  \* the hart: what it executes, c->proc, c->context, sstatus.SIE
  cpu, cproc, ccontext, sie,
  \* scheduler(): its statement and its loop pointer p
  spc, sp,
  \* each process: its statement, loop pointer or slot at hand, havekids, and
  \* the local at hand (nextpid as loaded, wakeup's chan, wait's pid)
  pc, slot, havekids, reg,
  \* the fork calls each slot's program still makes
  forks

entry   == <<status, pid, parent, chan, xstate, trapframe, kstack>>
hart    == <<cpu, cproc, ccontext, sie, spc, sp, context>>
supply  == <<nextpid, freelist>>
vars    == <<entry, hart, supply, pc, slot, havekids, reg, forks>>

Status   == {"FREE", "ALLOCATED", "READY", "RUNNING", "SLEEPING", "ZOMBIE"}
\* What p->context resumes: forkret; the call of swtch in sleep or exit; the
\* one in a trap handler's yield; or a frame of scheduler() that a tick in the
\* dispatch window left there, in which case the process's own frame is lost.
Contexts == {"none", "forkret", "call", "trap", "lost"}
CpuState == {"sched", "proc", "spin", "panic", "wild"}
SchedPc  == {"intr_on", "scan", "setproc", "swtch", "load", "back"}
WaitPc   == {"wait_scan", "reap_free", "reap_clear", "reap_trapframe",
             "reap_kstack", "sleep_chan", "sleep_status", "sleep_swtch",
             "sleep_return"}
ProcPc   == WaitPc \cup
            {"user",
             "alloc_scan", "alloc_pid", "alloc_pid_store", "alloc_trapframe",
             "alloc_mark", "alloc_init",
             "fork_kstack", "fork_copy", "fork_ready", "fork_return",
             "exit_reparent", "exit_wakeup", "exit_wakeup_store",
             "exit_zombie", "exit_swtch", "zombie_returned"}

-----------------------------------------------------------------------------
(* Boot: userinit has made proc[0] ready, main has entered scheduler().    *)

Init ==
  /\ status = [p \in Slot |-> IF p = Init0 THEN "READY" ELSE "FREE"]
  /\ pid = [p \in Slot |-> IF p = Init0 THEN 1 ELSE 0]
  /\ nextpid = 2
  /\ parent = [p \in Slot |-> Null]
  /\ chan = [p \in Slot |-> Null]
  /\ xstate = [p \in Slot |-> 0]
  /\ trapframe = [p \in Slot |-> IF p = Init0 THEN 1 ELSE NoPage]
  /\ kstack = [p \in Slot |-> IF p = Init0 THEN 2 ELSE NoPage]
  /\ context = [p \in Slot |-> IF p = Init0 THEN "forkret" ELSE "none"]
  /\ \E n \in FreePages : freelist = [i \in 1 .. n |-> i + 2]
  /\ cpu = "sched" /\ cproc = Null /\ ccontext = Null /\ sie = TRUE
  /\ spc = "intr_on" /\ sp = 0
  /\ pc = [p \in Slot |-> "user"]
  /\ slot = [p \in Slot |-> 0]
  /\ havekids = [p \in Slot |-> FALSE]
  /\ reg = [p \in Slot |-> Null]
  /\ forks \in Workloads

-----------------------------------------------------------------------------
(* Helpers: the process p executes on the hart and is at a statement.      *)

At(p, label) == cpu = "proc" /\ cproc = p /\ pc[p] = label

Goto(p, label) == pc' = [pc EXCEPT ![p] = label]

\* The loop pointer of a scan over proc[], and its step.
First(p) == slot' = [slot EXCEPT ![p] = 0]
Advance(p) == slot' = [slot EXCEPT ![p] = @ + 1]
InTable(p) == slot[p] < NPROC

\* The system call returns: syscall() stores the result, usertrapret reads
\* p->trapframe (a null one faults in S-mode: panic) and sret sets SIE.
UserTrapRet(p) ==
  /\ Goto(p, "user")
  /\ First(p)
  /\ havekids' = [havekids EXCEPT ![p] = FALSE]
  /\ reg' = [reg EXCEPT ![p] = Null]
  /\ sie' = TRUE
  /\ cpu' = IF trapframe[p] = NoPage THEN "panic" ELSE "proc"
  /\ UNCHANGED <<cproc, ccontext, spc, sp, context>>

\* kfree(page) if the field is not null.
Kfree(page) == IF page = NoPage THEN freelist ELSE <<page>> \o freelist

\* swtch(&p->context, &c->context): the process stops, the scheduler goes on
\* after its own call of swtch with the loop pointer it saved there.
SwtchToScheduler(p, how) ==
  /\ context' = [context EXCEPT ![p] = how]
  /\ cpu' = "sched"
  /\ spc' = "back"
  /\ sp' = ccontext
  /\ UNCHANGED <<cproc, ccontext>>

-----------------------------------------------------------------------------
(* allocproc                                                               *)

ForkCall(p) ==
  /\ At(p, "user") /\ forks[p] > 0
  /\ forks' = [forks EXCEPT ![p] = @ - 1]
  /\ Goto(p, "alloc_scan") /\ First(p)
  /\ UNCHANGED <<entry, hart, supply, havekids, reg>>

Unused_ZombieToo(c) == status[c] \in {"FREE", "ZOMBIE"}
\* if (p->status == TASK_FREE) goto found;
Unused(c) == status[c] = "FREE"

AllocScan(p) ==
  /\ At(p, "alloc_scan") /\ InTable(p)
  /\ IF Unused(slot[p]) THEN Goto(p, "alloc_pid") /\ UNCHANGED slot
                        ELSE Advance(p) /\ UNCHANGED pc
  /\ UNCHANGED <<entry, hart, supply, havekids, reg, forks>>

\* The table is full: fork returns -1.
AllocFull(p) ==
  /\ At(p, "alloc_scan") /\ ~InTable(p)
  /\ UserTrapRet(p)
  /\ UNCHANGED <<entry, supply, forks>>

\* nextpid++ is a load and a store.
AllocPid(p) ==
  /\ At(p, "alloc_pid")
  /\ reg' = [reg EXCEPT ![p] = nextpid]
  /\ Goto(p, "alloc_pid_store")
  /\ UNCHANGED <<entry, hart, supply, slot, havekids, forks>>

AllocPidStore(p) ==
  /\ At(p, "alloc_pid_store")
  /\ nextpid' = reg[p] + 1
  /\ pid' = [pid EXCEPT ![slot[p]] = reg[p]]
  /\ Goto(p, "alloc_trapframe")
  /\ UNCHANGED <<status, parent, chan, xstate, trapframe, kstack, hart,
                 freelist, slot, havekids, reg, forks>>

AllocTrapframe(p) ==
  /\ At(p, "alloc_trapframe")
  /\ freelist # <<>>
  /\ trapframe' = [trapframe EXCEPT ![slot[p]] = Head(freelist)]
  /\ freelist' = Tail(freelist)
  /\ Goto(p, "alloc_mark")
  /\ UNCHANGED <<status, pid, parent, chan, xstate, kstack, hart, nextpid,
                 slot, havekids, reg, forks>>

AllocNoTrapframe(p) ==
  /\ At(p, "alloc_trapframe") /\ freelist = <<>>
  /\ trapframe' = [trapframe EXCEPT ![slot[p]] = NoPage]
  /\ status' = [status EXCEPT ![slot[p]] = "FREE"]
  /\ UserTrapRet(p)
  /\ UNCHANGED <<pid, parent, chan, xstate, kstack, supply, forks>>

AllocMark_Ready(p) ==
  /\ At(p, "alloc_mark")
  /\ status' = [status EXCEPT ![slot[p]] = "READY"]
  /\ Goto(p, "alloc_init")
  /\ UNCHANGED <<pid, parent, chan, xstate, trapframe, kstack, hart, supply,
                 slot, havekids, reg, forks>>

AllocMark(p) ==
  /\ At(p, "alloc_mark")
  /\ status' = [status EXCEPT ![slot[p]] = "ALLOCATED"]
  /\ Goto(p, "alloc_init")
  /\ UNCHANGED <<pid, parent, chan, xstate, trapframe, kstack, hart, supply,
                 slot, havekids, reg, forks>>

AllocInit(p) ==
  /\ At(p, "alloc_init")
  /\ parent' = [parent EXCEPT ![slot[p]] = Null]
  /\ chan' = [chan EXCEPT ![slot[p]] = Null]
  /\ xstate' = [xstate EXCEPT ![slot[p]] = 0]
  /\ context' = [context EXCEPT ![slot[p]] = "forkret"]
  /\ Goto(p, "fork_kstack")
  /\ UNCHANGED <<status, pid, trapframe, kstack, cpu, cproc, ccontext, sie,
                 spc, sp, supply, slot, havekids, reg, forks>>

-----------------------------------------------------------------------------
(* fork, after allocproc                                                   *)

ForkKstack(p) ==
  /\ At(p, "fork_kstack")
  /\ freelist # <<>>
  /\ kstack' = [kstack EXCEPT ![slot[p]] = Head(freelist)]
  /\ freelist' = Tail(freelist)
  /\ Goto(p, "fork_copy")
  /\ UNCHANGED <<status, pid, parent, chan, xstate, trapframe, hart, nextpid,
                 slot, havekids, reg, forks>>

ForkNoKstack_GoesOn(p) ==
  /\ At(p, "fork_kstack") /\ freelist = <<>>
  /\ kstack' = [kstack EXCEPT ![slot[p]] = NoPage]
  /\ Goto(p, "fork_copy")
  /\ UNCHANGED <<status, pid, parent, chan, xstate, trapframe, hart, supply,
                 slot, havekids, reg, forks>>

ForkNoKstack_KeepsPointer(p) ==
  /\ At(p, "fork_kstack") /\ freelist = <<>>
  /\ freelist' = Kfree(trapframe[slot[p]])
  /\ status' = [status EXCEPT ![slot[p]] = "FREE"]
  /\ UserTrapRet(p)
  /\ UNCHANGED <<pid, parent, chan, xstate, trapframe, kstack, nextpid, forks>>

\* The slot is given back, its trapframe page is not.
ForkNoKstack(p) ==
  /\ At(p, "fork_kstack") /\ freelist = <<>>
  /\ kstack' = [kstack EXCEPT ![slot[p]] = NoPage]
  /\ status' = [status EXCEPT ![slot[p]] = "FREE"]
  /\ UserTrapRet(p)
  /\ UNCHANGED <<pid, parent, chan, xstate, trapframe, supply, forks>>

\* *np->trapframe = *p->trapframe; ... np->parent = p.  The copy through a
\* null trapframe faults in S-mode.
ForkCopy(p) ==
  /\ At(p, "fork_copy")
  /\ IF trapframe[slot[p]] = NoPage
       THEN cpu' = "panic" /\ UNCHANGED <<parent, pc>>
       ELSE /\ parent' = [parent EXCEPT ![slot[p]] = p]
            /\ Goto(p, "fork_ready")
            /\ UNCHANGED cpu
  /\ UNCHANGED <<status, pid, chan, xstate, trapframe, kstack, cproc, ccontext,
                 sie, spc, sp, context, supply, slot, havekids, reg, forks>>

ForkReady(p) ==
  /\ At(p, "fork_ready")
  /\ status' = [status EXCEPT ![slot[p]] = "READY"]
  /\ Goto(p, "fork_return")
  /\ UNCHANGED <<pid, parent, chan, xstate, trapframe, kstack, hart, supply,
                 slot, havekids, reg, forks>>

\* return np->pid: read after the child was made ready.
ForkReturn(p) ==
  /\ At(p, "fork_return")
  /\ UserTrapRet(p)
  /\ UNCHANGED <<entry, supply, forks>>

-----------------------------------------------------------------------------
(* exit, with the loop of wakeup(p->parent) in line                        *)

ExitCall(p) ==
  /\ At(p, "user") /\ p \in MayExit
  /\ \E code \in ExitCodes : xstate' = [xstate EXCEPT ![p] = code]
  /\ Goto(p, "exit_reparent") /\ First(p)
  /\ UNCHANGED <<status, pid, parent, chan, trapframe, kstack, hart, supply,
                 havekids, reg, forks>>

\* if (pp->parent == p) pp->parent = &proc[0];
ExitReparent(p) ==
  /\ At(p, "exit_reparent") /\ InTable(p)
  /\ parent' = IF parent[slot[p]] = p
                 THEN [parent EXCEPT ![slot[p]] = Init0] ELSE parent
  /\ Advance(p)
  /\ UNCHANGED <<status, pid, chan, xstate, trapframe, kstack, hart, supply,
                 pc, havekids, reg, forks>>

ExitWakeupCall_Self(p) ==
  /\ At(p, "exit_reparent") /\ ~InTable(p)
  /\ reg' = [reg EXCEPT ![p] = p]
  /\ Goto(p, "exit_wakeup") /\ First(p)
  /\ UNCHANGED <<entry, hart, supply, havekids, forks>>

ExitWakeupCall(p) ==
  /\ At(p, "exit_reparent") /\ ~InTable(p)
  /\ reg' = [reg EXCEPT ![p] = parent[p]]
  /\ Goto(p, "exit_wakeup") /\ First(p)
  /\ UNCHANGED <<entry, hart, supply, havekids, forks>>

\* if (p != myproc() && p->status == TASK_SLEEPING && p->chan == chan)
Wakeup(p) ==
  /\ At(p, "exit_wakeup") /\ InTable(p)
  /\ IF /\ slot[p] # p
        /\ status[slot[p]] = "SLEEPING"
        /\ chan[slot[p]] = reg[p]
       THEN Goto(p, "exit_wakeup_store") /\ UNCHANGED slot
       ELSE Advance(p) /\ UNCHANGED pc
  /\ UNCHANGED <<entry, hart, supply, havekids, reg, forks>>

WakeupStore(p) ==
  /\ At(p, "exit_wakeup_store")
  /\ status' = [status EXCEPT ![slot[p]] = "READY"]
  /\ Goto(p, "exit_wakeup") /\ Advance(p)
  /\ UNCHANGED <<pid, parent, chan, xstate, trapframe, kstack, hart, supply,
                 havekids, reg, forks>>

WakeupReturn(p) ==
  /\ At(p, "exit_wakeup") /\ ~InTable(p)
  /\ Goto(p, "exit_zombie") /\ First(p)
  /\ reg' = [reg EXCEPT ![p] = Null]
  /\ UNCHANGED <<entry, hart, supply, havekids, forks>>

ExitZombie_FreesItself(p) ==
  /\ At(p, "exit_zombie")
  /\ status' = [status EXCEPT ![p] = "FREE"]
  /\ pid' = [pid EXCEPT ![p] = 0]
  /\ Goto(p, "exit_swtch")
  /\ UNCHANGED <<parent, chan, xstate, trapframe, kstack, hart, supply,
                 slot, havekids, reg, forks>>

ExitZombie(p) ==
  /\ At(p, "exit_zombie")
  /\ status' = [status EXCEPT ![p] = "ZOMBIE"]
  /\ Goto(p, "exit_swtch")
  /\ UNCHANGED <<pid, parent, chan, xstate, trapframe, kstack, hart, supply,
                 slot, havekids, reg, forks>>

ExitSwtch(p) ==
  /\ At(p, "exit_swtch")
  /\ Goto(p, "zombie_returned")
  /\ SwtchToScheduler(p, "call")
  /\ UNCHANGED <<entry, supply, sie, slot, havekids, reg, forks>>

\* Where a hart goes that comes back from swtch into p: in exit, panic("exit: zombie
\* returned") is the next statement.
BackIn(p) == IF pc[p] = "zombie_returned" THEN "panic" ELSE "proc"

-----------------------------------------------------------------------------
(* wait and sleep                                                          *)

WaitCall(p) ==
  /\ At(p, "user") /\ p \in MayWait
  /\ Goto(p, "wait_scan") /\ First(p)
  /\ UNCHANGED <<entry, hart, supply, havekids, reg, forks>>

\* One turn of the loop over proc[], up to the copy of child->xstate.
WaitScan(p) ==
  /\ At(p, "wait_scan") /\ InTable(p)
  /\ \/ /\ parent[slot[p]] # p
        /\ Advance(p)
        /\ UNCHANGED <<pc, havekids, reg>>
     \/ /\ parent[slot[p]] = p /\ status[slot[p]] # "ZOMBIE"
        /\ havekids' = [havekids EXCEPT ![p] = TRUE]
        /\ Advance(p)
        /\ UNCHANGED <<pc, reg>>
     \/ /\ parent[slot[p]] = p /\ status[slot[p]] = "ZOMBIE"
        /\ reg' = [reg EXCEPT ![p] = pid[slot[p]]]
        /\ Goto(p, "reap_free")
        /\ UNCHANGED <<slot, havekids>>
  /\ UNCHANGED <<entry, hart, supply, forks>>

WaitNoKids(p) ==
  /\ At(p, "wait_scan") /\ ~InTable(p) /\ ~havekids[p]
  /\ UserTrapRet(p)
  /\ UNCHANGED <<entry, supply, forks>>

WaitSleep_Always(p) ==
  /\ At(p, "wait_scan") /\ ~InTable(p)
  /\ Goto(p, "sleep_chan") /\ First(p)
  /\ UNCHANGED <<entry, hart, supply, havekids, reg, forks>>

WaitSleep(p) ==
  /\ At(p, "wait_scan") /\ ~InTable(p) /\ havekids[p]
  /\ Goto(p, "sleep_chan") /\ First(p)
  /\ UNCHANGED <<entry, hart, supply, havekids, reg, forks>>

ReapFree(p) ==
  /\ At(p, "reap_free")
  /\ status' = [status EXCEPT ![slot[p]] = "FREE"]
  /\ Goto(p, "reap_clear")
  /\ UNCHANGED <<pid, parent, chan, xstate, trapframe, kstack, hart, supply,
                 slot, havekids, reg, forks>>

ReapClear(p) ==
  /\ At(p, "reap_clear")
  /\ pid' = [pid EXCEPT ![slot[p]] = 0]
  /\ parent' = [parent EXCEPT ![slot[p]] = Null]
  /\ Goto(p, "reap_trapframe")
  /\ UNCHANGED <<status, chan, xstate, trapframe, kstack, hart, supply, slot,
                 havekids, reg, forks>>

ReapTrapframe(p) ==
  /\ At(p, "reap_trapframe")
  /\ freelist' = Kfree(trapframe[slot[p]])
  /\ trapframe' = [trapframe EXCEPT ![slot[p]] = NoPage]
  /\ Goto(p, "reap_kstack")
  /\ UNCHANGED <<status, pid, parent, chan, xstate, kstack, hart, nextpid,
                 slot, havekids, reg, forks>>

ReapKstack(p) ==
  /\ At(p, "reap_kstack")
  /\ freelist' = Kfree(kstack[slot[p]])
  /\ kstack' = [kstack EXCEPT ![slot[p]] = NoPage]
  /\ UserTrapRet(p)
  /\ UNCHANGED <<status, pid, parent, chan, xstate, trapframe, nextpid, forks>>

SleepChan(p) ==
  /\ At(p, "sleep_chan")
  /\ chan' = [chan EXCEPT ![p] = p]
  /\ Goto(p, "sleep_status")
  /\ UNCHANGED <<status, pid, parent, xstate, trapframe, kstack, hart, supply,
                 slot, havekids, reg, forks>>

SleepStatus(p) ==
  /\ At(p, "sleep_status")
  /\ status' = [status EXCEPT ![p] = "SLEEPING"]
  /\ Goto(p, "sleep_swtch")
  /\ UNCHANGED <<pid, parent, chan, xstate, trapframe, kstack, hart, supply,
                 slot, havekids, reg, forks>>

SleepSwtch(p) ==
  /\ At(p, "sleep_swtch")
  /\ Goto(p, "sleep_return")
  /\ SwtchToScheduler(p, "call")
  /\ UNCHANGED <<entry, supply, sie, slot, havekids, reg, forks>>

\* chan = 0, and wait starts its scan again.
SleepReturn(p) ==
  /\ At(p, "sleep_return")
  /\ chan' = [chan EXCEPT ![p] = Null]
  /\ havekids' = [havekids EXCEPT ![p] = FALSE]
  /\ Goto(p, "wait_scan") /\ First(p)
  /\ UNCHANGED <<status, pid, parent, xstate, trapframe, kstack, hart, supply,
                 reg, forks>>

-----------------------------------------------------------------------------
(* scheduler                                                               *)

SchedAt(label) == cpu = "sched" /\ spc = label

SchedIntrOn ==
  /\ SchedAt("intr_on")
  /\ sie' = TRUE
  /\ sp' = 0
  /\ spc' = "scan"
  /\ UNCHANGED <<entry, cpu, cproc, ccontext, context, supply, pc, slot,
                 havekids, reg, forks>>

Runnable(p) == status[p] = "READY"

SchedScan ==
  /\ SchedAt("scan") /\ sp < NPROC
  /\ IF Runnable(sp)
       THEN /\ status' = [status EXCEPT ![sp] = "RUNNING"]
            /\ spc' = "setproc"
            /\ UNCHANGED sp
       ELSE sp' = sp + 1 /\ UNCHANGED <<status, spc>>
  /\ UNCHANGED <<pid, parent, chan, xstate, trapframe, kstack, cpu, cproc,
                 ccontext, sie, context, supply, pc, slot, havekids, reg, forks>>

SchedWrap ==
  /\ SchedAt("scan") /\ sp = NPROC
  /\ spc' = "intr_on"
  /\ UNCHANGED <<entry, cpu, cproc, ccontext, sie, sp, context, supply, pc,
                 slot, havekids, reg, forks>>

SchedSetProc ==
  /\ SchedAt("setproc")
  /\ cproc' = sp
  /\ spc' = "swtch"
  /\ UNCHANGED <<entry, cpu, ccontext, sie, sp, context, supply, pc, slot,
                 havekids, reg, forks>>

SchedSave_Nothing ==
  /\ SchedAt("swtch")
  /\ spc' = "load"
  /\ UNCHANGED <<entry, cpu, cproc, ccontext, sie, sp, context, supply, pc,
                 slot, havekids, reg, forks>>

\* swtch(&c->context, &p->context), its first half: the registers are saved.
SchedSave ==
  /\ SchedAt("swtch")
  /\ ccontext' = sp
  /\ spc' = "load"
  /\ UNCHANGED <<entry, cpu, cproc, sie, sp, context, supply, pc, slot,
                 havekids, reg, forks>>

\* Its second half, up to the load of the stack pointer and ret: where the hart
\* goes depends on what p->context holds.  A lost context leads back into this
\* swtch until the next tick, or anywhere; so does the stack of a reaped slot.
SchedLoad ==
  /\ SchedAt("load")
  /\ \/ /\ context[sp] = "forkret" /\ kstack[sp] # NoPage
        /\ cpu' = IF trapframe[sp] = NoPage THEN "panic" ELSE "proc"
        /\ pc' = [pc EXCEPT ![sp] = "user"]
        /\ slot' = [slot EXCEPT ![sp] = 0]
        /\ havekids' = [havekids EXCEPT ![sp] = FALSE]
        /\ reg' = [reg EXCEPT ![sp] = Null]
        /\ sie' = TRUE
     \/ /\ context[sp] = "trap" /\ kstack[sp] # NoPage
        /\ cpu' = "proc"
        /\ sie' = TRUE
        /\ UNCHANGED <<pc, slot, havekids, reg>>
     \/ /\ context[sp] = "call" /\ kstack[sp] # NoPage
        /\ cpu' = BackIn(sp)
        /\ UNCHANGED <<sie, pc, slot, havekids, reg>>
     \/ /\ context[sp] = "lost"
        /\ cpu' \in {"spin", "wild"}
        /\ sie' = TRUE
        /\ UNCHANGED <<pc, slot, havekids, reg>>
     \/ /\ context[sp] = "none" \/ (context[sp] # "lost" /\ kstack[sp] = NoPage)
        /\ cpu' = "wild"
        /\ UNCHANGED <<sie, pc, slot, havekids, reg>>
  /\ UNCHANGED <<entry, cproc, ccontext, spc, sp, context, supply, forks>>

SchedBack_Restarts ==
  /\ SchedAt("back")
  /\ cproc' = Null
  /\ spc' = "intr_on"
  /\ UNCHANGED <<entry, cpu, ccontext, sie, sp, context, supply, pc, slot,
                 havekids, reg, forks>>

SchedBack_KeepsProc ==
  /\ SchedAt("back")
  /\ sp' = sp + 1
  /\ spc' = "scan"
  /\ UNCHANGED <<entry, cpu, cproc, ccontext, sie, context, supply, pc, slot,
                 havekids, reg, forks>>

SchedBack ==
  /\ SchedAt("back")
  /\ cproc' = Null
  /\ sp' = sp + 1
  /\ spc' = "scan"
  /\ UNCHANGED <<entry, cpu, ccontext, sie, context, supply, pc, slot,
                 havekids, reg, forks>>

-----------------------------------------------------------------------------
(* The timer interrupt: yield(), in usertrap and sys_trap_handler alike.   *)

Yields_Always == cproc # Null
\* if (myproc() != 0 && myproc()->status == TASK_RUNNING)
Yields == cproc # Null /\ status[cproc] = "RUNNING"

YieldStatus ==
  /\ sie /\ Yields
  /\ status' = [status EXCEPT ![cproc] = "READY"]
  /\ sie' = FALSE
  /\ UNCHANGED <<pid, parent, chan, xstate, trapframe, kstack, supply, pc, slot,
                 havekids, reg, forks>>

Tick(p) ==
  /\ cpu = "proc" /\ cproc = p
  /\ YieldStatus
  /\ SwtchToScheduler(p, "trap")

\* The tick falls between c->proc = p and the end of swtch in scheduler():
\* p->context takes the scheduler's own frame, and the scheduler goes on from
\* c->context, an older one if swtch has not saved it yet (on the first
\* dispatch of all: a zeroed one).
TickInDispatch ==
  /\ SchedAt("swtch") \/ SchedAt("load")
  /\ YieldStatus
  /\ IF ccontext = Null
       THEN /\ context' = [context EXCEPT ![cproc] = "lost"]
            /\ cpu' = "wild"
            /\ UNCHANGED <<cproc, ccontext, spc, sp>>
       ELSE SwtchToScheduler(cproc, "lost")

TickInSpin ==
  /\ cpu = "spin"
  /\ YieldStatus
  /\ SwtchToScheduler(cproc, "lost")

\* panic loops for ever; nothing is said of a hart that jumped wild.
Halted ==
  /\ cpu \in {"panic", "wild"}
  /\ UNCHANGED vars

-----------------------------------------------------------------------------

Fork(p) ==
  \/ ForkCall(p) \/ AllocScan(p) \/ AllocFull(p) \/ AllocPid(p)
  \/ AllocPidStore(p) \/ AllocTrapframe(p) \/ AllocNoTrapframe(p)
  \/ AllocMark(p) \/ AllocInit(p) \/ ForkKstack(p) \/ ForkNoKstack(p)
  \/ ForkCopy(p) \/ ForkReady(p) \/ ForkReturn(p)

Exit(p) ==
  \/ ExitCall(p) \/ ExitReparent(p) \/ ExitWakeupCall(p) \/ Wakeup(p)
  \/ WakeupStore(p) \/ WakeupReturn(p) \/ ExitZombie(p) \/ ExitSwtch(p)

Wait(p) ==
  \/ WaitCall(p) \/ WaitScan(p) \/ WaitNoKids(p) \/ WaitSleep(p)
  \/ ReapFree(p) \/ ReapClear(p) \/ ReapTrapframe(p) \/ ReapKstack(p)
  \/ SleepChan(p) \/ SleepStatus(p) \/ SleepSwtch(p) \/ SleepReturn(p)

Scheduler ==
  \/ SchedIntrOn \/ SchedScan \/ SchedWrap
  \/ SchedSetProc \/ SchedSave \/ SchedLoad \/ SchedBack

Timer == (\E p \in Slot : Tick(p)) \/ TickInDispatch \/ TickInSpin

Next ==
  \/ \E p \in Slot : Fork(p) \/ Exit(p) \/ Wait(p)
  \/ Scheduler
  \/ Timer
  \/ Halted

Spec == Init /\ [][Next]_vars

(***************************************************************************)
(* Fairness.  The hart never stops executing, so the statement it is at is *)
(* executed: weak fairness of the scheduler's statements.  A tick comes    *)
(* back every interval: weak fairness of Timer.  The interval is about 10^6 *)
(* cycles, so a process that keeps being dispatched inside the kernel gets *)
(* a statement in before the next tick, and the tick does not fall into    *)
(* the dispatch window every time: strong fairness of each process's       *)
(* kernel statements and of swtch.  A user program owes nothing: no        *)
(* fairness of its calls.                                                  *)
(***************************************************************************)
KernelStep(p) == pc[p] # "user" /\ (Fork(p) \/ Exit(p) \/ Wait(p))

Fairness ==
  /\ WF_vars(Scheduler) /\ SF_vars(SchedSave) /\ SF_vars(SchedLoad)
  /\ WF_vars(Timer)
  /\ \A p \in Slot : SF_vars(KernelStep(p))

FairSpec == Spec /\ Fairness

-----------------------------------------------------------------------------
(* Properties                                                              *)

\* Types and ranges of struct proc, the hart and the locals: no loop pointer leaves
\* proc[], and a page field is null or a page.
TypeOK ==
  /\ status \in [Slot -> Status]
  /\ pid \in [Slot -> Int]
  /\ parent \in [Slot -> Slot \cup {Null}]
  /\ chan \in [Slot -> Slot \cup {Null}]
  /\ xstate \in [Slot -> Int]
  /\ trapframe \in [Slot -> Page \cup {NoPage}]
  /\ kstack \in [Slot -> Page \cup {NoPage}]
  /\ context \in [Slot -> Contexts]
  /\ nextpid \in Int
  /\ freelist \in Seq(Page)
  /\ cpu \in CpuState
  /\ cproc \in Slot \cup {Null}
  /\ ccontext \in Slot \cup {Null}
  /\ sie \in BOOLEAN
  /\ spc \in SchedPc
  /\ sp \in Pointer
  /\ pc \in [Slot -> ProcPc]
  /\ slot \in [Slot -> Pointer]
  /\ havekids \in [Slot -> BOOLEAN]
  /\ reg \in [Slot -> Int]
  /\ forks \in [Slot -> Nat]

Halt == cpu \in {"panic", "wild"}

\* At most one slot is RUNNING, and it is the one c->proc names, or the one the
\* scheduler has just marked and is about to store there: the claim Tick relies
\* on when it yields for myproc().
OneRunning ==
  \A p \in Slot : status[p] = "RUNNING" =>
    \/ cproc = p /\ (cpu = "sched" => spc \in {"swtch", "load"})
    \/ SchedAt("setproc") /\ sp = p /\ cproc = Null

\* Where scheduler() is, and what c->proc and c->context hold there.
SchedulerState ==
  /\ cpu \in {"proc", "spin"} => spc = "load"
  /\ spc \in {"intr_on", "scan", "setproc"} => cproc = Null
  /\ spc \in {"swtch", "load", "back"} => cproc \in Slot
  /\ spc \in {"setproc", "swtch", "load", "back"} => sp \in Slot
  /\ spc \in {"swtch", "load"} => cproc = sp
  /\ spc \in {"load", "back"} => ccontext \in Slot

\* Between a found: and the end of fork or wait, np or child is a real slot.
Holding == {"alloc_pid", "alloc_pid_store", "alloc_trapframe", "alloc_mark",
            "alloc_init", "fork_kstack", "fork_copy", "fork_ready",
            "fork_return", "exit_wakeup_store", "reap_free", "reap_clear",
            "reap_trapframe", "reap_kstack"}
SlotAtHand == \A p \in Slot : pc[p] \in Holding => slot[p] \in Slot

\* From the store of SLEEPING or ZOMBIE to its swtch a process keeps the hart:
\* Tick does not yield for it.
SwtchKeepsHart ==
  \A p \in Slot : pc[p] \in {"sleep_swtch", "exit_swtch"} =>
    cpu = "proc" /\ cproc = p /\ status[p] # "RUNNING"

\* A process on the hart, or one the scheduler may pick, has its kernel stack
\* and trapframe: wait frees the pages of a zombie only after it left them.
LiveHasPages ==
  \A p \in Slot :
    (status[p] \in {"READY", "RUNNING", "SLEEPING"} \/ (cpu = "proc" /\ cproc = p))
      => trapframe[p] # NoPage /\ kstack[p] # NoPage

\* No page is used twice, and none in use is on the free list (kalloc, kfree as
\* fork and wait call them).
PagesDisjoint ==
  /\ \A p, q \in Slot :
       /\ trapframe[p] # NoPage =>
            trapframe[p] # kstack[q] /\ (p # q => trapframe[p] # trapframe[q])
       /\ kstack[p] # NoPage /\ p # q => kstack[p] # kstack[q]
  /\ \A p \in Slot : \A i \in DOMAIN freelist :
       freelist[i] # trapframe[p] /\ freelist[i] # kstack[p]
  /\ \A i, j \in DOMAIN freelist : i # j => freelist[i] # freelist[j]

\* fork returns the pid its child was given, though it reads np->pid after the
\* child was made ready and may have run to its exit.
ForkReturnsChild ==
  \A p \in Slot : pc[p] = "fork_return" => pid[slot[p]] = reg[p] /\ parent[slot[p]] = p

\* A process asleep in wait has a child it may still reap: it is never put to
\* sleep, or left asleep, with nobody to wake it.
SleeperHasChild ==
  \A p \in Slot : status[p] = "SLEEPING" =>
    \E c \in Slot : parent[c] = p /\ status[c] # "FREE"

\* "Never returns" (proc.c:292): no process executes past exit's swtch.
ExitNeverReturns ==
  ~\E p \in Slot : cpu = "panic" /\ cproc = p /\ pc[p] = "zombie_returned"

\* A parent that is waiting while a child of its is a zombie does reap it
\* ("wait for a child to exit, reclaim its resources", proc.c:318), unless its
\* kernel frame was lost in the dispatch window.
ZombieReaped ==
  \A p, c \in Slot :
    (status[c] = "ZOMBIE" /\ parent[c] = p /\ p # c /\ pc[p] \in WaitPc)
      ~> (status[c] = "FREE" \/ context[p] = "lost" \/ Halt)

\* A zombie's slot is frozen until its parent's wait frees it: the pid and the
\* exit status wait reports, and the pages, are those it left.
ZombieFrozen ==
  [][\A c \in Slot : status[c] = "ZOMBIE" =>
       /\ pid'[c] = pid[c] /\ xstate'[c] = xstate[c]
       /\ trapframe'[c] = trapframe[c] /\ kstack'[c] = kstack[c]
       /\ status'[c] # "ZOMBIE" =>
            status'[c] = "FREE" /\ At(parent[c], "reap_free") /\ slot[parent[c]] = c
    ]_vars

\* Round robin: a READY process is dispatched, whatever the others do.
NoStarvation ==
  \A p \in Slot : status[p] = "READY" ~> (status[p] = "RUNNING" \/ Halt)

\* A parent found asleep when its child enters wakeup does get up again, unless
\* the child's kernel frame was lost in the dispatch window.
ExitWakesParent ==
  \A p, c \in Slot :
    (status[p] = "SLEEPING" /\ pc[c] = "exit_wakeup" /\ slot[c] = 0
       /\ parent[c] = p /\ p # c)
      ~> (status[p] # "SLEEPING" \/ context[c] = "lost" \/ Halt)

-----------------------------------------------------------------------------
(* The family tree the process table stands for: a slot is nobody until    *)
(* fork makes it READY, and nobody again once wait has set it FREE.        *)

Life(p) ==
  CASE status[p] \in {"FREE", "ALLOCATED"} -> "free"
    [] status[p] = "ZOMBIE" -> "zombie"
    [] OTHER -> "alive"

Tree == INSTANCE Family WITH
  life     <- [p \in Slot |-> Life(p)],
  parentOf <- [p \in Slot |-> IF Life(p) = "free" THEN Null ELSE parent[p]]

\* fork, exit and wait, statement by statement and preempted anywhere, keep the
\* promises of Family.
KeepsFamily == Tree!Spec
=============================================================================
