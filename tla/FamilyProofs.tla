---------------------------- MODULE FamilyProofs ----------------------------
(***************************************************************************)
(* Theorems about fork, exit and wait in Proc, for every table size,       *)
(* number of pages and workload: what a parent knows of its child, what a  *)
(* zombie keeps, and that Proc implements Family.  proc.c takes no lock,   *)
(* and two races break all of it: two processes at work on one FREE slot   *)
(* (the run proc_slot), and wakeup's store reaching a process that has     *)
(* died since the test (proc_zombie_returned).  Up to a step where one of  *)
(* the two can happen everything holds: NoRace names them.  With programs  *)
(* of which init alone forks, and which never end it, neither happens.     *)
(***************************************************************************)
EXTENDS ProcProofs

\* Where the slot a process holds is FREE: fork took it and has not marked it, or
\* wait has given it back and is still clearing it.
FreePc  == {"alloc_pid", "alloc_pid_store", "alloc_trapframe", "alloc_mark",
            "reap_clear", "reap_trapframe", "reap_kstack"}
AllocPc == {"alloc_init", "fork_kstack", "fork_copy", "fork_ready"}
Gone    == {"FREE", "ALLOCATED"}

\* p may still execute: its kernel frame was not overwritten in the dispatch window.
Goes(p) == context[p] # "lost"

\* No two processes work on one FREE slot, as allocproc and wait allow.
SlotsApart ==
  \A p, q \in Slot :
    p # q /\ Goes(p) /\ Goes(q) /\ pc[p] \in FreePc /\ pc[q] \in FreePc
      => slot[p] # slot[q]

\* The sleeper wakeup found has not left the table, or died, before the store.
WokenLives ==
  \A p \in Slot : pc[p] = "exit_wakeup_store" /\ Goes(p) =>
    status[slot[p]] \in {"READY", "RUNNING", "SLEEPING"}

NoRace == SlotsApart /\ WokenLives

-----------------------------------------------------------------------------
(* The inductive invariant, process by process                             *)

OnHart(p) == cpu = "proc" /\ cproc = p

HartOf(p) == OnHart(p) =>
  /\ Goes(p) /\ pc[p] # "zombie_returned"
  /\ \/ status[p] = "RUNNING"
     \/ status[p] = "SLEEPING" /\ pc[p] = "sleep_swtch"
     \/ status[p] = "ZOMBIE" /\ pc[p] = "exit_swtch"

ContextOf(p) ==
  /\ context[p] = "trap" => pc[p] # "zombie_returned"
  /\ context[p] = "forkret" /\ ~OnHart(p) => pc[p] \in {"user", "zombie_returned"}

StatusOf(p) ==
  /\ status[p] = "ZOMBIE" => pc[p] \in {"exit_swtch", "zombie_returned"}
  /\ status[p] = "SLEEPING" => pc[p] \in {"sleep_swtch", "sleep_return"}
  /\ status[p] \in Gone => pc[p] \in {"user", "zombie_returned"}

LocalsOf(p) ==
  /\ havekids[p] => pc[p] \in WaitPc
  /\ pc[p] = "exit_wakeup_store" => slot[p] # p

\* What fork and wait know of the slot at hand while they work on it.
WorkOf(p) == Goes(p) =>
  /\ pc[p] \in FreePc => status[slot[p]] = "FREE"
  /\ pc[p] \in AllocPc => status[slot[p]] = "ALLOCATED"
  /\ pc[p] \in AllocPc \cup {"alloc_mark"} => trapframe[slot[p]] # NoPage
  /\ pc[p] \in {"fork_copy", "fork_ready"} => kstack[slot[p]] # NoPage
  /\ pc[p] \in AllocPc \cup {"alloc_trapframe", "alloc_mark"} => pid[slot[p]] = reg[p]
  /\ pc[p] = "fork_ready" => parent[slot[p]] = p

\* Once made ready, and until it is given back, a slot is a child of its parent.
ChildOf(p) ==
  /\ pc[p] = "fork_return" =>
       pid[slot[p]] = reg[p] /\ parent[slot[p]] = p /\ status[slot[p]] \notin Gone
  /\ pc[p] = "reap_free" => status[slot[p]] = "ZOMBIE" /\ parent[slot[p]] = p

\* A slot that is nobody's process has a parent only while that one works on it.
ParentOf(c) == status[c] \in Gone /\ parent[c] # Null =>
  pc[parent[c]] \in {"reap_clear", "fork_ready"} /\ slot[parent[c]] = c

PagesOf(p) == status[p] \notin Gone => trapframe[p] # NoPage /\ kstack[p] # NoPage

\* exit leaves no child behind its loop pointer.
OrphansOf(p) == p # Init0 => \A c \in Slot :
  /\ pc[p] = "exit_reparent" /\ c < slot[p] => parent[c] # p
  /\ pc[p] \in {"exit_wakeup", "exit_wakeup_store", "exit_zombie", "exit_swtch",
                "zombie_returned"} => parent[c] # p

Sleeper(p) == \/ pc[p] \in {"sleep_chan", "sleep_status", "sleep_swtch"}
              \/ pc[p] = "wait_scan" /\ havekids[p]
              \/ status[p] = "SLEEPING"

\* wait goes to sleep with a child.
KidsOf(p) == Sleeper(p) => \E c \in Slot : parent[c] = p /\ status[c] \notin Gone

AllocApart ==
  \A p, q \in Slot :
    p # q /\ Goes(p) /\ Goes(q) /\ pc[p] \in AllocPc /\ pc[q] \in AllocPc
      => slot[p] # slot[q]

DispatchRuns ==
  cpu = "sched" /\ spc \in {"setproc", "swtch", "load"} => status[sp] = "RUNNING"

FInv ==
  /\ \A p \in Slot : HartOf(p) /\ ContextOf(p) /\ StatusOf(p) /\ LocalsOf(p)
  /\ \A p \in Slot : WorkOf(p) /\ ChildOf(p) /\ ParentOf(p)
  /\ \A p \in Slot : PagesOf(p) /\ OrphansOf(p) /\ KidsOf(p)
  /\ AllocApart /\ DispatchRuns

-----------------------------------------------------------------------------
(* What a statement of p may store in slot c of the table, by its label     *)

StoresStatus(p, c) ==
  \/ status'[c] = status[c]
  \/ c = slot[p] /\ pc[p] = "alloc_trapframe" /\ status'[c] = "FREE" /\ pc'[p] = "user"
  \/ c = slot[p] /\ pc[p] = "alloc_mark" /\ status'[c] = "ALLOCATED"
  \/ c = slot[p] /\ pc[p] = "fork_kstack" /\ status'[c] = "FREE" /\ pc'[p] = "user"
  \/ /\ c = slot[p] /\ pc[p] = "fork_ready" /\ status'[c] = "READY"
     /\ pc'[p] = "fork_return" /\ slot'[p] = slot[p]
  \/ c = slot[p] /\ pc[p] = "exit_wakeup_store" /\ status'[c] = "READY"
  \/ /\ c = slot[p] /\ pc[p] = "reap_free" /\ status'[c] = "FREE"
     /\ pc'[p] = "reap_clear" /\ slot'[p] = slot[p]
  \/ c = p /\ pc[p] = "sleep_status" /\ status'[c] = "SLEEPING" /\ pc'[p] = "sleep_swtch"
  \/ c = p /\ pc[p] = "exit_zombie" /\ status'[c] = "ZOMBIE" /\ pc'[p] = "exit_swtch"

StoresPid(p, c) ==
  \/ pid'[c] = pid[c]
  \/ c = slot[p] /\ pc[p] = "alloc_pid_store" /\ pid'[c] = reg[p]
  \/ c = slot[p] /\ pc[p] = "reap_clear"

StoresParent(p, c) ==
  \/ parent'[c] = parent[c]
  \/ c = slot[p] /\ pc[p] \in {"alloc_init", "reap_clear"} /\ parent'[c] = Null
  \/ /\ c = slot[p] /\ pc[p] = "fork_copy" /\ parent'[c] = p
     /\ pc'[p] = "fork_ready" /\ slot'[p] = slot[p]
  \/ /\ c = slot[p] /\ pc[p] = "exit_reparent" /\ parent[c] = p /\ parent'[c] = Init0
     /\ pc'[p] = "exit_reparent"

StoresPages(p, c) ==
  /\ \/ trapframe'[c] = trapframe[c]
     \/ c = slot[p] /\ pc[p] \in {"alloc_trapframe", "reap_trapframe"}
  /\ \/ kstack'[c] = kstack[c]
     \/ c = slot[p] /\ pc[p] \in {"fork_kstack", "reap_kstack"}

StoresContext(p, c) ==
  \/ context'[c] = context[c]
  \/ c = slot[p] /\ pc[p] = "alloc_init" /\ context'[c] = "forkret"
  \/ c = p /\ pc[p] \in {"sleep_swtch", "exit_swtch"} /\ context'[c] = "call"

LEMMA Effects ==
  ASSUME TypeOK, NEW p \in Slot, Fork(p) \/ Exit(p) \/ Wait(p), NEW c \in Slot
  PROVE  /\ StoresStatus(p, c) /\ StoresPid(p, c) /\ StoresParent(p, c)
         /\ StoresPages(p, c) /\ StoresContext(p, c)
<1> USE DEF TypeOK, At, Goto, hart, entry
<1>1. CASE Fork(p)
  <2> USE <1>1 DEF Fork, ForkCall, AllocScan, AllocFull, AllocPid, AllocPidStore,
       AllocTrapframe, AllocNoTrapframe, AllocMark, AllocInit, ForkKstack,
       ForkNoKstack, ForkCopy, ForkReady, ForkReturn, UserTrapRet
  <2>1. StoresStatus(p, c)
    BY DEF StoresStatus
  <2>2. StoresPid(p, c)
    BY DEF StoresPid
  <2>3. StoresParent(p, c)
    BY DEF StoresParent
  <2>4. StoresPages(p, c)
    BY DEF StoresPages
  <2>5. StoresContext(p, c)
    BY DEF StoresContext
  <2> QED
    BY <2>1, <2>2, <2>3, <2>4, <2>5
<1>2. CASE Exit(p)
  <2> USE <1>2 DEF Exit, ExitCall, ExitReparent, ExitWakeupCall, Wakeup, WakeupStore,
       WakeupReturn, ExitZombie, ExitSwtch, SwtchToScheduler
  <2>1. StoresStatus(p, c)
    BY DEF StoresStatus
  <2>2. StoresPid(p, c)
    BY DEF StoresPid
  <2>3. StoresParent(p, c)
    BY DEF StoresParent
  <2>4. StoresPages(p, c)
    BY DEF StoresPages
  <2>5. StoresContext(p, c)
    BY DEF StoresContext
  <2> QED
    BY <2>1, <2>2, <2>3, <2>4, <2>5
<1>3. CASE Wait(p)
  <2> USE <1>3 DEF Wait, WaitCall, WaitScan, WaitNoKids, WaitSleep, ReapFree, ReapClear,
       ReapTrapframe, ReapKstack, SleepChan, SleepStatus, SleepSwtch, SleepReturn,
       SwtchToScheduler, UserTrapRet
  <2>1. StoresStatus(p, c)
    BY DEF StoresStatus
  <2>2. StoresPid(p, c)
    BY DEF StoresPid
  <2>3. StoresParent(p, c)
    BY DEF StoresParent
  <2>4. StoresPages(p, c)
    BY DEF StoresPages
  <2>5. StoresContext(p, c)
    BY DEF StoresContext
  <2> QED
    BY <2>1, <2>2, <2>3, <2>4, <2>5
<1> QED
  BY <1>1, <1>2, <1>3

\* The locals of the others are left alone.
LEMMA Locals ==
  ASSUME TypeOK, NEW p \in Slot, Fork(p) \/ Exit(p) \/ Wait(p), NEW q \in Slot \ {p}
  PROVE  pc'[q] = pc[q] /\ slot'[q] = slot[q] /\ reg'[q] = reg[q] /\ havekids'[q] = havekids[q]
<1> USE DEF TypeOK, Goto, First, Advance, UserTrapRet
<1>1. CASE Fork(p)
  BY <1>1 DEF Fork, ForkCall, AllocScan, AllocFull, AllocPid, AllocPidStore,
     AllocTrapframe, AllocNoTrapframe, AllocMark, AllocInit, ForkKstack,
     ForkNoKstack, ForkCopy, ForkReady, ForkReturn
<1>2. CASE Exit(p)
  BY <1>2 DEF Exit, ExitCall, ExitReparent, ExitWakeupCall, Wakeup, WakeupStore,
     WakeupReturn, ExitZombie, ExitSwtch
<1>3. CASE Wait(p)
  BY <1>3 DEF Wait, WaitCall, WaitScan, WaitNoKids, WaitSleep, ReapFree, ReapClear,
     ReapTrapframe, ReapKstack, SleepChan, SleepStatus, SleepSwtch, SleepReturn
<1> QED
  BY <1>1, <1>2, <1>3

\* The process that executes is RUNNING, save at its swtch out of sleep or exit.
LEMMA AtWork ==
  ASSUME IInv, FInv, NEW p \in Slot, Fork(p) \/ Exit(p) \/ Wait(p)
  PROVE  /\ OnHart(p) /\ Goes(p) /\ pc[p] # "zombie_returned"
         /\ pc[p] \notin {"sleep_swtch", "exit_swtch"} => status[p] = "RUNNING"
         /\ pc[p] = "sleep_swtch" => status[p] = "SLEEPING"
         /\ pc[p] = "exit_swtch" => status[p] = "ZOMBIE"
         /\ \A q \in Slot \ {p} : ~OnHart(q) /\ ~OnHart(q)'
         /\ \/ OnHart(p)' \/ cpu' = "panic"
            \/ SwtchToScheduler(p, "call") /\ pc[p] \in {"sleep_swtch", "exit_swtch"}
<1>1. /\ cpu = "proc" /\ cproc = p /\ cproc' = p
      /\ \/ cpu' \in {"proc", "panic"}
         \/ SwtchToScheduler(p, "call") /\ pc[p] \in {"sleep_swtch", "exit_swtch"}
  <2>1. TypeOK /\ SchedulerState
    BY DEF IInv
  <2> QED
    BY <2>1, ProcessStep
<1>2. HartOf(p) /\ StatusOf(p)
  BY DEF FInv
<1>3. pc[p] \in {"sleep_swtch", "exit_swtch"} => status[p] # "RUNNING"
  BY DEF IInv, SwtchKeepsHart
<1>4. OnHart(p) /\ \A q \in Slot \ {p} : ~OnHart(q) /\ ~OnHart(q)'
  BY <1>1 DEF OnHart
<1>5. /\ Goes(p) /\ pc[p] # "zombie_returned"
      /\ pc[p] \notin {"sleep_swtch", "exit_swtch"} => status[p] = "RUNNING"
      /\ pc[p] = "sleep_swtch" => status[p] = "SLEEPING"
      /\ pc[p] = "exit_swtch" => status[p] = "ZOMBIE"
  BY <1>2, <1>3, <1>4 DEF HartOf
<1>6. \/ OnHart(p)' \/ cpu' = "panic"
      \/ SwtchToScheduler(p, "call") /\ pc[p] \in {"sleep_swtch", "exit_swtch"}
  BY <1>1 DEF OnHart
<1> QED
  BY <1>4, <1>5, <1>6

\* What p holds is a slot, and not its own.
LEMMA Held ==
  ASSUME IInv, FInv, NEW p \in Slot, Fork(p) \/ Exit(p) \/ Wait(p)
  PROVE  /\ pc[p] \in FreePc => status[slot[p]] = "FREE"
         /\ pc[p] \in AllocPc => status[slot[p]] = "ALLOCATED"
         /\ pc[p] = "reap_free" => status[slot[p]] = "ZOMBIE" /\ parent[slot[p]] = p
         /\ pc[p] \in FreePc \cup AllocPc \cup {"reap_free", "exit_wakeup_store"} =>
              slot[p] \in Slot /\ slot[p] # p
<1>1. status[p] = "RUNNING" \/ pc[p] \in {"sleep_swtch", "exit_swtch"}
  BY AtWork
<1>2. Goes(p) /\ WorkOf(p) /\ ChildOf(p) /\ LocalsOf(p) /\ SlotAtHand
  BY AtWork DEF FInv, IInv
<1> QED
  BY <1>1, <1>2 DEF WorkOf, ChildOf, LocalsOf, SlotAtHand, Holding, FreePc, AllocPc

-----------------------------------------------------------------------------
(* A statement of p leaves the others undisturbed                          *)

LEMMA OthersStatus ==
  ASSUME IInv, FInv, NEW p \in Slot, Fork(p) \/ Exit(p) \/ Wait(p), NEW q \in Slot \ {p}
  PROVE  HartOf(q)' /\ ContextOf(q)' /\ StatusOf(q)' /\ LocalsOf(q)'
<1>1. TypeOK /\ SwtchKeepsHart /\ ~OnHart(q) /\ ~OnHart(q)'
  BY AtWork DEF IInv
<1>2. pc'[q] = pc[q] /\ slot'[q] = slot[q] /\ havekids'[q] = havekids[q]
  BY <1>1, Locals
<1>3. StoresStatus(p, q) /\ StoresContext(p, q)
  BY <1>1, Effects
<1>4. ContextOf(q) /\ StatusOf(q) /\ LocalsOf(q)
  BY DEF FInv
<1>5. pc[q] # "exit_swtch"
  BY <1>1 DEF SwtchKeepsHart, OnHart
<1>6. HartOf(q)'
  BY <1>1 DEF HartOf
<1>7. ContextOf(q)'
  BY <1>1, <1>2, <1>3, <1>4, Held DEF StoresContext, ContextOf, StatusOf, AllocPc, Gone
<1>8. StatusOf(q)'
  BY <1>2, <1>3, <1>4, <1>5, Held DEF StoresStatus, StatusOf, FreePc, AllocPc, Gone
<1>9. LocalsOf(q)'
  BY <1>2, <1>4 DEF LocalsOf
<1> QED
  BY <1>6, <1>7, <1>8, <1>9

LEMMA OthersWork ==
  ASSUME IInv, FInv, NoRace, NEW p \in Slot, Fork(p) \/ Exit(p) \/ Wait(p),
         NEW q \in Slot \ {p}
  PROVE  WorkOf(q)'
<1>1. TypeOK /\ SlotAtHand /\ Goes(p)
  BY AtWork DEF IInv
<1>2. pc'[q] = pc[q] /\ slot'[q] = slot[q] /\ reg'[q] = reg[q]
  BY <1>1, Locals
<1> DEFINE s == slot[q]
<1> SUFFICES ASSUME Goes(q)', pc[q] \in FreePc \cup AllocPc
             PROVE  WorkOf(q)'
  BY <1>2 DEF WorkOf, FreePc, AllocPc
<1>3. s \in Slot
  BY <1>1 DEF SlotAtHand, Holding, FreePc, AllocPc
<1>4. /\ StoresStatus(p, s) /\ StoresPid(p, s) /\ StoresParent(p, s) /\ StoresPages(p, s)
      /\ StoresContext(p, q)
  BY <1>1, <1>3, Effects
<1>5. Goes(q)
  <2>1. StatusOf(q)
    BY DEF FInv
  <2> QED
    BY <1>4, <2>1, Held DEF StoresContext, StatusOf, Goes, FreePc, AllocPc, Gone
<1>6. WorkOf(q)
  BY DEF FInv
<1>7. s # slot[p] \/ pc[p] \notin FreePc \cup AllocPc
  BY <1>1, <1>5, <1>6, Held DEF WorkOf, NoRace, SlotsApart, FInv, AllocApart
<1>8. s # slot[p] \/ pc[p] \notin {"reap_free", "exit_wakeup_store"}
  BY <1>1, <1>5, <1>6, Held DEF WorkOf, NoRace, WokenLives
<1>9. s # p /\ (pc[p] = "exit_reparent" /\ parent[s] = p => pc[q] # "fork_ready")
  <2>1. status[s] \in {"FREE", "ALLOCATED"}
    BY <1>5, <1>6 DEF WorkOf
  <2>2. status[p] \in {"RUNNING", "SLEEPING", "ZOMBIE"}
    BY AtWork
  <2> QED
    BY <1>5, <1>6, <2>1, <2>2 DEF WorkOf
<1> HIDE DEF s
<1>10. /\ status'[s] = status[s] /\ pid'[s] = pid[s]
       /\ trapframe'[s] = trapframe[s] /\ kstack'[s] = kstack[s]
       /\ pc[q] = "fork_ready" => parent'[s] = parent[s]
  BY <1>4, <1>7, <1>8, <1>9 DEF StoresStatus, StoresPid, StoresParent, StoresPages, FreePc, AllocPc
<1> QED
  BY <1>2, <1>5, <1>6, <1>10 DEF WorkOf, s

LEMMA OthersFamily ==
  ASSUME IInv, FInv, NoRace, NEW p \in Slot, Fork(p) \/ Exit(p) \/ Wait(p),
         NEW q \in Slot \ {p}
  PROVE  ChildOf(q)' /\ OrphansOf(q)' /\ KidsOf(q)'
<1>1. TypeOK /\ SlotAtHand /\ Goes(p)
  BY AtWork DEF IInv
<1>2. pc'[q] = pc[q] /\ slot'[q] = slot[q] /\ reg'[q] = reg[q] /\ havekids'[q] = havekids[q]
  BY <1>1, Locals
<1>3. \A c \in Slot : StoresStatus(p, c) /\ StoresPid(p, c) /\ StoresParent(p, c)
  BY <1>1, Effects
<1>4. /\ ChildOf(q) /\ OrphansOf(q) /\ KidsOf(q)
      /\ \A c \in Slot : ParentOf(c) /\ StatusOf(c)
  BY DEF FInv
\* A child of q that is somebody's process stays one.
<1>5. ASSUME NEW c \in Slot, parent[c] = q, status[c] \notin Gone
      PROVE  /\ parent'[c] = q /\ status'[c] \notin Gone /\ pid'[c] = pid[c]
             /\ status[c] = "ZOMBIE" => status'[c] = "ZOMBIE"
  <2>1. c = slot[p] => pc[p] \notin FreePc \cup AllocPc \cup {"reap_free"}
    BY <1>5, Held DEF Gone
  <2>2. c = slot[p] /\ pc[p] = "exit_wakeup_store" => status[c] # "ZOMBIE"
    BY <1>1 DEF NoRace, WokenLives
  <2>3. c = p /\ status[c] = "ZOMBIE" => pc[p] \notin {"sleep_status", "exit_zombie"}
    BY AtWork
  <2>4. pc[p] = "exit_reparent" => parent[c] # p
    BY <1>5
  <2>5. StoresStatus(p, c) /\ StoresPid(p, c) /\ StoresParent(p, c)
    BY <1>3
  <2>6. parent'[c] = parent[c] /\ pid'[c] = pid[c]
    BY <2>1, <2>4, <2>5 DEF StoresPid, StoresParent, FreePc, AllocPc
  <2>7. status'[c] \notin Gone
    BY <1>5, <2>1, <2>5 DEF StoresStatus, FreePc, AllocPc, Gone
  <2>8. status[c] = "ZOMBIE" => status'[c] = "ZOMBIE"
    BY <2>1, <2>2, <2>3, <2>5 DEF StoresStatus, FreePc, AllocPc
  <2> QED
    BY <1>5, <2>6, <2>7, <2>8
<1>6. ChildOf(q)'
  BY <1>1, <1>2, <1>4, <1>5 DEF ChildOf, SlotAtHand, Holding, Gone
\* p makes no child of q.
<1>7. OrphansOf(q)'
  <2>1. \A c \in Slot : parent'[c] = q => parent[c] = q \/ q = Init0
    BY <1>3, Slots DEF StoresParent
  <2> QED
    BY <1>2, <1>4, <2>1 DEF OrphansOf
<1>8. KidsOf(q)'
  <2>1. Sleeper(q)' => Sleeper(q)
    BY <1>2, <1>3 DEF Sleeper, StoresStatus
  <2> QED
    BY <1>4, <1>5, <2>1 DEF KidsOf
<1> QED
  BY <1>6, <1>7, <1>8

-----------------------------------------------------------------------------
(* What a statement does to the process that executes it                   *)

\* Where the jumps lead that the next lemmas look back from.
LEMMA Jumps ==
  ASSUME TypeOK, NEW p \in Slot, Fork(p) \/ Exit(p) \/ Wait(p)
  PROVE  /\ pc'[p] = "zombie_returned" => pc[p] = "exit_swtch" /\ context'[p] = "call"
         /\ pc[p] = "exit_swtch" => pc'[p] = "zombie_returned" /\ cpu' = "sched"
         /\ pc[p] = "sleep_swtch" => pc'[p] = "sleep_return" /\ cpu' = "sched"
         /\ cpu' = "panic" /\ pc'[p] # "user" => pc[p] = "fork_copy" /\ trapframe[slot[p]] = NoPage
<1> USE DEF TypeOK, At, Goto, UserTrapRet, hart
<1>1. CASE Fork(p)
  BY <1>1 DEF Fork, ForkCall, AllocScan, AllocFull, AllocPid, AllocPidStore,
     AllocTrapframe, AllocNoTrapframe, AllocMark, AllocInit, ForkKstack,
     ForkNoKstack, ForkCopy, ForkReady, ForkReturn
<1>2. CASE Exit(p)
  BY <1>2 DEF Exit, ExitCall, ExitReparent, ExitWakeupCall, Wakeup, WakeupStore,
     WakeupReturn, ExitZombie, ExitSwtch,
     SwtchToScheduler
<1>3. CASE Wait(p)
  BY <1>3 DEF Wait, WaitCall, WaitScan, WaitNoKids, WaitSleep, ReapFree, ReapClear,
     ReapTrapframe, ReapKstack, SleepChan, SleepStatus, SleepSwtch, SleepReturn,
     SwtchToScheduler
<1> QED
  BY <1>1, <1>2, <1>3

LEMMA OwnStatus ==
  ASSUME IInv, FInv, NEW p \in Slot, Fork(p) \/ Exit(p) \/ Wait(p)
  PROVE  HartOf(p)' /\ ContextOf(p)' /\ StatusOf(p)'
<1>1. TypeOK /\ OnHart(p) /\ Goes(p) /\ ContextOf(p) /\ WorkOf(p) /\ StatusOf(p)
  BY AtWork DEF IInv, FInv
<1>2. StoresStatus(p, p) /\ StoresContext(p, p)
  BY <1>1, Effects
<1>3. HartOf(p)'
  BY <1>1, <1>2, AtWork, Held, Jumps DEF HartOf, OnHart, Goes, StoresStatus, StoresContext,
     FreePc, AllocPc
<1>4. ContextOf(p)'
  BY <1>1, <1>2, AtWork, Held, Jumps DEF ContextOf, WorkOf, OnHart, StoresContext, AllocPc,
     SwtchToScheduler, TypeOK
<1>5. StatusOf(p)'
  BY <1>1, <1>2, AtWork, Held, Jumps DEF StatusOf, StoresStatus, FreePc, AllocPc, Gone
<1> QED
  BY <1>3, <1>4, <1>5

LEMMA PageNotNull == NoPage \notin Page
  BY ProcAssumption DEF Page, NoPage

LEMMA OwnWork ==
  ASSUME IInv, FInv, NEW p \in Slot, Fork(p) \/ Exit(p) \/ Wait(p)
  PROVE  WorkOf(p)' /\ LocalsOf(p)' /\ ChildOf(p)'
<1>1. TypeOK /\ Goes(p) /\ WorkOf(p) /\ LocalsOf(p) /\ ChildOf(p)
  BY AtWork DEF IInv, FInv
<1>2. slot[p] \in Pointer /\ (InTable(p) => slot[p] \in Slot)
      /\ (pc[p] \in Holding => slot[p] \in Slot)
  BY <1>1, LocalFacts DEF IInv, SlotAtHand
<1> USE <1>1, <1>2 DEF TypeOK, At, Goto, First, Advance, UserTrapRet, hart, entry, supply, Holding
<1>3. CASE Fork(p)
  <2> USE <1>3 DEF Fork, ForkCall, AllocScan, AllocFull, AllocPid, AllocPidStore,
     AllocTrapframe, AllocNoTrapframe, AllocMark, AllocInit, ForkKstack,
     ForkNoKstack, ForkCopy, ForkReady, ForkReturn
  <2>1. WorkOf(p)'
    <3> USE DEF WorkOf, FreePc, AllocPc, Unused, Goes
    <3>1. CASE ForkCall(p) \/ AllocScan(p) \/ AllocFull(p) \/ AllocPid(p)
      BY SMTT(30), <3>1
    <3>2. CASE AllocPidStore(p)
      BY <3>2
    <3>3. CASE AllocTrapframe(p)
      BY <3>3, KallocType, PageNotNull
    <3>4. CASE AllocMark(p)
      BY <3>4
    <3>5. CASE AllocInit(p)
      BY <3>5
    <3>6. CASE ForkKstack(p)
      BY <3>6, KallocType, PageNotNull
    <3>7. CASE ForkCopy(p)
      BY <3>7
    <3>8. CASE ForkReady(p) \/ ForkReturn(p)
      BY <3>8
    <3>9. CASE AllocNoTrapframe(p) \/ ForkNoKstack(p)
      BY <3>9
    <3> QED
      BY <3>1, <3>2, <3>3, <3>4, <3>5, <3>6, <3>7, <3>8, <3>9
  <2>2. LocalsOf(p)'
    BY DEF LocalsOf, WaitPc
  <2>3. ChildOf(p)'
    BY DEF ChildOf, WorkOf, AllocPc, Gone
  <2> QED
    BY <2>1, <2>2, <2>3
<1>4. CASE Exit(p)
  <2> USE <1>4 DEF Exit, ExitCall, ExitReparent, ExitWakeupCall, Wakeup, WakeupStore,
     WakeupReturn, ExitZombie, ExitSwtch
  <2>1. WorkOf(p)'
    BY SMTT(30) DEF WorkOf, FreePc, AllocPc, Goes
  <2>2. LocalsOf(p)'
    BY DEF LocalsOf, WaitPc
  <2>3. ChildOf(p)'
    BY DEF ChildOf
  <2> QED
    BY <2>1, <2>2, <2>3
<1>5. CASE Wait(p)
  <2> USE <1>5 DEF Wait, WaitCall, WaitScan, WaitNoKids, WaitSleep, ReapFree, ReapClear,
     ReapTrapframe, ReapKstack, SleepChan, SleepStatus, SleepSwtch, SleepReturn
  <2>1. WorkOf(p)'
    BY SMTT(30) DEF WorkOf, FreePc, AllocPc, Goes, ChildOf
  <2>2. LocalsOf(p)'
    BY DEF LocalsOf, WaitPc
  <2>3. ChildOf(p)'
    BY DEF ChildOf
  <2> QED
    BY <2>1, <2>2, <2>3
<1> QED
  BY <1>3, <1>4, <1>5

LEMMA OwnOrphans ==
  ASSUME IInv, FInv, NEW p \in Slot, Fork(p) \/ Exit(p) \/ Wait(p)
  PROVE  OrphansOf(p)'
<1> SUFFICES ASSUME p # Init0, NEW c \in Slot
             PROVE  /\ pc'[p] = "exit_reparent" /\ c < slot'[p] => parent'[c] # p
                    /\ pc'[p] \in {"exit_wakeup", "exit_wakeup_store", "exit_zombie",
                                   "exit_swtch", "zombie_returned"} => parent'[c] # p
  BY DEF OrphansOf
<1>1. TypeOK /\ OrphansOf(p)
  BY DEF IInv, FInv
<1>2. StoresParent(p, c)
  BY <1>1, Effects
<1>3. slot[p] \in Pointer /\ slot[p] \in Int /\ c \in Int /\ c >= 0
      /\ (~InTable(p) => c < slot[p]) /\ p # Null
  BY <1>1, LocalFacts, ProcAssumption DEF Slot, Pointer, InTable, Null
<1> USE <1>1, <1>2, <1>3 DEF TypeOK, At, Goto, First, Advance, UserTrapRet, hart, entry, supply,
        OrphansOf, StoresParent
<1>4. CASE Fork(p)
  BY SMTT(30), <1>4 DEF Fork, ForkCall, AllocScan, AllocFull, AllocPid, AllocPidStore,
     AllocTrapframe, AllocNoTrapframe, AllocMark, AllocInit, ForkKstack,
     ForkNoKstack, ForkCopy, ForkReady, ForkReturn
<1>5. CASE Exit(p)
  BY SMTT(30), <1>5 DEF Exit, ExitCall, ExitReparent, ExitWakeupCall, Wakeup, WakeupStore,
     WakeupReturn, ExitZombie, ExitSwtch
<1>6. CASE Wait(p)
  BY <1>6 DEF Wait, WaitCall, WaitScan, WaitNoKids, WaitSleep, ReapFree, ReapClear,
     ReapTrapframe, ReapKstack, SleepChan, SleepStatus, SleepSwtch, SleepReturn
<1> QED
  BY <1>4, <1>5, <1>6

LEMMA OwnKids ==
  ASSUME IInv, FInv, NEW p \in Slot, Fork(p) \/ Exit(p) \/ Wait(p)
  PROVE  KidsOf(p)'
<1>1. /\ TypeOK /\ KidsOf(p) /\ LocalsOf(p) /\ \A c \in Slot : ParentOf(c)
      /\ StatusOf(p)'
  BY OwnStatus DEF IInv, FInv
<1> SUFFICES ASSUME Sleeper(p)'
             PROVE  \E c \in Slot : parent'[c] = p /\ status'[c] \notin Gone
  BY DEF KidsOf
<1>2. \/ pc'[p] \in {"sleep_chan", "sleep_status", "sleep_swtch", "sleep_return"}
      \/ pc'[p] = "wait_scan" /\ havekids'[p]
  BY <1>1 DEF Sleeper, StatusOf
<1> USE DEF TypeOK, At, Goto, First, Advance, UserTrapRet, hart, entry
<1>3. CASE Fork(p)
  BY <1>1, <1>2, <1>3 DEF Fork, ForkCall, AllocScan, AllocFull, AllocPid, AllocPidStore,
     AllocTrapframe, AllocNoTrapframe, AllocMark, AllocInit, ForkKstack,
     ForkNoKstack, ForkCopy, ForkReady, ForkReturn
<1>4. CASE Exit(p)
  BY <1>1, <1>2, <1>4 DEF Exit, ExitCall, ExitReparent, ExitWakeupCall, Wakeup, WakeupStore,
     WakeupReturn, ExitZombie, ExitSwtch
<1>5. CASE Wait(p)
  <2>1. CASE WaitScan(p)
    <3>1. CASE Sleeper(p)
      BY <1>1, <2>1, <3>1 DEF KidsOf, WaitScan
    <3>2. CASE ~Sleeper(p)
      <4>1. slot[p] \in Slot /\ parent[slot[p]] = p /\ status[slot[p]] # "ZOMBIE"
        BY <1>1, <1>2, <2>1, <3>2, LocalFacts DEF WaitScan, Sleeper
      <4>2. status[slot[p]] \notin Gone
        <5>1. pc[p] = "wait_scan" /\ ParentOf(slot[p]) /\ p # Null
          BY <1>1, <2>1, <4>1, Slots DEF WaitScan
        <5> HIDE DEF TypeOK, At, Goto, First, Advance, UserTrapRet, hart, entry
        <5> QED
          BY <4>1, <5>1 DEF ParentOf
      <4> QED
        BY <2>1, <4>1, <4>2 DEF WaitScan
    <3> QED
      BY <3>1, <3>2
  <2>2. CASE WaitSleep(p) \/ SleepChan(p)
    BY <1>1, <2>2 DEF KidsOf, Sleeper, WaitSleep, SleepChan
  <2>3. CASE SleepStatus(p)
    <3>1. PICK c \in Slot : parent[c] = p /\ status[c] \notin Gone
      BY <1>1, <2>3 DEF KidsOf, Sleeper, SleepStatus
    <3>2. parent'[c] = p /\ status'[c] \notin Gone
      BY <1>1, <2>3, <3>1 DEF SleepStatus, Gone
    <3> QED
      BY <3>2
  <2>4. CASE SleepSwtch(p)
    BY <1>1, <2>4 DEF KidsOf, Sleeper, SleepSwtch
  <2>5. CASE WaitCall(p) \/ SleepReturn(p)
    BY <1>1, <1>2, <2>5 DEF WaitCall, SleepReturn, LocalsOf, WaitPc
  <2>6. CASE WaitNoKids(p) \/ ReapFree(p) \/ ReapClear(p) \/ ReapTrapframe(p) \/ ReapKstack(p)
    BY <1>1, <1>2, <2>6 DEF WaitNoKids, ReapFree, ReapClear, ReapTrapframe, ReapKstack
  <2> QED
    BY <1>5, <2>1, <2>2, <2>3, <2>4, <2>5, <2>6 DEF Wait
<1> QED
  BY <1>3, <1>4, <1>5

-----------------------------------------------------------------------------
(* A statement of p and the table as a whole                               *)

LEMMA Statements ==
  ASSUME TypeOK, SlotAtHand, NEW p \in Slot, Fork(p) \/ Exit(p) \/ Wait(p)
  PROVE  /\ pc[p] = "reap_clear" => parent'[slot[p]] = Null
         /\ pc[p] = "fork_ready" => status'[slot[p]] = "READY"
         /\ pc[p] = "reap_free" => status'[slot[p]] = "FREE"
         /\ pc[p] = "exit_zombie" => status'[p] = "ZOMBIE"
         /\ pc'[p] \in AllocPc => slot'[p] = slot[p] /\ pc[p] \in AllocPc \cup {"alloc_mark"}
<1>0. pc[p] \in Holding => slot[p] \in Slot
  BY DEF SlotAtHand
<1> USE <1>0 DEF TypeOK, At, Goto, UserTrapRet, hart, entry, AllocPc, Holding
<1>1. CASE Fork(p)
  BY <1>1 DEF Fork, ForkCall, AllocScan, AllocFull, AllocPid, AllocPidStore,
     AllocTrapframe, AllocNoTrapframe, AllocMark, AllocInit, ForkKstack,
     ForkNoKstack, ForkCopy, ForkReady, ForkReturn
<1>2. CASE Exit(p)
  BY <1>2 DEF Exit, ExitCall, ExitReparent, ExitWakeupCall, Wakeup, WakeupStore,
     WakeupReturn, ExitZombie, ExitSwtch
<1>3. CASE Wait(p)
  BY <1>3 DEF Wait, WaitCall, WaitScan, WaitNoKids, WaitSleep, ReapFree, ReapClear,
     ReapTrapframe, ReapKstack, SleepChan, SleepStatus, SleepSwtch, SleepReturn
<1> QED
  BY <1>1, <1>2, <1>3

LEMMA ParentStep ==
  ASSUME IInv, FInv, NEW p \in Slot, Fork(p) \/ Exit(p) \/ Wait(p), NEW c \in Slot
  PROVE  ParentOf(c)'
<1> SUFFICES ASSUME status'[c] \in Gone, parent'[c] # Null
             PROVE  pc'[parent'[c]] \in {"reap_clear", "fork_ready"} /\ slot'[parent'[c]] = c
  BY DEF ParentOf
<1>1. TypeOK /\ SlotAtHand /\ ParentOf(c) /\ parent[c] \in Slot \cup {Null} /\ p # Null
  BY Slots DEF IInv, FInv, TypeOK
<1>2. StoresStatus(p, c) /\ StoresParent(p, c)
  BY <1>1, Effects
<1>3. CASE parent'[c] = parent[c] /\ status[c] \in Gone
  <2>1. pc[parent[c]] \in {"reap_clear", "fork_ready"} /\ slot[parent[c]] = c
    BY <1>1, <1>3 DEF ParentOf
  <2>2. parent[c] # p
    BY <1>1, <1>3, <2>1, Statements DEF Gone
  <2> QED
    BY <1>1, <1>3, <2>1, <2>2, Locals
<1>4. CASE parent'[c] = parent[c] /\ status[c] \notin Gone
  BY <1>2, <1>4, Held DEF StoresStatus, FreePc, AllocPc, Gone
<1>5. CASE parent'[c] # parent[c]
  BY <1>1, <1>2, <1>5 DEF StoresParent, StoresStatus, ParentOf, Gone
<1> QED
  BY <1>3, <1>4, <1>5

LEMMA PagesOfStep ==
  ASSUME IInv, FInv, NoRace, NEW p \in Slot, Fork(p) \/ Exit(p) \/ Wait(p), NEW c \in Slot
  PROVE  PagesOf(c)'
<1>1. TypeOK /\ Goes(p) /\ PagesOf(c) /\ WorkOf(p)
  BY AtWork DEF IInv, FInv
<1>2. StoresStatus(p, c) /\ StoresPages(p, c)
  BY <1>1, Effects
<1>3. pc[p] = "exit_wakeup_store" => status[slot[p]] \notin Gone
  BY <1>1 DEF NoRace, WokenLives, Gone
<1> QED
  BY <1>1, <1>2, <1>3, AtWork, Held DEF PagesOf, WorkOf, StoresStatus, StoresPages, FreePc,
     AllocPc, Gone

LEMMA AllocApartStep ==
  ASSUME IInv, FInv, NEW p \in Slot, Fork(p) \/ Exit(p) \/ Wait(p)
  PROVE  AllocApart'
<1> SUFFICES ASSUME NEW q \in Slot, NEW o \in Slot, q # o, Goes(q)', Goes(o)',
                    pc'[q] \in AllocPc, pc'[o] \in AllocPc
             PROVE  slot'[q] # slot'[o]
  BY DEF AllocApart
<1>1. TypeOK /\ SlotAtHand /\ Goes(p) /\ AllocApart
  BY AtWork DEF IInv, FInv
<1>2. ASSUME NEW r \in Slot, Goes(r)', pc'[r] \in AllocPc
      PROVE  /\ Goes(r) /\ slot'[r] = slot[r]
             /\ r = p => pc[r] \in AllocPc \cup {"alloc_mark"}
             /\ r # p => pc[r] \in AllocPc
             /\ pc[r] \in AllocPc => status[slot[r]] = "ALLOCATED"
  <2>1. StoresContext(p, r) /\ StatusOf(r) /\ WorkOf(r)
    BY <1>1, Effects DEF FInv
  <2>2. /\ slot'[r] = slot[r]
        /\ r = p => pc[r] \in AllocPc \cup {"alloc_mark"}
        /\ r # p => pc[r] \in AllocPc
    BY <1>1, <1>2, Locals, Statements
  <2>3. Goes(r)
    BY <1>1, <1>2, <2>1, <2>2, Held DEF Goes, StoresContext, StatusOf, AllocPc, Gone
  <2> QED
    BY <2>1, <2>2, <2>3 DEF WorkOf
<1>3. pc[p] = "alloc_mark" => status[slot[p]] = "FREE"
  BY Held DEF FreePc
<1> QED
  BY <1>1, <1>2, <1>3 DEF AllocApart

LEMMA ProcessFInv ==
  ASSUME IInv, FInv, NoRace, NEW p \in Slot, Fork(p) \/ Exit(p) \/ Wait(p)
  PROVE  FInv'
<1>1. \A q \in Slot : HartOf(q)' /\ ContextOf(q)' /\ StatusOf(q)' /\ LocalsOf(q)'
  BY OthersStatus, OwnStatus, OwnWork
<1>2. \A q \in Slot : WorkOf(q)' /\ ChildOf(q)' /\ ParentOf(q)'
  BY OthersWork, OthersFamily, OwnWork, ParentStep
<1>3. \A q \in Slot : PagesOf(q)' /\ OrphansOf(q)' /\ KidsOf(q)'
  BY OthersFamily, OwnOrphans, OwnKids, PagesOfStep
<1>4. AllocApart'
  BY AllocApartStep
<1>5. DispatchRuns'
  BY AtWork DEF DispatchRuns, OnHart, SwtchToScheduler
<1> QED
  BY <1>1, <1>2, <1>3, <1>4, <1>5 DEF FInv

-----------------------------------------------------------------------------
(* The scheduler and the timer                                             *)

\* They move processes between READY and RUNNING, which the family does not notice.
LEMMA Rescheduled ==
  ASSUME TypeOK, SlotAtHand, FInv, UNCHANGED <<pid, parent, trapframe, kstack, pc, slot, havekids, reg>>,
         \A c \in Slot : \/ status'[c] = status[c]
                         \/ /\ status[c] \in {"READY", "RUNNING"}
                            /\ status'[c] \in {"READY", "RUNNING"},
         \A q \in Slot : Goes(q)' => Goes(q)
  PROVE  /\ \A q \in Slot : StatusOf(q)' /\ LocalsOf(q)' /\ WorkOf(q)' /\ ChildOf(q)'
         /\ \A q \in Slot : ParentOf(q)' /\ PagesOf(q)' /\ OrphansOf(q)' /\ KidsOf(q)'
         /\ AllocApart'
<1> USE DEF FInv, Gone
<1>1. \A q \in Slot : StatusOf(q)' /\ LocalsOf(q)'
  BY DEF StatusOf, LocalsOf
<1>2. \A q \in Slot : WorkOf(q)'
  BY DEF WorkOf, SlotAtHand, Holding, FreePc, AllocPc
<1>3. \A q \in Slot : ChildOf(q)'
  BY DEF ChildOf, SlotAtHand, Holding
<1>4. \A q \in Slot : ParentOf(q)' /\ PagesOf(q)' /\ OrphansOf(q)'
  BY DEF ParentOf, PagesOf, OrphansOf
<1>5. \A q \in Slot : KidsOf(q)'
  BY DEF KidsOf, Sleeper
<1>6. AllocApart'
  BY DEF AllocApart
<1> QED
  BY <1>1, <1>2, <1>3, <1>4, <1>5, <1>6

LEMMA DispatchFInv ==
  ASSUME IInv, FInv, SchedLoad
  PROVE  FInv'
<1> USE DEF FInv, IInv
<1>1. /\ TypeOK /\ cpu = "sched" /\ sp \in Slot /\ cproc = sp /\ cproc' = sp
      /\ status[sp] = "RUNNING" /\ cpu' # "sched"
      /\ UNCHANGED <<status, pid, parent, trapframe, kstack, context>>
      /\ \A q \in Slot : ~OnHart(q)
  BY DEF SchedLoad, SchedAt, SchedulerState, DispatchRuns, OnHart, entry, BackIn
<1>2. \A q \in Slot \ {sp} :
        pc'[q] = pc[q] /\ slot'[q] = slot[q] /\ reg'[q] = reg[q] /\ havekids'[q] = havekids[q]
  BY DEF SchedLoad, TypeOK
<1>3. \/ /\ pc'[sp] = "user" /\ ~havekids'[sp] /\ context[sp] = "forkret"
         /\ pc[sp] \in {"user", "zombie_returned"}
      \/ /\ pc'[sp] = pc[sp] /\ slot'[sp] = slot[sp] /\ reg'[sp] = reg[sp]
         /\ havekids'[sp] = havekids[sp]
  BY <1>1 DEF SchedLoad, TypeOK, ContextOf
<1>4. ASSUME NEW q \in Slot
      PROVE  HartOf(q)' /\ ContextOf(q)'
  <2>1. ContextOf(q) /\ ~OnHart(q) /\ context'[q] = context[q] /\ status'[q] = status[q]
    BY <1>1
  <2>2. CASE q = sp
    <3>1. cpu' = "proc" => context[sp] # "lost" /\ pc'[sp] # "zombie_returned"
      BY <1>1, <2>1, <2>2 DEF SchedLoad, BackIn, ContextOf, TypeOK
    <3> QED
      BY <1>1, <1>3, <2>1, <2>2, <3>1 DEF HartOf, ContextOf, OnHart, Goes
  <2>3. CASE q # sp
    BY <1>1, <1>2, <2>1, <2>3 DEF HartOf, ContextOf, OnHart
  <2> QED
    BY <2>2, <2>3
<1>5. \A q \in Slot : StatusOf(q)' /\ LocalsOf(q)' /\ WorkOf(q)' /\ ChildOf(q)'
  BY <1>1, <1>2, <1>3 DEF StatusOf, LocalsOf, WorkOf, ChildOf, Goes, WaitPc, FreePc, AllocPc, Gone
<1>6. ASSUME NEW q \in Slot
      PROVE  ParentOf(q)' /\ PagesOf(q)'
  <2>1. parent[q] \in Slot \cup {Null} /\ ParentOf(q) /\ PagesOf(q)
    BY <1>1 DEF TypeOK
  <2> QED
    BY <1>1, <1>2, <1>3, <2>1 DEF ParentOf, PagesOf
<1>7. \A q \in Slot : OrphansOf(q)' /\ KidsOf(q)'
  BY <1>1, <1>2, <1>3 DEF OrphansOf, KidsOf, Sleeper
<1>8. AllocApart' /\ DispatchRuns'
  BY <1>1, <1>2, <1>3 DEF AllocApart, DispatchRuns, Goes, AllocPc
<1> QED
  BY <1>4, <1>5, <1>6, <1>7, <1>8

LEMMA SchedulerFInv ==
  ASSUME IInv, FInv, Scheduler
  PROVE  FInv'
<1>1. CASE SchedLoad
  BY <1>1, DispatchFInv
<1>2. CASE ~SchedLoad
  <2>1. /\ cpu = "sched" /\ cpu' = "sched"
        /\ UNCHANGED <<pid, parent, trapframe, kstack, pc, slot, havekids, reg, context>>
    BY <1>2 DEF Scheduler, SchedIntrOn, SchedScan, SchedWrap, SchedSetProc, SchedSave,
       SchedBack, SchedAt, entry
  <2>2. \A c \in Slot : \/ status'[c] = status[c]
                        \/ status[c] = "READY" /\ status'[c] = "RUNNING"
    BY <1>2 DEF IInv, TypeOK, Scheduler, SchedIntrOn, SchedScan, SchedWrap, SchedSetProc,
       SchedSave, SchedBack, Runnable, entry
  <2>3. \A q \in Slot : HartOf(q)' /\ ContextOf(q)'
    BY <2>1 DEF FInv, HartOf, ContextOf, OnHart
  <2>4. DispatchRuns'
    BY <1>2, Slots DEF FInv, IInv, TypeOK, DispatchRuns, Scheduler, SchedIntrOn, SchedScan, SchedWrap,
       SchedSetProc, SchedSave, SchedBack, SchedAt, entry
  <2> QED
    BY <2>1, <2>2, <2>3, <2>4, Rescheduled DEF FInv, IInv, Goes
<1> QED
  BY <1>1, <1>2

LEMMA TimerFInv ==
  ASSUME IInv, FInv, Timer
  PROVE  FInv'
<1>1. TypeOK /\ cproc \in Slot /\ YieldStatus /\ status[cproc] = "RUNNING"
  BY DEF IInv, TypeOK, Timer, Tick, TickInDispatch, TickInSpin, YieldStatus, Yields
<1>2. /\ UNCHANGED <<pid, parent, trapframe, kstack, pc, slot, havekids, reg>>
      /\ \A c \in Slot : status'[c] = IF c = cproc THEN "READY" ELSE status[c]
  BY <1>1 DEF YieldStatus, TypeOK
<1>3. /\ \A q \in Slot \ {cproc} : context'[q] = context[q] /\ ~OnHart(q)
      /\ \/ context'[cproc] = "trap" /\ OnHart(cproc)
         \/ context'[cproc] = "lost"
      /\ \/ cpu' = "wild"
         \/ cpu' = "sched" /\ spc' = "back"
  BY <1>1 DEF TypeOK, Timer, Tick, TickInDispatch, TickInSpin, SwtchToScheduler, OnHart
<1>4. \A q \in Slot : HartOf(q)' /\ ContextOf(q)'
  BY <1>2, <1>3 DEF FInv, HartOf, ContextOf, OnHart
<1>5. DispatchRuns'
  BY <1>3 DEF DispatchRuns
<1>6. \A q \in Slot : Goes(q)' => Goes(q)
  BY <1>1, <1>3 DEF Goes, FInv, HartOf
<1> QED
  BY <1>1, <1>2, <1>4, <1>5, <1>6, Rescheduled DEF FInv, IInv

-----------------------------------------------------------------------------

LEMMA InitFInv == Init => FInv
<1> SUFFICES ASSUME Init PROVE FInv
  OBVIOUS
<1>1. \A p \in Slot : pc[p] = "user" /\ ~havekids[p] /\ parent[p] = Null
                     /\ status[p] \in {"READY", "FREE"}
  BY DEF Init
<1>2. \A p \in Slot : HartOf(p) /\ ContextOf(p) /\ StatusOf(p) /\ LocalsOf(p)
  BY <1>1 DEF Init, HartOf, ContextOf, StatusOf, LocalsOf, OnHart
<1>3. \A p \in Slot : WorkOf(p) /\ ChildOf(p) /\ ParentOf(p)
  BY <1>1 DEF WorkOf, ChildOf, ParentOf, FreePc, AllocPc
<1>4. \A p \in Slot : PagesOf(p)
  BY DEF Init, PagesOf, Gone, NoPage
<1>5. \A p \in Slot : OrphansOf(p) /\ KidsOf(p)
  BY <1>1 DEF OrphansOf, KidsOf, Sleeper
<1>6. AllocApart /\ DispatchRuns
  BY <1>1 DEF AllocApart, DispatchRuns, AllocPc, Init
<1> QED
  BY <1>2, <1>3, <1>4, <1>5, <1>6 DEF FInv

LEMMA NextFInv == IInv /\ FInv /\ NoRace /\ [Next]_vars => FInv'
<1> SUFFICES ASSUME IInv, FInv, NoRace, [Next]_vars
             PROVE  FInv'
  OBVIOUS
<1>1. CASE Halted \/ UNCHANGED vars
  <2>1. UNCHANGED vars
    BY <1>1 DEF Halted
  <2> QED
    BY <2>1 DEF vars, entry, hart, FInv, HartOf, ContextOf, StatusOf, LocalsOf, WorkOf, ChildOf,
       ParentOf, PagesOf, OrphansOf, KidsOf, Sleeper, AllocApart, DispatchRuns, OnHart, Goes
<1> QED
  BY <1>1, ProcessFInv, SchedulerFInv, TimerFInv DEF Next

\* Without the two races, fork, exit and wait agree with the table about every slot
\* they have at hand, and a slot given back is nobody's child.
THEOREM FamilyInvariance == Spec /\ []NoRace => []FInv
  BY Invariance, InitFInv, NextFInv, PTL DEF Spec

\* A process on the hart, or one that may get there, has its two pages: wait frees
\* those of a zombie, which has left them (proc.c:341-347).
THEOREM LiveHasPagesApart == Spec /\ []NoRace => []LiveHasPages
<1>1. FInv => LiveHasPages
  BY DEF FInv, PagesOf, HartOf, OnHart, LiveHasPages, Gone
<1> QED
  BY <1>1, FamilyInvariance, PTL

\* fork returns the pid it gave its child, read after the child was made ready
\* (proc.c:417).
THEOREM ForkReturnsChildApart == Spec /\ []NoRace => []ForkReturnsChild
<1>1. FInv => ForkReturnsChild
  BY DEF FInv, ChildOf, ForkReturnsChild
<1> QED
  BY <1>1, FamilyInvariance, PTL

\* wait never sleeps without a child to wake it.
THEOREM SleeperHasChildApart == Spec /\ []NoRace => []SleeperHasChild
<1>1. FInv => SleeperHasChild
  BY DEF FInv, KidsOf, Sleeper, SleeperHasChild, Gone
<1> QED
  BY <1>1, FamilyInvariance, PTL

-----------------------------------------------------------------------------
(* A zombie is frozen until it is reaped                                   *)

Frozen(c) ==
  /\ pid'[c] = pid[c] /\ xstate'[c] = xstate[c]
  /\ trapframe'[c] = trapframe[c] /\ kstack'[c] = kstack[c]
  /\ status'[c] # "ZOMBIE" =>
       status'[c] = "FREE" /\ At(parent[c], "reap_free") /\ slot[parent[c]] = c

\* exit stores its own status, allocproc that of the slot it has taken.
LEMMA StoresExitStatus ==
  ASSUME TypeOK, NEW p \in Slot, Fork(p) \/ Exit(p) \/ Wait(p), NEW c \in Slot
  PROVE  \/ xstate'[c] = xstate[c]
         \/ c = p /\ pc[p] = "user"
         \/ c = slot[p] /\ pc[p] = "alloc_init"
<1> USE DEF TypeOK, At, entry
<1>1. CASE Fork(p)
  BY <1>1 DEF Fork, ForkCall, AllocScan, AllocFull, AllocPid, AllocPidStore,
     AllocTrapframe, AllocNoTrapframe, AllocMark, AllocInit, ForkKstack,
     ForkNoKstack, ForkCopy, ForkReady, ForkReturn
<1>2. CASE Exit(p)
  BY <1>2 DEF Exit, ExitCall, ExitReparent, ExitWakeupCall, Wakeup, WakeupStore,
     WakeupReturn, ExitZombie, ExitSwtch
<1>3. CASE Wait(p)
  BY <1>3 DEF Wait, WaitCall, WaitScan, WaitNoKids, WaitSleep, ReapFree, ReapClear,
     ReapTrapframe, ReapKstack, SleepChan, SleepStatus, SleepSwtch, SleepReturn
<1> QED
  BY <1>1, <1>2, <1>3

LEMMA FrozenStep ==
  ASSUME IInv, FInv, NoRace, [Next]_vars, NEW c \in Slot, status[c] = "ZOMBIE"
  PROVE  Frozen(c)
<1>1. ASSUME NEW p \in Slot, Fork(p) \/ Exit(p) \/ Wait(p)
      PROVE  Frozen(c)
  <2>1. TypeOK /\ Goes(p) /\ cpu = "proc" /\ cproc = p
    BY <1>1, AtWork DEF IInv, OnHart
  <2>2. StoresStatus(p, c) /\ StoresPid(p, c) /\ StoresPages(p, c)
    BY <1>1, <2>1, Effects
  <2>3. c = slot[p] => pc[p] \notin FreePc \cup AllocPc
    BY <1>1, Held
  <2>4. c = slot[p] => pc[p] # "exit_wakeup_store"
    BY <2>1 DEF NoRace, WokenLives
  <2>5. c = p => pc[p] \notin {"user", "sleep_status", "exit_zombie"}
    BY <1>1, AtWork
  <2>6. /\ pid'[c] = pid[c] /\ trapframe'[c] = trapframe[c] /\ kstack'[c] = kstack[c]
        /\ xstate'[c] = xstate[c]
    BY <1>1, <2>1, <2>2, <2>3, <2>5, StoresExitStatus DEF StoresPid, StoresPages, FreePc, AllocPc
  <2>7. status'[c] # "ZOMBIE" => c = slot[p] /\ pc[p] = "reap_free" /\ status'[c] = "FREE"
    BY <2>2, <2>3, <2>4, <2>5 DEF StoresStatus, FreePc, AllocPc
  <2> QED
    BY <1>1, <2>1, <2>6, <2>7, Held DEF Frozen, At
<1>2. CASE Scheduler
  <2>1. status'[c] = status[c]
    BY <1>2 DEF IInv, TypeOK, Scheduler, SchedIntrOn, SchedScan, SchedWrap, SchedSetProc,
       SchedSave, SchedLoad, SchedBack, Runnable, entry
  <2> QED
    BY <1>2, <2>1 DEF Frozen, Scheduler, SchedIntrOn, SchedScan, SchedWrap, SchedSetProc,
       SchedSave, SchedLoad, SchedBack, entry
<1>3. CASE Timer
  <2>1. YieldStatus /\ cproc # c
    BY <1>3 DEF Timer, Tick, TickInDispatch, TickInSpin, YieldStatus, Yields
  <2> QED
    BY <2>1 DEF Frozen, YieldStatus, IInv, TypeOK
<1>4. CASE Halted \/ UNCHANGED vars
  BY <1>4 DEF Halted, vars, entry, Frozen
<1> QED
  BY <1>1, <1>2, <1>3, <1>4 DEF Next

\* What wait reports of a zombie, and the pages it frees, are those the process
\* left, and nobody but its parent's wait takes it out of the table.
THEOREM ZombieFrozenApart == Spec /\ []NoRace => ZombieFrozen
<1>1. IInv /\ FInv /\ NoRace /\ [Next]_vars =>
        [\A c \in Slot : status[c] = "ZOMBIE" => Frozen(c)]_vars
  BY FrozenStep
<1>2. [\A c \in Slot : status[c] = "ZOMBIE" => Frozen(c)]_vars =>
        [\A c \in Slot : status[c] = "ZOMBIE" =>
          /\ pid'[c] = pid[c] /\ xstate'[c] = xstate[c]
          /\ trapframe'[c] = trapframe[c] /\ kstack'[c] = kstack[c]
          /\ status'[c] # "ZOMBIE" =>
               status'[c] = "FREE" /\ At(parent[c], "reap_free") /\ slot[parent[c]] = c]_vars
  BY DEF Frozen
<1> QED
  BY <1>1, <1>2, Invariance, FamilyInvariance, PTL DEF Spec, ZombieFrozen

-----------------------------------------------------------------------------
(* The table implements the family tree                                    *)

lives   == [p \in Slot |-> Life(p)]
parents == [p \in Slot |-> IF Life(p) = "free" THEN Null ELSE parent[p]]

\* The tree changes at one node at most.
LEMMA OneNode ==
  ASSUME NEW c \in Slot,
         \A o \in Slot \ {c} : Life(o)' = Life(o) /\ (Life(o) # "free" => parent'[o] = parent[o])
  PROVE  /\ lives' = [lives EXCEPT ![c] = Life(c)']
         /\ parents' = [parents EXCEPT ![c] = IF Life(c)' = "free" THEN Null ELSE parent'[c]]
  BY DEF lives, parents

LEMMA NoNode ==
  ASSUME \A o \in Slot : Life(o)' = Life(o) /\ (Life(o) # "free" => parent'[o] = parent[o])
  PROVE  UNCHANGED <<lives, parents>>
  BY DEF lives, parents

LEMMA StillLife ==
  ASSUME IInv, FInv, NoRace, NEW p \in Slot, Fork(p) \/ Exit(p) \/ Wait(p), NEW c \in Slot,
         c = slot[p] => pc[p] \notin {"fork_ready", "exit_reparent", "reap_free"},
         c = p => pc[p] # "exit_zombie"
  PROVE  Life(c)' = Life(c) /\ (Life(c) # "free" => parent'[c] = parent[c])
<1>1. TypeOK /\ Goes(p)
  BY AtWork DEF IInv
<1>2. StoresStatus(p, c) /\ StoresParent(p, c)
  BY <1>1, Effects
<1>3. c = slot[p] /\ pc[p] = "exit_wakeup_store" => status[c] \in {"READY", "RUNNING", "SLEEPING"}
  BY <1>1 DEF NoRace, WokenLives
<1>4. c = p /\ pc[p] = "sleep_status" => status[c] = "RUNNING"
  BY AtWork
<1>5. Life(c)' = Life(c)
  BY <1>2, <1>3, <1>4, Held DEF Life, StoresStatus, FreePc, AllocPc
<1>6. Life(c) # "free" => parent'[c] = parent[c]
  BY <1>2, Held DEF Life, StoresParent, FreePc, AllocPc
<1> QED
  BY <1>5, <1>6

\* A statement that the tree sees changes what it says of the slot at hand, or of
\* the process itself.
LEMMA SeenStatement ==
  ASSUME IInv, FInv, NoRace, NEW p \in Slot, Fork(p) \/ Exit(p) \/ Wait(p),
         pc[p] \in {"fork_ready", "exit_reparent", "reap_free", "exit_zombie"},
         NEW c \in Slot, IF pc[p] = "exit_zombie" THEN c = p ELSE c = slot[p]
  PROVE  /\ lives' = [lives EXCEPT ![c] = Life(c)']
         /\ parents' = [parents EXCEPT ![c] = IF Life(c)' = "free" THEN Null ELSE parent'[c]]
         /\ lives[p] = "alive" /\ lives[c] = Life(c)
         /\ parents[c] = IF Life(c) = "free" THEN Null ELSE parent[c]
         /\ StoresStatus(p, c) /\ StoresParent(p, c)
<1>1. \A o \in Slot \ {c} : Life(o)' = Life(o) /\ (Life(o) # "free" => parent'[o] = parent[o])
  BY StillLife
<1>2. Life(p) = "alive"
  BY AtWork DEF Life
<1>3. StoresStatus(p, c) /\ StoresParent(p, c)
  BY Effects DEF IInv
<1> QED
  BY <1>1, <1>2, <1>3, OneNode DEF lives, parents

LEMMA ProcessRefines ==
  ASSUME IInv, FInv, NoRace, NEW p \in Slot, Fork(p) \/ Exit(p) \/ Wait(p)
  PROVE  [Tree!Next]_(Tree!vars)
<1>0. PICK s : s = slot[p]
  OBVIOUS
<1>1. TypeOK /\ SlotAtHand /\ Goes(p) /\ WorkOf(p) /\ ChildOf(p) /\ OrphansOf(p)
  BY AtWork DEF IInv, FInv
<1>2. CASE pc[p] = "fork_ready"
  <2>1. s \in Slot /\ Life(s) = "free" /\ parent[s] = p /\ status'[s] = "READY"
    BY <1>0, <1>1, <1>2, Held, Statements DEF AllocPc, Life, WorkOf
  <2>2. Life(s)' = "alive" /\ parent'[s] = p
    BY <1>0, <1>2, <2>1, SeenStatement DEF Life, StoresParent
  <2>3. lives[p] = "alive" /\ lives[s] = "free"
        /\ lives' = [lives EXCEPT ![s] = "alive"] /\ parents' = [parents EXCEPT ![s] = p]
    BY <1>0, <1>2, <2>1, <2>2, SeenStatement
  <2> QED
    BY <2>1, <2>3 DEF Tree!Next, Tree!Fork, lives, parents
<1>3. CASE pc[p] = "exit_reparent" /\ s \in Slot
  <2>1. Life(s)' = Life(s)
    BY <1>0, <1>3, SeenStatement DEF Life, StoresStatus
  <2>2. CASE parent'[s] = parent[s]
    <3>1. \A o \in Slot : Life(o)' = Life(o) /\ (Life(o) # "free" => parent'[o] = parent[o])
      BY <1>0, <1>3, <2>1, <2>2, StillLife
    <3> QED
      BY <3>1, NoNode DEF Tree!vars, lives, parents
  <2>3. CASE parent'[s] # parent[s]
    <3>1. parent[s] = p /\ parent'[s] = Init0
      BY <1>0, <1>3, <2>3, SeenStatement DEF StoresParent
    <3>2. Life(s) # "free"
      BY <1>0, <1>3, <3>1, Slots DEF FInv, ParentOf, Gone, Life
    <3>3. lives[p] = "alive" /\ lives[s] # "free" /\ parents[s] = p
          /\ parents' = [parents EXCEPT ![s] = Init0] /\ lives' = [lives EXCEPT ![s] = lives[s]]
      BY <1>0, <1>3, <2>1, <3>1, <3>2, SeenStatement
    <3>4. lives' = lives
      BY <3>3 DEF lives
    <3> QED
      BY <1>0, <1>3, <3>3, <3>4 DEF Tree!Next, Tree!Adopt, lives, parents
  <2> QED
    BY <2>2, <2>3
<1>4. CASE pc[p] = "exit_zombie"
  <2>1. status'[p] = "ZOMBIE" /\ parent'[p] = parent[p]
    BY <1>1, <1>4, Statements, Effects DEF StoresParent
  <2>2. lives[p] = "alive" /\ Life(p) = "alive" /\ Life(p)' = "zombie"
        /\ lives' = [lives EXCEPT ![p] = "zombie"]
    BY <1>0, <1>4, <2>1, SeenStatement DEF Life
  <2>3. parents' = [parents EXCEPT ![p] = parents[p]]
    BY <1>0, <1>4, <2>1, <2>2, SeenStatement
  <2>4. parents' = parents
    BY <2>3 DEF parents
  <2>5. p # Init0 => \A c \in Slot : parents[c] # p
    BY <1>1, <1>4, Slots DEF OrphansOf, parents
  <2> QED
    BY <2>2, <2>4, <2>5 DEF Tree!Next, Tree!Exit, lives, parents
<1>5. CASE pc[p] = "reap_free"
  <2>1. s \in Slot /\ Life(s) = "zombie" /\ parent[s] = p /\ status'[s] = "FREE"
    BY <1>0, <1>1, <1>5, Held, Statements DEF Life
  <2>2. lives[p] = "alive" /\ lives[s] = "zombie" /\ parents[s] = p
        /\ lives' = [lives EXCEPT ![s] = "free"] /\ parents' = [parents EXCEPT ![s] = Null]
    BY <1>0, <1>5, <2>1, SeenStatement DEF Life
  <2> QED
    BY <2>1, <2>2 DEF Tree!Next, Tree!Reap, lives, parents
<1>6. CASE \/ pc[p] \notin {"fork_ready", "exit_reparent", "exit_zombie", "reap_free"}
           \/ pc[p] = "exit_reparent" /\ s \notin Slot
  <2>1. \A o \in Slot : Life(o)' = Life(o) /\ (Life(o) # "free" => parent'[o] = parent[o])
    BY <1>0, <1>6, StillLife
  <2> QED
    BY <2>1, NoNode DEF Tree!vars, lives, parents
<1> QED
  BY <1>2, <1>3, <1>4, <1>5, <1>6

LEMMA OtherRefines ==
  ASSUME IInv, Scheduler \/ Timer \/ Halted \/ UNCHANGED vars
  PROVE  UNCHANGED Tree!vars
<1>1. /\ parent' = parent
      /\ \A c \in Slot : \/ status'[c] = status[c]
                         \/ /\ status[c] \in {"READY", "RUNNING"}
                            /\ status'[c] \in {"READY", "RUNNING"}
  <2>1. CASE Scheduler
    BY <2>1 DEF IInv, TypeOK, Scheduler, SchedIntrOn, SchedScan, SchedWrap, SchedSetProc,
       SchedSave, SchedLoad, SchedBack, Runnable, entry
  <2>2. CASE Timer
    BY <2>2 DEF IInv, TypeOK, Timer, Tick, TickInDispatch, TickInSpin, YieldStatus, Yields
  <2>3. CASE Halted \/ UNCHANGED vars
    BY <2>3 DEF Halted, vars, entry
  <2> QED
    BY <2>1, <2>2, <2>3
<1>2. \A c \in Slot : Life(c)' = Life(c)
  BY <1>1 DEF Life
<1> QED
  BY <1>1, <1>2, NoNode DEF Tree!vars, lives, parents

LEMMA StepRefines ==
  IInv /\ FInv /\ NoRace /\ [Next]_vars => [Tree!Next]_(Tree!vars)
  BY ProcessRefines, OtherRefines DEF Next

LEMMA InitRefines == Init => Tree!Init
<1> SUFFICES ASSUME Init PROVE Tree!Init
  OBVIOUS
<1>1. \A p \in Slot : /\ Life(p) = IF p = Init0 THEN "alive" ELSE "free"
                     /\ parent[p] = Null
  BY DEF Init, Life
<1> QED
  BY <1>1 DEF Tree!Init

\* Statement by statement, and preempted anywhere, fork, exit and wait do what
\* Family promises: a child is born once, handed to init before its parent dies,
\* and reaped once by the parent it has then.
THEOREM KeepsFamilyApart == Spec /\ []NoRace => KeepsFamily
  BY InitRefines, StepRefines, Invariance, FamilyInvariance, PTL DEF Spec, KeepsFamily, Tree!Spec

-----------------------------------------------------------------------------
(* Programs that cannot race: only init forks, and it never exits          *)

\* As user/proczero.c up to its last call: init forks and waits (126-135), its child
\* exits (131).
OnlyInitForks ==
  /\ Init0 \notin MayExit
  /\ \A wl \in Workloads : \A p \in Slot \ {Init0} : wl[p] = 0

ForkPc == {"alloc_scan", "alloc_pid", "alloc_pid_store", "alloc_trapframe", "alloc_mark",
           "alloc_init", "fork_kstack", "fork_copy", "fork_ready", "fork_return"}
ReapPc == {"reap_free", "reap_clear", "reap_trapframe", "reap_kstack"}
ExitPc == {"exit_reparent", "exit_wakeup", "exit_wakeup_store", "exit_zombie",
           "exit_swtch", "zombie_returned"}

\* init alone forks, has children and reaps them; it stays in the table; whoever
\* wakes somebody wakes init.
OneForker ==
  /\ \A p \in Slot \ {Init0} : forks[p] = 0 /\ pc[p] \notin ForkPc \cup ReapPc
  /\ pc[Init0] \notin ExitPc /\ status[Init0] \notin Gone \cup {"ZOMBIE"}
  /\ \A p \in Slot :
       /\ parent[p] \in {Null, Init0}
       /\ status[p] = "SLEEPING" \/ pc[p] = "sleep_status" => chan[p] = p
       /\ pc[p] \in {"exit_wakeup", "exit_wakeup_store"} => reg[p] \in {Null, Init0}
       /\ pc[p] = "exit_wakeup_store" => slot[p] = Init0

LEMMA OneForkerNoRace ==
  ASSUME TypeOK, OneForker
  PROVE  NoRace
<1>1. \A p \in Slot : pc[p] \in FreePc => p = Init0
  BY DEF OneForker, FreePc, ForkPc, ReapPc
<1>2. status[Init0] \in {"READY", "RUNNING", "SLEEPING"}
  BY Slots DEF TypeOK, OneForker, Status, Gone
<1>3. SlotsApart
  BY <1>1 DEF SlotsApart
<1>4. WokenLives
  BY <1>2 DEF OneForker, WokenLives
<1> QED
  BY <1>3, <1>4 DEF NoRace

\* The locals OneForker speaks of, at a statement of p.
LEMMA OneForkerOwn ==
  ASSUME OnlyInitForks, IInv, FInv, OneForker, NEW p \in Slot, Fork(p) \/ Exit(p) \/ Wait(p)
  PROVE  /\ p # Init0 => forks'[p] = 0 /\ pc'[p] \notin ForkPc \cup ReapPc
         /\ p = Init0 => pc'[p] \notin ExitPc
         /\ pc'[p] \in {"exit_wakeup", "exit_wakeup_store"} => reg'[p] \in {Null, Init0}
         /\ pc'[p] = "exit_wakeup_store" => slot'[p] = Init0
         /\ pc'[p] = "sleep_status" => chan'[p] = p
         /\ \A q \in Slot \ {p} : forks'[q] = forks[q]
         /\ \A c \in Slot : \/ chan'[c] = chan[c]
                            \/ c = slot[p] /\ pc[p] = "alloc_init"
                            \/ c = p /\ pc[p] \in {"sleep_chan", "sleep_return"}
<1>1. /\ TypeOK /\ (InTable(p) => slot[p] \in Slot) /\ p # Null /\ Init0 # Null
  BY LocalFacts, Slots DEF IInv
<1> USE <1>1 DEF TypeOK, OneForker, OnlyInitForks, At, Goto, First, Advance, UserTrapRet, entry,
        hart, ForkPc, ReapPc, ExitPc
<1>2. CASE Fork(p)
  BY <1>2 DEF Fork, ForkCall, AllocScan, AllocFull, AllocPid, AllocPidStore,
     AllocTrapframe, AllocNoTrapframe, AllocMark, AllocInit, ForkKstack,
     ForkNoKstack, ForkCopy, ForkReady, ForkReturn
<1>3. CASE Exit(p)
  <2>1. parent[p] \in {Null, Init0} /\ Null \notin Slot
    BY Slots
  <2> QED
    BY SMTT(30), <1>3, <2>1 DEF Exit, ExitCall, ExitReparent, ExitWakeupCall, Wakeup, WakeupStore,
       WakeupReturn, ExitZombie, ExitSwtch
<1>4. CASE Wait(p)
  BY <1>4 DEF Wait, WaitCall, WaitScan, WaitNoKids, WaitSleep, ReapFree, ReapClear,
     ReapTrapframe, ReapKstack, SleepChan, SleepStatus, SleepSwtch, SleepReturn
<1> QED
  BY <1>2, <1>3, <1>4

LEMMA OneForkerStep ==
  ASSUME OnlyInitForks, IInv, FInv, OneForker, [Next]_vars
  PROVE  OneForker'
<1>0. TypeOK /\ NoRace /\ Init0 \in Slot
  BY OneForkerNoRace, Slots DEF IInv
<1>1. ASSUME NEW p \in Slot, Fork(p) \/ Exit(p) \/ Wait(p)
      PROVE  OneForker'
  <2>1. \A q \in Slot \ {Init0} : forks'[q] = 0 /\ pc'[q] \notin ForkPc \cup ReapPc
    BY <1>0, <1>1, OneForkerOwn, Locals DEF OneForker
  <2>2. pc'[Init0] \notin ExitPc
    BY <1>0, <1>1, OneForkerOwn, Locals DEF OneForker
  <2>3. status'[Init0] \notin Gone \cup {"ZOMBIE"}
    BY <1>0, <1>1, Effects, Held DEF OneForker, StoresStatus, FreePc, AllocPc, Gone, ExitPc
  <2>4. ASSUME NEW q \in Slot
        PROVE  /\ parent'[q] \in {Null, Init0}
               /\ status'[q] = "SLEEPING" \/ pc'[q] = "sleep_status" => chan'[q] = q
               /\ pc'[q] \in {"exit_wakeup", "exit_wakeup_store"} => reg'[q] \in {Null, Init0}
               /\ pc'[q] = "exit_wakeup_store" => slot'[q] = Init0
    <3>1. StoresStatus(p, q) /\ StoresParent(p, q)
      BY <1>0, <1>1, Effects
    <3>2. parent'[q] \in {Null, Init0}
      BY <1>1, <3>1 DEF OneForker, StoresParent, ForkPc
    <3>3. pc'[q] \in {"exit_wakeup", "exit_wakeup_store"} => reg'[q] \in {Null, Init0}
      BY <1>0, <1>1, OneForkerOwn, Locals DEF OneForker
    <3>4. pc'[q] = "exit_wakeup_store" => slot'[q] = Init0
      BY <1>0, <1>1, OneForkerOwn, Locals DEF OneForker
    <3>5. pc'[q] = "sleep_status" => chan'[q] = q
      <4>1. CASE q = p
        BY <1>1, <4>1, OneForkerOwn
      <4>2. CASE q # p
        <5>1. pc'[q] = pc[q] /\ StatusOf(q)
          BY <1>0, <1>1, <4>2, Locals DEF FInv
        <5>2. q = slot[p] /\ pc[p] = "alloc_init" => pc[q] # "sleep_status"
          BY <1>1, <5>1, Held DEF StatusOf, AllocPc, Gone
        <5>3. chan'[q] = chan[q] \/ (q = slot[p] /\ pc[p] = "alloc_init")
          BY <1>1, <4>2, OneForkerOwn
        <5> QED
          BY <5>1, <5>2, <5>3 DEF OneForker
      <4> QED
        BY <4>1, <4>2
    <3>6. status'[q] = "SLEEPING" => chan'[q] = q
      <4>1. \/ status[q] = "SLEEPING"
            \/ q = p /\ pc[p] = "sleep_status"
            \/ status'[q] # "SLEEPING"
        BY <3>1 DEF StoresStatus
      <4>2. q = slot[p] /\ pc[p] = "alloc_init" => status[q] = "ALLOCATED"
        BY <1>1, Held DEF AllocPc
      <4>3. q = p /\ pc[p] \in {"sleep_chan", "sleep_return"} => status[q] = "RUNNING"
        BY <1>1, AtWork
      <4> QED
        BY <1>1, <4>1, <4>2, <4>3, OneForkerOwn DEF OneForker
    <3> QED
      BY <3>2, <3>3, <3>4, <3>5, <3>6
  <2> QED
    BY <2>1, <2>2, <2>3, <2>4 DEF OneForker
<1>2. CASE Scheduler \/ Timer \/ Halted \/ UNCHANGED vars
  <2>1. UNCHANGED <<parent, chan, forks>>
    BY <1>2 DEF Scheduler, SchedIntrOn, SchedScan, SchedWrap, SchedSetProc, SchedSave, SchedLoad,
       SchedBack, Timer, Tick, TickInDispatch, TickInSpin, YieldStatus, Halted, vars, entry
  <2>2. \A q \in Slot : \/ pc'[q] = pc[q] /\ slot'[q] = slot[q] /\ reg'[q] = reg[q]
                        \/ pc'[q] = "user"
    BY <1>0, <1>2 DEF TypeOK, Scheduler, SchedIntrOn, SchedScan, SchedWrap, SchedSetProc, SchedSave,
       SchedLoad, SchedBack, Timer, Tick, TickInDispatch, TickInSpin, YieldStatus, Halted, vars
  <2>3. \A q \in Slot : \/ status'[q] = status[q]
                        \/ status'[q] \in {"READY", "RUNNING"}
    BY <1>0, <1>2 DEF TypeOK, Scheduler, SchedIntrOn, SchedScan, SchedWrap, SchedSetProc, SchedSave,
       SchedLoad, SchedBack, Timer, Tick, TickInDispatch, TickInSpin, YieldStatus, Halted, vars, entry
  <2> QED
    BY <1>0, <2>1, <2>2, <2>3 DEF OneForker, ForkPc, ReapPc, ExitPc, Gone
<1> QED
  BY <1>1, <1>2 DEF Next

LEMMA OneForkerInit ==
  ASSUME OnlyInitForks, Init
  PROVE  OneForker
<1>1. forks \in Workloads
  BY DEF Init
<1> QED
  BY <1>1, Slots DEF OnlyInitForks, Init, OneForker, ForkPc, ReapPc, ExitPc, Gone

\* With such programs neither race can happen: init alone takes and clears slots, and
\* it is the parent every exit wakes ...
THEOREM OneForkerIsRaceFree == ASSUME OnlyInitForks PROVE Spec => []NoRace
<1>1. Init => FInv /\ OneForker
  BY InitFInv, OneForkerInit
<1>2. IInv /\ FInv /\ OneForker /\ [Next]_vars => FInv' /\ OneForker'
  BY NextFInv, OneForkerStep, OneForkerNoRace DEF IInv
<1>3. IInv /\ OneForker => NoRace
  BY OneForkerNoRace DEF IInv
<1> QED
  BY <1>1, <1>2, <1>3, Invariance, PTL DEF Spec

\* ... and everything above holds of every behaviour, whatever the number of slots,
\* pages and fork calls.
THEOREM OneForkerKeepsFamily ==
  ASSUME OnlyInitForks
  PROVE  Spec => /\ [](LiveHasPages /\ ForkReturnsChild /\ SleeperHasChild)
                 /\ ZombieFrozen /\ KeepsFamily
  BY OneForkerIsRaceFree, LiveHasPagesApart, ForkReturnsChildApart, SleeperHasChildApart,
     ZombieFrozenApart, KeepsFamilyApart, PTL
=============================================================================
