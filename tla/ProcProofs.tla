----------------------------- MODULE ProcProofs -----------------------------
(***************************************************************************)
(* Theorems about Proc, for every table size, number of pages and          *)
(* workload, and every interleaving, the races of proc.c included: the     *)
(* type invariant; one process at most is RUNNING and it is the one        *)
(* c->proc names; a process that gave up RUNNING keeps the hart until it   *)
(* has switched; no page is in two places.  FamilyProofs goes on from here *)
(* with what holds without the races.                                      *)
(***************************************************************************)
EXTENDS Proc, TLAPS

\* SchedulerState says where the scheduler's locals are defined, SwtchKeepsHart
\* that a process which gave up RUNNING is on the hart until it has switched.
IInv == TypeOK /\ SchedulerState /\ SlotAtHand /\ SwtchKeepsHart /\ OneRunning

\* Slot and Pointer are used through these facts only.
LEMMA Slots ==
  /\ Null \notin Slot /\ Init0 \in Slot
  /\ 0 \in Pointer /\ NPROC \in Pointer
  /\ \A i \in Pointer : i < NPROC <=> i \in Slot
  /\ \A i \in Pointer : i # NPROC => i \in Slot
  /\ \A i \in Slot : i \in Pointer /\ i + 1 \in Pointer /\ i \in Int
  BY ProcAssumption DEF Slot, Pointer, Null, Init0

LEMMA TypeInit == Init => TypeOK
  BY ProcAssumption
  DEF Init, TypeOK, Slot, Pointer, Null, Init0, Page, NoPage, Status, Contexts, CpuState, SchedPc, ProcPc, WaitPc

\* The sets of labels are used through their members only.
LEMMA Labels ==
  /\ "FREE" \in Status /\ "ALLOCATED" \in Status /\ "READY" \in Status
  /\ "RUNNING" \in Status /\ "SLEEPING" \in Status /\ "ZOMBIE" \in Status
  /\ "forkret" \in Contexts /\ "call" \in Contexts
  /\ "trap" \in Contexts /\ "lost" \in Contexts
  /\ "sched" \in CpuState /\ "proc" \in CpuState /\ "spin" \in CpuState
  /\ "panic" \in CpuState /\ "wild" \in CpuState
  /\ "intr_on" \in SchedPc /\ "scan" \in SchedPc /\ "setproc" \in SchedPc
  /\ "swtch" \in SchedPc /\ "load" \in SchedPc /\ "back" \in SchedPc
  BY DEF Status, Contexts, CpuState, SchedPc

LEMMA ProcLabels ==
  /\ "user" \in ProcPc /\ "alloc_scan" \in ProcPc
  /\ "alloc_pid" \in ProcPc /\ "alloc_pid_store" \in ProcPc
  /\ "alloc_trapframe" \in ProcPc /\ "alloc_mark" \in ProcPc
  /\ "alloc_init" \in ProcPc /\ "fork_kstack" \in ProcPc
  /\ "fork_copy" \in ProcPc /\ "fork_ready" \in ProcPc
  /\ "fork_return" \in ProcPc /\ "exit_reparent" \in ProcPc
  /\ "exit_wakeup" \in ProcPc /\ "exit_wakeup_store" \in ProcPc
  /\ "exit_zombie" \in ProcPc /\ "exit_swtch" \in ProcPc
  /\ "zombie_returned" \in ProcPc /\ "wait_scan" \in ProcPc
  /\ "reap_free" \in ProcPc /\ "reap_clear" \in ProcPc
  /\ "reap_trapframe" \in ProcPc /\ "reap_kstack" \in ProcPc
  /\ "sleep_chan" \in ProcPc /\ "sleep_status" \in ProcPc
  /\ "sleep_swtch" \in ProcPc /\ "sleep_return" \in ProcPc
  BY DEF ProcPc, WaitPc

LEMMA LocalFacts ==
  ASSUME TypeOK, NEW p \in Slot
  PROVE  /\ slot[p] \in Pointer /\ reg[p] \in Int /\ reg[p] + 1 \in Int
         /\ InTable(p) => slot[p] \in Slot /\ slot[p] + 1 \in Pointer
         /\ forks[p] \in Nat /\ pid[p] \in Int /\ parent[p] \in Int
         /\ 0 \in Pointer /\ Null \in Int
<1>1. slot[p] \in Pointer /\ reg[p] \in Int /\ forks[p] \in Nat /\ pid[p] \in Int
      /\ parent[p] \in Slot \cup {Null}
  BY DEF TypeOK
<1>2. InTable(p) => slot[p] \in Slot /\ slot[p] + 1 \in Pointer
  BY <1>1, Slots DEF InTable
<1> QED
  BY <1>1, <1>2, Slots DEF Null

LEMMA KallocType ==
  ASSUME freelist \in Seq(Page), freelist # <<>>
  PROVE  Head(freelist) \in Page /\ Tail(freelist) \in Seq(Page)
  OBVIOUS

LEMMA KfreeType ==
  ASSUME freelist \in Seq(Page), NEW page \in Page \cup {NoPage}
  PROVE  Kfree(page) \in Seq(Page)
  BY DEF Kfree

LEMMA SwtchType ==
  ASSUME TypeOK, NEW p \in Slot, NEW how \in Contexts, ccontext \in Slot,
         SwtchToScheduler(p, how)
  PROVE  /\ context' \in [Slot -> Contexts] /\ cpu' \in CpuState
         /\ spc' \in SchedPc /\ sp' \in Pointer
         /\ cproc' \in Slot \cup {Null} /\ ccontext' \in Slot \cup {Null}
  BY Labels, Slots DEF TypeOK, SwtchToScheduler

\* A jump, a step of a scan, and the return to user mode keep the types.
LEMMA GotoType ==
  ASSUME pc \in [Slot -> ProcPc], NEW p \in Slot, NEW label \in ProcPc, Goto(p, label)
  PROVE  pc' \in [Slot -> ProcPc]
  BY DEF Goto

LEMMA AdvanceType ==
  ASSUME slot \in [Slot -> Pointer], NEW p \in Slot, slot[p] + 1 \in Pointer, Advance(p)
  PROVE  slot' \in [Slot -> Pointer]
  BY DEF Advance

LEMMA UserTrapRetType ==
  ASSUME TypeOK, NEW p \in Slot, UserTrapRet(p)
  PROVE  /\ pc' \in [Slot -> ProcPc] /\ slot' \in [Slot -> Pointer]
         /\ havekids' \in [Slot -> BOOLEAN] /\ reg' \in [Slot -> Int]
         /\ sie' \in BOOLEAN /\ cpu' \in CpuState
         /\ spc' = spc /\ sp' = sp /\ cproc' = cproc /\ ccontext' = ccontext
         /\ context' = context
<1>1. pc' \in [Slot -> ProcPc]
  <2>1. Goto(p, "user") /\ pc \in [Slot -> ProcPc] /\ "user" \in ProcPc
    BY ProcLabels DEF UserTrapRet, TypeOK
  <2> QED
    BY <2>1, GotoType
<1>2. slot' \in [Slot -> Pointer]
  <2>1. slot' = [slot EXCEPT ![p] = 0] /\ slot \in [Slot -> Pointer] /\ 0 \in Pointer
    BY Slots DEF UserTrapRet, First, TypeOK
  <2> QED
    BY ONLY <2>1
<1>3. havekids' \in [Slot -> BOOLEAN]
  BY DEF UserTrapRet, TypeOK
<1>4. reg' \in [Slot -> Int]
  <2>1. reg' = [reg EXCEPT ![p] = Null] /\ reg \in [Slot -> Int] /\ Null \in Int
    BY DEF UserTrapRet, TypeOK, Null
  <2> QED
    BY ONLY <2>1
<1>5. /\ sie' \in BOOLEAN /\ cpu' \in CpuState
      /\ spc' = spc /\ sp' = sp /\ cproc' = cproc /\ ccontext' = ccontext
      /\ context' = context
  BY Labels DEF UserTrapRet, TypeOK, hart
<1> QED
  BY ONLY <1>1, <1>2, <1>3, <1>4, <1>5

LEMMA ForkType ==
  ASSUME TypeOK, NEW p \in Slot, Fork(p)
  PROVE  TypeOK'
<1> USE LocalFacts DEF TypeOK, hart, supply, Goto
<1>1. CASE ForkCall(p)
  BY <1>1, ProcLabels DEF ForkCall, entry, First
<1>2. CASE AllocScan(p)
  BY <1>2, ProcLabels DEF AllocScan, entry, Advance
<1>3. CASE AllocFull(p)
  BY <1>3, ProcLabels, Labels DEF AllocFull, entry, First, UserTrapRet
<1>4. CASE AllocPid(p)
  BY <1>4, ProcLabels DEF AllocPid, entry
<1>5. CASE AllocPidStore(p)
  BY <1>5, ProcLabels DEF AllocPidStore
<1>6. CASE AllocTrapframe(p)
  BY <1>6, KallocType, ProcLabels DEF AllocTrapframe
<1>7. CASE AllocNoTrapframe(p)
  BY <1>7, ProcLabels, Labels DEF AllocNoTrapframe, First, UserTrapRet
<1>8. CASE AllocMark(p)
  BY <1>8, ProcLabels, Labels DEF AllocMark
<1>9. CASE AllocInit(p)
  <2>1. parent' \in [Slot -> Slot \cup {Null}] /\ chan' \in [Slot -> Slot \cup {Null}]
    BY <1>9 DEF AllocInit
  <2>2. xstate' \in [Slot -> Int]
    <3>1. xstate' = [xstate EXCEPT ![slot[p]] = 0] /\ xstate \in [Slot -> Int] /\ 0 \in Int
      BY <1>9 DEF AllocInit
    <3> QED
      BY ONLY <3>1
  <2>3. context' \in [Slot -> Contexts] /\ pc' \in [Slot -> ProcPc]
    BY <1>9, ProcLabels, Labels DEF AllocInit
  <2> QED
    BY <1>9, <2>1, <2>2, <2>3 DEF AllocInit
<1>10. CASE ForkKstack(p)
  BY <1>10, KallocType, ProcLabels DEF ForkKstack
<1>11. CASE ForkNoKstack(p)
  <2>1. UserTrapRet(p)
    BY <1>11 DEF ForkNoKstack
  <2>2. /\ pc' \in [Slot -> ProcPc] /\ slot' \in [Slot -> Pointer]
        /\ havekids' \in [Slot -> BOOLEAN] /\ reg' \in [Slot -> Int]
    BY <2>1, UserTrapRetType
  <2>3. status' \in [Slot -> Status]
    BY <1>11, Labels DEF ForkNoKstack
  <2>4. kstack' \in [Slot -> Page \cup {NoPage}]
    BY <1>11 DEF ForkNoKstack
  <2>5. sie' \in BOOLEAN /\ cpu' \in CpuState
    BY <2>1, UserTrapRetType
  <2>6. UNCHANGED <<context, cproc, ccontext, spc, sp>>
    BY <2>1 DEF UserTrapRet
  <2>7. UNCHANGED <<pid, parent, chan, xstate, trapframe, nextpid, freelist, forks>>
    BY <1>11 DEF ForkNoKstack
  <2> QED
    BY <2>2, <2>3, <2>4, <2>5, <2>6, <2>7
<1>12. CASE ForkCopy(p)
  <2>1. parent' \in [Slot -> Slot \cup {Null}]
    <3>1. parent' = [parent EXCEPT ![slot[p]] = p] \/ parent' = parent
      BY <1>12 DEF ForkCopy
    <3>2. parent \in [Slot -> Slot \cup {Null}]
      OBVIOUS
    <3> QED
      BY ONLY <3>1, <3>2, p \in Slot
  <2>4. cpu' \in CpuState
    BY <1>12, Labels DEF ForkCopy
  <2>2. pc' \in [Slot -> ProcPc]
    BY <1>12, ProcLabels DEF ForkCopy
  <2>3. UNCHANGED <<status, pid, chan, xstate, trapframe, kstack, cproc, ccontext, sie,
                    spc, sp, context, nextpid, freelist, slot, havekids, reg, forks>>
    BY <1>12 DEF ForkCopy
  <2> QED
    BY <2>1, <2>2, <2>3, <2>4
<1>13. CASE ForkReady(p)
  BY <1>13, ProcLabels, Labels DEF ForkReady
<1>14. CASE ForkReturn(p)
  BY <1>14, ProcLabels, Labels DEF ForkReturn, entry, First, UserTrapRet
<1> QED
  BY <1>1, <1>2, <1>3, <1>4, <1>5, <1>6, <1>7, <1>8, <1>9, <1>10, <1>11,
     <1>12, <1>13, <1>14 DEF Fork

LEMMA ExitType ==
  ASSUME TypeOK, SchedulerState, SlotAtHand, NEW p \in Slot, Exit(p)
  PROVE  TypeOK'
<1> USE LocalFacts DEF TypeOK, hart, supply, Goto
<1>1. CASE ExitCall(p)
  BY <1>1, ProcAssumption, ProcLabels DEF ExitCall, First
<1>2. CASE ExitReparent(p)
  BY <1>2, Slots DEF ExitReparent, Advance
<1>3. CASE ExitWakeupCall(p)
  BY <1>3, ProcLabels DEF ExitWakeupCall, entry, First
<1>4. CASE Wakeup(p)
  BY <1>4, ProcLabels DEF Wakeup, entry, Advance
<1>5. CASE WakeupStore(p)
  <2>1. status' \in [Slot -> Status] /\ slot' \in [Slot -> Pointer]
    <3>1. slot[p] \in Slot /\ slot[p] + 1 \in Pointer
      BY <1>5, Slots DEF WakeupStore, At, SlotAtHand, Holding
    <3> QED
      BY <1>5, <3>1, Labels DEF WakeupStore, Advance
  <2>2. pc' \in [Slot -> ProcPc]
    BY <1>5, ProcLabels DEF WakeupStore
  <2> QED
    BY <1>5, <2>1, <2>2 DEF WakeupStore
<1>6. CASE WakeupReturn(p)
  BY <1>6, ProcLabels DEF WakeupReturn, entry, First
<1>7. CASE ExitZombie(p)
  BY <1>7, ProcLabels, Labels DEF ExitZombie
<1>8. CASE ExitSwtch(p)
  <2>1. ccontext \in Slot
    BY <1>8 DEF ExitSwtch, At, SchedulerState
  <2>2. pc' \in [Slot -> ProcPc]
    BY <1>8, ProcLabels DEF ExitSwtch
  <2> QED
    BY <1>8, <2>1, <2>2, SwtchType, Labels DEF ExitSwtch, entry
<1> QED
  BY <1>1, <1>2, <1>3, <1>4, <1>5, <1>6, <1>7, <1>8 DEF Exit

LEMMA WaitType ==
  ASSUME TypeOK, SchedulerState, SlotAtHand, NEW p \in Slot, Wait(p)
  PROVE  TypeOK'
<1> USE LocalFacts DEF TypeOK, hart, supply, Goto
<1>1. CASE WaitCall(p)
  BY <1>1, ProcLabels DEF WaitCall, entry, First
<1>2. CASE WaitScan(p)
  <2>1. slot' \in [Slot -> Pointer]
    <3>1. Advance(p) \/ slot' = slot
      BY <1>2 DEF WaitScan
    <3>2. slot \in [Slot -> Pointer] /\ slot[p] + 1 \in Pointer
      BY <1>2 DEF WaitScan
    <3> QED
      BY ONLY <3>1, <3>2, AdvanceType, p \in Slot
  <2>2. pc' \in [Slot -> ProcPc]
    <3>1. Goto(p, "reap_free") \/ pc' = pc
      BY <1>2 DEF WaitScan
    <3>2. pc \in [Slot -> ProcPc] /\ "reap_free" \in ProcPc
      BY ProcLabels
    <3> QED
      BY ONLY <3>1, <3>2, GotoType, p \in Slot
  <2>3. havekids' \in [Slot -> BOOLEAN]
    BY <1>2 DEF WaitScan
  <2>4. reg' \in [Slot -> Int]
    BY <1>2 DEF WaitScan
  <2> QED
    BY <1>2, <2>1, <2>2, <2>3, <2>4 DEF WaitScan, entry
<1>3. CASE WaitNoKids(p)
  BY <1>3, ProcLabels, Labels DEF WaitNoKids, entry, First, UserTrapRet
<1>4. CASE WaitSleep(p)
  BY <1>4, ProcLabels DEF WaitSleep, entry, First
<1>5. CASE ReapFree(p)
  BY <1>5, ProcLabels, Labels DEF ReapFree
<1>6. CASE ReapClear(p)
  <2>1. pid' \in [Slot -> Int]
    <3>1. pid' = [pid EXCEPT ![slot[p]] = 0] /\ pid \in [Slot -> Int] /\ 0 \in Int
      BY <1>6 DEF ReapClear
    <3> QED
      BY ONLY <3>1
  <2>2. parent' \in [Slot -> Slot \cup {Null}] /\ pc' \in [Slot -> ProcPc]
    BY <1>6, ProcLabels DEF ReapClear
  <2> QED
    BY <1>6, <2>1, <2>2 DEF ReapClear
<1>7. CASE ReapTrapframe(p)
  <2>1. slot[p] \in Slot => Kfree(trapframe[slot[p]]) \in Seq(Page)
    BY KfreeType
  <2>2. slot[p] \in Slot
    BY <1>7 DEF ReapTrapframe, At, SlotAtHand, Holding
  <2>3. trapframe' \in [Slot -> Page \cup {NoPage}]
    BY <1>7 DEF ReapTrapframe
  <2> QED
    BY <1>7, <2>1, <2>2, <2>3, ProcLabels DEF ReapTrapframe
<1>8. CASE ReapKstack(p)
  <2>1. slot[p] \in Slot => Kfree(kstack[slot[p]]) \in Seq(Page)
    BY KfreeType
  <2>2. slot[p] \in Slot
    BY <1>8 DEF ReapKstack, At, SlotAtHand, Holding
  <2>3. kstack' \in [Slot -> Page \cup {NoPage}]
    BY <1>8 DEF ReapKstack
  <2> QED
    BY <1>8, <2>1, <2>2, <2>3, ProcLabels, Labels DEF ReapKstack, First, UserTrapRet
<1>9. CASE SleepChan(p)
  BY <1>9, ProcLabels DEF SleepChan
<1>10. CASE SleepStatus(p)
  BY <1>10, ProcLabels, Labels DEF SleepStatus
<1>11. CASE SleepSwtch(p)
  <2>1. ccontext \in Slot
    BY <1>11 DEF SleepSwtch, At, SchedulerState
  <2>2. pc' \in [Slot -> ProcPc]
    BY <1>11, ProcLabels DEF SleepSwtch
  <2> QED
    BY <1>11, <2>1, <2>2, SwtchType, Labels DEF SleepSwtch, entry
<1>12. CASE SleepReturn(p)
  BY <1>12, ProcLabels DEF SleepReturn, First
<1> QED
  BY <1>1, <1>2, <1>3, <1>4, <1>5, <1>6, <1>7, <1>8, <1>9, <1>10, <1>11, <1>12 DEF Wait

LEMMA SchedulerType ==
  ASSUME TypeOK, SchedulerState, Scheduler
  PROVE  TypeOK'
<1> USE DEF TypeOK, hart, supply
<1>1. CASE SchedIntrOn
  BY <1>1, Slots, Labels DEF SchedIntrOn, entry
<1>2. CASE SchedScan
  <2>1. status' \in [Slot -> Status] /\ spc' \in SchedPc
    BY <1>2, Labels DEF SchedScan
  <2>2. sp' \in Pointer
    BY <1>2, Slots DEF SchedScan
  <2> QED
    BY <1>2, <2>1, <2>2 DEF SchedScan
<1>3. CASE SchedWrap
  BY <1>3, Labels DEF SchedWrap, entry
<1>4. CASE SchedSetProc
  BY <1>4, Labels DEF SchedSetProc, entry, SchedulerState, SchedAt
<1>5. CASE SchedSave
  BY <1>5, Labels DEF SchedSave, entry, SchedulerState, SchedAt
<1>6. CASE SchedLoad
  <2>1. cpu' \in CpuState /\ sie' \in BOOLEAN
    BY <1>6, Labels DEF SchedLoad, BackIn
  <2>2. pc' \in [Slot -> ProcPc]
    BY <1>6, ProcLabels DEF SchedLoad
  <2>3. slot' \in [Slot -> Pointer]
    <3>1. 0 \in Pointer /\ slot \in [Slot -> Pointer]
      BY Slots
    <3>2. slot' = [slot EXCEPT ![sp] = 0] \/ slot' = slot
      BY <1>6 DEF SchedLoad
    <3> QED
      BY ONLY <3>1, <3>2
  <2>4. havekids' \in [Slot -> BOOLEAN]
    BY <1>6 DEF SchedLoad
  <2>5. reg' \in [Slot -> Int]
    BY <1>6 DEF SchedLoad, Null
  <2> QED
    BY <1>6, <2>1, <2>2, <2>3, <2>4, <2>5 DEF SchedLoad, entry
<1>7. CASE SchedBack
  BY <1>7, Slots, Labels DEF SchedBack, entry, SchedulerState, SchedAt
<1> QED
  BY <1>1, <1>2, <1>3, <1>4, <1>5, <1>6, <1>7 DEF Scheduler

LEMMA TimerType ==
  ASSUME TypeOK, SchedulerState, Timer
  PROVE  TypeOK'
<1> USE DEF TypeOK, supply
<1>1. ASSUME YieldStatus
      PROVE  status' \in [Slot -> Status] /\ sie' \in BOOLEAN
  BY <1>1, Labels DEF YieldStatus
<1>2. CASE \E p \in Slot : Tick(p)
  <2>1. PICK p \in Slot : Tick(p)
    BY <1>2
  <2>2. ccontext \in Slot
    BY <2>1 DEF Tick, SchedulerState
  <2> QED
    BY <1>1, <2>1, <2>2, SwtchType, Labels DEF Tick, YieldStatus
<1>3. CASE TickInDispatch
  <2>1. cproc \in Slot
    BY <1>3 DEF TickInDispatch, SchedAt, SchedulerState
  <2>2. CASE ccontext = Null
    <3>1. /\ context' = [context EXCEPT ![cproc] = "lost"] /\ cpu' = "wild"
          /\ UNCHANGED <<cproc, ccontext, spc, sp>>
      BY <1>3, <2>2 DEF TickInDispatch
    <3>2. context' \in [Slot -> Contexts] /\ cpu' \in CpuState
      BY <3>1, <2>1, Labels
    <3>3. YieldStatus
      BY <1>3 DEF TickInDispatch
    <3>4. UNCHANGED <<pid, parent, chan, xstate, trapframe, kstack, freelist, nextpid,
                      pc, slot, havekids, reg, forks>>
      BY <3>3 DEF YieldStatus
    <3> QED
      BY <1>1, <3>1, <3>2, <3>3, <3>4
  <2>3. CASE ccontext # Null
    BY <1>1, <1>3, <2>1, <2>3, SwtchType, Labels DEF TickInDispatch, YieldStatus
  <2> QED
    BY <2>2, <2>3
<1>4. CASE TickInSpin
  <2>1. cproc \in Slot /\ ccontext \in Slot
    BY <1>4 DEF TickInSpin, SchedulerState
  <2> QED
    BY <1>1, <1>4, <2>1, SwtchType, Labels DEF TickInSpin, YieldStatus
<1> QED
  BY <1>2, <1>3, <1>4 DEF Timer

LEMMA NextType ==
  ASSUME TypeOK, SchedulerState, SlotAtHand, [Next]_vars
  PROVE  TypeOK'
<1>1. CASE \E p \in Slot : Fork(p) \/ Exit(p) \/ Wait(p)
  BY <1>1, ForkType, ExitType, WaitType
<1>2. CASE Halted \/ UNCHANGED vars
  BY <1>2 DEF Halted, vars, entry, hart, supply, TypeOK
<1> QED
  BY <1>1, <1>2, SchedulerType, TimerType DEF Next

-----------------------------------------------------------------------------
(* The scheduler's state and the slot at hand                              *)

\* A process step leaves the scheduler's statement alone, or switches to it.
LEMMA ProcessStep ==
  ASSUME TypeOK, SchedulerState, NEW p \in Slot, Fork(p) \/ Exit(p) \/ Wait(p)
  PROVE  /\ cpu = "proc" /\ cproc = p /\ UNCHANGED <<cproc, ccontext>>
         /\ \/ cpu' \in {"proc", "panic"} /\ UNCHANGED <<spc, sp>>
            \/ SwtchToScheduler(p, "call") /\ pc[p] \in {"sleep_swtch", "exit_swtch"}
<1> USE DEF At, UserTrapRet, hart
<1>1. CASE Fork(p)
  BY <1>1 DEF Fork, ForkCall, AllocScan, AllocFull, AllocPid, AllocPidStore,
     AllocTrapframe, AllocNoTrapframe, AllocMark, AllocInit, ForkKstack,
     ForkNoKstack, ForkCopy, ForkReady, ForkReturn
<1>2. CASE Exit(p)
  BY <1>2 DEF Exit, ExitCall, ExitReparent, ExitWakeupCall, Wakeup,
     WakeupStore, WakeupReturn, ExitZombie, ExitSwtch,
     SwtchToScheduler
<1>3. CASE Wait(p)
  BY <1>3 DEF Wait, WaitCall, WaitScan, WaitNoKids, WaitSleep, ReapFree,
     ReapClear, ReapTrapframe, ReapKstack, SleepChan, SleepStatus, SleepSwtch,
     SleepReturn, SwtchToScheduler
<1> QED
  BY <1>1, <1>2, <1>3

LEMMA SchedulerStateStep ==
  ASSUME TypeOK, SchedulerState, [Next]_vars
  PROVE  SchedulerState'
<1> USE DEF SchedulerState
<1>1. ASSUME NEW p \in Slot, Fork(p) \/ Exit(p) \/ Wait(p)
      PROVE  SchedulerState'
  BY <1>1, ProcessStep DEF SwtchToScheduler
<1>2. CASE Scheduler
  <2> USE Slots DEF SchedAt
  <2>1. CASE SchedIntrOn
    BY <2>1 DEF SchedIntrOn
  <2>2. CASE SchedScan
    BY <2>2 DEF SchedScan, TypeOK
  <2>3. CASE SchedWrap
    BY <2>3 DEF SchedWrap
  <2>4. CASE SchedSetProc
    BY <2>4 DEF SchedSetProc
  <2>5. CASE SchedSave \/ SchedLoad
    BY <2>5 DEF SchedSave, SchedLoad
  <2>6. CASE SchedBack
    BY <2>6 DEF SchedBack
  <2> QED
    BY <1>2, <2>1, <2>2, <2>3, <2>4, <2>5, <2>6 DEF Scheduler
<1>3. CASE Timer
  BY <1>3 DEF Timer, Tick, TickInDispatch, TickInSpin, YieldStatus,
     SwtchToScheduler, SchedAt, TypeOK
<1>4. CASE Halted \/ UNCHANGED vars
  BY <1>4 DEF Halted, vars, hart
<1> QED
  BY <1>1, <1>2, <1>3, <1>4 DEF Next

\* A process step moves that process only, and leaves it a slot to hold.
LEMMA LocalStep ==
  ASSUME TypeOK, SlotAtHand, NEW p \in Slot, Fork(p) \/ Exit(p) \/ Wait(p)
  PROVE  /\ \A q \in Slot \ {p} : pc'[q] = pc[q] /\ slot'[q] = slot[q]
         /\ pc'[p] \in Holding => slot'[p] \in Slot
<1>1. \A q \in Slot \ {p} : pc'[q] = pc[q] /\ slot'[q] = slot[q]
  <2> USE DEF TypeOK, Goto, First, Advance, UserTrapRet
  <2>1. CASE Fork(p)
    BY <2>1 DEF Fork, ForkCall, AllocScan, AllocFull, AllocPid, AllocPidStore,
       AllocTrapframe, AllocNoTrapframe, AllocMark, AllocInit, ForkKstack,
       ForkNoKstack, ForkCopy, ForkReady, ForkReturn
  <2>2. CASE Exit(p)
    BY <2>2 DEF Exit, ExitCall, ExitReparent, ExitWakeupCall, Wakeup, WakeupStore,
       WakeupReturn, ExitZombie, ExitSwtch
  <2>3. CASE Wait(p)
    BY <2>3 DEF Wait, WaitCall, WaitScan, WaitNoKids, WaitSleep, ReapFree, ReapClear,
       ReapTrapframe, ReapKstack, SleepChan, SleepStatus, SleepSwtch,
       SleepReturn
  <2> QED
    BY <2>1, <2>2, <2>3
<1>2. pc'[p] \in Holding => slot'[p] \in Slot
  <2>1. pc[p] \in ProcPc /\ pc \in [Slot -> ProcPc] /\ slot \in [Slot -> Pointer]
    BY DEF TypeOK
  <2>2. pc[p] \in Holding => slot[p] \in Slot
    BY DEF SlotAtHand
  <2>3. InTable(p) => slot[p] \in Slot
    BY LocalFacts
  <2>4. CASE Fork(p)
    BY <2>1, <2>2, <2>3, <2>4 DEF At, Goto, First, Advance, UserTrapRet,
       Holding, Fork, ForkCall, AllocScan, AllocFull, AllocPid, AllocPidStore,
       AllocTrapframe, AllocNoTrapframe, AllocMark, AllocInit, ForkKstack,
       ForkNoKstack, ForkCopy, ForkReady, ForkReturn
  <2>5. CASE Exit(p)
    BY <2>1, <2>2, <2>3, <2>5 DEF At, Goto, First, Advance, UserTrapRet,
       Holding, Exit, ExitCall, ExitReparent, ExitWakeupCall, Wakeup, WakeupStore,
       WakeupReturn, ExitZombie, ExitSwtch
  <2>6. CASE Wait(p)
    BY <2>1, <2>2, <2>3, <2>6 DEF At, Goto, First, Advance, UserTrapRet,
       Holding, Wait, WaitCall, WaitScan, WaitNoKids, WaitSleep, ReapFree,
       ReapClear, ReapTrapframe, ReapKstack, SleepChan, SleepStatus,
       SleepSwtch, SleepReturn
  <2> QED
    BY <2>4, <2>5, <2>6
<1> QED
  BY <1>1, <1>2

LEMMA SlotAtHandStep ==
  ASSUME TypeOK, SlotAtHand, [Next]_vars
  PROVE  SlotAtHand'
<1>1. ASSUME NEW p \in Slot, Fork(p) \/ Exit(p) \/ Wait(p)
      PROVE  SlotAtHand'
  BY <1>1, LocalStep DEF SlotAtHand
<1>2. CASE SchedLoad
  <2> SUFFICES ASSUME NEW q \in Slot, pc'[q] \in Holding
               PROVE  slot'[q] \in Slot
    BY DEF SlotAtHand
  <2>1. \/ pc' = [pc EXCEPT ![sp] = "user"] /\ slot' = [slot EXCEPT ![sp] = 0]
        \/ pc' = pc /\ slot' = slot
    BY <1>2 DEF SchedLoad
  <2>2. "user" \notin Holding
    BY DEF Holding
  <2>3. pc \in [Slot -> ProcPc] /\ slot \in [Slot -> Pointer]
    BY DEF TypeOK
  <2>4. pc'[q] = pc[q] /\ slot'[q] = slot[q]
    BY ONLY <2>1, <2>2, <2>3, q \in Slot, pc'[q] \in Holding
  <2>5. pc[q] \in Holding => slot[q] \in Slot
    BY DEF SlotAtHand
  <2> QED
    BY ONLY <2>4, <2>5, pc'[q] \in Holding
<1>3. CASE (Scheduler /\ ~SchedLoad) \/ Timer \/ Halted \/ UNCHANGED vars
  <2>1. UNCHANGED <<pc, slot>>
    BY <1>3 DEF Scheduler, SchedIntrOn, SchedScan, SchedWrap, SchedSetProc,
       SchedSave, SchedBack, Timer, Tick, TickInDispatch, TickInSpin, YieldStatus, Halted,
       vars
  <2> QED
    BY <2>1 DEF SlotAtHand
<1> QED
  BY <1>1, <1>2, <1>3 DEF Next

-----------------------------------------------------------------------------
(* One RUNNING process                                                     *)

\* Only the scheduler's store makes a process RUNNING.
LEMMA StatusStep ==
  ASSUME TypeOK, NEW p \in Slot, Fork(p) \/ Exit(p) \/ Wait(p),
         NEW q \in Slot, status'[q] = "RUNNING"
  PROVE  status[q] = "RUNNING"
<1> USE DEF TypeOK, entry
<1>1. CASE Fork(p)
  BY <1>1 DEF Fork, ForkCall, AllocScan, AllocFull, AllocPid, AllocPidStore,
     AllocTrapframe, AllocNoTrapframe, AllocMark, AllocInit, ForkKstack,
     ForkNoKstack, ForkCopy, ForkReady, ForkReturn
<1>2. CASE Exit(p)
  BY <1>2 DEF Exit, ExitCall, ExitReparent, ExitWakeupCall, Wakeup, WakeupStore,
     WakeupReturn, ExitZombie, ExitSwtch
<1>3. CASE Wait(p)
  BY <1>3 DEF Wait, WaitCall, WaitScan, WaitNoKids, WaitSleep, ReapFree, ReapClear,
     ReapTrapframe, ReapKstack, SleepChan, SleepStatus, SleepSwtch,
     SleepReturn
<1> QED
  BY <1>1, <1>2, <1>3

\* A process gets to its swtch by the store of SLEEPING or ZOMBIE, on the hart.
LEMMA BeforeSwtch ==
  ASSUME TypeOK, NEW p \in Slot, Fork(p) \/ Exit(p) \/ Wait(p),
         pc'[p] \in {"sleep_swtch", "exit_swtch"}
  PROVE  SleepStatus(p) \/ ExitZombie(p)
<1> USE DEF TypeOK, At, Goto, UserTrapRet
<1>1. CASE Fork(p)
  BY <1>1 DEF Fork, ForkCall, AllocScan, AllocFull, AllocPid, AllocPidStore,
     AllocTrapframe, AllocNoTrapframe, AllocMark, AllocInit, ForkKstack,
     ForkNoKstack, ForkCopy, ForkReady, ForkReturn
<1>2. CASE Exit(p)
  BY <1>2 DEF Exit, ExitCall, ExitReparent, ExitWakeupCall, Wakeup, WakeupStore,
     WakeupReturn, ExitZombie, ExitSwtch
<1>3. CASE Wait(p)
  BY <1>3 DEF Wait, WaitCall, WaitScan, WaitNoKids, WaitSleep, ReapFree, ReapClear,
     ReapTrapframe, ReapKstack, SleepChan, SleepStatus, SleepSwtch,
     SleepReturn
<1> QED
  BY <1>1, <1>2, <1>3

LEMMA SwtchKeepsHartStep ==
  ASSUME TypeOK, SlotAtHand, SchedulerState, SwtchKeepsHart, [Next]_vars
  PROVE  SwtchKeepsHart'
<1>1. ASSUME NEW p \in Slot, Fork(p) \/ Exit(p) \/ Wait(p)
      PROVE  SwtchKeepsHart'
  <2> SUFFICES ASSUME NEW q \in Slot, pc'[q] \in {"sleep_swtch", "exit_swtch"}
               PROVE  (cpu = "proc" /\ cproc = q /\ status[q] # "RUNNING")'
    BY DEF SwtchKeepsHart
  <2>1. cpu = "proc" /\ cproc = p
    BY <1>1, ProcessStep
  <2>2. q = p
    BY <1>1, <2>1, LocalStep DEF SwtchKeepsHart
  <2>3. SleepStatus(p) \/ ExitZombie(p)
    BY <1>1, <2>2, BeforeSwtch
  <2> QED
    BY <2>1, <2>2, <2>3 DEF SleepStatus, ExitZombie, hart, TypeOK
<1>2. CASE Scheduler
  <2>1. cpu = "sched"
    BY <1>2 DEF Scheduler, SchedIntrOn, SchedScan, SchedWrap, SchedSetProc,
       SchedSave, SchedLoad, SchedBack, SchedAt
  <2>2. \A q \in Slot : pc'[q] \in {"sleep_swtch", "exit_swtch"} => pc'[q] = pc[q]
    BY <1>2 DEF Scheduler, SchedIntrOn, SchedScan, SchedWrap, SchedSetProc,
       SchedSave, SchedLoad, SchedBack, TypeOK
  <2> QED
    BY <2>1, <2>2 DEF SwtchKeepsHart
<1>3. CASE Timer
  <2>1. UNCHANGED pc /\ status[cproc] = "RUNNING"
    BY <1>3 DEF Timer, Tick, TickInDispatch, TickInSpin, YieldStatus, Yields
  <2> QED
    BY <2>1 DEF SwtchKeepsHart
<1>4. CASE Halted \/ UNCHANGED vars
  BY <1>4 DEF Halted, vars, hart, entry, SwtchKeepsHart
<1> QED
  BY <1>1, <1>2, <1>3, <1>4 DEF Next

LEMMA OneRunningStep ==
  ASSUME TypeOK, SchedulerState, SwtchKeepsHart, OneRunning, [Next]_vars
  PROVE  OneRunning'
<1>1. ASSUME NEW p \in Slot, Fork(p) \/ Exit(p) \/ Wait(p)
      PROVE  OneRunning'
  <2> SUFFICES ASSUME NEW q \in Slot, status'[q] = "RUNNING"
               PROVE  cproc' = q /\ cpu' # "sched"
    BY DEF OneRunning
  <2>1. status[q] = "RUNNING"
    BY <1>1, StatusStep
  <2>2. cproc' = q /\ q = p
    BY <1>1, <2>1, ProcessStep DEF OneRunning, SchedAt
  <2>3. pc[p] \notin {"sleep_swtch", "exit_swtch"}
    BY <2>1, <2>2 DEF SwtchKeepsHart
  <2> QED
    BY <1>1, <2>2, <2>3, ProcessStep
<1>2. CASE Scheduler
  <2> USE Slots DEF OneRunning, SchedulerState, SchedAt, TypeOK
  <2>1. CASE SchedIntrOn \/ SchedWrap
    BY <2>1 DEF SchedIntrOn, SchedWrap, entry
  <2>2. CASE SchedScan
    BY <2>2 DEF SchedScan
  <2>3. CASE SchedSetProc
    BY <2>3 DEF SchedSetProc, entry
  <2>4. CASE SchedSave \/ SchedLoad
    BY <2>4 DEF SchedSave, SchedLoad, entry
  <2>5. CASE SchedBack
    BY <2>5 DEF SchedBack, entry
  <2> QED
    BY <1>2, <2>1, <2>2, <2>3, <2>4, <2>5 DEF Scheduler
<1>3. CASE Timer
  <2>1. cproc # Null /\ status' = [status EXCEPT ![cproc] = "READY"]
    BY <1>3 DEF Timer, Tick, TickInDispatch, TickInSpin, YieldStatus, Yields
  <2>2. \A q \in Slot : status[q] = "RUNNING" => q = cproc
    BY <2>1 DEF OneRunning
  <2> QED
    BY <2>1, <2>2 DEF OneRunning, TypeOK
<1>4. CASE Halted \/ UNCHANGED vars
  BY <1>4 DEF Halted, vars, hart, entry, OneRunning, SchedAt
<1> QED
  BY <1>1, <1>2, <1>3, <1>4 DEF Next

-----------------------------------------------------------------------------
(* Pages: each is on the free list once, or in one field of one slot       *)

LEMMA PagesStep ==
  ASSUME TypeOK, SlotAtHand, PagesDisjoint, [Next]_vars
  PROVE  PagesDisjoint'
<1> USE DEF PagesDisjoint
<1>1. CASE UNCHANGED <<trapframe, kstack, freelist>>
  BY <1>1
<1>2. ASSUME NEW p \in Slot, AllocTrapframe(p) \/ ForkKstack(p)
      PROVE  PagesDisjoint'
  <2> DEFINE s == slot[p]
             page == Head(freelist)
  <2>1. freelist \in Seq(Page) /\ freelist # <<>>
    BY <1>2 DEF TypeOK, AllocTrapframe, ForkKstack
  <2>2. /\ page = freelist[1] /\ 1 \in DOMAIN freelist /\ page # NoPage
        /\ \A i \in DOMAIN Tail(freelist) :
             i + 1 \in DOMAIN freelist /\ i + 1 # 1 /\ Tail(freelist)[i] = freelist[i + 1]
    <3>1. DOMAIN freelist = 1 .. Len(freelist) /\ Len(freelist) \in Nat \ {0}
      BY ONLY <2>1
    <3>2. page = freelist[1] /\ page \in Page
      BY ONLY <2>1
    <3>3. DOMAIN Tail(freelist) = 1 .. Len(freelist) - 1
          /\ \A i \in 1 .. Len(freelist) - 1 : Tail(freelist)[i] = freelist[i + 1]
      BY ONLY <2>1
    <3>4. page # NoPage
      BY ONLY <3>2, ProcAssumption DEF ProcAssumption, Page, NoPage
    <3> QED
      BY ONLY <3>1, <3>2, <3>3, <3>4
  <2>3. CASE AllocTrapframe(p)
    <3>1. freelist' = Tail(freelist) /\ trapframe' = [trapframe EXCEPT ![s] = page]
          /\ kstack' = kstack
      BY <2>3 DEF AllocTrapframe
    <3>2. /\ trapframe'[s] = page \/ s \notin Slot
          /\ \A q \in Slot \ {s} : trapframe'[q] = trapframe[q]
      BY <3>1 DEF TypeOK
    <3>3. \A q \in Slot : page # trapframe[q] /\ page # kstack[q]
      BY <2>2
    <3>4. \A i \in DOMAIN Tail(freelist) : Tail(freelist)[i] # page
      BY <2>2
    <3>5. \A q, o \in Slot :
            /\ trapframe'[q] # NoPage =>
                 trapframe'[q] # kstack'[o] /\ (q # o => trapframe'[q] # trapframe'[o])
            /\ kstack'[q] # NoPage /\ q # o => kstack'[q] # kstack'[o]
      BY <2>2, <3>1, <3>2, <3>3
    <3>6. \A q \in Slot : \A i \in DOMAIN freelist' :
            freelist'[i] # trapframe'[q] /\ freelist'[i] # kstack'[q]
      BY <2>2, <3>1, <3>2, <3>4
    <3>7. \A i, j \in DOMAIN freelist' : i # j => freelist'[i] # freelist'[j]
      <4>1. \A i, j \in DOMAIN Tail(freelist) :
              i # j => i + 1 # j + 1 /\ i + 1 \in DOMAIN freelist /\ j + 1 \in DOMAIN freelist
        BY ONLY <2>1
      <4> QED
        BY <4>1, <2>2, <3>1
    <3> QED
      BY ONLY <3>5, <3>6, <3>7 DEF PagesDisjoint
  <2>4. CASE ForkKstack(p)
    <3>1. freelist' = Tail(freelist) /\ kstack' = [kstack EXCEPT ![s] = page]
          /\ trapframe' = trapframe
      BY <2>4 DEF ForkKstack
    <3>2. /\ kstack'[s] = page \/ s \notin Slot
          /\ \A q \in Slot \ {s} : kstack'[q] = kstack[q]
      BY <3>1 DEF TypeOK
    <3>3. \A q \in Slot : page # kstack[q] /\ page # trapframe[q]
      BY <2>2
    <3>4. \A i \in DOMAIN Tail(freelist) : Tail(freelist)[i] # page
      BY <2>2
    <3>5. \A q, o \in Slot :
            /\ trapframe'[q] # NoPage =>
                 trapframe'[q] # kstack'[o] /\ (q # o => trapframe'[q] # trapframe'[o])
            /\ kstack'[q] # NoPage /\ q # o => kstack'[q] # kstack'[o]
      BY <2>2, <3>1, <3>2, <3>3
    <3>6. \A q \in Slot : \A i \in DOMAIN freelist' :
            freelist'[i] # trapframe'[q] /\ freelist'[i] # kstack'[q]
      BY <2>2, <3>1, <3>2, <3>4
    <3>7. \A i, j \in DOMAIN freelist' : i # j => freelist'[i] # freelist'[j]
      <4>1. \A i, j \in DOMAIN Tail(freelist) :
              i # j => i + 1 # j + 1 /\ i + 1 \in DOMAIN freelist /\ j + 1 \in DOMAIN freelist
        BY ONLY <2>1
      <4> QED
        BY <4>1, <2>2, <3>1
    <3> QED
      BY ONLY <3>5, <3>6, <3>7 DEF PagesDisjoint
  <2> QED
    BY <1>2, <2>3, <2>4
<1>3. ASSUME NEW p \in Slot, ReapTrapframe(p) \/ ReapKstack(p)
      PROVE  PagesDisjoint'
  <2> DEFINE s == slot[p]
  <2>1. freelist \in Seq(Page) /\ s \in Slot
    BY <1>3 DEF TypeOK, ReapTrapframe, ReapKstack, At, SlotAtHand, Holding
  <2>2. ASSUME NEW page \in Page
        PROVE  LET l == <<page>> \o freelist
               IN  \A i \in DOMAIN l :
                     \/ i = 1 /\ l[i] = page
                     \/ i # 1 /\ i - 1 \in DOMAIN freelist /\ l[i] = freelist[i - 1]
    BY <2>1
  <2>3. CASE ReapTrapframe(p)
    <3>1. freelist' = Kfree(trapframe[s]) /\ kstack' = kstack
          /\ trapframe' = [trapframe EXCEPT ![s] = NoPage]
      BY <2>3 DEF ReapTrapframe
    <3>2. CASE trapframe[s] = NoPage
      BY <2>1, <3>1, <3>2 DEF Kfree, TypeOK, NoPage
    <3>3. CASE trapframe[s] # NoPage
      <4>1. trapframe[s] \in Page /\ trapframe \in [Slot -> Page \cup {NoPage}]
        BY <2>1, <3>3 DEF TypeOK
      <4>2. freelist' = <<trapframe[s]>> \o freelist
        BY <3>1, <3>3 DEF Kfree
      <4>3. \A i \in DOMAIN freelist' :
              \/ i = 1 /\ freelist'[i] = trapframe[s]
              \/ i # 1 /\ i - 1 \in DOMAIN freelist /\ freelist'[i] = freelist[i - 1]
        BY <2>2, <4>1, <4>2
      <4>4. \A i, j \in DOMAIN freelist' : i # j => freelist'[i] # freelist'[j]
        <5>1. \A i \in DOMAIN freelist' : i \in Int
          BY <2>1, <4>1, <4>2
        <5> QED
          BY <2>1, <3>3, <4>3, <5>1
      <4>5. \A q \in Slot : \A i \in DOMAIN freelist' :
              freelist'[i] # trapframe'[q] /\ freelist'[i] # kstack'[q]
        <5> TAKE q \in Slot
        <5> TAKE i \in DOMAIN freelist'
        <5>1. kstack'[q] = kstack[q] /\ trapframe'[q] = IF q = s THEN NoPage ELSE trapframe[q]
          BY <2>1, <3>1, <4>1
        <5>2. trapframe[s] # kstack[q] /\ (q # s => trapframe[s] # trapframe[q])
          BY <2>1, <3>3
        <5>3. CASE i = 1
          BY <3>3, <4>3, <5>1, <5>2, <5>3
        <5>4. CASE i # 1
          <6>1. i - 1 \in DOMAIN freelist /\ freelist'[i] = freelist[i - 1]
            BY <4>3, <5>4
          <6>2. freelist[i - 1] # trapframe[q] /\ freelist[i - 1] # kstack[q]
            BY <6>1
          <6>3. freelist[i - 1] # NoPage
            BY <2>1, <6>1, ProcAssumption DEF Page, NoPage, ProcAssumption
          <6> QED
            BY <5>1, <6>1, <6>2, <6>3
        <5> QED
          BY <5>3, <5>4
      <4> QED
        BY <2>1, <3>1, <4>1, <4>4, <4>5
    <3> QED
      BY <3>2, <3>3
  <2>4. CASE ReapKstack(p)
    <3>1. freelist' = Kfree(kstack[s]) /\ trapframe' = trapframe
          /\ kstack' = [kstack EXCEPT ![s] = NoPage]
      BY <2>4 DEF ReapKstack
    <3>2. CASE kstack[s] = NoPage
      BY <2>1, <3>1, <3>2 DEF Kfree, TypeOK, NoPage
    <3>3. CASE kstack[s] # NoPage
      <4>1. kstack[s] \in Page /\ kstack \in [Slot -> Page \cup {NoPage}]
        BY <2>1, <3>3 DEF TypeOK
      <4>2. freelist' = <<kstack[s]>> \o freelist
        BY <3>1, <3>3 DEF Kfree
      <4>3. \A i \in DOMAIN freelist' :
              \/ i = 1 /\ freelist'[i] = kstack[s]
              \/ i # 1 /\ i - 1 \in DOMAIN freelist /\ freelist'[i] = freelist[i - 1]
        BY <2>2, <4>1, <4>2
      <4>4. \A i, j \in DOMAIN freelist' : i # j => freelist'[i] # freelist'[j]
        <5>1. \A i \in DOMAIN freelist' : i \in Int
          BY <2>1, <4>1, <4>2
        <5> QED
          BY <2>1, <3>3, <4>3, <5>1
      <4>5. \A q \in Slot : \A i \in DOMAIN freelist' :
              freelist'[i] # trapframe'[q] /\ freelist'[i] # kstack'[q]
        <5> TAKE q \in Slot
        <5> TAKE i \in DOMAIN freelist'
        <5>1. trapframe'[q] = trapframe[q] /\ kstack'[q] = IF q = s THEN NoPage ELSE kstack[q]
          BY <2>1, <3>1, <4>1
        <5>2. kstack[s] # trapframe[q] /\ (q # s => kstack[s] # kstack[q])
          BY <2>1, <3>3
        <5>3. CASE i = 1
          BY <3>3, <4>3, <5>1, <5>2, <5>3
        <5>4. CASE i # 1
          <6>1. i - 1 \in DOMAIN freelist /\ freelist'[i] = freelist[i - 1]
            BY <4>3, <5>4
          <6>2. freelist[i - 1] # trapframe[q] /\ freelist[i - 1] # kstack[q]
            BY <6>1
          <6>3. freelist[i - 1] # NoPage
            BY <2>1, <6>1, ProcAssumption DEF Page, NoPage, ProcAssumption
          <6> QED
            BY <5>1, <6>1, <6>2, <6>3
        <5> QED
          BY <5>3, <5>4
      <4> QED
        BY <2>1, <3>1, <4>1, <4>4, <4>5
    <3> QED
      BY <3>2, <3>3
  <2> QED
    BY <1>3, <2>3, <2>4
<1>4. ASSUME NEW p \in Slot, AllocNoTrapframe(p) \/ ForkNoKstack(p)
      PROVE  PagesDisjoint'
  <2>1. CASE AllocNoTrapframe(p)
    BY <2>1 DEF AllocNoTrapframe, supply, TypeOK
  <2>2. CASE ForkNoKstack(p)
    BY <2>2 DEF ForkNoKstack, supply, TypeOK
  <2> QED
    BY <1>4, <2>1, <2>2
<1>5. ASSUME NEW p \in Slot, Fork(p) \/ Exit(p) \/ Wait(p)
      PROVE  PagesDisjoint'
  BY <1>1, <1>2, <1>3, <1>4, <1>5 DEF entry, supply, Fork, ForkCall, AllocScan,
     AllocFull, AllocPid, AllocPidStore, AllocMark, AllocInit, ForkCopy,
     ForkReady, ForkReturn, Exit, ExitCall, ExitReparent, ExitWakeupCall,
     Wakeup, WakeupStore, WakeupReturn, ExitZombie, ExitSwtch,
     Wait, WaitCall, WaitScan, WaitNoKids, WaitSleep, ReapFree, ReapClear,
     SleepChan, SleepStatus, SleepSwtch, SleepReturn
<1>6. CASE Scheduler \/ Timer \/ Halted \/ UNCHANGED vars
  BY <1>1, <1>6 DEF Scheduler, SchedIntrOn, SchedScan, SchedWrap, SchedSetProc,
     SchedSave, SchedLoad, SchedBack, Timer, Tick, TickInDispatch, TickInSpin,
     YieldStatus, Halted, vars, entry, supply
<1> QED
  BY <1>5, <1>6 DEF Next

-----------------------------------------------------------------------------

LEMMA InitIInv == Init => IInv
<1> SUFFICES ASSUME Init PROVE IInv
  OBVIOUS
<1>1. TypeOK
  BY TypeInit
<1>2. SchedulerState /\ SlotAtHand /\ SwtchKeepsHart /\ OneRunning
  BY Slots DEF Init, SchedulerState, SlotAtHand, Holding, SwtchKeepsHart,
     OneRunning
<1> QED
  BY <1>1, <1>2 DEF IInv

LEMMA NextIInv == IInv /\ [Next]_vars => IInv'
  BY NextType, SchedulerStateStep, SlotAtHandStep, SwtchKeepsHartStep,
     OneRunningStep DEF IInv

THEOREM Invariance == Spec => []IInv
  BY InitIInv, NextIInv, PTL DEF Spec

\* Every variable keeps its type, whatever the size of the table, the pages and
\* the workload: no loop pointer leaves proc[], no statement indexes past it.
THEOREM TypeCorrect == Spec => []TypeOK
  BY Invariance, PTL DEF IInv

\* One process at most is RUNNING and c->proc names it, so that the tick's
\* yield() stores READY in the slot of the process that really runs.
THEOREM OneRunningAlways == Spec => []OneRunning
  BY Invariance, PTL DEF IInv

\* No process loses the hart between its store of SLEEPING or ZOMBIE and its
\* swtch: neither wakeup nor wait meets a process half way out.
THEOREM SwtchKeepsHartAlways == Spec => []SwtchKeepsHart
  BY Invariance, PTL DEF IInv

\* Whatever the interleaving of fork, exit and wait, even two forks at work on
\* one slot, no page is in two fields or in a field and on the free list: every
\* page kalloc hands out is one nobody else was given.
THEOREM PagesDisjointAlways == Spec => []PagesDisjoint
<1>1. Init => PagesDisjoint
  BY ProcAssumption DEF Init, PagesDisjoint, NoPage, Init0
<1>2. IInv /\ PagesDisjoint /\ [Next]_vars => PagesDisjoint'
  BY PagesStep DEF IInv
<1> QED
  BY <1>1, <1>2, Invariance, PTL DEF Spec
=============================================================================
