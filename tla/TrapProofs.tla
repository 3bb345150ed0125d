----------------------------- MODULE TrapProofs -----------------------------
(***************************************************************************)
(* The safety properties of Trap, for any number of processes, any depth   *)
(* of nested traps and any number of bytes in the UART.                    *)
(*                                                                         *)
(* A thread that does not hold the hart waits either in the code it runs   *)
(* with no trap pending on its stack or inside a handler whose locals are  *)
(* saved; the hart takes an interrupt only at such a place too.  IInv says *)
(* so, and what the CSRs are at the places where SIE is clear.             *)
(***************************************************************************)
EXTENDS Trap, SequenceTheorems, TLAPS

\* Where t can be switched out or interrupted, under d frames.
Base(t) == IF t = Scheduler THEN {"intr_on", "scan"} ELSE {"syscall", "usertrapret"}
Resumable(t, place, d) ==
  \/ d = 0 /\ place \in Base(t)
  \/ d > 0 /\ place \in {"w_sepc", "w_sstatus"}

\* A frame whose handler has read its locals.
SavedFrame == [was : Position, sepc : Position, spp : {"S"}, spie : {TRUE}]

TopSaved(t) == Len(frames[t]) > 0 => frames[t][Len(frames[t])] \in SavedFrame
Waiting(t) == Resumable(t, loc[t], Len(frames[t])) /\ TopSaved(t)

\* Every frame remembers a resumable place, and those below the top are saved.
StackInv ==
  \A t \in Threads :
    /\ Len(frames[t]) <= MaxDepth
    /\ \A i \in 1 .. Len(frames[t]) :
         /\ Resumable(t, frames[t][i].was.at, i - 1)
         /\ i < Len(frames[t]) => frames[t][i] \in SavedFrame

AwayInv ==
  /\ \A t \in Threads \ {cur} : Waiting(t)
  /\ cur # Scheduler => loc[Scheduler] = "scan"

TaskInv ==
  /\ cproc = cur
  /\ cur \in Procs => status[cur] = "RUNNING"

\* In user mode and before the entry code has run.
UserSide == mode = "U" \/ At("user_trap_entry")

UserSideInv ==
  UserSide => /\ cur \in Procs /\ Len(frames[cur]) = 0
              /\ stvec = "user_trap_entry" /\ sscratch = cur
              /\ mode = "S" => ~sie

InHandler == At("sys_trap_vector") \/ At("sret")

HandlerInv ==
  InHandler => /\ Len(frames[cur]) > 0
               /\ ~sie /\ spp = "S" /\ spie
               /\ At("sret") => TopSaved(cur)

KernelInv ==
  mode = "S" /\ loc[cur] # "user_trap_entry" =>
    /\ stvec = "sys_trap_vector"
    /\ InHandler \/ Waiting(cur)

PcInv ==
  /\ \A p \in Procs : ~(p = cur /\ UserSide) => epc[p] = due[p]
  /\ mode = "U" => ureg = cur /\ upc = due[cur]
  /\ At("user_trap_entry") =>
       /\ sepc.at \in UserPc
       /\ due[cur] = IF scause = "ecall" THEN NextInsn(sepc.at) ELSE sepc.at

\* The byte an external interrupt was taken for is still there.
RxInv ==
  (At("user_trap_entry") \/ At("sys_trap_vector")) /\ scause = "external" => rx > 0

IInv ==
  /\ TypeOK /\ StackInv /\ AwayInv /\ TaskInv
  /\ UserSideInv /\ HandlerInv /\ KernelInv /\ PcInv /\ RxInv

\* The vocabulary of the invariant is expanded everywhere.
USE TrapAssumption
USE DEF Threads, None, At, UserSide, InHandler, Waiting, TopSaved, Resumable, Base,
        csrs, requests, tasks, user

LEMMA InitInv == Init => IInv
<1> SUFFICES ASSUME Init PROVE IInv
  OBVIOUS
<1>1. TypeOK
  <2>1. sepc \in Position
    BY DEF Init, Position, Labels
  <2>2. /\ status \in [Procs -> {"READY", "RUNNING", "SLEEPING"}]
        /\ loc \in [Threads -> Labels]
        /\ epc \in [Procs -> UserPc] /\ due \in [Procs -> UserPc]
    BY DEF Init, Labels, UserPc
  <2>3. <<>> \in Seq(Frame)
    OBVIOUS
  <2>4. frames \in [Threads -> Seq(Frame)]
    BY <2>3 DEF Init
  <2>5. /\ cur \in Threads /\ mode \in {"U", "S", "wild"}
        /\ sie \in BOOLEAN /\ spie \in BOOLEAN /\ spp \in {"U", "S"}
        /\ scause \in Causes /\ stvec \in Vectors /\ sscratch \in Procs \cup {None}
        /\ ssip \in BOOLEAN /\ cproc \in Procs \cup {None}
        /\ upc \in UserPc /\ ureg \in Procs \cup {None}
    BY DEF Init, UserPc, Causes, Vectors
  <2>6. rx \in 0 .. MaxRx
    BY DEF Init
  <2> QED
    BY <2>1, <2>2, <2>4, <2>5, <2>6 DEF TypeOK
<1>2. \A t \in Threads : Len(frames[t]) = 0
  BY DEF Init
<1>3. StackInv /\ TaskInv
  BY <1>2 DEF Init, StackInv, TaskInv
<1>4. cur = Scheduler /\ \A p \in Procs : loc[p] = "usertrapret"
  BY DEF Init
<1>5. AwayInv
  BY <1>2, <1>4 DEF AwayInv
<1>6. UserSideInv /\ HandlerInv /\ KernelInv /\ PcInv /\ RxInv
  BY <1>2 DEF Init, UserSideInv, HandlerInv, KernelInv, PcInv, RxInv
<1> QED
  BY <1>1, <1>3, <1>5, <1>6 DEF IInv

\* The place a trap stores in sepc is one.
LEMMA HereType ==
  ASSUME TypeOK, StackInv
  PROVE  Here \in Position
<1>1. cur \in Threads /\ Len(frames[cur]) \in 0 .. MaxDepth
  BY DEF TypeOK, StackInv
<1>2. (IF mode = "U" THEN upc ELSE loc[cur]) \in Labels \cup UserPc
  BY <1>1 DEF TypeOK
<1> QED
  BY <1>1, <1>2 DEF Here, Position

\* What SaveLocals does to the stacks.
LEMMA LocalsSaved ==
  ASSUME IInv, At("sys_trap_vector"), SaveLocals
  PROVE  /\ frames' \in [Threads -> Seq(Frame)]
         /\ \A t \in Threads : Len(frames'[t]) = Len(frames[t])
         /\ \A t \in Threads \ {cur} : frames'[t] = frames[t]
         /\ \A i \in 1 .. Len(frames[cur]) :
              /\ frames'[cur][i].was = frames[cur][i].was
              /\ i < Len(frames[cur]) => frames'[cur][i] = frames[cur][i]
         /\ frames'[cur][Len(frames[cur])] \in SavedFrame
<1> DEFINE n == Len(frames[cur])
           f == [was |-> frames[cur][n].was, sepc |-> sepc, spp |-> spp, spie |-> spie]
<1>1. cur \in Threads /\ frames[cur] \in Seq(Frame) /\ n \in Nat \ {0}
      /\ frames \in [Threads -> Seq(Frame)]
  BY DEF IInv, TypeOK, HandlerInv
<1>2. frames[cur][n] \in Frame /\ frames[cur][n].was \in Position
  BY <1>1 DEF Frame
<1>3. sepc \in Position /\ spp = "S" /\ spie = TRUE
  BY DEF IInv, TypeOK, HandlerInv
<1>4. f \in SavedFrame /\ f \in Frame /\ f.was = frames[cur][n].was
  BY <1>2, <1>3 DEF SavedFrame, Frame
<1>5. frames' = [frames EXCEPT ![cur] = [frames[cur] EXCEPT ![n] = f]]
  BY <1>1 DEF SaveLocals, Top
<1>6. [frames[cur] EXCEPT ![n] = f] \in Seq(Frame)
      /\ Len([frames[cur] EXCEPT ![n] = f]) = n
  <2> HIDE DEF f
  <2> QED BY <1>1, <1>4
<1> HIDE DEF f
<1> QED
  BY <1>1, <1>4, <1>5, <1>6

\* A stack is judged frame by frame: another thread's does not change, the
\* handler's own keeps the frames below the top and where each resumes.
LEMMA StackOf ==
  ASSUME StackInv,
         \A t \in Threads \ {cur} : frames'[t] = frames[t],
         cur \in Threads =>
           /\ Len(frames'[cur]) <= MaxDepth
           /\ \A i \in 1 .. Len(frames'[cur]) :
                /\ Resumable(cur, frames'[cur][i].was.at, i - 1)
                /\ i < Len(frames'[cur]) => frames'[cur][i] \in SavedFrame
  PROVE  StackInv'
<1> SUFFICES ASSUME NEW t \in Threads
             PROVE  /\ Len(frames'[t]) <= MaxDepth
                    /\ \A i \in 1 .. Len(frames'[t]) :
                         /\ Resumable(t, frames'[t][i].was.at, i - 1)
                         /\ i < Len(frames'[t]) => frames'[t][i] \in SavedFrame
  BY DEF StackInv
<1>1. CASE t = cur
  BY <1>1
<1>2. CASE t # cur
  <2>1. frames'[t] = frames[t]
    BY <1>2
  <2>2. /\ Len(frames[t]) <= MaxDepth
        /\ \A i \in 1 .. Len(frames[t]) :
             /\ Resumable(t, frames[t][i].was.at, i - 1)
             /\ i < Len(frames[t]) => frames[t][i] \in SavedFrame
    BY DEF StackInv
  <2> QED
    BY ONLY <2>1, <2>2
<1> QED
  BY <1>1, <1>2

LEMMA SavedStack ==
  ASSUME IInv, At("sys_trap_vector"), SaveLocals
  PROVE  StackInv'
<1>1. /\ \A t \in Threads \ {cur} : frames'[t] = frames[t]
      /\ Len(frames'[cur]) = Len(frames[cur])
      /\ \A i \in 1 .. Len(frames[cur]) :
           /\ frames'[cur][i].was = frames[cur][i].was
           /\ i < Len(frames[cur]) => frames'[cur][i] = frames[cur][i]
  BY LocalsSaved DEF IInv, TypeOK
<1>2. cur \in Threads /\ StackInv
  BY DEF IInv, TypeOK
<1>3. /\ Len(frames[cur]) <= MaxDepth
      /\ \A i \in 1 .. Len(frames[cur]) :
           /\ Resumable(cur, frames[cur][i].was.at, i - 1)
           /\ i < Len(frames[cur]) => frames[cur][i] \in SavedFrame
  BY ONLY <1>2 DEF StackInv
<1>4. /\ Len(frames'[cur]) <= MaxDepth
      /\ \A i \in 1 .. Len(frames'[cur]) :
           /\ Resumable(cur, frames'[cur][i].was.at, i - 1)
           /\ i < Len(frames'[cur]) => frames'[cur][i] \in SavedFrame
  BY ONLY <1>1, <1>3
<1> QED
  BY ONLY <1>1, <1>2, <1>4, StackOf

\* What a trap taken in supervisor mode does to the stacks.
LEMMA FramePushed ==
  ASSUME IInv, Len(frames[cur]) < MaxDepth,
         frames' = [frames EXCEPT ![cur] = Append(@, [was |-> Here])]
  PROVE  /\ frames' \in [Threads -> Seq(Frame)]
         /\ \A t \in Threads \ {cur} : frames'[t] = frames[t]
         /\ Len(frames'[cur]) = Len(frames[cur]) + 1
         /\ Len(frames'[cur]) <= MaxDepth
         /\ \A i \in 1 .. Len(frames[cur]) : frames'[cur][i] = frames[cur][i]
         /\ frames'[cur][Len(frames[cur]) + 1].was.at = Here.at
<1> DEFINE f == [was |-> Here]
<1>1. cur \in Threads /\ frames[cur] \in Seq(Frame) /\ frames \in [Threads -> Seq(Frame)]
  BY DEF IInv, TypeOK
<1>2. f \in Frame /\ f.was = Here
  BY HereType DEF IInv, Frame
<1> HIDE DEF f
<1>3. frames' = [frames EXCEPT ![cur] = Append(frames[cur], f)]
  BY <1>1 DEF f
<1> QED
  BY <1>1, <1>2, <1>3

\* What the return from the handler does to the stacks.
LEMMA FramePopped ==
  ASSUME IInv, Len(frames[cur]) > 0,
         frames' = [frames EXCEPT ![cur] = SubSeq(@, 1, Top - 1)]
  PROVE  /\ frames' \in [Threads -> Seq(Frame)]
         /\ \A t \in Threads \ {cur} : frames'[t] = frames[t]
         /\ Len(frames'[cur]) = Len(frames[cur]) - 1
         /\ \A i \in 1 .. Len(frames[cur]) - 1 : frames'[cur][i] = frames[cur][i]
<1>1. cur \in Threads /\ frames[cur] \in Seq(Frame) /\ frames \in [Threads -> Seq(Frame)]
  BY DEF IInv, TypeOK
<1>2. frames'[cur] = SubSeq(frames[cur], 1, Len(frames[cur]) - 1)
  BY <1>1 DEF Top
<1>3. frames'[cur] \in Seq(Frame)
  <2>1. \A i \in 1 .. Len(frames[cur]) - 1 : frames[cur][i] \in Frame
    BY <1>1
  <2>2. 1 \in Int /\ Len(frames[cur]) - 1 \in Int
    BY <1>1
  <2>3. SubSeq(frames[cur], 1, Len(frames[cur]) - 1) \in Seq(Frame)
    BY <2>1, <2>2, SubSeqProperties, Zenon
  <2> QED
    BY <1>2, <2>3
<1> QED
  BY <1>1, <1>2, <1>3

-----------------------------------------------------------------------------
(* One lemma per action: what it does to each part of the invariant.       *)

LEMMA TimervecInv ==
  ASSUME IInv, Timervec
  PROVE  IInv'
<1>1. TypeOK'
  BY DEF IInv, Timervec, TypeOK
<1>2. StackInv'
  BY DEF IInv, Timervec, StackInv
<1>3. AwayInv' /\ TaskInv'
  BY DEF IInv, Timervec, AwayInv, TaskInv
<1>4. UserSideInv' /\ HandlerInv' /\ KernelInv'
  BY DEF IInv, Timervec, UserSideInv, HandlerInv, KernelInv
<1>5. PcInv'
  BY DEF IInv, Timervec, PcInv
<1>6. RxInv'
  BY DEF IInv, Timervec, RxInv
<1> QED
  BY <1>1, <1>2, <1>3, <1>4, <1>5, <1>6 DEF IInv

LEMMA KeyPressedInv ==
  ASSUME IInv, KeyPressed
  PROVE  IInv'
<1>1. TypeOK'
  BY DEF IInv, KeyPressed, TypeOK
<1>2. StackInv'
  BY DEF IInv, KeyPressed, StackInv
<1>3. AwayInv' /\ TaskInv'
  BY DEF IInv, KeyPressed, AwayInv, TaskInv
<1>4. UserSideInv' /\ HandlerInv' /\ KernelInv'
  BY DEF IInv, KeyPressed, UserSideInv, HandlerInv, KernelInv
<1>5. PcInv'
  BY DEF IInv, KeyPressed, PcInv
<1>6. RxInv'
  BY DEF IInv, KeyPressed, TypeOK, RxInv
<1> QED
  BY <1>1, <1>2, <1>3, <1>4, <1>5, <1>6 DEF IInv

LEMMA InterruptInv ==
  ASSUME IInv, NEW cause \in {"timer", "external"}, Interrupt(cause)
  PROVE  IInv'
<1>1. cur \in Threads /\ frames[cur] \in Seq(Frame) /\ loc \in [Threads -> Labels]
  BY DEF IInv, TypeOK
<1>2. sepc' \in Position
  BY HereType DEF IInv, Interrupt, TakeTrap
<1>3. cause = "external" => rx > 0 /\ rx' > 0
  BY DEF Interrupt, Pending
<1>4. CASE mode = "U"
  <2>1. /\ cur \in Procs /\ stvec = "user_trap_entry" /\ sscratch = cur
        /\ Len(frames[cur]) = 0 /\ upc = due[cur] /\ upc \in UserPc
    BY <1>4 DEF IInv, TypeOK, UserSideInv, PcInv
  <2>2. frames' = frames /\ loc' = [loc EXCEPT ![cur] = "user_trap_entry"]
    BY <2>1 DEF Interrupt, TakeTrap
  <2>3. sepc'.at = upc /\ cur' = cur
    BY <1>4 DEF Interrupt, TakeTrap, Here
  <2>4. /\ mode' = "S" /\ sie' = FALSE /\ spie' = sie /\ spp' = "U" /\ scause' = cause
        /\ UNCHANGED <<stvec, sscratch, requests, tasks, user>>
    BY <1>4 DEF Interrupt, TakeTrap
  <2>5. TypeOK'
    BY <1>2, <2>2, <2>3, <2>4 DEF IInv, TypeOK, Labels, Causes
  <2>6. StackInv' /\ AwayInv' /\ TaskInv'
    BY <1>1, <2>1, <2>2, <2>3, <2>4 DEF IInv, StackInv, AwayInv, TaskInv
  <2>7. UserSideInv' /\ HandlerInv' /\ KernelInv'
    BY <1>1, <2>1, <2>2, <2>3, <2>4 DEF UserSideInv, HandlerInv, KernelInv
  <2>8. PcInv' /\ RxInv'
    BY <1>1, <1>3, <1>4, <2>1, <2>2, <2>3, <2>4 DEF IInv, Interrupt, PcInv, RxInv
  <2> QED
    BY <2>5, <2>6, <2>7, <2>8 DEF IInv
<1>5. CASE mode = "S" /\ sie
  <2>1. stvec = "sys_trap_vector" /\ Waiting(cur) /\ ~UserSide
    BY <1>5 DEF IInv, UserSideInv, HandlerInv, KernelInv
  <2>2. /\ frames' = [frames EXCEPT ![cur] = Append(@, [was |-> Here])]
        /\ loc' = [loc EXCEPT ![cur] = "sys_trap_vector"] /\ cur' = cur
        /\ Len(frames[cur]) < MaxDepth
    BY <2>1 DEF Interrupt, TakeTrap
  <2>3. /\ frames' \in [Threads -> Seq(Frame)]
        /\ \A t \in Threads \ {cur} : frames'[t] = frames[t]
        /\ Len(frames'[cur]) = Len(frames[cur]) + 1
        /\ Len(frames'[cur]) <= MaxDepth
        /\ \A i \in 1 .. Len(frames[cur]) : frames'[cur][i] = frames[cur][i]
        /\ frames'[cur][Len(frames[cur]) + 1].was.at = loc[cur]
    BY <1>5, <2>2, FramePushed DEF Here
  <2>4. /\ mode' = "S" /\ sie' = FALSE /\ spie' = sie /\ spp' = "S" /\ scause' = cause
        /\ UNCHANGED <<stvec, sscratch, requests, tasks, user>>
    BY <1>5 DEF Interrupt, TakeTrap
  <2>5. TypeOK'
    BY <1>2, <2>2, <2>3, <2>4 DEF IInv, TypeOK, Labels, Causes
  <2>6. StackInv'
    <3>1. StackInv /\ cur \in Threads /\ Len(frames[cur]) \in Nat
      BY <1>1 DEF IInv
    <3>2. \A i \in 1 .. Len(frames[cur]) :
            Resumable(cur, frames[cur][i].was.at, i - 1)
      BY ONLY <3>1 DEF StackInv
    <3>3. \A i \in 1 .. Len(frames[cur]) : frames[cur][i] \in SavedFrame
      BY <2>1, <3>1 DEF StackInv
    <3>4. Resumable(cur, loc[cur], Len(frames[cur]))
      BY <2>1
    <3>5. \A i \in 1 .. Len(frames'[cur]) :
            /\ Resumable(cur, frames'[cur][i].was.at, i - 1)
            /\ i < Len(frames'[cur]) => frames'[cur][i] \in SavedFrame
      <4> SUFFICES ASSUME NEW i \in 1 .. Len(frames'[cur])
                   PROVE  /\ Resumable(cur, frames'[cur][i].was.at, i - 1)
                          /\ i < Len(frames'[cur]) => frames'[cur][i] \in SavedFrame
        OBVIOUS
      <4>1. CASE i \in 1 .. Len(frames[cur])
        BY <2>3, <3>2, <3>3, <4>1
      <4>2. CASE i = Len(frames[cur]) + 1
        BY <2>3, <3>1, <3>4, <4>2
      <4> QED
        BY <2>3, <3>1, <4>1, <4>2
    <3> QED
      BY ONLY <2>3, <3>1, <3>5, StackOf
  <2>7. AwayInv' /\ TaskInv'
    BY <2>2, <2>3, <2>4 DEF IInv, AwayInv, TaskInv
  <2>8. UserSideInv' /\ HandlerInv' /\ KernelInv'
    BY <1>1, <1>5, <2>1, <2>2, <2>3, <2>4 DEF UserSideInv, HandlerInv, KernelInv
  <2>9. ~UserSide' /\ loc'[cur'] = "sys_trap_vector"
    BY <1>1, <2>2, <2>4
  <2>10. PcInv'
    BY <1>5, <2>1, <2>4, <2>9 DEF IInv, PcInv
  <2>11. RxInv'
    BY <1>3, <2>4 DEF RxInv
  <2> QED
    BY <2>5, <2>6, <2>7, <2>8, <2>10, <2>11 DEF IInv
<1> QED
  BY <1>4, <1>5 DEF Interrupt

LEMMA UserRunsInv ==
  ASSUME IInv, UserRuns
  PROVE  IInv'
<1>1. TypeOK'
  BY DEF IInv, UserRuns, TypeOK, UserPc, NextInsn
<1>2. StackInv'
  BY DEF IInv, UserRuns, StackInv
<1>3. AwayInv' /\ TaskInv'
  BY DEF IInv, UserRuns, AwayInv, TaskInv
<1>4. UserSideInv' /\ HandlerInv' /\ KernelInv'
  BY DEF IInv, UserRuns, UserSideInv, HandlerInv, KernelInv
<1>5. PcInv'
  BY DEF IInv, UserRuns, TypeOK, UserSideInv, PcInv
<1>6. RxInv'
  BY DEF UserRuns, RxInv
<1> QED
  BY <1>1, <1>2, <1>3, <1>4, <1>5, <1>6 DEF IInv

LEMMA EcallInv ==
  ASSUME IInv, Ecall
  PROVE  IInv'
<1>1. TypeOK'
  <2>1. sepc' \in Position
    BY HereType DEF IInv, Ecall, TakeTrap
  <2>2. frames' = frames
    BY DEF IInv, UserSideInv, Ecall, TakeTrap
  <2> QED
    BY <2>1, <2>2
    DEF IInv, Ecall, TakeTrap, TypeOK, Labels, UserPc, Causes, Vectors, NextInsn
<1>2. StackInv'
  BY DEF IInv, Ecall, StackInv, UserSideInv, TakeTrap
<1>3. AwayInv' /\ TaskInv'
  BY DEF IInv, Ecall, AwayInv, TaskInv, TakeTrap
<1>4. UserSideInv' /\ HandlerInv' /\ KernelInv'
  BY DEF IInv, Ecall, TypeOK, UserSideInv, HandlerInv, KernelInv, TakeTrap
<1>5. PcInv'
  BY DEF IInv, Ecall, TypeOK, UserSideInv, PcInv, TakeTrap, Here
<1>6. RxInv'
  BY DEF Ecall, RxInv, TakeTrap
<1> QED
  BY <1>1, <1>2, <1>3, <1>4, <1>5, <1>6 DEF IInv

LEMMA SchedIntrOnInv ==
  ASSUME IInv, SchedIntrOn
  PROVE  IInv'
<1>1. TypeOK'
  BY DEF IInv, SchedIntrOn, TypeOK, Labels
<1>2. StackInv'
  BY DEF IInv, SchedIntrOn, StackInv
<1>3. AwayInv' /\ TaskInv'
  BY DEF IInv, SchedIntrOn, AwayInv, TaskInv
<1>4. UserSideInv' /\ HandlerInv' /\ KernelInv'
  BY DEF IInv, SchedIntrOn, UserSideInv, HandlerInv, KernelInv
<1>5. PcInv'
  BY DEF IInv, SchedIntrOn, PcInv
<1>6. RxInv'
  BY DEF SchedIntrOn, RxInv
<1> QED
  BY <1>1, <1>2, <1>3, <1>4, <1>5, <1>6 DEF IInv

LEMMA SchedWrapInv ==
  ASSUME IInv, SchedWrap
  PROVE  IInv'
<1>1. TypeOK'
  BY DEF IInv, SchedWrap, TypeOK, Labels
<1>2. StackInv'
  BY DEF IInv, SchedWrap, StackInv
<1>3. AwayInv' /\ TaskInv'
  BY DEF IInv, SchedWrap, AwayInv, TaskInv, KernelInv
<1>4. UserSideInv' /\ HandlerInv' /\ KernelInv'
  BY DEF IInv, SchedWrap, UserSideInv, HandlerInv, KernelInv
<1>5. PcInv'
  BY DEF IInv, SchedWrap, PcInv
<1>6. RxInv'
  BY DEF SchedWrap, RxInv
<1> QED
  BY <1>1, <1>2, <1>3, <1>4, <1>5, <1>6 DEF IInv

LEMMA SchedDispatchInv ==
  ASSUME IInv, NEW p \in Procs, SchedDispatch(p)
  PROVE  IInv'
<1>1. TypeOK'
  BY DEF IInv, SchedDispatch, TypeOK
<1>2. StackInv'
  BY DEF IInv, SchedDispatch, StackInv
<1>3. AwayInv' /\ TaskInv'
  BY DEF IInv, SchedDispatch, TypeOK, AwayInv, TaskInv, KernelInv
<1>4. UserSideInv' /\ HandlerInv' /\ KernelInv'
  BY DEF IInv, SchedDispatch, AwayInv, UserSideInv, HandlerInv, KernelInv
<1>5. PcInv'
  BY DEF IInv, SchedDispatch, AwayInv, PcInv
<1>6. RxInv'
  BY DEF IInv, SchedDispatch, AwayInv, RxInv
<1> QED
  BY <1>1, <1>2, <1>3, <1>4, <1>5, <1>6 DEF IInv

LEMMA UsertrapEcallInv ==
  ASSUME IInv, UsertrapEcall
  PROVE  IInv'
<1>1. TypeOK'
  BY DEF IInv, UsertrapEcall, UserSideInv, TaskInv, TypeOK, NextInsn, UserTrapEntry
<1>2. StackInv'
  BY DEF IInv, UsertrapEcall, StackInv, UserTrapEntry
<1>3. AwayInv' /\ TaskInv'
  BY DEF IInv, UsertrapEcall, AwayInv, TaskInv, UserSideInv, UserTrapEntry
<1>4. UserSideInv' /\ HandlerInv' /\ KernelInv'
  BY DEF IInv, UsertrapEcall, TypeOK, UserSideInv, HandlerInv, KernelInv, UserTrapEntry
<1>5. PcInv'
  BY DEF IInv, UsertrapEcall, TypeOK, TaskInv, UserSideInv, PcInv, UserTrapEntry
<1>6. RxInv'
  BY DEF IInv, UsertrapEcall, TypeOK, RxInv
<1> QED
  BY <1>1, <1>2, <1>3, <1>4, <1>5, <1>6 DEF IInv

LEMMA UsertrapTimerInv ==
  ASSUME IInv, UsertrapTimer
  PROVE  IInv'
<1>1. TypeOK'
  <2>1. /\ cur \in Procs /\ sscratch = cur /\ sepc.at \in UserPc
        /\ cproc = cur /\ status[cur] = "RUNNING"
    BY DEF IInv, UserSideInv, TaskInv, PcInv, UsertrapTimer, UserTrapEntry
  <2> QED
    BY <2>1 DEF IInv, UsertrapTimer, UserTrapEntry, YieldOrGoOn, Yields,
                SwtchToScheduler, TypeOK, Labels, Vectors
<1>2. StackInv'
  BY DEF IInv, UsertrapTimer, StackInv, UserTrapEntry
<1>3. AwayInv' /\ TaskInv'
  <2>1. /\ cur \in Procs /\ cproc = cur /\ status[cur] = "RUNNING"
        /\ Len(frames[cur]) = 0 /\ frames' = frames
        /\ loc \in [Threads -> Labels]
        /\ status \in [Procs -> {"READY", "RUNNING", "SLEEPING"}]
    BY DEF IInv, UserSideInv, TaskInv, TypeOK, UsertrapTimer, UserTrapEntry
  <2>2. SwtchToScheduler(cur, "READY", "usertrapret")
    BY <2>1 DEF UsertrapTimer, YieldOrGoOn, Yields
  <2> QED
    BY <2>1, <2>2 DEF IInv, SwtchToScheduler, AwayInv, TaskInv
<1>4. UserSideInv' /\ HandlerInv' /\ KernelInv'
  BY DEF IInv, UsertrapTimer, TypeOK, AwayInv, UserSideInv, HandlerInv, KernelInv,
         UserTrapEntry, YieldOrGoOn, Yields, SwtchToScheduler
<1>5. PcInv'
  BY DEF IInv, UsertrapTimer, TypeOK, UserSideInv, PcInv, UserTrapEntry, YieldOrGoOn,
         SwtchToScheduler
<1>6. RxInv'
  BY DEF UsertrapTimer, RxInv, UserTrapEntry
<1> QED
  BY <1>1, <1>2, <1>3, <1>4, <1>5, <1>6 DEF IInv

LEMMA UsertrapExternalInv ==
  ASSUME IInv, UsertrapExternal
  PROVE  IInv'
<1>1. TypeOK'
  <2>1. /\ cur \in Procs /\ sscratch = cur /\ sepc.at \in UserPc
    BY DEF IInv, UserSideInv, PcInv, UsertrapExternal, UserTrapEntry
  <2>2. rx' \in 0 .. MaxRx
    BY DEF IInv, TypeOK, RxInv, UsertrapExternal, UserTrapEntry
  <2> QED
    BY <2>1, <2>2 DEF IInv, UsertrapExternal, UserTrapEntry, TypeOK, Labels, Vectors
<1>2. StackInv'
  BY DEF IInv, UsertrapExternal, StackInv, UserTrapEntry
<1>3. AwayInv' /\ TaskInv'
  BY DEF IInv, UsertrapExternal, AwayInv, TaskInv, UserTrapEntry
<1>4. UserSideInv' /\ HandlerInv' /\ KernelInv'
  BY DEF IInv, UsertrapExternal, TypeOK, UserSideInv, HandlerInv, KernelInv,
         UserTrapEntry
<1>5. PcInv'
  BY DEF IInv, UsertrapExternal, TypeOK, UserSideInv, PcInv, UserTrapEntry
<1>6. RxInv'
  BY DEF IInv, UsertrapExternal, TypeOK, RxInv
<1> QED
  BY <1>1, <1>2, <1>3, <1>4, <1>5, <1>6 DEF IInv

LEMMA SyscallReturnsInv ==
  ASSUME IInv, SyscallReturns
  PROVE  IInv'
<1>1. TypeOK'
  BY DEF IInv, SyscallReturns, TypeOK, Labels
<1>2. StackInv'
  BY DEF IInv, SyscallReturns, StackInv
<1>3. AwayInv' /\ TaskInv'
  BY DEF IInv, SyscallReturns, AwayInv, TaskInv
<1>4. UserSideInv' /\ HandlerInv' /\ KernelInv'
  BY DEF IInv, SyscallReturns, UserSideInv, HandlerInv, KernelInv
<1>5. PcInv'
  BY DEF IInv, SyscallReturns, PcInv
<1>6. RxInv'
  BY DEF SyscallReturns, RxInv
<1> QED
  BY <1>1, <1>2, <1>3, <1>4, <1>5, <1>6 DEF IInv

LEMMA SyscallSleepsInv ==
  ASSUME IInv, SyscallSleeps
  PROVE  IInv'
<1>1. TypeOK'
  <2>1. cur \in Procs
    BY DEF IInv, TypeOK, StackInv, KernelInv, SyscallSleeps
  <2> QED
    BY <2>1 DEF IInv, SyscallSleeps, SwtchToScheduler, TypeOK, Labels
<1>2. StackInv'
  BY DEF IInv, SyscallSleeps, StackInv
<1>3. AwayInv' /\ TaskInv'
  BY DEF IInv, SyscallSleeps, TypeOK, AwayInv, TaskInv, KernelInv, SwtchToScheduler
<1>4. UserSideInv' /\ HandlerInv' /\ KernelInv'
  BY DEF IInv, SyscallSleeps, TypeOK, AwayInv, UserSideInv, HandlerInv, KernelInv,
         SwtchToScheduler
<1>5. PcInv'
  BY DEF IInv, SyscallSleeps, TypeOK, PcInv, SwtchToScheduler
<1>6. RxInv'
  BY DEF IInv, SyscallSleeps, TypeOK, RxInv, SwtchToScheduler
<1> QED
  BY <1>1, <1>2, <1>3, <1>4, <1>5, <1>6 DEF IInv

LEMMA SyscallWakesInv ==
  ASSUME IInv, NEW p \in Procs, SyscallWakes(p)
  PROVE  IInv'
<1>1. TypeOK'
  BY DEF IInv, SyscallWakes, TypeOK
<1>2. StackInv'
  BY DEF IInv, SyscallWakes, StackInv
<1>3. AwayInv' /\ TaskInv'
  BY DEF IInv, SyscallWakes, AwayInv, TaskInv
<1>4. UserSideInv' /\ HandlerInv' /\ KernelInv'
  BY DEF IInv, SyscallWakes, UserSideInv, HandlerInv, KernelInv
<1>5. PcInv'
  BY DEF IInv, SyscallWakes, PcInv
<1>6. RxInv'
  BY DEF SyscallWakes, RxInv
<1> QED
  BY <1>1, <1>2, <1>3, <1>4, <1>5, <1>6 DEF IInv

LEMMA UserTrapRetInv ==
  ASSUME IInv, UserTrapRet
  PROVE  IInv'
<1>1. TypeOK'
  <2>1. cproc = cur /\ cur \in Procs
    BY DEF IInv, TypeOK, TaskInv, StackInv, KernelInv, UserTrapRet
  <2>2. sepc' \in Position
    BY <2>1 DEF IInv, TypeOK, UserTrapRet, Position
  <2> QED
    BY <2>1, <2>2 DEF IInv, UserTrapRet, TypeOK, Labels, Vectors
<1>2. StackInv'
  BY DEF IInv, UserTrapRet, StackInv
<1>3. AwayInv' /\ TaskInv'
  BY DEF IInv, UserTrapRet, AwayInv, TaskInv
<1>4. UserSideInv' /\ HandlerInv' /\ KernelInv'
  BY DEF IInv, UserTrapRet, TypeOK, TaskInv, UserSideInv, HandlerInv, KernelInv
<1>5. PcInv'
  BY DEF IInv, UserTrapRet, TypeOK, AwayInv, TaskInv, PcInv
<1>6. RxInv'
  BY DEF UserTrapRet, RxInv
<1> QED
  BY <1>1, <1>2, <1>3, <1>4, <1>5, <1>6 DEF IInv

LEMMA HandlerTimerInv ==
  ASSUME IInv, HandlerTimer
  PROVE  IInv'
<1>1. /\ cur \in Threads /\ Len(frames[cur]) \in Nat \ {0} /\ ~sie
      /\ stvec = "sys_trap_vector" /\ cproc = cur
      /\ loc \in [Threads -> Labels]
      /\ status \in [Procs -> {"READY", "RUNNING", "SLEEPING"}]
  BY DEF IInv, TypeOK, HandlerInv, KernelInv, TaskInv, HandlerTimer, HandlerChecks
<1>2. mode = "S" /\ mode' = "S" /\ sie' = sie /\ stvec' = stvec
  BY DEF HandlerTimer
<1>3. \/ /\ cur \in Procs /\ SwtchToScheduler(cur, "READY", "w_sepc")
      \/ /\ cur = Scheduler /\ loc' = [loc EXCEPT ![cur] = "w_sepc"]
         /\ UNCHANGED <<cur, tasks>>
  BY <1>1 DEF IInv, TaskInv, HandlerTimer, YieldOrGoOn, Yields
<1>4. TypeOK'
  <2>1. /\ cur' \in Threads /\ cproc' \in Procs \cup {None}
        /\ status' \in [Procs -> {"READY", "RUNNING", "SLEEPING"}]
        /\ loc' \in [Threads -> Labels]
    BY <1>1, <1>3 DEF SwtchToScheduler, Labels
  <2>2. frames' \in [Threads -> Seq(Frame)]
    BY LocalsSaved DEF HandlerTimer
  <2> QED
    BY <2>1, <2>2 DEF IInv, HandlerTimer, TypeOK
<1>5. StackInv'
  BY SavedStack DEF HandlerTimer
<1>6. AwayInv' /\ TaskInv'
  <2>1. /\ \A t \in Threads : Len(frames'[t]) = Len(frames[t])
        /\ \A t \in Threads \ {cur} : frames'[t] = frames[t]
        /\ frames'[cur][Len(frames[cur])] \in SavedFrame
    BY LocalsSaved DEF HandlerTimer
  <2>2. \A t \in Threads \ {cur} : Waiting(t)
    BY DEF IInv, AwayInv
  <2>3. CASE cur \in Procs /\ SwtchToScheduler(cur, "READY", "w_sepc")
    <3>1. loc[Scheduler] = "scan" /\ Len(frames[Scheduler]) = 0
      BY <2>2, <2>3 DEF IInv, AwayInv
    <3>2. \A t \in Threads \ {cur, Scheduler} : Waiting(t)'
      BY <1>1, <2>1, <2>2, <2>3 DEF SwtchToScheduler
    <3>3. \A t \in Threads : t = cur => Waiting(t)'
      BY <1>1, <2>1, <2>3 DEF SwtchToScheduler
    <3> QED
      BY <2>3, <3>2, <3>3 DEF AwayInv, TaskInv, SwtchToScheduler
  <2>4. CASE /\ cur = Scheduler /\ loc' = [loc EXCEPT ![cur] = "w_sepc"]
             /\ UNCHANGED <<cur, tasks>>
    BY <1>1, <2>1, <2>2, <2>4 DEF AwayInv, TaskInv
  <2> QED
    BY <1>3, <2>3, <2>4
<1>7. UserSideInv' /\ HandlerInv' /\ KernelInv'
  BY <1>1, <1>2, <1>3, LocalsSaved
  DEF IInv, HandlerTimer, UserSideInv, HandlerInv, KernelInv, AwayInv, SwtchToScheduler
<1>8. PcInv' /\ RxInv'
  BY <1>1, <1>2, <1>3 DEF IInv, HandlerTimer, PcInv, RxInv, SwtchToScheduler
<1> QED
  BY <1>4, <1>5, <1>6, <1>7, <1>8 DEF IInv

LEMMA HandlerExternalInv ==
  ASSUME IInv, HandlerExternal
  PROVE  IInv'
<1>1. /\ cur \in Threads /\ Len(frames[cur]) \in Nat \ {0}
      /\ stvec = "sys_trap_vector" /\ loc \in [Threads -> Labels]
  BY DEF IInv, TypeOK, HandlerInv, KernelInv, HandlerExternal, HandlerChecks
<1>2. loc' = [loc EXCEPT ![cur] = "w_sepc"] /\ cur' = cur /\ mode = "S" /\ mode' = "S"
  BY DEF HandlerExternal
<1>3. rx' \in 0 .. MaxRx
  BY DEF IInv, TypeOK, RxInv, HandlerExternal
<1>4. TypeOK'
  BY <1>1, <1>3, LocalsSaved DEF IInv, HandlerExternal, TypeOK, Labels
<1>5. StackInv'
  BY SavedStack DEF HandlerExternal
<1>6. AwayInv' /\ TaskInv'
  <2>1. \A t \in Threads \ {cur} : frames'[t] = frames[t]
    BY LocalsSaved DEF HandlerExternal
  <2> QED
    BY <1>1, <1>2, <2>1 DEF IInv, HandlerExternal, AwayInv, TaskInv
<1>7. UserSideInv' /\ HandlerInv' /\ KernelInv'
  BY <1>1, <1>2, LocalsSaved DEF IInv, HandlerExternal, UserSideInv, HandlerInv, KernelInv
<1>8. PcInv' /\ RxInv'
  BY <1>1, <1>2 DEF IInv, HandlerExternal, PcInv, RxInv
<1> QED
  BY <1>4, <1>5, <1>6, <1>7, <1>8 DEF IInv

LEMMA WSepcInv ==
  ASSUME IInv, WSepc
  PROVE  IInv'
<1>1. TypeOK'
  <2>1. frames[cur][Top] \in SavedFrame
    BY DEF IInv, TypeOK, StackInv, KernelInv, WSepc, Top
  <2>2. sepc' \in Position
    BY <2>1 DEF WSepc, SavedFrame
  <2> QED
    BY <2>2 DEF IInv, WSepc, TypeOK, Labels
<1>2. StackInv'
  BY DEF IInv, WSepc, StackInv
<1>3. AwayInv' /\ TaskInv'
  BY DEF IInv, WSepc, AwayInv, TaskInv
<1>4. UserSideInv' /\ HandlerInv' /\ KernelInv'
  BY DEF IInv, WSepc, UserSideInv, HandlerInv, KernelInv
<1>5. PcInv'
  BY DEF IInv, WSepc, PcInv
<1>6. RxInv'
  BY DEF WSepc, RxInv
<1> QED
  BY <1>1, <1>2, <1>3, <1>4, <1>5, <1>6 DEF IInv

LEMMA WSstatusInv ==
  ASSUME IInv, WSstatus
  PROVE  IInv'
<1>1. TypeOK'
  <2>1. frames[cur][Top] \in SavedFrame
    BY DEF IInv, TypeOK, StackInv, KernelInv, WSstatus, Top
  <2>2. spp' \in {"U", "S"} /\ spie' \in BOOLEAN
    BY <2>1 DEF WSstatus, SavedFrame
  <2> QED
    BY <2>2 DEF IInv, WSstatus, TypeOK, Labels
<1>2. StackInv'
  BY DEF IInv, WSstatus, StackInv
<1>3. AwayInv' /\ TaskInv'
  BY DEF IInv, WSstatus, AwayInv, TaskInv
<1>4. UserSideInv' /\ HandlerInv' /\ KernelInv'
  BY DEF IInv, WSstatus, TypeOK, UserSideInv, HandlerInv, KernelInv, SavedFrame, Top
<1>5. PcInv'
  BY DEF IInv, WSstatus, PcInv
<1>6. RxInv'
  BY DEF WSstatus, RxInv
<1> QED
  BY <1>1, <1>2, <1>3, <1>4, <1>5, <1>6 DEF IInv

LEMMA SretInv ==
  ASSUME IInv, Sret
  PROVE  IInv'
<1>1. /\ cur \in Threads /\ Len(frames[cur]) \in Nat \ {0}
      /\ frames[cur] \in Seq(Frame) /\ loc \in [Threads -> Labels]
      /\ stvec = "sys_trap_vector" /\ spp = "S" /\ spie = TRUE
  BY DEF IInv, TypeOK, HandlerInv, KernelInv, Sret
<1>2. Resumable(cur, frames[cur][Top].was.at, Top - 1)
  <2>1. Top \in 1 .. Len(frames[cur])
    BY <1>1 DEF Top
  <2> QED
    BY <1>1, <2>1 DEF IInv, StackInv
<1>3. Top > 1 => frames[cur][Top - 1] \in SavedFrame
  BY <1>1 DEF IInv, StackInv, Top
<1>4. CASE sepc = frames[cur][Top].was
  <2>1. /\ loc' = [loc EXCEPT ![cur] = sepc.at] /\ cur' = cur /\ mode = "S" /\ mode' = "S"
        /\ frames' = [frames EXCEPT ![cur] = SubSeq(@, 1, Top - 1)]
        /\ UNCHANGED <<stvec, sepc, scause, sscratch, requests, tasks, user>>
    BY <1>1, <1>4 DEF Sret
  <2>2. /\ frames' \in [Threads -> Seq(Frame)]
        /\ \A t \in Threads \ {cur} : frames'[t] = frames[t]
        /\ Len(frames'[cur]) = Len(frames[cur]) - 1
        /\ \A i \in 1 .. Len(frames[cur]) - 1 : frames'[cur][i] = frames[cur][i]
    BY <1>1, <2>1, FramePopped
  <2>3. Resumable(cur, sepc.at, Len(frames'[cur]))
    BY <1>2, <1>4, <2>2 DEF Top
  <2>4. sepc.at \in Labels
    BY <2>3 DEF Labels
  <2>5. Waiting(cur)'
    BY <1>1, <1>3, <2>1, <2>2, <2>3 DEF Top
  <2>6. TypeOK'
    BY <2>1, <2>2, <2>4 DEF IInv, Sret, TypeOK
  <2>7. StackInv'
    <3>1. StackInv /\ cur \in Threads /\ Len(frames[cur]) \in Nat
      BY <1>1 DEF IInv
    <3>2. \A i \in 1 .. Len(frames[cur]) :
            /\ Resumable(cur, frames[cur][i].was.at, i - 1)
            /\ i < Len(frames[cur]) => frames[cur][i] \in SavedFrame
      BY ONLY <3>1 DEF StackInv
    <3>3. Len(frames[cur]) <= MaxDepth
      BY ONLY <3>1 DEF StackInv
    <3>4. /\ Len(frames'[cur]) <= MaxDepth
          /\ \A i \in 1 .. Len(frames'[cur]) :
               /\ Resumable(cur, frames'[cur][i].was.at, i - 1)
               /\ i < Len(frames'[cur]) => frames'[cur][i] \in SavedFrame
      <4>1. Len(frames'[cur]) <= MaxDepth
        BY ONLY <2>2, <3>1, <3>3, TrapAssumption
      <4>2. ASSUME NEW i \in 1 .. Len(frames'[cur])
            PROVE  /\ i \in 1 .. Len(frames[cur]) /\ i < Len(frames[cur])
                   /\ frames'[cur][i] = frames[cur][i]
        BY ONLY <2>2, <3>1, <4>2
      <4> QED
        BY ONLY <3>2, <4>1, <4>2
    <3> QED
      BY ONLY <2>2, <3>1, <3>4, StackOf
  <2>8. AwayInv' /\ TaskInv'
    BY <2>1, <2>2 DEF IInv, AwayInv, TaskInv
  <2>9. loc'[cur'] = sepc.at /\ sepc.at \notin {"user_trap_entry", "sys_trap_vector", "sret"}
    BY <1>1, <2>1, <2>3
  <2>10. UserSideInv' /\ HandlerInv' /\ KernelInv'
    BY <1>1, <2>1, <2>5, <2>9 DEF UserSideInv, HandlerInv, KernelInv
  <2>11. PcInv' /\ RxInv'
    BY <2>1, <2>9 DEF IInv, Sret, PcInv, RxInv
  <2> QED
    BY <2>6, <2>7, <2>8, <2>10, <2>11 DEF IInv
<1>5. CASE sepc # frames[cur][Top].was
  <2>1. /\ mode' = "wild" /\ mode = "S" /\ UNCHANGED <<loc, frames, cur>>
        /\ sie' = spie /\ spie' = TRUE /\ spp' = "U"
        /\ UNCHANGED <<sepc, scause, stvec, sscratch, requests, tasks, user>>
    BY <1>5 DEF Sret
  <2>2. TypeOK'
    BY <1>1, <2>1 DEF IInv, TypeOK
  <2>3. StackInv' /\ AwayInv' /\ TaskInv'
    BY <2>1 DEF IInv, StackInv, AwayInv, TaskInv
  <2>4. UserSideInv' /\ HandlerInv' /\ KernelInv' /\ RxInv'
    BY <2>1 DEF UserSideInv, HandlerInv, KernelInv, RxInv
  <2>5. PcInv'
    BY <2>1 DEF IInv, Sret, PcInv
  <2> QED
    BY <2>2, <2>3, <2>4, <2>5 DEF IInv
<1> QED
  BY <1>4, <1>5

-----------------------------------------------------------------------------
(* The invariant of every step, and the theorems it gives.                 *)

LEMMA NextInv == IInv /\ [Next]_vars => IInv'
<1> SUFFICES ASSUME IInv, [Next]_vars PROVE IInv'
  OBVIOUS
<1>1. CASE Timervec \/ KeyPressed
  BY <1>1, TimervecInv, KeyPressedInv
<1>2. ASSUME NEW cause \in {"timer", "external"}, Interrupt(cause) PROVE IInv'
  BY <1>2, InterruptInv
<1>3. CASE UserRuns \/ Ecall
  BY <1>3, UserRunsInv, EcallInv
<1>4. CASE SchedulerRuns
  BY <1>4, SchedIntrOnInv, SchedWrapInv, SchedDispatchInv DEF SchedulerRuns
<1>5. CASE Usertrap
  BY <1>5, UsertrapEcallInv, UsertrapTimerInv, UsertrapExternalInv, UserTrapRetInv
  DEF Usertrap
<1>6. CASE Syscall
  BY <1>6, SyscallReturnsInv, SyscallSleepsInv, SyscallWakesInv DEF Syscall
<1>7. CASE Handler
  BY <1>7, HandlerTimerInv, HandlerExternalInv, WSepcInv, WSstatusInv, SretInv DEF Handler
<1>8. CASE Halted \/ UNCHANGED vars
  <2>1. UNCHANGED vars
    BY <1>8 DEF Halted
  <2>2. TypeOK'
    BY <2>1 DEF vars, IInv, TypeOK
  <2>3. StackInv' /\ AwayInv' /\ TaskInv'
    BY <2>1 DEF vars, IInv, StackInv, AwayInv, TaskInv
  <2>4. UserSideInv' /\ HandlerInv' /\ KernelInv'
    BY <2>1 DEF vars, IInv, UserSideInv, HandlerInv, KernelInv
  <2>5. PcInv' /\ RxInv'
    BY <2>1 DEF vars, IInv, PcInv, RxInv
  <2> QED
    BY <2>2, <2>3, <2>4, <2>5 DEF IInv
<1> QED
  BY <1>1, <1>2, <1>3, <1>4, <1>5, <1>6, <1>7, <1>8 DEF Next

\* Every place a trap, a yield and a return can leave the hart at is one IInv knows.
THEOREM Invariance == Spec => []IInv
  BY InitInv, NextInv, PTL DEF Spec

\* The CSRs, the frames and the threads keep their types: no more traps nest than
\* the stack has room for, no byte is read that the UART does not have.
THEOREM TypeCorrect == Spec => []TypeOK
<1>1. IInv => TypeOK
  BY DEF IInv
<1> QED
  BY <1>1, Invariance, PTL

\* stvec and sscratch (trap.c:263-269, kernelvec.S) are those of the mode and the
\* process whenever an interrupt can be taken, however processes enter, yield
\* inside and leave the kernel.
THEOREM VectorMatchesModeAlways == Spec => []VectorMatchesMode
<1>1. IInv => VectorMatchesMode
  BY DEF IInv, TaskInv, UserSideInv, KernelInv, VectorMatchesMode
<1> QED
  BY <1>1, Invariance, PTL

\* The two panics of sys_trap_handler (trap.c:101-104) are unreachable.
THEOREM HandlerNeverPanicsEver == Spec => []HandlerNeverPanics
<1>1. IInv => HandlerNeverPanics
  BY DEF IInv, HandlerInv, HandlerNeverPanics, HandlerChecks
<1> QED
  BY <1>1, Invariance, PTL

\* A program goes on with its own registers at its own pc after any number of
\* nested traps, yields and sleeps (kernelvec.S:203, trap.c:212).
THEOREM UserResumesAlways == Spec => []UserResumes
<1>1. IInv => UserResumes
  BY DEF IInv, PcInv, UserResumes
<1> QED
  BY <1>1, Invariance, PTL

\* SPP and SPIE are restored at the end of sys_trap_handler (trap.c:184), also
\* when an interrupt came in after the yield.
THEOREM SretRestoresStatusAlways == Spec => []SretRestoresStatus
<1>1. IInv => SretRestoresStatus
  BY DEF IInv, HandlerInv, SretRestoresStatus
<1> QED
  BY <1>1, Invariance, PTL
=============================================================================
