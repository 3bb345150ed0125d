-------------------------------- MODULE Trap --------------------------------
(***************************************************************************)
(* Traps on one hart (kernel/trap/trap.c, kernel/trap/kernelvec.S): the    *)
(* supervisor CSRs, the two vectors user_trap_entry and sys_trap_vector,   *)
(* nested interrupts, and what a yield inside a handler does to them.      *)
(*                                                                         *)
(* A stack is a thread: one per process and one for scheduler().  A trap   *)
(* taken in supervisor mode pushes a frame on the stack of the thread it   *)
(* interrupts.  Code that runs with SIE clear is one action up to the next *)
(* statement that can set it, give up the hart or return.                  *)
(*                                                                         *)
(* Here the scheduler marks a process RUNNING, stores c->proc and switches *)
(* in one step; the window between the three belongs to Proc.              *)
(***************************************************************************)
EXTENDS Integers, Sequences

CONSTANTS Procs,      \* the processes userinit and fork made ready
          Scheduler,  \* the thread of scheduler(), on the boot stack
          MaxDepth,   \* BOUND: traps nested on one kernel stack
          MaxRx       \* BOUND: bytes waiting in the UART at once

Threads == Procs \cup {Scheduler}
None == Scheduler     \* the null c->proc

ASSUME TrapAssumption ==
  /\ Scheduler \notin Procs
  /\ MaxDepth \in Nat /\ MaxDepth >= 1
  /\ MaxRx \in Nat

VARIABLES
  \* the thread whose stack the hart is on, and where the hart is
  cur, mode,
  \* sstatus.SIE, SPIE, SPP; sepc, scause, stvec, sscratch; sip.SSIP
  sie, spie, spp, sepc, scause, stvec, sscratch, ssip,
  \* bytes in the UART: its interrupt is pending at the PLIC while there are any
  rx,
  \* c->proc and the status of each process
  cproc, status,
  \* where each thread is, or will resume, and its frames of sys_trap_handler
  loc, frames,
  \* trapframe->epc; the user pc and whose user registers the hart holds
  epc, upc, ureg,
  \* history: where the program of each process must go on
  due

csrs     == <<sie, spie, spp, sepc, scause, stvec, sscratch>>
requests == <<ssip, rx>>
tasks    == <<cproc, status>>
user     == <<epc, upc, ureg, due>>
vars     == <<cur, mode, csrs, requests, tasks, loc, frames, user>>

\* A program is told apart by two instructions: the pc moves from one to the other.
UserPc == {"even", "odd"}
NextInsn(i) == IF i = "even" THEN "odd" ELSE "even"

Labels == {"user", "user_trap_entry", "sys_trap_vector", "syscall",
           "usertrapret", "w_sepc", "w_sstatus", "sret", "intr_on", "scan"}
Causes == {"ecall", "timer", "external"}
Vectors == {"user_trap_entry", "sys_trap_vector"}

\* A place an instruction can be interrupted at.
Position == [who : Threads, depth : 0 .. MaxDepth, at : Labels \cup UserPc]
Here == [who |-> cur, depth |-> Len(frames[cur]),
         at |-> IF mode = "U" THEN upc ELSE loc[cur]]

-----------------------------------------------------------------------------
(* Boot: start_main has run trapinithart and intr_on, main enters the      *)
(* scheduler; every process is READY with forkret as its context.          *)

Init ==
  /\ cur = Scheduler /\ mode = "S"
  /\ sie = TRUE /\ spie = FALSE /\ spp = "U"
  /\ sepc = [who |-> Scheduler, depth |-> 0, at |-> "scan"]
  /\ scause = "timer" /\ stvec = "sys_trap_vector" /\ sscratch = None
  /\ ssip = FALSE /\ rx = 0
  /\ cproc = None /\ status = [p \in Procs |-> "READY"]
  /\ loc = [t \in Threads |-> IF t = Scheduler THEN "intr_on" ELSE "usertrapret"]
  /\ frames = [t \in Threads |-> <<>>]
  /\ epc = [p \in Procs |-> "even"] /\ upc = "even" /\ ureg = None
  /\ due = [p \in Procs |-> "even"]

-----------------------------------------------------------------------------
(* Hardware                                                                *)

\* timervec, in M-mode, sets sip.SSIP; it touches nothing the S-mode code sees.
Timervec ==
  /\ ssip' = TRUE
  /\ UNCHANGED <<cur, mode, csrs, rx, tasks, loc, frames, user>>

KeyPressed ==
  /\ rx < MaxRx
  /\ rx' = rx + 1
  /\ UNCHANGED <<cur, mode, csrs, ssip, tasks, loc, frames, user>>

\* A trap to stvec.  On the kernel vector sys_trap_vector saves the registers
\* on the stack the hart is on.
TakeTrap(cause) ==
  /\ sepc' = Here
  /\ spp' = mode
  /\ spie' = sie
  /\ sie' = FALSE
  /\ scause' = cause
  /\ mode' = "S"
  /\ loc' = [loc EXCEPT ![cur] = stvec]
  /\ frames' = IF stvec = "sys_trap_vector"
                 THEN [frames EXCEPT ![cur] = Append(@, [was |-> Here])] ELSE frames
  /\ UNCHANGED <<cur, stvec, sscratch>>

Pending(cause) == (cause = "timer" /\ ssip) \/ (cause = "external" /\ rx > 0)

Interrupt(cause) ==
  /\ Pending(cause)
  /\ mode = "U" \/ (mode = "S" /\ sie)
  /\ Len(frames[cur]) < MaxDepth
  /\ TakeTrap(cause)
  /\ UNCHANGED <<requests, tasks, user>>

UserRuns ==
  /\ mode = "U"
  /\ upc' = NextInsn(upc)
  /\ due' = [due EXCEPT ![cur] = NextInsn(upc)]
  /\ UNCHANGED <<cur, mode, csrs, requests, tasks, loc, frames, epc, ureg>>

\* The program goes on after the ecall instruction.
Ecall ==
  /\ mode = "U"
  /\ TakeTrap("ecall")
  /\ due' = [due EXCEPT ![cur] = NextInsn(upc)]
  /\ UNCHANGED <<requests, tasks, epc, upc, ureg>>

-----------------------------------------------------------------------------
(* The context switches                                                    *)

At(label) == mode = "S" /\ loc[cur] = label

\* swtch(&p->context, &c->context), then c->proc = 0: p resumes at the label.
SwtchToScheduler(p, new, label) ==
  /\ status' = [status EXCEPT ![p] = new]
  /\ loc' = [loc EXCEPT ![p] = label, ![Scheduler] = "scan"]
  /\ cur' = Scheduler
  /\ cproc' = None

Yields == cproc # None /\ status[cproc] = "RUNNING"

YieldOrGoOn(label) ==
  IF Yields THEN SwtchToScheduler(cproc, "READY", label)
            ELSE /\ loc' = [loc EXCEPT ![cur] = label]
                 /\ UNCHANGED <<cur, tasks>>

SchedIntrOn_Skipped ==
  /\ At("intr_on")
  /\ loc' = [loc EXCEPT ![Scheduler] = "scan"]
  /\ UNCHANGED <<cur, mode, csrs, requests, tasks, frames, user>>

SchedIntrOn ==
  /\ At("intr_on")
  /\ sie' = TRUE
  /\ loc' = [loc EXCEPT ![Scheduler] = "scan"]
  /\ UNCHANGED <<cur, mode, spie, spp, sepc, scause, stvec, sscratch, requests,
                 tasks, frames, user>>

\* The turn over proc[] ends.
SchedWrap ==
  /\ At("scan")
  /\ loc' = [loc EXCEPT ![Scheduler] = "intr_on"]
  /\ UNCHANGED <<cur, mode, csrs, requests, tasks, frames, user>>

SchedDispatch(p) ==
  /\ At("scan") /\ status[p] = "READY"
  /\ status' = [status EXCEPT ![p] = "RUNNING"]
  /\ cproc' = p
  /\ cur' = p
  /\ UNCHANGED <<mode, csrs, requests, loc, frames, user>>

-----------------------------------------------------------------------------
(* user_trap_entry and usertrap                                            *)

\* The registers and sepc go to the trapframe sscratch points at, the stack
\* becomes that process's kernel stack.
UserTrapEntry(cause) ==
  /\ At("user_trap_entry") /\ scause = cause
  /\ stvec' = "sys_trap_vector"
  /\ UNCHANGED <<mode, spie, spp, sepc, scause, sscratch, frames, upc, ureg, due>>

UsertrapEcall_NoAdvance ==
  /\ UserTrapEntry("ecall")
  /\ epc' = [epc EXCEPT ![sscratch] = sepc.at]
  /\ sie' = TRUE
  /\ cur' = sscratch
  /\ loc' = [loc EXCEPT ![sscratch] = "syscall"]
  /\ UNCHANGED <<requests, tasks>>

\* p->trapframe->epc += 4; intr_on();
UsertrapEcall ==
  /\ UserTrapEntry("ecall")
  /\ epc' = LET saved == [epc EXCEPT ![sscratch] = sepc.at]
            IN  [saved EXCEPT ![cproc] = NextInsn(@)]
  /\ sie' = TRUE
  /\ cur' = sscratch
  /\ loc' = [loc EXCEPT ![sscratch] = "syscall"]
  /\ UNCHANGED <<requests, tasks>>

UsertrapTimer ==
  /\ UserTrapEntry("timer")
  /\ epc' = [epc EXCEPT ![sscratch] = sepc.at]
  /\ ssip' = FALSE
  /\ YieldOrGoOn("usertrapret")
  /\ UNCHANGED <<sie, rx>>

\* Claim, read one byte, complete.
UsertrapExternal ==
  /\ UserTrapEntry("external")
  /\ epc' = [epc EXCEPT ![sscratch] = sepc.at]
  /\ rx' = rx - 1
  /\ loc' = [loc EXCEPT ![cur] = "usertrapret"]
  /\ UNCHANGED <<cur, sie, ssip, tasks>>

SyscallReturns ==
  /\ At("syscall")
  /\ loc' = [loc EXCEPT ![cur] = "usertrapret"]
  /\ UNCHANGED <<cur, mode, csrs, requests, tasks, frames, user>>

SyscallSleeps ==
  /\ At("syscall")
  /\ SwtchToScheduler(cur, "SLEEPING", "syscall")
  /\ UNCHANGED <<mode, csrs, requests, frames, user>>

SyscallWakes(p) ==
  /\ At("syscall") /\ status[p] = "SLEEPING"
  /\ status' = [status EXCEPT ![p] = "READY"]
  /\ UNCHANGED <<cur, mode, csrs, requests, cproc, loc, frames, user>>

UserTrapRet_KeepsSscratch ==
  /\ At("usertrapret")
  /\ stvec' = "user_trap_entry"
  /\ mode' = "U" /\ sie' = TRUE /\ spie' = TRUE /\ spp' = "U"
  /\ sscratch' = IF sscratch = None THEN cproc ELSE sscratch
  /\ sepc' = [who |-> cproc, depth |-> 0, at |-> epc[cproc]]
  /\ upc' = epc[cproc] /\ ureg' = cproc
  /\ loc' = [loc EXCEPT ![cur] = "user"]
  /\ UNCHANGED <<cur, scause, requests, tasks, frames, epc, due>>

\* usertrapret and return_to_user: intr_off comes first, the rest is not
\* interruptible; the registers come from p's trapframe.
UserTrapRet ==
  /\ At("usertrapret")
  /\ stvec' = "user_trap_entry"
  /\ mode' = "U" /\ sie' = TRUE /\ spie' = TRUE /\ spp' = "U"
  /\ sscratch' = cproc
  /\ sepc' = [who |-> cproc, depth |-> 0, at |-> epc[cproc]]
  /\ upc' = epc[cproc] /\ ureg' = cproc
  /\ loc' = [loc EXCEPT ![cur] = "user"]
  /\ UNCHANGED <<cur, scause, requests, tasks, frames, epc, due>>

-----------------------------------------------------------------------------
(* sys_trap_vector and sys_trap_handler                                    *)

Top == Len(frames[cur])

\* The locals sepc and sstatus.
SaveLocals ==
  frames' = [frames EXCEPT ![cur][Top] =
               [was |-> @.was, sepc |-> sepc, spp |-> spp, spie |-> spie]]

\* The checks before any of it; where they fail the handler panics (see
\* HandlerNeverPanics).
HandlerChecks == spp = "S" /\ ~sie

HandlerTimer ==
  /\ At("sys_trap_vector") /\ HandlerChecks /\ scause = "timer"
  /\ SaveLocals
  /\ ssip' = FALSE
  /\ YieldOrGoOn("w_sepc")
  /\ UNCHANGED <<mode, csrs, rx, user>>

HandlerExternal_ReadsTwice ==
  /\ At("sys_trap_vector") /\ HandlerChecks /\ scause = "external"
  /\ SaveLocals
  /\ rx' = rx - 2
  /\ loc' = [loc EXCEPT ![cur] = "w_sepc"]
  /\ UNCHANGED <<cur, mode, csrs, ssip, tasks, user>>

\* Claim, read one byte, complete.
HandlerExternal ==
  /\ At("sys_trap_vector") /\ HandlerChecks /\ scause = "external"
  /\ SaveLocals
  /\ rx' = rx - 1
  /\ loc' = [loc EXCEPT ![cur] = "w_sepc"]
  /\ UNCHANGED <<cur, mode, csrs, ssip, tasks, user>>

WSepc ==
  /\ At("w_sepc")
  /\ sepc' = frames[cur][Top].sepc
  /\ loc' = [loc EXCEPT ![cur] = "w_sstatus"]
  /\ UNCHANGED <<cur, mode, sie, spie, spp, scause, stvec, sscratch, requests,
                 tasks, frames, user>>

WSstatus_Skipped ==
  /\ At("w_sstatus")
  /\ sie' = FALSE
  /\ loc' = [loc EXCEPT ![cur] = "sret"]
  /\ UNCHANGED <<cur, mode, spie, spp, sepc, scause, stvec, sscratch, requests,
                 tasks, frames, user>>

\* The saved sstatus has SIE clear.
WSstatus ==
  /\ At("w_sstatus")
  /\ sie' = FALSE
  /\ spp' = frames[cur][Top].spp
  /\ spie' = frames[cur][Top].spie
  /\ loc' = [loc EXCEPT ![cur] = "sret"]
  /\ UNCHANGED <<cur, mode, sepc, scause, stvec, sscratch, requests, tasks,
                 frames, user>>

\* The registers are those of the interrupted code; with another sepc the hart
\* runs other code with them.
Sret ==
  /\ At("sret")
  /\ sie' = spie /\ spie' = TRUE /\ spp' = "U"
  /\ IF spp = "S" /\ sepc = frames[cur][Top].was
       THEN /\ loc' = [loc EXCEPT ![cur] = sepc.at]
            /\ frames' = [frames EXCEPT ![cur] = SubSeq(@, 1, Top - 1)]
            /\ UNCHANGED mode
       ELSE mode' = "wild" /\ UNCHANGED <<loc, frames>>
  /\ UNCHANGED <<cur, sepc, scause, stvec, sscratch, requests, tasks, user>>

\* Nothing is said of a hart gone wild.
Halted ==
  /\ mode = "wild"
  /\ UNCHANGED vars

-----------------------------------------------------------------------------

SchedulerRuns == SchedIntrOn \/ SchedWrap \/ \E p \in Procs : SchedDispatch(p)

Usertrap == UsertrapEcall \/ UsertrapTimer \/ UsertrapExternal \/ UserTrapRet

Syscall == SyscallReturns \/ SyscallSleeps \/ \E p \in Procs : SyscallWakes(p)

Handler ==
  \/ HandlerTimer \/ HandlerExternal
  \/ WSepc \/ WSstatus \/ Sret

Next ==
  \/ Timervec \/ KeyPressed
  \/ \E cause \in {"timer", "external"} : Interrupt(cause)
  \/ UserRuns \/ Ecall
  \/ SchedulerRuns \/ Usertrap \/ Syscall \/ Handler
  \/ Halted

Spec == Init /\ [][Next]_vars

(***************************************************************************)
(* Fairness.  The hart executes whatever statement it is at; a pending     *)
(* interrupt is taken before the next instruction once it is enabled; the  *)
(* turn over proc[] is finite, so a scheduler that is back in its loop     *)
(* again and again ends it.                                                *)
(***************************************************************************)
Fairness ==
  /\ WF_vars(SchedulerRuns) /\ SF_vars(SchedWrap)
  /\ WF_vars(Usertrap) /\ WF_vars(SyscallReturns \/ SyscallSleeps)
  /\ WF_vars(Handler)
  /\ \A cause \in {"timer", "external"} : SF_vars(Interrupt(cause))

FairSpec == Spec /\ Fairness

-----------------------------------------------------------------------------
(* Properties                                                              *)

Frame == [was : Position] \cup
         [was : Position, sepc : Position, spp : {"U", "S"}, spie : BOOLEAN]

\* Types and ranges of the CSRs, the frames and the threads; the UART never gives
\* more bytes than it has.
TypeOK ==
  /\ cur \in Threads
  /\ mode \in {"U", "S", "wild"}
  /\ sie \in BOOLEAN /\ spie \in BOOLEAN /\ spp \in {"U", "S"}
  /\ sepc \in Position /\ scause \in Causes /\ stvec \in Vectors
  /\ sscratch \in Procs \cup {None}
  /\ ssip \in BOOLEAN /\ rx \in 0 .. MaxRx
  /\ cproc \in Procs \cup {None}
  /\ status \in [Procs -> {"READY", "RUNNING", "SLEEPING"}]
  /\ loc \in [Threads -> Labels]
  /\ frames \in [Threads -> Seq(Frame)]
  /\ epc \in [Procs -> UserPc] /\ upc \in UserPc /\ due \in [Procs -> UserPc]
  /\ ureg \in Procs \cup {None}

\* Whenever an interrupt can be taken, stvec is the vector of the mode the hart
\* is in, and in user mode sscratch is the trapframe of the process that runs:
\* no interleaving of yields and returns leaves the other one behind.
VectorMatchesMode ==
  /\ mode = "U" => /\ stvec = "user_trap_entry"
                   /\ sscratch = cur /\ cproc = cur
  /\ mode = "S" /\ sie => stvec = "sys_trap_vector"

\* The two panics of sys_trap_handler (trap.c:101-104) are unreachable.
HandlerNeverPanics == At("sys_trap_vector") => HandlerChecks

\* A process sees its own registers and goes on where it was interrupted, or
\* after its ecall, however often the kernel yielded or slept in between.
UserResumes == mode = "U" => ureg = cur /\ upc = due[cur]

\* The handler's return to supervisor mode is not undone by an interrupt taken
\* after a yield: at sret SPP and SPIE are those of its own trap.
SretRestoresStatus ==
  At("sret") => ~sie /\ spp = "S" /\ spie

\* sepc and sstatus "may have been modified, for instance by a nested interrupt,
\* and are restored" (trap.c:181-184): at sret sepc is where the trap was taken.
SretReturnsToTrap == At("sret") => sepc = frames[cur][Top].was

\* A tick is acted on: the scheduler turns SIE on again after a yield left it
\* off (proc.c:231), and no path keeps it off for ever.
TickHandled == ssip ~> (~ssip \/ mode = "wild")
=============================================================================
