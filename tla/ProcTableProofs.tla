-------------------------- MODULE ProcTableProofs --------------------------
(***************************************************************************)
(* For any number of slots, CPUs, pids and arguments: IInv is an inductive *)
(* invariant of ProcTable, with one lemma per action, and it implies that  *)
(* no process runs on two CPUs, that a kernel stack in use is never freed  *)
(* and that the panics of sched() never happen.  WaitInv adds who sleeps   *)
(* on what: no wakeup is lost and every process has a live parent.         *)
(***************************************************************************)
EXTENDS ProcTable, TLAPS

(* Nobody and initproc in terms of the sets they belong to or not.         *)
LEMMA Constants ==
  /\ Nobody \notin Slots /\ Nobody \notin CPUs
  /\ initproc \in Slots /\ 0 \in CPUs
BY ConstantAssumptions DEF Nobody, Slots, CPUs, initproc

(* scheduler() takes the free ptable.lock. *)
LEMMA SchedAcquireStep ==
  ASSUME IInv, NEW c \in CPUs, SchedAcquire(c)
  PROVE  IInv'
<1> USE Constants DEF IInv
<1> USE DEF SchedAcquire, InScheduler, locks, cpu, ids, thread
<1>1. TypeOK'
  BY ConstantAssumptions DEF TypeOK
<1>2. CpuInv'
  BY DEF CpuInv
<1>3. UniqueInv'
  BY DEF UniqueInv
<1>4. OffCpuInv'
  BY DEF TypeOK, OffCpuInv, OnCpu, SwtchPcs, ResumePcs
<1>5. TicksInv'
  BY DEF TicksInv
<1>6. ForkInv'
  BY DEF ForkInv
<1> QED BY <1>1, <1>2, <1>3, <1>4, <1>5, <1>6

(* The chosen process is RUNNABLE, hence on no CPU and at a label where its
   thread expects ptable.lock to be held by the CPU it resumes on. *)
LEMMA SchedRunStep ==
  ASSUME IInv, NEW c \in CPUs, SchedRun(c)
  PROVE  IInv'
<1> USE Constants DEF IInv
<1> USE DEF SchedRun, InScheduler, First, Ahead, locks, ids, thread
<1>0. PICK p \in First(Ahead(c)) :
        /\ proc' = [proc EXCEPT ![c] = p]
        /\ scan' = [scan EXCEPT ![c] = p + 1]
        /\ state' = [state EXCEPT ![p] = "RUNNING"]
  OBVIOUS
<1>p. p \in Slots /\ p + 1 \in 0 .. NPROC
  BY ConstantAssumptions DEF Slots
<1>r. ~OnCpu(p) /\ kstack[p] /\ pc[p] \in ResumePcs
  BY DEF TypeOK, CpuInv, OffCpuInv, OnCpu, SwtchPcs
<1>1. TypeOK'
  BY <1>0, <1>p DEF TypeOK, States
<1>2. CpuInv'
  BY <1>0, <1>p, <1>r DEF TypeOK, CpuInv, OnCpu, SwtchPcs, ResumePcs
<1>3. UniqueInv'
  BY <1>0, <1>p, <1>r DEF TypeOK, UniqueInv, OnCpu
<1>4. OffCpuInv'
  BY <1>0, <1>p DEF TypeOK, OffCpuInv, OnCpu
<1>5. TicksInv'
  BY <1>0, <1>p, <1>r DEF TypeOK, TicksInv, ResumePcs
<1>6. ForkInv'
  BY <1>0, <1>p DEF TypeOK, ForkInv
<1> QED BY <1>1, <1>2, <1>3, <1>4, <1>5, <1>6

(* No thread off the CPUs relies on who holds ptable.lock. *)
LEMMA SchedReleaseStep ==
  ASSUME IInv, NEW c \in CPUs, SchedRelease(c)
  PROVE  IInv'
<1> USE Constants DEF IInv
<1> USE DEF SchedRelease, InScheduler, locks, cpu, ids, thread
<1>1. TypeOK'
  BY DEF TypeOK
<1>2. CpuInv'
  BY DEF CpuInv
<1>3. UniqueInv'
  BY DEF UniqueInv
<1>4. OffCpuInv'
  BY DEF TypeOK, OffCpuInv, OnCpu, SwtchPcs, ResumePcs
<1>5. TicksInv'
  BY DEF TicksInv
<1>6. ForkInv'
  BY DEF ForkInv
<1> QED BY <1>1, <1>2, <1>3, <1>4, <1>5, <1>6

(* The thread leaves its CPU in a state other than RUNNING, with a resume label. *)
LEMMA SchedStep ==
  ASSUME IInv, NEW c \in CPUs, Sched(c)
  PROVE  IInv'
<1> USE Constants DEF IInv
<1> USE DEF Sched, Runs, Goto, Resume, locks, cpu, ids, thread
<1>1. TypeOK'
  BY DEF TypeOK, Interruptible, Pcs, SwtchPcs, ResumePcs, States
<1>2. CpuInv'
  BY DEF TypeOK, CpuInv, SwtchPcs, ResumePcs
<1>3. UniqueInv'
  BY DEF UniqueInv
<1>4. OffCpuInv'
  BY DEF TypeOK, OffCpuInv, OnCpu, SwtchPcs, ResumePcs, CpuInv, UniqueInv, ForkInv
<1>5. TicksInv'
  BY DEF TypeOK, TicksInv, Interruptible, CpuInv, UniqueInv, ForkInv, SwtchPcs,
         ResumePcs
<1>6. ForkInv'
  BY DEF TypeOK, ForkInv, InTrap
<1> QED BY <1>1, <1>2, <1>3, <1>4, <1>5, <1>6

(* The timer interrupt of CPU 0 takes tickslock. *)
LEMMA TickStep ==
  ASSUME IInv, NEW c \in CPUs, Tick(c)
  PROVE  IInv'
<1> USE Constants DEF IInv
<1> USE DEF Tick, TimerArrives, InScheduler, Runs, locks, cpu, ids, thread
<1>1. TypeOK'
  BY DEF TypeOK
<1>2. CpuInv'
  BY DEF CpuInv
<1>3. UniqueInv'
  BY DEF UniqueInv
<1>4. OffCpuInv'
  BY DEF TypeOK, OffCpuInv, OnCpu, SwtchPcs, ResumePcs
<1>5. TicksInv'
  BY DEF TypeOK, TicksInv, Interruptible
<1>6. ForkInv'
  BY DEF ForkInv
<1> QED BY <1>1, <1>2, <1>3, <1>4, <1>5, <1>6

(* Only sleepers change state, and none of them is on a CPU: ptable.lock is free. *)
LEMMA TickWakeupStep ==
  ASSUME IInv, NEW c \in CPUs, TickWakeup(c)
  PROVE  IInv'
<1> USE Constants DEF IInv
<1> USE DEF TickWakeup, wakeup1, TrapTail, Goto, locks, cpu, ids, thread
<1>1. TypeOK'
  BY DEF TypeOK, TicksInv, Interruptible, Pcs, SwtchPcs, ResumePcs, States
<1>2. CpuInv'
  BY DEF TypeOK, CpuInv, SwtchPcs, ResumePcs
<1>3. UniqueInv'
  BY DEF UniqueInv
<1>4. OffCpuInv'
  BY DEF TypeOK, OffCpuInv, OnCpu, SwtchPcs, ResumePcs
<1>5. TicksInv'
  BY DEF TypeOK, TicksInv, Interruptible
<1>6. ForkInv'
  BY DEF TypeOK, ForkInv, InTrap
<1> QED BY <1>1, <1>2, <1>3, <1>4, <1>5, <1>6

(* The timer interrupt of another CPU. *)
LEMMA TimerOtherStep ==
  ASSUME IInv, NEW c \in CPUs, TimerOther(c)
  PROVE  IInv'
<1> USE Constants DEF IInv
<1> USE DEF TimerOther, TimerArrives, TrapTail, InScheduler, Runs, Goto, locks, cpu, ids, thread
<1>1. TypeOK'
  BY DEF TypeOK, Interruptible, Pcs, SwtchPcs, ResumePcs, States
<1>2. CpuInv'
  BY DEF TypeOK, CpuInv, SwtchPcs, ResumePcs, UniqueInv, OffCpuInv, ForkInv, TicksInv,
         OnCpu, Interruptible
<1>3. UniqueInv'
  BY DEF UniqueInv
<1>4. OffCpuInv'
  BY DEF TypeOK, OffCpuInv, OnCpu, SwtchPcs, ResumePcs
<1>5. TicksInv'
  BY DEF TypeOK, TicksInv, Interruptible, CpuInv, UniqueInv, ForkInv, SwtchPcs,
         ResumePcs
<1>6. ForkInv'
  BY DEF TypeOK, ForkInv, InTrap
<1> QED BY <1>1, <1>2, <1>3, <1>4, <1>5, <1>6

(* trap() looks at proc->killed before and after yield(). *)
LEMMA TrapKillStep ==
  ASSUME IInv, NEW c \in CPUs, TrapKill(c)
  PROVE  IInv'
<1> USE Constants DEF IInv
<1> USE DEF TrapKill, Runs, Goto, locks, cpu, ids, thread
<1>1. TypeOK'
  BY DEF TypeOK, Interruptible, Pcs, SwtchPcs, ResumePcs, States
<1>2. CpuInv'
  BY DEF TypeOK, CpuInv, SwtchPcs, ResumePcs, UniqueInv, OffCpuInv, ForkInv, TicksInv,
         OnCpu, Interruptible
<1>3. UniqueInv'
  BY DEF UniqueInv
<1>4. OffCpuInv'
  BY DEF TypeOK, OffCpuInv, OnCpu, SwtchPcs, ResumePcs
<1>5. TicksInv'
  BY DEF TypeOK, TicksInv, Interruptible
<1>6. ForkInv'
  BY DEF TypeOK, ForkInv, InTrap
<1> QED BY <1>1, <1>2, <1>3, <1>4, <1>5, <1>6

(* yield() makes the process RUNNABLE once its CPU holds ptable.lock. *)
LEMMA YieldStep ==
  ASSUME IInv, NEW c \in CPUs, Yield(c)
  PROVE  IInv'
<1> USE Constants DEF IInv
<1> USE DEF Yield, Runs, Goto, locks, cpu, ids, thread
<1>1. TypeOK'
  BY DEF TypeOK, Interruptible, Pcs, SwtchPcs, ResumePcs, States
<1>2. CpuInv'
  BY DEF TypeOK, CpuInv, SwtchPcs, ResumePcs, UniqueInv, OffCpuInv, ForkInv, TicksInv,
         OnCpu, Interruptible
<1>3. UniqueInv'
  BY DEF UniqueInv
<1>4. OffCpuInv'
  BY DEF TypeOK, OffCpuInv, OnCpu, SwtchPcs, ResumePcs
<1>5. TicksInv'
  BY DEF TypeOK, TicksInv, Interruptible
<1>6. ForkInv'
  BY DEF TypeOK, ForkInv, InTrap, CpuInv, OffCpuInv, TicksInv, Interruptible,
         SwtchPcs, ResumePcs
<1> QED BY <1>1, <1>2, <1>3, <1>4, <1>5, <1>6

(* The resumed thread holds ptable.lock, so it may release it. *)
LEMMA YieldReturnStep ==
  ASSUME IInv, NEW c \in CPUs, YieldReturn(c)
  PROVE  IInv'
<1> USE Constants DEF IInv
<1> USE DEF YieldReturn, Runs, Goto, locks, cpu, ids, thread
<1>1. TypeOK'
  BY DEF TypeOK, Interruptible, Pcs, SwtchPcs, ResumePcs, States
<1>2. CpuInv'
  BY DEF TypeOK, CpuInv, SwtchPcs, ResumePcs
<1>3. UniqueInv'
  BY DEF UniqueInv
<1>4. OffCpuInv'
  BY DEF TypeOK, OffCpuInv, OnCpu, SwtchPcs, ResumePcs
<1>5. TicksInv'
  BY DEF TypeOK, TicksInv, Interruptible
<1>6. ForkInv'
  BY DEF TypeOK, ForkInv, InTrap
<1> QED BY <1>1, <1>2, <1>3, <1>4, <1>5, <1>6

(* trap() looks at proc->killed around a system call. *)
LEMMA SyscallExitStep ==
  ASSUME IInv, NEW c \in CPUs, SyscallExit(c)
  PROVE  IInv'
<1> USE Constants DEF IInv
<1> USE DEF SyscallExit, Runs, Goto, locks, cpu, ids, thread
<1>1. TypeOK'
  BY DEF TypeOK, Interruptible, Pcs, SwtchPcs, ResumePcs, States
<1>2. CpuInv'
  BY DEF TypeOK, CpuInv, SwtchPcs, ResumePcs
<1>3. UniqueInv'
  BY DEF UniqueInv
<1>4. OffCpuInv'
  BY DEF TypeOK, OffCpuInv, OnCpu, SwtchPcs, ResumePcs
<1>5. TicksInv'
  BY DEF TypeOK, TicksInv, Interruptible, CpuInv, UniqueInv, ForkInv, SwtchPcs,
         ResumePcs
<1>6. ForkInv'
  BY DEF TypeOK, ForkInv, InTrap
<1> QED BY <1>1, <1>2, <1>3, <1>4, <1>5, <1>6

(* The new EMBRYO was UNUSED: no other fork works on it. *)
LEMMA ForkAllocStep ==
  ASSUME IInv, NEW c \in CPUs, ForkAlloc(c)
  PROVE  IInv'
<1> USE Constants DEF IInv
<1> USE DEF ForkAlloc, Enters, Runs, First, Unused, Goto, locks, cpu, ids, thread
<1>1. TypeOK'
  BY DEF TypeOK, Interruptible, Pcs, SwtchPcs, ResumePcs, States
<1>2. CpuInv'
  BY DEF TypeOK, CpuInv, SwtchPcs, ResumePcs
<1>3. UniqueInv'
  BY DEF UniqueInv
<1>4. OffCpuInv'
  BY DEF TypeOK, OffCpuInv, OnCpu, SwtchPcs, ResumePcs
<1>5. TicksInv'
  BY DEF TypeOK, TicksInv, Interruptible
<1>6. ForkInv'
  BY DEF TypeOK, ForkInv, InTrap
<1> QED BY <1>1, <1>2, <1>3, <1>4, <1>5, <1>6

(* The EMBRYO is on no CPU. *)
LEMMA ForkFailsStep ==
  ASSUME IInv, NEW c \in CPUs, ForkFails(c)
  PROVE  IInv'
<1> USE Constants DEF IInv
<1> USE DEF ForkFails, Runs, Goto, locks, cpu, ids, thread
<1>1. TypeOK'
  BY DEF TypeOK, Interruptible, Pcs, SwtchPcs, ResumePcs, States
<1>2. CpuInv'
  BY DEF TypeOK, CpuInv, SwtchPcs, ResumePcs, UniqueInv, OffCpuInv, ForkInv, TicksInv,
         OnCpu, Interruptible
<1>3. UniqueInv'
  BY DEF UniqueInv
<1>4. OffCpuInv'
  BY DEF TypeOK, OffCpuInv, OnCpu, SwtchPcs, ResumePcs
<1>5. TicksInv'
  BY DEF TypeOK, TicksInv, Interruptible, CpuInv, UniqueInv, ForkInv, SwtchPcs,
         ResumePcs
<1>6. ForkInv'
  BY DEF TypeOK, ForkInv, InTrap
<1> QED BY <1>1, <1>2, <1>3, <1>4, <1>5, <1>6

(* The EMBRYO is on no CPU, and becomes RUNNABLE at forkret. *)
LEMMA ForkDoneStep ==
  ASSUME IInv, NEW c \in CPUs, ForkDone(c)
  PROVE  IInv'
<1> USE Constants DEF IInv
<1> USE DEF ForkDone, Runs, locks, cpu, ids, thread
<1>1. TypeOK'
  BY DEF TypeOK, Interruptible, Pcs, SwtchPcs, ResumePcs, States
<1>2. CpuInv'
  BY DEF TypeOK, CpuInv, SwtchPcs, ResumePcs, UniqueInv, OffCpuInv, ForkInv, TicksInv,
         OnCpu, Interruptible
<1>3. UniqueInv'
  BY DEF UniqueInv
<1>4. OffCpuInv'
  BY DEF TypeOK, OffCpuInv, OnCpu, SwtchPcs, ResumePcs
<1>5. TicksInv'
  BY DEF TypeOK, TicksInv, Interruptible, CpuInv, UniqueInv, ForkInv, SwtchPcs,
         ResumePcs
<1>6. ForkInv'
  BY DEF TypeOK, ForkInv, InTrap
<1> QED BY <1>1, <1>2, <1>3, <1>4, <1>5, <1>6

(* exit() becomes a ZOMBIE once its CPU holds ptable.lock. *)
LEMMA ExitStep ==
  ASSUME IInv, NEW c \in CPUs, Exit(c)
  PROVE  IInv'
<1> USE Constants DEF IInv
<1> USE DEF Exit, Runs, wakeup1, Goto, locks, cpu, ids, thread
<1>1. TypeOK'
  BY DEF TypeOK, Interruptible, Pcs, SwtchPcs, ResumePcs, States
<1>2. CpuInv'
  BY DEF TypeOK, CpuInv, SwtchPcs, ResumePcs, UniqueInv, OffCpuInv, ForkInv, TicksInv,
         OnCpu, Interruptible
<1>3. UniqueInv'
  BY DEF UniqueInv
<1>4. OffCpuInv'
  BY DEF TypeOK, OffCpuInv, OnCpu, SwtchPcs, ResumePcs
<1>5. TicksInv'
  BY DEF TypeOK, TicksInv, Interruptible
<1>6. ForkInv'
  BY DEF TypeOK, ForkInv, InTrap, CpuInv, OffCpuInv, TicksInv, Interruptible,
         SwtchPcs, ResumePcs
<1> QED BY <1>1, <1>2, <1>3, <1>4, <1>5, <1>6

(* A call of wait(). *)
LEMMA WaitCallStep ==
  ASSUME IInv, NEW c \in CPUs, WaitCall(c)
  PROVE  IInv'
<1> USE Constants DEF IInv
<1> USE DEF WaitCall, Enters, Runs, Goto, locks, cpu, ids, thread
<1>1. TypeOK'
  BY DEF TypeOK, Interruptible, Pcs, SwtchPcs, ResumePcs, States
<1>2. CpuInv'
  BY DEF TypeOK, CpuInv, SwtchPcs, ResumePcs
<1>3. UniqueInv'
  BY DEF UniqueInv
<1>4. OffCpuInv'
  BY DEF TypeOK, OffCpuInv, OnCpu, SwtchPcs, ResumePcs
<1>5. TicksInv'
  BY DEF TypeOK, TicksInv, Interruptible, CpuInv, UniqueInv, ForkInv, SwtchPcs,
         ResumePcs
<1>6. ForkInv'
  BY DEF TypeOK, ForkInv, InTrap
<1> QED BY <1>1, <1>2, <1>3, <1>4, <1>5, <1>6

(* ptable.lock is free or held by the parent's CPU, so the ZOMBIE has left its
   CPU and its kernel stack is not in use. *)
LEMMA WaitReapStep ==
  ASSUME IInv, NEW c \in CPUs, WaitReap(c)
  PROVE  IInv'
<1> USE Constants DEF IInv
<1> USE DEF WaitReap, InWait, Runs, First, Zombies, Kids, locks, cpu, ids, thread
<1>1. TypeOK'
  BY DEF TypeOK, Interruptible, Pcs, SwtchPcs, ResumePcs, States
<1>2. CpuInv'
  BY DEF TypeOK, CpuInv, SwtchPcs, ResumePcs
<1>3. UniqueInv'
  BY DEF UniqueInv
<1>4. OffCpuInv'
  BY DEF TypeOK, OffCpuInv, OnCpu, SwtchPcs, ResumePcs
<1>5. TicksInv'
  BY DEF TypeOK, TicksInv, Interruptible, CpuInv, UniqueInv, ForkInv, SwtchPcs,
         ResumePcs
<1>6. ForkInv'
  BY DEF TypeOK, ForkInv, InTrap
<1> QED BY <1>1, <1>2, <1>3, <1>4, <1>5, <1>6

(* wait() returns -1. *)
LEMMA WaitFailsStep ==
  ASSUME IInv, NEW c \in CPUs, WaitFails(c)
  PROVE  IInv'
<1> USE Constants DEF IInv
<1> USE DEF WaitFails, InWait, Runs, Goto, locks, cpu, ids, thread
<1>1. TypeOK'
  BY DEF TypeOK, Interruptible, Pcs, SwtchPcs, ResumePcs, States
<1>2. CpuInv'
  BY DEF TypeOK, CpuInv, SwtchPcs, ResumePcs
<1>3. UniqueInv'
  BY DEF UniqueInv
<1>4. OffCpuInv'
  BY DEF TypeOK, OffCpuInv, OnCpu, SwtchPcs, ResumePcs
<1>5. TicksInv'
  BY DEF TypeOK, TicksInv, Interruptible
<1>6. ForkInv'
  BY DEF TypeOK, ForkInv, InTrap
<1> QED BY <1>1, <1>2, <1>3, <1>4, <1>5, <1>6

(* wait() goes to sleep with ptable.lock held. *)
LEMMA WaitSleepStep ==
  ASSUME IInv, NEW c \in CPUs, WaitSleep(c)
  PROVE  IInv'
<1> USE Constants DEF IInv
<1> USE DEF WaitSleep, InWait, Runs, Goto, locks, cpu, ids, thread
<1>1. TypeOK'
  BY DEF TypeOK, Interruptible, Pcs, SwtchPcs, ResumePcs, States
<1>2. CpuInv'
  BY DEF TypeOK, CpuInv, SwtchPcs, ResumePcs, UniqueInv, OffCpuInv, ForkInv, TicksInv,
         OnCpu, Interruptible
<1>3. UniqueInv'
  BY DEF UniqueInv
<1>4. OffCpuInv'
  BY DEF TypeOK, OffCpuInv, OnCpu, SwtchPcs, ResumePcs
<1>5. TicksInv'
  BY DEF TypeOK, TicksInv, Interruptible
<1>6. ForkInv'
  BY DEF TypeOK, ForkInv, InTrap, CpuInv, OffCpuInv, TicksInv, Interruptible,
         SwtchPcs, ResumePcs
<1> QED BY <1>1, <1>2, <1>3, <1>4, <1>5, <1>6

(* sys_sleep() takes tickslock. *)
LEMMA SleepCallStep ==
  ASSUME IInv, NEW c \in CPUs, NEW n \in SleepArgs, SleepCall(c, n)
  PROVE  IInv'
<1> USE Constants DEF IInv
<1> USE DEF SleepCall, Enters, Runs, Goto, locks, cpu, ids, thread
<1>1. TypeOK'
  BY ConstantAssumptions DEF TypeOK, Interruptible, Pcs, SwtchPcs, ResumePcs, States
<1>2. CpuInv'
  BY DEF TypeOK, CpuInv, SwtchPcs, ResumePcs
<1>3. UniqueInv'
  BY DEF UniqueInv
<1>4. OffCpuInv'
  BY DEF TypeOK, OffCpuInv, OnCpu, SwtchPcs, ResumePcs
<1>5. TicksInv'
  BY DEF TypeOK, TicksInv, Interruptible, CpuInv, UniqueInv, ForkInv, SwtchPcs,
         ResumePcs
<1>6. ForkInv'
  BY DEF TypeOK, ForkInv, InTrap
<1> QED BY <1>1, <1>2, <1>3, <1>4, <1>5, <1>6

(* sys_sleep() releases tickslock, which its CPU holds. *)
LEMMA SleepDoneStep ==
  ASSUME IInv, NEW c \in CPUs, SleepDone(c)
  PROVE  IInv'
<1> USE Constants DEF IInv
<1> USE DEF SleepDone, Runs, Goto, locks, cpu, ids, thread
<1>1. TypeOK'
  BY DEF TypeOK, Interruptible, Pcs, SwtchPcs, ResumePcs, States
<1>2. CpuInv'
  BY DEF TypeOK, CpuInv, SwtchPcs, ResumePcs
<1>3. UniqueInv'
  BY DEF UniqueInv
<1>4. OffCpuInv'
  BY DEF TypeOK, OffCpuInv, OnCpu, SwtchPcs, ResumePcs
<1>5. TicksInv'
  BY DEF TypeOK, TicksInv, Interruptible
<1>6. ForkInv'
  BY DEF TypeOK, ForkInv, InTrap
<1> QED BY <1>1, <1>2, <1>3, <1>4, <1>5, <1>6

(* sleep() exchanges tickslock for ptable.lock. *)
LEMMA SleepSleepStep ==
  ASSUME IInv, NEW c \in CPUs, SleepSleep(c)
  PROVE  IInv'
<1> USE Constants DEF IInv
<1> USE DEF SleepSleep, Runs, Goto, locks, cpu, ids, thread
<1>1. TypeOK'
  BY DEF TypeOK, Interruptible, Pcs, SwtchPcs, ResumePcs, States
<1>2. CpuInv'
  BY DEF TypeOK, CpuInv, SwtchPcs, ResumePcs, UniqueInv, OffCpuInv, ForkInv, TicksInv,
         OnCpu, Interruptible
<1>3. UniqueInv'
  BY DEF UniqueInv
<1>4. OffCpuInv'
  BY DEF TypeOK, OffCpuInv, OnCpu, SwtchPcs, ResumePcs
<1>5. TicksInv'
  BY DEF TypeOK, TicksInv, Interruptible
<1>6. ForkInv'
  BY DEF TypeOK, ForkInv, InTrap, CpuInv, OffCpuInv, TicksInv, Interruptible,
         SwtchPcs, ResumePcs
<1> QED BY <1>1, <1>2, <1>3, <1>4, <1>5, <1>6

(* sleep() releases ptable.lock. *)
LEMMA SleepReturnStep ==
  ASSUME IInv, NEW c \in CPUs, SleepReturn(c)
  PROVE  IInv'
<1> USE Constants DEF IInv
<1> USE DEF SleepReturn, Runs, Goto, locks, cpu, ids, thread
<1>1. TypeOK'
  BY DEF TypeOK, Interruptible, Pcs, SwtchPcs, ResumePcs, States
<1>2. CpuInv'
  BY DEF TypeOK, CpuInv, SwtchPcs, ResumePcs
<1>3. UniqueInv'
  BY DEF UniqueInv
<1>4. OffCpuInv'
  BY DEF TypeOK, OffCpuInv, OnCpu, SwtchPcs, ResumePcs
<1>5. TicksInv'
  BY DEF TypeOK, TicksInv, Interruptible
<1>6. ForkInv'
  BY DEF TypeOK, ForkInv, InTrap
<1> QED BY <1>1, <1>2, <1>3, <1>4, <1>5, <1>6

(* sleep() takes tickslock again. *)
LEMMA SleepReacquireStep ==
  ASSUME IInv, NEW c \in CPUs, SleepReacquire(c)
  PROVE  IInv'
<1> USE Constants DEF IInv
<1> USE DEF SleepReacquire, Runs, Goto, locks, cpu, ids, thread
<1>1. TypeOK'
  BY DEF TypeOK, Interruptible, Pcs, SwtchPcs, ResumePcs, States
<1>2. CpuInv'
  BY DEF TypeOK, CpuInv, SwtchPcs, ResumePcs
<1>3. UniqueInv'
  BY DEF UniqueInv
<1>4. OffCpuInv'
  BY DEF TypeOK, OffCpuInv, OnCpu, SwtchPcs, ResumePcs
<1>5. TicksInv'
  BY DEF TypeOK, TicksInv, Interruptible, CpuInv, UniqueInv, ForkInv, SwtchPcs,
         ResumePcs
<1>6. ForkInv'
  BY DEF TypeOK, ForkInv, InTrap
<1> QED BY <1>1, <1>2, <1>3, <1>4, <1>5, <1>6

(* kill() changes a state only from SLEEPING to RUNNABLE. *)
LEMMA KillStep ==
  ASSUME IInv, NEW c \in CPUs, NEW k \in KillArgs, Kill(c, k)
  PROVE  IInv'
<1> USE Constants DEF IInv
<1> USE DEF Kill, Enters, Runs, First, Goto, locks, cpu, ids, thread
<1>1. TypeOK'
  BY DEF TypeOK, Interruptible, Pcs, SwtchPcs, ResumePcs, States
<1>2. CpuInv'
  BY DEF TypeOK, CpuInv, SwtchPcs, ResumePcs
<1>3. UniqueInv'
  BY DEF UniqueInv
<1>4. OffCpuInv'
  BY DEF TypeOK, OffCpuInv, OnCpu, SwtchPcs, ResumePcs
<1>5. TicksInv'
  BY DEF TypeOK, TicksInv, Interruptible, CpuInv, UniqueInv, ForkInv, SwtchPcs,
         ResumePcs
<1>6. ForkInv'
  BY DEF TypeOK, ForkInv, InTrap
<1> QED BY <1>1, <1>2, <1>3, <1>4, <1>5, <1>6

-----------------------------------------------------------------------------
(* The boot state: nothing runs, and init is RUNNABLE at forkret.          *)
LEMMA InitIInv == Init => IInv
<1> SUFFICES ASSUME Init PROVE IInv
  OBVIOUS
<1> USE Constants DEF Init
<1>1. TypeOK
  BY ConstantAssumptions DEF TypeOK, Pcs, SwtchPcs, ResumePcs, States, Interruptible
<1>2. CpuInv /\ UniqueInv
  BY DEF CpuInv, UniqueInv
<1>3. OffCpuInv
  BY DEF OffCpuInv, OnCpu, ResumePcs
<1>4. TicksInv
  BY DEF TicksInv
<1>5. ForkInv
  BY DEF ForkInv, InTrap
<1> QED BY <1>1, <1>2, <1>3, <1>4, <1>5 DEF IInv

(* A step that changes nothing keeps every part of the invariant.          *)
LEMMA StutterIInv == IInv /\ UNCHANGED vars => IInv'
<1> SUFFICES ASSUME IInv, UNCHANGED vars PROVE IInv'
  OBVIOUS
<1> USE DEF IInv, vars
<1>1. TypeOK'
  BY DEF TypeOK
<1>2. CpuInv' /\ UniqueInv'
  BY DEF CpuInv, UniqueInv
<1>3. OffCpuInv'
  BY DEF OffCpuInv, OnCpu
<1>4. TicksInv'
  BY DEF TicksInv
<1>5. ForkInv'
  BY DEF ForkInv
<1> QED BY <1>1, <1>2, <1>3, <1>4, <1>5

\* The parts of IInv together survive every step of every CPU.
THEOREM Inductive == IInv /\ [Next]_vars => IInv'
<1> SUFFICES ASSUME IInv, [Next]_vars PROVE IInv'
  OBVIOUS
<1>1. CASE UNCHANGED vars
  BY <1>1, StutterIInv
<1>2. ASSUME NEW c \in CPUs,
             \/ SchedAcquire(c) \/ SchedRun(c) \/ SchedRelease(c) \/ Sched(c)
             \/ Tick(c) \/ TickWakeup(c) \/ TimerOther(c)
      PROVE  IInv'
  BY <1>2, SchedAcquireStep, SchedRunStep, SchedReleaseStep, SchedStep, TickStep,
     TickWakeupStep, TimerOtherStep
<1>3. ASSUME NEW c \in CPUs,
             \/ TrapKill(c) \/ Yield(c) \/ YieldReturn(c) \/ SyscallExit(c)
             \/ ForkAlloc(c) \/ ForkFails(c) \/ ForkDone(c) \/ Exit(c)
      PROVE  IInv'
  BY <1>3, TrapKillStep, YieldStep, YieldReturnStep, SyscallExitStep, ForkAllocStep,
     ForkFailsStep, ForkDoneStep, ExitStep
<1>4. ASSUME NEW c \in CPUs,
             \/ WaitCall(c) \/ WaitReap(c) \/ WaitFails(c) \/ WaitSleep(c)
             \/ SleepDone(c) \/ SleepSleep(c) \/ SleepReturn(c) \/ SleepReacquire(c)
      PROVE  IInv'
  BY <1>4, WaitCallStep, WaitReapStep, WaitFailsStep, WaitSleepStep, SleepDoneStep,
     SleepSleepStep, SleepReturnStep, SleepReacquireStep
<1>5. ASSUME NEW c \in CPUs, NEW n \in SleepArgs, SleepCall(c, n)
      PROVE  IInv'
  BY <1>5, SleepCallStep
<1>6. ASSUME NEW c \in CPUs, NEW k \in KillArgs, Kill(c, k)
      PROVE  IInv'
  BY <1>6, KillStep
<1> QED BY <1>1, <1>2, <1>3, <1>4, <1>5, <1>6 DEF Next

(* The three invariants are consequences of IInv, state by state.          *)
LEMMA Consequences == IInv => TypeOK /\ OneCpuPerProc /\ KstackInUse /\ SchedAssertions
<1> SUFFICES ASSUME IInv PROVE OneCpuPerProc /\ KstackInUse /\ SchedAssertions
  BY DEF IInv
<1> USE DEF IInv
<1>1. OneCpuPerProc
  BY DEF OneCpuPerProc, TypeOK, UniqueInv, CpuInv, OffCpuInv, OnCpu
<1>2. KstackInUse
  BY DEF KstackInUse, CpuInv
<1>3. SchedAssertions
  BY DEF SchedAssertions, TypeOK, CpuInv, TicksInv, SwtchPcs, Interruptible
<1> QED BY <1>1, <1>2, <1>3

-----------------------------------------------------------------------------
\* Every variable of the process table keeps its type.
THEOREM TypeCorrect == Spec => []TypeOK
<1>1. Spec => []IInv
  BY InitIInv, Inductive, PTL DEF Spec
<1> QED BY <1>1, Consequences, PTL

\* No process runs on two CPUs, however the schedulers, timers and system
\* calls of any number of CPUs interleave.
THEOREM MutualExclusion == Spec => []OneCpuPerProc
<1>1. Spec => []IInv
  BY InitIInv, Inductive, PTL DEF Spec
<1> QED BY <1>1, Consequences, PTL

\* wait() never frees the kernel stack a CPU executes on: exit() holds
\* ptable.lock from becoming a ZOMBIE until its CPU has left the stack.
THEOREM StackSafe == Spec => []KstackInUse
<1>1. Spec => []IInv
  BY InitIInv, Inductive, PTL DEF Spec
<1> QED BY <1>1, Consequences, PTL

\* sched() never panics.
THEOREM SchedNeverPanics == Spec => []SchedAssertions
<1>1. Spec => []IInv
  BY InitIInv, Inductive, PTL DEF Spec
<1> QED BY <1>1, Consequences, PTL

\* The three together, as the runs check them: no process is executed twice or
\* on a freed stack, and sched() never panics.
THEOREM SchedulingSafe == Spec => []SchedSafe
<1>1. IInv => SchedSafe
  BY Consequences DEF SchedSafe
<1>2. Spec => []IInv
  BY InitIInv, Inductive, PTL DEF Spec
<1> QED BY <1>1, <1>2, PTL

-----------------------------------------------------------------------------
(***************************************************************************)
(* Processes that wait for each other: FamilyInv and WakeInv, on top of    *)
(* IInv.  A process is RUNNING while it executes, so no step of its own    *)
(* can be the wakeup it sleeps for.                                        *)
(***************************************************************************)
(* What wakeup1 does to a process.                                         *)
LEMMA Wakeup1Effect ==
  ASSUME TypeOK, NEW st \in [Slots -> States], NEW ch
  PROVE  /\ wakeup1(st, ch) \in [Slots -> States]
         /\ \A p \in Slots : /\ wakeup1(st, ch)[p] = "SLEEPING" => st[p] = "SLEEPING" /\ chan[p] # ch
                             /\ wakeup1(st, ch)[p] \in Live <=> st[p] \in Live
                             /\ wakeup1(st, ch)[p] = "ZOMBIE" <=> st[p] = "ZOMBIE"
BY DEF wakeup1, States, Live

(* Whoever executes outside sched() is alive and not asleep.               *)
LEMMA RunnerIsRunning ==
  ASSUME IInv, NEW c \in CPUs, proc[c] # Nobody, pc[proc[c]] \notin SwtchPcs
  PROVE  proc[c] \in Slots /\ state[proc[c]] = "RUNNING"
BY DEF IInv, TypeOK, CpuInv

(* The steps that neither change who is asleep nor who is whose parent.    *)
LEMMA QuietStep ==
  ASSUME WaitInv, UNCHANGED <<state, parent, chan, left, irq>>
  PROVE  FamilyInv' /\ WakeInv'
BY DEF WaitInv, FamilyInv, WakeInv, Zombies, Kids

(* The scheduler makes a RUNNABLE process RUNNING, yield() the reverse.    *)
LEMMA SchedRunWaits ==
  ASSUME WaitInv, NEW c \in CPUs, SchedRun(c)
  PROVE  FamilyInv' /\ WakeInv'
<1> USE DEF WaitInv, IInv, TypeOK
<1>0. PICK p \in Slots : state[p] = "RUNNABLE" /\ state' = [state EXCEPT ![p] = "RUNNING"]
  BY DEF SchedRun, First, Ahead
<1>1. UNCHANGED <<parent, chan, left, irq>>
  BY DEF SchedRun, ids, thread
<1>2. FamilyInv'
  BY <1>0, <1>1, Constants DEF FamilyInv, Live
<1>3. WakeInv'
  BY <1>0, <1>1 DEF WakeInv, Zombies, Kids
<1> QED BY <1>2, <1>3

LEMMA YieldWaits ==
  ASSUME WaitInv, NEW c \in CPUs, Yield(c)
  PROVE  FamilyInv' /\ WakeInv'
<1> USE DEF WaitInv
<1>0. /\ proc[c] \in Slots /\ state[proc[c]] = "RUNNING" /\ TypeOK
      /\ state' = [state EXCEPT ![proc[c]] = "RUNNABLE"]
      /\ UNCHANGED <<parent, chan, left, irq>>
  BY RunnerIsRunning DEF Yield, Runs, SwtchPcs, IInv, cpu, ids, thread
<1>1. FamilyInv'
  BY <1>0, Constants DEF FamilyInv, Live, TypeOK
<1>2. WakeInv'
  BY <1>0 DEF WakeInv, Zombies, Kids, TypeOK
<1> QED BY <1>1, <1>2

(* The tick that ends a sleep raises irq, under tickslock.                 *)
LEMMA TickWaits ==
  ASSUME WaitInv, NEW c \in CPUs, Tick(c)
  PROVE  FamilyInv' /\ WakeInv'
<1> USE DEF WaitInv, IInv, Tick, ids
<1>1. FamilyInv'
  BY DEF FamilyInv
<1>2. WakeInv'
  BY DEF TypeOK, WakeInv, Zombies, Kids
<1> QED BY <1>1, <1>2

(* wakeup(&ticks) leaves nobody asleep on &ticks.                          *)
LEMMA TickWakeupWaits ==
  ASSUME WaitInv, NEW c \in CPUs, TickWakeup(c)
  PROVE  FamilyInv' /\ WakeInv'
<1> USE DEF WaitInv, IInv, TickWakeup, ids
<1>0. /\ state' \in [Slots -> States]
      /\ \A p \in Slots : /\ state'[p] = "SLEEPING" => state[p] = "SLEEPING" /\ chan[p] # Ticks
                          /\ state'[p] \in Live <=> state[p] \in Live
                          /\ state'[p] = "ZOMBIE" <=> state[p] = "ZOMBIE"
  BY Wakeup1Effect DEF TypeOK
<1>1. FamilyInv'
  BY <1>0, Constants DEF FamilyInv, TypeOK
<1>2. WakeInv'
  BY <1>0 DEF WakeInv, Zombies, Kids
<1> QED BY <1>1, <1>2

(* A slot that is UNUSED or an EMBRYO is nobody's parent.                  *)
LEMMA ForkAllocWaits ==
  ASSUME WaitInv, NEW c \in CPUs, ForkAlloc(c)
  PROVE  FamilyInv' /\ WakeInv'
<1> USE DEF WaitInv, IInv, TypeOK
<1>0. PICK new \in Slots : state[new] = "UNUSED" /\ state' = [state EXCEPT ![new] = "EMBRYO"]
  BY DEF ForkAlloc, First, Unused
<1>1. UNCHANGED <<parent, chan, left, irq>>
  BY DEF ForkAlloc, cpu
<1>2. FamilyInv'
  BY <1>0, <1>1, Constants DEF FamilyInv, Live
<1>3. WakeInv'
  BY <1>0, <1>1 DEF WakeInv, Zombies, Kids
<1> QED BY <1>2, <1>3

LEMMA ForkFailsWaits ==
  ASSUME WaitInv, NEW c \in CPUs, ForkFails(c)
  PROVE  FamilyInv' /\ WakeInv'
<1> USE DEF WaitInv, IInv
<1>0. proc[c] \in Slots /\ np[proc[c]] \in Slots /\ state[np[proc[c]]] = "EMBRYO"
  BY RunnerIsRunning DEF ForkFails, Runs, SwtchPcs, ForkInv, TypeOK
<1>1. /\ state' = [state EXCEPT ![np[proc[c]]] = "UNUSED"]
      /\ UNCHANGED <<parent, chan, left, irq>>
  BY DEF ForkFails, ids, cpu
<1>2. FamilyInv'
  BY <1>0, <1>1, Constants DEF FamilyInv, Live, TypeOK
<1>3. WakeInv'
  BY <1>0, <1>1 DEF WakeInv, Zombies, Kids, TypeOK
<1> QED BY <1>2, <1>3

(* The child gets a parent, which executes fork(), when it becomes RUNNABLE. *)
LEMMA ForkDoneWaits ==
  ASSUME WaitInv, NEW c \in CPUs, ForkDone(c)
  PROVE  FamilyInv' /\ WakeInv'
<1> USE DEF WaitInv, IInv
<1>0. /\ proc[c] \in Slots /\ state[proc[c]] = "RUNNING"
      /\ np[proc[c]] \in Slots /\ state[np[proc[c]]] = "EMBRYO"
  BY RunnerIsRunning DEF ForkDone, Runs, SwtchPcs, ForkInv, TypeOK
<1>1. /\ state' = [state EXCEPT ![np[proc[c]]] = "RUNNABLE"]
      /\ parent' = [parent EXCEPT ![np[proc[c]]] = proc[c]]
      /\ UNCHANGED <<chan, left, irq>>
  BY DEF ForkDone, cpu
<1>n. parent[np[proc[c]]] = Nobody
  BY <1>0 DEF TypeOK, FamilyInv, Live
<1>2. FamilyInv'
  BY <1>0, <1>1, Constants DEF FamilyInv, Live, TypeOK
<1>3. ASSUME NEW p \in Slots, state'[p] = "SLEEPING"
      PROVE  /\ state[p] = "SLEEPING"
             /\ Kids(p)' = Kids(p)
             /\ Zombies(p)' = Zombies(p)
  BY <1>0, <1>1, <1>3, <1>n, Constants DEF Zombies, Kids, TypeOK
<1>4. WakeInv'
  BY <1>1, <1>3 DEF WakeInv
<1> QED BY <1>2, <1>4

(* exit() wakes its parent, and init if it inherits a ZOMBIE, in the step in
   which it becomes a ZOMBIE itself. *)
LEMMA ExitWaits ==
  ASSUME WaitInv, NEW c \in CPUs, Exit(c)
  PROVE  FamilyInv' /\ WakeInv'
<1> USE DEF WaitInv, IInv
<1> DEFINE p     == proc[c]
           kids  == {q \in Slots : parent[q] = p}
           woken == wakeup1(state, parent[p])
           some  == \E q \in kids : state[q] = "ZOMBIE"
           after == IF some THEN wakeup1(woken, initproc) ELSE woken
<1>0. p \in Slots /\ state[p] = "RUNNING" /\ p # initproc
  BY RunnerIsRunning DEF Exit, Runs, SwtchPcs
<1>1. /\ parent' = [q \in Slots |-> IF parent[q] = p THEN initproc ELSE parent[q]]
      /\ state' = [after EXCEPT ![p] = "ZOMBIE"]
      /\ UNCHANGED <<chan, left, irq>>
  BY DEF Exit, thread, cpu
<1>2. /\ woken \in [Slots -> States]
      /\ \A q \in Slots : /\ woken[q] = "SLEEPING" => state[q] = "SLEEPING" /\ chan[q] # parent[p]
                          /\ woken[q] \in Live <=> state[q] \in Live
                          /\ woken[q] = "ZOMBIE" <=> state[q] = "ZOMBIE"
  BY Wakeup1Effect DEF TypeOK
<1>3. /\ after \in [Slots -> States]
      /\ \A q \in Slots : /\ after[q] = "SLEEPING" => state[q] = "SLEEPING" /\ chan[q] # parent[p]
                          /\ after[q] = "SLEEPING" /\ some => chan[q] # initproc
                          /\ after[q] \in Live <=> state[q] \in Live
                          /\ after[q] = "ZOMBIE" <=> state[q] = "ZOMBIE"
  <2> HIDE DEF woken, some
  <2>1. CASE some
    <3>1. /\ wakeup1(woken, initproc) \in [Slots -> States]
          /\ \A q \in Slots : /\ wakeup1(woken, initproc)[q] = "SLEEPING" => woken[q] = "SLEEPING" /\ chan[q] # initproc
                              /\ wakeup1(woken, initproc)[q] \in Live <=> woken[q] \in Live
                              /\ wakeup1(woken, initproc)[q] = "ZOMBIE" <=> woken[q] = "ZOMBIE"
      BY <1>2, Wakeup1Effect
    <3> QED BY <1>2, <2>1, <3>1
  <2>2. CASE ~some
    BY <1>2, <2>2
  <2> QED BY <2>1, <2>2
<1> HIDE DEF woken, after
<1>4. FamilyInv'
  BY <1>0, <1>1, <1>3, Constants DEF FamilyInv, Live, TypeOK
<1>5. ASSUME NEW q \in Slots, state'[q] = "SLEEPING"
      PROVE  /\ q # p /\ state[q] = "SLEEPING" /\ chan[q] # parent[p]
             /\ some => chan[q] # initproc
  BY <1>0, <1>1, <1>3, <1>5
<1>6. ASSUME NEW q \in Slots, state'[q] = "SLEEPING", chan[q] = q
      PROVE  Zombies(q)' = {} /\ Kids(q)' # {}
  <2>1. Kids(q) \subseteq Kids(q)' /\ Kids(q) # {} /\ Zombies(q) = {}
    BY <1>0, <1>1, <1>5, <1>6 DEF Kids, WakeInv, TypeOK
  <2>2. SUFFICES ASSUME NEW z \in Zombies(q)' PROVE FALSE
    BY <2>1
  <2>3. z \in Slots /\ parent'[z] = q /\ state'[z] = "ZOMBIE"
    BY <2>2 DEF Zombies, Kids
  <2>4. CASE z = p
    BY <1>0, <1>1, <1>5, <1>6, <2>3, <2>4 DEF TypeOK, FamilyInv, Live
  <2>5. CASE z # p /\ parent[z] = p
    BY <1>0, <1>1, <1>3, <1>5, <1>6, <2>3, <2>5
  <2>6. CASE z # p /\ parent[z] # p
    BY <1>0, <1>1, <1>3, <1>5, <1>6, <2>1, <2>3, <2>6 DEF Zombies, Kids
  <2> QED BY <2>4, <2>5, <2>6
<1>7. WakeInv'
  BY <1>1, <1>5, <1>6 DEF WakeInv
<1> QED BY <1>4, <1>7

(* A ZOMBIE is nobody's parent, and its own parent is not asleep.          *)
LEMMA WaitReapWaits ==
  ASSUME WaitInv, NEW c \in CPUs, WaitReap(c)
  PROVE  FamilyInv' /\ WakeInv'
<1> USE DEF WaitInv, IInv
<1> DEFINE p == proc[c]
<1>0. p \in Slots /\ state[p] = "RUNNING"
  BY RunnerIsRunning DEF WaitReap, InWait, Runs, SwtchPcs
<1>1. PICK z \in Slots :
        /\ parent[z] = p /\ state[z] = "ZOMBIE"
        /\ state' = [state EXCEPT ![z] = "UNUSED"]
        /\ parent' = [parent EXCEPT ![z] = Nobody]
  BY DEF WaitReap, First, Zombies, Kids
<1>2. chan' = [chan EXCEPT ![p] = Nobody] /\ UNCHANGED <<left, irq>>
  BY DEF WaitReap, thread, cpu
<1>3. FamilyInv'
  BY <1>0, <1>1, Constants DEF FamilyInv, Live, TypeOK
<1>4. ASSUME NEW q \in Slots, state'[q] = "SLEEPING"
      PROVE  /\ q # p /\ state[q] = "SLEEPING"
             /\ Kids(q)' = Kids(q)
             /\ Zombies(q)' = Zombies(q)
  BY <1>0, <1>1, <1>4, Constants DEF Zombies, Kids, TypeOK
<1>5. WakeInv'
  BY <1>0, <1>2, <1>4 DEF WakeInv, TypeOK
<1> QED BY <1>3, <1>5

(* The steps that only clear the channel of a running process.             *)
LEMMA ChanStep ==
  ASSUME WaitInv, NEW c \in CPUs, WaitFails(c) \/ SleepReturn(c)
  PROVE  FamilyInv' /\ WakeInv'
<1> USE DEF WaitInv, IInv
<1>0. proc[c] \in Slots /\ state[proc[c]] = "RUNNING"
  BY RunnerIsRunning DEF WaitFails, SleepReturn, InWait, Runs, SwtchPcs
<1>1. chan' = [chan EXCEPT ![proc[c]] = Nobody] /\ UNCHANGED <<state, parent, left, irq>>
  BY DEF WaitFails, SleepReturn, ids, thread, cpu
<1>2. FamilyInv'
  BY <1>1 DEF FamilyInv
<1>3. WakeInv'
  BY <1>0, <1>1 DEF WakeInv, Zombies, Kids, TypeOK
<1> QED BY <1>2, <1>3

(* wait() has looked at its children under the lock it sleeps with.        *)
LEMMA WaitSleepWaits ==
  ASSUME WaitInv, NEW c \in CPUs, WaitSleep(c)
  PROVE  FamilyInv' /\ WakeInv'
<1> USE DEF WaitInv, IInv
<1> DEFINE p == proc[c]
<1>0. p \in Slots /\ state[p] = "RUNNING"
  BY RunnerIsRunning DEF WaitSleep, InWait, Runs, SwtchPcs
<1>1. /\ chan' = [chan EXCEPT ![p] = p] /\ state' = [state EXCEPT ![p] = "SLEEPING"]
      /\ Zombies(p) = {} /\ Kids(p) # {}
      /\ UNCHANGED <<parent, left, irq>>
  BY DEF WaitSleep, ids, thread, cpu
<1>2. FamilyInv'
  BY <1>0, <1>1, Constants DEF FamilyInv, Live, TypeOK
<1>3. \A q \in Slots : Kids(q)' = Kids(q) /\ Zombies(q)' = Zombies(q)
  BY <1>0, <1>1 DEF Kids, Zombies, TypeOK
<1>4. p # Ticks
  BY <1>0, ConstantAssumptions DEF Slots, Ticks
<1>5. WakeInv'
  BY <1>0, <1>1, <1>3, <1>4 DEF WakeInv, TypeOK
<1> QED BY <1>2, <1>5

(* sys_sleep() changes the time left of a process that executes.           *)
LEMMA LeftStep ==
  ASSUME WaitInv, NEW c \in CPUs, SleepDone(c) \/ \E n \in SleepArgs : SleepCall(c, n)
  PROVE  FamilyInv' /\ WakeInv'
<1> USE DEF WaitInv, IInv
<1>0. proc[c] \in Slots /\ state[proc[c]] = "RUNNING"
  BY RunnerIsRunning DEF SleepDone, SleepCall, Enters, Runs, SwtchPcs
<1>1. PICK n \in Nat : left' = [left EXCEPT ![proc[c]] = n]
  BY ConstantAssumptions DEF SleepDone, SleepCall
<1>2. UNCHANGED <<state, parent, chan, irq>>
  BY DEF SleepDone, SleepCall, ids, cpu
<1>3. FamilyInv'
  BY <1>2 DEF FamilyInv
<1>4. WakeInv'
  BY <1>0, <1>1, <1>2 DEF WakeInv, Zombies, Kids, TypeOK
<1> QED BY <1>3, <1>4

(* sys_sleep() sleeps only with time left.                                 *)
LEMMA SleepSleepWaits ==
  ASSUME WaitInv, NEW c \in CPUs, SleepSleep(c)
  PROVE  FamilyInv' /\ WakeInv'
<1> USE DEF WaitInv, IInv
<1> DEFINE p == proc[c]
<1>0. p \in Slots /\ state[p] = "RUNNING"
  BY RunnerIsRunning DEF SleepSleep, Runs, SwtchPcs
<1>1. /\ chan' = [chan EXCEPT ![p] = Ticks] /\ state' = [state EXCEPT ![p] = "SLEEPING"]
      /\ left[p] # 0
      /\ UNCHANGED <<parent, left, irq>>
  BY <1>0 DEF SleepSleep, ids, thread, cpu, TypeOK
<1>2. FamilyInv'
  BY <1>0, <1>1, Constants DEF FamilyInv, Live, TypeOK
<1>3. \A q \in Slots : Kids(q)' = Kids(q) /\ Zombies(q)' = Zombies(q)
  BY <1>0, <1>1 DEF Kids, Zombies, TypeOK
<1>4. p # Ticks
  BY <1>0, ConstantAssumptions DEF Slots, Ticks
<1>5. WakeInv'
  BY <1>0, <1>1, <1>3, <1>4 DEF WakeInv, TypeOK
<1> QED BY <1>2, <1>5

(* kill() makes a sleeper RUNNABLE.                                        *)
LEMMA KillWaits ==
  ASSUME WaitInv, NEW c \in CPUs, NEW k \in KillArgs, Kill(c, k)
  PROVE  FamilyInv' /\ WakeInv'
<1> USE DEF WaitInv, IInv
<1>0. PICK q \in Slots : state' = [state EXCEPT ![q] = IF @ = "SLEEPING" THEN "RUNNABLE" ELSE @]
  BY DEF Kill, First
<1>1. UNCHANGED <<parent, chan, left, irq>>
  BY DEF Kill, ids, cpu, thread
<1>2. FamilyInv'
  BY <1>0, <1>1, Constants DEF FamilyInv, Live, TypeOK
<1>3. WakeInv'
  BY <1>0, <1>1 DEF WakeInv, Zombies, Kids, TypeOK
<1> QED BY <1>2, <1>3

(* At boot only init exists, and it is not asleep.                         *)
LEMMA InitWaitInv == Init => WaitInv
<1> SUFFICES ASSUME Init PROVE FamilyInv /\ WakeInv
  BY InitIInv DEF WaitInv
<1>1. FamilyInv
  BY Constants DEF Init, FamilyInv, Live
<1>2. WakeInv
  BY DEF Init, WakeInv
<1> QED BY <1>1, <1>2

\* Who waits for whom stays sound through every step of every CPU.
THEOREM WaitInductive == WaitInv /\ [Next]_vars => WaitInv'
<1> SUFFICES ASSUME WaitInv, [Next]_vars PROVE WaitInv'
  OBVIOUS
<1>0. IInv'
  BY Inductive DEF WaitInv
<1> SUFFICES FamilyInv' /\ WakeInv'
  BY <1>0 DEF WaitInv
<1>1. CASE UNCHANGED vars
  BY <1>1, QuietStep DEF vars
<1>2. ASSUME NEW c \in CPUs,
             \/ SchedAcquire(c) \/ SchedRelease(c) \/ Sched(c) \/ TimerOther(c)
             \/ TrapKill(c) \/ YieldReturn(c) \/ SyscallExit(c)
             \/ WaitCall(c) \/ SleepReacquire(c)
      PROVE  UNCHANGED <<state, parent, chan, left, irq>>
  BY <1>2 DEF SchedAcquire, SchedRelease, Sched, TimerOther, TrapKill, YieldReturn, SyscallExit,
              WaitCall, SleepReacquire, cpu, ids, thread
<1>3. ASSUME NEW c \in CPUs,
             \/ SchedRun(c) \/ Yield(c) \/ Tick(c) \/ TickWakeup(c)
             \/ ForkAlloc(c) \/ ForkFails(c) \/ ForkDone(c) \/ Exit(c)
      PROVE  FamilyInv' /\ WakeInv'
  BY <1>3, SchedRunWaits, YieldWaits, TickWaits, TickWakeupWaits, ForkAllocWaits,
     ForkFailsWaits, ForkDoneWaits, ExitWaits
<1>4. ASSUME NEW c \in CPUs,
             \/ WaitReap(c) \/ WaitFails(c) \/ WaitSleep(c)
             \/ (\E n \in SleepArgs : SleepCall(c, n))
             \/ SleepDone(c) \/ SleepSleep(c) \/ SleepReturn(c)
             \/ (\E k \in KillArgs : Kill(c, k))
      PROVE  FamilyInv' /\ WakeInv'
  BY <1>4, WaitReapWaits, ChanStep, WaitSleepWaits, LeftStep, SleepSleepWaits, KillWaits
<1> QED BY <1>1, <1>2, <1>3, <1>4, QuietStep DEF Next

\* The parent of a live process or ZOMBIE is alive, so that somebody can reap
\* it: exit() hands its children to init under ptable.lock (proc.c:185-203).
THEOREM ParentsLive == Spec => []ParentAlive
<1>1. WaitInv => ParentAlive
  BY Constants DEF WaitInv, FamilyInv, Live, ParentAlive
<1>2. Spec => []WaitInv
  BY InitWaitInv, WaitInductive, PTL DEF Spec
<1> QED BY <1>1, <1>2, PTL

\* No wakeup is lost between the test of a condition and the sleep on it,
\* neither the one exit() sends to wait() nor the tick that ends sys_sleep():
\* sleep() gives up the condition's lock only once it holds ptable.lock (proc.c:346).
THEOREM WakeupsArrive == Spec => []NoLostWakeup
<1>1. WaitInv => NoLostWakeup
  BY DEF WaitInv, WakeInv, NoLostWakeup
<1>2. Spec => []WaitInv
  BY InitWaitInv, WaitInductive, PTL DEF Spec
<1> QED BY <1>1, <1>2, PTL

=============================================================================
