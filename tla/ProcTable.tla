----------------------------- MODULE ProcTable -----------------------------
(***************************************************************************)
(* The process table of the P5 kernel and everything that moves a process  *)
(* between its states: allocproc, fork, exit, wait, scheduler, sched,      *)
(* yield, sleep, wakeup and kill (kernel/proc.c), sys_sleep                *)
(* (kernel/sysproc.c) and the system-call and timer paths of trap()        *)
(* (kernel/trap.c), on several CPUs.                                       *)
(*                                                                         *)
(* A CPU runs either its scheduler thread (proc = 0) or the kernel or user *)
(* thread of one process.  pc says where the thread of a process is.  A    *)
(* critical section of ptable.lock that neither waits nor switches is one  *)
(* step, guarded by the lock being free; the lock is held across steps     *)
(* exactly where the code holds it across swtch().  acquire() turns        *)
(* interrupts off, so that the timer arrives only at the labels of         *)
(* Interruptible and in a scheduler that holds no lock.                    *)
(*                                                                         *)
(* ticks is represented by what sys_sleep computes from it: the ticks left *)
(* until ticks - ticks0 reaches n.                                         *)
(***************************************************************************)
EXTENDS Integers

CONSTANTS
  NPROC,      \* slots of ptable.proc; slot 0 is initproc
  NCPU,       \* CPUs; CPU 0 counts the ticks
  MaxPid,     \* bound on nextpid
  KillArgs,   \* arguments user programs give to kill
  SleepArgs   \* arguments user programs give to sleep

ASSUME ConstantAssumptions ==
  /\ NPROC \in Nat \ {0} /\ NCPU \in Nat \ {0} /\ MaxPid \in Nat \ {0}
  /\ KillArgs \subseteq Int /\ SleepArgs \subseteq Nat

Slots    == 0 .. NPROC - 1
CPUs     == 0 .. NCPU - 1
initproc == 0
Nobody   == -1              \* no process, no CPU, no channel, no parent
Ticks    == NPROC           \* the channel &ticks; a slot is the channel of its wait()

States   == {"UNUSED", "EMBRYO", "SLEEPING", "RUNNABLE", "RUNNING", "ZOMBIE"}

(* In sched(), about to swtch to the scheduler; and where swtch returns.   *)
SwtchPcs  == {"yield_swtch", "sleep_swtch", "wait_swtch", "exit_swtch"}
ResumePcs == {"forkret", "yield_ret", "sleep_ret", "wait_ret"}
Pcs       == SwtchPcs \cup ResumePcs \cup
             {"none", "user", "sysret", "fork", "exit", "wait", "trap_kill", "yield", "trap_kill2",
              "sleep_test", "sleep_reacquire", "dead"}

VARIABLES
  ptlock,   \* the CPU that holds ptable.lock
  tickslock,\* the CPU that holds tickslock
  proc,     \* cpu->proc
  scan,     \* p of scheduler()'s loop: the first slot it has not looked at
  irq,      \* the CPU is in the timer interrupt, about to call wakeup(&ticks)
  state,    \* p->state
  pid,      \* p->pid
  parent,   \* p->parent
  killed,   \* p->killed
  chan,     \* p->chan
  kstack,   \* p->kstack is allocated
  pc,       \* where the thread of p is
  saved,    \* where the timer interrupted p
  left,     \* n - (ticks - ticks0) of a running sys_sleep
  np,       \* np of a running fork
  nextpid

locks  == <<ptlock, tickslock>>
cpu    == <<proc, scan, irq>>
ids    == <<pid, parent, nextpid>>
thread == <<saved, left, np>>
vars   == <<ptlock, tickslock, proc, scan, irq, state, pid, parent, killed, chan, kstack,
            pc, saved, left, np, nextpid>>

-----------------------------------------------------------------------------
(* CPU c executes the thread of a process, which is at label l.            *)
Runs(c, l) == proc[c] # Nobody /\ ~irq[c] /\ pc[proc[c]] = l
Goto(p, l) == pc' = [pc EXCEPT ![p] = l]

(* CPU c executes scheduler().                                             *)
InScheduler(c) == proc[c] = Nobody /\ ~irq[c]

(* wakeup1, applied to the states st.                                      *)
wakeup1(st, ch) ==
  [p \in Slots |-> IF st[p] = "SLEEPING" /\ chan[p] = ch THEN "RUNNABLE" ELSE st[p]]

(* The first slot of S in table order, if there is one.                    *)
First(S) == {p \in S : \A q \in S : p <= q}

(***************************************************************************)
(* scheduler: takes ptable.lock, runs every RUNNABLE process it meets      *)
(* from slot to slot, and releases the lock at the end of the table.       *)
(***************************************************************************)
SchedAcquire(c) ==
  /\ InScheduler(c) /\ ptlock = Nobody
  /\ ptlock' = c
  /\ scan' = [scan EXCEPT ![c] = 0]
  /\ UNCHANGED <<tickslock, proc, irq, state, ids, killed, chan, kstack, pc, thread>>

Ahead(c) == {p \in Slots : p >= scan[c] /\ state[p] = "RUNNABLE"}

SchedRun(c) ==
  /\ InScheduler(c) /\ ptlock = c
  /\ \E p \in First(Ahead(c)) :
       /\ proc' = [proc EXCEPT ![c] = p]
       /\ scan' = [scan EXCEPT ![c] = p + 1]
       /\ state' = [state EXCEPT ![p] = "RUNNING"]
  /\ UNCHANGED <<locks, irq, ids, killed, chan, kstack, pc, thread>>

SchedRelease(c) ==
  /\ InScheduler(c) /\ ptlock = c /\ Ahead(c) = {}
  /\ ptlock' = Nobody
  /\ UNCHANGED <<tickslock, cpu, state, ids, killed, chan, kstack, pc, thread>>

(* swtch in sched(): back to scheduler(), which still holds ptable.lock.   *)
Resume(l) == CASE l = "yield_swtch" -> "yield_ret"
               [] l = "sleep_swtch" -> "sleep_ret"
               [] l = "wait_swtch"  -> "wait_ret"
               [] OTHER             -> "dead"

Sched(c) ==
  /\ \E l \in SwtchPcs : Runs(c, l)
  /\ Goto(proc[c], Resume(pc[proc[c]]))
  /\ proc' = [proc EXCEPT ![c] = Nobody]
  /\ UNCHANGED <<locks, scan, irq, state, ids, killed, chan, kstack, thread>>

-----------------------------------------------------------------------------
(***************************************************************************)
(* The timer interrupt of trap().  CPU 0 counts the tick under tickslock   *)
(* and wakes the sleepers; then the interrupted process exits if it was    *)
(* killed in user mode, and yields.                                        *)
(***************************************************************************)
Interruptible == {"user", "fork"}
TimerArrives(c) ==
  \/ InScheduler(c) /\ ptlock # c
  \/ \E l \in Interruptible : Runs(c, l)

TrapTail(c) ==
  IF proc[c] = Nobody THEN UNCHANGED <<pc, saved>>
  ELSE /\ Goto(proc[c], "trap_kill")
       /\ saved' = [saved EXCEPT ![proc[c]] = pc[proc[c]]]

\* Mutant: the time left is not bounded below.
TickUnderflow(c) ==
  /\ c = 0 /\ TimerArrives(c) /\ tickslock = Nobody
  /\ tickslock' = c
  /\ left' = [p \in Slots |-> left[p] - 1]
  /\ irq' = [irq EXCEPT ![c] = TRUE]
  /\ UNCHANGED <<ptlock, proc, scan, state, ids, killed, chan, kstack, pc, saved, np>>

Tick(c) ==
  /\ c = 0 /\ TimerArrives(c) /\ tickslock = Nobody
  /\ tickslock' = c
  /\ left' = [p \in Slots |-> IF left[p] > 0 THEN left[p] - 1 ELSE 0]
  /\ irq' = [irq EXCEPT ![c] = TRUE]
  /\ UNCHANGED <<ptlock, proc, scan, state, ids, killed, chan, kstack, pc, saved, np>>

TickWakeup(c) ==
  /\ irq[c] /\ ptlock = Nobody
  /\ state' = wakeup1(state, Ticks)
  /\ tickslock' = Nobody
  /\ irq' = [irq EXCEPT ![c] = FALSE]
  /\ TrapTail(c)
  /\ UNCHANGED <<ptlock, proc, scan, ids, killed, chan, kstack, left, np>>

TimerOther(c) ==
  /\ c # 0 /\ TimerArrives(c) /\ proc[c] # Nobody
  /\ TrapTail(c)
  /\ UNCHANGED <<locks, cpu, state, ids, killed, chan, kstack, left, np>>

(* if(proc->killed && in user space) exit(), before and after the yield.   *)
TrapKill(c) ==
  LET p == proc[c]
      dies == killed[p] /\ saved[p] = "user"
  IN
  /\ \/ Runs(c, "trap_kill") /\ Goto(p, IF dies THEN "exit" ELSE "yield")
     \/ Runs(c, "trap_kill2") /\ Goto(p, IF dies THEN "exit" ELSE saved[p])
  /\ UNCHANGED <<locks, cpu, state, ids, killed, chan, kstack, thread>>

\* Mutant: the process becomes RUNNABLE without ptable.lock.
YieldUnlocked(c) ==
  /\ Runs(c, "yield")
  /\ state' = [state EXCEPT ![proc[c]] = "RUNNABLE"]
  /\ Goto(proc[c], "yield_swtch")
  /\ UNCHANGED <<locks, cpu, ids, killed, chan, kstack, thread>>

Yield(c) ==
  /\ Runs(c, "yield") /\ ptlock = Nobody
  /\ ptlock' = c
  /\ state' = [state EXCEPT ![proc[c]] = "RUNNABLE"]
  /\ Goto(proc[c], "yield_swtch")
  /\ UNCHANGED <<tickslock, cpu, ids, killed, chan, kstack, thread>>

(* A thread that resumes in yield() or forkret() releases ptable.lock.     *)
YieldReturn(c) ==
  /\ \/ Runs(c, "yield_ret") /\ Goto(proc[c], "trap_kill2")
     \/ Runs(c, "forkret") /\ Goto(proc[c], "user")
  /\ ptlock' = Nobody
  /\ UNCHANGED <<tickslock, cpu, state, ids, killed, chan, kstack, thread>>

-----------------------------------------------------------------------------
(* trap() for T_SYSCALL: a killed process exits before and after the call. *)
Enters(c) == Runs(c, "user") /\ ~killed[proc[c]]

SyscallExit(c) ==
  /\ \/ Runs(c, "user") /\ (killed[proc[c]] \/ proc[c] # initproc) /\ Goto(proc[c], "exit")
     \/ Runs(c, "sysret") /\ Goto(proc[c], IF killed[proc[c]] THEN "exit" ELSE "user")
  /\ UNCHANGED <<locks, cpu, state, ids, killed, chan, kstack, thread>>

(***************************************************************************)
(* fork.  allocproc takes the first UNUSED slot; the rest runs without     *)
(* ptable.lock.  Memory may run out: the slot is UNUSED again and keeps    *)
(* its pid.                                                                *)
(***************************************************************************)
Unused == {p \in Slots : state[p] = "UNUSED"}

ForkAlloc(c) ==
  /\ Enters(c) /\ ptlock = Nobody /\ nextpid <= MaxPid
  /\ \E new \in First(Unused) :
       /\ state' = [state EXCEPT ![new] = "EMBRYO"]
       /\ pid' = [pid EXCEPT ![new] = nextpid]
       /\ np' = [np EXCEPT ![proc[c]] = new]
  /\ nextpid' = nextpid + 1
  /\ Goto(proc[c], "fork")
  /\ UNCHANGED <<locks, cpu, parent, killed, chan, kstack, saved, left>>

ForkFails(c) ==
  LET p == proc[c] IN
  /\ Runs(c, "fork")
  /\ state' = [state EXCEPT ![np[p]] = "UNUSED"]
  /\ np' = [np EXCEPT ![p] = Nobody]
  /\ Goto(p, "sysret")
  /\ UNCHANGED <<locks, cpu, ids, killed, chan, kstack, saved, left>>

ForkDone(c) ==
  LET p == proc[c] IN
  /\ Runs(c, "fork")
  /\ kstack' = [kstack EXCEPT ![np[p]] = TRUE]
  /\ parent' = [parent EXCEPT ![np[p]] = p]
  /\ state' = [state EXCEPT ![np[p]] = "RUNNABLE"]
  /\ np' = [np EXCEPT ![p] = Nobody]
  /\ pc' = [pc EXCEPT ![p] = "sysret", ![np[p]] = "forkret"]
  /\ UNCHANGED <<locks, cpu, pid, nextpid, killed, chan, saved, left>>

\* Mutant: the children keep their dead parent.
ExitKeepsKids(c) ==
  /\ Runs(c, "exit") /\ ptlock = Nobody /\ proc[c] # initproc
  /\ ptlock' = c
  /\ state' = [wakeup1(state, parent[proc[c]]) EXCEPT ![proc[c]] = "ZOMBIE"]
  /\ Goto(proc[c], "exit_swtch")
  /\ UNCHANGED <<tickslock, cpu, ids, killed, chan, kstack, thread>>

\* Mutant: the parent is not woken.
ExitSilent(c) ==
  LET p == proc[c]
      kids == {q \in Slots : parent[q] = p}
  IN
  /\ Runs(c, "exit") /\ ptlock = Nobody /\ p # initproc
  /\ ptlock' = c
  /\ parent' = [q \in Slots |-> IF q \in kids THEN initproc ELSE parent[q]]
  /\ state' = [(IF \E q \in kids : state[q] = "ZOMBIE" THEN wakeup1(state, initproc) ELSE state)
                EXCEPT ![p] = "ZOMBIE"]
  /\ Goto(p, "exit_swtch")
  /\ UNCHANGED <<tickslock, cpu, pid, nextpid, killed, chan, kstack, thread>>

(***************************************************************************)
(* exit: wakes the parent, gives the children to init, becomes a ZOMBIE    *)
(* and switches away for good, all in one critical section.                *)
(***************************************************************************)
Exit(c) ==
  LET p == proc[c]
      kids == {q \in Slots : parent[q] = p}
      woken == wakeup1(state, parent[p])
  IN
  /\ Runs(c, "exit") /\ ptlock = Nobody /\ p # initproc
  /\ ptlock' = c
  /\ parent' = [q \in Slots |-> IF q \in kids THEN initproc ELSE parent[q]]
  /\ state' = [(IF \E q \in kids : state[q] = "ZOMBIE" THEN wakeup1(woken, initproc) ELSE woken)
                EXCEPT ![p] = "ZOMBIE"]
  /\ Goto(p, "exit_swtch")
  /\ UNCHANGED <<tickslock, cpu, pid, nextpid, killed, chan, kstack, thread>>

(***************************************************************************)
(* wait: reaps the first ZOMBIE child, returns without children or when    *)
(* killed, or sleeps on its own slot and starts over when woken.           *)
(***************************************************************************)
Kids(p)    == {q \in Slots : parent[q] = p}
Zombies(p) == {q \in Kids(p) : state[q] = "ZOMBIE"}

WaitCall(c) ==
  /\ Enters(c)
  /\ Goto(proc[c], "wait")
  /\ UNCHANGED <<locks, cpu, state, ids, killed, chan, kstack, thread>>

(* wait() gets ptable.lock, or sleep() returns to it with the lock held.   *)
InWait(c) == \/ Runs(c, "wait") /\ ptlock = Nobody
             \/ Runs(c, "wait_ret")

WaitReap(c) ==
  LET p == proc[c] IN
  /\ InWait(c)
  /\ \E z \in First(Zombies(p)) :
       /\ kstack' = [kstack EXCEPT ![z] = FALSE]
       /\ state' = [state EXCEPT ![z] = "UNUSED"]
       /\ pid' = [pid EXCEPT ![z] = 0]
       /\ parent' = [parent EXCEPT ![z] = Nobody]
       /\ killed' = [killed EXCEPT ![z] = FALSE]
       /\ pc' = [pc EXCEPT ![p] = "sysret", ![z] = "none"]
  /\ chan' = [chan EXCEPT ![p] = Nobody]
  /\ ptlock' = Nobody
  /\ UNCHANGED <<tickslock, cpu, thread, nextpid>>

WaitFails(c) ==
  LET p == proc[c] IN
  /\ InWait(c) /\ Zombies(p) = {} /\ (Kids(p) = {} \/ killed[p])
  /\ ptlock' = Nobody
  /\ chan' = [chan EXCEPT ![p] = Nobody]
  /\ Goto(p, "sysret")
  /\ UNCHANGED <<tickslock, cpu, state, ids, killed, kstack, thread>>

WaitSleep(c) ==
  LET p == proc[c] IN
  /\ InWait(c) /\ Zombies(p) = {} /\ Kids(p) # {} /\ ~killed[p]
  /\ ptlock' = c
  /\ chan' = [chan EXCEPT ![p] = p]
  /\ state' = [state EXCEPT ![p] = "SLEEPING"]
  /\ Goto(p, "wait_swtch")
  /\ UNCHANGED <<tickslock, cpu, ids, killed, kstack, thread>>

(***************************************************************************)
(* sys_sleep: tests its condition and killed under tickslock; sleep()      *)
(* takes ptable.lock before it lets go of tickslock, and takes tickslock   *)
(* again after it has let go of ptable.lock.                               *)
(***************************************************************************)
SleepCall(c, n) ==
  /\ Enters(c) /\ tickslock = Nobody
  /\ tickslock' = c
  /\ left' = [left EXCEPT ![proc[c]] = n]
  /\ Goto(proc[c], "sleep_test")
  /\ UNCHANGED <<ptlock, cpu, state, ids, killed, chan, kstack, saved, np>>

SleepDone(c) ==
  LET p == proc[c] IN
  /\ Runs(c, "sleep_test") /\ (left[p] = 0 \/ killed[p])
  /\ tickslock' = Nobody
  /\ left' = [left EXCEPT ![p] = 0]
  /\ Goto(p, "sysret")
  /\ UNCHANGED <<ptlock, cpu, state, ids, killed, chan, kstack, saved, np>>

SleepSleep(c) ==
  LET p == proc[c] IN
  /\ Runs(c, "sleep_test") /\ left[p] > 0 /\ ptlock = Nobody
  /\ ptlock' = c
  /\ tickslock' = Nobody
  /\ chan' = [chan EXCEPT ![p] = Ticks]
  /\ state' = [state EXCEPT ![p] = "SLEEPING"]
  /\ Goto(p, "sleep_swtch")
  /\ UNCHANGED <<cpu, ids, killed, kstack, thread>>

SleepReturn(c) ==
  /\ Runs(c, "sleep_ret")
  /\ ptlock' = Nobody
  /\ chan' = [chan EXCEPT ![proc[c]] = Nobody]
  /\ Goto(proc[c], "sleep_reacquire")
  /\ UNCHANGED <<tickslock, cpu, state, ids, killed, kstack, thread>>

SleepReacquire(c) ==
  /\ Runs(c, "sleep_reacquire") /\ tickslock = Nobody
  /\ tickslock' = c
  /\ Goto(proc[c], "sleep_test")
  /\ UNCHANGED <<ptlock, cpu, state, ids, killed, chan, kstack, thread>>

\* Mutant: a sleeping process is marked and left asleep.
KillNoWakeup(c, k) ==
  /\ Enters(c) /\ ptlock = Nobody
  /\ \E q \in First({s \in Slots : pid[s] = k}) : killed' = [killed EXCEPT ![q] = TRUE]
  /\ Goto(proc[c], "sysret")
  /\ UNCHANGED <<locks, cpu, state, ids, chan, kstack, thread>>

(***************************************************************************)
(* kill marks the first slot whose pid matches, whatever its state, and    *)
(* wakes it from any sleep.                                                *)
(***************************************************************************)
Kill(c, k) ==
  /\ Enters(c) /\ ptlock = Nobody
  /\ \E q \in First({s \in Slots : pid[s] = k}) :
       /\ killed' = [killed EXCEPT ![q] = TRUE]
       /\ state' = [state EXCEPT ![q] = IF @ = "SLEEPING" THEN "RUNNABLE" ELSE @]
  /\ Goto(proc[c], "sysret")
  /\ UNCHANGED <<locks, cpu, ids, chan, kstack, thread>>

-----------------------------------------------------------------------------
(* userinit has made slot 0 RUNNABLE; every CPU enters scheduler().        *)
Init ==
  /\ ptlock = Nobody /\ tickslock = Nobody
  /\ proc = [c \in CPUs |-> Nobody]
  /\ scan = [c \in CPUs |-> 0]
  /\ irq = [c \in CPUs |-> FALSE]
  /\ state = [p \in Slots |-> IF p = initproc THEN "RUNNABLE" ELSE "UNUSED"]
  /\ pid = [p \in Slots |-> IF p = initproc THEN 1 ELSE 0]
  /\ parent = [p \in Slots |-> Nobody]
  /\ killed = [p \in Slots |-> FALSE]
  /\ chan = [p \in Slots |-> Nobody]
  /\ kstack = [p \in Slots |-> p = initproc]
  /\ pc = [p \in Slots |-> IF p = initproc THEN "forkret" ELSE "none"]
  /\ saved = [p \in Slots |-> "user"]
  /\ left = [p \in Slots |-> 0]
  /\ np = [p \in Slots |-> Nobody]
  /\ nextpid = 2

Next == \E c \in CPUs :
  \/ SchedAcquire(c) \/ SchedRun(c) \/ SchedRelease(c) \/ Sched(c)
  \/ Tick(c) \/ TickWakeup(c) \/ TimerOther(c) \/ TrapKill(c) \/ Yield(c) \/ YieldReturn(c)
  \/ SyscallExit(c) \/ ForkAlloc(c) \/ ForkFails(c) \/ ForkDone(c) \/ Exit(c)
  \/ WaitCall(c) \/ WaitReap(c) \/ WaitFails(c) \/ WaitSleep(c)
  \/ \E n \in SleepArgs : SleepCall(c, n)
  \/ SleepDone(c) \/ SleepSleep(c) \/ SleepReturn(c) \/ SleepReacquire(c)
  \/ \E k \in KillArgs : Kill(c, k)

Spec == Init /\ [][Next]_vars

(***************************************************************************)
(* Fairness.  A CPU in the kernel keeps executing its thread, and one that *)
(* spins on a lock which is free again and again gets it in the end; the   *)
(* timer of every CPU keeps interrupting.  User programs may loop for      *)
(* ever, except init, which always comes back to wait() (user/init.c).     *)
(***************************************************************************)
KernelStep(c) ==
  \/ SchedAcquire(c) \/ SchedRun(c) \/ SchedRelease(c) \/ Sched(c)
  \/ TrapKill(c) \/ Yield(c) \/ YieldReturn(c)
  \/ Runs(c, "sysret") /\ SyscallExit(c)
  \/ Exit(c)
  \/ WaitReap(c) \/ WaitFails(c) \/ WaitSleep(c)
  \/ SleepDone(c) \/ SleepSleep(c) \/ SleepReturn(c) \/ SleepReacquire(c)
Timer(c)     == Tick(c) \/ TimerOther(c) \/ TickWakeup(c)
InitWaits(c) == proc[c] = initproc /\ WaitCall(c)
Fairness     == \A c \in CPUs : /\ SF_vars(KernelStep(c))
                                /\ SF_vars(ForkFails(c) \/ ForkDone(c))
                                /\ SF_vars(Timer(c))
                                /\ SF_vars(InitWaits(c))

FairSpec == Spec /\ Fairness

-----------------------------------------------------------------------------
(***************************************************************************)
(* Properties.                                                             *)
(***************************************************************************)
\* Types of all variables.
TypeOK ==
  /\ ptlock \in CPUs \cup {Nobody} /\ tickslock \in CPUs \cup {Nobody}
  /\ proc \in [CPUs -> Slots \cup {Nobody}]
  /\ scan \in [CPUs -> 0 .. NPROC]
  /\ irq \in [CPUs -> BOOLEAN]
  /\ state \in [Slots -> States]
  /\ pid \in [Slots -> Nat] /\ nextpid \in Nat
  /\ parent \in [Slots -> Slots \cup {Nobody}]
  /\ killed \in [Slots -> BOOLEAN]
  /\ chan \in [Slots -> Slots \cup {Nobody, Ticks}]
  /\ kstack \in [Slots -> BOOLEAN]
  /\ pc \in [Slots -> Pcs]
  /\ saved \in [Slots -> Interruptible]
  /\ left \in [Slots -> Nat]
  /\ np \in [Slots -> Slots \cup {Nobody}]

\* No two CPUs run the same process, and a process is RUNNING exactly when a
\* CPU runs it, except inside sched() while that CPU holds ptable.lock.
OneCpuPerProc ==
  /\ \A c, d \in CPUs : proc[c] = proc[d] /\ proc[c] # Nobody => c = d
  /\ \A c \in CPUs : proc[c] # Nobody =>
       state[proc[c]] = "RUNNING" \/ (ptlock = c /\ pc[proc[c]] \in SwtchPcs)
  /\ \A p \in Slots : state[p] = "RUNNING" => \E c \in CPUs : proc[c] = p

\* The kernel stack a CPU executes on is never freed under it: wait() can
\* reap a ZOMBIE only after the ZOMBIE has left its stack (proc.c:200, 224).
KstackInUse == \A c \in CPUs : proc[c] # Nobody => kstack[proc[c]]

\* The panics of sched() never happen: whoever enters it holds ptable.lock,
\* holds no other lock (ncli = 1) and has changed proc->state.
SchedAssertions ==
  \A c \in CPUs : proc[c] # Nobody /\ pc[proc[c]] \in SwtchPcs =>
    ptlock = c /\ tickslock # c /\ state[proc[c]] # "RUNNING"

\* What keeps the kernel from executing one process twice or on a freed
\* stack, whatever the CPUs, timers and interrupts do (proc.c:253-306, 313).
SchedSafe == OneCpuPerProc /\ KstackInUse /\ SchedAssertions

\* No lost wakeup: whenever ptable.lock is free, nobody sleeps in wait() with
\* a ZOMBIE child, and nobody sleeps in sys_sleep() past its time unless the
\* tick that ends the sleep is just about to wake it.
NoLostWakeup ==
  ptlock = Nobody => \A p \in Slots : state[p] = "SLEEPING" =>
    /\ chan[p] = p => Zombies(p) = {}
    /\ chan[p] = Ticks /\ left[p] = 0 => \E c \in CPUs : irq[c]

\* Nobody but init is without a parent that can reap it: the parent of a
\* live process or ZOMBIE is itself neither free nor a ZOMBIE.
ParentAlive ==
  \A p \in Slots \ {initproc} : state[p] \in {"SLEEPING", "RUNNABLE", "RUNNING", "ZOMBIE"} =>
    parent[p] # Nobody /\ state[parent[p]] \notin {"UNUSED", "EMBRYO", "ZOMBIE"}

(***************************************************************************)
(* The inductive invariant behind the three invariants about CPUs: what a  *)
(* CPU runs, what a process off the CPUs looks like, who is inside a lock, *)
(* and that a slot being forked belongs to one fork.                       *)
(***************************************************************************)
OnCpu(p) == \E c \in CPUs : proc[c] = p

(* The thread is in sched(), or it runs and holds ptable.lock on resuming. *)
CpuInv ==
  \A c \in CPUs : proc[c] # Nobody =>
    LET p == proc[c] IN
    /\ kstack[p]
    /\ pc[p] \notin {"none", "dead"}
    /\ pc[p] \in SwtchPcs \cup ResumePcs => ptlock = c
    /\ pc[p] \in SwtchPcs => state[p] \in {"RUNNABLE", "SLEEPING", "ZOMBIE"}
    /\ pc[p] \notin SwtchPcs => state[p] = "RUNNING"
    /\ state[p] = "ZOMBIE" <=> pc[p] = "exit_swtch"

UniqueInv == \A c, d \in CPUs : proc[c] = proc[d] /\ proc[c] # Nobody => c = d

OffCpuInv ==
  \A p \in Slots :
    /\ state[p] = "RUNNING" => OnCpu(p)
    /\ ~OnCpu(p) /\ state[p] \in {"RUNNABLE", "SLEEPING"} => kstack[p] /\ pc[p] \in ResumePcs

TicksInv ==
  \A c \in CPUs :
    /\ irq[c] => tickslock = c /\ (proc[c] # Nobody => pc[proc[c]] \in Interruptible)
    /\ ~irq[c] => (tickslock = c <=> proc[c] # Nobody /\ pc[proc[c]] = "sleep_test")

InTrap == {"trap_kill", "yield", "yield_swtch", "yield_ret", "trap_kill2"}
ForkInv ==
  /\ \A p \in Slots : pc[p] = "fork" \/ (pc[p] \in InTrap /\ saved[p] = "fork") => np[p] # Nobody
  /\ \A p \in Slots : np[p] # Nobody => state[np[p]] = "EMBRYO"
  /\ \A p, q \in Slots : np[p] = np[q] /\ np[p] # Nobody => p = q

IInv == TypeOK /\ CpuInv /\ UniqueInv /\ OffCpuInv /\ TicksInv /\ ForkInv

(***************************************************************************)
(* What the invariants about processes that wait for each other need       *)
(* besides IInv.  Whoever is a parent is alive, whoever is alive has a     *)
(* parent, and init never dies.  A sleeper is on a channel that somebody   *)
(* will wake, and has not missed the wakeup, even while ptable.lock is     *)
(* held: every critical section that ends a wait also wakes it.            *)
(***************************************************************************)
Live == {"SLEEPING", "RUNNABLE", "RUNNING"}
FamilyInv ==
  /\ state[initproc] \in Live
  /\ parent[initproc] = Nobody
  /\ \A q \in Slots : parent[q] # Nobody => parent[q] # q /\ state[parent[q]] \in Live
  /\ \A q \in Slots \ {initproc} : state[q] \in Live \cup {"ZOMBIE"} <=> parent[q] # Nobody

WakeInv ==
  \A p \in Slots : state[p] = "SLEEPING" =>
    /\ chan[p] \in {p, Ticks}
    /\ chan[p] = p => Zombies(p) = {} /\ Kids(p) # {}
    /\ chan[p] = Ticks /\ left[p] = 0 => \E c \in CPUs : irq[c]

WaitInv == IInv /\ FamilyInv /\ WakeInv

\* "Process won't exit until it returns to user space" (proc.c:388), but
\* then it does: a killed process becomes a ZOMBIE, wherever kill found it.
KilledExits ==
  \A p \in Slots \ {initproc} :
    killed[p] /\ state[p] \notin {"UNUSED", "EMBRYO", "ZOMBIE"} ~> state[p] = "ZOMBIE"

\* A ZOMBIE whose parent is init, its own or inherited, is reaped.
OrphansReaped ==
  \A p \in Slots \ {initproc} :
    state[p] = "ZOMBIE" /\ parent[p] = initproc ~> state[p] = "UNUSED"

\* sleep(n) returns.
SleepEnds == \A p \in Slots : pc[p] = "sleep_test" ~> pc[p] = "sysret"

\* "p->killed: If non-zero, have been killed" (proc.h): a process that
\* allocproc has just made has not been killed.
BornAlive ==
  [][\A p \in Slots : state[p] = "UNUSED" /\ state'[p] = "EMBRYO" => ~killed'[p]]_vars
=============================================================================
