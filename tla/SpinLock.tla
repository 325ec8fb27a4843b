------------------------------ MODULE SpinLock ------------------------------
(***************************************************************************)
(* The spin locks of xv6 (P5, kernel/spinlock.c) and the interrupt flag:   *)
(* acquire and release step by step, pushcli and popcli with their count   *)
(* and saved flag, timer interrupts and page faults on top of any code     *)
(* that has interrupts on, and sched(), which hands ptable.lock from one   *)
(* thread to the next and keeps the saved flag with the thread.            *)
(*                                                                         *)
(* What a thread or a CPU's scheduler still has to do is a sequence of     *)
(* operations, each on a lock; the kernel's functions are such sequences.  *)
(* What is done under the locks, and who is RUNNABLE, is in ProcTable.     *)
(***************************************************************************)
EXTENDS Naturals, Sequences, FiniteSets

CONSTANTS CPUs, BootCpu, Threads, None

ConstantAssumptions ==
  /\ BootCpu \in CPUs
  /\ None \notin CPUs \cup Threads
  /\ CPUs \cap Threads = {}

Locks == {"ptable", "tickslock", "kmem"}

VARIABLES
  lock,      \* locked and cpu of each lock
  intr,      \* FL_IF of each CPU
  ncli, intena,
  run,       \* the thread that a CPU runs, or None for its scheduler
  code,      \* what each thread and each scheduler still has to do
  saved      \* intena in the frame of a thread's sched()

vars == <<lock, intr, ncli, intena, run, code, saved>>

-----------------------------------------------------------------------------
(* The kernel's paths.                                                     *)
Acquire(l) == <<<<"pushcli", l>>, <<"xchg", l>>, <<"owner", l>>>>
Release(l) == <<<<"disown", l>>, <<"unlock", l>>>>
Sched      == <<<<"sched", "ptable">>, <<"resume", "ptable">>>>
Iret       == <<<<"iret", "none">>>>

Yield   == Acquire("ptable") \o Sched \o Release("ptable")
Forkret == Release("ptable") \o Iret
Exit    == Acquire("ptable") \o <<<<"exit", "ptable">>>>
Uptime  == Acquire("tickslock") \o Release("tickslock")
Sleep == Acquire("tickslock") \o Acquire("ptable") \o Release("tickslock")
           \o Sched \o Release("ptable") \o Acquire("tickslock") \o Release("tickslock")
Kalloc  == Acquire("kmem") \o Release("kmem")
Wakeup  == Acquire("ptable") \o Release("ptable")

Timer(c) ==
  (IF c = BootCpu THEN Acquire("tickslock") \o Wakeup \o Release("tickslock") ELSE <<>>)
  \o (IF run[c] # None THEN Yield ELSE <<>>) \o Iret

Scheduler == Acquire("ptable") \o <<<<"loop", "ptable">>>> \o Release("ptable")

-----------------------------------------------------------------------------
Context(c) == IF run[c] = None THEN c ELSE run[c]
Todo(c)    == code[Context(c)]
At(c, op, l) == Todo(c) # <<>> /\ Head(Todo(c)) = <<op, l>>
Done(c)    == code' = [code EXCEPT ![Context(c)] = Tail(@)]

Holding(c, l) == lock[l].locked /\ lock[l].cpu = c

(* acquire: pushcli, the panic if the CPU has the lock, the exchange, and  *)
(* the note of who has it.                                                 *)
Pushcli(c, l) ==
  /\ At(c, "pushcli", l) /\ ~Holding(c, l)
  /\ intr' = [intr EXCEPT ![c] = FALSE]
  /\ ncli' = [ncli EXCEPT ![c] = @ + 1]
  /\ intena' = IF ncli[c] = 0 THEN [intena EXCEPT ![c] = intr[c]] ELSE intena
  /\ Done(c)
  /\ UNCHANGED <<lock, run, saved>>

Xchg(c, l) ==
  /\ At(c, "xchg", l) /\ ~lock[l].locked
  /\ lock' = [lock EXCEPT ![l].locked = TRUE]
  /\ Done(c)
  /\ UNCHANGED <<intr, ncli, intena, run, saved>>

Owner(c, l) ==
  /\ At(c, "owner", l)
  /\ lock' = [lock EXCEPT ![l].cpu = c]
  /\ Done(c)
  /\ UNCHANGED <<intr, ncli, intena, run, saved>>

(* release: nobody has it, then it is free, then popcli.                   *)
Disown(c, l) ==
  /\ At(c, "disown", l) /\ Holding(c, l)
  /\ lock' = [lock EXCEPT ![l].cpu = None]
  /\ Done(c)
  /\ UNCHANGED <<intr, ncli, intena, run, saved>>

Unlock(c, l) ==
  /\ At(c, "unlock", l) /\ ~intr[c] /\ ncli[c] > 0
  /\ lock' = [lock EXCEPT ![l].locked = FALSE]
  /\ ncli' = [ncli EXCEPT ![c] = @ - 1]
  /\ intr' = [intr EXCEPT ![c] = ncli[c] = 1 /\ intena[c]]
  /\ Done(c)
  /\ UNCHANGED <<intena, run, saved>>

-----------------------------------------------------------------------------
(* sched() saves the flag and switches to the scheduler of the CPU; the    *)
(* thread goes on behind swtch, maybe on another CPU, and puts it back.    *)
MaySched(c) == Holding(c, "ptable") /\ ncli[c] = 1 /\ ~intr[c]

SwitchOut(c) ==
  /\ At(c, "sched", "ptable") /\ MaySched(c)
  /\ saved' = [saved EXCEPT ![run[c]] = intena[c]]
  /\ run' = [run EXCEPT ![c] = None]
  /\ Done(c)
  /\ UNCHANGED <<lock, intr, ncli, intena>>

\* Mutant: the flag stays with the CPU.
ResumeKeeps(c) ==
  /\ At(c, "resume", "ptable")
  /\ Done(c)
  /\ UNCHANGED <<lock, intr, ncli, intena, run, saved>>

Resume(c) ==
  /\ At(c, "resume", "ptable")
  /\ intena' = [intena EXCEPT ![c] = saved[run[c]]]
  /\ Done(c)
  /\ UNCHANGED <<lock, intr, ncli, run, saved>>

(* A process that exits never returns from sched; its slot goes to a child *)
(* of fork, which starts in forkret.                                       *)
Exits(c) ==
  /\ At(c, "exit", "ptable") /\ MaySched(c)
  /\ code' = [code EXCEPT ![run[c]] = Forkret]
  /\ run' = [run EXCEPT ![c] = None]
  /\ UNCHANGED <<lock, intr, ncli, intena, saved>>

(* The scheduler: interrupts on, then a round over the table.              *)
Sti(c) ==
  /\ run[c] = None /\ code[c] = <<>>
  /\ intr' = [intr EXCEPT ![c] = TRUE]
  /\ code' = [code EXCEPT ![c] = Scheduler]
  /\ UNCHANGED <<lock, ncli, intena, run, saved>>

Dispatch(c, t) ==
  /\ At(c, "loop", "ptable")
  /\ t \notin {run[d] : d \in CPUs}
  /\ run' = [run EXCEPT ![c] = t]
  /\ UNCHANGED <<lock, intr, ncli, intena, code, saved>>

\* Mutant: a round that finds nobody starts over.
EndRoundNever(c) ==
  /\ At(c, "loop", "ptable")
  /\ UNCHANGED vars

EndRound(c) ==
  /\ At(c, "loop", "ptable")
  /\ Done(c)
  /\ UNCHANGED <<lock, intr, ncli, intena, run, saved>>

-----------------------------------------------------------------------------
(* A thread in user mode makes a system call; the gate leaves interrupts   *)
(* on.  A page fault and the timer come through gates that turn them off,  *)
(* and iret restores what was.                                             *)
Syscall(c) ==
  /\ run[c] # None /\ Todo(c) = <<>>
  /\ \E path \in {Uptime, Sleep, Yield, Kalloc, Exit} : code' = [code EXCEPT ![run[c]] = path]
  /\ UNCHANGED <<lock, intr, ncli, intena, run, saved>>

PageFault(c) ==
  /\ run[c] # None /\ Todo(c) = <<>>
  /\ intr' = [intr EXCEPT ![c] = FALSE]
  /\ code' = [code EXCEPT ![run[c]] = Kalloc \o Iret]
  /\ UNCHANGED <<lock, ncli, intena, run, saved>>

TimerInterrupt(c) ==
  /\ intr[c]
  /\ intr' = [intr EXCEPT ![c] = FALSE]
  /\ code' = [code EXCEPT ![Context(c)] = Timer(c) \o @]
  /\ UNCHANGED <<lock, ncli, intena, run, saved>>

ReturnFromTrap(c) ==
  /\ At(c, "iret", "none")
  /\ intr' = [intr EXCEPT ![c] = TRUE]
  /\ Done(c)
  /\ UNCHANGED <<lock, ncli, intena, run, saved>>

-----------------------------------------------------------------------------
Init ==
  /\ lock = [l \in Locks |-> [locked |-> FALSE, cpu |-> None]]
  /\ intr = [c \in CPUs |-> FALSE] /\ ncli = [c \in CPUs |-> 0] /\ intena = [c \in CPUs |-> FALSE]
  /\ run = [c \in CPUs |-> None]
  /\ code = [x \in CPUs \cup Threads |-> IF x \in CPUs THEN <<>> ELSE Forkret]
  /\ saved = [t \in Threads |-> FALSE]

LockStep(c) == \E l \in Locks : Pushcli(c, l) \/ Owner(c, l) \/ Disown(c, l) \/ Unlock(c, l)
Spin(c)     == \E l \in Locks : Xchg(c, l)

Step(c) ==
  \/ LockStep(c)
  \/ SwitchOut(c) \/ Resume(c) \/ Exits(c)
  \/ Sti(c) \/ (\E t \in Threads : Dispatch(c, t)) \/ EndRound(c)
  \/ ReturnFromTrap(c)

Next == \E c \in CPUs : Step(c) \/ Spin(c) \/ Syscall(c) \/ PageFault(c) \/ TimerInterrupt(c)

Spec == Init /\ [][Next]_vars

FairSpec == Spec /\ \A c \in CPUs : WF_vars(Step(c)) /\ SF_vars(Spin(c))

-----------------------------------------------------------------------------
TypeOK ==
  /\ lock \in [Locks -> [locked : BOOLEAN, cpu : CPUs \cup {None}]]
  /\ intr \in [CPUs -> BOOLEAN] /\ intena \in [CPUs -> BOOLEAN]
  /\ ncli \in [CPUs -> 0 .. 2]
  /\ run \in [CPUs -> Threads \cup {None}]
  /\ saved \in [Threads -> BOOLEAN]

(* What comes next with lock l in s: a step between acquire and release,   *)
(* or the beginning of acquire, if anything.                               *)
NextOn(s, l, k) == s[k][2] = l /\ \A j \in 1 .. k - 1 : s[j][2] # l
In(s, l)  == \E k \in 1 .. Len(s) : NextOn(s, l, k) /\ s[k][1] \notin {"pushcli", "xchg"}
Out(s, l) == \A k \in 1 .. Len(s) : NextOn(s, l, k) => s[k][1] = "pushcli"

Inside(c, l) == In(Todo(c), l)
Spins(c)   == \E l \in Locks : At(c, "xchg", l)
Cleared(c) == {l \in Locks : Inside(c, l) \/ At(c, "xchg", l)}

\* The CPU that is between acquire and release of a lock is the only one, its
\* count of pushcli calls is the locks that it has or spins for, and while it
\* counts any it has interrupts off: also where the thread that releases
\* ptable.lock is not the one that acquired it (proc.c:288).
LocksExact ==
  /\ \A l \in Locks : LET S == {c \in CPUs : Inside(c, l)} IN
       /\ \A c, d \in S : c = d
       /\ lock[l].locked <=> S # {}
  /\ \A c \in CPUs : /\ ncli[c] = Cardinality(Cleared(c))
                     /\ ncli[c] > 0 => ~intr[c]

\* The panics of acquire, release, popcli and sched are unreachable
\* (spinlock.c:28, 46, 110, 112; proc.c:296, 298, 302): no CPU spins for a
\* lock that it has itself.
NoPanic == \A c \in CPUs : Todo(c) # <<>> =>
  LET op == Head(Todo(c))[1]
      l  == Head(Todo(c))[2]
  IN /\ op = "pushcli" => ~Holding(c, l)
     /\ op = "disown" => Holding(c, l)
     /\ op = "unlock" => ~intr[c] /\ ncli[c] > 0
     /\ op \in {"sched", "exit"} => MaySched(c)

HasIret(s) == \E k \in 1 .. Len(s) : s[k][1] = "iret"
InTrap(x)  == HasIret(code[x])
UserReady(c) == run[c] # None /\ ~InTrap(run[c]) /\ Cleared(c) = {}

\* "pushcli, popcli leaves them off" (spinlock.c:93) and turns them on again:
\* a thread outside of locks and traps has interrupts on, and one in a trap
\* has them off until it returns, whatever threads ran between its sched and
\* its resumption and on whichever CPU it goes on.  A child of fork may have
\* them on in forkret already.
InterruptFlag == \A c \in CPUs :
  /\ UserReady(c) => intr[c]
  /\ run[c] # None /\ InTrap(run[c]) /\ Todo(c) # Iret => ~intr[c]

\* Whoever spins for a lock gets it: no CPU keeps a lock for ever, and no two
\* wait on each other.
SpinsEnd == \A c \in CPUs : Spins(c) ~> ~Spins(c)

-----------------------------------------------------------------------------
(***************************************************************************)
(* The inductive invariant.  What is left of a path is one that could be   *)
(* left of some path of the kernel: Fine says so of each of its steps and  *)
(* of what follows it.                                                     *)
(***************************************************************************)
Ops == ({"pushcli", "xchg", "owner", "disown", "unlock"} \X Locks)
       \cup ({"sched", "resume", "exit", "loop"} \X {"ptable"}) \cup {<<"iret", "none">>}
ThreadOps    == {op \in Ops : op[1] # "loop"}
SchedulerOps == {op \in Ops : op[1] \notin {"sched", "resume", "exit"}}

Begins(s, op) == s # <<>> /\ Head(s) = op
First(s)      == IF s = <<>> THEN "nothing" ELSE Head(s)[1]

\* the locks that a CPU may have when it acquires l
Outer(l) == IF l = "ptable" THEN {"tickslock"} ELSE {}

\* what may follow operation o on lock l
Follows(o, l, t) ==
  LET OthersOut == \A other \in Locks \ {l} : Out(t, other)
  IN /\ o = "pushcli" => Begins(t, <<"xchg", l>>) /\ \A other \in Locks \ ({l} \cup Outer(l)) : Out(t, other)
     /\ o = "xchg" => Begins(t, <<"owner", l>>)
     /\ o = "owner" => In(t, l)
     /\ o = "disown" => Begins(t, <<"unlock", l>>)
     /\ o = "unlock" => Out(t, l)
     /\ o \in {"owner", "unlock"} => First(t) \notin {"owner", "unlock", "resume"}
     /\ o = "sched" => Begins(t, <<"resume", l>>) /\ OthersOut
     /\ o \in {"resume", "loop"} => Begins(t, <<"disown", l>>) /\ OthersOut
     /\ o = "loop" => ~HasIret(t)
     /\ o = "exit" => t = <<>>
     /\ o = "iret" => (t = Iret \/ ~HasIret(t)) /\ \A other \in Locks : Out(t, other)

Fine(s, ops) == \A k \in 1 .. Len(s) :
  s[k] \in ops /\ Follows(s[k][1], s[k][2], SubSeq(s, k + 1, Len(s)))

CodeInv ==
  /\ code \in [CPUs \cup Threads -> Seq(Ops)]
  /\ \A c \in CPUs : Fine(code[c], SchedulerOps)
  /\ \A t \in Threads : Fine(code[t], ThreadOps)

\* A thread that is not running is in sched or new.
RunInv ==
  /\ \A c, d \in CPUs : run[c] # None /\ run[c] = run[d] => c = d
  /\ \A c \in CPUs : run[c] # None => Begins(code[c], <<"loop", "ptable">>)
  /\ \A t \in Threads \ {run[c] : c \in CPUs} :
       Begins(code[t], <<"resume", "ptable">>) \/ code[t] = Forkret

\* The note of who has a lock is right but for the steps next to the exchange.
OwnerInv == \A c \in CPUs, l \in Locks :
  /\ Inside(c, l) \/ At(c, "xchg", l) \/ Out(Todo(c), l)
  /\ lock[l].cpu = c <=> Inside(c, l) /\ ~At(c, "owner", l) /\ ~At(c, "unlock", l)

(* The flag, and what popcli and sched will put back.  A thread that goes  *)
(* back to user mode from ptable.lock may be a child of fork.              *)
Fresh(s) == s = Release("ptable") \o Iret \/ s = Tail(Release("ptable")) \o Iret
FlagInv ==
  /\ \A c \in CPUs : run[c] # None =>
       /\ Cleared(c) = {} /\ Todo(c) # Iret => (intr[c] <=> ~InTrap(run[c]))
       /\ Cleared(c) # {} /\ ~Fresh(Todo(c)) /\ ~At(c, "resume", "ptable")
            => (intena[c] <=> ~InTrap(run[c]))
  /\ \A c \in CPUs : run[c] = None /\ InTrap(c) =>
       IF Cleared(c) = {} THEN Todo(c) # Iret => ~intr[c] ELSE ~intena[c]
  /\ \A t \in Threads : Begins(code[t], <<"resume", "ptable">>) => (saved[t] <=> ~InTrap(t))

IInv ==
  /\ TypeOK /\ CodeInv /\ RunInv
  /\ LocksExact /\ OwnerInv /\ FlagInv
=============================================================================
