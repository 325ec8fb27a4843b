---------------------------- MODULE MCKernelLive ----------------------------
(***************************************************************************)
(* The kernel's promises that something happens in the end, on small       *)
(* instances: processes exit, are reaped and wake up, spins, writes to the *)
(* console and the ends of pipes come to an end.  As in MCKernelParts a    *)
(* behaviour moves one part; the parts share the fairness conditions, each *)
(* of which is about the part that moves.                                  *)
(***************************************************************************)
EXTENDS Naturals

VARIABLES
  part,
  ptlock, tickslock, proc, scan, irq, state, pid, parent, killed, chan, kstack, pc, saved,
  left, np, nextpid,
  lock, intr, ncli, intena, run, code, frameIntena,
  inputLock, buf, r, w, e, busy, inputKilled, inputPc, n, target, got,
  ref, type, ofile, procState, open, iref, filePc, next, forked, rf, wf, closed, panicked

Table == INSTANCE ProcTable WITH
  NPROC <- 3, NCPU <- 1, MaxPid <- 3, KillArgs <- {2}, SleepArgs <- {1}

Locks == INSTANCE SpinLock WITH
  CPUs <- {"c0", "c1"}, BootCpu <- "c0", Threads <- {"t1"}, None <- "none", saved <- frameIntena

Input == INSTANCE Console WITH
  Procs <- {"p1", "p2"}, NoProc <- "none", Letters <- {"a"}, NoChar <- "-", Lens <- {1},
  INPUT_BUF <- 1, Wrap <- 2,
  lock <- inputLock, killed <- inputKilled, pc <- inputPc

Open == INSTANCE OpenFiles WITH
  Procs <- {"init", "p1"}, InitProc <- "init", NoProc <- "none",
  Files <- {"f1", "f2"}, NoFile <- "none", NOFILE <- 2, Pipes <- {"r1"},
  state <- procState, pc <- filePc, child <- forked, last <- closed

procsVars == <<ptlock, tickslock, proc, scan, irq, state, pid, parent, killed, chan, kstack, pc,
               saved, left, np, nextpid>>
locksVars == <<lock, intr, ncli, intena, run, code, frameIntena>>
inputVars == <<inputLock, buf, r, w, e, busy, inputKilled, inputPc, n, target, got>>
openVars  == <<ref, type, ofile, procState, open, iref, filePc, next, forked, rf, wf, closed, panicked>>
vars      == <<part, procsVars, locksVars, inputVars, openVars>>

OnlyProcs == part = "processes" /\ UNCHANGED <<part, locksVars, inputVars, openVars>>
OnlyLocks == part = "locks"     /\ UNCHANGED <<part, procsVars, inputVars, openVars>>
OnlyInput == part = "console"   /\ UNCHANGED <<part, procsVars, locksVars, openVars>>
OnlyOpen  == part = "files"     /\ UNCHANGED <<part, procsVars, locksVars, inputVars>>

Init ==
  /\ part \in {"processes", "locks", "console", "files"}
  /\ Table!Init /\ Locks!Init /\ Input!Init /\ Open!Init

Next ==
  \/ OnlyProcs /\ Table!Next
  \/ OnlyLocks /\ Locks!Next
  \/ OnlyInput /\ Input!Next
  \/ OnlyOpen  /\ Open!Next

(* The fairness of ProcTable, SpinLock, Console and OpenFiles, condition   *)
(* by condition: a condition of one part is void in a behaviour of         *)
(* another.                                                                *)
Fair1 == \/ OnlyProcs /\ Table!KernelStep(0)
         \/ OnlyLocks /\ Locks!Spin("c0")
         \/ OnlyInput /\ Input!Reading("p1")
Fair2 == \/ OnlyProcs /\ (Table!ForkFails(0) \/ Table!ForkDone(0))
         \/ OnlyLocks /\ Locks!Spin("c1")
         \/ OnlyInput /\ Input!Reading("p2")
Fair3 == \/ OnlyProcs /\ Table!Timer(0)
         \/ OnlyInput /\ Input!Writing("p1")
Fair4 == \/ OnlyProcs /\ Table!InitWaits(0)
         \/ OnlyInput /\ Input!Writing("p2")
Runs1 == \/ OnlyLocks /\ Locks!Step("c0")
         \/ OnlyOpen  /\ Open!Kernel("init")
Runs2 == \/ OnlyLocks /\ Locks!Step("c1")
         \/ OnlyOpen  /\ Open!Kernel("p1")

Spec ==
  /\ Init /\ [][Next]_vars
  /\ SF_vars(Fair1) /\ SF_vars(Fair2) /\ SF_vars(Fair3) /\ SF_vars(Fair4)
  /\ WF_vars(Runs1) /\ WF_vars(Runs2)

-----------------------------------------------------------------------------
\* A killed process becomes a ZOMBIE, wherever kill found it, a ZOMBIE that
\* init has inherited is reaped, and sleep(n) returns (proc.c:192, 388, 399;
\* sysproc.c:58).
ProcessesGoOn == Table!KilledExits /\ Table!OrphansReaped /\ Table!SleepEnds

\* Whoever spins for a lock gets it (spinlock.c:31).
SpinsEnd == Locks!SpinsEnd

\* A write ends although a reader waits for a line nobody types (console.c:227).
WritesEnd == Input!WritesEnd

\* An end of a pipe that no descriptor refers to is closed (file.c:55, pipe.c:57).
EndsClose == Open!EndsClose
=============================================================================
