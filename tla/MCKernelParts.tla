--------------------------- MODULE MCKernelParts ---------------------------
(***************************************************************************)
(* Instances of the kernel's parts that share no state with each other in  *)
(* this model: the stride scheduler, spin locks, the console, open files   *)
(* and the blocks of files.  What steps of two parts do together they do   *)
(* apart, so each behaviour moves one of them, and the others stay as they *)
(* began.                                                                  *)
(***************************************************************************)
EXTENDS Naturals

CONSTANTS
  NPROC, max_stride, Numbers, MaxPid, MaxPass,                     \* the stride scheduler
  CPUs, BootCpu, Threads, NoThread,                                \* spin locks
  Readers, NoReader, Letters, NoChar, ReadLens, INPUT_BUF, Wrap,   \* the console
  Procs, InitProc, NoProc, FileTable, NoFile, NOFILE, Pipes,        \* open files
  Inodes, BSIZE, NDIRECT, NBLOCKS, Bytes, Lens, MaxCalls, MaxCrashes  \* blocks of files

VARIABLES
  part,
  state, pid, parent, child, pstat, curr, nextpid, last, asked,
  lock, intr, ncli, intena, run, code, saved,
  inputLock, buf, r, w, e, busy, killed, inputPc, n, target, got,
  ref, type, ofile, procState, open, iref, filePc, next, forked, rf, wf, closed, panicked,
  used, block, dinode, inode, call, contents, dead, full, calls, crashes

Stride == INSTANCE StrideScheduler

Locks == INSTANCE SpinLock WITH None <- NoThread

Input == INSTANCE Console WITH
  Procs <- Readers, NoProc <- NoReader, Lens <- ReadLens,
  lock <- inputLock, pc <- inputPc

Open == INSTANCE OpenFiles WITH
  Files <- FileTable, state <- procState, pc <- filePc, child <- forked, last <- closed

Disk == INSTANCE FileBlocks WITH Files <- Inodes

ASSUME PartsAssumptions ==
  /\ Stride!ConstantAssumptions /\ Locks!ConstantAssumptions /\ Input!ConstantAssumptions
  /\ Open!ConstantAssumptions /\ Disk!ConstantAssumptions

Init ==
  /\ part \in {"stride", "locks", "console", "files", "blocks"}
  /\ Stride!Init /\ Locks!Init /\ Input!Init /\ Open!Init /\ Disk!Init

strideVars == <<state, pid, parent, child, pstat, curr, nextpid, last, asked>>
locksVars  == <<lock, intr, ncli, intena, run, code, saved>>
inputVars  == <<inputLock, buf, r, w, e, busy, killed, inputPc, n, target, got>>
openVars   == <<ref, type, ofile, procState, open, iref, filePc, next, forked, rf, wf, closed, panicked>>
diskVars   == <<used, block, dinode, inode, call, contents, dead, full, calls, crashes>>
vars       == <<part, strideVars, locksVars, inputVars, openVars, diskVars>>

OnlyStride == UNCHANGED <<part, locksVars, inputVars, openVars, diskVars>>
OnlyLocks  == UNCHANGED <<part, strideVars, inputVars, openVars, diskVars>>
OnlyInput  == UNCHANGED <<part, strideVars, locksVars, openVars, diskVars>>
OnlyOpen   == UNCHANGED <<part, strideVars, locksVars, inputVars, diskVars>>
OnlyDisk   == UNCHANGED <<part, strideVars, locksVars, inputVars, openVars>>

Next ==
  \/ part = "stride"  /\ Stride!Next /\ OnlyStride
  \/ part = "locks"   /\ Locks!Next  /\ OnlyLocks
  \/ part = "console" /\ Input!Next  /\ OnlyInput
  \/ part = "files"   /\ Open!Next   /\ OnlyOpen
  \/ part = "blocks"  /\ Disk!Next   /\ OnlyDisk

Spec == Init /\ [][Next]_vars

-----------------------------------------------------------------------------
\* Every process that can run has its one entry of pstat, the index names the
\* entry of the process that ran last, and tickets are those asked for, also
\* around a preempted fork (P4, kernel/proc.c:189-200, 340, 525).
StrideSound == part = "stride" =>
  Stride!TypeOK /\ Stride!EntriesExact /\ Stride!CurrIsLast /\ Stride!TicketsExact

\* One CPU is inside a lock, with interrupts off, no CPU spins for a lock it
\* has, and a thread finds its interrupt flag again after sched(), on
\* whichever CPU (spinlock.c:28, 46, 93; proc.c:303).
LocksSound == part = "locks" =>
  Locks!TypeOK /\ Locks!LocksExact /\ Locks!NoPanic /\ Locks!InterruptFlag

\* No reader of the console sleeps over a line, and a full ring can be read
\* (console.c:210, 231).
InputSound == part = "console" => Input!TypeOK /\ Input!NoLostWakeup /\ Input!NeverStuck

\* The console's ring with its indices is a line being typed and complete
\* lines, which come out in order and once (console.c:188-262).
ImplementsLineInput == Input!ImplementsLineInput

\* The counts of files are those of their pointers, an end of a pipe is open
\* while one file is left of it, no slot inherits descriptors, whichever call
\* fails half way (file.c:43-70, pipe.c:47-68, sysfile.c:280, 382).
FilesSound == part = "files" =>
  Open!TypeOK /\ Open!RefsExact /\ Open!EndsExact /\ Open!DescriptorsSound

\* Files have the bytes written to them, on the disk too and after a crash at
\* any write; blocks have one owner and are zero when free (fs.c:330-450).
BlocksSound == part = "blocks" =>
  /\ Disk!TypeOK /\ Disk!DiskContents /\ Disk!ReadExact
  /\ Disk!InodeOnDisk /\ Disk!BlocksOwned /\ Disk!FreeIsZero

\* A write changes its part of the file and nothing else, a read allocates
\* nothing (fs.c:412, 425).
WriteExact == Disk!WriteExact /\ Disk!ReadAllocatesNothing
=============================================================================
