-------------------------------- MODULE Pipe --------------------------------
(***************************************************************************)
(* A pipe of the P5 kernel (kernel/pipe.c) with the calls that reach it:   *)
(* fileclose (kernel/file.c), sleep, wakeup and kill (kernel/proc.c).      *)
(*                                                                         *)
(* Several processes hold its two ends after fork.  Each runs on a CPU of  *)
(* its own, so that what happens under p->lock is interleaved with what    *)
(* happens under ptable.lock: kill can come between a test of              *)
(* proc->killed and the sleep() that follows it.  A critical section of    *)
(* ptable.lock inside one of p->lock (wakeup, the start of sleep) is part  *)
(* of the step that releases p->lock.                                      *)
(*                                                                         *)
(* The counters nread and nwrite are unsigned and wrap at Wrap, which      *)
(* stands for 2^32: a multiple of PIPESIZE, and larger.                    *)
(***************************************************************************)
EXTENDS Naturals, Sequences, FiniteSets

CONSTANTS
  Procs,     \* processes that hold the pipe
  NoProc,    \* nobody
  Bytes,     \* values of a byte
  NoByte,    \* nothing read yet
  Lens,      \* lengths that processes ask for
  PIPESIZE,  \* size of p->data
  Wrap       \* number of values of an unsigned counter

ASSUME ConstantAssumptions ==
  /\ NoProc \notin Procs /\ NoByte \notin Bytes /\ IsFiniteSet(Procs)
  /\ Lens \subseteq Nat
  /\ PIPESIZE \in Nat \ {0}
  /\ Wrap \in Nat /\ Wrap > PIPESIZE /\ Wrap % PIPESIZE = 0

VARIABLES
  lock,      \* the process that holds p->lock
  data,      \* p->data
  nread, nwrite, readopen, writeopen,
  freed,     \* kfree((char*)p) has been called
  fds,       \* the ends each process has open
  killed,    \* proc->killed
  pc,        \* where each process is
  todo,      \* n - i of a running call
  got,       \* the byte a running read stored last
  missed     \* history: the readers asleep when a writer last gave up silently

ring  == <<data, nread, nwrite>>
flags == <<readopen, writeopen, freed, missed>>
vars  == <<lock, data, nread, nwrite, readopen, writeopen, freed, fds, killed, pc, todo, got,
           missed>>

ReadPcs  == {"r_enter", "r_test", "r_sleep", "r_asleep", "r_copy"}
WritePcs == {"w_enter", "w_copy", "w_sleep", "w_asleep"}
Pcs      == ReadPcs \cup WritePcs \cup {"user", "close_r", "close_w"}

-----------------------------------------------------------------------------
At(p, l)   == pc[p] = l
Goto(p, l) == pc' = [pc EXCEPT ![p] = l]

(* wakeup(&p->nread) or wakeup(&p->nwrite): whoever sleeps there goes back *)
(* to acquire p->lock; then p goes to l.  Readers once woken have missed   *)
(* nothing.                                                                *)
Wakeup(asleep, enter, p, l) ==
  pc' = [q \in Procs |-> IF q = p THEN l ELSE IF pc[q] = asleep THEN enter ELSE pc[q]]
WakeReaders(p, l) == Wakeup("r_asleep", "r_enter", p, l) /\ missed' = {}
WakeWriters(p, l) == Wakeup("w_asleep", "w_enter", p, l)

Acquire(p) == lock = NoProc /\ lock' = p
Release    == lock' = NoProc

\* Mutant: order instead of equality, wrong once nwrite has wrapped.
EmptyByOrder == nread >= nwrite

Empty == nread = nwrite
Full  == nwrite = (nread + PIPESIZE) % Wrap

(* A call returns: its loop index and its buffer are gone.                 *)
Leave(p) ==
  /\ todo' = [todo EXCEPT ![p] = 0]
  /\ got' = [got EXCEPT ![p] = NoByte]

-----------------------------------------------------------------------------
(***************************************************************************)
(* read() and write() by a process that has not been killed (trap.c:37)    *)
(* and has the end open.                                                   *)
(***************************************************************************)
ReadCall(p, n) ==
  /\ At(p, "user") /\ ~killed[p] /\ "r" \in fds[p]
  /\ todo' = [todo EXCEPT ![p] = n]
  /\ Goto(p, "r_enter")
  /\ UNCHANGED <<lock, ring, flags, fds, killed, got>>

WriteCall(p, n) ==
  /\ At(p, "user") /\ ~killed[p] /\ "w" \in fds[p]
  /\ todo' = [todo EXCEPT ![p] = n]
  /\ Goto(p, "w_enter")
  /\ UNCHANGED <<lock, ring, flags, fds, killed, got>>

(* acquire(&p->lock), at the start of the call and at the end of sleep().  *)
Enter(p) ==
  /\ Acquire(p)
  /\ \/ At(p, "r_enter") /\ Goto(p, "r_test")
     \/ At(p, "w_enter") /\ Goto(p, "w_copy")
  /\ UNCHANGED <<ring, flags, fds, killed, todo, got>>

(***************************************************************************)
(* piperead: the loop that waits, its way out when killed, and its sleep.  *)
(***************************************************************************)
ReadBlocks(p) ==
  /\ At(p, "r_test") /\ Empty /\ writeopen /\ ~killed[p]
  /\ Goto(p, "r_sleep")
  /\ UNCHANGED <<lock, ring, flags, fds, killed, todo, got>>

ReadKilled(p) ==
  /\ At(p, "r_test") /\ Empty /\ writeopen /\ killed[p]
  /\ Release
  /\ Goto(p, "user")
  /\ Leave(p)
  /\ UNCHANGED <<ring, flags, fds, killed>>

ReadSleep(p) ==
  /\ At(p, "r_sleep")
  /\ Release
  /\ Goto(p, "r_asleep")
  /\ UNCHANGED <<ring, flags, fds, killed, todo, got>>

ReadStart(p) ==
  /\ At(p, "r_test") /\ ~(Empty /\ writeopen)
  /\ Goto(p, "r_copy")
  /\ UNCHANGED <<lock, ring, flags, fds, killed, todo, got>>

\* Mutant: the counter is kept inside the buffer, without the wrap of uint.
ReadByteNoWrap(p) ==
  /\ At(p, "r_copy") /\ todo[p] > 0 /\ ~Empty
  /\ got' = [got EXCEPT ![p] = data[nread % PIPESIZE]]
  /\ nread' = nread + 1
  /\ todo' = [todo EXCEPT ![p] = @ - 1]
  /\ UNCHANGED <<lock, data, nwrite, flags, fds, killed, pc>>

ReadByte(p) ==
  /\ At(p, "r_copy") /\ todo[p] > 0 /\ ~Empty
  /\ got' = [got EXCEPT ![p] = data[nread % PIPESIZE]]
  /\ nread' = (nread + 1) % Wrap
  /\ todo' = [todo EXCEPT ![p] = @ - 1]
  /\ UNCHANGED <<lock, data, nwrite, flags, fds, killed, pc>>

\* Mutant: the writers are not woken.
ReadDoneSilent(p) ==
  /\ At(p, "r_copy") /\ (todo[p] = 0 \/ Empty)
  /\ Release
  /\ Goto(p, "user")
  /\ Leave(p)
  /\ UNCHANGED <<ring, flags, fds, killed>>

ReadDone(p) ==
  /\ At(p, "r_copy") /\ (todo[p] = 0 \/ Empty)
  /\ WakeWriters(p, "user")
  /\ Release
  /\ Leave(p)
  /\ UNCHANGED <<ring, flags, fds, killed>>

(***************************************************************************)
(* pipewrite: byte by byte while there is room; when there is none, it     *)
(* gives up (and wakes nobody), or wakes the readers and sleeps.           *)
(***************************************************************************)
WriteByte(p, b) ==
  /\ At(p, "w_copy") /\ todo[p] > 0 /\ ~Full
  /\ data' = [data EXCEPT ![nwrite % PIPESIZE] = b]
  /\ nwrite' = (nwrite + 1) % Wrap
  /\ todo' = [todo EXCEPT ![p] = @ - 1]
  /\ UNCHANGED <<lock, nread, flags, fds, killed, pc, got>>

WriteGivesUp(p) ==
  /\ At(p, "w_copy") /\ todo[p] > 0 /\ Full /\ (~readopen \/ killed[p])
  /\ Release
  /\ Goto(p, "user")
  /\ Leave(p)
  /\ missed' = {q \in Procs : At(q, "r_asleep")}
  /\ UNCHANGED <<ring, readopen, writeopen, freed, fds, killed>>

WriteBlocks(p) ==
  /\ At(p, "w_copy") /\ todo[p] > 0 /\ Full /\ readopen /\ ~killed[p]
  /\ Goto(p, "w_sleep")
  /\ UNCHANGED <<lock, ring, flags, fds, killed, todo, got>>

WriteSleep(p) ==
  /\ At(p, "w_sleep")
  /\ WakeReaders(p, "w_asleep")
  /\ Release
  /\ UNCHANGED <<ring, readopen, writeopen, freed, fds, killed, todo, got>>

\* Mutant: the readers are woken only by writers that go to sleep.
WriteDoneSilent(p) ==
  /\ At(p, "w_copy") /\ todo[p] = 0
  /\ Goto(p, "user")
  /\ Release
  /\ Leave(p)
  /\ UNCHANGED <<ring, flags, fds, killed>>

WriteDone(p) ==
  /\ At(p, "w_copy") /\ todo[p] = 0
  /\ WakeReaders(p, "user")
  /\ Release
  /\ Leave(p)
  /\ UNCHANGED <<ring, readopen, writeopen, freed, fds, killed>>

-----------------------------------------------------------------------------
(***************************************************************************)
(* close() and exit(): fileclose drops a reference under ftable.lock; the  *)
(* last one of an end goes on to pipeclose, which frees the pipe when the  *)
(* other end is closed too.                                                *)
(***************************************************************************)
Close(p, e) ==
  /\ At(p, "user") /\ e \in fds[p]
  /\ fds' = [fds EXCEPT ![p] = @ \ {e}]
  /\ IF \E q \in Procs \ {p} : e \in fds[q]
     THEN UNCHANGED pc
     ELSE Goto(p, IF e = "r" THEN "close_r" ELSE "close_w")
  /\ UNCHANGED <<lock, ring, flags, killed, todo, got>>

\* Mutant: the first end that is closed frees the pipe.
PipeCloseEither(p) ==
  /\ lock = NoProc
  /\ \/ At(p, "close_w") /\ writeopen' = FALSE /\ WakeReaders(p, "user") /\ UNCHANGED readopen
     \/ At(p, "close_r") /\ readopen' = FALSE /\ WakeWriters(p, "user") /\ UNCHANGED <<writeopen, missed>>
  /\ freed' = TRUE
  /\ UNCHANGED <<lock, ring, fds, killed, todo, got>>

\* Mutant: the channels are swapped.
PipeCloseSwapped(p) ==
  /\ lock = NoProc
  /\ \/ At(p, "close_w") /\ writeopen' = FALSE /\ WakeWriters(p, "user") /\ UNCHANGED <<readopen, missed>>
     \/ At(p, "close_r") /\ readopen' = FALSE /\ WakeReaders(p, "user") /\ UNCHANGED writeopen
  /\ freed' = (~readopen' /\ ~writeopen')
  /\ UNCHANGED <<lock, ring, fds, killed, todo, got>>

PipeClose(p) ==
  /\ lock = NoProc
  /\ \/ At(p, "close_w") /\ writeopen' = FALSE /\ WakeReaders(p, "user") /\ UNCHANGED readopen
     \/ At(p, "close_r") /\ readopen' = FALSE /\ WakeWriters(p, "user") /\ UNCHANGED <<writeopen, missed>>
  /\ freed' = (~readopen' /\ ~writeopen')
  /\ UNCHANGED <<lock, ring, fds, killed, todo, got>>

(* kill, by a process outside: takes ptable.lock only.                     *)
Kill(p) ==
  /\ ~killed[p]
  /\ killed' = [killed EXCEPT ![p] = TRUE]
  /\ pc' = [pc EXCEPT ![p] = CASE @ = "r_asleep" -> "r_enter"
                               [] @ = "w_asleep" -> "w_enter"
                               [] OTHER          -> @]
  /\ UNCHANGED <<lock, ring, flags, fds, todo, got>>

-----------------------------------------------------------------------------
(* pipealloc has returned and the processes have inherited both ends; the  *)
(* page holds junk, the same everywhere.                                   *)
Init ==
  /\ lock = NoProc
  /\ \E b \in Bytes : data = [i \in 0 .. PIPESIZE - 1 |-> b]
  /\ nread = 0 /\ nwrite = 0 /\ readopen = TRUE /\ writeopen = TRUE /\ freed = FALSE
  /\ missed = {}
  /\ fds = [p \in Procs |-> {"r", "w"}]
  /\ killed = [p \in Procs |-> FALSE]
  /\ pc = [p \in Procs |-> "user"]
  /\ todo = [p \in Procs |-> 0]
  /\ got = [p \in Procs |-> NoByte]

KernelStep(p) ==
  \/ Enter(p)
  \/ ReadBlocks(p) \/ ReadKilled(p) \/ ReadSleep(p) \/ ReadStart(p) \/ ReadByte(p) \/ ReadDone(p)
  \/ \E b \in Bytes : WriteByte(p, b)
  \/ WriteGivesUp(p) \/ WriteBlocks(p) \/ WriteSleep(p) \/ WriteDone(p)
  \/ PipeClose(p)

Next == \E p \in Procs :
  \/ \E n \in Lens : ReadCall(p, n) \/ WriteCall(p, n)
  \/ KernelStep(p)
  \/ \E e \in {"r", "w"} : Close(p, e)
  \/ Kill(p)

Spec == Init /\ [][Next]_vars

(* A process inside the kernel goes on, and gets p->lock if it is free     *)
(* again and again.  Nothing makes processes call, close or kill.          *)
FairSpec == Spec /\ \A p \in Procs : SF_vars(KernelStep(p))

-----------------------------------------------------------------------------
(***************************************************************************)
(* Properties.                                                             *)
(***************************************************************************)
\* Types of all variables.
TypeOK ==
  /\ lock \in Procs \cup {NoProc}
  /\ data \in [0 .. PIPESIZE - 1 -> Bytes]
  /\ nread \in 0 .. Wrap - 1 /\ nwrite \in 0 .. Wrap - 1
  /\ readopen \in BOOLEAN /\ writeopen \in BOOLEAN /\ freed \in BOOLEAN
  /\ fds \in [Procs -> SUBSET {"r", "w"}]
  /\ killed \in [Procs -> BOOLEAN]
  /\ pc \in [Procs -> Pcs]
  /\ todo \in [Procs -> Nat]
  /\ got \in [Procs -> Bytes \cup {NoByte}]
  /\ missed \subseteq Procs

(* The bytes written and not yet read, in order.                           *)
Used     == (nwrite + Wrap - nread) % Wrap
Contents == [i \in 1 .. Used |-> data[(nread + i - 1) % PIPESIZE]]

(* What a process is doing, as ByteStream sees it.                         *)
Call(p) == IF pc[p] \in ReadPcs THEN "read" ELSE IF pc[p] \in WritePcs THEN "write" ELSE "none"

\* The ring buffer with its wrapping counters, locks, sleeps and closes is a
\* stream of bytes of capacity PIPESIZE.
Stream == INSTANCE ByteStream WITH
  stream <- Contents, call <- [p \in Procs |-> Call(p)], Capacity <- PIPESIZE
ImplementsStream == Stream!Spec

\* Nobody is inside a pipe that has been freed, or can still get there.
NoUseAfterFree == freed => \A p \in Procs : pc[p] = "user" /\ fds[p] = {}

(***************************************************************************)
(* The inductive invariant behind NoUseAfterFree and mutual exclusion:     *)
(* who holds p->lock, who has which end open, and who is closing it.       *)
(***************************************************************************)
LockedPcs == {"r_test", "r_sleep", "r_copy", "w_copy", "w_sleep"}
LockInv == \A p \in Procs : lock = p <=> pc[p] \in LockedPcs

EndsInv ==
  /\ \A p \in Procs : /\ pc[p] \in ReadPcs => "r" \in fds[p]
                      /\ pc[p] \in WritePcs => "w" \in fds[p]
  /\ \A p \in Procs : /\ ~readopen => "r" \notin fds[p] /\ pc[p] # "close_r"
                      /\ ~writeopen => "w" \notin fds[p] /\ pc[p] # "close_w"

CloseInv ==
  /\ \A p, q \in Procs : /\ pc[p] = "close_r" => "r" \notin fds[q] /\ (pc[q] = "close_r" => p = q)
                         /\ pc[p] = "close_w" => "w" \notin fds[q] /\ (pc[q] = "close_w" => p = q)
  /\ freed => ~readopen /\ ~writeopen

IInv == TypeOK /\ LockInv /\ EndsInv /\ CloseInv

(* What ImplementsStream needs besides: the writers never overtake the     *)
(* readers by more than the buffer, and a reader that has started to copy  *)
(* has something to copy or to return, or is at end of file.               *)
RingInv == Used <= PIPESIZE
CopyInv == \A p \in Procs : pc[p] = "r_copy" => got[p] # NoByte \/ ~writeopen \/ ~Empty

\* No lost wakeup: when p->lock is free, whoever sleeps has reason to.  A
\* writer sleeps only on a full pipe somebody may read, a reader only on an
\* empty pipe somebody may write.  Kills make one exception and no other: a
\* killed writer that finds the pipe full gives up without waking anyone
\* (pipe.c:83-86), and the readers asleep at that moment, no others, may sleep
\* over its bytes until readers are next woken.
NoLostWakeup ==
  lock = NoProc => \A p \in Procs :
    /\ pc[p] = "w_asleep" => Full /\ readopen
    /\ pc[p] = "r_asleep" =>
         /\ writeopen
         /\ Empty \/ (p \in missed /\ \E q \in Procs : killed[q])

(* What NoLostWakeup rests on while p->lock is held: the ends cannot close  *)
(* under who sleeps, who is about to sleep still has its reason, and the   *)
(* reason of a sleeper goes only while somebody copies who will wake it.   *)
SleepInv == \A p \in Procs :
  /\ pc[p] \in {"w_sleep", "w_asleep"} => readopen
  /\ pc[p] \in {"r_sleep", "r_asleep"} => writeopen
  /\ pc[p] = "w_sleep" => Full
  /\ pc[p] = "r_sleep" => Empty
WritersWait ==
  (\A q \in Procs : pc[q] # "r_copy") => \A p \in Procs : pc[p] = "w_asleep" => Full
ReadersWait ==
  (\A q \in Procs : pc[q] \notin {"w_copy", "w_sleep"}) =>
    \A p \in Procs : pc[p] = "r_asleep" => Empty \/ p \in missed
MissedInv == missed # {} => \E q \in Procs : killed[q]
WakeInv == SleepInv /\ WritersWait /\ ReadersWait /\ MissedInv

\* A reader sleeps only while the pipe is empty ("DOC: pipe-empty",
\* pipe.c:103), whatever happens to the writers.
SleepsOnlyIfEmpty ==
  lock = NoProc => \A p \in Procs : pc[p] = "r_asleep" => Empty

\* kill wakes its target "from sleep if necessary" (proc.c:399): no process
\* that has been killed sleeps on a pipe.
KilledAwake == \A p \in Procs : killed[p] => pc[p] \notin {"r_asleep", "w_asleep"}

\* Once the last writer has closed its end, every read returns.
EofReturns == \A p \in Procs : pc[p] \in ReadPcs /\ ~writeopen ~> pc[p] = "user"

\* Once the last reader has closed its end, every write returns.
BrokenPipeReturns == \A p \in Procs : pc[p] \in WritePcs /\ ~readopen ~> pc[p] = "user"

\* No call on a half-closed pipe waits for ever (pipe.c:57-67).
EndsReturn == EofReturns /\ BrokenPipeReturns
=============================================================================
