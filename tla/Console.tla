------------------------------ MODULE Console ------------------------------
(***************************************************************************)
(* The console of the P5 kernel (kernel/console.c): the line editor that   *)
(* the keyboard and serial interrupts run (consoleintr), and the calls     *)
(* that reach it through the console's inode, consoleread and              *)
(* consolewrite, with sleep, wakeup and kill (kernel/proc.c).              *)
(*                                                                         *)
(* Processes run on CPUs of their own, and the interrupt comes whenever    *)
(* input.lock is free.  The inode's lock is I_BUSY of kernel/fs.c; who     *)
(* waits for it is in FileSystem.  The indices of the ring are unsigned    *)
(* and wrap at Wrap, which stands for 2^32, a multiple of INPUT_BUF.       *)
(***************************************************************************)
EXTENDS Naturals, Sequences, FiniteSets

CONSTANTS
  Procs, NoProc,
  Letters,    \* characters of no special meaning
  NoChar,     \* an unused place of the ring
  Lens,       \* lengths that processes ask for
  INPUT_BUF,
  Wrap

ConstantAssumptions ==
  /\ NoProc \notin Procs /\ Lens \subseteq Nat
  /\ INPUT_BUF \in Nat \ {0}
  /\ Wrap \in Nat /\ Wrap > INPUT_BUF /\ Wrap % INPUT_BUF = 0

VARIABLES
  lock,     \* the process that holds input.lock
  buf, r, w, e,
  busy,     \* the process that holds the lock of the console's inode
  killed,   \* proc->killed
  pc,       \* where each process is
  n,        \* what its read has yet to get
  target,   \* what it asked for
  got       \* the character its read stored last

input == <<buf, r, w, e>>
call  == <<n, target, got>>
vars  == <<lock, buf, r, w, e, busy, killed, pc, n, target, got>>

Newline   == "\n"
EndOfFile == "C-D"
Chars     == Letters \cup {Newline, EndOfFile}

Pcs == {"user", "r_begin", "r_enter", "r_test", "r_sleep", "r_asleep", "r_end",
        "r_relock", "w_begin", "w_print", "w_relock"}

-----------------------------------------------------------------------------
At(p, l)   == pc[p] = l
Goto(p, l) == pc' = [pc EXCEPT ![p] = l]

Plus(a, b) == (a + b) % Wrap
Minus(a, b) == (a + Wrap - b) % Wrap

-----------------------------------------------------------------------------
(***************************************************************************)
(* consoleintr, for one character.  It is dropped when the ring is full.   *)
(***************************************************************************)
Room == Minus(e, r) < INPUT_BUF

Completes(c) == c \in {Newline, EndOfFile} \/ Plus(e, 1) = Plus(r, INPUT_BUF)

\* Mutant: readers are woken for whole lines only.
TypeWakesForLines(c) ==
  /\ lock = NoProc /\ Room
  /\ buf' = [buf EXCEPT ![e % INPUT_BUF] = c]
  /\ e' = Plus(e, 1)
  /\ w' = IF Completes(c) THEN Plus(e, 1) ELSE w
  /\ pc' = [q \in Procs |-> IF pc[q] = "r_asleep" /\ c = Newline THEN "r_enter" ELSE pc[q]]
  /\ UNCHANGED <<lock, r, busy, killed, call>>

Type(c) ==
  /\ lock = NoProc /\ Room
  /\ buf' = [buf EXCEPT ![e % INPUT_BUF] = c]
  /\ e' = Plus(e, 1)
  /\ IF Completes(c)
     THEN /\ w' = Plus(e, 1)
          /\ pc' = [q \in Procs |-> IF pc[q] = "r_asleep" THEN "r_enter" ELSE pc[q]]
     ELSE UNCHANGED <<w, pc>>
  /\ UNCHANGED <<lock, r, busy, killed, call>>

Backspace ==
  /\ lock = NoProc /\ e # w
  /\ e' = Minus(e, 1)
  /\ UNCHANGED <<lock, buf, r, w, busy, killed, pc, call>>

(* The loop of C('U'): back to w, or to the end of a line.                 *)
StopsAt(k) == k = Minus(e, w) \/ buf[Minus(e, k + 1) % INPUT_BUF] = Newline
KillLine ==
  \E k \in 0 .. INPUT_BUF :
  /\ lock = NoProc
  /\ StopsAt(k) /\ \A j \in 0 .. k - 1 : ~StopsAt(j)
  /\ e' = Minus(e, k)
  /\ UNCHANGED <<lock, buf, r, w, busy, killed, pc, call>>

-----------------------------------------------------------------------------
(***************************************************************************)
(* read: fileread locks the inode, consoleread gives it back while it      *)
(* waits for characters.                                                   *)
(***************************************************************************)
ReadCall(p) ==
  \E len \in Lens :
  /\ At(p, "user") /\ ~killed[p] /\ busy = NoProc
  /\ busy' = p
  /\ n' = [n EXCEPT ![p] = len]
  /\ target' = [target EXCEPT ![p] = len]
  /\ Goto(p, "r_begin")
  /\ UNCHANGED <<lock, input, killed, got>>

\* Mutant: the inode stays locked.
ReadBeginLocked(p) ==
  /\ At(p, "r_begin")
  /\ Goto(p, "r_enter")
  /\ UNCHANGED <<lock, input, busy, killed, call>>

ReadBegin(p) ==
  /\ At(p, "r_begin")
  /\ busy' = NoProc
  /\ Goto(p, "r_enter")
  /\ UNCHANGED <<lock, input, killed, call>>

(* acquire(&input.lock), also at the end of sleep().                       *)
ReadEnter(p) ==
  /\ At(p, "r_enter") /\ lock = NoProc
  /\ lock' = p
  /\ Goto(p, "r_test")
  /\ UNCHANGED <<input, busy, killed, call>>

ReadBlocks(p) ==
  /\ At(p, "r_test") /\ n[p] > 0 /\ r = w /\ ~killed[p]
  /\ Goto(p, "r_sleep")
  /\ UNCHANGED <<lock, input, busy, killed, call>>

ReadKilled(p) ==
  /\ At(p, "r_test") /\ n[p] > 0 /\ r = w /\ killed[p]
  /\ Goto(p, "r_end")
  /\ UNCHANGED <<lock, input, busy, killed, call>>

ReadSleep(p) ==
  /\ At(p, "r_sleep")
  /\ lock' = NoProc
  /\ Goto(p, "r_asleep")
  /\ UNCHANGED <<input, busy, killed, call>>

\* Mutant: the end of file is taken although the call has characters.
ReadCharNoSave(p) ==
  /\ At(p, "r_test") /\ n[p] > 0 /\ r # w
  /\ LET c == buf[r % INPUT_BUF] IN
     IF c = EndOfFile
     THEN Goto(p, "r_end") /\ r' = Plus(r, 1) /\ UNCHANGED <<n, got>>
     ELSE /\ r' = Plus(r, 1)
          /\ got' = [got EXCEPT ![p] = c]
          /\ n' = [n EXCEPT ![p] = @ - 1]
          /\ Goto(p, IF c = Newline THEN "r_end" ELSE "r_test")
  /\ UNCHANGED <<lock, buf, w, e, busy, killed, target>>

(* One character; an end of file stays for the next call when this one has *)
(* characters already.                                                     *)
ReadChar(p) ==
  /\ At(p, "r_test") /\ n[p] > 0 /\ r # w
  /\ LET c == buf[r % INPUT_BUF] IN
     IF c = EndOfFile
     THEN /\ r' = IF n[p] < target[p] THEN r ELSE Plus(r, 1)
          /\ Goto(p, "r_end") /\ UNCHANGED <<n, got>>
     ELSE /\ r' = Plus(r, 1)
          /\ got' = [got EXCEPT ![p] = c]
          /\ n' = [n EXCEPT ![p] = @ - 1]
          /\ Goto(p, IF c = Newline THEN "r_end" ELSE "r_test")
  /\ UNCHANGED <<lock, buf, w, e, busy, killed, target>>

ReadEnough(p) ==
  /\ At(p, "r_test") /\ n[p] = 0
  /\ Goto(p, "r_end")
  /\ UNCHANGED <<lock, input, busy, killed, call>>

ReadEnd(p) ==
  /\ At(p, "r_end")
  /\ lock' = NoProc
  /\ Goto(p, "r_relock")
  /\ UNCHANGED <<input, busy, killed, call>>

(* ilock at the end of consoleread, iunlock at that of fileread.           *)
ReadReturn(p) ==
  /\ At(p, "r_relock") /\ busy = NoProc
  /\ n' = [n EXCEPT ![p] = 0]
  /\ target' = [target EXCEPT ![p] = 0]
  /\ got' = [got EXCEPT ![p] = NoChar]
  /\ Goto(p, "user")
  /\ UNCHANGED <<lock, input, busy, killed>>

-----------------------------------------------------------------------------
(* write, in the same way; the characters go out under cons.lock, which    *)
(* nobody holds for long.                                                  *)
WriteCall(p) ==
  /\ At(p, "user") /\ ~killed[p] /\ busy = NoProc
  /\ busy' = p
  /\ Goto(p, "w_begin")
  /\ UNCHANGED <<lock, input, killed, call>>

WriteBegin(p) ==
  /\ At(p, "w_begin")
  /\ busy' = NoProc
  /\ Goto(p, "w_print")
  /\ UNCHANGED <<lock, input, killed, call>>

WritePrint(p) ==
  /\ At(p, "w_print")
  /\ Goto(p, "w_relock")
  /\ UNCHANGED <<lock, input, busy, killed, call>>

WriteReturn(p) ==
  /\ At(p, "w_relock") /\ busy = NoProc
  /\ Goto(p, "user")
  /\ UNCHANGED <<lock, input, busy, killed, call>>

(* kill, by any other process: it does not take input.lock.                *)
Kill(p) ==
  /\ ~killed[p]
  /\ killed' = [killed EXCEPT ![p] = TRUE]
  /\ IF At(p, "r_asleep") THEN Goto(p, "r_enter") ELSE UNCHANGED pc
  /\ UNCHANGED <<lock, input, busy, call>>

-----------------------------------------------------------------------------
Init ==
  /\ lock = NoProc /\ busy = NoProc
  /\ buf = [i \in 0 .. INPUT_BUF - 1 |-> NoChar]
  /\ r = 0 /\ w = 0 /\ e = 0
  /\ killed = [p \in Procs |-> FALSE]
  /\ pc = [p \in Procs |-> "user"]
  /\ n = [p \in Procs |-> 0] /\ target = [p \in Procs |-> 0]
  /\ got = [p \in Procs |-> NoChar]

Reading(p) ==
  \/ ReadBegin(p) \/ ReadEnter(p) \/ ReadBlocks(p) \/ ReadKilled(p) \/ ReadSleep(p)
  \/ ReadChar(p) \/ ReadEnough(p) \/ ReadEnd(p) \/ ReadReturn(p)
Writing(p) == WriteBegin(p) \/ WritePrint(p) \/ WriteReturn(p)
Keyboard   == (\E c \in Chars : Type(c)) \/ Backspace \/ KillLine

Next ==
  \/ Keyboard
  \/ \E p \in Procs : ReadCall(p) \/ WriteCall(p) \/ Reading(p) \/ Writing(p) \/ Kill(p)

Spec == Init /\ [][Next]_vars

(* A process in a call is scheduled, and gets a lock that is free again    *)
(* and again.  Nobody has to type.                                         *)
FairSpec == Spec /\ \A p \in Procs : SF_vars(Reading(p)) /\ SF_vars(Writing(p))

-----------------------------------------------------------------------------
TypeOK ==
  /\ lock \in Procs \cup {NoProc} /\ busy \in Procs \cup {NoProc}
  /\ buf \in [0 .. INPUT_BUF - 1 -> Chars \cup {NoChar}]
  /\ {r, w, e} \subseteq 0 .. Wrap - 1
  /\ killed \in [Procs -> BOOLEAN] /\ pc \in [Procs -> Pcs]
  /\ n \in [Procs -> Nat] /\ target \in [Procs -> Nat]
  /\ got \in [Procs -> Chars \cup {NoChar}]

\* A reader sleeps only while no complete line is there, whoever else has
\* been woken for the same line (console.c:231).
NoLostWakeup == \A p \in Procs : At(p, "r_asleep") => r = w

\* The ring never overtakes itself, and when it is full all of it can be
\* read: a line longer than the buffer does not stop the console
\* (console.c:210).
NeverStuck ==
  /\ Minus(w, r) <= Minus(e, r) /\ Minus(e, r) <= INPUT_BUF
  /\ Minus(e, r) = INPUT_BUF => w = e

\* The ring with its three indices is a line being typed and complete lines.
Chunk(from, to) == [i \in 1 .. Minus(to, from) |-> buf[(from + i - 1) % INPUT_BUF]]
Lines == INSTANCE LineInput WITH
  line <- Chunk(w, e), ready <- Chunk(r, w), Size <- INPUT_BUF,
  given <- [p \in Procs |-> target[p] - n[p]]
ImplementsLineInput == Lines!Spec

-----------------------------------------------------------------------------
(***************************************************************************)
(* The inductive invariant: who has input.lock, the ring, that the line    *)
(* being typed has no end yet, and what a call has still to get.           *)
(***************************************************************************)
HasLock == {"r_test", "r_sleep", "r_end"}
LockInv == \A p \in Procs : lock = p <=> pc[p] \in HasLock
SleepInv == \A p \in Procs : pc[p] \in {"r_sleep", "r_asleep"} => r = w
LineInv == \A i \in 0 .. INPUT_BUF - 1 : i < Minus(e, w) => buf[(w + i) % INPUT_BUF] # Newline
CallInv == \A p \in Procs :
  n[p] <= target[p] /\ (pc[p] \in {"user", "w_begin", "w_print", "w_relock"} => n[p] = target[p])

IInv == TypeOK /\ LockInv /\ SleepInv /\ NeverStuck /\ LineInv /\ CallInv

\* A write ends although readers wait for a line nobody types: they do not
\* keep the inode locked (console.c:227).
WritesEnd == \A p \in Procs : At(p, "w_begin") ~> At(p, "user")
=============================================================================
