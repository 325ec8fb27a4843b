--------------------------- MODULE StrideScheduler ---------------------------
(***************************************************************************)
(* The stride scheduler of the P4 kernel (kernel/proc.c): ptable.pstat,    *)
(* the global curr_pstat_idx, and the process table they describe.         *)
(*                                                                         *)
(* The Makefile runs the kernel on CPUS = 1: at most one process is        *)
(* RUNNING.  A timer interrupt can switch from it wherever it does not     *)
(* hold ptable.lock, so also in the middle of fork, which makes the child  *)
(* RUNNABLE before it has an entry in pstat.  Each action is one critical  *)
(* section of ptable.lock, or a part of fork outside one.                  *)
(*                                                                         *)
(* An entry is found by its index while its process runs, by its pid when  *)
(* the scheduler looks for the next one; a stale entry keeps its pid.      *)
(***************************************************************************)
EXTENDS Integers

CONSTANTS
  NPROC,       \* entries of ptable.proc and of ptable.pstat
  max_stride,  \* max_stride
  Numbers,     \* arguments of settickets
  MaxPid,      \* bound: pids handed out
  MaxPass      \* bound: pass values, which are ints

ConstantAssumptions ==
  /\ NPROC \in Nat \ {0} /\ max_stride \in Nat \ {0}
  /\ Numbers \subseteq Int /\ MaxPid \in Nat \ {0} /\ MaxPass \in Nat /\ MaxPass >= max_stride

Slots == 0 .. NPROC - 1
initproc == 0
NoSlot == NPROC

VARIABLES
  state,    \* p->state
  pid,      \* p->pid
  parent,   \* p->parent
  child,    \* np of a fork under way
  pstat,    \* ptable.pstat, by entry, without the ticks nothing reads
  curr,     \* curr_pstat_idx
  nextpid,  \* nextpid
  last,     \* history: pid of the process dispatched last
  asked     \* history: the tickets each process asked for or inherited

proc == <<state, pid, parent, child>>
vars == <<state, pid, parent, child, pstat, curr, nextpid, last, asked>>

Running(p) == state[p] = "RUNNING"

\* wakeup1(q), q sleeping in wait()
WakesParent(p) == [state EXCEPT ![parent[p]] = IF @ = "WAITING" THEN "RUNNABLE" ELSE @]

-----------------------------------------------------------------------------
(***************************************************************************)
(* fork: allocproc, then the copy, then RUNNABLE, then the entry.          *)
(***************************************************************************)
FirstUnused(q) == state[q] = "UNUSED" /\ \A r \in 0 .. q - 1 : state[r] /= "UNUSED"

ForkAlloc(p) == \E q \in Slots :
  /\ Running(p) /\ child[p] = NoSlot
  /\ FirstUnused(q) /\ nextpid <= MaxPid
  /\ state' = [state EXCEPT ![q] = "EMBRYO"]
  /\ pid' = [pid EXCEPT ![q] = nextpid]
  /\ nextpid' = nextpid + 1
  /\ child' = [child EXCEPT ![p] = q]
  /\ UNCHANGED <<parent, pstat, curr, last, asked>>

\* no page for the stack or for copyuvm: the slot keeps its pid
ForkFails(p) ==
  /\ Running(p) /\ child[p] /= NoSlot /\ state[child[p]] = "EMBRYO"
  /\ state' = [state EXCEPT ![child[p]] = "UNUSED"]
  /\ child' = [child EXCEPT ![p] = NoSlot]
  /\ UNCHANGED <<pid, parent, pstat, curr, nextpid, last, asked>>

ForkRunnable(p) ==
  /\ Running(p) /\ child[p] /= NoSlot /\ state[child[p]] = "EMBRYO"
  /\ state' = [state EXCEPT ![child[p]] = "RUNNABLE"]
  /\ parent' = [parent EXCEPT ![child[p]] = p]
  /\ UNCHANGED <<pid, child, pstat, curr, nextpid, last, asked>>

\* the i-th entry after the current one is the first that is free
FreeEntry(i) ==
  /\ ~pstat[(curr + i) % NPROC].inuse
  /\ \A j \in 1 .. i - 1 : pstat[(curr + j) % NPROC].inuse

ForkEntry(p) ==
  /\ Running(p) /\ child[p] /= NoSlot /\ state[child[p]] /= "EMBRYO"
  /\ child' = [child EXCEPT ![p] = NoSlot]
  /\ IF \E i \in 1 .. NPROC - 1 : FreeEntry(i)
     THEN \E i \in 1 .. NPROC - 1 :
       /\ FreeEntry(i)
       /\ pstat' = [pstat EXCEPT ![(curr + i) % NPROC] =
            [inuse |-> TRUE, tickets |-> pstat[curr].tickets, stride |-> pstat[curr].stride,
             pass |-> pstat[curr].stride, pid |-> pid[child[p]]]]
     ELSE UNCHANGED pstat
  /\ asked' = [asked EXCEPT ![child[p]] = asked[p]]
  /\ UNCHANGED <<state, pid, parent, curr, nextpid, last>>

-----------------------------------------------------------------------------
(***************************************************************************)
(* exit and wait.                                                          *)
(***************************************************************************)
Exited(e) == [e EXCEPT !.inuse = FALSE]

Reparented(p) == [q \in Slots |-> IF parent[q] = p THEN initproc ELSE parent[q]]

Exit(p) ==
  LET zombies == {q \in Slots : parent[q] = p /\ state[q] = "ZOMBIE"} IN
  /\ Running(p) /\ child[p] = NoSlot /\ p /= initproc
  /\ pstat' = [pstat EXCEPT ![curr] = Exited(@)]
  /\ parent' = Reparented(p)
  /\ state' = [WakesParent(p) EXCEPT ![p] = "ZOMBIE",
                 ![initproc] = IF @ = "WAITING" /\ zombies /= {} THEN "RUNNABLE" ELSE @]
  /\ UNCHANGED <<pid, child, curr, nextpid, last, asked>>

FirstZombie(p, q) ==
  /\ parent[q] = p /\ state[q] = "ZOMBIE"
  /\ \A r \in 0 .. q - 1 : ~(parent[r] = p /\ state[r] = "ZOMBIE")

WaitReap(p) == \E q \in Slots :
  /\ Running(p) /\ child[p] = NoSlot /\ FirstZombie(p, q)
  /\ state' = [state EXCEPT ![q] = "UNUSED"]
  /\ pid' = [pid EXCEPT ![q] = 0]
  /\ parent' = [parent EXCEPT ![q] = NoSlot]
  /\ UNCHANGED <<child, pstat, curr, nextpid, last, asked>>

WaitSleep(p) ==
  /\ Running(p) /\ child[p] = NoSlot
  /\ \E q \in Slots : parent[q] = p
  /\ ~\E q \in Slots : FirstZombie(p, q)
  /\ state' = [state EXCEPT ![p] = "WAITING"]
  /\ UNCHANGED <<pid, parent, child, pstat, curr, nextpid, last, asked>>

-----------------------------------------------------------------------------
(***************************************************************************)
(* yield on a timer interrupt, sleep on another channel, and what ends it  *)
(* (an interrupt, another process, kill).                                  *)
(***************************************************************************)
Yield(p) ==
  /\ Running(p)
  /\ state' = [state EXCEPT ![p] = "RUNNABLE"]
  /\ UNCHANGED <<pid, parent, child, pstat, curr, nextpid, last, asked>>

Sleep(p) ==
  /\ Running(p) /\ child[p] = NoSlot
  /\ state' = [state EXCEPT ![p] = "SLEEPING"]
  /\ UNCHANGED <<pid, parent, child, pstat, curr, nextpid, last, asked>>

Wakeup(p) ==
  /\ state[p] = "SLEEPING"
  /\ state' = [state EXCEPT ![p] = "RUNNABLE"]
  /\ UNCHANGED <<pid, parent, child, pstat, curr, nextpid, last, asked>>

-----------------------------------------------------------------------------
(***************************************************************************)
(* scheduler: the RUNNABLE process with an entry of the least pass, the    *)
(* last one found; the process that ran before it is charged for its tick. *)
(***************************************************************************)
Candidate(p, i) == state[p] = "RUNNABLE" /\ pstat[i].pid = pid[p]

Before(p, i, q, j) == p < q \/ (p = q /\ i < j)

Chosen(p, i) ==
  /\ Candidate(p, i)
  /\ \A q \in Slots, j \in Slots : Candidate(q, j) =>
       /\ pstat[i].pass <= pstat[j].pass
       /\ pstat[i].pass = pstat[j].pass => ~Before(p, i, q, j)

\* Mutant: curr_pstat_idx stays where it is.
CurrKept(i) == UNCHANGED curr

CurrIs(i) == curr' = i

Dispatch == \E p \in Slots, i \in Slots :
  /\ \A q \in Slots : ~Running(q)
  /\ Chosen(p, i)
  /\ pstat[curr].pass + pstat[curr].stride <= MaxPass
  /\ pstat' = [pstat EXCEPT ![curr].pass = @ + pstat[curr].stride]
  /\ CurrIs(i)
  /\ last' = pid[p]
  /\ state' = [state EXCEPT ![p] = "RUNNING"]
  /\ UNCHANGED <<pid, parent, child, nextpid, asked>>

-----------------------------------------------------------------------------
(***************************************************************************)
(* settickets, after the test of sys_settickets.                           *)
(***************************************************************************)
TicketEntry(p) == curr

SetTickets(p, number) ==
  /\ Running(p) /\ child[p] = NoSlot /\ number >= 1
  /\ pstat' = [pstat EXCEPT ![TicketEntry(p)] =
       [@ EXCEPT !.tickets = number, !.stride = max_stride \div number]]
  /\ asked' = [asked EXCEPT ![p] = number]
  /\ UNCHANGED <<state, pid, parent, child, curr, nextpid, last>>

-----------------------------------------------------------------------------
NoEntry == [inuse |-> FALSE, tickets |-> 0, stride |-> 0, pass |-> 0, pid |-> 0]

Init ==
  /\ state = [p \in Slots |-> IF p = initproc THEN "RUNNABLE" ELSE "UNUSED"]
  /\ pid = [p \in Slots |-> IF p = initproc THEN 1 ELSE 0]
  /\ parent = [p \in Slots |-> NoSlot]
  /\ child = [p \in Slots |-> NoSlot]
  /\ pstat = [i \in Slots |-> IF i /= 0 THEN NoEntry ELSE
       [inuse |-> TRUE, tickets |-> 1, stride |-> max_stride, pass |-> max_stride, pid |-> 1]]
  /\ curr = 0 /\ nextpid = 2 /\ last = 1
  /\ asked = [p \in Slots |-> 1]

Next ==
  \/ \E p \in Slots :
       \/ ForkAlloc(p) \/ ForkFails(p) \/ ForkRunnable(p) \/ ForkEntry(p)
       \/ Exit(p) \/ WaitReap(p) \/ WaitSleep(p)
       \/ Yield(p) \/ Sleep(p) \/ Wakeup(p)
       \/ \E n \in Numbers : SetTickets(p, n)
  \/ Dispatch

Spec == Init /\ [][Next]_vars

-----------------------------------------------------------------------------
(***************************************************************************)
(* Properties.                                                             *)
(***************************************************************************)
Live(p) == state[p] \in {"SLEEPING", "WAITING", "RUNNABLE", "RUNNING"}

\* the child of a fork that has not yet given it an entry
Born(p) == Live(p) /\ \E q \in Slots : child[q] = p /\ Live(q)

(* Type invariant of ptable and its pstat (kernel/proc.c:10-17).           *)
TypeOK ==
  /\ state \in [Slots -> {"UNUSED", "EMBRYO", "SLEEPING", "WAITING", "RUNNABLE", "RUNNING",
                          "ZOMBIE"}]
  /\ pid \in [Slots -> 0 .. MaxPid]
  /\ parent \in [Slots -> Slots \cup {NoSlot}] /\ child \in [Slots -> Slots \cup {NoSlot}]
  /\ pstat \in [Slots -> [inuse : BOOLEAN, tickets : Nat, stride : 0 .. max_stride,
                          pass : 0 .. MaxPass, pid : 0 .. MaxPid]]
  /\ asked \in [Slots -> Nat \ {0}]
  /\ curr \in Slots /\ nextpid \in 1 .. MaxPid + 1 /\ last \in 1 .. MaxPid

EntriesOf(p) == {i \in Slots : pstat[i].pid = pid[p]}

(* Every process that can run has exactly one entry with its pid, in use;  *)
(* the child of a fork that is not finished has none; nothing else is in   *)
(* use.  fork's search for an entry never comes back empty (proc.c:        *)
(* 189-200), and exit never frees another's (proc.c:232).                  *)
EntriesExact ==
  /\ \A p \in Slots : Live(p) =>
       IF Born(p) THEN EntriesOf(p) = {} ELSE \E i \in Slots : pstat[i].inuse /\ EntriesOf(p) = {i}
  /\ \A i \in Slots : pstat[i].inuse => \E p \in Slots : Live(p) /\ pid[p] = pstat[i].pid

(* The entry that the next tick, settickets, fork and exit take for the    *)
(* current process's is that of the process dispatched last (proc.c:340).  *)
CurrIsLast ==
  /\ pstat[curr].pid = last
  /\ \A p \in Slots : Running(p) => pid[p] = last /\ pstat[curr].inuse

(* A process has the tickets it asked for, or those its parent had at the  *)
(* fork, and the stride that goes with them (proc.c:193-194, 525-526).     *)
TicketsExact == \A p, i \in Slots :
  Live(p) /\ pstat[i].pid = pid[p] =>
    pstat[i].tickets = asked[p] /\ pstat[i].stride = max_stride \div asked[p]

-----------------------------------------------------------------------------
(***************************************************************************)
(* The inductive invariant.                                                *)
(***************************************************************************)
(* Pids are handed out once, and an entry's pid is that of one process.    *)
PidInv ==
  /\ \A p \in Slots : /\ pid[p] < nextpid
                      /\ state[p] /= "UNUSED" => pid[p] /= 0
  /\ \A p, q \in Slots : pid[p] = pid[q] /\ pid[p] /= 0 => p = q
  /\ \A i \in Slots : pstat[i].pid < nextpid
  /\ \A i, j \in Slots : pstat[i].pid = pstat[j].pid /\ pstat[i].pid /= 0 => i = j

(* Only one fork makes a child; neither can leave the fork before the child *)
(* has its entry, the child because the scheduler does not find it.        *)
ForkInv ==
  /\ \A p \in Slots : child[p] /= NoSlot =>
       /\ state[p] \in {"RUNNABLE", "RUNNING"}
       /\ state[child[p]] \in {"EMBRYO", "RUNNABLE"}
       /\ \A i \in Slots : pstat[i].pid /= pid[child[p]]
  /\ \A p, q \in Slots : child[p] = child[q] /\ child[p] /= NoSlot => p = q

EntryInv ==
  /\ \A p \in Slots : Live(p) /\ ~Born(p) => \E i \in Slots : pstat[i].inuse /\ pstat[i].pid = pid[p]
  /\ \A i \in Slots : pstat[i].inuse => \E p \in Slots : Live(p) /\ pid[p] = pstat[i].pid

IInv == TypeOK /\ PidInv /\ ForkInv /\ EntryInv /\ CurrIsLast /\ TicketsExact
=============================================================================
