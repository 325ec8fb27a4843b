------------------------- MODULE KernelPartsProofs -------------------------
(***************************************************************************)
(* Proofs about the parts of the kernels that MCKernelParts puts side by   *)
(* side, for every value of their constants: the stride scheduler (P4,     *)
(* kernel/proc.c), the console (P5, kernel/console.c), open files (P5,     *)
(* kernel/file.c and its callers) and spin locks (P5, kernel/spinlock.c    *)
(* and sched in kernel/proc.c).  The blocks of files are in                *)
(* FileBlocksProofs.                                                       *)
(***************************************************************************)
EXTENDS MCKernelParts, Integers, FiniteSets, FiniteSetTheorems, WellFoundedInduction,
        SequenceTheorems, Rings, TLAPS

\* A set of numbers has a least one.
LEMMA Least ==
  ASSUME NEW T \in SUBSET Nat, T # {}
  PROVE  \E x \in T : \A y \in T : x <= y
<1> DEFINE R == {ss \in Nat \X Nat : ss[1] < ss[2]}
<1>1. IsWellFoundedOn(R, Nat)
  BY NatLessThanWellFounded DEF OpToRel
<1>2. PICK x \in T : \A y \in T : ~(<<y, x>> \in R)
  BY <1>1, WFMin
<1>3. \A y \in T : ~(y < x)
  BY <1>2
<1> QED BY <1>3

-----------------------------------------------------------------------------
(***************************************************************************)
(* The stride scheduler.                                                   *)
(***************************************************************************)
LEMMA StrideConstants ==
  /\ NPROC \in Nat \ {0} /\ max_stride \in Nat \ {0} /\ Numbers \subseteq Int
  /\ MaxPid \in Nat \ {0} /\ MaxPass \in Nat /\ MaxPass >= max_stride
  /\ Stride!NoSlot \notin Stride!Slots
  /\ Stride!initproc \in Stride!Slots
BY PartsAssumptions DEF Stride!ConstantAssumptions, Stride!Slots, Stride!NoSlot, Stride!initproc

LEMMA StrideOf ==
  ASSUME NEW number \in Int, number >= 1
  PROVE  max_stride \div number \in 0 .. max_stride
BY StrideConstants

\* No two processes run: both would be the one dispatched last.
LEMMA RunsAlone ==
  ASSUME Stride!IInv, NEW p \in Stride!Slots, Stride!Running(p)
  PROVE  /\ \A q \in Stride!Slots : Stride!Running(q) => q = p
         /\ curr \in Stride!Slots /\ pstat[curr].pid = pid[p] /\ pstat[curr].inuse
         /\ pid[p] # 0 /\ \A q \in Stride!Slots : child[q] # p
         /\ \A i \in Stride!Slots : pstat[i].pid = pid[p] => i = curr
<1>1. /\ curr \in Stride!Slots /\ pstat[curr].pid = pid[p] /\ pstat[curr].inuse
      /\ \A q \in Stride!Slots : Stride!Running(q) => pid[q] = pid[p]
  BY DEF Stride!IInv, Stride!TypeOK, Stride!CurrIsLast
<1>2. pid[p] # 0
  BY DEF Stride!IInv, Stride!PidInv, Stride!Running
<1>3. \A q \in Stride!Slots : child[q] # p
  BY StrideConstants DEF Stride!IInv, Stride!ForkInv, Stride!Running
<1> QED BY <1>1, <1>2, <1>3 DEF Stride!IInv, Stride!PidInv

LEMMA StrideInit == Stride!Init => Stride!IInv
<1> SUFFICES ASSUME Stride!Init PROVE Stride!IInv
  OBVIOUS
<1>1. Stride!TypeOK
  <2>1. pstat \in [Stride!Slots -> [inuse : BOOLEAN, tickets : Nat, stride : 0 .. max_stride,
                                    pass : 0 .. MaxPass, pid : 0 .. MaxPid]]
    <3> DEFINE first == [inuse |-> TRUE, tickets |-> 1, stride |-> max_stride,
                         pass |-> max_stride, pid |-> 1]
    <3> HIDE DEF first
    <3>2. pstat = [i \in Stride!Slots |-> IF i # 0 THEN Stride!NoEntry ELSE first]
      BY DEF Stride!Init, first
    <3>3. \A i \in Stride!Slots : pstat[i] \in {Stride!NoEntry, first}
      BY <3>2
    <3>4. Stride!NoEntry \in [inuse : BOOLEAN, tickets : Nat, stride : 0 .. max_stride,
                              pass : 0 .. MaxPass, pid : 0 .. MaxPid]
      BY StrideConstants DEF Stride!NoEntry
    <3>5. first \in [inuse : BOOLEAN, tickets : Nat, stride : 0 .. max_stride,
                     pass : 0 .. MaxPass, pid : 0 .. MaxPid]
      BY StrideConstants DEF first
    <3> QED BY <3>2, <3>3, <3>4, <3>5
  <2> QED BY <2>1, StrideConstants DEF Stride!TypeOK, Stride!Init, Stride!initproc
<1> USE StrideConstants DEF Stride!Init, Stride!NoEntry, Stride!initproc
<1>2. Stride!PidInv
  BY DEF Stride!PidInv
<1>3. Stride!ForkInv
  BY DEF Stride!ForkInv
<1>4. Stride!EntryInv
  BY DEF Stride!EntryInv, Stride!Live
<1>5. Stride!CurrIsLast
  BY DEF Stride!CurrIsLast, Stride!Running
<1>6. Stride!TicketsExact
  <2>1. max_stride \div 1 = max_stride
    OBVIOUS
  <2> QED BY <2>1 DEF Stride!TicketsExact, Stride!Live
<1> QED BY <1>1, <1>2, <1>3, <1>4, <1>5, <1>6 DEF Stride!IInv

LEMMA ForkAllocKeeps ==
  ASSUME Stride!IInv, NEW p \in Stride!Slots, Stride!ForkAlloc(p)
  PROVE  Stride!IInv'
<1> PICK q \in Stride!Slots :
      /\ state[p] = "RUNNING" /\ child[p] = Stride!NoSlot /\ state[q] = "UNUSED" /\ nextpid <= MaxPid
      /\ state' = [state EXCEPT ![q] = "EMBRYO"] /\ pid' = [pid EXCEPT ![q] = nextpid]
      /\ nextpid' = nextpid + 1 /\ child' = [child EXCEPT ![p] = q]
      /\ UNCHANGED <<parent, pstat, curr, last, asked>>
  BY DEF Stride!ForkAlloc, Stride!FirstUnused, Stride!Running
<1> USE StrideConstants DEF Stride!IInv
<1>1. Stride!TypeOK'
  BY DEF Stride!TypeOK
<1>2. Stride!PidInv'
  BY DEF Stride!TypeOK, Stride!PidInv
<1>3. Stride!ForkInv'
  <2>1. \A s \in Stride!Slots : child[s] # q
    BY DEF Stride!ForkInv
  <2> QED BY <2>1 DEF Stride!TypeOK, Stride!PidInv, Stride!ForkInv
<1>4. \A s \in Stride!Slots : /\ Stride!Live(s)' <=> Stride!Live(s)
                              /\ Stride!Live(s) => s # q /\ pid'[s] = pid[s]
  BY DEF Stride!TypeOK, Stride!Live
<1>5. Stride!EntryInv'
  <2>1. \A s \in Stride!Slots : Stride!Born(s)' <=> Stride!Born(s)
    BY <1>4 DEF Stride!TypeOK, Stride!Born
  <2> QED BY <1>4, <2>1 DEF Stride!EntryInv
<1>6. Stride!CurrIsLast' /\ Stride!TicketsExact'
  BY <1>4 DEF Stride!CurrIsLast, Stride!TicketsExact, Stride!Running, Stride!Live, Stride!TypeOK
<1> QED BY <1>1, <1>2, <1>3, <1>5, <1>6

LEMMA ForkFailsKeeps ==
  ASSUME Stride!IInv, NEW p \in Stride!Slots, Stride!ForkFails(p)
  PROVE  Stride!IInv'
<1> DEFINE q == child[p]
<1> USE StrideConstants DEF Stride!IInv
<1>0. /\ state[p] = "RUNNING" /\ q # Stride!NoSlot /\ q \in Stride!Slots /\ state[q] = "EMBRYO"
      /\ state' = [state EXCEPT ![q] = "UNUSED"] /\ child' = [child EXCEPT ![p] = Stride!NoSlot]
      /\ UNCHANGED <<pid, parent, pstat, curr, nextpid, last, asked>>
  BY DEF Stride!ForkFails, Stride!Running, Stride!TypeOK
<1> HIDE DEF q
<1>1. Stride!TypeOK'
  BY <1>0 DEF Stride!TypeOK
<1>2. Stride!PidInv'
  BY <1>0 DEF Stride!TypeOK, Stride!PidInv
<1>3. Stride!ForkInv'
  <2>1. \A s \in Stride!Slots : s # p /\ child[s] # Stride!NoSlot => child[s] # q
    BY <1>0 DEF Stride!ForkInv, q
  <2> QED BY <1>0, <2>1 DEF Stride!TypeOK, Stride!ForkInv
<1>4. \A s \in Stride!Slots : Stride!Live(s)' <=> Stride!Live(s)
  BY <1>0 DEF Stride!TypeOK, Stride!Live
<1>5. Stride!EntryInv'
  <2>1. \A s \in Stride!Slots : Stride!Live(s) => (Stride!Born(s)' <=> Stride!Born(s))
    BY <1>0, <1>4 DEF Stride!TypeOK, Stride!Born, Stride!Live, q
  <2> QED BY <1>0, <1>4, <2>1 DEF Stride!EntryInv
<1>6. Stride!CurrIsLast' /\ Stride!TicketsExact'
  BY <1>0, <1>4 DEF Stride!CurrIsLast, Stride!TicketsExact, Stride!Running, Stride!TypeOK
<1> QED BY <1>1, <1>2, <1>3, <1>5, <1>6

LEMMA ForkRunnableKeeps ==
  ASSUME Stride!IInv, NEW p \in Stride!Slots, Stride!ForkRunnable(p)
  PROVE  Stride!IInv'
<1> DEFINE q == child[p]
<1> USE StrideConstants DEF Stride!IInv
<1>0. /\ state[p] = "RUNNING" /\ q # Stride!NoSlot /\ q \in Stride!Slots /\ state[q] = "EMBRYO"
      /\ state' = [state EXCEPT ![q] = "RUNNABLE"] /\ parent' = [parent EXCEPT ![q] = p]
      /\ UNCHANGED <<pid, child, pstat, curr, nextpid, last, asked>>
  BY DEF Stride!ForkRunnable, Stride!Running, Stride!TypeOK
<1>1. Stride!TypeOK'
  BY <1>0 DEF Stride!TypeOK
<1>2. Stride!PidInv'
  BY <1>0 DEF Stride!TypeOK, Stride!PidInv
<1>3. Stride!ForkInv'
  BY <1>0 DEF Stride!TypeOK, Stride!ForkInv
<1>4. \A s \in Stride!Slots : Stride!Live(s)' <=> Stride!Live(s) \/ s = q
  BY <1>0 DEF Stride!TypeOK, Stride!Live
<1>5. Stride!EntryInv'
  <2>1. \A s \in Stride!Slots : s # q => (Stride!Born(s)' <=> Stride!Born(s))
    BY <1>0, <1>4 DEF Stride!TypeOK, Stride!Born, Stride!ForkInv, Stride!Live
  <2>2. Stride!Born(q)'
    BY <1>0 DEF Stride!TypeOK, Stride!Born, Stride!Live
  <2> QED BY <1>0, <1>4, <2>1, <2>2 DEF Stride!EntryInv
<1>6. Stride!CurrIsLast' /\ Stride!TicketsExact'
  BY <1>0, <1>4 DEF Stride!CurrIsLast, Stride!TicketsExact, Stride!Running, Stride!TypeOK, Stride!ForkInv
<1> QED BY <1>1, <1>2, <1>3, <1>5, <1>6

\* Steps that leave forks, pids and entries alone.
LEMMA StateKeeps ==
  ASSUME Stride!IInv, NEW p \in Stride!Slots, NEW l, l \in {"SLEEPING", "WAITING", "RUNNABLE"},
         state' = [state EXCEPT ![p] = l], state[p] \in {"SLEEPING", "RUNNING"},
         l = "RUNNABLE" \/ child[p] = Stride!NoSlot,
         UNCHANGED <<pid, parent, child, pstat, curr, nextpid, last, asked>>
  PROVE  Stride!IInv'
<1> USE StrideConstants DEF Stride!IInv
<1>1. Stride!TypeOK'
  BY DEF Stride!TypeOK
<1>2. Stride!PidInv'
  BY DEF Stride!TypeOK, Stride!PidInv
<1>3. Stride!ForkInv'
  BY DEF Stride!TypeOK, Stride!ForkInv
<1>4. \A s \in Stride!Slots : Stride!Live(s)' <=> Stride!Live(s)
  BY DEF Stride!TypeOK, Stride!Live
<1>5. Stride!EntryInv'
  <2>1. \A s \in Stride!Slots : Stride!Born(s)' <=> Stride!Born(s)
    BY <1>4 DEF Stride!Born
  <2> QED BY <1>4, <2>1 DEF Stride!EntryInv
<1>6. Stride!CurrIsLast' /\ Stride!TicketsExact'
  BY <1>4 DEF Stride!CurrIsLast, Stride!TicketsExact, Stride!Running, Stride!TypeOK
<1> QED BY <1>1, <1>2, <1>3, <1>5, <1>6

LEMMA SleepKeeps ==
  ASSUME Stride!IInv, NEW p \in Stride!Slots,
         Stride!WaitSleep(p) \/ Stride!Yield(p) \/ Stride!Sleep(p) \/ Stride!Wakeup(p)
  PROVE  Stride!IInv'
<1>1. CASE Stride!WaitSleep(p)
  BY <1>1, StateKeeps DEF Stride!WaitSleep, Stride!Running
<1>2. CASE Stride!Yield(p)
  BY <1>2, StateKeeps DEF Stride!Yield, Stride!Running
<1>3. CASE Stride!Sleep(p)
  BY <1>3, StateKeeps DEF Stride!Sleep, Stride!Running
<1>4. CASE Stride!Wakeup(p)
  BY <1>4, StateKeeps DEF Stride!Wakeup
<1> QED BY <1>1, <1>2, <1>3, <1>4

LEMMA WaitReapKeeps ==
  ASSUME Stride!IInv, NEW p \in Stride!Slots, Stride!WaitReap(p)
  PROVE  Stride!IInv'
<1> PICK q \in Stride!Slots :
      /\ state[q] = "ZOMBIE" /\ state' = [state EXCEPT ![q] = "UNUSED"]
      /\ pid' = [pid EXCEPT ![q] = 0] /\ parent' = [parent EXCEPT ![q] = Stride!NoSlot]
      /\ UNCHANGED <<child, pstat, curr, nextpid, last, asked>>
  BY DEF Stride!WaitReap, Stride!FirstZombie
<1> USE StrideConstants DEF Stride!IInv
<1>1. Stride!TypeOK'
  BY DEF Stride!TypeOK
<1>2. Stride!PidInv'
  BY DEF Stride!TypeOK, Stride!PidInv
<1>3. Stride!ForkInv'
  BY DEF Stride!TypeOK, Stride!ForkInv
<1>4. \A s \in Stride!Slots : /\ Stride!Live(s)' <=> Stride!Live(s)
                              /\ Stride!Live(s) => pid'[s] = pid[s]
  BY DEF Stride!TypeOK, Stride!Live
<1>5. Stride!EntryInv'
  <2>1. \A s \in Stride!Slots : Stride!Born(s)' <=> Stride!Born(s)
    BY <1>4 DEF Stride!Born
  <2> QED BY <1>4, <2>1 DEF Stride!EntryInv
<1>6. Stride!CurrIsLast' /\ Stride!TicketsExact'
  BY <1>4 DEF Stride!CurrIsLast, Stride!TicketsExact, Stride!Running, Stride!TypeOK, Stride!Live
<1> QED BY <1>1, <1>2, <1>3, <1>5, <1>6

\* exit: nobody but p loses an entry, and the processes that wake were live.
LEMMA StrideExitKeeps ==
  ASSUME Stride!IInv, NEW p \in Stride!Slots, Stride!Exit(p)
  PROVE  Stride!IInv'
<1> USE StrideConstants DEF Stride!IInv
<1>0. /\ Stride!Running(p) /\ child[p] = Stride!NoSlot
      /\ pstat' = [pstat EXCEPT ![curr] = [@ EXCEPT !.inuse = FALSE]]
      /\ parent' = Stride!Reparented(p)
      /\ UNCHANGED <<pid, child, curr, nextpid, last, asked>>
      /\ state'[p] = "ZOMBIE" /\ state' \in [Stride!Slots -> {"WAITING", "RUNNABLE", "ZOMBIE"} \cup {state[s] : s \in Stride!Slots}]
      /\ \A s \in Stride!Slots \ {p} : state'[s] = state[s] \/ (state[s] = "WAITING" /\ state'[s] = "RUNNABLE")
  BY DEF Stride!Exit, Stride!Exited, Stride!WakesParent, Stride!TypeOK, Stride!Running
<1>1. Stride!TypeOK'
  <2> DEFINE Rec == [inuse : BOOLEAN, tickets : Nat, stride : 0 .. max_stride,
                     pass : 0 .. MaxPass, pid : 0 .. MaxPid]
  <2>1. pstat \in [Stride!Slots -> Rec] /\ curr \in Stride!Slots
    BY DEF Stride!TypeOK
  <2>2. [pstat[curr] EXCEPT !.inuse = FALSE] \in Rec
    BY <2>1
  <2> HIDE DEF Rec
  <2>3. pstat' \in [Stride!Slots -> Rec]
    BY <2>1, <2>2, <1>0
  <2>4. parent' \in [Stride!Slots -> Stride!Slots \cup {Stride!NoSlot}]
    BY <1>0 DEF Stride!TypeOK, Stride!Reparented
  <2>5. state' \in [Stride!Slots -> {"UNUSED", "EMBRYO", "SLEEPING", "WAITING", "RUNNABLE", "RUNNING", "ZOMBIE"}]
    BY <1>0 DEF Stride!TypeOK
  <2> QED BY <2>3, <2>4, <2>5, <1>0 DEF Stride!TypeOK, Rec
<1>2. Stride!PidInv'
  BY <1>0 DEF Stride!TypeOK, Stride!PidInv, Stride!Running
<1>7. p \notin {child[s] : s \in Stride!Slots}
  BY RunsAlone, <1>0
<1>3. Stride!ForkInv'
  <2>1. \A i \in Stride!Slots : pstat'[i].pid = pstat[i].pid
    BY <1>0 DEF Stride!TypeOK
  <2>2. \A s \in Stride!Slots : state[s] \in {"RUNNABLE", "RUNNING", "EMBRYO"} /\ s # p => state'[s] = state[s]
    BY <1>0
  <2>3. \A s \in Stride!Slots : child[s] # Stride!NoSlot => child[s] \in Stride!Slots /\ s # p /\ child[s] # p
    BY <1>0, <1>7 DEF Stride!TypeOK
  <2> QED BY <1>0, <2>1, <2>2, <2>3 DEF Stride!ForkInv
<1>4. \A s \in Stride!Slots : Stride!Live(s)' <=> Stride!Live(s) /\ s # p
  BY <1>0 DEF Stride!TypeOK, Stride!Live
<1>8. /\ \A i \in Stride!Slots : pstat'[i].pid = pid[p] => i = curr
      /\ \A i \in Stride!Slots : pstat'[i].pid = pstat[i].pid /\ (i # curr => pstat'[i] = pstat[i])
      /\ pstat[curr].pid = pid[p] /\ pstat'[curr].inuse = FALSE /\ pid[p] # 0
  BY <1>0, RunsAlone DEF Stride!TypeOK
<1>5. Stride!EntryInv'
  <2>1. \A s \in Stride!Slots : s # p => (Stride!Born(s)' <=> Stride!Born(s))
    BY <1>0, <1>4 DEF Stride!Born
  <2>2. \A s \in Stride!Slots : pid[s] = pid[p] => s = p
    BY <1>8 DEF Stride!PidInv
  <2>3. \A s \in Stride!Slots : Stride!Live(s)' /\ ~Stride!Born(s)' =>
          \E i \in Stride!Slots : pstat'[i].inuse /\ pstat'[i].pid = pid'[s]
    BY <1>0, <1>4, <1>8, <2>1, <2>2 DEF Stride!EntryInv
  <2>4. \A i \in Stride!Slots : pstat'[i].inuse =>
          \E s \in Stride!Slots : Stride!Live(s)' /\ pid'[s] = pstat'[i].pid
    BY <1>0, <1>4, <1>8 DEF Stride!EntryInv
  <2> QED BY <2>3, <2>4 DEF Stride!EntryInv
<1>6. Stride!CurrIsLast' /\ Stride!TicketsExact'
  <2>1. \A s \in Stride!Slots : ~Stride!Running(s)'
    BY <1>0, RunsAlone DEF Stride!Running
  <2>2. \A i \in Stride!Slots : /\ pstat'[i].pid = pstat[i].pid /\ pstat'[i].tickets = pstat[i].tickets
                                /\ pstat'[i].stride = pstat[i].stride
    BY <1>0 DEF Stride!TypeOK
  <2> QED BY <1>0, <1>4, <2>1, <2>2 DEF Stride!CurrIsLast, Stride!TicketsExact, Stride!TypeOK
<1> QED BY <1>1, <1>2, <1>3, <1>5, <1>6

\* The scheduler: a process it finds has an entry, so it is no child of a fork.
LEMMA DispatchKeeps ==
  ASSUME Stride!IInv, Stride!Dispatch
  PROVE  Stride!IInv'
<1> PICK p \in Stride!Slots, k \in Stride!Slots :
      /\ \A q \in Stride!Slots : ~Stride!Running(q)
      /\ state[p] = "RUNNABLE" /\ pstat[k].pid = pid[p]
      /\ pstat[curr].pass + pstat[curr].stride <= MaxPass
      /\ pstat' = [pstat EXCEPT ![curr].pass = @ + pstat[curr].stride]
      /\ curr' = k /\ last' = pid[p] /\ state' = [state EXCEPT ![p] = "RUNNING"]
      /\ UNCHANGED <<pid, parent, child, nextpid, asked>>
  BY DEF Stride!Dispatch, Stride!Chosen, Stride!Candidate, Stride!CurrIs
<1> USE StrideConstants DEF Stride!IInv
<1>1. Stride!TypeOK'
  <2>1. /\ pstat[curr] \in [inuse : BOOLEAN, tickets : Nat, stride : 0 .. max_stride,
                            pass : 0 .. MaxPass, pid : 0 .. MaxPid]
        /\ curr \in Stride!Slots
    BY DEF Stride!TypeOK
  <2>2. pstat[curr].pass + pstat[curr].stride \in 0 .. MaxPass
    BY <2>1
  <2>3. pstat' \in [Stride!Slots -> [inuse : BOOLEAN, tickets : Nat, stride : 0 .. max_stride,
                                     pass : 0 .. MaxPass, pid : 0 .. MaxPid]]
    BY <2>1, <2>2 DEF Stride!TypeOK
  <2>4. last' \in 1 .. MaxPid
    BY DEF Stride!TypeOK, Stride!PidInv
  <2> QED BY <2>3, <2>4 DEF Stride!TypeOK
<1>2. \A i \in Stride!Slots : /\ pstat'[i].pid = pstat[i].pid /\ pstat'[i].inuse = pstat[i].inuse
                              /\ pstat'[i].tickets = pstat[i].tickets /\ pstat'[i].stride = pstat[i].stride
  BY DEF Stride!TypeOK
<1>3. Stride!PidInv'
  BY <1>2 DEF Stride!TypeOK, Stride!PidInv
<1>4. \A s \in Stride!Slots : child[s] # p
  BY DEF Stride!ForkInv
<1>5. Stride!ForkInv'
  BY <1>2, <1>4 DEF Stride!TypeOK, Stride!ForkInv
<1>6. \A s \in Stride!Slots : Stride!Live(s)' <=> Stride!Live(s)
  BY DEF Stride!TypeOK, Stride!Live
<1>7. Stride!EntryInv'
  <2>1. \A s \in Stride!Slots : Stride!Born(s)' <=> Stride!Born(s)
    BY <1>6 DEF Stride!Born
  <2> QED BY <1>2, <1>6, <2>1 DEF Stride!EntryInv
<1>8. Stride!CurrIsLast'
  <2>1. pid[p] # 0 /\ Stride!Live(p) /\ ~Stride!Born(p)
    BY <1>4 DEF Stride!PidInv, Stride!Live, Stride!Born
  <2>2. pstat[k].inuse
    BY <2>1 DEF Stride!EntryInv, Stride!PidInv
  <2>3. \A s \in Stride!Slots : Stride!Running(s)' => s = p
    BY DEF Stride!Running, Stride!TypeOK
  <2> QED BY <1>2, <2>2, <2>3 DEF Stride!CurrIsLast
<1>9. Stride!TicketsExact'
  BY <1>2, <1>6 DEF Stride!TicketsExact
<1> QED BY <1>1, <1>3, <1>5, <1>7, <1>8, <1>9

LEMMA SetTicketsKeeps ==
  ASSUME Stride!IInv, NEW p \in Stride!Slots, NEW number \in Numbers, Stride!SetTickets(p, number)
  PROVE  Stride!IInv'
<1> USE StrideConstants DEF Stride!IInv
<1>0. /\ Stride!Running(p) /\ number \in Nat \ {0}
      /\ pstat' = [pstat EXCEPT ![curr] = [@ EXCEPT !.tickets = number, !.stride = max_stride \div number]]
      /\ asked' = [asked EXCEPT ![p] = number]
      /\ UNCHANGED <<state, pid, parent, child, curr, nextpid, last>>
  BY DEF Stride!SetTickets, Stride!TicketEntry
<1> DEFINE stride == max_stride \div number
<1>1. stride \in 0 .. max_stride
  BY <1>0, StrideOf
<1>2. /\ \A i \in Stride!Slots : pstat'[i].pid = pstat[i].pid /\ pstat'[i].inuse = pstat[i].inuse
      /\ \A i \in Stride!Slots \ {curr} : pstat'[i] = pstat[i]
      /\ pstat'[curr].tickets = number /\ pstat'[curr].stride = stride
  BY <1>0 DEF Stride!TypeOK
<1> HIDE DEF stride
<1>3. Stride!TypeOK'
  <2>1. pstat' = [pstat EXCEPT ![curr] = [@ EXCEPT !.tickets = number, !.stride = stride]]
    BY <1>0 DEF stride
  <2>2. pstat' \in [Stride!Slots -> [inuse : BOOLEAN, tickets : Nat, stride : 0 .. max_stride,
                                     pass : 0 .. MaxPass, pid : 0 .. MaxPid]]
    <3> DEFINE Rec == [inuse : BOOLEAN, tickets : Nat, stride : 0 .. max_stride,
                       pass : 0 .. MaxPass, pid : 0 .. MaxPid]
    <3>1. pstat \in [Stride!Slots -> Rec] /\ curr \in Stride!Slots
      BY DEF Stride!TypeOK
    <3>2. number \in Nat
      BY <1>0
    <3>3. [pstat[curr] EXCEPT !.tickets = number, !.stride = stride] \in Rec
      BY <3>1, <3>2, <1>1
    <3> HIDE DEF Rec
    <3>4. pstat' \in [Stride!Slots -> Rec]
      BY <3>1, <3>3, <2>1
    <3> QED BY <3>4 DEF Rec
  <2>3. asked' \in [Stride!Slots -> Nat \ {0}]
    BY <1>0 DEF Stride!TypeOK
  <2> QED BY <1>0, <2>2, <2>3 DEF Stride!TypeOK
<1>4. Stride!PidInv'
  BY <1>0, <1>2 DEF Stride!TypeOK, Stride!PidInv
<1>5. Stride!ForkInv'
  BY <1>0, <1>2 DEF Stride!TypeOK, Stride!ForkInv
<1>6. \A s \in Stride!Slots : (Stride!Live(s)' <=> Stride!Live(s)) /\ (Stride!Born(s)' <=> Stride!Born(s))
  BY <1>0 DEF Stride!Live, Stride!Born
<1>7. Stride!EntryInv'
  BY <1>0, <1>2, <1>6 DEF Stride!EntryInv
<1>8. Stride!CurrIsLast'
  BY <1>0, <1>2 DEF Stride!CurrIsLast, Stride!Running, Stride!TypeOK
<1>9. Stride!TicketsExact'
  <2>1. /\ \A i \in Stride!Slots : pstat[i].pid = pid[p] => i = curr
        /\ pstat[curr].pid = pid[p] /\ pid[p] # 0
    BY <1>0, RunsAlone
  <2>2. \A s \in Stride!Slots : pid[s] = pid[p] => s = p
    BY <2>1 DEF Stride!PidInv
  <2>3. stride = max_stride \div asked'[p] /\ asked'[p] = number
    BY <1>0 DEF Stride!TypeOK, stride
  <2>4. \A s \in Stride!Slots \ {p} : asked'[s] = asked[s]
    BY <1>0 DEF Stride!TypeOK
  <2>5. ASSUME NEW s \in Stride!Slots, NEW i \in Stride!Slots, Stride!Live(s), pstat[i].pid = pid[s]
        PROVE  pstat'[i].tickets = asked'[s] /\ pstat'[i].stride = max_stride \div asked'[s]
    <3>1. CASE s = p
      BY <1>2, <2>1, <2>3, <2>5, <3>1
    <3>2. CASE s # p
      BY <1>2, <2>1, <2>2, <2>4, <2>5, <3>2 DEF Stride!TicketsExact
    <3> QED BY <3>1, <3>2
  <2> QED BY <1>0, <1>2, <1>6, <2>5 DEF Stride!TicketsExact
<1> QED BY <1>3, <1>4, <1>5, <1>7, <1>8, <1>9

\* Counting on from curr, fork's search comes to every other entry.
LEMMA Offsets ==
  ASSUME NEW c \in Stride!Slots
  PROVE  /\ \A i \in 1 .. NPROC - 1 : (c + i) % NPROC \in Stride!Slots
         /\ \A k \in Stride!Slots \ {c} : \E i \in 1 .. NPROC - 1 : (c + i) % NPROC = k
<1>1. NPROC \in Nat \ {0} /\ Stride!Slots = 0 .. NPROC - 1
  BY StrideConstants DEF Stride!Slots
<1>2. \A x \in 0 .. NPROC - 1 : x % NPROC = x /\ (x + NPROC) % NPROC = x
  BY <1>1
<1>3. \A i \in 1 .. NPROC - 1 : (c + i) % NPROC \in Stride!Slots
  BY <1>1
<1>4. ASSUME NEW k \in Stride!Slots \ {c} PROVE \E i \in 1 .. NPROC - 1 : (c + i) % NPROC = k
  <2>1. CASE k > c
    <3>1. k - c \in 1 .. NPROC - 1 /\ c + (k - c) = k
      BY <1>1, <2>1
    <3> QED BY <1>1, <1>2, <3>1
  <2>2. CASE k < c
    <3>1. k + NPROC - c \in 1 .. NPROC - 1 /\ c + (k + NPROC - c) = k + NPROC
      BY <1>1, <2>2
    <3> QED BY <1>1, <1>2, <3>1
  <2> QED BY <1>1, <1>4, <2>1, <2>2
<1> QED BY <1>3, <1>4

\* While a child has no entry yet, one is free: fewer processes have entries
\* than there are slots.
LEMMA EntryIsFree ==
  ASSUME Stride!IInv, NEW p \in Stride!Slots, Stride!Running(p), child[p] # Stride!NoSlot
  PROVE  \E i \in Stride!Slots : ~pstat[i].inuse /\ i # curr
<1>1. child[p] \in Stride!Slots /\ \A i \in Stride!Slots : pstat[i].pid # pid[child[p]]
  BY DEF Stride!IInv, Stride!TypeOK, Stride!ForkInv
<1>2. pstat[curr].inuse
  BY RunsAlone
<1>3. SUFFICES ASSUME \A i \in Stride!Slots : pstat[i].inuse PROVE FALSE
  BY <1>2
<1> DEFINE Others == Stride!Slots \ {child[p]}
           f == [i \in Stride!Slots |-> CHOOSE q \in Others : Stride!Live(q) /\ pid[q] = pstat[i].pid]
<1>4. ASSUME NEW i \in Stride!Slots
      PROVE  f[i] \in Others /\ Stride!Live(f[i]) /\ pid[f[i]] = pstat[i].pid
  <2>1. \E q \in Others : Stride!Live(q) /\ pid[q] = pstat[i].pid
    BY <1>1, <1>3 DEF Stride!IInv, Stride!EntryInv
  <2> QED BY <2>1
<1>5. f \in [Stride!Slots -> Others]
  BY <1>4
<1>6. IsFiniteSet(Stride!Slots) /\ IsFiniteSet(Others) /\ Cardinality(Others) < Cardinality(Stride!Slots)
  <2>1. IsFiniteSet(Stride!Slots)
    BY FS_Interval, StrideConstants DEF Stride!Slots
  <2>2. /\ IsFiniteSet(Others) /\ Cardinality(Others) = Cardinality(Stride!Slots) - 1
    BY <1>1, <2>1, FS_RemoveElement
  <2>3. Cardinality(Stride!Slots) \in Nat
    BY <2>1, FS_CardinalityType
  <2> QED BY <2>1, <2>2, <2>3
<1> HIDE DEF f, Others
<1>7. PICK i \in Stride!Slots, j \in Stride!Slots : i # j /\ f[i] = f[j]
  BY <1>5, <1>6, FS_PigeonHole
<1>8. pstat[i].pid = pstat[j].pid /\ pstat[i].pid # 0
  <2>1. f[i] \in Stride!Slots /\ state[f[i]] # "UNUSED"
    BY <1>4 DEF Stride!Live, Others
  <2>2. pid[f[i]] # 0
    BY <2>1 DEF Stride!IInv, Stride!PidInv
  <2> QED BY <1>4, <1>7, <2>2
<1> QED BY <1>7, <1>8 DEF Stride!IInv, Stride!PidInv

LEMMA SearchFinds ==
  ASSUME Stride!IInv, NEW p \in Stride!Slots, Stride!Running(p), child[p] # Stride!NoSlot
  PROVE  \E i \in 1 .. NPROC - 1 : Stride!FreeEntry(i)
<1> DEFINE T == {i \in 1 .. NPROC - 1 : ~pstat[(curr + i) % NPROC].inuse}
<1>1. PICK k \in Stride!Slots : ~pstat[k].inuse /\ k # curr
  BY EntryIsFree
<1>2. PICK i \in 1 .. NPROC - 1 : (curr + i) % NPROC = k
  BY <1>1, Offsets DEF Stride!IInv, Stride!TypeOK
<1>3. T \in SUBSET Nat /\ T # {}
  BY <1>1, <1>2
<1>4. PICK x \in T : \A y \in T : x <= y
  BY <1>3, Least
<1>5. \A j \in 1 .. x - 1 : j \notin T /\ j \in 1 .. NPROC - 1
  BY <1>4, StrideConstants
<1> QED BY <1>4, <1>5 DEF Stride!FreeEntry

\* fork gives the child an entry, one that no live process has.
LEMMA ForkEntryKeeps ==
  ASSUME Stride!IInv, NEW p \in Stride!Slots, Stride!ForkEntry(p)
  PROVE  Stride!IInv'
<1> DEFINE c == child[p]
           new == [inuse |-> TRUE, tickets |-> pstat[curr].tickets, stride |-> pstat[curr].stride,
                   pass |-> pstat[curr].stride, pid |-> pid[c]]
<1> USE StrideConstants DEF Stride!IInv
<1>1. PICK i \in 1 .. NPROC - 1 :
        Stride!FreeEntry(i) /\ pstat' = [pstat EXCEPT ![(curr + i) % NPROC] = new]
  BY SearchFinds DEF Stride!ForkEntry
<1> DEFINE k == (curr + i) % NPROC
<1>2. /\ Stride!Running(p) /\ c \in Stride!Slots /\ c # Stride!NoSlot /\ state[c] = "RUNNABLE"
      /\ k \in Stride!Slots /\ ~pstat[k].inuse /\ pstat' = [pstat EXCEPT ![k] = new]
      /\ child' = [child EXCEPT ![p] = Stride!NoSlot]
      /\ asked' = [asked EXCEPT ![c] = asked[p]]
      /\ UNCHANGED <<state, pid, parent, curr, nextpid, last>>
  BY <1>1, Offsets DEF Stride!ForkEntry, Stride!FreeEntry, Stride!TypeOK, Stride!ForkInv
<1>3. /\ \A s \in Stride!Slots : child[s] = c => s = p
      /\ \A j \in Stride!Slots : pstat[j].pid # pid[c]
      /\ \A s \in Stride!Slots : pid[s] = pid[c] => s = c
      /\ p # c /\ pid[c] # 0
  BY <1>2 DEF Stride!ForkInv, Stride!PidInv, Stride!Running
<1>4. /\ pstat[curr].pid = pid[p] /\ pstat[curr].inuse /\ curr \in Stride!Slots /\ k # curr
  BY <1>2, RunsAlone
<1> HIDE DEF c, k
<1>5. new \in [inuse : BOOLEAN, tickets : Nat, stride : 0 .. max_stride, pass : 0 .. MaxPass, pid : 0 .. MaxPid]
  <2>1. pstat[curr].tickets \in Nat /\ pstat[curr].stride \in 0 .. max_stride /\ pid[c] \in 0 .. MaxPid
    BY <1>2, <1>4 DEF Stride!TypeOK
  <2>2. pstat[curr].stride \in 0 .. MaxPass
    BY <2>1
  <2> QED BY <2>1, <2>2
<1>6. pstat'[k] = new /\ \A j \in Stride!Slots \ {k} : pstat'[j] = pstat[j]
  BY <1>2 DEF Stride!TypeOK
<1>7. /\ new.pid = pid[c] /\ new.inuse /\ new.tickets = pstat[curr].tickets
      /\ new.stride = pstat[curr].stride
  OBVIOUS
<1> HIDE DEF new
<1>8. Stride!TypeOK'
  BY <1>2, <1>5 DEF Stride!TypeOK
<1>9. Stride!PidInv'
  BY <1>2, <1>3, <1>6, <1>7 DEF Stride!PidInv
<1>10. Stride!ForkInv'
  <2>1. \A s \in Stride!Slots : child'[s] # Stride!NoSlot => s # p /\ child'[s] = child[s] /\ child[s] # c
    BY <1>2, <1>3 DEF Stride!TypeOK
  <2>2. \A s \in Stride!Slots : child[s] # Stride!NoSlot => child[s] \in Stride!Slots
    BY DEF Stride!TypeOK
  <2>3. \A s \in Stride!Slots : child'[s] # Stride!NoSlot => pid[child[s]] # pid[c]
    BY <1>3, <2>1, <2>2
  <2> QED BY <1>2, <1>6, <1>7, <2>1, <2>3 DEF Stride!ForkInv
<1>11. \A s \in Stride!Slots : (Stride!Live(s)' <=> Stride!Live(s)) /\ (Stride!Live(s) => pid[s] # 0)
  BY <1>2 DEF Stride!Live, Stride!PidInv
<1>12. Stride!EntryInv'
  <2>1. \A s \in Stride!Slots : s # c => (Stride!Born(s)' <=> Stride!Born(s))
    BY <1>2, <1>3, <1>11 DEF Stride!Born, Stride!TypeOK, c
  <2>2. \A s \in Stride!Slots : Stride!Live(s)' /\ ~Stride!Born(s)' =>
          \E j \in Stride!Slots : pstat'[j].inuse /\ pstat'[j].pid = pid'[s]
    <3>1. \A s \in Stride!Slots : s # c /\ Stride!Live(s) /\ ~Stride!Born(s) =>
            \E j \in Stride!Slots \ {k} : pstat[j].inuse /\ pstat[j].pid = pid[s]
      BY <1>2 DEF Stride!EntryInv
    <3> QED BY <1>2, <1>6, <1>7, <1>11, <2>1, <3>1
  <2>3. \A j \in Stride!Slots : pstat'[j].inuse =>
          \E s \in Stride!Slots : Stride!Live(s)' /\ pid'[s] = pstat'[j].pid
    <3>1. Stride!Live(c)
      BY <1>2 DEF Stride!Live
    <3> QED BY <1>2, <1>6, <1>7, <1>11, <3>1 DEF Stride!EntryInv
  <2> QED BY <2>2, <2>3 DEF Stride!EntryInv
<1>13. Stride!CurrIsLast'
  BY <1>2, <1>4, <1>6 DEF Stride!CurrIsLast, Stride!Running
<1>14. Stride!TicketsExact'
  <2>1. /\ \A s \in Stride!Slots \ {c} : asked'[s] = asked[s]
        /\ asked'[c] = asked[p]
    BY <1>2 DEF Stride!TypeOK
  <2>2. pstat[curr].tickets = asked[p] /\ pstat[curr].stride = max_stride \div asked[p]
    BY <1>2, <1>4 DEF Stride!TicketsExact, Stride!Live, Stride!Running
  <2>3. ASSUME NEW s \in Stride!Slots, NEW j \in Stride!Slots, Stride!Live(s), pstat'[j].pid = pid[s]
        PROVE  pstat'[j].tickets = asked'[s] /\ pstat'[j].stride = max_stride \div asked'[s]
    <3>1. CASE j = k
      <4>1. s = c
        BY <1>3, <1>6, <1>7, <2>3, <3>1
      <4> QED BY <1>6, <1>7, <2>1, <2>2, <3>1, <4>1
    <3>2. CASE j # k
      <4>1. s # c /\ pstat'[j] = pstat[j]
        BY <1>3, <1>6, <2>3, <3>2
      <4> QED BY <2>1, <2>3, <4>1 DEF Stride!TicketsExact
    <3> QED BY <3>1, <3>2
  <2> QED BY <1>2, <1>11, <2>3 DEF Stride!TicketsExact
<1> QED BY <1>8, <1>9, <1>10, <1>12, <1>13, <1>14

LEMMA StrideStep == Stride!IInv /\ Stride!Next => Stride!IInv'
<1> SUFFICES ASSUME Stride!IInv, Stride!Next PROVE Stride!IInv'
  OBVIOUS
<1>1. CASE Stride!Dispatch
  BY <1>1, DispatchKeeps
<1>2. ASSUME NEW p \in Stride!Slots,
             \/ Stride!ForkAlloc(p) \/ Stride!ForkFails(p) \/ Stride!ForkRunnable(p) \/ Stride!ForkEntry(p)
             \/ Stride!Exit(p) \/ Stride!WaitReap(p)
             \/ Stride!WaitSleep(p) \/ Stride!Yield(p) \/ Stride!Sleep(p) \/ Stride!Wakeup(p)
      PROVE  Stride!IInv'
  BY <1>2, ForkAllocKeeps, ForkFailsKeeps, ForkRunnableKeeps, ForkEntryKeeps, StrideExitKeeps,
     WaitReapKeeps, SleepKeeps
<1>3. ASSUME NEW p \in Stride!Slots, NEW number \in Numbers, Stride!SetTickets(p, number)
      PROVE  Stride!IInv'
  BY <1>3, SetTicketsKeeps
<1> QED BY <1>1, <1>2, <1>3 DEF Stride!Next

LEMMA StrideImplied ==
  ASSUME Stride!IInv
  PROVE  Stride!TypeOK /\ Stride!EntriesExact /\ Stride!CurrIsLast /\ Stride!TicketsExact
<1> USE DEF Stride!IInv
<1>1. ASSUME NEW p \in Stride!Slots, Stride!Live(p), Stride!Born(p)
      PROVE  Stride!EntriesOf(p) = {}
  BY <1>1, StrideConstants DEF Stride!Born, Stride!ForkInv, Stride!EntriesOf
<1>2. ASSUME NEW p \in Stride!Slots, Stride!Live(p), ~Stride!Born(p)
      PROVE  \E i \in Stride!Slots : pstat[i].inuse /\ Stride!EntriesOf(p) = {i}
  <2>1. PICK i \in Stride!Slots : pstat[i].inuse /\ pstat[i].pid = pid[p]
    BY <1>2 DEF Stride!EntryInv
  <2>2. pid[p] # 0
    BY <1>2 DEF Stride!Live, Stride!PidInv
  <2> QED BY <2>1, <2>2 DEF Stride!PidInv, Stride!EntriesOf
<1>3. \A i \in Stride!Slots : pstat[i].inuse => \E p \in Stride!Slots : Stride!Live(p) /\ pid[p] = pstat[i].pid
  BY DEF Stride!EntryInv
<1> QED BY <1>1, <1>2, <1>3 DEF Stride!EntriesExact

\* Every process that can run has its one entry, found by index or by pid,
\* and its tickets (proc.c:189-200, 232, 340, 525), for any number of slots,
\* tickets, pids and passes, and wherever the timer interrupts a fork.
THEOREM StrideExact == Spec => []StrideSound
<1> DEFINE Inv == part = "stride" => Stride!IInv
<1>1. Init => Inv
  BY StrideInit DEF Init
<1>2. Inv /\ [Next]_vars => Inv'
  <2> SUFFICES ASSUME Inv, [Next]_vars, part' = "stride" PROVE Stride!IInv'
    OBVIOUS
  <2>1. CASE Stride!Next /\ part = "stride"
    BY <2>1, StrideStep
  <2>2. CASE part' = part /\ UNCHANGED strideVars
    <3>1. /\ UNCHANGED <<state, pid, parent, child, pstat, curr, nextpid, last, asked>> /\ Stride!IInv
      BY <2>2 DEF strideVars
    <3>2. Stride!TypeOK' /\ Stride!PidInv' /\ Stride!ForkInv' /\ Stride!TicketsExact' /\ Stride!CurrIsLast'
      BY <3>1 DEF Stride!IInv, Stride!TypeOK, Stride!PidInv, Stride!ForkInv, Stride!TicketsExact,
         Stride!CurrIsLast, Stride!Live, Stride!Running
    <3>3. Stride!EntryInv'
      BY <3>1 DEF Stride!IInv, Stride!EntryInv, Stride!Live, Stride!Born
    <3> QED BY <3>2, <3>3 DEF Stride!IInv
  <2> QED BY <2>1, <2>2 DEF Next, vars, OnlyStride, OnlyLocks, OnlyInput, OnlyOpen, OnlyDisk
<1>3. Inv => StrideSound
  BY StrideImplied DEF StrideSound
<1> QED BY <1>1, <1>2, <1>3, PTL DEF Spec

-----------------------------------------------------------------------------
(***************************************************************************)
(* Ring buffers: remainders of indices that advance by one, distances      *)
(* between them and parts of the ring.                                     *)
(***************************************************************************)
(* A positive multiple of P is not below P.                                *)
LEMMA NoMultiple ==
  ASSUME NEW P \in Int, P > 0, NEW k \in Int, 0 < P * k
  PROVE  P <= P * k
<1>1. CASE k <= 0
  BY <1>1, SMT
<1>2. CASE k >= 1
  BY <1>2, SMT
<1> QED BY <1>1, <1>2

(* Adding a multiple of P does not change the remainder.                   *)
LEMMA ModPeriod ==
  ASSUME NEW P \in Int, P > 0, NEW a \in Int, NEW k \in Int
  PROVE  (a + P * k) % P = a % P
<1>1. PICK d \in Int, rr \in Int : a = P * d + rr /\ rr = a % P /\ 0 <= rr /\ rr < P
  <2>1. a \div P \in Int /\ a % P \in Int /\ a % P >= 0 /\ a % P < P
    BY SMT
  <2>2. a = P * (a \div P) + (a % P)
    BY Z3T(20)
  <2> QED BY <2>1, <2>2
<1>2. a + P * k = P * (d + k) + rr
  BY <1>1, SMT
<1>3. (P * (d + k) + rr) % P = rr
  <2>1. d + k \in Int
    OBVIOUS
  <2>2. \A q \in Int : (P * q + rr) % P = rr
    BY <1>1, SMT
  <2> QED BY <2>1, <2>2
<1> QED BY <1>1, <1>2, <1>3

(* Two numbers less than P apart have different remainders.                *)
LEMMA ModDistinct ==
  ASSUME NEW P \in Int, P > 0, NEW a \in Int, NEW b \in Int, a < b, b < a + P
  PROVE  a % P # b % P
<1> SUFFICES ASSUME a % P = b % P PROVE FALSE
  OBVIOUS
<1>1. PICK d \in Int, ee \in Int : a = P * d + (a % P) /\ b = P * ee + (b % P)
  <2>1. a \div P \in Int /\ b \div P \in Int
    BY SMT
  <2>2. a = P * (a \div P) + (a % P)
    BY Z3T(20)
  <2>3. b = P * (b \div P) + (b % P)
    BY Z3T(20)
  <2> QED BY <2>1, <2>2, <2>3
<1>2. a % P \in Int /\ b % P \in Int
  BY SMT
<1>3. b - a = P * (ee - d)
  BY <1>1, <1>2, SMT
<1>4. ee - d \in Int /\ 0 < P * (ee - d) /\ P * (ee - d) < P
  BY <1>3
<1> QED BY <1>4, NoMultiple

LEMMA Sizes ==
  ASSUME NEW P, NEW W, IsRing(P, W)
  PROVE  /\ P \in Int /\ P > 0 /\ W \in Int /\ P < W
         /\ \A a \in Int : (a + W) % P = a % P
         /\ \A a \in Int : a % P \in 0 .. P - 1 /\ a % W \in 0 .. W - 1
<1>1. P \in Int /\ P > 0 /\ W \in Int /\ P < W /\ W % P = 0
  BY DEF IsRing
<1>2. PICK k \in Int : W = P * k
  <2>1. W = P * (W \div P) + (W % P)
    BY <1>1, Z3T(20)
  <2>2. W \div P \in Int
    BY <1>1, SMT
  <2>3. P * (W \div P) \in Int
    BY <1>1, <2>2
  <2> QED BY <1>1, <2>1, <2>2, <2>3
<1>3. \A a \in Int : (a + P * k) % P = a % P
  BY <1>1, ModPeriod
<1>4. \A a \in Int : a % P \in 0 .. P - 1
  BY <1>1, SMT
<1>5. \A a \in Int : a % W \in 0 .. W - 1
  BY <1>1, SMT
<1> QED BY <1>1, <1>2, <1>3, <1>4, <1>5

-----------------------------------------------------------------------------
LEMMA SliceSeq ==
  ASSUME NEW P, NEW S, NEW d, IsBuffer(d, P, S), NEW rr \in Nat, NEW nn \in Nat
  PROVE  IsSlice(Slice(d, P, rr, nn), d, P, rr, nn, S)
<1>1. \A i \in 1 .. nn : (rr + i - 1) % P \in 0 .. P - 1
  BY DEF IsBuffer
<1>2. Slice(d, P, rr, nn) \in [1 .. nn -> S]
  BY <1>1 DEF Slice, IsBuffer
<1>3. Slice(d, P, rr, nn) \in Seq(S)
  BY <1>2, SMT
<1>4. Len(Slice(d, P, rr, nn)) = nn
  BY <1>2, <1>3, LenProperties DEF Slice
<1> QED BY <1>3, <1>4 DEF Slice, IsSlice

(* What is put behind the last one is appended: it overwrites none of them. *)
LEMMA SliceAppend ==
  ASSUME NEW P, NEW S, NEW d, IsBuffer(d, P, S), NEW rr \in Nat, NEW nn \in Nat, nn < P,
         NEW b \in S, NEW ee, IsPut(ee, d, P, rr, nn, b)
  PROVE  Slice(ee, P, rr, nn + 1) = Append(Slice(d, P, rr, nn), b)
<1> DEFINE s == Slice(d, P, rr, nn)
           t == Slice(ee, P, rr, nn + 1)
<1>0. P \in Nat \ {0} /\ d \in [0 .. P - 1 -> S]
  BY DEF IsBuffer, IsPut
<1>1. (rr + nn) % P \in 0 .. P - 1
  BY <1>0
<1>2. /\ ee \in [0 .. P - 1 -> S] /\ ee[(rr + nn) % P] = b
      /\ \A j \in 0 .. P - 1 : j # (rr + nn) % P => ee[j] = d[j]
      /\ IsBuffer(ee, P, S)
  BY <1>0, <1>1 DEF IsBuffer, IsPut
<1>3. ASSUME NEW i \in 1 .. nn PROVE (rr + i - 1) % P # (rr + nn) % P
  <2>1. /\ P \in Int /\ P > 0 /\ rr + i - 1 \in Int /\ rr + nn \in Int
        /\ rr + i - 1 < rr + nn /\ rr + nn < rr + i - 1 + P
    BY <1>0
  <2> QED BY <2>1, ModDistinct
<1>4. \A i \in 1 .. nn : (rr + i - 1) % P \in 0 .. P - 1
  BY <1>0
<1>5. /\ s \in Seq(S) /\ Len(s) = nn
      /\ \A i \in 1 .. nn : s[i] = d[(rr + i - 1) % P]
  <2>1. IsSlice(s, d, P, rr, nn, S)
    BY SliceSeq
  <2> QED BY <2>1 DEF IsSlice
<1>6. /\ t \in Seq(S) /\ Len(t) = nn + 1
      /\ \A i \in 1 .. nn + 1 : t[i] = ee[(rr + i - 1) % P]
  <2>1. nn + 1 \in Nat
    OBVIOUS
  <2>2. IsSlice(t, ee, P, rr, nn + 1, S)
    BY <1>2, <2>1, SliceSeq
  <2> QED BY <2>2 DEF IsSlice
<1> HIDE DEF s, t
<1>7. \A i \in 1 .. nn : t[i] = s[i]
  <2> TAKE i \in 1 .. nn
  <2>1. t[i] = ee[(rr + i - 1) % P] /\ s[i] = d[(rr + i - 1) % P]
    BY <1>5, <1>6
  <2> QED BY <1>2, <1>3, <1>4, <2>1
<1>8. t[nn + 1] = b
  <2>1. rr + (nn + 1) - 1 = rr + nn /\ nn + 1 \in 1 .. nn + 1
    OBVIOUS
  <2> QED BY <1>2, <1>6, <2>1
<1>9. /\ Append(s, b) \in Seq(S) /\ Len(Append(s, b)) = nn + 1
      /\ \A i \in 1 .. nn : Append(s, b)[i] = s[i]
      /\ Append(s, b)[nn + 1] = b
  BY <1>5, AppendProperties
<1>10. \A i \in 1 .. nn + 1 : t[i] = Append(s, b)[i]
  BY <1>7, <1>8, <1>9
<1>11. t = Append(s, b)
  BY <1>6, <1>9, <1>10, SeqEqual
<1> QED BY <1>11 DEF s, t

(* Without its first place it starts one index later.                       *)
LEMMA SliceTail ==
  ASSUME NEW P, NEW S, NEW d, IsBuffer(d, P, S), NEW rr \in Nat, NEW nn \in Nat, NEW m \in Nat, nn = m + 1
  PROVE  IsRest(Slice(d, P, rr + 1, m), Slice(d, P, rr, nn), d[rr % P])
<1> DEFINE s == Slice(d, P, rr, nn)
           t == Slice(d, P, rr + 1, m)
<1>1. /\ s \in Seq(S) /\ Len(s) = nn
      /\ \A i \in 1 .. nn : s[i] = d[(rr + i - 1) % P]
  <2>1. IsSlice(s, d, P, rr, nn, S)
    BY SliceSeq
  <2> QED BY <2>1 DEF IsSlice
<1>2. /\ t \in Seq(S) /\ Len(t) = m
      /\ \A i \in 1 .. m : t[i] = d[(rr + 1 + i - 1) % P]
  <2>1. rr + 1 \in Nat
    OBVIOUS
  <2>2. IsSlice(t, d, P, rr + 1, m, S)
    BY <2>1, SliceSeq
  <2> QED BY <2>2 DEF IsSlice
<1> HIDE DEF s, t
<1>3. \A i \in 1 .. m : t[i] = s[i + 1]
  <2> TAKE i \in 1 .. m
  <2>1. i + 1 \in 1 .. nn /\ rr + 1 + i - 1 = rr + (i + 1) - 1
    OBVIOUS
  <2> QED BY <1>1, <1>2, <2>1
<1>4. s[1] = d[rr % P]
  BY <1>1
<1>5. s # <<>>
  BY <1>1, EmptySeq
<1>6. /\ Tail(s) \in Seq(S) /\ Len(Tail(s)) = m
      /\ \A i \in 1 .. m : Tail(s)[i] = s[i + 1]
  BY <1>1, <1>5, HeadTailProperties
<1>7. Head(s) = s[1]
  BY <1>1, <1>5
<1>8. Tail(s) = t
  BY <1>2, <1>3, <1>6, SeqEqual
<1> QED BY <1>4, <1>5, <1>7, <1>8 DEF IsRest, s, t

(* The wrap of the index does not show.                                    *)
LEMMA SliceWrap ==
  ASSUME NEW P, NEW W, IsRing(P, W), NEW d, NEW rr \in 0 .. W - 1, NEW nn \in Nat
  PROVE  Slice(d, P, (rr + 1) % W, nn) = Slice(d, P, rr + 1, nn)
<1>0. /\ P \in Int /\ P > 0 /\ W \in Int /\ P < W
      /\ \A a \in Int : (a + W) % P = a % P
  BY Sizes
<1>1. CASE rr + 1 < W
  <2>1. (rr + 1) % W = rr + 1
    BY <1>1, <1>0, SMT
  <2> QED BY <2>1
<1>2. CASE rr + 1 = W
  <2>1. (rr + 1) % W = 0
    BY <1>2, <1>0, SMT
  <2>2. \A i \in 1 .. nn : (rr + 1 + i - 1) % P = (0 + i - 1) % P
    <3>1. \A i \in 1 .. nn : i - 1 \in Int /\ rr + 1 + i - 1 = (i - 1) + W /\ 0 + i - 1 = i - 1
      BY <1>2, <1>0
    <3> QED BY <3>1, <1>0
  <2> QED BY <2>1, <2>2 DEF Slice
<1> QED BY <1>1, <1>2, <1>0

\* Two parts that follow each other.
LEMMA SliceJoin ==
  ASSUME NEW P, NEW S, NEW d, IsBuffer(d, P, S), NEW rr \in Nat, NEW a \in Nat, NEW b \in Nat,
         NEW m \in Nat, m = rr + a, NEW c \in Nat, c = a + b
  PROVE  IsJoin(Slice(d, P, rr, c), Slice(d, P, rr, a), Slice(d, P, m, b))
<1> DEFINE s == Slice(d, P, rr, a)
           t == Slice(d, P, m, b)
           u == Slice(d, P, rr, c)
<1>1. IsSlice(s, d, P, rr, a, S) /\ IsSlice(t, d, P, m, b, S) /\ IsSlice(u, d, P, rr, c, S)
  BY SliceSeq
<1> HIDE DEF s, t, u
<1>2. /\ s \in Seq(S) /\ t \in Seq(S) /\ u \in Seq(S)
      /\ Len(s) = a /\ Len(t) = b /\ Len(u) = a + b
  BY <1>1 DEF IsSlice
<1>3. /\ s \o t \in Seq(S) /\ Len(s \o t) = a + b
      /\ \A i \in 1 .. a + b : (s \o t)[i] = IF i <= a THEN s[i] ELSE t[i - a]
  BY <1>2, ConcatProperties
<1>4. \A i \in 1 .. a + b : u[i] = (s \o t)[i]
  <2> TAKE i \in 1 .. a + b
  <2>1. u[i] = d[(rr + i - 1) % P]
    BY <1>1 DEF IsSlice
  <2>2. CASE i <= a
    <3>1. i \in 1 .. a
      BY <2>2
    <3>2. s[i] = d[(rr + i - 1) % P]
      BY <1>1, <3>1 DEF IsSlice
    <3>3. (s \o t)[i] = s[i]
      BY <1>3, <2>2
    <3> QED BY <2>1, <3>2, <3>3
  <2>3. CASE i > a
    <3>1. i - a \in 1 .. b /\ m + (i - a) - 1 = rr + i - 1 /\ ~(i <= a)
      BY <2>3
    <3>2. t[i - a] = d[(m + (i - a) - 1) % P]
      BY <1>1, <3>1 DEF IsSlice
    <3> QED BY <1>3, <2>1, <3>1, <3>2
  <2>4. i <= a \/ i > a
    OBVIOUS
  <2> QED BY <2>2, <2>3, <2>4
<1>5. u = s \o t
  BY <1>2, <1>3, <1>4, SeqEqual
<1> QED BY <1>5 DEF IsJoin, s, t, u

\* Without its last place.
LEMMA SliceFront ==
  ASSUME NEW P, NEW S, NEW d, IsBuffer(d, P, S), NEW rr \in Nat, NEW nn \in Nat, NEW m \in Nat, nn = m + 1
  PROVE  IsFront(Slice(d, P, rr, m), Slice(d, P, rr, nn))
<1> DEFINE s == Slice(d, P, rr, nn)
           t == Slice(d, P, rr, m)
<1>1. IsSlice(s, d, P, rr, nn, S) /\ IsSlice(t, d, P, rr, m, S)
  BY SliceSeq
<1> HIDE DEF s, t
<1>2. /\ s \in Seq(S) /\ t \in Seq(S) /\ Len(s) = nn /\ Len(t) = m
  BY <1>1 DEF IsSlice
<1>3. /\ SubSeq(s, 1, m) \in Seq(S) /\ Len(SubSeq(s, 1, m)) = m
      /\ \A i \in 1 .. m : SubSeq(s, 1, m)[i] = s[i]
  BY <1>2, SubSeqProperties
<1>4. \A i \in 1 .. m : t[i] = s[i]
  BY <1>1 DEF IsSlice
<1>5. SubSeq(s, 1, m) = t
  BY <1>2, <1>3, <1>4, SeqEqual
<1>6. s # <<>>
  BY <1>2, EmptySeq
<1>7. Len(s) - 1 = m
  BY <1>2
<1> QED BY <1>5, <1>6, <1>7 DEF IsFront, s, t

\* What is put behind a part does not change it.
LEMMA SliceKept ==
  ASSUME NEW P, NEW S, NEW d, IsBuffer(d, P, S), NEW rr \in Nat, NEW nn \in Nat, NEW m \in Nat,
         nn <= m, m < P, NEW b, NEW ee, IsPut(ee, d, P, rr, m, b)
  PROVE  Slice(ee, P, rr, nn) = Slice(d, P, rr, nn)
<1>1. P \in Nat \ {0} /\ d \in [0 .. P - 1 -> S]
  BY DEF IsBuffer
<1>2. ASSUME NEW i \in 1 .. nn
      PROVE  ee[(rr + i - 1) % P] = d[(rr + i - 1) % P]
  <2>1. (rr + i - 1) % P # (rr + m) % P
    <3>1. /\ P \in Int /\ P > 0 /\ rr + i - 1 \in Int /\ rr + m \in Int
          /\ rr + i - 1 < rr + m /\ rr + m < rr + i - 1 + P
      BY <1>1
    <3> QED BY <3>1, ModDistinct
  <2>2. (rr + i - 1) % P \in 0 .. P - 1
    BY <1>1
  <2> QED BY <1>1, <2>1, <2>2 DEF IsPut
<1> QED BY <1>2 DEF Slice

-----------------------------------------------------------------------------
LEMMA Distance ==
  ASSUME NEW P, NEW W, IsRing(P, W), NEW rr \in 0 .. W - 1, NEW ww \in 0 .. W - 1
  PROVE  Dist(W, rr, ww) = IF ww >= rr THEN ww - rr ELSE ww + W - rr
<1>0. /\ P \in Int /\ P > 0 /\ W \in Int /\ P < W
      /\ \A a \in Int : (a + W) % P = a % P
  BY Sizes
<1> USE DEF Dist
<1>1. CASE ww >= rr
  <2>1. ww - rr \in Int /\ 0 <= ww - rr /\ ww - rr < W
    BY <1>1, <1>0
  <2>2. \A a \in Int : (a + W * 1) % W = a % W
    <3>1. W \in Int /\ W > 0 /\ 1 \in Int
      BY <1>0
    <3> QED BY <3>1, ModPeriod, Zenon
  <2>3. \A a \in Int : 0 <= a /\ a < W => a % W = a
    BY <1>0, SMT
  <2>4. ww + W - rr = (ww - rr) + W * 1
    BY <1>0
  <2> QED BY <1>1, <2>1, <2>2, <2>3, <2>4
<1>2. CASE ww < rr
  BY <1>2, <1>0, SMT
<1> QED BY <1>1, <1>2, <1>0

(* One more, in unsigned arithmetic.                                       *)
LEMMA Increment ==
  ASSUME NEW P, NEW W, IsRing(P, W), NEW rr \in 0 .. W - 1
  PROVE  (rr + 1) % W = IF rr + 1 = W THEN 0 ELSE rr + 1
<1>0. /\ P \in Int /\ P > 0 /\ W \in Int /\ P < W
      /\ \A a \in Int : (a + W) % P = a % P
  BY Sizes
<1>1. CASE rr + 1 = W
  BY <1>1, <1>0, SMT
<1>2. CASE rr + 1 < W
  BY <1>2, <1>0, SMT
<1> QED BY <1>1, <1>2, <1>0

(* One index is P behind the other, in unsigned arithmetic.                *)
LEMMA FullDistance ==
  ASSUME NEW P, NEW W, IsRing(P, W), NEW rr \in 0 .. W - 1, NEW ww \in 0 .. W - 1
  PROVE  ww = (rr + P) % W <=> ww = rr + P \/ ww + W = rr + P
<1>0. /\ P \in Int /\ P > 0 /\ W \in Int /\ P < W
      /\ \A a \in Int : (a + W) % P = a % P
  BY Sizes
<1>1. CASE rr + P < W
  <2>1. (rr + P) % W = rr + P
    BY <1>1, <1>0, SMT
  <2> QED BY <1>1, <2>1, <1>0
<1>2. CASE rr + P >= W
  <2>1. (rr + P) % W = rr + P - W
    BY <1>2, <1>0, SMT
  <2> QED BY <1>2, <2>1, <1>0
<1> QED BY <1>1, <1>2, <1>0

(* Three indices in order around the ring.                                 *)
LEMMA DistanceSum ==
  ASSUME NEW P, NEW W, IsRing(P, W), NEW a \in 0 .. W - 1, NEW b \in 0 .. W - 1, NEW c \in 0 .. W - 1,
         Dist(W, a, b) <= Dist(W, a, c)
  PROVE  /\ Dist(W, a, b) \in Nat /\ Dist(W, b, c) \in Nat
         /\ Dist(W, a, b) + Dist(W, b, c) = Dist(W, a, c)
<1>1. /\ Dist(W, a, b) = IF b >= a THEN b - a ELSE b + W - a
      /\ Dist(W, b, c) = IF c >= b THEN c - b ELSE c + W - b
      /\ Dist(W, a, c) = IF c >= a THEN c - a ELSE c + W - a
  BY Distance
<1>2. W \in Int
  BY DEF IsRing
<1> QED BY <1>1, <1>2

LEMMA DistanceZero ==
  ASSUME NEW P, NEW W, IsRing(P, W), NEW a \in 0 .. W - 1, NEW b \in 0 .. W - 1
  PROVE  Dist(W, a, b) \in 0 .. W - 1 /\ (Dist(W, a, b) = 0 <=> a = b)
<1>0. P \in Int /\ P > 0 /\ W \in Int /\ P < W
  BY Sizes
<1>1. Dist(W, a, b) = IF b >= a THEN b - a ELSE b + W - a
  BY Distance
<1> QED BY <1>0, <1>1

(* The second index moves forth.                                           *)
LEMMA DistanceForth ==
  ASSUME NEW P, NEW W, IsRing(P, W), NEW a \in 0 .. W - 1, NEW b \in 0 .. W - 1,
         Dist(W, a, b) + 1 < W
  PROVE  Dist(W, a, (b + 1) % W) = Dist(W, a, b) + 1
<1> DEFINE c == (b + 1) % W
<1>0. P \in Int /\ P > 0 /\ W \in Int /\ P < W
  BY Sizes
<1>1. c = IF b + 1 = W THEN 0 ELSE b + 1
  BY Increment
<1>2. c \in 0 .. W - 1
  BY <1>0, <1>1
<1> HIDE DEF c
<1>3. /\ Dist(W, a, b) = IF b >= a THEN b - a ELSE b + W - a
      /\ Dist(W, a, c) = IF c >= a THEN c - a ELSE c + W - a
  BY <1>2, Distance
<1>4. Dist(W, a, c) = Dist(W, a, b) + 1
  BY <1>0, <1>1, <1>2, <1>3
<1> QED BY <1>4 DEF c

(* The second index moves back.                                            *)
LEMMA DistanceBack ==
  ASSUME NEW P, NEW W, IsRing(P, W), NEW a \in 0 .. W - 1, NEW b \in 0 .. W - 1, a # b
  PROVE  Dist(W, 1, b) \in 0 .. W - 1 /\ Dist(W, a, Dist(W, 1, b)) = Dist(W, a, b) - 1
<1> DEFINE c == Dist(W, 1, b)
<1>0. P \in Int /\ P > 0 /\ W \in Int /\ P < W /\ 1 \in 0 .. W - 1
  BY Sizes
<1>1. c = IF b >= 1 THEN b - 1 ELSE b + W - 1
  BY <1>0, Distance
<1>2. c \in 0 .. W - 1
  BY <1>0, <1>1
<1> HIDE DEF c
<1>3. /\ Dist(W, a, b) = IF b >= a THEN b - a ELSE b + W - a
      /\ Dist(W, a, c) = IF c >= a THEN c - a ELSE c + W - a
  BY <1>2, Distance
<1>4. Dist(W, a, c) = Dist(W, a, b) - 1
  BY <1>0, <1>1, <1>2, <1>3
<1> QED BY <1>2, <1>4 DEF c

(* The first index moves forth.                                            *)
LEMMA DistanceShort ==
  ASSUME NEW P, NEW W, IsRing(P, W), NEW a \in 0 .. W - 1, NEW b \in 0 .. W - 1, a # b
  PROVE  Dist(W, (a + 1) % W, b) = Dist(W, a, b) - 1
<1> DEFINE c == (a + 1) % W
<1>0. P \in Int /\ P > 0 /\ W \in Int /\ P < W
  BY Sizes
<1>1. c = IF a + 1 = W THEN 0 ELSE a + 1
  BY Increment
<1>2. c \in 0 .. W - 1
  BY <1>0, <1>1
<1> HIDE DEF c
<1>3. /\ Dist(W, a, b) = IF b >= a THEN b - a ELSE b + W - a
      /\ Dist(W, c, b) = IF b >= c THEN b - c ELSE b + W - c
  BY <1>2, Distance
<1>4. Dist(W, c, b) = Dist(W, a, b) - 1
  BY <1>0, <1>1, <1>2, <1>3
<1> QED BY <1>4 DEF c

(* The second index, less the distance, is the first.                      *)
LEMMA DistanceUndone ==
  ASSUME NEW P, NEW W, IsRing(P, W), NEW a \in 0 .. W - 1, NEW b \in 0 .. W - 1
  PROVE  Dist(W, Dist(W, a, b), b) = a
<1> DEFINE c == Dist(W, a, b)
<1>0. P \in Int /\ P > 0 /\ W \in Int /\ P < W
  BY Sizes
<1>1. c = IF b >= a THEN b - a ELSE b + W - a
  BY Distance
<1>2. c \in 0 .. W - 1
  BY <1>0, <1>1
<1> HIDE DEF c
<1>3. Dist(W, c, b) = IF b >= c THEN b - c ELSE b + W - c
  BY <1>2, Distance
<1>4. Dist(W, c, b) = a
  BY <1>0, <1>1, <1>2, <1>3
<1> QED BY <1>4 DEF c

LEMMA DistanceFull ==
  ASSUME NEW P, NEW W, IsRing(P, W), NEW a \in 0 .. W - 1, NEW b \in 0 .. W - 1
  PROVE  Dist(W, a, b) = P <=> b = (a + P) % W
<1>0. P \in Int /\ P > 0 /\ W \in Int /\ P < W
  BY Sizes
<1>1. Dist(W, a, b) = IF b >= a THEN b - a ELSE b + W - a
  BY Distance
<1>2. b = (a + P) % W <=> b = a + P \/ b + W = a + P
  BY FullDistance
<1> QED BY <1>0, <1>1, <1>2

(* An index is the other one plus the distance, but for whole rounds.      *)
LEMMA IndexAt ==
  ASSUME NEW P, NEW W, IsRing(P, W), NEW a \in 0 .. W - 1, NEW b \in 0 .. W - 1
  PROVE  /\ \A i \in Nat : (a + Dist(W, a, b) + i) % P = (b + i) % P
         /\ \A d, nn : Slice(d, P, a + Dist(W, a, b), nn) = Slice(d, P, b, nn)
<1>0. /\ P \in Int /\ P > 0 /\ W \in Int /\ P < W
      /\ \A x \in Int : (x + W) % P = x % P
  BY Sizes
<1>1. Dist(W, a, b) = IF b >= a THEN b - a ELSE b + W - a
  BY Distance
<1>2. ASSUME NEW i \in Int PROVE (a + Dist(W, a, b) + i) % P = (b + i) % P
  <2>1. a + Dist(W, a, b) + i = b + i \/ a + Dist(W, a, b) + i = (b + i) + W
    BY <1>0, <1>1
  <2>2. ((b + i) + W) % P = (b + i) % P
    BY <1>0
  <2> QED BY <2>1, <2>2
<1>3. ASSUME NEW d, NEW nn PROVE Slice(d, P, a + Dist(W, a, b), nn) = Slice(d, P, b, nn)
  <2>1. ASSUME NEW i \in 1 .. nn PROVE (a + Dist(W, a, b) + i - 1) % P = (b + i - 1) % P
    <3>1. i \in Int /\ i - 1 \in Int
      OBVIOUS
    <3>2. a + Dist(W, a, b) + i - 1 = a + Dist(W, a, b) + (i - 1) /\ b + i - 1 = b + (i - 1)
      BY <1>0, <1>1, <3>1
    <3>3. (a + Dist(W, a, b) + (i - 1)) % P = (b + (i - 1)) % P
      BY <1>2, <3>1
    <3> QED BY <3>2, <3>3
  <2> QED BY <2>1 DEF Slice
<1> QED BY <1>2, <1>3

-----------------------------------------------------------------------------
(***************************************************************************)
(* The console.                                                            *)
(***************************************************************************)
LEMMA InputConstants ==
  /\ NoReader \notin Readers /\ ReadLens \subseteq Nat
  /\ IsRing(INPUT_BUF, Wrap) /\ INPUT_BUF \in Nat \ {0} /\ Wrap \in Nat /\ INPUT_BUF < Wrap
BY PartsAssumptions DEF Input!ConstantAssumptions, IsRing

LEMMA InputIsRing == IsRing(INPUT_BUF, Wrap)
BY InputConstants

LEMMA InputPlaces ==
  \A x \in Int : x % INPUT_BUF \in 0 .. INPUT_BUF - 1 /\ x % Wrap \in 0 .. Wrap - 1
BY InputIsRing, Sizes

\* The distances between indices of the ring that move by one.
LEMMA InputSteps ==
  ASSUME NEW x \in 0 .. Wrap - 1, NEW y \in 0 .. Wrap - 1
  PROVE  /\ Input!Plus(y, 1) \in 0 .. Wrap - 1
         /\ Dist(Wrap, x, y) = 0 <=> x = y
         /\ Dist(Wrap, x, y) < INPUT_BUF => Dist(Wrap, x, Input!Plus(y, 1)) = Dist(Wrap, x, y) + 1
         /\ Dist(Wrap, x, y) = INPUT_BUF <=> y = Input!Plus(x, INPUT_BUF)
         /\ x # y => /\ Input!Minus(y, 1) \in 0 .. Wrap - 1
                     /\ Dist(Wrap, x, Input!Minus(y, 1)) = Dist(Wrap, x, y) - 1
                     /\ Dist(Wrap, Input!Plus(x, 1), y) = Dist(Wrap, x, y) - 1
<1>1. Input!Plus(y, 1) \in 0 .. Wrap - 1
  <2>1. y + 1 \in Int
    BY InputConstants
  <2> QED BY <2>1, InputPlaces DEF Input!Plus
<1>2. Dist(Wrap, x, y) = 0 <=> x = y
  BY InputIsRing, DistanceZero
<1>3. Dist(Wrap, x, y) < INPUT_BUF => Dist(Wrap, x, Input!Plus(y, 1)) = Dist(Wrap, x, y) + 1
  <2>1. SUFFICES ASSUME Dist(Wrap, x, y) < INPUT_BUF
                 PROVE  Dist(Wrap, x, (y + 1) % Wrap) = Dist(Wrap, x, y) + 1
    BY DEF Input!Plus
  <2>2. Dist(Wrap, x, y) \in 0 .. Wrap - 1
    BY InputIsRing, DistanceZero
  <2>3. Dist(Wrap, x, y) + 1 < Wrap
    BY <2>1, <2>2, InputConstants
  <2> QED BY <2>3, InputIsRing, DistanceForth
<1>4. Dist(Wrap, x, y) = INPUT_BUF <=> y = Input!Plus(x, INPUT_BUF)
  BY InputIsRing, DistanceFull DEF Input!Plus
<1>5. ASSUME x # y
      PROVE  Input!Minus(y, 1) \in 0 .. Wrap - 1 /\ Dist(Wrap, x, Input!Minus(y, 1)) = Dist(Wrap, x, y) - 1
  <2>1. Input!Minus(y, 1) = Dist(Wrap, 1, y)
    BY DEF Input!Minus, Dist
  <2>2. Dist(Wrap, 1, y) \in 0 .. Wrap - 1
    BY <1>5, InputIsRing, DistanceBack
  <2>3. Dist(Wrap, x, Dist(Wrap, 1, y)) = Dist(Wrap, x, y) - 1
    BY <1>5, InputIsRing, DistanceBack
  <2> QED BY <2>1, <2>2, <2>3
<1>6. ASSUME x # y PROVE Dist(Wrap, Input!Plus(x, 1), y) = Dist(Wrap, x, y) - 1
  BY <1>6, InputIsRing, DistanceShort DEF Input!Plus
<1> QED BY <1>1, <1>2, <1>3, <1>4, <1>5, <1>6

\* Complete characters, and those of the line being typed.
Whole == Dist(Wrap, r, w)
Typed == Dist(Wrap, w, e)

LEMMA InputDistances ==
  ASSUME Input!TypeOK, Input!NeverStuck
  PROVE  /\ r \in 0 .. Wrap - 1 /\ w \in 0 .. Wrap - 1 /\ e \in 0 .. Wrap - 1
         /\ Input!Minus(w, r) = Whole /\ Input!Minus(e, w) = Typed /\ Input!Minus(e, r) = Whole + Typed
         /\ Whole \in Nat /\ Typed \in Nat /\ Whole + Typed <= INPUT_BUF
         /\ Whole + Typed = INPUT_BUF => w = e
         /\ Whole = 0 <=> r = w
         /\ Typed = 0 <=> w = e
<1>1. r \in 0 .. Wrap - 1 /\ w \in 0 .. Wrap - 1 /\ e \in 0 .. Wrap - 1
  BY DEF Input!TypeOK
<1>2. /\ Input!Minus(w, r) = Whole /\ Input!Minus(e, w) = Typed /\ Input!Minus(e, r) = Dist(Wrap, r, e)
  BY DEF Input!Minus, Dist, Whole, Typed
<1>3. Whole <= Dist(Wrap, r, e) /\ Dist(Wrap, r, e) <= INPUT_BUF /\ (Dist(Wrap, r, e) = INPUT_BUF => w = e)
  BY <1>2 DEF Input!NeverStuck
<1>4. Whole \in Nat /\ Typed \in Nat /\ Whole + Typed = Dist(Wrap, r, e)
  BY <1>1, <1>3, InputConstants, DistanceSum DEF Whole, Typed
<1>5. (Whole = 0 <=> r = w) /\ (Typed = 0 <=> w = e)
  BY <1>1, InputSteps DEF Whole, Typed
<1> QED BY <1>1, <1>2, <1>3, <1>4, <1>5

(* NeverStuck after a step, in terms of the two parts.                     *)
LEMMA StillNotStuck ==
  ASSUME Whole' \in Nat, Typed' \in Nat, Dist(Wrap, r', e') = Whole' + Typed',
         Whole' + Typed' <= INPUT_BUF, Whole' + Typed' = INPUT_BUF => w' = e'
  PROVE  Input!NeverStuck'
<1>1. (w' + Wrap - r') % Wrap = Whole' /\ (e' + Wrap - r') % Wrap = Whole' + Typed'
  BY DEF Dist, Whole, Typed
<1>2. Whole' <= Whole' + Typed'
  <2>1. \A x, y \in Nat : x <= x + y
    OBVIOUS
  <2> QED BY <2>1, Zenon
<1> QED BY <1>1, <1>2, Zenon DEF Input!NeverStuck, Input!Minus

\* What one more character does to the two parts.
LEMMA TypeMoves ==
  ASSUME Input!IInv, NEW c \in Input!Chars, Input!Type(c)
  PROVE  /\ Whole + Typed < INPUT_BUF
         /\ Input!Completes(c) <=> c \in {Input!Newline, Input!EndOfFile} \/ Whole + Typed + 1 = INPUT_BUF
         /\ Input!Completes(c) => Whole' = Whole + Typed + 1 /\ Typed' = 0
         /\ ~Input!Completes(c) => Whole' = Whole /\ Typed' = Typed + 1
         /\ e' \in 0 .. Wrap - 1 /\ w' \in 0 .. Wrap - 1
         /\ Dist(Wrap, r, e') = Whole + Typed + 1
<1>1. /\ r \in 0 .. Wrap - 1 /\ w \in 0 .. Wrap - 1 /\ e \in 0 .. Wrap - 1
      /\ Input!Minus(e, r) = Whole + Typed /\ Whole \in Nat /\ Typed \in Nat
  BY InputDistances DEF Input!IInv
<1>2. /\ e' = Input!Plus(e, 1) /\ r' = r /\ Whole + Typed < INPUT_BUF
      /\ w' = IF Input!Completes(c) THEN e' ELSE w
  BY <1>1 DEF Input!Type, Input!Room
<1>3. Dist(Wrap, r, e) = Whole + Typed /\ Dist(Wrap, w, e) = Typed
  BY <1>1 DEF Input!Minus, Dist, Typed
<1>4. e' \in 0 .. Wrap - 1 /\ w' \in 0 .. Wrap - 1
  BY <1>1, <1>2, InputSteps
<1>5. Dist(Wrap, r, e') = Whole + Typed + 1 /\ Dist(Wrap, w, e') = Typed + 1
  <2>1. Typed < INPUT_BUF
    BY <1>1, <1>2, InputConstants
  <2> QED BY <1>1, <1>2, <1>3, <2>1, InputSteps
<1>6. Input!Completes(c) <=> c \in {Input!Newline, Input!EndOfFile} \/ Whole + Typed + 1 = INPUT_BUF
  <2>1. Dist(Wrap, r, e') = INPUT_BUF <=> e' = Input!Plus(r, INPUT_BUF)
    BY <1>1, <1>4, InputSteps
  <2> QED BY <1>2, <1>5, <2>1 DEF Input!Completes
<1>7. Input!Completes(c) => Whole' = Whole + Typed + 1 /\ Typed' = 0
  <2>1. Dist(Wrap, e', e') = 0
    BY <1>4, InputSteps
  <2> QED BY <1>2, <1>5, <2>1 DEF Whole, Typed
<1>8. ~Input!Completes(c) => Whole' = Whole /\ Typed' = Typed + 1
  BY <1>2, <1>5 DEF Whole, Typed
<1> QED BY <1>2, <1>4, <1>5, <1>6, <1>7, <1>8

LEMMA BackspaceMoves ==
  ASSUME Input!IInv, Input!Backspace
  PROVE  /\ Typed \in Nat \ {0} /\ Whole' = Whole /\ Typed' = Typed - 1
         /\ e' \in 0 .. Wrap - 1 /\ Dist(Wrap, r, e') = Whole + Typed - 1
<1>1. /\ r \in 0 .. Wrap - 1 /\ w \in 0 .. Wrap - 1 /\ e \in 0 .. Wrap - 1
      /\ Input!Minus(e, r) = Whole + Typed /\ Whole \in Nat /\ Typed \in Nat
      /\ Typed = 0 <=> w = e
  BY InputDistances DEF Input!IInv
<1>2. e' = Input!Minus(e, 1) /\ r' = r /\ w' = w /\ e # w
  BY DEF Input!Backspace
<1>3. Dist(Wrap, r, e) = Whole + Typed /\ Dist(Wrap, w, e) = Typed
  BY <1>1 DEF Input!Minus, Dist, Typed
<1>4. e' \in 0 .. Wrap - 1 /\ Dist(Wrap, w, e') = Typed - 1
  BY <1>1, <1>2, <1>3, InputSteps
<1>5. r # e
  <2>1. Dist(Wrap, r, e) # 0
    BY <1>1, <1>2, <1>3
  <2> QED BY <1>1, <2>1, InputSteps
<1>6. Dist(Wrap, r, e') = Whole + Typed - 1
  BY <1>1, <1>2, <1>3, <1>5, InputSteps
<1> QED BY <1>1, <1>2, <1>4, <1>6 DEF Whole, Typed

\* The line being typed has no end in it: KillLine takes it back to w.
LEMMA KillLineMoves ==
  ASSUME Input!IInv, Input!KillLine
  PROVE  e' = w /\ Whole' = Whole /\ Typed' = 0
<1>1. /\ r \in 0 .. Wrap - 1 /\ w \in 0 .. Wrap - 1 /\ e \in 0 .. Wrap - 1
      /\ Input!Minus(e, w) = Typed /\ Whole \in Nat /\ Typed \in Nat /\ Whole + Typed <= INPUT_BUF
  BY InputDistances DEF Input!IInv
<1>2. PICK k \in 0 .. INPUT_BUF :
        /\ Input!StopsAt(k) /\ \A j \in 0 .. k - 1 : ~Input!StopsAt(j)
        /\ e' = Input!Minus(e, k) /\ r' = r /\ w' = w
  BY DEF Input!KillLine
<1>3. k <= Typed
  <2>1. Input!StopsAt(Typed)
    BY <1>1 DEF Input!StopsAt
  <2> QED BY <1>1, <1>2, <2>1, InputConstants
<1>4. k = Typed
  <2>1. SUFFICES ASSUME k < Typed PROVE FALSE
    BY <1>1, <1>3, InputConstants
  <2>2. buf[Input!Minus(e, k + 1) % INPUT_BUF] = Input!Newline
    BY <1>1, <1>2, <2>1 DEF Input!StopsAt
  <2> DEFINE i == Typed - (k + 1)
  <2>3. i \in 0 .. INPUT_BUF - 1 /\ i < Typed /\ i \in Nat
    BY <1>1, <2>1, InputConstants
  <2>4. Input!Minus(e, k + 1) % INPUT_BUF = (w + i) % INPUT_BUF
    <3>1. k + 1 \in 0 .. Wrap - 1
      BY <1>1, <2>1, InputConstants
    <3>2. Input!Minus(e, k + 1) = IF e >= k + 1 THEN e - (k + 1) ELSE e + Wrap - (k + 1)
      BY <1>1, <3>1, InputIsRing, Distance DEF Input!Minus, Dist
    <3>3. Typed = IF e >= w THEN e - w ELSE e + Wrap - w
      BY <1>1, InputIsRing, Distance DEF Typed
    <3>4. Input!Minus(e, k + 1) = w + i \/ Input!Minus(e, k + 1) = w + i + Wrap \/ Input!Minus(e, k + 1) + Wrap = w + i
      BY <1>1, <3>2, <3>3, InputConstants
    <3>5. \A x \in Int : (x + Wrap) % INPUT_BUF = x % INPUT_BUF
      BY InputIsRing, Sizes
    <3>6. w + i \in Int /\ Input!Minus(e, k + 1) \in Int
      BY <1>1, <3>2, InputConstants
    <3> QED BY <3>4, <3>5, <3>6
  <2> QED BY <1>1, <2>2, <2>3, <2>4 DEF Input!IInv, Input!LineInv
<1>5. e' = w
  <2>1. Input!Minus(e, Typed) = Dist(Wrap, Dist(Wrap, w, e), e)
    BY DEF Input!Minus, Dist, Typed
  <2>2. Dist(Wrap, Dist(Wrap, w, e), e) = w
    BY <1>1, InputIsRing, DistanceUndone
  <2> QED BY <1>2, <1>4, <2>1, <2>2
<1>6. Dist(Wrap, w, w) = 0
  BY <1>1, InputSteps
<1> QED BY <1>2, <1>5, <1>6 DEF Whole, Typed

\* A character that is taken makes the first part shorter.
LEMMA CharMoves ==
  ASSUME Input!IInv, r # w, r' = Input!Plus(r, 1), UNCHANGED <<w, e>>
  PROVE  /\ Whole \in Nat \ {0} /\ Whole' = Whole - 1 /\ Typed' = Typed
         /\ r' \in 0 .. Wrap - 1 /\ Dist(Wrap, r', e) = Whole + Typed - 1
<1>1. /\ r \in 0 .. Wrap - 1 /\ w \in 0 .. Wrap - 1 /\ e \in 0 .. Wrap - 1
      /\ Input!Minus(e, r) = Whole + Typed /\ Whole \in Nat /\ Typed \in Nat
      /\ Whole = 0 <=> r = w
  BY InputDistances DEF Input!IInv
<1>2. Dist(Wrap, r, e) = Whole + Typed /\ Dist(Wrap, r, w) = Whole
  BY <1>1 DEF Input!Minus, Dist, Whole
<1>3. r' \in 0 .. Wrap - 1 /\ Dist(Wrap, r', w) = Whole - 1
  BY <1>1, <1>2, InputSteps
<1>4. r # e
  <2>1. Dist(Wrap, r, e) # 0
    BY <1>1, <1>2
  <2> QED BY <1>1, <2>1, InputSteps
<1>5. Dist(Wrap, r', e) = Whole + Typed - 1
  BY <1>1, <1>2, <1>4, InputSteps
<1> QED BY <1>1, <1>3, <1>5 DEF Whole, Typed

-----------------------------------------------------------------------------
(* The invariant of the console, action by action.                         *)
LEMMA InputInit == Input!Init => Input!IInv
<1> SUFFICES ASSUME Input!Init PROVE Input!IInv
  OBVIOUS
<1> USE InputConstants DEF Input!Init
<1>1. Input!TypeOK
  BY DEF Input!TypeOK, Input!Pcs
<1>2. Input!LockInv /\ Input!SleepInv
  BY DEF Input!LockInv, Input!SleepInv, Input!HasLock
<1>3. Input!Minus(w, r) = 0 /\ Input!Minus(e, r) = 0 /\ Input!Minus(e, w) = 0
  <2>1. Dist(Wrap, 0, 0) = 0
    BY InputSteps
  <2> QED BY <2>1 DEF Input!Minus, Dist
<1>4. Input!NeverStuck /\ Input!LineInv
  BY <1>3 DEF Input!NeverStuck, Input!LineInv
<1>5. Input!CallInv
  BY DEF Input!CallInv
<1> QED BY <1>1, <1>2, <1>4, <1>5 DEF Input!IInv

LEMMA RingQuiet ==
  ASSUME Input!NeverStuck, Input!LineInv, UNCHANGED <<buf, r, w, e>>
  PROVE  Input!NeverStuck' /\ Input!LineInv'
BY DEF Input!NeverStuck, Input!LineInv, Input!Minus

LEMMA TypeKeeps ==
  ASSUME Input!IInv, NEW c \in Input!Chars, Input!Type(c)
  PROVE  Input!IInv'
<1> USE DEF Input!IInv
<1>0. /\ inputLock = NoReader /\ inputLock' = NoReader
      /\ buf' = [buf EXCEPT ![e % INPUT_BUF] = c]
      /\ UNCHANGED <<r, busy, killed, n, target, got>>
      /\ inputPc' = IF Input!Completes(c)
                    THEN [q \in Readers |-> IF inputPc[q] = "r_asleep" THEN "r_enter" ELSE inputPc[q]]
                    ELSE inputPc
      /\ w' = IF Input!Completes(c) THEN e' ELSE w
  BY DEF Input!Type, Input!call
<1>1. /\ r \in 0 .. Wrap - 1 /\ w \in 0 .. Wrap - 1 /\ e \in 0 .. Wrap - 1
      /\ Whole \in Nat /\ Typed \in Nat /\ Whole + Typed < INPUT_BUF
      /\ e' \in 0 .. Wrap - 1 /\ w' \in 0 .. Wrap - 1
      /\ Dist(Wrap, r, e') = Whole + Typed + 1
  BY InputDistances, TypeMoves
<1>2. Input!TypeOK'
  <2>1. inputPc' \in [Readers -> Input!Pcs]
    BY <1>0 DEF Input!TypeOK, Input!Pcs
  <2>2. buf' \in [0 .. INPUT_BUF - 1 -> Input!Chars \cup {NoChar}]
    <3>1. e % INPUT_BUF \in 0 .. INPUT_BUF - 1
      BY <1>1, InputPlaces
    <3> QED BY <1>0, <3>1 DEF Input!TypeOK
  <2> QED BY <1>0, <1>1, <2>1, <2>2 DEF Input!TypeOK
<1>3. Input!LockInv'
  BY <1>0 DEF Input!TypeOK, Input!LockInv, Input!HasLock
<1>4. Input!SleepInv'
  <2>1. \A p \in Readers : inputPc[p] # "r_sleep"
    BY <1>0, InputConstants DEF Input!LockInv, Input!HasLock
  <2> QED BY <1>0, <2>1 DEF Input!TypeOK, Input!SleepInv
<1>5. Input!NeverStuck'
  <2>1. /\ Whole' \in Nat /\ Typed' \in Nat /\ Dist(Wrap, r', e') = Whole' + Typed'
        /\ Whole' + Typed' <= INPUT_BUF /\ (Whole' + Typed' = INPUT_BUF => w' = e')
    BY <1>0, <1>1, TypeMoves, InputConstants
  <2> QED BY <2>1, StillNotStuck
<1>6. Input!LineInv'
  <2>1. Input!Minus(e, w)' = Typed' /\ Input!Minus(e, w) = Typed
    BY DEF Input!Minus, Dist, Typed
  <2>2. SUFFICES ASSUME NEW i \in 0 .. INPUT_BUF - 1, i < Typed'
                 PROVE  buf'[(w' + i) % INPUT_BUF] # Input!Newline
    BY <2>1 DEF Input!LineInv
  <2>3. ~Input!Completes(c) /\ Typed' = Typed + 1 /\ w' = w /\ c # Input!Newline
    BY <1>0, <2>2, TypeMoves
  <2>4. (w + Typed) % INPUT_BUF = e % INPUT_BUF
    <3>1. (w + Dist(Wrap, w, e) + 0) % INPUT_BUF = (e + 0) % INPUT_BUF
      BY <1>1, InputIsRing, IndexAt
    <3> QED BY <1>1, <3>1 DEF Typed
  <2>5. w + i \in Int /\ w + Typed \in Int /\ INPUT_BUF \in Int /\ INPUT_BUF > 0 /\ i <= Typed /\ Typed < w + i + INPUT_BUF
    BY <1>1, <2>3, <2>2, InputConstants
  <2>6. CASE i = Typed
    <3>1. buf'[e % INPUT_BUF] = c
      BY <1>0, <1>1, InputPlaces DEF Input!TypeOK
    <3> QED BY <2>3, <2>4, <2>6, <3>1
  <2>7. CASE i # Typed
    <3>1. i < Typed /\ w + i < w + Typed /\ w + Typed < w + i + INPUT_BUF
      BY <1>1, <2>2, <2>5, <2>7, InputConstants
    <3>2. (w + i) % INPUT_BUF # e % INPUT_BUF
      BY <2>4, <2>5, <3>1, ModDistinct
    <3>3. (w + i) % INPUT_BUF \in 0 .. INPUT_BUF - 1
      BY <2>5, InputPlaces
    <3>4. buf'[(w + i) % INPUT_BUF] = buf[(w + i) % INPUT_BUF]
      BY <1>0, <3>2, <3>3 DEF Input!TypeOK
    <3>5. buf[(w + i) % INPUT_BUF] # Input!Newline
      BY <2>1, <3>1 DEF Input!LineInv
    <3> QED BY <2>3, <3>4, <3>5
  <2> QED BY <2>6, <2>7
<1>7. Input!CallInv'
  BY <1>0 DEF Input!TypeOK, Input!CallInv
<1> QED BY <1>2, <1>3, <1>4, <1>5, <1>6, <1>7

LEMMA BackspaceKeeps ==
  ASSUME Input!IInv, Input!Backspace
  PROVE  Input!IInv'
<1>1. /\ UNCHANGED <<inputLock, buf, r, w, busy, killed, inputPc, n, target, got>>
      /\ e' \in 0 .. Wrap - 1 /\ Whole \in Nat /\ Typed \in Nat \ {0} /\ Typed' = Typed - 1
      /\ Whole' = Whole /\ Dist(Wrap, r, e') = Whole + Typed - 1 /\ Whole + Typed <= INPUT_BUF
  BY BackspaceMoves, InputDistances DEF Input!IInv, Input!Backspace, Input!call
<1>2. Input!TypeOK' /\ Input!LockInv' /\ Input!SleepInv' /\ Input!CallInv'
  BY <1>1 DEF Input!IInv, Input!TypeOK, Input!LockInv, Input!SleepInv, Input!CallInv
<1>3. Input!NeverStuck'
  <2>1. /\ Whole' \in Nat /\ Typed' \in Nat /\ Dist(Wrap, r', e') = Whole' + Typed'
        /\ Whole' + Typed' <= INPUT_BUF /\ (Whole' + Typed' = INPUT_BUF => w' = e')
    BY <1>1, InputConstants
  <2> QED BY <2>1, StillNotStuck
<1>4. Input!LineInv'
  <2>1. (e' + Wrap - w') % Wrap = Typed' /\ (e + Wrap - w) % Wrap = Typed
    BY DEF Dist, Typed
  <2>2. \A i \in 0 .. INPUT_BUF - 1 : i < Typed => buf[(w + i) % INPUT_BUF] # Input!Newline
    BY <2>1 DEF Input!IInv, Input!LineInv, Input!Minus
  <2>3. \A i \in 0 .. INPUT_BUF - 1 : i < Typed' => buf'[(w' + i) % INPUT_BUF] # Input!Newline
    <3>1. \A i \in 0 .. INPUT_BUF - 1 : i < Typed' => i < Typed
      BY <1>1, InputConstants
    <3> QED BY <1>1, <2>2, <3>1
  <2> QED BY <2>1, <2>3, Zenon DEF Input!LineInv, Input!Minus
<1> QED BY <1>2, <1>3, <1>4 DEF Input!IInv

LEMMA KillLineKeeps ==
  ASSUME Input!IInv, Input!KillLine
  PROVE  Input!IInv'
<1>1. /\ UNCHANGED <<inputLock, buf, r, w, busy, killed, inputPc, n, target, got>>
      /\ e' = w /\ w \in 0 .. Wrap - 1 /\ Whole \in Nat /\ Typed \in Nat /\ Typed' = 0
      /\ Whole' = Whole /\ Whole + Typed <= INPUT_BUF
  BY KillLineMoves, InputDistances DEF Input!IInv, Input!KillLine, Input!call
<1>2. Input!TypeOK' /\ Input!LockInv' /\ Input!SleepInv' /\ Input!CallInv'
  BY <1>1 DEF Input!IInv, Input!TypeOK, Input!LockInv, Input!SleepInv, Input!CallInv
<1>3. Input!NeverStuck'
  <2>1. /\ Whole' \in Nat /\ Typed' \in Nat /\ Dist(Wrap, r', e') = Whole' + Typed'
        /\ Whole' + Typed' <= INPUT_BUF /\ (Whole' + Typed' = INPUT_BUF => w' = e')
    BY <1>1, InputConstants DEF Whole
  <2> QED BY <2>1, StillNotStuck
<1>4. Input!LineInv'
  <2>1. (e' + Wrap - w') % Wrap = Typed'
    BY DEF Dist, Typed
  <2>2. \A i \in 0 .. INPUT_BUF - 1 : ~(i < Typed')
    BY <1>1, InputConstants
  <2> QED BY <2>1, <2>2, Zenon DEF Input!LineInv, Input!Minus
<1> QED BY <1>2, <1>3, <1>4 DEF Input!IInv

(* The steps that leave the ring alone.                                    *)
Quiet(p) ==
  \/ Input!ReadCall(p) \/ Input!ReadBegin(p) \/ Input!ReadEnter(p) \/ Input!ReadBlocks(p)
  \/ Input!ReadKilled(p) \/ Input!ReadSleep(p) \/ Input!ReadEnough(p) \/ Input!ReadEnd(p)
  \/ Input!ReadReturn(p) \/ Input!WriteCall(p) \/ Input!Writing(p) \/ Input!Kill(p)

LEMMA CallKeeps ==
  ASSUME Input!IInv, NEW p \in Readers, Input!ReadCall(p) \/ Input!WriteCall(p)
  PROVE  Input!IInv'
<1> USE InputConstants DEF Input!IInv, Input!ReadCall, Input!WriteCall, Input!At, Input!Goto,
        Input!input, Input!call
<1>1. Input!TypeOK'
  <2>1. inputPc' \in [Readers -> Input!Pcs] /\ busy' \in Readers
    BY DEF Input!TypeOK, Input!Pcs
  <2>2. n' \in [Readers -> Nat] /\ target' \in [Readers -> Nat]
    BY DEF Input!TypeOK
  <2> QED BY <2>1, <2>2 DEF Input!TypeOK
<1>2. Input!LockInv' /\ Input!SleepInv'
  BY DEF Input!TypeOK, Input!LockInv, Input!SleepInv, Input!HasLock
<1>3. Input!NeverStuck' /\ Input!LineInv'
  BY RingQuiet
<1>4. Input!CallInv'
  BY DEF Input!TypeOK, Input!CallInv
<1> QED BY <1>1, <1>2, <1>3, <1>4

LEMMA StepKeeps ==
  ASSUME Input!IInv, NEW p \in Readers,
         \/ Input!ReadBegin(p) \/ Input!ReadEnter(p) \/ Input!ReadBlocks(p)
         \/ Input!ReadKilled(p) \/ Input!ReadSleep(p) \/ Input!ReadEnough(p) \/ Input!ReadEnd(p)
  PROVE  Input!IInv'
<1> USE InputConstants DEF Input!IInv, Input!ReadBegin, Input!ReadEnter, Input!ReadBlocks,
        Input!ReadKilled, Input!ReadSleep, Input!ReadEnough, Input!ReadEnd, Input!At, Input!Goto,
        Input!input, Input!call
<1>1. Input!TypeOK'
  BY DEF Input!TypeOK, Input!Pcs
<1>2. Input!LockInv'
  <2> USE DEF Input!TypeOK, Input!LockInv, Input!HasLock
  <2>1. CASE Input!ReadEnter(p)
    BY <2>1
  <2>2. CASE Input!ReadSleep(p) \/ Input!ReadEnd(p)
    BY <2>2
  <2>3. CASE Input!ReadBegin(p) \/ Input!ReadBlocks(p) \/ Input!ReadKilled(p) \/ Input!ReadEnough(p)
    BY <2>3
  <2> QED BY <2>1, <2>2, <2>3
<1>3. Input!SleepInv'
  BY DEF Input!TypeOK, Input!SleepInv
<1>4. Input!NeverStuck' /\ Input!LineInv'
  BY RingQuiet
<1>5. Input!CallInv'
  BY DEF Input!TypeOK, Input!CallInv
<1> QED BY <1>1, <1>2, <1>3, <1>4, <1>5

LEMMA ReturnKeeps ==
  ASSUME Input!IInv, NEW p \in Readers, Input!ReadReturn(p) \/ Input!Writing(p) \/ Input!Kill(p)
  PROVE  Input!IInv'
<1>1. /\ UNCHANGED <<inputLock, buf, r, w, e>>
      /\ busy' \in {busy, NoReader}
      /\ \E l \in Input!Pcs \ Input!HasLock : inputPc' \in {inputPc, [inputPc EXCEPT ![p] = l]}
      /\ n' \in {n, [n EXCEPT ![p] = 0]} /\ target' \in {target, [target EXCEPT ![p] = 0]}
      /\ got' \in {got, [got EXCEPT ![p] = NoChar]} /\ killed' \in {killed, [killed EXCEPT ![p] = TRUE]}
  BY DEF Input!ReadReturn, Input!Writing, Input!WriteBegin, Input!WritePrint, Input!WriteReturn,
     Input!Kill, Input!At, Input!Goto, Input!input, Input!call, Input!Pcs, Input!HasLock
<1>2. Input!TypeOK'
  <2>1. inputPc' \in [Readers -> Input!Pcs] /\ busy' \in Readers \cup {NoReader}
    <3>1. inputPc \in [Readers -> Input!Pcs] /\ busy \in Readers \cup {NoReader}
      BY DEF Input!IInv, Input!TypeOK
    <3>2. PICK l \in Input!Pcs : inputPc' \in {inputPc, [inputPc EXCEPT ![p] = l]}
      BY <1>1
    <3>3. inputPc' \in [Readers -> Input!Pcs]
      BY <3>1, <3>2
    <3> QED BY <3>1, <3>3, <1>1
  <2>2. n' \in [Readers -> Nat] /\ target' \in [Readers -> Nat]
    <3>1. \A f \in [Readers -> Nat] : [f EXCEPT ![p] = 0] \in [Readers -> Nat]
      OBVIOUS
    <3>2. n \in [Readers -> Nat] /\ target \in [Readers -> Nat]
      BY DEF Input!IInv, Input!TypeOK
    <3>3. n' \in {n, [n EXCEPT ![p] = 0]} /\ target' \in {target, [target EXCEPT ![p] = 0]}
      BY <1>1
    <3>4. n' \in [Readers -> Nat]
      BY <3>1, <3>2, <3>3
    <3>5. target' \in [Readers -> Nat]
      BY <3>1, <3>2, <3>3
    <3> QED BY <3>4, <3>5
  <2>3. got' \in [Readers -> Input!Chars \cup {NoChar}] /\ killed' \in [Readers -> BOOLEAN]
    BY <1>1 DEF Input!IInv, Input!TypeOK
  <2> QED BY <1>1, <2>1, <2>2, <2>3 DEF Input!IInv, Input!TypeOK
<1>3. Input!NeverStuck' /\ Input!LineInv'
  BY <1>1, RingQuiet DEF Input!IInv
<1> USE InputConstants DEF Input!IInv, Input!TypeOK, Input!ReadReturn, Input!Writing, Input!WriteBegin,
        Input!WritePrint, Input!WriteReturn, Input!Kill, Input!At, Input!Goto, Input!input, Input!call
<1>4. Input!LockInv'
  BY DEF Input!LockInv, Input!HasLock
<1>5. Input!SleepInv'
  BY DEF Input!SleepInv
<1>6. Input!CallInv'
  BY DEF Input!CallInv
<1> QED BY <1>2, <1>3, <1>4, <1>5, <1>6

\* A reader that takes a character has input.lock, and no other one sleeps:
\* there is a line.
LEMMA CharKeeps ==
  ASSUME Input!IInv, NEW p \in Readers, Input!ReadChar(p)
  PROVE  Input!IInv'
<1> USE DEF Input!IInv
<1>1. /\ inputPc[p] = "r_test" /\ n[p] > 0 /\ r # w
      /\ UNCHANGED <<inputLock, buf, w, e, busy, killed, target>>
      /\ r' \in {r, Input!Plus(r, 1)}
      /\ \E l \in {"r_end", "r_test"} : inputPc' = [inputPc EXCEPT ![p] = l]
      /\ \/ UNCHANGED <<n, got>>
         \/ n' = [n EXCEPT ![p] = @ - 1] /\ got' = [got EXCEPT ![p] = buf[r % INPUT_BUF]]
  BY DEF Input!ReadChar, Input!At, Input!Goto
<1>2. r' = r \/ /\ Whole \in Nat \ {0} /\ Whole' = Whole - 1 /\ Typed' = Typed
                /\ r' \in 0 .. Wrap - 1 /\ Dist(Wrap, r', e) = Whole + Typed - 1
  BY <1>1, CharMoves
<1>3. Input!TypeOK'
  <2>1. n[p] \in Nat /\ n[p] - 1 \in Nat
    BY <1>1 DEF Input!TypeOK
  <2>2. buf[r % INPUT_BUF] \in Input!Chars \cup {NoChar}
    <3>1. r % INPUT_BUF \in 0 .. INPUT_BUF - 1
      BY InputDistances, InputPlaces
    <3> QED BY <3>1 DEF Input!TypeOK
  <2>3. n' \in [Readers -> Nat] /\ got' \in [Readers -> Input!Chars \cup {NoChar}]
    BY <1>1, <2>1, <2>2 DEF Input!TypeOK
  <2>4. inputPc' \in [Readers -> Input!Pcs]
    BY <1>1 DEF Input!TypeOK, Input!Pcs
  <2> QED BY <1>1, <1>2, <2>3, <2>4 DEF Input!TypeOK
<1>4. Input!LockInv'
  BY <1>1 DEF Input!TypeOK, Input!LockInv, Input!HasLock
<1>5. Input!SleepInv'
  BY <1>1 DEF Input!TypeOK, Input!SleepInv
<1>6. Input!NeverStuck'
  <2>1. CASE r' = r
    BY <1>1, <2>1, RingQuiet
  <2>2. CASE r' # r
    <3>1. Typed \in Nat /\ Whole + Typed <= INPUT_BUF
      BY InputDistances
    <3>2. /\ Whole' \in Nat /\ Typed' \in Nat /\ Dist(Wrap, r', e') = Whole' + Typed'
          /\ Whole' + Typed' <= INPUT_BUF /\ (Whole' + Typed' = INPUT_BUF => w' = e')
      BY <1>1, <1>2, <2>2, <3>1, InputConstants
    <3> QED BY <3>2, StillNotStuck
  <2> QED BY <2>1, <2>2
<1>7. Input!LineInv'
  BY <1>1 DEF Input!LineInv, Input!Minus
<1>8. Input!CallInv'
  BY <1>1 DEF Input!TypeOK, Input!CallInv
<1> QED BY <1>3, <1>4, <1>5, <1>6, <1>7, <1>8

LEMMA InputKeeps == Input!IInv /\ Input!Next => Input!IInv'
<1> SUFFICES ASSUME Input!IInv, Input!Next PROVE Input!IInv'
  OBVIOUS
<1>1. CASE Input!Keyboard
  BY <1>1, TypeKeeps, BackspaceKeeps, KillLineKeeps DEF Input!Keyboard
<1>2. ASSUME NEW p \in Readers, Quiet(p) PROVE Input!IInv'
  BY <1>2, CallKeeps, StepKeeps, ReturnKeeps DEF Quiet
<1>3. ASSUME NEW p \in Readers, Input!ReadChar(p) PROVE Input!IInv'
  BY <1>3, CharKeeps
<1> QED BY <1>1, <1>2, <1>3 DEF Input!Next, Input!Reading, Quiet

\* The invariant of the console in every state, whichever part runs.
LEMMA InputAlways == Spec => [](part = "console" => Input!IInv)
<1> DEFINE Inv == part = "console" => Input!IInv
<1>1. Init => Inv
  BY InputInit DEF Init
<1>2. Inv /\ [Next]_vars => Inv'
  <2> SUFFICES ASSUME Inv, [Next]_vars, part' = "console" PROVE Input!IInv'
    OBVIOUS
  <2>1. CASE Input!Next /\ part = "console"
    BY <2>1, InputKeeps
  <2>2. CASE part' = part /\ UNCHANGED inputVars
    <3>1. /\ UNCHANGED <<inputLock, buf, r, w, e, busy, killed, inputPc, n, target, got>> /\ Input!IInv
      BY <2>2 DEF inputVars
    <3>2. Input!NeverStuck' /\ Input!LineInv'
      BY <3>1, RingQuiet DEF Input!IInv
    <3> QED BY <3>1, <3>2 DEF Input!IInv, Input!TypeOK, Input!LockInv, Input!SleepInv, Input!CallInv
  <2> QED BY <2>1, <2>2 DEF Next, vars, OnlyStride, OnlyLocks, OnlyInput, OnlyOpen, OnlyDisk
<1> QED BY <1>1, <1>2, PTL DEF Spec

\* No reader of the console sleeps over a complete line, whoever else woke for
\* it, and a ring that is full can be read (console.c:210, 231), for any
\* readers, letters, size of the ring and range of its indices.
THEOREM InputExact == Spec => []InputSound
<1>1. Input!IInv => Input!TypeOK /\ Input!NoLostWakeup /\ Input!NeverStuck
  BY DEF Input!IInv, Input!SleepInv, Input!NoLostWakeup, Input!At
<1>2. (part = "console" => Input!IInv) => InputSound
  BY <1>1 DEF InputSound
<1> QED BY <1>2, InputAlways, PTL

-----------------------------------------------------------------------------
(***************************************************************************)
(* The console implements LineInput: the two parts of the ring are the     *)
(* complete lines and the line being typed.                                *)
(***************************************************************************)
Places == Input!Chars \cup {NoChar}
Ready  == Slice(buf, INPUT_BUF, r, Whole)
Line   == Slice(buf, INPUT_BUF, w, Typed)
Given  == [p \in Readers |-> target[p] - n[p]]

LEMMA Chunks ==
  /\ Input!Chunk(r, w) = Ready /\ Input!Chunk(r, w)' = Ready'
  /\ Input!Chunk(w, e) = Line /\ Input!Chunk(w, e)' = Line'
BY DEF Input!Chunk, Input!Minus, Ready, Line, Slice, Dist, Whole, Typed

LEMMA InputBuffer == Input!TypeOK => IsBuffer(buf, INPUT_BUF, Places)
BY InputConstants DEF Input!TypeOK, IsBuffer, Places

LEMMA PartLengths ==
  ASSUME Input!IInv
  PROVE  /\ Ready \in Seq(Places) /\ Len(Ready) = Whole
         /\ Line \in Seq(Places) /\ Len(Line) = Typed
<1>1. /\ IsBuffer(buf, INPUT_BUF, Places) /\ r \in Nat /\ w \in Nat
      /\ Whole \in Nat /\ Typed \in Nat
  BY InputDistances, InputBuffer, InputConstants DEF Input!IInv
<1>2. IsSlice(Ready, buf, INPUT_BUF, r, Whole, Places) /\ IsSlice(Line, buf, INPUT_BUF, w, Typed, Places)
  BY <1>1, SliceSeq DEF Ready, Line
<1> QED BY <1>2 DEF IsSlice

LEMMA EmptySlice == ASSUME NEW d, NEW P, NEW x PROVE Slice(d, P, x, 0) = <<>>
<1>1. Slice(d, P, x, 0) = [i \in 1 .. 0 |-> d[(x + i - 1) % P]]
  BY DEF Slice
<1> QED BY <1>1

LEMMA TypeMaps ==
  ASSUME Input!IInv, NEW c \in Input!Chars, Input!Type(c)
  PROVE  Input!Lines!Type(c)
<1>1. /\ r \in Nat /\ w \in Nat /\ e \in Nat /\ Whole \in Nat /\ Typed \in Nat
      /\ r \in 0 .. Wrap - 1 /\ w \in 0 .. Wrap - 1 /\ e \in 0 .. Wrap - 1
      /\ IsBuffer(buf, INPUT_BUF, Places) /\ c \in Places
  BY InputDistances, InputBuffer, InputConstants DEF Input!IInv, Places
<1>2. /\ Whole + Typed < INPUT_BUF /\ r' = r
      /\ buf' = [buf EXCEPT ![e % INPUT_BUF] = c]
      /\ UNCHANGED <<n, target, got>>
      /\ w' = IF Input!Completes(c) THEN e' ELSE w
  BY TypeMoves DEF Input!Type, Input!call
<1>3. (w + Typed) % INPUT_BUF = e % INPUT_BUF /\ (r + (Whole + Typed)) % INPUT_BUF = e % INPUT_BUF
  <2>1. (w + Dist(Wrap, w, e) + 0) % INPUT_BUF = (e + 0) % INPUT_BUF
    BY <1>1, InputIsRing, IndexAt
  <2>2. (r + Dist(Wrap, r, w) + Typed) % INPUT_BUF = (w + Typed) % INPUT_BUF
    BY <1>1, InputIsRing, IndexAt
  <2>3. w + Dist(Wrap, w, e) + 0 = w + Typed /\ e + 0 = e
        /\ r + Dist(Wrap, r, w) + Typed = r + (Whole + Typed)
    BY <1>1 DEF Whole, Typed
  <2> QED BY <2>1, <2>2, <2>3
<1>4. IsPut(buf', buf, INPUT_BUF, w, Typed, c) /\ IsPut(buf', buf, INPUT_BUF, r, Whole + Typed, c)
  BY <1>2, <1>3 DEF IsPut
<1>5. Slice(buf', INPUT_BUF, w, Typed + 1) = Append(Line, c)
  <2>1. Typed < INPUT_BUF
    BY <1>1, <1>2, InputConstants
  <2> QED BY <1>1, <1>4, <2>1, SliceAppend DEF Line
<1>6. Slice(buf', INPUT_BUF, r, Whole) = Ready
  <2>1. Whole + Typed \in Nat /\ Whole <= Whole + Typed
    BY <1>1
  <2> QED BY <1>1, <1>2, <1>4, <2>1, SliceKept DEF Ready
<1>7. Given' = Given
  BY <1>2 DEF Given
<1>8. CASE Input!Completes(c)
  <2>1. Whole' = Whole + (Typed + 1) /\ Typed' = 0
    BY <1>1, <1>8, TypeMoves
  <2>2. Ready' = Ready \o Append(Line, c)
    <3>1. IsBuffer(buf', INPUT_BUF, Places)
      <4>1. e % INPUT_BUF \in 0 .. INPUT_BUF - 1
        BY <1>1, InputPlaces
      <4> QED BY <1>1, <1>2, <4>1 DEF IsBuffer
    <3>2. /\ r + Whole \in Nat /\ Typed + 1 \in Nat /\ Whole + (Typed + 1) \in Nat
      BY <1>1
    <3>3. IsJoin(Slice(buf', INPUT_BUF, r, Whole + (Typed + 1)), Slice(buf', INPUT_BUF, r, Whole),
                 Slice(buf', INPUT_BUF, r + Whole, Typed + 1))
      BY <1>1, <3>1, <3>2, SliceJoin
    <3>4. Slice(buf', INPUT_BUF, r + Whole, Typed + 1) = Slice(buf', INPUT_BUF, w, Typed + 1)
      BY <1>1, InputIsRing, IndexAt DEF Whole
    <3> QED BY <1>2, <1>5, <1>6, <2>1, <3>3, <3>4 DEF IsJoin, Ready
  <2>3. Line' = <<>>
    BY <2>1, EmptySlice DEF Line
  <2>4. c \in {Input!Newline, Input!EndOfFile} \/ Whole + Typed + 1 = INPUT_BUF
    BY <1>8, TypeMoves
  <2> QED BY <1>2, <1>7, <2>2, <2>3, <2>4, PartLengths, Chunks DEF Input!Lines!Type, Input!Lines!Room, Given
<1>9. CASE ~Input!Completes(c)
  <2>1. Whole' = Whole /\ Typed' = Typed + 1
    BY <1>9, TypeMoves
  <2>2. Ready' = Ready /\ Line' = Append(Line, c)
    BY <1>2, <1>5, <1>6, <1>9, <2>1 DEF Ready, Line
  <2>3. ~(c \in {Input!Newline, Input!EndOfFile} \/ Whole + Typed + 1 = INPUT_BUF)
    BY <1>9, TypeMoves
  <2> QED BY <1>2, <1>7, <2>2, <2>3, PartLengths, Chunks DEF Input!Lines!Type, Input!Lines!Room, Given
<1> QED BY <1>8, <1>9

LEMMA BackspaceMaps ==
  ASSUME Input!IInv, Input!Backspace
  PROVE  Input!Lines!Erase
<1>1. /\ UNCHANGED <<buf, r, w, n, target, got>>
      /\ w \in Nat /\ Typed \in Nat /\ Typed > 0 /\ Whole' = Whole /\ Typed' = Typed - 1
      /\ IsBuffer(buf, INPUT_BUF, Places)
  BY InputDistances, BackspaceMoves, InputBuffer, InputConstants DEF Input!IInv, Input!Backspace, Input!call
<1>2. Typed - 1 \in Nat /\ Typed = (Typed - 1) + 1
  BY <1>1
<1>3. IsFront(Slice(buf, INPUT_BUF, w, Typed - 1), Slice(buf, INPUT_BUF, w, Typed))
  BY <1>1, <1>2, SliceFront
<1>4. IsFront(Line', Line) /\ Ready' = Ready
  BY <1>1, <1>3 DEF Line, Ready
<1>5. Given' = Given
  BY <1>1 DEF Given
<1> QED BY <1>1, <1>4, <1>5, Chunks DEF Input!Lines!Erase, IsFront, Given

LEMMA KillLineMaps ==
  ASSUME Input!IInv, Input!KillLine
  PROVE  Input!Lines!KillLine
<1>1. UNCHANGED <<buf, r, w, n, target, got>> /\ Whole' = Whole /\ Typed' = 0
  BY KillLineMoves DEF Input!KillLine, Input!call
<1>2. Line' = <<>> /\ Ready' = Ready
  BY <1>1, EmptySlice DEF Line, Ready
<1>3. Given' = Given
  BY <1>1 DEF Given
<1> QED BY <1>1, <1>2, <1>3, Chunks DEF Input!Lines!KillLine, Given

\* A character that is read is the first of the complete lines.
LEMMA CharTaken ==
  ASSUME Input!IInv, r # w, r' = Input!Plus(r, 1), UNCHANGED <<buf, w, e>>
  PROVE  /\ Ready # <<>> /\ Head(Ready) = buf[r % INPUT_BUF]
         /\ Ready' = Tail(Ready) /\ Line' = Line
<1>1. /\ r \in 0 .. Wrap - 1 /\ r \in Nat /\ Whole \in Nat /\ Whole > 0 /\ Whole - 1 \in Nat
      /\ Whole' = Whole - 1 /\ Typed' = Typed /\ IsBuffer(buf, INPUT_BUF, Places)
  BY InputDistances, CharMoves, InputBuffer, InputConstants DEF Input!IInv
<1>2. IsRest(Slice(buf, INPUT_BUF, r + 1, Whole - 1), Slice(buf, INPUT_BUF, r, Whole), buf[r % INPUT_BUF])
  BY <1>1, SliceTail
<1>3. Slice(buf, INPUT_BUF, r', Whole') = Slice(buf, INPUT_BUF, r + 1, Whole - 1)
  BY <1>1, InputIsRing, SliceWrap DEF Input!Plus
<1> QED BY <1>1, <1>2, <1>3 DEF IsRest, Ready, Line

LEMMA CharMaps ==
  ASSUME Input!IInv, NEW p \in Readers, Input!ReadChar(p)
  PROVE  Input!Lines!Give(p) \/ Input!Lines!GiveEnd(p) \/ UNCHANGED Input!Lines!vars
<1> DEFINE c == buf[r % INPUT_BUF]
<1>1. /\ r # w /\ n[p] > 0 /\ n[p] <= target[p] /\ n[p] \in Nat /\ target[p] \in Nat
      /\ n \in [Readers -> Nat]
      /\ UNCHANGED <<buf, w, e, target>>
  BY DEF Input!IInv, Input!TypeOK, Input!CallInv, Input!ReadChar
<1>2. CASE c = Input!EndOfFile /\ n[p] < target[p]
  <2>1. UNCHANGED <<buf, r, w, e, n, target, got>>
    BY <1>1, <1>2 DEF Input!ReadChar
  <2>2. UNCHANGED <<Ready, Line, Given, got>>
    BY <2>1 DEF Ready, Line, Given, Whole, Typed
  <2> QED BY <2>2, Chunks DEF Input!Lines!vars, Given
<1>3. CASE c = Input!EndOfFile /\ ~(n[p] < target[p])
  <2>1. UNCHANGED <<n, target, got>> /\ r' = Input!Plus(r, 1)
    BY <1>1, <1>3 DEF Input!ReadChar
  <2>2. Given' = Given /\ Given[p] = 0
    BY <1>1, <1>3, <2>1 DEF Given
  <2> QED BY <1>1, <1>3, <2>1, <2>2, CharTaken, Chunks DEF Input!Lines!GiveEnd, Given
<1>4. CASE c # Input!EndOfFile
  <2>1. /\ r' = Input!Plus(r, 1) /\ got' = [got EXCEPT ![p] = c]
        /\ n' = [n EXCEPT ![p] = @ - 1]
    BY <1>1, <1>4 DEF Input!ReadChar
  <2>2. Given' = [Given EXCEPT ![p] = @ + 1]
    <3>1. ASSUME NEW q \in Readers
          PROVE  Given'[q] = IF q = p THEN Given[p] + 1 ELSE Given[q]
      <4>1. n'[q] = IF q = p THEN n[p] - 1 ELSE n[q]
        BY <1>1, <2>1
      <4>2. target' = target
        BY <1>1
      <4> QED BY <1>1, <4>1, <4>2 DEF Given
    <3>2. Given' = [q \in Readers |-> Given'[q]] /\ Given = [q \in Readers |-> Given[q]]
      BY DEF Given
    <3> HIDE DEF Given
    <3> QED BY <3>1, <3>2
  <2> QED BY <1>1, <1>4, <2>1, <2>2, CharTaken, Chunks DEF Input!Lines!Give, Given
<1> QED BY <1>2, <1>3, <1>4

LEMMA ReturnMaps ==
  ASSUME Input!IInv, NEW p \in Readers, Input!ReadReturn(p)
  PROVE  Input!Lines!Return(p)
<1>1. /\ UNCHANGED <<buf, r, w, e>>
      /\ n' = [n EXCEPT ![p] = 0] /\ target' = [target EXCEPT ![p] = 0]
      /\ got' = [got EXCEPT ![p] = NoChar]
      /\ n \in [Readers -> Nat] /\ target \in [Readers -> Nat]
  BY DEF Input!IInv, Input!TypeOK, Input!ReadReturn, Input!input
<1>2. Ready' = Ready /\ Line' = Line
  BY <1>1 DEF Ready, Line, Whole, Typed
<1>3. Given' = [Given EXCEPT ![p] = 0]
  <2>1. ASSUME NEW q \in Readers
        PROVE  Given'[q] = IF q = p THEN 0 ELSE Given[q]
    BY <1>1 DEF Given
  <2>2. Given' = [q \in Readers |-> Given'[q]] /\ Given = [q \in Readers |-> Given[q]]
    BY DEF Given
  <2> HIDE DEF Given
  <2> QED BY <2>1, <2>2
<1> QED BY <1>1, <1>2, <1>3, Chunks DEF Input!Lines!Return, Given

LEMMA QuietMaps ==
  ASSUME Input!IInv, NEW p \in Readers, Quiet(p), ~Input!ReadReturn(p)
  PROVE  UNCHANGED Input!Lines!vars
<1>1. UNCHANGED <<buf, r, w, e, got>>
  BY DEF Quiet, Input!ReadCall, Input!ReadBegin, Input!ReadEnter, Input!ReadBlocks, Input!ReadKilled,
     Input!ReadSleep, Input!ReadEnough, Input!ReadEnd, Input!WriteCall, Input!Writing, Input!WriteBegin,
     Input!WritePrint, Input!WriteReturn, Input!Kill, Input!input, Input!call
<1>2. Ready' = Ready /\ Line' = Line
  BY <1>1 DEF Ready, Line, Whole, Typed
<1>3. Given' = Given
  <2>1. CASE Input!ReadCall(p)
    <3>1. PICK len \in ReadLens :
            /\ n' = [n EXCEPT ![p] = len] /\ target' = [target EXCEPT ![p] = len] /\ inputPc[p] = "user"
      BY <2>1 DEF Input!ReadCall, Input!At
    <3>2. len \in Nat /\ n[p] = target[p] /\ n \in [Readers -> Nat] /\ target \in [Readers -> Nat]
      BY <3>1, InputConstants DEF Input!IInv, Input!CallInv, Input!TypeOK
    <3> QED BY <3>1, <3>2 DEF Given
  <2>2. CASE ~Input!ReadCall(p)
    <3>1. UNCHANGED <<n, target>>
      BY <2>2 DEF Quiet, Input!ReadBegin, Input!ReadEnter, Input!ReadBlocks, Input!ReadKilled,
         Input!ReadSleep, Input!ReadEnough, Input!ReadEnd, Input!WriteCall, Input!Writing,
         Input!WriteBegin, Input!WritePrint, Input!WriteReturn, Input!Kill, Input!call
    <3> QED BY <3>1 DEF Given
  <2> QED BY <2>1, <2>2
<1> QED BY <1>1, <1>2, <1>3, Chunks DEF Input!Lines!vars, Given

LEMMA InputStepMaps ==
  ASSUME Input!IInv, Input!Next
  PROVE  Input!Lines!Next \/ UNCHANGED Input!Lines!vars
<1>1. CASE Input!Keyboard
  BY <1>1, TypeMaps, BackspaceMaps, KillLineMaps DEF Input!Keyboard, Input!Lines!Next
<1>2. ASSUME NEW p \in Readers, Quiet(p) PROVE Input!Lines!Next \/ UNCHANGED Input!Lines!vars
  BY <1>2, ReturnMaps, QuietMaps DEF Input!Lines!Next
<1>3. ASSUME NEW p \in Readers, Input!ReadChar(p) PROVE Input!Lines!Next \/ UNCHANGED Input!Lines!vars
  BY <1>3, CharMaps DEF Input!Lines!Next
<1> QED BY <1>1, <1>2, <1>3 DEF Input!Next, Input!Reading, Quiet

LEMMA InputInitMaps == Input!Init => Input!Lines!Init
<1> SUFFICES ASSUME Input!Init PROVE Input!Lines!Init
  OBVIOUS
<1>1. Whole = 0 /\ Typed = 0
  <2>1. Input!TypeOK /\ Input!NeverStuck /\ r = w /\ w = e
    BY InputInit DEF Input!IInv, Input!Init
  <2> QED BY <2>1, InputDistances
<1>2. Ready = <<>> /\ Line = <<>>
  BY <1>1, EmptySlice DEF Ready, Line
<1>3. Given = [p \in Readers |-> 0]
  BY DEF Given, Input!Init
<1> QED BY <1>2, <1>3, Chunks DEF Input!Init, Input!Lines!Init, Given

\* The console's ring buffer with its three wrapping indices implements a line
\* editor that gives complete lines out in order and each character once, and
\* keeps an end of file for a read that has got nothing (console.c:188-262).
THEOREM InputRefinement == Spec => ImplementsLineInput
<1>1. Init => Input!Lines!Init
  BY InputInitMaps DEF Init
<1>2. (part = "console" => Input!IInv) /\ [Next]_vars => [Input!Lines!Next]_(Input!Lines!vars)
  <2> SUFFICES ASSUME part = "console" => Input!IInv, [Next]_vars
               PROVE  Input!Lines!Next \/ UNCHANGED Input!Lines!vars
    OBVIOUS
  <2>1. CASE Input!Next /\ part = "console"
    BY <2>1, InputStepMaps
  <2>2. CASE UNCHANGED inputVars
    <3>1. UNCHANGED <<buf, r, w, e, n, target, got>>
      BY <2>2 DEF inputVars
    <3>2. UNCHANGED <<Ready, Line, Given, got>>
      BY <3>1 DEF Ready, Line, Given, Whole, Typed
    <3> QED BY <3>2, Chunks DEF Input!Lines!vars, Given
  <2> QED BY <2>1, <2>2 DEF Next, vars, OnlyStride, OnlyLocks, OnlyInput, OnlyOpen, OnlyDisk
<1>3. Spec => Input!Lines!Init /\ [][Input!Lines!Next]_(Input!Lines!vars)
  BY <1>1, <1>2, InputAlways, PTL DEF Spec
<1> QED BY <1>3 DEF ImplementsLineInput, Input!ImplementsLineInput, Input!Lines!Spec

-----------------------------------------------------------------------------
(***************************************************************************)
(* Open files.  Who refers to what is a function from the places that may  *)
(* refer to a thing to what they refer to; a step of the kernel sets one   *)
(* place or a few, and a count of places changes by what they had and get. *)
(***************************************************************************)
Count(g, x) == Cardinality({h \in DOMAIN g : g[h] = x})

\* g2 is g with y at h.
IsSet(g2, g, h, y) ==
  /\ h \in DOMAIN g /\ DOMAIN g2 = DOMAIN g
  /\ \A k \in DOMAIN g : g2[k] = IF k = h THEN y ELSE g[k]

Counts(g) == IsFiniteSet(DOMAIN g)

LEMMA CountFinite ==
  ASSUME NEW g, Counts(g), NEW x
  PROVE  IsFiniteSet({h \in DOMAIN g : g[h] = x}) /\ Count(g, x) \in Nat
<1>1. {h \in DOMAIN g : g[h] = x} \in SUBSET (DOMAIN g)
  OBVIOUS
<1>2. IsFiniteSet({h \in DOMAIN g : g[h] = x})
  BY <1>1, FS_Subset DEF Counts
<1> QED BY <1>2, FS_CardinalityType DEF Count

LEMMA CountKept ==
  ASSUME NEW g, NEW g2, NEW h, NEW y, NEW x, IsSet(g2, g, h, y), Counts(g),
         (g[h] = x) <=> (y = x)
  PROVE  Count(g2, x) = Count(g, x)
<1>1. {k \in DOMAIN g2 : g2[k] = x} = {k \in DOMAIN g : g[k] = x}
  BY DEF IsSet
<1> QED BY <1>1 DEF Count

LEMMA CountGains ==
  ASSUME NEW g, NEW g2, NEW h, NEW y, NEW x, IsSet(g2, g, h, y), Counts(g), g[h] # x, y = x
  PROVE  Count(g2, x) = Count(g, x) + 1
<1> DEFINE S == {k \in DOMAIN g : g[k] = x}
<1>1. {k \in DOMAIN g2 : g2[k] = x} = S \cup {h} /\ h \notin S
  BY DEF IsSet
<1>2. IsFiniteSet(S)
  BY CountFinite
<1>3. Cardinality(S \cup {h}) = Cardinality(S) + 1
  <2> HIDE DEF S
  <2> QED BY <1>1, <1>2, FS_AddElement
<1> QED BY <1>1, <1>3 DEF Count

LEMMA CountLoses ==
  ASSUME NEW g, NEW g2, NEW h, NEW y, NEW x, IsSet(g2, g, h, y), Counts(g), g[h] = x, y # x
  PROVE  Count(g2, x) = Count(g, x) - 1
<1> DEFINE S == {k \in DOMAIN g : g[k] = x}
<1>1. {k \in DOMAIN g2 : g2[k] = x} = S \ {h} /\ h \in S
  BY DEF IsSet
<1>2. IsFiniteSet(S)
  BY CountFinite
<1>3. Cardinality(S \ {h}) = Cardinality(S) - 1
  <2> HIDE DEF S
  <2> QED BY <1>1, <1>2, FS_RemoveElement
<1> QED BY <1>1, <1>3 DEF Count

LEMMA CountSome ==
  ASSUME NEW g, Counts(g), NEW h \in DOMAIN g
  PROVE  Count(g, g[h]) > 0
<1> DEFINE S == {k \in DOMAIN g : g[k] = g[h]}
<1>1. S # {} /\ IsFiniteSet(S) /\ Cardinality(S) \in Nat
  BY CountFinite DEF Count
<1>2. Cardinality(S) # 0
  <2> HIDE DEF S
  <2> QED BY <1>1, FS_EmptySet
<1> QED BY <1>1, <1>2 DEF Count

LEMMA CountNone ==
  ASSUME NEW g, Counts(g), NEW x, \A k \in DOMAIN g : g[k] # x
  PROVE  Count(g, x) = 0
<1>1. {k \in DOMAIN g : g[k] = x} = {}
  OBVIOUS
<1> QED BY <1>1, FS_EmptySet DEF Count

\* Of a place that is counted alone there is no other.
LEMMA CountAlone ==
  ASSUME NEW g, Counts(g), NEW h \in DOMAIN g, NEW k \in DOMAIN g, g[h] = g[k], Count(g, g[h]) <= 1
  PROVE  h = k
<1> DEFINE S == {j \in DOMAIN g : g[j] = g[h]}
<1>1. IsFiniteSet(S) /\ Cardinality(S) \in Nat /\ Cardinality(S) <= 1 /\ Cardinality(S) > 0 /\ h \in S /\ k \in S
  BY CountFinite, CountSome DEF Count
<1>2. Cardinality(S) = 1
  BY <1>1
<1>3. \E j : S = {j}
  <2> HIDE DEF S
  <2> QED BY <1>1, <1>2, FS_Singleton
<1> QED BY <1>1, <1>3

-----------------------------------------------------------------------------
Pointers == (Procs \X {"ofile"} \X Open!Descriptors) \cup (Procs \X {"rf"} \X {0}) \cup (Procs \X {"wf"} \X {0})
Pointer ==
  [h \in Pointers |-> CASE h[2] = "ofile" -> ofile[h[1]][h[3]] [] h[2] = "rf" -> rf[h[1]] [] OTHER -> wf[h[1]]]

Things == ({"file"} \X FileTable) \cup ({"call"} \X Procs)
Thing == [h \in Things |-> IF h[1] = "file" THEN type[h[2]] ELSE closed[h[2]]]

Users == ({"file"} \X FileTable) \cup ({"cwd"} \X Procs) \cup ({"call"} \X Procs)
Uses ==
  [h \in Users |-> CASE h[1] = "file" -> type[h[2]] = Open!Inode
                     [] h[1] = "cwd"  -> procState[h[2]] = "LIVE" /\ filePc[h[2]] # "exit_end"
                     [] OTHER         -> filePc[h[2]] \in {"open", "open_bad"} \/ closed[h[2]] = Open!Inode]

Fd(p, fd)  == <<p, "ofile", fd>>
Rf(p)      == <<p, "rf", 0>>
Wf(p)      == <<p, "wf", 0>>
OfFile(f)  == <<"file", f>>
OfCwd(p)   == <<"cwd", p>>
OfCall(p)  == <<"call", p>>

LEMMA OpenConstants ==
  /\ InitProc \in Procs /\ NoProc \notin Procs /\ NoFile \notin FileTable
  /\ IsFiniteSet(FileTable) /\ IsFiniteSet(Procs) /\ NOFILE \in Nat
<1>1. Open!ConstantAssumptions
  BY PartsAssumptions
<1>2. Open!IsFiniteSet(FileTable) => IsFiniteSet(FileTable)
  BY DEF Open!IsFiniteSet, IsFiniteSet
<1>3. Open!IsFiniteSet(Procs) => IsFiniteSet(Procs)
  BY DEF Open!IsFiniteSet, IsFiniteSet
<1> QED BY <1>1, <1>2, <1>3 DEF Open!ConstantAssumptions

LEMMA OpenCardinality == \A S : Open!Cardinality(S) = Cardinality(S)
BY DEF Open!Cardinality, Cardinality

LEMMA PlacesFinite == Counts(Pointer) /\ Counts(Thing) /\ Counts(Uses)
<1>1. IsFiniteSet(Open!Descriptors)
  BY OpenConstants, FS_Interval DEF Open!Descriptors
<1>2. \A x : IsFiniteSet({x})
  BY FS_Singleton
<1>3. \A S, T : IsFiniteSet(S) /\ IsFiniteSet(T) => IsFiniteSet(S \X T)
  BY FS_Product
<1>4. ASSUME NEW S, NEW T, NEW tag, IsFiniteSet(S), IsFiniteSet(T)
      PROVE  IsFiniteSet(S \X {tag} \X T)
  <2> DEFINE g == [h \in S \X T |-> <<h[1], tag, h[2]>>]
  <2>1. g \in Surjection(S \X T, S \X {tag} \X T)
    <3>1. g \in [S \X T -> S \X {tag} \X T]
      OBVIOUS
    <3>2. ASSUME NEW j \in S \X {tag} \X T PROVE \E h \in S \X T : g[h] = j
      <4>1. PICK x \in S, y \in T : j = <<x, tag, y>>
        OBVIOUS
      <4>2. <<x, y>> \in S \X T /\ g[<<x, y>>] = j
        BY <4>1
      <4> QED BY <4>2
    <3> QED BY <3>1, <3>2 DEF Surjection
  <2>2. IsFiniteSet(S \X T)
    BY <1>3, <1>4
  <2> HIDE DEF g
  <2> QED BY <2>1, <2>2, FS_Surjection
<1>5. \A S, T : IsFiniteSet(S) /\ IsFiniteSet(T) => IsFiniteSet(S \cup T)
  BY FS_Union
<1>6. IsFiniteSet(Pointers)
  <2>1. /\ IsFiniteSet(Procs \X {"ofile"} \X Open!Descriptors)
        /\ IsFiniteSet(Procs \X {"rf"} \X {0}) /\ IsFiniteSet(Procs \X {"wf"} \X {0})
    BY <1>1, <1>2, <1>4, OpenConstants
  <2> QED BY <1>5, <2>1, Zenon DEF Pointers
<1>7. IsFiniteSet(Things) /\ IsFiniteSet(Users)
  <2>1. /\ IsFiniteSet({"file"} \X FileTable) /\ IsFiniteSet({"call"} \X Procs)
        /\ IsFiniteSet({"cwd"} \X Procs)
    BY <1>2, <1>3, OpenConstants
  <2> QED BY <1>5, <2>1, Zenon DEF Things, Users
<1> QED BY <1>6, <1>7 DEF Counts, Pointer, Thing, Uses

\* The counts of the specification are counts of places.
Refs ==
  /\ ~panicked
  /\ \A f \in FileTable : ref[f] = Count(Pointer, f)
  /\ iref = Count(Uses, TRUE)

PipeEnds == \A rr \in Pipes, ee \in Open!Ends :
  /\ ee \in open[rr] <=> Count(Thing, Open!End(rr, ee)) # 0
  /\ Count(Thing, Open!End(rr, ee)) <= 1

LEMMA RefsCounted == (Open!RefsExact <=> Refs) /\ (Open!RefsExact' <=> Refs')
<1>1. \A f : /\ Open!Holders(f) = {h \in Pointers : Pointer[h] = f}
             /\ Open!Holders(f)' = {h \in Pointers : Pointer'[h] = f}
  BY DEF Open!Holders, Pointer, Pointers
<1>2. Open!InodeHolders = {h \in Users : Uses[h] = TRUE}
  BY DEF Open!InodeHolders, Uses, Users
<1>3. Open!InodeHolders' = {h \in Users : Uses'[h] = TRUE}
  BY DEF Open!InodeHolders, Uses, Users
<1>4. DOMAIN Pointer = Pointers /\ DOMAIN Pointer' = Pointers /\ DOMAIN Uses = Users /\ DOMAIN Uses' = Users
  BY DEF Pointer, Uses
<1>5. \A f : /\ Open!Cardinality(Open!Holders(f)) = Count(Pointer, f)
             /\ Open!Cardinality(Open!Holders(f)') = Count(Pointer', f)
  BY <1>1, <1>4, OpenCardinality DEF Count
<1>6. /\ Open!Cardinality(Open!InodeHolders) = Count(Uses, TRUE)
      /\ Open!Cardinality(Open!InodeHolders') = Count(Uses', TRUE)
  BY <1>2, <1>3, <1>4, OpenCardinality DEF Count
<1>7. Open!RefsExact <=> Refs
  BY <1>5, <1>6 DEF Open!RefsExact, Refs
<1>8. Open!RefsExact' <=> Refs'
  BY <1>5, <1>6 DEF Open!RefsExact, Refs
<1> QED BY <1>7, <1>8

LEMMA EndsCounted == (Open!EndsExact <=> PipeEnds) /\ (Open!EndsExact' <=> PipeEnds')
<1>1. \A rr, ee : /\ Open!EndHolders(rr, ee) = {h \in Things : Thing[h] = Open!End(rr, ee)}
                  /\ Open!EndHolders(rr, ee)' = {h \in Things : Thing'[h] = Open!End(rr, ee)}
  BY DEF Open!EndHolders, Thing, Things
<1>2. DOMAIN Thing = Things /\ DOMAIN Thing' = Things
  BY DEF Thing
<1>3. \A rr, ee : /\ Open!Cardinality(Open!EndHolders(rr, ee)) = Count(Thing, Open!End(rr, ee))
                  /\ Open!Cardinality(Open!EndHolders(rr, ee)') = Count(Thing', Open!End(rr, ee))
  BY <1>1, <1>2, OpenCardinality DEF Count
<1>4. \A S : S \in SUBSET Things => (S # {} <=> Cardinality(S) # 0)
  BY PlacesFinite, FS_Subset, FS_EmptySet, <1>2 DEF Counts
<1>5. \A rr, ee : /\ Open!EndHolders(rr, ee) # {} <=> Count(Thing, Open!End(rr, ee)) # 0
                  /\ Open!EndHolders(rr, ee)' # {} <=> Count(Thing', Open!End(rr, ee)) # 0
  BY <1>1, <1>2, <1>4 DEF Count
<1>6. Open!EndsExact <=> PipeEnds
  BY <1>3, <1>5 DEF Open!EndsExact, PipeEnds
<1>7. Open!EndsExact' <=> PipeEnds'
  BY <1>3, <1>5 DEF Open!EndsExact, PipeEnds
<1> QED BY <1>6, <1>7

LEMMA PlacesStay ==
  /\ Counts(Pointer) /\ Counts(Thing) /\ Counts(Uses)
  /\ DOMAIN Pointer = Pointers /\ DOMAIN Thing = Things /\ DOMAIN Uses = Users
  /\ DOMAIN Pointer' = Pointers /\ DOMAIN Thing' = Things /\ DOMAIN Uses' = Users
BY PlacesFinite DEF Pointer, Thing, Uses

-----------------------------------------------------------------------------
\* g2 is g with what two places have exchanged.
IsSwap(g2, g, h, k) ==
  /\ h \in DOMAIN g /\ k \in DOMAIN g /\ DOMAIN g2 = DOMAIN g
  /\ g2[h] = g[k] /\ g2[k] = g[h]
  /\ \A j \in DOMAIN g : j # h /\ j # k => g2[j] = g[j]

LEMMA CountSwap ==
  ASSUME NEW g, NEW g2, NEW h, NEW k, NEW x, IsSwap(g2, g, h, k), Counts(g)
  PROVE  Count(g2, x) = Count(g, x)
<1> DEFINE g1 == [j \in DOMAIN g |-> IF j = h THEN g[k] ELSE g[j]]
<1>1. IsSet(g1, g, h, g[k]) /\ IsSet(g2, g1, k, g[h]) /\ Counts(g1) /\ (h = k \/ g1[k] = g[k])
  BY DEF IsSwap, IsSet, Counts
<1>2. Count(g, x) \in Nat
  BY CountFinite
<1>3. CASE h = k \/ g[h] = g[k]
  <2>1. {j \in DOMAIN g2 : g2[j] = x} = {j \in DOMAIN g : g[j] = x}
    BY <1>3 DEF IsSwap
  <2> QED BY <2>1 DEF Count
<1>4. CASE h # k /\ g[h] # g[k]
  <2> HIDE DEF g1
  <2>1. CASE x # g[h] /\ x # g[k]
    <3>1. Count(g1, x) = Count(g, x)
      BY <1>1, <2>1, CountKept
    <3>2. Count(g2, x) = Count(g1, x)
      BY <1>1, <1>4, <2>1, CountKept
    <3> QED BY <3>1, <3>2
  <2>2. CASE x = g[h] /\ x # g[k]
    <3>1. Count(g1, x) = Count(g, x) - 1
      BY <1>1, <2>2, CountLoses
    <3>2. Count(g2, x) = Count(g1, x) + 1
      BY <1>1, <1>4, <2>2, CountGains
    <3> QED BY <1>2, <3>1, <3>2
  <2>3. CASE x # g[h] /\ x = g[k]
    <3>1. Count(g1, x) = Count(g, x) + 1
      BY <1>1, <2>3, CountGains
    <3>2. Count(g2, x) = Count(g1, x) - 1
      BY <1>1, <1>4, <2>3, CountLoses
    <3> QED BY <1>2, <3>1, <3>2
  <2> QED BY <1>4, <2>1, <2>2, <2>3
<1> QED BY <1>3, <1>4

LEMMA SwapCounts ==
  ASSUME NEW g, NEW g2, NEW h, NEW k, IsSwap(g2, g, h, k), Counts(g)
  PROVE  \A x : Count(g2, x) = Count(g, x)
BY CountSwap

-----------------------------------------------------------------------------
LEMMA PlaceOf ==
  /\ \A p \in Procs, fd \in Open!Descriptors : Fd(p, fd) \in Pointers /\ Pointer[Fd(p, fd)] = ofile[p][fd]
  /\ \A p \in Procs : Rf(p) \in Pointers /\ Pointer[Rf(p)] = rf[p]
  /\ \A p \in Procs : Wf(p) \in Pointers /\ Pointer[Wf(p)] = wf[p]
  /\ \A f \in FileTable : OfFile(f) \in Things /\ Thing[OfFile(f)] = type[f]
  /\ \A p \in Procs : OfCall(p) \in Things /\ Thing[OfCall(p)] = closed[p]
<1>1. \A p \in Procs, fd \in Open!Descriptors : Fd(p, fd) \in Pointers /\ Pointer[Fd(p, fd)] = ofile[p][fd]
  BY DEF Pointers, Pointer, Fd
<1>2. \A p \in Procs : Rf(p) \in Pointers /\ Pointer[Rf(p)] = rf[p]
  BY DEF Pointers, Pointer, Rf
<1>3. \A p \in Procs : Wf(p) \in Pointers /\ Pointer[Wf(p)] = wf[p]
  BY DEF Pointers, Pointer, Wf
<1>4. \A f \in FileTable : OfFile(f) \in Things /\ Thing[OfFile(f)] = type[f]
  BY DEF Things, Thing, OfFile
<1>5. \A p \in Procs : OfCall(p) \in Things /\ Thing[OfCall(p)] = closed[p]
  BY DEF Things, Thing, OfCall
<1> QED BY <1>1, <1>2, <1>3, <1>4, <1>5

LEMMA OtherPlaces ==
  /\ \A p, q, fd, gd : Fd(p, fd) = Fd(q, gd) => p = q /\ fd = gd
  /\ \A p, q : Rf(p) = Rf(q) => p = q
  /\ \A p, q : Wf(p) = Wf(q) => p = q
  /\ \A p, q, fd : Fd(p, fd) # Rf(q) /\ Fd(p, fd) # Wf(q)
  /\ \A p, q : Rf(p) # Wf(q)
  /\ \A f, g : OfFile(f) = OfFile(g) => f = g
  /\ \A p, q : OfCall(p) = OfCall(q) => p = q
  /\ \A f, p : OfFile(f) # OfCall(p) /\ OfFile(f) # OfCwd(p) /\ OfCwd(f) # OfCall(p)
BY DEF Fd, Rf, Wf, OfFile, OfCall, OfCwd

LEMMA PointerCases ==
  ASSUME NEW h \in Pointers
  PROVE  \/ \E p \in Procs, fd \in Open!Descriptors : h = Fd(p, fd)
         \/ \E p \in Procs : h = Rf(p)
         \/ \E p \in Procs : h = Wf(p)
BY DEF Pointers, Fd, Rf, Wf

LEMMA ThingCases ==
  ASSUME NEW h \in Things
  PROVE  (\E f \in FileTable : h = OfFile(f)) \/ (\E p \in Procs : h = OfCall(p))
BY DEF Things, OfFile, OfCall

LEMMA UserCases ==
  ASSUME NEW h \in Users
  PROVE  (\E f \in FileTable : h = OfFile(f)) \/ (\E p \in Procs : h = OfCwd(p) \/ h = OfCall(p))
BY DEF Users, OfFile, OfCwd, OfCall

-----------------------------------------------------------------------------
\* What an assignment of the kernel does to the places.
LEMMA SetFd ==
  ASSUME Open!TypeOK, NEW p \in Procs, NEW fd \in Open!Descriptors, NEW x,
         ofile' = [ofile EXCEPT ![p][fd] = x], UNCHANGED <<rf, wf>>
  PROVE  IsSet(Pointer', Pointer, Fd(p, fd), x)
<1>1. DOMAIN Pointer = Pointers /\ DOMAIN Pointer' = Pointers /\ Fd(p, fd) \in Pointers
  BY PlacesStay, PlaceOf
<1>2. ASSUME NEW h \in Pointers PROVE Pointer'[h] = IF h = Fd(p, fd) THEN x ELSE Pointer[h]
  BY <1>2 DEF Pointers, Pointer, Fd, Open!TypeOK
<1> QED BY <1>1, <1>2 DEF IsSet

LEMMA SetRf ==
  ASSUME Open!TypeOK, NEW p \in Procs, NEW x, rf' = [rf EXCEPT ![p] = x], UNCHANGED <<ofile, wf>>
  PROVE  IsSet(Pointer', Pointer, Rf(p), x)
<1>1. DOMAIN Pointer = Pointers /\ DOMAIN Pointer' = Pointers /\ Rf(p) \in Pointers
  BY PlacesStay, PlaceOf
<1>2. ASSUME NEW h \in Pointers PROVE Pointer'[h] = IF h = Rf(p) THEN x ELSE Pointer[h]
  BY <1>2 DEF Pointers, Pointer, Rf, Open!TypeOK
<1> QED BY <1>1, <1>2 DEF IsSet

LEMMA SetWf ==
  ASSUME Open!TypeOK, NEW p \in Procs, NEW x, wf' = [wf EXCEPT ![p] = x], UNCHANGED <<ofile, rf>>
  PROVE  IsSet(Pointer', Pointer, Wf(p), x)
<1>1. DOMAIN Pointer = Pointers /\ DOMAIN Pointer' = Pointers /\ Wf(p) \in Pointers
  BY PlacesStay, PlaceOf
<1>2. ASSUME NEW h \in Pointers PROVE Pointer'[h] = IF h = Wf(p) THEN x ELSE Pointer[h]
  BY <1>2 DEF Pointers, Pointer, Wf, Open!TypeOK
<1> QED BY <1>1, <1>2 DEF IsSet

LEMMA SetType ==
  ASSUME Open!TypeOK, NEW f \in FileTable, NEW x, type' = [type EXCEPT ![f] = x], UNCHANGED closed
  PROVE  IsSet(Thing', Thing, OfFile(f), x)
<1>1. DOMAIN Thing = Things /\ DOMAIN Thing' = Things /\ OfFile(f) \in Things
  BY PlacesStay, PlaceOf
<1>2. ASSUME NEW h \in Things PROVE Thing'[h] = IF h = OfFile(f) THEN x ELSE Thing[h]
  BY <1>2 DEF Things, Thing, OfFile, Open!TypeOK
<1> QED BY <1>1, <1>2 DEF IsSet

LEMMA SetClosed ==
  ASSUME Open!TypeOK, NEW p \in Procs, NEW x, closed' = [closed EXCEPT ![p] = x], UNCHANGED type
  PROVE  IsSet(Thing', Thing, OfCall(p), x)
<1>1. DOMAIN Thing = Things /\ DOMAIN Thing' = Things /\ OfCall(p) \in Things
  BY PlacesStay, PlaceOf
<1>2. ASSUME NEW h \in Things PROVE Thing'[h] = IF h = OfCall(p) THEN x ELSE Thing[h]
  BY <1>2 DEF Things, Thing, OfCall, Open!TypeOK
<1> QED BY <1>1, <1>2 DEF IsSet

LEMMA SamePlaces ==
  /\ UNCHANGED <<ofile, rf, wf>> => Pointer' = Pointer
  /\ UNCHANGED <<type, closed>> => Thing' = Thing
  /\ UNCHANGED <<type, procState, filePc, closed>> => Uses' = Uses
BY DEF Pointer, Thing, Uses

HasCwd(p)  == procState[p] = "LIVE" /\ filePc[p] # "exit_end"
Opening(p) == filePc[p] \in {"open", "open_bad"} \/ closed[p] = Open!Inode

LEMMA UserOf ==
  /\ \A f \in FileTable : OfFile(f) \in Users /\ Uses[OfFile(f)] = (type[f] = Open!Inode)
  /\ \A p \in Procs : OfCwd(p) \in Users /\ Uses[OfCwd(p)] = HasCwd(p)
  /\ \A p \in Procs : OfCall(p) \in Users /\ Uses[OfCall(p)] = Opening(p)
<1>1. \A f \in FileTable : OfFile(f) \in Users /\ Uses[OfFile(f)] = (type[f] = Open!Inode)
  BY DEF Users, Uses, OfFile
<1>2. \A p \in Procs : OfCwd(p) \in Users /\ Uses[OfCwd(p)] = HasCwd(p)
  BY DEF Users, Uses, OfCwd, HasCwd
<1>3. \A p \in Procs : OfCall(p) \in Users /\ Uses[OfCall(p)] = Opening(p)
  BY DEF Users, Uses, OfCall, Opening
<1> QED BY <1>1, <1>2, <1>3

LEMMA UserOfPrime ==
  /\ \A f \in FileTable : Uses'[OfFile(f)] = (type'[f] = Open!Inode)
  /\ \A p \in Procs : Uses'[OfCwd(p)] = HasCwd(p)'
  /\ \A p \in Procs : Uses'[OfCall(p)] = Opening(p)'
<1>1. \A f \in FileTable : Uses'[OfFile(f)] = (type'[f] = Open!Inode)
  BY DEF Users, Uses, OfFile
<1>2. \A p \in Procs : Uses'[OfCwd(p)] = HasCwd(p)'
  BY DEF Users, Uses, OfCwd, HasCwd
<1>3. \A p \in Procs : Uses'[OfCall(p)] = Opening(p)'
  BY DEF Users, Uses, OfCall, Opening
<1> QED BY <1>1, <1>2, <1>3

LEMMA SameUses ==
  ASSUME \A f \in FileTable : (type'[f] = Open!Inode) <=> (type[f] = Open!Inode),
         \A p \in Procs : HasCwd(p)' <=> HasCwd(p),
         \A p \in Procs : Opening(p)' <=> Opening(p)
  PROVE  Uses' = Uses
<1>1. ASSUME NEW h \in Users PROVE Uses'[h] = Uses[h]
  <2>1. ASSUME NEW f \in FileTable PROVE Uses'[OfFile(f)] = Uses[OfFile(f)]
    <3>1. (type'[f] = Open!Inode) = (type[f] = Open!Inode)
      OBVIOUS
    <3> QED BY <3>1, UserOf, UserOfPrime
  <2>2. ASSUME NEW p \in Procs PROVE Uses'[OfCwd(p)] = Uses[OfCwd(p)] /\ Uses'[OfCall(p)] = Uses[OfCall(p)]
    <3>1. HasCwd(p)' = HasCwd(p) /\ Opening(p)' = Opening(p)
      BY DEF HasCwd, Opening
    <3> QED BY <3>1, UserOf, UserOfPrime
  <2> QED BY <2>1, <2>2, UserCases
<1> QED BY <1>1 DEF Uses

-----------------------------------------------------------------------------
\* Who refers to a file refers to one in use, and alone while it is new.
Apart ==
  /\ \A p \in Procs, fd \in Open!Descriptors : ofile[p][fd] # NoFile => ref[ofile[p][fd]] > 0
  /\ \A p, q \in Procs, fd, gd \in Open!Descriptors :
       ofile[p][fd] # NoFile /\ ref[ofile[p][fd]] = 1 /\ ofile[p][fd] = ofile[q][gd] => p = q /\ fd = gd
  /\ \A p, q \in Procs, fd \in Open!Descriptors :
       /\ rf[q] # NoFile => ofile[p][fd] # rf[q]
       /\ wf[q] # NoFile => ofile[p][fd] # wf[q]
  /\ \A p, q \in Procs :
       /\ rf[p] # NoFile /\ rf[p] = rf[q] => p = q
       /\ wf[p] # NoFile /\ wf[p] = wf[q] => p = q
       /\ rf[p] # NoFile => rf[p] # wf[q]

LEMMA FilesApart == Open!IInv => Apart
<1> SUFFICES ASSUME Open!IInv PROVE Apart
  OBVIOUS
<1>1. /\ Counts(Pointer) /\ DOMAIN Pointer = Pointers
      /\ \A f \in FileTable : ref[f] = Count(Pointer, f)
  BY PlacesStay, RefsCounted DEF Open!IInv, Refs
<1>2. \A h \in Pointers : Pointer[h] \in FileTable => ref[Pointer[h]] > 0
  BY <1>1, CountSome
<1>3. \A h, k \in Pointers : Pointer[h] \in FileTable /\ ref[Pointer[h]] = 1 /\ Pointer[h] = Pointer[k] => h = k
  BY <1>1, CountAlone
<1>4. /\ \A p \in Procs, fd \in Open!Descriptors : ofile[p][fd] # NoFile => ofile[p][fd] \in FileTable
      /\ \A p \in Procs : rf[p] # NoFile => rf[p] \in FileTable /\ ref[rf[p]] = 1
      /\ \A p \in Procs : wf[p] # NoFile => wf[p] \in FileTable /\ ref[wf[p]] = 1
  BY DEF Open!IInv, Open!TypeOK, Open!FreshInv
<1>5. \A p \in Procs, fd \in Open!Descriptors : ofile[p][fd] # NoFile => ref[ofile[p][fd]] > 0
  BY <1>2, <1>4, PlaceOf
<1>6. \A p, q \in Procs, fd, gd \in Open!Descriptors :
        ofile[p][fd] # NoFile /\ ref[ofile[p][fd]] = 1 /\ ofile[p][fd] = ofile[q][gd] => p = q /\ fd = gd
  <2> SUFFICES ASSUME NEW p \in Procs, NEW q \in Procs, NEW fd \in Open!Descriptors, NEW gd \in Open!Descriptors,
                      ofile[p][fd] # NoFile, ref[ofile[p][fd]] = 1, ofile[p][fd] = ofile[q][gd]
               PROVE  p = q /\ fd = gd
    OBVIOUS
  <2>1. Fd(p, fd) = Fd(q, gd)
    BY <1>3, <1>4, PlaceOf
  <2> QED BY <2>1, OtherPlaces
<1>7. \A p, q \in Procs, fd \in Open!Descriptors :
       /\ rf[q] # NoFile => ofile[p][fd] # rf[q]
       /\ wf[q] # NoFile => ofile[p][fd] # wf[q]
  BY <1>3, <1>4, PlaceOf, OtherPlaces
<1>8. \A p, q \in Procs :
       /\ rf[p] # NoFile /\ rf[p] = rf[q] => p = q
       /\ wf[p] # NoFile /\ wf[p] = wf[q] => p = q
       /\ rf[p] # NoFile => rf[p] # wf[q]
  BY <1>3, <1>4, PlaceOf, OtherPlaces
<1> QED BY <1>5, <1>6, <1>7, <1>8 DEF Apart

\* No place refers to an entry that is free.
LEMMA FreeFile ==
  ASSUME Open!IInv, NEW f \in FileTable, ref[f] = 0
  PROVE  /\ \A h \in Pointers : Pointer[h] # f
         /\ type[f] = Open!Nothing
<1>1. /\ Counts(Pointer) /\ DOMAIN Pointer = Pointers /\ Count(Pointer, f) = 0
  BY PlacesStay, RefsCounted DEF Open!IInv, Refs
<1>2. \A h \in Pointers : Pointer[h] # f
  <2> SUFFICES ASSUME NEW h \in Pointers, Pointer[h] = f PROVE FALSE
    OBVIOUS
  <2>1. Count(Pointer, Pointer[h]) > 0
    BY <1>1, CountSome
  <2> QED BY <1>1, <2>1
<1> QED BY <1>2 DEF Open!IInv, Open!FreshInv

LEMMA QuietCounts ==
  ASSUME Open!IInv, UNCHANGED <<ref, type, ofile, open, iref, rf, wf, closed, panicked>>, Uses' = Uses
  PROVE  Open!RefsExact' /\ Open!EndsExact'
<1>1. Pointer' = Pointer /\ Thing' = Thing /\ Refs /\ PipeEnds
  BY SamePlaces, RefsCounted, EndsCounted DEF Open!IInv
<1>2. Refs' /\ PipeEnds'
  BY <1>1 DEF Refs, PipeEnds
<1> QED BY <1>2, RefsCounted, EndsCounted
\* Steps that leave all files, pipes and descriptors as they are.
QuietFiles(p) ==
  \/ Open!PipeNoFile(p) \/ Open!PipeNoPage(p) \/ Open!Fork(p) \/ Open!ForkMemory(p) \/ Open!ForkNoMemory(p)
  \/ Open!Exit(p) \/ Open!ExitDone(p) \/ Open!Wait(p)

LEMMA QuietSteps ==
  ASSUME Open!IInv, NEW p \in Procs, QuietFiles(p)
  PROVE  Open!IInv'
<1> USE DEF Open!At, Open!Goto, Open!local, Open!Pcs
<1>1. UNCHANGED <<ref, type, ofile, open, iref, rf, wf, closed, panicked>>
  BY DEF QuietFiles, Open!PipeNoFile, Open!PipeNoPage, Open!Fork, Open!ForkMemory, Open!ForkNoMemory,
     Open!Exit, Open!ExitDone, Open!Wait
<1>2. /\ Open!TypeOK /\ Open!CallInv /\ Open!FreshInv /\ Open!ForkInv /\ Open!DescriptorsSound
  BY DEF Open!IInv
<1>3. Open!TypeOK'
  <2>1. /\ filePc' \in [Procs -> Open!Pcs]
        /\ procState' \in [Procs -> {"UNUSED", "EMBRYO", "LIVE", "ZOMBIE"}]
    BY <1>1, <1>2, OpenConstants DEF Open!TypeOK, QuietFiles, Open!PipeNoFile, Open!PipeNoPage, Open!Fork,
       Open!ForkMemory, Open!ForkNoMemory, Open!Exit, Open!ExitDone, Open!Wait
  <2>2. forked' \in [Procs -> Procs \cup {NoProc}] /\ next' = next
    BY <1>1, <1>2, OpenConstants DEF Open!TypeOK, QuietFiles, Open!PipeNoFile, Open!PipeNoPage, Open!Fork,
       Open!ForkMemory, Open!ForkNoMemory, Open!Exit, Open!ExitDone, Open!Wait
  <2> QED BY <1>1, <1>2, <2>1, <2>2 DEF Open!TypeOK
<1>4. Uses' = Uses
  <2>1. ASSUME NEW q \in Procs PROVE HasCwd(q)' <=> HasCwd(q)
    BY <1>1, <1>2, OpenConstants DEF HasCwd, Open!TypeOK, Open!CallInv, Open!ForkInv, QuietFiles, Open!PipeNoFile,
       Open!PipeNoPage, Open!Fork, Open!ForkMemory, Open!ForkNoMemory, Open!Exit, Open!ExitDone, Open!Wait
  <2>2. ASSUME NEW q \in Procs PROVE Opening(q)' <=> Opening(q)
    BY <1>1, <1>2, OpenConstants DEF Opening, Open!TypeOK, QuietFiles, Open!PipeNoFile,
       Open!PipeNoPage, Open!Fork, Open!ForkMemory, Open!ForkNoMemory, Open!Exit, Open!ExitDone, Open!Wait
  <2> QED BY <1>1, <2>1, <2>2, SameUses
<1>5. Open!RefsExact' /\ Open!EndsExact'
  BY <1>1, <1>4, QuietCounts
<1>6. Open!DescriptorsSound'
  <2>1. ASSUME NEW q \in Procs, procState'[q] \in {"UNUSED", "ZOMBIE"} PROVE Open!OpenFds(q) = {}
    <3>1. CASE procState[q] \in {"UNUSED", "ZOMBIE"}
      BY <1>2, <3>1 DEF Open!DescriptorsSound
    <3>2. CASE procState[q] \notin {"UNUSED", "ZOMBIE"} /\ Open!ExitDone(p)
      BY <1>2, <2>1, <3>2 DEF Open!ExitDone, Open!CallInv, Open!TypeOK
    <3>3. CASE procState[q] \notin {"UNUSED", "ZOMBIE"} /\ Open!ForkNoMemory(p)
      <4>1. q = forked[p] /\ forked[p] # NoProc /\ next[p] = 0
        BY <1>2, <2>1, <3>3 DEF Open!ForkNoMemory, Open!CallInv, Open!TypeOK
      <4> QED BY <1>2, <4>1, OpenConstants DEF Open!ForkInv, Open!OpenFds, Open!FreeFds, Open!Descriptors
    <3>4. CASE ~Open!ExitDone(p) /\ ~Open!ForkNoMemory(p)
      <4>1. procState[q] \in {"UNUSED", "ZOMBIE"}
        BY <1>2, <2>1, <3>4 DEF Open!TypeOK, QuietFiles, Open!PipeNoFile, Open!PipeNoPage, Open!Fork,
           Open!ForkMemory, Open!Exit, Open!Wait
      <4> QED BY <3>1, <4>1
    <3> QED BY <3>1, <3>2, <3>3, <3>4
  <2> QED BY <1>1, <1>2, <2>1 DEF Open!DescriptorsSound, Open!OpenFds, Open!FreeFds
<1>7. Open!CallInv'
  BY <1>1, <1>2, OpenConstants DEF Open!OpenFds, Open!FreeFds, Open!TypeOK, Open!CallInv, Open!ForkInv, 
     QuietFiles, Open!PipeNoFile, Open!PipeNoPage, Open!Fork, Open!ForkMemory, Open!ForkNoMemory, Open!Exit, Open!ExitDone, Open!Wait
<1>8. Open!FreshInv'
  BY <1>1, <1>2, OpenConstants DEF Open!TypeOK, Open!CallInv, Open!FreshInv,
     QuietFiles, Open!PipeNoFile, Open!PipeNoPage, Open!Fork, Open!ForkMemory, Open!ForkNoMemory, Open!Exit, Open!ExitDone, Open!Wait
<1>9. Open!ForkInv'
  BY <1>1, <1>2, OpenConstants DEF Open!DescriptorsSound, Open!OpenFds, Open!FreeFds, Open!TypeOK, Open!CallInv, Open!ForkInv, 
     QuietFiles, Open!PipeNoFile, Open!PipeNoPage, Open!Fork, Open!ForkMemory, Open!ForkNoMemory, Open!Exit, Open!ExitDone, Open!Wait
<1> QED BY <1>3, <1>5, <1>6, <1>7, <1>8, <1>9 DEF Open!IInv
-----------------------------------------------------------------------------
LEMMA KindsApart ==
  /\ Open!Nothing # Open!Inode
  /\ \A rr, ee : Open!End(rr, ee) # Open!Nothing /\ Open!End(rr, ee) # Open!Inode
  /\ \A rr, ee : Open!End(rr, ee)[2] = rr /\ Open!End(rr, ee)[3] = ee
  /\ Open!Nothing \in Open!Types /\ Open!Inode \in Open!Types
  /\ \A rr \in Pipes, ee \in Open!Ends : Open!End(rr, ee) \in Open!Types
  /\ \A x \in Open!Types : x # Open!Nothing /\ x # Open!Inode =>
       \E rr \in Pipes, ee \in Open!Ends : x = Open!End(rr, ee)
<1>1. Open!Nothing # Open!Inode
  BY DEF Open!Nothing, Open!Inode
<1>2. \A rr, ee : Open!End(rr, ee) # Open!Nothing /\ Open!End(rr, ee) # Open!Inode
  BY DEF Open!Nothing, Open!Inode, Open!End
<1>3. \A rr, ee : Open!End(rr, ee)[2] = rr /\ Open!End(rr, ee)[3] = ee
  BY DEF Open!End
<1>4. /\ Open!Nothing \in Open!Types /\ Open!Inode \in Open!Types
      /\ \A rr \in Pipes, ee \in Open!Ends : Open!End(rr, ee) \in Open!Types
  BY DEF Open!Types
<1>5. \A x \in Open!Types : x # Open!Nothing /\ x # Open!Inode =>
       \E rr \in Pipes, ee \in Open!Ends : x = Open!End(rr, ee)
  BY DEF Open!Types
<1> QED BY <1>1, <1>2, <1>3, <1>4, <1>5

LEMMA EndsDiffer ==
  ASSUME NEW rr, NEW ee, NEW r2, NEW e2, Open!End(rr, ee) = Open!End(r2, e2)
  PROVE  rr = r2 /\ ee = e2
BY DEF Open!End

\* The count of a file when it gets a pointer, and when it loses one.
LEMMA PointerGained ==
  ASSUME Open!IInv, NEW f \in FileTable, NEW h, Pointer[h] = NoFile, IsSet(Pointer', Pointer, h, f),
         ref' = [ref EXCEPT ![f] = ref[f] + 1]
  PROVE  \A g \in FileTable : ref'[g] = Count(Pointer', g)
<1>1. /\ Counts(Pointer) /\ NoFile \notin FileTable /\ ref \in [FileTable -> Nat]
      /\ \A g \in FileTable : ref[g] = Count(Pointer, g)
  BY PlacesStay, RefsCounted, OpenConstants DEF Open!IInv, Open!TypeOK, Refs
<1> SUFFICES ASSUME NEW g \in FileTable PROVE ref'[g] = Count(Pointer', g)
  OBVIOUS
<1>2. CASE g = f
  <2>1. Count(Pointer', g) = Count(Pointer, g) + 1
    BY <1>1, <1>2, CountGains
  <2> QED BY <1>1, <1>2, <2>1
<1>3. CASE g # f
  <2>1. Count(Pointer', g) = Count(Pointer, g)
    BY <1>1, <1>3, CountKept
  <2> QED BY <1>1, <1>3, <2>1
<1> QED BY <1>2, <1>3

LEMMA PointerLost ==
  ASSUME Open!IInv, NEW f \in FileTable, NEW h, Pointer[h] = f, IsSet(Pointer', Pointer, h, NoFile),
         ref' = [ref EXCEPT ![f] = ref[f] - 1]
  PROVE  \A g \in FileTable : ref'[g] = Count(Pointer', g)
<1>1. /\ Counts(Pointer) /\ NoFile \notin FileTable /\ ref \in [FileTable -> Nat]
      /\ \A g \in FileTable : ref[g] = Count(Pointer, g)
  BY PlacesStay, RefsCounted, OpenConstants DEF Open!IInv, Open!TypeOK, Refs
<1> SUFFICES ASSUME NEW g \in FileTable PROVE ref'[g] = Count(Pointer', g)
  OBVIOUS
<1>2. CASE g = f
  <2>1. Count(Pointer', g) = Count(Pointer, g) - 1
    BY <1>1, <1>2, CountLoses
  <2> QED BY <1>1, <1>2, <2>1
<1>3. CASE g # f
  <2>1. Count(Pointer', g) = Count(Pointer, g)
    BY <1>1, <1>3, CountKept
  <2> QED BY <1>1, <1>3, <2>1
<1> QED BY <1>2, <1>3

LEMMA PointersStay ==
  ASSUME Open!IInv, UNCHANGED <<ref, ofile, rf, wf>>
  PROVE  \A g \in FileTable : ref'[g] = Count(Pointer', g)
<1>1. Pointer' = Pointer
  BY SamePlaces
<1>2. \A g \in FileTable : ref[g] = Count(Pointer, g)
  BY RefsCounted DEF Open!IInv, Refs
<1> QED BY <1>1, <1>2

LEMMA RefsAfter ==
  ASSUME \A g \in FileTable : ref'[g] = Count(Pointer', g), iref' = Count(Uses', TRUE), ~panicked'
  PROVE  Open!RefsExact'
<1>1. Refs'
  BY DEF Refs
<1> QED BY <1>1, RefsCounted

\* A step that neither opens nor closes ends of pipes.
LEMMA EndsStay ==
  ASSUME Open!IInv, UNCHANGED open,
         \A rr, ee : Count(Thing', Open!End(rr, ee)) = Count(Thing, Open!End(rr, ee))
  PROVE  Open!EndsExact'
<1>1. PipeEnds
  BY EndsCounted DEF Open!IInv
<1>2. PipeEnds'
  BY <1>1 DEF PipeEnds
<1> QED BY <1>2, EndsCounted

\* A reference to the inode more, or less, or as many.
LEMMA SetCwd ==
  ASSUME NEW q \in Procs, NEW x \in BOOLEAN,
         \A f \in FileTable : (type'[f] = Open!Inode) <=> (type[f] = Open!Inode),
         HasCwd(q)' <=> x,
         \A p \in Procs : p # q => (HasCwd(p)' <=> HasCwd(p)),
         \A p \in Procs : Opening(p)' <=> Opening(p)
  PROVE  IsSet(Uses', Uses, OfCwd(q), x)
<1>1. DOMAIN Uses = Users /\ DOMAIN Uses' = Users /\ OfCwd(q) \in Users
  BY PlacesStay, UserOf
<1>2. ASSUME NEW h \in Users PROVE Uses'[h] = IF h = OfCwd(q) THEN x ELSE Uses[h]
  <2>1. ASSUME NEW f \in FileTable PROVE Uses'[OfFile(f)] = Uses[OfFile(f)] /\ OfFile(f) # OfCwd(q)
    <3>1. (type'[f] = Open!Inode) = (type[f] = Open!Inode)
      OBVIOUS
    <3> QED BY <3>1, UserOf, UserOfPrime, OtherPlaces
  <2>2. ASSUME NEW p \in Procs, p # q PROVE Uses'[OfCwd(p)] = Uses[OfCwd(p)] /\ OfCwd(p) # OfCwd(q)
    <3>1. HasCwd(p)' = HasCwd(p)
      BY <2>2 DEF HasCwd
    <3> QED BY <2>2, <3>1, UserOf, UserOfPrime DEF OfCwd
  <2>3. ASSUME NEW p \in Procs PROVE Uses'[OfCall(p)] = Uses[OfCall(p)] /\ OfCall(p) # OfCwd(q)
    <3>1. Opening(p)' = Opening(p)
      BY DEF Opening
    <3> QED BY <3>1, UserOf, UserOfPrime, OtherPlaces
  <2>4. Uses'[OfCwd(q)] = x
    <3>1. HasCwd(q)' = x
      BY DEF HasCwd
    <3> QED BY <3>1, UserOfPrime
  <2> QED BY <2>1, <2>2, <2>3, <2>4, UserCases
<1> QED BY <1>1, <1>2 DEF IsSet

LEMMA SetCall ==
  ASSUME NEW q \in Procs, NEW x \in BOOLEAN,
         \A f \in FileTable : (type'[f] = Open!Inode) <=> (type[f] = Open!Inode),
         Opening(q)' <=> x,
         \A p \in Procs : HasCwd(p)' <=> HasCwd(p),
         \A p \in Procs : p # q => (Opening(p)' <=> Opening(p))
  PROVE  IsSet(Uses', Uses, OfCall(q), x)
<1>1. DOMAIN Uses = Users /\ DOMAIN Uses' = Users /\ OfCall(q) \in Users
  BY PlacesStay, UserOf
<1>2. ASSUME NEW h \in Users PROVE Uses'[h] = IF h = OfCall(q) THEN x ELSE Uses[h]
  <2>1. ASSUME NEW f \in FileTable PROVE Uses'[OfFile(f)] = Uses[OfFile(f)] /\ OfFile(f) # OfCall(q)
    <3>1. (type'[f] = Open!Inode) = (type[f] = Open!Inode)
      OBVIOUS
    <3> QED BY <3>1, UserOf, UserOfPrime, OtherPlaces
  <2>2. ASSUME NEW p \in Procs, p # q PROVE Uses'[OfCall(p)] = Uses[OfCall(p)] /\ OfCall(p) # OfCall(q)
    <3>1. Opening(p)' = Opening(p)
      BY <2>2 DEF Opening
    <3> QED BY <2>2, <3>1, UserOf, UserOfPrime DEF OfCall
  <2>3. ASSUME NEW p \in Procs PROVE Uses'[OfCwd(p)] = Uses[OfCwd(p)] /\ OfCwd(p) # OfCall(q)
    <3>1. HasCwd(p)' = HasCwd(p)
      BY DEF HasCwd
    <3> QED BY <3>1, UserOf, UserOfPrime, OtherPlaces
  <2>4. Uses'[OfCall(q)] = x
    <3>1. Opening(q)' = x
      BY DEF Opening
    <3> QED BY <3>1, UserOfPrime
  <2> QED BY <2>1, <2>2, <2>3, <2>4, UserCases
<1> QED BY <1>1, <1>2 DEF IsSet

\* The file and the call exchange the reference.
LEMMA SwapUses ==
  ASSUME NEW f \in FileTable, NEW q \in Procs,
         (type'[f] = Open!Inode) <=> Opening(q), Opening(q)' <=> (type[f] = Open!Inode),
         \A g \in FileTable : g # f => type'[g] = type[g],
         \A p \in Procs : HasCwd(p)' <=> HasCwd(p),
         \A p \in Procs : p # q => (Opening(p)' <=> Opening(p))
  PROVE  IsSwap(Uses', Uses, OfFile(f), OfCall(q))
<1>1. /\ DOMAIN Uses = Users /\ DOMAIN Uses' = Users /\ OfCall(q) \in Users /\ OfFile(f) \in Users
  BY PlacesStay, UserOf
<1>2. ASSUME NEW h \in Users, h # OfFile(f), h # OfCall(q) PROVE Uses'[h] = Uses[h]
  <2>1. ASSUME NEW g \in FileTable, g # f PROVE Uses'[OfFile(g)] = Uses[OfFile(g)]
    <3>1. (type'[g] = Open!Inode) = (type[g] = Open!Inode)
      BY <2>1
    <3> QED BY <3>1, UserOf, UserOfPrime
  <2>2. ASSUME NEW p \in Procs, p # q PROVE Uses'[OfCall(p)] = Uses[OfCall(p)]
    <3>1. Opening(p)' = Opening(p)
      BY <2>2 DEF Opening
    <3> QED BY <3>1, UserOf, UserOfPrime
  <2>3. ASSUME NEW p \in Procs PROVE Uses'[OfCwd(p)] = Uses[OfCwd(p)]
    <3>1. HasCwd(p)' = HasCwd(p)
      BY DEF HasCwd
    <3> QED BY <3>1, UserOf, UserOfPrime
  <2> QED BY <1>2, <2>1, <2>2, <2>3, UserCases
<1>3. Uses'[OfFile(f)] = Uses[OfCall(q)]
  <2>1. (type'[f] = Open!Inode) = Opening(q)
    BY DEF Opening
  <2> QED BY <2>1, UserOf, UserOfPrime
<1>4. Uses'[OfCall(q)] = Uses[OfFile(f)]
  <2>1. Opening(q)' = (type[f] = Open!Inode)
    BY DEF Opening
  <2> QED BY <2>1, UserOf, UserOfPrime
<1> QED BY <1>1, <1>2, <1>3, <1>4 DEF IsSwap

\* The count of the references to the inode after a step.
LEMMA InodeCount == Open!IInv => Counts(Uses) /\ iref = Count(Uses, TRUE) /\ iref \in Nat
BY PlacesStay, RefsCounted DEF Open!IInv, Open!TypeOK, Refs

LEMMA UseGained ==
  ASSUME Open!IInv, NEW h, IsSet(Uses', Uses, h, TRUE), Uses[h] # TRUE, iref' = iref + 1
  PROVE  iref' = Count(Uses', TRUE)
<1>1. Counts(Uses) /\ iref = Count(Uses, TRUE)
  BY InodeCount
<1>2. Count(Uses', TRUE) = Count(Uses, TRUE) + 1
  BY <1>1, CountGains, Zenon
<1> QED BY <1>1, <1>2

LEMMA UseLost ==
  ASSUME Open!IInv, NEW h, IsSet(Uses', Uses, h, FALSE), Uses[h] = TRUE, iref' = iref - 1
  PROVE  iref' = Count(Uses', TRUE) /\ iref' \in Nat
<1>1. Counts(Uses) /\ iref = Count(Uses, TRUE) /\ iref \in Nat /\ h \in DOMAIN Uses
  BY InodeCount DEF IsSet
<1>2. Count(Uses', TRUE) = Count(Uses, TRUE) - 1
  <2>1. FALSE # TRUE
    OBVIOUS
  <2> QED BY <1>1, <2>1, CountLoses, Zenon
<1>3. Count(Uses, TRUE) > 0
  BY <1>1, CountSome, Zenon
<1> DEFINE was == Count(Uses, TRUE)  is == Count(Uses', TRUE)
<1>4. iref = was /\ is = was - 1 /\ was > 0 /\ iref \in Nat
  BY <1>1, <1>2, <1>3
<1> HIDE DEF was, is
<1>5. iref' = is /\ iref' \in Nat
  BY <1>4
<1> QED BY <1>5 DEF is

LEMMA UsesSwapped ==
  ASSUME Open!IInv, NEW h, NEW k, IsSwap(Uses', Uses, h, k), UNCHANGED iref
  PROVE  iref' = Count(Uses', TRUE)
<1>1. Counts(Uses) /\ iref = Count(Uses, TRUE)
  BY InodeCount
<1>2. Count(Uses', TRUE) = Count(Uses, TRUE)
  BY <1>1, SwapCounts, Zenon
<1> QED BY <1>1, <1>2

LEMMA UsesStay ==
  ASSUME Open!IInv, Uses' = Uses, UNCHANGED iref
  PROVE  iref' = Count(Uses', TRUE)
BY InodeCount
-----------------------------------------------------------------------------
LEMMA LowestIs ==
  ASSUME NEW S \in SUBSET Nat, S # {}
  PROVE  Open!Lowest(S) \in S /\ \A x \in S : Open!Lowest(S) <= x
<1>1. \E fd \in S : \A other \in S : fd <= other
  BY Least
<1> QED BY <1>1 DEF Open!Lowest

LEMMA LowestFree ==
  ASSUME NEW p, Open!FreeFds(p) # {}
  PROVE  /\ Open!Lowest(Open!FreeFds(p)) \in Open!Descriptors
         /\ ofile[p][Open!Lowest(Open!FreeFds(p))] = NoFile
<1>1. Open!FreeFds(p) \in SUBSET Nat
  BY OpenConstants DEF Open!FreeFds, Open!Descriptors
<1>2. Open!Lowest(Open!FreeFds(p)) \in Open!FreeFds(p)
  BY <1>1, LowestIs
<1> QED BY <1>2 DEF Open!FreeFds

LEMMA FiledupIs ==
  ASSUME NEW f, ref[f] \in Nat, ref[f] > 0, Open!Filedup(f)
  PROVE  ref' = [ref EXCEPT ![f] = ref[f] + 1] /\ panicked' = FALSE
<1>1. ~(ref[f] < 1)
  OBVIOUS
<1>2. panicked' = (ref[f] < 1) /\ ref' = [ref EXCEPT ![f] = ref[f] + 1]
  BY DEF Open!Filedup
<1>3. (ref[f] < 1) = FALSE
  BY <1>1
<1>4. panicked' = FALSE
  BY <1>2, <1>3, Zenon
<1> QED BY <1>2, <1>4

LEMMA DupKeeps ==
  ASSUME Open!IInv, NEW p \in Procs, Open!Dup(p)
  PROVE  Open!IInv'
<1> USE DEF Open!At, Open!local
<1>1. /\ Open!TypeOK /\ Open!CallInv /\ Open!FreshInv /\ Open!ForkInv /\ Open!DescriptorsSound /\ Apart
  BY FilesApart DEF Open!IInv
<1>2. PICK fd \in Open!OpenFds(p) :
        /\ filePc[p] = "user" /\ procState[p] = "LIVE" /\ Open!FreeFds(p) # {}
        /\ ofile' = [ofile EXCEPT ![p][Open!Lowest(Open!FreeFds(p))] = ofile[p][fd]]
        /\ Open!Filedup(ofile[p][fd])
        /\ UNCHANGED <<type, procState, open, iref, filePc, next, forked, rf, wf, closed>>
  BY DEF Open!Dup
<1> DEFINE f == ofile[p][fd]  gd == Open!Lowest(Open!FreeFds(p))
<1>3. /\ f \in FileTable /\ fd \in Open!Descriptors /\ f # NoFile /\ ref[f] \in Nat /\ ref[f] > 0
      /\ gd \in Open!Descriptors /\ ofile[p][gd] = NoFile
  <2>1. fd \in Open!Descriptors /\ f # NoFile
    BY DEF Open!OpenFds, Open!FreeFds
  <2>2. f \in FileTable /\ ref[f] \in Nat /\ ref[f] > 0
    BY <1>1, <2>1 DEF Open!TypeOK, Apart
  <2> QED BY <1>2, <2>1, <2>2, LowestFree
<1>4. /\ ofile' = [ofile EXCEPT ![p][gd] = f] /\ Open!Filedup(f)
      /\ UNCHANGED <<type, procState, open, iref, filePc, next, forked, rf, wf, closed>>
  BY <1>2
<1> HIDE DEF f, gd
<1>13. ref' = [ref EXCEPT ![f] = ref[f] + 1] /\ panicked' = FALSE
  BY <1>3, <1>4, FiledupIs
<1>5. Open!TypeOK'
  <2>1. ref' \in [FileTable -> Nat] /\ ofile' \in [Procs -> [Open!Descriptors -> FileTable \cup {NoFile}]]
    BY <1>1, <1>3, <1>4, <1>13 DEF Open!TypeOK
  <2> QED BY <1>1, <1>2, <1>4, <1>13, <2>1 DEF Open!TypeOK
<1>6. Open!RefsExact' /\ Open!EndsExact'
  <2>1. IsSet(Pointer', Pointer, Fd(p, gd), f) /\ Pointer[Fd(p, gd)] = NoFile
    BY <1>1, <1>2, <1>3, <1>4, <1>13, SetFd, PlaceOf
  <2>2. \A g \in FileTable : ref'[g] = Count(Pointer', g)
    BY <1>3, <1>4, <1>13, <2>1, PointerGained
  <2>3. Uses' = Uses /\ Thing' = Thing
    BY <1>2, SamePlaces
  <2>4. iref' = Count(Uses', TRUE)
    BY <1>2, <2>3, UsesStay
  <2> QED BY <1>2, <1>4, <1>13, <2>2, <2>3, <2>4, RefsAfter, EndsStay
<1>7. Open!DescriptorsSound'
  BY <1>1, <1>2, <1>3, <1>4, <1>13 DEF Open!DescriptorsSound, Open!OpenFds, Open!FreeFds, Open!TypeOK, f
<1>8. Open!CallInv'
  BY <1>1, <1>2, <1>4, <1>13 DEF Open!CallInv, Open!OpenFds, Open!FreeFds, Open!TypeOK
<1>9. Open!FreshInv'
  <2>1. \A q \in Procs : rf[q] # f /\ wf[q] # f
    BY <1>1, <1>3 DEF Apart, f
  <2> QED BY <1>1, <1>2, <1>3, <1>4, <1>13, <2>1 DEF Open!FreshInv, Open!TypeOK
<1>10. Open!ForkInv'
  BY <1>1, <1>2, <1>4, <1>13, OpenConstants DEF Open!ForkInv, Open!TypeOK
<1> QED BY <1>5, <1>6, <1>7, <1>8, <1>9, <1>10 DEF Open!IInv

LEMMA OpenKeeps ==
  ASSUME Open!IInv, NEW p \in Procs, Open!Open(p)
  PROVE  Open!IInv'
<1> USE DEF Open!At, Open!Goto, Open!local
<1>1. /\ Open!TypeOK /\ Open!CallInv /\ Open!FreshInv /\ Open!ForkInv /\ Open!DescriptorsSound
      /\ iref \in Nat /\ ~panicked
  BY DEF Open!IInv, Open!TypeOK, Open!RefsExact
<1>2. /\ filePc[p] = "user" /\ procState[p] = "LIVE" /\ closed[p] = Open!Nothing
      /\ iref' = iref + 1 /\ filePc' = [filePc EXCEPT ![p] = "open"]
      /\ UNCHANGED <<ref, type, ofile, procState, open, next, forked, rf, wf, closed, panicked>>
  BY <1>1 DEF Open!Open, Open!CallInv
<1>3. Open!TypeOK'
  BY <1>1, <1>2 DEF Open!TypeOK, Open!Pcs
<1>4. Open!RefsExact' /\ Open!EndsExact'
  <2>1. \A q \in Procs : HasCwd(q)' <=> HasCwd(q)
    BY <1>1, <1>2 DEF HasCwd, Open!TypeOK
  <2>2. ~Opening(p) /\ Opening(p)' /\ \A q \in Procs : q # p => (Opening(q)' <=> Opening(q))
    BY <1>1, <1>2, KindsApart DEF Opening, Open!TypeOK
  <2>3. IsSet(Uses', Uses, OfCall(p), TRUE)
    BY <1>2, <2>1, <2>2, SetCall
  <2>4. Uses[OfCall(p)] # TRUE
    BY <2>2, UserOf
  <2>5. iref' = Count(Uses', TRUE)
    BY <1>2, <2>3, <2>4, UseGained
  <2>6. Thing' = Thing
    BY <1>2, SamePlaces
  <2> QED BY <1>1, <1>2, <2>5, <2>6, PointersStay, RefsAfter, EndsStay
<1>5. Open!DescriptorsSound'
  BY <1>1, <1>2 DEF Open!DescriptorsSound, Open!OpenFds, Open!FreeFds
<1>6. Open!CallInv'
  BY <1>1, <1>2 DEF Open!CallInv, Open!OpenFds, Open!FreeFds, Open!TypeOK
<1>7. Open!FreshInv' /\ Open!ForkInv'
  BY <1>1, <1>2 DEF Open!FreshInv, Open!ForkInv, Open!TypeOK
<1> QED BY <1>3, <1>4, <1>5, <1>6, <1>7 DEF Open!IInv

LEMMA ExitCwdKeeps ==
  ASSUME Open!IInv, NEW p \in Procs, Open!ExitCwd(p)
  PROVE  Open!IInv'
<1> USE DEF Open!At, Open!Goto, Open!local
<1>1. /\ Open!TypeOK /\ Open!CallInv /\ Open!FreshInv /\ Open!ForkInv /\ Open!DescriptorsSound
      /\ iref \in Nat /\ ~panicked
  BY DEF Open!IInv, Open!TypeOK, Open!RefsExact
<1>2. /\ filePc[p] = "exit" /\ procState[p] = "LIVE" /\ Open!OpenFds(p) = {}
      /\ iref' = iref - 1 /\ filePc' = [filePc EXCEPT ![p] = "exit_end"]
      /\ UNCHANGED <<ref, type, ofile, procState, open, next, forked, rf, wf, closed, panicked>>
  BY <1>1 DEF Open!ExitCwd
<1>3. IsSet(Uses', Uses, OfCwd(p), FALSE) /\ Uses[OfCwd(p)] = TRUE
  <2>1. HasCwd(p) /\ ~HasCwd(p)' /\ \A q \in Procs : q # p => (HasCwd(q)' <=> HasCwd(q))
    BY <1>1, <1>2 DEF HasCwd, Open!TypeOK
  <2>2. \A q \in Procs : Opening(q)' <=> Opening(q)
    BY <1>1, <1>2 DEF Opening, Open!TypeOK
  <2>3. IsSet(Uses', Uses, OfCwd(p), FALSE)
    BY <1>2, <2>1, <2>2, SetCwd
  <2> QED BY <2>1, <2>3, UserOf DEF HasCwd
<1>4. iref' = Count(Uses', TRUE) /\ iref' \in Nat
  BY <1>2, <1>3, UseLost
<1>5. Open!TypeOK'
  BY <1>1, <1>2, <1>4 DEF Open!TypeOK, Open!Pcs
<1>6. Open!RefsExact' /\ Open!EndsExact'
  <2>1. Thing' = Thing
    BY <1>2, SamePlaces
  <2> QED BY <1>1, <1>2, <1>4, <2>1, PointersStay, RefsAfter, EndsStay
<1>7. Open!DescriptorsSound'
  BY <1>1, <1>2 DEF Open!DescriptorsSound, Open!OpenFds, Open!FreeFds
<1>8. Open!CallInv'
  BY <1>1, <1>2 DEF Open!CallInv, Open!OpenFds, Open!FreeFds, Open!TypeOK
<1>9. Open!FreshInv' /\ Open!ForkInv'
  BY <1>1, <1>2 DEF Open!FreshInv, Open!ForkInv, Open!TypeOK
<1> QED BY <1>5, <1>6, <1>7, <1>8, <1>9 DEF Open!IInv

LEMMA ForkDoneKeeps ==
  ASSUME Open!IInv, NEW p \in Procs, Open!ForkDone(p)
  PROVE  Open!IInv'
<1> USE DEF Open!At, Open!Goto, Open!local
<1>1. /\ Open!TypeOK /\ Open!CallInv /\ Open!FreshInv /\ Open!ForkInv /\ Open!DescriptorsSound
      /\ iref \in Nat /\ ~panicked
  BY DEF Open!IInv, Open!TypeOK, Open!RefsExact
<1>0. PICK c : c = forked[p]
  OBVIOUS
<1>2. /\ filePc[p] = "fork_files" /\ procState[p] = "LIVE" /\ iref' = iref + 1
      /\ procState' = [procState EXCEPT ![c] = "LIVE"]
      /\ forked' = [forked EXCEPT ![p] = NoProc]
      /\ next' = [next EXCEPT ![p] = 0] /\ filePc' = [filePc EXCEPT ![p] = "user"]
      /\ UNCHANGED <<ref, type, ofile, open, rf, wf, closed, panicked>>
  BY <1>0, <1>1 DEF Open!ForkDone
<1>3. /\ c \in Procs /\ c # NoProc /\ procState[c] = "EMBRYO" /\ filePc[c] = "user" /\ c # p
      /\ \A q \in Procs : forked[q] = c => q = p
  BY <1>0, <1>1, <1>2, OpenConstants DEF Open!TypeOK, Open!CallInv, Open!ForkInv
<1>4. IsSet(Uses', Uses, OfCwd(c), TRUE) /\ Uses[OfCwd(c)] # TRUE
  <2>1. ~HasCwd(c) /\ HasCwd(c)' /\ \A q \in Procs : q # c => (HasCwd(q)' <=> HasCwd(q))
    <3>1. /\ procState'[c] = "LIVE" /\ filePc'[c] = "user" /\ filePc'[p] = "user"
          /\ \A q \in Procs : q # c => procState'[q] = procState[q]
          /\ \A q \in Procs : q # p => filePc'[q] = filePc[q]
      BY <1>1, <1>2, <1>3 DEF Open!TypeOK
    <3> QED BY <1>2, <1>3, <3>1 DEF HasCwd
  <2>2. \A q \in Procs : Opening(q)' <=> Opening(q)
    BY <1>1, <1>2 DEF Opening, Open!TypeOK
  <2>3. IsSet(Uses', Uses, OfCwd(c), TRUE)
    BY <1>2, <1>3, <2>1, <2>2, SetCwd
  <2> QED BY <1>3, <2>1, <2>3, UserOf
<1>5. iref' = Count(Uses', TRUE)
  BY <1>2, <1>4, UseGained
<1>6. Open!TypeOK'
  BY <1>1, <1>2, <1>3, OpenConstants DEF Open!TypeOK, Open!Pcs
<1>7. Open!RefsExact' /\ Open!EndsExact'
  <2>1. Thing' = Thing
    BY <1>2, SamePlaces
  <2> QED BY <1>1, <1>2, <1>5, <2>1, PointersStay, RefsAfter, EndsStay
<1>8. Open!DescriptorsSound'
  BY <1>1, <1>2, <1>3 DEF Open!DescriptorsSound, Open!OpenFds, Open!FreeFds, Open!TypeOK
<1>9. Open!CallInv'
  BY <1>1, <1>2, <1>3 DEF Open!CallInv, Open!OpenFds, Open!FreeFds, Open!TypeOK
<1>10. Open!FreshInv' /\ Open!ForkInv'
  BY <1>1, <1>2, <1>3, OpenConstants DEF Open!FreshInv, Open!ForkInv, Open!TypeOK
<1> QED BY <1>6, <1>7, <1>8, <1>9, <1>10 DEF Open!IInv

LEMMA ForkFileKeeps ==
  ASSUME Open!IInv, NEW p \in Procs, Open!ForkFile(p)
  PROVE  Open!IInv'
<1> USE DEF Open!At, Open!local
<1>1. /\ Open!TypeOK /\ Open!CallInv /\ Open!FreshInv /\ Open!ForkInv /\ Open!DescriptorsSound /\ Apart
  BY FilesApart DEF Open!IInv
<1> DEFINE c == forked[p]  fd == Open!Lowest(Open!ToCopy(p))  f == ofile[p][fd]
<1>2. /\ filePc[p] = "fork_files" /\ procState[p] = "LIVE" /\ Open!ToCopy(p) # {}
      /\ Open!Filedup(f) /\ ofile' = [ofile EXCEPT ![c][fd] = f] /\ next' = [next EXCEPT ![p] = fd + 1]
      /\ UNCHANGED <<type, procState, open, iref, filePc, forked, rf, wf, closed>>
  BY DEF Open!ForkFile
<1>3. fd \in Open!ToCopy(p)
  <2>1. Open!ToCopy(p) \in SUBSET Nat
    BY OpenConstants DEF Open!ToCopy, Open!OpenFds, Open!Descriptors
  <2> QED BY <1>2, <2>1, LowestIs
<1>4. /\ fd \in Open!Descriptors /\ fd >= next[p] /\ fd + 1 \in 0 .. NOFILE /\ fd + 1 > next[p] /\ fd \in Nat
      /\ f \in FileTable /\ f # NoFile /\ ref[f] \in Nat /\ ref[f] > 0
  BY <1>1, <1>3, OpenConstants DEF Open!ToCopy, Open!OpenFds, Open!FreeFds, Open!Descriptors, Open!TypeOK, Apart
<1>5. /\ c \in Procs /\ c # NoProc /\ procState[c] = "EMBRYO" /\ c # p /\ ofile[c][fd] = NoFile
      /\ \A q \in Procs : forked[q] = c => q = p
  BY <1>1, <1>2, <1>4, OpenConstants DEF Open!TypeOK, Open!CallInv, Open!ForkInv
<1> HIDE DEF fd, f, c
<1>6. ref' = [ref EXCEPT ![f] = ref[f] + 1] /\ panicked' = FALSE
  BY <1>2, <1>4, FiledupIs
<1>7. Open!TypeOK'
  <2>1. ref' \in [FileTable -> Nat] /\ ofile' \in [Procs -> [Open!Descriptors -> FileTable \cup {NoFile}]]
        /\ next' \in [Procs -> 0 .. NOFILE]
    BY <1>1, <1>2, <1>4, <1>5, <1>6 DEF Open!TypeOK
  <2> QED BY <1>1, <1>2, <1>6, <2>1 DEF Open!TypeOK
<1>8. Open!RefsExact' /\ Open!EndsExact'
  <2>1. IsSet(Pointer', Pointer, Fd(c, fd), f) /\ Pointer[Fd(c, fd)] = NoFile
    BY <1>1, <1>2, <1>4, <1>5, SetFd, PlaceOf
  <2>2. \A g \in FileTable : ref'[g] = Count(Pointer', g)
    BY <1>4, <1>6, <2>1, PointerGained
  <2>3. Uses' = Uses /\ Thing' = Thing
    BY <1>2, SamePlaces
  <2>4. iref' = Count(Uses', TRUE)
    BY <1>2, <2>3, UsesStay
  <2> QED BY <1>2, <1>6, <2>2, <2>3, <2>4, RefsAfter, EndsStay
<1>9. Open!DescriptorsSound'
  <2>1. type[f] # Open!Nothing
    BY <1>1, <1>3, <1>4 DEF f, Open!DescriptorsSound, Open!ToCopy
  <2>2. \A q \in Procs : procState[q] \in {"UNUSED", "ZOMBIE"} => q # c
    BY <1>5
  <2> QED BY <1>1, <1>2, <1>4, <1>5, <2>1, <2>2 DEF Open!DescriptorsSound, Open!OpenFds, Open!FreeFds, Open!TypeOK
<1>10. Open!CallInv'
  <2>1. filePc[c] = "user"
    BY <1>1, <1>5 DEF Open!CallInv
  <2> QED BY <1>1, <1>2, <1>4, <1>5, <2>1 DEF Open!CallInv, Open!OpenFds, Open!FreeFds, Open!TypeOK
<1>11. Open!FreshInv'
  <2>1. \A q \in Procs : rf[q] # f /\ wf[q] # f
    BY <1>1, <1>4 DEF Apart, f
  <2> QED BY <1>1, <1>2, <1>4, <1>6, <2>1 DEF Open!FreshInv, Open!TypeOK
<1>12. Open!ForkInv'
  <2>1. \A gd \in Open!Descriptors : gd >= fd + 1 => gd # fd /\ gd >= next[p]
    BY <1>1, <1>4, OpenConstants DEF Open!Descriptors, Open!TypeOK
  <2> QED BY <1>1, <1>2, <1>4, <1>5, <2>1, OpenConstants DEF Open!ForkInv, Open!TypeOK, c
<1> QED BY <1>7, <1>8, <1>9, <1>10, <1>11, <1>12 DEF Open!IInv
-----------------------------------------------------------------------------
\* fileclose, when something refers to the file.
Closes(p, f, returns, drops) ==
  /\ ref[f] > 0 /\ ref' = [ref EXCEPT ![f] = ref[f] - 1] /\ panicked' = FALSE
  /\ \/ /\ ref[f] # 1 /\ UNCHANGED <<type, closed>>
        /\ filePc' = [filePc EXCEPT ![p] = returns]
     \/ /\ ref[f] = 1 /\ type' = [type EXCEPT ![f] = Open!Nothing] /\ closed' = [closed EXCEPT ![p] = type[f]]
        /\ filePc' = [filePc EXCEPT ![p] = IF type[f] = Open!Nothing THEN returns ELSE drops]

LEMMA FilecloseIs ==
  ASSUME NEW p, NEW f, ref[f] \in Nat, ref[f] > 0, NEW returns, NEW drops, Open!Fileclose(p, f, returns, drops)
  PROVE  Closes(p, f, returns, drops)
<1>1. panicked' = FALSE
  <2>1. ~(ref[f] < 1)
    OBVIOUS
  <2>2. (ref[f] < 1) = FALSE
    BY <2>1
  <2>3. panicked' = (ref[f] < 1)
    BY DEF Open!Fileclose
  <2> QED BY <2>2, <2>3, Zenon
<1>2. CASE ref[f] > 1
  BY <1>1, <1>2 DEF Open!Fileclose, Open!Goto, Closes
<1>3. CASE ~(ref[f] > 1)
  <2>1. ref[f] = 1 /\ ref[f] - 1 = 0
    BY <1>3
  <2> QED BY <1>1, <1>3, <2>1 DEF Open!Fileclose, Open!Goto, Closes
<1> QED BY <1>2, <1>3

\* The file and the call exchange what is to be dropped.
LEMMA SwapThings ==
  ASSUME Open!TypeOK, NEW f \in FileTable, NEW p \in Procs,
         type' = [type EXCEPT ![f] = closed[p]], closed' = [closed EXCEPT ![p] = type[f]]
  PROVE  IsSwap(Thing', Thing, OfFile(f), OfCall(p))
<1>1. /\ DOMAIN Thing = Things /\ DOMAIN Thing' = Things /\ OfFile(f) \in Things /\ OfCall(p) \in Things
      /\ Thing[OfFile(f)] = type[f] /\ Thing[OfCall(p)] = closed[p]
  BY PlacesStay, PlaceOf
<1>2. Thing'[OfFile(f)] = closed[p] /\ Thing'[OfCall(p)] = type[f]
  BY <1>1 DEF Things, Thing, OfFile, OfCall, Open!TypeOK
<1>3. ASSUME NEW h \in Things, h # OfFile(f), h # OfCall(p) PROVE Thing'[h] = Thing[h]
  BY <1>3 DEF Things, Thing, OfFile, OfCall, Open!TypeOK
<1> QED BY <1>1, <1>2, <1>3 DEF IsSwap

LEMMA FilecloseCounts ==
  ASSUME Open!IInv, NEW p \in Procs, NEW f \in FileTable,
         NEW h, Pointer[h] = f, IsSet(Pointer', Pointer, h, NoFile),
         NEW returns \in {"user", "exit", "bad_wf"}, NEW drops \in {"drop", "exit_drop", "drop_rf"},
         Closes(p, f, returns, drops),
         closed[p] = Open!Nothing, filePc[p] \in {"user", "exit", "bad_rf", "bad_wf"},
         UNCHANGED <<procState, open, iref>>
  PROVE  Open!RefsExact' /\ Open!EndsExact'
<1>1. Open!TypeOK /\ ref[f] \in Nat
  BY DEF Open!IInv, Open!TypeOK
<1>2. \A g \in FileTable : ref'[g] = Count(Pointer', g)
  BY PointerLost DEF Closes
<1>3. CASE ref[f] # 1
  <2>1. UNCHANGED <<type, closed>> /\ filePc' = [filePc EXCEPT ![p] = returns]
    BY <1>3 DEF Closes
  <2>2. \A q \in Procs : (HasCwd(q)' <=> HasCwd(q)) /\ (Opening(q)' <=> Opening(q))
    BY <1>1, <2>1 DEF HasCwd, Opening, Open!TypeOK
  <2>3. Uses' = Uses
    BY <2>1, <2>2, SameUses
  <2>4. Thing' = Thing
    BY <2>1, SamePlaces
  <2>5. iref' = Count(Uses', TRUE)
    BY <2>3, UsesStay
  <2>6. ~panicked'
    BY DEF Closes
  <2> QED BY <1>2, <2>4, <2>5, <2>6, RefsAfter, EndsStay
<1>4. CASE ref[f] = 1
  <2>1. /\ type' = [type EXCEPT ![f] = Open!Nothing] /\ closed' = [closed EXCEPT ![p] = type[f]]
        /\ filePc' = [filePc EXCEPT ![p] = IF type[f] = Open!Nothing THEN returns ELSE drops]
    BY <1>4 DEF Closes
  <2>2. IsSwap(Thing', Thing, OfFile(f), OfCall(p))
    BY <1>1, <2>1, SwapThings
  <2>3. \A x : Count(Thing', x) = Count(Thing, x)
    BY <2>2, PlacesStay, SwapCounts
  <2>4. IsSwap(Uses', Uses, OfFile(f), OfCall(p))
    <3>1. \A q \in Procs : HasCwd(q)' <=> HasCwd(q)
      BY <1>1, <2>1 DEF HasCwd, Open!TypeOK
    <3>2. \A q \in Procs : q # p => (Opening(q)' <=> Opening(q))
      BY <1>1, <2>1 DEF Opening, Open!TypeOK
    <3>3. ~Opening(p) /\ type'[f] # Open!Inode
      BY <1>1, <2>1, KindsApart DEF Opening, Open!TypeOK
    <3>4. Opening(p)' <=> type[f] = Open!Inode
      BY <1>1, <2>1, KindsApart DEF Opening, Open!TypeOK
    <3>5. \A g \in FileTable : g # f => type'[g] = type[g]
      BY <1>1, <2>1 DEF Open!TypeOK
    <3> QED BY <3>1, <3>2, <3>3, <3>4, <3>5, SwapUses
  <2>5. iref' = Count(Uses', TRUE)
    BY <2>4, UsesSwapped
  <2>6. ~panicked'
    BY DEF Closes
  <2> QED BY <1>2, <2>3, <2>5, <2>6, RefsAfter, EndsStay
<1> QED BY <1>3, <1>4

LEMMA FilecloseTypes ==
  ASSUME Open!IInv, NEW p \in Procs, NEW f \in FileTable, NEW returns \in Open!Pcs, NEW drops \in Open!Pcs,
         Closes(p, f, returns, drops)
  PROVE  /\ ref' \in [FileTable -> Nat] /\ type' \in [FileTable -> Open!Types]
         /\ closed' \in [Procs -> Open!Types] /\ filePc' \in [Procs -> Open!Pcs] /\ panicked' \in BOOLEAN
<1>1. Open!TypeOK
  BY DEF Open!IInv
<1>2. ref' \in [FileTable -> Nat]
  <2>1. ref[f] - 1 \in Nat
    BY <1>1 DEF Closes, Open!TypeOK
  <2> QED BY <1>1, <2>1 DEF Closes, Open!TypeOK
<1>3. type' \in [FileTable -> Open!Types] /\ closed' \in [Procs -> Open!Types]
  <2>1. Open!Nothing \in Open!Types /\ type[f] \in Open!Types
    BY <1>1, KindsApart DEF Open!TypeOK
  <2>2. \/ UNCHANGED <<type, closed>>
        \/ type' = [type EXCEPT ![f] = Open!Nothing] /\ closed' = [closed EXCEPT ![p] = type[f]]
    BY DEF Closes
  <2> QED BY <1>1, <2>1, <2>2 DEF Open!TypeOK
<1>4. filePc' \in [Procs -> Open!Pcs] /\ panicked' \in BOOLEAN
  <2>1. \E at \in Open!Pcs : filePc' = [filePc EXCEPT ![p] = at]
    BY DEF Closes
  <2>2. panicked' = FALSE
    BY DEF Closes
  <2> QED BY <1>1, <2>1, <2>2 DEF Open!TypeOK
<1> QED BY <1>2, <1>3, <1>4

LEMMA CloseFdKeeps ==
  ASSUME Open!IInv, NEW p \in Procs, NEW fd \in Open!OpenFds(p),
         NEW at \in {"user", "exit"}, NEW drops \in {"drop", "exit_drop"},
         at = "user" <=> drops = "drop", filePc[p] = at, procState[p] = "LIVE",
         Open!Fileclose(p, ofile[p][fd], at, drops),
         ofile' = [ofile EXCEPT ![p][fd] = NoFile],
         UNCHANGED <<procState, open, iref, next, forked, rf, wf>>
  PROVE  Open!IInv'
<1> DEFINE f == ofile[p][fd]
<1>1. /\ Open!TypeOK /\ Open!CallInv /\ Open!FreshInv /\ Open!ForkInv /\ Open!DescriptorsSound /\ Apart
  BY FilesApart DEF Open!IInv
<1>2. /\ f \in FileTable /\ fd \in Open!Descriptors /\ f # NoFile /\ ref[f] \in Nat /\ ref[f] > 0
  BY <1>1 DEF Open!OpenFds, Open!FreeFds, Open!TypeOK, Apart
<1>3. Closes(p, f, at, drops)
  BY <1>2, FilecloseIs
<1>4. closed[p] = Open!Nothing /\ at \in Open!Pcs /\ drops \in Open!Pcs
  BY <1>1 DEF Open!CallInv, Open!Pcs
<1>5. Pointer[Fd(p, fd)] = f /\ IsSet(Pointer', Pointer, Fd(p, fd), NoFile)
  BY <1>1, <1>2, SetFd, PlaceOf
<1>6. /\ \A q \in Procs : rf[q] # f /\ wf[q] # f
      /\ ref[f] = 1 => \A q \in Procs, gd \in Open!Descriptors : ofile[q][gd] = f => q = p /\ gd = fd
  BY <1>1, <1>2 DEF Apart
<1> HIDE DEF f
<1>7. Open!RefsExact' /\ Open!EndsExact'
  <2>1. at \in {"user", "exit", "bad_wf"} /\ drops \in {"drop", "exit_drop", "drop_rf"}
        /\ filePc[p] \in {"user", "exit", "bad_rf", "bad_wf"}
    OBVIOUS
  <2> QED BY <1>2, <1>3, <1>4, <1>5, <2>1, FilecloseCounts
<1>8. Open!TypeOK'
  <2>1. ofile' \in [Procs -> [Open!Descriptors -> FileTable \cup {NoFile}]]
    BY <1>1, <1>2 DEF Open!TypeOK
  <2>2. /\ ref' \in [FileTable -> Nat] /\ type' \in [FileTable -> Open!Types]
        /\ closed' \in [Procs -> Open!Types] /\ filePc' \in [Procs -> Open!Pcs] /\ panicked' \in BOOLEAN
    BY <1>2, <1>3, <1>4, FilecloseTypes
  <2> QED BY <1>1, <2>1, <2>2 DEF Open!TypeOK
<1>9. Open!DescriptorsSound'
  <2>1. ASSUME NEW q \in Procs, NEW gd \in Open!Descriptors, ofile'[q][gd] # NoFile
        PROVE  type'[ofile'[q][gd]] # Open!Nothing
    <3>1. ofile'[q][gd] = ofile[q][gd] /\ ~(q = p /\ gd = fd) /\ ofile[q][gd] \in FileTable
      BY <1>1, <1>2, <2>1 DEF Open!TypeOK
    <3>2. type[ofile[q][gd]] # Open!Nothing
      BY <1>1, <2>1, <3>1 DEF Open!DescriptorsSound, Open!OpenFds, Open!FreeFds
    <3> QED BY <1>1, <1>3, <1>6, <3>1, <3>2 DEF Closes, Open!TypeOK
  <2>2. ASSUME NEW q \in Procs, procState[q] \in {"UNUSED", "ZOMBIE"}, NEW gd \in Open!Descriptors
        PROVE  ofile'[q][gd] = NoFile
    BY <1>1, <1>2, <2>2 DEF Open!DescriptorsSound, Open!OpenFds, Open!FreeFds, Open!TypeOK
  <2> QED BY <2>1, <2>2 DEF Open!DescriptorsSound, Open!OpenFds, Open!FreeFds
<1>10. Open!CallInv'
  <2>1. \A q \in Procs : /\ q # p => filePc'[q] = filePc[q] /\ closed'[q] = closed[q] /\ ofile'[q] = ofile[q]
                         /\ procState'[q] = procState[q] /\ rf'[q] = rf[q] /\ wf'[q] = wf[q]
                         /\ forked'[q] = forked[q] /\ next'[q] = next[q]
    BY <1>1, <1>3 DEF Closes, Open!TypeOK
  <2>2. \/ filePc'[p] = at /\ closed'[p] = Open!Nothing
        \/ filePc'[p] = drops /\ closed'[p] # Open!Nothing
    BY <1>1, <1>3, <1>4 DEF Closes, Open!TypeOK
  <2> QED BY <1>1, <1>4, <2>1, <2>2 DEF Open!CallInv, Open!OpenFds, Open!FreeFds
<1>11. Open!FreshInv'
  <2>1. ASSUME NEW g \in FileTable, ref'[g] = 0 PROVE type'[g] = Open!Nothing
    BY <1>1, <1>2, <1>3, <2>1 DEF Closes, Open!TypeOK, Open!FreshInv
  <2>2. \A g \in FileTable : g # f => ref'[g] = ref[g] /\ type'[g] = type[g]
    BY <1>1, <1>3 DEF Closes, Open!TypeOK
  <2>3. filePc'[p] \notin {"bad_rf", "pipe_page"} /\ rf[p] = NoFile /\ \A q \in Procs : q # p => filePc'[q] = filePc[q]
    BY <1>1, <1>3 DEF Closes, Open!TypeOK, Open!CallInv
  <2>4. \A q \in Procs : /\ rf[q] # NoFile => rf[q] \in FileTable
                         /\ wf[q] # NoFile => wf[q] \in FileTable
                         /\ filePc[q] = "pipe_page" => wf[q] # NoFile
    BY <1>1 DEF Open!TypeOK, Open!CallInv
  <2> QED BY <1>1, <1>6, <2>1, <2>2, <2>3, <2>4 DEF Open!FreshInv
<1>12. Open!ForkInv'
  BY <1>1, <1>2, OpenConstants DEF Open!ForkInv, Open!TypeOK
<1> QED BY <1>7, <1>8, <1>9, <1>10, <1>11, <1>12 DEF Open!IInv
LEMMA CloseKeeps ==
  ASSUME Open!IInv, NEW p \in Procs, Open!Close(p)
  PROVE  Open!IInv'
<1>1. PICK fd \in Open!OpenFds(p) :
        /\ Open!At(p, "user") /\ ofile' = [ofile EXCEPT ![p][fd] = NoFile]
        /\ Open!Fileclose(p, ofile[p][fd], "user", "drop")
        /\ UNCHANGED <<procState, open, iref, next, forked, rf, wf>>
  BY DEF Open!Close
<1>2. filePc[p] = "user" /\ procState[p] = "LIVE"
  BY <1>1 DEF Open!At
<1> QED BY <1>1, <1>2, CloseFdKeeps

LEMMA ExitCloseKeeps ==
  ASSUME Open!IInv, NEW p \in Procs, Open!ExitClose(p)
  PROVE  Open!IInv'
<1>1. PICK fd : fd = Open!Lowest(Open!OpenFds(p))
  OBVIOUS
<1>2. fd \in Open!OpenFds(p)
  <2>1. Open!OpenFds(p) \in SUBSET Nat /\ Open!OpenFds(p) # {}
    BY OpenConstants DEF Open!OpenFds, Open!Descriptors, Open!ExitClose
  <2> QED BY <1>1, <2>1, LowestIs
<1>3. /\ filePc[p] = "exit" /\ procState[p] = "LIVE" /\ ofile' = [ofile EXCEPT ![p][fd] = NoFile]
      /\ Open!Fileclose(p, ofile[p][fd], "exit", "exit_drop")
      /\ UNCHANGED <<procState, open, iref, next, forked, rf, wf>>
  BY <1>1 DEF Open!ExitClose, Open!At
<1> QED BY <1>2, <1>3, CloseFdKeeps

LEMMA BadRfKeeps ==
  ASSUME Open!IInv, NEW p \in Procs, Open!BadRf(p)
  PROVE  Open!IInv'
<1>1. /\ Open!TypeOK /\ Open!CallInv /\ Open!FreshInv /\ Open!ForkInv /\ Open!DescriptorsSound /\ Apart
  BY FilesApart DEF Open!IInv
<1>2. PICK f : f = rf[p]
  OBVIOUS
<1>3. PICK returns : returns = IF wf[p] = NoFile THEN "user" ELSE "bad_wf"
  OBVIOUS
<1>4. /\ filePc[p] = "bad_rf" /\ procState[p] = "LIVE" /\ Open!Fileclose(p, f, returns, "drop_rf")
      /\ rf' = [rf EXCEPT ![p] = NoFile]
      /\ UNCHANGED <<ofile, procState, open, iref, next, forked, wf>>
  BY <1>2, <1>3 DEF Open!BadRf, Open!At
<1>5. /\ f \in FileTable /\ f # NoFile /\ ref[f] \in Nat /\ ref[f] = 1 /\ closed[p] = Open!Nothing
      /\ wf[p] = NoFile => type[f] = Open!Nothing
  BY <1>1, <1>2, <1>4 DEF Open!TypeOK, Open!CallInv, Open!FreshInv
<1>6. Closes(p, f, returns, "drop_rf")
  BY <1>4, <1>5, FilecloseIs
<1>7. returns \in {"user", "exit", "bad_wf"} /\ returns \in Open!Pcs /\ "drop_rf" \in Open!Pcs
  BY <1>3 DEF Open!Pcs
<1>8. Pointer[Rf(p)] = f /\ IsSet(Pointer', Pointer, Rf(p), NoFile)
  BY <1>1, <1>2, <1>4, SetRf, PlaceOf
<1>9. /\ \A q \in Procs : (q # p => rf[q] # f) /\ wf[q] # f
      /\ \A q \in Procs, gd \in Open!Descriptors : ofile[q][gd] # f
  BY <1>1, <1>2, <1>5 DEF Apart
<1>10. Open!RefsExact' /\ Open!EndsExact'
  <2>1. /\ "drop_rf" \in {"drop", "exit_drop", "drop_rf"} /\ filePc[p] \in {"user", "exit", "bad_rf", "bad_wf"}
        /\ UNCHANGED <<procState, open, iref>>
    BY <1>4
  <2> QED BY <1>5, <1>6, <1>7, <1>8, <2>1, FilecloseCounts
<1>11. Open!TypeOK'
  <2>1. rf' \in [Procs -> FileTable \cup {NoFile}]
    BY <1>1, <1>4 DEF Open!TypeOK
  <2>2. /\ ref' \in [FileTable -> Nat] /\ type' \in [FileTable -> Open!Types]
        /\ closed' \in [Procs -> Open!Types] /\ filePc' \in [Procs -> Open!Pcs] /\ panicked' \in BOOLEAN
    BY <1>5, <1>6, <1>7, FilecloseTypes
  <2> QED BY <1>1, <1>4, <2>1, <2>2 DEF Open!TypeOK
<1>12. /\ type' = [type EXCEPT ![f] = Open!Nothing] /\ closed' = [closed EXCEPT ![p] = type[f]]
       /\ filePc' = [filePc EXCEPT ![p] = IF type[f] = Open!Nothing THEN returns ELSE "drop_rf"]
       /\ ref' = [ref EXCEPT ![f] = ref[f] - 1]
  BY <1>5, <1>6 DEF Closes
<1>13. Open!DescriptorsSound'
  <2>1. ASSUME NEW q \in Procs, NEW gd \in Open!Descriptors, ofile[q][gd] # NoFile
        PROVE  type'[ofile[q][gd]] # Open!Nothing
    <3>1. ofile[q][gd] \in FileTable /\ ofile[q][gd] # f
      BY <1>1, <1>9, <2>1 DEF Open!TypeOK
    <3>2. type[ofile[q][gd]] # Open!Nothing
      BY <1>1, <2>1 DEF Open!DescriptorsSound, Open!OpenFds, Open!FreeFds
    <3> QED BY <1>1, <1>12, <3>1, <3>2 DEF Open!TypeOK
  <2> QED BY <1>1, <1>4, <2>1 DEF Open!DescriptorsSound, Open!OpenFds, Open!FreeFds
<1>14. Open!CallInv'
  <2>1. \A q \in Procs : q # p => filePc'[q] = filePc[q] /\ closed'[q] = closed[q] /\ rf'[q] = rf[q]
    BY <1>1, <1>4, <1>12 DEF Open!TypeOK
  <2>2. rf'[p] = NoFile
    BY <1>1, <1>4 DEF Open!TypeOK
  <2>3. \/ filePc'[p] = "user" /\ closed'[p] = Open!Nothing /\ wf[p] = NoFile
        \/ filePc'[p] = "bad_wf" /\ closed'[p] = Open!Nothing /\ wf[p] # NoFile
        \/ filePc'[p] = "drop_rf" /\ closed'[p] # Open!Nothing /\ wf[p] # NoFile
    BY <1>1, <1>3, <1>5, <1>12 DEF Open!TypeOK
  <2> QED BY <1>1, <1>4, <2>1, <2>2, <2>3 DEF Open!CallInv, Open!OpenFds, Open!FreeFds
<1>15. Open!FreshInv'
  <2>1. ASSUME NEW g \in FileTable, ref'[g] = 0 PROVE type'[g] = Open!Nothing
    BY <1>1, <1>5, <1>12, <2>1 DEF Open!TypeOK, Open!FreshInv
  <2>2. \A g \in FileTable : g # f => ref'[g] = ref[g] /\ type'[g] = type[g]
    BY <1>1, <1>12 DEF Open!TypeOK
  <2>3. /\ rf'[p] = NoFile /\ filePc'[p] # "pipe_page"
        /\ \A q \in Procs : q # p => filePc'[q] = filePc[q] /\ rf'[q] = rf[q]
    BY <1>1, <1>3, <1>4, <1>12 DEF Open!TypeOK
  <2>4. \A q \in Procs : /\ rf[q] # NoFile => rf[q] \in FileTable
                         /\ wf[q] # NoFile => wf[q] \in FileTable
                         /\ filePc[q] = "pipe_page" => wf[q] # NoFile
    BY <1>1 DEF Open!TypeOK, Open!CallInv
  <2> QED BY <1>1, <1>4, <1>9, <2>1, <2>2, <2>3, <2>4 DEF Open!FreshInv
<1>16. Open!ForkInv'
  BY <1>1, <1>4 DEF Open!ForkInv
<1> QED BY <1>10, <1>11, <1>13, <1>14, <1>15, <1>16 DEF Open!IInv

LEMMA BadWfKeeps ==
  ASSUME Open!IInv, NEW p \in Procs, Open!BadWf(p)
  PROVE  Open!IInv'
<1>1. /\ Open!TypeOK /\ Open!CallInv /\ Open!FreshInv /\ Open!ForkInv /\ Open!DescriptorsSound /\ Apart
  BY FilesApart DEF Open!IInv
<1>2. PICK f : f = wf[p]
  OBVIOUS
<1>4. /\ filePc[p] = "bad_wf" /\ procState[p] = "LIVE" /\ Open!Fileclose(p, f, "user", "drop")
      /\ wf' = [wf EXCEPT ![p] = NoFile]
      /\ UNCHANGED <<ofile, procState, open, iref, next, forked, rf>>
  BY <1>2 DEF Open!BadWf, Open!At
<1>5. /\ f \in FileTable /\ f # NoFile /\ ref[f] \in Nat /\ ref[f] = 1 /\ closed[p] = Open!Nothing
      /\ rf[p] = NoFile
  BY <1>1, <1>2, <1>4 DEF Open!TypeOK, Open!CallInv, Open!FreshInv
<1>6. Closes(p, f, "user", "drop")
  BY <1>4, <1>5, FilecloseIs
<1>7. "user" \in {"user", "exit", "bad_wf"} /\ "user" \in Open!Pcs /\ "drop" \in Open!Pcs
  BY DEF Open!Pcs
<1>8. Pointer[Wf(p)] = f /\ IsSet(Pointer', Pointer, Wf(p), NoFile)
  BY <1>1, <1>2, <1>4, SetWf, PlaceOf
<1>9. /\ \A q \in Procs : (q # p => wf[q] # f) /\ rf[q] # f
      /\ \A q \in Procs, gd \in Open!Descriptors : ofile[q][gd] # f
  BY <1>1, <1>2, <1>5 DEF Apart
<1>10. Open!RefsExact' /\ Open!EndsExact'
  <2>1. /\ "drop" \in {"drop", "exit_drop", "drop_rf"} /\ filePc[p] \in {"user", "exit", "bad_rf", "bad_wf"}
        /\ UNCHANGED <<procState, open, iref>>
    BY <1>4
  <2> QED BY <1>5, <1>6, <1>7, <1>8, <2>1, FilecloseCounts
<1>11. Open!TypeOK'
  <2>1. wf' \in [Procs -> FileTable \cup {NoFile}]
    BY <1>1, <1>4 DEF Open!TypeOK
  <2>2. /\ ref' \in [FileTable -> Nat] /\ type' \in [FileTable -> Open!Types]
        /\ closed' \in [Procs -> Open!Types] /\ filePc' \in [Procs -> Open!Pcs] /\ panicked' \in BOOLEAN
    BY <1>5, <1>6, <1>7, FilecloseTypes
  <2> QED BY <1>1, <1>4, <2>1, <2>2 DEF Open!TypeOK
<1>12. /\ type' = [type EXCEPT ![f] = Open!Nothing] /\ closed' = [closed EXCEPT ![p] = type[f]]
       /\ filePc' = [filePc EXCEPT ![p] = IF type[f] = Open!Nothing THEN "user" ELSE "drop"]
       /\ ref' = [ref EXCEPT ![f] = ref[f] - 1]
  BY <1>5, <1>6 DEF Closes
<1>13. Open!DescriptorsSound'
  <2>1. ASSUME NEW q \in Procs, NEW gd \in Open!Descriptors, ofile[q][gd] # NoFile
        PROVE  type'[ofile[q][gd]] # Open!Nothing
    <3>1. ofile[q][gd] \in FileTable /\ ofile[q][gd] # f
      BY <1>1, <1>9, <2>1 DEF Open!TypeOK
    <3>2. type[ofile[q][gd]] # Open!Nothing
      BY <1>1, <2>1 DEF Open!DescriptorsSound, Open!OpenFds, Open!FreeFds
    <3> QED BY <1>1, <1>12, <3>1, <3>2 DEF Open!TypeOK
  <2> QED BY <1>1, <1>4, <2>1 DEF Open!DescriptorsSound, Open!OpenFds, Open!FreeFds
<1>14. Open!CallInv'
  <2>1. \A q \in Procs : q # p => filePc'[q] = filePc[q] /\ closed'[q] = closed[q] /\ wf'[q] = wf[q]
    BY <1>1, <1>4, <1>12 DEF Open!TypeOK
  <2>2. wf'[p] = NoFile
    BY <1>1, <1>4 DEF Open!TypeOK
  <2>3. \/ filePc'[p] = "user" /\ closed'[p] = Open!Nothing
        \/ filePc'[p] = "drop" /\ closed'[p] # Open!Nothing
    BY <1>1, <1>12 DEF Open!TypeOK
  <2> QED BY <1>1, <1>4, <1>5, <2>1, <2>2, <2>3 DEF Open!CallInv, Open!OpenFds, Open!FreeFds
<1>15. Open!FreshInv'
  <2>1. ASSUME NEW g \in FileTable, ref'[g] = 0 PROVE type'[g] = Open!Nothing
    BY <1>1, <1>5, <1>12, <2>1 DEF Open!TypeOK, Open!FreshInv
  <2>2. \A g \in FileTable : g # f => ref'[g] = ref[g] /\ type'[g] = type[g]
    BY <1>1, <1>12 DEF Open!TypeOK
  <2>3. /\ wf'[p] = NoFile /\ filePc'[p] # "pipe_page"
        /\ \A q \in Procs : q # p => filePc'[q] = filePc[q] /\ wf'[q] = wf[q]
    BY <1>1, <1>4, <1>12 DEF Open!TypeOK
  <2>4. \A q \in Procs : /\ rf[q] # NoFile => rf[q] \in FileTable
                         /\ wf[q] # NoFile => wf[q] \in FileTable
                         /\ filePc[q] = "pipe_page" => wf[q] # NoFile
    BY <1>1 DEF Open!TypeOK, Open!CallInv
  <2> QED BY <1>1, <1>4, <1>5, <1>9, <2>1, <2>2, <2>3, <2>4 DEF Open!FreshInv
<1>16. Open!ForkInv'
  BY <1>1, <1>4 DEF Open!ForkInv
<1> QED BY <1>10, <1>11, <1>13, <1>14, <1>15, <1>16 DEF Open!IInv
-----------------------------------------------------------------------------
\* The count of an end of a pipe when another thing is set.
LEMMA EndKept ==
  ASSUME NEW g, NEW g2, Counts(g), NEW h, NEW y, IsSet(g2, g, h, y), NEW x, g[h] # x, y # x
  PROVE  Count(g2, x) = Count(g, x)
BY CountKept

LEMMA DropKeeps ==
  ASSUME Open!IInv, NEW p \in Procs, Open!Drop(p)
  PROVE  Open!IInv'
<1>1. /\ Open!TypeOK /\ Open!CallInv /\ Open!FreshInv /\ Open!ForkInv /\ Open!DescriptorsSound
      /\ iref \in Nat /\ ~panicked /\ PipeEnds
  BY EndsCounted DEF Open!IInv, Open!TypeOK, Open!RefsExact
<1>2. PICK t : t = closed[p]
  OBVIOUS
<1>3. /\ closed' = [closed EXCEPT ![p] = Open!Nothing] /\ Open!Dropped(t)
      /\ procState[p] = "LIVE"
      /\ UNCHANGED <<ref, type, ofile, procState, next, forked, rf, wf, panicked>>
  BY <1>2 DEF Open!Drop, Open!At
<1>4. \/ filePc[p] = "drop" /\ filePc' = [filePc EXCEPT ![p] = "user"]
      \/ filePc[p] = "drop_rf" /\ filePc' = [filePc EXCEPT ![p] = "bad_wf"]
      \/ filePc[p] = "exit_drop" /\ filePc' = [filePc EXCEPT ![p] = "exit"]
  BY DEF Open!Drop, Open!At, Open!Goto
<1>5. t \in Open!Types /\ t # Open!Nothing
  BY <1>1, <1>2, <1>4 DEF Open!TypeOK, Open!CallInv
<1>6. /\ IsSet(Thing', Thing, OfCall(p), Open!Nothing) /\ Thing[OfCall(p)] = t /\ Counts(Thing)
      /\ OfCall(p) \in DOMAIN Thing
  BY <1>1, <1>2, <1>3, SetClosed, PlaceOf, PlacesStay
<1>7. \A q \in Procs : (HasCwd(q)' <=> HasCwd(q)) /\ (q # p => (Opening(q)' <=> Opening(q)))
  BY <1>1, <1>3, <1>4 DEF HasCwd, Opening, Open!TypeOK
<1>8. (Opening(p) <=> t = Open!Inode) /\ ~Opening(p)'
  BY <1>1, <1>2, <1>3, <1>4, KindsApart DEF Opening, Open!TypeOK
<1>9. Open!RefsExact' /\ Open!EndsExact' /\ iref' \in Nat /\ open' \in [Pipes -> SUBSET Open!Ends]
  <2>1. CASE t = Open!Inode
    <3>1. iref' = iref - 1 /\ UNCHANGED open
      BY <1>3, <2>1 DEF Open!Dropped
    <3>2. IsSet(Uses', Uses, OfCall(p), FALSE)
      BY <1>3, <1>7, <1>8, SetCall
    <3>3. Uses[OfCall(p)] = TRUE
      <4>1. Opening(p) = TRUE
        BY <1>8, <2>1 DEF Opening
      <4> QED BY <4>1, UserOf
    <3>4. iref' = Count(Uses', TRUE) /\ iref' \in Nat
      BY <3>1, <3>2, <3>3, UseLost
    <3>5. ASSUME NEW rr, NEW ee PROVE Count(Thing', Open!End(rr, ee)) = Count(Thing, Open!End(rr, ee))
      BY <1>6, <2>1, KindsApart, EndKept
    <3> QED BY <1>1, <1>3, <3>1, <3>4, <3>5, PointersStay, RefsAfter, EndsStay DEF Open!TypeOK
  <2>2. CASE t # Open!Inode
    <3>1. PICK rr \in Pipes, ee \in Open!Ends : t = Open!End(rr, ee)
      BY <1>5, <2>2, KindsApart
    <3>2. open' = [open EXCEPT ![rr] = open[rr] \ {ee}] /\ UNCHANGED iref
      <4>1. t[2] = rr /\ t[3] = ee
        BY <3>1, KindsApart
      <4> QED BY <1>3, <2>2, <4>1 DEF Open!Dropped
    <3>3. Uses' = Uses
      BY <1>3, <1>7, <1>8, <2>2, SameUses
    <3>4. iref' = Count(Uses', TRUE)
      BY <3>2, <3>3, UsesStay
    <3>5. Count(Thing', t) = 0
      <4>1. Count(Thing', t) = Count(Thing, t) - 1
        BY <1>5, <1>6, CountLoses
      <4>2. Count(Thing, t) > 0
        BY <1>6, CountSome
      <4>3. Count(Thing, t) <= 1 /\ Count(Thing, t) \in Nat
        BY <1>1, <1>6, <3>1, CountFinite DEF PipeEnds
      <4> QED BY <4>1, <4>2, <4>3
    <3>6. ASSUME NEW r2 \in Pipes, NEW e2 \in Open!Ends, r2 # rr \/ e2 # ee
          PROVE  Count(Thing', Open!End(r2, e2)) = Count(Thing, Open!End(r2, e2))
      <4>1. Open!End(r2, e2) # t
        BY <3>1, <3>6, EndsDiffer
      <4> QED BY <1>6, <4>1, KindsApart, EndKept
    <3>7. ASSUME NEW r2 \in Pipes, NEW e2 \in Open!Ends
          PROVE  /\ e2 \in open'[r2] <=> Count(Thing', Open!End(r2, e2)) # 0
                 /\ Count(Thing', Open!End(r2, e2)) <= 1
      <4>1. CASE r2 = rr /\ e2 = ee
        BY <1>1, <3>1, <3>2, <3>5, <4>1 DEF Open!TypeOK
      <4>2. CASE r2 # rr \/ e2 # ee
        <5>1. e2 \in open'[r2] <=> e2 \in open[r2]
          BY <1>1, <3>2, <4>2 DEF Open!TypeOK
        <5> QED BY <1>1, <3>6, <4>2, <5>1 DEF PipeEnds
      <4> QED BY <4>1, <4>2
    <3>8. PipeEnds'
      BY <3>7 DEF PipeEnds
    <3> QED BY <1>1, <1>3, <3>1, <3>2, <3>4, <3>8, PointersStay, RefsAfter, EndsCounted DEF Open!TypeOK
  <2> QED BY <2>1, <2>2
<1>10. Open!TypeOK'
  <2>1. filePc' \in [Procs -> Open!Pcs] /\ closed' \in [Procs -> Open!Types]
    BY <1>1, <1>3, <1>4, KindsApart DEF Open!TypeOK, Open!Pcs
  <2> QED BY <1>1, <1>3, <1>9, <2>1 DEF Open!TypeOK
<1>11. Open!DescriptorsSound'
  BY <1>1, <1>3 DEF Open!DescriptorsSound, Open!OpenFds, Open!FreeFds
<1>12. Open!CallInv'
  <2>1. /\ closed'[p] = Open!Nothing
        /\ \A q \in Procs : q # p => filePc'[q] = filePc[q] /\ closed'[q] = closed[q]
    BY <1>1, <1>3, <1>4 DEF Open!TypeOK
  <2>2. \/ filePc[p] = "drop" /\ filePc'[p] = "user"
        \/ filePc[p] = "drop_rf" /\ filePc'[p] = "bad_wf"
        \/ filePc[p] = "exit_drop" /\ filePc'[p] = "exit"
    BY <1>1, <1>4 DEF Open!TypeOK
  <2> QED BY <1>1, <1>3, <2>1, <2>2 DEF Open!CallInv, Open!OpenFds, Open!FreeFds
<1>13. Open!FreshInv' /\ Open!ForkInv'
  BY <1>1, <1>3, <1>4 DEF Open!FreshInv, Open!ForkInv, Open!CallInv, Open!TypeOK
<1> QED BY <1>9, <1>10, <1>11, <1>12, <1>13 DEF Open!IInv

LEMMA OpenFileKeeps ==
  ASSUME Open!IInv, NEW p \in Procs, Open!OpenFile(p)
  PROVE  Open!IInv'
<1>1. /\ Open!TypeOK /\ Open!CallInv /\ Open!FreshInv /\ Open!ForkInv /\ Open!DescriptorsSound /\ ~panicked
  BY DEF Open!IInv, Open!RefsExact
<1>2. PICK fd : fd = Open!Lowest(Open!FreeFds(p))
  OBVIOUS
<1>3. PICK f \in FileTable :
        /\ filePc[p] = "open" /\ procState[p] = "LIVE" /\ Open!FreeFds(p) # {}
        /\ ref[f] = 0 /\ ref' = [ref EXCEPT ![f] = 1]
        /\ type' = [type EXCEPT ![f] = Open!Inode]
        /\ ofile' = [ofile EXCEPT ![p][fd] = f]
        /\ filePc' = [filePc EXCEPT ![p] = "user"]
        /\ UNCHANGED <<procState, open, iref, next, forked, rf, wf, closed, panicked>>
  BY <1>2 DEF Open!OpenFile, Open!At, Open!Goto, Open!Filealloc, Open!local
<1>4. /\ fd \in Open!Descriptors /\ ofile[p][fd] = NoFile /\ f # NoFile
      /\ type[f] = Open!Nothing /\ closed[p] = Open!Nothing
  BY <1>1, <1>2, <1>3, LowestFree, OpenConstants DEF Open!FreshInv, Open!CallInv
<1>5. \A h \in Pointers : Pointer[h] # f
  BY <1>3, FreeFile
<1>6. Open!RefsExact' /\ Open!EndsExact'
  <2>1. IsSet(Pointer', Pointer, Fd(p, fd), f) /\ Pointer[Fd(p, fd)] = NoFile
    BY <1>1, <1>3, <1>4, SetFd, PlaceOf
  <2>2. ref' = [ref EXCEPT ![f] = ref[f] + 1]
    BY <1>3
  <2>3. \A g \in FileTable : ref'[g] = Count(Pointer', g)
    BY <2>1, <2>2, PointerGained
  <2>4. IsSet(Thing', Thing, OfFile(f), Open!Inode) /\ Thing[OfFile(f)] = Open!Nothing
    BY <1>1, <1>3, <1>4, SetType, PlaceOf
  <2>5. ASSUME NEW rr, NEW ee PROVE Count(Thing', Open!End(rr, ee)) = Count(Thing, Open!End(rr, ee))
    BY <2>4, KindsApart, EndKept, PlacesStay
  <2>6. IsSwap(Uses', Uses, OfFile(f), OfCall(p))
    <3>1. Opening(p) /\ type'[f] = Open!Inode
      BY <1>1, <1>3 DEF Opening, Open!TypeOK
    <3>2. ~Opening(p)' /\ type[f] # Open!Inode
      BY <1>1, <1>3, <1>4, KindsApart DEF Opening, Open!TypeOK
    <3>3. \A g \in FileTable : g # f => type'[g] = type[g]
      BY <1>1, <1>3 DEF Open!TypeOK
    <3>4. \A q \in Procs : (HasCwd(q)' <=> HasCwd(q)) /\ (q # p => (Opening(q)' <=> Opening(q)))
      BY <1>1, <1>3 DEF HasCwd, Opening, Open!TypeOK
    <3> QED BY <3>1, <3>2, <3>3, <3>4, SwapUses
  <2>7. iref' = Count(Uses', TRUE)
    BY <1>3, <2>6, UsesSwapped
  <2> QED BY <1>1, <1>3, <2>3, <2>5, <2>7, RefsAfter, EndsStay
<1>7. Open!TypeOK'
  <2>1. ref' \in [FileTable -> Nat] /\ type' \in [FileTable -> Open!Types]
    BY <1>1, <1>3, KindsApart DEF Open!TypeOK
  <2>2. ofile' \in [Procs -> [Open!Descriptors -> FileTable \cup {NoFile}]] /\ filePc' \in [Procs -> Open!Pcs]
    BY <1>1, <1>3, <1>4 DEF Open!TypeOK, Open!Pcs
  <2> QED BY <1>1, <1>3, <2>1, <2>2 DEF Open!TypeOK
<1>8. Open!DescriptorsSound'
  <2>1. \A q \in Procs, gd \in Open!Descriptors : ofile'[q][gd] = IF q = p /\ gd = fd THEN f ELSE ofile[q][gd]
    BY <1>1, <1>3, <1>4 DEF Open!TypeOK
  <2>2. \A g \in FileTable : type[g] # Open!Nothing => type'[g] # Open!Nothing
    BY <1>1, <1>3, KindsApart DEF Open!TypeOK
  <2>3. type'[f] # Open!Nothing
    BY <1>1, <1>3, KindsApart DEF Open!TypeOK
  <2>4. \A q \in Procs, gd \in Open!Descriptors : ofile[q][gd] \in FileTable \cup {NoFile}
    BY <1>1 DEF Open!TypeOK
  <2> QED BY <1>1, <1>3, <2>1, <2>2, <2>3, <2>4 DEF Open!DescriptorsSound, Open!OpenFds, Open!FreeFds
<1>9. Open!CallInv'
  <2>1. filePc'[p] = "user" /\ \A q \in Procs : q # p => filePc'[q] = filePc[q] /\ ofile'[q] = ofile[q]
    BY <1>1, <1>3 DEF Open!TypeOK
  <2> QED BY <1>1, <1>3, <2>1 DEF Open!CallInv, Open!OpenFds, Open!FreeFds
<1>10. Open!FreshInv'
  <2>1. \A q \in Procs : rf[q] # f /\ wf[q] # f
    BY <1>5, PlaceOf
  <2>2. filePc'[p] = "user" /\ \A q \in Procs : q # p => filePc'[q] = filePc[q]
    BY <1>1, <1>3 DEF Open!TypeOK
  <2>3. /\ \A g \in FileTable : g # f => ref'[g] = ref[g] /\ type'[g] = type[g]
        /\ ref'[f] = 1
    BY <1>1, <1>3 DEF Open!TypeOK
  <2>4. \A q \in Procs : /\ rf[q] # NoFile => rf[q] \in FileTable
                         /\ wf[q] # NoFile => wf[q] \in FileTable
                         /\ filePc[q] = "pipe_page" => wf[q] # NoFile
    BY <1>1 DEF Open!TypeOK, Open!CallInv
  <2>5. rf[p] = NoFile
    BY <1>1, <1>3 DEF Open!CallInv
  <2> QED BY <1>1, <1>3, <2>1, <2>2, <2>3, <2>4, <2>5 DEF Open!FreshInv
<1>11. Open!ForkInv'
  BY <1>1, <1>3, <1>4, OpenConstants DEF Open!ForkInv, Open!TypeOK
<1> QED BY <1>6, <1>7, <1>8, <1>9, <1>10, <1>11 DEF Open!IInv

LEMMA OpenNoFileKeeps ==
  ASSUME Open!IInv, NEW p \in Procs, Open!OpenNoFile(p)
  PROVE  Open!IInv'
<1>1. /\ Open!TypeOK /\ Open!CallInv /\ Open!FreshInv /\ Open!ForkInv /\ Open!DescriptorsSound /\ ~panicked
  BY DEF Open!IInv, Open!RefsExact
<1>2. /\ filePc[p] = "open" /\ procState[p] = "LIVE"
      /\ closed' = [closed EXCEPT ![p] = Open!Inode] /\ filePc' = [filePc EXCEPT ![p] = "drop"]
      /\ UNCHANGED <<ref, type, ofile, procState, open, iref, next, forked, rf, wf, panicked>>
  BY DEF Open!OpenNoFile, Open!At, Open!Goto
<1>3. Open!RefsExact' /\ Open!EndsExact'
  <2>1. IsSet(Thing', Thing, OfCall(p), Open!Inode) /\ Thing[OfCall(p)] = Open!Nothing
    BY <1>1, <1>2, SetClosed, PlaceOf DEF Open!CallInv
  <2>2. ASSUME NEW rr, NEW ee PROVE Count(Thing', Open!End(rr, ee)) = Count(Thing, Open!End(rr, ee))
    BY <2>1, KindsApart, EndKept, PlacesStay
  <2>3. \A q \in Procs : (HasCwd(q)' <=> HasCwd(q)) /\ (Opening(q)' <=> Opening(q))
    BY <1>1, <1>2 DEF HasCwd, Opening, Open!TypeOK
  <2>4. Uses' = Uses
    BY <1>2, <2>3, SameUses
  <2>5. iref' = Count(Uses', TRUE)
    BY <1>2, <2>4, UsesStay
  <2> QED BY <1>1, <1>2, <2>2, <2>5, PointersStay, RefsAfter, EndsStay
<1>4. Open!TypeOK'
  BY <1>1, <1>2, KindsApart DEF Open!TypeOK, Open!Pcs
<1>5. Open!DescriptorsSound'
  BY <1>1, <1>2 DEF Open!DescriptorsSound, Open!OpenFds, Open!FreeFds
<1>6. Open!CallInv'
  BY <1>1, <1>2, KindsApart DEF Open!CallInv, Open!OpenFds, Open!FreeFds, Open!TypeOK
<1>7. Open!FreshInv' /\ Open!ForkInv'
  BY <1>1, <1>2 DEF Open!FreshInv, Open!ForkInv, Open!CallInv, Open!TypeOK
<1> QED BY <1>3, <1>4, <1>5, <1>6, <1>7 DEF Open!IInv
-----------------------------------------------------------------------------
\* An entry that filealloc has just given to the call of p.
Allocs(p, f) ==
  /\ f \in FileTable /\ ref[f] = 0 /\ ref' = [ref EXCEPT ![f] = 1]
  /\ procState[p] = "LIVE" /\ closed[p] = Open!Nothing
  /\ UNCHANGED <<type, ofile, procState, open, iref, next, forked, closed, panicked>>
  /\ \/ /\ filePc[p] = "open" /\ filePc' = [filePc EXCEPT ![p] = "open_bad"]
        /\ rf[p] = NoFile /\ rf' = [rf EXCEPT ![p] = f] /\ wf[p] = NoFile /\ UNCHANGED wf
     \/ /\ filePc[p] = "user" /\ filePc' = [filePc EXCEPT ![p] = "pipe_file"]
        /\ rf[p] = NoFile /\ rf' = [rf EXCEPT ![p] = f] /\ wf[p] = NoFile /\ UNCHANGED wf
     \/ /\ filePc[p] = "pipe_file" /\ filePc' = [filePc EXCEPT ![p] = "pipe_page"]
        /\ wf[p] = NoFile /\ wf' = [wf EXCEPT ![p] = f] /\ rf[p] # NoFile /\ UNCHANGED rf

LEMMA AllocKeeps ==
  ASSUME Open!IInv, NEW p \in Procs, NEW f, Allocs(p, f)
  PROVE  Open!IInv'
<1>1. /\ Open!TypeOK /\ Open!CallInv /\ Open!FreshInv /\ Open!ForkInv /\ Open!DescriptorsSound /\ ~panicked
  BY DEF Open!IInv, Open!RefsExact
<1>2. /\ f \in FileTable /\ f # NoFile /\ ref[f] = 0 /\ ref' = [ref EXCEPT ![f] = 1]
      /\ procState[p] = "LIVE" /\ closed[p] = Open!Nothing
      /\ UNCHANGED <<type, ofile, procState, open, iref, next, forked, closed, panicked>>
  BY OpenConstants DEF Allocs
<1>3. type[f] = Open!Nothing /\ \A h \in Pointers : Pointer[h] # f
  BY <1>2, FreeFile
<1>4. \E h : IsSet(Pointer', Pointer, h, f) /\ Pointer[h] = NoFile
  <2>1. CASE rf[p] = NoFile /\ rf' = [rf EXCEPT ![p] = f] /\ UNCHANGED wf
    <3>1. IsSet(Pointer', Pointer, Rf(p), f) /\ Pointer[Rf(p)] = NoFile
      BY <1>1, <1>2, <2>1, SetRf, PlaceOf
    <3> QED BY <3>1
  <2>2. CASE wf[p] = NoFile /\ wf' = [wf EXCEPT ![p] = f] /\ UNCHANGED rf
    <3>1. IsSet(Pointer', Pointer, Wf(p), f) /\ Pointer[Wf(p)] = NoFile
      BY <1>1, <1>2, <2>2, SetWf, PlaceOf
    <3> QED BY <3>1
  <2> QED BY <2>1, <2>2 DEF Allocs
<1>5. /\ \A q \in Procs : (HasCwd(q)' <=> HasCwd(q)) /\ (Opening(q)' <=> Opening(q))
  <2>1. \A q \in Procs : q # p => filePc'[q] = filePc[q]
    BY <1>1 DEF Allocs, Open!TypeOK
  <2>2. \/ filePc[p] = "open" /\ filePc'[p] = "open_bad"
        \/ filePc[p] = "user" /\ filePc'[p] = "pipe_file"
        \/ filePc[p] = "pipe_file" /\ filePc'[p] = "pipe_page"
    BY <1>1 DEF Allocs, Open!TypeOK
  <2> QED BY <1>2, <2>1, <2>2 DEF HasCwd, Opening
<1>6. Open!RefsExact' /\ Open!EndsExact'
  <2>1. ref' = [ref EXCEPT ![f] = ref[f] + 1]
    BY <1>2
  <2>2. \A g \in FileTable : ref'[g] = Count(Pointer', g)
    BY <1>2, <1>4, <2>1, PointerGained
  <2>3. Uses' = Uses /\ Thing' = Thing
    BY <1>2, <1>5, SameUses, SamePlaces
  <2>4. iref' = Count(Uses', TRUE)
    BY <1>2, <2>3, UsesStay
  <2> QED BY <1>1, <1>2, <2>2, <2>3, <2>4, RefsAfter, EndsStay
<1>7. Open!TypeOK'
  <2>1. ref' \in [FileTable -> Nat]
    BY <1>1, <1>2 DEF Open!TypeOK
  <2>2. filePc' \in [Procs -> Open!Pcs]
    <3>1. \E at \in Open!Pcs : filePc' = [filePc EXCEPT ![p] = at]
      BY DEF Allocs, Open!Pcs
    <3> QED BY <1>1, <3>1 DEF Open!TypeOK
  <2>3. rf' \in [Procs -> FileTable \cup {NoFile}] /\ wf' \in [Procs -> FileTable \cup {NoFile}]
    <3>1. /\ rf' = rf \/ rf' = [rf EXCEPT ![p] = f]
          /\ wf' = wf \/ wf' = [wf EXCEPT ![p] = f]
      BY DEF Allocs
    <3>2. /\ rf \in [Procs -> FileTable \cup {NoFile}]
          /\ wf \in [Procs -> FileTable \cup {NoFile}]
          /\ f \in FileTable
      BY <1>1, <1>2 DEF Open!TypeOK
    <3>3. rf' \in [Procs -> FileTable \cup {NoFile}]
      BY <3>1, <3>2
    <3>4. wf' \in [Procs -> FileTable \cup {NoFile}]
      BY <3>1, <3>2
    <3> QED BY <3>3, <3>4
  <2> QED BY <1>1, <1>2, <2>1, <2>2, <2>3 DEF Open!TypeOK
<1>8. Open!DescriptorsSound' /\ Open!ForkInv'
  BY <1>1, <1>2 DEF Open!DescriptorsSound, Open!OpenFds, Open!FreeFds, Open!ForkInv
<1>9. \A q \in Procs : q # p => rf'[q] = rf[q] /\ wf'[q] = wf[q] /\ filePc'[q] = filePc[q]
  BY <1>1 DEF Allocs, Open!TypeOK
<1>10. \/ filePc[p] = "open" /\ filePc'[p] = "open_bad" /\ rf'[p] = f /\ wf'[p] = NoFile
       \/ filePc[p] = "user" /\ filePc'[p] = "pipe_file" /\ rf'[p] = f /\ wf'[p] = NoFile
       \/ filePc[p] = "pipe_file" /\ filePc'[p] = "pipe_page" /\ rf'[p] = rf[p] /\ rf[p] # NoFile /\ wf'[p] = f
  BY <1>1 DEF Allocs, Open!TypeOK
<1>11. Open!CallInv'
  BY <1>1, <1>2, <1>9, <1>10 DEF Open!CallInv, Open!OpenFds, Open!FreeFds
<1>12. Open!FreshInv'
  <2>1. \A q \in Procs : rf[q] # f /\ wf[q] # f
    BY <1>3, PlaceOf
  <2>2. /\ \A g \in FileTable : g # f => ref'[g] = ref[g]
        /\ ref'[f] = 1
    BY <1>1, <1>2 DEF Open!TypeOK
  <2>3. \A q \in Procs : /\ rf[q] # NoFile => rf[q] \in FileTable
                         /\ wf[q] # NoFile => wf[q] \in FileTable
                         /\ filePc[q] = "pipe_page" => wf[q] # NoFile
    BY <1>1 DEF Open!TypeOK, Open!CallInv
  <2> QED BY <1>1, <1>2, <1>3, <1>9, <1>10, <2>1, <2>2, <2>3 DEF Open!FreshInv
<1> QED BY <1>6, <1>7, <1>8, <1>11, <1>12 DEF Open!IInv

LEMMA AllocSteps ==
  ASSUME Open!IInv, NEW p \in Procs, Open!OpenNoFd(p) \/ Open!PipeRead(p) \/ Open!PipeWrite(p)
  PROVE  Open!IInv'
<1>1. Open!TypeOK /\ Open!CallInv
  BY DEF Open!IInv
<1>2. CASE Open!OpenNoFd(p)
  <2>1. \E f \in FileTable : Allocs(p, f)
    BY <1>1, <1>2 DEF Open!OpenNoFd, Open!At, Open!Goto, Open!Filealloc, Open!CallInv, Allocs
  <2> QED BY <2>1, AllocKeeps
<1>3. CASE Open!PipeRead(p)
  <2>1. \E f \in FileTable : Allocs(p, f)
    BY <1>1, <1>3 DEF Open!PipeRead, Open!At, Open!Goto, Open!Filealloc, Open!CallInv, Allocs
  <2> QED BY <2>1, AllocKeeps
<1>4. CASE Open!PipeWrite(p)
  <2>1. \E f \in FileTable : Allocs(p, f)
    BY <1>1, <1>4 DEF Open!PipeWrite, Open!At, Open!Goto, Open!Filealloc, Open!CallInv, Allocs
  <2> QED BY <2>1, AllocKeeps
<1> QED BY <1>2, <1>3, <1>4

LEMMA OpenBadKeeps ==
  ASSUME Open!IInv, NEW p \in Procs, Open!OpenBad(p)
  PROVE  Open!IInv'
<1>1. /\ Open!TypeOK /\ Open!CallInv /\ Open!FreshInv /\ Open!ForkInv /\ Open!DescriptorsSound /\ Apart
  BY FilesApart DEF Open!IInv
<1>2. PICK f : f = rf[p]
  OBVIOUS
<1>3. /\ filePc[p] = "open_bad" /\ procState[p] = "LIVE"
      /\ ref' = [ref EXCEPT ![f] = 0] /\ rf' = [rf EXCEPT ![p] = NoFile]
      /\ closed' = [closed EXCEPT ![p] = Open!Inode] /\ filePc' = [filePc EXCEPT ![p] = "drop"]
      /\ UNCHANGED <<type, ofile, procState, open, iref, next, forked, wf>>
  BY <1>2 DEF Open!OpenBad, Open!At, Open!Goto
<1>4. /\ f \in FileTable /\ f # NoFile /\ ref[f] = 1 /\ type[f] = Open!Nothing
      /\ wf[p] = NoFile /\ closed[p] = Open!Nothing
  BY <1>1, <1>2, <1>3 DEF Open!TypeOK, Open!CallInv, Open!FreshInv
<1>5. panicked' = FALSE
  <2>1. ~(ref[f] < 1)
    BY <1>4
  <2>2. (ref[f] < 1) = FALSE
    BY <2>1
  <2>3. panicked' = (ref[f] < 1)
    BY <1>2 DEF Open!OpenBad
  <2> QED BY <2>2, <2>3, Zenon
<1>6. /\ \A q \in Procs : (q # p => rf[q] # f) /\ wf[q] # f
  BY <1>1, <1>2, <1>4 DEF Apart
<1>7. Open!RefsExact' /\ Open!EndsExact'
  <2>1. Pointer[Rf(p)] = f /\ IsSet(Pointer', Pointer, Rf(p), NoFile)
    BY <1>1, <1>2, <1>3, SetRf, PlaceOf
  <2>2. ref' = [ref EXCEPT ![f] = ref[f] - 1]
    BY <1>3, <1>4
  <2>3. \A g \in FileTable : ref'[g] = Count(Pointer', g)
    BY <1>4, <2>1, <2>2, PointerLost
  <2>4. IsSet(Thing', Thing, OfCall(p), Open!Inode) /\ Thing[OfCall(p)] = Open!Nothing
    BY <1>1, <1>3, <1>4, SetClosed, PlaceOf
  <2>5. ASSUME NEW rr, NEW ee PROVE Count(Thing', Open!End(rr, ee)) = Count(Thing, Open!End(rr, ee))
    BY <2>4, KindsApart, EndKept, PlacesStay
  <2>6. \A q \in Procs : (HasCwd(q)' <=> HasCwd(q)) /\ (Opening(q)' <=> Opening(q))
    BY <1>1, <1>3 DEF HasCwd, Opening, Open!TypeOK
  <2>7. Uses' = Uses
    BY <1>3, <2>6, SameUses
  <2>8. iref' = Count(Uses', TRUE)
    BY <1>3, <2>7, UsesStay
  <2>9. ~panicked'
    BY <1>5
  <2> QED BY <1>3, <2>3, <2>5, <2>8, <2>9, RefsAfter, EndsStay
<1>8. Open!TypeOK'
  <2>1. ref' \in [FileTable -> Nat] /\ filePc' \in [Procs -> Open!Pcs] /\ closed' \in [Procs -> Open!Types]
    BY <1>1, <1>3, KindsApart DEF Open!TypeOK, Open!Pcs
  <2>2. rf' \in [Procs -> FileTable \cup {NoFile}]
    BY <1>1, <1>3 DEF Open!TypeOK
  <2> QED BY <1>1, <1>3, <1>5, <2>1, <2>2 DEF Open!TypeOK
<1>9. Open!DescriptorsSound' /\ Open!ForkInv'
  BY <1>1, <1>3 DEF Open!DescriptorsSound, Open!OpenFds, Open!FreeFds, Open!ForkInv
<1>10. /\ \A q \in Procs : q # p => rf'[q] = rf[q] /\ closed'[q] = closed[q] /\ filePc'[q] = filePc[q]
       /\ rf'[p] = NoFile /\ closed'[p] = Open!Inode /\ filePc'[p] = "drop"
  BY <1>1, <1>3 DEF Open!TypeOK
<1>11. Open!CallInv'
  BY <1>1, <1>3, <1>4, <1>10, KindsApart DEF Open!CallInv, Open!OpenFds, Open!FreeFds
<1>12. Open!FreshInv'
  <2>1. \A g \in FileTable : g # f => ref'[g] = ref[g]
    BY <1>1, <1>3 DEF Open!TypeOK
  <2>2. \A q \in Procs : /\ rf[q] # NoFile => rf[q] \in FileTable
                         /\ wf[q] # NoFile => wf[q] \in FileTable
                         /\ filePc[q] = "pipe_page" => wf[q] # NoFile
    BY <1>1 DEF Open!TypeOK, Open!CallInv
  <2> QED BY <1>1, <1>3, <1>4, <1>6, <1>10, <2>1, <2>2 DEF Open!FreshInv
<1> QED BY <1>7, <1>8, <1>9, <1>11, <1>12 DEF Open!IInv
-----------------------------------------------------------------------------
\* Two free descriptors, when there are as many.
LEMMA TwoFree ==
  ASSUME NEW p, ~(Open!Cardinality(Open!FreeFds(p)) < 2),
         NEW fd0, fd0 = Open!Lowest(Open!FreeFds(p)),
         NEW fd1, fd1 = Open!Lowest(Open!FreeFds(p) \ {fd0})
  PROVE  /\ fd0 \in Open!FreeFds(p) /\ fd1 \in Open!FreeFds(p) /\ fd0 # fd1
<1> DEFINE S == Open!FreeFds(p)
<1>1. IsFiniteSet(S) /\ S \in SUBSET Nat
  <2>1. IsFiniteSet(Open!Descriptors)
    BY OpenConstants, FS_Interval DEF Open!Descriptors
  <2>2. S \in SUBSET Open!Descriptors /\ Open!Descriptors \in SUBSET Nat
    BY OpenConstants DEF Open!FreeFds, Open!Descriptors
  <2> HIDE DEF S
  <2> QED BY <2>1, <2>2, FS_Subset
<1>2. ~(Cardinality(S) < 2)
  BY OpenCardinality
<1> HIDE DEF S
<1>3. S # {} /\ \A x : S # {x}
  BY <1>1, <1>2, FS_EmptySet, FS_Singleton
<1>4. fd0 \in S
  BY <1>1, <1>3, LowestIs DEF S
<1>5. S \ {fd0} # {} /\ S \ {fd0} \in SUBSET Nat
  BY <1>1, <1>3, <1>4
<1>6. fd1 \in S \ {fd0}
  BY <1>5, LowestIs DEF S
<1> QED BY <1>4, <1>6 DEF S

\* The two ends of a new pipe.
LEMMA EndsOpened ==
  ASSUME Open!IInv, NEW rr \in Pipes, open[rr] = {}, NEW f0 \in FileTable, NEW f1 \in FileTable, f0 # f1,
         type[f0] = Open!Nothing, type[f1] = Open!Nothing,
         open' = [open EXCEPT ![rr] = Open!Ends], UNCHANGED closed,
         type' = [type EXCEPT ![f0] = Open!End(rr, "r"), ![f1] = Open!End(rr, "w")]
  PROVE  Open!EndsExact'
<1> DEFINE E0 == Open!End(rr, "r")  E1 == Open!End(rr, "w")
           T1 == [h \in Things |-> IF h = OfFile(f0) THEN E0 ELSE Thing[h]]
<1>1. Open!TypeOK /\ PipeEnds /\ "r" \in Open!Ends /\ "w" \in Open!Ends
  BY EndsCounted DEF Open!IInv, Open!Ends
<1>2. /\ DOMAIN Thing = Things /\ DOMAIN Thing' = Things /\ DOMAIN T1 = Things /\ Counts(Thing)
      /\ OfFile(f0) \in Things /\ OfFile(f1) \in Things /\ OfFile(f0) # OfFile(f1)
      /\ Thing[OfFile(f0)] = Open!Nothing /\ Thing[OfFile(f1)] = Open!Nothing
  BY PlacesStay, PlaceOf, OtherPlaces
<1>3. IsSet(T1, Thing, OfFile(f0), E0) /\ Counts(T1) /\ T1[OfFile(f1)] = Open!Nothing
  BY <1>2 DEF IsSet, Counts
<1>4. IsSet(Thing', T1, OfFile(f1), E1)
  <2>1. ASSUME NEW h \in Things PROVE Thing'[h] = IF h = OfFile(f1) THEN E1 ELSE T1[h]
    <3>1. CASE h = OfFile(f0)
      BY <1>1, <1>2, <3>1 DEF Things, Thing, OfFile, Open!TypeOK
    <3>2. CASE h = OfFile(f1)
      BY <1>1, <1>2, <3>2 DEF Things, Thing, OfFile, Open!TypeOK
    <3>3. CASE h # OfFile(f0) /\ h # OfFile(f1)
      BY <1>1, <1>2, <3>3 DEF Things, Thing, OfFile, Open!TypeOK
    <3> QED BY <3>1, <3>2, <3>3
  <2> QED BY <1>2, <2>1 DEF IsSet
<1>5. E0 # E1 /\ E0 # Open!Nothing /\ E1 # Open!Nothing
  BY EndsDiffer, KindsApart
<1> HIDE DEF T1
<1>6. Count(Thing', E0) = 1 /\ Count(Thing', E1) = 1
  <2>1. Count(Thing, E0) = 0 /\ Count(Thing, E1) = 0
    BY <1>1 DEF PipeEnds
  <2> HIDE DEF E0, E1
  <2>2. Count(T1, E0) = 1 /\ Count(T1, E1) = 0
    BY <1>2, <1>3, <1>5, <2>1, CountGains, CountKept
  <2> QED BY <1>3, <1>4, <1>5, <2>2, CountGains, CountKept
<1>7. ASSUME NEW r2 \in Pipes, NEW e2 \in Open!Ends, r2 # rr
      PROVE  Count(Thing', Open!End(r2, e2)) = Count(Thing, Open!End(r2, e2))
  <2>1. Open!End(r2, e2) # E0 /\ Open!End(r2, e2) # E1 /\ Open!End(r2, e2) # Open!Nothing
    BY <1>7, EndsDiffer, KindsApart
  <2> HIDE DEF E0, E1
  <2>2. Count(T1, Open!End(r2, e2)) = Count(Thing, Open!End(r2, e2))
    BY <1>2, <1>3, <2>1, EndKept
  <2>3. Count(Thing', Open!End(r2, e2)) = Count(T1, Open!End(r2, e2))
    BY <1>3, <1>4, <2>1, EndKept
  <2> QED BY <2>2, <2>3
<1>8. ASSUME NEW r2 \in Pipes, NEW e2 \in Open!Ends
      PROVE  /\ e2 \in open'[r2] <=> Count(Thing', Open!End(r2, e2)) # 0
             /\ Count(Thing', Open!End(r2, e2)) <= 1
  <2>1. CASE r2 = rr
    <3>1. e2 \in open'[r2] /\ Count(Thing', Open!End(r2, e2)) = 1
      BY <1>1, <1>6, <2>1 DEF Open!TypeOK, Open!Ends
    <3> QED BY <3>1
  <2>2. CASE r2 # rr
    <3>1. open'[r2] = open[r2]
      BY <1>1, <2>2 DEF Open!TypeOK
    <3> QED BY <1>1, <1>7, <2>2, <3>1 DEF PipeEnds
  <2> QED BY <2>1, <2>2
<1>9. PipeEnds'
  BY <1>8 DEF PipeEnds
<1> QED BY <1>9, EndsCounted
\* The two pointers of the call become descriptors.
LEMMA PointersMoved ==
  ASSUME Open!IInv, NEW p \in Procs, NEW fd0 \in Open!Descriptors, NEW fd1 \in Open!Descriptors, fd0 # fd1,
         ofile[p][fd0] = NoFile, ofile[p][fd1] = NoFile,
         ofile' = [ofile EXCEPT ![p] = [ofile[p] EXCEPT ![fd0] = rf[p], ![fd1] = wf[p]]],
         rf' = [rf EXCEPT ![p] = NoFile], wf' = [wf EXCEPT ![p] = NoFile]
  PROVE  \A x : Count(Pointer', x) = Count(Pointer, x)
<1> DEFINE P1 == [h \in Pointers |-> IF h = Fd(p, fd0) THEN rf[p] ELSE IF h = Rf(p) THEN NoFile ELSE Pointer[h]]
<1>1. /\ DOMAIN Pointer = Pointers /\ DOMAIN Pointer' = Pointers /\ DOMAIN P1 = Pointers /\ Counts(Pointer) /\ Counts(P1)
      /\ Fd(p, fd0) \in Pointers /\ Fd(p, fd1) \in Pointers /\ Rf(p) \in Pointers /\ Wf(p) \in Pointers
      /\ Pointer[Fd(p, fd0)] = NoFile /\ Pointer[Fd(p, fd1)] = NoFile
      /\ Pointer[Rf(p)] = rf[p] /\ Pointer[Wf(p)] = wf[p]
  BY PlacesStay, PlaceOf DEF Counts
<1>2. /\ Fd(p, fd0) # Fd(p, fd1) /\ Rf(p) # Wf(p)
      /\ Fd(p, fd0) # Rf(p) /\ Fd(p, fd0) # Wf(p) /\ Fd(p, fd1) # Rf(p) /\ Fd(p, fd1) # Wf(p)
  BY OtherPlaces
<1>3. IsSwap(P1, Pointer, Fd(p, fd0), Rf(p))
  BY <1>1, <1>2 DEF IsSwap
<1>4. IsSwap(Pointer', P1, Fd(p, fd1), Wf(p))
  <2>1. Open!TypeOK
    BY DEF Open!IInv
  <2>2. Pointer'[Fd(p, fd0)] = rf[p] /\ Pointer'[Fd(p, fd1)] = wf[p]
    BY <1>1, <2>1 DEF Pointer, Fd, Open!TypeOK
  <2>3. Pointer'[Rf(p)] = NoFile /\ Pointer'[Wf(p)] = NoFile
    BY <1>1, <2>1 DEF Pointer, Rf, Wf, Open!TypeOK
  <2>4. ASSUME NEW h \in Pointers, h # Fd(p, fd0), h # Fd(p, fd1), h # Rf(p), h # Wf(p)
        PROVE  Pointer'[h] = Pointer[h]
    <3>1. ASSUME NEW q \in Procs, NEW fd \in Open!Descriptors, h = Fd(q, fd) PROVE Pointer'[h] = Pointer[h]
      <4>1. q # p \/ (fd # fd0 /\ fd # fd1)
        BY <2>4, <3>1
      <4>2. ofile'[q][fd] = ofile[q][fd]
        BY <2>1, <4>1 DEF Open!TypeOK
      <4> QED BY <3>1, <4>2 DEF Pointer, Fd
    <3>2. ASSUME NEW q \in Procs, h = Rf(q) \/ h = Wf(q) PROVE Pointer'[h] = Pointer[h]
      <4>1. q # p
        BY <2>4, <3>2
      <4>2. rf'[q] = rf[q] /\ wf'[q] = wf[q]
        BY <2>1, <4>1 DEF Open!TypeOK
      <4> QED BY <3>2, <4>2 DEF Pointer, Rf, Wf
    <3> QED BY <3>1, <3>2, PointerCases
  <2> QED BY <1>1, <1>2, <2>2, <2>3, <2>4 DEF IsSwap
<1> HIDE DEF P1
<1>5. \A x : Count(P1, x) = Count(Pointer, x)
  BY <1>1, <1>3, SwapCounts
<1>6. \A x : Count(Pointer', x) = Count(P1, x)
  BY <1>1, <1>4, SwapCounts
<1> QED BY <1>5, <1>6

LEMMA PipePageKeeps ==
  ASSUME Open!IInv, NEW p \in Procs, Open!PipePage(p)
  PROVE  Open!IInv'
<1>1. /\ Open!TypeOK /\ Open!CallInv /\ Open!FreshInv /\ Open!ForkInv /\ Open!DescriptorsSound /\ Apart /\ ~panicked
  BY FilesApart DEF Open!IInv, Open!RefsExact
<1>2. PICK f0, f1, fd0, fd1 :
        /\ f0 = rf[p] /\ f1 = wf[p]
        /\ fd0 = Open!Lowest(Open!FreeFds(p)) /\ fd1 = Open!Lowest(Open!FreeFds(p) \ {fd0})
  OBVIOUS
<1>3. PICK rr \in Pipes :
        /\ filePc[p] = "pipe_page" /\ procState[p] = "LIVE" /\ open[rr] = {}
        /\ open' = [open EXCEPT ![rr] = Open!Ends]
        /\ type' = [type EXCEPT ![f0] = Open!End(rr, "r"), ![f1] = Open!End(rr, "w")]
        /\ \/ /\ filePc' = [filePc EXCEPT ![p] = "bad_rf"] /\ UNCHANGED <<ofile, rf, wf>>
           \/ /\ ~(Open!Cardinality(Open!FreeFds(p)) < 2)
              /\ ofile' = [ofile EXCEPT ![p] = [ofile[p] EXCEPT ![fd0] = f0, ![fd1] = f1]]
              /\ rf' = [rf EXCEPT ![p] = NoFile] /\ wf' = [wf EXCEPT ![p] = NoFile]
              /\ filePc' = [filePc EXCEPT ![p] = "user"]
        /\ UNCHANGED <<ref, procState, iref, next, forked, closed, panicked>>
  BY <1>2 DEF Open!PipePage, Open!At, Open!Goto
<1>4. /\ f0 \in FileTable /\ f1 \in FileTable /\ f0 # NoFile /\ f1 # NoFile /\ f0 # f1
      /\ ref[f0] = 1 /\ ref[f1] = 1
      /\ type[f0] = Open!Nothing /\ type[f1] = Open!Nothing
  BY <1>1, <1>2, <1>3 DEF Open!TypeOK, Open!CallInv, Open!FreshInv, Apart
<1>5. /\ \A q \in Procs : (q # p => rf[q] # f0 /\ wf[q] # f1) /\ rf[q] # f1 /\ wf[q] # f0
      /\ \A q \in Procs, gd \in Open!Descriptors : ofile[q][gd] # f0 /\ ofile[q][gd] # f1
  BY <1>1, <1>2, <1>4 DEF Apart
<1>6. /\ \A g \in FileTable : g # f0 /\ g # f1 => type'[g] = type[g]
      /\ type'[f0] = Open!End(rr, "r") /\ type'[f1] = Open!End(rr, "w")
  BY <1>1, <1>3, <1>4 DEF Open!TypeOK
<1>7. \/ UNCHANGED <<ofile, rf, wf>> /\ filePc' = [filePc EXCEPT ![p] = "bad_rf"]
      \/ /\ fd0 \in Open!Descriptors /\ fd1 \in Open!Descriptors /\ fd0 # fd1
         /\ ofile[p][fd0] = NoFile /\ ofile[p][fd1] = NoFile
         /\ ofile' = [ofile EXCEPT ![p] = [ofile[p] EXCEPT ![fd0] = f0, ![fd1] = f1]]
         /\ rf' = [rf EXCEPT ![p] = NoFile] /\ wf' = [wf EXCEPT ![p] = NoFile]
         /\ filePc' = [filePc EXCEPT ![p] = "user"]
  <2>1. CASE UNCHANGED <<ofile, rf, wf>> /\ filePc' = [filePc EXCEPT ![p] = "bad_rf"]
    BY <2>1
  <2>2. CASE ~(Open!Cardinality(Open!FreeFds(p)) < 2)
    <3>1. fd0 \in Open!FreeFds(p) /\ fd1 \in Open!FreeFds(p) /\ fd0 # fd1
      BY <1>2, <2>2, TwoFree
    <3>2. /\ fd0 \in Open!Descriptors /\ fd1 \in Open!Descriptors
          /\ ofile[p][fd0] = NoFile /\ ofile[p][fd1] = NoFile
      BY <3>1 DEF Open!FreeFds
    <3> QED BY <1>3, <3>1, <3>2
  <2> QED BY <1>3, <2>1, <2>2
<1>8. Open!EndsExact'
  BY <1>3, <1>4, EndsOpened
<1>9. Open!RefsExact'
  <2>1. \A g \in FileTable : ref'[g] = Count(Pointer', g)
    <3>1. CASE UNCHANGED <<ofile, rf, wf>>
      BY <1>3, <3>1, PointersStay
    <3>2. CASE ~UNCHANGED <<ofile, rf, wf>>
      <4>1. \A x : Count(Pointer', x) = Count(Pointer, x)
        BY <1>2, <1>7, <3>2, PointersMoved
      <4>2. \A g \in FileTable : ref[g] = Count(Pointer, g)
        BY RefsCounted DEF Open!IInv, Refs
      <4> QED BY <1>3, <4>1, <4>2
    <3> QED BY <3>1, <3>2
  <2>2. \A q \in Procs : (HasCwd(q)' <=> HasCwd(q)) /\ (Opening(q)' <=> Opening(q))
    <3>1. filePc'[p] \in {"bad_rf", "user"} /\ \A q \in Procs : q # p => filePc'[q] = filePc[q]
      BY <1>1, <1>7 DEF Open!TypeOK
    <3> QED BY <1>3, <3>1 DEF HasCwd, Opening
  <2>3. \A g \in FileTable : type'[g] = Open!Inode <=> type[g] = Open!Inode
    BY <1>4, <1>6, KindsApart
  <2>4. Uses' = Uses
    BY <2>2, <2>3, SameUses
  <2>5. iref' = Count(Uses', TRUE)
    BY <1>3, <2>4, UsesStay
  <2> QED BY <1>1, <1>3, <2>1, <2>5, RefsAfter
<1>10. Open!TypeOK'
  <2>1. type' \in [FileTable -> Open!Types] /\ open' \in [Pipes -> SUBSET Open!Ends]
    <3>1. Open!End(rr, "r") \in Open!Types /\ Open!End(rr, "w") \in Open!Types
      BY KindsApart DEF Open!Ends
    <3> QED BY <1>1, <1>3, <3>1 DEF Open!TypeOK
  <2>2. filePc' \in [Procs -> Open!Pcs]
    BY <1>1, <1>7 DEF Open!TypeOK, Open!Pcs
  <2>3. ofile' \in [Procs -> [Open!Descriptors -> FileTable \cup {NoFile}]]
    <3>1. ofile[p] \in [Open!Descriptors -> FileTable \cup {NoFile}]
      BY <1>1 DEF Open!TypeOK
    <3>2. \/ ofile' = ofile
          \/ /\ ofile' = [ofile EXCEPT ![p] = [ofile[p] EXCEPT ![fd0] = f0, ![fd1] = f1]]
             /\ [ofile[p] EXCEPT ![fd0] = f0, ![fd1] = f1] \in [Open!Descriptors -> FileTable \cup {NoFile}]
      BY <1>4, <1>7, <3>1
    <3> QED BY <1>1, <3>2 DEF Open!TypeOK
  <2>4. rf' \in [Procs -> FileTable \cup {NoFile}] /\ wf' \in [Procs -> FileTable \cup {NoFile}]
    BY <1>1, <1>7 DEF Open!TypeOK
  <2> QED BY <1>1, <1>3, <2>1, <2>2, <2>3, <2>4 DEF Open!TypeOK
<1>11. \A q \in Procs, gd \in Open!Descriptors :
         \/ ofile'[q][gd] = ofile[q][gd]
         \/ q = p /\ ofile'[q][gd] \in {f0, f1}
  <2>1. CASE UNCHANGED <<ofile, rf, wf>>
    BY <2>1
  <2>2. CASE ofile' = [ofile EXCEPT ![p] = [ofile[p] EXCEPT ![fd0] = f0, ![fd1] = f1]]
    <3>1. \A q \in Procs : q # p => ofile'[q] = ofile[q]
      BY <1>1, <2>2 DEF Open!TypeOK
    <3>2. ofile'[p] = [ofile[p] EXCEPT ![fd0] = f0, ![fd1] = f1]
      BY <1>1, <2>2 DEF Open!TypeOK
    <3>3. \A gd \in Open!Descriptors : ofile'[p][gd] = ofile[p][gd] \/ ofile'[p][gd] \in {f0, f1}
      BY <1>1, <3>2 DEF Open!TypeOK
    <3> QED BY <3>1, <3>3
  <2> QED BY <1>7, <2>1, <2>2
<1>12. Open!DescriptorsSound'
  <2>1. ASSUME NEW q \in Procs, NEW gd \in Open!Descriptors, ofile'[q][gd] # NoFile
        PROVE  type'[ofile'[q][gd]] # Open!Nothing
    <3>1. CASE ofile'[q][gd] = ofile[q][gd]
      <4>1. ofile[q][gd] \in FileTable /\ ofile[q][gd] # f0 /\ ofile[q][gd] # f1
        BY <1>1, <1>5, <2>1, <3>1 DEF Open!TypeOK
      <4>2. type[ofile[q][gd]] # Open!Nothing
        BY <1>1, <2>1, <3>1 DEF Open!DescriptorsSound, Open!OpenFds, Open!FreeFds
      <4> QED BY <1>6, <3>1, <4>1, <4>2
    <3>2. CASE ofile'[q][gd] \in {f0, f1}
      BY <1>6, <3>2, KindsApart
    <3> QED BY <1>11, <3>1, <3>2
  <2>2. ASSUME NEW q \in Procs, procState[q] \in {"UNUSED", "ZOMBIE"}, NEW gd \in Open!Descriptors
        PROVE  ofile'[q][gd] = NoFile
    BY <1>1, <1>3, <1>11, <2>2 DEF Open!DescriptorsSound, Open!OpenFds, Open!FreeFds
  <2> QED BY <1>3, <2>1, <2>2 DEF Open!DescriptorsSound, Open!OpenFds, Open!FreeFds
<1>13. \A q \in Procs : q # p => rf'[q] = rf[q] /\ wf'[q] = wf[q] /\ filePc'[q] = filePc[q] /\ ofile'[q] = ofile[q]
  BY <1>1, <1>7 DEF Open!TypeOK
<1>14. \/ filePc'[p] = "bad_rf" /\ rf'[p] = f0 /\ wf'[p] = f1
       \/ filePc'[p] = "user" /\ rf'[p] = NoFile /\ wf'[p] = NoFile
  BY <1>1, <1>2, <1>7 DEF Open!TypeOK
<1>15. Open!CallInv'
  BY <1>1, <1>3, <1>4, <1>13, <1>14 DEF Open!CallInv, Open!OpenFds, Open!FreeFds
<1>16. Open!FreshInv'
  <2>1. \A q \in Procs : /\ rf[q] # NoFile => rf[q] \in FileTable
                         /\ wf[q] # NoFile => wf[q] \in FileTable
                         /\ filePc[q] = "pipe_page" => wf[q] # NoFile
    BY <1>1 DEF Open!TypeOK, Open!CallInv
  <2>2. \A g \in FileTable : ref'[g] = 0 => type'[g] = Open!Nothing
    <3> SUFFICES ASSUME NEW g \in FileTable, ref'[g] = 0 PROVE type'[g] = Open!Nothing
      OBVIOUS
    <3>1. ref[g] = 0 /\ g # f0 /\ g # f1
      BY <1>3, <1>4
    <3> QED BY <1>1, <1>6, <3>1 DEF Open!FreshInv
  <2>3. ref' = ref
    BY <1>3
  <2>4. ASSUME NEW q \in Procs, q # p
        PROVE  /\ rf'[q] # NoFile => ref'[rf'[q]] = 1
               /\ wf'[q] # NoFile => ref'[wf'[q]] = 1
               /\ rf'[q] # NoFile /\ (filePc'[q] # "bad_rf" \/ wf'[q] = NoFile) => type'[rf'[q]] = Open!Nothing
               /\ filePc'[q] = "pipe_page" => type'[wf'[q]] = Open!Nothing
    <3>1. /\ rf'[q] = rf[q] /\ wf'[q] = wf[q] /\ filePc'[q] = filePc[q]
          /\ rf[q] # f0 /\ rf[q] # f1 /\ wf[q] # f0 /\ wf[q] # f1
      BY <1>5, <1>13, <2>4
    <3>2. /\ rf[q] # NoFile => type'[rf[q]] = type[rf[q]]
          /\ filePc[q] = "pipe_page" => type'[wf[q]] = type[wf[q]]
      BY <1>6, <2>1, <3>1
    <3> QED BY <1>1, <2>3, <3>1, <3>2 DEF Open!FreshInv
  <2>5. /\ rf'[p] # NoFile => ref'[rf'[p]] = 1
        /\ wf'[p] # NoFile => ref'[wf'[p]] = 1
        /\ rf'[p] # NoFile /\ (filePc'[p] # "bad_rf" \/ wf'[p] = NoFile) => type'[rf'[p]] = Open!Nothing
        /\ filePc'[p] = "pipe_page" => type'[wf'[p]] = Open!Nothing
    BY <1>4, <1>14, <2>3
  <2> QED BY <2>2, <2>4, <2>5 DEF Open!FreshInv
<1>17. Open!ForkInv'
  <2>1. ASSUME NEW q \in Procs, forked[q] # NoProc PROVE forked[q] # p /\ forked[q] \in Procs
    BY <1>1, <1>3, <2>1 DEF Open!ForkInv, Open!TypeOK
  <2> QED BY <1>1, <1>3, <1>13, <2>1 DEF Open!ForkInv
<1> QED BY <1>8, <1>9, <1>10, <1>12, <1>15, <1>16, <1>17 DEF Open!IInv

-----------------------------------------------------------------------------
LEMMA FilesStep == Open!IInv /\ Open!Next => Open!IInv'
<1> SUFFICES ASSUME Open!IInv, Open!Next PROVE Open!IInv'
  OBVIOUS
<1>1. PICK p \in Procs :
        \/ Open!Dup(p) \/ Open!Close(p) \/ Open!Open(p) \/ Open!PipeRead(p) \/ Open!Fork(p) \/ Open!Exit(p) \/ Open!Wait(p)
        \/ Open!Kernel(p)
  BY DEF Open!Next
<1>2. CASE QuietFiles(p)
  BY <1>2, QuietSteps
<1>3. CASE Open!Close(p) \/ Open!ExitClose(p) \/ Open!BadRf(p) \/ Open!BadWf(p) \/ Open!Drop(p)
  BY <1>3, CloseKeeps, ExitCloseKeeps, BadRfKeeps, BadWfKeeps, DropKeeps
<1>4. CASE Open!Dup(p) \/ Open!Open(p) \/ Open!ExitCwd(p) \/ Open!ForkDone(p) \/ Open!ForkFile(p)
  BY <1>4, DupKeeps, OpenKeeps, ExitCwdKeeps, ForkDoneKeeps, ForkFileKeeps
<1>5. CASE Open!OpenFile(p) \/ Open!OpenNoFile(p) \/ Open!OpenBad(p) \/ Open!PipePage(p)
  BY <1>5, OpenFileKeeps, OpenNoFileKeeps, OpenBadKeeps, PipePageKeeps
<1>6. CASE Open!OpenNoFd(p) \/ Open!PipeRead(p) \/ Open!PipeWrite(p)
  BY <1>6, AllocSteps
<1> QED BY <1>1, <1>2, <1>3, <1>4, <1>5, <1>6 DEF Open!Kernel, QuietFiles

LEMMA FilesInit == Open!Init => Open!IInv
<1> SUFFICES ASSUME Open!Init PROVE Open!IInv
  OBVIOUS
<1>1. /\ ref = [f \in FileTable |-> 0] /\ type = [f \in FileTable |-> Open!Nothing]
      /\ ofile = [p \in Procs |-> [fd \in Open!Descriptors |-> NoFile]]
      /\ procState = [p \in Procs |-> IF p = InitProc THEN "LIVE" ELSE "UNUSED"]
      /\ open = [rr \in Pipes |-> {}] /\ iref = 1 /\ filePc = [p \in Procs |-> "user"]
      /\ next = [p \in Procs |-> 0] /\ forked = [p \in Procs |-> NoProc]
      /\ rf = [p \in Procs |-> NoFile] /\ wf = [p \in Procs |-> NoFile]
      /\ closed = [p \in Procs |-> Open!Nothing] /\ panicked = FALSE
  BY DEF Open!Init
<1>2. Open!TypeOK
  <2>1. /\ ref \in [FileTable -> Nat] /\ type \in [FileTable -> Open!Types]
        /\ ofile \in [Procs -> [Open!Descriptors -> FileTable \cup {NoFile}]]
    BY <1>1, KindsApart
  <2>2. procState \in [Procs -> {"UNUSED", "EMBRYO", "LIVE", "ZOMBIE"}] /\ filePc \in [Procs -> Open!Pcs]
    BY <1>1 DEF Open!Pcs
  <2>3. /\ open \in [Pipes -> SUBSET Open!Ends] /\ iref \in Nat /\ next \in [Procs -> 0 .. NOFILE]
        /\ forked \in [Procs -> Procs \cup {NoProc}] /\ closed \in [Procs -> Open!Types]
    BY <1>1, OpenConstants, KindsApart
  <2>4. /\ rf \in [Procs -> FileTable \cup {NoFile}] /\ wf \in [Procs -> FileTable \cup {NoFile}]
        /\ panicked \in BOOLEAN
    BY <1>1
  <2> QED BY <2>1, <2>2, <2>3, <2>4 DEF Open!TypeOK
<1>3. \A h \in Pointers : Pointer[h] = NoFile
  BY <1>1, PointerCases, PlaceOf
<1>4. \A h \in Things : Thing[h] = Open!Nothing
  BY <1>1, ThingCases, PlaceOf
<1>5. Open!EndsExact
  <2>1. ASSUME NEW rr \in Pipes, NEW ee \in Open!Ends
        PROVE  Count(Thing, Open!End(rr, ee)) = 0 /\ ee \notin open[rr]
    BY <1>1, <1>4, PlacesStay, CountNone, KindsApart
  <2>2. PipeEnds
    BY <2>1 DEF PipeEnds
  <2> QED BY <2>2, EndsCounted
<1>6. Open!RefsExact
  <2>1. ASSUME NEW f \in FileTable PROVE ref[f] = Count(Pointer, f)
    BY <1>1, <1>3, PlacesStay, CountNone, OpenConstants
  <2>2. iref = Cardinality(Open!InodeHolders)
    <3>1. Open!InodeHolders = {OfCwd(InitProc)}
      BY <1>1, OpenConstants, KindsApart DEF Open!InodeHolders, OfCwd
    <3> QED BY <1>1, <3>1, FS_Singleton
  <2>3. \A f : Open!Holders(f) = {h \in Pointers : Pointer[h] = f}
    BY DEF Open!Holders, Pointer, Pointers
  <2>4. \A f \in FileTable : ref[f] = Open!Cardinality(Open!Holders(f))
    BY <2>1, <2>3, PlacesStay, OpenCardinality DEF Count
  <2> QED BY <1>1, <2>2, <2>4, OpenCardinality DEF Open!RefsExact
<1>7. Open!DescriptorsSound /\ Open!CallInv /\ Open!FreshInv /\ Open!ForkInv
  BY <1>1 DEF Open!DescriptorsSound, Open!CallInv, Open!FreshInv, Open!ForkInv, Open!OpenFds, Open!FreeFds
<1> QED BY <1>2, <1>5, <1>6, <1>7 DEF Open!IInv

LEMMA FilesQuiet == Open!IInv /\ UNCHANGED Open!vars => Open!IInv'
<1> SUFFICES ASSUME Open!IInv, UNCHANGED Open!vars PROVE Open!IInv'
  OBVIOUS
<1>1. UNCHANGED <<ref, type, ofile, procState, open, iref, filePc, next, forked, rf, wf, closed, panicked>>
  BY DEF Open!vars, Open!local
<1>2. Open!RefsExact' /\ Open!EndsExact'
  BY <1>1, SamePlaces, QuietCounts
<1>3. Open!TypeOK' /\ Open!DescriptorsSound'
  BY <1>1 DEF Open!IInv, Open!TypeOK, Open!DescriptorsSound, Open!OpenFds, Open!FreeFds
<1>4. Open!CallInv' /\ Open!FreshInv' /\ Open!ForkInv'
  BY <1>1 DEF Open!IInv, Open!CallInv, Open!FreshInv, Open!ForkInv, Open!OpenFds, Open!FreeFds
<1> QED BY <1>2, <1>3, <1>4 DEF Open!IInv

\* The counts of open files and of the inode are exact, an end of a pipe is open
\* while one file is left of it and closed once, and a new process inherits no
\* descriptors, whichever call of dup, close, open, pipe, fork or exit fails half
\* way and however their critical sections interleave (file.c:43-70,
\* pipe.c:47-68, sysfile.c:280, 382).
THEOREM FilesExact == Spec => []FilesSound
<1>1. Init => (part = "files" => Open!IInv)
  BY FilesInit DEF Init
<1>2. (part = "files" => Open!IInv) /\ [Next]_vars => (part = "files" => Open!IInv)'
  <2> SUFFICES ASSUME part = "files" => Open!IInv, [Next]_vars, part' = "files"
               PROVE  Open!IInv'
    OBVIOUS
  <2>1. part' = part
    BY DEF Next, vars, OnlyStride, OnlyLocks, OnlyInput, OnlyOpen, OnlyDisk
  <2>2. CASE Open!Next
    BY <2>1, <2>2, FilesStep
  <2>3. CASE UNCHANGED openVars
    <3>1. UNCHANGED Open!vars
      BY <2>3 DEF openVars, Open!vars, Open!local
    <3> QED BY <2>1, <3>1, FilesQuiet
  <2> QED BY <2>2, <2>3 DEF Next, vars, OnlyStride, OnlyLocks, OnlyInput, OnlyOpen, OnlyDisk
<1>3. (part = "files" => Open!IInv) => FilesSound
  BY DEF FilesSound, Open!IInv
<1> QED BY <1>1, <1>2, <1>3, PTL DEF Spec

-----------------------------------------------------------------------------
(***************************************************************************)
(* Spin locks.                                                             *)
(***************************************************************************)
\* What the constants are assumed to be.
LEMMA LocksConstants ==
  /\ BootCpu \in CPUs /\ NoThread \notin CPUs /\ NoThread \notin Threads /\ CPUs \cap Threads = {}
BY PartsAssumptions DEF Locks!ConstantAssumptions

\* An operation is a pair, on a lock but for iret.
LEMMA OpPairs ==
  ASSUME NEW op \in Locks!Ops
  PROVE  /\ op = <<op[1], op[2]>>
         /\ \/ op[2] \in Locks!Locks
            \/ op[1] = "iret" /\ op[2] = "none"
         /\ op[1] \in {"sched", "resume", "exit", "loop"} => op[2] = "ptable"
BY DEF Locks!Ops, Locks!Locks

\* What comes next with a lock is the first operation, if it is with that lock, or
\* what comes next in the rest.
LEMMA NextInRest ==
  ASSUME NEW ss \in Seq(Locks!Ops), ss # <<>>, NEW l
  PROVE  /\ Locks!NextOn(ss, l, 1) <=> Head(ss)[2] = l
         /\ \A k \in 1 .. Len(Tail(ss)) :
              /\ k + 1 \in 1 .. Len(ss) /\ ss[k + 1] = Tail(ss)[k]
              /\ Locks!NextOn(ss, l, k + 1) <=> Head(ss)[2] # l /\ Locks!NextOn(Tail(ss), l, k)
<1>1. PICK tt \in Seq(Locks!Ops) : tt = Tail(ss)
  BY HeadTailProperties
<1>2. Len(tt) = Len(ss) - 1 /\ Head(ss) = ss[1] /\ Len(ss) \in Nat \ {0}
      /\ \A k \in 1 .. Len(tt) : tt[k] = ss[k + 1]
  BY <1>1, HeadTailProperties
<1>3. Locks!NextOn(ss, l, 1) <=> Head(ss)[2] = l
  BY <1>2 DEF Locks!NextOn
<1>4. ASSUME NEW k \in 1 .. Len(tt)
      PROVE  /\ k + 1 \in 1 .. Len(ss) /\ ss[k + 1] = tt[k]
             /\ Locks!NextOn(ss, l, k + 1) <=> Head(ss)[2] # l /\ Locks!NextOn(tt, l, k)
  <2>1. k + 1 \in 1 .. Len(ss) /\ ss[k + 1] = tt[k]
    BY <1>2
  <2>2. ASSUME Head(ss)[2] # l, Locks!NextOn(tt, l, k) PROVE Locks!NextOn(ss, l, k + 1)
    <3>1. ASSUME NEW j \in 1 .. k PROVE ss[j][2] # l
      <4>1. CASE j = 1
        BY <4>1, <2>2, <1>2
      <4>2. CASE j # 1
        <5>1. j - 1 \in 1 .. k - 1 /\ j - 1 \in 1 .. Len(tt) /\ (j - 1) + 1 = j
          BY <4>2, <1>2
        <5> QED BY <5>1, <2>2, <1>2 DEF Locks!NextOn
      <4> QED BY <4>1, <4>2
    <3> QED BY <3>1, <2>1, <2>2 DEF Locks!NextOn
  <2>3. ASSUME Locks!NextOn(ss, l, k + 1) PROVE Head(ss)[2] # l /\ Locks!NextOn(tt, l, k)
    <3>1. \A j \in 1 .. k : ss[j][2] # l
      BY <2>3 DEF Locks!NextOn
    <3>2. Head(ss)[2] # l
      BY <3>1, <1>2
    <3>3. \A j \in 1 .. k - 1 : j \in 1 .. Len(tt) /\ j + 1 \in 1 .. k
      BY <1>2
    <3> QED BY <3>1, <3>2, <3>3, <2>1, <2>3, <1>2 DEF Locks!NextOn
  <2> QED BY <2>1, <2>2, <2>3
<1> QED BY <1>1, <1>3, <1>4

\* Inside and outside of a lock, by the first operation or by the rest.
LEMMA InOutRest ==
  ASSUME NEW ss \in Seq(Locks!Ops), ss # <<>>, NEW hd, NEW tt, Head(ss) = hd, Tail(ss) = tt, NEW l
  PROVE  /\ hd[2] = l => (Locks!In(ss, l) <=> hd[1] \notin {"pushcli", "xchg"})
                     /\ (Locks!Out(ss, l) <=> hd[1] = "pushcli")
         /\ hd[2] # l => (Locks!In(ss, l) <=> Locks!In(tt, l)) /\ (Locks!Out(ss, l) <=> Locks!Out(tt, l))
         /\ Locks!HasIret(ss) <=> hd[1] = "iret" \/ Locks!HasIret(tt)
<1>1. tt \in Seq(Locks!Ops)
  BY HeadTailProperties
<1>2. Len(tt) = Len(ss) - 1 /\ hd = ss[1] /\ Len(ss) \in Nat \ {0} /\ Len(tt) \in Nat
  BY <1>1, HeadTailProperties
<1>3. /\ Locks!NextOn(ss, l, 1) <=> hd[2] = l
      /\ \A k \in 1 .. Len(tt) :
              /\ k + 1 \in 1 .. Len(ss) /\ ss[k + 1] = tt[k]
              /\ Locks!NextOn(ss, l, k + 1) <=> hd[2] # l /\ Locks!NextOn(tt, l, k)
  BY <1>1, NextInRest
<1>4. \A k \in 1 .. Len(ss) : k # 1 => k - 1 \in 1 .. Len(tt) /\ (k - 1) + 1 = k
  BY <1>2
<1>5. 1 \in 1 .. Len(ss)
  BY <1>2
<1>6. \A k \in 1 .. Len(ss) : k # 1 => /\ k - 1 \in 1 .. Len(tt) /\ ss[k] = tt[k - 1]
                                       /\ Locks!NextOn(ss, l, k) <=> hd[2] # l /\ Locks!NextOn(tt, l, k - 1)
  BY <1>3, <1>4
<1>7. hd[2] = l => (Locks!In(ss, l) <=> hd[1] \notin {"pushcli", "xchg"})
                     /\ (Locks!Out(ss, l) <=> hd[1] = "pushcli")
  <2> HAVE hd[2] = l
  <2>1. \A k \in 1 .. Len(ss) : Locks!NextOn(ss, l, k) <=> k = 1
    BY <1>6, <1>3
  <2>2. Locks!In(ss, l) <=> hd[1] \notin {"pushcli", "xchg"}
    BY <2>1, <1>2, <1>5 DEF Locks!In
  <2>3. Locks!Out(ss, l) <=> hd[1] = "pushcli"
    BY <2>1, <1>2, <1>5 DEF Locks!Out
  <2> QED BY <2>2, <2>3
<1>8. hd[2] # l => (Locks!In(ss, l) <=> Locks!In(tt, l)) /\ (Locks!Out(ss, l) <=> Locks!Out(tt, l))
  <2> HAVE hd[2] # l
  <2>1. ~Locks!NextOn(ss, l, 1)
    BY <1>3
  <2>2. Locks!In(ss, l) => Locks!In(tt, l)
    <3> SUFFICES ASSUME NEW k \in 1 .. Len(ss), Locks!NextOn(ss, l, k), ss[k][1] \notin {"pushcli", "xchg"}
                 PROVE  Locks!In(tt, l)
      BY DEF Locks!In
    <3>1. k # 1
      BY <2>1
    <3>2. k - 1 \in 1 .. Len(tt) /\ ss[k] = tt[k - 1] /\ Locks!NextOn(tt, l, k - 1)
      BY <3>1, <1>6
    <3> QED BY <3>2 DEF Locks!In
  <2>3. Locks!In(tt, l) => Locks!In(ss, l)
    <3> SUFFICES ASSUME NEW k \in 1 .. Len(tt), Locks!NextOn(tt, l, k), tt[k][1] \notin {"pushcli", "xchg"}
                 PROVE  Locks!In(ss, l)
      BY DEF Locks!In
    <3>1. k + 1 \in 1 .. Len(ss) /\ ss[k + 1] = tt[k] /\ Locks!NextOn(ss, l, k + 1)
      BY <1>3
    <3> QED BY <3>1 DEF Locks!In
  <2>4. Locks!Out(ss, l) => Locks!Out(tt, l)
    <3> SUFFICES ASSUME Locks!Out(ss, l), NEW k \in 1 .. Len(tt), Locks!NextOn(tt, l, k)
                 PROVE  tt[k][1] = "pushcli"
      BY DEF Locks!Out
    <3>1. k + 1 \in 1 .. Len(ss) /\ ss[k + 1] = tt[k] /\ Locks!NextOn(ss, l, k + 1)
      BY <1>3
    <3> QED BY <3>1 DEF Locks!Out
  <2>5. Locks!Out(tt, l) => Locks!Out(ss, l)
    <3> SUFFICES ASSUME Locks!Out(tt, l), NEW k \in 1 .. Len(ss), Locks!NextOn(ss, l, k)
                 PROVE  ss[k][1] = "pushcli"
      BY DEF Locks!Out
    <3>1. k # 1
      BY <2>1
    <3>2. k - 1 \in 1 .. Len(tt) /\ ss[k] = tt[k - 1] /\ Locks!NextOn(tt, l, k - 1)
      BY <3>1, <1>6
    <3> QED BY <3>2 DEF Locks!Out
  <2> QED BY <2>2, <2>3, <2>4, <2>5
<1>9. Locks!HasIret(ss) <=> hd[1] = "iret" \/ Locks!HasIret(tt)
  <2>1. Locks!HasIret(ss) => hd[1] = "iret" \/ Locks!HasIret(tt)
    BY <1>2, <1>6 DEF Locks!HasIret
  <2>2. hd[1] = "iret" => Locks!HasIret(ss)
    BY <1>2, <1>5 DEF Locks!HasIret
  <2>3. Locks!HasIret(tt) => Locks!HasIret(ss)
    BY <1>3 DEF Locks!HasIret
  <2> QED BY <2>1, <2>2, <2>3
<1> QED BY <1>1, <1>7, <1>8, <1>9

\* An empty path has nothing left with any lock.
LEMMA InOutEmpty ==
  /\ <<>> \in Seq(Locks!Ops) /\ ~Locks!HasIret(<<>>)
  /\ \A l : ~Locks!In(<<>>, l) /\ Locks!Out(<<>>, l)
  /\ \A ops : Locks!Fine(<<>>, ops)
BY DEF Locks!In, Locks!Out, Locks!HasIret, Locks!Fine

\* A path that begins with acquire is not between acquire and release.
LEMMA OutIsNotIn ==
  ASSUME NEW ss, NEW l, Locks!Out(ss, l)
  PROVE  ~Locks!In(ss, l)
BY DEF Locks!In, Locks!Out

\* A path is one of the kernel when its first step is followed by what may follow it.
LEMMA FineRest ==
  ASSUME NEW ss \in Seq(Locks!Ops), ss # <<>>, NEW hd, NEW tt, Head(ss) = hd, Tail(ss) = tt, NEW ops
  PROVE  Locks!Fine(ss, ops) <=> hd \in ops /\ Locks!Follows(hd[1], hd[2], tt) /\ Locks!Fine(tt, ops)
<1>1. tt \in Seq(Locks!Ops)
  BY HeadTailProperties
<1>2. Len(tt) = Len(ss) - 1 /\ hd = ss[1] /\ Len(ss) \in Nat \ {0} /\ Len(tt) \in Nat
      /\ \A k \in 1 .. Len(tt) : tt[k] = ss[k + 1]
  BY HeadTailProperties
<1>3. tt = SubSeq(ss, 2, Len(ss))
  BY TailIsSubSeq
<1>4. \A k \in 1 .. Len(tt) : /\ SubSeq(tt, k + 1, Len(tt)) = SubSeq(ss, (k + 1) + 1, Len(ss))
                              /\ k + 1 \in 1 .. Len(ss) /\ tt[k] = ss[k + 1]
  <2> TAKE k \in 1 .. Len(tt)
  <2>1. PICK uu : uu = SubSeq(tt, k + 1, Len(tt))
    OBVIOUS
  <2>2. PICK vv : vv = SubSeq(ss, (k + 1) + 1, Len(ss))
    OBVIOUS
  <2>3. uu = vv
    <3>1. uu \in Seq(Locks!Ops) /\ Len(uu) = Len(tt) - k
          /\ \A i \in 1 .. Len(tt) - k : uu[i] = tt[k + i]
      BY <1>1, <1>2, <2>1
    <3>2. vv \in Seq(Locks!Ops) /\ Len(vv) = Len(tt) - k
          /\ \A i \in 1 .. Len(tt) - k : vv[i] = ss[(k + 1) + i]
      BY <1>2, <2>2
    <3>3. \A i \in 1 .. Len(tt) - k : k + i \in 1 .. Len(tt) /\ (k + i) + 1 = (k + 1) + i
      BY <1>2
    <3>4. \A i \in 1 .. Len(tt) - k : uu[i] = vv[i]
      BY <3>1, <3>2, <3>3, <1>2
    <3> QED BY <3>1, <3>2, <3>4, SeqEqual
  <2> QED BY <2>1, <2>2, <2>3, <1>2
<1>5. \A k \in 1 .. Len(ss) : k # 1 =>
        /\ k - 1 \in 1 .. Len(tt) /\ ss[k] = tt[k - 1]
        /\ SubSeq(ss, k + 1, Len(ss)) = SubSeq(tt, (k - 1) + 1, Len(tt))
  <2> TAKE k \in 1 .. Len(ss)
  <2> HAVE k # 1
  <2>1. k - 1 \in 1 .. Len(tt) /\ (k - 1) + 1 = k
    BY <1>2
  <2> QED BY <2>1, <1>4
<1>6. 1 \in 1 .. Len(ss) /\ SubSeq(ss, 1 + 1, Len(ss)) = tt
  BY <1>2, <1>3
<1>7. Locks!Fine(ss, ops) => hd \in ops /\ Locks!Follows(hd[1], hd[2], tt) /\ Locks!Fine(tt, ops)
  <2> HAVE Locks!Fine(ss, ops)
  <2>1. hd \in ops /\ Locks!Follows(hd[1], hd[2], tt)
    BY <1>2, <1>6 DEF Locks!Fine
  <2>2. Locks!Fine(tt, ops)
    BY <1>4 DEF Locks!Fine
  <2> QED BY <2>1, <2>2
<1>8. hd \in ops /\ Locks!Follows(hd[1], hd[2], tt) /\ Locks!Fine(tt, ops) => Locks!Fine(ss, ops)
  <2> HAVE hd \in ops /\ Locks!Follows(hd[1], hd[2], tt) /\ Locks!Fine(tt, ops)
  <2>1. ASSUME NEW k \in 1 .. Len(ss)
        PROVE  ss[k] \in ops /\ Locks!Follows(ss[k][1], ss[k][2], SubSeq(ss, k + 1, Len(ss)))
    <3>1. CASE k = 1
      BY <3>1, <1>2, <1>6
    <3>2. CASE k # 1
      BY <3>2, <1>5 DEF Locks!Fine
    <3> QED BY <3>1, <3>2
  <2> QED BY <2>1 DEF Locks!Fine
<1> QED BY <1>7, <1>8

-----------------------------------------------------------------------------
\* The path s with operation op in front.
Cons(op, s) == <<op>> \o s

\* Release and sched in front of a path, step by step.
LEMMA TwoBefore ==
  ASSUME NEW S, NEW ss \in Seq(S), NEW aa \in S, NEW bb \in S
  PROVE  <<aa, bb>> \o ss = Cons(aa, Cons(bb, ss))
<1>1. <<aa>> \in Seq(S) /\ <<bb>> \in Seq(S)
  OBVIOUS
<1>2. <<aa, bb>> = <<aa>> \o <<bb>>
  <2>1. PICK vv : vv = <<aa>> \o <<bb>>
    OBVIOUS
  <2>2. PICK xx : xx = <<aa, bb>>
    OBVIOUS
  <2>3. vv \in Seq(S) /\ Len(vv) = 2 /\ vv[1] = aa /\ vv[2] = bb
    BY <2>1
  <2>4. xx \in Seq(S) /\ Len(xx) = 2 /\ xx[1] = aa /\ xx[2] = bb
    BY <2>2
  <2>5. \A i \in 1 .. 2 : xx[i] = vv[i]
    BY <2>3, <2>4
  <2>6. xx = vv
    BY <2>3, <2>4, <2>5, SeqEqual
  <2> QED BY <2>1, <2>2, <2>6, Zenon
<1>3. (<<aa>> \o <<bb>>) \o ss = <<aa>> \o (<<bb>> \o ss)
  BY <1>1, ConcatAssociative
<1> QED BY <1>2, <1>3, Zenon DEF Cons

\* Acquire in front of a path, step by step.
LEMMA ThreeBefore ==
  ASSUME NEW S, NEW ss \in Seq(S), NEW aa \in S, NEW bb \in S, NEW cc \in S
  PROVE  <<aa, bb, cc>> \o ss = Cons(aa, Cons(bb, Cons(cc, ss)))
<1>1. <<aa, bb>> \in Seq(S) /\ <<cc>> \in Seq(S)
  OBVIOUS
<1>2. <<aa, bb, cc>> = <<aa, bb>> \o <<cc>>
  <2>1. PICK vv : vv = <<aa, bb>> \o <<cc>>
    OBVIOUS
  <2>2. PICK xx : xx = <<aa, bb, cc>>
    OBVIOUS
  <2>3. vv \in Seq(S) /\ Len(vv) = 3 /\ vv[1] = aa /\ vv[2] = bb /\ vv[3] = cc
    BY <2>1
  <2>4. xx \in Seq(S) /\ Len(xx) = 3 /\ xx[1] = aa /\ xx[2] = bb /\ xx[3] = cc
    BY <2>2
  <2>5. \A i \in 1 .. 3 : xx[i] = vv[i]
    BY <2>3, <2>4
  <2>6. xx = vv
    BY <2>3, <2>4, <2>5, SeqEqual
  <2> QED BY <2>1, <2>2, <2>6, Zenon
<1>3. (<<aa, bb>> \o <<cc>>) \o ss = <<aa, bb>> \o (<<cc>> \o ss)
  BY <1>1, ConcatAssociative
<1>4. PICK s1 : s1 = Cons(cc, ss)
  OBVIOUS
<1>5. <<cc>> \in Seq(S)
  OBVIOUS
<1>6. s1 \in Seq(S)
  BY <1>4, <1>5, ConcatProperties DEF Cons
<1>7. <<aa, bb>> \o s1 = Cons(aa, Cons(bb, s1))
  BY <1>6, TwoBefore
<1> QED BY <1>2, <1>3, <1>4, <1>7, Zenon DEF Cons

\* uu is ss with steps on lock l in front.
Ahead(uu, ss, l) ==
  /\ uu \in Seq(Locks!Ops)
  /\ \A m : m # l => (Locks!In(uu, m) <=> Locks!In(ss, m)) /\ (Locks!Out(uu, m) <=> Locks!Out(ss, m))
  /\ Locks!HasIret(uu) <=> Locks!HasIret(ss)

\* What a path must satisfy to be followed by a step, each kind in its turn.
\* An operation in front of a path.
LEMMA Before ==
  ASSUME NEW ss \in Seq(Locks!Ops), NEW op \in Locks!Ops
  PROVE  /\ Cons(op, ss) \in Seq(Locks!Ops) /\ Cons(op, ss) # <<>>
         /\ Head(Cons(op, ss)) = op /\ Tail(Cons(op, ss)) = ss
         /\ Locks!In(Cons(op, ss), op[2]) <=> op[1] \notin {"pushcli", "xchg"}
         /\ Locks!Out(Cons(op, ss), op[2]) <=> op[1] = "pushcli"
         /\ \A m : m # op[2] => (Locks!In(Cons(op, ss), m) <=> Locks!In(ss, m))
                                /\ (Locks!Out(Cons(op, ss), m) <=> Locks!Out(ss, m))
         /\ Locks!HasIret(Cons(op, ss)) <=> op[1] = "iret" \/ Locks!HasIret(ss)
         /\ \A ops : Locks!Fine(Cons(op, ss), ops)
                       <=> op \in ops /\ Locks!Follows(op[1], op[2], ss) /\ Locks!Fine(ss, ops)
<1> DEFINE oo == op[1]  ll == op[2]
<1>0. PICK uu : uu = Cons(op, ss)
  OBVIOUS
<1>1. uu \in Seq(Locks!Ops)
  <2>1. <<op>> \in Seq(Locks!Ops)
    OBVIOUS
  <2> QED BY <1>0, <2>1, ConcatProperties DEF Cons
<1>2. uu # <<>> /\ Head(uu) = op
  BY <1>0 DEF Cons
<1>3. Tail(uu) = ss
  <2>1. Tail(uu) \in Seq(Locks!Ops) /\ Len(Tail(uu)) = Len(ss) /\ Len(ss) \in Nat
        /\ \A k \in 1 .. Len(ss) : Tail(uu)[k] = ss[k]
    <3>1. Len(uu) = Len(ss) + 1 /\ Len(ss) \in Nat /\ \A k \in 1 .. Len(ss) : uu[k + 1] = ss[k]
      BY <1>0 DEF Cons
    <3> QED BY <3>1, <1>1, <1>2, HeadTailProperties
  <2> QED BY <2>1, SeqEqual
<1>4. \A l :
            /\ ll = l => (Locks!In(uu, l) <=> oo \notin {"pushcli", "xchg"}) /\ (Locks!Out(uu, l) <=> oo = "pushcli")
            /\ ll # l => (Locks!In(uu, l) <=> Locks!In(ss, l)) /\ (Locks!Out(uu, l) <=> Locks!Out(ss, l))
            /\ Locks!HasIret(uu) <=> oo = "iret" \/ Locks!HasIret(ss)
  BY <1>1, <1>2, <1>3, InOutRest
<1>5. \A ops : Locks!Fine(uu, ops) <=> op \in ops /\ Locks!Follows(oo, ll, ss) /\ Locks!Fine(ss, ops)
  BY <1>1, <1>2, <1>3, FineRest
<1>6. (Locks!In(uu, ll) <=> oo \notin {"pushcli", "xchg"}) /\ (Locks!Out(uu, ll) <=> oo = "pushcli")
  BY <1>4
<1>7. Locks!HasIret(uu) <=> oo = "iret" \/ Locks!HasIret(ss)
  BY <1>4
<1>8. \A m : m # ll => (Locks!In(uu, m) <=> Locks!In(ss, m)) /\ (Locks!Out(uu, m) <=> Locks!Out(ss, m))
  BY <1>4
<1> QED BY <1>0, <1>1, <1>2, <1>3, <1>5, <1>6, <1>7, <1>8

\* One step in front of a path leaves the other locks as they are.
LEMMA BeforeAhead ==
  ASSUME NEW ss \in Seq(Locks!Ops), NEW op \in Locks!Ops, op[1] # "iret"
  PROVE  Ahead(Cons(op, ss), ss, op[2])
BY Before DEF Ahead

\* A step between acquire and release of its lock.
LEMMA BeforeIn ==
  ASSUME NEW ss \in Seq(Locks!Ops), NEW op \in Locks!Ops, op[1] \notin {"pushcli", "xchg"}
  PROVE  Locks!In(Cons(op, ss), op[2])
BY Before

\* The first step of acquire.
LEMMA BeforeOut ==
  ASSUME NEW ss \in Seq(Locks!Ops), NEW op \in Locks!Ops, op[1] = "pushcli"
  PROVE  Locks!Out(Cons(op, ss), op[2])
BY Before

\* A step in front of a path of the kernel that may follow it.
LEMMA BeforeFine ==
  ASSUME NEW ss \in Seq(Locks!Ops), NEW op \in Locks!Ops, NEW ops,
         op \in ops, Locks!Fine(ss, ops), Locks!Follows(op[1], op[2], ss)
  PROVE  Locks!Fine(Cons(op, ss), ops)
BY Before

\* The steps of acquire, of release and of sched in front of a path.
LEMMA AcquireAhead ==
  ASSUME NEW l \in Locks!Locks, NEW ops, NEW ss \in Seq(Locks!Ops),
         <<"pushcli", l>> \in ops, <<"xchg", l>> \in ops, <<"owner", l>> \in ops,
         Locks!Fine(ss, ops), Locks!In(ss, l),
         Locks!First(ss) \notin {"owner", "unlock", "resume"},
         \A m \in Locks!Locks \ ({l} \cup Locks!Outer(l)) : Locks!Out(ss, m)
  PROVE  /\ Ahead(Locks!Acquire(l) \o ss, ss, l) /\ Locks!Out(Locks!Acquire(l) \o ss, l)
         /\ Locks!Fine(Locks!Acquire(l) \o ss, ops)
         /\ Locks!Begins(Locks!Acquire(l) \o ss, <<"pushcli", l>>)
<1>1. PICK o1 : o1 = <<"pushcli", l>>
  OBVIOUS
<1>2. PICK o2 : o2 = <<"xchg", l>>
  OBVIOUS
<1>3. PICK o3 : o3 = <<"owner", l>>
  OBVIOUS
<1>4. o1 \in Locks!Ops /\ o2 \in Locks!Ops /\ o3 \in Locks!Ops
  BY <1>1, <1>2, <1>3 DEF Locks!Ops
<1>5. /\ o1[1] = "pushcli" /\ o2[1] = "xchg" /\ o3[1] = "owner" /\ o1[2] = l /\ o2[2] = l /\ o3[2] = l
      /\ o1 \in ops /\ o2 \in ops /\ o3 \in ops
  BY <1>1, <1>2, <1>3
<1>6. PICK s1 : s1 = Cons(o3, ss)
  OBVIOUS
<1>7. s1 \in Seq(Locks!Ops) /\ s1 # <<>> /\ Head(s1) = o3
  BY <1>4, <1>6, Before
<1>8. Ahead(s1, ss, l)
  BY <1>4, <1>5, <1>6, BeforeAhead
<1>9. Locks!Fine(s1, ops)
  <2>1. Locks!Follows("owner", l, ss)
    BY DEF Locks!Follows
  <2> QED BY <2>1, <1>4, <1>5, <1>6, BeforeFine
<1>10. PICK s2 : s2 = Cons(o2, s1)
  OBVIOUS
<1>11. s2 \in Seq(Locks!Ops) /\ s2 # <<>> /\ Head(s2) = o2
  BY <1>4, <1>7, <1>10, Before
<1>12. Ahead(s2, s1, l)
  BY <1>4, <1>5, <1>7, <1>10, BeforeAhead
<1>13. Locks!Fine(s2, ops)
  <2>1. Locks!Follows("xchg", l, s1)
    BY <1>3, <1>7 DEF Locks!Follows, Locks!Begins
  <2> QED BY <2>1, <1>4, <1>5, <1>7, <1>9, <1>10, BeforeFine
<1>14. PICK s3 : s3 = Cons(o1, s2)
  OBVIOUS
<1>15. s3 \in Seq(Locks!Ops) /\ s3 # <<>> /\ Head(s3) = o1
  BY <1>4, <1>11, <1>14, Before
<1>16. Ahead(s3, s2, l)
  BY <1>4, <1>5, <1>11, <1>14, BeforeAhead
<1>17. Locks!Fine(s3, ops)
  <2>1. \A m \in Locks!Locks \ ({l} \cup Locks!Outer(l)) : Locks!Out(s2, m)
    BY <1>8, <1>12 DEF Ahead
  <2>2. Locks!Follows("pushcli", l, s2)
    BY <1>2, <1>11, <2>1 DEF Locks!Follows, Locks!Begins
  <2> QED BY <2>2, <1>4, <1>5, <1>11, <1>13, <1>14, BeforeFine
<1>18. Locks!Out(s3, l)
  BY <1>4, <1>5, <1>11, <1>14, BeforeOut
<1>19. Ahead(s3, ss, l)
  BY <1>8, <1>12, <1>16 DEF Ahead
<1>20. Locks!Begins(s3, <<"pushcli", l>>)
  BY <1>1, <1>15 DEF Locks!Begins
<1>21. Locks!Acquire(l) \o ss = s3
  <2>1. Locks!Acquire(l) = <<o1, o2, o3>>
    BY <1>1, <1>2, <1>3, Zenon DEF Locks!Acquire
  <2>2. <<o1, o2, o3>> \o ss = s3
    BY <1>4, <1>6, <1>10, <1>14, ThreeBefore
  <2> QED BY <2>1, <2>2, Zenon
<1> QED BY <1>17, <1>18, <1>19, <1>20, <1>21, Zenon

\* release in front of a path without its lock.
LEMMA ReleaseAhead ==
  ASSUME NEW l \in Locks!Locks, NEW ops, NEW ss \in Seq(Locks!Ops),
         <<"disown", l>> \in ops, <<"unlock", l>> \in ops,
         Locks!Fine(ss, ops), Locks!Out(ss, l),
         Locks!First(ss) \notin {"owner", "unlock", "resume"}
  PROVE  /\ Ahead(Locks!Release(l) \o ss, ss, l) /\ Locks!In(Locks!Release(l) \o ss, l)
         /\ Locks!Fine(Locks!Release(l) \o ss, ops)
         /\ Locks!Begins(Locks!Release(l) \o ss, <<"disown", l>>)
         /\ Tail(Locks!Release(l)) \o ss = Tail(Locks!Release(l) \o ss)
<1>1. PICK o1 : o1 = <<"disown", l>>
  OBVIOUS
<1>2. PICK o2 : o2 = <<"unlock", l>>
  OBVIOUS
<1>3. o1 \in Locks!Ops /\ o2 \in Locks!Ops
  BY <1>1, <1>2 DEF Locks!Ops
<1>4. /\ o1[1] = "disown" /\ o2[1] = "unlock" /\ o1[2] = l /\ o2[2] = l
      /\ o1 \in ops /\ o2 \in ops
  BY <1>1, <1>2
<1>5. PICK s1 : s1 = Cons(o2, ss)
  OBVIOUS
<1>6. s1 \in Seq(Locks!Ops) /\ s1 # <<>> /\ Head(s1) = o2
  BY <1>3, <1>5, Before
<1>7. Ahead(s1, ss, l)
  BY <1>3, <1>4, <1>5, BeforeAhead
<1>8. Locks!Fine(s1, ops)
  <2>1. Locks!Follows("unlock", l, ss)
    BY DEF Locks!Follows
  <2> QED BY <2>1, <1>3, <1>4, <1>5, BeforeFine
<1>9. PICK s2 : s2 = Cons(o1, s1)
  OBVIOUS
<1>10. s2 \in Seq(Locks!Ops) /\ s2 # <<>> /\ Head(s2) = o1 /\ Tail(s2) = s1
  BY <1>3, <1>6, <1>9, Before
<1>11. Ahead(s2, s1, l)
  BY <1>3, <1>4, <1>6, <1>9, BeforeAhead
<1>12. Locks!Fine(s2, ops)
  <2>1. Locks!Follows("disown", l, s1)
    BY <1>2, <1>6 DEF Locks!Follows, Locks!Begins
  <2> QED BY <2>1, <1>3, <1>4, <1>6, <1>8, <1>9, BeforeFine
<1>13. Locks!In(s2, l)
  BY <1>3, <1>4, <1>6, <1>9, BeforeIn
<1>14. Ahead(s2, ss, l)
  BY <1>7, <1>11 DEF Ahead
<1>15. Locks!Begins(s2, <<"disown", l>>)
  BY <1>1, <1>10 DEF Locks!Begins
<1>16. Locks!Release(l) \o ss = s2
  <2>1. Locks!Release(l) = <<o1, o2>>
    BY <1>1, <1>2, Zenon DEF Locks!Release
  <2>2. <<o1, o2>> \o ss = s2
    BY <1>3, <1>5, <1>9, TwoBefore
  <2> QED BY <2>1, <2>2, Zenon
<1>17. Tail(Locks!Release(l)) \o ss = s1
  <2>1. Locks!Release(l) = <<o1, o2>>
    BY <1>1, <1>2, Zenon DEF Locks!Release
  <2>2. PICK vv : vv = Tail(<<o1, o2>>)
    OBVIOUS
  <2>3. PICK xx : xx = <<o2>>
    OBVIOUS
  <2>4. vv \in Seq(Locks!Ops) /\ Len(vv) = 1 /\ vv[1] = o2
    BY <2>2, <1>3
  <2>5. xx \in Seq(Locks!Ops) /\ Len(xx) = 1 /\ xx[1] = o2
    BY <2>3, <1>3
  <2>6. vv = xx
    <3>1. \A i \in 1 .. 1 : vv[i] = xx[i]
      BY <2>4, <2>5
    <3> QED BY <3>1, <2>4, <2>5, SeqEqual
  <2> QED BY <2>1, <2>2, <2>3, <2>6, <1>5, Zenon DEF Cons
<1> QED BY <1>10, <1>12, <1>13, <1>14, <1>15, <1>16, <1>17, Zenon

\* sched in front of the release of ptable.lock.
LEMMA SchedAhead ==
  ASSUME NEW ss \in Seq(Locks!Ops), Locks!Fine(ss, Locks!ThreadOps),
         Locks!Begins(ss, <<"disown", "ptable">>),
         \A m \in Locks!Locks \ {"ptable"} : Locks!Out(ss, m)
  PROVE  /\ Ahead(Locks!Sched \o ss, ss, "ptable") /\ Locks!In(Locks!Sched \o ss, "ptable")
         /\ Locks!Fine(Locks!Sched \o ss, Locks!ThreadOps)
         /\ Locks!Begins(Locks!Sched \o ss, <<"sched", "ptable">>)
<1>1. PICK o1 : o1 = <<"sched", "ptable">>
  OBVIOUS
<1>2. PICK o2 : o2 = <<"resume", "ptable">>
  OBVIOUS
<1>3. o1 \in Locks!Ops /\ o2 \in Locks!Ops
  BY <1>1, <1>2 DEF Locks!Ops
<1>4. /\ o1[1] = "sched" /\ o2[1] = "resume" /\ o1[2] = "ptable" /\ o2[2] = "ptable"
      /\ o1 \in Locks!ThreadOps /\ o2 \in Locks!ThreadOps
  BY <1>1, <1>2, <1>3 DEF Locks!ThreadOps
<1>5. PICK s1 : s1 = Cons(o2, ss)
  OBVIOUS
<1>6. s1 \in Seq(Locks!Ops) /\ s1 # <<>> /\ Head(s1) = o2
  BY <1>3, <1>5, Before
<1>7. Ahead(s1, ss, "ptable")
  BY <1>3, <1>4, <1>5, BeforeAhead
<1>8. Locks!Fine(s1, Locks!ThreadOps)
  <2>1. Locks!Follows("resume", "ptable", ss)
    BY DEF Locks!Follows
  <2> QED BY <2>1, <1>3, <1>4, <1>5, BeforeFine
<1>9. PICK s2 : s2 = Cons(o1, s1)
  OBVIOUS
<1>10. s2 \in Seq(Locks!Ops) /\ s2 # <<>> /\ Head(s2) = o1
  BY <1>3, <1>6, <1>9, Before
<1>11. Ahead(s2, s1, "ptable")
  BY <1>3, <1>4, <1>6, <1>9, BeforeAhead
<1>12. Locks!Fine(s2, Locks!ThreadOps)
  <2>1. \A m \in Locks!Locks \ {"ptable"} : Locks!Out(s1, m)
    BY <1>7 DEF Ahead
  <2>2. Locks!Follows("sched", "ptable", s1)
    BY <1>2, <1>6, <2>1 DEF Locks!Follows, Locks!Begins
  <2> QED BY <2>2, <1>3, <1>4, <1>6, <1>8, <1>9, BeforeFine
<1>13. Locks!In(s2, "ptable")
  BY <1>3, <1>4, <1>6, <1>9, BeforeIn
<1>14. Ahead(s2, ss, "ptable")
  BY <1>7, <1>11 DEF Ahead
<1>15. Locks!Begins(s2, <<"sched", "ptable">>)
  BY <1>1, <1>10 DEF Locks!Begins
<1>16. Locks!Sched \o ss = s2
  <2>1. Locks!Sched = <<o1, o2>>
    BY <1>1, <1>2, Zenon DEF Locks!Sched
  <2>2. <<o1, o2>> \o ss = s2
    BY <1>3, <1>5, <1>9, TwoBefore
  <2> QED BY <2>1, <2>2, Zenon
<1> QED BY <1>12, <1>13, <1>14, <1>15, <1>16, Zenon

-----------------------------------------------------------------------------
(* The kernel's paths, in front of one with no lock in hand.                *)
QuietPath(ss, ops) ==
  /\ ss \in Seq(Locks!Ops) /\ Locks!Fine(ss, ops)
  /\ \A m \in Locks!Locks : Locks!Out(ss, m)

Alike(uu, ss) == Locks!HasIret(uu) <=> Locks!HasIret(ss)

Both == {Locks!ThreadOps, Locks!SchedulerOps}

\* Threads and schedulers both acquire and release.
LEMMA Everybodys ==
  ASSUME NEW ops \in Both, NEW l \in Locks!Locks
  PROVE  /\ <<"pushcli", l>> \in ops /\ <<"xchg", l>> \in ops /\ <<"owner", l>> \in ops
         /\ <<"disown", l>> \in ops /\ <<"unlock", l>> \in ops
BY DEF Both, Locks!ThreadOps, Locks!SchedulerOps, Locks!Ops

\* The end of a path, in user mode or in the idle scheduler.
LEMMA EmptyQuiet == \A ops : QuietPath(<<>>, ops)
BY InOutEmpty DEF QuietPath

\* The first step of a path tells where it is with the lock of that step.
LEMMA BeginsIn ==
  ASSUME NEW ss \in Seq(Locks!Ops), NEW op \in Locks!Ops, Locks!Begins(ss, op)
  PROVE  /\ Locks!In(ss, op[2]) <=> op[1] \notin {"pushcli", "xchg"}
         /\ Locks!Out(ss, op[2]) <=> op[1] = "pushcli"
<1>1. PICK tt : tt = Tail(ss)
  OBVIOUS
<1>2. PICK l : l = op[2]
  OBVIOUS
<1>3. ss # <<>> /\ Head(ss) = op
  BY DEF Locks!Begins
<1>4. (Locks!In(ss, l) <=> op[1] \notin {"pushcli", "xchg"}) /\ (Locks!Out(ss, l) <=> op[1] = "pushcli")
  BY <1>1, <1>2, <1>3, InOutRest
<1> QED BY <1>2, <1>4

\* A path with no lock in hand begins with acquire or iret.
LEMMA QuietFirst ==
  ASSUME NEW ss, NEW ops, QuietPath(ss, ops)
  PROVE  Locks!First(ss) \in {"nothing", "pushcli", "iret"}
<1>1. ss \in Seq(Locks!Ops)
  BY DEF QuietPath
<1>2. CASE ss = <<>>
  BY <1>2 DEF Locks!First
<1>3. CASE ss # <<>>
  <2>1. PICK op : op = Head(ss)
    OBVIOUS
  <2>2. op \in Locks!Ops /\ Locks!Begins(ss, op)
    BY <1>1, <1>3, <2>1, HeadTailProperties DEF Locks!Begins
  <2>3. op[1] = "iret" \/ op[1] = "pushcli"
    BY <2>2, <1>1, OpPairs, BeginsIn DEF QuietPath
  <2> QED BY <1>3, <2>1, <2>3 DEF Locks!First
<1> QED BY <1>2, <1>3

\* The kernel's paths are sequences of operations.
LEMMA PathTypes ==
  /\ \A l \in Locks!Locks : Locks!Acquire(l) \in Seq(Locks!Ops) /\ Locks!Release(l) \in Seq(Locks!Ops)
  /\ Locks!Sched \in Seq(Locks!Ops) /\ Locks!Iret \in Seq(Locks!Ops)
<1>1. ASSUME NEW l \in Locks!Locks PROVE Locks!Acquire(l) \in Seq(Locks!Ops) /\ Locks!Release(l) \in Seq(Locks!Ops)
  <2>1. /\ <<"owner", l>> \in Locks!Ops /\ <<"xchg", l>> \in Locks!Ops /\ <<"pushcli", l>> \in Locks!Ops
        /\ <<"disown", l>> \in Locks!Ops /\ <<"unlock", l>> \in Locks!Ops
    BY DEF Locks!Ops
  <2> QED BY <2>1 DEF Locks!Acquire, Locks!Release
<1>2. /\ <<"sched", "ptable">> \in Locks!Ops /\ <<"resume", "ptable">> \in Locks!Ops /\ <<"iret", "none">> \in Locks!Ops
  BY DEF Locks!Ops
<1>3. Locks!Sched \in Seq(Locks!Ops) /\ Locks!Iret \in Seq(Locks!Ops)
  BY <1>2 DEF Locks!Sched, Locks!Iret
<1> QED BY <1>1, <1>3

\* Concatenation of paths is associative.
LEMMA Regroup ==
  ASSUME NEW aa \in Seq(Locks!Ops), NEW bb \in Seq(Locks!Ops), NEW cc \in Seq(Locks!Ops)
  PROVE  (aa \o bb) \o cc = aa \o (bb \o cc)
BY ConcatAssociative

\* acquire and release with nothing in between
LEMMA SectionQuiet ==
  ASSUME NEW ops \in Both, NEW l \in Locks!Locks, NEW ss, QuietPath(ss, ops)
  PROVE  /\ QuietPath(Locks!Acquire(l) \o (Locks!Release(l) \o ss), ops)
         /\ Alike(Locks!Acquire(l) \o (Locks!Release(l) \o ss), ss)
<1>1. ss \in Seq(Locks!Ops) /\ Locks!Fine(ss, ops) /\ \A m \in Locks!Locks : Locks!Out(ss, m)
  BY DEF QuietPath
<1>2. Locks!First(ss) \notin {"owner", "unlock", "resume"}
  BY QuietFirst
<1>3. PICK s1 : s1 = Locks!Release(l) \o ss
  OBVIOUS
<1>4. /\ Ahead(s1, ss, l) /\ Locks!In(s1, l) /\ Locks!Fine(s1, ops)
      /\ Locks!Begins(s1, <<"disown", l>>)
  BY <1>1, <1>2, <1>3, Everybodys, ReleaseAhead
<1>5. Locks!First(s1) \notin {"owner", "unlock", "resume"}
  BY <1>4 DEF Locks!Begins, Locks!First
<1>6. s1 \in Seq(Locks!Ops) /\ \A m \in Locks!Locks \ ({l} \cup Locks!Outer(l)) : Locks!Out(s1, m)
  BY <1>1, <1>4 DEF Ahead
<1>7. PICK s2 : s2 = Locks!Acquire(l) \o s1
  OBVIOUS
<1>8. Ahead(s2, s1, l) /\ Locks!Out(s2, l) /\ Locks!Fine(s2, ops)
  BY <1>4, <1>5, <1>6, <1>7, Everybodys, AcquireAhead
<1>9. QuietPath(s2, ops)
  BY <1>1, <1>4, <1>8 DEF QuietPath, Ahead
<1>10. Alike(s2, ss)
  BY <1>4, <1>8 DEF Alike, Ahead
<1> QED BY <1>3, <1>7, <1>9, <1>10, Zenon

\* release in front of a quiet path
LEMMA ReleaseQuiet ==
  ASSUME NEW ops \in Both, NEW l \in Locks!Locks, NEW ss, QuietPath(ss, ops), NEW s1, s1 = Locks!Release(l) \o ss
  PROVE  /\ s1 \in Seq(Locks!Ops) /\ Locks!Fine(s1, ops) /\ Alike(s1, ss)
         /\ Locks!In(s1, l) /\ \A m \in Locks!Locks \ {l} : Locks!Out(s1, m)
         /\ Locks!Begins(s1, <<"disown", l>>)
<1>1. ss \in Seq(Locks!Ops) /\ Locks!Fine(ss, ops) /\ \A m \in Locks!Locks : Locks!Out(ss, m)
  BY DEF QuietPath
<1>2. Locks!First(ss) \notin {"owner", "unlock", "resume"}
  BY QuietFirst
<1>3. /\ Ahead(s1, ss, l) /\ Locks!In(s1, l) /\ Locks!Fine(s1, ops)
      /\ Locks!Begins(s1, <<"disown", l>>)
  BY <1>1, <1>2, Everybodys, ReleaseAhead
<1> QED BY <1>1, <1>3 DEF Ahead, Alike

\* yield: sched between acquire and release of ptable.lock
LEMMA YieldQuiet ==
  ASSUME NEW ss, QuietPath(ss, Locks!ThreadOps)
  PROVE  QuietPath(Locks!Yield \o ss, Locks!ThreadOps) /\ Alike(Locks!Yield \o ss, ss)
<1>1. "ptable" \in Locks!Locks /\ Locks!ThreadOps \in Both
  BY DEF Locks!Locks, Both
<1>2. PICK s1 : s1 = Locks!Release("ptable") \o ss
  OBVIOUS
<1>3. /\ s1 \in Seq(Locks!Ops) /\ Locks!Fine(s1, Locks!ThreadOps) /\ Alike(s1, ss)
      /\ Locks!In(s1, "ptable") /\ \A m \in Locks!Locks \ {"ptable"} : Locks!Out(s1, m)
      /\ Locks!Begins(s1, <<"disown", "ptable">>)
  BY <1>1, <1>2, ReleaseQuiet
<1>4. PICK s2 : s2 = Locks!Sched \o s1
  OBVIOUS
<1>5. /\ Ahead(s2, s1, "ptable") /\ Locks!In(s2, "ptable")
      /\ Locks!Fine(s2, Locks!ThreadOps) /\ Locks!Begins(s2, <<"sched", "ptable">>)
  BY <1>3, <1>4, SchedAhead
<1>6. Locks!First(s2) \notin {"owner", "unlock", "resume"}
  BY <1>5 DEF Locks!Begins, Locks!First
<1>7. s2 \in Seq(Locks!Ops) /\ \A m \in Locks!Locks \ {"ptable"} : Locks!Out(s2, m)
  BY <1>3, <1>5 DEF Ahead
<1>8. PICK s3 : s3 = Locks!Acquire("ptable") \o s2
  OBVIOUS
<1>9. Ahead(s3, s2, "ptable") /\ Locks!Out(s3, "ptable") /\ Locks!Fine(s3, Locks!ThreadOps)
  BY <1>1, <1>5, <1>6, <1>7, <1>8, Everybodys, AcquireAhead
<1>10. QuietPath(s3, Locks!ThreadOps)
  BY <1>7, <1>9 DEF QuietPath, Ahead
<1>11. Alike(s3, ss)
  BY <1>3, <1>5, <1>9 DEF Alike, Ahead
<1>12. Locks!Yield \o ss = s3
  <2>1. PICK aa : aa = Locks!Acquire("ptable")
    OBVIOUS
  <2>2. PICK bb : bb = Locks!Sched
    OBVIOUS
  <2>3. PICK cc : cc = Locks!Release("ptable")
    OBVIOUS
  <2>4. aa \in Seq(Locks!Ops) /\ bb \in Seq(Locks!Ops) /\ cc \in Seq(Locks!Ops) /\ ss \in Seq(Locks!Ops)
    BY <1>1, <2>1, <2>2, <2>3, PathTypes DEF QuietPath
  <2>5. ((aa \o bb) \o cc) \o ss = aa \o (bb \o (cc \o ss))
    <3>1. PICK uu : uu = aa \o bb
      OBVIOUS
    <3>2. uu \in Seq(Locks!Ops)
      BY <3>1, <2>4, ConcatProperties
    <3>3. (uu \o cc) \o ss = uu \o (cc \o ss)
      BY <3>2, <2>4, Regroup
    <3>4. (aa \o bb) \o s1 = aa \o (bb \o s1)
      <4>1. aa \in Seq(Locks!Ops) /\ bb \in Seq(Locks!Ops) /\ s1 \in Seq(Locks!Ops)
        BY <2>4, <1>3
      <4> QED BY <4>1, Regroup
    <3> QED BY <3>1, <3>3, <3>4, <2>3, <1>2, Zenon
  <2> QED BY <2>1, <2>2, <2>3, <2>5, <1>2, <1>4, <1>8, Zenon DEF Locks!Yield
<1> QED BY <1>10, <1>11, <1>12, Zenon

\* ptable.lock inside of another lock: the timer's wakeup
LEMMA WakeupQuiet ==
  ASSUME NEW ops \in Both, NEW ss, QuietPath(ss, ops),
         NEW pp, pp = (Locks!Acquire("tickslock") \o Locks!Wakeup) \o Locks!Release("tickslock")
  PROVE  QuietPath(pp \o ss, ops) /\ Alike(pp \o ss, ss) /\ pp \in Seq(Locks!Ops)
<1>1. "ptable" \in Locks!Locks /\ "tickslock" \in Locks!Locks
  BY DEF Locks!Locks
<1>2. PICK s1 : s1 = Locks!Release("tickslock") \o ss
  OBVIOUS
<1>3. /\ s1 \in Seq(Locks!Ops) /\ Locks!Fine(s1, ops) /\ Alike(s1, ss)
      /\ Locks!In(s1, "tickslock") /\ \A m \in Locks!Locks \ {"tickslock"} : Locks!Out(s1, m)
      /\ Locks!Begins(s1, <<"disown", "tickslock">>)
  BY <1>1, <1>2, ReleaseQuiet
<1>4. Locks!Out(s1, "ptable") /\ Locks!First(s1) \notin {"owner", "unlock", "resume"}
  BY <1>1, <1>3 DEF Locks!Begins, Locks!First
<1>5. PICK s2 : s2 = Locks!Release("ptable") \o s1
  OBVIOUS
<1>6. /\ Ahead(s2, s1, "ptable") /\ Locks!In(s2, "ptable") /\ Locks!Fine(s2, ops)
      /\ Locks!Begins(s2, <<"disown", "ptable">>)
  BY <1>1, <1>3, <1>4, <1>5, Everybodys, ReleaseAhead
<1>7. Locks!First(s2) \notin {"owner", "unlock", "resume"}
  BY <1>6 DEF Locks!Begins, Locks!First
<1>8. s2 \in Seq(Locks!Ops)
  BY <1>6 DEF Ahead
<1>9. \A m \in Locks!Locks \ ({"ptable"} \cup Locks!Outer("ptable")) : Locks!Out(s2, m)
  BY <1>3, <1>6 DEF Ahead, Locks!Outer
<1>10. PICK s3 : s3 = Locks!Acquire("ptable") \o s2
  OBVIOUS
<1>11. /\ Ahead(s3, s2, "ptable") /\ Locks!Out(s3, "ptable") /\ Locks!Fine(s3, ops)
       /\ Locks!Begins(s3, <<"pushcli", "ptable">>)
  BY <1>1, <1>6, <1>7, <1>8, <1>9, <1>10, Everybodys, AcquireAhead
<1>12. Locks!First(s3) \notin {"owner", "unlock", "resume"}
  BY <1>11 DEF Locks!Begins, Locks!First
<1>13. s3 \in Seq(Locks!Ops) /\ Locks!In(s3, "tickslock")
  BY <1>3, <1>6, <1>11 DEF Ahead
<1>14. \A m \in Locks!Locks \ ({"tickslock"} \cup Locks!Outer("tickslock")) : Locks!Out(s3, m)
  BY <1>3, <1>6, <1>11 DEF Ahead
<1>15. PICK s4 : s4 = Locks!Acquire("tickslock") \o s3
  OBVIOUS
<1>16. Ahead(s4, s3, "tickslock") /\ Locks!Out(s4, "tickslock") /\ Locks!Fine(s4, ops)
  BY <1>1, <1>11, <1>12, <1>13, <1>14, <1>15, Everybodys, AcquireAhead
<1>17. QuietPath(s4, ops)
  BY <1>14, <1>16 DEF QuietPath, Ahead, Locks!Outer
<1>18. Alike(s4, ss)
  BY <1>3, <1>6, <1>11, <1>16 DEF Alike, Ahead
<1>19. pp \o ss = s4 /\ pp \in Seq(Locks!Ops)
  <2>1. PICK aa : aa = Locks!Acquire("tickslock")
    OBVIOUS
  <2>2. PICK bb : bb = Locks!Acquire("ptable")
    OBVIOUS
  <2>3. PICK cc : cc = Locks!Release("ptable")
    OBVIOUS
  <2>4. PICK dd : dd = Locks!Release("tickslock")
    OBVIOUS
  <2>5. PICK ww : ww = bb \o cc
    OBVIOUS
  <2>6. PICK vv : vv = aa \o ww
    OBVIOUS
  <2>7. /\ aa \in Seq(Locks!Ops) /\ bb \in Seq(Locks!Ops) /\ cc \in Seq(Locks!Ops) /\ dd \in Seq(Locks!Ops)
        /\ ss \in Seq(Locks!Ops)
    BY <1>1, <2>1, <2>2, <2>3, <2>4, PathTypes DEF QuietPath
  <2>8. ww \in Seq(Locks!Ops)
    BY <2>5, <2>7, ConcatProperties
  <2>9. vv \in Seq(Locks!Ops)
    BY <2>6, <2>7, <2>8, ConcatProperties
  <2>10. vv \o dd \in Seq(Locks!Ops)
    BY <2>7, <2>9, ConcatProperties
  <2>11. ((aa \o ww) \o dd) \o ss = aa \o (ww \o (dd \o ss))
    <3>1. (vv \o dd) \o ss = vv \o (dd \o ss)
      BY <2>7, <2>9, Regroup
    <3>2. (aa \o ww) \o s1 = aa \o (ww \o s1)
      <4>1. aa \in Seq(Locks!Ops) /\ ww \in Seq(Locks!Ops) /\ s1 \in Seq(Locks!Ops)
        BY <2>7, <2>8, <1>3
      <4> QED BY <4>1, Regroup
    <3> QED BY <3>1, <3>2, <2>4, <2>6, <1>2, Zenon
  <2>12. (bb \o cc) \o s1 = bb \o (cc \o s1)
    <3>1. bb \in Seq(Locks!Ops) /\ cc \in Seq(Locks!Ops) /\ s1 \in Seq(Locks!Ops)
      BY <2>7, <1>3
    <3> QED BY <3>1, Regroup
  <2>13. pp = vv \o dd
    BY <2>1, <2>2, <2>3, <2>4, <2>5, <2>6, Zenon DEF Locks!Wakeup
  <2>14. pp \o ss = aa \o (ww \o (dd \o ss))
    BY <2>6, <2>11, <2>13, Zenon
  <2> QED BY <2>1, <2>2, <2>3, <2>4, <2>5, <2>10, <2>12, <2>13, <2>14, <1>2, <1>5, <1>10, <1>15, Zenon
<1> QED BY <1>17, <1>18, <1>19, Zenon

\* Nothing in front of a path or behind it.
LEMMA NothingAfter ==
  ASSUME NEW aa \in Seq(Locks!Ops)
  PROVE  aa \o <<>> = aa /\ <<>> \o aa = aa
BY ConcatEmptySeq

\* uptime and kalloc
LEMMA UptimeQuiet ==
  ASSUME NEW ops \in Both, NEW l \in Locks!Locks
  PROVE  /\ QuietPath(Locks!Acquire(l) \o Locks!Release(l), ops)
         /\ ~Locks!HasIret(Locks!Acquire(l) \o Locks!Release(l))
<1>1. PICK rr : rr = Locks!Release(l)
  OBVIOUS
<1>2. rr \o <<>> = rr
  BY <1>1, PathTypes, NothingAfter
<1>3. /\ QuietPath(Locks!Acquire(l) \o (rr \o <<>>), ops)
      /\ Alike(Locks!Acquire(l) \o (rr \o <<>>), <<>>)
  BY <1>1, EmptyQuiet, SectionQuiet
<1>4. PICK uu : uu = Locks!Acquire(l) \o rr
  OBVIOUS
<1>5. QuietPath(uu, ops) /\ Alike(uu, <<>>)
  BY <1>2, <1>3, <1>4, Zenon
<1>6. ~Locks!HasIret(uu)
  BY <1>5, InOutEmpty DEF Alike
<1> QED BY <1>1, <1>4, <1>5, <1>6, Zenon

\* yield as a system call.
LEMMA YieldAlone == QuietPath(Locks!Yield, Locks!ThreadOps) /\ ~Locks!HasIret(Locks!Yield)
<1>1. PICK uu : uu = Locks!Yield
  OBVIOUS
<1>2. uu \in Seq(Locks!Ops)
  <2>1. PICK aa : aa = Locks!Acquire("ptable") \o Locks!Sched
    OBVIOUS
  <2>2. PICK bb : bb = Locks!Acquire("ptable")
    OBVIOUS
  <2>3. PICK cc : cc = Locks!Release("ptable")
    OBVIOUS
  <2>4. bb \in Seq(Locks!Ops) /\ cc \in Seq(Locks!Ops) /\ Locks!Sched \in Seq(Locks!Ops)
    BY <2>2, <2>3, PathTypes DEF Locks!Locks
  <2>5. aa \in Seq(Locks!Ops)
    BY <2>1, <2>2, <2>4, ConcatProperties
  <2>6. aa \o cc \in Seq(Locks!Ops)
    BY <2>4, <2>5, ConcatProperties
  <2> QED BY <2>1, <2>3, <2>6, <1>1, Zenon DEF Locks!Yield
<1>3. uu \o <<>> = uu
  BY <1>2, NothingAfter
<1>4. QuietPath(uu \o <<>>, Locks!ThreadOps) /\ Alike(uu \o <<>>, <<>>)
  BY <1>1, EmptyQuiet, YieldQuiet
<1>5. QuietPath(uu, Locks!ThreadOps) /\ Alike(uu, <<>>)
  BY <1>3, <1>4, Zenon
<1>6. ~Locks!HasIret(uu)
  BY <1>5, InOutEmpty DEF Alike
<1> QED BY <1>1, <1>5, <1>6, Zenon

\* exit, which ends in the middle of a critical section
LEMMA ExitQuiet == QuietPath(Locks!Exit, Locks!ThreadOps) /\ ~Locks!HasIret(Locks!Exit)
<1>1. PICK op : op = <<"exit", "ptable">>
  OBVIOUS
<1>2. op \in Locks!Ops /\ op[1] = "exit" /\ op[2] = "ptable" /\ op \in Locks!ThreadOps
  BY <1>1 DEF Locks!Ops, Locks!ThreadOps
<1>3. PICK s1 : s1 = Cons(op, <<>>)
  OBVIOUS
<1>4. s1 = <<op>>
  <2>1. <<op>> \in Seq(Locks!Ops)
    BY <1>2
  <2>2. PICK vv : vv = <<op>>
    OBVIOUS
  <2>3. vv \o <<>> = vv
    BY <2>1, <2>2, NothingAfter
  <2> QED BY <2>2, <2>3, <1>3, Zenon DEF Cons
<1>5. s1 \in Seq(Locks!Ops) /\ s1 # <<>> /\ Head(s1) = op
  BY <1>2, <1>3, InOutEmpty, Before
<1>6. Ahead(s1, <<>>, "ptable") /\ Locks!In(s1, "ptable")
  BY <1>2, <1>3, InOutEmpty, BeforeAhead, BeforeIn
<1>7. Locks!Fine(s1, Locks!ThreadOps)
  <2>1. Locks!Follows("exit", "ptable", <<>>)
    BY DEF Locks!Follows
  <2> QED BY <2>1, <1>2, <1>3, InOutEmpty, BeforeFine
<1>8. PICK uu : uu = Locks!Acquire("ptable") \o s1
  OBVIOUS
<1>9. Ahead(uu, s1, "ptable") /\ Locks!Out(uu, "ptable") /\ Locks!Fine(uu, Locks!ThreadOps)
  <2>1. "ptable" \in Locks!Locks /\ Locks!ThreadOps \in Both
    BY DEF Locks!Locks, Both
  <2>2. Locks!First(s1) \notin {"owner", "unlock", "resume"}
    BY <1>1, <1>5 DEF Locks!Begins, Locks!First
  <2>3. \A m \in Locks!Locks \ ({"ptable"} \cup Locks!Outer("ptable")) : Locks!Out(s1, m)
    BY <1>6, InOutEmpty DEF Ahead
  <2> QED BY <2>1, <2>2, <2>3, <1>5, <1>6, <1>7, <1>8, Everybodys, AcquireAhead
<1>10. QuietPath(uu, Locks!ThreadOps) /\ ~Locks!HasIret(uu)
  BY <1>6, <1>9, InOutEmpty DEF QuietPath, Ahead
<1>11. Locks!Exit = uu
  BY <1>1, <1>4, <1>8, Zenon DEF Locks!Exit
<1> QED BY <1>10, <1>11, Zenon

\* The return from a trap.
LEMMA IretQuiet ==
  ASSUME NEW ops \in Both, NEW ss, QuietPath(ss, ops), ss = Locks!Iret \/ ~Locks!HasIret(ss)
  PROVE  QuietPath(Locks!Iret \o ss, ops) /\ Locks!HasIret(Locks!Iret \o ss)
<1>1. PICK op : op = <<"iret", "none">>
  OBVIOUS
<1>2. op \in Locks!Ops /\ op[1] = "iret" /\ op[2] = "none" /\ op \in ops
  BY <1>1 DEF Locks!Ops, Both, Locks!ThreadOps, Locks!SchedulerOps
<1>3. PICK uu : uu = Cons(op, ss)
  OBVIOUS
<1>4. ss \in Seq(Locks!Ops) /\ Locks!Fine(ss, ops)
  BY DEF QuietPath
<1>5. uu \in Seq(Locks!Ops) /\ Locks!HasIret(uu)
  BY <1>2, <1>3, <1>4, Before
<1>6. \A m : m # "none" => (Locks!Out(uu, m) <=> Locks!Out(ss, m))
  BY <1>2, <1>3, <1>4, Before
<1>7. Locks!Fine(uu, ops)
  <2>1. Locks!Follows("iret", "none", ss)
    BY DEF Locks!Follows, QuietPath
  <2> QED BY <2>1, <1>2, <1>3, <1>4, BeforeFine
<1>8. QuietPath(uu, ops)
  BY <1>5, <1>6, <1>7 DEF QuietPath, Locks!Locks
<1>9. uu = Locks!Iret \o ss
  BY <1>1, <1>3, Zenon DEF Cons, Locks!Iret
<1> QED BY <1>5, <1>8, <1>9, Zenon

\* The return from a trap to user mode.
LEMMA IretAlone ==
  ASSUME NEW ops \in Both
  PROVE  QuietPath(Locks!Iret, ops) /\ Locks!HasIret(Locks!Iret)
<1>1. PICK uu : uu = Locks!Iret
  OBVIOUS
<1>2. uu \o <<>> = uu
  BY <1>1, PathTypes, NothingAfter
<1>3. QuietPath(uu \o <<>>, ops) /\ Locks!HasIret(uu \o <<>>)
  BY <1>1, EmptyQuiet, InOutEmpty, IretQuiet
<1> QED BY <1>1, <1>2, <1>3, Zenon

\* The page fault: kalloc, then the return to user mode.
LEMMA KallocInTrap ==
  /\ QuietPath(Locks!Kalloc \o Locks!Iret, Locks!ThreadOps)
  /\ Locks!HasIret(Locks!Kalloc \o Locks!Iret)
<1>1. "kmem" \in Locks!Locks /\ Locks!ThreadOps \in Both
  BY DEF Locks!Locks, Both
<1>2. PICK aa : aa = Locks!Acquire("kmem")
  OBVIOUS
<1>3. PICK bb : bb = Locks!Release("kmem")
  OBVIOUS
<1>4. PICK cc : cc = Locks!Iret
  OBVIOUS
<1>5. aa \in Seq(Locks!Ops) /\ bb \in Seq(Locks!Ops) /\ cc \in Seq(Locks!Ops)
  BY <1>1, <1>2, <1>3, <1>4, PathTypes
<1>6. (aa \o bb) \o cc = aa \o (bb \o cc)
  BY <1>5, Regroup
<1>7. QuietPath(cc, Locks!ThreadOps) /\ Locks!HasIret(cc)
  BY <1>1, <1>4, IretAlone
<1>8. PICK uu : uu = aa \o (bb \o cc)
  OBVIOUS
<1>9. QuietPath(uu, Locks!ThreadOps) /\ Alike(uu, cc)
  BY <1>1, <1>2, <1>3, <1>7, <1>8, SectionQuiet
<1>10. Locks!HasIret(uu)
  BY <1>7, <1>9 DEF Alike
<1>11. Locks!Kalloc \o Locks!Iret = uu
  BY <1>2, <1>3, <1>4, <1>6, <1>8, Zenon DEF Locks!Kalloc
<1> QED BY <1>9, <1>10, <1>11, Zenon

\* Where a child of fork begins.
LEMMA ForkretPath ==
  /\ Locks!Forkret \in Seq(Locks!Ops) /\ Locks!Fine(Locks!Forkret, Locks!ThreadOps)
  /\ Locks!HasIret(Locks!Forkret)
  /\ Locks!In(Locks!Forkret, "ptable") /\ \A m \in Locks!Locks \ {"ptable"} : Locks!Out(Locks!Forkret, m)
  /\ Locks!Begins(Locks!Forkret, <<"disown", "ptable">>)
<1>1. "ptable" \in Locks!Locks /\ Locks!ThreadOps \in Both
  BY DEF Locks!Locks, Both
<1>2. PICK uu : uu = Locks!Forkret
  OBVIOUS
<1>3. PICK ss : ss = Locks!Iret
  OBVIOUS
<1>4. uu = Locks!Release("ptable") \o ss
  BY <1>2, <1>3, Zenon DEF Locks!Forkret
<1>5. QuietPath(ss, Locks!ThreadOps) /\ Locks!HasIret(ss)
  BY <1>1, <1>3, IretAlone
<1>6. /\ uu \in Seq(Locks!Ops) /\ Locks!Fine(uu, Locks!ThreadOps) /\ Alike(uu, ss)
      /\ Locks!In(uu, "ptable") /\ \A m \in Locks!Locks \ {"ptable"} : Locks!Out(uu, m)
      /\ Locks!Begins(uu, <<"disown", "ptable">>)
  BY <1>1, <1>4, <1>5, ReleaseQuiet
<1>7. Locks!HasIret(uu)
  BY <1>5, <1>6 DEF Alike
<1> QED BY <1>2, <1>6, <1>7, Zenon

\* A round of the scheduler.
LEMMA SchedulerQuiet == QuietPath(Locks!Scheduler, Locks!SchedulerOps) /\ ~Locks!HasIret(Locks!Scheduler)
<1>1. "ptable" \in Locks!Locks /\ Locks!SchedulerOps \in Both
  BY DEF Locks!Locks, Both
<1>2. PICK op : op = <<"loop", "ptable">>
  OBVIOUS
<1>3. op \in Locks!Ops /\ op[1] = "loop" /\ op[2] = "ptable" /\ op \in Locks!SchedulerOps
  BY <1>2 DEF Locks!Ops, Locks!SchedulerOps
<1>4. PICK aa : aa = Locks!Acquire("ptable")
  OBVIOUS
<1>5. PICK bb : bb = <<op>>
  OBVIOUS
<1>6. PICK cc : cc = Locks!Release("ptable")
  OBVIOUS
<1>7. aa \in Seq(Locks!Ops) /\ bb \in Seq(Locks!Ops) /\ cc \in Seq(Locks!Ops)
  BY <1>1, <1>3, <1>4, <1>5, <1>6, PathTypes
<1>8. cc = Locks!Release("ptable") \o <<>>
  BY <1>6, <1>7, NothingAfter, Zenon
<1>9. /\ Locks!Fine(cc, Locks!SchedulerOps) /\ Alike(cc, <<>>)
      /\ Locks!In(cc, "ptable") /\ \A m \in Locks!Locks \ {"ptable"} : Locks!Out(cc, m)
      /\ Locks!Begins(cc, <<"disown", "ptable">>)
  BY <1>1, <1>8, EmptyQuiet, ReleaseQuiet
<1>10. ~Locks!HasIret(cc)
  BY <1>9, InOutEmpty DEF Alike
<1>11. PICK s1 : s1 = Cons(op, cc)
  OBVIOUS
<1>12. s1 \in Seq(Locks!Ops) /\ s1 # <<>> /\ Head(s1) = op
  BY <1>3, <1>7, <1>11, Before
<1>13. Ahead(s1, cc, "ptable") /\ Locks!In(s1, "ptable")
  BY <1>3, <1>7, <1>11, BeforeAhead, BeforeIn
<1>14. Locks!Fine(s1, Locks!SchedulerOps)
  <2>1. Locks!Follows("loop", "ptable", cc)
    BY <1>9, <1>10 DEF Locks!Follows
  <2> QED BY <2>1, <1>3, <1>7, <1>9, <1>11, BeforeFine
<1>15. PICK uu : uu = aa \o s1
  OBVIOUS
<1>16. Ahead(uu, s1, "ptable") /\ Locks!Out(uu, "ptable") /\ Locks!Fine(uu, Locks!SchedulerOps)
  <2>1. Locks!First(s1) \notin {"owner", "unlock", "resume"}
    BY <1>2, <1>12 DEF Locks!Begins, Locks!First
  <2>2. \A m \in Locks!Locks \ ({"ptable"} \cup Locks!Outer("ptable")) : Locks!Out(s1, m)
    BY <1>9, <1>13 DEF Ahead
  <2> QED BY <2>1, <2>2, <1>1, <1>4, <1>12, <1>13, <1>14, <1>15, Everybodys, AcquireAhead
<1>17. QuietPath(uu, Locks!SchedulerOps) /\ ~Locks!HasIret(uu)
  BY <1>9, <1>10, <1>13, <1>16 DEF QuietPath, Ahead
<1>18. Locks!Scheduler = uu
  <2>1. (aa \o bb) \o cc = aa \o (bb \o cc)
    BY <1>7, Regroup
  <2> QED BY <2>1, <1>2, <1>4, <1>5, <1>6, <1>11, <1>15, Zenon DEF Locks!Scheduler, Cons
<1> QED BY <1>17, <1>18, Zenon

\* The timer's handler in front of what it interrupts.
LEMMA TimerQuiet ==
  ASSUME NEW ops \in Both, NEW ss, QuietPath(ss, ops), ss = Locks!Iret \/ ~Locks!HasIret(ss),
         NEW c \in CPUs, run[c] # NoThread => ops = Locks!ThreadOps
  PROVE  QuietPath(Locks!Timer(c) \o ss, ops) /\ Locks!HasIret(Locks!Timer(c) \o ss)
<1>1. PICK tick : tick = (Locks!Acquire("tickslock") \o Locks!Wakeup) \o Locks!Release("tickslock")
  OBVIOUS
<1>2. PICK aa : aa = IF c = BootCpu THEN tick ELSE <<>>
  OBVIOUS
<1>3. PICK bb : bb = IF run[c] # NoThread THEN Locks!Yield ELSE <<>>
  OBVIOUS
<1>4. PICK cc : cc = Locks!Iret
  OBVIOUS
<1>5. PICK s1 : s1 = cc \o ss
  OBVIOUS
<1>6. QuietPath(s1, ops) /\ Locks!HasIret(s1)
  BY <1>4, <1>5, IretQuiet
<1>7. PICK s2 : s2 = bb \o s1
  OBVIOUS
<1>8. s1 \in Seq(Locks!Ops)
  BY <1>6 DEF QuietPath
<1>9. QuietPath(s2, ops) /\ Locks!HasIret(s2) /\ bb \in Seq(Locks!Ops)
  <2>1. CASE run[c] # NoThread
    <3>1. bb = Locks!Yield /\ ops = Locks!ThreadOps
      BY <2>1, <1>3
    <3>2. QuietPath(s2, ops) /\ Alike(s2, s1)
      BY <3>1, <1>6, <1>7, YieldQuiet
    <3>3. bb \in Seq(Locks!Ops)
      BY <3>1, YieldAlone DEF QuietPath
    <3> QED BY <3>2, <3>3, <1>6 DEF Alike
  <2>2. CASE run[c] = NoThread
    <3>1. bb = <<>>
      BY <2>2, <1>3
    <3>2. s2 = s1
      BY <3>1, <1>7, <1>8, NothingAfter, Zenon
    <3> QED BY <3>1, <3>2, <1>6, InOutEmpty
  <2> QED BY <2>1, <2>2
<1>10. PICK s3 : s3 = aa \o s2
  OBVIOUS
<1>11. s2 \in Seq(Locks!Ops)
  BY <1>9 DEF QuietPath
<1>12. QuietPath(s3, ops) /\ Locks!HasIret(s3) /\ aa \in Seq(Locks!Ops)
  <2>1. CASE c = BootCpu
    <3>1. aa = tick
      BY <2>1, <1>2
    <3>2. QuietPath(s3, ops) /\ Alike(s3, s2) /\ aa \in Seq(Locks!Ops)
      BY <3>1, <1>1, <1>9, <1>10, WakeupQuiet
    <3> QED BY <3>2, <1>9 DEF Alike
  <2>2. CASE c # BootCpu
    <3>1. aa = <<>>
      BY <2>2, <1>2
    <3>2. s3 = s2
      BY <3>1, <1>10, <1>11, NothingAfter, Zenon
    <3> QED BY <3>1, <3>2, <1>9, InOutEmpty
  <2> QED BY <2>1, <2>2
<1>13. Locks!Timer(c) \o ss = s3
  <2>1. Locks!Timer(c) = (aa \o bb) \o cc
    BY <1>1, <1>2, <1>3, <1>4, Zenon DEF Locks!Timer
  <2>2. cc \in Seq(Locks!Ops) /\ ss \in Seq(Locks!Ops)
    BY <1>4, PathTypes DEF QuietPath
  <2>3. PICK uu : uu = aa \o bb
    OBVIOUS
  <2>4. uu \in Seq(Locks!Ops)
    BY <2>3, <1>9, <1>12, ConcatProperties
  <2>5. (uu \o cc) \o ss = uu \o (cc \o ss)
    BY <2>2, <2>4, Regroup
  <2>6. (aa \o bb) \o s1 = aa \o (bb \o s1)
    <3>1. aa \in Seq(Locks!Ops) /\ bb \in Seq(Locks!Ops)
      BY <1>9, <1>12
    <3> QED BY <3>1, <1>8, Regroup
  <2> QED BY <2>1, <2>3, <2>5, <2>6, <1>5, <1>7, <1>10, Zenon
<1> QED BY <1>12, <1>13, Zenon

\* sleep, from acquire of tickslock to its release, with ptable.lock taken over
\* from it and back
LEMMA SleepQuiet == QuietPath(Locks!Sleep, Locks!ThreadOps) /\ ~Locks!HasIret(Locks!Sleep)
<1>1. "ptable" \in Locks!Locks /\ "tickslock" \in Locks!Locks /\ Locks!ThreadOps \in Both
  BY DEF Locks!Locks, Both
<1>2. PICK ta : ta = Locks!Acquire("tickslock")
  OBVIOUS
<1>3. PICK tr : tr = Locks!Release("tickslock")
  OBVIOUS
<1>4. PICK pa : pa = Locks!Acquire("ptable")
  OBVIOUS
<1>5. PICK pr : pr = Locks!Release("ptable")
  OBVIOUS
<1>6. PICK sd : sd = Locks!Sched
  OBVIOUS
<1>7. /\ ta \in Seq(Locks!Ops) /\ tr \in Seq(Locks!Ops) /\ pa \in Seq(Locks!Ops) /\ pr \in Seq(Locks!Ops)
      /\ sd \in Seq(Locks!Ops)
  BY <1>1, <1>2, <1>3, <1>4, <1>5, <1>6, PathTypes
<1>8. PICK s0 : s0 = ta \o tr
  OBVIOUS
<1>9. QuietPath(s0, Locks!ThreadOps) /\ ~Locks!HasIret(s0)
  BY <1>1, <1>2, <1>3, <1>8, UptimeQuiet
<1>10. PICK s1 : s1 = pr \o s0
  OBVIOUS
<1>11. /\ s1 \in Seq(Locks!Ops) /\ Locks!Fine(s1, Locks!ThreadOps) /\ Alike(s1, s0)
       /\ Locks!In(s1, "ptable") /\ \A m \in Locks!Locks \ {"ptable"} : Locks!Out(s1, m)
       /\ Locks!Begins(s1, <<"disown", "ptable">>)
  BY <1>1, <1>5, <1>9, <1>10, ReleaseQuiet
<1>12. PICK s2 : s2 = sd \o s1
  OBVIOUS
<1>13. /\ Ahead(s2, s1, "ptable") /\ Locks!In(s2, "ptable")
       /\ Locks!Fine(s2, Locks!ThreadOps) /\ Locks!Begins(s2, <<"sched", "ptable">>)
  BY <1>6, <1>11, <1>12, SchedAhead
<1>14. s2 \in Seq(Locks!Ops) /\ Locks!Out(s2, "tickslock") /\ Locks!First(s2) \notin {"owner", "unlock", "resume"}
  BY <1>1, <1>11, <1>13 DEF Ahead, Locks!Begins, Locks!First
<1>15. PICK s3 : s3 = tr \o s2
  OBVIOUS
<1>16. /\ Ahead(s3, s2, "tickslock") /\ Locks!In(s3, "tickslock") /\ Locks!Fine(s3, Locks!ThreadOps)
       /\ Locks!Begins(s3, <<"disown", "tickslock">>)
  BY <1>1, <1>3, <1>13, <1>14, <1>15, Everybodys, ReleaseAhead
<1>17. PICK s4 : s4 = pa \o s3
  OBVIOUS
<1>18. /\ Ahead(s4, s3, "ptable") /\ Locks!Out(s4, "ptable") /\ Locks!Fine(s4, Locks!ThreadOps)
       /\ Locks!Begins(s4, <<"pushcli", "ptable">>)
  <2>1. Locks!First(s3) \notin {"owner", "unlock", "resume"}
    BY <1>16 DEF Locks!Begins, Locks!First
  <2>2. s3 \in Seq(Locks!Ops) /\ Locks!In(s3, "ptable")
    BY <1>13, <1>16 DEF Ahead
  <2>3. \A m \in Locks!Locks \ ({"ptable"} \cup Locks!Outer("ptable")) : Locks!Out(s3, m)
    BY <1>11, <1>13, <1>16 DEF Ahead, Locks!Outer
  <2> QED BY <2>1, <2>2, <2>3, <1>1, <1>4, <1>16, <1>17, Everybodys, AcquireAhead
<1>19. PICK s5 : s5 = ta \o s4
  OBVIOUS
<1>20. s4 \in Seq(Locks!Ops) /\ Locks!In(s4, "tickslock") /\ \A m \in Locks!Locks \ {"tickslock"} : Locks!Out(s4, m)
  BY <1>11, <1>13, <1>16, <1>18 DEF Ahead, Locks!Locks
<1>21. Ahead(s5, s4, "tickslock") /\ Locks!Out(s5, "tickslock") /\ Locks!Fine(s5, Locks!ThreadOps)
  <2>1. Locks!First(s4) \notin {"owner", "unlock", "resume"}
    BY <1>18 DEF Locks!Begins, Locks!First
  <2>2. \A m \in Locks!Locks \ ({"tickslock"} \cup Locks!Outer("tickslock")) : Locks!Out(s4, m)
    BY <1>20
  <2> QED BY <2>1, <2>2, <1>1, <1>2, <1>18, <1>19, <1>20, Everybodys, AcquireAhead
<1>22. QuietPath(s5, Locks!ThreadOps)
  BY <1>20, <1>21 DEF QuietPath, Ahead
<1>23. ~Locks!HasIret(s5)
  BY <1>9, <1>11, <1>13, <1>16, <1>18, <1>21 DEF Alike, Ahead
<1>24. Locks!Sleep = s5
  <2>1. PICK x1 : x1 = ta \o pa
    OBVIOUS
  <2>2. PICK x2 : x2 = x1 \o tr
    OBVIOUS
  <2>3. PICK x3 : x3 = x2 \o sd
    OBVIOUS
  <2>4. PICK x4 : x4 = x3 \o pr
    OBVIOUS
  <2>5. x1 \in Seq(Locks!Ops)
    BY <2>1, <1>7, ConcatProperties
  <2>6. x2 \in Seq(Locks!Ops)
    BY <2>2, <2>5, <1>7, ConcatProperties
  <2>7. x3 \in Seq(Locks!Ops)
    BY <2>3, <2>6, <1>7, ConcatProperties
  <2>8. x4 \in Seq(Locks!Ops)
    BY <2>4, <2>7, <1>7, ConcatProperties
  <2>9. (x4 \o ta) \o tr = x4 \o (ta \o tr)
    BY <2>8, <1>7, Regroup
  <2>10. (x3 \o pr) \o s0 = x3 \o (pr \o s0)
    <3>1. s0 \in Seq(Locks!Ops) /\ pr \in Seq(Locks!Ops)
      BY <1>7, <1>9 DEF QuietPath
    <3> QED BY <3>1, <2>7, Regroup
  <2>11. (x2 \o sd) \o s1 = x2 \o (sd \o s1)
    <3>1. s1 \in Seq(Locks!Ops) /\ sd \in Seq(Locks!Ops)
      BY <1>7, <1>11
    <3> QED BY <3>1, <2>6, Regroup
  <2>12. (x1 \o tr) \o s2 = x1 \o (tr \o s2)
    <3>1. s2 \in Seq(Locks!Ops) /\ tr \in Seq(Locks!Ops)
      BY <1>7, <1>14
    <3> QED BY <3>1, <2>5, Regroup
  <2>13. (ta \o pa) \o s3 = ta \o (pa \o s3)
    <3>1. s3 \in Seq(Locks!Ops) /\ ta \in Seq(Locks!Ops) /\ pa \in Seq(Locks!Ops)
      BY <1>7, <1>16 DEF Ahead
    <3> QED BY <3>1, Regroup
  <2>14. Locks!Sleep = (x4 \o ta) \o tr
    BY <2>1, <2>2, <2>3, <2>4, <1>2, <1>3, <1>4, <1>5, <1>6, Zenon DEF Locks!Sleep
  <2>15. Locks!Sleep = x3 \o s1
    BY <2>4, <2>9, <2>10, <2>14, <1>8, <1>10, Zenon
  <2>16. Locks!Sleep = x1 \o s3
    BY <2>2, <2>3, <2>11, <2>12, <2>15, <1>12, <1>15, Zenon
  <2> QED BY <2>1, <2>13, <2>16, <1>17, <1>19, Zenon
<1> QED BY <1>22, <1>23, <1>24, Zenon

\* What a process does in a system call.
LEMMA CallsQuiet ==
  ASSUME NEW path \in {Locks!Uptime, Locks!Sleep, Locks!Yield, Locks!Kalloc, Locks!Exit}
  PROVE  QuietPath(path, Locks!ThreadOps) /\ ~Locks!HasIret(path)
<1>1. Locks!ThreadOps \in Both /\ "tickslock" \in Locks!Locks /\ "kmem" \in Locks!Locks
  BY DEF Both, Locks!Locks
<1>2. CASE path = Locks!Uptime
  BY <1>1, <1>2, UptimeQuiet DEF Locks!Uptime
<1>3. CASE path = Locks!Kalloc
  BY <1>1, <1>3, UptimeQuiet DEF Locks!Kalloc
<1>4. CASE path \in {Locks!Sleep, Locks!Yield, Locks!Exit}
  BY <1>4, SleepQuiet, YieldAlone, ExitQuiet, Zenon
<1> QED BY <1>2, <1>3, <1>4

-----------------------------------------------------------------------------
(* The state of a CPU and its paths.                                        *)
OpsOf(c) == IF run[c] = NoThread THEN Locks!SchedulerOps ELSE Locks!ThreadOps

\* Two CPUs never follow the same path.
LEMMA Contexts ==
  ASSUME Locks!IInv, NEW c \in CPUs
  PROVE  /\ run[c] \in Threads \cup {NoThread} /\ Locks!Context(c) \in CPUs \cup Threads
         /\ run[c] = NoThread => Locks!Context(c) = c
         /\ run[c] # NoThread => Locks!Context(c) = run[c] /\ run[c] \in Threads
         /\ \A d \in CPUs : d # c => Locks!Context(d) # Locks!Context(c)
BY LocksConstants DEF Locks!IInv, Locks!TypeOK, Locks!RunInv, Locks!Context

\* What a CPU has to do is left of a path of its kind.
LEMMA TodoFine ==
  ASSUME Locks!IInv, NEW c \in CPUs
  PROVE  /\ Locks!Todo(c) \in Seq(Locks!Ops) /\ Locks!Fine(Locks!Todo(c), OpsOf(c))
         /\ OpsOf(c) \in Both
<1>1. /\ run[c] \in Threads \cup {NoThread} /\ Locks!Context(c) \in CPUs \cup Threads
      /\ run[c] = NoThread => Locks!Context(c) = c
      /\ run[c] # NoThread => Locks!Context(c) = run[c] /\ run[c] \in Threads
  BY Contexts
<1>2. /\ code \in [CPUs \cup Threads -> Seq(Locks!Ops)]
      /\ \A d \in CPUs : Locks!Fine(code[d], Locks!SchedulerOps)
      /\ \A t \in Threads : Locks!Fine(code[t], Locks!ThreadOps)
  BY DEF Locks!IInv, Locks!CodeInv
<1> QED BY <1>1, <1>2 DEF Locks!Todo, OpsOf, Both

\* The first step of a path and what it leaves.
LEMMA HeadFacts ==
  ASSUME Locks!IInv, NEW c \in CPUs, NEW o, NEW l, Locks!At(c, o, l), NEW tt, tt = Tail(Locks!Todo(c))
  PROVE  /\ <<o, l>> \in Locks!Ops /\ <<o, l>> \in OpsOf(c)
         /\ tt \in Seq(Locks!Ops) /\ Locks!Follows(o, l, tt) /\ Locks!Fine(tt, OpsOf(c))
         /\ Locks!Inside(c, l) <=> o \notin {"pushcli", "xchg"}
         /\ Locks!Out(Locks!Todo(c), l) <=> o = "pushcli"
         /\ \A m : m # l => (Locks!Inside(c, m) <=> Locks!In(tt, m))
                          /\ (Locks!Out(Locks!Todo(c), m) <=> Locks!Out(tt, m))
         /\ Locks!HasIret(Locks!Todo(c)) <=> o = "iret" \/ Locks!HasIret(tt)
<1>1. PICK ss : ss = Locks!Todo(c)
  OBVIOUS
<1>2. PICK op : op = <<o, l>>
  OBVIOUS
<1>3. op[1] = o /\ op[2] = l
  BY <1>2
<1>4. PICK ops : ops = OpsOf(c)
  OBVIOUS
<1>5. ss \in Seq(Locks!Ops) /\ Locks!Fine(ss, ops)
  BY <1>1, <1>4, TodoFine
<1>6. ss # <<>> /\ Head(ss) = op /\ Tail(ss) = tt
  BY <1>1, <1>2 DEF Locks!At
<1>7. tt \in Seq(Locks!Ops) /\ op \in Locks!Ops
  BY <1>5, <1>6, HeadTailProperties
<1>8. op \in ops /\ Locks!Follows(op[1], op[2], tt) /\ Locks!Fine(tt, ops)
  BY <1>5, <1>6, FineRest
<1>9. \A m : /\ op[2] = m => (Locks!In(ss, m) <=> op[1] \notin {"pushcli", "xchg"})
                             /\ (Locks!Out(ss, m) <=> op[1] = "pushcli")
             /\ op[2] # m => (Locks!In(ss, m) <=> Locks!In(tt, m)) /\ (Locks!Out(ss, m) <=> Locks!Out(tt, m))
             /\ Locks!HasIret(ss) <=> op[1] = "iret" \/ Locks!HasIret(tt)
  BY <1>5, <1>6, InOutRest
<1>10. \A m : Locks!Inside(c, m) <=> Locks!In(ss, m)
  BY <1>1 DEF Locks!Inside
<1>11. /\ Locks!In(ss, l) <=> o \notin {"pushcli", "xchg"}
       /\ Locks!Out(ss, l) <=> o = "pushcli"
       /\ Locks!HasIret(ss) <=> o = "iret" \/ Locks!HasIret(tt)
  BY <1>3, <1>9
<1>12. \A m : m # l => (Locks!In(ss, m) <=> Locks!In(tt, m)) /\ (Locks!Out(ss, m) <=> Locks!Out(tt, m))
  BY <1>3, <1>9
<1>13. Locks!Follows(o, l, tt)
  BY <1>3, <1>8
<1> QED BY <1>1, <1>2, <1>4, <1>7, <1>8, <1>10, <1>11, <1>12, <1>13

\* What a CPU is at, by the first operation of its path.
Noted(c, l) == Locks!Inside(c, l) /\ ~Locks!At(c, "owner", l) /\ ~Locks!At(c, "unlock", l)

\* A CPU is at one step of one lock.
LEMMA AtOne ==
  ASSUME NEW c, NEW o, NEW l, Locks!At(c, o, l), NEW o2, NEW m
  PROVE  Locks!At(c, o2, m) <=> o2 = o /\ m = l
BY DEF Locks!At

\* A lock that a CPU has yet to acquire.
LEMMA OutView ==
  ASSUME NEW c, NEW m, Locks!Todo(c) \in Seq(Locks!Ops), m # "none", Locks!Out(Locks!Todo(c), m)
  PROVE  ~Locks!Inside(c, m) /\ ~Locks!At(c, "xchg", m) /\ ~Noted(c, m)
<1>1. ~Locks!Inside(c, m)
  BY OutIsNotIn DEF Locks!Inside
<1>2. ~Locks!At(c, "xchg", m)
  <2> SUFFICES ASSUME Locks!At(c, "xchg", m) PROVE FALSE
    OBVIOUS
  <2>1. PICK op : op = <<"xchg", m>>
    OBVIOUS
  <2>2. Locks!Begins(Locks!Todo(c), op)
    BY <2>1 DEF Locks!Begins, Locks!At
  <2>3. op[1] = "xchg" /\ op[2] = m
    BY <2>1
  <2>4. op \in Locks!Ops
    BY <2>1, <2>2, HeadTailProperties DEF Locks!Begins
  <2> QED BY <2>2, <2>3, <2>4, BeginsIn
<1> QED BY <1>1, <1>2 DEF Noted

-----------------------------------------------------------------------------
(* The invariant by lock and by CPU.                                        *)
LockFacts(m) ==
  /\ \A c, d \in CPUs : Locks!Inside(c, m) /\ Locks!Inside(d, m) => c = d
  /\ lock[m].locked <=> \E c \in CPUs : Locks!Inside(c, m)
  /\ \A c \in CPUs : /\ Locks!Inside(c, m) \/ Locks!At(c, "xchg", m) \/ Locks!Out(Locks!Todo(c), m)
                     /\ lock[m].cpu = c <=> Noted(c, m)

CountFacts(d) ==
  /\ ncli[d] = Locks!Cardinality(Locks!Cleared(d))
  /\ ncli[d] > 0 => ~intr[d]

FlagFacts(d) ==
  /\ run[d] # NoThread /\ Locks!Cleared(d) = {} /\ Locks!Todo(d) # Locks!Iret
       => (intr[d] <=> ~Locks!HasIret(Locks!Todo(d)))
  /\ run[d] # NoThread /\ Locks!Cleared(d) # {} /\ ~Locks!Fresh(Locks!Todo(d)) /\ ~Locks!At(d, "resume", "ptable")
       => (intena[d] <=> ~Locks!HasIret(Locks!Todo(d)))
  /\ run[d] = NoThread /\ Locks!HasIret(Locks!Todo(d)) /\ Locks!Cleared(d) = {} /\ Locks!Todo(d) # Locks!Iret
       => ~intr[d]
  /\ run[d] = NoThread /\ Locks!HasIret(Locks!Todo(d)) /\ Locks!Cleared(d) # {} => ~intena[d]

SavedFacts(t) ==
  Locks!Begins(code[t], <<"resume", "ptable">>) => (saved[t] <=> ~Locks!HasIret(code[t]))

\* LocksExact and OwnerInv, by lock and by CPU.
LEMMA LockFactsOnce ==
  Locks!LocksExact /\ Locks!OwnerInv
    <=> (\A m \in Locks!Locks : LockFacts(m)) /\ (\A d \in CPUs : CountFacts(d))
BY DEF Locks!LocksExact, Locks!OwnerInv, LockFacts, CountFacts, Noted

\* The same in the state after a step.
LEMMA LockFactsThen ==
  (\A m \in Locks!Locks : LockFacts(m)') /\ (\A d \in CPUs : CountFacts(d)')
    => Locks!LocksExact' /\ Locks!OwnerInv'
BY DEF Locks!LocksExact, Locks!OwnerInv, LockFacts, CountFacts, Noted

\* FlagInv, by CPU and by thread.
LEMMA FlagFactsOnce ==
  Locks!FlagInv <=> (\A d \in CPUs : FlagFacts(d)) /\ (\A t \in Threads : SavedFacts(t))
BY DEF Locks!FlagInv, FlagFacts, SavedFacts, Locks!InTrap, Locks!Todo, Locks!Context

\* The same in the state after a step.
LEMMA FlagFactsThen ==
  (\A d \in CPUs : FlagFacts(d)') /\ (\A t \in Threads : SavedFacts(t)') => Locks!FlagInv'
BY DEF Locks!FlagInv, FlagFacts, SavedFacts, Locks!InTrap, Locks!Todo, Locks!Context

\* The parts of the invariant.
LEMMA FactsOf ==
  ASSUME Locks!IInv
  PROVE  /\ \A m \in Locks!Locks : LockFacts(m)
         /\ \A d \in CPUs : CountFacts(d) /\ FlagFacts(d)
         /\ \A t \in Threads : SavedFacts(t)
BY LockFactsOnce, FlagFactsOnce DEF Locks!IInv

-----------------------------------------------------------------------------
(* What a step of one CPU leaves alone.                                     *)
Same(d, m) ==
  /\ Locks!Inside(d, m)' <=> Locks!Inside(d, m)
  /\ Locks!At(d, "xchg", m)' <=> Locks!At(d, "xchg", m)
  /\ Noted(d, m)' <=> Noted(d, m)
  /\ Locks!Out(Locks!Todo(d), m)' <=> Locks!Out(Locks!Todo(d), m)

Still(d) == Locks!Todo(d)' = Locks!Todo(d) /\ run'[d] = run[d]

\* A CPU with the same path is where it was with every lock.
LEMMA StillSame ==
  ASSUME NEW d, NEW m, Locks!Todo(d)' = Locks!Todo(d)
  PROVE  Same(d, m)
BY DEF Same, Noted, Locks!Inside, Locks!At

\* The locks that count in ncli.
LEMMA ClearedSame ==
  ASSUME NEW d, \A m \in Locks!Locks : Same(d, m)
  PROVE  Locks!Cleared(d)' = Locks!Cleared(d)
BY DEF Same, Locks!Cleared

\* They are the same while the path is.
LEMMA StillCleared ==
  ASSUME NEW d, Locks!Todo(d)' = Locks!Todo(d)
  PROVE  Locks!Cleared(d)' = Locks!Cleared(d)
BY StillSame, ClearedSame

\* The flag of a CPU that does nothing.
LEMMA FlagStill ==
  ASSUME NEW d, Still(d), intr'[d] = intr[d], intena'[d] = intena[d], FlagFacts(d)
  PROVE  FlagFacts(d)'
<1>1. Locks!Cleared(d)' = Locks!Cleared(d) /\ Locks!Todo(d)' = Locks!Todo(d)
  BY StillCleared DEF Still
<1>2. Locks!At(d, "resume", "ptable")' <=> Locks!At(d, "resume", "ptable")
  BY <1>1 DEF Locks!At
<1>3. Locks!HasIret(Locks!Todo(d))' <=> Locks!HasIret(Locks!Todo(d))
  BY <1>1
<1>4. Locks!Fresh(Locks!Todo(d))' <=> Locks!Fresh(Locks!Todo(d))
  BY <1>1
<1> QED BY <1>1, <1>2, <1>3, <1>4 DEF FlagFacts, Still

\* The count of a CPU whose locks stay as they are.
LEMMA CountStill ==
  ASSUME NEW d, Locks!Cleared(d)' = Locks!Cleared(d), ncli'[d] = ncli[d], intr'[d] = intr[d], CountFacts(d)
  PROVE  CountFacts(d)'
<1>1. Locks!Cardinality(Locks!Cleared(d))' = Locks!Cardinality(Locks!Cleared(d))
  BY DEF Locks!Cardinality
<1> QED BY <1>1 DEF CountFacts

\* A lock that no CPU gets closer to or further from.
LEMMA LockSame ==
  ASSUME NEW m, \A d \in CPUs : Same(d, m), lock'[m] = lock[m], LockFacts(m)
  PROVE  LockFacts(m)'
BY DEF LockFacts, Same

(* The path of a CPU changes to ss.                                         *)
LEMMA PathStep ==
  ASSUME Locks!IInv, NEW c \in CPUs, NEW ss \in Seq(Locks!Ops), Locks!Fine(ss, OpsOf(c)),
         code' = [code EXCEPT ![Locks!Context(c)] = ss]
  PROVE  /\ Locks!CodeInv'
         /\ code'[Locks!Context(c)] = ss
         /\ \A x \in CPUs \cup Threads : x # Locks!Context(c) => code'[x] = code[x]
<1>1. /\ run[c] \in Threads \cup {NoThread} /\ Locks!Context(c) \in CPUs \cup Threads
      /\ run[c] = NoThread => Locks!Context(c) = c
      /\ run[c] # NoThread => Locks!Context(c) = run[c] /\ run[c] \in Threads
  BY Contexts
<1>2. /\ code \in [CPUs \cup Threads -> Seq(Locks!Ops)]
      /\ \A d \in CPUs : Locks!Fine(code[d], Locks!SchedulerOps)
      /\ \A t \in Threads : Locks!Fine(code[t], Locks!ThreadOps)
  BY DEF Locks!IInv, Locks!CodeInv
<1>3. /\ code' \in [CPUs \cup Threads -> Seq(Locks!Ops)]
      /\ code'[Locks!Context(c)] = ss
      /\ \A x \in CPUs \cup Threads : x # Locks!Context(c) => code'[x] = code[x]
  BY <1>1, <1>2
<1>4. CPUs \cap Threads = {} /\ NoThread \notin Threads
  BY LocksConstants
<1>5. ASSUME NEW d \in CPUs PROVE Locks!Fine(code'[d], Locks!SchedulerOps)
  <2>1. CASE d = Locks!Context(c)
    <3>1. run[c] = NoThread
      BY <2>1, <1>1, <1>4
    <3> QED BY <3>1, <2>1, <1>3 DEF OpsOf
  <2>2. CASE d # Locks!Context(c)
    BY <2>2, <1>2, <1>3
  <2> QED BY <2>1, <2>2
<1>6. ASSUME NEW t \in Threads PROVE Locks!Fine(code'[t], Locks!ThreadOps)
  <2>1. CASE t = Locks!Context(c)
    <3>1. run[c] # NoThread
      BY <2>1, <1>1, <1>4
    <3> QED BY <3>1, <2>1, <1>3 DEF OpsOf
  <2>2. CASE t # Locks!Context(c)
    BY <2>2, <1>2, <1>3
  <2> QED BY <2>1, <2>2
<1> QED BY <1>3, <1>5, <1>6 DEF Locks!CodeInv

\* The same while no thread leaves or enters a CPU.
LEMMA PathStays ==
  ASSUME Locks!IInv, NEW c \in CPUs, NEW ss \in Seq(Locks!Ops), Locks!Fine(ss, OpsOf(c)),
         code' = [code EXCEPT ![Locks!Context(c)] = ss], run' = run
  PROVE  /\ Locks!CodeInv' /\ Locks!RunInv'
         /\ Locks!Todo(c)' = ss
         /\ \A d \in CPUs \ {c} : Still(d)
<1>1. /\ run[c] \in Threads \cup {NoThread} /\ Locks!Context(c) \in CPUs \cup Threads
      /\ run[c] = NoThread => Locks!Context(c) = c
      /\ run[c] # NoThread => Locks!Context(c) = run[c] /\ run[c] \in Threads
      /\ \A d \in CPUs : d # c => Locks!Context(d) # Locks!Context(c)
  BY Contexts
<1>2. /\ Locks!CodeInv'
      /\ code'[Locks!Context(c)] = ss
      /\ \A x \in CPUs \cup Threads : x # Locks!Context(c) => code'[x] = code[x]
  BY PathStep
<1>3. \A d \in CPUs : Locks!Context(d)' = Locks!Context(d) /\ Locks!Context(d) \in CPUs \cup Threads
  BY Contexts DEF Locks!Context
<1>4. Locks!Todo(c)' = ss
  BY <1>2, <1>3 DEF Locks!Todo
<1>5. \A d \in CPUs \ {c} : Still(d)
  BY <1>1, <1>2, <1>3 DEF Locks!Todo, Still
<1>6. /\ \A d, dd \in CPUs : run[d] # NoThread /\ run[d] = run[dd] => d = dd
      /\ \A d \in CPUs : run[d] # NoThread => Locks!Begins(code[d], <<"loop", "ptable">>)
      /\ \A t \in Threads \ {run[d] : d \in CPUs} :
           Locks!Begins(code[t], <<"resume", "ptable">>) \/ code[t] = Locks!Forkret
  BY DEF Locks!IInv, Locks!RunInv
<1>7. CPUs \cap Threads = {} /\ NoThread \notin Threads
  BY LocksConstants
<1>8. ASSUME NEW d \in CPUs, run[d] # NoThread PROVE code'[d] = code[d]
  BY <1>1, <1>2, <1>7, <1>8
<1>9. ASSUME NEW t \in Threads \ {run[d] : d \in CPUs} PROVE code'[t] = code[t]
  BY <1>1, <1>2, <1>7, <1>9
<1>10. Locks!RunInv'
  BY <1>6, <1>8, <1>9 DEF Locks!RunInv
<1> QED BY <1>2, <1>4, <1>5, <1>10

\* The first step of a path is one.
LEMMA BeginsView ==
  ASSUME NEW ss \in Seq(Locks!Ops), NEW o, NEW l, <<o, l>> \in Locks!Ops, Locks!Begins(ss, <<o, l>>)
  PROVE  /\ Locks!In(ss, l) <=> o \notin {"pushcli", "xchg"}
         /\ Locks!Out(ss, l) <=> o = "pushcli"
         /\ Locks!First(ss) = o
         /\ \A o2, m : Locks!Begins(ss, <<o2, m>>) <=> o2 = o /\ m = l
<1>1. PICK op : op = <<o, l>>
  OBVIOUS
<1>2. op[1] = o /\ op[2] = l /\ op \in Locks!Ops /\ Locks!Begins(ss, op)
  BY <1>1
<1>3. (Locks!In(ss, l) <=> o \notin {"pushcli", "xchg"}) /\ (Locks!Out(ss, l) <=> o = "pushcli")
  BY <1>2, BeginsIn
<1>4. Locks!First(ss) = o
  BY <1>2 DEF Locks!Begins, Locks!First
<1>5. \A o2, m : Locks!Begins(ss, <<o2, m>>) <=> o2 = o /\ m = l
  BY DEF Locks!Begins
<1> QED BY <1>3, <1>4, <1>5

\* With what is left of a path the other locks are as they were.
LEMMA OthersSame ==
  ASSUME Locks!IInv, NEW c \in CPUs, NEW o, NEW l, Locks!At(c, o, l),
         Locks!Todo(c)' = Tail(Locks!Todo(c)), o \notin {"sched", "exit"},
         NEW m \in Locks!Locks, m # l
  PROVE  Same(c, m)
<1>1. PICK tt : tt = Tail(Locks!Todo(c))
  OBVIOUS
<1>2. /\ tt \in Seq(Locks!Ops) /\ Locks!Follows(o, l, tt)
      /\ Locks!Inside(c, m) <=> Locks!In(tt, m)
      /\ Locks!Out(Locks!Todo(c), m) <=> Locks!Out(tt, m)
  BY <1>1, HeadFacts
<1>3. <<o, l>> \in Locks!Ops
  BY HeadFacts
<1>4. Locks!Inside(c, m)' <=> Locks!Inside(c, m)
  BY <1>1, <1>2 DEF Locks!Inside
<1>5. Locks!Out(Locks!Todo(c), m)' <=> Locks!Out(Locks!Todo(c), m)
  BY <1>1, <1>2
<1>6. \A o2 : ~Locks!At(c, o2, m)
  BY AtOne
<1>7. Locks!Inside(c, m) \/ Locks!Out(Locks!Todo(c), m)
  BY <1>6 DEF Locks!IInv, Locks!OwnerInv
<1>8. \A o2 : Locks!At(c, o2, m)' => Locks!Begins(tt, <<o2, m>>)
  BY <1>1 DEF Locks!At, Locks!Begins
<1>9. "none" \notin Locks!Locks
  BY DEF Locks!Locks
<1>10. ~Locks!At(c, "xchg", m)'
  <2> SUFFICES ASSUME Locks!Begins(tt, <<"xchg", m>>) PROVE FALSE
    BY <1>8
  <2>1. <<"xchg", m>> \in Locks!Ops
    BY <1>9 DEF Locks!Ops
  <2>2. ~Locks!In(tt, m) /\ ~Locks!Out(tt, m)
    <3>1. PICK o2 : o2 = "xchg"
      OBVIOUS
    <3>2. /\ Locks!In(tt, m) <=> o2 \notin {"pushcli", "xchg"}
          /\ Locks!Out(tt, m) <=> o2 = "pushcli"
      BY <1>2, <2>1, <3>1, BeginsView
    <3> QED BY <3>1, <3>2
  <2> QED BY <2>2, <1>2, <1>7
<1>11. Locks!Inside(c, m) => ~Locks!At(c, "owner", m)' /\ ~Locks!At(c, "unlock", m)'
  <2> SUFFICES ASSUME Locks!In(tt, m), NEW o2 \in {"owner", "unlock"}, Locks!Begins(tt, <<o2, m>>)
               PROVE  FALSE
    BY <1>2, <1>8
  <2>1. <<o2, m>> \in Locks!Ops
    BY DEF Locks!Ops
  <2>2. Locks!First(tt) = o2 /\ \A o3, m3 : Locks!Begins(tt, <<o3, m3>>) <=> o3 = o2 /\ m3 = m
    BY <1>2, <2>1, BeginsView
  <2>3. CASE o = "pushcli"
    BY <2>3, <1>2, <2>2 DEF Locks!Follows
  <2>4. CASE o = "xchg"
    BY <2>4, <1>2, <2>2 DEF Locks!Follows
  <2>5. CASE o \in {"owner", "unlock"}
    BY <2>5, <1>2, <2>2 DEF Locks!Follows
  <2>6. CASE o = "disown"
    BY <2>6, <1>2, <2>2 DEF Locks!Follows
  <2>7. CASE o \in {"resume", "loop"}
    BY <2>7, <1>2, <2>2 DEF Locks!Follows
  <2>8. CASE o = "iret"
    <3>1. Locks!Out(tt, m)
      BY <2>8, <1>2 DEF Locks!Follows
    <3> QED BY <3>1, OutIsNotIn
  <2>9. o \in {"pushcli", "xchg", "owner", "disown", "unlock", "sched", "resume", "exit", "loop", "iret"}
    BY <1>3 DEF Locks!Ops
  <2> QED BY <2>3, <2>4, <2>5, <2>6, <2>7, <2>8, <2>9
<1>12. Noted(c, m)' <=> Noted(c, m)
  BY <1>4, <1>6, <1>11 DEF Noted
<1> QED BY <1>4, <1>5, <1>6, <1>10, <1>12 DEF Same

\* A step that is done: what it leaves is the rest of the path.
LEMMA StepDone ==
  ASSUME Locks!IInv, NEW c \in CPUs, NEW o, NEW l, Locks!At(c, o, l), Locks!Done(c), run' = run,
         o \notin {"sched", "exit"}
  PROVE  /\ Locks!CodeInv' /\ Locks!RunInv'
         /\ Locks!Todo(c)' = Tail(Locks!Todo(c))
         /\ \A d \in CPUs \ {c} : Still(d)
         /\ \A d \in CPUs, m \in Locks!Locks : d # c \/ m # l => Same(d, m)
         /\ \A t \in Threads : Locks!Begins(code'[t], <<"resume", "ptable">>) => code'[t] = code[t]
<1>1. PICK tt : tt = Tail(Locks!Todo(c))
  OBVIOUS
<1>2. /\ <<o, l>> \in Locks!Ops /\ tt \in Seq(Locks!Ops)
      /\ Locks!Follows(o, l, tt) /\ Locks!Fine(tt, OpsOf(c))
  BY <1>1, HeadFacts
<1>3. code' = [code EXCEPT ![Locks!Context(c)] = tt]
  BY <1>1 DEF Locks!Done, Locks!Todo
<1>4. /\ Locks!CodeInv' /\ Locks!RunInv' /\ Locks!Todo(c)' = tt
      /\ \A d \in CPUs \ {c} : Still(d)
  BY <1>2, <1>3, PathStays
<1>5. ASSUME NEW d \in CPUs, NEW m \in Locks!Locks, d # c \/ m # l PROVE Same(d, m)
  <2>1. CASE d # c
    BY <2>1, <1>4, StillSame DEF Still
  <2>2. CASE d = c
    BY <2>2, <1>1, <1>4, <1>5, OthersSame
  <2> QED BY <2>1, <2>2
<1>6. ~Locks!Begins(tt, <<"resume", "ptable">>)
  <2> SUFFICES ASSUME Locks!Begins(tt, <<"resume", "ptable">>) PROVE FALSE
    OBVIOUS
  <2>1. <<"resume", "ptable">> \in Locks!Ops
    BY DEF Locks!Ops
  <2>2. /\ Locks!First(tt) = "resume" /\ Locks!In(tt, "ptable")
        /\ \A o3, m3 : Locks!Begins(tt, <<o3, m3>>) <=> o3 = "resume" /\ m3 = "ptable"
    <3>1. PICK o2, l2 : o2 = "resume" /\ l2 = "ptable"
      OBVIOUS
    <3>2. /\ Locks!In(tt, l2) <=> o2 \notin {"pushcli", "xchg"}
          /\ Locks!First(tt) = o2
          /\ \A o3, m3 : Locks!Begins(tt, <<o3, m3>>) <=> o3 = o2 /\ m3 = l2
      BY <1>2, <2>1, <3>1, BeginsView
    <3> QED BY <3>1, <3>2
  <2>3. CASE o \in {"pushcli", "xchg", "disown", "resume", "loop"}
    BY <2>3, <1>2, <2>2 DEF Locks!Follows
  <2>4. CASE o \in {"owner", "unlock"}
    BY <2>4, <1>2, <2>2 DEF Locks!Follows
  <2>5. CASE o = "iret"
    <3>1. Locks!Out(tt, "ptable")
      BY <2>5, <1>2 DEF Locks!Follows, Locks!Locks
    <3> QED BY <3>1, <2>2, OutIsNotIn
  <2>6. o \in {"pushcli", "xchg", "owner", "disown", "unlock", "sched", "resume", "exit", "loop", "iret"}
    BY <1>2 DEF Locks!Ops
  <2> QED BY <2>3, <2>4, <2>5, <2>6
<1>7. ASSUME NEW t \in Threads, Locks!Begins(code'[t], <<"resume", "ptable">>)
      PROVE  code'[t] = code[t]
  <2>1. code'[Locks!Context(c)] = tt
        /\ \A x \in CPUs \cup Threads : x # Locks!Context(c) => code'[x] = code[x]
    BY <1>2, <1>3, PathStep
  <2> QED BY <2>1, <1>6, <1>7
<1> QED BY <1>1, <1>4, <1>5, <1>7

\* Sets of locks are finite.
LEMMA LocksCardinality ==
  /\ \A S : Locks!Cardinality(S) = Cardinality(S)
  /\ \A S \in SUBSET Locks!Locks : IsFiniteSet(S) /\ Cardinality(S) \in Nat /\ (Cardinality(S) = 0 <=> S = {})
<1>1. IsFiniteSet(Locks!Locks)
  <2>1. Locks!Locks = (({} \cup {"ptable"}) \cup {"tickslock"}) \cup {"kmem"}
    BY DEF Locks!Locks
  <2> QED BY <2>1, FS_EmptySet, FS_AddElement
<1>2. \A S \in SUBSET Locks!Locks : IsFiniteSet(S) /\ Cardinality(S) \in Nat /\ (Cardinality(S) = 0 <=> S = {})
  BY <1>1, FS_Subset, FS_CardinalityType, FS_EmptySet
<1>3. \A S : Locks!Cardinality(S) = Cardinality(S)
  BY DEF Locks!Cardinality, Cardinality
<1> QED BY <1>2, <1>3

\* ncli is zero just when the CPU has no lock and spins for none.
LEMMA ClearedCount ==
  ASSUME Locks!IInv, NEW d \in CPUs
  PROVE  /\ Locks!Cleared(d) \in SUBSET Locks!Locks
         /\ ncli[d] = Cardinality(Locks!Cleared(d)) /\ ncli[d] \in Nat
         /\ (ncli[d] = 0 <=> Locks!Cleared(d) = {}) /\ (ncli[d] > 0 <=> Locks!Cleared(d) # {})
         /\ ncli[d] > 0 => ~intr[d]
<1>1. ncli[d] = Locks!Cardinality(Locks!Cleared(d)) /\ (ncli[d] > 0 => ~intr[d])
  BY FactsOf DEF CountFacts
<1>2. Locks!Cleared(d) \in SUBSET Locks!Locks
  BY DEF Locks!Cleared
<1> QED BY <1>1, <1>2, LocksCardinality

\* A CPU between calls has no lock and interrupts as they are outside of locks.
LEMMA NothingCleared ==
  ASSUME Locks!IInv, NEW d \in CPUs, \A m \in Locks!Locks : Locks!Out(Locks!Todo(d), m)
  PROVE  Locks!Cleared(d) = {} /\ ncli[d] = 0
<1>1. "none" \notin Locks!Locks
  BY DEF Locks!Locks
<1>2. Locks!Cleared(d) = {}
  BY <1>1, TodoFine, OutView DEF Locks!Cleared
<1> QED BY <1>2, ClearedCount

\* A CPU with no lock in hand can be interrupted anywhere.
LEMMA ClearedNothing ==
  ASSUME Locks!IInv, NEW d \in CPUs, Locks!Cleared(d) = {}
  PROVE  QuietPath(Locks!Todo(d), OpsOf(d))
<1>1. \A m \in Locks!Locks : Locks!Inside(d, m) \/ Locks!At(d, "xchg", m) \/ Locks!Out(Locks!Todo(d), m)
  BY FactsOf DEF LockFacts
<1>2. \A m \in Locks!Locks : Locks!Out(Locks!Todo(d), m)
  BY <1>1 DEF Locks!Cleared
<1> QED BY <1>2, TodoFine DEF QuietPath

\* A step of one CPU keeps the invariant when it does at every lock and at that CPU.
LEMMA Assemble ==
  ASSUME Locks!IInv, NEW c \in CPUs, Locks!TypeOK', Locks!CodeInv', Locks!RunInv',
         \A m \in Locks!Locks : LockFacts(m)',
         \A d \in CPUs \ {c} : /\ Still(d)
                               /\ ncli'[d] = ncli[d] /\ intr'[d] = intr[d] /\ intena'[d] = intena[d],
         CountFacts(c)', FlagFacts(c)', \A t \in Threads : SavedFacts(t)'
  PROVE  Locks!IInv'
<1>1. ASSUME NEW d \in CPUs PROVE CountFacts(d)' /\ FlagFacts(d)'
  <2>1. CASE d = c
    BY <2>1
  <2>2. CASE d # c
    <3>1. CountFacts(d) /\ FlagFacts(d)
      BY FactsOf
    <3>2. /\ Still(d) /\ ncli'[d] = ncli[d] /\ intr'[d] = intr[d] /\ intena'[d] = intena[d]
      BY <2>2
    <3>3. Locks!Cleared(d)' = Locks!Cleared(d)
      BY <3>2, StillCleared DEF Still
    <3> QED BY <3>1, <3>2, <3>3, CountStill, FlagStill
  <2> QED BY <2>1, <2>2
<1>2. Locks!LocksExact' /\ Locks!OwnerInv'
  BY <1>1, LockFactsThen
<1>3. Locks!FlagInv'
  BY <1>1, FlagFactsThen
<1> QED BY <1>2, <1>3 DEF Locks!IInv

\* A step on lock l keeps the invariant if it does at that lock and that CPU.
LEMMA StepRest ==
  ASSUME Locks!IInv, NEW c \in CPUs, NEW o, NEW l \in Locks!Locks, Locks!At(c, o, l),
         Locks!Done(c), run' = run, saved' = saved, o \notin {"sched", "exit"},
         \A m \in Locks!Locks \ {l} : lock'[m] = lock[m],
         \A d \in CPUs \ {c} : ncli'[d] = ncli[d] /\ intr'[d] = intr[d] /\ intena'[d] = intena[d],
         Locks!TypeOK', LockFacts(l)', CountFacts(c)', FlagFacts(c)'
  PROVE  Locks!IInv'
<1>1. /\ Locks!CodeInv' /\ Locks!RunInv'
      /\ \A d \in CPUs \ {c} : Still(d)
      /\ \A d \in CPUs, m \in Locks!Locks : d # c \/ m # l => Same(d, m)
      /\ \A t \in Threads : Locks!Begins(code'[t], <<"resume", "ptable">>) => code'[t] = code[t]
  BY StepDone
<1>2. ASSUME NEW m \in Locks!Locks PROVE LockFacts(m)'
  <2>1. CASE m = l
    BY <2>1
  <2>2. CASE m # l
    <3>1. LockFacts(m)
      BY FactsOf
    <3> QED BY <3>1, <2>2, <1>1, LockSame
  <2> QED BY <2>1, <2>2
<1>3. ASSUME NEW t \in Threads PROVE SavedFacts(t)'
  <2>1. SavedFacts(t)
    BY FactsOf
  <2> QED BY <2>1, <1>1 DEF SavedFacts
<1> QED BY <1>1, <1>2, <1>3, Assemble

\* The path of a child of fork, on its two steps.
LEMMA FreshSteps ==
  /\ \A ss : Locks!Fresh(ss) <=> ss \in {Locks!Forkret, Tail(Locks!Forkret)}
  /\ Locks!Begins(Locks!Forkret, <<"disown", "ptable">>)
  /\ Locks!Begins(Tail(Locks!Forkret), <<"unlock", "ptable">>)
  /\ Tail(Tail(Locks!Forkret)) = Locks!Iret
<1>1. PICK fk : fk = Locks!Forkret
  OBVIOUS
<1>2. PICK it : it = Locks!Iret
  OBVIOUS
<1>3. PICK op : op = <<"unlock", "ptable">>
  OBVIOUS
<1>4. it \in Seq(Locks!Ops) /\ op \in Locks!Ops
  BY <1>2, <1>3, PathTypes DEF Locks!Ops, Locks!Locks
<1>5. fk = Locks!Release("ptable") \o it
  BY <1>1, <1>2, Zenon DEF Locks!Forkret
<1>6. Locks!ThreadOps \in Both /\ "ptable" \in Locks!Locks
  BY DEF Both, Locks!Locks
<1>7. QuietPath(it, Locks!ThreadOps)
  BY <1>2, <1>6, IretAlone
<1>8. Locks!First(it) \notin {"owner", "unlock", "resume"}
  BY <1>7, QuietFirst
<1>9. Tail(Locks!Release("ptable")) \o it = Tail(fk)
  BY <1>5, <1>6, <1>7, <1>8, Everybodys, ReleaseAhead DEF QuietPath
<1>10. Tail(Locks!Release("ptable")) = <<op>>
  BY <1>3 DEF Locks!Release
<1>11. Tail(fk) = Cons(op, it)
  BY <1>9, <1>10, Zenon DEF Cons
<1>12. Tail(fk) # <<>> /\ Head(Tail(fk)) = op /\ Tail(Tail(fk)) = it
  BY <1>4, <1>11, Before
<1>13. Locks!Begins(fk, <<"disown", "ptable">>)
  BY <1>1, ForkretPath
<1>14. \A ss : Locks!Fresh(ss) <=> ss \in {fk, Tail(fk)}
  <2> TAKE ss
  <2>1. Locks!Fresh(ss) <=> ss = fk \/ ss = Tail(fk)
    BY <1>2, <1>5, <1>9, Zenon DEF Locks!Fresh
  <2> QED BY <2>1
<1> QED BY <1>1, <1>2, <1>3, <1>12, <1>13, <1>14 DEF Locks!Begins

\* A fresh child of fork is at disown or at unlock.
LEMMA FreshFacts ==
  ASSUME NEW ss, Locks!Fresh(ss)
  PROVE  \/ ss = Locks!Forkret /\ Locks!Begins(ss, <<"disown", "ptable">>)
         \/ ss = Tail(Locks!Forkret) /\ Locks!Begins(ss, <<"unlock", "ptable">>) /\ Tail(ss) = Locks!Iret
<1>1. ss \in {Locks!Forkret, Tail(Locks!Forkret)}
  BY FreshSteps
<1>2. CASE ss = Locks!Forkret
  BY <1>2, FreshSteps
<1>3. CASE ss = Tail(Locks!Forkret)
  BY <1>3, FreshSteps
<1> QED BY <1>1, <1>2, <1>3

\* At any other step the thread is not a fresh child of fork.
LEMMA NotFresh ==
  ASSUME NEW c, NEW o, NEW l, Locks!At(c, o, l), o \notin {"disown", "unlock"}
  PROVE  ~Locks!Fresh(Locks!Todo(c))
BY FreshFacts DEF Locks!At, Locks!Begins

\* No step but iret and the ones in front of it is at an iret.
LEMMA NotIret ==
  ASSUME NEW c, NEW o, NEW l, Locks!At(c, o, l), o # "iret"
  PROVE  Locks!Todo(c) # Locks!Iret
BY DEF Locks!At, Locks!Iret

\* Where the step of acquire or release next in a path has the lock.
LEMMA NextView ==
  ASSUME NEW ss \in Seq(Locks!Ops), NEW l \in Locks!Locks
  PROVE  /\ Locks!Begins(ss, <<"xchg", l>>) => ~Locks!In(ss, l) /\ ~Locks!Out(ss, l)
         /\ Locks!Begins(ss, <<"owner", l>>) => Locks!In(ss, l)
         /\ Locks!Begins(ss, <<"disown", l>>) => Locks!In(ss, l)
         /\ Locks!Begins(ss, <<"unlock", l>>) => Locks!In(ss, l)
<1>1. ASSUME NEW o \in {"xchg", "owner", "disown", "unlock"}, Locks!Begins(ss, <<o, l>>)
      PROVE  /\ Locks!In(ss, l) <=> o # "xchg"
             /\ ~Locks!Out(ss, l)
  <2>1. <<o, l>> \in Locks!Ops
    BY DEF Locks!Ops
  <2> QED BY <1>1, <2>1, BeginsView
<1> QED BY <1>1

\* The exchange that gets a free lock.
LEMMA XchgKeeps ==
  ASSUME Locks!IInv, NEW c \in CPUs, NEW l \in Locks!Locks, Locks!Xchg(c, l)
  PROVE  Locks!IInv'
<1>1. /\ Locks!At(c, "xchg", l) /\ ~lock[l].locked /\ Locks!Done(c)
      /\ lock' = [lock EXCEPT ![l].locked = TRUE]
      /\ UNCHANGED <<intr, ncli, intena, run, saved>>
  BY DEF Locks!Xchg
<1>2. PICK o : o = "xchg"
  OBVIOUS
<1>3. PICK tt : tt = Tail(Locks!Todo(c))
  OBVIOUS
<1>4. /\ Locks!Todo(c)' = tt
      /\ \A d \in CPUs \ {c} : Still(d)
      /\ \A d \in CPUs, m \in Locks!Locks : d # c \/ m # l => Same(d, m)
  BY <1>1, <1>2, <1>3, StepDone
<1>5. /\ tt \in Seq(Locks!Ops) /\ Locks!Follows(o, l, tt)
      /\ Locks!HasIret(Locks!Todo(c)) <=> Locks!HasIret(tt)
  BY <1>1, <1>2, <1>3, HeadFacts
<1>6. Locks!Begins(tt, <<"owner", l>>)
  BY <1>2, <1>5 DEF Locks!Follows
<1>7. Locks!In(tt, l)
  BY <1>5, <1>6, NextView
<1>8. Locks!At(c, "owner", l)' /\ Locks!Inside(c, l)'
  BY <1>4, <1>6, <1>7 DEF Locks!At, Locks!Begins, Locks!Inside
<1>9. lock \in [Locks!Locks -> [locked : BOOLEAN, cpu : CPUs \cup {NoThread}]]
  BY DEF Locks!IInv, Locks!TypeOK
<1>10. /\ lock' \in [Locks!Locks -> [locked : BOOLEAN, cpu : CPUs \cup {NoThread}]]
       /\ lock'[l].locked /\ lock'[l].cpu = lock[l].cpu
       /\ \A m \in Locks!Locks \ {l} : lock'[m] = lock[m]
  BY <1>1, <1>9
<1>11. LockFacts(l)
  BY FactsOf
<1>12. LockFacts(l)'
  <2>1. \A d \in CPUs : ~Locks!Inside(d, l) /\ ~Noted(d, l)
    BY <1>1, <1>11 DEF LockFacts, Noted
  <2>2. \A d \in CPUs \ {c} : Same(d, l)
    BY <1>4
  <2>3. ~Noted(c, l)'
    BY <1>8 DEF Noted
  <2> QED BY <1>8, <1>10, <1>11, <2>1, <2>2, <2>3 DEF LockFacts, Same
<1>13. Locks!Cleared(c)' = Locks!Cleared(c) /\ l \in Locks!Cleared(c)
  <2>1. \A m \in Locks!Locks \ {l} : Same(c, m)
    BY <1>4
  <2> QED BY <2>1, <1>1, <1>8 DEF Locks!Cleared, Same
<1>14. CountFacts(c)'
  <2>1. CountFacts(c)
    BY FactsOf
  <2> QED BY <2>1, <1>1, <1>13, CountStill
<1>15. FlagFacts(c)'
  <2>1. FlagFacts(c)
    BY FactsOf
  <2>2. ~Locks!Fresh(Locks!Todo(c))
    BY <1>1, <1>2, NotFresh
  <2>3. ~Locks!At(c, "resume", "ptable")
    BY <1>1, AtOne
  <2>4. Locks!HasIret(Locks!Todo(c))' <=> Locks!HasIret(Locks!Todo(c))
    BY <1>4, <1>5
  <2> QED BY <2>1, <2>2, <2>3, <2>4, <1>1, <1>13 DEF FlagFacts
<1>16. Locks!TypeOK'
  BY <1>1, <1>10 DEF Locks!IInv, Locks!TypeOK
<1> QED BY <1>1, <1>2, <1>10, <1>12, <1>14, <1>15, <1>16, StepRest

\* The note of who has the lock.
LEMMA OwnerKeeps ==
  ASSUME Locks!IInv, NEW c \in CPUs, NEW l \in Locks!Locks, Locks!Owner(c, l)
  PROVE  Locks!IInv'
<1>1. /\ Locks!At(c, "owner", l) /\ Locks!Done(c)
      /\ lock' = [lock EXCEPT ![l].cpu = c]
      /\ UNCHANGED <<intr, ncli, intena, run, saved>>
  BY DEF Locks!Owner
<1>2. PICK o : o = "owner"
  OBVIOUS
<1>3. PICK tt : tt = Tail(Locks!Todo(c))
  OBVIOUS
<1>4. /\ Locks!Todo(c)' = tt
      /\ \A d \in CPUs \ {c} : Still(d)
      /\ \A d \in CPUs, m \in Locks!Locks : d # c \/ m # l => Same(d, m)
  BY <1>1, <1>2, <1>3, StepDone
<1>5. /\ tt \in Seq(Locks!Ops) /\ Locks!Follows(o, l, tt)
      /\ Locks!HasIret(Locks!Todo(c)) <=> Locks!HasIret(tt)
      /\ Locks!Inside(c, l) <=> o \notin {"pushcli", "xchg"}
  BY <1>1, <1>2, <1>3, HeadFacts
<1>6. Locks!In(tt, l) /\ Locks!First(tt) \notin {"owner", "unlock", "resume"}
  BY <1>2, <1>5 DEF Locks!Follows
<1>7. Locks!Inside(c, l) /\ ~Noted(c, l)
  BY <1>1, <1>2, <1>5 DEF Noted
<1>8. Locks!Inside(c, l)' /\ Noted(c, l)'
  <2>1. Locks!Inside(c, l)'
    BY <1>4, <1>6 DEF Locks!Inside
  <2>2. ~Locks!At(c, "owner", l)' /\ ~Locks!At(c, "unlock", l)'
    BY <1>4, <1>6 DEF Locks!At, Locks!First
  <2> QED BY <2>1, <2>2 DEF Noted
<1>9. lock \in [Locks!Locks -> [locked : BOOLEAN, cpu : CPUs \cup {NoThread}]]
  BY DEF Locks!IInv, Locks!TypeOK
<1>10. /\ lock' \in [Locks!Locks -> [locked : BOOLEAN, cpu : CPUs \cup {NoThread}]]
       /\ lock'[l].locked = lock[l].locked /\ lock'[l].cpu = c
       /\ \A m \in Locks!Locks \ {l} : lock'[m] = lock[m]
  BY <1>1, <1>9
<1>11. LockFacts(l)
  BY FactsOf
<1>12. LockFacts(l)'
  <2>1. \A d \in CPUs \ {c} : ~Locks!Inside(d, l) /\ ~Noted(d, l)
    BY <1>7, <1>11 DEF LockFacts, Noted
  <2>2. \A d \in CPUs \ {c} : Same(d, l)
    BY <1>4
  <2> QED BY <1>7, <1>8, <1>10, <1>11, <2>1, <2>2 DEF LockFacts, Same
<1>13. Locks!Cleared(c)' = Locks!Cleared(c) /\ l \in Locks!Cleared(c)
  <2>1. \A m \in Locks!Locks \ {l} : Same(c, m)
    BY <1>4
  <2> QED BY <2>1, <1>7, <1>8 DEF Locks!Cleared, Same
<1>14. CountFacts(c)'
  <2>1. CountFacts(c)
    BY FactsOf
  <2> QED BY <2>1, <1>1, <1>13, CountStill
<1>15. FlagFacts(c)'
  <2>1. FlagFacts(c)
    BY FactsOf
  <2>2. ~Locks!Fresh(Locks!Todo(c))
    BY <1>1, <1>2, NotFresh
  <2>3. ~Locks!At(c, "resume", "ptable")
    BY <1>1, AtOne
  <2>4. Locks!HasIret(Locks!Todo(c))' <=> Locks!HasIret(Locks!Todo(c))
    BY <1>2, <1>4, <1>5
  <2> QED BY <2>1, <2>2, <2>3, <2>4, <1>1, <1>13 DEF FlagFacts
<1>16. Locks!TypeOK'
  BY <1>1, <1>10 DEF Locks!IInv, Locks!TypeOK
<1> QED BY <1>1, <1>2, <1>10, <1>12, <1>14, <1>15, <1>16, StepRest

\* release clears the note.
LEMMA DisownKeeps ==
  ASSUME Locks!IInv, NEW c \in CPUs, NEW l \in Locks!Locks, Locks!Disown(c, l)
  PROVE  Locks!IInv'
<1>1. /\ Locks!At(c, "disown", l) /\ Locks!Done(c)
      /\ lock' = [lock EXCEPT ![l].cpu = NoThread]
      /\ UNCHANGED <<intr, ncli, intena, run, saved>>
  BY DEF Locks!Disown
<1>2. PICK o : o = "disown"
  OBVIOUS
<1>3. PICK tt : tt = Tail(Locks!Todo(c))
  OBVIOUS
<1>4. /\ Locks!Todo(c)' = tt
      /\ \A d \in CPUs \ {c} : Still(d)
      /\ \A d \in CPUs, m \in Locks!Locks : d # c \/ m # l => Same(d, m)
  BY <1>1, <1>2, <1>3, StepDone
<1>5. /\ tt \in Seq(Locks!Ops) /\ Locks!Follows(o, l, tt)
      /\ Locks!HasIret(Locks!Todo(c)) <=> Locks!HasIret(tt)
      /\ Locks!Inside(c, l) <=> o \notin {"pushcli", "xchg"}
  BY <1>1, <1>2, <1>3, HeadFacts
<1>6. Locks!Begins(tt, <<"unlock", l>>) /\ Locks!In(tt, l)
  <2>1. Locks!Begins(tt, <<"unlock", l>>)
    BY <1>2, <1>5 DEF Locks!Follows
  <2> QED BY <2>1, <1>5, NextView
<1>7. Locks!Inside(c, l)
  BY <1>2, <1>5
<1>8. Locks!Inside(c, l)' /\ ~Noted(c, l)'
  BY <1>4, <1>6 DEF Locks!Inside, Noted, Locks!Begins, Locks!At
<1>9. lock \in [Locks!Locks -> [locked : BOOLEAN, cpu : CPUs \cup {NoThread}]]
  BY DEF Locks!IInv, Locks!TypeOK
<1>10. /\ lock' \in [Locks!Locks -> [locked : BOOLEAN, cpu : CPUs \cup {NoThread}]]
       /\ lock'[l].locked = lock[l].locked /\ lock'[l].cpu = NoThread
       /\ \A m \in Locks!Locks \ {l} : lock'[m] = lock[m]
  BY <1>1, <1>9
<1>11. LockFacts(l)
  BY FactsOf
<1>12. LockFacts(l)'
  <2>1. \A d \in CPUs \ {c} : ~Locks!Inside(d, l) /\ ~Noted(d, l)
    BY <1>7, <1>11 DEF LockFacts, Noted
  <2>2. \A d \in CPUs \ {c} : Same(d, l)
    BY <1>4
  <2>3. NoThread \notin CPUs
    BY LocksConstants
  <2> QED BY <1>7, <1>8, <1>10, <1>11, <2>1, <2>2, <2>3 DEF LockFacts, Same
<1>13. Locks!Cleared(c)' = Locks!Cleared(c) /\ l \in Locks!Cleared(c)
  <2>1. \A m \in Locks!Locks \ {l} : Same(c, m)
    BY <1>4
  <2> QED BY <2>1, <1>7, <1>8 DEF Locks!Cleared, Same
<1>14. CountFacts(c)'
  <2>1. CountFacts(c)
    BY FactsOf
  <2> QED BY <2>1, <1>1, <1>13, CountStill
<1>15. FlagFacts(c)'
  <2>1. FlagFacts(c)
    BY FactsOf
  <2>2. Locks!Fresh(Locks!Todo(c)) => Locks!Fresh(Locks!Todo(c))'
    <3> SUFFICES ASSUME Locks!Fresh(Locks!Todo(c)) PROVE Locks!Fresh(tt)
      BY <1>4
    <3>1. ~Locks!Begins(Locks!Todo(c), <<"unlock", "ptable">>)
      BY <1>1 DEF Locks!At, Locks!Begins
    <3>2. tt = Tail(Locks!Forkret)
      BY <3>1, <1>3, FreshFacts
    <3> QED BY <3>2, FreshSteps
  <2>3. ~Locks!At(c, "resume", "ptable")
    BY <1>1, AtOne
  <2>4. Locks!HasIret(Locks!Todo(c))' <=> Locks!HasIret(Locks!Todo(c))
    BY <1>2, <1>4, <1>5
  <2> QED BY <2>1, <2>2, <2>3, <2>4, <1>1, <1>13 DEF FlagFacts
<1>16. Locks!TypeOK'
  BY <1>1, <1>10 DEF Locks!IInv, Locks!TypeOK
<1> QED BY <1>1, <1>2, <1>10, <1>12, <1>14, <1>15, <1>16, StepRest

\* acquire turns interrupts off: the first lock of a CPU saves the flag.
LEMMA PushcliKeeps ==
  ASSUME Locks!IInv, NEW c \in CPUs, NEW l \in Locks!Locks, Locks!Pushcli(c, l)
  PROVE  Locks!IInv'
<1>1. /\ Locks!At(c, "pushcli", l) /\ Locks!Done(c)
      /\ intr' = [intr EXCEPT ![c] = FALSE]
      /\ ncli' = [ncli EXCEPT ![c] = @ + 1]
      /\ intena' = IF ncli[c] = 0 THEN [intena EXCEPT ![c] = intr[c]] ELSE intena
      /\ lock' = lock /\ run' = run /\ saved' = saved
  BY DEF Locks!Pushcli
<1>2. PICK o : o = "pushcli"
  OBVIOUS
<1>3. PICK tt : tt = Tail(Locks!Todo(c))
  OBVIOUS
<1>4. /\ Locks!Todo(c)' = tt
      /\ \A d \in CPUs \ {c} : Still(d)
      /\ \A d \in CPUs, m \in Locks!Locks : d # c \/ m # l => Same(d, m)
  BY <1>1, <1>2, <1>3, StepDone
<1>5. /\ tt \in Seq(Locks!Ops) /\ Locks!Follows(o, l, tt)
      /\ Locks!HasIret(Locks!Todo(c)) <=> o = "iret" \/ Locks!HasIret(tt)
      /\ Locks!Inside(c, l) <=> o \notin {"pushcli", "xchg"}
  BY <1>1, <1>2, <1>3, HeadFacts
<1>6. /\ Locks!Begins(tt, <<"xchg", l>>) /\ ~Locks!In(tt, l)
      /\ \A m \in Locks!Locks \ ({l} \cup Locks!Outer(l)) : Locks!Out(tt, m)
  <2>1. /\ Locks!Begins(tt, <<"xchg", l>>)
        /\ \A m \in Locks!Locks \ ({l} \cup Locks!Outer(l)) : Locks!Out(tt, m)
    BY <1>2, <1>5 DEF Locks!Follows
  <2> QED BY <2>1, <1>5, NextView
<1>7. ~Locks!Inside(c, l) /\ ~Locks!At(c, "xchg", l)
  BY <1>1, <1>2, <1>5, AtOne
<1>8. ~Locks!Inside(c, l)' /\ Locks!At(c, "xchg", l)'
  BY <1>4, <1>6 DEF Locks!Inside, Locks!Begins, Locks!At
<1>9. LockFacts(l)'
  <2>1. LockFacts(l)
    BY FactsOf
  <2>2. \A d \in CPUs \ {c} : Same(d, l)
    BY <1>4
  <2>3. ~Noted(c, l) /\ ~Noted(c, l)'
    BY <1>7, <1>8 DEF Noted
  <2> QED BY <1>1, <1>7, <1>8, <2>1, <2>2, <2>3 DEF LockFacts, Same
<1>10. Locks!Cleared(c)' = Locks!Cleared(c) \cup {l} /\ l \notin Locks!Cleared(c)
  <2>1. \A m \in Locks!Locks \ {l} : Same(c, m)
    BY <1>4
  <2> QED BY <2>1, <1>7, <1>8 DEF Locks!Cleared, Same
<1>11. Locks!Cleared(c) \subseteq {"tickslock"}
  <2> SUFFICES ASSUME NEW m \in Locks!Locks, m \in Locks!Cleared(c), m # "tickslock" PROVE FALSE
    BY DEF Locks!Cleared
  <2>1. m # l /\ m \notin Locks!Outer(l)
    BY <1>10 DEF Locks!Outer
  <2>2. Locks!Out(Locks!Todo(c), m)'
    BY <1>4, <1>6, <2>1
  <2>3. Locks!Out(Locks!Todo(c), m) /\ m # "none"
    BY <2>1, <2>2, <1>4 DEF Same, Locks!Locks
  <2>4. ~Locks!Inside(c, m) /\ ~Locks!At(c, "xchg", m)
    BY <2>3, TodoFine, OutView
  <2> QED BY <2>4 DEF Locks!Cleared
<1>12. /\ ncli[c] = Cardinality(Locks!Cleared(c)) /\ ncli[c] \in Nat
       /\ (ncli[c] = 0 <=> Locks!Cleared(c) = {})
       /\ Locks!Cleared(c) \in SUBSET Locks!Locks
  BY ClearedCount
<1>13. Cardinality(Locks!Cleared(c)) <= 1
  <2>1. PICK T : T = {"tickslock"}
    OBVIOUS
  <2>2. IsFiniteSet(T) /\ Cardinality(T) = 1
    BY <2>1, FS_Singleton
  <2>3. Locks!Cleared(c) \in SUBSET T
    BY <2>1, <1>11
  <2> QED BY <2>2, <2>3, FS_Subset
<1>14. /\ ncli \in [CPUs -> 0 .. 2] /\ intr \in [CPUs -> BOOLEAN] /\ intena \in [CPUs -> BOOLEAN]
  BY DEF Locks!IInv, Locks!TypeOK
<1>15. /\ ncli'[c] = ncli[c] + 1 /\ ncli'[c] \in 0 .. 2 /\ ~intr'[c]
       /\ \A d \in CPUs \ {c} : ncli'[d] = ncli[d] /\ intr'[d] = intr[d] /\ intena'[d] = intena[d]
       /\ Locks!Cleared(c) = {} => intena'[c] = intr[c]
       /\ Locks!Cleared(c) # {} => intena'[c] = intena[c]
  BY <1>1, <1>12, <1>13, <1>14
<1>16. CountFacts(c)'
  <2>1. Cardinality(Locks!Cleared(c) \cup {l}) = Cardinality(Locks!Cleared(c)) + 1
    BY <1>10, <1>12, LocksCardinality, FS_AddElement
  <2>2. Locks!Cardinality(Locks!Cleared(c))' = Cardinality(Locks!Cleared(c)')
    BY LocksCardinality DEF Locks!Cardinality, Cardinality
  <2> QED BY <2>1, <2>2, <1>10, <1>12, <1>15 DEF CountFacts
<1>17. FlagFacts(c)'
  <2>1. FlagFacts(c)
    BY FactsOf
  <2>2. ~Locks!Fresh(Locks!Todo(c)) /\ Locks!Todo(c) # Locks!Iret
    BY <1>1, <1>2, NotFresh, NotIret
  <2>3. ~Locks!At(c, "resume", "ptable")
    BY <1>1, AtOne
  <2>4. Locks!HasIret(Locks!Todo(c))' <=> Locks!HasIret(Locks!Todo(c))
    BY <1>2, <1>4, <1>5
  <2>5. Locks!Cleared(c)' # {}
    BY <1>10
  <2> QED BY <2>1, <2>2, <2>3, <2>4, <2>5, <1>1, <1>15 DEF FlagFacts
<1>18. Locks!TypeOK'
  BY <1>1, <1>14, <1>15 DEF Locks!IInv, Locks!TypeOK
<1> QED BY <1>1, <1>2, <1>9, <1>15, <1>16, <1>17, <1>18, StepRest

\* release frees the lock: the last one of a CPU puts the flag back.
LEMMA UnlockKeeps ==
  ASSUME Locks!IInv, NEW c \in CPUs, NEW l \in Locks!Locks, Locks!Unlock(c, l)
  PROVE  Locks!IInv'
<1>1. /\ Locks!At(c, "unlock", l) /\ ~intr[c] /\ ncli[c] > 0 /\ Locks!Done(c)
      /\ lock' = [lock EXCEPT ![l].locked = FALSE]
      /\ ncli' = [ncli EXCEPT ![c] = @ - 1]
      /\ intr' = [intr EXCEPT ![c] = ncli[c] = 1 /\ intena[c]]
      /\ intena' = intena /\ run' = run /\ saved' = saved
  BY DEF Locks!Unlock
<1>2. PICK o : o = "unlock"
  OBVIOUS
<1>3. PICK tt : tt = Tail(Locks!Todo(c))
  OBVIOUS
<1>4. /\ Locks!Todo(c)' = tt
      /\ \A d \in CPUs \ {c} : Still(d)
      /\ \A d \in CPUs, m \in Locks!Locks : d # c \/ m # l => Same(d, m)
  BY <1>1, <1>2, <1>3, StepDone
<1>5. /\ tt \in Seq(Locks!Ops) /\ Locks!Follows(o, l, tt)
      /\ Locks!HasIret(Locks!Todo(c)) <=> o = "iret" \/ Locks!HasIret(tt)
      /\ Locks!Inside(c, l) <=> o \notin {"pushcli", "xchg"}
  BY <1>1, <1>2, <1>3, HeadFacts
<1>6. Locks!Out(tt, l) /\ ~Locks!In(tt, l) /\ Locks!First(tt) \notin {"owner", "unlock", "resume"}
  BY <1>2, <1>5, OutIsNotIn DEF Locks!Follows
<1>7. Locks!Inside(c, l) /\ ~Noted(c, l)
  BY <1>1, <1>2, <1>5 DEF Noted
<1>8. ~Locks!Inside(c, l)' /\ ~Locks!At(c, "xchg", l)' /\ ~Noted(c, l)' /\ Locks!Out(Locks!Todo(c), l)'
  <2>1. ~Locks!Inside(c, l)' /\ Locks!Out(Locks!Todo(c), l)'
    BY <1>4, <1>6 DEF Locks!Inside
  <2>2. ~Locks!Begins(tt, <<"xchg", l>>)
    BY <1>5, <1>6, NextView
  <2> QED BY <1>4, <2>1, <2>2 DEF Noted, Locks!At, Locks!Begins
<1>9. lock \in [Locks!Locks -> [locked : BOOLEAN, cpu : CPUs \cup {NoThread}]]
  BY DEF Locks!IInv, Locks!TypeOK
<1>10. /\ lock' \in [Locks!Locks -> [locked : BOOLEAN, cpu : CPUs \cup {NoThread}]]
       /\ ~lock'[l].locked /\ lock'[l].cpu = lock[l].cpu
       /\ \A m \in Locks!Locks \ {l} : lock'[m] = lock[m]
  BY <1>1, <1>9
<1>11. LockFacts(l)
  BY FactsOf
<1>12. LockFacts(l)'
  <2>1. \A d \in CPUs \ {c} : ~Locks!Inside(d, l) /\ ~Noted(d, l)
    BY <1>7, <1>11 DEF LockFacts, Noted
  <2>2. \A d \in CPUs \ {c} : Same(d, l)
    BY <1>4
  <2> QED BY <1>7, <1>8, <1>10, <1>11, <2>1, <2>2 DEF LockFacts, Same
<1>13. Locks!Cleared(c)' = Locks!Cleared(c) \ {l} /\ l \in Locks!Cleared(c)
  <2>1. \A m \in Locks!Locks \ {l} : Same(c, m)
    BY <1>4
  <2> QED BY <2>1, <1>7, <1>8 DEF Locks!Cleared, Same
<1>14. /\ ncli[c] = Cardinality(Locks!Cleared(c)) /\ ncli[c] \in Nat
       /\ Locks!Cleared(c) \in SUBSET Locks!Locks
  BY ClearedCount
<1>15. /\ ncli \in [CPUs -> 0 .. 2] /\ intr \in [CPUs -> BOOLEAN] /\ intena \in [CPUs -> BOOLEAN]
  BY DEF Locks!IInv, Locks!TypeOK
<1>16. /\ ncli'[c] = ncli[c] - 1 /\ ncli'[c] \in 0 .. 2
       /\ intr'[c] <=> ncli[c] = 1 /\ intena[c]
       /\ \A d \in CPUs \ {c} : ncli'[d] = ncli[d] /\ intr'[d] = intr[d] /\ intena'[d] = intena[d]
  BY <1>1, <1>15
<1>17. Cardinality(Locks!Cleared(c) \ {l}) = ncli[c] - 1
  BY <1>13, <1>14, LocksCardinality, FS_RemoveElement
<1>18. Locks!Cleared(c)' = {} <=> ncli[c] = 1
  <2>1. PICK S : S = Locks!Cleared(c) \ {l}
    OBVIOUS
  <2>2. S \in SUBSET Locks!Locks /\ Cardinality(S) = ncli[c] - 1
    BY <2>1, <1>14, <1>17
  <2>3. S = {} <=> ncli[c] = 1
    BY <2>2, <1>14, LocksCardinality
  <2> QED BY <2>1, <2>3, <1>13
<1>19. CountFacts(c)'
  <2>1. Locks!Cardinality(Locks!Cleared(c))' = Cardinality(Locks!Cleared(c)')
    BY LocksCardinality DEF Locks!Cardinality, Cardinality
  <2> QED BY <2>1, <1>1, <1>13, <1>14, <1>16, <1>17 DEF CountFacts
<1>20. FlagFacts(c)'
  <2>1. FlagFacts(c)
    BY FactsOf
  <2>2. Locks!Fresh(Locks!Todo(c)) => tt = Locks!Iret
    <3>1. ~Locks!Begins(Locks!Todo(c), <<"disown", "ptable">>)
      BY <1>1 DEF Locks!At, Locks!Begins
    <3> QED BY <3>1, <1>3, FreshFacts
  <2>3. ~Locks!At(c, "resume", "ptable")
    BY <1>1, AtOne
  <2>4. Locks!HasIret(Locks!Todo(c))' <=> Locks!HasIret(Locks!Todo(c))
    BY <1>2, <1>4, <1>5
  <2>5. Locks!Cleared(c) # {}
    BY <1>13
  <2>6. tt = Locks!Iret => Locks!Cleared(c)' = {}
    <3> SUFFICES ASSUME tt = Locks!Iret, NEW m \in Locks!Locks
                 PROVE  ~Locks!Inside(c, m)' /\ ~Locks!At(c, "xchg", m)'
      BY DEF Locks!Cleared
    <3>1. Locks!ThreadOps \in Both
      BY DEF Both
    <3>2. Locks!Out(tt, m)
      BY <3>1, IretAlone DEF QuietPath
    <3>3. ~Locks!In(tt, m) /\ ~Locks!Begins(tt, <<"xchg", m>>)
      BY <1>5, <3>2, OutIsNotIn, NextView
    <3> QED BY <1>4, <3>3 DEF Locks!Inside, Locks!At, Locks!Begins
  <2>7. /\ run[c] # NoThread /\ ~Locks!Fresh(Locks!Todo(c)) => (intena[c] <=> ~Locks!HasIret(Locks!Todo(c)))
        /\ run[c] = NoThread /\ Locks!HasIret(Locks!Todo(c)) => ~intena[c]
    BY <2>1, <2>3, <2>5 DEF FlagFacts
  <2>8. Locks!Todo(c)' # Locks!Iret => ~Locks!Fresh(Locks!Todo(c))
    BY <2>2, <1>4
  <2>9. Locks!Cleared(c)' # {} => ~Locks!Fresh(Locks!Todo(c))
    BY <2>2, <2>6
  <2> QED BY <2>4, <2>7, <2>8, <2>9, <1>1, <1>16, <1>18 DEF FlagFacts
<1>21. Locks!TypeOK'
  BY <1>1, <1>10, <1>15, <1>16 DEF Locks!IInv, Locks!TypeOK
<1> QED BY <1>1, <1>2, <1>10, <1>12, <1>16, <1>19, <1>20, <1>21, StepRest

-----------------------------------------------------------------------------
(* Steps that leave the locks alone.                                        *)
LEMMA OutNext ==
  ASSUME NEW ss \in Seq(Locks!Ops), NEW m \in Locks!Locks, Locks!Out(ss, m)
  PROVE  /\ ~Locks!In(ss, m) /\ ~Locks!Begins(ss, <<"xchg", m>>)
         /\ m = "ptable" => ~Locks!Begins(ss, <<"resume", "ptable">>)
<1>1. ~Locks!In(ss, m)
  BY OutIsNotIn
<1>2. ~Locks!Begins(ss, <<"xchg", m>>)
  BY NextView
<1>3. ASSUME m = "ptable", Locks!Begins(ss, <<"resume", m>>) PROVE FALSE
  <2>1. PICK o : o = "resume"
    OBVIOUS
  <2>2. <<o, m>> \in Locks!Ops /\ Locks!Begins(ss, <<o, m>>)
    BY <1>3, <2>1 DEF Locks!Ops
  <2>3. Locks!In(ss, m) <=> o \notin {"pushcli", "xchg"}
    BY <2>2, BeginsView
  <2> QED BY <2>1, <2>3, <1>1
<1> QED BY <1>1, <1>2, <1>3

\* A lock that is out of hand before a step and after it.
LEMMA OutSame ==
  ASSUME NEW c, NEW m \in Locks!Locks, NEW ss \in Seq(Locks!Ops), Locks!Todo(c) \in Seq(Locks!Ops),
         Locks!Out(Locks!Todo(c), m), Locks!Todo(c)' = ss, Locks!Out(ss, m)
  PROVE  Same(c, m)
<1>1. PICK s0 : s0 = Locks!Todo(c)
  OBVIOUS
<1>2. ~Locks!In(s0, m) /\ ~Locks!Begins(s0, <<"xchg", m>>)
  BY <1>1, OutNext
<1>3. ~Locks!In(ss, m) /\ ~Locks!Begins(ss, <<"xchg", m>>)
  BY OutNext
<1>4. ~Locks!Inside(c, m) /\ ~Locks!At(c, "xchg", m)
  BY <1>1, <1>2 DEF Locks!Inside, Locks!At, Locks!Begins
<1>5. ~Locks!Inside(c, m)' /\ ~Locks!At(c, "xchg", m)'
  BY <1>3 DEF Locks!Inside, Locks!At, Locks!Begins
<1> QED BY <1>4, <1>5 DEF Same, Noted

\* A path with ptable.lock in hand, at an operation that is not next to the exchange.
Keeper(ss) ==
  \E o \in {"disown", "sched", "resume", "exit", "loop"} : Locks!Begins(ss, <<o, "ptable">>)

\* Such a path is between acquire and release, and noted.
LEMMA KeeperView ==
  ASSUME NEW ss \in Seq(Locks!Ops), Keeper(ss)
  PROVE  /\ Locks!In(ss, "ptable") /\ ~Locks!Out(ss, "ptable")
         /\ ~Locks!Begins(ss, <<"xchg", "ptable">>) /\ ~Locks!Begins(ss, <<"owner", "ptable">>)
         /\ ~Locks!Begins(ss, <<"unlock", "ptable">>)
<1>1. PICK o \in {"disown", "sched", "resume", "exit", "loop"} : Locks!Begins(ss, <<o, "ptable">>)
  BY DEF Keeper
<1>2. PICK l : l = "ptable"
  OBVIOUS
<1>3. <<o, l>> \in Locks!Ops /\ Locks!Begins(ss, <<o, l>>)
  BY <1>1, <1>2 DEF Locks!Ops, Locks!Locks
<1>4. /\ Locks!In(ss, l) <=> o \notin {"pushcli", "xchg"}
      /\ Locks!Out(ss, l) <=> o = "pushcli"
      /\ \A o2, m : Locks!Begins(ss, <<o2, m>>) <=> o2 = o /\ m = l
  BY <1>3, BeginsView
<1> QED BY <1>2, <1>4

\* ptable.lock in hand before a step and after it.
LEMMA KeeperSame ==
  ASSUME NEW c, NEW ss \in Seq(Locks!Ops), Locks!Todo(c) \in Seq(Locks!Ops),
         Keeper(Locks!Todo(c)), Locks!Todo(c)' = ss, Keeper(ss)
  PROVE  Same(c, "ptable")
<1>1. PICK s0 : s0 = Locks!Todo(c)
  OBVIOUS
<1>2. /\ Locks!In(s0, "ptable") /\ ~Locks!Out(s0, "ptable")
      /\ ~Locks!Begins(s0, <<"xchg", "ptable">>) /\ ~Locks!Begins(s0, <<"owner", "ptable">>)
      /\ ~Locks!Begins(s0, <<"unlock", "ptable">>)
  BY <1>1, KeeperView
<1>3. /\ Locks!In(ss, "ptable") /\ ~Locks!Out(ss, "ptable")
      /\ ~Locks!Begins(ss, <<"xchg", "ptable">>) /\ ~Locks!Begins(ss, <<"owner", "ptable">>)
      /\ ~Locks!Begins(ss, <<"unlock", "ptable">>)
  BY KeeperView
<1>4. Locks!Inside(c, "ptable") /\ ~Locks!At(c, "xchg", "ptable") /\ Noted(c, "ptable")
  BY <1>1, <1>2 DEF Locks!Inside, Locks!At, Locks!Begins, Noted
<1>5. Locks!Inside(c, "ptable")' /\ ~Locks!At(c, "xchg", "ptable")' /\ Noted(c, "ptable")'
  BY <1>3 DEF Locks!Inside, Locks!At, Locks!Begins, Noted
<1> QED BY <1>1, <1>2, <1>3, <1>4, <1>5 DEF Same

\* Steps that move no CPU with respect to any lock.
LEMMA LocksKept ==
  ASSUME Locks!IInv, lock' = lock, \A d \in CPUs, m \in Locks!Locks : Same(d, m)
  PROVE  \A m \in Locks!Locks : LockFacts(m)'
BY FactsOf, LockSame

\* A CPU that has ptable.lock and goes on with it.
LEMMA KeeperCleared ==
  ASSUME Locks!IInv, NEW c \in CPUs, Keeper(Locks!Todo(c)),
         \A m \in Locks!Locks \ {"ptable"} : Locks!Out(Locks!Todo(c), m)
  PROVE  Locks!Cleared(c) = {"ptable"} /\ Noted(c, "ptable") /\ ncli[c] = 1 /\ ~intr[c]
<1>1. PICK s0 : s0 = Locks!Todo(c)
  OBVIOUS
<1>2. s0 \in Seq(Locks!Ops)
  BY <1>1, TodoFine
<1>3. /\ Locks!In(s0, "ptable") /\ ~Locks!Begins(s0, <<"owner", "ptable">>)
      /\ ~Locks!Begins(s0, <<"unlock", "ptable">>)
  BY <1>1, <1>2, KeeperView
<1>4. Noted(c, "ptable")
  BY <1>1, <1>3 DEF Locks!Inside, Locks!At, Locks!Begins, Noted
<1>5. \A m \in Locks!Locks \ {"ptable"} : ~Locks!Inside(c, m) /\ ~Locks!At(c, "xchg", m)
  <2> TAKE m \in Locks!Locks \ {"ptable"}
  <2>1. ~Locks!In(s0, m) /\ ~Locks!Begins(s0, <<"xchg", m>>)
    BY <1>1, <1>2, OutNext
  <2> QED BY <1>1, <2>1 DEF Locks!Inside, Locks!At, Locks!Begins
<1>6. Locks!Cleared(c) = {"ptable"}
  BY <1>4, <1>5 DEF Locks!Cleared, Noted, Locks!Locks
<1>7. ncli[c] = 1
  BY <1>6, ClearedCount, FS_Singleton
<1>8. ~intr[c]
  BY <1>7, ClearedCount
<1> QED BY <1>4, <1>6, <1>7, <1>8

\* A step from a path with no lock in hand to another.
LEMMA QuietStep ==
  ASSUME Locks!IInv, NEW c \in CPUs, \A m \in Locks!Locks : Locks!Out(Locks!Todo(c), m),
         NEW ss, QuietPath(ss, OpsOf(c)), code' = [code EXCEPT ![Locks!Context(c)] = ss],
         NEW flag \in BOOLEAN, intr' = [intr EXCEPT ![c] = flag],
         lock' = lock, ncli' = ncli, intena' = intena, run' = run, saved' = saved,
         run[c] # NoThread => (ss # Locks!Iret => (flag <=> ~Locks!HasIret(ss))),
         run[c] = NoThread => (Locks!HasIret(ss) /\ ss # Locks!Iret => ~flag)
  PROVE  Locks!IInv'
<1>1. ss \in Seq(Locks!Ops) /\ Locks!Fine(ss, OpsOf(c)) /\ \A m \in Locks!Locks : Locks!Out(ss, m)
  BY DEF QuietPath
<1>2. /\ Locks!CodeInv' /\ Locks!RunInv' /\ Locks!Todo(c)' = ss
      /\ \A d \in CPUs \ {c} : Still(d)
  BY <1>1, PathStays
<1>3. ASSUME NEW d \in CPUs, NEW m \in Locks!Locks PROVE Same(d, m)
  <2>1. CASE d = c
    BY <2>1, <1>1, <1>2, TodoFine, OutSame
  <2>2. CASE d # c
    BY <2>2, <1>2, StillSame DEF Still
  <2> QED BY <2>1, <2>2
<1>4. \A m \in Locks!Locks : LockFacts(m)'
  BY <1>3, LocksKept
<1>5. Locks!Cleared(c) = {} /\ ncli[c] = 0 /\ Locks!Cleared(c)' = {}
  BY <1>3, NothingCleared, ClearedSame
<1>6. intr \in [CPUs -> BOOLEAN]
  BY DEF Locks!IInv, Locks!TypeOK
<1>7. intr' \in [CPUs -> BOOLEAN] /\ intr'[c] = flag /\ \A d \in CPUs \ {c} : intr'[d] = intr[d]
  BY <1>6
<1>8. CountFacts(c)'
  <2>1. ncli[c] = Locks!Cardinality(Locks!Cleared(c))
    BY FactsOf DEF CountFacts
  <2>2. Locks!Cardinality(Locks!Cleared(c))' = Locks!Cardinality(Locks!Cleared(c))
    BY <1>5 DEF Locks!Cardinality
  <2> QED BY <2>1, <2>2, <1>5 DEF CountFacts
<1>9. FlagFacts(c)'
  BY <1>2, <1>5, <1>7 DEF FlagFacts
<1>10. ASSUME NEW t \in Threads PROVE SavedFacts(t)'
  <2>1. SavedFacts(t)
    BY FactsOf
  <2>2. "ptable" \in Locks!Locks
    BY DEF Locks!Locks
  <2>3. ~Locks!Begins(ss, <<"resume", "ptable">>)
    BY <1>1, <2>2, OutNext
  <2>4. t \in CPUs \cup Threads
    OBVIOUS
  <2>5. code'[t] = ss \/ code'[t] = code[t]
    BY <1>1, <2>4, PathStep
  <2> QED BY <2>1, <2>3, <2>5 DEF SavedFacts
<1>11. Locks!TypeOK'
  BY <1>7 DEF Locks!IInv, Locks!TypeOK
<1> QED BY <1>2, <1>4, <1>7, <1>8, <1>9, <1>10, <1>11, Assemble

\* The scheduler turns interrupts on and begins a round.
LEMMA StiKeeps ==
  ASSUME Locks!IInv, NEW c \in CPUs, Locks!Sti(c)
  PROVE  Locks!IInv'
<1>1. /\ run[c] = NoThread /\ code[c] = <<>>
      /\ intr' = [intr EXCEPT ![c] = TRUE]
      /\ code' = [code EXCEPT ![c] = Locks!Scheduler]
      /\ UNCHANGED <<lock, ncli, intena, run, saved>>
  BY DEF Locks!Sti
<1>2. Locks!Context(c) = c /\ Locks!Todo(c) = <<>> /\ OpsOf(c) = Locks!SchedulerOps
  BY <1>1, Contexts DEF Locks!Todo, OpsOf
<1>3. \A m \in Locks!Locks : Locks!Out(Locks!Todo(c), m)
  BY <1>2, InOutEmpty
<1>4. PICK ss : ss = Locks!Scheduler
  OBVIOUS
<1>5. QuietPath(ss, OpsOf(c)) /\ ~Locks!HasIret(ss)
  BY <1>2, <1>4, SchedulerQuiet
<1> QED BY <1>1, <1>2, <1>3, <1>4, <1>5, QuietStep

\* Between calls a thread in user mode has interrupts on.
LEMMA UserMode ==
  ASSUME Locks!IInv, NEW c \in CPUs, run[c] # NoThread, Locks!Todo(c) = <<>>
  PROVE  /\ Locks!Context(c) = run[c] /\ OpsOf(c) = Locks!ThreadOps
         /\ \A m \in Locks!Locks : Locks!Out(Locks!Todo(c), m)
         /\ intr[c]
<1>1. Locks!Context(c) = run[c] /\ OpsOf(c) = Locks!ThreadOps
  BY Contexts DEF OpsOf
<1>2. \A m \in Locks!Locks : Locks!Out(Locks!Todo(c), m)
  BY InOutEmpty
<1>3. Locks!Cleared(c) = {} /\ FlagFacts(c)
  BY <1>2, NothingCleared, FactsOf
<1>4. Locks!Todo(c) # Locks!Iret /\ ~Locks!HasIret(Locks!Todo(c))
  BY InOutEmpty DEF Locks!Iret
<1> QED BY <1>1, <1>2, <1>3, <1>4 DEF FlagFacts

\* A system call keeps interrupts on.
LEMMA SyscallKeeps ==
  ASSUME Locks!IInv, NEW c \in CPUs, Locks!Syscall(c)
  PROVE  Locks!IInv'
<1>1. /\ run[c] # NoThread /\ Locks!Todo(c) = <<>>
      /\ UNCHANGED <<lock, intr, ncli, intena, run, saved>>
  BY DEF Locks!Syscall
<1>2. PICK path \in {Locks!Uptime, Locks!Sleep, Locks!Yield, Locks!Kalloc, Locks!Exit} :
        code' = [code EXCEPT ![run[c]] = path]
  BY DEF Locks!Syscall
<1>3. QuietPath(path, Locks!ThreadOps) /\ ~Locks!HasIret(path)
  BY CallsQuiet
<1>4. /\ Locks!Context(c) = run[c] /\ OpsOf(c) = Locks!ThreadOps
      /\ \A m \in Locks!Locks : Locks!Out(Locks!Todo(c), m)
      /\ intr[c]
  BY <1>1, UserMode
<1>5. intr' = [intr EXCEPT ![c] = intr[c]] /\ intr[c] \in BOOLEAN
  BY <1>1 DEF Locks!IInv, Locks!TypeOK
<1> QED BY <1>1, <1>2, <1>3, <1>4, <1>5, QuietStep

\* A page fault turns them off.
LEMMA PageFaultKeeps ==
  ASSUME Locks!IInv, NEW c \in CPUs, Locks!PageFault(c)
  PROVE  Locks!IInv'
<1>1. PICK ss : ss = Locks!Kalloc \o Locks!Iret
  OBVIOUS
<1>2. /\ run[c] # NoThread /\ Locks!Todo(c) = <<>>
      /\ intr' = [intr EXCEPT ![c] = FALSE]
      /\ code' = [code EXCEPT ![run[c]] = ss]
      /\ UNCHANGED <<lock, ncli, intena, run, saved>>
  BY <1>1 DEF Locks!PageFault
<1>3. QuietPath(ss, Locks!ThreadOps) /\ Locks!HasIret(ss)
  BY <1>1, KallocInTrap
<1>4. /\ Locks!Context(c) = run[c] /\ OpsOf(c) = Locks!ThreadOps
      /\ \A m \in Locks!Locks : Locks!Out(Locks!Todo(c), m)
  BY <1>2, UserMode
<1> QED BY <1>2, <1>3, <1>4, QuietStep

\* So does the timer, wherever they are on.
LEMMA TimerKeeps ==
  ASSUME Locks!IInv, NEW c \in CPUs, Locks!TimerInterrupt(c)
  PROVE  Locks!IInv'
<1>1. PICK s0 : s0 = Locks!Todo(c)
  OBVIOUS
<1>2. PICK ss : ss = Locks!Timer(c) \o s0
  OBVIOUS
<1>3. /\ intr[c] /\ intr' = [intr EXCEPT ![c] = FALSE]
      /\ code' = [code EXCEPT ![Locks!Context(c)] = ss]
      /\ UNCHANGED <<lock, ncli, intena, run, saved>>
  BY <1>1, <1>2 DEF Locks!TimerInterrupt, Locks!Todo
<1>4. Locks!Cleared(c) = {}
  BY <1>3, ClearedCount
<1>5. QuietPath(s0, OpsOf(c)) /\ OpsOf(c) \in Both
  BY <1>1, <1>4, ClearedNothing, TodoFine
<1>6. s0 = Locks!Iret \/ ~Locks!HasIret(s0)
  <2>1. FlagFacts(c)
    BY FactsOf
  <2> QED BY <2>1, <1>1, <1>3, <1>4 DEF FlagFacts
<1>7. run[c] # NoThread => OpsOf(c) = Locks!ThreadOps
  BY DEF OpsOf
<1>8. QuietPath(ss, OpsOf(c)) /\ Locks!HasIret(ss)
  BY <1>2, <1>5, <1>6, <1>7, TimerQuiet
<1>9. \A m \in Locks!Locks : Locks!Out(Locks!Todo(c), m)
  BY <1>1, <1>5 DEF QuietPath
<1> QED BY <1>3, <1>8, <1>9, QuietStep

\* iret turns them on again.
LEMMA ReturnKeepsLocks ==
  ASSUME Locks!IInv, NEW c \in CPUs, Locks!ReturnFromTrap(c)
  PROVE  Locks!IInv'
<1>1. /\ Locks!At(c, "iret", "none") /\ intr' = [intr EXCEPT ![c] = TRUE] /\ Locks!Done(c)
      /\ UNCHANGED <<lock, ncli, intena, run, saved>>
  BY DEF Locks!ReturnFromTrap
<1>2. PICK o, l : o = "iret" /\ l = "none"
  OBVIOUS
<1>3. PICK tt : tt = Tail(Locks!Todo(c))
  OBVIOUS
<1>4. /\ tt \in Seq(Locks!Ops) /\ Locks!Follows(o, l, tt) /\ Locks!Fine(tt, OpsOf(c))
      /\ \A m : m # l => (Locks!Out(Locks!Todo(c), m) <=> Locks!Out(tt, m))
  BY <1>1, <1>2, <1>3, HeadFacts
<1>5. (tt = Locks!Iret \/ ~Locks!HasIret(tt)) /\ \A m \in Locks!Locks : Locks!Out(tt, m)
  BY <1>2, <1>4 DEF Locks!Follows, Locks!Locks
<1>6. QuietPath(tt, OpsOf(c)) /\ \A m \in Locks!Locks : Locks!Out(Locks!Todo(c), m)
  <2>1. l \notin Locks!Locks
    BY <1>2 DEF Locks!Locks
  <2> QED BY <2>1, <1>4, <1>5 DEF QuietPath
<1>7. code' = [code EXCEPT ![Locks!Context(c)] = tt]
  BY <1>1, <1>3 DEF Locks!Done, Locks!Todo
<1> QED BY <1>1, <1>5, <1>6, <1>7, QuietStep

\* What comes after a step of sched or of the scheduler's loop.
LEMMA AfterSwitch ==
  ASSUME Locks!IInv, NEW c \in CPUs, NEW o \in {"sched", "resume", "exit", "loop"}, Locks!At(c, o, "ptable"),
         NEW tt, tt = Tail(Locks!Todo(c))
  PROVE  /\ tt \in Seq(Locks!Ops) /\ Locks!Fine(tt, OpsOf(c)) /\ <<o, "ptable">> \in OpsOf(c)
         /\ Locks!HasIret(Locks!Todo(c)) <=> Locks!HasIret(tt)
         /\ Keeper(Locks!Todo(c))
         /\ \A m \in Locks!Locks \ {"ptable"} : Locks!Out(Locks!Todo(c), m) /\ Locks!Out(tt, m)
         /\ o = "sched" => Locks!Begins(tt, <<"resume", "ptable">>)
         /\ o \in {"resume", "loop"} => Locks!Begins(tt, <<"disown", "ptable">>)
         /\ o = "loop" => ~Locks!HasIret(tt)
         /\ Locks!Cleared(c) = {"ptable"} /\ Noted(c, "ptable") /\ ncli[c] = 1 /\ ~intr[c]
<1>1. PICK l : l = "ptable"
  OBVIOUS
<1>2. /\ tt \in Seq(Locks!Ops) /\ Locks!Follows(o, l, tt) /\ Locks!Fine(tt, OpsOf(c)) /\ <<o, l>> \in OpsOf(c)
      /\ \A m : m # l => (Locks!Out(Locks!Todo(c), m) <=> Locks!Out(tt, m))
      /\ Locks!HasIret(Locks!Todo(c)) <=> o = "iret" \/ Locks!HasIret(tt)
  BY <1>1, HeadFacts
<1>3. /\ o = "sched" => Locks!Begins(tt, <<"resume", l>>)
      /\ o \in {"resume", "loop"} => Locks!Begins(tt, <<"disown", l>>)
      /\ o = "loop" => ~Locks!HasIret(tt)
      /\ o = "exit" => tt = <<>>
  BY <1>2 DEF Locks!Follows
<1>4. \A m \in Locks!Locks \ {l} : Locks!Out(tt, m)
  <2>1. CASE o # "exit"
    BY <2>1, <1>2 DEF Locks!Follows
  <2>2. CASE o = "exit"
    BY <2>2, <1>3, InOutEmpty
  <2> QED BY <2>1, <2>2
<1>5. \A m \in Locks!Locks \ {l} : Locks!Out(Locks!Todo(c), m)
  BY <1>2, <1>4
<1>6. Keeper(Locks!Todo(c))
  BY DEF Keeper, Locks!At, Locks!Begins
<1>7. Locks!Cleared(c) = {"ptable"} /\ Noted(c, "ptable") /\ ncli[c] = 1 /\ ~intr[c]
  BY <1>1, <1>5, <1>6, KeeperCleared
<1> QED BY <1>1, <1>2, <1>3, <1>4, <1>5, <1>6, <1>7

\* The end of a round of the scheduler.
LEMMA EndRoundKeeps ==
  ASSUME Locks!IInv, NEW c \in CPUs, Locks!EndRound(c)
  PROVE  Locks!IInv'
<1>1. /\ Locks!At(c, "loop", "ptable") /\ Locks!Done(c)
      /\ UNCHANGED <<lock, intr, ncli, intena, run, saved>>
  BY DEF Locks!EndRound
<1>2. PICK o, l : o = "loop" /\ l = "ptable"
  OBVIOUS
<1>3. PICK tt : tt = Tail(Locks!Todo(c))
  OBVIOUS
<1>4. /\ tt \in Seq(Locks!Ops) /\ <<o, l>> \in OpsOf(c)
      /\ Locks!HasIret(Locks!Todo(c)) <=> Locks!HasIret(tt)
      /\ Keeper(Locks!Todo(c)) /\ Locks!Begins(tt, <<"disown", "ptable">>) /\ ~Locks!HasIret(tt)
  BY <1>1, <1>2, <1>3, AfterSwitch
<1>5. /\ Locks!Todo(c)' = tt
      /\ \A d \in CPUs, m \in Locks!Locks : d # c \/ m # l => Same(d, m)
  BY <1>1, <1>2, <1>3, StepDone
<1>6. Same(c, "ptable")
  <2>1. Keeper(tt)
    BY <1>4 DEF Keeper
  <2> QED BY <2>1, <1>4, <1>5, TodoFine, KeeperSame
<1>7. \A d \in CPUs, m \in Locks!Locks : Same(d, m)
  BY <1>2, <1>5, <1>6
<1>8. \A m \in Locks!Locks : LockFacts(m)'
  BY <1>1, <1>7, LocksKept
<1>9. Locks!Cleared(c)' = Locks!Cleared(c)
  BY <1>7, ClearedSame
<1>10. CountFacts(c)'
  BY <1>1, <1>9, FactsOf, CountStill
<1>11. run[c] = NoThread
  <2> SUFFICES ASSUME run[c] # NoThread PROVE FALSE
    OBVIOUS
  <2>1. <<o, l>> \in Locks!ThreadOps
    BY <1>4 DEF OpsOf
  <2> QED BY <2>1, <1>2 DEF Locks!ThreadOps
<1>12. FlagFacts(c)'
  BY <1>1, <1>4, <1>5, <1>11 DEF FlagFacts
<1>13. Locks!TypeOK'
  BY <1>1 DEF Locks!IInv, Locks!TypeOK
<1>14. l \in Locks!Locks
  BY <1>2 DEF Locks!Locks
<1> QED BY <1>1, <1>2, <1>8, <1>10, <1>12, <1>13, <1>14, StepRest

\* Behind swtch the thread puts its own flag back.
LEMMA ResumeKeeps ==
  ASSUME Locks!IInv, NEW c \in CPUs, Locks!Resume(c)
  PROVE  Locks!IInv'
<1>1. /\ Locks!At(c, "resume", "ptable") /\ Locks!Done(c)
      /\ intena' = [intena EXCEPT ![c] = saved[run[c]]]
      /\ UNCHANGED <<lock, intr, ncli, run, saved>>
  BY DEF Locks!Resume
<1>2. PICK o, l : o = "resume" /\ l = "ptable"
  OBVIOUS
<1>3. PICK tt : tt = Tail(Locks!Todo(c))
  OBVIOUS
<1>4. /\ tt \in Seq(Locks!Ops) /\ <<o, l>> \in OpsOf(c)
      /\ Locks!HasIret(Locks!Todo(c)) <=> Locks!HasIret(tt)
      /\ Keeper(Locks!Todo(c)) /\ Locks!Begins(tt, <<"disown", "ptable">>)
      /\ Locks!Cleared(c) = {"ptable"}
  BY <1>1, <1>2, <1>3, AfterSwitch
<1>5. /\ Locks!Todo(c)' = tt
      /\ \A d \in CPUs, m \in Locks!Locks : d # c \/ m # l => Same(d, m)
  BY <1>1, <1>2, <1>3, StepDone
<1>6. Same(c, "ptable")
  <2>1. Keeper(tt)
    BY <1>4 DEF Keeper
  <2> QED BY <2>1, <1>4, <1>5, TodoFine, KeeperSame
<1>7. \A d \in CPUs, m \in Locks!Locks : Same(d, m)
  BY <1>2, <1>5, <1>6
<1>8. \A m \in Locks!Locks : LockFacts(m)'
  BY <1>1, <1>7, LocksKept
<1>9. Locks!Cleared(c)' = Locks!Cleared(c)
  BY <1>7, ClearedSame
<1>10. CountFacts(c)'
  BY <1>1, <1>9, FactsOf, CountStill
<1>11. run[c] # NoThread
  <2> SUFFICES ASSUME run[c] = NoThread PROVE FALSE
    OBVIOUS
  <2>1. <<o, l>> \in Locks!SchedulerOps
    BY <1>4 DEF OpsOf
  <2> QED BY <2>1, <1>2 DEF Locks!SchedulerOps
<1>12. run[c] \in Threads /\ Locks!Todo(c) = code[run[c]]
  BY <1>11, Contexts DEF Locks!Todo
<1>13. saved[run[c]] \in BOOLEAN /\ (saved[run[c]] <=> ~Locks!HasIret(Locks!Todo(c)))
  <2>1. SavedFacts(run[c]) /\ saved \in [Threads -> BOOLEAN]
    BY <1>12, FactsOf DEF Locks!IInv, Locks!TypeOK
  <2>2. Locks!Begins(code[run[c]], <<"resume", "ptable">>)
    BY <1>1, <1>12 DEF Locks!At, Locks!Begins
  <2> QED BY <2>1, <2>2, <1>12 DEF SavedFacts
<1>14. intena \in [CPUs -> BOOLEAN]
  BY DEF Locks!IInv, Locks!TypeOK
<1>15. /\ intena' \in [CPUs -> BOOLEAN] /\ intena'[c] = saved[run[c]]
       /\ \A d \in CPUs \ {c} : intena'[d] = intena[d]
  BY <1>1, <1>13, <1>14
<1>16. FlagFacts(c)'
  <2>1. Locks!Cleared(c)' # {}
    BY <1>4, <1>9
  <2>2. run'[c] # NoThread
    BY <1>1, <1>11
  <2>3. intena'[c] <=> ~Locks!HasIret(Locks!Todo(c)')
    BY <1>4, <1>5, <1>13, <1>15
  <2> QED BY <2>1, <2>2, <2>3 DEF FlagFacts
<1>17. Locks!TypeOK'
  BY <1>1, <1>15 DEF Locks!IInv, Locks!TypeOK
<1>18. l \in Locks!Locks
  BY <1>2 DEF Locks!Locks
<1> QED BY <1>1, <1>2, <1>8, <1>10, <1>15, <1>16, <1>17, <1>18, StepRest

\* The scheduler that a thread leaves to, or that it is dispatched by, is in its loop.
LEMMA LoopView ==
  ASSUME Locks!IInv, NEW d \in CPUs, Locks!Begins(code[d], <<"loop", "ptable">>)
  PROVE  /\ Keeper(code[d]) /\ code[d] \in Seq(Locks!Ops)
         /\ \A m \in Locks!Locks \ {"ptable"} : Locks!Out(code[d], m)
         /\ ~Locks!HasIret(code[d])
<1>1. PICK ss : ss = code[d]
  OBVIOUS
<1>2. PICK op : op = <<"loop", "ptable">>
  OBVIOUS
<1>3. PICK ops : ops = Locks!SchedulerOps
  OBVIOUS
<1>4. ss \in Seq(Locks!Ops) /\ Locks!Fine(ss, ops)
  BY <1>1, <1>3 DEF Locks!IInv, Locks!CodeInv
<1>5. PICK tt : tt = Tail(ss)
  OBVIOUS
<1>6. ss # <<>> /\ Head(ss) = op /\ op[1] = "loop" /\ op[2] = "ptable"
  BY <1>1, <1>2 DEF Locks!Begins
<1>7. Locks!Follows(op[1], op[2], tt)
  BY <1>4, <1>5, <1>6, FineRest
<1>8. ~Locks!HasIret(tt) /\ \A m \in Locks!Locks \ {"ptable"} : Locks!Out(tt, m)
  BY <1>6, <1>7 DEF Locks!Follows
<1>9. Locks!HasIret(ss) <=> op[1] = "iret" \/ Locks!HasIret(tt)
  BY <1>4, <1>5, <1>6, InOutRest
<1>10. \A m : op[2] # m => (Locks!Out(ss, m) <=> Locks!Out(tt, m))
  BY <1>4, <1>5, <1>6, InOutRest
<1>11. Keeper(ss)
  BY <1>1 DEF Keeper
<1> QED BY <1>1, <1>4, <1>6, <1>8, <1>9, <1>10, <1>11

\* The path of a thread changes on the CPU that runs it.
LEMMA ThreadPath ==
  ASSUME Locks!IInv, NEW c \in CPUs, run[c] # NoThread,
         NEW ss \in Seq(Locks!Ops), Locks!Fine(ss, Locks!ThreadOps), code' = [code EXCEPT ![run[c]] = ss]
  PROVE  /\ Locks!CodeInv'
         /\ code'[run[c]] = ss
         /\ \A x \in CPUs \cup Threads : x # run[c] => code'[x] = code[x]
<1>1. Locks!Context(c) = run[c] /\ OpsOf(c) = Locks!ThreadOps
  BY Contexts DEF OpsOf
<1>2. code' = [code EXCEPT ![Locks!Context(c)] = ss]
  BY <1>1
<1>3. Locks!Fine(ss, OpsOf(c))
  BY <1>1
<1>4. /\ Locks!CodeInv'
      /\ code'[Locks!Context(c)] = ss
      /\ \A x \in CPUs \cup Threads : x # Locks!Context(c) => code'[x] = code[x]
  BY <1>2, <1>3, PathStep
<1> QED BY <1>1, <1>4

\* sched() of a thread, for a while or for good.
LEMMA ThreadLeaves ==
  ASSUME Locks!IInv, NEW c \in CPUs, NEW o \in {"sched", "exit"}, Locks!At(c, o, "ptable"),
         run[c] # NoThread, NEW ss \in Seq(Locks!Ops), Locks!Fine(ss, Locks!ThreadOps),
         Locks!Begins(ss, <<"resume", "ptable">>) \/ ss = Locks!Forkret,
         code' = [code EXCEPT ![run[c]] = ss], run' = [run EXCEPT ![c] = NoThread],
         lock' = lock, intr' = intr, ncli' = ncli, intena' = intena,
         saved' \in [Threads -> BOOLEAN], \A t \in Threads \ {run[c]} : saved'[t] = saved[t],
         NEW left, left = run[c], SavedFacts(left)'
  PROVE  Locks!IInv'
<1>1. /\ Locks!Context(c) = run[c] /\ run[c] \in Threads /\ OpsOf(c) = Locks!ThreadOps
      /\ run \in [CPUs -> Threads \cup {NoThread}]
  BY Contexts DEF OpsOf, Locks!IInv, Locks!TypeOK
<1>2. CPUs \cap Threads = {} /\ NoThread \notin Threads
  BY LocksConstants
<1>3. /\ Locks!CodeInv'
      /\ code'[run[c]] = ss
      /\ \A x \in CPUs \cup Threads : x # run[c] => code'[x] = code[x]
  BY ThreadPath
<1>4. run'[c] = NoThread /\ \A d \in CPUs \ {c} : run'[d] = run[d]
  BY <1>1
<1>5. \A d \in CPUs : code'[d] = code[d]
  BY <1>1, <1>2, <1>3
<1>6. /\ \A d, dd \in CPUs : run[d] # NoThread /\ run[d] = run[dd] => d = dd
      /\ \A d \in CPUs : run[d] # NoThread => Locks!Begins(code[d], <<"loop", "ptable">>)
      /\ \A t \in Threads \ {run[d] : d \in CPUs} :
           Locks!Begins(code[t], <<"resume", "ptable">>) \/ code[t] = Locks!Forkret
  BY DEF Locks!IInv, Locks!RunInv
<1>7. Locks!RunInv'
  <2>1. ASSUME NEW t \in Threads \ {run'[d] : d \in CPUs}
        PROVE  Locks!Begins(code'[t], <<"resume", "ptable">>) \/ code'[t] = Locks!Forkret
    <3>1. CASE t = run[c]
      BY <3>1, <1>3
    <3>2. CASE t # run[c]
      <4>1. t \in Threads \ {run[d] : d \in CPUs}
        BY <3>2, <2>1, <1>4
      <4> QED BY <4>1, <3>2, <1>3, <1>6
    <3> QED BY <3>1, <3>2
  <2>2. /\ \A d, dd \in CPUs : run'[d] # NoThread /\ run'[d] = run'[dd] => d = dd
        /\ \A d \in CPUs : run'[d] # NoThread => Locks!Begins(code'[d], <<"loop", "ptable">>)
    BY <1>4, <1>5, <1>6
  <2> QED BY <2>1, <2>2 DEF Locks!RunInv
<1>8. /\ Locks!Todo(c)' = code[c] /\ Keeper(code[c]) /\ code[c] \in Seq(Locks!Ops)
      /\ \A m \in Locks!Locks \ {"ptable"} : Locks!Out(code[c], m)
      /\ ~Locks!HasIret(code[c])
  <2>1. Locks!Todo(c)' = code[c]
    BY <1>4, <1>5 DEF Locks!Todo, Locks!Context
  <2> QED BY <2>1, <1>6, LoopView
<1>9. \A d \in CPUs \ {c} : Still(d)
  <2> TAKE d \in CPUs \ {c}
  <2>1. Locks!Context(d) # run[c] /\ Locks!Context(d) \in CPUs \cup Threads
    BY <1>1, Contexts
  <2>2. Locks!Context(d)' = Locks!Context(d)
    BY <1>4 DEF Locks!Context
  <2> QED BY <2>1, <2>2, <1>3, <1>4 DEF Still, Locks!Todo
<1>10. /\ Keeper(Locks!Todo(c))
       /\ \A m \in Locks!Locks \ {"ptable"} : Locks!Out(Locks!Todo(c), m)
  BY AfterSwitch
<1>11. ASSUME NEW d \in CPUs, NEW m \in Locks!Locks PROVE Same(d, m)
  <2>1. CASE d # c
    BY <2>1, <1>9, StillSame DEF Still
  <2>2. CASE d = c /\ m = "ptable"
    BY <2>2, <1>8, <1>10, TodoFine, KeeperSame
  <2>3. CASE d = c /\ m # "ptable"
    BY <2>3, <1>8, <1>10, TodoFine, OutSame
  <2> QED BY <2>1, <2>2, <2>3
<1>12. \A m \in Locks!Locks : LockFacts(m)'
  BY <1>11, LocksKept
<1>13. CountFacts(c)'
  <2>1. Locks!Cleared(c)' = Locks!Cleared(c) /\ CountFacts(c)
    BY <1>11, ClearedSame, FactsOf
  <2> QED BY <2>1, CountStill
<1>14. FlagFacts(c)'
  BY <1>4, <1>8 DEF FlagFacts
<1>15. ASSUME NEW t \in Threads PROVE SavedFacts(t)'
  <2>1. CASE t = left
    BY <2>1
  <2>2. CASE t # left
    <3>1. SavedFacts(t)
      BY FactsOf
    <3>2. code'[t] = code[t] /\ saved'[t] = saved[t]
      BY <2>2, <1>3
    <3> QED BY <3>1, <3>2 DEF SavedFacts
  <2> QED BY <2>1, <2>2
<1>16. Locks!TypeOK'
  <2>1. run' \in [CPUs -> Threads \cup {NoThread}]
    BY <1>1
  <2> QED BY <2>1 DEF Locks!IInv, Locks!TypeOK
<1> QED BY <1>3, <1>7, <1>9, <1>12, <1>13, <1>14, <1>15, <1>16, Assemble

\* Only a thread calls sched.
LEMMA ThreadsAt ==
  ASSUME Locks!IInv, NEW c \in CPUs, NEW o \in {"sched", "exit"}, Locks!At(c, o, "ptable")
  PROVE  run[c] # NoThread /\ Locks!Context(c) = run[c] /\ run[c] \in Threads
<1>1. PICK l : l = "ptable"
  OBVIOUS
<1>2. <<o, l>> \in OpsOf(c)
  BY <1>1, HeadFacts
<1>3. run[c] # NoThread
  <2> SUFFICES ASSUME run[c] = NoThread PROVE FALSE
    OBVIOUS
  <2>1. <<o, l>> \in Locks!SchedulerOps
    BY <1>2 DEF OpsOf
  <2> QED BY <2>1 DEF Locks!SchedulerOps
<1> QED BY <1>3, Contexts

\* sched() keeps the flag with the thread.
LEMMA SwitchOutKeeps ==
  ASSUME Locks!IInv, NEW c \in CPUs, Locks!SwitchOut(c)
  PROVE  Locks!IInv'
<1>1. /\ Locks!At(c, "sched", "ptable") /\ Locks!Done(c)
      /\ saved' = [saved EXCEPT ![run[c]] = intena[c]]
      /\ run' = [run EXCEPT ![c] = NoThread]
      /\ UNCHANGED <<lock, intr, ncli, intena>>
  BY DEF Locks!SwitchOut
<1>2. PICK o : o = "sched"
  OBVIOUS
<1>3. PICK tt : tt = Tail(Locks!Todo(c))
  OBVIOUS
<1>4. run[c] # NoThread /\ Locks!Context(c) = run[c] /\ run[c] \in Threads /\ Locks!Todo(c) = code[run[c]]
  BY <1>1, <1>2, ThreadsAt DEF Locks!Todo
<1>5. /\ tt \in Seq(Locks!Ops) /\ Locks!Fine(tt, Locks!ThreadOps)
      /\ Locks!HasIret(Locks!Todo(c)) <=> Locks!HasIret(tt)
      /\ Locks!Begins(tt, <<"resume", "ptable">>) /\ Locks!Cleared(c) = {"ptable"}
  BY <1>1, <1>2, <1>3, <1>4, AfterSwitch DEF OpsOf
<1>6. code' = [code EXCEPT ![run[c]] = tt]
  BY <1>1, <1>3, <1>4 DEF Locks!Done
<1>7. saved \in [Threads -> BOOLEAN] /\ intena[c] \in BOOLEAN /\ code \in [CPUs \cup Threads -> Seq(Locks!Ops)]
  BY DEF Locks!IInv, Locks!TypeOK, Locks!CodeInv
<1>8. /\ saved' \in [Threads -> BOOLEAN] /\ \A t \in Threads \ {run[c]} : saved'[t] = saved[t]
      /\ saved'[run[c]] = intena[c] /\ code'[run[c]] = tt
  BY <1>1, <1>4, <1>6, <1>7
<1>9. intena[c] <=> ~Locks!HasIret(tt)
  <2>1. FlagFacts(c)
    BY FactsOf
  <2>2. ~Locks!Fresh(Locks!Todo(c)) /\ ~Locks!At(c, "resume", "ptable")
    BY <1>1, NotFresh, AtOne
  <2> QED BY <2>1, <2>2, <1>4, <1>5 DEF FlagFacts
<1>10. PICK left : left = run[c]
  OBVIOUS
<1>11. SavedFacts(left)'
  BY <1>8, <1>9, <1>10 DEF SavedFacts
<1> QED BY <1>1, <1>2, <1>4, <1>5, <1>6, <1>8, <1>10, <1>11, ThreadLeaves

\* The last sched of a process; its slot goes to a child of fork.
LEMMA ExitsKeeps ==
  ASSUME Locks!IInv, NEW c \in CPUs, Locks!Exits(c)
  PROVE  Locks!IInv'
<1>1. PICK ss : ss = Locks!Forkret
  OBVIOUS
<1>2. /\ Locks!At(c, "exit", "ptable")
      /\ code' = [code EXCEPT ![run[c]] = ss]
      /\ run' = [run EXCEPT ![c] = NoThread]
      /\ UNCHANGED <<lock, intr, ncli, intena, saved>>
  BY <1>1 DEF Locks!Exits
<1>3. PICK o : o = "exit"
  OBVIOUS
<1>4. run[c] # NoThread /\ Locks!Context(c) = run[c] /\ run[c] \in Threads
  BY <1>2, <1>3, ThreadsAt
<1>5. /\ ss \in Seq(Locks!Ops) /\ Locks!Fine(ss, Locks!ThreadOps)
      /\ Locks!Begins(ss, <<"disown", "ptable">>)
  BY <1>1, ForkretPath
<1>6. saved \in [Threads -> BOOLEAN] /\ code \in [CPUs \cup Threads -> Seq(Locks!Ops)]
  BY DEF Locks!IInv, Locks!TypeOK, Locks!CodeInv
<1>7. /\ saved' \in [Threads -> BOOLEAN] /\ \A t \in Threads \ {run[c]} : saved'[t] = saved[t]
      /\ code'[run[c]] = ss
  BY <1>2, <1>4, <1>6
<1>8. ~Locks!Begins(ss, <<"resume", "ptable">>)
  BY <1>5 DEF Locks!Begins
<1>9. PICK left : left = run[c]
  OBVIOUS
<1>10. SavedFacts(left)'
  BY <1>7, <1>8, <1>9 DEF SavedFacts
<1> QED BY <1>1, <1>2, <1>3, <1>4, <1>5, <1>7, <1>9, <1>10, ThreadLeaves

\* The scheduler hands ptable.lock to a thread in sched() or to a child of fork.
LEMMA DispatchKeepsLocks ==
  ASSUME Locks!IInv, NEW c \in CPUs, NEW t \in Threads, Locks!Dispatch(c, t)
  PROVE  Locks!IInv'
<1>1. /\ Locks!At(c, "loop", "ptable") /\ t \notin {run[d] : d \in CPUs}
      /\ run' = [run EXCEPT ![c] = t]
      /\ lock' = lock /\ intr' = intr /\ ncli' = ncli /\ intena' = intena
      /\ code' = code /\ saved' = saved
  BY DEF Locks!Dispatch
<1>2. PICK o, l : o = "loop" /\ l = "ptable"
  OBVIOUS
<1>3. PICK tt : tt = Tail(Locks!Todo(c))
  OBVIOUS
<1>4. /\ <<o, l>> \in OpsOf(c) /\ Keeper(Locks!Todo(c))
      /\ \A m \in Locks!Locks \ {"ptable"} : Locks!Out(Locks!Todo(c), m)
      /\ Locks!Cleared(c) = {"ptable"} /\ Noted(c, "ptable") /\ ncli[c] = 1 /\ ~intr[c]
  BY <1>1, <1>2, <1>3, AfterSwitch
<1>5. run[c] = NoThread
  <2> SUFFICES ASSUME run[c] # NoThread PROVE FALSE
    OBVIOUS
  <2>1. <<o, l>> \in Locks!ThreadOps
    BY <1>4 DEF OpsOf
  <2> QED BY <2>1, <1>2 DEF Locks!ThreadOps
<1>6. Locks!Todo(c) = code[c]
  BY <1>5 DEF Locks!Todo, Locks!Context
<1>7. CPUs \cap Threads = {} /\ NoThread \notin Threads
  BY LocksConstants
<1>8. run \in [CPUs -> Threads \cup {NoThread}]
  BY DEF Locks!IInv, Locks!TypeOK
<1>9. run'[c] = t /\ \A d \in CPUs \ {c} : run'[d] = run[d]
  BY <1>1, <1>8
<1>10. Locks!CodeInv'
  BY <1>1 DEF Locks!IInv, Locks!CodeInv
<1>11. /\ \A d, dd \in CPUs : run[d] # NoThread /\ run[d] = run[dd] => d = dd
       /\ \A d \in CPUs : run[d] # NoThread => Locks!Begins(code[d], <<"loop", "ptable">>)
       /\ \A x \in Threads \ {run[d] : d \in CPUs} :
            Locks!Begins(code[x], <<"resume", "ptable">>) \/ code[x] = Locks!Forkret
  BY DEF Locks!IInv, Locks!RunInv
<1>12. Locks!RunInv'
  <2>1. \A d, dd \in CPUs : run'[d] # NoThread /\ run'[d] = run'[dd] => d = dd
    BY <1>1, <1>9, <1>11
  <2>2. \A d \in CPUs : run'[d] # NoThread => Locks!Begins(code'[d], <<"loop", "ptable">>)
    BY <1>1, <1>6, <1>9, <1>11 DEF Locks!At, Locks!Begins
  <2>3. \A x \in Threads \ {run'[d] : d \in CPUs} :
          Locks!Begins(code'[x], <<"resume", "ptable">>) \/ code'[x] = Locks!Forkret
    <3> TAKE x \in Threads \ {run'[d] : d \in CPUs}
    <3>1. x \notin {run[d] : d \in CPUs}
      BY <1>5, <1>7, <1>9
    <3> QED BY <3>1, <1>1, <1>11
  <2> QED BY <2>1, <2>2, <2>3 DEF Locks!RunInv
<1>13. PICK ss : ss = code[t]
  OBVIOUS
<1>14. ss \in Seq(Locks!Ops) /\ Locks!Todo(c)' = ss
  <2>1. code[t] \in Seq(Locks!Ops)
    BY DEF Locks!IInv, Locks!CodeInv
  <2>2. Locks!Context(c)' = t
    BY <1>7, <1>9 DEF Locks!Context
  <2> QED BY <2>1, <2>2, <1>1, <1>13 DEF Locks!Todo
<1>15. Locks!Begins(ss, <<"resume", "ptable">>) \/ ss = Locks!Forkret
  BY <1>1, <1>11, <1>13
<1>16. Keeper(ss) /\ \A m \in Locks!Locks \ {"ptable"} : Locks!Out(ss, m)
  <2>1. CASE ss = Locks!Forkret
    BY <2>1, ForkretPath DEF Keeper
  <2>2. CASE Locks!Begins(ss, <<"resume", "ptable">>)
    <3>1. PICK op : op = <<"resume", "ptable">>
      OBVIOUS
    <3>2. PICK ops : ops = Locks!ThreadOps
      OBVIOUS
    <3>3. PICK rest : rest = Tail(ss)
      OBVIOUS
    <3>4. ss # <<>> /\ Head(ss) = op /\ op[1] = "resume" /\ op[2] = "ptable"
      BY <2>2, <3>1 DEF Locks!Begins
    <3>5. Locks!Fine(ss, ops)
      BY <1>13, <3>2 DEF Locks!IInv, Locks!CodeInv
    <3>6. Locks!Follows(op[1], op[2], rest)
      BY <1>14, <3>3, <3>4, <3>5, FineRest
    <3>7. \A m \in Locks!Locks \ {"ptable"} : Locks!Out(rest, m)
      BY <3>4, <3>6 DEF Locks!Follows
    <3>8. \A m : op[2] # m => (Locks!Out(ss, m) <=> Locks!Out(rest, m))
      BY <1>14, <3>3, <3>4, InOutRest
    <3>9. Keeper(ss)
      BY <2>2 DEF Keeper
    <3> QED BY <3>4, <3>7, <3>8, <3>9
  <2> QED BY <1>15, <2>1, <2>2
<1>17. \A d \in CPUs \ {c} : Still(d)
  BY <1>1, <1>9 DEF Still, Locks!Todo, Locks!Context
<1>18. ASSUME NEW d \in CPUs, NEW m \in Locks!Locks PROVE Same(d, m)
  <2>1. CASE d # c
    BY <2>1, <1>17, StillSame DEF Still
  <2>2. CASE d = c /\ m = "ptable"
    BY <2>2, <1>4, <1>14, <1>16, TodoFine, KeeperSame
  <2>3. CASE d = c /\ m # "ptable"
    BY <2>3, <1>4, <1>14, <1>16, TodoFine, OutSame
  <2> QED BY <2>1, <2>2, <2>3
<1>19. \A m \in Locks!Locks : LockFacts(m)'
  BY <1>1, <1>18, LocksKept
<1>20. Locks!Cleared(c)' = Locks!Cleared(c)
  BY <1>18, ClearedSame
<1>21. CountFacts(c)'
  BY <1>1, <1>20, FactsOf, CountStill
<1>22. FlagFacts(c)'
  <2>1. Locks!Cleared(c)' # {} /\ run'[c] # NoThread
    BY <1>4, <1>7, <1>9, <1>20
  <2>2. Locks!Fresh(ss) \/ Locks!Begins(ss, <<"resume", "ptable">>)
    BY <1>15, FreshSteps
  <2>3. Locks!Fresh(Locks!Todo(c)') \/ Locks!At(c, "resume", "ptable")'
    BY <1>14, <2>2 DEF Locks!At, Locks!Begins
  <2> QED BY <2>1, <2>3 DEF FlagFacts
<1>23. ASSUME NEW x \in Threads PROVE SavedFacts(x)'
  BY <1>1, FactsOf DEF SavedFacts
<1>24. Locks!TypeOK'
  <2>1. run' \in [CPUs -> Threads \cup {NoThread}]
    BY <1>1, <1>8
  <2> QED BY <2>1, <1>1 DEF Locks!IInv, Locks!TypeOK
<1> QED BY <1>1, <1>10, <1>12, <1>17, <1>19, <1>21, <1>22, <1>23, <1>24, Assemble

\* Every step keeps the invariant.
LEMMA LocksStep ==
  ASSUME Locks!IInv, Locks!Next
  PROVE  Locks!IInv'
<1>1. PICK c \in CPUs : Locks!Step(c) \/ Locks!Spin(c) \/ Locks!Syscall(c) \/ Locks!PageFault(c)
                          \/ Locks!TimerInterrupt(c)
  BY DEF Locks!Next
<1>2. CASE Locks!Step(c)
  <2>1. CASE Locks!LockStep(c)
    <3>1. PICK l \in Locks!Locks : Locks!Pushcli(c, l) \/ Locks!Owner(c, l) \/ Locks!Disown(c, l) \/ Locks!Unlock(c, l)
      BY <2>1 DEF Locks!LockStep
    <3> QED BY <3>1, PushcliKeeps, OwnerKeeps, DisownKeeps, UnlockKeeps
  <2>2. CASE \E t \in Threads : Locks!Dispatch(c, t)
    BY <2>2, DispatchKeepsLocks
  <2>3. CASE \/ Locks!SwitchOut(c) \/ Locks!Resume(c) \/ Locks!Exits(c)
             \/ Locks!Sti(c) \/ Locks!EndRound(c) \/ Locks!ReturnFromTrap(c)
    BY <2>3, SwitchOutKeeps, ResumeKeeps, ExitsKeeps, StiKeeps, EndRoundKeeps, ReturnKeepsLocks
  <2> QED BY <1>2, <2>1, <2>2, <2>3 DEF Locks!Step
<1>3. CASE Locks!Spin(c)
  BY <1>3, XchgKeeps DEF Locks!Spin
<1>4. CASE Locks!Syscall(c) \/ Locks!PageFault(c) \/ Locks!TimerInterrupt(c)
  BY <1>4, SyscallKeeps, PageFaultKeeps, TimerKeeps
<1> QED BY <1>1, <1>2, <1>3, <1>4

\* So does a step of another part.
LEMMA LocksQuiet ==
  ASSUME Locks!IInv, UNCHANGED Locks!vars
  PROVE  Locks!IInv'
<1>1. /\ lock' = lock /\ intr' = intr /\ ncli' = ncli /\ intena' = intena /\ run' = run
      /\ code' = code /\ saved' = saved
  BY DEF Locks!vars
<1>2. \A d \in CPUs : Still(d)
  BY <1>1 DEF Still, Locks!Todo, Locks!Context
<1>3. \A d \in CPUs, m \in Locks!Locks : Same(d, m)
  BY <1>2, StillSame DEF Still
<1>4. \A m \in Locks!Locks : LockFacts(m)'
  BY <1>1, <1>3, LocksKept
<1>5. Locks!TypeOK' /\ Locks!CodeInv' /\ Locks!RunInv'
  BY <1>1 DEF Locks!IInv, Locks!TypeOK, Locks!CodeInv, Locks!RunInv
<1>6. ASSUME NEW d \in CPUs PROVE CountFacts(d)' /\ FlagFacts(d)'
  <2>1. CountFacts(d) /\ FlagFacts(d)
    BY FactsOf
  <2>2. Locks!Cleared(d)' = Locks!Cleared(d)
    BY <1>3, ClearedSame
  <2>3. ncli'[d] = ncli[d] /\ intr'[d] = intr[d] /\ intena'[d] = intena[d]
    BY <1>1
  <2> QED BY <2>1, <2>2, <2>3, <1>2, CountStill, FlagStill
<1>7. \A t \in Threads : SavedFacts(t)'
  BY <1>1, FactsOf DEF SavedFacts
<1>8. Locks!LocksExact' /\ Locks!OwnerInv'
  BY <1>4, <1>6, LockFactsThen
<1>9. Locks!FlagInv'
  BY <1>6, <1>7, FlagFactsThen
<1> QED BY <1>5, <1>8, <1>9 DEF Locks!IInv

\* The invariant holds at boot.
LEMMA LocksInit ==
  ASSUME Locks!Init
  PROVE  Locks!IInv
<1>1. /\ lock = [l \in Locks!Locks |-> [locked |-> FALSE, cpu |-> NoThread]]
      /\ intr = [c \in CPUs |-> FALSE] /\ ncli = [c \in CPUs |-> 0] /\ intena = [c \in CPUs |-> FALSE]
      /\ run = [c \in CPUs |-> NoThread]
      /\ code = [x \in CPUs \cup Threads |-> IF x \in CPUs THEN <<>> ELSE Locks!Forkret]
      /\ saved = [t \in Threads |-> FALSE]
  BY DEF Locks!Init
<1>2. CPUs \cap Threads = {} /\ NoThread \notin CPUs
  BY LocksConstants
<1>3. /\ \A c \in CPUs : code[c] = <<>> /\ run[c] = NoThread /\ Locks!Todo(c) = <<>>
      /\ \A t \in Threads : code[t] = Locks!Forkret
  BY <1>1, <1>2 DEF Locks!Todo, Locks!Context
<1>4. Locks!TypeOK
  BY <1>1 DEF Locks!TypeOK
<1>5. Locks!CodeInv
  <2>1. code \in [CPUs \cup Threads -> Seq(Locks!Ops)]
    BY <1>1, InOutEmpty, ForkretPath
  <2> QED BY <2>1, <1>3, InOutEmpty, ForkretPath DEF Locks!CodeInv
<1>6. Locks!RunInv
  BY <1>3 DEF Locks!RunInv
<1>7. \A c \in CPUs, m \in Locks!Locks : ~Locks!Inside(c, m) /\ ~Locks!At(c, "xchg", m) /\ Locks!Out(Locks!Todo(c), m)
  BY <1>3, InOutEmpty DEF Locks!Inside, Locks!At
<1>8. \A m \in Locks!Locks : LockFacts(m)
  <2> TAKE m \in Locks!Locks
  <2>1. ~lock[m].locked /\ lock[m].cpu = NoThread
    BY <1>1
  <2> QED BY <2>1, <1>2, <1>7 DEF LockFacts, Noted
<1>9. \A c \in CPUs : Locks!Cleared(c) = {}
  BY <1>7 DEF Locks!Cleared
<1>10. \A c \in CPUs : CountFacts(c)
  <2> TAKE c \in CPUs
  <2>1. Locks!Cardinality(Locks!Cleared(c)) = 0
    BY <1>9, LocksCardinality, FS_EmptySet
  <2> QED BY <2>1, <1>1 DEF CountFacts
<1>11. \A c \in CPUs : FlagFacts(c)
  BY <1>3, InOutEmpty DEF FlagFacts
<1>12. \A t \in Threads : SavedFacts(t)
  <2> TAKE t \in Threads
  <2>1. ~Locks!Begins(Locks!Forkret, <<"resume", "ptable">>)
    BY ForkretPath DEF Locks!Begins
  <2> QED BY <2>1, <1>3 DEF SavedFacts
<1> QED BY <1>4, <1>5, <1>6, <1>8, <1>10, <1>11, <1>12, LockFactsOnce, FlagFactsOnce DEF Locks!IInv

\* The first step tells whether the CPU has its lock.
LEMMA InsideAt ==
  ASSUME Locks!IInv, NEW c \in CPUs, NEW o, NEW l, Locks!At(c, o, l)
  PROVE  Locks!Inside(c, l) <=> o \notin {"pushcli", "xchg"}
<1>1. PICK tt : tt = Tail(Locks!Todo(c))
  OBVIOUS
<1> QED BY <1>1, HeadFacts

\* No panic is reachable.
LEMMA NoPanicOf ==
  ASSUME Locks!IInv
  PROVE  Locks!NoPanic
<1> SUFFICES ASSUME NEW c \in CPUs, Locks!Todo(c) # <<>>, NEW o, NEW l,
                    o = Head(Locks!Todo(c))[1], l = Head(Locks!Todo(c))[2]
             PROVE  /\ o = "pushcli" => ~Locks!Holding(c, l)
                    /\ o = "disown" => Locks!Holding(c, l)
                    /\ o = "unlock" => ~intr[c] /\ ncli[c] > 0
                    /\ o \in {"sched", "exit"} => Locks!MaySched(c)
  BY DEF Locks!NoPanic
<1>1. PICK op : op = Head(Locks!Todo(c))
  OBVIOUS
<1>2. op \in Locks!Ops
  BY <1>1, TodoFine, HeadTailProperties
<1>3. op = <<o, l>> /\ (l \in Locks!Locks \/ o = "iret") /\ (o \in {"sched", "exit"} => l = "ptable")
  BY <1>1, <1>2, OpPairs
<1>4. Locks!At(c, o, l)
  BY <1>1, <1>3 DEF Locks!At
<1>5. Locks!Inside(c, l) <=> o \notin {"pushcli", "xchg"}
  BY <1>4, InsideAt
<1>6. l \in Locks!Locks => LockFacts(l)
  BY FactsOf
<1>7. o = "pushcli" => ~Locks!Holding(c, l)
  BY <1>3, <1>5, <1>6 DEF LockFacts, Noted, Locks!Holding
<1>8. o = "disown" => Locks!Holding(c, l)
  <2> SUFFICES ASSUME o = "disown" PROVE Locks!Holding(c, l)
    OBVIOUS
  <2>1. ~Locks!At(c, "owner", l) /\ ~Locks!At(c, "unlock", l)
    BY <1>4, AtOne
  <2> QED BY <2>1, <1>3, <1>5, <1>6 DEF LockFacts, Noted, Locks!Holding
<1>9. o = "unlock" => ~intr[c] /\ ncli[c] > 0
  <2> SUFFICES ASSUME o = "unlock" PROVE ~intr[c] /\ ncli[c] > 0
    OBVIOUS
  <2>1. l \in Locks!Cleared(c)
    BY <1>3, <1>5 DEF Locks!Cleared
  <2> QED BY <2>1, ClearedCount
<1>10. o \in {"sched", "exit"} => Locks!MaySched(c)
  <2> SUFFICES ASSUME o \in {"sched", "exit"} PROVE Locks!MaySched(c)
    OBVIOUS
  <2>1. Noted(c, "ptable") /\ ncli[c] = 1 /\ ~intr[c]
    BY <1>3, <1>4, AfterSwitch
  <2> QED BY <2>1, <1>3, <1>6 DEF LockFacts, Noted, Locks!Holding, Locks!MaySched
<1> QED BY <1>7, <1>8, <1>9, <1>10

\* The interrupt flag of a running thread.
LEMMA InterruptFlagOf ==
  ASSUME Locks!IInv
  PROVE  Locks!InterruptFlag
<1> SUFFICES ASSUME NEW c \in CPUs, run[c] # NoThread
             PROVE  /\ ~Locks!InTrap(run[c]) /\ Locks!Cleared(c) = {} => intr[c]
                    /\ Locks!InTrap(run[c]) /\ Locks!Todo(c) # Locks!Iret => ~intr[c]
  BY DEF Locks!InterruptFlag, Locks!UserReady
<1>1. FlagFacts(c)
  BY FactsOf
<1>2. Locks!InTrap(run[c]) <=> Locks!HasIret(Locks!Todo(c))
  BY DEF Locks!InTrap, Locks!Todo, Locks!Context
<1>3. Locks!Cleared(c) # {} => ~intr[c]
  BY ClearedCount
<1>4. ~Locks!HasIret(Locks!Todo(c)) => Locks!Todo(c) # Locks!Iret
  <2>1. Locks!ThreadOps \in Both
    BY DEF Both
  <2> QED BY <2>1, IretAlone
<1> QED BY <1>1, <1>2, <1>3, <1>4 DEF FlagFacts

\* One CPU is between acquire and release of a lock, with interrupts off and
\* as many pushcli as locks; no panic of spinlock.c and sched() is reachable;
\* and a thread finds its interrupt flag again behind sched(), for every
\* number of CPUs and threads (spinlock.c:25-116, proc.c:288-304).
THEOREM SpinLocksExact == Spec => []LocksSound
<1>1. Init => (part = "locks" => Locks!IInv)
  BY LocksInit DEF Init
<1>2. (part = "locks" => Locks!IInv) /\ [Next]_vars => (part = "locks" => Locks!IInv)'
  <2> SUFFICES ASSUME part = "locks" => Locks!IInv, [Next]_vars, part' = "locks"
               PROVE  Locks!IInv'
    OBVIOUS
  <2>1. part' = part
    BY DEF Next, vars, OnlyStride, OnlyLocks, OnlyInput, OnlyOpen, OnlyDisk
  <2>2. CASE Locks!Next
    BY <2>1, <2>2, LocksStep
  <2>3. CASE UNCHANGED locksVars
    <3>1. UNCHANGED Locks!vars
      BY <2>3 DEF locksVars, Locks!vars
    <3> QED BY <2>1, <3>1, LocksQuiet
  <2> QED BY <2>2, <2>3 DEF Next, vars, OnlyStride, OnlyLocks, OnlyInput, OnlyOpen, OnlyDisk
<1>3. (part = "locks" => Locks!IInv) => LocksSound
  BY NoPanicOf, InterruptFlagOf DEF LocksSound, Locks!IInv
<1> QED BY <1>1, <1>2, <1>3, PTL DEF Spec
=============================================================================
