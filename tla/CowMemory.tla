----------------------------- MODULE CowMemory -----------------------------
(***************************************************************************)
(* Physical pages, page tables and copy-on-write fork of the P5 kernel:    *)
(* kernel/kalloc.c (the page allocator with its reference counts),         *)
(* kernel/vm.c (setupkvm, allocuvm, deallocuvm, freevm, cowuvm,            *)
(* pgfltintr) and the calls that fork, sbrk, exec, exit and wait make      *)
(* into them (kernel/proc.c, kernel/exec.c).                               *)
(*                                                                         *)
(* A process is a slot of ptable.  pc says what its kernel thread is doing *)
(* inside a call; every kalloc and kfree (one critical section of          *)
(* kmem.lock) is a step, so that calls of different processes interleave   *)
(* where the code can be preempted.  System calls run with interrupts on   *)
(* (SETGATE with istrap=1, trap.c:22); the page fault handler and wait()'s *)
(* freeing under ptable.lock run with interrupts off and are interleaved   *)
(* only when there is more than one CPU.                                   *)
(*                                                                         *)
(* What a page holds is one value of Vals; user memory is UserTop pages.   *)
(* All page-table pages are allocated by setupkvm: user memory ends at     *)
(* 640K (USERTOP), inside the first 4MB, whose page table setupkvm always  *)
(* creates for the I/O space, so walkpgdir never allocates later on.       *)
(***************************************************************************)
EXTENDS Integers, FiniteSets

CONSTANTS
  Procs,      \* slots of ptable
  InitProc,   \* the slot of initproc
  Pages,      \* the physical pages kinit() hands to the allocator
  Page0,      \* physical page 0, which the allocator does not own
  NoPage,     \* PTE_P is clear
  NoProc,     \* no process
  UserTop,    \* USERTOP / PGSIZE
  PGSIZE,     \* bytes per page
  KvmPages,   \* pages one setupkvm() allocates: page directory and tables
  ExecPages,  \* pages of the image exec() builds (program and stack)
  SbrkArgs,   \* arguments user programs give to sbrk
  Stores,     \* values user programs store
  Zero, Junk, Image,  \* contents: memset 0, memset 1, loaded by exec
  NCPU        \* number of CPUs

AllPages == Pages \cup {Page0}
Vpns     == 0 .. UserTop - 1
Vals     == Stores \cup {Zero, Junk, Image}
Pcs      == {"unused", "embryo", "user", "zombie", "fault",
             "f_kstack", "f_kvm", "f_map", "f_inc", "f_fail",
             "grow", "undo", "shrink", "e_kvm", "e_load", "freevm", "w_free"}

ASSUME ConstantAssumptions ==
  /\ InitProc \in Procs /\ NoProc \notin Procs
  /\ Page0 \notin Pages /\ NoPage \notin AllPages
  /\ IsFiniteSet(Pages) /\ IsFiniteSet(Procs)
  /\ UserTop \in Nat \ {0} /\ PGSIZE \in Nat \ {0} /\ KvmPages \in Nat \ {0}
  /\ ExecPages \in 1 .. UserTop
  /\ SbrkArgs \subseteq Int
  /\ NCPU \in Nat \ {0}
  /\ Cardinality(Pages) >= KvmPages + 2

VARIABLES
  free,        \* kmem.freelist, as a set: all free pages hold junk and are alike
  free_pages,  \* kmem.free_pages
  ref_cnt,     \* kmem.ref_cnt
  mem,         \* contents of the physical pages
  pc,          \* what each process does in the kernel
  kstack,      \* p->kstack
  pgdir,       \* p->pgdir, user part: vpn -> pte
  ptpages,     \* pages of p->pgdir itself: directory and page tables
  sz,          \* p->sz
  npgdir,      \* the page table fork or exec builds, or the argument of freevm
  nptpages,    \* pages of npgdir itself
  nsz,         \* newsz of a running sbrk
  at,          \* loop index (vpn) of a running call
  other,       \* np of a running fork, p of a running wait
  got,         \* mem of a running pgfltintr
  lost,        \* pages setupkvm dropped when it ran out of memory (vm.c:145)
  panicked     \* some CPU called panic()

kmem  == <<free, free_pages, ref_cnt>>
local == <<nsz, at, other, got>>
vars  == <<free, free_pages, ref_cnt, mem, pc, kstack, pgdir, ptpages, sz, npgdir,
           nptpages, nsz, at, other, got, lost, panicked>>

-----------------------------------------------------------------------------
(* Page table entries: a physical page and PTE_W.                          *)
Pte      == [pa : AllPages \cup {NoPage}, w : BOOLEAN]
NoPte    == [pa |-> NoPage, w |-> FALSE]
EmptyPgdir == [v \in Vpns |-> NoPte]
Present(t, v) == t[v].pa # NoPage
Mapped(t)     == {v \in Vpns : Present(t, v)}
Lowest(S)     == CHOOSE v \in S : \A u \in S : v <= u

(* PGROUNDUP, in pages.                                                    *)
PgRoundUp(n) == (n + PGSIZE - 1) \div PGSIZE

(***************************************************************************)
(* kalloc, kfree and the reference counts: one critical section of         *)
(* kmem.lock each.                                                         *)
(***************************************************************************)
Kalloc(pa) ==
  /\ pa \in free
  /\ free' = free \ {pa}
  /\ ref_cnt' = [ref_cnt EXCEPT ![pa] = 1]
  /\ free_pages' = free_pages - 1

KallocFails == free = {} /\ UNCHANGED kmem

(* kfree drops one reference; the last one junks the page and frees it.    *)
(* Page 0 is below `end`, and a count of 0 is a panic.                     *)
Kfree(pa) ==
  IF pa = Page0 \/ ref_cnt[pa] < 1
  THEN panicked' = TRUE /\ UNCHANGED <<free, free_pages, ref_cnt, mem>>
  ELSE /\ ref_cnt' = [ref_cnt EXCEPT ![pa] = @ - 1]
       /\ IF ref_cnt[pa] = 1
          THEN /\ free' = free \cup {pa}
               /\ free_pages' = free_pages + 1
               /\ mem' = [mem EXCEPT ![pa] = Junk]
          ELSE UNCHANGED <<free, free_pages, mem>>
       /\ UNCHANGED panicked

(* A process with interrupts off keeps its CPU; the others need one.       *)
IrqOff(p)  == pc[p] \in {"fault", "w_free"}
CanStep(p) == /\ ~panicked
              /\ Cardinality({q \in Procs \ {p} : IrqOff(q)}) < NCPU

(* wait() keeps ptable.lock while it frees a child.                        *)
PtableFree == \A q \in Procs : pc[q] # "w_free"

(* p can execute user code: its text, at address 0, is mapped.             *)
RunsUser(p) == pc[p] = "user" /\ Present(pgdir[p], 0) /\ CanStep(p)
At(p, l)    == pc[p] = l /\ CanStep(p)
Goto(p, l)  == pc' = [pc EXCEPT ![p] = l]

-----------------------------------------------------------------------------
(***************************************************************************)
(* Stores.  A user store needs PTE_W.  A store the kernel makes for p into *)
(* p's memory (the buffer of read(), fstat(), pipe()) needs only PTE_P:    *)
(* vmenable() sets CR0_PG and not CR0_WP.                                  *)
(***************************************************************************)
Store(p, v, x) ==
  /\ mem' = [mem EXCEPT ![pgdir[p][v].pa] = x]
  /\ UNCHANGED <<kmem, pc, kstack, pgdir, ptpages, sz, npgdir, nptpages, local, lost,
                 panicked>>

UserStore(p, v, x) ==
  /\ RunsUser(p) /\ Present(pgdir[p], v) /\ pgdir[p][v].w
  /\ Store(p, v, x)

KernelStore(p, v, x) ==
  /\ RunsUser(p) /\ Present(pgdir[p], v) /\ v * PGSIZE < sz[p]
  /\ Store(p, v, x)

(***************************************************************************)
(* pgfltintr, for a store p attempts at page v.  A sole owner gets PTE_W   *)
(* back; a sharer copies the page first and gives up its reference in a    *)
(* second critical section.  When kalloc returns 0, memmove(0, pa) writes  *)
(* over whatever p maps at address 0, and p gets physical page 0.          *)
(*                                                                         *)
(* An address without a page table is a panic (p->killed, which is set     *)
(* before, is read no more).                                               *)
(***************************************************************************)
Faults(p, v) == RunsUser(p) /\ Present(pgdir[p], v) /\ ~pgdir[p][v].w

\* Mutant: off by one, the last two sharers count as owners.
PageFaultOwnerEarly(p, v) ==
  /\ Faults(p, v) /\ ref_cnt[pgdir[p][v].pa] <= 2
  /\ pgdir' = [pgdir EXCEPT ![p][v].w = TRUE]
  /\ UNCHANGED <<kmem, mem, pc, kstack, ptpages, sz, npgdir, nptpages, local, lost,
                 panicked>>

PageFaultOwner(p, v) ==
  /\ Faults(p, v) /\ ref_cnt[pgdir[p][v].pa] <= 1
  /\ pgdir' = [pgdir EXCEPT ![p][v].w = TRUE]
  /\ UNCHANGED <<kmem, mem, pc, kstack, ptpages, sz, npgdir, nptpages, local, lost,
                 panicked>>

PageFaultCopy(p, v) ==
  LET pa == pgdir[p][v].pa IN
  /\ Faults(p, v) /\ ref_cnt[pa] > 1
  /\ \/ \E new \in free : /\ Kalloc(new)
                          /\ mem' = [mem EXCEPT ![new] = mem[pa]]
                          /\ got' = [got EXCEPT ![p] = new]
     \/ /\ KallocFails
        /\ mem' = [mem EXCEPT ![pgdir[p][0].pa] = mem[pa]]
        /\ got' = [got EXCEPT ![p] = Page0]
  /\ at' = [at EXCEPT ![p] = v]
  /\ Goto(p, "fault")
  /\ UNCHANGED <<kstack, pgdir, ptpages, sz, npgdir, nptpages, nsz, other, lost, panicked>>

\* Mutant: dec_ref_cnt is forgotten.
PageFaultDoneNoDec(p) ==
  /\ At(p, "fault")
  /\ pgdir' = [pgdir EXCEPT ![p][at[p]] = [pa |-> got[p], w |-> TRUE]]
  /\ got' = [got EXCEPT ![p] = NoPage]
  /\ at' = [at EXCEPT ![p] = 0]
  /\ Goto(p, "user")
  /\ UNCHANGED <<kmem, mem, kstack, ptpages, sz, npgdir, nptpages, nsz, other, lost,
                 panicked>>

PageFaultDone(p) ==
  /\ At(p, "fault")
  /\ ref_cnt' = [ref_cnt EXCEPT ![pgdir[p][at[p]].pa] = @ - 1]
  /\ pgdir' = [pgdir EXCEPT ![p][at[p]] = [pa |-> got[p], w |-> TRUE]]
  /\ got' = [got EXCEPT ![p] = NoPage]
  /\ at' = [at EXCEPT ![p] = 0]
  /\ Goto(p, "user")
  /\ UNCHANGED <<free, free_pages, mem, kstack, ptpages, sz, npgdir, nptpages, nsz, other,
                 lost, panicked>>

PageFaultUnmapped(p) ==
  /\ RunsUser(p)
  /\ panicked' = TRUE
  /\ UNCHANGED <<kmem, mem, pc, kstack, pgdir, ptpages, sz, npgdir, nptpages, local, lost>>

(* A fault at a page that is not present (here: p's own text, which        *)
(* sbrk(-sz) freed) changes nothing, and the instruction faults again.     *)
PageFaultAgain(p) ==
  /\ At(p, "user") /\ ~Present(pgdir[p], 0)
  /\ UNCHANGED vars

-----------------------------------------------------------------------------
(***************************************************************************)
(* setupkvm, on behalf of fork (f_kvm) and exec (e_kvm): one kalloc per    *)
(* step.  When one fails, the pages it has are forgotten.                  *)
(***************************************************************************)
SetupKvm(p) ==
  LET forking == pc[p] = "f_kvm"
      full    == Cardinality(nptpages[p]) + 1 = KvmPages
  IN
  /\ At(p, "f_kvm") \/ At(p, "e_kvm")
  /\ \/ \E new \in free :
          /\ Kalloc(new)
          /\ nptpages' = [nptpages EXCEPT ![p] = @ \cup {new}]
          /\ Goto(p, IF ~full THEN pc[p] ELSE IF forking THEN "f_map" ELSE "e_load")
          /\ UNCHANGED lost
     \/ /\ KallocFails
        /\ lost' = lost \cup nptpages[p]
        /\ nptpages' = [nptpages EXCEPT ![p] = {}]
        /\ Goto(p, IF forking THEN "f_fail" ELSE "user")
  /\ UNCHANGED <<mem, kstack, pgdir, ptpages, sz, npgdir, local, panicked>>

(***************************************************************************)
(* fork: allocproc takes a slot (under ptable.lock) and a kernel stack;    *)
(* cowuvm write-protects and shares one page at a time, and counts each    *)
(* reference after making it.                                              *)
(***************************************************************************)
Fork(p, c) ==
  /\ RunsUser(p) /\ pc[c] = "unused" /\ PtableFree
  /\ pc' = [pc EXCEPT ![p] = "f_kstack", ![c] = "embryo"]
  /\ other' = [other EXCEPT ![p] = c]
  /\ UNCHANGED <<kmem, mem, kstack, pgdir, ptpages, sz, npgdir, nptpages, nsz, at, got,
                 lost, panicked>>

(* p returns to user mode, and the slot it worked on gets a new state.     *)
Return(p, childpc) ==
  /\ pc' = [pc EXCEPT ![p] = "user", ![other[p]] = childpc]
  /\ other' = [other EXCEPT ![p] = NoProc]

ForkKstack(p) ==
  /\ At(p, "f_kstack")
  /\ \/ \E new \in free : /\ Kalloc(new)
                          /\ kstack' = [kstack EXCEPT ![other[p]] = new]
                          /\ Goto(p, "f_kvm")
                          /\ UNCHANGED other
     \/ KallocFails /\ Return(p, "unused") /\ UNCHANGED kstack
  /\ UNCHANGED <<mem, pgdir, ptpages, sz, npgdir, nptpages, nsz, at, got, lost, panicked>>

\* Mutant: the last, partly used page is not copied.
CowMoreRoundsDown(p) == (at[p] + 1) * PGSIZE <= sz[p]

(* The loop of cowuvm goes on.                                             *)
CowMore(p) == at[p] * PGSIZE < sz[p]

ForkMap(p) ==
  LET v == at[p] IN
  /\ At(p, "f_map") /\ CowMore(p)
  /\ IF Present(pgdir[p], v)
     THEN /\ pgdir' = [pgdir EXCEPT ![p][v].w = FALSE]
          /\ npgdir' = [npgdir EXCEPT ![p][v] = [pa |-> pgdir[p][v].pa, w |-> FALSE]]
          /\ Goto(p, "f_inc")
          /\ UNCHANGED panicked
     ELSE panicked' = TRUE /\ UNCHANGED <<pgdir, npgdir, pc>>
  /\ UNCHANGED <<kmem, mem, kstack, ptpages, sz, nptpages, local, lost>>

\* Mutant: the new reference is not counted.
ForkIncNothing(p) ==
  /\ At(p, "f_inc")
  /\ at' = [at EXCEPT ![p] = @ + 1]
  /\ Goto(p, "f_map")
  /\ UNCHANGED <<kmem, mem, kstack, pgdir, ptpages, sz, npgdir, nptpages, nsz, other, got,
                 lost, panicked>>

ForkInc(p) ==
  /\ At(p, "f_inc")
  /\ ref_cnt' = [ref_cnt EXCEPT ![pgdir[p][at[p]].pa] = @ + 1]
  /\ at' = [at EXCEPT ![p] = @ + 1]
  /\ Goto(p, "f_map")
  /\ UNCHANGED <<free, free_pages, mem, kstack, pgdir, ptpages, sz, npgdir, nptpages, nsz,
                 other, got, lost, panicked>>

ForkDone(p) ==
  /\ At(p, "f_map") /\ ~CowMore(p)
  /\ pgdir' = [pgdir EXCEPT ![other[p]] = npgdir[p]]
  /\ ptpages' = [ptpages EXCEPT ![other[p]] = nptpages[p]]
  /\ sz' = [sz EXCEPT ![other[p]] = sz[p]]
  /\ npgdir' = [npgdir EXCEPT ![p] = EmptyPgdir]
  /\ nptpages' = [nptpages EXCEPT ![p] = {}]
  /\ at' = [at EXCEPT ![p] = 0]
  /\ Return(p, "user")
  /\ UNCHANGED <<kmem, mem, kstack, nsz, got, lost, panicked>>

ForkFail(p) ==
  /\ At(p, "f_fail")
  /\ Kfree(kstack[other[p]])
  /\ kstack' = [kstack EXCEPT ![other[p]] = NoPage]
  /\ Return(p, "unused")
  /\ UNCHANGED <<pgdir, ptpages, sz, npgdir, nptpages, nsz, at, got, lost>>

-----------------------------------------------------------------------------
(***************************************************************************)
(* sbrk -> growproc -> allocuvm / deallocuvm.  Calls that change nothing   *)
(* are left out: growth beyond USERTOP, and a decrement larger than sz,    *)
(* which wraps to a huge unsigned newsz that deallocuvm ignores.           *)
(***************************************************************************)
Sbrk(p, n) ==
  /\ RunsUser(p)
  /\ n # 0 /\ sz[p] + n \in 0 .. UserTop * PGSIZE
  /\ nsz' = [nsz EXCEPT ![p] = sz[p] + n]
  /\ at' = [at EXCEPT ![p] = PgRoundUp(IF n > 0 THEN sz[p] ELSE sz[p] + n)]
  /\ Goto(p, IF n > 0 THEN "grow" ELSE "shrink")
  /\ UNCHANGED <<kmem, mem, kstack, pgdir, ptpages, sz, npgdir, nptpages, other, got, lost,
                 panicked>>

(* The loop of allocuvm; out of memory, it undoes its own allocations.     *)
GrowPage(p) ==
  LET v == at[p] IN
  /\ At(p, "grow") /\ v * PGSIZE < nsz[p]
  /\ \/ \E new \in free : /\ Kalloc(new)
                          /\ mem' = [mem EXCEPT ![new] = Zero]
                          /\ pgdir' = [pgdir EXCEPT ![p][v] = [pa |-> new, w |-> TRUE]]
                          /\ at' = [at EXCEPT ![p] = v + 1]
                          /\ UNCHANGED pc
     \/ /\ KallocFails
        /\ at' = [at EXCEPT ![p] = PgRoundUp(sz[p])]
        /\ Goto(p, "undo")
        /\ UNCHANGED <<mem, pgdir>>
  /\ UNCHANGED <<kstack, ptpages, sz, npgdir, nptpages, nsz, other, got, lost, panicked>>

(* Where the loop of deallocuvm ends: undoing allocuvm, or shrinking.      *)
DeallocEnd(p) == IF pc[p] = "undo" THEN nsz[p] ELSE sz[p]

(* The loop of deallocuvm.                                                 *)
DeallocPage(p) ==
  LET v == at[p] IN
  /\ At(p, "undo") \/ At(p, "shrink")
  /\ v * PGSIZE < DeallocEnd(p)
  /\ IF Present(pgdir[p], v)
     THEN /\ Kfree(pgdir[p][v].pa)
          /\ pgdir' = [pgdir EXCEPT ![p][v] = NoPte]
     ELSE UNCHANGED <<kmem, mem, pgdir, panicked>>
  /\ at' = [at EXCEPT ![p] = v + 1]
  /\ UNCHANGED <<pc, kstack, ptpages, sz, npgdir, nptpages, nsz, other, got, lost>>

(* The end of growproc: allocuvm that failed and deallocuvm to size 0 both *)
(* return 0, which growproc takes for an error and leaves proc->sz.        *)
GrowprocDone(p) ==
  /\ \/ At(p, "grow") /\ at[p] * PGSIZE >= nsz[p]
     \/ (At(p, "undo") \/ At(p, "shrink")) /\ at[p] * PGSIZE >= DeallocEnd(p)
  /\ sz' = [sz EXCEPT ![p] = IF pc[p] = "undo" \/ nsz[p] = 0 THEN @ ELSE nsz[p]]
  /\ nsz' = [nsz EXCEPT ![p] = 0]
  /\ at' = [at EXCEPT ![p] = 0]
  /\ Goto(p, "user")
  /\ UNCHANGED <<kmem, mem, kstack, pgdir, ptpages, npgdir, nptpages, other, got, lost,
                 panicked>>

-----------------------------------------------------------------------------
(***************************************************************************)
(* exec builds a second page table, then swaps and frees the old one; any  *)
(* error after setupkvm frees the new one instead.                         *)
(***************************************************************************)
Exec(p) ==
  /\ RunsUser(p)
  /\ Goto(p, "e_kvm")
  /\ UNCHANGED <<kmem, mem, kstack, pgdir, ptpages, sz, npgdir, nptpages, local, lost,
                 panicked>>

ExecLoad(p) ==
  LET v == at[p] IN
  /\ At(p, "e_load") /\ v < ExecPages
  /\ \E new \in free :
       /\ Kalloc(new)
       /\ mem' = [mem EXCEPT ![new] = Image]
       /\ npgdir' = [npgdir EXCEPT ![p][v] = [pa |-> new, w |-> TRUE]]
       /\ at' = [at EXCEPT ![p] = v + 1]
  /\ UNCHANGED <<pc, kstack, pgdir, ptpages, sz, nptpages, nsz, other, got, lost, panicked>>

(* Out of memory, an unreadable or malformed image, or too many arguments. *)
ExecBad(p) ==
  /\ At(p, "e_load")
  /\ at' = [at EXCEPT ![p] = 0]
  /\ Goto(p, "freevm")
  /\ UNCHANGED <<kmem, mem, kstack, pgdir, ptpages, sz, npgdir, nptpages, nsz, other, got,
                 lost, panicked>>

ExecCommit(p) ==
  /\ At(p, "e_load") /\ at[p] = ExecPages
  /\ pgdir' = [pgdir EXCEPT ![p] = npgdir[p]]
  /\ npgdir' = [npgdir EXCEPT ![p] = pgdir[p]]
  /\ ptpages' = [ptpages EXCEPT ![p] = nptpages[p]]
  /\ nptpages' = [nptpages EXCEPT ![p] = ptpages[p]]
  /\ sz' = [sz EXCEPT ![p] = ExecPages * PGSIZE]
  /\ at' = [at EXCEPT ![p] = 0]
  /\ Goto(p, "freevm")
  /\ UNCHANGED <<kmem, mem, kstack, nsz, other, got, lost, panicked>>

-----------------------------------------------------------------------------
(* exit leaves memory and kernel stack to the parent's wait.               *)
Exit(p) ==
  /\ At(p, "user") /\ p # InitProc /\ PtableFree
  /\ Goto(p, "zombie")
  /\ UNCHANGED <<kmem, mem, kstack, pgdir, ptpages, sz, npgdir, nptpages, local, lost,
                 panicked>>

(* wait finds zombie c: it frees the kernel stack, then freevm(c->pgdir),  *)
(* all under ptable.lock.                                                  *)
Wait(p, c) ==
  /\ RunsUser(p) /\ pc[c] = "zombie" /\ PtableFree
  /\ Kfree(kstack[c])
  /\ kstack' = [kstack EXCEPT ![c] = NoPage]
  /\ npgdir' = [npgdir EXCEPT ![p] = pgdir[c]]
  /\ nptpages' = [nptpages EXCEPT ![p] = ptpages[c]]
  /\ pgdir' = [pgdir EXCEPT ![c] = EmptyPgdir]
  /\ ptpages' = [ptpages EXCEPT ![c] = {}]
  /\ sz' = [sz EXCEPT ![c] = 0]
  /\ other' = [other EXCEPT ![p] = c]
  /\ Goto(p, "w_free")
  /\ UNCHANGED <<nsz, at, got, lost>>

(* freevm, for exec and for wait: the user pages (deallocuvm to 0), then   *)
(* the page tables and the directory; kfree by kfree.                      *)
FreeVm(p) ==
  /\ At(p, "freevm") \/ At(p, "w_free")
  /\ IF Mapped(npgdir[p]) # {}
     THEN LET v == Lowest(Mapped(npgdir[p])) IN
          /\ Kfree(npgdir[p][v].pa)
          /\ npgdir' = [npgdir EXCEPT ![p][v] = NoPte]
          /\ UNCHANGED nptpages
     ELSE /\ nptpages[p] # {}
          /\ LET pg == CHOOSE x \in nptpages[p] : TRUE IN
             /\ Kfree(pg)
             /\ nptpages' = [nptpages EXCEPT ![p] = @ \ {pg}]
          /\ UNCHANGED npgdir
  /\ UNCHANGED <<pc, kstack, pgdir, ptpages, sz, local, lost>>

FreeVmDone(p) ==
  /\ At(p, "freevm") \/ At(p, "w_free")
  /\ Mapped(npgdir[p]) = {} /\ nptpages[p] = {}
  /\ IF pc[p] = "w_free" THEN Return(p, "unused") ELSE Goto(p, "user") /\ UNCHANGED other
  /\ UNCHANGED <<kmem, mem, kstack, pgdir, ptpages, sz, npgdir, nptpages, nsz, at, got,
                 lost, panicked>>

(* panic() stops every CPU.                                                *)
Halted == panicked /\ UNCHANGED vars

-----------------------------------------------------------------------------
Init ==
  /\ \E ks \in Pages : \E text \in Pages \ {ks} :
       LET pt   == CHOOSE S \in SUBSET (Pages \ {ks, text}) : Cardinality(S) = KvmPages
           used == pt \cup {ks, text}
       IN
       /\ free = Pages \ used
       /\ free_pages = Cardinality(Pages \ used)
       /\ ref_cnt = [pa \in AllPages |-> IF pa \in used THEN 1 ELSE 0]
       /\ mem = [pa \in AllPages |-> IF pa = text THEN Image ELSE Junk]
       /\ kstack = [p \in Procs |-> IF p = InitProc THEN ks ELSE NoPage]
       /\ ptpages = [p \in Procs |-> IF p = InitProc THEN pt ELSE {}]
       /\ pgdir = [p \in Procs |-> IF p = InitProc
                                   THEN [EmptyPgdir EXCEPT ![0] = [pa |-> text, w |-> TRUE]]
                                   ELSE EmptyPgdir]
  /\ pc = [p \in Procs |-> IF p = InitProc THEN "user" ELSE "unused"]
  /\ sz = [p \in Procs |-> IF p = InitProc THEN PGSIZE ELSE 0]
  /\ npgdir = [p \in Procs |-> EmptyPgdir]
  /\ nptpages = [p \in Procs |-> {}]
  /\ nsz = [p \in Procs |-> 0]
  /\ at = [p \in Procs |-> 0]
  /\ other = [p \in Procs |-> NoProc]
  /\ got = [p \in Procs |-> NoPage]
  /\ lost = {}
  /\ panicked = FALSE

Next ==
  \/ \E p \in Procs :
       \/ \E v \in Vpns, x \in Stores : UserStore(p, v, x) \/ KernelStore(p, v, x)
       \/ \E v \in Vpns : PageFaultOwner(p, v) \/ PageFaultCopy(p, v)
       \/ PageFaultDone(p) \/ PageFaultAgain(p) \/ PageFaultUnmapped(p)
       \/ SetupKvm(p)
       \/ \E c \in Procs : Fork(p, c) \/ Wait(p, c)
       \/ ForkKstack(p) \/ ForkMap(p) \/ ForkInc(p) \/ ForkDone(p) \/ ForkFail(p)
       \/ \E n \in SbrkArgs : Sbrk(p, n)
       \/ GrowPage(p) \/ DeallocPage(p) \/ GrowprocDone(p)
       \/ Exec(p) \/ ExecLoad(p) \/ ExecBad(p) \/ ExecCommit(p)
       \/ Exit(p) \/ FreeVm(p) \/ FreeVmDone(p)
  \/ Halted

Spec == Init /\ [][Next]_vars

-----------------------------------------------------------------------------
(***************************************************************************)
(* Properties.                                                             *)
(***************************************************************************)
\* Types: in particular every count, index and size stays in its range.
TypeOK ==
  /\ free \in SUBSET Pages
  /\ free_pages \in 0 .. Cardinality(Pages)
  /\ ref_cnt \in [AllPages -> Int]
  /\ mem \in [AllPages -> Vals]
  /\ pc \in [Procs -> Pcs]
  /\ kstack \in [Procs -> Pages \cup {NoPage}]
  /\ pgdir \in [Procs -> [Vpns -> Pte]] /\ npgdir \in [Procs -> [Vpns -> Pte]]
  /\ ptpages \in [Procs -> SUBSET Pages] /\ nptpages \in [Procs -> SUBSET Pages]
  /\ sz \in [Procs -> 0 .. UserTop * PGSIZE] /\ nsz \in [Procs -> 0 .. UserTop * PGSIZE]
  /\ at \in [Procs -> 0 .. UserTop]
  /\ other \in [Procs -> Procs \cup {NoProc}]
  /\ got \in [Procs -> AllPages \cup {NoPage}]
  /\ lost \in SUBSET Pages
  /\ panicked \in BOOLEAN

(* Everything that refers to physical page pa.                             *)
TableRefs(t, pa) == {r \in Procs \X Vpns : t[r[1]][r[2]].pa = pa}
UserRefs(pa) == TableRefs(pgdir, pa)
NewRefs(pa) == TableRefs(npgdir, pa)
KernelRefs(pa) ==
  {p \in Procs : kstack[p] = pa \/ pa \in ptpages[p] \/ pa \in nptpages[p] \/ got[p] = pa}
Refs(pa) ==
  Cardinality(UserRefs(pa)) + Cardinality(NewRefs(pa)) + Cardinality(KernelRefs(pa))
    + (IF pa \in lost THEN 1 ELSE 0)

(* References cowuvm has made and not yet counted.                         *)
Uncounted(pa) == {p \in Procs : pc[p] = "f_inc" /\ pgdir[p][at[p]].pa = pa}

\* kmem.ref_cnt ("track reference count", kalloc.c:23) is exact between any
\* two kernel steps of one CPU: it counts every reference but the one cowuvm
\* is about to count, and the freelist holds exactly the unreferenced pages.
RefCountsExact ==
  ~panicked => \A pa \in Pages : /\ ref_cnt[pa] = Refs(pa) - Cardinality(Uncounted(pa))
                                 /\ pa \in free <=> Refs(pa) = 0

\* kalloc never hands out a page that something still refers to, whatever
\* the number of CPUs and however page faults, fork and exit race.
NoUseAfterFree == ~panicked => \A pa \in free : Refs(pa) = 0

\* A process that may write a page without faulting is its only user.
WritableExclusive ==
  \A p \in Procs, v \in Vpns :
    LET pte == pgdir[p][v] IN
    pte.w /\ pte.pa # Page0 /\ ~panicked =>
      UserRefs(pte.pa) = {<<p, v>>} /\ NewRefs(pte.pa) = {}

\* What two faults that race must not break even where they break the counts
\* (vm.c:411-422): a shared page is neither freed nor writable.
SharingSafe == NoUseAfterFree /\ WritableExclusive

\* getFreePagesCount() reports the length of the freelist.
FreePagesExact == free_pages = Cardinality(free)

\* Between calls, a process that can run has exactly the pages proc->sz
\* promises: what argint, argptr and cowuvm rely on when they trust sz.
SizeMapped ==
  \A p \in Procs : pc[p] = "user" /\ Present(pgdir[p], 0) =>
    Mapped(pgdir[p]) = {v \in Vpns : v * PGSIZE < sz[p]}

\* The state of memory between any two kernel steps of one CPU, also after an
\* allocation that failed half way: the counts, the freelist and the page
\* tables agree with each other and with proc->sz (kalloc.c:23, vm.c:226, 255).
MemoryExact == TypeOK /\ RefCountsExact /\ WritableExclusive /\ FreePagesExact /\ SizeMapped

(***************************************************************************)
(* The inductive invariant behind SharingSafe, for any number of CPUs, and *)
(* behind MemoryExact, for one CPU.                                        *)
(***************************************************************************)
Forking == {"f_kstack", "f_kvm", "f_map", "f_inc", "f_fail"}

(* The pages of a process that no page table entry refers to.              *)
Holders == {"kstack", "got", "ptpages", "nptpages"}
HeldBy(p, h) == CASE h = "kstack"   -> {kstack[p]}
                  [] h = "got"      -> {got[p]}
                  [] h = "ptpages"  -> ptpages[p]
                  [] h = "nptpages" -> nptpages[p]

InKernel(pa) == \E p \in Procs, h \in Holders : pa \in HeldBy(p, h)
Owned(pa)    == pa \in lost \/ InKernel(pa)

UserCount(pa) == Cardinality(UserRefs(pa)) + Cardinality(NewRefs(pa))

(* A page the kernel holds is held once and mapped nowhere; any other has  *)
(* the count of its mappings, and one mapping only if that is writable.    *)
(* Two CPUs may drop the last two references at a time: nobody frees it.   *)
PageInv(pa) ==
  /\ \A p, q \in Procs, h, k \in Holders : pa \in HeldBy(p, h) /\ pa \in HeldBy(q, k) => p = q /\ h = k
  /\ pa \in lost => ~InKernel(pa)
  /\ Owned(pa) => pa \notin free /\ UserCount(pa) = 0 /\ ref_cnt[pa] = 1
  /\ ~Owned(pa) => ref_cnt[pa] = UserCount(pa) - Cardinality(Uncounted(pa))
  /\ pa \in free => UserCount(pa) = 0
  /\ NCPU = 1 => pa \in free \/ Owned(pa) \/ UserCount(pa) > 0
  /\ \A p \in Procs, v \in Vpns :
       (\/ pgdir[p][v].pa = pa /\ pgdir[p][v].w
        \/ npgdir[p][v].pa = pa /\ npgdir[p][v].w) => UserCount(pa) = 1

PteInv == \A p \in Procs, v \in Vpns :
  (pgdir[p][v].w => Present(pgdir[p], v)) /\ (npgdir[p][v].w => Present(npgdir[p], v))

(* fork works on a slot of its own, wait on a zombie of its own.           *)
Waited(c) == \E p \in Procs : pc[p] = "w_free" /\ other[p] = c
SlotOk(p) ==
  /\ pc[p] \in Forking => /\ other[p] \in Procs /\ pc[other[p]] = "embryo"
                          /\ pc[p] = "f_kstack" <=> kstack[other[p]] = NoPage
  /\ pc[p] = "w_free" => other[p] \in Procs /\ pc[other[p]] = "zombie"
  /\ pc[p] = "unused" \/ Waited(p) => kstack[p] = NoPage
  /\ pc[p] \notin {"unused", "embryo"} /\ ~Waited(p) => kstack[p] # NoPage
  /\ pc[p] \in {"unused", "embryo"} \/ Waited(p) => pgdir[p] = EmptyPgdir /\ ptpages[p] = {}
  /\ pc[p] \notin {"f_map", "f_inc", "e_load", "freevm", "w_free"} => npgdir[p] = EmptyPgdir
  /\ pc[p] \notin {"f_kvm", "f_map", "f_inc", "e_kvm", "e_load", "freevm", "w_free"} => nptpages[p] = {}
  /\ pc[p] = "fault" <=> got[p] # NoPage
  /\ pc[p] \notin {"fault", "f_map", "f_inc", "grow", "undo", "shrink", "e_load"} => at[p] = 0

WorksOnSlot(p) == pc[p] \in Forking \cup {"w_free"}
SlotInv ==
  /\ \A p \in Procs : SlotOk(p)
  /\ \A p, q \in Procs : WorksOnSlot(p) /\ WorksOnSlot(q) /\ other[p] = other[q] => p = q

(* Which pages are mapped, while sbrk, fork and exec are on their way.     *)
Sized(t, n) == Mapped(t) = 0 .. PgRoundUp(n) - 1
DeallocFrom(p) == IF pc[p] = "undo" THEN sz[p] ELSE nsz[p]
SizeInv(p) ==
  /\ pc[p] = "user" /\ Present(pgdir[p], 0) => Sized(pgdir[p], sz[p])
  /\ pc[p] \in Forking \cup {"fault", "e_kvm", "e_load", "freevm", "w_free"} => Sized(pgdir[p], sz[p])
  /\ pc[p] = "fault" => at[p] \in Vpns /\ Present(pgdir[p], at[p])
  /\ pc[p] = "grow" => /\ sz[p] < nsz[p] /\ at[p] \in PgRoundUp(sz[p]) .. PgRoundUp(nsz[p])
                       /\ Mapped(pgdir[p]) = 0 .. at[p] - 1
  /\ pc[p] \in {"undo", "shrink"} =>
       /\ DeallocFrom(p) < DeallocEnd(p)
       /\ at[p] \in PgRoundUp(DeallocFrom(p)) .. PgRoundUp(DeallocEnd(p))
       /\ \A v \in Vpns : /\ v < PgRoundUp(DeallocFrom(p)) => Present(pgdir[p], v)
                          /\ (PgRoundUp(DeallocFrom(p)) <= v /\ v < at[p]) => ~Present(pgdir[p], v)
                          /\ PgRoundUp(DeallocEnd(p)) <= v => ~Present(pgdir[p], v)
  /\ pc[p] \in {"f_map", "f_inc"} =>
       /\ at[p] <= PgRoundUp(sz[p]) /\ (pc[p] = "f_inc" => at[p] < PgRoundUp(sz[p]))
       /\ \A v \in Vpns : /\ npgdir[p][v].w = FALSE
                          /\ npgdir[p][v].pa = IF v < at[p] \/ (pc[p] = "f_inc" /\ v = at[p])
                                               THEN pgdir[p][v].pa ELSE NoPage
  /\ pc[p] = "e_load" => at[p] <= ExecPages /\ Mapped(npgdir[p]) = 0 .. at[p] - 1

(* With one CPU nothing happens during a page fault: the page that was     *)
(* shared when it began is still shared.                                   *)
FaultInv == NCPU = 1 =>
  \A p \in Procs : pc[p] = "fault" =>
    /\ \A q \in Procs \ {p} : ~IrqOff(q)
    /\ pgdir[p][at[p]].pa \in Pages => ref_cnt[pgdir[p][at[p]].pa] > 1

MemInv == TypeOK /\ FreePagesExact /\ \A p \in Procs : SizeInv(p)
IInv == /\ MemInv
        /\ ~panicked => PteInv /\ SlotInv /\ FaultInv /\ \A pa \in Pages : PageInv(pa)

(* What p reads at page v; from pgfltintr's memmove on, its copy.          *)
View(p, v) == IF pc[p] = "fault" /\ at[p] = v THEN mem[got[p]]
              ELSE IF Present(pgdir[p], v) THEN mem[pgdir[p][v].pa] ELSE NoPage

(* p's own calls that add, remove or replace pages of p.                   *)
Remaps(p) == pc[p] \in {"unused", "embryo", "zombie", "grow", "undo", "shrink", "e_load"}
OwnStore(p, v) == \E x \in Stores : UserStore(p, v, x) \/ KernelStore(p, v, x)

\* Copy-on-write is invisible: what a process reads changes only when it
\* stores there itself or by its own sbrk and exec; never by fork or by a
\* page fault, its own or another's.
Isolation ==
  [][\A p \in Procs, v \in Vpns :
       View(p, v)' = View(p, v) \/ Remaps(p) \/ OwnStore(p, v) \/ panicked']_vars

(* What reaches a page of another process: a store the kernel makes        *)
(* through a read-only mapping, and the copy of a page fault for which     *)
(* there is no memory.                                                     *)
WriteThrough == \E q \in Procs, u \in Vpns, x \in Stores :
                  ~pgdir[q][u].w /\ KernelStore(q, u, x)
OomFault     == \E q \in Procs, u \in Vpns : free = {} /\ PageFaultCopy(q, u)

\* The same for memory no process lost to a page fault without memory
\* (physical page 0 has no owner), and except for stores the kernel makes
\* through another process's read-only mapping: a store that PTE_W permits,
\* fork, a page fault, exit and wait never show in another process.
IsolationFromUserStores ==
  [][\A p \in Procs, v \in Vpns :
       \/ View(p, v)' = View(p, v) \/ Remaps(p) \/ OwnStore(p, v) \/ panicked'
       \/ pgdir[p][v].pa = Page0 \/ got[p] = Page0 \/ WriteThrough \/ OomFault]_vars

\* fork gives the child the parent's memory, page by page.
ForkCopies ==
  [][\A p, c \in Procs :
       pc[c] = "embryo" /\ other[p] = c /\ pc'[c] = "user" =>
         sz'[c] = sz[p] /\ \A v \in Vpns : View(c, v)' = View(p, v)]_vars
=============================================================================
