------------------------------ MODULE Umalloc ------------------------------
(***************************************************************************)
(* malloc and free of the user library (P5, user/umalloc.c, after          *)
(* Kernighan and Ritchie): a circular list of free blocks in the order of  *)
(* their addresses, which free joins with their neighbours.                *)
(*                                                                         *)
(* Memory is counted in headers; address 0 is the static header base, and  *)
(* ptr and size are the fields of the header at each address, 0 where no   *)
(* block begins any more (or, of ptr, where the program has the block).    *)
(* The program frees only what it has got from malloc, and may move the    *)
(* break itself.                                                           *)
(***************************************************************************)
EXTENDS Naturals

CONSTANTS
  Top,          \* sbrk fails past this address
  HeaderSize, MoreUnits,   \* sizeof(Header); the least that morecore asks for
  Lens,         \* what the program asks for, in bytes
  Gaps,         \* by what the program moves the break, in headers
  Null

ConstantAssumptions ==
  /\ Top \in Nat /\ HeaderSize \in Nat \ {0} /\ MoreUnits \in Nat \ {0}
  /\ Lens \subseteq Nat /\ Gaps \subseteq Nat \ {0}
  /\ Null \notin Nat

Addrs == 0 .. Top
base  == 0

VARIABLES
  ptr, size, freep,
  brk,
  live,        \* the blocks that the program has: [at, units, nbytes]
  taken,       \* the headers that morecore has got from sbrk
  pc, nbytes, p, prevp, bp,
  caller       \* who called free: the program, or malloc through morecore

vars == <<ptr, size, freep, brk, live, taken, pc, nbytes, p, prevp, bp, caller>>

-----------------------------------------------------------------------------
nunits == (nbytes + HeaderSize - 1) \div HeaderSize + 1

Malloc(n) ==
  /\ pc = "idle"
  /\ nbytes' = n
  /\ IF freep = Null
     THEN ptr' = [ptr EXCEPT ![base] = base] /\ freep' = base
     ELSE UNCHANGED <<ptr, freep>>
  /\ prevp' = freep' /\ p' = ptr'[freep']
  /\ pc' = "search"
  /\ UNCHANGED <<size, brk, live, taken, bp, caller>>

(* The locals of a call are gone after it.                                 *)
Leave ==
  /\ pc' = "idle" /\ nbytes' = 0 /\ caller' = "program"
  /\ p' = base /\ prevp' = base /\ bp' = base

Returned(a) == live' = live \cup {[at |-> a, units |-> nunits, nbytes |-> nbytes]}

(* A block that fits is unlinked; of a larger one its tail is given away.  *)
TakeWhole ==
  /\ pc = "search" /\ size[p] = nunits
  /\ ptr' = [ptr EXCEPT ![prevp] = ptr[p], ![p] = base]
  /\ freep' = prevp
  /\ Returned(p)
  /\ Leave
  /\ UNCHANGED <<size, brk, taken>>

TakeTail ==
  /\ pc = "search" /\ size[p] > nunits
  /\ LET rest == size[p] - nunits
     IN /\ size' = [size EXCEPT ![p] = rest, ![p + rest] = nunits]
        /\ Returned(p + rest)
  /\ freep' = prevp
  /\ Leave
  /\ UNCHANGED <<ptr, brk, taken>>

\* Mutant: the search ends at base.
AtEndIfBase == p = base

AtEnd == p = freep

NextBlock ==
  /\ pc = "search" /\ size[p] < nunits /\ ~AtEnd
  /\ prevp' = p /\ p' = ptr[p]
  /\ UNCHANGED <<ptr, size, freep, brk, live, taken, pc, nbytes, bp, caller>>

(* Once around: morecore frees what it gets from sbrk, and the search goes *)
(* on behind the new freep.                                                *)
nu == IF nunits < MoreUnits THEN MoreUnits ELSE nunits

Morecore ==
  /\ pc = "search" /\ size[p] < nunits /\ AtEnd
  /\ brk + nu - 1 <= Top
  /\ brk' = brk + nu
  /\ taken' = taken \cup (brk .. brk + nu - 1)
  /\ size' = [size EXCEPT ![brk] = nu]
  /\ bp' = brk /\ caller' = "malloc" /\ p' = freep
  /\ pc' = "free"
  /\ UNCHANGED <<ptr, freep, live, nbytes, prevp>>

NoMore ==
  /\ pc = "search" /\ size[p] < nunits /\ AtEnd
  /\ brk + nu - 1 > Top
  /\ Leave
  /\ UNCHANGED <<ptr, size, freep, brk, live, taken>>

-----------------------------------------------------------------------------
Free(b) ==
  /\ pc = "idle" /\ b \in live
  /\ live' = live \ {b}
  /\ bp' = b.at /\ p' = freep
  /\ pc' = "free"
  /\ UNCHANGED <<ptr, size, freep, brk, taken, nbytes, prevp, caller>>

(* The block before bp: bp lies between it and its successor, or it is the *)
(* last of the list and bp lies outside.                                   *)
Between == bp > p /\ bp < ptr[p]

Outside == p >= ptr[p] /\ (bp > p \/ bp < ptr[p])

FreeNext ==
  /\ pc = "free" /\ ~Between /\ ~Outside
  /\ p' = ptr[p]
  /\ UNCHANGED <<ptr, size, freep, brk, live, taken, pc, nbytes, prevp, bp, caller>>

JoinUpper(m) ==
  IF bp + m.size[bp] = m.ptr[p]
  THEN [size |-> [m.size EXCEPT ![bp] = @ + m.size[m.ptr[p]], ![m.ptr[p]] = 0],
        ptr  |-> [m.ptr EXCEPT ![bp] = m.ptr[m.ptr[p]], ![m.ptr[p]] = base]]
  ELSE [m EXCEPT !.ptr[bp] = m.ptr[p]]

\* Mutant: the joined block leads to what bp was.
JoinLowerKeepsPtr(m) ==
  IF p + m.size[p] = bp
  THEN [m EXCEPT !.size[p] = @ + m.size[bp]]
  ELSE [m EXCEPT !.ptr[p] = bp]

JoinLower(m) ==
  IF p + m.size[p] = bp
  THEN [size |-> [m.size EXCEPT ![p] = @ + m.size[bp], ![bp] = 0],
        ptr  |-> [m.ptr EXCEPT ![p] = m.ptr[bp], ![bp] = base]]
  ELSE [m EXCEPT !.ptr[p] = bp]

FreeLink ==
  /\ pc = "free" /\ (Between \/ Outside)
  /\ LET joined == JoinLower(JoinUpper([size |-> size, ptr |-> ptr]))
     IN size' = joined.size /\ ptr' = joined.ptr
  /\ freep' = p
  /\ IF caller = "program"
     THEN Leave
     ELSE pc' = "search" /\ prevp' = freep' /\ p' = ptr'[freep'] /\ UNCHANGED <<nbytes, bp, caller>>
  /\ UNCHANGED <<brk, live, taken>>

(* The program's own sbrk leaves a gap in what malloc has.                 *)
Sbrk(n) ==
  /\ pc = "idle" /\ brk + n <= Top
  /\ brk' = brk + n
  /\ UNCHANGED <<ptr, size, freep, live, taken, pc, nbytes, p, prevp, bp, caller>>

-----------------------------------------------------------------------------
Init ==
  /\ ptr = [a \in Addrs |-> base] /\ size = [a \in Addrs |-> 0]
  /\ freep = Null /\ brk = 1 /\ live = {} /\ taken = {}
  /\ pc = "idle" /\ nbytes = 0 /\ p = base /\ prevp = base /\ bp = base /\ caller = "program"

Call == (\E n \in Lens : Malloc(n)) \/ (\E b \in live : Free(b)) \/ (\E n \in Gaps : Sbrk(n))
Step == TakeWhole \/ TakeTail \/ NextBlock \/ Morecore \/ NoMore \/ FreeNext \/ FreeLink

Next == Call \/ Step

Spec == Init /\ [][Next]_vars /\ WF_vars(Step)

-----------------------------------------------------------------------------
TypeOK ==
  /\ ptr \in [Addrs -> Addrs] /\ size \in [Addrs -> 0 .. Top]
  /\ freep \in Addrs \cup {Null} /\ brk \in 1 .. Top + 1 /\ taken \subseteq Addrs
  /\ live \subseteq [at : Addrs, units : 1 .. Top, nbytes : Lens]
  /\ pc \in {"idle", "search", "free"} /\ nbytes \in Nat
  /\ {p, prevp, bp} \subseteq Addrs /\ caller \in {"program", "malloc"}

walk[n \in 0 .. Top + 1] == IF n = 0 THEN base ELSE ptr[walk[n - 1]]
OnList == IF freep = Null THEN {} ELSE {walk[n] : n \in 0 .. Top + 1}

Block(a, n) == a .. a + n - 1
Listed  == {Block(a, size[a]) : a \in OnList \ {base}}
InHand  == IF pc = "free" THEN {Block(bp, size[bp])} ELSE {}
Given   == {Block(b.at, b.units) : b \in live}

\* Each header that came from sbrk is in exactly one block, on the list, in
\* the hands of free, or the program's: nothing is given twice, nothing is
\* lost at a split or a join, and a block has room for what was asked
\* (umalloc.c:33-42, 75-82).
BlocksExact ==
  /\ UNION (Listed \cup InHand \cup Given) = taken
  /\ \A B, C \in Listed \cup InHand \cup Given : B # C => B \cap C = {}
  /\ Listed \cap InHand = {} /\ Listed \cap Given = {} /\ InHand \cap Given = {}
  /\ \A b, c \in live : b.at = c.at => b = c
  /\ \A b \in live : size[b.at] = b.units /\ (b.units - 1) * HeaderSize >= b.nbytes

\* The list is one circle through base in the order of the addresses, freep
\* is on it, and no two free blocks touch (umalloc.c:30-43).
ListSound == freep # Null =>
  /\ freep \in OnList /\ \E n \in 1 .. Top + 1 : walk[n] = base
  /\ \A a \in OnList : LET after == {b \in OnList : b > a}
       IN IF after = {} THEN ptr[a] = base
          ELSE ptr[a] \in after /\ \A b \in after : ptr[a] <= b
  /\ \A a, b \in OnList \ {base} : a + size[a] # b

\* malloc gives up only when no free block is large enough, wherever on the
\* circle the search began (umalloc.c:86).
FailsOnlyIfNone == [][NoMore => \A a \in OnList : size[a] < nunits]_vars

-----------------------------------------------------------------------------
(***************************************************************************)
(* The inductive invariant.  A block begins where a size is, and the free  *)
(* ones are those that nobody has: this needs no walk along the list.      *)
(***************************************************************************)
Begins == {a \in Addrs : size[a] > 0}
Had    == {b.at : b \in live} \cup (IF pc = "free" THEN {bp} ELSE {})
Idle   == {base} \cup (Begins \ Had)

BlocksInv ==
  /\ base \notin Begins /\ Had \subseteq Begins
  /\ \A a \in Begins : a + size[a] <= brk
  /\ \A a, b \in Begins : a < b => a + size[a] <= b
  /\ taken = UNION {Block(a, size[a]) : a \in Begins}
  /\ pc = "free" => \A b \in live : b.at # bp
  /\ \A b, c \in live : b.at = c.at => b = c
  /\ \A b \in live : size[b.at] = b.units /\ (b.units - 1) * HeaderSize >= b.nbytes

\* b follows a on the circle of the addresses in S
Successor(S, a, b) ==
  \/ a < b /\ \A x \in S : x <= a \/ b <= x
  \/ b = base /\ \A x \in S : x <= a

RingInv ==
  /\ \A a \in Idle : freep # Null => ptr[a] \in Idle /\ Successor(Idle, a, ptr[a])
  /\ \A a, b \in Idle \ {base} : a + size[a] # b

(* A search has passed the blocks from freep to p, which are too small.    *)
Passed(a) == IF freep < p THEN freep < a /\ a < p ELSE freep < a \/ a < p

CallInv ==
  /\ freep = Null => pc = "idle" /\ Begins = {} /\ live = {}
  /\ freep # Null => freep \in Idle
  /\ pc # "idle" => p \in Idle
  /\ pc = "search" \/ caller = "malloc" => nbytes \in Lens
  /\ pc = "search" => prevp \in Idle /\ ptr[prevp] = p
  /\ pc = "search" => \A a \in Idle : Passed(a) => size[a] < nunits
  /\ pc = "idle" => caller = "program"

IInv == TypeOK /\ BlocksInv /\ RingInv /\ CallInv
=============================================================================
