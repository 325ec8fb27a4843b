---------------------------- MODULE ParallelSort ----------------------------
(***************************************************************************)
(* psort (P6, psort.c): threads merge-sort one segment each of the shared  *)
(* array keys, through the shared array temp and without a lock; main      *)
(* joins them and merges the segments, one after the other, into the       *)
(* sorted beginning of the array.                                          *)
(*                                                                         *)
(* A thread is a stack of calls of merge_sort and merge.  Each step is a   *)
(* call, or one record that merge moves.  A record is a key and the place  *)
(* it had in the input (index).                                            *)
(***************************************************************************)
EXTENDS Integers, Sequences

CONSTANTS
  Sizes,     \* numbers of records of the input
  Counts,    \* numbers of threads asked for
  KeyValues  \* values of a key

ConstantAssumptions ==
  Sizes \subseteq Nat /\ Counts \subseteq Nat \ {0} /\ KeyValues \subseteq Int

VARIABLES
  numRecords, numThreads,
  keys, temp,  \* the arrays
  created,     \* threads main has created
  joined,      \* main has joined them all
  todo         \* per thread, main last: the calls it has yet to do or finish

vars == <<numRecords, numThreads, keys, temp, created, joined, todo>>

-----------------------------------------------------------------------------
(***************************************************************************)
(* The segments: thread i sorts start(i) up to end(i), without it.         *)
(***************************************************************************)
Start(i, n, t) == i * (n \div t)

End(i, n, t) == IF i = t - 1 THEN n ELSE (i + 1) * (n \div t)

-----------------------------------------------------------------------------
Threads == 0 .. numThreads - 1
main    == numThreads

Sort(s, e)     == [op |-> "sort", start |-> s, mid |-> s, end |-> e, i |-> s, j |-> s, k |-> s]
Merge(s, m, e) == [op |-> "merge", start |-> s, mid |-> m, end |-> e, i |-> s, j |-> m, k |-> s]

Does(a, o)      == todo[a] # <<>> /\ Head(todo[a]).op = o
Continue(a, cs) == todo' = [todo EXCEPT ![a] = cs \o Tail(@)]

Create ==
  /\ created < numThreads
  /\ todo' = [todo EXCEPT ![created] =
       <<Sort(Start(created, numRecords, numThreads), End(created, numRecords, numThreads))>>]
  /\ created' = created + 1
  /\ UNCHANGED <<numRecords, numThreads, keys, temp, joined>>

\* Mutant: main merges while the last thread sorts.
JoinedButLast == created = numThreads /\ \A t \in 0 .. numThreads - 2 : todo[t] = <<>>

AllJoined == created = numThreads /\ \A t \in Threads : todo[t] = <<>>

Join ==
  /\ ~joined /\ AllJoined
  /\ joined' = TRUE
  /\ todo' = [todo EXCEPT ![main] = [t \in 1 .. numThreads |->
       Merge(0, Start(t - 1, numRecords, numThreads), End(t - 1, numRecords, numThreads))]]
  /\ UNCHANGED <<numRecords, numThreads, keys, temp, created>>

MergeSort(a) ==
  LET c == Head(todo[a])
      mid == c.start + (c.end - c.start) \div 2 IN
  /\ Does(a, "sort")
  /\ Continue(a, IF c.end - c.start < 2 THEN <<>>
                 ELSE <<Sort(c.start, mid), Sort(mid, c.end), Merge(c.start, mid, c.end)>>)
  /\ UNCHANGED <<numRecords, numThreads, keys, temp, created, joined>>

\* the next record comes from the left half
TakesLeft(c) == c.i < c.mid /\ (c.j < c.end => keys[c.i].key <= keys[c.j].key)

Move(a) ==
  LET c == Head(todo[a]) IN
  /\ Does(a, "merge") /\ (c.i < c.mid \/ c.j < c.end)
  /\ temp' = [temp EXCEPT ![c.k] = keys[IF TakesLeft(c) THEN c.i ELSE c.j]]
  /\ Continue(a, <<IF TakesLeft(c) THEN [c EXCEPT !.i = @ + 1, !.k = @ + 1]
                                   ELSE [c EXCEPT !.j = @ + 1, !.k = @ + 1]>>)
  /\ UNCHANGED <<numRecords, numThreads, keys, created, joined>>

Moved(a) ==
  LET c == Head(todo[a]) IN
  /\ Does(a, "merge") /\ c.i >= c.mid /\ c.j >= c.end
  /\ Continue(a, <<[c EXCEPT !.op = "copy", !.i = c.start]>>)
  /\ UNCHANGED <<numRecords, numThreads, keys, temp, created, joined>>

CopyBack(a) ==
  LET c == Head(todo[a]) IN
  /\ Does(a, "copy") /\ c.i < c.end
  /\ keys' = [keys EXCEPT ![c.i] = temp[c.i]]
  /\ Continue(a, <<[c EXCEPT !.i = @ + 1]>>)
  /\ UNCHANGED <<numRecords, numThreads, temp, created, joined>>

MergeReturns(a) ==
  /\ Does(a, "copy") /\ Head(todo[a]).i >= Head(todo[a]).end
  /\ Continue(a, <<>>)
  /\ UNCHANGED <<numRecords, numThreads, keys, temp, created, joined>>

-----------------------------------------------------------------------------
Init ==
  /\ numRecords \in Sizes /\ numThreads \in Counts
  /\ \E f \in [0 .. numRecords - 1 -> KeyValues] :
       keys = [i \in 0 .. numRecords - 1 |-> [key |-> f[i], index |-> i]]
  /\ temp = [i \in 0 .. numRecords - 1 |-> [key |-> 0, index |-> -1]]
  /\ created = 0 /\ joined = FALSE
  /\ todo = [a \in 0 .. numThreads |-> <<>>]

Next ==
  \/ Create
  \/ Join
  \/ \E a \in 0 .. numThreads :
       MergeSort(a) \/ Move(a) \/ Moved(a) \/ CopyBack(a) \/ MergeReturns(a)

Spec == Init /\ [][Next]_vars

\* Threads that can run do: nothing makes them wait but the join.
FairSpec == Spec /\ WF_vars(Next)

-----------------------------------------------------------------------------
(***************************************************************************)
(* Properties.                                                             *)
(***************************************************************************)
\* Records an actor reads or writes in keys, or writes in temp, from now on.
Region(a) == UNION {todo[a][n].start .. todo[a][n].end - 1 : n \in DOMAIN todo[a]}

\* No two threads ever have a record in common, though neither array has a
\* lock: not two sorters, and not a sorter and the merging main thread
\* (psort.c:113-125).
RaceFree == \A a, b \in 0 .. numThreads :
  a # b => Region(a) \cap Region(b) = {}

Precedes(r, s) == r.key < s.key \/ (r.key = s.key /\ r.index < s.index)
Sorted ==
  /\ {keys[i].index : i \in DOMAIN keys} = DOMAIN keys
  /\ \A i, j \in DOMAIN keys : i < j => Precedes(keys[i], keys[j])

\* The program ends with the records of the input in the order of their keys,
\* equal keys in the order of the input, whatever the interleaving, and also
\* with more threads than records (psort.c:121-125, 167-170).
Done == joined /\ todo[main] = <<>>
EndsSorted == Done => Sorted

-----------------------------------------------------------------------------
(***************************************************************************)
(* The inductive invariant.  A call of merge finds the two halves of its   *)
(* range sorted, or a call above it on the stack is still to do that; so   *)
(* does the caller find the thread's whole segment.                        *)
(***************************************************************************)
Records == [key : Int, index : Int]
Calls   == [op : {"sort", "merge", "copy"}, start : Nat, mid : Nat, end : Nat,
            i : Nat, j : Nat, k : Nat]

TypeOK ==
  /\ numRecords \in Sizes /\ numThreads \in Counts
  /\ keys \in [0 .. numRecords - 1 -> Records] /\ temp \in [0 .. numRecords - 1 -> Records]
  /\ created \in 0 .. numThreads /\ joined \in BOOLEAN
  /\ todo \in [0 .. numThreads -> Seq(Calls)]

\* f has the input's records of s to e - 1 there, in order.
SortedOn(f, s, e) ==
  /\ \A x \in s .. e - 1 : f[x].index \in s .. e - 1
  /\ \A z \in s .. e - 1 : \E x \in s .. e - 1 : f[x].index = z
  /\ \A x, y \in s .. e - 1 : x < y => Precedes(f[x], f[y])

Untouched(s, e) == \A x \in s .. e - 1 : keys[x].index = x

(* What merge has moved, and what it has copied back.                      *)
Merging(c) ==
  LET gone == (c.start .. c.i - 1) \cup (c.mid .. c.j - 1)
      left == (c.i .. c.mid - 1) \cup (c.j .. c.end - 1)
      done == c.start .. c.k - 1
  IN /\ c.start <= c.i /\ c.i <= c.mid /\ c.mid <= c.j /\ c.j <= c.end
     /\ c.k = c.i + c.j - c.mid
     /\ \A x \in done : \E y \in gone : temp[x] = keys[y]
     /\ \A y \in gone : \E x \in done : temp[x] = keys[y]
     /\ \A x, y \in done : x < y => Precedes(temp[x], temp[y])
     /\ \A x \in done, y \in left : Precedes(temp[x], keys[y])

Copying(c) ==
  /\ c.start <= c.i /\ c.i <= c.end
  /\ SortedOn(temp, c.start, c.end)
  /\ \A x \in c.start .. c.i - 1 : keys[x] = temp[x]

CallOk(c) ==
  /\ c.start <= c.mid /\ c.mid <= c.end
  /\ c.op = "sort"  => Untouched(c.start, c.end)
  /\ c.op = "merge" => Merging(c)
  /\ c.op = "copy"  => Copying(c)

Apart(c, s, e)  == c.end <= s \/ c.start >= e
Within(c, s, e) == s <= c.start /\ c.end <= e

(* An earlier call sorts a part of a half of a later one, or of neither.   *)
Nested(b, c) ==
  \/ Apart(b, c.start, c.end)
  \/ c.op = "merge" /\ (Within(b, c.start, c.mid) \/ Within(b, c.mid, c.end))

(* The calls before the n-th of S leave s to e - 1 sorted.                 *)
Prepared(S, n, s, e) ==
  \/ \E m \in 1 .. n - 1 : S[m].start = s /\ S[m].end = e
  \/ SortedOn(keys, s, e) /\ \A m \in 1 .. n - 1 : Apart(S[m], s, e)

StackOk(S, lo, hi) ==
  /\ \A n \in 1 .. Len(S) : CallOk(S[n]) /\ Within(S[n], lo, hi)
  /\ \A n \in 2 .. Len(S) : S[n].op # "copy" /\ S[n].k = S[n].start /\ S[n].j = S[n].mid
  /\ \A n \in 1 .. Len(S) : \A m \in 1 .. n - 1 : Nested(S[m], S[n])
  /\ \A n \in 1 .. Len(S) : S[n].op = "merge" =>
       Prepared(S, n, S[n].start, S[n].mid) /\ Prepared(S, n, S[n].mid, S[n].end)
  /\ Prepared(S, Len(S) + 1, lo, hi)

SegmentOk(t) ==
  LET lo == Start(t, numRecords, numThreads)
      hi == End(t, numRecords, numThreads)
  IN IF t < created THEN StackOk(todo[t], lo, hi) ELSE todo[t] = <<>> /\ Untouched(lo, hi)

IInv ==
  /\ TypeOK
  /\ IF joined
     THEN /\ created = numThreads /\ \A t \in Threads : todo[t] = <<>>
          /\ StackOk(todo[main], 0, numRecords)
     ELSE todo[main] = <<>> /\ \A t \in Threads : SegmentOk(t)

=============================================================================
