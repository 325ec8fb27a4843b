----------------------------- MODULE MCPrograms -----------------------------
(***************************************************************************)
(* Instances of the user programs that are modelled: malloc and free       *)
(* (P5, user/umalloc.c), psort (P6), smash (P3) and the two parts of       *)
(* runscan (P7).  A behaviour is one program's; the others' variables stay *)
(* as they began.                                                          *)
(***************************************************************************)
EXTENDS Integers, Sequences

CONSTANTS
  Top, HeaderSize, MoreUnits, Lens, Gaps, Null,   \* malloc and free
  Sizes, Counts, KeyValues,                       \* psort
  MaxStages, MaxLoops, MaxBytes, PipeBytes,       \* smash
  num_groups, inodes_per_group, Names, TopSecret, Images,  \* the scan of runscan
  BlockSize, NDIR, PTRS                           \* its copy of a file

VARIABLES
  program,
  ptr, size, freep, brk, live, taken, pc, nbytes, p, prevp, bp, caller,
  numRecords, numThreads, keys, temp, created, joined, todo,
  sh, num_pipes, loop_cnt, idx, cnt, child, pipefds, in, out, bytes, toWrite,
  image, scanPc, i, k, inode_is_jpg, have_top_secret, secret, list, files, named,
  fileSize, copyPc, buffer, copied, block_idx, outer, copyOut

Heap  == INSTANCE Umalloc
Sort  == INSTANCE ParallelSort
Shell == INSTANCE SmashPipeline WITH todo <- toWrite
Scan  == INSTANCE Ext2Scan WITH pc <- scanPc
Copy  == INSTANCE Ext2Copy WITH size <- fileSize, pc <- copyPc, out <- copyOut

ASSUME ProgramsAssumptions ==
  /\ Heap!ConstantAssumptions /\ Sort!ConstantAssumptions /\ Shell!ConstantAssumptions
  /\ Scan!ConstantAssumptions /\ Copy!ConstantAssumptions

-----------------------------------------------------------------------------
(* Images for the scanner: three layouts, and all directories of up to two *)
(* entries with different names.                                           *)
Inums == 1 .. 4

Layouts == {<<"dir", "jpg", "dir", "jpg">>, <<"jpg", "dir", "dir", "other">>,
            <<"dir", "jpg", "jpg", "dir">>}

Entry == (Inums \cup {0}) \X Names
Dirs  == {<<>>} \cup {<<a>> : a \in Entry} \cup
         {d \in Entry \X Entry : d[1][2] # d[2][2]}
Small == {<<>>} \cup {<<a>> : a \in Entry}

\* the first directory of an image is small
First(l, d) == l[d] = "dir" /\ \A m \in 1 .. d - 1 : l[m] # "dir"
SmallImages == UNION {
  {[kind |-> l, entries |-> [d \in Inums |->
      IF l[d] # "dir" THEN <<>> ELSE IF First(l, d) THEN a ELSE b]] :
      a \in Small, b \in Dirs} : l \in Layouts}

-----------------------------------------------------------------------------
heapVars  == <<ptr, size, freep, brk, live, taken, pc, nbytes, p, prevp, bp, caller>>
sortVars  == <<numRecords, numThreads, keys, temp, created, joined, todo>>
shellVars == <<sh, num_pipes, loop_cnt, idx, cnt, child, pipefds, in, out, bytes, toWrite>>
scanVars  == <<image, scanPc, i, k, inode_is_jpg, have_top_secret, secret, list, files, named>>
copyVars  == <<fileSize, copyPc, buffer, copied, block_idx, outer, copyOut>>
vars      == <<program, heapVars, sortVars, shellVars, scanVars, copyVars>>

OnlyHeap  == program = "malloc" /\ UNCHANGED <<program, sortVars, shellVars, scanVars, copyVars>>
OnlySort  == program = "psort"  /\ UNCHANGED <<program, heapVars, shellVars, scanVars, copyVars>>
OnlyShell == program = "smash"  /\ UNCHANGED <<program, heapVars, sortVars, scanVars, copyVars>>
OnlyScan  == program = "scan"   /\ UNCHANGED <<program, heapVars, sortVars, shellVars, copyVars>>
OnlyCopy  == program = "copy"   /\ UNCHANGED <<program, heapVars, sortVars, shellVars, scanVars>>

\* what the others' variables are while one program runs
Fewest(S) == CHOOSE m \in S : \A m2 \in S : m <= m2
AnyImage  == CHOOSE im \in Images : TRUE

Init ==
  /\ program \in {"malloc", "psort", "smash", "scan", "copy"}
  /\ program # "psort" => numRecords = Fewest(Sizes) /\ numThreads = Fewest(Counts)
  /\ program # "copy" => fileSize = 0
  /\ program # "scan" => image = AnyImage
  /\ Scan!Init /\ Heap!Init /\ Shell!Init /\ Sort!Init /\ Copy!Init

Next ==
  \/ OnlyHeap  /\ Heap!Next
  \/ OnlySort  /\ Sort!Next
  \/ OnlyShell /\ Shell!Next
  \/ OnlyScan  /\ Scan!Next
  \/ OnlyCopy  /\ Copy!Next

(* The programs run, and so does each stage of smash's pipeline.           *)
Runs == \/ OnlyHeap  /\ Heap!Step
        \/ OnlySort  /\ Sort!Next
        \/ OnlyShell /\ Shell!ShellStep
        \/ OnlyScan  /\ Scan!Next
        \/ OnlyCopy  /\ Copy!Next
Spec ==
  /\ Init /\ [][Next]_vars /\ WF_vars(Runs)
  /\ \A s \in Shell!Stages : /\ WF_vars(OnlyShell /\ Shell!ChildStep(s))
                            /\ WF_vars(OnlyShell /\ Shell!Program(s))

-----------------------------------------------------------------------------
\* malloc and free keep every header in exactly one block and the list of the
\* free ones sorted, joined and closed, in whatever order blocks are freed
\* (umalloc.c:24-42, 74-81).
HeapSound == program = "malloc" => Heap!TypeOK /\ Heap!BlocksExact /\ Heap!ListSound

\* malloc gives up only when no free block is large enough (umalloc.c:86).
FailsOnlyIfNone == Heap!FailsOnlyIfNone

\* The threads of psort never touch each other's records, and the merges sort
\* the whole (psort.c:113-125).
SortSound == program = "psort" => Sort!RaceFree /\ Sort!EndsSorted

\* smash waits for exactly the children it has, and each program has exactly
\* the ends of pipes it is to use (smash.c:386, 428).
ShellSound == program = "smash" => Shell!TypeOK /\ Shell!RoundsClean /\ Shell!PlumbingExact

\* runscan finds every picture, or those that top_secret names, and its copy
\* of a file has the file's blocks in order and its size (runscan.c:106, 211).
PicturesRecovered ==
  /\ program = "scan" => Scan!TypeOK /\ Scan!Recovered
  /\ program = "copy" => Copy!TypeOK /\ Copy!CopyExact

\* The same of runscan without an exception, which does not hold: a
\* directory top_secret may be the last of its group (runscan.c:76, 194).
SecretRecovered == program = "scan" => Scan!SecretRecovered

Unfinished ==
  \/ program = "malloc" /\ pc # "idle"
  \/ program = "smash" /\ sh = "round"
  \/ program \in {"psort", "scan", "copy"}
Finished ==
  \/ program = "malloc" /\ pc = "idle"
  \/ program = "smash" /\ sh = "prompt"
  \/ program = "psort" /\ Sort!Done
  \/ program = "scan" /\ scanPc = "done"
  \/ program = "copy" /\ copyPc = "done"

\* What is begun ends.  Neither search of umalloc goes round for ever; the
\* prompt of smash comes back, because each program gets its end of file or
\* its broken pipe although every stage, the shell included, once had every
\* end ("close all pipe ends and wait until all children exit", smash.c:428);
\* psort joins its threads; runscan comes to the last inode and block.
ProgramsEnd == Unfinished ~> Finished
=============================================================================
