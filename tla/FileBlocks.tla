----------------------------- MODULE FileBlocks -----------------------------
(***************************************************************************)
(* Where the bytes of a file are (P5, kernel/fs.c): bmap finds or          *)
(* allocates the block of a place through the direct and the indirect      *)
(* pointers, readi and writei go from block to block, itrunc gives all     *)
(* blocks back, and a crash may come between any two writes to the disk.   *)
(*                                                                         *)
(* Each file is read, written or freed by one process at a time, the one   *)
(* that has it locked (FileSystem); different files are used at the same   *)
(* time and share the bitmap.  A block is BSIZE cells, which are bytes or  *)
(* pointers: BSIZE stands for NINDIRECT too.  Block 0 is never allocated   *)
(* (mkfs), so that 0 is no pointer.                                        *)
(***************************************************************************)
EXTENDS Naturals, Sequences

CONSTANTS
  Files,
  BSIZE, NDIRECT,
  NBLOCKS,      \* blocks of the disk: 1 .. NBLOCKS
  Bytes,        \* what programs write
  Lens,         \* how much they read or write at a time
  MaxCalls, MaxCrashes      \* bounds

NINDIRECT == BSIZE
MAXFILE   == NDIRECT + NINDIRECT
Blocks    == 1 .. NBLOCKS
Cells     == 0 .. BSIZE - 1
Places    == 0 .. MAXFILE      \* of pointers: MAXFILE is that of the indirect block

ConstantAssumptions ==
  /\ BSIZE \in Nat \ {0} /\ NDIRECT \in Nat /\ NBLOCKS \in Nat
  /\ Bytes \subseteq Nat \ {0} /\ Lens \subseteq Nat
  /\ MaxCalls \in Nat /\ MaxCrashes \in Nat

VARIABLES
  used, block,       \* the disk: the bitmap and the blocks
  dinode,            \* the disk: inodes
  inode,             \* the in-core inodes
  call,              \* what is done with each file
  contents,          \* what each file had when its call began
  dead,              \* files that a crash left without a name and half freed
  full,              \* the panic of balloc
  calls, crashes

vars == <<used, block, dinode, inode, call, contents, dead, full, calls, crashes>>

Zero  == [c \in Cells |-> 0]
Empty == [size |-> 0, addrs |-> [k \in 0 .. NDIRECT |-> 0]]
Idle  == [op |-> "none"]

-----------------------------------------------------------------------------
(* What an inode says the file has.                                        *)
Ind(ip) == ip.addrs[NDIRECT]
AddrOf(ip, bn) == IF bn < NDIRECT THEN ip.addrs[bn]
                  ELSE IF Ind(ip) = 0 THEN 0 ELSE block[Ind(ip)][bn - NDIRECT]
ByteOf(b, c) == IF b = 0 THEN 0 ELSE block[b][c]
ContentsOf(ip) == [k \in 1 .. ip.size |-> ByteOf(AddrOf(ip, (k - 1) \div BSIZE), (k - 1) % BSIZE)]
Slot(ip, k)    == IF k = MAXFILE THEN Ind(ip) ELSE AddrOf(ip, k)
BlocksOf(ip)   == {Slot(ip, k) : k \in Places} \ {0}

At(f, pc) == ~full /\ call[f].op # "none" /\ call[f].pc = pc
bn(f)     == (call[f].off + call[f].tot) \div BSIZE

Begin(f, op, off, n, v) ==
  call' = [call EXCEPT ![f] = IF n = 0 THEN Idle
             ELSE [op |-> op, pc |-> "bmap", off |-> off, n |-> n, v |-> v, tot |-> 0, got |-> <<>>]]

Quiet(f) == ~full /\ call[f] = Idle /\ ~dead[f] /\ calls < MaxCalls

(* writei and readi: as much as the largest file, or the file, has.        *)
Writei(f, off, n, v) ==
  /\ Quiet(f) /\ off <= inode[f].size
  /\ Begin(f, "write", off, IF off + n > MAXFILE * BSIZE THEN MAXFILE * BSIZE - off ELSE n, v)
  /\ contents' = [contents EXCEPT ![f] = ContentsOf(inode[f])]
  /\ calls' = calls + 1
  /\ UNCHANGED <<used, block, dinode, inode, dead, full, crashes>>

Readi(f, off, n) ==
  /\ Quiet(f) /\ off <= inode[f].size
  /\ Begin(f, "read", off, IF off + n > inode[f].size THEN inode[f].size - off ELSE n, 0)
  /\ contents' = [contents EXCEPT ![f] = ContentsOf(inode[f])]
  /\ calls' = calls + 1
  /\ UNCHANGED <<used, block, dinode, inode, dead, full, crashes>>

-----------------------------------------------------------------------------
(* balloc takes the first free block; it relies on bfree for its zeroes.   *)
Free == Blocks \ used
Lowest(S) == CHOOSE b \in S : \A other \in S : b <= other

Balloc(b) ==
  /\ b = Lowest(Free)
  /\ used' = used \cup {b}
  /\ UNCHANGED full

BallocPanic ==
  /\ Free = {}
  /\ full' = TRUE
  /\ UNCHANGED <<used, inode, call>>

SetAddr(f, k, b) == inode' = [inode EXCEPT ![f].addrs[k] = b]
Goto(f, pc)      == call' = [call EXCEPT ![f].pc = pc]

BmapDirect(f) ==
  /\ At(f, "bmap") /\ bn(f) < NDIRECT
  /\ IF inode[f].addrs[bn(f)] # 0
     THEN Goto(f, "data") /\ UNCHANGED <<used, inode, full>>
     ELSE \/ \E b \in Free : Balloc(b) /\ SetAddr(f, bn(f), b) /\ Goto(f, "data")
          \/ BallocPanic
  /\ UNCHANGED <<block, dinode, contents, dead, calls, crashes>>

BmapIndirect(f) ==
  /\ At(f, "bmap") /\ bn(f) >= NDIRECT /\ bn(f) < MAXFILE
  /\ Ind(inode[f]) = 0
  /\ \/ \E b \in Free : Balloc(b) /\ SetAddr(f, NDIRECT, b) /\ UNCHANGED call
     \/ BallocPanic
  /\ UNCHANGED <<block, dinode, contents, dead, calls, crashes>>

(* The pointer is in the buffer before it is on the disk: the process has  *)
(* the buffer until bwrite returns.                                        *)
BmapEntry(f) ==
  /\ At(f, "bmap") /\ bn(f) >= NDIRECT /\ bn(f) < MAXFILE
  /\ Ind(inode[f]) # 0
  /\ IF AddrOf(inode[f], bn(f)) # 0
     THEN Goto(f, "data") /\ UNCHANGED <<used, full>>
     ELSE \/ \E b \in Free : Balloc(b) /\ call' = [call EXCEPT ![f].pc = "entry", ![f].got = <<b>>]
          \/ BallocPanic
  /\ UNCHANGED <<block, dinode, inode, contents, dead, calls, crashes>>

BmapWriteEntry(f) ==
  /\ At(f, "entry")
  /\ block' = [block EXCEPT ![Ind(inode[f])][bn(f) - NDIRECT] = call[f].got[1]]
  /\ call' = [call EXCEPT ![f].pc = "data", ![f].got = <<>>]
  /\ UNCHANGED <<used, dinode, inode, contents, dead, full, calls, crashes>>

-----------------------------------------------------------------------------
(* One block, from the place in it on.                                     *)
Place(f) == (call[f].off + call[f].tot) % BSIZE
m(f) == IF call[f].n - call[f].tot < BSIZE - Place(f) THEN call[f].n - call[f].tot
        ELSE BSIZE - Place(f)

Reaches(f, c) == Place(f) <= c /\ c < Place(f) + m(f)

WriteBlock(f) ==
  /\ At(f, "data") /\ call[f].op = "write"
  /\ LET b == AddrOf(inode[f], bn(f)) IN
     block' = [block EXCEPT ![b] = [c \in Cells |-> IF Reaches(f, c) THEN call[f].v ELSE @[c]]]
  /\ call' = [call EXCEPT ![f].tot = @ + m(f),
                          ![f].pc = IF call[f].tot + m(f) = call[f].n THEN "size" ELSE "bmap"]
  /\ UNCHANGED <<used, dinode, inode, contents, dead, full, calls, crashes>>

ReadBlock(f) ==
  /\ At(f, "data") /\ call[f].op = "read"
  /\ LET b == AddrOf(inode[f], bn(f)) IN
     call' = [call EXCEPT ![f].tot = @ + m(f),
       ![f].got = @ \o [k \in 1 .. m(f) |-> block[b][Place(f) + k - 1]],
       ![f].pc = IF call[f].tot + m(f) = call[f].n THEN "return" ELSE "bmap"]
  /\ UNCHANGED <<used, block, dinode, inode, contents, dead, full, calls, crashes>>

ReadReturns(f) ==
  /\ At(f, "return")
  /\ call' = [call EXCEPT ![f] = Idle]
  /\ UNCHANGED <<used, block, dinode, inode, contents, dead, full, calls, crashes>>

(* A file that has grown: its inode goes to the disk last.                 *)
Grown(f) == [inode[f] EXCEPT !.size = call[f].off + call[f].n]

\* Mutant: the size is set also when it does not grow.
UpdateAlways(f) ==
  /\ At(f, "size")
  /\ inode' = [inode EXCEPT ![f] = Grown(f)] /\ dinode' = [dinode EXCEPT ![f] = Grown(f)]
  /\ call' = [call EXCEPT ![f] = Idle]
  /\ UNCHANGED <<used, block, contents, dead, full, calls, crashes>>

Update(f) ==
  /\ At(f, "size")
  /\ IF Grown(f).size > inode[f].size
     THEN inode' = [inode EXCEPT ![f] = Grown(f)] /\ dinode' = [dinode EXCEPT ![f] = Grown(f)]
     ELSE UNCHANGED <<inode, dinode>>
  /\ call' = [call EXCEPT ![f] = Idle]
  /\ UNCHANGED <<used, block, contents, dead, full, calls, crashes>>

-----------------------------------------------------------------------------
(***************************************************************************)
(* itrunc: the direct blocks, those of the indirect block, that block, and *)
(* the inode.  bfree zeroes a block on the disk before it frees it.  The   *)
(* file has no name and no user any more; its inode number becomes that of *)
(* a new, empty file.                                                      *)
(***************************************************************************)
\* Mutant: the indirect block itself is forgotten.
ToFreeData(ip) == [k \in {j \in Places \ {MAXFILE} : Slot(ip, j) # 0} |-> Slot(ip, k)]

ToFree(ip) == [k \in {j \in Places : Slot(ip, j) # 0} |-> Slot(ip, k)]

Itrunc(f) ==
  /\ Quiet(f)
  /\ call' = [call EXCEPT ![f] = [op |-> "trunc", pc |-> "bzero", left |-> ToFree(inode[f])]]
  /\ contents' = [contents EXCEPT ![f] = <<>>]
  /\ calls' = calls + 1
  /\ UNCHANGED <<used, block, dinode, inode, dead, full, crashes>>

Left(f)  == DOMAIN call[f].left
First(f) == Lowest(Left(f))

Bzero(f) ==
  /\ At(f, "bzero") /\ Left(f) # {}
  /\ block' = [block EXCEPT ![call[f].left[First(f)]] = Zero]
  /\ Goto(f, "bfree")
  /\ UNCHANGED <<used, dinode, inode, contents, dead, full, calls, crashes>>

Bfree(f) ==
  /\ At(f, "bfree")
  /\ used' = used \ {call[f].left[First(f)]}
  /\ call' = [call EXCEPT ![f].pc = "bzero",
                          ![f].left = [k \in Left(f) \ {First(f)} |-> call[f].left[k]]]
  /\ UNCHANGED <<block, dinode, inode, contents, dead, full, calls, crashes>>

Truncated(f) ==
  /\ At(f, "bzero") /\ Left(f) = {}
  /\ inode' = [inode EXCEPT ![f] = Empty] /\ dinode' = [dinode EXCEPT ![f] = Empty]
  /\ call' = [call EXCEPT ![f] = Idle]
  /\ UNCHANGED <<used, block, contents, dead, full, calls, crashes>>

-----------------------------------------------------------------------------
(* A crash leaves the disk; a file that was being freed has no name.       *)
Crash ==
  /\ crashes < MaxCrashes
  /\ inode' = dinode
  /\ call' = [f \in Files |-> Idle]
  /\ dead' = [f \in Files |-> dead[f] \/ call[f].op = "trunc"]
  /\ full' = FALSE
  /\ crashes' = crashes + 1
  /\ UNCHANGED <<used, block, dinode, contents, calls>>

Init ==
  /\ used = {} /\ block = [b \in Blocks |-> Zero]
  /\ dinode = [f \in Files |-> Empty] /\ inode = dinode
  /\ call = [f \in Files |-> Idle] /\ contents = [f \in Files |-> <<>>]
  /\ dead = [f \in Files |-> FALSE] /\ full = FALSE
  /\ calls = 0 /\ crashes = 0

Next ==
  \/ \E f \in Files :
       \/ \E off \in 0 .. inode[f].size : \E n \in Lens :
            Readi(f, off, n) \/ \E v \in Bytes : Writei(f, off, n, v)
       \/ BmapDirect(f) \/ BmapIndirect(f) \/ BmapEntry(f) \/ BmapWriteEntry(f)
       \/ WriteBlock(f) \/ ReadBlock(f) \/ ReadReturns(f) \/ Update(f)
       \/ Itrunc(f) \/ Bzero(f) \/ Bfree(f) \/ Truncated(f)
  \/ Crash

Spec == Init /\ [][Next]_vars

-----------------------------------------------------------------------------
Inode == [size : 0 .. MAXFILE * BSIZE, addrs : [0 .. NDIRECT -> 0 .. NBLOCKS]]

TypeOK ==
  /\ used \subseteq Blocks /\ block \in [Blocks -> [Cells -> Nat]]
  /\ inode \in [Files -> Inode] /\ dinode \in [Files -> Inode]
  /\ \A f \in Files : call[f].op \in {"none", "read", "write", "trunc"}
  /\ dead \in [Files -> BOOLEAN] /\ full \in BOOLEAN
  /\ calls \in 0 .. MaxCalls /\ crashes \in 0 .. MaxCrashes

Whole == {f \in Files : ~dead[f] /\ call[f].op # "trunc"}
Written(f) == call[f].op = "write"
After(f) == [k \in 1 .. Len(contents[f]) |->
  IF Written(f) /\ call[f].off < k /\ k <= call[f].off + call[f].tot THEN call[f].v ELSE contents[f][k]]

\* What a crash would leave of a file is what it had before the call, with
\* the bytes that the call has written so far: its size is that of before
\* until all bytes are on the disk (fs.c:446), and no pointer of the disk
\* inode leads astray in between.
DiskContents == \A f \in Whole :
  call[f].op # "none" => ContentsOf(dinode[f]) = After(f)

\* A read returns the bytes of the file, across the bounds of its blocks.
ReadExact == \A f \in Files : At(f, "return") =>
  call[f].got = SubSeq(contents[f], call[f].off + 1, call[f].off + call[f].n)

\* A read allocates nothing, although bmap does it for reads too (fs.c:412):
\* below the size there are no holes, also after a crash in a write.
ReadAllocatesNothing ==
  [][\A f \in Files : call[f].op = "read" => inode'[f] = inode[f] \/ crashes' # crashes]_vars

\* A written file has what was written at its place, and all that it had
\* before elsewhere.
WriteExact == [][\A f \in Files : Update(f) =>
  LET end == call[f].off + call[f].n
      k0  == Len(contents[f])
  IN ContentsOf(inode[f])' = [k \in 1 .. (IF end > k0 THEN end ELSE k0) |->
       IF call[f].off < k /\ k <= end THEN call[f].v ELSE contents[f][k]]]_vars

\* Between calls the disk has the inode that the cache has: writei, which
\* writes it only when the size grows (fs.c:446), never leaves a new block
\* behind that only the cache knows.
InodeOnDisk == \A f \in Files : call[f] = Idle => dinode[f] = inode[f]

\* Files share no block, nor do two places of one file, and their blocks are
\* marked; without a crash the bitmap marks no others.
Distinct(ip) == \A k, l \in Places : Slot(ip, k) = Slot(ip, l) => k = l \/ Slot(ip, k) = 0
BlocksOwned ==
  /\ \A f \in Whole : BlocksOf(inode[f]) \cup BlocksOf(dinode[f]) \subseteq used
  /\ \A f, g \in Whole : f # g => BlocksOf(inode[f]) \cap BlocksOf(inode[g]) = {}
  /\ \A f \in Whole : Distinct(inode[f])
  /\ crashes = 0 /\ (\A f \in Files : call[f] = Idle) =>
       used = UNION {BlocksOf(inode[f]) : f \in Files}

\* Free blocks are zero: bmap takes what a fresh indirect block contains for
\* pointers (fs.c:338), and balloc does not clear it.
FreeIsZero == \A b \in Blocks \ used : block[b] = Zero

-----------------------------------------------------------------------------
(***************************************************************************)
(* The inductive invariant.  Each used block is had by one file at most: a *)
(* file that is being freed has those still to free, and one that bmap has *)
(* just taken belongs to its file before the pointer to it is written.     *)
(***************************************************************************)
InCall(f) == call[f].op \in {"read", "write"}
Had(f) ==
  IF dead[f] THEN {}
  ELSE IF call[f].op = "trunc" THEN {call[f].left[k] : k \in Left(f)}
  ELSE BlocksOf(inode[f]) \cup (IF InCall(f) /\ call[f].pc = "entry" THEN {call[f].got[1]} ELSE {})

OwnerInv ==
  /\ \A f \in Files : Had(f) \subseteq used
  /\ \A f, g \in Files : f # g => Had(f) \cap Had(g) = {}
  /\ crashes = 0 => used = UNION {Had(f) : f \in Files}

(* The inode on the disk lacks pointers, but none below the size.          *)
InodeInv(f) ==
  /\ Distinct(inode[f])
  /\ dinode[f].size = inode[f].size
  /\ \A k \in 0 .. NDIRECT : dinode[f].addrs[k] \in {0, inode[f].addrs[k]}
  /\ \A x \in 0 .. inode[f].size - 1 : AddrOf(dinode[f], x \div BSIZE) # 0

Byte(ip, x) == ByteOf(AddrOf(ip, x \div BSIZE), x % BSIZE)

(* What a call has read or written so far, and what it has left alone.     *)
ReadInv(f) ==
  LET c == call[f] IN
  /\ c.off + c.n <= inode[f].size
  /\ Len(c.got) = c.tot /\ \A j \in 1 .. c.tot : c.got[j] = contents[f][c.off + j]
  /\ \A x \in 0 .. inode[f].size - 1 : Byte(inode[f], x) = contents[f][x + 1]

WriteInv(f) ==
  LET c == call[f] IN
  /\ \A x \in c.off .. c.off + c.tot - 1 :
       AddrOf(inode[f], x \div BSIZE) # 0 /\ Byte(inode[f], x) = c.v
  /\ \A x \in 0 .. inode[f].size - 1 :
       x < c.off \/ c.off + c.tot <= x => Byte(inode[f], x) = contents[f][x + 1]

PcInv(f) ==
  LET c == call[f] IN
  CASE c.pc = "bmap"   -> c.tot < c.n
    [] c.pc = "entry"  -> /\ c.tot < c.n /\ c.op = "write" /\ bn(f) >= NDIRECT
                          /\ Ind(inode[f]) # 0 /\ AddrOf(inode[f], bn(f)) = 0
                          /\ Len(c.got) = 1 /\ c.got[1] \in Blocks \ BlocksOf(inode[f])
    [] c.pc = "data"   -> c.tot < c.n /\ AddrOf(inode[f], bn(f)) # 0
    [] c.pc = "size"   -> c.tot = c.n /\ c.op = "write"
    [] c.pc = "return" -> c.tot = c.n /\ c.op = "read"

CallInv(f) ==
  /\ call[f] \in [op : {"read", "write"}, pc : {"bmap", "entry", "data", "size", "return"},
                  off : Nat, n : Nat \ {0}, v : Nat, tot : Nat, got : Seq(Nat)]
  /\ call[f].off <= inode[f].size /\ call[f].tot <= call[f].n
  /\ call[f].off + call[f].n <= MAXFILE * BSIZE
  /\ contents[f] \in [1 .. inode[f].size -> Nat]
  /\ call[f].off + call[f].n <= inode[f].size => dinode[f] = inode[f]
  /\ PcInv(f)
  /\ IF call[f].op = "read" THEN ReadInv(f) ELSE WriteInv(f)

TruncInv(f) ==
  LET c == call[f] IN
  /\ c = [op |-> "trunc", pc |-> c.pc, left |-> [k \in Left(f) |-> c.left[k]]]
  /\ c.pc \in {"bzero", "bfree"} /\ Left(f) \subseteq Places
  /\ \A k \in Left(f) : c.left[k] \in Blocks
  /\ \A k, l \in Left(f) : c.left[k] = c.left[l] => k = l
  /\ c.pc = "bfree" => Left(f) # {} /\ block[c.left[First(f)]] = Zero

FileInv(f) ==
  /\ dead[f] => call[f] = Idle /\ crashes # 0
  /\ call[f] = Idle => dinode[f] = inode[f]
  /\ f \in Whole => InodeInv(f)
  /\ InCall(f) => CallInv(f)
  /\ call[f].op = "trunc" => TruncInv(f)

IInv ==
  /\ TypeOK /\ DOMAIN call = Files /\ DOMAIN contents = Files
  /\ OwnerInv /\ FreeIsZero /\ \A f \in Files : FileInv(f)
=============================================================================
