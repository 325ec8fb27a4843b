------------------------------ MODULE Ext2Copy ------------------------------
(***************************************************************************)
(* How the P7 scanner (runscan.c) copies a picture out of an ext2 image:   *)
(* block by block through the direct, the indirect and the double indirect *)
(* pointers of its inode, until as many bytes as its size are written.     *)
(*                                                                         *)
(* A block stands for its contents and for what it is of: a place in the   *)
(* file, or something that is not data of the file.  The last read of each *)
(* loop is one pointer past its end.                                       *)
(***************************************************************************)
EXTENDS Naturals, Sequences

CONSTANTS
  BlockSize,   \* block_size
  NDIR,        \* EXT2_NDIR_BLOCKS
  PTRS         \* pointers in a block: block_size / 4

ConstantAssumptions == {BlockSize, NDIR, PTRS} \subseteq Nat \ {0}

VARIABLES
  size,       \* inode->i_size
  pc,
  buffer,     \* the block in buffer
  copied,     \* bytes_copied
  block_idx,
  outer,      \* outer_block_idx
  out         \* what has been written to the new file: <<block, bytes>>

vars == <<size, pc, buffer, copied, block_idx, outer, out>>

Places  == NDIR + PTRS + PTRS * PTRS
NotData == Places  \* no place of a file
Limit   == BlockSize * Places

(* What the pointers lead to: of the inode, of its indirect block, of the  *)
(* blocks that its double indirect block points to.                        *)
Direct(i) == IF i < NDIR THEN i ELSE NotData
Indirect(i) == IF i < PTRS THEN NDIR + i ELSE NotData
Double(o, i) == IF i < PTRS THEN NDIR + PTRS + o * PTRS + i ELSE NotData

(* The body of the three loops: as much of the buffer as is left, and the  *)
(* next block after a whole one.                                           *)
WriteLen == IF copied + BlockSize > size THEN size - copied ELSE BlockSize

WriteBlock(following) ==
  /\ out' = Append(out, <<buffer, WriteLen>>)
  /\ copied' = copied + WriteLen
  /\ IF WriteLen = BlockSize
     THEN block_idx' = block_idx + 1 /\ buffer' = following
     ELSE UNCHANGED <<block_idx, buffer>>

Left == copied < size

CopyDirect ==
  /\ pc = "direct" /\ Left /\ block_idx < NDIR
  /\ WriteBlock(Direct(block_idx + 1))
  /\ UNCHANGED <<size, pc, outer>>

\* Mutant: the index of the direct loop is kept.
ToIndirectKeeps ==
  /\ pc = "direct" /\ Left /\ block_idx >= NDIR
  /\ pc' = "indirect"
  /\ buffer' = Indirect(0)
  /\ UNCHANGED <<size, copied, block_idx, outer, out>>

ToIndirect ==
  /\ pc = "direct" /\ Left /\ block_idx >= NDIR
  /\ pc' = "indirect"
  /\ buffer' = Indirect(0) /\ block_idx' = 0
  /\ UNCHANGED <<size, copied, outer, out>>

CopyIndirect ==
  /\ pc = "indirect" /\ Left /\ block_idx < PTRS
  /\ WriteBlock(Indirect(block_idx + 1))
  /\ UNCHANGED <<size, pc, outer>>

ToDouble ==
  /\ pc = "indirect" /\ Left /\ block_idx >= PTRS
  /\ pc' = "outer"
  /\ outer' = 0
  /\ UNCHANGED <<size, buffer, copied, block_idx, out>>

NextOuter ==
  /\ pc = "outer" /\ Left /\ outer < PTRS
  /\ buffer' = Double(outer, 0) /\ block_idx' = 0
  /\ outer' = outer + 1
  /\ pc' = "double"
  /\ UNCHANGED <<size, copied, out>>

CopyDouble ==
  /\ pc = "double" /\ Left /\ block_idx < PTRS
  /\ WriteBlock(Double(outer - 1, block_idx + 1))
  /\ UNCHANGED <<size, pc, outer>>

EndDouble ==
  /\ pc = "double" /\ Left /\ block_idx >= PTRS
  /\ pc' = "outer"
  /\ UNCHANGED <<size, buffer, copied, block_idx, outer, out>>

Close ==
  /\ pc # "done" /\ (~Left \/ (pc = "outer" /\ outer >= PTRS))
  /\ pc' = "done"
  /\ UNCHANGED <<size, buffer, copied, block_idx, outer, out>>

(* The first block has been read, for its magic number.  Files may be      *)
(* larger than these pointers reach.                                       *)
Init ==
  /\ size \in 0 .. Limit + BlockSize
  /\ pc = "direct" /\ buffer = Direct(0)
  /\ copied = 0 /\ block_idx = 0 /\ outer = 0 /\ out = <<>>

Next ==
  \/ CopyDirect \/ ToIndirect \/ CopyIndirect \/ ToDouble
  \/ NextOuter \/ CopyDouble \/ EndDouble \/ Close

Spec == Init /\ [][Next]_vars

-----------------------------------------------------------------------------
TypeOK ==
  /\ size \in 0 .. Limit + BlockSize /\ copied \in 0 .. size
  /\ pc \in {"direct", "indirect", "outer", "double", "done"}
  /\ buffer \in 0 .. Places
  /\ block_idx \in Nat /\ outer \in 0 .. PTRS
  /\ out \in Seq((0 .. Places) \X Nat)

Blocks(s) == (s + BlockSize - 1) \div BlockSize
FileOf(s) == [b \in 1 .. Blocks(s) |->
  <<b - 1, IF b * BlockSize <= s THEN BlockSize ELSE s % BlockSize>>]

\* The copy is the picture: its blocks in the order of the file, none twice
\* and none left out at the seams of the three kinds of pointers, and exactly
\* i_size bytes, or all that the pointers reach (runscan.c:106).
CopyExact ==
  /\ out = SubSeq(FileOf(size), 1, Len(out))
  /\ pc = "done" => out = FileOf(IF size > Limit THEN Limit ELSE size)

-----------------------------------------------------------------------------
(***************************************************************************)
(* The inductive invariant: the blocks written are the file's first ones,  *)
(* and while there are bytes left the pointers are at the next one.        *)
(***************************************************************************)
NextBlock == Len(out)

AtNext ==
  \/ pc = "direct" /\ block_idx <= NDIR /\ NextBlock = block_idx /\ buffer = Direct(block_idx)
  \/ pc = "indirect" /\ block_idx <= PTRS /\ NextBlock = NDIR + block_idx /\ buffer = Indirect(block_idx)
  \/ pc = "outer" /\ NextBlock = NDIR + PTRS + outer * PTRS
  \/ /\ pc = "double" /\ outer >= 1 /\ block_idx <= PTRS
     /\ NextBlock = NDIR + PTRS + (outer - 1) * PTRS + block_idx
     /\ buffer = Double(outer - 1, block_idx)
  \/ pc = "done" /\ NextBlock = Places

InOrder == \A b \in 1 .. Len(out) :
  out[b] = <<b - 1, IF b * BlockSize <= size THEN BlockSize ELSE size % BlockSize>>

IInv ==
  /\ TypeOK /\ InOrder /\ NextBlock <= Places
  /\ IF Left THEN copied = NextBlock * BlockSize /\ AtNext
     ELSE size <= NextBlock * BlockSize /\ (NextBlock = 0 \/ (NextBlock - 1) * BlockSize < size)
=============================================================================
