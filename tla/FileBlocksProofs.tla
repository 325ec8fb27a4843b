-------------------------- MODULE FileBlocksProofs --------------------------
(***************************************************************************)
(* The blocks of files (P5, kernel/fs.c), which MCKernelParts puts beside  *)
(* other parts of the kernels, for blocks, disks and files of any size:    *)
(* files have the bytes written to them, whatever a crash interrupts, and  *)
(* blocks have one owner.                                                  *)
(***************************************************************************)
EXTENDS KernelPartsProofs

\* What FileBlocks assumes of its constants.
LEMMA DiskConstants ==
  /\ BSIZE \in Nat \ {0} /\ NDIRECT \in Nat /\ NBLOCKS \in Nat
  /\ Bytes \subseteq Nat \ {0} /\ Lens \subseteq Nat
  /\ MaxCalls \in Nat /\ MaxCrashes \in Nat
  /\ Disk!MAXFILE \in Nat \ {0} /\ Disk!MAXFILE = NDIRECT + BSIZE
BY PartsAssumptions DEF Disk!ConstantAssumptions, Disk!MAXFILE, Disk!NINDIRECT

(* The block of a byte, and its place in it.                               *)
NB(xx) == xx \div BSIZE
OB(xx) == xx % BSIZE

\* What they are.
LEMMA QuotientOf ==
  ASSUME NEW xx \in Nat
  PROVE  NB(xx) \in Nat /\ OB(xx) \in 0 .. BSIZE - 1 /\ xx = BSIZE * NB(xx) + OB(xx)
<1>1. \A zz \in Nat, bb \in Nat \ {0} : zz \div bb \in Nat
  OBVIOUS
<1>2. \A zz \in Nat, bb \in Nat \ {0} : zz % bb \in 0 .. bb - 1
  OBVIOUS
<1>3. \A zz \in Nat, bb \in Nat \ {0} : zz % bb = zz - (zz \div bb) * bb
  OBVIOUS
<1>4. BSIZE \in Nat \ {0}
  BY DiskConstants
<1>5. NB(xx) \in Nat /\ OB(xx) \in 0 .. BSIZE - 1
  BY <1>1, <1>2, <1>4 DEF NB, OB
<1>6. OB(xx) = xx - NB(xx) * BSIZE
  BY <1>3, <1>4 DEF NB, OB
<1>7. NB(xx) * BSIZE = BSIZE * NB(xx) /\ BSIZE * NB(xx) \in Nat
  BY <1>4, <1>5
<1> QED BY <1>5, <1>6, <1>7

\* Bytes up to the largest size have a block (fs.c:325, 332).
LEMMA BlockOfByte ==
  ASSUME NEW xx \in Nat
  PROVE  /\ NB(xx) \in Nat /\ OB(xx) \in Disk!Cells
         /\ xx < Disk!MAXFILE * BSIZE => NB(xx) \in 0 .. Disk!MAXFILE - 1
<1>2. NB(xx) \in Nat /\ OB(xx) \in 0 .. BSIZE - 1 /\ xx = BSIZE * NB(xx) + OB(xx)
  BY QuotientOf
<1>3. ASSUME xx < Disk!MAXFILE * BSIZE PROVE NB(xx) < Disk!MAXFILE
  <2> SUFFICES ASSUME NB(xx) >= Disk!MAXFILE PROVE FALSE
    BY <1>2, DiskConstants
  <2>1. \A aa, bb, cc \in Nat : aa <= bb => aa * cc <= cc * bb
    OBVIOUS
  <2>2. Disk!MAXFILE * BSIZE <= BSIZE * NB(xx)
    BY <2>1, <1>2, DiskConstants
  <2>3. Disk!MAXFILE * BSIZE \in Nat /\ BSIZE * NB(xx) \in Nat
    BY <1>2, DiskConstants
  <2> QED BY <1>2, <1>3, <2>2, <2>3
<1> QED BY <1>2, <1>3, DiskConstants DEF Disk!Cells

\* Bytes of one block are as far apart as their places in it.
LEMMA SameBlock ==
  ASSUME NEW xx \in Nat, NEW yy \in Nat, NB(xx) = NB(yy)
  PROVE  yy - xx = OB(yy) - OB(xx)
<1>2. /\ NB(xx) \in Nat /\ OB(xx) \in Nat /\ xx = BSIZE * NB(xx) + OB(xx)
      /\ NB(yy) \in Nat /\ OB(yy) \in Nat /\ yy = BSIZE * NB(yy) + OB(yy)
  BY QuotientOf
<1>3. BSIZE * NB(xx) \in Nat /\ BSIZE * NB(yy) = BSIZE * NB(xx)
  BY <1>2, DiskConstants
<1> QED BY <1>2, <1>3

\* The bytes that follow one in its block (fs.c:440).
LEMMA BytesAfter ==
  ASSUME NEW xx \in Nat, NEW dd \in Nat, OB(xx) + dd < BSIZE
  PROVE  NB(xx + dd) = NB(xx) /\ OB(xx + dd) = OB(xx) + dd
<1>2. /\ NB(xx) \in Nat /\ OB(xx) \in 0 .. BSIZE - 1 /\ xx = BSIZE * NB(xx) + OB(xx)
      /\ NB(xx + dd) \in Nat /\ OB(xx + dd) \in 0 .. BSIZE - 1 /\ xx + dd = BSIZE * NB(xx + dd) + OB(xx + dd)
  BY QuotientOf
<1>3. \A aa, bb, cc \in Nat : aa < bb => cc * bb >= cc * aa + cc
  <2> SUFFICES ASSUME NEW aa \in Nat, NEW bb \in Nat, NEW cc \in Nat, aa < bb PROVE cc * bb >= cc * aa + cc
    OBVIOUS
  <2>1. bb - (aa + 1) \in Nat /\ bb = (aa + 1) + (bb - (aa + 1))
    OBVIOUS
  <2>2. cc * (bb - (aa + 1)) \in Nat
    BY <2>1
  <2>3. cc * bb = cc * (aa + 1) + cc * (bb - (aa + 1))
    BY <2>1
  <2> QED BY <2>2, <2>3
<1>4. BSIZE * NB(xx) \in Nat /\ BSIZE * NB(xx + dd) \in Nat
  BY <1>2, DiskConstants
<1>5. ~(NB(xx) < NB(xx + dd))
  <2> SUFFICES ASSUME NB(xx) < NB(xx + dd) PROVE FALSE
    OBVIOUS
  <2>1. BSIZE * NB(xx + dd) >= BSIZE * NB(xx) + BSIZE
    BY <1>2, <1>3, DiskConstants
  <2> QED BY <2>1, <1>2, <1>4, DiskConstants
<1>6. ~(NB(xx + dd) < NB(xx))
  <2> SUFFICES ASSUME NB(xx + dd) < NB(xx) PROVE FALSE
    OBVIOUS
  <2>1. BSIZE * NB(xx) >= BSIZE * NB(xx + dd) + BSIZE
    BY <1>2, <1>3, DiskConstants
  <2> QED BY <2>1, <1>2, <1>4, DiskConstants
<1>7. NB(xx + dd) = NB(xx)
  BY <1>2, <1>5, <1>6
<1>8. BSIZE * NB(xx + dd) = BSIZE * NB(xx)
  BY <1>7
<1> QED BY <1>2, <1>4, <1>7, <1>8, DiskConstants

(***************************************************************************)
(* FileBlocks' operators and its invariant for one file, as functions of   *)
(* the file's part of the state: its inode ip in the cache and dp on the   *)
(* disk, its call cc, the contents ct from before the call, the marks dd   *)
(* and cr, and the blocks bl.                                              *)
(***************************************************************************)
Adr(ip, bl, kk) == IF kk < NDIRECT THEN ip.addrs[kk]
                   ELSE IF ip.addrs[NDIRECT] = 0 THEN 0 ELSE bl[ip.addrs[NDIRECT]][kk - NDIRECT]
Ptr(ip, bl, kk) == IF kk = Disk!MAXFILE THEN ip.addrs[NDIRECT] ELSE Adr(ip, bl, kk)
Blks(ip, bl)    == {Ptr(ip, bl, kk) : kk \in Disk!Places} \ {0}
Byt(ip, bl, xx) == IF Adr(ip, bl, NB(xx)) = 0 THEN 0 ELSE bl[Adr(ip, bl, NB(xx))][OB(xx)]
Dst(ip, bl) ==
  \A kk, ll \in Disk!Places : Ptr(ip, bl, kk) = Ptr(ip, bl, ll) => kk = ll \/ Ptr(ip, bl, kk) = 0

Lacks(dp, ip) == dp.size = ip.size /\ \A kk \in 0 .. NDIRECT : dp.addrs[kk] \in {0, ip.addrs[kk]}
Filled(dp, bl, sz) == \A xx \in 0 .. sz - 1 : Adr(dp, bl, NB(xx)) # 0
InodeOk(ip, dp, bl) == Dst(ip, bl) /\ Lacks(dp, ip) /\ Filled(dp, bl, ip.size)

ReadOk(ip, bl, cc, ct) ==
  /\ cc.off + cc.n <= ip.size
  /\ Len(cc.got) = cc.tot /\ \A jj \in 1 .. cc.tot : cc.got[jj] = ct[cc.off + jj]
  /\ \A xx \in 0 .. ip.size - 1 : Byt(ip, bl, xx) = ct[xx + 1]

WriteOk(ip, bl, cc, ct) ==
  /\ \A xx \in cc.off .. cc.off + cc.tot - 1 : Adr(ip, bl, NB(xx)) # 0 /\ Byt(ip, bl, xx) = cc.v
  /\ \A xx \in 0 .. ip.size - 1 :
       xx < cc.off \/ cc.off + cc.tot <= xx => Byt(ip, bl, xx) = ct[xx + 1]

Cur(cc) == NB(cc.off + cc.tot)
PcOk(ip, bl, cc) ==
  CASE cc.pc = "bmap"   -> cc.tot < cc.n
    [] cc.pc = "entry"  -> /\ cc.tot < cc.n /\ cc.op = "write" /\ Cur(cc) >= NDIRECT
                           /\ ip.addrs[NDIRECT] # 0 /\ Adr(ip, bl, Cur(cc)) = 0
                           /\ Len(cc.got) = 1 /\ cc.got[1] \in Disk!Blocks \ Blks(ip, bl)
    [] cc.pc = "data"   -> cc.tot < cc.n /\ Adr(ip, bl, Cur(cc)) # 0
    [] cc.pc = "size"   -> cc.tot = cc.n /\ cc.op = "write"
    [] cc.pc = "return" -> cc.tot = cc.n /\ cc.op = "read"

Calls == [op : {"read", "write"}, pc : {"bmap", "entry", "data", "size", "return"},
          off : Nat, n : Nat \ {0}, v : Nat, tot : Nat, got : Seq(Nat)]

CallOk(ip, dp, bl, cc, ct) ==
  /\ cc \in Calls
  /\ cc.off <= ip.size /\ cc.tot <= cc.n /\ cc.off + cc.n <= Disk!MAXFILE * BSIZE
  /\ ct \in [1 .. ip.size -> Nat]
  /\ cc.off + cc.n <= ip.size => dp = ip
  /\ PcOk(ip, bl, cc)
  /\ IF cc.op = "read" THEN ReadOk(ip, bl, cc, ct) ELSE WriteOk(ip, bl, cc, ct)

Head1(cc) == Disk!Lowest(DOMAIN cc.left)
TruncOk(cc, bl) ==
  /\ cc = [op |-> "trunc", pc |-> cc.pc, left |-> [kk \in DOMAIN cc.left |-> cc.left[kk]]]
  /\ cc.pc \in {"bzero", "bfree"} /\ DOMAIN cc.left \subseteq Disk!Places
  /\ \A kk \in DOMAIN cc.left : cc.left[kk] \in Disk!Blocks
  /\ \A kk, ll \in DOMAIN cc.left : cc.left[kk] = cc.left[ll] => kk = ll
  /\ cc.pc = "bfree" => DOMAIN cc.left # {} /\ bl[cc.left[Head1(cc)]] = Disk!Zero

FileOk(ip, dp, cc, ct, dd, cr, bl) ==
  /\ dd => cc = Disk!Idle /\ cr # 0
  /\ cc = Disk!Idle => dp = ip
  /\ ~dd /\ cc.op # "trunc" => InodeOk(ip, dp, bl)
  /\ cc.op \in {"read", "write"} => CallOk(ip, dp, bl, cc, ct)
  /\ cc.op = "trunc" => TruncOk(cc, bl)

HadOf(ip, cc, dd, bl) ==
  IF dd THEN {}
  ELSE IF cc.op = "trunc" THEN {cc.left[kk] : kk \in DOMAIN cc.left}
  ELSE Blks(ip, bl)
         \cup (IF cc.op \in {"read", "write"} /\ cc.pc = "entry" THEN {cc.got[1]} ELSE {})

\* They are FileBlocks' own, before a step.
LEMMA FileIs ==
  ASSUME NEW f \in Inodes
  PROVE  /\ Disk!FileInv(f) <=> FileOk(inode[f], dinode[f], call[f], contents[f], dead[f], crashes, block)
         /\ Disk!Had(f) = HadOf(inode[f], call[f], dead[f], block)
         /\ \A ip, kk : Disk!AddrOf(ip, kk) = Adr(ip, block, kk) /\ Disk!Slot(ip, kk) = Ptr(ip, block, kk)
         /\ \A ip : Disk!BlocksOf(ip) = Blks(ip, block)
         /\ Disk!bn(f) = Cur(call[f])
<1>1. /\ \A ip, kk : Disk!AddrOf(ip, kk) = Adr(ip, block, kk)
      /\ \A ip, kk : Disk!Slot(ip, kk) = Ptr(ip, block, kk)
  BY DEF Disk!AddrOf, Disk!Slot, Disk!Ind, Adr, Ptr
<1>2. /\ \A ip : Disk!BlocksOf(ip) = Blks(ip, block)
      /\ \A ip : Disk!Distinct(ip) <=> Dst(ip, block)
  BY <1>1 DEF Disk!BlocksOf, Blks, Disk!Distinct, Dst
<1>3. \A ip, xx : Disk!Byte(ip, xx) = Byt(ip, block, xx)
  BY <1>1 DEF Disk!Byte, Disk!ByteOf, Byt, NB, OB
<1>4. Disk!bn(f) = Cur(call[f])
  BY DEF Disk!bn, Cur, NB
<1>5. Disk!InodeInv(f) <=> InodeOk(inode[f], dinode[f], block)
  BY <1>1, <1>2 DEF Disk!InodeInv, InodeOk, Lacks, Filled, NB
<1>6. Disk!ReadInv(f) <=> ReadOk(inode[f], block, call[f], contents[f])
  BY <1>3 DEF Disk!ReadInv, ReadOk
<1>7. Disk!WriteInv(f) <=> WriteOk(inode[f], block, call[f], contents[f])
  BY <1>1, <1>3 DEF Disk!WriteInv, WriteOk, NB
<1>8. Disk!PcInv(f) <=> PcOk(inode[f], block, call[f])
  BY <1>1, <1>2, <1>4 DEF Disk!PcInv, PcOk, Disk!Ind
<1>9. Disk!CallInv(f) <=> CallOk(inode[f], dinode[f], block, call[f], contents[f])
  BY <1>6, <1>7, <1>8 DEF Disk!CallInv, CallOk, Calls
<1>10. Disk!TruncInv(f) <=> TruncOk(call[f], block)
  BY DEF Disk!TruncInv, TruncOk, Disk!Left, Disk!First, Head1
<1>11. Disk!FileInv(f) <=> FileOk(inode[f], dinode[f], call[f], contents[f], dead[f], crashes, block)
  BY <1>5, <1>9, <1>10 DEF Disk!FileInv, FileOk, Disk!InCall, Disk!Whole
<1>12. Disk!Had(f) = HadOf(inode[f], call[f], dead[f], block)
  BY <1>2 DEF Disk!Had, HadOf, Disk!InCall, Disk!Left
<1> QED BY <1>1, <1>2, <1>4, <1>11, <1>12

\* And after it.
LEMMA FileIsThen ==
  ASSUME NEW f \in Inodes
  PROVE  /\ Disk!FileInv(f)' <=> FileOk(inode'[f], dinode'[f], call'[f], contents'[f], dead'[f], crashes', block')
         /\ Disk!Had(f)' = HadOf(inode'[f], call'[f], dead'[f], block')
         /\ \A ip, kk : Disk!AddrOf(ip, kk)' = Adr(ip, block', kk) /\ Disk!Slot(ip, kk)' = Ptr(ip, block', kk)
         /\ \A ip : Disk!BlocksOf(ip)' = Blks(ip, block')
         /\ Disk!bn(f)' = Cur(call'[f])
<1>1. /\ \A ip, kk : Disk!AddrOf(ip, kk)' = Adr(ip, block', kk)
      /\ \A ip, kk : Disk!Slot(ip, kk)' = Ptr(ip, block', kk)
  BY DEF Disk!AddrOf, Disk!Slot, Disk!Ind, Adr, Ptr
<1>2. /\ \A ip : Disk!BlocksOf(ip)' = Blks(ip, block')
      /\ \A ip : Disk!Distinct(ip)' <=> Dst(ip, block')
  BY <1>1 DEF Disk!BlocksOf, Blks, Disk!Distinct, Dst
<1>3. \A ip, xx : Disk!Byte(ip, xx)' = Byt(ip, block', xx)
  BY <1>1 DEF Disk!Byte, Disk!ByteOf, Byt, NB, OB
<1>4. Disk!bn(f)' = Cur(call'[f])
  BY DEF Disk!bn, Cur, NB
<1>5. Disk!InodeInv(f)' <=> InodeOk(inode'[f], dinode'[f], block')
  BY <1>1, <1>2 DEF Disk!InodeInv, InodeOk, Lacks, Filled, NB
<1>6. Disk!ReadInv(f)' <=> ReadOk(inode'[f], block', call'[f], contents'[f])
  BY <1>3 DEF Disk!ReadInv, ReadOk
<1>7. Disk!WriteInv(f)' <=> WriteOk(inode'[f], block', call'[f], contents'[f])
  BY <1>1, <1>3 DEF Disk!WriteInv, WriteOk, NB
<1>8. Disk!PcInv(f)' <=> PcOk(inode'[f], block', call'[f])
  BY <1>1, <1>2, <1>4 DEF Disk!PcInv, PcOk, Disk!Ind
<1>9. Disk!CallInv(f)' <=> CallOk(inode'[f], dinode'[f], block', call'[f], contents'[f])
  BY <1>6, <1>7, <1>8 DEF Disk!CallInv, CallOk, Calls
<1>10. Disk!TruncInv(f)' <=> TruncOk(call'[f], block')
  BY DEF Disk!TruncInv, TruncOk, Disk!Left, Disk!First, Head1
<1>11. Disk!FileInv(f)' <=> FileOk(inode'[f], dinode'[f], call'[f], contents'[f], dead'[f], crashes', block')
  BY <1>5, <1>9, <1>10 DEF Disk!FileInv, FileOk, Disk!InCall, Disk!Whole
<1>12. Disk!Had(f)' = HadOf(inode'[f], call'[f], dead'[f], block')
  BY <1>2 DEF Disk!Had, HadOf, Disk!InCall, Disk!Left
<1> QED BY <1>1, <1>2, <1>4, <1>11, <1>12

\* Pointers are where the blocks are.
LEMMA PlacesAre ==
  /\ \A kk \in Disk!Places : kk = Disk!MAXFILE \/ kk \in 0 .. Disk!MAXFILE - 1
  /\ \A kk \in 0 .. Disk!MAXFILE - 1 : kk \in Disk!Places /\ kk # Disk!MAXFILE
  /\ Disk!MAXFILE \in Disk!Places
  /\ \A ip, bl : Ptr(ip, bl, Disk!MAXFILE) = ip.addrs[NDIRECT]
  /\ \A ip, bl : \A kk \in 0 .. Disk!MAXFILE - 1 : Ptr(ip, bl, kk) = Adr(ip, bl, kk)
BY DiskConstants DEF Disk!Places, Ptr

\* Of a file's blocks each is at a place.
LEMMA InBlks ==
  ASSUME NEW ip, NEW bl
  PROVE  /\ \A kk \in Disk!Places : Ptr(ip, bl, kk) # 0 => Ptr(ip, bl, kk) \in Blks(ip, bl)
         /\ \A kk \in 0 .. Disk!MAXFILE - 1 : Adr(ip, bl, kk) # 0 => Adr(ip, bl, kk) \in Blks(ip, bl)
         /\ ip.addrs[NDIRECT] # 0 => ip.addrs[NDIRECT] \in Blks(ip, bl)
         /\ \A bb \in Blks(ip, bl) : bb # 0 /\ \E kk \in Disk!Places : bb = Ptr(ip, bl, kk)
<1>1. \A kk \in Disk!Places : Ptr(ip, bl, kk) # 0 => Ptr(ip, bl, kk) \in Blks(ip, bl)
  BY DEF Blks
<1>2. \A bb \in Blks(ip, bl) : bb # 0 /\ \E kk \in Disk!Places : bb = Ptr(ip, bl, kk)
  BY DEF Blks
<1> QED BY <1>1, <1>2, PlacesAre

\* The pointers of a file depend on its own blocks only.
LEMMA SamePtrs ==
  ASSUME NEW ip, NEW bl, NEW bm, \A bb \in Blks(ip, bl) : bm[bb] = bl[bb]
  PROVE  /\ \A kk \in Disk!Places : Ptr(ip, bm, kk) = Ptr(ip, bl, kk)
         /\ \A kk \in 0 .. Disk!MAXFILE - 1 : Adr(ip, bm, kk) = Adr(ip, bl, kk)
         /\ Blks(ip, bm) = Blks(ip, bl) /\ (Dst(ip, bm) <=> Dst(ip, bl))
<1>1. ip.addrs[NDIRECT] # 0 => bm[ip.addrs[NDIRECT]] = bl[ip.addrs[NDIRECT]]
  BY InBlks
<1>2. \A kk : Adr(ip, bm, kk) = Adr(ip, bl, kk)
  BY <1>1 DEF Adr
<1>3. \A kk : Ptr(ip, bm, kk) = Ptr(ip, bl, kk)
  BY <1>2 DEF Ptr
<1> QED BY <1>2, <1>3 DEF Blks, Dst

\* What the disk's inode lacks are pointers; those it has are the cached one's.
LEMMA LackPtrs ==
  ASSUME NEW ip, NEW dp, NEW bl, Lacks(dp, ip)
  PROVE  /\ \A kk \in 0 .. Disk!MAXFILE - 1 : Adr(dp, bl, kk) \in {0, Adr(ip, bl, kk)}
         /\ \A kk \in Disk!Places : Ptr(dp, bl, kk) \in {0, Ptr(ip, bl, kk)}
         /\ Blks(dp, bl) \subseteq Blks(ip, bl) /\ (Dst(ip, bl) => Dst(dp, bl))
<1>1. \A kk \in 0 .. NDIRECT : dp.addrs[kk] \in {0, ip.addrs[kk]}
  BY DEF Lacks
<1>2. dp.addrs[NDIRECT] \in {0, ip.addrs[NDIRECT]}
  BY <1>1, DiskConstants
<1>3. \A kk \in 0 .. Disk!MAXFILE - 1 : Adr(dp, bl, kk) \in {0, Adr(ip, bl, kk)}
  <2> TAKE kk \in 0 .. Disk!MAXFILE - 1
  <2>1. kk < NDIRECT => kk \in 0 .. NDIRECT
    BY DiskConstants
  <2> QED BY <2>1, <1>1, <1>2 DEF Adr
<1>4. \A kk \in Disk!Places : Ptr(dp, bl, kk) \in {0, Ptr(ip, bl, kk)}
  BY <1>2, <1>3, PlacesAre
<1>5. Blks(dp, bl) \subseteq Blks(ip, bl)
  BY <1>4 DEF Blks
<1>6. Dst(ip, bl) => Dst(dp, bl)
  BY <1>4 DEF Dst
<1> QED BY <1>3, <1>4, <1>5, <1>6

\* The bytes up to the size have a block.
LEMMA SizeBlocks ==
  ASSUME NEW ip \in Disk!Inode
  PROVE  /\ ip.size \in Nat /\ ip.size <= Disk!MAXFILE * BSIZE /\ Disk!MAXFILE * BSIZE \in Nat
         /\ \A xx \in 0 .. ip.size - 1 : NB(xx) \in 0 .. Disk!MAXFILE - 1 /\ OB(xx) \in Disk!Cells
         /\ \A kk \in 0 .. NDIRECT : ip.addrs[kk] \in 0 .. NBLOCKS
<1>1. Disk!MAXFILE * BSIZE \in Nat
  BY DiskConstants
<1>2. ip.size \in 0 .. Disk!MAXFILE * BSIZE /\ ip.addrs \in [0 .. NDIRECT -> 0 .. NBLOCKS]
  BY DEF Disk!Inode
<1>3. \A xx \in 0 .. ip.size - 1 : xx \in Nat /\ xx < Disk!MAXFILE * BSIZE
  BY <1>1, <1>2
<1>4. \A xx \in 0 .. ip.size - 1 : NB(xx) \in 0 .. Disk!MAXFILE - 1 /\ OB(xx) \in Disk!Cells
  BY <1>3, BlockOfByte
<1>5. \A kk \in 0 .. NDIRECT : ip.addrs[kk] \in 0 .. NBLOCKS
  BY <1>2
<1>6. ip.size \in Nat /\ ip.size <= Disk!MAXFILE * BSIZE
  BY <1>1, <1>2
<1> QED BY <1>1, <1>4, <1>5, <1>6

\* So have those up to where a call is.
LEMMA CallBlocks ==
  ASSUME NEW cc \in Calls, cc.tot <= cc.n, cc.off + cc.n <= Disk!MAXFILE * BSIZE
  PROVE  /\ \A xx \in 0 .. cc.off + cc.n - 1 : NB(xx) \in 0 .. Disk!MAXFILE - 1 /\ OB(xx) \in Disk!Cells
         /\ \A xx \in cc.off .. cc.off + cc.tot - 1 : xx \in 0 .. cc.off + cc.n - 1
         /\ cc.tot < cc.n => Cur(cc) \in 0 .. Disk!MAXFILE - 1 /\ OB(cc.off + cc.tot) \in Disk!Cells
<1>1. Disk!MAXFILE * BSIZE \in Nat
  BY DiskConstants
<1>2. cc.off \in Nat /\ cc.tot \in Nat /\ cc.n \in Nat
  BY DEF Calls
<1>3. \A xx \in 0 .. cc.off + cc.n - 1 : xx \in Nat /\ xx < Disk!MAXFILE * BSIZE
  BY <1>1, <1>2
<1>4. \A xx \in 0 .. cc.off + cc.n - 1 : NB(xx) \in 0 .. Disk!MAXFILE - 1 /\ OB(xx) \in Disk!Cells
  BY <1>3, BlockOfByte
<1>5. cc.tot < cc.n => cc.off + cc.tot \in 0 .. cc.off + cc.n - 1
  BY <1>2
<1> QED BY <1>2, <1>4, <1>5 DEF Cur

\* So does what a file has at a byte.
LEMMA SameBytes ==
  ASSUME NEW ip, NEW bl, NEW bm, \A bb \in Blks(ip, bl) : bm[bb] = bl[bb]
  PROVE  \A xx : NB(xx) \in 0 .. Disk!MAXFILE - 1 => Byt(ip, bm, xx) = Byt(ip, bl, xx)
<1>1. \A kk \in 0 .. Disk!MAXFILE - 1 : Adr(ip, bm, kk) = Adr(ip, bl, kk)
  BY SamePtrs
<1>2. \A kk \in 0 .. Disk!MAXFILE - 1 : Adr(ip, bl, kk) # 0 => bm[Adr(ip, bl, kk)] = bl[Adr(ip, bl, kk)]
  BY InBlks
<1> QED BY <1>1, <1>2 DEF Byt

\* A file stays as it is while others change their blocks.
LEMMA OthersStay ==
  ASSUME NEW ip \in Disk!Inode, NEW dp \in Disk!Inode, NEW cc, NEW ct, NEW dd, NEW cr, NEW bl, NEW bm,
         FileOk(ip, dp, cc, ct, dd, cr, bl),
         \A bb \in HadOf(ip, cc, dd, bl) : bm[bb] = bl[bb]
  PROVE  FileOk(ip, dp, cc, ct, dd, cr, bm) /\ HadOf(ip, cc, dd, bm) = HadOf(ip, cc, dd, bl)
<1>1. CASE ~dd /\ cc.op # "trunc"
  <2>1. \A bb \in Blks(ip, bl) : bm[bb] = bl[bb]
    BY <1>1 DEF HadOf
  <2>2. HadOf(ip, cc, dd, bm) = HadOf(ip, cc, dd, bl)
    BY <2>1, <1>1, SamePtrs DEF HadOf
  <2>3. InodeOk(ip, dp, bl)
    BY <1>1 DEF FileOk
  <2>4. \A bb \in Blks(dp, bl) : bm[bb] = bl[bb]
    BY <2>1, <2>3, LackPtrs DEF InodeOk
  <2>5. Dst(ip, bm) /\ Filled(dp, bm, ip.size)
    <3>1. dp.size = ip.size
      BY <2>3 DEF InodeOk, Lacks
    <3>2. \A xx \in 0 .. ip.size - 1 : Adr(dp, bm, NB(xx)) = Adr(dp, bl, NB(xx))
      <4>1. \A kk \in 0 .. Disk!MAXFILE - 1 : Adr(dp, bm, kk) = Adr(dp, bl, kk)
        BY <2>4, SamePtrs
      <4> QED BY <4>1, SizeBlocks
    <3> QED BY <2>1, <2>3, <3>2, SamePtrs DEF InodeOk, Filled
  <2>6. InodeOk(ip, dp, bm)
    BY <2>3, <2>5 DEF InodeOk
  <2>7. ASSUME cc.op \in {"read", "write"} PROVE CallOk(ip, dp, bm, cc, ct)
    <3>1. CallOk(ip, dp, bl, cc, ct)
      BY <2>7 DEF FileOk
    <3>2. cc \in Calls /\ cc.tot <= cc.n /\ cc.off + cc.n <= Disk!MAXFILE * BSIZE
      BY <3>1 DEF CallOk
    <3>a. \A kk \in 0 .. Disk!MAXFILE - 1 : Adr(ip, bm, kk) = Adr(ip, bl, kk)
      BY <2>1, SamePtrs
    <3>3. PcOk(ip, bm, cc)
      <4>1. cc.tot < cc.n => Adr(ip, bm, Cur(cc)) = Adr(ip, bl, Cur(cc))
        BY <3>a, <3>2, CallBlocks
      <4>2. Blks(ip, bm) = Blks(ip, bl)
        BY <2>1, SamePtrs
      <4>3. PcOk(ip, bl, cc) /\ cc.pc \in {"bmap", "entry", "data", "size", "return"}
        BY <3>1, <3>2 DEF CallOk, Calls
      <4> QED BY <4>1, <4>2, <4>3 DEF PcOk
    <3>4. \A xx \in 0 .. ip.size - 1 : Byt(ip, bm, xx) = Byt(ip, bl, xx)
      BY <2>1, SameBytes, SizeBlocks
    <3>5. \A xx \in cc.off .. cc.off + cc.tot - 1 :
             Byt(ip, bm, xx) = Byt(ip, bl, xx) /\ Adr(ip, bm, NB(xx)) = Adr(ip, bl, NB(xx))
      <4>1. \A xx \in cc.off .. cc.off + cc.tot - 1 : NB(xx) \in 0 .. Disk!MAXFILE - 1
        BY <3>2, CallBlocks
      <4> QED BY <4>1, <2>1, <3>a, SameBytes
    <3>6. ReadOk(ip, bl, cc, ct) => ReadOk(ip, bm, cc, ct)
      BY <3>4 DEF ReadOk
    <3>7. WriteOk(ip, bl, cc, ct) => WriteOk(ip, bm, cc, ct)
      BY <3>4, <3>5 DEF WriteOk
    <3> QED BY <3>1, <3>3, <3>6, <3>7 DEF CallOk
  <2> QED BY <1>1, <2>2, <2>6, <2>7 DEF FileOk
<1>2. CASE dd
  <2>1. cc = Disk!Idle
    BY <1>2 DEF FileOk
  <2>2. cc.op = "none"
    BY <2>1 DEF Disk!Idle
  <2> QED BY <1>2, <2>2 DEF FileOk, HadOf
<1>3. CASE ~dd /\ cc.op = "trunc"
  <2>1. TruncOk(cc, bl)
    BY <1>3 DEF FileOk
  <2>2. HadOf(ip, cc, dd, bm) = HadOf(ip, cc, dd, bl)
    BY <1>3 DEF HadOf
  <2>3. TruncOk(cc, bm)
    <3>1. ASSUME cc.pc = "bfree" PROVE bm[cc.left[Head1(cc)]] = bl[cc.left[Head1(cc)]]
      <4>1. DOMAIN cc.left \in SUBSET Nat /\ DOMAIN cc.left # {}
        BY <2>1, <3>1, DiskConstants DEF TruncOk, Disk!Places
      <4>2. Head1(cc) \in DOMAIN cc.left
        BY <4>1, Least DEF Head1, Disk!Lowest
      <4>3. cc.left[Head1(cc)] \in HadOf(ip, cc, dd, bl)
        BY <1>3, <4>2 DEF HadOf
      <4> QED BY <4>3
    <3> QED BY <2>1, <3>1 DEF TruncOk
  <2> QED BY <1>3, <2>2, <2>3 DEF FileOk
<1> QED BY <1>1, <1>2, <1>3

(* A step of one file: the others stay, no block that another has changes, *)
(* its own change hands with the bitmap, and what it gives up is zero.     *)
Stays(g) ==
  /\ inode'[g] = inode[g] /\ dinode'[g] = dinode[g]
  /\ call'[g] = call[g] /\ contents'[g] = contents[g] /\ dead'[g] = dead[g]
HadBy(f)     == HadOf(inode[f], call[f], dead[f], block)
HadByThen(f) == HadOf(inode'[f], call'[f], dead'[f], block')
Trades(f) ==
  /\ HadByThen(f) \subseteq HadBy(f) \cup (Disk!Blocks \ used)
  /\ used' = (used \ HadBy(f)) \cup HadByThen(f)
  /\ \A bb : bb \notin HadBy(f) => block'[bb] = block[bb]
  /\ \A bb \in HadBy(f) \ HadByThen(f) : block'[bb] = Disk!Zero
Is(f) == FileOk(inode[f], dinode[f], call[f], contents[f], dead[f], crashes, block)
IsThen(f) == FileOk(inode'[f], dinode'[f], call'[f], contents'[f], dead'[f], crashes', block')

\* The invariant, taken apart.
LEMMA DiskFacts ==
  ASSUME Disk!IInv
  PROVE  /\ \A g \in Inodes : Is(g) /\ HadBy(g) \subseteq used /\ inode[g] \in Disk!Inode /\ dinode[g] \in Disk!Inode
         /\ \A g, h \in Inodes : g # h => HadBy(g) \cap HadBy(h) = {}
         /\ used \subseteq Disk!Blocks
         /\ crashes = 0 => used = UNION {HadBy(g) : g \in Inodes}
<1>1. \A g \in Inodes : (Disk!FileInv(g) <=> Is(g)) /\ Disk!Had(g) = HadBy(g)
  BY FileIs DEF Is, HadBy
<1>2. \A g \in Inodes : inode[g] \in Disk!Inode /\ dinode[g] \in Disk!Inode
  BY DEF Disk!IInv, Disk!TypeOK
<1>3. used \subseteq Disk!Blocks
  BY DEF Disk!IInv, Disk!TypeOK
<1>4. \A g \in Inodes : Is(g) /\ HadBy(g) \subseteq used
  BY <1>1 DEF Disk!IInv, Disk!OwnerInv
<1>5. \A g, h \in Inodes : g # h => HadBy(g) \cap HadBy(h) = {}
  BY <1>1 DEF Disk!IInv, Disk!OwnerInv
<1>6. crashes = 0 => used = UNION {HadBy(g) : g \in Inodes}
  <2>1. {HadBy(g) : g \in Inodes} = {Disk!Had(g) : g \in Inodes}
    BY <1>1
  <2> QED BY <2>1 DEF Disk!IInv, Disk!OwnerInv
<1> QED BY <1>2, <1>3, <1>4, <1>5, <1>6

\* And put together again.
LEMMA DiskFrom ==
  ASSUME Disk!TypeOK', DOMAIN call' = Inodes, DOMAIN contents' = Inodes,
         \A g \in Inodes : IsThen(g) /\ HadByThen(g) \subseteq used',
         \A g, h \in Inodes : g # h => HadByThen(g) \cap HadByThen(h) = {},
         crashes' = 0 => used' = UNION {HadByThen(g) : g \in Inodes},
         \A bb \in Disk!Blocks \ used' : block'[bb] = Disk!Zero
  PROVE  Disk!IInv'
<1>1. \A g \in Inodes : (Disk!FileInv(g)' <=> IsThen(g)) /\ Disk!Had(g)' = HadByThen(g)
  BY FileIsThen DEF IsThen, HadByThen
<1>2. {HadByThen(g) : g \in Inodes} = {Disk!Had(g)' : g \in Inodes}
  BY <1>1
<1>3. crashes' = 0 => used' = UNION {Disk!Had(g)' : g \in Inodes}
  BY <1>2
<1>4. Disk!OwnerInv'
  BY <1>1, <1>3 DEF Disk!OwnerInv
<1>5. Disk!FreeIsZero'
  BY DEF Disk!FreeIsZero, Disk!Blocks, Disk!Zero, Disk!Cells
<1>6. \A g \in Inodes : Disk!FileInv(g)'
  BY <1>1
<1> QED BY <1>4, <1>5, <1>6 DEF Disk!IInv

\* A step of one file keeps what the others rely on.
LEMMA OneFile ==
  ASSUME Disk!IInv, NEW f \in Inodes, Disk!TypeOK', DOMAIN call' = Inodes, DOMAIN contents' = Inodes,
         crashes' = crashes, \A g \in Inodes \ {f} : Stays(g), IsThen(f), Trades(f)
  PROVE  Disk!IInv'
<1>1. /\ \A g \in Inodes : Is(g) /\ HadBy(g) \subseteq used /\ inode[g] \in Disk!Inode /\ dinode[g] \in Disk!Inode
      /\ \A g, h \in Inodes : g # h => HadBy(g) \cap HadBy(h) = {}
      /\ used \subseteq Disk!Blocks
      /\ crashes = 0 => used = UNION {HadBy(g) : g \in Inodes}
  BY DiskFacts
<1>2. /\ HadByThen(f) \subseteq HadBy(f) \cup (Disk!Blocks \ used)
      /\ used' = (used \ HadBy(f)) \cup HadByThen(f)
      /\ \A bb : bb \notin HadBy(f) => block'[bb] = block[bb]
      /\ \A bb \in HadBy(f) \ HadByThen(f) : block'[bb] = Disk!Zero
  BY DEF Trades
<1>3. ASSUME NEW g \in Inodes, g # f
      PROVE  IsThen(g) /\ HadByThen(g) = HadBy(g)
  <2>1. Stays(g)
    BY <1>3
  <2>2. HadBy(g) \cap HadBy(f) = {}
    BY <1>1, <1>3
  <2>3. \A bb \in HadBy(g) : block'[bb] = block[bb]
    BY <2>2, <1>2
  <2>4. /\ FileOk(inode[g], dinode[g], call[g], contents[g], dead[g], crashes, block')
        /\ HadOf(inode[g], call[g], dead[g], block') = HadBy(g)
    BY <2>3, <1>1, OthersStay DEF Is, HadBy
  <2> QED BY <2>1, <2>4 DEF Stays, IsThen, HadByThen
<1>4. \A g \in Inodes : IsThen(g)
  BY <1>3
<1>5. \A g \in Inodes : HadByThen(g) \subseteq used'
  <2> TAKE g \in Inodes
  <2>1. CASE g = f
    BY <2>1, <1>2
  <2>2. CASE g # f
    <3>1. HadBy(g) \cap HadBy(f) = {} /\ HadBy(g) \subseteq used /\ HadByThen(g) = HadBy(g)
      BY <2>2, <1>1, <1>3
    <3> QED BY <3>1, <1>2
  <2> QED BY <2>1, <2>2
<1>6. ASSUME NEW g \in Inodes, g # f PROVE HadByThen(g) \cap HadByThen(f) = {}
  <2>1. HadBy(g) \cap HadBy(f) = {} /\ HadBy(g) \subseteq used /\ HadByThen(g) = HadBy(g)
    BY <1>6, <1>1, <1>3
  <2> QED BY <2>1, <1>2
<1>7. \A g, h \in Inodes : g # h => HadByThen(g) \cap HadByThen(h) = {}
  <2> TAKE g, h \in Inodes
  <2> HAVE g # h
  <2>1. CASE g # f /\ h # f
    BY <2>1, <1>1, <1>3
  <2>2. CASE g = f
    BY <2>2, <1>6
  <2>3. CASE h = f
    BY <2>3, <1>6
  <2> QED BY <2>1, <2>2, <2>3
<1>8. crashes' = 0 => used' = UNION {HadByThen(g) : g \in Inodes}
  <2> SUFFICES ASSUME crashes' = 0 PROVE used' = UNION {HadByThen(g) : g \in Inodes}
    OBVIOUS
  <2>1. used = UNION {HadBy(g) : g \in Inodes}
    BY <1>1
  <2>2. ASSUME NEW bb \in used' PROVE \E g \in Inodes : bb \in HadByThen(g)
    <3>1. CASE bb \in HadByThen(f)
      BY <3>1
    <3>2. CASE bb \in used \ HadBy(f)
      <4>1. PICK g \in Inodes : bb \in HadBy(g)
        BY <3>2, <2>1
      <4>2. g # f
        BY <4>1, <3>2
      <4> QED BY <4>1, <4>2, <1>3
    <3> QED BY <3>1, <3>2, <1>2
  <2>3. \A g \in Inodes : \A bb \in HadByThen(g) : bb \in used'
    BY <1>5
  <2> QED BY <2>2, <2>3
<1>9. \A bb \in Disk!Blocks \ used' : block'[bb] = Disk!Zero
  <2> TAKE bb \in Disk!Blocks \ used'
  <2>1. CASE bb \in HadBy(f)
    <3>1. bb \in HadBy(f) \ HadByThen(f)
      BY <2>1, <1>2
    <3> QED BY <3>1, <1>2
  <2>2. CASE bb \notin HadBy(f)
    <3>1. bb \in Disk!Blocks \ used
      BY <2>2, <1>2
    <3> QED BY <3>1, <2>2, <1>2 DEF Disk!IInv, Disk!FreeIsZero
  <2> QED BY <2>1, <2>2
<1> QED BY <1>4, <1>5, <1>7, <1>8, <1>9, DiskFrom

\* What has a type.
LEMMA DiskTypes ==
  ASSUME Disk!IInv
  PROVE  /\ inode \in [Inodes -> Disk!Inode] /\ dinode \in [Inodes -> Disk!Inode]
         /\ dead \in [Inodes -> BOOLEAN] /\ DOMAIN call = Inodes /\ DOMAIN contents = Inodes
         /\ used \subseteq Disk!Blocks /\ block \in [Disk!Blocks -> [Disk!Cells -> Nat]]
         /\ full \in BOOLEAN /\ calls \in 0 .. MaxCalls /\ crashes \in 0 .. MaxCrashes
         /\ \A g \in Inodes : call[g].op \in {"none", "read", "write", "trunc"}
BY DEF Disk!IInv, Disk!TypeOK

\* And still has it after a step of one file.
LEMMA TypesThen ==
  ASSUME Disk!IInv, NEW f \in Inodes, \A g \in Inodes \ {f} : Stays(g),
         inode' \in [Inodes -> Disk!Inode], dinode' \in [Inodes -> Disk!Inode],
         dead' \in [Inodes -> BOOLEAN], used' \subseteq Disk!Blocks,
         block' \in [Disk!Blocks -> [Disk!Cells -> Nat]],
         full' \in BOOLEAN, calls' \in 0 .. MaxCalls, crashes' = crashes,
         call'[f].op \in {"none", "read", "write", "trunc"}
  PROVE  Disk!TypeOK'
<1>1. \A g \in Inodes : call'[g].op \in {"none", "read", "write", "trunc"}
  BY DiskTypes DEF Stays
<1>2. crashes' \in 0 .. MaxCrashes
  BY DiskTypes
<1> QED BY <1>1, <1>2 DEF Disk!TypeOK, Disk!Blocks, Disk!Cells, Disk!Inode

\* A step that changes no more than a file's call, and what it has to remember
\* of the file.
LEMMA CallMoves ==
  ASSUME Disk!IInv, NEW f \in Inodes, UNCHANGED <<used, block, dinode, inode, dead, crashes>>,
         full' \in BOOLEAN, calls' \in 0 .. MaxCalls,
         NEW cc, call' = [call EXCEPT ![f] = cc], cc.op \in {"none", "read", "write", "trunc"},
         NEW ct, contents' = [contents EXCEPT ![f] = ct] \/ (contents' = contents /\ ct = contents[f]),
         FileOk(inode[f], dinode[f], cc, ct, dead[f], crashes, block),
         HadOf(inode[f], cc, dead[f], block) = HadBy(f)
  PROVE  Disk!IInv'
<1>1. DOMAIN call = Inodes /\ DOMAIN contents = Inodes
  BY DiskTypes
<1>2. /\ call'[f] = cc /\ contents'[f] = ct /\ DOMAIN call' = Inodes /\ DOMAIN contents' = Inodes
      /\ \A g \in Inodes \ {f} : call'[g] = call[g] /\ contents'[g] = contents[g]
  BY <1>1
<1>3. \A g \in Inodes \ {f} : Stays(g)
  BY <1>2 DEF Stays
<1>4. IsThen(f)
  BY <1>2 DEF IsThen
<1>5. HadByThen(f) = HadBy(f) /\ HadBy(f) \subseteq used
  BY <1>2, DiskFacts DEF HadByThen
<1>6. Trades(f)
  BY <1>5 DEF Trades
<1>7. Disk!TypeOK'
  BY <1>2, <1>3, DiskTypes, TypesThen
<1> QED BY <1>2, <1>3, <1>4, <1>6, <1>7, OneFile

\* What a file has that is not being freed.
LEMMA WholeHas ==
  ASSUME Disk!IInv, NEW f \in Inodes, ~dead[f], call[f].op # "trunc"
  PROVE  /\ Blks(inode[f], block) \subseteq HadBy(f) /\ Blks(inode[f], block) \subseteq Disk!Blocks
         /\ InodeOk(inode[f], dinode[f], block)
         /\ \A kk \in 0 .. Disk!MAXFILE - 1 : Adr(inode[f], block, kk) \in {0} \cup Disk!Blocks
         /\ inode[f].addrs[NDIRECT] \in {0} \cup Disk!Blocks
<1>1. Blks(inode[f], block) \subseteq HadBy(f)
  BY DEF HadBy, HadOf
<1>2. Blks(inode[f], block) \subseteq Disk!Blocks
  BY <1>1, DiskFacts
<1>3. InodeOk(inode[f], dinode[f], block)
  BY DiskFacts DEF Is, FileOk
<1> QED BY <1>1, <1>2, <1>3, InBlks

\* readi and writei start from what the file has (fs.c:405, 434).
LEMMA ContentsAre ==
  ASSUME Disk!IInv, NEW f \in Inodes, ~dead[f], call[f].op # "trunc"
  PROVE  /\ Disk!ContentsOf(inode[f]) \in [1 .. inode[f].size -> Nat]
         /\ \A xx \in 0 .. inode[f].size - 1 :
              Byt(inode[f], block, xx) = Disk!ContentsOf(inode[f])[xx + 1]
<1> DEFINE ip == inode[f]
           ct == Disk!ContentsOf(ip)
<1>1. ip \in Disk!Inode
  BY DiskFacts
<1>2. ct = [k \in 1 .. ip.size |-> Byt(ip, block, k - 1)]
  BY FileIs DEF Disk!ContentsOf, Disk!ByteOf, Byt, NB, OB
<1>3. ASSUME NEW xx \in 0 .. ip.size - 1 PROVE Byt(ip, block, xx) \in Nat
  <2>1. NB(xx) \in 0 .. Disk!MAXFILE - 1 /\ OB(xx) \in Disk!Cells
    BY <1>1, SizeBlocks
  <2>2. Adr(ip, block, NB(xx)) \in {0} \cup Disk!Blocks
    BY <2>1, WholeHas
  <2>3. ASSUME NEW bb \in Disk!Blocks PROVE block[bb][OB(xx)] \in Nat
    BY <2>1, DiskTypes
  <2> QED BY <2>2, <2>3 DEF Byt
<1>4. ip.size \in Nat
  BY <1>1, SizeBlocks
<1> HIDE DEF ip
<1>5. \A k \in 1 .. ip.size : k - 1 \in 0 .. ip.size - 1
  BY <1>4
<1>6. ct \in [1 .. ip.size -> Nat]
  BY <1>2, <1>3, <1>5
<1>7. \A xx \in 0 .. ip.size - 1 : xx + 1 \in 1 .. ip.size /\ (xx + 1) - 1 = xx
  BY <1>4
<1>8. \A xx \in 0 .. ip.size - 1 : Byt(ip, block, xx) = ct[xx + 1]
  BY <1>2, <1>7
<1> QED BY <1>6, <1>8 DEF ip

\* A call of readi or writei begins.
LEMMA BeginKeeps ==
  ASSUME Disk!IInv, NEW f \in Inodes, Disk!Quiet(f), NEW op \in {"read", "write"},
         NEW off \in 0 .. inode[f].size, NEW nn \in Nat, NEW vv \in Nat,
         off + nn <= Disk!MAXFILE * BSIZE, op = "read" => off + nn <= inode[f].size,
         Disk!Begin(f, op, off, nn, vv),
         contents' = [contents EXCEPT ![f] = Disk!ContentsOf(inode[f])], calls' = calls + 1,
         UNCHANGED <<used, block, dinode, inode, dead, full, crashes>>
  PROVE  Disk!IInv'
<1> DEFINE cc == [op |-> op, pc |-> "bmap", off |-> off, n |-> nn, v |-> vv, tot |-> 0, got |-> <<>>]
           ct == Disk!ContentsOf(inode[f])
           ip == inode[f]
<1>1. ~dead[f] /\ call[f] = Disk!Idle /\ calls < MaxCalls
  BY DEF Disk!Quiet
<1>2. call[f].op = "none"
  BY <1>1 DEF Disk!Idle
<1>3. /\ ct \in [1 .. ip.size -> Nat]
      /\ \A xx \in 0 .. ip.size - 1 : Byt(ip, block, xx) = ct[xx + 1]
      /\ InodeOk(ip, dinode[f], block)
  BY <1>1, <1>2, ContentsAre, WholeHas
<1>4. dinode[f] = ip
  BY <1>1, DiskFacts DEF Is, FileOk
<1>5. calls' \in 0 .. MaxCalls /\ full' \in BOOLEAN
  BY <1>1, DiskTypes, DiskConstants
<1>6. CASE nn = 0
  <2>1. call' = [call EXCEPT ![f] = Disk!Idle]
    BY <1>6 DEF Disk!Begin
  <2>2. FileOk(ip, dinode[f], Disk!Idle, ct, dead[f], crashes, block)
    BY <1>1, <1>3, <1>4 DEF FileOk, Disk!Idle
  <2>3. HadOf(ip, Disk!Idle, dead[f], block) = HadBy(f)
    BY <1>1 DEF HadBy
  <2>4. Disk!Idle.op \in {"none", "read", "write", "trunc"}
    BY DEF Disk!Idle
  <2> QED BY <2>1, <2>2, <2>3, <2>4, <1>5, CallMoves
<1>7. CASE nn # 0
  <2>1. call' = [call EXCEPT ![f] = cc]
    BY <1>7 DEF Disk!Begin
  <2>2. cc.op = op /\ cc.pc = "bmap" /\ cc.off = off /\ cc.n = nn /\ cc.v = vv /\ cc.tot = 0 /\ cc.got = <<>>
    OBVIOUS
  <2>3. cc \in Calls
    <3>1. ip.size \in Nat
      BY DiskFacts, SizeBlocks
    <3>2. off \in Nat /\ nn \in Nat \ {0} /\ <<>> \in Seq(Nat)
      BY <3>1, <1>7
    <3> QED BY <3>2 DEF Calls
  <2> HIDE DEF cc, ct, ip
  <2>4. PcOk(ip, block, cc)
    BY <2>2, <1>7 DEF PcOk
  <2>5. \A xx : ~(xx \in cc.off .. cc.off + cc.tot - 1)
    BY <2>2, <2>3 DEF Calls
  <2>6. WriteOk(ip, block, cc, ct)
    BY <2>5, <1>3 DEF WriteOk
  <2>7. op = "read" => ReadOk(ip, block, cc, ct)
    <3>1. Len(<<>>) = 0 /\ 1 .. 0 = {}
      OBVIOUS
    <3> QED BY <3>1, <2>2, <1>3 DEF ReadOk, ip
  <2>8. off <= ip.size
    BY DEF ip
  <2>9. CallOk(ip, dinode[f], block, cc, ct)
    BY <2>2, <2>3, <2>4, <2>6, <2>7, <2>8, <1>3, <1>4 DEF CallOk
  <2>10. FileOk(ip, dinode[f], cc, ct, dead[f], crashes, block)
    BY <2>2, <2>9, <1>1, <1>3, <1>4 DEF FileOk
  <2>11. HadOf(ip, cc, dead[f], block) = HadBy(f)
    BY <2>2, <1>1, <1>2 DEF HadBy, HadOf, ip
  <2> QED BY <2>1, <2>2, <2>10, <2>11, <1>5, CallMoves DEF ct, ip
<1> QED BY <1>6, <1>7

\* readi (fs.c:394-411).
LEMMA ReadiKeeps ==
  ASSUME Disk!IInv, NEW f \in Inodes, NEW off \in 0 .. inode[f].size, NEW nn \in Lens,
         Disk!Readi(f, off, nn)
  PROVE  Disk!IInv'
<1> DEFINE mm == IF off + nn > inode[f].size THEN inode[f].size - off ELSE nn
<1>1. /\ inode[f].size \in Nat /\ nn \in Nat /\ Disk!MAXFILE * BSIZE \in Nat
      /\ inode[f].size <= Disk!MAXFILE * BSIZE
  BY DiskFacts, SizeBlocks, DiskConstants
<1>2. mm \in Nat /\ off + mm <= inode[f].size /\ off + mm <= Disk!MAXFILE * BSIZE
  BY <1>1
<1>3. /\ Disk!Quiet(f) /\ Disk!Begin(f, "read", off, mm, 0)
      /\ contents' = [contents EXCEPT ![f] = Disk!ContentsOf(inode[f])] /\ calls' = calls + 1
      /\ UNCHANGED <<used, block, dinode, inode, dead, full, crashes>>
  BY DEF Disk!Readi
<1> HIDE DEF mm
<1> QED BY <1>2, <1>3, BeginKeeps

\* writei (fs.c:421-438).
LEMMA WriteiKeeps ==
  ASSUME Disk!IInv, NEW f \in Inodes, NEW off \in 0 .. inode[f].size, NEW nn \in Lens, NEW vv \in Bytes,
         Disk!Writei(f, off, nn, vv)
  PROVE  Disk!IInv'
<1> DEFINE mm == IF off + nn > Disk!MAXFILE * BSIZE THEN Disk!MAXFILE * BSIZE - off ELSE nn
<1>1. /\ inode[f].size \in Nat /\ nn \in Nat /\ Disk!MAXFILE * BSIZE \in Nat /\ vv \in Nat
      /\ inode[f].size <= Disk!MAXFILE * BSIZE
  BY DiskFacts, SizeBlocks, DiskConstants
<1>2. mm \in Nat /\ off + mm <= Disk!MAXFILE * BSIZE
  BY <1>1
<1>3. /\ Disk!Quiet(f) /\ Disk!Begin(f, "write", off, mm, vv)
      /\ contents' = [contents EXCEPT ![f] = Disk!ContentsOf(inode[f])] /\ calls' = calls + 1
      /\ UNCHANGED <<used, block, dinode, inode, dead, full, crashes>>
  BY DEF Disk!Writei
<1> HIDE DEF mm
<1>4. "write" # "read" /\ vv \in Nat
  BY <1>1
<1> QED BY <1>2, <1>3, <1>4, BeginKeeps

\* A call of readi or writei that is under way.
LEMMA AtCall ==
  ASSUME Disk!IInv, NEW f \in Inodes, NEW at \in {"bmap", "entry", "data", "size", "return"}, Disk!At(f, at)
  PROVE  /\ ~dead[f] /\ call[f].op \in {"read", "write"} /\ call[f].pc = at
         /\ call[f] \in Calls /\ call[f].tot <= call[f].n /\ call[f].off + call[f].n <= Disk!MAXFILE * BSIZE
         /\ CallOk(inode[f], dinode[f], block, call[f], contents[f])
         /\ InodeOk(inode[f], dinode[f], block)
         /\ call[f] # Disk!Idle
<1>1. Is(f)
  BY DiskFacts
<1>2. call[f].op # "none" /\ call[f].pc = at
  BY DEF Disk!At
<1>3. call[f] # Disk!Idle
  BY <1>2 DEF Disk!Idle
<1>4. ~dead[f]
  BY <1>1, <1>3 DEF Is, FileOk
<1>5. call[f].op # "trunc"
  <2> SUFFICES ASSUME call[f].op = "trunc" PROVE FALSE
    OBVIOUS
  <2>1. call[f].pc \in {"bzero", "bfree"}
    BY <1>1 DEF Is, FileOk, TruncOk
  <2> QED BY <2>1, <1>2
<1>6. call[f].op \in {"read", "write"}
  BY <1>2, <1>5, DiskTypes
<1>7. CallOk(inode[f], dinode[f], block, call[f], contents[f])
  BY <1>1, <1>6 DEF Is, FileOk
<1>8. InodeOk(inode[f], dinode[f], block)
  BY <1>1, <1>4, <1>5 DEF Is, FileOk
<1>9. /\ call[f] \in Calls /\ call[f].tot <= call[f].n
      /\ call[f].off + call[f].n <= Disk!MAXFILE * BSIZE
  BY <1>7 DEF CallOk
<1> QED BY <1>2, <1>3, <1>4, <1>6, <1>7, <1>8, <1>9

\* Where bmap finds no block, the file does not have all that the call is for
\* yet, so that it is a write (fs.c:412).
LEMMA HoleIsNew ==
  ASSUME Disk!IInv, NEW f \in Inodes, NEW at \in {"bmap", "entry"}, Disk!At(f, at),
         Adr(inode[f], block, Cur(call[f])) = 0
  PROVE  call[f].op = "write" /\ ~(call[f].off + call[f].n <= inode[f].size)
<1> DEFINE cc == call[f]
           ip == inode[f]
<1>1. /\ cc \in Calls /\ cc.pc = at /\ CallOk(ip, dinode[f], block, cc, contents[f])
      /\ InodeOk(ip, dinode[f], block) /\ cc.op \in {"read", "write"}
  BY AtCall
<1>2. PcOk(ip, block, cc)
  BY <1>1 DEF CallOk
<1>3. cc.tot < cc.n
  BY <1>1, <1>2 DEF PcOk
<1>4. ip.size \in Nat
  BY DiskFacts, SizeBlocks
<1>5. ~(cc.off + cc.n <= ip.size)
  <2> SUFFICES ASSUME cc.off + cc.n <= ip.size PROVE FALSE
    OBVIOUS
  <2>1. dinode[f] = ip
    BY <1>1 DEF CallOk
  <2>2. cc.off + cc.tot \in 0 .. ip.size - 1
    <3>1. cc.off \in Nat /\ cc.tot \in Nat /\ cc.n \in Nat
      BY <1>1 DEF Calls
    <3> HIDE DEF cc, ip
    <3> QED BY <3>1, <1>3, <1>4
  <2>3. Adr(ip, block, NB(cc.off + cc.tot)) # 0
    BY <2>1, <2>2, <1>1 DEF InodeOk, Filled
  <2> QED BY <2>3 DEF Cur
<1>6. cc.op = "read" => cc.off + cc.n <= ip.size
  BY <1>1 DEF CallOk, ReadOk
<1> QED BY <1>1, <1>5, <1>6

(* The inode jp is ip with the block bb at kk, where there was none; of two *)
(* files one has the other's pointers and one more.                         *)
Puts(ip, jp, kk, bb) ==
  /\ ip.addrs[kk] = 0 /\ jp.addrs[kk] = bb
  /\ \A ll \in 0 .. NDIRECT : ll # kk => jp.addrs[ll] = ip.addrs[ll]
Added(ip, bl, jp, bm, pl, bb) ==
  /\ Ptr(ip, bl, pl) = 0 /\ Ptr(jp, bm, pl) = bb
  /\ \A ll \in Disk!Places : ll # pl => Ptr(jp, bm, ll) = Ptr(ip, bl, ll)

\* One pointer more, at a place that had none, to a block that the file did
\* not have.
LEMMA NewPtr ==
  ASSUME NEW ip, NEW bl, NEW jp, NEW bm, NEW pl \in Disk!Places, NEW bb, bb # 0, bb \notin Blks(ip, bl),
         Added(ip, bl, jp, bm, pl, bb)
  PROVE  /\ Blks(jp, bm) = Blks(ip, bl) \cup {bb} /\ (Dst(ip, bl) => Dst(jp, bm))
         /\ \A kk \in 0 .. Disk!MAXFILE - 1 : Adr(ip, bl, kk) # 0 => Adr(jp, bm, kk) = Adr(ip, bl, kk)
         /\ \A kk \in 0 .. Disk!MAXFILE - 1 : Adr(ip, bl, kk) = 0 => Adr(jp, bm, kk) \in {0, bb}
<1> USE DEF Added
<1>1. \A kk \in Disk!Places : Ptr(ip, bl, kk) # 0 => Ptr(ip, bl, kk) # bb
  BY InBlks
<1>2. Blks(jp, bm) = Blks(ip, bl) \cup {bb}
  <2>1. Blks(jp, bm) \subseteq Blks(ip, bl) \cup {bb}
    BY DEF Blks
  <2>2. bb \in Blks(jp, bm)
    BY InBlks
  <2>3. ASSUME NEW xx \in Blks(ip, bl) PROVE xx \in Blks(jp, bm)
    <3>1. PICK kk \in Disk!Places : xx = Ptr(ip, bl, kk)
      BY <2>3, InBlks
    <3>2. xx # 0 /\ kk # pl
      BY <3>1, InBlks
    <3>3. xx = Ptr(jp, bm, kk)
      BY <3>1, <3>2
    <3> QED BY <3>2, <3>3, InBlks
  <2> QED BY <2>1, <2>2, <2>3
<1>3. ASSUME Dst(ip, bl) PROVE Dst(jp, bm)
  <2> SUFFICES ASSUME NEW kk \in Disk!Places, NEW ll \in Disk!Places, Ptr(jp, bm, kk) = Ptr(jp, bm, ll)
               PROVE  kk = ll \/ Ptr(jp, bm, kk) = 0
    BY DEF Dst
  <2>1. CASE kk # pl /\ ll # pl
    BY <2>1, <1>3 DEF Dst
  <2>2. CASE kk = pl \/ ll = pl
    BY <2>2, <1>1
  <2> QED BY <2>1, <2>2
<1>4. ASSUME NEW kk \in 0 .. Disk!MAXFILE - 1
      PROVE  /\ Adr(ip, bl, kk) # 0 => Adr(jp, bm, kk) = Adr(ip, bl, kk)
             /\ Adr(ip, bl, kk) = 0 => Adr(jp, bm, kk) \in {0, bb}
  <2>1. kk \in Disk!Places /\ Ptr(ip, bl, kk) = Adr(ip, bl, kk) /\ Ptr(jp, bm, kk) = Adr(jp, bm, kk)
    BY PlacesAre
  <2> QED BY <2>1
<1> QED BY <1>2, <1>3, <1>4

\* The call goes on with one pointer more: what it relies on is in blocks that
\* the file had.
LEMMA CallGrows ==
  ASSUME NEW ip \in Disk!Inode, NEW jp, NEW dp, NEW bl, NEW bm, NEW cc, NEW ct, NEW cd \in Calls,
         CallOk(ip, dp, bl, cc, ct), InodeOk(ip, dp, bl),
         jp.size = ip.size, cc.op = "write", ~(cc.off + cc.n <= ip.size),
         \A kk \in 0 .. Disk!MAXFILE - 1 : Adr(ip, bl, kk) # 0 =>
           Adr(jp, bm, kk) = Adr(ip, bl, kk) /\ bm[Adr(ip, bl, kk)] = bl[Adr(ip, bl, kk)],
         cd.op = cc.op, cd.off = cc.off, cd.n = cc.n, cd.v = cc.v, cd.tot = cc.tot, PcOk(jp, bm, cd)
  PROVE  CallOk(jp, dp, bm, cd, ct)
<1>1. cc \in Calls /\ cc.tot <= cc.n /\ cc.off + cc.n <= Disk!MAXFILE * BSIZE /\ cc.off <= ip.size
  BY DEF CallOk
<1>2. WriteOk(ip, bl, cc, ct) /\ ct \in [1 .. ip.size -> Nat]
  BY DEF CallOk
<1>3. ASSUME NEW xx, NB(xx) \in 0 .. Disk!MAXFILE - 1, Adr(ip, bl, NB(xx)) # 0
      PROVE  Byt(jp, bm, xx) = Byt(ip, bl, xx) /\ Adr(jp, bm, NB(xx)) # 0
  BY <1>3 DEF Byt
<1>4. ASSUME NEW xx \in 0 .. ip.size - 1 PROVE Byt(jp, bm, xx) = Byt(ip, bl, xx)
  <2>1. NB(xx) \in 0 .. Disk!MAXFILE - 1
    BY SizeBlocks
  <2>2. Adr(dp, bl, NB(xx)) # 0 /\ Lacks(dp, ip)
    BY DEF InodeOk, Filled
  <2>3. \A kk \in 0 .. Disk!MAXFILE - 1 : Adr(dp, bl, kk) \in {0, Adr(ip, bl, kk)}
    BY <2>2, LackPtrs
  <2>4. Adr(ip, bl, NB(xx)) # 0
    BY <2>1, <2>2, <2>3
  <2> QED BY <1>3, <2>1, <2>4
<1>5. ASSUME NEW xx \in cc.off .. cc.off + cc.tot - 1
      PROVE  Byt(jp, bm, xx) = Byt(ip, bl, xx) /\ Adr(jp, bm, NB(xx)) # 0
  <2>1. NB(xx) \in 0 .. Disk!MAXFILE - 1
    BY <1>1, CallBlocks
  <2>2. Adr(ip, bl, NB(xx)) # 0
    BY <1>2 DEF WriteOk
  <2> QED BY <1>3, <2>1, <2>2
<1>6. WriteOk(jp, bm, cd, ct)
  BY <1>2, <1>4, <1>5 DEF WriteOk
<1>7. cd.op # "read"
  OBVIOUS
<1> QED BY <1>1, <1>2, <1>6, <1>7 DEF CallOk

\* bmap puts a pointer into the inode (fs.c:326, 333).
LEMMA PtrAdded ==
  ASSUME NEW ip, NEW bl, NEW kk \in 0 .. NDIRECT, NEW bb \in Disk!Blocks, NEW pl,
         pl = (IF kk < NDIRECT THEN kk ELSE Disk!MAXFILE),
         bl[bb] = Disk!Zero, NEW jp, Puts(ip, jp, kk, bb)
  PROVE  pl \in Disk!Places /\ Added(ip, bl, jp, bl, pl, bb)
<1>1. bb # 0
  BY DEF Disk!Blocks
<1>4. /\ ip.addrs[kk] = 0 /\ jp.addrs[kk] = bb
      /\ \A ll \in 0 .. NDIRECT : ll # kk => jp.addrs[ll] = ip.addrs[ll]
  BY DEF Puts
<1>5. CASE kk < NDIRECT
  <2>1. jp.addrs[NDIRECT] = ip.addrs[NDIRECT]
    BY <1>4, <1>5, DiskConstants
  <2>2. pl = kk /\ kk \in 0 .. Disk!MAXFILE - 1 /\ kk \in Disk!Places /\ kk # Disk!MAXFILE
    BY <1>5, DiskConstants DEF Disk!Places
  <2>3. Adr(ip, bl, kk) = 0 /\ Adr(jp, bl, kk) = bb
    BY <1>4, <1>5 DEF Adr
  <2>4. \A ll \in 0 .. Disk!MAXFILE - 1 : ll < NDIRECT => ll \in 0 .. NDIRECT
    BY DiskConstants
  <2>5. ASSUME NEW ll \in 0 .. Disk!MAXFILE - 1, ll # kk PROVE Adr(jp, bl, ll) = Adr(ip, bl, ll)
    <3>1. ll < NDIRECT => jp.addrs[ll] = ip.addrs[ll]
      BY <2>4, <2>5, <1>4
    <3> QED BY <3>1, <2>1 DEF Adr
  <2>6. ASSUME NEW ll \in Disk!Places, ll # kk PROVE Ptr(jp, bl, ll) = Ptr(ip, bl, ll)
    <3>1. CASE ll = Disk!MAXFILE
      BY <3>1, <2>1 DEF Ptr
    <3>2. CASE ll # Disk!MAXFILE
      BY <3>2, <2>5, <2>6, PlacesAre DEF Ptr
    <3> QED BY <3>1, <3>2
  <2>7. Ptr(ip, bl, kk) = 0 /\ Ptr(jp, bl, kk) = bb
    BY <2>2, <2>3 DEF Ptr
  <2> QED BY <2>2, <2>6, <2>7 DEF Added
<1>6. CASE kk = NDIRECT
  <2>1. pl = Disk!MAXFILE /\ pl \in Disk!Places
    BY <1>6, PlacesAre, DiskConstants
  <2>2. Ptr(ip, bl, Disk!MAXFILE) = 0 /\ Ptr(jp, bl, Disk!MAXFILE) = bb
    BY <1>4, <1>6 DEF Ptr
  <2>3. ASSUME NEW ll \in 0 .. Disk!MAXFILE - 1 PROVE Adr(jp, bl, ll) = Adr(ip, bl, ll)
    <3>1. CASE ll < NDIRECT
      <4>1. ll \in 0 .. NDIRECT /\ ll # kk
        BY <3>1, <1>6, DiskConstants
      <4>2. jp.addrs[ll] = ip.addrs[ll]
        BY <4>1, <1>4
      <4> QED BY <4>2, <3>1 DEF Adr
    <3>2. CASE ~(ll < NDIRECT)
      <4>1. ll - NDIRECT \in Disk!Cells
        BY <3>2, DiskConstants DEF Disk!Cells
      <4>2. bl[bb][ll - NDIRECT] = 0
        BY <4>1 DEF Disk!Zero
      <4> QED BY <4>2, <3>2, <1>1, <1>4, <1>6 DEF Adr
    <3> QED BY <3>1, <3>2
  <2>4. \A ll \in Disk!Places : ll # Disk!MAXFILE => Ptr(jp, bl, ll) = Ptr(ip, bl, ll)
    BY <2>3, PlacesAre
  <2> QED BY <2>1, <2>2, <2>4 DEF Added
<1>7. kk < NDIRECT \/ kk = NDIRECT
  BY DiskConstants
<1> QED BY <1>5, <1>6, <1>7

\* balloc's block is nobody's, and zero (fs.c:196-207).
LEMMA FreeBlock ==
  ASSUME Disk!IInv, NEW bb \in Disk!Free
  PROVE  /\ bb \in Disk!Blocks /\ bb \notin used /\ bb # 0 /\ block[bb] = Disk!Zero
         /\ \A g \in Inodes : bb \notin HadBy(g)
<1>1. bb \in Disk!Blocks /\ bb \notin used
  BY DEF Disk!Free
<1>2. bb # 0
  BY <1>1, DiskConstants DEF Disk!Blocks
<1>3. block[bb] = Disk!Zero
  BY <1>1 DEF Disk!IInv, Disk!FreeIsZero
<1>4. \A g \in Inodes : bb \notin HadBy(g)
  BY <1>1, DiskFacts
<1> QED BY <1>1, <1>2, <1>3, <1>4

\* The inode gets a block, direct or indirect, and the call goes on.
LEMMA InodeGrows ==
  ASSUME Disk!IInv, NEW f \in Inodes, Disk!At(f, "bmap"), NEW kk \in 0 .. NDIRECT, NEW bb \in Disk!Free,
         inode[f].addrs[kk] = 0, Adr(inode[f], block, Cur(call[f])) = 0,
         NEW at \in {"bmap", "data"}, at = "data" => kk < NDIRECT /\ kk = Cur(call[f]),
         used' = used \cup {bb}, inode' = [inode EXCEPT ![f].addrs[kk] = bb],
         DOMAIN call' = Inodes, call'[f] = [call[f] EXCEPT !.pc = at],
         \A g \in Inodes \ {f} : call'[g] = call[g],
         UNCHANGED <<block, dinode, contents, dead, full, calls, crashes>>
  PROVE  Disk!IInv'
<1> DEFINE ip == inode[f]
           dp == dinode[f]
           cc == call[f]
           ct == contents[f]
           jp == [ip EXCEPT !.addrs[kk] = bb]
           pl == IF kk < NDIRECT THEN kk ELSE Disk!MAXFILE
           cd == [cc EXCEPT !.pc = at]
<1>1. /\ ~dead[f] /\ cc.op \in {"read", "write"} /\ cc.pc = "bmap" /\ cc \in Calls /\ cc # Disk!Idle
      /\ CallOk(ip, dp, block, cc, ct) /\ InodeOk(ip, dp, block)
      /\ cc.tot <= cc.n /\ cc.off + cc.n <= Disk!MAXFILE * BSIZE
  BY AtCall
<1>2. cc.op = "write" /\ ~(cc.off + cc.n <= ip.size)
  BY HoleIsNew
<1>3. bb \in Disk!Blocks /\ bb \notin used /\ bb # 0 /\ block[bb] = Disk!Zero /\ bb \notin HadBy(f)
  BY FreeBlock
<1>4. /\ DOMAIN call = Inodes /\ DOMAIN contents = Inodes /\ inode \in [Inodes -> Disk!Inode] /\ ip \in Disk!Inode
      /\ ip.addrs[kk] = 0
  BY DiskTypes
<1>b. /\ jp.addrs = [ip.addrs EXCEPT ![kk] = bb] /\ jp.size = ip.size /\ jp \in Disk!Inode
      /\ pl = IF kk < NDIRECT THEN kk ELSE Disk!MAXFILE
  <2>1. ip.addrs \in [0 .. NDIRECT -> 0 .. NBLOCKS] /\ bb \in 0 .. NBLOCKS
    BY <1>3, <1>4, DiskConstants DEF Disk!Inode, Disk!Blocks
  <2>2. jp = [ip EXCEPT !.addrs = [ip.addrs EXCEPT ![kk] = bb]]
    BY <1>4 DEF Disk!Inode
  <2>3. [ip.addrs EXCEPT ![kk] = bb] \in [0 .. NDIRECT -> 0 .. NBLOCKS]
    BY <2>1
  <2> QED BY <1>4, <2>2, <2>3 DEF Disk!Inode
<1> HIDE DEF ip, jp, pl
<1>5. /\ jp \in Disk!Inode /\ jp.size = ip.size /\ jp.addrs[kk] = bb
      /\ \A ll \in 0 .. NDIRECT : ll # kk => jp.addrs[ll] = ip.addrs[ll]
      /\ pl \in Disk!Places /\ Added(ip, block, jp, block, pl, bb)
  <2>1. ip.addrs \in [0 .. NDIRECT -> 0 .. NBLOCKS]
    BY <1>4 DEF Disk!Inode
  <2>2. jp.addrs[kk] = bb /\ \A ll \in 0 .. NDIRECT : ll # kk => jp.addrs[ll] = ip.addrs[ll]
    BY <1>b, <2>1
  <2>3. Puts(ip, jp, kk, bb)
    BY <1>4, <2>2 DEF Puts
  <2>4. pl \in Disk!Places /\ Added(ip, block, jp, block, pl, bb)
    BY <1>3, <1>b, <2>3, PtrAdded
  <2> QED BY <1>b, <2>2, <2>4
<1>6. /\ inode' = [inode EXCEPT ![f] = jp] /\ inode'[f] = jp
      /\ \A g \in Inodes \ {f} : inode'[g] = inode[g]
  BY <1>4 DEF ip, jp
<1>7. /\ call'[f] = cd /\ DOMAIN call' = Inodes
      /\ \A g \in Inodes \ {f} : call'[g] = call[g]
  BY <1>4
<1>8. /\ cd \in Calls /\ cd.pc = at /\ cd.got = cc.got /\ cd.tot = cc.tot
      /\ cd.op = cc.op /\ cd.off = cc.off /\ cd.n = cc.n /\ cd.v = cc.v
  BY <1>1 DEF Calls
<1>9. Cur(cd) = Cur(cc)
  BY <1>8 DEF Cur
<1>a. cd # Disk!Idle
  <2>1. cd.op # Disk!Idle.op
    BY <1>8, <1>2 DEF Disk!Idle
  <2> QED BY <2>1
<1> HIDE DEF dp, cc, ct, cd
<1>10. Blks(ip, block) \subseteq HadBy(f)
  BY <1>1, <1>2, WholeHas DEF ip, cc
<1>11. bb \notin Blks(ip, block)
  BY <1>3, <1>10
<1>12. /\ Blks(jp, block) = Blks(ip, block) \cup {bb} /\ (Dst(ip, block) => Dst(jp, block))
       /\ \A ll \in 0 .. Disk!MAXFILE - 1 : Adr(ip, block, ll) # 0 => Adr(jp, block, ll) = Adr(ip, block, ll)
       /\ \A ll \in 0 .. Disk!MAXFILE - 1 : Adr(ip, block, ll) = 0 => Adr(jp, block, ll) \in {0, bb}
  <2>1. pl \in Disk!Places /\ bb # 0 /\ bb \notin Blks(ip, block) /\ Added(ip, block, jp, block, pl, bb)
    BY <1>3, <1>5, <1>11
  <2> QED BY ONLY <2>1, NewPtr
<1>13. \A ll \in 0 .. Disk!MAXFILE - 1 : Adr(ip, block, ll) # 0 =>
          Adr(jp, block, ll) = Adr(ip, block, ll) /\ block[Adr(ip, block, ll)] = block[Adr(ip, block, ll)]
  BY <1>12
<1>14. cc.tot < cc.n
  BY <1>1 DEF CallOk, PcOk
<1>15. PcOk(jp, block, cd)
  <2>1. CASE at = "bmap"
    BY <2>1, <1>8, <1>14 DEF PcOk
  <2>2. CASE at = "data"
    <3>1. kk < NDIRECT /\ kk = Cur(cd)
      BY <2>2, <1>9 DEF cc
    <3>2. Adr(jp, block, Cur(cd)) = bb
      BY <3>1, <1>5 DEF Adr
    <3> QED BY <2>2, <3>2, <1>3, <1>8, <1>14 DEF PcOk
  <2> QED BY <2>1, <2>2
<1>17. CallOk(jp, dp, block, cd, ct)
  BY <1>1, <1>2, <1>4, <1>5, <1>8, <1>13, <1>15, CallGrows
<1>18. InodeOk(jp, dp, block)
  <2>1. Dst(jp, block)
    BY <1>1, <1>12 DEF InodeOk
  <2>2. Lacks(dp, jp)
    <3>1. dp.size = ip.size /\ \A ll \in 0 .. NDIRECT : dp.addrs[ll] \in {0, ip.addrs[ll]}
      BY <1>1 DEF InodeOk, Lacks
    <3>2. ip.addrs[kk] = 0
      BY DEF ip
    <3>3. \A ll \in 0 .. NDIRECT : dp.addrs[ll] \in {0, jp.addrs[ll]}
      BY <3>1, <3>2, <1>5
    <3> QED BY <3>1, <3>3, <1>5 DEF Lacks
  <2>3. Filled(dp, block, jp.size)
    BY <1>1, <1>5 DEF InodeOk
  <2> QED BY <2>1, <2>2, <2>3 DEF InodeOk
<1>19. FileOk(jp, dp, cd, ct, dead[f], crashes, block)
  BY <1>1, <1>2, <1>8, <1>a, <1>17, <1>18 DEF FileOk
<1>20. IsThen(f)
  BY <1>6, <1>7, <1>19 DEF IsThen, dp, ct
<1>21. HadBy(f) = Blks(ip, block)
  BY <1>1, <1>2 DEF HadBy, HadOf, ip, cc
<1>22. HadByThen(f) = Blks(ip, block) \cup {bb}
  BY <1>1, <1>2, <1>6, <1>7, <1>8, <1>12 DEF HadByThen, HadOf
<1>23. Trades(f)
  <2>1. HadBy(f) \subseteq used
    BY DiskFacts
  <2> QED BY <2>1, <1>3, <1>21, <1>22 DEF Trades
<1>24. \A g \in Inodes \ {f} : Stays(g)
  BY <1>6, <1>7 DEF Stays
<1>25. inode' \in [Inodes -> Disk!Inode]
  BY <1>4, <1>5, <1>6
<1>26. used' \subseteq Disk!Blocks
  BY <1>3, DiskTypes
<1>27. call'[f].op \in {"none", "read", "write", "trunc"}
  BY <1>7, <1>8, <1>2
<1>28. Disk!TypeOK'
  BY <1>24, <1>25, <1>26, <1>27, DiskTypes, TypesThen
<1>29. DOMAIN contents' = Inodes
  BY <1>4
<1> QED BY <1>7, <1>20, <1>23, <1>24, <1>28, <1>29, OneFile

\* The panic of balloc, and a step of another part of the kernel.
LEMMA RestKeeps ==
  ASSUME Disk!IInv, UNCHANGED <<used, block, dinode, inode, call, contents, dead, calls, crashes>>,
         full' \in BOOLEAN
  PROVE  Disk!IInv'
<1>1. /\ \A g \in Inodes : Is(g) /\ HadBy(g) \subseteq used
      /\ \A g, h \in Inodes : g # h => HadBy(g) \cap HadBy(h) = {}
      /\ crashes = 0 => used = UNION {HadBy(g) : g \in Inodes}
  BY DiskFacts
<1>2. \A g \in Inodes : IsThen(g) /\ HadByThen(g) = HadBy(g)
  BY <1>1 DEF Is, IsThen, HadBy, HadByThen
<1>3. {HadByThen(g) : g \in Inodes} = {HadBy(g) : g \in Inodes}
  BY <1>2
<1>4. Disk!TypeOK'
  BY DEF Disk!IInv, Disk!TypeOK, Disk!Blocks, Disk!Cells, Disk!Inode
<1>5. \A bb \in Disk!Blocks \ used' : block'[bb] = Disk!Zero
  BY DEF Disk!IInv, Disk!FreeIsZero
<1>6. DOMAIN call' = Inodes /\ DOMAIN contents' = Inodes
  BY DiskTypes
<1>7. crashes' = 0 => used' = UNION {HadByThen(g) : g \in Inodes}
  BY <1>1, <1>3
<1>8. \A g \in Inodes : IsThen(g) /\ HadByThen(g) \subseteq used'
  BY <1>1, <1>2
<1>9. \A g, h \in Inodes : g # h => HadByThen(g) \cap HadByThen(h) = {}
  BY <1>1, <1>2
<1> QED BY <1>4, <1>5, <1>6, <1>7, <1>8, <1>9, DiskFrom

\* The call has found its block.
LEMMA FoundKeeps ==
  ASSUME Disk!IInv, NEW f \in Inodes, Disk!At(f, "bmap"), Adr(inode[f], block, Cur(call[f])) # 0,
         Disk!Goto(f, "data"), UNCHANGED <<used, block, dinode, inode, contents, dead, full, calls, crashes>>
  PROVE  Disk!IInv'
<1> DEFINE ip == inode[f]
           dp == dinode[f]
           cc == call[f]
           ct == contents[f]
           cd == [cc EXCEPT !.pc = "data"]
<1>1. /\ ~dead[f] /\ cc.op \in {"read", "write"} /\ cc.pc = "bmap" /\ cc \in Calls
      /\ CallOk(ip, dp, block, cc, ct) /\ InodeOk(ip, dp, block)
  BY AtCall
<1>2. call' = [call EXCEPT ![f] = cd]
  BY DEF Disk!Goto
<1>3. /\ cd \in Calls /\ cd.pc = "data" /\ cd.got = cc.got /\ cd.tot = cc.tot
      /\ cd.op = cc.op /\ cd.off = cc.off /\ cd.n = cc.n /\ cd.v = cc.v
  BY <1>1 DEF Calls
<1>4. Cur(cd) = Cur(cc) /\ Adr(ip, block, Cur(cc)) # 0
  BY <1>3 DEF Cur
<1>5. cd # Disk!Idle
  <2>1. cd.op # Disk!Idle.op
    BY <1>3, <1>1 DEF Disk!Idle
  <2> QED BY <2>1
<1>6. HadBy(f) = Blks(ip, block)
  BY <1>1 DEF HadBy, HadOf
<1>7. full' \in BOOLEAN /\ calls' \in 0 .. MaxCalls
  BY DiskTypes
<1> HIDE DEF ip, dp, cc, ct, cd
<1>8. cc.tot < cc.n
  BY <1>1 DEF CallOk, PcOk
<1>9. PcOk(ip, block, cd)
  BY <1>3, <1>4, <1>8 DEF PcOk
<1>10. (ReadOk(ip, block, cc, ct) => ReadOk(ip, block, cd, ct)) /\ (WriteOk(ip, block, cc, ct) => WriteOk(ip, block, cd, ct))
  BY <1>3 DEF ReadOk, WriteOk
<1>11. CallOk(ip, dp, block, cd, ct)
  BY <1>1, <1>3, <1>9, <1>10 DEF CallOk
<1>12. FileOk(ip, dp, cd, ct, dead[f], crashes, block)
  BY <1>1, <1>3, <1>5, <1>11 DEF FileOk
<1>13. HadOf(ip, cd, dead[f], block) = HadBy(f)
  BY <1>1, <1>3, <1>6 DEF HadOf
<1>14. cd.op \in {"none", "read", "write", "trunc"}
  BY <1>1, <1>3
<1> QED BY <1>2, <1>7, <1>12, <1>13, <1>14, CallMoves DEF ip, dp, ct

\* bmap, a direct block (fs.c:325-328).
LEMMA BmapDirectKeeps ==
  ASSUME Disk!IInv, NEW f \in Inodes, Disk!BmapDirect(f)
  PROVE  Disk!IInv'
<1>1. /\ Disk!At(f, "bmap") /\ Cur(call[f]) < NDIRECT
      /\ UNCHANGED <<block, dinode, contents, dead, calls, crashes>>
  BY FileIs DEF Disk!BmapDirect
<1>2. call[f] \in Calls
  BY <1>1, AtCall
<1>3. Cur(call[f]) \in 0 .. NDIRECT
  <2>1. call[f].off + call[f].tot \in Nat
    BY <1>2 DEF Calls
  <2>2. Cur(call[f]) \in Nat
    BY <2>1, BlockOfByte DEF Cur
  <2> QED BY <1>1, <2>2, DiskConstants
<1>4. Adr(inode[f], block, Cur(call[f])) = inode[f].addrs[Cur(call[f])]
  BY <1>1 DEF Adr
<1>5. Disk!bn(f) = Cur(call[f])
  BY FileIs
<1>6. CASE inode[f].addrs[Cur(call[f])] # 0
  <2>1. Disk!Goto(f, "data") /\ UNCHANGED <<used, inode, full>>
    BY <1>5, <1>6 DEF Disk!BmapDirect
  <2> QED BY <2>1, <1>1, <1>4, <1>6, FoundKeeps
<1>7. CASE inode[f].addrs[Cur(call[f])] = 0
  <2>1. \/ \E bb \in Disk!Free : Disk!Balloc(bb) /\ Disk!SetAddr(f, Cur(call[f]), bb) /\ Disk!Goto(f, "data")
        \/ Disk!BallocPanic
    BY <1>5, <1>7 DEF Disk!BmapDirect
  <2>2. CASE Disk!BallocPanic
    BY <2>2, <1>1, RestKeeps DEF Disk!BallocPanic
  <2>3. CASE \E bb \in Disk!Free : Disk!Balloc(bb) /\ Disk!SetAddr(f, Cur(call[f]), bb) /\ Disk!Goto(f, "data")
    <3>1. PICK bb \in Disk!Free : Disk!Balloc(bb) /\ Disk!SetAddr(f, Cur(call[f]), bb) /\ Disk!Goto(f, "data")
      BY <2>3
    <3>2. used' = used \cup {bb} /\ UNCHANGED full
      BY <3>1 DEF Disk!Balloc
    <3>3. inode' = [inode EXCEPT ![f].addrs[Cur(call[f])] = bb]
      BY <3>1 DEF Disk!SetAddr
    <3>4. /\ DOMAIN call' = Inodes /\ call'[f] = [call[f] EXCEPT !.pc = "data"]
          /\ \A g \in Inodes \ {f} : call'[g] = call[g]
      BY <3>1, DiskTypes DEF Disk!Goto
    <3> DEFINE kk == Cur(call[f])
    <3>5. kk \in 0 .. NDIRECT /\ kk < NDIRECT /\ kk = Cur(call[f])
      BY <1>1, <1>3
    <3>6. Adr(inode[f], block, Cur(call[f])) = 0 /\ inode[f].addrs[kk] = 0 /\ inode' = [inode EXCEPT ![f].addrs[kk] = bb]
      BY <1>4, <1>7, <3>3
    <3> HIDE DEF kk
    <3>7. "data" \in {"bmap", "data"}
      OBVIOUS
    <3> QED BY <3>2, <3>4, <3>5, <3>6, <3>7, <1>1, InodeGrows
  <2> QED BY <2>1, <2>2, <2>3
<1> QED BY <1>6, <1>7

\* bmap, the indirect block itself (fs.c:331-333).
LEMMA BmapIndirectKeeps ==
  ASSUME Disk!IInv, NEW f \in Inodes, Disk!BmapIndirect(f)
  PROVE  Disk!IInv'
<1>1. /\ Disk!At(f, "bmap") /\ Cur(call[f]) >= NDIRECT /\ inode[f].addrs[NDIRECT] = 0
      /\ UNCHANGED <<block, dinode, contents, dead, calls, crashes>>
  BY FileIs DEF Disk!BmapIndirect, Disk!Ind
<1>2. \/ \E bb \in Disk!Free : Disk!Balloc(bb) /\ Disk!SetAddr(f, NDIRECT, bb) /\ UNCHANGED call
      \/ Disk!BallocPanic
  BY DEF Disk!BmapIndirect
<1>3. CASE Disk!BallocPanic
  BY <1>3, <1>1, RestKeeps DEF Disk!BallocPanic
<1>4. CASE \E bb \in Disk!Free : Disk!Balloc(bb) /\ Disk!SetAddr(f, NDIRECT, bb) /\ UNCHANGED call
  <2>1. PICK bb \in Disk!Free : Disk!Balloc(bb) /\ Disk!SetAddr(f, NDIRECT, bb) /\ UNCHANGED call
    BY <1>4
  <2>2. used' = used \cup {bb} /\ UNCHANGED full
    BY <2>1 DEF Disk!Balloc
  <2>3. inode' = [inode EXCEPT ![f].addrs[NDIRECT] = bb]
    BY <2>1 DEF Disk!SetAddr
  <2>4. /\ DOMAIN call' = Inodes /\ call'[f] = [call[f] EXCEPT !.pc = "bmap"]
        /\ \A g \in Inodes \ {f} : call'[g] = call[g]
    <3>1. call[f] \in Calls /\ call[f].pc = "bmap"
      BY <1>1, AtCall
    <3>2. call[f] = [call[f] EXCEPT !.pc = "bmap"]
      BY <3>1 DEF Calls
    <3> QED BY <2>1, <3>2, DiskTypes
  <2>5. NDIRECT \in 0 .. NDIRECT
    BY DiskConstants
  <2>6. ~(Cur(call[f]) < NDIRECT)
    <3>1. call[f] \in Calls
      BY <1>1, AtCall
    <3>2. call[f].off + call[f].tot \in Nat
      BY <3>1 DEF Calls
    <3>3. Cur(call[f]) \in Nat
      BY <3>2, BlockOfByte DEF Cur
    <3> QED BY <3>3, <1>1, DiskConstants
  <2>7. Adr(inode[f], block, Cur(call[f])) = 0
    BY <1>1, <2>6 DEF Adr
  <2>8. "bmap" \in {"bmap", "data"} /\ "bmap" # "data"
    OBVIOUS
  <2> QED BY <1>1, <2>2, <2>3, <2>4, <2>5, <2>7, <2>8, InodeGrows
<1> QED BY <1>2, <1>3, <1>4

\* bmap, a pointer of the indirect block: it is there, or a block for it is
\* taken (fs.c:334-338).
LEMMA BmapEntryKeeps ==
  ASSUME Disk!IInv, NEW f \in Inodes, Disk!BmapEntry(f)
  PROVE  Disk!IInv'
<1> DEFINE ip == inode[f]
           dp == dinode[f]
           cc == call[f]
           ct == contents[f]
<1>1. /\ Disk!At(f, "bmap") /\ Cur(cc) >= NDIRECT /\ Cur(cc) < Disk!MAXFILE /\ ip.addrs[NDIRECT] # 0
      /\ UNCHANGED <<block, dinode, inode, contents, dead, calls, crashes>>
      /\ IF Adr(ip, block, Cur(cc)) # 0
         THEN Disk!Goto(f, "data") /\ UNCHANGED <<used, full>>
         ELSE \/ \E bb \in Disk!Free :
                   Disk!Balloc(bb) /\ call' = [call EXCEPT ![f].pc = "entry", ![f].got = <<bb>>]
              \/ Disk!BallocPanic
  BY FileIs DEF Disk!BmapEntry, Disk!Ind
<1>2. CASE Adr(ip, block, Cur(cc)) # 0
  BY <1>1, <1>2, FoundKeeps
<1>3. CASE Disk!BallocPanic
  BY <1>3, <1>1, RestKeeps DEF Disk!BallocPanic
<1>4. CASE /\ Adr(ip, block, Cur(cc)) = 0
           /\ \E bb \in Disk!Free :
                Disk!Balloc(bb) /\ call' = [call EXCEPT ![f].pc = "entry", ![f].got = <<bb>>]
  <2>1. PICK bb \in Disk!Free :
               Disk!Balloc(bb) /\ call' = [call EXCEPT ![f].pc = "entry", ![f].got = <<bb>>]
    BY <1>4
  <2> DEFINE cd == [cc EXCEPT !.pc = "entry", !.got = <<bb>>]
  <2>2. used' = used \cup {bb} /\ UNCHANGED full
    BY <2>1 DEF Disk!Balloc
  <2>3. /\ ~dead[f] /\ cc.op \in {"read", "write"} /\ cc.pc = "bmap" /\ cc \in Calls
        /\ CallOk(ip, dp, block, cc, ct) /\ InodeOk(ip, dp, block)
    BY <1>1, AtCall
  <2>4. cc.op = "write"
    BY <1>1, <1>4, HoleIsNew
  <2>5. bb \in Disk!Blocks /\ bb \notin used /\ bb \notin HadBy(f) /\ bb \in Nat
    BY FreeBlock, DiskConstants DEF Disk!Blocks
  <2>6. /\ cd \in Calls /\ cd.pc = "entry" /\ cd.got = <<bb>> /\ cd.tot = cc.tot
        /\ cd.op = cc.op /\ cd.off = cc.off /\ cd.n = cc.n /\ cd.v = cc.v
    <3>1. <<bb>> \in Seq(Nat)
      BY <2>5
    <3> QED BY <2>3, <3>1 DEF Calls
  <2>7. Len(cd.got) = 1 /\ cd.got[1] = bb /\ Cur(cd) = Cur(cc)
    BY <2>6 DEF Cur
  <2>8. /\ call'[f] = cd /\ DOMAIN call' = Inodes /\ DOMAIN contents' = Inodes
        /\ \A g \in Inodes \ {f} : call'[g] = call[g]
    BY <2>1, <1>1, DiskTypes
  <2>9. cd # Disk!Idle
    <3>1. cd.op # Disk!Idle.op
      BY <2>6, <2>4 DEF Disk!Idle
    <3> QED BY <3>1
  <2>10. HadBy(f) = Blks(ip, block)
    BY <2>3, <2>4 DEF HadBy, HadOf
  <2> HIDE DEF ip, dp, cc, ct, cd
  <2>11. cc.tot < cc.n
    BY <2>3 DEF CallOk, PcOk
  <2>12. PcOk(ip, block, cd)
    BY <1>1, <1>4, <2>4, <2>5, <2>6, <2>7, <2>10, <2>11 DEF PcOk
  <2>13. WriteOk(ip, block, cd, ct)
    BY <2>3, <2>4, <2>6 DEF CallOk, WriteOk
  <2>14. CallOk(ip, dp, block, cd, ct)
    BY <2>3, <2>4, <2>6, <2>12, <2>13 DEF CallOk
  <2>15. FileOk(ip, dp, cd, ct, dead[f], crashes, block)
    BY <2>3, <2>4, <2>6, <2>9, <2>14 DEF FileOk
  <2>16. IsThen(f)
    BY <1>1, <2>8, <2>15 DEF IsThen, ip, dp, ct
  <2>17. HadByThen(f) = Blks(ip, block) \cup {bb}
    BY <1>1, <2>3, <2>4, <2>6, <2>7, <2>8 DEF HadByThen, HadOf, ip
  <2>18. Trades(f)
    <3>1. HadBy(f) \subseteq used
      BY DiskFacts
    <3> QED BY <3>1, <1>1, <2>2, <2>5, <2>10, <2>17 DEF Trades
  <2>19. \A g \in Inodes \ {f} : Stays(g)
    BY <1>1, <2>8 DEF Stays
  <2>20. used' \subseteq Disk!Blocks
    BY <2>2, <2>5, DiskTypes
  <2>21. call'[f].op \in {"none", "read", "write", "trunc"}
    BY <2>8, <2>6, <2>4
  <2>22. Disk!TypeOK'
    BY <1>1, <2>2, <2>19, <2>20, <2>21, DiskTypes, TypesThen
  <2> QED BY <1>1, <2>8, <2>16, <2>18, <2>19, <2>22, OneFile
<1> QED BY <1>1, <1>2, <1>3, <1>4

\* The indirect block with one cell changed (fs.c:338): the file has one
\* pointer more.
OneCell(bl, bm, ii, ce, bb) ==
  /\ bm[ii][ce] = bb /\ \A ll \in Disk!Cells : ll # ce => bm[ii][ll] = bl[ii][ll]
  /\ \A xx : xx # ii => bm[xx] = bl[xx]
DataStays(ip, bl, bm) ==
  \A ll \in 0 .. Disk!MAXFILE - 1 : Adr(ip, bl, ll) # 0 => bm[Adr(ip, bl, ll)] = bl[Adr(ip, bl, ll)]
PtrsStay(ip, bl, bm) ==
  \A ll \in 0 .. Disk!MAXFILE - 1 : Adr(ip, bl, ll) # 0 => Adr(ip, bm, ll) = Adr(ip, bl, ll)
LEMMA EntryAdded ==
  ASSUME NEW ip, NEW dp, NEW bl, NEW bm, NEW kk \in 0 .. Disk!MAXFILE - 1, NEW bb, bb # 0,
         kk >= NDIRECT, NEW ce, ce = kk - NDIRECT, ip.addrs[NDIRECT] # 0, Adr(ip, bl, kk) = 0, InodeOk(ip, dp, bl),
         OneCell(bl, bm, ip.addrs[NDIRECT], ce, bb)
  PROVE  Added(ip, bl, ip, bm, kk, bb) /\ DataStays(ip, bl, bm) /\ PtrsStay(dp, bl, bm)
<1> USE DEF OneCell, DataStays, PtrsStay
<1>1. kk \in Disk!Places /\ kk # Disk!MAXFILE /\ ~(kk < NDIRECT)
  BY DiskConstants DEF Disk!Places
<1>2. ASSUME NEW ll \in 0 .. Disk!MAXFILE - 1, ll # kk PROVE Adr(ip, bm, ll) = Adr(ip, bl, ll)
  <2>1. CASE ll < NDIRECT
    BY <2>1 DEF Adr
  <2>2. CASE ~(ll < NDIRECT)
    <3>1. ll - NDIRECT \in Disk!Cells /\ ll - NDIRECT # kk - NDIRECT
      BY <2>2, <1>2, DiskConstants DEF Disk!Cells
    <3> QED BY <3>1, <2>2 DEF Adr
  <2> QED BY <2>1, <2>2
<1>3. Adr(ip, bm, kk) = bb
  BY <1>1 DEF Adr
<1>4. Added(ip, bl, ip, bm, kk, bb)
  <2>1. Ptr(ip, bl, kk) = 0 /\ Ptr(ip, bm, kk) = bb
    BY <1>1, <1>3 DEF Ptr
  <2>2. ASSUME NEW ll \in Disk!Places, ll # kk PROVE Ptr(ip, bm, ll) = Ptr(ip, bl, ll)
    <3>1. CASE ll = Disk!MAXFILE
      BY <3>1 DEF Ptr
    <3>2. CASE ll # Disk!MAXFILE
      BY <3>2, <2>2, <1>2, PlacesAre DEF Ptr
    <3> QED BY <3>1, <3>2
  <2> QED BY <2>1, <2>2 DEF Added
<1>5. ASSUME NEW ll \in 0 .. Disk!MAXFILE - 1, Adr(ip, bl, ll) # 0
      PROVE  bm[Adr(ip, bl, ll)] = bl[Adr(ip, bl, ll)]
  <2>1. Ptr(ip, bl, ll) = Adr(ip, bl, ll) /\ ll \in Disk!Places /\ ll # Disk!MAXFILE
    BY PlacesAre
  <2>2. Ptr(ip, bl, Disk!MAXFILE) = ip.addrs[NDIRECT] /\ Disk!MAXFILE \in Disk!Places
    BY PlacesAre
  <2>3. Adr(ip, bl, ll) # ip.addrs[NDIRECT]
    BY <2>1, <2>2, <1>5 DEF InodeOk, Dst
  <2> QED BY <2>3
<1>6. ASSUME NEW ll \in 0 .. Disk!MAXFILE - 1, Adr(dp, bl, ll) # 0
      PROVE  Adr(dp, bm, ll) = Adr(dp, bl, ll)
  <2>1. CASE ll < NDIRECT
    BY <2>1 DEF Adr
  <2>2. CASE ~(ll < NDIRECT)
    <3>1. Lacks(dp, ip)
      BY DEF InodeOk
    <3>2. dp.addrs[NDIRECT] \in {0, ip.addrs[NDIRECT]}
      BY <3>1, DiskConstants DEF Lacks
    <3>3. dp.addrs[NDIRECT] = ip.addrs[NDIRECT]
      BY <3>2, <2>2, <1>6 DEF Adr
    <3>4. Adr(dp, bl, ll) = Adr(ip, bl, ll) /\ Adr(dp, bm, ll) = Adr(ip, bm, ll)
      BY <3>3, <2>2 DEF Adr
    <3>5. ll # kk
      BY <3>4, <1>6
    <3> QED BY <3>4, <3>5, <1>2
  <2> QED BY <2>1, <2>2
<1> QED BY <1>4, <1>5, <1>6

\* bmap writes the pointer (fs.c:338-339).
LEMMA BmapWriteEntryKeeps ==
  ASSUME Disk!IInv, NEW f \in Inodes, Disk!BmapWriteEntry(f)
  PROVE  Disk!IInv'
<1> DEFINE ip == inode[f]
           dp == dinode[f]
           cc == call[f]
           ct == contents[f]
           bb == cc.got[1]
           ii == ip.addrs[NDIRECT]
           ce == Cur(cc) - NDIRECT
           cd == [cc EXCEPT !.pc = "data", !.got = <<>>]
<1>1. /\ Disk!At(f, "entry") /\ UNCHANGED <<used, dinode, inode, contents, dead, full, calls, crashes>>
      /\ block' = [block EXCEPT ![ii][ce] = bb]
      /\ call' = [call EXCEPT ![f] = cd]
  BY FileIs DEF Disk!BmapWriteEntry, Disk!Ind
<1>2. /\ ~dead[f] /\ cc.op \in {"read", "write"} /\ cc.pc = "entry" /\ cc \in Calls
      /\ CallOk(ip, dp, block, cc, ct) /\ InodeOk(ip, dp, block) /\ ip \in Disk!Inode
      /\ cc.tot <= cc.n /\ cc.off + cc.n <= Disk!MAXFILE * BSIZE
  BY <1>1, AtCall, DiskTypes
<1>3. /\ cd \in Calls /\ cd.pc = "data" /\ cd.tot = cc.tot
      /\ cd.op = cc.op /\ cd.off = cc.off /\ cd.n = cc.n /\ cd.v = cc.v
  <2>1. <<>> \in Seq(Nat)
    OBVIOUS
  <2> QED BY <1>2, <2>1 DEF Calls
<1>4. /\ call'[f] = cd /\ DOMAIN call' = Inodes /\ DOMAIN contents' = Inodes
      /\ \A g \in Inodes \ {f} : call'[g] = call[g]
  BY <1>1, DiskTypes
<1>5. block \in [Disk!Blocks -> [Disk!Cells -> Nat]]
  BY DiskTypes
<1>6. HadBy(f) = Blks(ip, block) \cup {bb}
  BY <1>2 DEF HadBy, HadOf
<1>7. Cur(cd) = Cur(cc)
  BY <1>3 DEF Cur
<1>8. cd # Disk!Idle
  <2>1. cd.op # Disk!Idle.op
    BY <1>3, <1>2 DEF Disk!Idle
  <2> QED BY <2>1
<1>9. PcOk(ip, block, cc)
  BY <1>2 DEF CallOk
<1>10. /\ cc.tot < cc.n /\ cc.op = "write" /\ Cur(cc) >= NDIRECT /\ ii # 0
       /\ Adr(ip, block, Cur(cc)) = 0 /\ bb \in Disk!Blocks \ Blks(ip, block)
  BY <1>9, <1>2 DEF PcOk
<1>11. ~(cc.off + cc.n <= ip.size)
  BY <1>1, <1>10, HoleIsNew
<1>12. Cur(cc) \in 0 .. Disk!MAXFILE - 1
  BY <1>2, <1>10, CallBlocks
<1>13. ce \in Disk!Cells /\ bb \in Nat /\ bb # 0
  BY <1>10, <1>12, DiskConstants DEF Disk!Cells, Disk!Blocks
<1>14. ii \in Blks(ip, block) /\ ii \in Disk!Blocks
  BY <1>2, <1>10, InBlks, WholeHas
<1>15. block' = [block EXCEPT ![ii] = [block[ii] EXCEPT ![ce] = bb]]
  BY <1>1
<1>16. /\ block' \in [Disk!Blocks -> [Disk!Cells -> Nat]] /\ block'[ii] = [block[ii] EXCEPT ![ce] = bb]
       /\ \A xx \in Disk!Blocks : xx # ii => block'[xx] = block[xx]
  BY <1>5, <1>13, <1>14, <1>15
<1>17. block'[ii][ce] = bb /\ \A ll \in Disk!Cells : ll # ce => block'[ii][ll] = block[ii][ll]
  BY <1>5, <1>13, <1>14, <1>16
<1>18. \A xx : xx # ii => block'[xx] = block[xx]
  BY <1>15
<1> HIDE DEF ip, dp, cc, ct, bb, cd
<1>19. /\ Added(ip, block, ip, block', Cur(cc), bb)
       /\ \A ll \in 0 .. Disk!MAXFILE - 1 : Adr(ip, block, ll) # 0 => block'[Adr(ip, block, ll)] = block[Adr(ip, block, ll)]
       /\ \A ll \in 0 .. Disk!MAXFILE - 1 : Adr(dp, block, ll) # 0 => Adr(dp, block', ll) = Adr(dp, block, ll)
  <2>1. /\ Cur(cc) \in 0 .. Disk!MAXFILE - 1 /\ bb # 0 /\ Cur(cc) >= NDIRECT
        /\ ip.addrs[NDIRECT] # 0 /\ Adr(ip, block, Cur(cc)) = 0 /\ InodeOk(ip, dp, block)
        /\ OneCell(block, block', ip.addrs[NDIRECT], ce, bb) /\ ce = Cur(cc) - NDIRECT
    BY <1>2, <1>10, <1>12, <1>13, <1>17, <1>18 DEF OneCell
  <2> HIDE DEF ce
  <2>2. Added(ip, block, ip, block', Cur(cc), bb) /\ DataStays(ip, block, block') /\ PtrsStay(dp, block, block')
    BY ONLY <2>1, EntryAdded
  <2> QED BY <2>2 DEF DataStays, PtrsStay
<1>20. Cur(cc) \in Disk!Places /\ Cur(cc) # Disk!MAXFILE /\ bb \notin Blks(ip, block)
  BY <1>10, <1>12, PlacesAre
<1>21. /\ Blks(ip, block') = Blks(ip, block) \cup {bb} /\ (Dst(ip, block) => Dst(ip, block'))
       /\ \A ll \in 0 .. Disk!MAXFILE - 1 : Adr(ip, block, ll) # 0 => Adr(ip, block', ll) = Adr(ip, block, ll)
  BY ONLY <1>13, <1>19, <1>20, NewPtr
<1>22. \A ll \in 0 .. Disk!MAXFILE - 1 : Adr(ip, block, ll) # 0 =>
          Adr(ip, block', ll) = Adr(ip, block, ll) /\ block'[Adr(ip, block, ll)] = block[Adr(ip, block, ll)]
  BY <1>19, <1>21
<1>23. Adr(ip, block', Cur(cc)) = bb
  BY <1>19, <1>20 DEF Added, Ptr
<1>24. PcOk(ip, block', cd)
  BY <1>3, <1>7, <1>10, <1>13, <1>23 DEF PcOk
<1>25. CallOk(ip, dp, block', cd, ct)
  BY <1>2, <1>3, <1>10, <1>11, <1>22, <1>24, CallGrows
<1>26. InodeOk(ip, dp, block')
  <2>1. ASSUME NEW xx \in 0 .. ip.size - 1 PROVE Adr(dp, block', NB(xx)) # 0
    <3>1. NB(xx) \in 0 .. Disk!MAXFILE - 1
      BY <1>2, SizeBlocks
    <3>2. Adr(dp, block, NB(xx)) # 0
      BY <1>2 DEF InodeOk, Filled
    <3> QED BY <3>1, <3>2, <1>19
  <2>2. Dst(ip, block')
    BY <1>2, <1>21 DEF InodeOk
  <2> QED BY <1>2, <2>1, <2>2 DEF InodeOk, Filled
<1>27. FileOk(ip, dp, cd, ct, dead[f], crashes, block')
  BY <1>2, <1>3, <1>8, <1>25, <1>26 DEF FileOk
<1>28. IsThen(f)
  BY <1>1, <1>4, <1>27 DEF IsThen, ip, dp, ct
<1>29. HadByThen(f) = Blks(ip, block) \cup {bb}
  BY <1>1, <1>2, <1>3, <1>4, <1>21 DEF HadByThen, HadOf, ip
<1>30. Trades(f)
  <2>1. HadBy(f) \subseteq used
    BY DiskFacts
  <2> QED BY <2>1, <1>1, <1>6, <1>14, <1>18, <1>29 DEF Trades
<1>31. \A g \in Inodes \ {f} : Stays(g)
  BY <1>1, <1>4 DEF Stays
<1>32. call'[f].op \in {"none", "read", "write", "trunc"}
  BY <1>4, <1>3, <1>2
<1>33. Disk!TypeOK'
  BY <1>1, <1>16, <1>31, <1>32, DiskTypes, TypesThen
<1> QED BY <1>1, <1>4, <1>28, <1>30, <1>31, <1>33, OneFile

\* readi returns.
LEMMA ReadReturnsKeeps ==
  ASSUME Disk!IInv, NEW f \in Inodes, Disk!ReadReturns(f)
  PROVE  Disk!IInv'
<1>1. /\ Disk!At(f, "return") /\ call' = [call EXCEPT ![f] = Disk!Idle]
      /\ UNCHANGED <<used, block, dinode, inode, contents, dead, full, calls, crashes>>
  BY DEF Disk!ReadReturns
<1>2. /\ ~dead[f] /\ call[f].op \in {"read", "write"} /\ call[f].pc = "return"
      /\ CallOk(inode[f], dinode[f], block, call[f], contents[f]) /\ InodeOk(inode[f], dinode[f], block)
  BY <1>1, AtCall
<1>3. call[f].op = "read"
  BY <1>2 DEF CallOk, PcOk
<1>4. dinode[f] = inode[f]
  BY <1>2, <1>3 DEF CallOk, ReadOk
<1>5. Disk!Idle.op = "none"
  BY DEF Disk!Idle
<1>6. FileOk(inode[f], dinode[f], Disk!Idle, contents[f], dead[f], crashes, block)
  BY <1>2, <1>4, <1>5 DEF FileOk
<1>7. HadOf(inode[f], Disk!Idle, dead[f], block) = HadBy(f)
  BY <1>2, <1>5 DEF HadBy, HadOf
<1>8. full' \in BOOLEAN /\ calls' \in 0 .. MaxCalls
  BY <1>1, DiskTypes
<1> QED BY <1>1, <1>5, <1>6, <1>7, <1>8, CallMoves

\* iupdate at the end of writei, when the file has grown (fs.c:446-449).
LEMMA UpdateKeeps ==
  ASSUME Disk!IInv, NEW f \in Inodes, Disk!Update(f)
  PROVE  Disk!IInv'
<1> DEFINE ip == inode[f]
           dp == dinode[f]
           cc == call[f]
           ct == contents[f]
           jp == Disk!Grown(f)
<1>1. /\ Disk!At(f, "size") /\ call' = [call EXCEPT ![f] = Disk!Idle]
      /\ UNCHANGED <<used, block, contents, dead, full, calls, crashes>>
      /\ IF jp.size > ip.size
         THEN inode' = [inode EXCEPT ![f] = jp] /\ dinode' = [dinode EXCEPT ![f] = jp]
         ELSE UNCHANGED <<inode, dinode>>
  BY DEF Disk!Update
<1>2. /\ ~dead[f] /\ cc.op \in {"read", "write"} /\ cc.pc = "size" /\ cc \in Calls
      /\ CallOk(ip, dp, block, cc, ct) /\ InodeOk(ip, dp, block) /\ ip \in Disk!Inode
      /\ cc.tot <= cc.n /\ cc.off + cc.n <= Disk!MAXFILE * BSIZE
  BY <1>1, AtCall, DiskTypes
<1>3. cc.tot = cc.n /\ cc.op = "write" /\ WriteOk(ip, block, cc, ct)
  BY <1>2 DEF CallOk, PcOk
<1>4. Disk!Idle.op = "none"
  BY DEF Disk!Idle
<1>5. jp.size = cc.off + cc.n /\ jp.addrs = ip.addrs /\ jp \in Disk!Inode
  <2>1. ip.size \in Nat /\ Disk!MAXFILE * BSIZE \in Nat
    BY <1>2, SizeBlocks
  <2>2. cc.off + cc.n \in 0 .. Disk!MAXFILE * BSIZE
    BY <1>2, <2>1 DEF Calls
  <2>3. jp = [ip EXCEPT !.size = cc.off + cc.n]
    BY DEF Disk!Grown
  <2> HIDE DEF jp, ip, cc
  <2> QED BY <1>2, <2>2, <2>3 DEF Disk!Inode
<1>6. /\ DOMAIN call' = Inodes /\ DOMAIN contents' = Inodes /\ call'[f] = Disk!Idle
      /\ \A g \in Inodes \ {f} : call'[g] = call[g]
  BY <1>1, DiskTypes
<1>7. HadBy(f) = Blks(ip, block)
  BY <1>2, <1>3 DEF HadBy, HadOf
<1>8. CASE jp.size > ip.size
  <2>1. /\ inode' = [inode EXCEPT ![f] = jp] /\ dinode' = [dinode EXCEPT ![f] = jp]
    BY <1>1, <1>8
  <2>2. /\ inode' \in [Inodes -> Disk!Inode] /\ dinode' \in [Inodes -> Disk!Inode]
        /\ inode'[f] = jp /\ dinode'[f] = jp
        /\ \A g \in Inodes \ {f} : inode'[g] = inode[g] /\ dinode'[g] = dinode[g]
    BY <2>1, <1>5, DiskTypes
  <2> HIDE DEF ip, dp, cc, ct, jp
  <2>3. \A kk : Adr(jp, block, kk) = Adr(ip, block, kk)
    BY <1>5 DEF Adr
  <2>4. \A kk : Ptr(jp, block, kk) = Ptr(ip, block, kk)
    BY <2>3, <1>5 DEF Ptr
  <2>5. Blks(jp, block) = Blks(ip, block) /\ Dst(jp, block)
    BY <2>4, <1>2 DEF Blks, Dst, InodeOk
  <2>6. Lacks(jp, jp)
    BY DEF Lacks
  <2>7. ASSUME NEW xx \in 0 .. jp.size - 1 PROVE Adr(jp, block, NB(xx)) # 0
    <3>1. CASE xx \in cc.off .. cc.off + cc.tot - 1
      BY <3>1, <1>3, <2>3 DEF WriteOk
    <3>2. CASE xx \notin cc.off .. cc.off + cc.tot - 1
      <4>1. cc.off <= ip.size /\ cc.off \in Nat /\ cc.tot \in Nat /\ ip.size \in Nat
        BY <1>2, SizeBlocks DEF CallOk, Calls
      <4>2. xx \in 0 .. ip.size - 1
        BY <4>1, <3>2, <1>3, <1>5
      <4>3. Adr(dp, block, NB(xx)) # 0 /\ Lacks(dp, ip)
        BY <4>2, <1>2 DEF InodeOk, Filled
      <4>4. \A kk \in 0 .. Disk!MAXFILE - 1 : Adr(dp, block, kk) \in {0, Adr(ip, block, kk)}
        BY <4>3, LackPtrs
      <4>5. NB(xx) \in 0 .. Disk!MAXFILE - 1
        BY <1>5, SizeBlocks
      <4> QED BY <4>3, <4>4, <4>5, <2>3
    <3> QED BY <3>1, <3>2
  <2>8. InodeOk(jp, jp, block)
    BY <2>5, <2>6, <2>7 DEF InodeOk, Filled
  <2>9. FileOk(jp, jp, Disk!Idle, ct, dead[f], crashes, block)
    BY <1>2, <1>4, <2>8 DEF FileOk
  <2>10. IsThen(f)
    BY <1>1, <1>6, <2>2, <2>9 DEF IsThen, ct
  <2>11. HadByThen(f) = Blks(ip, block)
    BY <1>1, <1>2, <1>4, <1>6, <2>2, <2>5 DEF HadByThen, HadOf
  <2>12. Trades(f)
    <3>1. HadBy(f) \subseteq used
      BY DiskFacts
    <3> QED BY <3>1, <1>1, <1>7, <2>11 DEF Trades
  <2>13. \A g \in Inodes \ {f} : Stays(g)
    BY <1>1, <1>6, <2>2 DEF Stays
  <2>14. call'[f].op \in {"none", "read", "write", "trunc"}
    BY <1>4, <1>6
  <2>15. Disk!TypeOK'
    BY <1>1, <2>2, <2>13, <2>14, DiskTypes, TypesThen
  <2> QED BY <1>1, <1>6, <2>10, <2>12, <2>13, <2>15, OneFile
<1>9. CASE ~(jp.size > ip.size)
  <2>1. UNCHANGED <<inode, dinode>>
    BY <1>1, <1>9
  <2>2. ip.size \in Nat /\ cc.off \in Nat /\ cc.n \in Nat
    BY <1>2, SizeBlocks DEF Calls
  <2>3. cc.off + cc.n <= ip.size
    BY <1>9, <1>5, <2>2
  <2>4. dp = ip
    BY <1>2, <2>3 DEF CallOk
  <2>5. FileOk(ip, dp, Disk!Idle, ct, dead[f], crashes, block)
    BY <1>2, <1>4, <2>4 DEF FileOk
  <2>6. HadOf(ip, Disk!Idle, dead[f], block) = HadBy(f)
    BY <1>2, <1>4, <1>7 DEF HadOf
  <2>7. full' \in BOOLEAN /\ calls' \in 0 .. MaxCalls
    BY <1>1, DiskTypes
  <2> QED BY <1>1, <1>4, <2>1, <2>5, <2>6, <2>7, CallMoves
<1> QED BY <1>8, <1>9

\* A file that is being freed.
LEMMA AtTrunc ==
  ASSUME Disk!IInv, NEW f \in Inodes, NEW at \in {"bzero", "bfree"}, Disk!At(f, at)
  PROVE  /\ ~dead[f] /\ call[f].op = "trunc" /\ call[f].pc = at /\ TruncOk(call[f], block)
         /\ HadBy(f) = {call[f].left[kk] : kk \in DOMAIN call[f].left}
         /\ DOMAIN call[f].left \in SUBSET Nat
<1>1. Is(f)
  BY DiskFacts
<1>2. call[f].op # "none" /\ call[f].pc = at
  BY DEF Disk!At
<1>3. call[f] # Disk!Idle
  BY <1>2 DEF Disk!Idle
<1>4. ~dead[f]
  BY <1>1, <1>3 DEF Is, FileOk
<1>5. ~(call[f].op \in {"read", "write"})
  <2> SUFFICES ASSUME call[f].op \in {"read", "write"} PROVE FALSE
    OBVIOUS
  <2>1. call[f] \in Calls
    BY <1>1 DEF Is, FileOk, CallOk
  <2> QED BY <2>1, <1>2 DEF Calls
<1>6. call[f].op = "trunc"
  BY <1>2, <1>5, DiskTypes
<1>7. TruncOk(call[f], block)
  BY <1>1, <1>6 DEF Is, FileOk
<1>8. DOMAIN call[f].left \in SUBSET Nat
  BY <1>7, DiskConstants DEF TruncOk, Disk!Places
<1> QED BY <1>2, <1>4, <1>6, <1>7, <1>8 DEF HadBy, HadOf

\* itrunc begins (fs.c:352-381).
LEMMA ItruncKeeps ==
  ASSUME Disk!IInv, NEW f \in Inodes, Disk!Itrunc(f)
  PROVE  Disk!IInv'
<1> DEFINE ip == inode[f]
           left == Disk!ToFree(ip)
           cc == [op |-> "trunc", pc |-> "bzero", left |-> left]
<1>1. /\ Disk!Quiet(f) /\ call' = [call EXCEPT ![f] = cc] /\ calls' = calls + 1
      /\ contents' = [contents EXCEPT ![f] = <<>>]
      /\ UNCHANGED <<used, block, dinode, inode, dead, full, crashes>>
  BY DEF Disk!Itrunc
<1>2. ~dead[f] /\ call[f] = Disk!Idle /\ calls < MaxCalls /\ call[f].op = "none"
  BY <1>1 DEF Disk!Quiet, Disk!Idle
<1>3. Blks(ip, block) \subseteq Disk!Blocks /\ Dst(ip, block)
  BY <1>2, WholeHas DEF InodeOk
<1>4. left = [kk \in {ll \in Disk!Places : Ptr(ip, block, ll) # 0} |-> Ptr(ip, block, kk)]
  BY FileIs DEF Disk!ToFree
<1>5. cc.op = "trunc" /\ cc.pc = "bzero" /\ cc.left = left /\ cc # Disk!Idle
  BY DEF Disk!Idle
<1>6. /\ DOMAIN left = {ll \in Disk!Places : Ptr(ip, block, ll) # 0}
      /\ \A kk \in DOMAIN left : left[kk] = Ptr(ip, block, kk)
      /\ left = [kk \in DOMAIN left |-> left[kk]]
  BY <1>4
<1>7. cc = [op |-> "trunc", pc |-> cc.pc, left |-> [kk \in DOMAIN cc.left |-> cc.left[kk]]]
  BY <1>6
<1> HIDE DEF ip, left, cc
<1>8. \A kk \in DOMAIN left : left[kk] \in Disk!Blocks
  BY <1>3, <1>6, InBlks
<1>9. \A kk, ll \in DOMAIN left : left[kk] = left[ll] => kk = ll
  BY <1>3, <1>6 DEF Dst
<1>10. TruncOk(cc, block)
  BY <1>5, <1>6, <1>7, <1>8, <1>9 DEF TruncOk
<1>11. FileOk(inode[f], dinode[f], cc, <<>>, dead[f], crashes, block)
  BY <1>2, <1>5, <1>10 DEF FileOk
<1>12. {left[kk] : kk \in DOMAIN left} = Blks(ip, block)
  BY <1>6 DEF Blks
<1>13. HadOf(inode[f], cc, dead[f], block) = HadBy(f)
  BY <1>2, <1>5, <1>12 DEF HadBy, HadOf, ip
<1>14. cc.op \in {"none", "read", "write", "trunc"} /\ full' \in BOOLEAN /\ calls' \in 0 .. MaxCalls
  BY <1>1, <1>2, <1>5, DiskTypes, DiskConstants
<1> QED BY <1>1, <1>11, <1>13, <1>14, CallMoves

\* The first of what is left to free is one of it.
LEMMA FirstIs ==
  ASSUME NEW left, DOMAIN left \in SUBSET Nat, DOMAIN left # {}
  PROVE  Disk!Lowest(DOMAIN left) \in DOMAIN left
BY Least DEF Disk!Lowest

\* A step of itrunc keeps the types.
LEMMA TruncTypes ==
  ASSUME Disk!IInv, NEW f \in Inodes, NEW cd, call' = [call EXCEPT ![f] = cd],
         cd.op \in {"none", "trunc"}, used' \subseteq used,
         UNCHANGED <<contents, dead, full, calls, crashes>>,
         block' \in [Disk!Blocks -> [Disk!Cells -> Nat]],
         inode' \in [Inodes -> Disk!Inode], dinode' \in [Inodes -> Disk!Inode],
         \A g \in Inodes \ {f} : inode'[g] = inode[g] /\ dinode'[g] = dinode[g]
  PROVE  /\ Disk!TypeOK' /\ DOMAIN call' = Inodes /\ DOMAIN contents' = Inodes
         /\ \A g \in Inodes \ {f} : Stays(g)
         /\ call'[f] = cd
<1>1. /\ DOMAIN call' = Inodes /\ DOMAIN contents' = Inodes /\ call'[f] = cd
      /\ \A g \in Inodes \ {f} : call'[g] = call[g]
  BY DiskTypes
<1>3. \A g \in Inodes \ {f} : Stays(g)
  BY <1>1 DEF Stays
<1>4. call'[f].op \in {"none", "read", "write", "trunc"}
  BY <1>1
<1>5. used' \subseteq Disk!Blocks
  BY DiskTypes
<1>6. Disk!TypeOK'
  BY <1>3, <1>4, <1>5, DiskTypes, TypesThen
<1> QED BY <1>1, <1>3, <1>6

\* bfree zeroes the block (fs.c:216, 174).
LEMMA BzeroKeeps ==
  ASSUME Disk!IInv, NEW f \in Inodes, Disk!Bzero(f)
  PROVE  Disk!IInv'
<1> DEFINE cc == call[f]
           bb == cc.left[Head1(cc)]
           cd == [op |-> "trunc", pc |-> "bfree", left |-> cc.left]
<1>1. /\ Disk!At(f, "bzero") /\ DOMAIN cc.left # {} /\ block' = [block EXCEPT ![bb] = Disk!Zero]
      /\ call' = [call EXCEPT ![f].pc = "bfree"]
      /\ UNCHANGED <<used, dinode, inode, contents, dead, full, calls, crashes>>
  BY DEF Disk!Bzero, Disk!Goto, Disk!Left, Disk!First, Head1
<1>2. /\ ~dead[f] /\ cc.op = "trunc" /\ TruncOk(cc, block)
      /\ HadBy(f) = {cc.left[kk] : kk \in DOMAIN cc.left} /\ DOMAIN cc.left \in SUBSET Nat
  BY <1>1, AtTrunc
<1>3. cc = [op |-> "trunc", pc |-> cc.pc, left |-> cc.left] /\ cc.left = [kk \in DOMAIN cc.left |-> cc.left[kk]]
  BY <1>2 DEF TruncOk
<1>4. [cc EXCEPT !.pc = "bfree"] = cd
  BY <1>3
<1>5. call' = [call EXCEPT ![f] = cd]
  BY <1>1, <1>4
<1>6. cd.op = "trunc" /\ cd.pc = "bfree" /\ cd.left = cc.left /\ cd # Disk!Idle
  BY DEF Disk!Idle
<1>7. /\ inode' \in [Inodes -> Disk!Inode] /\ dinode' \in [Inodes -> Disk!Inode]
      /\ \A g \in Inodes \ {f} : inode'[g] = inode[g] /\ dinode'[g] = dinode[g]
  BY <1>1, DiskTypes
<1>8. Head1(cc) \in DOMAIN cc.left
  BY <1>1, <1>2, FirstIs DEF Head1
<1>9. bb \in HadBy(f) /\ bb \in Disk!Blocks
  BY <1>2, <1>8 DEF TruncOk
<1>10. /\ block' \in [Disk!Blocks -> [Disk!Cells -> Nat]] /\ block'[bb] = Disk!Zero
       /\ \A xx : xx # bb => block'[xx] = block[xx]
  <2>1. block \in [Disk!Blocks -> [Disk!Cells -> Nat]] /\ Disk!Zero \in [Disk!Cells -> Nat]
    BY DiskTypes DEF Disk!Zero
  <2> QED BY <2>1, <1>1, <1>9
<1> HIDE DEF cc, bb, cd
<1>11. /\ Disk!TypeOK' /\ DOMAIN call' = Inodes /\ DOMAIN contents' = Inodes
       /\ \A g \in Inodes \ {f} : Stays(g)
       /\ call'[f] = cd
  <2>1. cd.op \in {"none", "trunc"} /\ used' \subseteq used
    BY <1>1, <1>6
  <2> QED BY <2>1, <1>1, <1>5, <1>7, <1>10, TruncTypes
<1>12. Head1(cd) = Head1(cc)
  BY <1>6 DEF Head1
<1>13. TruncOk(cd, block')
  <2>1. cd = [op |-> "trunc", pc |-> cd.pc, left |-> [kk \in DOMAIN cd.left |-> cd.left[kk]]]
    BY <1>3, <1>6 DEF cd
  <2>2. cd.left[Head1(cd)] = bb
    BY <1>6, <1>12 DEF bb
  <2> QED BY <2>1, <2>2, <1>1, <1>2, <1>6, <1>10 DEF TruncOk
<1>14. FileOk(inode[f], dinode[f], cd, contents[f], dead[f], crashes, block')
  BY <1>2, <1>6, <1>13 DEF FileOk
<1>15. IsThen(f)
  BY <1>1, <1>11, <1>14 DEF IsThen
<1>16. HadByThen(f) = HadBy(f)
  <2>1. dead'[f] = FALSE
    BY <1>1, <1>2, DiskTypes
  <2>2. HadByThen(f) = {cd.left[kk] : kk \in DOMAIN cd.left}
    BY <2>1, <1>6, <1>11 DEF HadByThen, HadOf
  <2> QED BY <2>2, <1>2, <1>6
<1>17. Trades(f)
  <2>1. HadBy(f) \subseteq used
    BY DiskFacts
  <2> QED BY <2>1, <1>1, <1>9, <1>10, <1>16 DEF Trades
<1> QED BY <1>1, <1>11, <1>15, <1>17, OneFile

\* bfree marks the block free (fs.c:219-224).
LEMMA BfreeKeeps ==
  ASSUME Disk!IInv, NEW f \in Inodes, Disk!Bfree(f)
  PROVE  Disk!IInv'
<1> DEFINE cc == call[f]
           hh == Head1(cc)
           bb == cc.left[hh]
           rest == [kk \in DOMAIN cc.left \ {hh} |-> cc.left[kk]]
           cd == [op |-> "trunc", pc |-> "bzero", left |-> rest]
<1>1. /\ Disk!At(f, "bfree") /\ used' = used \ {bb}
      /\ call' = [call EXCEPT ![f].pc = "bzero", ![f].left = rest]
      /\ UNCHANGED <<block, dinode, inode, contents, dead, full, calls, crashes>>
  BY DEF Disk!Bfree, Disk!Left, Disk!First, Head1
<1>2. /\ ~dead[f] /\ cc.op = "trunc" /\ cc.pc = "bfree" /\ TruncOk(cc, block)
      /\ HadBy(f) = {cc.left[kk] : kk \in DOMAIN cc.left} /\ DOMAIN cc.left \in SUBSET Nat
  BY <1>1, AtTrunc
<1>3. cc = [op |-> "trunc", pc |-> cc.pc, left |-> cc.left]
  BY <1>2 DEF TruncOk
<1>4. [cc EXCEPT !.pc = "bzero", !.left = rest] = cd
  <2> HIDE DEF rest
  <2> DEFINE Ts == [op : {"trunc"}, pc : {"bzero", "bfree"}, left : {cc.left, rest}]
             ce == [cc EXCEPT !.pc = "bzero", !.left = rest]
  <2>1. cc \in Ts
    BY <1>2, <1>3
  <2> HIDE DEF cc
  <2>2. ce \in Ts /\ ce.pc = "bzero" /\ ce.left = rest
    BY <2>1
  <2>3. cd \in Ts /\ cd.pc = "bzero" /\ cd.left = rest
    OBVIOUS
  <2> HIDE DEF ce, cd
  <2>4. ce = cd
    BY <2>2, <2>3
  <2> QED BY <2>4 DEF ce
<1>5. call' = [call EXCEPT ![f] = cd]
  BY <1>1, <1>4
<1>6. cd.op = "trunc" /\ cd.pc = "bzero" /\ cd.left = rest /\ cd # Disk!Idle
  BY DEF Disk!Idle
<1>7. /\ inode' \in [Inodes -> Disk!Inode] /\ dinode' \in [Inodes -> Disk!Inode]
      /\ \A g \in Inodes \ {f} : inode'[g] = inode[g] /\ dinode'[g] = dinode[g]
  BY <1>1, DiskTypes
<1>8. DOMAIN cc.left # {} /\ block[bb] = Disk!Zero
  BY <1>2 DEF TruncOk
<1>9. hh \in DOMAIN cc.left
  BY <1>8, <1>2, FirstIs DEF Head1
<1>10. /\ DOMAIN rest = DOMAIN cc.left \ {hh} /\ \A kk \in DOMAIN rest : rest[kk] = cc.left[kk]
       /\ rest = [kk \in DOMAIN rest |-> rest[kk]]
  OBVIOUS
<1>11. cd = [op |-> "trunc", pc |-> cd.pc, left |-> [kk \in DOMAIN cd.left |-> cd.left[kk]]]
  BY <1>6, <1>10
<1> HIDE DEF cc, hh, bb, rest, cd
<1>12. \A kk, ll \in DOMAIN cc.left : cc.left[kk] = cc.left[ll] => kk = ll
  BY <1>2 DEF TruncOk
<1>13. {rest[kk] : kk \in DOMAIN rest} = HadBy(f) \ {bb}
  <2>1. \A kk \in DOMAIN rest : rest[kk] \in HadBy(f) /\ rest[kk] # bb
    BY <1>2, <1>9, <1>10, <1>12 DEF bb
  <2>2. ASSUME NEW xx \in HadBy(f) \ {bb} PROVE \E kk \in DOMAIN rest : xx = rest[kk]
    <3>1. PICK kk \in DOMAIN cc.left : xx = cc.left[kk]
      BY <2>2, <1>2
    <3>2. kk # hh
      BY <3>1, <2>2 DEF bb
    <3> QED BY <3>1, <3>2, <1>10
  <2> QED BY <2>1, <2>2
<1>14. bb \in HadBy(f)
  BY <1>2, <1>9 DEF bb
<1>15. /\ Disk!TypeOK' /\ DOMAIN call' = Inodes /\ DOMAIN contents' = Inodes
       /\ \A g \in Inodes \ {f} : Stays(g)
       /\ call'[f] = cd
  <2>1. cd.op \in {"none", "trunc"}
    BY <1>6
  <2>2. block' \in [Disk!Blocks -> [Disk!Cells -> Nat]] /\ used' \subseteq used
    BY <1>1, DiskTypes
  <2> QED BY <2>1, <2>2, <1>1, <1>5, <1>7, TruncTypes
<1>16. TruncOk(cd, block')
  BY <1>2, <1>6, <1>10, <1>11, <1>12 DEF TruncOk
<1>17. FileOk(inode[f], dinode[f], cd, contents[f], dead[f], crashes, block')
  BY <1>2, <1>6, <1>16 DEF FileOk
<1>18. IsThen(f)
  BY <1>1, <1>15, <1>17 DEF IsThen
<1>19. HadByThen(f) = HadBy(f) \ {bb}
  <2>1. {cd.left[kk] : kk \in DOMAIN cd.left} = HadBy(f) \ {bb}
    BY <1>6, <1>13
  <2>2. HadByThen(f) = HadOf(inode[f], cd, dead[f], block)
    BY <1>1, <1>15 DEF HadByThen
  <2>3. HadOf(inode[f], cd, dead[f], block) = {cd.left[kk] : kk \in DOMAIN cd.left}
    BY <1>2, <1>6 DEF HadOf
  <2> QED BY <2>1, <2>2, <2>3
<1>20. Trades(f)
  <2>1. HadBy(f) \subseteq used
    BY DiskFacts
  <2> QED BY <2>1, <1>1, <1>8, <1>14, <1>19 DEF Trades
<1> QED BY <1>1, <1>15, <1>18, <1>20, OneFile

\* A new file has nothing.
LEMMA EmptyIs ==
  ASSUME NEW bl
  PROVE  /\ InodeOk(Disk!Empty, Disk!Empty, bl) /\ Blks(Disk!Empty, bl) = {}
         /\ Disk!Empty \in Disk!Inode
<1>1. Disk!Empty.size = 0 /\ Disk!Empty.addrs = [kk \in 0 .. NDIRECT |-> 0]
  BY DEF Disk!Empty
<1>2. \A kk \in 0 .. NDIRECT : Disk!Empty.addrs[kk] = 0
  BY <1>1
<1>3. Disk!Empty.addrs[NDIRECT] = 0
  BY <1>2, DiskConstants
<1>4. \A kk \in 0 .. Disk!MAXFILE - 1 : Adr(Disk!Empty, bl, kk) = 0
  <2> TAKE kk \in 0 .. Disk!MAXFILE - 1
  <2>1. kk < NDIRECT => kk \in 0 .. NDIRECT
    BY DiskConstants
  <2> QED BY <2>1, <1>2, <1>3 DEF Adr
<1>5. \A kk \in Disk!Places : Ptr(Disk!Empty, bl, kk) = 0
  BY <1>3, <1>4, PlacesAre
<1>6. Blks(Disk!Empty, bl) = {} /\ Dst(Disk!Empty, bl)
  BY <1>5 DEF Blks, Dst
<1>7. Lacks(Disk!Empty, Disk!Empty)
  BY DEF Lacks
<1>8. Filled(Disk!Empty, bl, Disk!Empty.size)
  BY <1>1 DEF Filled
<1>9. Disk!Empty \in Disk!Inode
  <2>1. Disk!MAXFILE * BSIZE \in Nat
    BY DiskConstants
  <2> QED BY <2>1, DiskConstants DEF Disk!Empty, Disk!Inode
<1> QED BY <1>6, <1>7, <1>8, <1>9 DEF InodeOk

\* itrunc ends with an empty inode on the disk (fs.c:382-383).
LEMMA TruncatedKeeps ==
  ASSUME Disk!IInv, NEW f \in Inodes, Disk!Truncated(f)
  PROVE  Disk!IInv'
<1>1. /\ Disk!At(f, "bzero") /\ DOMAIN call[f].left = {}
      /\ inode' = [inode EXCEPT ![f] = Disk!Empty] /\ dinode' = [dinode EXCEPT ![f] = Disk!Empty]
      /\ call' = [call EXCEPT ![f] = Disk!Idle]
      /\ UNCHANGED <<used, block, contents, dead, full, calls, crashes>>
  BY DEF Disk!Truncated, Disk!Left
<1>2. ~dead[f] /\ HadBy(f) = {}
  BY <1>1, AtTrunc
<1>3. Disk!Idle.op = "none"
  BY DEF Disk!Idle
<1>5. /\ InodeOk(Disk!Empty, Disk!Empty, block) /\ Blks(Disk!Empty, block) = {}
      /\ Disk!Empty \in Disk!Inode
  BY EmptyIs
<1>6. /\ Disk!TypeOK' /\ DOMAIN call' = Inodes /\ DOMAIN contents' = Inodes
      /\ \A g \in Inodes \ {f} : Stays(g)
      /\ call'[f] = Disk!Idle /\ inode'[f] = Disk!Empty /\ dinode'[f] = Disk!Empty
  <2>1. block' \in [Disk!Blocks -> [Disk!Cells -> Nat]] /\ used' \subseteq used
    BY <1>1, DiskTypes
  <2>2. /\ inode' \in [Inodes -> Disk!Inode] /\ dinode' \in [Inodes -> Disk!Inode]
        /\ inode'[f] = Disk!Empty /\ dinode'[f] = Disk!Empty
        /\ \A g \in Inodes \ {f} : inode'[g] = inode[g] /\ dinode'[g] = dinode[g]
    BY <1>1, <1>5, DiskTypes
  <2>3. Disk!Idle.op \in {"none", "trunc"}
    BY <1>3
  <2> QED BY <2>1, <2>2, <2>3, <1>1, TruncTypes
<1>7. FileOk(Disk!Empty, Disk!Empty, Disk!Idle, contents[f], dead[f], crashes, block)
  BY <1>2, <1>3, <1>5 DEF FileOk
<1>8. IsThen(f)
  BY <1>1, <1>6, <1>7 DEF IsThen
<1>9. HadByThen(f) = {}
  BY <1>1, <1>2, <1>3, <1>5, <1>6 DEF HadByThen, HadOf
<1>10. Trades(f)
  BY <1>1, <1>2, <1>9 DEF Trades
<1> QED BY <1>1, <1>6, <1>8, <1>10, OneFile

(* How many bytes of its block a call does at once, and where in it it is. *)
At1(cc) == OB(cc.off + cc.tot)
Mm(cc)  == IF cc.n - cc.tot < BSIZE - At1(cc) THEN cc.n - cc.tot ELSE BSIZE - At1(cc)

\* At least one, no more than are left of the call or of the block (fs.c:414, 440).
LEMMA StepIs ==
  ASSUME NEW cc \in Calls, cc.tot < cc.n
  PROVE  /\ Mm(cc) \in Nat \ {0} /\ cc.tot + Mm(cc) <= cc.n /\ At1(cc) + Mm(cc) <= BSIZE
         /\ cc.off + cc.tot \in Nat /\ At1(cc) \in Disk!Cells /\ At1(cc) \in Nat
<1>1. cc.off \in Nat /\ cc.tot \in Nat /\ cc.n \in Nat /\ cc.off + cc.tot \in Nat
  BY DEF Calls
<1>2. At1(cc) \in Disk!Cells
  BY <1>1, BlockOfByte DEF At1
<1>3. At1(cc) \in Nat /\ At1(cc) < BSIZE
  BY <1>2, DiskConstants DEF Disk!Cells
<1>4. CASE cc.n - cc.tot < BSIZE - At1(cc)
  BY <1>1, <1>2, <1>3, <1>4, DiskConstants DEF Mm
<1>5. CASE ~(cc.n - cc.tot < BSIZE - At1(cc))
  BY <1>1, <1>2, <1>3, <1>5, DiskConstants DEF Mm
<1> QED BY <1>4, <1>5

\* The bytes that this step reaches are those from the call's place on.
LEMMA Reached ==
  ASSUME NEW cc \in Calls, cc.tot < cc.n, NEW xx \in Nat
  PROVE  /\ NB(xx) = Cur(cc) =>
              (At1(cc) <= OB(xx) /\ OB(xx) < At1(cc) + Mm(cc)
                 <=> cc.off + cc.tot <= xx /\ xx < cc.off + cc.tot + Mm(cc))
         /\ cc.off + cc.tot <= xx /\ xx < cc.off + cc.tot + Mm(cc) => NB(xx) = Cur(cc)
<1> DEFINE yy == cc.off + cc.tot
           mm == Mm(cc)
           at == At1(cc)
<1>1. mm \in Nat /\ at + mm <= BSIZE /\ yy \in Nat /\ at \in Nat
  BY StepIs
<1>2. at = OB(yy) /\ Cur(cc) = NB(yy)
  BY DEF At1, Cur
<1>3. OB(xx) \in Nat
  BY QuotientOf, DiskConstants
<1> HIDE DEF yy, mm, at
<1>4. ASSUME NB(xx) = NB(yy)
      PROVE  at <= OB(xx) /\ OB(xx) < at + mm <=> yy <= xx /\ xx < yy + mm
  <2>1. yy - xx = OB(yy) - OB(xx)
    BY <1>1, <1>4, SameBlock
  <2> QED BY <2>1, <1>1, <1>2, <1>3
<1>5. ASSUME yy <= xx, xx < yy + mm PROVE NB(xx) = NB(yy)
  <2>1. xx - yy \in Nat /\ yy + (xx - yy) = xx /\ OB(yy) + (xx - yy) < BSIZE
    BY <1>1, <1>2, <1>5, DiskConstants
  <2>2. NB(yy + (xx - yy)) = NB(yy)
    BY <1>1, <2>1, BytesAfter
  <2> QED BY <2>1, <2>2
<1> QED BY <1>2, <1>4, <1>5 DEF yy, mm, at

\* Pointers depend on the inode and the indirect block only.
LEMMA IndPtrs ==
  ASSUME NEW ip, NEW bl, NEW bm, ip.addrs[NDIRECT] # 0 => bm[ip.addrs[NDIRECT]] = bl[ip.addrs[NDIRECT]]
  PROVE  /\ \A kk : Adr(ip, bm, kk) = Adr(ip, bl, kk)
         /\ Blks(ip, bm) = Blks(ip, bl) /\ (Dst(ip, bm) <=> Dst(ip, bl))
<1>2. \A kk : Adr(ip, bm, kk) = Adr(ip, bl, kk)
  BY DEF Adr
<1>3. \A kk : Ptr(ip, bm, kk) = Ptr(ip, bl, kk)
  BY <1>2 DEF Ptr
<1> QED BY <1>2, <1>3 DEF Blks, Dst

\* What writei has written is what it had, and the bytes of this step; the
\* others it leaves as they were (fs.c:440-443).
LEMMA WriteOkThen ==
  ASSUME NEW ip \in Disk!Inode, NEW bl, NEW bm, NEW cc \in Calls, NEW cd \in Calls, NEW ct, NEW bb,
         cc.tot < cc.n, cc.off + cc.n <= Disk!MAXFILE * BSIZE, WriteOk(ip, bl, cc, ct), Dst(ip, bl),
         bb # 0, Adr(ip, bl, Cur(cc)) = bb, \A kk : Adr(ip, bm, kk) = Adr(ip, bl, kk),
         \A xx : xx # bb => bm[xx] = bl[xx],
         \A oo \in Disk!Cells : At1(cc) <= oo /\ oo < At1(cc) + Mm(cc) => bm[bb][oo] = cc.v,
         \A oo \in Disk!Cells : ~(At1(cc) <= oo /\ oo < At1(cc) + Mm(cc)) => bm[bb][oo] = bl[bb][oo],
         cd.off = cc.off, cd.v = cc.v, cd.tot = cc.tot + Mm(cc)
  PROVE  WriteOk(ip, bm, cd, ct)
<1> DEFINE yy == cc.off + cc.tot
           mm == Mm(cc)
<1>1. /\ mm \in Nat /\ cc.tot + mm <= cc.n /\ yy \in Nat
      /\ cc.off \in Nat /\ cc.tot \in Nat /\ cc.n \in Nat
  BY StepIs DEF Calls
<1>2. cd.off + cd.tot = yy + mm
  BY <1>1
<1>3. Cur(cc) \in 0 .. Disk!MAXFILE - 1
  <2>1. cc.tot <= cc.n
    BY <1>1
  <2> HIDE DEF yy, mm
  <2> QED BY <2>1, CallBlocks
<1>4. Disk!MAXFILE * BSIZE \in Nat
  BY DiskConstants
<1>5. \A xx \in Nat : xx < yy + mm => xx < Disk!MAXFILE * BSIZE
  BY <1>1, <1>4
<1> HIDE DEF yy, mm
<1>6. ASSUME NEW xx \in Nat, NB(xx) \in 0 .. Disk!MAXFILE - 1, OB(xx) \in Disk!Cells
      PROVE  /\ NB(xx) # Cur(cc) => Byt(ip, bm, xx) = Byt(ip, bl, xx)
             /\ NB(xx) = Cur(cc) => Byt(ip, bl, xx) = bl[bb][OB(xx)] /\ Byt(ip, bm, xx) = bm[bb][OB(xx)]
  <2>1. ASSUME NB(xx) # Cur(cc) PROVE Byt(ip, bm, xx) = Byt(ip, bl, xx)
    <3>1. Adr(ip, bl, NB(xx)) # bb
      <4>1. Ptr(ip, bl, NB(xx)) = Adr(ip, bl, NB(xx)) /\ NB(xx) \in Disk!Places
        BY <1>6, PlacesAre
      <4>2. Ptr(ip, bl, Cur(cc)) = Adr(ip, bl, Cur(cc)) /\ Cur(cc) \in Disk!Places
        BY <1>3, PlacesAre
      <4> QED BY <4>1, <4>2, <2>1 DEF Dst
    <3> QED BY <3>1 DEF Byt
  <2>2. ASSUME NB(xx) = Cur(cc)
        PROVE  Byt(ip, bl, xx) = bl[bb][OB(xx)] /\ Byt(ip, bm, xx) = bm[bb][OB(xx)]
    BY <2>2 DEF Byt
  <2> QED BY <2>1, <2>2
<1>7. ASSUME NEW xx \in Nat, NB(xx) = Cur(cc)
      PROVE  At1(cc) <= OB(xx) /\ OB(xx) < At1(cc) + Mm(cc) <=> yy <= xx /\ xx < yy + mm
  BY <1>7, Reached DEF yy, mm
<1>8. ASSUME NEW xx \in cd.off .. cd.off + cd.tot - 1
      PROVE  Adr(ip, bm, NB(xx)) # 0 /\ Byt(ip, bm, xx) = cd.v
  <2>a. xx \in cc.off .. (yy + mm) - 1
    <3>1. cd.off \in Nat /\ cd.tot \in Nat /\ cd.off = cc.off
      BY DEF Calls
    <3> QED BY <3>1, <1>1, <1>2, <1>8
  <2>1. xx \in Nat /\ cc.off <= xx /\ xx < yy + mm
    BY <2>a, <1>1
  <2>2. NB(xx) \in 0 .. Disk!MAXFILE - 1 /\ OB(xx) \in Disk!Cells
    BY <2>1, <1>5, BlockOfByte
  <2>3. CASE yy <= xx
    <3>1. NB(xx) = Cur(cc)
      BY <2>1, <2>3, Reached DEF yy, mm
    <3>2. bm[bb][OB(xx)] = cc.v
      BY <3>1, <2>1, <2>2, <2>3, <1>7
    <3> QED BY <3>1, <3>2, <2>1, <2>2, <1>6
  <2>4. CASE ~(yy <= xx)
    <3>1. xx \in cc.off .. cc.off + cc.tot - 1
      BY <2>1, <2>4, <1>1 DEF yy
    <3>2. Adr(ip, bl, NB(xx)) # 0 /\ Byt(ip, bl, xx) = cc.v
      BY <3>1 DEF WriteOk
    <3>3. CASE NB(xx) # Cur(cc)
      BY <3>2, <3>3, <2>1, <2>2, <1>6
    <3>4. CASE NB(xx) = Cur(cc)
      <4>1. bm[bb][OB(xx)] = bl[bb][OB(xx)]
        BY <3>4, <2>1, <2>2, <2>4, <1>7
      <4> QED BY <4>1, <3>2, <3>4, <2>1, <2>2, <1>6
    <3> QED BY <3>3, <3>4
  <2> QED BY <2>3, <2>4
<1>9. ASSUME NEW xx \in 0 .. ip.size - 1, xx < cd.off \/ cd.off + cd.tot <= xx
      PROVE  Byt(ip, bm, xx) = ct[xx + 1]
  <2>1. xx \in Nat /\ (xx < cc.off \/ yy + mm <= xx)
    BY <1>9, <1>2, SizeBlocks
  <2>2. NB(xx) \in 0 .. Disk!MAXFILE - 1 /\ OB(xx) \in Disk!Cells
    BY SizeBlocks
  <2>3. xx < cc.off \/ cc.off + cc.tot <= xx
    BY <2>1, <1>1 DEF yy
  <2>4. Byt(ip, bl, xx) = ct[xx + 1]
    BY <2>3 DEF WriteOk
  <2>5. CASE NB(xx) # Cur(cc)
    BY <2>1, <2>2, <2>4, <2>5, <1>6
  <2>6. CASE NB(xx) = Cur(cc)
    <3>1. ~(yy <= xx /\ xx < yy + mm)
      BY <2>1, <1>1 DEF yy
    <3>2. bm[bb][OB(xx)] = bl[bb][OB(xx)]
      BY <3>1, <2>1, <2>2, <2>6, <1>7
    <3> QED BY <3>2, <2>1, <2>2, <2>4, <2>6, <1>6
  <2> QED BY <2>5, <2>6
<1> QED BY <1>8, <1>9 DEF WriteOk

\* FileBlocks computes these.
LEMMA StepOf ==
  ASSUME NEW f \in Inodes
  PROVE  /\ Disk!Place(f) = At1(call[f]) /\ Disk!m(f) = Mm(call[f])
         /\ \A oo : Disk!Reaches(f, oo) <=> At1(call[f]) <= oo /\ oo < At1(call[f]) + Mm(call[f])
<1>1. Disk!Place(f) = At1(call[f])
  BY DEF Disk!Place, At1, OB
<1>2. Disk!m(f) = Mm(call[f])
  BY <1>1 DEF Disk!m, Mm
<1> QED BY <1>1, <1>2 DEF Disk!Reaches

\* A call that has done one block more.
Stepped(cc, gg, at) ==
  [cc EXCEPT !.tot = cc.tot + Mm(cc), !.got = gg, !.pc = IF cc.tot + Mm(cc) = cc.n THEN at ELSE "bmap"]
LEMMA StepCall ==
  ASSUME NEW cc \in Calls, cc.tot < cc.n, NEW gg \in Seq(Nat), NEW at \in {"size", "return"},
         NEW cd, cd = Stepped(cc, gg, at)
  PROVE  /\ cd \in Calls /\ cd.op = cc.op /\ cd.off = cc.off /\ cd.n = cc.n /\ cd.v = cc.v
         /\ cd.tot = cc.tot + Mm(cc) /\ cd.got = gg /\ cd.tot <= cd.n
         /\ cd.pc \in {"bmap", at} /\ (cd.pc = "bmap" => cd.tot < cd.n) /\ (cd.pc = at => cd.tot = cd.n)
<1> DEFINE tt == cc.tot + Mm(cc)
<1>1. Mm(cc) \in Nat \ {0} /\ tt <= cc.n
  BY StepIs
<1>2. cc.tot \in Nat /\ cc.n \in Nat
  BY DEF Calls
<1>3. tt \in Nat
  BY <1>1, <1>2
<1> HIDE DEF tt
<1>4. cd = [cc EXCEPT !.tot = tt, !.got = gg, !.pc = IF tt = cc.n THEN at ELSE "bmap"]
  BY DEF tt, Stepped
<1>5. /\ cd \in Calls /\ cd.op = cc.op /\ cd.off = cc.off /\ cd.n = cc.n /\ cd.v = cc.v
      /\ cd.tot = tt /\ cd.got = gg /\ cd.pc = IF tt = cc.n THEN at ELSE "bmap"
  BY <1>3, <1>4 DEF Calls
<1> QED BY <1>1, <1>2, <1>3, <1>5 DEF tt

\* One block of writei (fs.c:438-443).
LEMMA WriteBlockKeeps ==
  ASSUME Disk!IInv, NEW f \in Inodes, Disk!WriteBlock(f)
  PROVE  Disk!IInv'
<1> DEFINE ip == inode[f]
           dp == dinode[f]
           cc == call[f]
           ct == contents[f]
           bb == Adr(ip, block, Cur(cc))
           cd == Stepped(cc, cc.got, "size")
           reach(oo) == At1(cc) <= oo /\ oo < At1(cc) + Mm(cc)
<1>1. /\ Disk!At(f, "data") /\ cc.op = "write"
      /\ block' = [block EXCEPT ![bb] = [oo \in Disk!Cells |-> IF reach(oo) THEN cc.v ELSE block[bb][oo]]]
      /\ call' = [call EXCEPT ![f].tot = cc.tot + Mm(cc),
                              ![f].pc = IF cc.tot + Mm(cc) = cc.n THEN "size" ELSE "bmap"]
      /\ UNCHANGED <<used, dinode, inode, contents, dead, full, calls, crashes>>
  BY FileIs, StepOf DEF Disk!WriteBlock
<1>2. /\ ~dead[f] /\ cc.pc = "data" /\ cc \in Calls
      /\ CallOk(ip, dp, block, cc, ct) /\ InodeOk(ip, dp, block) /\ ip \in Disk!Inode
      /\ cc.tot <= cc.n /\ cc.off + cc.n <= Disk!MAXFILE * BSIZE
  BY <1>1, AtCall, DiskTypes
<1>3. call' = [call EXCEPT ![f] = cd]
  <2>1. [cc EXCEPT !.tot = cc.tot + Mm(cc), !.pc = IF cc.tot + Mm(cc) = cc.n THEN "size" ELSE "bmap"] = cd
    BY <1>2 DEF Calls, Stepped
  <2> QED BY <1>1, <2>1
<1>4. HadBy(f) = Blks(ip, block)
  BY <1>1, <1>2 DEF HadBy, HadOf
<1>5. cc.tot < cc.n /\ bb # 0
  BY <1>2 DEF CallOk, PcOk
<1>6. cc.got \in Seq(Nat) /\ cc.v \in Nat
  BY <1>2 DEF Calls
<1>7. block \in [Disk!Blocks -> [Disk!Cells -> Nat]]
  BY DiskTypes
<1>8. \A oo : reach(oo) <=> At1(cc) <= oo /\ oo < At1(cc) + Mm(cc)
  OBVIOUS
<1>a. cd = Stepped(cc, cc.got, "size")
  OBVIOUS
<1> HIDE DEF ip, dp, cc, ct, cd, reach
<1>9. /\ cd \in Calls /\ cd.op = cc.op /\ cd.off = cc.off /\ cd.n = cc.n /\ cd.v = cc.v
      /\ cd.tot = cc.tot + Mm(cc) /\ cd.tot <= cd.n
      /\ cd.pc \in {"bmap", "size"} /\ (cd.pc = "bmap" => cd.tot < cd.n) /\ (cd.pc = "size" => cd.tot = cd.n)
  BY <1>2, <1>5, <1>6, <1>a, StepCall
<1>10. Cur(cc) \in 0 .. Disk!MAXFILE - 1
  BY <1>2, <1>5, CallBlocks
<1>11. bb \in Blks(ip, block)
  BY <1>5, <1>10, InBlks
<1>12. bb \in Disk!Blocks
  BY <1>1, <1>2, <1>11, WholeHas DEF ip, cc
<1>13. ip.addrs[NDIRECT] # bb
  <2>1. Ptr(ip, block, Cur(cc)) = bb /\ Cur(cc) \in Disk!Places /\ Cur(cc) # Disk!MAXFILE
    BY <1>10, PlacesAre
  <2>2. Ptr(ip, block, Disk!MAXFILE) = ip.addrs[NDIRECT] /\ Disk!MAXFILE \in Disk!Places
    BY PlacesAre
  <2> QED BY <2>1, <2>2, <1>2, <1>5 DEF InodeOk, Dst
<1> DEFINE new == [oo \in Disk!Cells |-> IF reach(oo) THEN cc.v ELSE block[bb][oo]]
<1>14. new \in [Disk!Cells -> Nat]
  <2>1. \A oo \in Disk!Cells : block[bb][oo] \in Nat
    BY <1>7, <1>12
  <2> QED BY <2>1, <1>6
<1>15. /\ \A oo \in Disk!Cells : reach(oo) => new[oo] = cc.v
       /\ \A oo \in Disk!Cells : ~reach(oo) => new[oo] = block[bb][oo]
  OBVIOUS
<1>16. block' = [block EXCEPT ![bb] = new]
  BY <1>1
<1> HIDE DEF new, bb
<1>17. /\ block' \in [Disk!Blocks -> [Disk!Cells -> Nat]] /\ block'[bb] = new
       /\ \A xx : xx # bb => block'[xx] = block[xx]
  BY <1>7, <1>12, <1>14, <1>16
<1>18. /\ \A kk : Adr(ip, block', kk) = Adr(ip, block, kk)
       /\ Blks(ip, block') = Blks(ip, block) /\ (Dst(ip, block') <=> Dst(ip, block))
  <2>1. block'[ip.addrs[NDIRECT]] = block[ip.addrs[NDIRECT]]
    BY <1>13, <1>17
  <2> QED BY <2>1, IndPtrs
<1>19. \A kk : Adr(dp, block', kk) = Adr(dp, block, kk)
  <2>1. Lacks(dp, ip)
    BY <1>2 DEF InodeOk
  <2>2. dp.addrs[NDIRECT] \in {0, ip.addrs[NDIRECT]}
    BY <2>1, DiskConstants DEF Lacks
  <2>3. dp.addrs[NDIRECT] # 0 => block'[dp.addrs[NDIRECT]] = block[dp.addrs[NDIRECT]]
    BY <2>2, <1>13, <1>17
  <2> QED BY <2>3, IndPtrs
<1>20. InodeOk(ip, dp, block')
  BY <1>2, <1>18, <1>19 DEF InodeOk, Filled
<1>21. WriteOk(ip, block, cc, ct) /\ Dst(ip, block)
  BY <1>1, <1>2 DEF CallOk, InodeOk
<1>22. WriteOk(ip, block', cd, ct)
  <2>1. /\ \A oo \in Disk!Cells : At1(cc) <= oo /\ oo < At1(cc) + Mm(cc) => block'[bb][oo] = cc.v
        /\ \A oo \in Disk!Cells : ~(At1(cc) <= oo /\ oo < At1(cc) + Mm(cc)) => block'[bb][oo] = block[bb][oo]
    BY <1>8, <1>15, <1>17
  <2>2. bb = Adr(ip, block, Cur(cc))
    BY DEF bb
  <2> QED BY <1>2, <1>5, <1>9, <1>17, <1>18, <1>21, <2>1, <2>2, WriteOkThen
<1>23. PcOk(ip, block', cd)
  BY <1>1, <1>9 DEF PcOk
<1>24. CallOk(ip, dp, block', cd, ct)
  BY <1>1, <1>2, <1>9, <1>22, <1>23 DEF CallOk
<1>25. cd # Disk!Idle
  <2>1. cd.op # Disk!Idle.op
    BY <1>1, <1>9 DEF Disk!Idle
  <2> QED BY <2>1
<1>26. FileOk(ip, dp, cd, ct, dead[f], crashes, block')
  BY <1>1, <1>2, <1>9, <1>20, <1>24, <1>25 DEF FileOk
<1>27. /\ DOMAIN call' = Inodes /\ DOMAIN contents' = Inodes /\ call'[f] = cd
       /\ \A g \in Inodes \ {f} : call'[g] = call[g]
  BY <1>1, <1>3, DiskTypes
<1>28. IsThen(f)
  BY <1>1, <1>26, <1>27 DEF IsThen, ip, dp, ct
<1>29. HadByThen(f) = Blks(ip, block)
  <2>1. HadByThen(f) = HadOf(ip, cd, dead[f], block')
    BY <1>1, <1>27 DEF HadByThen, ip
  <2> QED BY <2>1, <1>1, <1>2, <1>9, <1>18 DEF HadOf
<1>30. Trades(f)
  <2>1. HadBy(f) \subseteq used
    BY DiskFacts
  <2> QED BY <2>1, <1>1, <1>4, <1>11, <1>17, <1>29 DEF Trades
<1>31. \A g \in Inodes \ {f} : Stays(g)
  BY <1>1, <1>27 DEF Stays
<1>32. call'[f].op \in {"none", "read", "write", "trunc"}
  BY <1>1, <1>9, <1>27
<1>33. Disk!TypeOK'
  BY <1>1, <1>17, <1>31, <1>32, DiskTypes, TypesThen
<1> QED BY <1>1, <1>27, <1>28, <1>30, <1>31, <1>33, OneFile

\* One block of readi (fs.c:411-416).
LEMMA ReadBlockKeeps ==
  ASSUME Disk!IInv, NEW f \in Inodes, Disk!ReadBlock(f)
  PROVE  Disk!IInv'
<1> DEFINE ip == inode[f]
           dp == dinode[f]
           cc == call[f]
           ct == contents[f]
           bb == Adr(ip, block, Cur(cc))
           new == [k \in 1 .. Mm(cc) |-> block[bb][At1(cc) + k - 1]]
           gg == cc.got \o new
           cd == Stepped(cc, gg, "return")
<1>1. /\ Disk!At(f, "data") /\ cc.op = "read" /\ call' = [call EXCEPT ![f] = cd]
      /\ UNCHANGED <<used, block, dinode, inode, contents, dead, full, calls, crashes>>
  <2>1. /\ Disk!At(f, "data") /\ cc.op = "read"
        /\ UNCHANGED <<used, block, dinode, inode, contents, dead, full, calls, crashes>>
    BY DEF Disk!ReadBlock
  <2>2. Disk!m(f) = Mm(cc) /\ Disk!Place(f) = At1(cc) /\ Disk!AddrOf(ip, Disk!bn(f)) = bb
    BY FileIs, StepOf
  <2>3. call' = [call EXCEPT ![f] = [call[f] EXCEPT
                   !.tot = call[f].tot + Disk!m(f),
                   !.got = call[f].got \o [k \in 1 .. Disk!m(f) |-> block[Disk!AddrOf(ip, Disk!bn(f))][Disk!Place(f) + k - 1]],
                   !.pc = IF call[f].tot + Disk!m(f) = call[f].n THEN "return" ELSE "bmap"]]
    BY Zenon DEF Disk!ReadBlock
  <2>4. call' = [call EXCEPT ![f] = cd]
    BY <2>2, <2>3 DEF Stepped
  <2> QED BY <2>1, <2>4
<1>2. /\ ~dead[f] /\ cc.pc = "data" /\ cc \in Calls
      /\ CallOk(ip, dp, block, cc, ct) /\ InodeOk(ip, dp, block) /\ ip \in Disk!Inode
      /\ cc.tot <= cc.n /\ cc.off + cc.n <= Disk!MAXFILE * BSIZE
  BY <1>1, AtCall, DiskTypes
<1>4. HadBy(f) = Blks(ip, block)
  BY <1>1, <1>2 DEF HadBy, HadOf
<1>5. cc.tot < cc.n /\ bb # 0
  BY <1>2 DEF CallOk, PcOk
<1>6. cc.got \in Seq(Nat)
  BY <1>2 DEF Calls
<1>7. block \in [Disk!Blocks -> [Disk!Cells -> Nat]] /\ full' \in BOOLEAN /\ calls' \in 0 .. MaxCalls
  BY <1>1, DiskTypes
<1>a. cd = Stepped(cc, gg, "return")
  OBVIOUS
<1>b. new = [k \in 1 .. Mm(cc) |-> block[bb][At1(cc) + k - 1]] /\ gg = cc.got \o new
  OBVIOUS
<1>c. bb = Adr(ip, block, Cur(cc))
  OBVIOUS
<1> HIDE DEF ip, dp, cc, ct, cd, new, gg, bb
<1>8. /\ Mm(cc) \in Nat \ {0} /\ cc.tot + Mm(cc) <= cc.n /\ At1(cc) + Mm(cc) <= BSIZE
      /\ cc.off + cc.tot \in Nat /\ At1(cc) \in Nat /\ cc.tot \in Nat /\ cc.off \in Nat /\ cc.n \in Nat
  BY <1>2, <1>5, StepIs DEF Calls
<1>10. Cur(cc) \in 0 .. Disk!MAXFILE - 1
  BY <1>2, <1>5, CallBlocks
<1>11. bb \in Blks(ip, block)
  BY <1>5, <1>10, <1>c, InBlks
<1>12. bb \in Disk!Blocks
  BY <1>1, <1>2, <1>11, WholeHas DEF ip, cc
<1>13. new \in [1 .. Mm(cc) -> Nat]
  <2>1. ASSUME NEW k \in 1 .. Mm(cc) PROVE block[bb][At1(cc) + k - 1] \in Nat
    <3>1. At1(cc) + k - 1 \in Disk!Cells
      BY <1>8, DiskConstants DEF Disk!Cells
    <3> QED BY <3>1, <1>7, <1>12
  <2> QED BY <2>1, <1>b
<1>14. new \in Seq(Nat) /\ Len(new) = Mm(cc)
  BY <1>8, <1>13
<1>15. /\ gg \in Seq(Nat) /\ Len(gg) = Len(cc.got) + Mm(cc)
       /\ \A jj \in 1 .. Len(cc.got) : gg[jj] = cc.got[jj]
       /\ \A jj \in 1 .. Mm(cc) : gg[Len(cc.got) + jj] = new[jj]
  <2>1. \A ss, tt \in Seq(Nat) : ss \o tt \in Seq(Nat) /\ Len(ss \o tt) = Len(ss) + Len(tt)
    OBVIOUS
  <2>2. \A ss, tt \in Seq(Nat) : \A jj \in 1 .. Len(ss) : (ss \o tt)[jj] = ss[jj]
    OBVIOUS
  <2>3. \A ss, tt \in Seq(Nat) : \A jj \in 1 .. Len(tt) : (ss \o tt)[Len(ss) + jj] = tt[jj]
    OBVIOUS
  <2>4. gg \in Seq(Nat) /\ Len(gg) = Len(cc.got) + Mm(cc)
    BY <2>1, <1>6, <1>14, <1>b
  <2>5. \A jj \in 1 .. Len(cc.got) : gg[jj] = cc.got[jj]
    BY <2>2, <1>6, <1>14, <1>b
  <2>6. \A jj \in 1 .. Mm(cc) : gg[Len(cc.got) + jj] = new[jj]
    BY <2>3, <1>6, <1>14, <1>b
  <2> QED BY <2>4, <2>5, <2>6
<1>16. /\ cd \in Calls /\ cd.op = cc.op /\ cd.off = cc.off /\ cd.n = cc.n /\ cd.v = cc.v
       /\ cd.tot = cc.tot + Mm(cc) /\ cd.got = gg /\ cd.tot <= cd.n
       /\ cd.pc \in {"bmap", "return"} /\ (cd.pc = "bmap" => cd.tot < cd.n) /\ (cd.pc = "return" => cd.tot = cd.n)
  BY <1>2, <1>5, <1>15, <1>a, StepCall
<1>17. /\ cc.off + cc.n <= ip.size /\ Len(cc.got) = cc.tot
       /\ \A jj \in 1 .. cc.tot : cc.got[jj] = ct[cc.off + jj]
       /\ \A xx \in 0 .. ip.size - 1 : Byt(ip, block, xx) = ct[xx + 1]
  BY <1>1, <1>2 DEF CallOk, ReadOk
<1>18. ASSUME NEW jj \in 1 .. Mm(cc) PROVE gg[cc.tot + jj] = ct[cc.off + (cc.tot + jj)]
  <2> DEFINE xx == cc.off + cc.tot + (jj - 1)
  <2>1. /\ jj - 1 \in Nat /\ xx \in Nat /\ OB(cc.off + cc.tot) + (jj - 1) < BSIZE
        /\ xx + 1 = cc.off + (cc.tot + jj) /\ At1(cc) + jj - 1 = OB(cc.off + cc.tot) + (jj - 1)
    BY <1>8, DiskConstants DEF At1
  <2>2. ip.size \in Nat
    BY <1>2, SizeBlocks
  <2>3. xx \in 0 .. ip.size - 1
    <3>1. \A oo, tt, mm, nn, zz \in Nat : tt + mm <= nn /\ oo + nn <= zz =>
            \A ii \in 1 .. mm : oo + tt + (ii - 1) \in 0 .. zz - 1
      OBVIOUS
    <3> QED BY <3>1, <2>2, <1>8, <1>17
  <2>4. NB(xx) = NB(cc.off + cc.tot) /\ OB(xx) = OB(cc.off + cc.tot) + (jj - 1)
    BY <2>1, <1>8, BytesAfter
  <2> HIDE DEF xx
  <2>5. Byt(ip, block, xx) = block[bb][OB(xx)]
    BY <2>4, <1>5, <1>c DEF Byt, Cur
  <2>6. new[jj] = block[bb][OB(xx)]
    BY <2>1, <2>4, <1>b
  <2>7. gg[cc.tot + jj] = new[jj]
    BY <1>15, <1>17
  <2> QED BY <2>1, <2>3, <2>5, <2>6, <2>7, <1>17
<1>19. ASSUME NEW jj \in 1 .. cd.tot PROVE cd.got[jj] = ct[cd.off + jj]
  <2>1. CASE jj <= cc.tot
    <3>1. jj \in 1 .. cc.tot /\ jj \in 1 .. Len(cc.got)
      BY <2>1, <1>8, <1>16, <1>17
    <3> QED BY <3>1, <1>15, <1>16, <1>17
  <2>2. CASE ~(jj <= cc.tot)
    <3>1. jj - cc.tot \in 1 .. Mm(cc) /\ cc.tot + (jj - cc.tot) = jj
      BY <2>2, <1>8, <1>16
    <3>2. gg[cc.tot + (jj - cc.tot)] = ct[cc.off + (cc.tot + (jj - cc.tot))]
      BY <3>1, <1>18
    <3> QED BY <3>1, <3>2, <1>16
  <2> QED BY <2>1, <2>2
<1>20. ReadOk(ip, block, cd, ct)
  BY <1>15, <1>16, <1>17, <1>19 DEF ReadOk
<1>21. PcOk(ip, block, cd)
  BY <1>1, <1>16 DEF PcOk
<1>22. CallOk(ip, dp, block, cd, ct)
  BY <1>1, <1>2, <1>16, <1>20, <1>21 DEF CallOk
<1>23. cd # Disk!Idle
  <2>1. cd.op # Disk!Idle.op
    BY <1>1, <1>16 DEF Disk!Idle
  <2> QED BY <2>1
<1>24. FileOk(ip, dp, cd, ct, dead[f], crashes, block)
  BY <1>1, <1>2, <1>16, <1>22, <1>23 DEF FileOk
<1>25. HadOf(ip, cd, dead[f], block) = HadBy(f)
  BY <1>1, <1>2, <1>4, <1>16 DEF HadOf
<1>26. cd.op \in {"none", "read", "write", "trunc"}
  BY <1>1, <1>16
<1> QED BY <1>1, <1>7, <1>24, <1>25, <1>26, CallMoves DEF ip, dp, ct

\* A crash leaves what is on the disk, and frees nothing (fs.c, no recovery).
LEMMA DiskCrashKeeps ==
  ASSUME Disk!IInv, Disk!Crash
  PROVE  Disk!IInv'
<1>1. /\ crashes < MaxCrashes /\ inode' = dinode /\ call' = [f \in Inodes |-> Disk!Idle]
      /\ dead' = [f \in Inodes |-> dead[f] \/ call[f].op = "trunc"]
      /\ full' = FALSE /\ crashes' = crashes + 1
      /\ UNCHANGED <<used, block, dinode, contents, calls>>
  BY DEF Disk!Crash
<1>2. /\ crashes' \in 0 .. MaxCrashes /\ crashes' # 0
      /\ dead' \in [Inodes -> BOOLEAN] /\ inode' \in [Inodes -> Disk!Inode]
  BY <1>1, DiskTypes, DiskConstants
<1>3. DOMAIN call' = Inodes /\ DOMAIN contents' = Inodes /\ Disk!Idle.op = "none"
  BY <1>1, DiskTypes DEF Disk!Idle
<1>4. \A g \in Inodes : call'[g].op \in {"none", "read", "write", "trunc"}
  BY <1>1, <1>3
<1>5. Disk!TypeOK'
  BY <1>1, <1>2, <1>4, DiskTypes DEF Disk!TypeOK, Disk!Blocks, Disk!Cells, Disk!Inode
<1>6. ASSUME NEW g \in Inodes
      PROVE  IsThen(g) /\ HadByThen(g) \subseteq HadBy(g)
  <2>1. call'[g] = Disk!Idle /\ inode'[g] = dinode[g] /\ dinode'[g] = dinode[g]
    BY <1>1
  <2>2. CASE dead'[g]
    <3>1. HadByThen(g) = {}
      BY <2>2 DEF HadByThen, HadOf
    <3> QED BY <1>2, <1>3, <2>1, <2>2, <3>1 DEF IsThen, FileOk
  <2>3. CASE ~dead'[g]
    <3>1. ~dead[g] /\ call[g].op # "trunc"
      BY <1>1, <2>3
    <3>2. Blks(inode[g], block) \subseteq HadBy(g) /\ InodeOk(inode[g], dinode[g], block)
      BY <3>1, WholeHas
    <3>3. Lacks(dinode[g], inode[g]) /\ Dst(inode[g], block) /\ dinode[g].size = inode[g].size
      BY <3>2 DEF InodeOk, Lacks
    <3>4. Blks(dinode[g], block) \subseteq Blks(inode[g], block) /\ Dst(dinode[g], block)
      BY <3>3, LackPtrs
    <3>5. InodeOk(dinode[g], dinode[g], block)
      BY <3>2, <3>3, <3>4 DEF InodeOk, Lacks
    <3>6. IsThen(g)
      BY <1>1, <1>3, <2>1, <2>3, <3>5 DEF IsThen, FileOk
    <3>7. HadByThen(g) = Blks(dinode[g], block)
      BY <1>1, <1>3, <2>1, <2>3 DEF HadByThen, HadOf
    <3> QED BY <3>2, <3>4, <3>6, <3>7
  <2> QED BY <2>2, <2>3
<1>7. \A g \in Inodes : IsThen(g) /\ HadByThen(g) \subseteq used'
  BY <1>1, <1>6, DiskFacts
<1>8. \A g, h \in Inodes : g # h => HadByThen(g) \cap HadByThen(h) = {}
  <2> TAKE g, h \in Inodes
  <2> HAVE g # h
  <2>1. HadBy(g) \cap HadBy(h) = {}
    BY DiskFacts
  <2>2. HadByThen(g) \subseteq HadBy(g) /\ HadByThen(h) \subseteq HadBy(h)
    BY <1>6
  <2> QED BY <2>1, <2>2
<1>9. \A bb \in Disk!Blocks \ used' : block'[bb] = Disk!Zero
  BY <1>1 DEF Disk!IInv, Disk!FreeIsZero
<1>10. crashes' = 0 => used' = UNION {HadByThen(g) : g \in Inodes}
  BY <1>2
<1> QED BY <1>3, <1>5, <1>7, <1>8, <1>9, <1>10, DiskFrom

\* Each step keeps the invariant.
LEMMA DiskStep == Disk!IInv /\ Disk!Next => Disk!IInv'
<1> SUFFICES ASSUME Disk!IInv, Disk!Next PROVE Disk!IInv'
  OBVIOUS
<1>1. CASE Disk!Crash
  BY <1>1, DiskCrashKeeps
<1>2. ASSUME NEW f \in Inodes, NEW off \in 0 .. inode[f].size, NEW nn \in Lens,
             Disk!Readi(f, off, nn) \/ \E v \in Bytes : Disk!Writei(f, off, nn, v)
      PROVE  Disk!IInv'
  BY <1>2, ReadiKeeps, WriteiKeeps
<1>3. ASSUME NEW f \in Inodes,
             \/ Disk!BmapDirect(f) \/ Disk!BmapIndirect(f) \/ Disk!BmapEntry(f) \/ Disk!BmapWriteEntry(f)
             \/ Disk!WriteBlock(f) \/ Disk!ReadBlock(f) \/ Disk!ReadReturns(f) \/ Disk!Update(f)
      PROVE  Disk!IInv'
  BY <1>3, BmapDirectKeeps, BmapIndirectKeeps, BmapEntryKeeps, BmapWriteEntryKeeps,
     WriteBlockKeeps, ReadBlockKeeps, ReadReturnsKeeps, UpdateKeeps
<1>4. ASSUME NEW f \in Inodes, Disk!Itrunc(f) \/ Disk!Bzero(f) \/ Disk!Bfree(f) \/ Disk!Truncated(f)
      PROVE  Disk!IInv'
  BY <1>4, ItruncKeeps, BzeroKeeps, BfreeKeeps, TruncatedKeeps
<1> QED BY <1>1, <1>2, <1>3, <1>4 DEF Disk!Next

\* A new disk has it.
LEMMA DiskInit == Disk!Init => Disk!IInv
<1> SUFFICES ASSUME Disk!Init PROVE Disk!IInv
  OBVIOUS
<1>1. /\ used = {} /\ block = [b \in Disk!Blocks |-> Disk!Zero]
      /\ dinode = [f \in Inodes |-> Disk!Empty] /\ inode = dinode
      /\ call = [f \in Inodes |-> Disk!Idle] /\ contents = [f \in Inodes |-> <<>>]
      /\ dead = [f \in Inodes |-> FALSE] /\ full = FALSE /\ calls = 0 /\ crashes = 0
  BY DEF Disk!Init
<1>2. Disk!Empty \in Disk!Inode /\ InodeOk(Disk!Empty, Disk!Empty, block) /\ Blks(Disk!Empty, block) = {}
  BY EmptyIs
<1>3. Disk!Zero \in [Disk!Cells -> Nat] /\ Disk!Idle.op = "none"
  BY DEF Disk!Zero, Disk!Idle
<1>4. Disk!TypeOK
  <2>1. used \subseteq Disk!Blocks /\ block \in [Disk!Blocks -> [Disk!Cells -> Nat]]
    BY <1>1, <1>3
  <2>2. inode \in [Inodes -> Disk!Inode] /\ dinode \in [Inodes -> Disk!Inode]
    BY <1>1, <1>2
  <2>3. \A f \in Inodes : call[f].op \in {"none", "read", "write", "trunc"}
    BY <1>1, <1>3
  <2>4. dead \in [Inodes -> BOOLEAN] /\ full \in BOOLEAN
    BY <1>1
  <2>5. calls \in 0 .. MaxCalls /\ crashes \in 0 .. MaxCrashes
    BY <1>1, DiskConstants
  <2> QED BY <2>1, <2>2, <2>3, <2>4, <2>5 DEF Disk!TypeOK
<1>5. ASSUME NEW f \in Inodes PROVE Is(f) /\ HadBy(f) = {}
  <2>1. inode[f] = Disk!Empty /\ dinode[f] = Disk!Empty /\ call[f] = Disk!Idle /\ dead[f] = FALSE
    BY <1>1
  <2> QED BY <2>1, <1>2, <1>3 DEF Is, HadBy, FileOk, HadOf
<1>6. \A f \in Inodes : Disk!FileInv(f) /\ Disk!Had(f) = {}
  BY <1>5, FileIs DEF Is, HadBy
<1>7. Disk!OwnerInv
  <2>1. UNION {Disk!Had(f) : f \in Inodes} = {}
    BY <1>6
  <2> QED BY <2>1, <1>1, <1>6 DEF Disk!OwnerInv
<1>8. Disk!FreeIsZero
  BY <1>1 DEF Disk!FreeIsZero
<1> QED BY <1>1, <1>4, <1>6, <1>7, <1>8 DEF Disk!IInv

\* The disk's inode has the bytes of the cached one, up to the size.
LEMMA DiskBytes ==
  ASSUME NEW ip \in Disk!Inode, NEW dp, NEW bl, InodeOk(ip, dp, bl)
  PROVE  dp.size = ip.size /\ \A xx \in 0 .. ip.size - 1 : Byt(dp, bl, xx) = Byt(ip, bl, xx)
<1>1. Lacks(dp, ip) /\ dp.size = ip.size
  BY DEF InodeOk, Lacks
<1>2. \A kk \in 0 .. Disk!MAXFILE - 1 : Adr(dp, bl, kk) \in {0, Adr(ip, bl, kk)}
  BY <1>1, LackPtrs
<1>3. ASSUME NEW xx \in 0 .. ip.size - 1 PROVE Byt(dp, bl, xx) = Byt(ip, bl, xx)
  <2>1. NB(xx) \in 0 .. Disk!MAXFILE - 1
    BY SizeBlocks
  <2>2. Adr(dp, bl, NB(xx)) # 0
    BY DEF InodeOk, Filled
  <2>3. Adr(dp, bl, NB(xx)) = Adr(ip, bl, NB(xx))
    BY <1>2, <2>1, <2>2
  <2> QED BY <2>3 DEF Byt
<1> QED BY <1>1, <1>3

\* What FileBlocks calls the contents, now and after a step.
LEMMA ContentsByt ==
  /\ \A ip : Disk!ContentsOf(ip) = [k \in 1 .. ip.size |-> Byt(ip, block, k - 1)]
  /\ \A f : Disk!ContentsOf(inode[f])' = [k \in 1 .. inode'[f].size |-> Byt(inode'[f], block', k - 1)]
BY DEF Disk!ContentsOf, Disk!ByteOf, Disk!AddrOf, Disk!Ind, Byt, Adr, NB, OB

\* A crash would leave the contents from before the call, with what it has
\* written.
LEMMA DiskContentsOf ==
  ASSUME Disk!IInv
  PROVE  Disk!DiskContents
<1> SUFFICES ASSUME NEW f \in Inodes, ~dead[f], call[f].op # "trunc", call[f].op # "none"
             PROVE  Disk!ContentsOf(dinode[f]) = Disk!After(f)
  BY DEF Disk!DiskContents, Disk!Whole
<1> DEFINE ip == inode[f]
           dp == dinode[f]
           cc == call[f]
           ct == contents[f]
<1>1. cc.op \in {"read", "write"} /\ ip \in Disk!Inode /\ Is(f)
  BY DiskTypes, DiskFacts
<1>2. InodeOk(ip, dp, block) /\ CallOk(ip, dp, block, cc, ct)
  BY <1>1 DEF Is, FileOk
<1>3. dp.size = ip.size /\ \A xx \in 0 .. ip.size - 1 : Byt(dp, block, xx) = Byt(ip, block, xx)
  BY <1>1, <1>2, DiskBytes
<1>4. ip.size \in Nat /\ ct \in [1 .. ip.size -> Nat] /\ cc \in Calls
  BY <1>1, <1>2, SizeBlocks DEF CallOk
<1>5. Len(ct) = ip.size
  BY <1>4
<1>6. cc.off \in Nat /\ cc.tot \in Nat
  BY <1>4 DEF Calls
<1> DEFINE wr(k) == cc.op = "write" /\ cc.off < k /\ k <= cc.off + cc.tot
<1>7. Disk!After(f) = [k \in 1 .. ip.size |-> IF wr(k) THEN cc.v ELSE ct[k]]
  BY <1>5 DEF Disk!After, Disk!Written
<1>8. Disk!ContentsOf(dp) = [k \in 1 .. ip.size |-> Byt(dp, block, k - 1)]
  BY <1>3, ContentsByt
<1>9. ASSUME NEW k \in 1 .. ip.size PROVE Byt(dp, block, k - 1) = IF wr(k) THEN cc.v ELSE ct[k]
  <2>1. k - 1 \in 0 .. ip.size - 1 /\ (k - 1) + 1 = k
    BY <1>4
  <2>2. Byt(dp, block, k - 1) = Byt(ip, block, k - 1)
    BY <2>1, <1>3
  <2>3. CASE cc.op = "read"
    <3>1. ReadOk(ip, block, cc, ct)
      BY <2>3, <1>2 DEF CallOk
    <3>2. Byt(ip, block, k - 1) = ct[(k - 1) + 1]
      BY <2>1, <3>1 DEF ReadOk
    <3> QED BY <2>1, <2>2, <2>3, <3>2
  <2>4. CASE cc.op = "write"
    <3>1. WriteOk(ip, block, cc, ct)
      BY <2>4, <1>2 DEF CallOk
    <3>2. CASE wr(k)
      <4>1. k - 1 \in cc.off .. cc.off + cc.tot - 1
        BY <3>2, <1>4, <1>6
      <4>2. Byt(ip, block, k - 1) = cc.v
        BY <4>1, <3>1 DEF WriteOk
      <4> QED BY <4>2, <3>2, <2>2
    <3>3. CASE ~wr(k)
      <4>1. k - 1 < cc.off \/ cc.off + cc.tot <= k - 1
        BY <3>3, <2>4, <1>4, <1>6
      <4>2. Byt(ip, block, k - 1) = ct[(k - 1) + 1]
        BY <4>1, <2>1, <3>1 DEF WriteOk
      <4> QED BY <4>2, <3>3, <2>1, <2>2
    <3> QED BY <3>2, <3>3
  <2> QED BY <2>3, <2>4, <1>1
<1> HIDE DEF wr
<1> QED BY <1>7, <1>8, <1>9

\* A read returns what was asked for.
LEMMA ReadExactOf ==
  ASSUME Disk!IInv
  PROVE  Disk!ReadExact
<1> SUFFICES ASSUME NEW f \in Inodes, Disk!At(f, "return")
             PROVE  call[f].got = SubSeq(contents[f], call[f].off + 1, call[f].off + call[f].n)
  BY DEF Disk!ReadExact
<1> DEFINE cc == call[f]
           ct == contents[f]
<1>1. /\ cc \in Calls /\ cc.pc = "return" /\ CallOk(inode[f], dinode[f], block, cc, ct)
  BY AtCall
<1>2. cc.op = "read" /\ cc.tot = cc.n /\ ReadOk(inode[f], block, cc, ct)
  BY <1>1 DEF CallOk, PcOk
<1>3. inode[f].size \in Nat
  BY DiskFacts, SizeBlocks
<1>4. ct \in [1 .. inode[f].size -> Nat] /\ ct \in Seq(Nat) /\ Len(ct) = inode[f].size
  BY <1>1, <1>3 DEF CallOk
<1>5. cc.off \in Nat /\ cc.n \in Nat /\ cc.got \in Seq(Nat)
  BY <1>1 DEF Calls
<1>6. /\ cc.off + cc.n <= Len(ct) /\ Len(cc.got) = cc.n
      /\ \A jj \in 1 .. cc.n : cc.got[jj] = ct[cc.off + jj]
  BY <1>2, <1>4 DEF ReadOk
<1> HIDE DEF cc, ct
<1>7. \A ss \in Seq(Nat), oo, nn \in Nat : oo + nn <= Len(ss) =>
        /\ SubSeq(ss, oo + 1, oo + nn) \in Seq(Nat) /\ Len(SubSeq(ss, oo + 1, oo + nn)) = nn
        /\ \A jj \in 1 .. nn : SubSeq(ss, oo + 1, oo + nn)[jj] = ss[oo + jj]
  <2> TAKE ss \in Seq(Nat), oo, nn \in Nat
  <2> HAVE oo + nn <= Len(ss)
  <2>1. Len(ss) \in Nat /\ DOMAIN ss = 1 .. Len(ss)
    BY LenProperties
  <2>2. oo + 1 \in 1 .. oo + nn + 1 /\ oo + nn \in oo .. Len(ss) /\ oo + nn - (oo + 1) + 1 = nn
    BY <2>1
  <2>3. oo + 1 \in Int /\ oo + nn \in Int /\ \A ii \in oo + 1 .. oo + nn : ss[ii] \in Nat
    <3>1. \A ii \in oo + 1 .. oo + nn : ii \in 1 .. Len(ss)
      BY <2>1
    <3> QED BY <3>1, ElementOfSeq
  <2> DEFINE aa == oo + 1
             zz == oo + nn
  <2>4. aa \in Int /\ zz \in Int /\ zz - aa + 1 = nn /\ \A jj \in 1 .. nn : aa + jj - 1 = oo + jj
    OBVIOUS
  <2>5. \A ii \in aa .. zz : ss[ii] \in Nat
    BY <2>3
  <2> HIDE DEF aa, zz
  <2>6. /\ SubSeq(ss, aa, zz) \in Seq(Nat)
        /\ Len(SubSeq(ss, aa, zz)) = IF aa <= zz THEN zz - aa + 1 ELSE 0
        /\ \A jj \in 1 .. zz - aa + 1 : SubSeq(ss, aa, zz)[jj] = ss[aa + jj - 1]
    BY <2>4, <2>5, SubSeqProperties
  <2>7. aa <= zz \/ nn = 0
    BY DEF aa, zz
  <2>8. Len(SubSeq(ss, aa, zz)) = nn
    BY <2>4, <2>6, <2>7 DEF aa, zz
  <2>9. \A jj \in 1 .. nn : SubSeq(ss, aa, zz)[jj] = ss[oo + jj]
    BY <2>4, <2>6
  <2> QED BY <2>6, <2>8, <2>9 DEF aa, zz
<1>8. \A ss, tt \in Seq(Nat) : Len(ss) = Len(tt) /\ (\A jj \in 1 .. Len(ss) : ss[jj] = tt[jj]) => ss = tt
  BY SeqEqual
<1> DEFINE sub == SubSeq(ct, cc.off + 1, cc.off + cc.n)
<1>9. sub \in Seq(Nat) /\ Len(sub) = cc.n /\ \A jj \in 1 .. cc.n : sub[jj] = ct[cc.off + jj]
  BY <1>4, <1>5, <1>6, <1>7
<1> HIDE DEF sub
<1>10. cc.got = sub
  BY <1>5, <1>6, <1>8, <1>9
<1> QED BY <1>10 DEF sub, cc, ct

\* Blocks have one owner, and the bitmap marks no others but for a crash.
LEMMA BlocksOwnedOf ==
  ASSUME Disk!IInv
  PROVE  Disk!BlocksOwned
<1>1. /\ \A g \in Inodes : Is(g) /\ HadBy(g) \subseteq used
      /\ \A g, h \in Inodes : g # h => HadBy(g) \cap HadBy(h) = {}
      /\ crashes = 0 => used = UNION {HadBy(g) : g \in Inodes}
  BY DiskFacts
<1>2. ASSUME NEW f \in Disk!Whole
      PROVE  /\ f \in Inodes /\ Disk!Distinct(inode[f]) /\ Disk!BlocksOf(inode[f]) \subseteq HadBy(f)
             /\ Disk!BlocksOf(dinode[f]) \subseteq HadBy(f)
  <2>1. f \in Inodes /\ ~dead[f] /\ call[f].op # "trunc"
    BY DEF Disk!Whole
  <2>2. Blks(inode[f], block) \subseteq HadBy(f) /\ InodeOk(inode[f], dinode[f], block)
    BY <2>1, WholeHas
  <2>3. Lacks(dinode[f], inode[f]) /\ Dst(inode[f], block)
    BY <2>2 DEF InodeOk
  <2>4. Blks(dinode[f], block) \subseteq Blks(inode[f], block)
    BY <2>3, LackPtrs
  <2>5. /\ \A ip, kk : Disk!Slot(ip, kk) = Ptr(ip, block, kk)
        /\ \A ip : Disk!BlocksOf(ip) = Blks(ip, block)
    BY <2>1, FileIs
  <2>6. Disk!Distinct(inode[f])
    BY <2>3, <2>5 DEF Disk!Distinct, Dst
  <2> QED BY <2>1, <2>2, <2>4, <2>5, <2>6
<1>3. ASSUME crashes = 0, \A f \in Inodes : call[f] = Disk!Idle
      PROVE  used = UNION {Disk!BlocksOf(inode[f]) : f \in Inodes}
  <2>1. ASSUME NEW f \in Inodes PROVE HadBy(f) = Disk!BlocksOf(inode[f])
    <3>1. ~dead[f]
      BY <1>1, <1>3 DEF Is, FileOk
    <3>2. call[f].op = "none"
      BY <1>3 DEF Disk!Idle
    <3>3. HadBy(f) = Blks(inode[f], block)
      BY <3>1, <3>2 DEF HadBy, HadOf
    <3> QED BY <3>3, FileIs
  <2>2. {HadBy(f) : f \in Inodes} = {Disk!BlocksOf(inode[f]) : f \in Inodes}
    BY <2>1
  <2> QED BY <2>2, <1>1, <1>3
<1>4. \A f \in Disk!Whole : Disk!BlocksOf(inode[f]) \cup Disk!BlocksOf(dinode[f]) \subseteq used
  BY <1>1, <1>2
<1>5. \A f, g \in Disk!Whole : f # g => Disk!BlocksOf(inode[f]) \cap Disk!BlocksOf(inode[g]) = {}
  <2> TAKE f, g \in Disk!Whole
  <2> HAVE f # g
  <2>1. f \in Inodes /\ g \in Inodes /\ Disk!BlocksOf(inode[f]) \subseteq HadBy(f) /\ Disk!BlocksOf(inode[g]) \subseteq HadBy(g)
    BY <1>2
  <2>2. HadBy(f) \cap HadBy(g) = {}
    BY <1>1, <2>1
  <2> QED BY <2>1, <2>2
<1> QED BY <1>2, <1>3, <1>4, <1>5 DEF Disk!BlocksOwned

\* What runs check.
LEMMA DiskSound == Disk!IInv => Disk!TypeOK /\ Disk!DiskContents /\ Disk!ReadExact /\ Disk!InodeOnDisk
                                /\ Disk!BlocksOwned /\ Disk!FreeIsZero
<1> SUFFICES ASSUME Disk!IInv
             PROVE  Disk!TypeOK /\ Disk!DiskContents /\ Disk!ReadExact /\ Disk!InodeOnDisk
                    /\ Disk!BlocksOwned /\ Disk!FreeIsZero
  OBVIOUS
<1>1. Disk!InodeOnDisk
  BY DiskFacts DEF Disk!InodeOnDisk, Is, FileOk
<1>2. Disk!TypeOK /\ Disk!FreeIsZero
  BY DEF Disk!IInv
<1> QED BY <1>1, <1>2, DiskContentsOf, ReadExactOf, BlocksOwnedOf

\* What writei has written when it returns (fs.c:425-450).
LEMMA UpdateWrites ==
  ASSUME Disk!IInv, NEW f \in Inodes, Disk!Update(f)
  PROVE  LET end == call[f].off + call[f].n
             k0  == Len(contents[f])
         IN Disk!ContentsOf(inode[f])' = [k \in 1 .. (IF end > k0 THEN end ELSE k0) |->
              IF call[f].off < k /\ k <= end THEN call[f].v ELSE contents[f][k]]
<1> DEFINE ip == inode[f]
           cc == call[f]
           ct == contents[f]
           jp == Disk!Grown(f)
           end == cc.off + cc.n
<1>1. /\ Disk!At(f, "size") /\ block' = block
      /\ IF jp.size > ip.size THEN inode' = [inode EXCEPT ![f] = jp] ELSE inode' = inode
  BY DEF Disk!Update
<1>2. cc \in Calls /\ cc.pc = "size" /\ CallOk(ip, dinode[f], block, cc, ct) /\ ip \in Disk!Inode
  BY <1>1, AtCall, DiskTypes
<1>3. cc.tot = cc.n /\ cc.op = "write" /\ WriteOk(ip, block, cc, ct) /\ cc.off <= ip.size
  BY <1>2 DEF CallOk, PcOk
<1>4. /\ ip.size \in Nat /\ cc.off \in Nat /\ cc.n \in Nat /\ end \in Nat
      /\ ct \in [1 .. ip.size -> Nat]
  BY <1>2, SizeBlocks DEF CallOk, Calls
<1>5. Len(ct) = ip.size
  BY <1>4
<1>6. jp = [ip EXCEPT !.size = end]
  BY DEF Disk!Grown
<1>7. jp.size = end /\ jp.addrs = ip.addrs
  BY <1>2, <1>6 DEF Disk!Inode
<1> DEFINE sz == IF end > ip.size THEN end ELSE ip.size
<1>8. inode'[f].size = sz /\ inode'[f].addrs = ip.addrs
  BY <1>1, <1>7, DiskTypes
<1>9. \A kk : Adr(inode'[f], block, kk) = Adr(ip, block, kk)
  BY <1>8 DEF Adr
<1>10. \A xx : Byt(inode'[f], block, xx) = Byt(ip, block, xx)
  BY <1>9 DEF Byt
<1> HIDE DEF ip, cc, ct, jp, end, sz
<1>11. Disk!ContentsOf(inode[f])' = [k \in 1 .. sz |-> Byt(ip, block, k - 1)]
  <2>1. Disk!ContentsOf(inode[f])' = [k \in 1 .. inode'[f].size |-> Byt(inode'[f], block', k - 1)]
    BY ContentsByt
  <2> QED BY <2>1, <1>1, <1>8, <1>10
<1>12. ASSUME NEW k \in 1 .. sz
       PROVE  Byt(ip, block, k - 1) = IF cc.off < k /\ k <= end THEN cc.v ELSE ct[k]
  <2>1. (k - 1) + 1 = k /\ end = cc.off + cc.tot
    BY <1>3, <1>4 DEF end, sz
  <2>2. CASE cc.off < k /\ k <= end
    <3>1. k - 1 \in cc.off .. cc.off + cc.tot - 1
      BY <2>1, <2>2, <1>3, <1>4
    <3> QED BY <3>1, <2>2, <1>3 DEF WriteOk
  <2>3. CASE ~(cc.off < k /\ k <= end)
    <3>1. (k - 1 < cc.off \/ cc.off + cc.tot <= k - 1) /\ k - 1 \in 0 .. ip.size - 1
      BY <2>1, <2>3, <1>3, <1>4 DEF sz
    <3>2. Byt(ip, block, k - 1) = ct[(k - 1) + 1]
      BY <3>1, <1>3 DEF WriteOk
    <3> QED BY <3>2, <2>1, <2>3
  <2> QED BY <2>2, <2>3
<1>13. Disk!ContentsOf(inode[f])' = [k \in 1 .. sz |-> IF cc.off < k /\ k <= end THEN cc.v ELSE ct[k]]
  BY <1>11, <1>12
<1> QED BY <1>5, <1>13 DEF ip, cc, ct, end, sz

\* A read leaves the inode: bmap finds all blocks (fs.c:330-346, 412).
LEMMA ReadsLeave ==
  ASSUME Disk!IInv, Disk!Next, NEW f \in Inodes, call[f].op = "read", crashes' = crashes
  PROVE  inode'[f] = inode[f]
<1>1. ASSUME NEW g \in Inodes, g # f, \E bb, kk : Disk!SetAddr(g, kk, bb)
      PROVE  inode'[f] = inode[f]
  BY <1>1, DiskTypes DEF Disk!SetAddr
<1>2. ASSUME NEW g \in Inodes, Disk!BmapDirect(g) PROVE inode'[f] = inode[f]
  <2>1. Disk!At(g, "bmap") /\ Disk!bn(g) < NDIRECT
    BY <1>2 DEF Disk!BmapDirect
  <2>2. inode[g].addrs[Disk!bn(g)] # 0 => inode' = inode
    BY <1>2 DEF Disk!BmapDirect
  <2>3. inode' = inode \/ \E bb : Disk!SetAddr(g, Disk!bn(g), bb)
    BY <1>2 DEF Disk!BmapDirect, Disk!BallocPanic
  <2>4. CASE g = f
    <3>1. Adr(inode[f], block, Cur(call[f])) = inode[f].addrs[Disk!bn(f)]
      BY <2>1, <2>4, FileIs DEF Adr
    <3>2. inode[f].addrs[Disk!bn(f)] # 0
      BY <2>1, <2>4, <3>1, HoleIsNew
    <3> QED BY <2>2, <2>4, <3>2
  <2> QED BY <1>1, <2>3, <2>4
<1>3. ASSUME NEW g \in Inodes, Disk!BmapIndirect(g) PROVE inode'[f] = inode[f]
  <2>1. Disk!At(g, "bmap") /\ Disk!bn(g) >= NDIRECT /\ inode[g].addrs[NDIRECT] = 0
    BY <1>3 DEF Disk!BmapIndirect, Disk!Ind
  <2>2. inode' = inode \/ \E bb : Disk!SetAddr(g, NDIRECT, bb)
    BY <1>3 DEF Disk!BmapIndirect, Disk!BallocPanic
  <2>3. CASE g = f
    <3>1. call[f] \in Calls
      BY <2>1, <2>3, AtCall
    <3>2. Cur(call[f]) \in Nat
      BY <3>1, QuotientOf DEF Calls, Cur
    <3>3. Adr(inode[f], block, Cur(call[f])) = 0
      BY <2>1, <2>3, <3>2, FileIs, DiskConstants DEF Adr
    <3> QED BY <2>1, <2>3, <3>3, HoleIsNew
  <2> QED BY <1>1, <2>2, <2>3
<1>4. ASSUME NEW g \in Inodes, Disk!Update(g) PROVE inode'[f] = inode[f]
  <2>1. Disk!At(g, "size") /\ (inode' = inode \/ inode' = [inode EXCEPT ![g] = Disk!Grown(g)])
    BY <1>4 DEF Disk!Update
  <2>2. call[g].op = "write"
    <3>1. call[g].pc = "size" /\ CallOk(inode[g], dinode[g], block, call[g], contents[g])
      BY <2>1, AtCall
    <3> QED BY <3>1 DEF CallOk, PcOk
  <2> QED BY <2>1, <2>2, DiskTypes
<1>5. ASSUME NEW g \in Inodes, Disk!Truncated(g) PROVE inode'[f] = inode[f]
  <2>1. /\ Disk!At(g, "bzero") /\ inode' = [inode EXCEPT ![g] = Disk!Empty]
    BY <1>5 DEF Disk!Truncated
  <2>2. call[g].op # "read"
    <3> SUFFICES ASSUME call[g].op = "read" PROVE FALSE
      OBVIOUS
    <3>1. call[g] \in Calls
      BY DiskFacts DEF Is, FileOk, CallOk
    <3> QED BY <2>1, <3>1 DEF Calls, Disk!At
  <2> QED BY <2>1, <2>2, DiskTypes
<1>6. ~Disk!Crash
  BY DiskTypes DEF Disk!Crash
<1>7. ASSUME NEW g \in Inodes,
             \/ Disk!BmapEntry(g) \/ Disk!BmapWriteEntry(g)
             \/ Disk!WriteBlock(g) \/ Disk!ReadBlock(g) \/ Disk!ReadReturns(g)
             \/ Disk!Itrunc(g) \/ Disk!Bzero(g) \/ Disk!Bfree(g)
      PROVE  inode' = inode
  BY <1>7 DEF Disk!BmapEntry, Disk!BmapWriteEntry, Disk!WriteBlock, Disk!ReadBlock,
     Disk!ReadReturns, Disk!Itrunc, Disk!Bzero, Disk!Bfree
<1>8. ASSUME NEW g \in Inodes, NEW off, NEW nn, Disk!Readi(g, off, nn) \/ \E v \in Bytes : Disk!Writei(g, off, nn, v)
      PROVE  inode' = inode
  BY <1>8 DEF Disk!Readi, Disk!Writei
<1> QED BY <1>2, <1>3, <1>4, <1>5, <1>6, <1>7, <1>8 DEF Disk!Next

\* In a behaviour that moves them, the invariant always holds.
LEMMA DiskInductive == Spec => [](part = "blocks" => Disk!IInv)
<1>1. Init => (part = "blocks" => Disk!IInv)
  BY DiskInit DEF Init
<1>2. (part = "blocks" => Disk!IInv) /\ [Next]_vars => (part = "blocks" => Disk!IInv)'
  <2> SUFFICES ASSUME part = "blocks" => Disk!IInv, [Next]_vars, part' = "blocks"
               PROVE  Disk!IInv'
    OBVIOUS
  <2>1. part' = part
    BY DEF Next, vars, OnlyStride, OnlyLocks, OnlyInput, OnlyOpen, OnlyDisk
  <2>2. CASE Disk!Next
    BY <2>1, <2>2, DiskStep
  <2>3. CASE UNCHANGED diskVars
    <3>1. UNCHANGED <<used, block, dinode, inode, call, contents, dead, full, calls, crashes>>
      BY <2>3 DEF diskVars
    <3>2. Disk!IInv /\ full' \in BOOLEAN
      BY <2>1, <3>1, DiskTypes
    <3> QED BY <3>1, <3>2, RestKeeps
  <2> QED BY <2>2, <2>3 DEF Next, vars, OnlyStride, OnlyLocks, OnlyInput, OnlyOpen, OnlyDisk
<1> QED BY <1>1, <1>2, PTL DEF Spec

\* Files have the bytes written to them, on the disk too and after a crash
\* between any two writes; a read returns what was asked for; blocks have one
\* owner and are zero when free (fs.c:330-450).
THEOREM BlocksExact == Spec => []BlocksSound
<1>1. (part = "blocks" => Disk!IInv) => BlocksSound
  BY DiskSound DEF BlocksSound
<1> QED BY <1>1, DiskInductive, PTL

\* A write changes its part of the file and nothing else, a read allocates
\* nothing, although both find blocks with bmap (fs.c:412, 425).
THEOREM WritesExact == Spec => WriteExact
<1> DEFINE I == part = "blocks" => Disk!IInv
<1>1. I /\ [Next]_vars /\ ~UNCHANGED Disk!vars => Disk!IInv /\ Disk!Next
  BY DEF Next, vars, OnlyStride, OnlyLocks, OnlyInput, OnlyOpen, Disk!vars, diskVars
<1>2. I /\ [Next]_vars =>
        [\A f \in Inodes : Disk!Update(f) =>
           LET end == call[f].off + call[f].n
               k0  == Len(contents[f])
           IN Disk!ContentsOf(inode[f])' = [k \in 1 .. (IF end > k0 THEN end ELSE k0) |->
                IF call[f].off < k /\ k <= end THEN call[f].v ELSE contents[f][k]]]_(Disk!vars)
  BY <1>1, UpdateWrites
<1>3. I /\ [Next]_vars =>
        [\A f \in Inodes : call[f].op = "read" => inode'[f] = inode[f] \/ crashes' # crashes]_(Disk!vars)
  BY <1>1, ReadsLeave
<1>4. Spec => [][\A f \in Inodes : Disk!Update(f) =>
        LET end == call[f].off + call[f].n
            k0  == Len(contents[f])
        IN Disk!ContentsOf(inode[f])' = [k \in 1 .. (IF end > k0 THEN end ELSE k0) |->
             IF call[f].off < k /\ k <= end THEN call[f].v ELSE contents[f][k]]]_(Disk!vars)
  BY <1>2, DiskInductive, PTL DEF Spec
<1>5. Spec => [][\A f \in Inodes : call[f].op = "read" => inode'[f] = inode[f] \/ crashes' # crashes]_(Disk!vars)
  BY <1>3, DiskInductive, PTL DEF Spec
<1>6. Spec => Disk!WriteExact
  BY <1>4, PTL DEF Disk!WriteExact
<1>7. Spec => Disk!ReadAllocatesNothing
  BY <1>5, PTL DEF Disk!ReadAllocatesNothing
<1> QED BY <1>6, <1>7, PTL DEF WriteExact
=============================================================================
