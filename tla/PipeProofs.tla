----------------------------- MODULE PipeProofs -----------------------------
(***************************************************************************)
(* For any processes, buffer size and counter width: a pipe is freed only  *)
(* when nobody is inside it or can get there, p->lock excludes, and every  *)
(* behaviour of the pipe, seen through Contents, is a behaviour of         *)
(* ByteStream.                                                             *)
(***************************************************************************)
EXTENDS Pipe, Rings, SequenceTheorems, TLAPS

-----------------------------------------------------------------------------
(***************************************************************************)
(* Ring buffers: remainders of indices that advance by one, distances      *)
(* between them and parts of the ring.                                     *)
(***************************************************************************)
(* A positive multiple of P is not below P.                                *)
LEMMA NoMultiple ==
  ASSUME NEW P \in Int, P > 0, NEW k \in Int, 0 < P * k
  PROVE  P <= P * k
<1>1. CASE k <= 0
  BY <1>1, SMT
<1>2. CASE k >= 1
  BY <1>2, SMT
<1> QED BY <1>1, <1>2

(* Adding a multiple of P does not change the remainder.                   *)
LEMMA ModPeriod ==
  ASSUME NEW P \in Int, P > 0, NEW a \in Int, NEW k \in Int
  PROVE  (a + P * k) % P = a % P
<1>1. PICK d \in Int, r \in Int : a = P * d + r /\ r = a % P /\ 0 <= r /\ r < P
  <2>1. a \div P \in Int /\ a % P \in Int /\ a % P >= 0 /\ a % P < P
    BY SMT
  <2>2. a = P * (a \div P) + (a % P)
    BY Z3T(20)
  <2> QED BY <2>1, <2>2
<1>2. a + P * k = P * (d + k) + r
  BY <1>1, SMT
<1>3. (P * (d + k) + r) % P = r
  <2>1. d + k \in Int
    OBVIOUS
  <2>2. \A q \in Int : (P * q + r) % P = r
    BY <1>1, SMT
  <2> QED BY <2>1, <2>2
<1> QED BY <1>1, <1>2, <1>3

(* Two numbers less than P apart have different remainders.                *)
LEMMA ModDistinct ==
  ASSUME NEW P \in Int, P > 0, NEW a \in Int, NEW b \in Int, a < b, b < a + P
  PROVE  a % P # b % P
<1> SUFFICES ASSUME a % P = b % P PROVE FALSE
  OBVIOUS
<1>1. PICK d \in Int, e \in Int : a = P * d + (a % P) /\ b = P * e + (b % P)
  <2>1. a \div P \in Int /\ b \div P \in Int
    BY SMT
  <2>2. a = P * (a \div P) + (a % P)
    BY Z3T(20)
  <2>3. b = P * (b \div P) + (b % P)
    BY Z3T(20)
  <2> QED BY <2>1, <2>2, <2>3
<1>2. a % P \in Int /\ b % P \in Int
  BY SMT
<1>3. b - a = P * (e - d)
  BY <1>1, <1>2, SMT
<1>4. e - d \in Int /\ 0 < P * (e - d) /\ P * (e - d) < P
  BY <1>3
<1> QED BY <1>4, NoMultiple

LEMMA Sizes ==
  ASSUME NEW P, NEW W, IsRing(P, W)
  PROVE  /\ P \in Int /\ P > 0 /\ W \in Int /\ P < W
         /\ \A a \in Int : (a + W) % P = a % P
         /\ \A a \in Int : a % P \in 0 .. P - 1 /\ a % W \in 0 .. W - 1
<1>1. P \in Int /\ P > 0 /\ W \in Int /\ P < W /\ W % P = 0
  BY DEF IsRing
<1>2. PICK k \in Int : W = P * k
  <2>1. W = P * (W \div P) + (W % P)
    BY <1>1, Z3T(20)
  <2>2. W \div P \in Int
    BY <1>1, SMT
  <2>3. P * (W \div P) \in Int
    BY <1>1, <2>2
  <2> QED BY <1>1, <2>1, <2>2, <2>3
<1>3. \A a \in Int : (a + P * k) % P = a % P
  BY <1>1, ModPeriod
<1>4. \A a \in Int : a % P \in 0 .. P - 1
  BY <1>1, SMT
<1>5. \A a \in Int : a % W \in 0 .. W - 1
  BY <1>1, SMT
<1> QED BY <1>1, <1>2, <1>3, <1>4, <1>5

-----------------------------------------------------------------------------
LEMMA SliceSeq ==
  ASSUME NEW P, NEW S, NEW d, IsBuffer(d, P, S), NEW r \in Nat, NEW n \in Nat
  PROVE  IsSlice(Slice(d, P, r, n), d, P, r, n, S)
<1>1. \A i \in 1 .. n : (r + i - 1) % P \in 0 .. P - 1
  BY DEF IsBuffer
<1>2. Slice(d, P, r, n) \in [1 .. n -> S]
  BY <1>1 DEF Slice, IsBuffer
<1>3. Slice(d, P, r, n) \in Seq(S)
  BY <1>2, SMT
<1>4. Len(Slice(d, P, r, n)) = n
  BY <1>2, <1>3, LenProperties DEF Slice
<1> QED BY <1>3, <1>4 DEF Slice, IsSlice

(* What is put behind the last one is appended: it overwrites none of them. *)
LEMMA SliceAppend ==
  ASSUME NEW P, NEW S, NEW d, IsBuffer(d, P, S), NEW r \in Nat, NEW n \in Nat, n < P,
         NEW b \in S, NEW e, IsPut(e, d, P, r, n, b)
  PROVE  Slice(e, P, r, n + 1) = Append(Slice(d, P, r, n), b)
<1> DEFINE s == Slice(d, P, r, n)
           t == Slice(e, P, r, n + 1)
<1>0. P \in Nat \ {0} /\ d \in [0 .. P - 1 -> S]
  BY DEF IsBuffer, IsPut
<1>1. (r + n) % P \in 0 .. P - 1
  BY <1>0
<1>2. /\ e \in [0 .. P - 1 -> S] /\ e[(r + n) % P] = b
      /\ \A j \in 0 .. P - 1 : j # (r + n) % P => e[j] = d[j]
      /\ IsBuffer(e, P, S)
  BY <1>0, <1>1 DEF IsBuffer, IsPut
<1>3. ASSUME NEW i \in 1 .. n PROVE (r + i - 1) % P # (r + n) % P
  <2>1. /\ P \in Int /\ P > 0 /\ r + i - 1 \in Int /\ r + n \in Int
        /\ r + i - 1 < r + n /\ r + n < r + i - 1 + P
    BY <1>0
  <2> QED BY <2>1, ModDistinct
<1>4. \A i \in 1 .. n : (r + i - 1) % P \in 0 .. P - 1
  BY <1>0
<1>5. /\ s \in Seq(S) /\ Len(s) = n
      /\ \A i \in 1 .. n : s[i] = d[(r + i - 1) % P]
  <2>1. IsSlice(s, d, P, r, n, S)
    BY SliceSeq
  <2> QED BY <2>1 DEF IsSlice
<1>6. /\ t \in Seq(S) /\ Len(t) = n + 1
      /\ \A i \in 1 .. n + 1 : t[i] = e[(r + i - 1) % P]
  <2>1. n + 1 \in Nat
    OBVIOUS
  <2>2. IsSlice(t, e, P, r, n + 1, S)
    BY <1>2, <2>1, SliceSeq
  <2> QED BY <2>2 DEF IsSlice
<1> HIDE DEF s, t
<1>7. \A i \in 1 .. n : t[i] = s[i]
  <2> TAKE i \in 1 .. n
  <2>1. t[i] = e[(r + i - 1) % P] /\ s[i] = d[(r + i - 1) % P]
    BY <1>5, <1>6
  <2> QED BY <1>2, <1>3, <1>4, <2>1
<1>8. t[n + 1] = b
  <2>1. r + (n + 1) - 1 = r + n /\ n + 1 \in 1 .. n + 1
    OBVIOUS
  <2> QED BY <1>2, <1>6, <2>1
<1>9. /\ Append(s, b) \in Seq(S) /\ Len(Append(s, b)) = n + 1
      /\ \A i \in 1 .. n : Append(s, b)[i] = s[i]
      /\ Append(s, b)[n + 1] = b
  BY <1>5, AppendProperties
<1>10. \A i \in 1 .. n + 1 : t[i] = Append(s, b)[i]
  BY <1>7, <1>8, <1>9
<1>11. t = Append(s, b)
  BY <1>6, <1>9, <1>10, SeqEqual
<1> QED BY <1>11 DEF s, t

(* Without its first place it starts one index later.                       *)
LEMMA SliceTail ==
  ASSUME NEW P, NEW S, NEW d, IsBuffer(d, P, S), NEW r \in Nat, NEW n \in Nat, NEW m \in Nat, n = m + 1
  PROVE  IsRest(Slice(d, P, r + 1, m), Slice(d, P, r, n), d[r % P])
<1> DEFINE s == Slice(d, P, r, n)
           t == Slice(d, P, r + 1, m)
<1>1. /\ s \in Seq(S) /\ Len(s) = n
      /\ \A i \in 1 .. n : s[i] = d[(r + i - 1) % P]
  <2>1. IsSlice(s, d, P, r, n, S)
    BY SliceSeq
  <2> QED BY <2>1 DEF IsSlice
<1>2. /\ t \in Seq(S) /\ Len(t) = m
      /\ \A i \in 1 .. m : t[i] = d[(r + 1 + i - 1) % P]
  <2>1. r + 1 \in Nat
    OBVIOUS
  <2>2. IsSlice(t, d, P, r + 1, m, S)
    BY <2>1, SliceSeq
  <2> QED BY <2>2 DEF IsSlice
<1> HIDE DEF s, t
<1>3. \A i \in 1 .. m : t[i] = s[i + 1]
  <2> TAKE i \in 1 .. m
  <2>1. i + 1 \in 1 .. n /\ r + 1 + i - 1 = r + (i + 1) - 1
    OBVIOUS
  <2> QED BY <1>1, <1>2, <2>1
<1>4. s[1] = d[r % P]
  BY <1>1
<1>5. s # <<>>
  BY <1>1, EmptySeq
<1>6. /\ Tail(s) \in Seq(S) /\ Len(Tail(s)) = m
      /\ \A i \in 1 .. m : Tail(s)[i] = s[i + 1]
  BY <1>1, <1>5, HeadTailProperties
<1>7. Head(s) = s[1]
  BY <1>1, <1>5
<1>8. Tail(s) = t
  BY <1>2, <1>3, <1>6, SeqEqual
<1> QED BY <1>4, <1>5, <1>7, <1>8 DEF IsRest, s, t

(* The wrap of the index does not show.                                    *)
LEMMA SliceWrap ==
  ASSUME NEW P, NEW W, IsRing(P, W), NEW d, NEW r \in 0 .. W - 1, NEW n \in Nat
  PROVE  Slice(d, P, (r + 1) % W, n) = Slice(d, P, r + 1, n)
<1>0. /\ P \in Int /\ P > 0 /\ W \in Int /\ P < W
      /\ \A a \in Int : (a + W) % P = a % P
  BY Sizes
<1>1. CASE r + 1 < W
  <2>1. (r + 1) % W = r + 1
    BY <1>1, <1>0, SMT
  <2> QED BY <2>1
<1>2. CASE r + 1 = W
  <2>1. (r + 1) % W = 0
    BY <1>2, <1>0, SMT
  <2>2. \A i \in 1 .. n : (r + 1 + i - 1) % P = (0 + i - 1) % P
    <3>1. \A i \in 1 .. n : i - 1 \in Int /\ r + 1 + i - 1 = (i - 1) + W /\ 0 + i - 1 = i - 1
      BY <1>2, <1>0
    <3> QED BY <3>1, <1>0
  <2> QED BY <2>1, <2>2 DEF Slice
<1> QED BY <1>1, <1>2, <1>0

-----------------------------------------------------------------------------
LEMMA Distance ==
  ASSUME NEW P, NEW W, IsRing(P, W), NEW r \in 0 .. W - 1, NEW w \in 0 .. W - 1
  PROVE  Dist(W, r, w) = IF w >= r THEN w - r ELSE w + W - r
<1>0. /\ P \in Int /\ P > 0 /\ W \in Int /\ P < W
      /\ \A a \in Int : (a + W) % P = a % P
  BY Sizes
<1> USE DEF Dist
<1>1. CASE w >= r
  <2>1. w - r \in Int /\ 0 <= w - r /\ w - r < W
    BY <1>1, <1>0
  <2>2. \A a \in Int : (a + W * 1) % W = a % W
    <3>1. W \in Int /\ W > 0 /\ 1 \in Int
      BY <1>0
    <3> QED BY <3>1, ModPeriod, Zenon
  <2>3. \A a \in Int : 0 <= a /\ a < W => a % W = a
    BY <1>0, SMT
  <2>4. w + W - r = (w - r) + W * 1
    BY <1>0
  <2> QED BY <1>1, <2>1, <2>2, <2>3, <2>4
<1>2. CASE w < r
  BY <1>2, <1>0, SMT
<1> QED BY <1>1, <1>2, <1>0

(* One more, in unsigned arithmetic.                                       *)
LEMMA Increment ==
  ASSUME NEW P, NEW W, IsRing(P, W), NEW r \in 0 .. W - 1
  PROVE  (r + 1) % W = IF r + 1 = W THEN 0 ELSE r + 1
<1>0. /\ P \in Int /\ P > 0 /\ W \in Int /\ P < W
      /\ \A a \in Int : (a + W) % P = a % P
  BY Sizes
<1>1. CASE r + 1 = W
  BY <1>1, <1>0, SMT
<1>2. CASE r + 1 < W
  BY <1>2, <1>0, SMT
<1> QED BY <1>1, <1>2, <1>0

(* One index is P behind the other, in unsigned arithmetic.                *)
LEMMA FullDistance ==
  ASSUME NEW P, NEW W, IsRing(P, W), NEW r \in 0 .. W - 1, NEW w \in 0 .. W - 1
  PROVE  w = (r + P) % W <=> w = r + P \/ w + W = r + P
<1>0. /\ P \in Int /\ P > 0 /\ W \in Int /\ P < W
      /\ \A a \in Int : (a + W) % P = a % P
  BY Sizes
<1>1. CASE r + P < W
  <2>1. (r + P) % W = r + P
    BY <1>1, <1>0, SMT
  <2> QED BY <1>1, <2>1, <1>0
<1>2. CASE r + P >= W
  <2>1. (r + P) % W = r + P - W
    BY <1>2, <1>0, SMT
  <2> QED BY <1>2, <2>1, <1>0
<1> QED BY <1>1, <1>2, <1>0

-----------------------------------------------------------------------------
(***************************************************************************)
(* The pipe.                                                               *)
(***************************************************************************)
(* Slots of the ring buffer and values of the counters.                    *)
LEMMA Counters ==
  /\ 0 \in 0 .. Wrap - 1 /\ 0 \in 0 .. PIPESIZE - 1
  /\ \A n \in Nat : n % PIPESIZE \in 0 .. PIPESIZE - 1 /\ (n + 1) % Wrap \in 0 .. Wrap - 1
<1>1. PIPESIZE \in Nat \ {0} /\ Wrap \in Nat \ {0}
  BY ConstantAssumptions
<1>2. \A n \in Nat : n % PIPESIZE \in 0 .. PIPESIZE - 1
  BY <1>1, SMT
<1>3. \A n \in Nat : n % Wrap \in 0 .. Wrap - 1
  BY <1>1, SMT
<1>4. \A n \in Nat : n + 1 \in Nat
  BY SMT
<1>5. 0 \in 0 .. Wrap - 1 /\ 0 \in 0 .. PIPESIZE - 1
  BY <1>1, SMT
<1> QED BY <1>2, <1>3, <1>4, <1>5, Zenon

(* The caller has the read end open. *)
LEMMA ReadCallStep ==
  ASSUME IInv, NEW p \in Procs, NEW n \in Lens, ReadCall(p, n)
  PROVE  IInv'
<1> USE DEF IInv
<1> USE DEF ReadCall, At, Goto, ring, flags
<1>1. TypeOK'
  BY ConstantAssumptions DEF TypeOK, Pcs, ReadPcs, WritePcs
<1>2. LockInv'
  BY ConstantAssumptions DEF TypeOK, LockInv, LockedPcs
<1>3. EndsInv'
  BY DEF TypeOK, EndsInv, CloseInv, ReadPcs, WritePcs
<1>4. CloseInv'
  BY DEF TypeOK, EndsInv, CloseInv, ReadPcs, WritePcs
<1> QED BY <1>1, <1>2, <1>3, <1>4

(* The caller has the write end open. *)
LEMMA WriteCallStep ==
  ASSUME IInv, NEW p \in Procs, NEW n \in Lens, WriteCall(p, n)
  PROVE  IInv'
<1> USE DEF IInv
<1> USE DEF WriteCall, At, Goto, ring, flags
<1>1. TypeOK'
  BY ConstantAssumptions DEF TypeOK, Pcs, ReadPcs, WritePcs
<1>2. LockInv'
  BY ConstantAssumptions DEF TypeOK, LockInv, LockedPcs
<1>3. EndsInv'
  BY DEF TypeOK, EndsInv, CloseInv, ReadPcs, WritePcs
<1>4. CloseInv'
  BY DEF TypeOK, EndsInv, CloseInv, ReadPcs, WritePcs
<1> QED BY <1>1, <1>2, <1>3, <1>4

(* p->lock was free, so nobody is inside. *)
LEMMA EnterStep ==
  ASSUME IInv, NEW p \in Procs, Enter(p)
  PROVE  IInv'
<1> USE DEF IInv
<1> USE DEF Enter, Acquire, At, Goto, ring, flags
<1>1. TypeOK'
  BY ConstantAssumptions DEF TypeOK, Pcs, ReadPcs, WritePcs
<1>2. LockInv'
  BY ConstantAssumptions DEF TypeOK, LockInv, LockedPcs
<1>3. EndsInv'
  BY DEF TypeOK, EndsInv, CloseInv, ReadPcs, WritePcs
<1>4. CloseInv'
  BY DEF TypeOK, EndsInv, CloseInv, ReadPcs, WritePcs
<1> QED BY <1>1, <1>2, <1>3, <1>4

(* The reader keeps p->lock. *)
LEMMA ReadBlocksStep ==
  ASSUME IInv, NEW p \in Procs, ReadBlocks(p)
  PROVE  IInv'
<1> USE DEF IInv
<1> USE DEF ReadBlocks, At, Goto, ring, flags
<1>1. TypeOK'
  BY ConstantAssumptions DEF TypeOK, Pcs, ReadPcs, WritePcs
<1>2. LockInv'
  BY ConstantAssumptions DEF TypeOK, LockInv, LockedPcs
<1>3. EndsInv'
  BY DEF TypeOK, EndsInv, CloseInv, ReadPcs, WritePcs
<1>4. CloseInv'
  BY DEF TypeOK, EndsInv, CloseInv, ReadPcs, WritePcs
<1> QED BY <1>1, <1>2, <1>3, <1>4

(* The reader lets go of p->lock and leaves. *)
LEMMA ReadKilledStep ==
  ASSUME IInv, NEW p \in Procs, ReadKilled(p)
  PROVE  IInv'
<1> USE DEF IInv
<1> USE DEF ReadKilled, Release, Leave, At, Goto, ring, flags
<1>1. TypeOK'
  BY ConstantAssumptions DEF TypeOK, Pcs, ReadPcs, WritePcs
<1>2. LockInv'
  BY ConstantAssumptions DEF TypeOK, LockInv, LockedPcs
<1>3. EndsInv'
  BY DEF TypeOK, EndsInv, CloseInv, ReadPcs, WritePcs
<1>4. CloseInv'
  BY DEF TypeOK, EndsInv, CloseInv, ReadPcs, WritePcs
<1> QED BY <1>1, <1>2, <1>3, <1>4

(* The reader lets go of p->lock and sleeps. *)
LEMMA ReadSleepStep ==
  ASSUME IInv, NEW p \in Procs, ReadSleep(p)
  PROVE  IInv'
<1> USE DEF IInv
<1> USE DEF ReadSleep, Release, At, Goto, ring, flags
<1>1. TypeOK'
  BY ConstantAssumptions DEF TypeOK, Pcs, ReadPcs, WritePcs
<1>2. LockInv'
  BY ConstantAssumptions DEF TypeOK, LockInv, LockedPcs
<1>3. EndsInv'
  BY DEF TypeOK, EndsInv, CloseInv, ReadPcs, WritePcs
<1>4. CloseInv'
  BY DEF TypeOK, EndsInv, CloseInv, ReadPcs, WritePcs
<1> QED BY <1>1, <1>2, <1>3, <1>4

(* The reader keeps p->lock. *)
LEMMA ReadStartStep ==
  ASSUME IInv, NEW p \in Procs, ReadStart(p)
  PROVE  IInv'
<1> USE DEF IInv
<1> USE DEF ReadStart, At, Goto, ring, flags
<1>1. TypeOK'
  BY ConstantAssumptions DEF TypeOK, Pcs, ReadPcs, WritePcs
<1>2. LockInv'
  BY ConstantAssumptions DEF TypeOK, LockInv, LockedPcs
<1>3. EndsInv'
  BY DEF TypeOK, EndsInv, CloseInv, ReadPcs, WritePcs
<1>4. CloseInv'
  BY DEF TypeOK, EndsInv, CloseInv, ReadPcs, WritePcs
<1> QED BY <1>1, <1>2, <1>3, <1>4

(* nread stays below Wrap, and its slot inside the buffer. *)
LEMMA ReadByteStep ==
  ASSUME IInv, NEW p \in Procs, ReadByte(p)
  PROVE  IInv'
<1> USE DEF IInv
<1> USE DEF ReadByte, At, Goto, ring, flags
<1>1. TypeOK'
  <2>1. nread \in Nat /\ todo[p] \in Nat
    BY ConstantAssumptions DEF TypeOK
  <2>2. nread' \in 0 .. Wrap - 1
    BY <2>1, Counters
  <2>3. data[nread % PIPESIZE] \in Bytes
    BY <2>1, Counters DEF TypeOK
  <2>4. got' \in [Procs -> Bytes \cup {NoByte}]
    BY <2>3 DEF TypeOK
  <2>5. todo' \in [Procs -> Nat]
    BY <2>1 DEF TypeOK
  <2> QED BY <2>2, <2>4, <2>5 DEF TypeOK
<1>2. LockInv'
  BY ConstantAssumptions DEF TypeOK, LockInv, LockedPcs
<1>3. EndsInv'
  BY DEF TypeOK, EndsInv, CloseInv, ReadPcs, WritePcs
<1>4. CloseInv'
  BY DEF TypeOK, EndsInv, CloseInv, ReadPcs, WritePcs
<1> QED BY <1>1, <1>2, <1>3, <1>4

(* Writers that wake are outside of p->lock. *)
LEMMA ReadDoneStep ==
  ASSUME IInv, NEW p \in Procs, ReadDone(p)
  PROVE  IInv'
<1> USE DEF IInv
<1> USE DEF ReadDone, WakeReaders, WakeWriters, Wakeup, Release, Leave, At, ring, flags
<1>1. TypeOK'
  BY ConstantAssumptions DEF TypeOK, Pcs, ReadPcs, WritePcs
<1>2. LockInv'
  BY ConstantAssumptions DEF TypeOK, LockInv, LockedPcs
<1>3. EndsInv'
  BY DEF TypeOK, EndsInv, CloseInv, ReadPcs, WritePcs
<1>4. CloseInv'
  BY DEF TypeOK, EndsInv, CloseInv, ReadPcs, WritePcs
<1> QED BY <1>1, <1>2, <1>3, <1>4

(* nwrite stays below Wrap, and its slot inside the buffer. *)
LEMMA WriteByteStep ==
  ASSUME IInv, NEW p \in Procs, NEW b \in Bytes, WriteByte(p, b)
  PROVE  IInv'
<1> USE DEF IInv
<1> USE DEF WriteByte, At, Goto, ring, flags
<1>1. TypeOK'
  <2>1. nwrite \in Nat /\ todo[p] \in Nat
    BY ConstantAssumptions DEF TypeOK
  <2>2. nwrite' \in 0 .. Wrap - 1
    BY <2>1, Counters
  <2>3. data' \in [0 .. PIPESIZE - 1 -> Bytes]
    BY <2>1, Counters DEF TypeOK
  <2>4. todo' \in [Procs -> Nat]
    BY <2>1 DEF TypeOK
  <2> QED BY <2>2, <2>3, <2>4 DEF TypeOK
<1>2. LockInv'
  BY ConstantAssumptions DEF TypeOK, LockInv, LockedPcs
<1>3. EndsInv'
  BY DEF TypeOK, EndsInv, CloseInv, ReadPcs, WritePcs
<1>4. CloseInv'
  BY DEF TypeOK, EndsInv, CloseInv, ReadPcs, WritePcs
<1> QED BY <1>1, <1>2, <1>3, <1>4

(* The writer lets go of p->lock and leaves. *)
LEMMA WriteGivesUpStep ==
  ASSUME IInv, NEW p \in Procs, WriteGivesUp(p)
  PROVE  IInv'
<1> USE DEF IInv
<1> USE DEF WriteGivesUp, Release, Leave, At, Goto, ring, flags
<1>1. TypeOK'
  BY ConstantAssumptions DEF TypeOK, Pcs, ReadPcs, WritePcs
<1>2. LockInv'
  BY ConstantAssumptions DEF TypeOK, LockInv, LockedPcs
<1>3. EndsInv'
  BY DEF TypeOK, EndsInv, CloseInv, ReadPcs, WritePcs
<1>4. CloseInv'
  BY DEF TypeOK, EndsInv, CloseInv, ReadPcs, WritePcs
<1> QED BY <1>1, <1>2, <1>3, <1>4

(* The writer keeps p->lock. *)
LEMMA WriteBlocksStep ==
  ASSUME IInv, NEW p \in Procs, WriteBlocks(p)
  PROVE  IInv'
<1> USE DEF IInv
<1> USE DEF WriteBlocks, At, Goto, ring, flags
<1>1. TypeOK'
  BY ConstantAssumptions DEF TypeOK, Pcs, ReadPcs, WritePcs
<1>2. LockInv'
  BY ConstantAssumptions DEF TypeOK, LockInv, LockedPcs
<1>3. EndsInv'
  BY DEF TypeOK, EndsInv, CloseInv, ReadPcs, WritePcs
<1>4. CloseInv'
  BY DEF TypeOK, EndsInv, CloseInv, ReadPcs, WritePcs
<1> QED BY <1>1, <1>2, <1>3, <1>4

(* Readers that wake are outside of p->lock. *)
LEMMA WriteSleepStep ==
  ASSUME IInv, NEW p \in Procs, WriteSleep(p)
  PROVE  IInv'
<1> USE DEF IInv
<1> USE DEF WriteSleep, WakeReaders, WakeWriters, Wakeup, Release, At, ring, flags
<1>1. TypeOK'
  BY ConstantAssumptions DEF TypeOK, Pcs, ReadPcs, WritePcs
<1>2. LockInv'
  BY ConstantAssumptions DEF TypeOK, LockInv, LockedPcs
<1>3. EndsInv'
  BY DEF TypeOK, EndsInv, CloseInv, ReadPcs, WritePcs
<1>4. CloseInv'
  BY DEF TypeOK, EndsInv, CloseInv, ReadPcs, WritePcs
<1> QED BY <1>1, <1>2, <1>3, <1>4

(* Readers that wake are outside of p->lock. *)
LEMMA WriteDoneStep ==
  ASSUME IInv, NEW p \in Procs, WriteDone(p)
  PROVE  IInv'
<1> USE DEF IInv
<1> USE DEF WriteDone, WakeReaders, WakeWriters, Wakeup, Release, Leave, At, ring, flags
<1>1. TypeOK'
  BY ConstantAssumptions DEF TypeOK, Pcs, ReadPcs, WritePcs
<1>2. LockInv'
  BY ConstantAssumptions DEF TypeOK, LockInv, LockedPcs
<1>3. EndsInv'
  BY DEF TypeOK, EndsInv, CloseInv, ReadPcs, WritePcs
<1>4. CloseInv'
  BY DEF TypeOK, EndsInv, CloseInv, ReadPcs, WritePcs
<1> QED BY <1>1, <1>2, <1>3, <1>4

(* Only the last holder of an end goes on to pipeclose. *)
LEMMA CloseStep ==
  ASSUME IInv, NEW p \in Procs, NEW e \in {"r", "w"}, Close(p, e)
  PROVE  IInv'
<1> USE DEF IInv
<1> USE DEF Close, At, Goto, ring, flags
<1>1. TypeOK'
  BY ConstantAssumptions DEF TypeOK, Pcs, ReadPcs, WritePcs
<1>2. LockInv'
  BY ConstantAssumptions DEF TypeOK, LockInv, LockedPcs
<1>3. EndsInv'
  BY DEF TypeOK, EndsInv, CloseInv, ReadPcs, WritePcs
<1>4. CloseInv'
  BY DEF TypeOK, EndsInv, CloseInv, ReadPcs, WritePcs
<1> QED BY <1>1, <1>2, <1>3, <1>4

(* Nobody has the closed end open, so nobody is in a call on it. *)
LEMMA PipeCloseStep ==
  ASSUME IInv, NEW p \in Procs, PipeClose(p)
  PROVE  IInv'
<1> USE DEF IInv
<1> USE DEF PipeClose, WakeReaders, WakeWriters, Wakeup, At, ring, flags
<1>1. TypeOK'
  BY ConstantAssumptions DEF TypeOK, Pcs, ReadPcs, WritePcs
<1>2. LockInv'
  BY ConstantAssumptions DEF TypeOK, LockInv, LockedPcs
<1>3. EndsInv'
  <2>1. CASE At(p, "close_w")
    BY <2>1 DEF TypeOK, EndsInv, CloseInv, ReadPcs, WritePcs
  <2>2. CASE At(p, "close_r")
    BY <2>2 DEF TypeOK, EndsInv, CloseInv, ReadPcs, WritePcs
  <2> QED BY <2>1, <2>2
<1>4. CloseInv'
  <2>1. CASE At(p, "close_w")
    BY <2>1 DEF TypeOK, EndsInv, CloseInv, ReadPcs, WritePcs
  <2>2. CASE At(p, "close_r")
    BY <2>2 DEF TypeOK, EndsInv, CloseInv, ReadPcs, WritePcs
  <2> QED BY <2>1, <2>2
<1> QED BY <1>1, <1>2, <1>3, <1>4

(* A sleeper that wakes is outside of p->lock. *)
LEMMA KillStep ==
  ASSUME IInv, NEW p \in Procs, Kill(p)
  PROVE  IInv'
<1> USE DEF IInv
<1> USE DEF Kill, At, Goto, ring, flags
<1>1. TypeOK'
  BY ConstantAssumptions DEF TypeOK, Pcs, ReadPcs, WritePcs
<1>2. LockInv'
  BY ConstantAssumptions DEF TypeOK, LockInv, LockedPcs
<1>3. EndsInv'
  BY DEF TypeOK, EndsInv, CloseInv, ReadPcs, WritePcs
<1>4. CloseInv'
  BY DEF TypeOK, EndsInv, CloseInv, ReadPcs, WritePcs
<1> QED BY <1>1, <1>2, <1>3, <1>4

-----------------------------------------------------------------------------
(* pipealloc leaves p->lock free and both ends open.                       *)
LEMMA InitIInv == Init => IInv
<1> SUFFICES ASSUME Init PROVE IInv
  OBVIOUS
<1> USE DEF Init
<1>1. TypeOK
  BY Counters DEF TypeOK, Pcs
<1>2. LockInv
  BY ConstantAssumptions DEF LockInv, LockedPcs
<1>3. EndsInv /\ CloseInv
  BY DEF EndsInv, CloseInv, ReadPcs, WritePcs
<1> QED BY <1>1, <1>2, <1>3 DEF IInv

(* A step that changes nothing keeps every part of the invariant.          *)
LEMMA StutterIInv == IInv /\ UNCHANGED vars => IInv'
  BY DEF IInv, vars, TypeOK, LockInv, EndsInv, CloseInv

\* Who holds p->lock, which ends are open and who closes them stay
\* consistent in every step of every process.
THEOREM Inductive == IInv /\ [Next]_vars => IInv'
<1> SUFFICES ASSUME IInv, [Next]_vars PROVE IInv'
  OBVIOUS
<1>1. CASE UNCHANGED vars
  BY <1>1, StutterIInv
<1>2. ASSUME NEW p \in Procs, NEW n \in Lens, ReadCall(p, n) \/ WriteCall(p, n)
      PROVE  IInv'
  BY <1>2, ReadCallStep, WriteCallStep
<1>3. ASSUME NEW p \in Procs, KernelStep(p)
      PROVE  IInv'
  BY <1>3, EnterStep, ReadBlocksStep, ReadKilledStep, ReadSleepStep, ReadStartStep,
     ReadByteStep, ReadDoneStep, WriteByteStep, WriteGivesUpStep, WriteBlocksStep,
     WriteSleepStep, WriteDoneStep, PipeCloseStep DEF KernelStep
<1>4. ASSUME NEW p \in Procs, NEW e \in {"r", "w"}, Close(p, e)
      PROVE  IInv'
  BY <1>4, CloseStep
<1>5. ASSUME NEW p \in Procs, Kill(p)
      PROVE  IInv'
  BY <1>5, KillStep
<1> QED BY <1>1, <1>2, <1>3, <1>4, <1>5 DEF Next

-----------------------------------------------------------------------------
\* Every variable of the pipe keeps its type; nread and nwrite stay counters.
THEOREM TypeCorrect == Spec => []TypeOK
<1>1. Spec => []IInv
  BY InitIInv, Inductive, PTL DEF Spec
<1>2. IInv => TypeOK
  BY DEF IInv
<1> QED BY <1>1, <1>2, PTL

\* pipeclose frees the pipe only when no process is inside piperead,
\* pipewrite or pipeclose, sleeps there, or has an end open.
THEOREM FreedUnused == Spec => []NoUseAfterFree
<1>1. Spec => []IInv
  BY InitIInv, Inductive, PTL DEF Spec
<1>2. ASSUME IInv, freed, NEW p \in Procs
      PROVE  pc[p] = "user" /\ fds[p] = {}
  <2>1. ~readopen /\ ~writeopen
    BY <1>2 DEF IInv, CloseInv
  <2>2. "r" \notin fds[p] /\ "w" \notin fds[p] /\ pc[p] \notin {"close_r", "close_w"}
    BY <1>2, <2>1 DEF IInv, EndsInv
  <2>3. pc[p] \notin ReadPcs /\ pc[p] \notin WritePcs
    BY <1>2, <2>2 DEF IInv, EndsInv
  <2> QED BY <1>2, <2>2, <2>3 DEF IInv, TypeOK, Pcs
<1>3. IInv => NoUseAfterFree
  BY <1>2 DEF NoUseAfterFree
<1> QED BY <1>1, <1>3, PTL
-----------------------------------------------------------------------------
(* WakeInv, action by action.  Empty and Full depend on the counters only. *)
LEMMA SameCounters == UNCHANGED <<nread, nwrite>> => (Empty' <=> Empty) /\ (Full' <=> Full)
  BY DEF Empty, Full

(* The caller was awake. *)
LEMMA ReadCallWakes ==
  ASSUME IInv, WakeInv, NEW p \in Procs, NEW n \in Lens, ReadCall(p, n)
  PROVE  WakeInv'
<1> USE DEF IInv, TypeOK, WakeInv, ReadCall, At, Goto, ring, flags
<1>0. (Empty' <=> Empty) /\ (Full' <=> Full)
  BY SameCounters
<1>1. SleepInv'
  BY <1>0, ConstantAssumptions DEF SleepInv, LockInv, LockedPcs, ReadPcs, WritePcs, EndsInv
<1>2. WritersWait'
  BY <1>0, ConstantAssumptions DEF SleepInv, WritersWait, LockInv, LockedPcs
<1>3. ReadersWait'
  BY <1>0, ConstantAssumptions DEF SleepInv, ReadersWait, LockInv, LockedPcs
<1>4. MissedInv'
  BY DEF MissedInv
<1> QED BY <1>1, <1>2, <1>3, <1>4

(* The caller was awake. *)
LEMMA WriteCallWakes ==
  ASSUME IInv, WakeInv, NEW p \in Procs, NEW n \in Lens, WriteCall(p, n)
  PROVE  WakeInv'
<1> USE DEF IInv, TypeOK, WakeInv, WriteCall, At, Goto, ring, flags
<1>0. (Empty' <=> Empty) /\ (Full' <=> Full)
  BY SameCounters
<1>1. SleepInv'
  BY <1>0, ConstantAssumptions DEF SleepInv, LockInv, LockedPcs, ReadPcs, WritePcs, EndsInv
<1>2. WritersWait'
  BY <1>0, ConstantAssumptions DEF SleepInv, WritersWait, LockInv, LockedPcs
<1>3. ReadersWait'
  BY <1>0, ConstantAssumptions DEF SleepInv, ReadersWait, LockInv, LockedPcs
<1>4. MissedInv'
  BY DEF MissedInv
<1> QED BY <1>1, <1>2, <1>3, <1>4

(* A process enters to test or to copy. *)
LEMMA EnterWakes ==
  ASSUME IInv, WakeInv, NEW p \in Procs, Enter(p)
  PROVE  WakeInv'
<1> USE DEF IInv, TypeOK, WakeInv, Enter, Acquire, At, Goto, ring, flags
<1>0. (Empty' <=> Empty) /\ (Full' <=> Full)
  BY SameCounters
<1>1. SleepInv'
  BY <1>0, ConstantAssumptions DEF SleepInv, LockInv, LockedPcs, ReadPcs, WritePcs, EndsInv
<1>2. WritersWait'
  BY <1>0, ConstantAssumptions DEF SleepInv, WritersWait, LockInv, LockedPcs
<1>3. ReadersWait'
  BY <1>0, ConstantAssumptions DEF SleepInv, ReadersWait, LockInv, LockedPcs
<1>4. MissedInv'
  BY DEF MissedInv
<1> QED BY <1>1, <1>2, <1>3, <1>4

(* The reader has just seen its reason to sleep. *)
LEMMA ReadBlocksWakes ==
  ASSUME IInv, WakeInv, NEW p \in Procs, ReadBlocks(p)
  PROVE  WakeInv'
<1> USE DEF IInv, TypeOK, WakeInv, ReadBlocks, At, Goto, ring, flags
<1>0. (Empty' <=> Empty) /\ (Full' <=> Full)
  BY SameCounters
<1>1. SleepInv'
  BY <1>0, ConstantAssumptions DEF SleepInv, LockInv, LockedPcs, ReadPcs, WritePcs, EndsInv
<1>2. WritersWait'
  BY <1>0, ConstantAssumptions DEF SleepInv, WritersWait, LockInv, LockedPcs
<1>3. ReadersWait'
  BY <1>0, ConstantAssumptions DEF SleepInv, ReadersWait, LockInv, LockedPcs
<1>4. MissedInv'
  BY DEF MissedInv
<1> QED BY <1>1, <1>2, <1>3, <1>4

(* The reader leaves without a byte, from its test. *)
LEMMA ReadKilledWakes ==
  ASSUME IInv, WakeInv, NEW p \in Procs, ReadKilled(p)
  PROVE  WakeInv'
<1> USE DEF IInv, TypeOK, WakeInv, ReadKilled, Release, Leave, At, Goto, ring, flags
<1>0. (Empty' <=> Empty) /\ (Full' <=> Full)
  BY SameCounters
<1>1. SleepInv'
  BY <1>0, ConstantAssumptions DEF SleepInv, LockInv, LockedPcs, ReadPcs, WritePcs, EndsInv
<1>2. WritersWait'
  BY <1>0, ConstantAssumptions DEF SleepInv, WritersWait, LockInv, LockedPcs
<1>3. ReadersWait'
  BY <1>0, ConstantAssumptions DEF SleepInv, ReadersWait, LockInv, LockedPcs
<1>4. MissedInv'
  BY DEF MissedInv
<1> QED BY <1>1, <1>2, <1>3, <1>4

(* Nobody could change the pipe since the test. *)
LEMMA ReadSleepWakes ==
  ASSUME IInv, WakeInv, NEW p \in Procs, ReadSleep(p)
  PROVE  WakeInv'
<1> USE DEF IInv, TypeOK, WakeInv, ReadSleep, Release, At, Goto, ring, flags
<1>0. (Empty' <=> Empty) /\ (Full' <=> Full)
  BY SameCounters
<1>1. SleepInv'
  BY <1>0, ConstantAssumptions DEF SleepInv, LockInv, LockedPcs, ReadPcs, WritePcs, EndsInv
<1>2. WritersWait'
  BY <1>0, ConstantAssumptions DEF SleepInv, WritersWait, LockInv, LockedPcs
<1>3. ReadersWait'
  BY <1>0, ConstantAssumptions DEF SleepInv, ReadersWait, LockInv, LockedPcs
<1>4. MissedInv'
  BY DEF MissedInv
<1> QED BY <1>1, <1>2, <1>3, <1>4

(* A reader copies, so writers need not find the pipe full. *)
LEMMA ReadStartWakes ==
  ASSUME IInv, WakeInv, NEW p \in Procs, ReadStart(p)
  PROVE  WakeInv'
<1> USE DEF IInv, TypeOK, WakeInv, ReadStart, At, Goto, ring, flags
<1>0. (Empty' <=> Empty) /\ (Full' <=> Full)
  BY SameCounters
<1>1. SleepInv'
  BY <1>0, ConstantAssumptions DEF SleepInv, LockInv, LockedPcs, ReadPcs, WritePcs, EndsInv
<1>2. WritersWait'
  BY <1>0, ConstantAssumptions DEF SleepInv, WritersWait, LockInv, LockedPcs
<1>3. ReadersWait'
  BY <1>0, ConstantAssumptions DEF SleepInv, ReadersWait, LockInv, LockedPcs
<1>4. MissedInv'
  BY DEF MissedInv
<1> QED BY <1>1, <1>2, <1>3, <1>4

(* The reader will wake the writers; other readers sleep only on an empty pipe. *)
LEMMA ReadByteWakes ==
  ASSUME IInv, WakeInv, NEW p \in Procs, ReadByte(p)
  PROVE  WakeInv'
<1> USE DEF IInv, TypeOK, WakeInv, ReadByte, At, Goto, ring, flags
<1>1. SleepInv'
  BY DEF SleepInv, LockInv, LockedPcs
<1>2. WritersWait'
  BY DEF WritersWait, LockInv, LockedPcs
<1>3. ReadersWait'
  BY DEF ReadersWait, LockInv, LockedPcs
<1>4. MissedInv'
  BY DEF MissedInv
<1> QED BY <1>1, <1>2, <1>3, <1>4

(* No writer sleeps after it. *)
LEMMA ReadDoneWakes ==
  ASSUME IInv, WakeInv, NEW p \in Procs, ReadDone(p)
  PROVE  WakeInv'
<1> USE DEF IInv, TypeOK, WakeInv, ReadDone, WakeWriters, Wakeup, Release, Leave, At, Goto, ring, flags
<1>0. (Empty' <=> Empty) /\ (Full' <=> Full)
  BY SameCounters
<1>1. SleepInv'
  BY <1>0, ConstantAssumptions DEF SleepInv, LockInv, LockedPcs, ReadPcs, WritePcs, EndsInv
<1>2. WritersWait'
  BY <1>0, ConstantAssumptions DEF SleepInv, WritersWait, LockInv, LockedPcs
<1>3. ReadersWait'
  BY <1>0, ConstantAssumptions DEF SleepInv, ReadersWait, LockInv, LockedPcs
<1>4. MissedInv'
  BY DEF MissedInv
<1> QED BY <1>1, <1>2, <1>3, <1>4

(* The writer will wake the readers; other writers sleep only on a full pipe. *)
LEMMA WriteByteWakes ==
  ASSUME IInv, WakeInv, NEW p \in Procs, NEW b \in Bytes, WriteByte(p, b)
  PROVE  WakeInv'
<1> USE DEF IInv, TypeOK, WakeInv, WriteByte, At, Goto, ring, flags
<1>1. SleepInv'
  BY DEF SleepInv, LockInv, LockedPcs
<1>2. WritersWait'
  BY DEF WritersWait, LockInv, LockedPcs
<1>3. ReadersWait'
  BY DEF ReadersWait, LockInv, LockedPcs
<1>4. MissedInv'
  BY DEF MissedInv
<1> QED BY <1>1, <1>2, <1>3, <1>4

(* The sleepers it forgets are in missed.  The pipe has a reader if one of   *)
(* them exists, so that it is because of a kill that the writer gives up.  *)
LEMMA WriteGivesUpWakes ==
  ASSUME IInv, WakeInv, NEW p \in Procs, WriteGivesUp(p)
  PROVE  WakeInv'
<1> USE DEF IInv, TypeOK, WakeInv, WriteGivesUp, Release, Leave, At, Goto, ring, flags
<1>0. (Empty' <=> Empty) /\ (Full' <=> Full)
  BY SameCounters
<1>1. SleepInv'
  BY <1>0, ConstantAssumptions DEF SleepInv, LockInv, LockedPcs, ReadPcs, WritePcs, EndsInv
<1>2. WritersWait'
  BY <1>0, ConstantAssumptions DEF SleepInv, WritersWait, LockInv, LockedPcs
<1>3. ReadersWait'
  BY <1>0, ConstantAssumptions DEF SleepInv, ReadersWait, LockInv, LockedPcs
<1>4. MissedInv'
  BY DEF MissedInv, EndsInv, ReadPcs
<1> QED BY <1>1, <1>2, <1>3, <1>4

(* The writer has just seen its reason to sleep. *)
LEMMA WriteBlocksWakes ==
  ASSUME IInv, WakeInv, NEW p \in Procs, WriteBlocks(p)
  PROVE  WakeInv'
<1> USE DEF IInv, TypeOK, WakeInv, WriteBlocks, At, Goto, ring, flags
<1>0. (Empty' <=> Empty) /\ (Full' <=> Full)
  BY SameCounters
<1>1. SleepInv'
  BY <1>0, ConstantAssumptions DEF SleepInv, LockInv, LockedPcs, ReadPcs, WritePcs, EndsInv
<1>2. WritersWait'
  BY <1>0, ConstantAssumptions DEF SleepInv, WritersWait, LockInv, LockedPcs
<1>3. ReadersWait'
  BY <1>0, ConstantAssumptions DEF SleepInv, ReadersWait, LockInv, LockedPcs
<1>4. MissedInv'
  BY DEF MissedInv
<1> QED BY <1>1, <1>2, <1>3, <1>4

(* No reader sleeps after it. *)
LEMMA WriteSleepWakes ==
  ASSUME IInv, WakeInv, NEW p \in Procs, WriteSleep(p)
  PROVE  WakeInv'
<1> USE DEF IInv, TypeOK, WakeInv, WriteSleep, WakeReaders, Wakeup, Release, At, Goto, ring, flags
<1>0. (Empty' <=> Empty) /\ (Full' <=> Full)
  BY SameCounters
<1>1. SleepInv'
  BY <1>0, ConstantAssumptions DEF SleepInv, LockInv, LockedPcs, ReadPcs, WritePcs, EndsInv
<1>2. WritersWait'
  BY <1>0, ConstantAssumptions DEF SleepInv, WritersWait, LockInv, LockedPcs
<1>3. ReadersWait'
  BY <1>0, ConstantAssumptions DEF SleepInv, ReadersWait, LockInv, LockedPcs
<1>4. MissedInv'
  BY DEF MissedInv
<1> QED BY <1>1, <1>2, <1>3, <1>4

(* No reader sleeps after it. *)
LEMMA WriteDoneWakes ==
  ASSUME IInv, WakeInv, NEW p \in Procs, WriteDone(p)
  PROVE  WakeInv'
<1> USE DEF IInv, TypeOK, WakeInv, WriteDone, WakeReaders, Wakeup, Release, Leave, At, Goto, ring, flags
<1>0. (Empty' <=> Empty) /\ (Full' <=> Full)
  BY SameCounters
<1>1. SleepInv'
  BY <1>0, ConstantAssumptions DEF SleepInv, LockInv, LockedPcs, ReadPcs, WritePcs, EndsInv
<1>2. WritersWait'
  BY <1>0, ConstantAssumptions DEF SleepInv, WritersWait, LockInv, LockedPcs
<1>3. ReadersWait'
  BY <1>0, ConstantAssumptions DEF SleepInv, ReadersWait, LockInv, LockedPcs
<1>4. MissedInv'
  BY DEF MissedInv
<1> QED BY <1>1, <1>2, <1>3, <1>4

(* pipeclose comes later. *)
LEMMA CloseWakes ==
  ASSUME IInv, WakeInv, NEW p \in Procs, NEW e \in {"r", "w"}, Close(p, e)
  PROVE  WakeInv'
<1> USE DEF IInv, TypeOK, WakeInv, Close, At, Goto, ring, flags
<1>0. (Empty' <=> Empty) /\ (Full' <=> Full)
  BY SameCounters
<1>1. SleepInv'
  BY <1>0, ConstantAssumptions DEF SleepInv, LockInv, LockedPcs, ReadPcs, WritePcs, EndsInv
<1>2. WritersWait'
  BY <1>0, ConstantAssumptions DEF SleepInv, WritersWait, LockInv, LockedPcs
<1>3. ReadersWait'
  BY <1>0, ConstantAssumptions DEF SleepInv, ReadersWait, LockInv, LockedPcs
<1>4. MissedInv'
  BY DEF MissedInv
<1> QED BY <1>1, <1>2, <1>3, <1>4

(* The other side is woken, and p->lock was free. *)
LEMMA PipeCloseWakes ==
  ASSUME IInv, WakeInv, NEW p \in Procs, PipeClose(p)
  PROVE  WakeInv'
<1> USE DEF IInv, TypeOK, WakeInv, PipeClose, WakeReaders, WakeWriters, Wakeup, At, Goto, ring, flags
<1>0. (Empty' <=> Empty) /\ (Full' <=> Full)
  BY SameCounters
<1>a. \A q \in Procs : pc[q] \notin {"w_sleep", "r_sleep"}
  BY ConstantAssumptions DEF LockInv, LockedPcs
<1>1. SleepInv'
  <2> SUFFICES ASSUME NEW q \in Procs
               PROVE  /\ pc'[q] \in {"w_sleep", "w_asleep"} => readopen'
                      /\ pc'[q] \in {"r_sleep", "r_asleep"} => writeopen'
                      /\ pc'[q] \notin {"w_sleep", "r_sleep"}
    BY DEF SleepInv
  <2>1. CASE At(p, "close_w")
    BY <2>1, <1>a DEF SleepInv
  <2>2. CASE At(p, "close_r")
    BY <2>2, <1>a DEF SleepInv
  <2> QED BY <2>1, <2>2
<1>2. WritersWait'
  BY <1>0, ConstantAssumptions DEF SleepInv, WritersWait, LockInv, LockedPcs
<1>3. ReadersWait'
  <2>1. CASE At(p, "close_w")
    BY <2>1, <1>0, ConstantAssumptions DEF SleepInv, ReadersWait, LockInv, LockedPcs
  <2>2. CASE At(p, "close_r")
    BY <2>2, <1>0, ConstantAssumptions DEF SleepInv, ReadersWait, LockInv, LockedPcs
  <2> QED BY <2>1, <2>2
<1>4. MissedInv'
  BY DEF MissedInv
<1> QED BY <1>1, <1>2, <1>3, <1>4

(* A sleeper that is killed is awake. *)
LEMMA KillWakes ==
  ASSUME IInv, WakeInv, NEW p \in Procs, Kill(p)
  PROVE  WakeInv'
<1> USE DEF IInv, TypeOK, WakeInv, Kill, At, Goto, ring, flags
<1>0. (Empty' <=> Empty) /\ (Full' <=> Full)
  BY SameCounters
<1>1. SleepInv'
  BY <1>0, ConstantAssumptions DEF SleepInv, LockInv, LockedPcs, ReadPcs, WritePcs, EndsInv
<1>2. WritersWait'
  BY <1>0, ConstantAssumptions DEF SleepInv, WritersWait, LockInv, LockedPcs
<1>3. ReadersWait'
  BY <1>0, ConstantAssumptions DEF SleepInv, ReadersWait, LockInv, LockedPcs
<1>4. MissedInv'
  BY DEF MissedInv
<1> QED BY <1>1, <1>2, <1>3, <1>4

\* The reasons of sleepers are kept by every step.
LEMMA WakeInductive == IInv /\ WakeInv /\ [Next]_vars => WakeInv'
<1> SUFFICES ASSUME IInv, WakeInv, [Next]_vars PROVE WakeInv'
  OBVIOUS
<1>1. CASE UNCHANGED vars
  BY <1>1 DEF vars, WakeInv, SleepInv, WritersWait, ReadersWait, MissedInv, Empty, Full
<1>2. ASSUME NEW p \in Procs, NEW n \in Lens, ReadCall(p, n) \/ WriteCall(p, n)
      PROVE  WakeInv'
  BY <1>2, ReadCallWakes, WriteCallWakes
<1>3. ASSUME NEW p \in Procs, KernelStep(p)
      PROVE  WakeInv'
  BY <1>3, EnterWakes, ReadBlocksWakes, ReadKilledWakes, ReadSleepWakes, ReadStartWakes,
     ReadByteWakes, ReadDoneWakes, WriteByteWakes, WriteGivesUpWakes, WriteBlocksWakes,
     WriteSleepWakes, WriteDoneWakes, PipeCloseWakes DEF KernelStep
<1>4. ASSUME NEW p \in Procs, NEW e \in {"r", "w"}, Close(p, e)
      PROVE  WakeInv'
  BY <1>4, CloseWakes
<1>5. ASSUME NEW p \in Procs, Kill(p)
      PROVE  WakeInv'
  BY <1>5, KillWakes
<1> QED BY <1>1, <1>2, <1>3, <1>4, <1>5 DEF Next

\* Whoever sleeps on a pipe that nobody works on has reason to, for any number
\* of readers, writers and kills, but for the readers that were asleep when a
\* killed writer last gave up on a full pipe (pipe.c:83-86).
THEOREM NeverLost == Spec => []NoLostWakeup
<1>1. Init => IInv /\ WakeInv
  BY InitIInv DEF Init, WakeInv, SleepInv, WritersWait, ReadersWait, MissedInv
<1>2. IInv /\ WakeInv /\ [Next]_vars => (IInv /\ WakeInv)'
  BY Inductive, WakeInductive
<1>3. ASSUME IInv, WakeInv, lock = NoProc, NEW p \in Procs
      PROVE  /\ pc[p] = "w_asleep" => Full /\ readopen
             /\ pc[p] = "r_asleep" =>
                  writeopen /\ (Empty \/ (p \in missed /\ \E q \in Procs : killed[q]))
  <2>1. \A q \in Procs : pc[q] \notin LockedPcs
    BY <1>3, ConstantAssumptions DEF IInv, LockInv
  <2> QED BY <1>3, <2>1 DEF LockedPcs, WakeInv, SleepInv, WritersWait, ReadersWait, MissedInv
<1>4. IInv /\ WakeInv => NoLostWakeup
  BY <1>3 DEF NoLostWakeup
<1> QED BY <1>1, <1>2, <1>4, PTL DEF Spec

-----------------------------------------------------------------------------
(***************************************************************************)
(* The ring buffer.  The facts about rings are those of Rings, with        *)
(* PIPESIZE places and counters below Wrap.                                *)
(***************************************************************************)
LEMMA PipeRing ==
  /\ IsRing(PIPESIZE, Wrap)
  /\ PIPESIZE \in Int /\ PIPESIZE > 0 /\ Wrap \in Int /\ PIPESIZE < Wrap
  /\ \A a \in Int : (a + Wrap) % PIPESIZE = a % PIPESIZE
<1>1. IsRing(PIPESIZE, Wrap)
  BY ConstantAssumptions DEF IsRing
<1> QED BY <1>1, Sizes

LEMMA PipeBuffer == TypeOK => IsBuffer(data, PIPESIZE, Bytes)
BY ConstantAssumptions DEF TypeOK, IsBuffer

LEMMA Counting ==
  ASSUME TypeOK
  PROVE  /\ nread \in 0 .. Wrap - 1 /\ nwrite \in 0 .. Wrap - 1
         /\ Used = IF nwrite >= nread THEN nwrite - nread ELSE nwrite + Wrap - nread
         /\ Used \in 0 .. Wrap - 1
         /\ Empty <=> Used = 0
         /\ Full <=> Used = PIPESIZE
         /\ (nread + Used) % PIPESIZE = nwrite % PIPESIZE
<1>1. nread \in 0 .. Wrap - 1 /\ nwrite \in 0 .. Wrap - 1
  BY DEF TypeOK
<1>2. Used = IF nwrite >= nread THEN nwrite - nread ELSE nwrite + Wrap - nread
  BY <1>1, PipeRing, Distance DEF Used, Dist
<1>3. Used \in 0 .. Wrap - 1 /\ (Empty <=> Used = 0)
  BY <1>1, <1>2, PipeRing DEF Empty
<1>4. Full <=> nwrite = nread + PIPESIZE \/ nwrite + Wrap = nread + PIPESIZE
  BY <1>1, PipeRing, FullDistance DEF Full
<1>5. Full <=> Used = PIPESIZE
  BY <1>1, <1>2, <1>4, PipeRing
<1>6. nread + Used = nwrite \/ nread + Used = nwrite + Wrap
  BY <1>1, <1>2, PipeRing
<1>7. (nread + Used) % PIPESIZE = nwrite % PIPESIZE
  BY <1>1, <1>6, PipeRing
<1> QED BY <1>1, <1>2, <1>3, <1>5, <1>7

(***************************************************************************)
(* Contents, for every state and for the two steps that move a byte.       *)
(***************************************************************************)
LEMMA ContentsSeq ==
  ASSUME TypeOK
  PROVE  /\ Contents = Slice(data, PIPESIZE, nread, Used)
         /\ Contents \in Seq(Bytes)
         /\ Len(Contents) = Used
         /\ Contents = <<>> <=> Empty
<1>1. data \in [0 .. PIPESIZE - 1 -> Bytes] /\ nread \in Nat /\ Used \in Nat
  BY Counting, PipeRing DEF TypeOK
<1>2. Contents = Slice(data, PIPESIZE, nread, Used)
  BY DEF Contents, Slice
<1>3. Contents \in Seq(Bytes) /\ Len(Contents) = Used
  <2>1. IsSlice(Contents, data, PIPESIZE, nread, Used, Bytes)
    BY <1>1, <1>2, PipeBuffer, SliceSeq
  <2> QED BY <2>1 DEF IsSlice
<1>4. Contents = <<>> <=> Used = 0
  <2>1. CASE Used = 0
    BY <1>3, <2>1, EmptySeq
  <2>2. CASE Used # 0
    BY <1>3, <2>2, EmptySeq
  <2> QED BY <2>1, <2>2
<1> QED BY <1>2, <1>3, <1>4, Counting

LEMMA ByteIn ==
  ASSUME TypeOK, TypeOK', RingInv, NEW p \in Procs, NEW b \in Bytes, WriteByte(p, b)
  PROVE  /\ Used < PIPESIZE /\ Used' = Used + 1
         /\ Contents' = Append(Contents, b)
<1>1. /\ nread \in 0 .. Wrap - 1 /\ nwrite \in 0 .. Wrap - 1 /\ nread' = nread
      /\ nwrite' = (nwrite + 1) % Wrap /\ ~Full
      /\ data' = [data EXCEPT ![nwrite % PIPESIZE] = b]
      /\ data \in [0 .. PIPESIZE - 1 -> Bytes]
  BY DEF TypeOK, WriteByte, ring
<1>2. nwrite' = IF nwrite + 1 = Wrap THEN 0 ELSE nwrite + 1
  BY <1>1, PipeRing, Increment
<1>3. Used = IF nwrite >= nread THEN nwrite - nread ELSE nwrite + Wrap - nread
  BY Counting
<1>4. Used' = IF nwrite' >= nread' THEN nwrite' - nread' ELSE nwrite' + Wrap - nread'
  <2>1. nread' \in 0 .. Wrap - 1 /\ nwrite' \in 0 .. Wrap - 1
    BY DEF TypeOK
  <2> QED BY <2>1, PipeRing, Distance DEF Used, Dist
<1>5. Used < PIPESIZE
  BY <1>1, <1>3, Counting, PipeRing DEF RingInv
<1>6. Used' = Used + 1
  BY <1>1, <1>2, <1>3, <1>4, <1>5, PipeRing
<1>7. data' = [data EXCEPT ![(nread + Used) % PIPESIZE] = b]
  BY <1>1, Counting
<1>8. Contents' = Slice(data', PIPESIZE, nread', Used')
  BY DEF Contents, Slice
<1>9. Slice(data', PIPESIZE, nread, Used + 1) = Append(Slice(data, PIPESIZE, nread, Used), b)
  <2>0. IsBuffer(data, PIPESIZE, Bytes) /\ b \in Bytes
    BY PipeBuffer
  <2>1. nread \in Nat /\ Used \in Nat
    BY <1>1, Counting, PipeRing
  <2>2. IsPut(data', data, PIPESIZE, nread, Used, b)
    BY <1>7 DEF IsPut
  <2> QED BY <1>5, <2>0, <2>1, <2>2, SliceAppend
<1> QED BY <1>1, <1>5, <1>6, <1>8, <1>9, ContentsSeq

LEMMA ByteOut ==
  ASSUME TypeOK, TypeOK', NEW p \in Procs, ReadByte(p)
  PROVE  /\ Used' = Used - 1
         /\ Contents # <<>>
         /\ data[nread % PIPESIZE] = Head(Contents)
         /\ Contents' = Tail(Contents)
<1>1. /\ nread \in 0 .. Wrap - 1 /\ nwrite \in 0 .. Wrap - 1 /\ nwrite' = nwrite
      /\ nread' = (nread + 1) % Wrap /\ ~Empty
      /\ data' = data /\ data \in [0 .. PIPESIZE - 1 -> Bytes]
  BY DEF TypeOK, ReadByte
<1>2. nread' = IF nread + 1 = Wrap THEN 0 ELSE nread + 1
  BY <1>1, PipeRing, Increment
<1>3. Used = IF nwrite >= nread THEN nwrite - nread ELSE nwrite + Wrap - nread
  BY Counting
<1>4. Used' = IF nwrite' >= nread' THEN nwrite' - nread' ELSE nwrite' + Wrap - nread'
  <2>1. nread' \in 0 .. Wrap - 1 /\ nwrite' \in 0 .. Wrap - 1
    BY DEF TypeOK
  <2> QED BY <2>1, PipeRing, Distance DEF Used, Dist
<1>5. Used > 0
  BY <1>1, Counting, PipeRing
<1>6. Used' = Used - 1
  BY <1>1, <1>2, <1>3, <1>4, <1>5, PipeRing DEF Empty
<1>7. nread \in Nat /\ Used \in Nat /\ Used - 1 \in Nat
  BY <1>1, <1>5, Counting, PipeRing
<1>8. /\ Contents # <<>>
      /\ Head(Contents) = data[nread % PIPESIZE]
      /\ Tail(Contents) = Slice(data, PIPESIZE, nread + 1, Used - 1)
  <2>1. IsBuffer(data, PIPESIZE, Bytes)
    BY PipeBuffer
  <2>2. IsRest(Slice(data, PIPESIZE, nread + 1, Used - 1), Slice(data, PIPESIZE, nread, Used), data[nread % PIPESIZE])
    BY <1>5, <1>7, <2>1, SliceTail
  <2> QED BY <2>2, ContentsSeq DEF IsRest
<1>9. Contents' = Slice(data', PIPESIZE, nread', Used')
  BY DEF Contents, Slice
<1>10. Slice(data, PIPESIZE, (nread + 1) % Wrap, Used - 1) = Slice(data, PIPESIZE, nread + 1, Used - 1)
  BY <1>1, <1>7, PipeRing, SliceWrap
<1> QED BY <1>1, <1>6, <1>8, <1>9, <1>10

-----------------------------------------------------------------------------
(***************************************************************************)
(* RingInv and CopyInv are kept.                                           *)
(***************************************************************************)
LEMMA InitRing == Init => RingInv /\ CopyInv
<1> SUFFICES ASSUME Init PROVE RingInv /\ CopyInv
  OBVIOUS
<1>1. Used = 0
  BY InitIInv, Counting DEF Init, IInv, Empty
<1>2. RingInv
  BY <1>1, PipeRing DEF RingInv
<1>3. CopyInv
  BY DEF CopyInv, Init
<1> QED BY <1>2, <1>3

LEMMA RingMoves ==
  ASSUME Next
  PROVE  \/ UNCHANGED ring
         \/ \E p \in Procs : ReadByte(p)
         \/ \E p \in Procs, b \in Bytes : WriteByte(p, b)
  BY DEF Next, KernelStep, ring, ReadCall, WriteCall, Enter, ReadBlocks, ReadKilled, ReadSleep, ReadStart, ReadByte, ReadDone,
         WriteByte, WriteGivesUp, WriteBlocks, WriteSleep, WriteDone, Close, PipeClose, Kill

LEMMA RingStep == IInv /\ RingInv /\ [Next]_vars => RingInv'
<1> SUFFICES ASSUME IInv, RingInv, [Next]_vars PROVE RingInv'
  OBVIOUS
<1>1. TypeOK /\ TypeOK'
  BY Inductive DEF IInv
<1>2. CASE UNCHANGED ring
  BY <1>2 DEF RingInv, Used, ring
<1>3. ASSUME NEW p \in Procs, ReadByte(p) PROVE RingInv'
  <2>1. Used' = Used - 1
    BY <1>1, <1>3, ByteOut
  <2> QED BY <1>1, <2>1, Counting, PipeRing DEF RingInv
<1>4. ASSUME NEW p \in Procs, NEW b \in Bytes, WriteByte(p, b) PROVE RingInv'
  <2>1. Used < PIPESIZE /\ Used' = Used + 1
    BY <1>1, <1>4, ByteIn
  <2> QED BY <1>1, <2>1, Counting, PipeRing DEF RingInv
<1> QED BY <1>2, <1>3, <1>4, RingMoves DEF vars, ring

(* A process that copies holds p->lock, so that nobody empties or fills    *)
(* the ring, or closes the other end, under it.                            *)
LEMMA CopyStep == IInv /\ CopyInv /\ [Next]_vars => CopyInv'
<1> SUFFICES ASSUME IInv, CopyInv, [Next]_vars,
                    NEW q \in Procs, pc'[q] = "r_copy"
             PROVE  (got[q] # NoByte \/ ~writeopen \/ ~Empty)'
  BY DEF CopyInv
<1>1. TypeOK /\ LockInv /\ NoProc \notin Procs /\ NoByte \notin Bytes
  BY ConstantAssumptions DEF IInv
<1>2. CASE UNCHANGED vars
  BY <1>2 DEF vars, CopyInv, Empty
<1>3. ASSUME NEW p \in Procs, NEW n \in Lens, ReadCall(p, n) \/ WriteCall(p, n)
      PROVE  (got[q] # NoByte \/ ~writeopen \/ ~Empty)'
  BY <1>1, <1>3 DEF ReadCall, WriteCall, Goto, At, ring, flags, CopyInv, Empty, TypeOK
<1>4. ASSUME NEW p \in Procs, Enter(p)
      PROVE  (got[q] # NoByte \/ ~writeopen \/ ~Empty)'
  BY <1>1, <1>4 DEF Enter, Goto, At, ring, flags, CopyInv, Empty, TypeOK
<1>5. ASSUME NEW p \in Procs, ReadBlocks(p) \/ ReadSleep(p) \/ WriteBlocks(p)
      PROVE  (got[q] # NoByte \/ ~writeopen \/ ~Empty)'
  BY <1>1, <1>5 DEF ReadBlocks, ReadSleep, WriteBlocks, Goto, At, ring, flags, CopyInv, Empty, TypeOK
<1>6. ASSUME NEW p \in Procs, ReadKilled(p) \/ WriteGivesUp(p)
      PROVE  (got[q] # NoByte \/ ~writeopen \/ ~Empty)'
  BY <1>1, <1>6 DEF ReadKilled, WriteGivesUp, Leave, Goto, At, ring, flags, CopyInv, Empty, TypeOK
<1>7. ASSUME NEW p \in Procs, ReadStart(p)
      PROVE  (got[q] # NoByte \/ ~writeopen \/ ~Empty)'
  BY <1>1, <1>7 DEF ReadStart, Goto, At, ring, flags, CopyInv, Empty, TypeOK
<1>8. ASSUME NEW p \in Procs, ReadByte(p)
      PROVE  (got[q] # NoByte \/ ~writeopen \/ ~Empty)'
  <2>1. q = p
    BY <1>1, <1>8 DEF ReadByte, At, LockInv, LockedPcs, TypeOK
  <2>2. nread % PIPESIZE \in 0 .. PIPESIZE - 1
    BY <1>1, Counting, PipeRing, SMT
  <2>3. data[nread % PIPESIZE] \in Bytes
    BY <1>1, <2>2 DEF TypeOK
  <2> QED BY <1>1, <1>8, <2>1, <2>3 DEF ReadByte, TypeOK
<1>9. ASSUME NEW p \in Procs, ReadDone(p) \/ WriteDone(p) \/ WriteSleep(p)
      PROVE  (got[q] # NoByte \/ ~writeopen \/ ~Empty)'
  BY <1>1, <1>9 DEF ReadDone, WriteDone, WriteSleep, Leave, WakeReaders, WakeWriters, Wakeup,
     At, ring, flags, CopyInv, Empty, TypeOK
<1>10. ASSUME NEW p \in Procs, NEW b \in Bytes, WriteByte(p, b)
      PROVE  (got[q] # NoByte \/ ~writeopen \/ ~Empty)'
  <2>1. pc[q] = "r_copy" /\ pc[p] = "w_copy"
    BY <1>10 DEF WriteByte, At
  <2>2. lock = q /\ lock = p
    BY <1>1, <2>1 DEF LockInv, LockedPcs
  <2> QED BY <2>1, <2>2
<1>11. ASSUME NEW p \in Procs, NEW e \in {"r", "w"}, Close(p, e)
      PROVE  (got[q] # NoByte \/ ~writeopen \/ ~Empty)'
  BY <1>1, <1>11 DEF Close, Goto, At, ring, flags, CopyInv, Empty, TypeOK
<1>12. ASSUME NEW p \in Procs, PipeClose(p)
      PROVE  (got[q] # NoByte \/ ~writeopen \/ ~Empty)'
  <2>1. pc[q] = "r_copy"
    BY <1>1, <1>12 DEF PipeClose, WakeReaders, WakeWriters, Wakeup, At, TypeOK
  <2>2. lock = q
    BY <1>1, <2>1 DEF LockInv, LockedPcs
  <2> QED BY <1>1, <1>12, <2>2 DEF PipeClose
<1>13. ASSUME NEW p \in Procs, Kill(p)
      PROVE  (got[q] # NoByte \/ ~writeopen \/ ~Empty)'
  BY <1>1, <1>13 DEF Kill, ring, flags, CopyInv, Empty, TypeOK
<1> QED BY <1>2, <1>3, <1>4, <1>5, <1>6, <1>7, <1>8, <1>9, <1>10, <1>11, <1>12, <1>13
        DEF Next, KernelStep

-----------------------------------------------------------------------------
(***************************************************************************)
(* The mapping.  Steps of Pipe that move no byte and begin or end no call  *)
(* do not show in the stream.                                              *)
(***************************************************************************)
Calls == [p \in Procs |-> Call(p)]

LEMMA StreamUnchanged ==
  ASSUME UNCHANGED <<ring, readopen, writeopen, Calls, todo, got, killed>>
  PROVE  UNCHANGED Stream!vars
<1>1. Contents' = Contents
  BY DEF Contents, Used, ring
<1> QED BY <1>1 DEF Stream!vars, Calls

LEMMA Silent ==
  ASSUME TypeOK, NEW p \in Procs,
         \/ Enter(p) \/ ReadBlocks(p) \/ ReadSleep(p) \/ ReadStart(p)
         \/ WriteBlocks(p) \/ WriteSleep(p)
         \/ \E e \in {"r", "w"} : Close(p, e)
  PROVE  UNCHANGED Stream!vars
<1>1. UNCHANGED <<ring, readopen, writeopen, todo, got, killed>>
  BY DEF Enter, ReadBlocks, ReadSleep, ReadStart, WriteBlocks, WriteSleep, Close, flags
<1>2. pc \in [Procs -> Pcs]
  BY DEF TypeOK
<1>3. ASSUME NEW q \in Procs PROVE Call(q)' = Call(q)
  <2>1. CASE Enter(p)
    BY <1>2, <2>1 DEF Enter, At, Goto, Call, ReadPcs, WritePcs
  <2>2. CASE ReadBlocks(p) \/ ReadSleep(p) \/ ReadStart(p) \/ WriteBlocks(p)
    BY <1>2, <2>2 DEF ReadBlocks, ReadSleep, ReadStart, WriteBlocks, At, Goto, Call, ReadPcs, WritePcs
  <2>3. CASE WriteSleep(p)
    BY <1>2, <2>3 DEF WriteSleep, WakeReaders, Wakeup, At, Call, ReadPcs, WritePcs
  <2>4. ASSUME NEW e \in {"r", "w"}, Close(p, e) PROVE Call(q)' = Call(q)
    BY <1>2, <2>4 DEF Close, At, Goto, Call, ReadPcs, WritePcs
  <2> QED BY <2>1, <2>2, <2>3, <2>4
<1>4. Calls' = Calls
  BY <1>3 DEF Calls
<1> QED BY <1>1, <1>4, StreamUnchanged

LEMMA BeginMaps ==
  ASSUME IInv, NEW p \in Procs, NEW n \in Lens, ReadCall(p, n) \/ WriteCall(p, n)
  PROVE  Stream!Begin(p, "read", n) \/ Stream!Begin(p, "write", n)
<1>1. pc \in [Procs -> Pcs] /\ EndsInv
  BY DEF IInv, TypeOK
<1>2. Contents' = Contents
  BY DEF ReadCall, WriteCall, Contents, Used, ring
<1>3. Calls[p] = "none" /\ ~killed[p]
  BY <1>1 DEF ReadCall, WriteCall, At, Calls, Call, ReadPcs, WritePcs
<1>4. CASE ReadCall(p, n)
  <2>1. Calls' = [Calls EXCEPT ![p] = "read"]
    BY <1>1, <1>4 DEF ReadCall, At, Goto, Calls, Call, ReadPcs, WritePcs
  <2>2. readopen
    BY <1>1, <1>4 DEF ReadCall, EndsInv
  <2> QED BY <1>2, <1>3, <1>4, <2>1, <2>2 DEF ReadCall, Stream!Begin, Calls, flags
<1>5. CASE WriteCall(p, n)
  <2>1. Calls' = [Calls EXCEPT ![p] = "write"]
    BY <1>1, <1>5 DEF WriteCall, At, Goto, Calls, Call, ReadPcs, WritePcs
  <2>2. writeopen
    BY <1>1, <1>5 DEF WriteCall, EndsInv
  <2> QED BY <1>2, <1>3, <1>5, <2>1, <2>2 DEF WriteCall, Stream!Begin, Calls, flags
<1> QED BY <1>4, <1>5

LEMMA TakeMaps ==
  ASSUME TypeOK, TypeOK', NEW p \in Procs, ReadByte(p)
  PROVE  Stream!Take(p)
<1>1. Calls[p] = "read" /\ Calls' = Calls
  BY DEF ReadByte, At, Calls, Call, ReadPcs, WritePcs, TypeOK
<1> QED BY <1>1, ByteOut DEF ReadByte, Stream!Take, Calls, flags

LEMMA PutMaps ==
  ASSUME TypeOK, TypeOK', RingInv, NEW p \in Procs, NEW b \in Bytes, WriteByte(p, b)
  PROVE  Stream!Put(p, b)
<1>1. Calls[p] = "write" /\ Calls' = Calls
  BY DEF WriteByte, At, Calls, Call, ReadPcs, WritePcs, TypeOK
<1>2. Len(Contents) < PIPESIZE
  BY ByteIn, ContentsSeq
<1> QED BY <1>1, <1>2, ByteIn DEF WriteByte, Stream!Put, Calls, flags

LEMMA EndMaps ==
  ASSUME TypeOK, CopyInv, NEW p \in Procs,
         ReadKilled(p) \/ ReadDone(p) \/ WriteGivesUp(p) \/ WriteDone(p)
  PROVE  Stream!End(p)
<1>1. pc \in [Procs -> Pcs]
  BY DEF TypeOK
<1>2. /\ UNCHANGED <<readopen, writeopen, killed>>
      /\ todo' = [todo EXCEPT ![p] = 0] /\ got' = [got EXCEPT ![p] = NoByte]
  BY DEF ReadKilled, ReadDone, WriteGivesUp, WriteDone, Leave, flags
<1>3. Contents' = Contents
  BY DEF ReadKilled, ReadDone, WriteGivesUp, WriteDone, Contents, Used, ring
<1>4. Calls' = [Calls EXCEPT ![p] = "none"]
  <2>1. CASE ReadKilled(p) \/ WriteGivesUp(p)
    BY <1>1, <2>1 DEF ReadKilled, WriteGivesUp, At, Goto, Calls, Call, ReadPcs, WritePcs
  <2>2. CASE ReadDone(p)
    BY <1>1, <2>2 DEF ReadDone, WakeWriters, Wakeup, Calls, Call, ReadPcs, WritePcs
  <2>3. CASE WriteDone(p)
    BY <1>1, <2>3 DEF WriteDone, WakeReaders, Wakeup, Calls, Call, ReadPcs, WritePcs
  <2> QED BY <2>1, <2>2, <2>3
<1>5. \/ Calls[p] # "none" /\ todo[p] = 0
      \/ Calls[p] = "read" /\ Contents = <<>> /\ (got[p] # NoByte \/ ~writeopen \/ killed[p])
      \/ Calls[p] = "write" /\ Len(Contents) = PIPESIZE /\ (~readopen \/ killed[p])
  <2>1. CASE ReadKilled(p)
    BY <2>1, ContentsSeq DEF ReadKilled, At, Calls, Call, ReadPcs
  <2>2. CASE ReadDone(p)
    BY <2>2, ContentsSeq DEF ReadDone, CopyInv, At, Calls, Call, ReadPcs
  <2>3. CASE WriteGivesUp(p)
    BY <2>3, ContentsSeq, Counting DEF WriteGivesUp, At, Calls, Call, ReadPcs, WritePcs
  <2>4. CASE WriteDone(p)
    BY <2>4 DEF WriteDone, At, Calls, Call, ReadPcs, WritePcs
  <2> QED BY <2>1, <2>2, <2>3, <2>4
<1> QED BY <1>2, <1>3, <1>4, <1>5 DEF Stream!End, Calls

LEMMA CloseMaps ==
  ASSUME TypeOK, NEW p \in Procs, PipeClose(p)
  PROVE  Stream!CloseRead \/ Stream!CloseWrite
<1>1. Contents' = Contents
  BY DEF PipeClose, Contents, Used, ring
<1>2. Calls' = Calls
  <2>1. ASSUME NEW q \in Procs PROVE Call(q)' = Call(q)
    BY DEF PipeClose, WakeReaders, WakeWriters, Wakeup, At, Call, ReadPcs, WritePcs, TypeOK
  <2> QED BY <2>1 DEF Calls
<1> QED BY <1>1, <1>2 DEF PipeClose, Stream!CloseRead, Stream!CloseWrite, Calls

LEMMA KillMaps ==
  ASSUME TypeOK, NEW p \in Procs, Kill(p)
  PROVE  Stream!Kill(p)
<1>1. Contents' = Contents
  BY DEF Kill, Contents, Used, ring
<1>2. Calls' = Calls
  <2>1. ASSUME NEW q \in Procs PROVE Call(q)' = Call(q)
    BY DEF Kill, Call, ReadPcs, WritePcs, TypeOK
  <2> QED BY <2>1 DEF Calls
<1> QED BY <1>1, <1>2 DEF Kill, Stream!Kill, Calls, flags

-----------------------------------------------------------------------------
LEMMA InitMaps == Init => Stream!Init
<1> SUFFICES ASSUME Init PROVE Stream!Init
  OBVIOUS
<1>1. Contents = <<>>
  BY InitIInv, ContentsSeq DEF Init, IInv, Empty
<1> QED BY <1>1 DEF Init, Stream!Init, Call, ReadPcs, WritePcs

LEMMA StepMaps == IInv /\ RingInv /\ CopyInv /\ [Next]_vars => [Stream!Next]_(Stream!vars)
<1> SUFFICES ASSUME IInv, RingInv, CopyInv, [Next]_vars
             PROVE  Stream!Next \/ UNCHANGED Stream!vars
  OBVIOUS
<1>1. TypeOK /\ TypeOK'
  BY Inductive DEF IInv
<1>2. CASE UNCHANGED vars
  <2>1. UNCHANGED <<ring, readopen, writeopen, Calls, todo, got, killed>>
    <3>1. UNCHANGED <<ring, readopen, writeopen, pc, todo, got, killed>>
      BY <1>2 DEF vars, ring
    <3>2. Calls' = Calls
      BY <3>1 DEF Calls, Call
    <3> QED BY <3>1, <3>2
  <2> QED BY <2>1, StreamUnchanged
<1>3. ASSUME NEW p \in Procs, NEW n \in Lens, ReadCall(p, n) \/ WriteCall(p, n)
      PROVE  Stream!Next
  BY <1>3, BeginMaps DEF Stream!Next
<1>4. ASSUME NEW p \in Procs, KernelStep(p)
      PROVE  Stream!Next \/ UNCHANGED Stream!vars
  <2>1. CASE \/ Enter(p) \/ ReadBlocks(p) \/ ReadSleep(p) \/ ReadStart(p)
             \/ WriteBlocks(p) \/ WriteSleep(p)
    BY <1>1, <2>1, Silent
  <2>2. CASE ReadByte(p)
    BY <1>1, <2>2, TakeMaps DEF Stream!Next
  <2>3. ASSUME NEW b \in Bytes, WriteByte(p, b) PROVE Stream!Next
    BY <1>1, <2>3, PutMaps DEF Stream!Next
  <2>4. CASE ReadKilled(p) \/ ReadDone(p) \/ WriteGivesUp(p) \/ WriteDone(p)
    BY <1>1, <2>4, EndMaps DEF Stream!Next
  <2>5. CASE PipeClose(p)
    BY <1>1, <2>5, CloseMaps DEF Stream!Next
  <2> QED BY <1>4, <2>1, <2>2, <2>3, <2>4, <2>5 DEF KernelStep
<1>5. ASSUME NEW p \in Procs, NEW e \in {"r", "w"}, Close(p, e)
      PROVE  UNCHANGED Stream!vars
  BY <1>1, <1>5, Silent
<1>6. ASSUME NEW p \in Procs, Kill(p)
      PROVE  Stream!Next
  BY <1>1, <1>6, KillMaps DEF Stream!Next
<1> QED BY <1>2, <1>3, <1>4, <1>5, <1>6 DEF Next

\* The ring buffer of pipe.c, with its wrapping counters, its lock, sleeps,
\* kills and closes, implements a stream of bytes of capacity PIPESIZE.
THEOREM Refinement == Spec => ImplementsStream
<1>1. Spec => [](IInv /\ RingInv /\ CopyInv)
  BY InitIInv, InitRing, Inductive, RingStep, CopyStep, PTL DEF Spec
<1>2. Spec => Stream!Init /\ [][Stream!Next]_(Stream!vars)
  BY <1>1, InitMaps, StepMaps, PTL DEF Spec
<1> QED BY <1>2 DEF ImplementsStream, Stream!Spec
=============================================================================
