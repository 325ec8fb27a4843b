--------------------------- MODULE BufferCacheProofs ---------------------------
(***************************************************************************)
(* For any processes, buffers and sectors: the variables of BufferCache    *)
(* keep their types, the cache is exact, and it implements SectorStore.    *)
(* IInv says besides what a process asks for and waits on.                 *)
(***************************************************************************)
EXTENDS BufferCache, FiniteSetTheorems, TLAPS

In(y, q)    == \E i \in 1 .. Len(q) : q[i] = y
Distinct(q) == \A i, k \in 1 .. Len(q) : q[i] = q[k] => i = k

Waiting(p) == pc[p] \in {"ide_asleep", "ide_awake"}

(* Whoever is in bget looks for a sector; whoever is in iderw has a buffer,*)
(* which is not in sync when it is handed over; a buffer somebody has is   *)
(* one of a sector; and the drive, if it works, has a command.             *)
AskInv ==
  /\ \A p \in Procs : /\ pc[p] \in {"bget", "bget_asleep"} => want[p] \in Sectors
                      /\ InIderw(p) => cur[p] \in Bufs
                      /\ pc[p] = "iderw" => ~Synced(cur[p])
                      /\ \A b \in Bufs : Owns(p, b) => sector[b] \in Sectors
  /\ drive # "idle" => cmd \in Cmds

IInv == TypeOK /\ CacheExact /\ AskInv

-----------------------------------------------------------------------------
(***************************************************************************)
(* Sequences without repetitions.                                          *)
(***************************************************************************)
(* Appending a new element adds it and keeps the head.                     *)
LEMMA AppendNew ==
  ASSUME NEW S, NEW q \in Seq(S), NEW x \in S, Distinct(q), ~In(x, q)
  PROVE  /\ Append(q, x) \in Seq(S) /\ Append(q, x) # <<>>
         /\ Distinct(Append(q, x))
         /\ \A y : In(y, Append(q, x)) <=> In(y, q) \/ y = x
         /\ Head(Append(q, x)) = IF q = <<>> THEN x ELSE Head(q)
<1> DEFINE r == Append(q, x)
<1>1. /\ r \in Seq(S) /\ Len(r) = Len(q) + 1 /\ Len(q) \in Nat
      /\ r[Len(q) + 1] = x /\ \A i \in 1 .. Len(q) : r[i] = q[i]
  OBVIOUS
<1>2. r # <<>> /\ Head(r) = r[1]
  BY <1>1
<1>3. Head(r) = IF q = <<>> THEN x ELSE Head(q)
  BY <1>1, <1>2
<1> HIDE DEF r
<1>4. Distinct(r)
  BY <1>1 DEF Distinct, In
<1>5. ASSUME NEW y
      PROVE  In(y, r) <=> In(y, q) \/ y = x
  BY <1>1 DEF In
<1> QED BY <1>1, <1>2, <1>3, <1>4, <1>5 DEF r

(* Tail removes the head, and nothing else.                                *)
LEMMA TailOld ==
  ASSUME NEW S, NEW q \in Seq(S), q # <<>>, Distinct(q)
  PROVE  /\ Tail(q) \in Seq(S) /\ Distinct(Tail(q))
         /\ Head(q) \in S /\ In(Head(q), q)
         /\ \A y : In(y, Tail(q)) <=> In(y, q) /\ y # Head(q)
         /\ Tail(q) = <<>> <=> ~(Len(q) > 1)
         /\ Len(q) > 1 => Head(Tail(q)) = q[2] /\ In(q[2], q) /\ q[2] # Head(q) /\ q[2] \in S
<1> DEFINE r == Tail(q)
<1>1. /\ Len(q) \in Nat \ {0} /\ r \in Seq(S) /\ Len(r) = Len(q) - 1
      /\ \A i \in 1 .. Len(q) - 1 : r[i] = q[i + 1]
      /\ Head(q) = q[1] /\ \A i \in 1 .. Len(q) : q[i] \in S
  OBVIOUS
<1>3. Len(q) > 1 => Head(r) = q[2]
  BY <1>1
<1> HIDE DEF r
<1>2. r = <<>> <=> ~(Len(q) > 1)
  <2>1. r = <<>> <=> Len(r) = 0
    BY <1>1
  <2> QED BY <2>1, <1>1
<1>4. Distinct(r)
  BY <1>1 DEF Distinct
<1>5. ASSUME NEW y
      PROVE  In(y, r) <=> In(y, q) /\ y # q[1]
  <2>1. ASSUME In(y, r)
        PROVE  In(y, q) /\ y # q[1]
    BY <1>1, <2>1 DEF In, Distinct
  <2>2. ASSUME In(y, q), y # q[1]
        PROVE  In(y, r)
    <3>1. PICK i \in 1 .. Len(q) : q[i] = y
      BY <2>2 DEF In
    <3>2. i # 1 /\ i - 1 \in 1 .. Len(r) /\ r[i - 1] = y
      BY <3>1, <2>2, <1>1
    <3> QED BY <3>2 DEF In
  <2> QED BY <2>1, <2>2
<1>6. Len(q) > 1 => In(q[2], q) /\ q[2] # q[1] /\ q[2] \in S
  BY <1>1 DEF In, Distinct
<1>7. In(q[1], q)
  BY <1>1 DEF In
<1> QED BY <1>1, <1>2, <1>3, <1>4, <1>5, <1>6, <1>7 DEF r

(* Flags and sync, without set operations.                                 *)
LEMMA SyncedFlags ==
  \A b : Synced(b) <=> "B_VALID" \in flags[b] /\ "B_DIRTY" \notin flags[b]
  BY DEF Synced

(* QueueSound in terms of In and Distinct, in a state and in the next.     *)
QueueInv ==
  /\ Distinct(idequeue)
  /\ \A b \in Bufs : In(b, idequeue) <=> \E p \in Procs : Waiting(p) /\ cur[p] = b /\ ~Synced(b)
  /\ drive = "idle" <=> idequeue = <<>>
  /\ drive # "idle" =>
       /\ cmd.sector = sector[Head(idequeue)]
       /\ cmd.op = "write" <=> "B_DIRTY" \in flags[Head(idequeue)]
       /\ cmd.op = "write" => cmd.val = data[Head(idequeue)]

LEMMA QueueParts == (QueueSound <=> QueueInv) /\ (QueueSound' <=> QueueInv')
  BY DEF QueueSound, QueueInv, In, Distinct, Waiting

(* Sleepers that wake keep their buffers and their place in iderw.         *)
LEMMA WakeKeeps ==
  ASSUME TypeOK, NEW S, WakeAll(S)
  PROVE  /\ pc' \in [Procs -> Pcs] /\ cur' \in [Procs -> Bufs \cup {NoBuf}]
         /\ \A q \in Procs :
              /\ InIderw(q) => cur'[q] = cur[q]
              /\ Waiting(q)' <=> Waiting(q)
              /\ InIderw(q)' <=> InIderw(q)
              /\ pc'[q] = "iderw" <=> pc[q] = "iderw"
              /\ pc'[q] \in {"bget", "bget_asleep"} <=> pc[q] \in {"bget", "bget_asleep"}
<1>1. \A q \in Procs : pc[q] \in Pcs /\ Awake(pc[q]) \in Pcs /\ pc'[q] \in {pc[q], Awake(pc[q])}
  BY DEF TypeOK, WakeAll, Awake, Pcs
<1>2. \A q \in Procs : cur'[q] \in {cur[q], NoBuf} /\ (pc[q] # "bget_asleep" => cur'[q] = cur[q])
  BY DEF TypeOK, WakeAll
<1>3. pc' \in [Procs -> Pcs] /\ cur' \in [Procs -> Bufs \cup {NoBuf}]
  BY <1>1, <1>2 DEF TypeOK, WakeAll
<1>4. ASSUME NEW q \in Procs
      PROVE  /\ InIderw(q) => cur'[q] = cur[q]
             /\ Waiting(q)' <=> Waiting(q)
             /\ InIderw(q)' <=> InIderw(q)
             /\ pc'[q] = "iderw" <=> pc[q] = "iderw"
             /\ pc'[q] \in {"bget", "bget_asleep"} <=> pc[q] \in {"bget", "bget_asleep"}
  BY <1>1, <1>2 DEF InIderw, Waiting, Awake
<1> QED BY <1>3, <1>4

(* Who owns what, as BufferCache's parts say it.                           *)
LEMMA Owning ==
  ASSUME IInv
  PROVE  /\ \A p \in Procs, b \in Bufs : Owns(p, b) => Busy(b)
         /\ \A p, q \in Procs, b \in Bufs : Owns(p, b) /\ Owns(q, b) => p = q
         /\ \A p \in Procs : InIderw(p) => cur[p] \in Bufs /\ Owns(p, cur[p])
         /\ \A p \in Procs : \A b \in held[p] : b \in Bufs /\ Owns(p, b)
         /\ \A b \in Bufs : In(b, idequeue) => \E p \in Procs : Waiting(p) /\ cur[p] = b /\ Owns(p, b)
<1>1. OwnersExact /\ QueueSound /\ AskInv /\ TypeOK
  BY DEF IInv, CacheExact
<1>2. \A b \in Bufs : In(b, idequeue) => \E p \in Procs : Waiting(p) /\ cur[p] = b
  BY <1>1, QueueParts DEF QueueInv
<1>3. \A p \in Procs : Waiting(p) => InIderw(p)
  BY DEF Waiting, InIderw
<1>4. \A p \in Procs : InIderw(p) => cur[p] \in Bufs /\ Owns(p, cur[p])
  BY <1>1 DEF AskInv, Owns
<1>5. \A p \in Procs : \A b \in held[p] : b \in Bufs /\ Owns(p, b)
  BY <1>1 DEF TypeOK, Owns
<1> QED BY <1>1, <1>2, <1>3, <1>4, <1>5 DEF OwnersExact

(* There are finitely many buffers.                                        *)
LEMMA NBUFIsNat == NBUF \in Nat
  BY ConstantAssumptions, FS_CardinalityType DEF NBUF

(* The process asks for a sector and has what it had. *)
LEMMA BreadStep ==
  ASSUME IInv, NEW p \in Procs, NEW s \in Sectors, Bread(p, s)
  PROVE  IInv'
<1> USE DEF At, Goto, bcache, ide
<1>i. TypeOK /\ OneBufferPerSector /\ OwnersExact /\ QueueSound /\ AskInv
  BY DEF IInv, CacheExact
<1>o. /\ \A q \in Procs : /\ InIderw(q)' <=> InIderw(q)
                          /\ Waiting(q)' <=> Waiting(q)
                          /\ InIderw(q) => cur'[q] = cur[q]
                          /\ pc'[q] = "iderw" => pc[q] = "iderw"
                          /\ pc'[q] \in {"bget", "bget_asleep"} => want'[q] \in Sectors
      /\ UNCHANGED <<held, sector, flags>>
  BY <1>i DEF Bread, InIderw, Waiting, TypeOK, AskInv
<1>p. \A q \in Procs, b \in Bufs : Owns(q, b)' <=> Owns(q, b)
  BY <1>o DEF Owns
<1>q. \A b \in Bufs : (Synced(b)' <=> Synced(b)) /\ (Busy(b)' <=> Busy(b))
  BY <1>o DEF Synced, Busy
<1>1. TypeOK'
  BY <1>i DEF Bread, TypeOK, Pcs, Cmds
<1>2. OneBufferPerSector'
  BY <1>i, <1>o DEF OneBufferPerSector
<1>3. OwnersExact'
  BY <1>i, <1>p, <1>q DEF OwnersExact
<1>4. QueueSound'
  <2>1. \A q \in Procs : Waiting(q) => InIderw(q)
    BY DEF Waiting, InIderw
  <2>2. \A b \in Bufs : (\E q \in Procs : Waiting(q) /\ cur[q] = b /\ ~Synced(b))'
          <=> \E q \in Procs : Waiting(q) /\ cur[q] = b /\ ~Synced(b)
    BY <1>o, <1>q, <2>1
  <2> QED BY <1>i, <1>o, <2>2, QueueParts DEF Bread, QueueInv
<1>5. AskInv'
  <2>1. (drive # "idle" => cmd \in Cmds)'
    BY <1>i DEF Bread, AskInv
  <2>2. ASSUME NEW q \in Procs
        PROVE  /\ InIderw(q)' => cur'[q] \in Bufs
               /\ pc'[q] = "iderw" => ~Synced(cur[q])'
               /\ \A b \in Bufs : Owns(q, b)' => sector'[b] \in Sectors
    <3>1. InIderw(q)' => cur'[q] = cur[q] /\ cur[q] \in Bufs
      BY <1>i, <1>o DEF AskInv
    <3>2. pc'[q] = "iderw" => ~Synced(cur[q])'
      <4>1. CASE pc'[q] = "iderw"
        <5>1. pc[q] = "iderw" /\ cur'[q] = cur[q] /\ ~Synced(cur[q])
          BY <4>1, <1>i, <1>o DEF AskInv, InIderw
        <5> QED BY <5>1, <1>o DEF Synced
      <4> QED BY <4>1
    <3>3. \A b \in Bufs : Owns(q, b)' => sector'[b] \in Sectors
      BY <1>i, <1>o, <1>p DEF AskInv
    <3> QED BY <3>1, <3>2, <3>3
  <2> QED BY <1>o, <2>1, <2>2 DEF AskInv
<1> QED BY <1>1, <1>2, <1>3, <1>4, <1>5 DEF IInv, CacheExact

(* The buffer slept on is not the process's. *)
LEMMA BgetSleepStep ==
  ASSUME IInv, NEW p \in Procs, NEW slept \in Bufs, BgetSleep(p, slept)
  PROVE  IInv'
<1> USE DEF At, Goto, bcache, ide
<1>i. TypeOK /\ OneBufferPerSector /\ OwnersExact /\ QueueSound /\ AskInv
  BY DEF IInv, CacheExact
<1>o. /\ \A q \in Procs : /\ InIderw(q)' <=> InIderw(q)
                          /\ Waiting(q)' <=> Waiting(q)
                          /\ InIderw(q) => cur'[q] = cur[q]
                          /\ pc'[q] = "iderw" => pc[q] = "iderw"
                          /\ pc'[q] \in {"bget", "bget_asleep"} => want'[q] \in Sectors
      /\ UNCHANGED <<held, sector, flags>>
  BY <1>i DEF BgetSleep, InIderw, Waiting, TypeOK, AskInv
<1>p. \A q \in Procs, b \in Bufs : Owns(q, b)' <=> Owns(q, b)
  BY <1>o DEF Owns
<1>q. \A b \in Bufs : (Synced(b)' <=> Synced(b)) /\ (Busy(b)' <=> Busy(b))
  BY <1>o DEF Synced, Busy
<1>1. TypeOK'
  BY <1>i DEF BgetSleep, TypeOK, Pcs, Cmds
<1>2. OneBufferPerSector'
  BY <1>i, <1>o DEF OneBufferPerSector
<1>3. OwnersExact'
  BY <1>i, <1>p, <1>q DEF OwnersExact
<1>4. QueueSound'
  <2>1. \A q \in Procs : Waiting(q) => InIderw(q)
    BY DEF Waiting, InIderw
  <2>2. \A b \in Bufs : (\E q \in Procs : Waiting(q) /\ cur[q] = b /\ ~Synced(b))'
          <=> \E q \in Procs : Waiting(q) /\ cur[q] = b /\ ~Synced(b)
    BY <1>o, <1>q, <2>1
  <2> QED BY <1>i, <1>o, <2>2, QueueParts DEF BgetSleep, QueueInv
<1>5. AskInv'
  <2>1. (drive # "idle" => cmd \in Cmds)'
    BY <1>i DEF BgetSleep, AskInv
  <2>2. ASSUME NEW q \in Procs
        PROVE  /\ InIderw(q)' => cur'[q] \in Bufs
               /\ pc'[q] = "iderw" => ~Synced(cur[q])'
               /\ \A b \in Bufs : Owns(q, b)' => sector'[b] \in Sectors
    <3>1. InIderw(q)' => cur'[q] = cur[q] /\ cur[q] \in Bufs
      BY <1>i, <1>o DEF AskInv
    <3>2. pc'[q] = "iderw" => ~Synced(cur[q])'
      <4>1. CASE pc'[q] = "iderw"
        <5>1. pc[q] = "iderw" /\ cur'[q] = cur[q] /\ ~Synced(cur[q])
          BY <4>1, <1>i, <1>o DEF AskInv, InIderw
        <5> QED BY <5>1, <1>o DEF Synced
      <4> QED BY <4>1
    <3>3. \A b \in Bufs : Owns(q, b)' => sector'[b] \in Sectors
      BY <1>i, <1>o, <1>p DEF AskInv
    <3> QED BY <3>1, <3>2, <3>3
  <2> QED BY <1>o, <2>1, <2>2 DEF AskInv
<1> QED BY <1>1, <1>2, <1>3, <1>4, <1>5 DEF IInv, CacheExact

(* Nothing moves. *)
LEMMA BgetPanicStep ==
  ASSUME IInv, NEW p \in Procs, BgetPanic(p)
  PROVE  IInv'
<1> USE DEF At, Goto, bcache, ide
<1>i. TypeOK /\ OneBufferPerSector /\ OwnersExact /\ QueueSound /\ AskInv
  BY DEF IInv, CacheExact
<1>o. /\ \A q \in Procs : /\ InIderw(q)' <=> InIderw(q)
                          /\ Waiting(q)' <=> Waiting(q)
                          /\ InIderw(q) => cur'[q] = cur[q]
                          /\ pc'[q] = "iderw" => pc[q] = "iderw"
                          /\ pc'[q] \in {"bget", "bget_asleep"} => want'[q] \in Sectors
      /\ UNCHANGED <<held, sector, flags>>
  BY <1>i DEF BgetPanic, InIderw, Waiting, TypeOK, AskInv
<1>p. \A q \in Procs, b \in Bufs : Owns(q, b)' <=> Owns(q, b)
  BY <1>o DEF Owns
<1>q. \A b \in Bufs : (Synced(b)' <=> Synced(b)) /\ (Busy(b)' <=> Busy(b))
  BY <1>o DEF Synced, Busy
<1>1. TypeOK'
  BY <1>i DEF BgetPanic, TypeOK, Pcs, Cmds
<1>2. OneBufferPerSector'
  BY <1>i, <1>o DEF OneBufferPerSector
<1>3. OwnersExact'
  BY <1>i, <1>p, <1>q DEF OwnersExact
<1>4. QueueSound'
  <2>1. \A q \in Procs : Waiting(q) => InIderw(q)
    BY DEF Waiting, InIderw
  <2>2. \A b \in Bufs : (\E q \in Procs : Waiting(q) /\ cur[q] = b /\ ~Synced(b))'
          <=> \E q \in Procs : Waiting(q) /\ cur[q] = b /\ ~Synced(b)
    BY <1>o, <1>q, <2>1
  <2> QED BY <1>i, <1>o, <2>2, QueueParts DEF BgetPanic, QueueInv
<1>5. AskInv'
  <2>1. (drive # "idle" => cmd \in Cmds)'
    BY <1>i DEF BgetPanic, AskInv
  <2>2. ASSUME NEW q \in Procs
        PROVE  /\ InIderw(q)' => cur'[q] \in Bufs
               /\ pc'[q] = "iderw" => ~Synced(cur[q])'
               /\ \A b \in Bufs : Owns(q, b)' => sector'[b] \in Sectors
    <3>1. InIderw(q)' => cur'[q] = cur[q] /\ cur[q] \in Bufs
      BY <1>i, <1>o DEF AskInv
    <3>2. pc'[q] = "iderw" => ~Synced(cur[q])'
      <4>1. CASE pc'[q] = "iderw"
        <5>1. pc[q] = "iderw" /\ cur'[q] = cur[q] /\ ~Synced(cur[q])
          BY <4>1, <1>i, <1>o DEF AskInv, InIderw
        <5> QED BY <5>1, <1>o DEF Synced
      <4> QED BY <4>1
    <3>3. \A b \in Bufs : Owns(q, b)' => sector'[b] \in Sectors
      BY <1>i, <1>o, <1>p DEF AskInv
    <3> QED BY <3>1, <3>2, <3>3
  <2> QED BY <1>o, <2>1, <2>2 DEF AskInv
<1> QED BY <1>1, <1>2, <1>3, <1>4, <1>5 DEF IInv, CacheExact

(* The process waits as before. *)
LEMMA IderwSleepStep ==
  ASSUME IInv, NEW p \in Procs, IderwSleep(p)
  PROVE  IInv'
<1> USE DEF At, Goto, bcache, ide
<1>i. TypeOK /\ OneBufferPerSector /\ OwnersExact /\ QueueSound /\ AskInv
  BY DEF IInv, CacheExact
<1>o. /\ \A q \in Procs : /\ InIderw(q)' <=> InIderw(q)
                          /\ Waiting(q)' <=> Waiting(q)
                          /\ InIderw(q) => cur'[q] = cur[q]
                          /\ pc'[q] = "iderw" => pc[q] = "iderw"
                          /\ pc'[q] \in {"bget", "bget_asleep"} => want'[q] \in Sectors
      /\ UNCHANGED <<held, sector, flags>>
  BY <1>i DEF IderwSleep, InIderw, Waiting, TypeOK, AskInv
<1>p. \A q \in Procs, b \in Bufs : Owns(q, b)' <=> Owns(q, b)
  BY <1>o DEF Owns
<1>q. \A b \in Bufs : (Synced(b)' <=> Synced(b)) /\ (Busy(b)' <=> Busy(b))
  BY <1>o DEF Synced, Busy
<1>1. TypeOK'
  BY <1>i DEF IderwSleep, TypeOK, Pcs, Cmds
<1>2. OneBufferPerSector'
  BY <1>i, <1>o DEF OneBufferPerSector
<1>3. OwnersExact'
  BY <1>i, <1>p, <1>q DEF OwnersExact
<1>4. QueueSound'
  <2>1. \A q \in Procs : Waiting(q) => InIderw(q)
    BY DEF Waiting, InIderw
  <2>2. \A b \in Bufs : (\E q \in Procs : Waiting(q) /\ cur[q] = b /\ ~Synced(b))'
          <=> \E q \in Procs : Waiting(q) /\ cur[q] = b /\ ~Synced(b)
    BY <1>o, <1>q, <2>1
  <2> QED BY <1>i, <1>o, <2>2, QueueParts DEF IderwSleep, QueueInv
<1>5. AskInv'
  <2>1. (drive # "idle" => cmd \in Cmds)'
    BY <1>i DEF IderwSleep, AskInv
  <2>2. ASSUME NEW q \in Procs
        PROVE  /\ InIderw(q)' => cur'[q] \in Bufs
               /\ pc'[q] = "iderw" => ~Synced(cur[q])'
               /\ \A b \in Bufs : Owns(q, b)' => sector'[b] \in Sectors
    <3>1. InIderw(q)' => cur'[q] = cur[q] /\ cur[q] \in Bufs
      BY <1>i, <1>o DEF AskInv
    <3>2. pc'[q] = "iderw" => ~Synced(cur[q])'
      <4>1. CASE pc'[q] = "iderw"
        <5>1. pc[q] = "iderw" /\ cur'[q] = cur[q] /\ ~Synced(cur[q])
          BY <4>1, <1>i, <1>o DEF AskInv, InIderw
        <5> QED BY <5>1, <1>o DEF Synced
      <4> QED BY <4>1
    <3>3. \A b \in Bufs : Owns(q, b)' => sector'[b] \in Sectors
      BY <1>i, <1>o, <1>p DEF AskInv
    <3> QED BY <3>1, <3>2, <3>3
  <2> QED BY <1>o, <2>1, <2>2 DEF AskInv
<1> QED BY <1>1, <1>2, <1>3, <1>4, <1>5 DEF IInv, CacheExact

(* The command and the queue stay. *)
LEMMA DriveStep ==
  ASSUME IInv, Drive
  PROVE  IInv'
<1> USE DEF At, Goto, bcache, ide
<1>i. TypeOK /\ OneBufferPerSector /\ OwnersExact /\ QueueSound /\ AskInv
  BY DEF IInv, CacheExact
<1>o. /\ \A q \in Procs : /\ InIderw(q)' <=> InIderw(q)
                          /\ Waiting(q)' <=> Waiting(q)
                          /\ InIderw(q) => cur'[q] = cur[q]
                          /\ pc'[q] = "iderw" => pc[q] = "iderw"
                          /\ pc'[q] \in {"bget", "bget_asleep"} => want'[q] \in Sectors
      /\ UNCHANGED <<held, sector, flags>>
  BY <1>i DEF Drive, InIderw, Waiting, TypeOK, AskInv
<1>p. \A q \in Procs, b \in Bufs : Owns(q, b)' <=> Owns(q, b)
  BY <1>o DEF Owns
<1>q. \A b \in Bufs : (Synced(b)' <=> Synced(b)) /\ (Busy(b)' <=> Busy(b))
  BY <1>o DEF Synced, Busy
<1>1. TypeOK'
  <2>1. cmd \in Cmds
    BY <1>i DEF Drive, AskInv
  <2>2. disk' \in [Sectors -> Vals]
    BY <1>i, <2>1 DEF Drive, TypeOK, Cmds
  <2>3. drive' \in {"ok", "err"}
    BY DEF Drive
  <2> QED BY <1>i, <2>2, <2>3 DEF Drive, TypeOK
<1>2. OneBufferPerSector'
  BY <1>i, <1>o DEF OneBufferPerSector
<1>3. OwnersExact'
  BY <1>i, <1>p, <1>q DEF OwnersExact
<1>4. QueueSound'
  <2>1. \A q \in Procs : Waiting(q) => InIderw(q)
    BY DEF Waiting, InIderw
  <2>2. \A b \in Bufs : (\E q \in Procs : Waiting(q) /\ cur[q] = b /\ ~Synced(b))'
          <=> \E q \in Procs : Waiting(q) /\ cur[q] = b /\ ~Synced(b)
    BY <1>o, <1>q, <2>1
  <2> QED BY <1>i, <1>o, <2>2, QueueParts DEF Drive, QueueInv
<1>5. AskInv'
  <2>1. (drive # "idle" => cmd \in Cmds)'
    BY <1>i DEF Drive, AskInv
  <2>2. ASSUME NEW q \in Procs
        PROVE  /\ InIderw(q)' => cur'[q] \in Bufs
               /\ pc'[q] = "iderw" => ~Synced(cur[q])'
               /\ \A b \in Bufs : Owns(q, b)' => sector'[b] \in Sectors
    <3>1. InIderw(q)' => cur'[q] = cur[q] /\ cur[q] \in Bufs
      BY <1>i, <1>o DEF AskInv
    <3>2. pc'[q] = "iderw" => ~Synced(cur[q])'
      <4>1. CASE pc'[q] = "iderw"
        <5>1. pc[q] = "iderw" /\ cur'[q] = cur[q] /\ ~Synced(cur[q])
          BY <4>1, <1>i, <1>o DEF AskInv, InIderw
        <5> QED BY <5>1, <1>o DEF Synced
      <4> QED BY <4>1
    <3>3. \A b \in Bufs : Owns(q, b)' => sector'[b] \in Sectors
      BY <1>i, <1>o, <1>p DEF AskInv
    <3> QED BY <3>1, <3>2, <3>3
  <2> QED BY <1>o, <2>1, <2>2 DEF AskInv
<1> QED BY <1>1, <1>2, <1>3, <1>4, <1>5 DEF IInv, CacheExact

(* A buffer nobody has gets its owner. *)
LEMMA BgetHitStep ==
  ASSUME IInv, NEW p \in Procs, NEW b \in Bufs, BgetHit(p, b)
  PROVE  IInv'
<1> USE DEF At, Goto, bcache, ide
<1>i. TypeOK /\ OneBufferPerSector /\ OwnersExact /\ QueueSound /\ AskInv
  BY DEF IInv, CacheExact
<1> DEFINE nf == flags'[b]
<1>a. /\ \A q \in Procs : ~Owns(q, b)
      /\ pc[p] = "bget" /\ want[p] \in Sectors /\ ~InIderw(p) /\ ~Waiting(p)
  BY <1>i DEF BgetHit, OwnersExact, AskInv, InIderw, Waiting
<1>b. ~In(b, idequeue)
  BY <1>a, Owning
<1>c. /\ "B_BUSY" \in nf /\ nf \subseteq Flags
      /\ \A c \in Bufs : c # b => flags'[c] = flags[c] /\ sector'[c] = sector[c]
      /\ sector'[b] = want[p] /\ flags' \in [Bufs -> SUBSET Flags]
      /\ sector' \in [Bufs -> Sectors \cup {NoSector}]
  BY <1>i, <1>a DEF BgetHit, BgetReturns, TypeOK, Flags
<1>d. /\ UNCHANGED <<data, lru, idequeue, cmd, drive, disk, panicked>>
      /\ want' = [want EXCEPT ![p] = NoSector]
      /\ \/ "B_VALID" \in nf /\ held' = [held EXCEPT ![p] = @ \cup {b}] /\ pc' = [pc EXCEPT ![p] = "fs"] /\ cur' = cur
         \/ "B_VALID" \notin nf /\ cur' = [cur EXCEPT ![p] = b] /\ pc' = [pc EXCEPT ![p] = "iderw"] /\ held' = held
  BY <1>i, <1>c DEF BgetHit, BgetReturns, TypeOK
<1> HIDE DEF nf
<1>e. \A q \in Procs, c \in Bufs : Owns(q, c)' <=> Owns(q, c) \/ (q = p /\ c = b)
  BY <1>i, <1>a, <1>d DEF Owns, InIderw, TypeOK
<1>f. \A q \in Procs :
        /\ Waiting(q)' <=> Waiting(q)
        /\ Waiting(q) => cur'[q] = cur[q]
        /\ InIderw(q)' => InIderw(q) \/ q = p
  BY <1>i, <1>a, <1>d DEF Waiting, InIderw, TypeOK
<1>h. sector' = sector
  BY DEF BgetHit
<1>1. TypeOK'
  <2>0. "fs" \in Pcs /\ "iderw" \in Pcs
    BY DEF Pcs
  <2>1. pc' \in [Procs -> Pcs] /\ cur' \in [Procs -> Bufs \cup {NoBuf}] /\ held' \in [Procs -> SUBSET Bufs]
    <3>0. pc \in [Procs -> Pcs] /\ cur \in [Procs -> Bufs \cup {NoBuf}] /\ held \in [Procs -> SUBSET Bufs]
      BY <1>i DEF TypeOK
    <3>1. /\ pc' = pc \/ pc' = [pc EXCEPT ![p] = "fs"] \/ pc' = [pc EXCEPT ![p] = "iderw"]
          /\ cur' = cur \/ cur' = [cur EXCEPT ![p] = b]
          /\ held' = held \/ held' = [held EXCEPT ![p] = @ \cup {b}]
      BY <1>d
    <3>2. pc' \in [Procs -> Pcs]
      BY <3>0, <3>1, <2>0
    <3>3. cur' \in [Procs -> Bufs \cup {NoBuf}] /\ held' \in [Procs -> SUBSET Bufs]
      BY <3>0, <3>1
    <3> QED BY <3>2, <3>3
  <2>2. want' \in [Procs -> Sectors \cup {NoSector}]
    BY <1>i, <1>d DEF TypeOK
  <2> QED BY <1>i, <1>c, <1>d, <2>1, <2>2 DEF TypeOK
<1>2. OneBufferPerSector'
  BY <1>i, <1>a, <1>c, <1>h DEF OneBufferPerSector, TypeOK
<1>3. OwnersExact'
  BY <1>i, <1>a, <1>c, <1>e DEF OwnersExact, Busy, nf
<1>4. QueueSound'
  <2>1. \A c \in Bufs : c # b => (Synced(c)' <=> Synced(c))
    BY <1>c DEF Synced
  <2>2. \A c \in Bufs : In(c, idequeue) <=> \E q \in Procs : Waiting(q)' /\ cur'[q] = c /\ ~Synced(c)'
    <3>1. \A q \in Procs : Waiting(q) => cur[q] # b
      BY <1>a DEF Owns, Waiting, InIderw
    <3>2. ASSUME NEW c \in Bufs
          PROVE  (\E q \in Procs : Waiting(q)' /\ cur'[q] = c /\ ~Synced(c)')
                   <=> \E q \in Procs : Waiting(q) /\ cur[q] = c /\ ~Synced(c)
      <4>1. CASE c = b
        BY <4>1, <3>1, <1>f
      <4>2. CASE c # b
        BY <4>2, <2>1, <1>f
      <4> QED BY <4>1, <4>2
    <3> QED BY <3>2, <1>i, QueueParts DEF QueueInv
  <2>3. drive # "idle" => Head(idequeue) \in Bufs /\ Head(idequeue) # b
    BY <1>i, <1>b, QueueParts, TailOld DEF TypeOK, QueueInv
  <2>4. /\ Distinct(idequeue)' /\ (drive = "idle" <=> idequeue = <<>>)'
        /\ \A c : In(c, idequeue)' <=> In(c, idequeue)
    BY <1>i, <1>d, QueueParts DEF QueueInv, Distinct, In
  <2>5. (drive # "idle")' =>
          /\ (cmd.sector = sector[Head(idequeue)])'
          /\ (cmd.op = "write" <=> "B_DIRTY" \in flags[Head(idequeue)])'
          /\ (cmd.op = "write" => cmd.val = data[Head(idequeue)])'
    BY <2>3, <1>i, <1>c, <1>d, QueueParts DEF QueueInv
  <2> QED BY <2>2, <2>4, <2>5, QueueParts DEF QueueInv
<1>5. AskInv'
  <2>1. \A q \in Procs : pc'[q] \in {"bget", "bget_asleep"} => want'[q] \in Sectors
    BY <1>i, <1>d DEF AskInv, TypeOK
  <2>2. \A q \in Procs : InIderw(q)' => cur'[q] \in Bufs
    BY <1>i, <1>a, <1>d DEF AskInv, TypeOK, InIderw
  <2>3. \A q \in Procs : pc'[q] = "iderw" => ~Synced(cur[q])'
    <3>1. ASSUME NEW q \in Procs, q # p, pc'[q] = "iderw"
          PROVE  ~Synced(cur[q])'
      <4>1. pc[q] = "iderw" /\ cur'[q] = cur[q] /\ cur[q] \in Bufs /\ cur[q] # b
        BY <3>1, <1>a, <1>d, <1>i DEF TypeOK, Owns, InIderw, AskInv
      <4> QED BY <4>1, <1>c, <1>i DEF Synced, AskInv
    <3>2. ASSUME pc'[p] = "iderw"
          PROVE  ~Synced(cur[p])'
      <4>1. cur'[p] = b /\ "B_VALID" \notin nf
        BY <3>2, <1>d, <1>i DEF TypeOK
      <4> QED BY <4>1 DEF Synced, nf
    <3> QED BY <3>1, <3>2
  <2>4. \A q \in Procs, c \in Bufs : Owns(q, c)' => sector'[c] \in Sectors
    BY <1>i, <1>a, <1>c, <1>e DEF AskInv
  <2> QED BY <1>i, <1>d, <2>1, <2>2, <2>3, <2>4 DEF AskInv
<1> QED BY <1>1, <1>2, <1>3, <1>4, <1>5 DEF IInv, CacheExact

(* The recycled buffer was nobody's, and no other one has its new sector. *)
LEMMA BgetRecycleStep ==
  ASSUME IInv, NEW p \in Procs, NEW i \in 1 .. NBUF, BgetRecycle(p, i)
  PROVE  IInv'
<1> USE DEF At, Goto, bcache, ide
<1>i. TypeOK /\ OneBufferPerSector /\ OwnersExact /\ QueueSound /\ AskInv
  BY DEF IInv, CacheExact
<1> DEFINE b == lru[i]
            nf == flags'[b]
<1>g. b \in Bufs
  BY <1>i DEF TypeOK
<1> USE <1>g
<1>a. /\ \A q \in Procs : ~Owns(q, b)
      /\ pc[p] = "bget" /\ want[p] \in Sectors /\ ~InIderw(p) /\ ~Waiting(p)
  BY <1>i DEF BgetRecycle, Busy, OwnersExact, AskInv, InIderw, Waiting
<1>b. ~In(b, idequeue)
  BY <1>a, Owning
<1>c. /\ "B_BUSY" \in nf /\ nf \subseteq Flags
      /\ \A c \in Bufs : c # b => flags'[c] = flags[c] /\ sector'[c] = sector[c]
      /\ sector'[b] = want[p] /\ flags' \in [Bufs -> SUBSET Flags]
      /\ sector' \in [Bufs -> Sectors \cup {NoSector}]
  BY <1>i, <1>a DEF BgetRecycle, BgetReturns, TypeOK, Flags
<1>d. /\ UNCHANGED <<data, lru, idequeue, cmd, drive, disk, panicked>>
      /\ want' = [want EXCEPT ![p] = NoSector]
      /\ \/ "B_VALID" \in nf /\ held' = [held EXCEPT ![p] = @ \cup {b}] /\ pc' = [pc EXCEPT ![p] = "fs"] /\ cur' = cur
         \/ "B_VALID" \notin nf /\ cur' = [cur EXCEPT ![p] = b] /\ pc' = [pc EXCEPT ![p] = "iderw"] /\ held' = held
  BY <1>i, <1>c DEF BgetRecycle, BgetReturns, TypeOK
<1>h. \A c \in Bufs : sector[c] # want[p]
  BY DEF BgetRecycle, Cached
<1> HIDE DEF b, nf
<1>e. \A q \in Procs, c \in Bufs : Owns(q, c)' <=> Owns(q, c) \/ (q = p /\ c = b)
  BY <1>i, <1>a, <1>d DEF Owns, InIderw, TypeOK
<1>f. \A q \in Procs :
        /\ Waiting(q)' <=> Waiting(q)
        /\ Waiting(q) => cur'[q] = cur[q]
        /\ InIderw(q)' => InIderw(q) \/ q = p
  BY <1>i, <1>a, <1>d DEF Waiting, InIderw, TypeOK
<1>1. TypeOK'
  <2>0. "fs" \in Pcs /\ "iderw" \in Pcs
    BY DEF Pcs
  <2>1. pc' \in [Procs -> Pcs] /\ cur' \in [Procs -> Bufs \cup {NoBuf}] /\ held' \in [Procs -> SUBSET Bufs]
    <3>0. pc \in [Procs -> Pcs] /\ cur \in [Procs -> Bufs \cup {NoBuf}] /\ held \in [Procs -> SUBSET Bufs]
      BY <1>i DEF TypeOK
    <3>1. /\ pc' = pc \/ pc' = [pc EXCEPT ![p] = "fs"] \/ pc' = [pc EXCEPT ![p] = "iderw"]
          /\ cur' = cur \/ cur' = [cur EXCEPT ![p] = b]
          /\ held' = held \/ held' = [held EXCEPT ![p] = @ \cup {b}]
      BY <1>d
    <3>2. pc' \in [Procs -> Pcs]
      BY <3>0, <3>1, <2>0
    <3>3. cur' \in [Procs -> Bufs \cup {NoBuf}] /\ held' \in [Procs -> SUBSET Bufs]
      BY <3>0, <3>1
    <3> QED BY <3>2, <3>3
  <2>2. want' \in [Procs -> Sectors \cup {NoSector}]
    BY <1>i, <1>d DEF TypeOK
  <2> QED BY <1>i, <1>c, <1>d, <2>1, <2>2 DEF TypeOK
<1>2. OneBufferPerSector'
  BY <1>i, <1>a, <1>c, <1>h DEF OneBufferPerSector, TypeOK
<1>3. OwnersExact'
  BY <1>i, <1>a, <1>c, <1>e DEF OwnersExact, Busy, nf
<1>4. QueueSound'
  <2>1. \A c \in Bufs : c # b => (Synced(c)' <=> Synced(c))
    BY <1>c DEF Synced
  <2>2. \A c \in Bufs : In(c, idequeue) <=> \E q \in Procs : Waiting(q)' /\ cur'[q] = c /\ ~Synced(c)'
    <3>1. \A q \in Procs : Waiting(q) => cur[q] # b
      BY <1>a DEF Owns, Waiting, InIderw
    <3>2. ASSUME NEW c \in Bufs
          PROVE  (\E q \in Procs : Waiting(q)' /\ cur'[q] = c /\ ~Synced(c)')
                   <=> \E q \in Procs : Waiting(q) /\ cur[q] = c /\ ~Synced(c)
      <4>1. CASE c = b
        BY <4>1, <3>1, <1>f
      <4>2. CASE c # b
        BY <4>2, <2>1, <1>f
      <4> QED BY <4>1, <4>2
    <3> QED BY <3>2, <1>i, QueueParts DEF QueueInv
  <2>3. drive # "idle" => Head(idequeue) \in Bufs /\ Head(idequeue) # b
    BY <1>i, <1>b, QueueParts, TailOld DEF TypeOK, QueueInv
  <2>4. /\ Distinct(idequeue)' /\ (drive = "idle" <=> idequeue = <<>>)'
        /\ \A c : In(c, idequeue)' <=> In(c, idequeue)
    BY <1>i, <1>d, QueueParts DEF QueueInv, Distinct, In
  <2>5. (drive # "idle")' =>
          /\ (cmd.sector = sector[Head(idequeue)])'
          /\ (cmd.op = "write" <=> "B_DIRTY" \in flags[Head(idequeue)])'
          /\ (cmd.op = "write" => cmd.val = data[Head(idequeue)])'
    BY <2>3, <1>i, <1>c, <1>d, QueueParts DEF QueueInv
  <2> QED BY <2>2, <2>4, <2>5, QueueParts DEF QueueInv
<1>5. AskInv'
  <2>1. \A q \in Procs : pc'[q] \in {"bget", "bget_asleep"} => want'[q] \in Sectors
    BY <1>i, <1>d DEF AskInv, TypeOK
  <2>2. \A q \in Procs : InIderw(q)' => cur'[q] \in Bufs
    BY <1>i, <1>a, <1>d DEF AskInv, TypeOK, InIderw
  <2>3. \A q \in Procs : pc'[q] = "iderw" => ~Synced(cur[q])'
    <3>1. ASSUME NEW q \in Procs, q # p, pc'[q] = "iderw"
          PROVE  ~Synced(cur[q])'
      <4>1. pc[q] = "iderw" /\ cur'[q] = cur[q] /\ cur[q] \in Bufs /\ cur[q] # b
        BY <3>1, <1>a, <1>d, <1>i DEF TypeOK, Owns, InIderw, AskInv
      <4> QED BY <4>1, <1>c, <1>i DEF Synced, AskInv
    <3>2. ASSUME pc'[p] = "iderw"
          PROVE  ~Synced(cur[p])'
      <4>1. cur'[p] = b /\ "B_VALID" \notin nf
        BY <3>2, <1>d, <1>i DEF TypeOK
      <4> QED BY <4>1 DEF Synced, nf
    <3> QED BY <3>1, <3>2
  <2>4. \A q \in Procs, c \in Bufs : Owns(q, c)' => sector'[c] \in Sectors
    BY <1>i, <1>a, <1>c, <1>e DEF AskInv
  <2> QED BY <1>i, <1>d, <2>1, <2>2, <2>3, <2>4 DEF AskInv
<1> QED BY <1>1, <1>2, <1>3, <1>4, <1>5 DEF IInv, CacheExact

(* The process has the buffer, so it is in no request. *)
LEMMA BwriteStep ==
  ASSUME IInv, NEW p \in Procs, NEW b \in Bufs, NEW v \in Vals, Bwrite(p, b, v)
  PROVE  IInv'
<1> USE DEF At, Goto, bcache, ide
<1>i. TypeOK /\ OneBufferPerSector /\ OwnersExact /\ QueueSound /\ AskInv
  BY DEF IInv, CacheExact
<1>a. /\ b \in held[p] /\ Owns(p, b) /\ pc[p] = "fs" /\ ~InIderw(p) /\ ~Waiting(p)
      /\ \A q \in Procs : Owns(q, b) => q = p
  BY <1>i DEF Bwrite, OwnersExact, Owns, InIderw, Waiting
<1>b. ~In(b, idequeue)
  BY <1>a, Owning
<1>c. /\ UNCHANGED <<sector, lru, idequeue, cmd, drive, disk, want, held>>
      /\ \A c \in Bufs : c # b => flags'[c] = flags[c] /\ data'[c] = data[c]
      /\ \A c \in Bufs : Busy(c)' <=> Busy(c)
      /\ "B_DIRTY" \in flags'[b]
      /\ \A q \in Procs : q # p => pc'[q] = pc[q] /\ cur'[q] = cur[q]
      /\ pc'[p] = "iderw" /\ cur'[p] = b
  BY <1>i DEF Bwrite, TypeOK, Busy, Flags
<1>d. \A c \in Bufs : Synced(c)' <=> Synced(c) /\ c # b
  BY <1>c, <1>a, <1>i DEF Synced
<1>e. \A q \in Procs, c \in Bufs : Owns(q, c)' <=> Owns(q, c)
  <2>1. ASSUME NEW q \in Procs, NEW c \in Bufs, q # p
        PROVE  Owns(q, c)' <=> Owns(q, c)
    BY <2>1, <1>c DEF Owns, InIderw
  <2>2. ASSUME NEW c \in Bufs
        PROVE  Owns(p, c)' <=> Owns(p, c)
    BY <1>a, <1>c DEF Owns, InIderw
  <2> QED BY <2>1, <2>2
<1>1. TypeOK'
  <2>1. flags \in [Bufs -> SUBSET Flags] /\ pc \in [Procs -> Pcs] /\ cur \in [Procs -> Bufs \cup {NoBuf}]
    BY <1>i DEF TypeOK
  <2>2. flags' \in [Bufs -> SUBSET Flags]
    BY <2>1 DEF Bwrite, Flags
  <2>3. pc' \in [Procs -> Pcs] /\ cur' \in [Procs -> Bufs \cup {NoBuf}]
    BY <2>1 DEF Bwrite, Pcs
  <2>4. panicked' \in BOOLEAN /\ data' \in [Bufs -> Vals]
    BY <1>i DEF Bwrite, TypeOK
  <2> QED BY <1>i, <1>c, <2>2, <2>3, <2>4 DEF TypeOK
<1>2. OneBufferPerSector'
  BY <1>i, <1>c DEF OneBufferPerSector
<1>3. OwnersExact'
  BY <1>i, <1>c, <1>e DEF OwnersExact
<1>4. QueueSound'
  <2>1. ASSUME NEW c \in Bufs
        PROVE  (\E q \in Procs : Waiting(q)' /\ cur'[q] = c /\ ~Synced(c)')
                 <=> \E q \in Procs : Waiting(q) /\ cur[q] = c /\ ~Synced(c)
    <3>1. \A q \in Procs : /\ Waiting(q)' <=> Waiting(q)
                           /\ Waiting(q) => cur'[q] = cur[q] /\ cur[q] # b
      BY <1>a, <1>c DEF Waiting, Owns, InIderw
    <3> QED BY <3>1, <1>d
  <2>2. \A c \in Bufs : In(c, idequeue)' <=> (\E q \in Procs : Waiting(q) /\ cur[q] = c /\ ~Synced(c))'
    BY <2>1, <1>i, <1>c, QueueParts DEF QueueInv, In
  <2>3. drive # "idle" => Head(idequeue) \in Bufs /\ Head(idequeue) # b
    BY <1>i, <1>b, QueueParts, TailOld DEF TypeOK, QueueInv
  <2>4. Distinct(idequeue)' /\ (drive = "idle" <=> idequeue = <<>>)'
    BY <1>i, <1>c, QueueParts DEF QueueInv, Distinct
  <2>5. (drive # "idle")' =>
          /\ (cmd.sector = sector[Head(idequeue)])'
          /\ (cmd.op = "write" <=> "B_DIRTY" \in flags[Head(idequeue)])'
          /\ (cmd.op = "write" => cmd.val = data[Head(idequeue)])'
    BY <2>3, <1>i, <1>c, QueueParts DEF QueueInv
  <2> QED BY <2>2, <2>4, <2>5, QueueParts DEF QueueInv
<1>5. AskInv'
  <2>1. ASSUME NEW q \in Procs, q # p
        PROVE  /\ pc'[q] \in {"bget", "bget_asleep"} => want'[q] \in Sectors
               /\ InIderw(q)' => cur'[q] \in Bufs
               /\ pc'[q] = "iderw" => ~Synced(cur[q])'
    <3>1. pc'[q] = "iderw" => cur[q] \in Bufs /\ cur[q] # b /\ ~Synced(cur[q])
      BY <2>1, <1>a, <1>c, <1>i DEF AskInv, Owns, InIderw
    <3>2. pc'[q] = "iderw" => ~Synced(cur[q])'
      BY <3>1, <2>1, <1>c DEF Synced
    <3> QED BY <3>2, <2>1, <1>c, <1>i DEF AskInv, InIderw
  <2>2. /\ pc'[p] \in {"bget", "bget_asleep"} => want'[p] \in Sectors
        /\ InIderw(p)' => cur'[p] \in Bufs
        /\ pc'[p] = "iderw" => ~Synced(cur[p])'
    BY <1>c DEF Synced
  <2>3. \A q \in Procs, c \in Bufs : Owns(q, c)' => sector'[c] \in Sectors
    BY <1>i, <1>c, <1>e DEF AskInv
  <2>4. (drive # "idle" => cmd \in Cmds)'
    BY <1>i, <1>c DEF AskInv
  <2> QED BY <2>1, <2>2, <2>3, <2>4 DEF AskInv
<1> QED BY <1>1, <1>2, <1>3, <1>4, <1>5 DEF IInv, CacheExact

(* The buffer is nobody's, and the list still has every buffer. *)
LEMMA BrelseStep ==
  ASSUME IInv, NEW p \in Procs, NEW i \in 1 .. NBUF, Brelse(p, i)
  PROVE  IInv'
<1> USE DEF At, Goto, bcache, ide
<1>i. TypeOK /\ OneBufferPerSector /\ OwnersExact /\ QueueSound /\ AskInv
  BY DEF IInv, CacheExact
<1> DEFINE b == lru[i]
<1>a. b \in Bufs /\ b \in held[p] /\ Owns(p, b) /\ pc[p] = "fs" /\ ~InIderw(p)
  BY <1>i DEF Brelse, TypeOK, Owns, InIderw
<1>c. /\ UNCHANGED <<sector, data, idequeue, cmd, drive, disk, want>>
      /\ flags' = [flags EXCEPT ![b] = @ \ {"B_BUSY"}]
      /\ held' = [held EXCEPT ![p] = @ \ {b}]
      /\ panicked' \in BOOLEAN /\ lru' = MoveToFront(i)
      /\ WakeAll({q \in Procs : cur[q] = b})
  BY DEF Brelse, Wakeup
<1> HIDE DEF b
<1>w. /\ pc' \in [Procs -> Pcs] /\ cur' \in [Procs -> Bufs \cup {NoBuf}]
      /\ \A q \in Procs :
           /\ InIderw(q) => cur'[q] = cur[q]
           /\ Waiting(q)' <=> Waiting(q)
           /\ InIderw(q)' <=> InIderw(q)
           /\ pc'[q] = "iderw" <=> pc[q] = "iderw"
           /\ pc'[q] \in {"bget", "bget_asleep"} <=> pc[q] \in {"bget", "bget_asleep"}
  BY <1>i, <1>c, WakeKeeps
<1>f. \A c \in Bufs : /\ Synced(c)' <=> Synced(c)
                      /\ Busy(c)' <=> Busy(c) /\ c # b
                      /\ "B_DIRTY" \in flags'[c] <=> "B_DIRTY" \in flags[c]
  BY <1>i, <1>a, <1>c DEF TypeOK, Synced, Busy
<1>s. \A c \in Bufs : Synced(c)' <=> Synced(c)
  BY <1>f
<1>e. \A q \in Procs, c \in Bufs : Owns(q, c)' <=> Owns(q, c) /\ ~(q = p /\ c = b)
  <2>1. \A q \in Procs, c \in Bufs : c \in held'[q] <=> c \in held[q] /\ ~(q = p /\ c = b)
    BY <1>c, <1>i DEF TypeOK
  <2>2. \A q \in Procs, c \in Bufs : (InIderw(q) /\ cur[q] = c)' <=> InIderw(q) /\ cur[q] = c
    BY <1>w
  <2> QED BY <2>1, <2>2, <1>a DEF Owns
<1>1. TypeOK'
  <2>1. lru \in [1 .. NBUF -> Bufs] /\ \A c \in Bufs : \E k \in 1 .. NBUF : lru[k] = c
    BY <1>i DEF TypeOK
  <2>2. NBUF \in Nat
    BY NBUFIsNat
  <2>3. lru' \in [1 .. NBUF -> Bufs]
    BY <2>1, <2>2, <1>c DEF MoveToFront
  <2>4. ASSUME NEW c \in Bufs
        PROVE  \E k \in 1 .. NBUF : lru'[k] = c
    <3>1. PICK k \in 1 .. NBUF : lru[k] = c
      BY <2>1
    <3>2. CASE k < i
      <4>1. k + 1 \in 1 .. NBUF /\ k + 1 # 1 /\ k + 1 <= i /\ k + 1 - 1 = k
        BY <3>2, <2>2
      <4>2. lru'[k + 1] = lru[k]
        BY <4>1, <1>c DEF MoveToFront
      <4> QED BY <4>1, <4>2, <3>1
    <3>3. CASE k = i
      <4>1. 1 \in 1 .. NBUF
        BY <2>2
      <4> QED BY <4>1, <3>3, <3>1, <1>c DEF MoveToFront
    <3>4. CASE k > i
      <4>1. k # 1 /\ ~(k <= i)
        BY <3>4, <2>2
      <4> QED BY <4>1, <3>1, <1>c DEF MoveToFront
    <3> QED BY <3>2, <3>3, <3>4, <2>2
  <2>5. flags' \in [Bufs -> SUBSET Flags] /\ held' \in [Procs -> SUBSET Bufs]
    BY <1>c, <1>i DEF TypeOK
  <2> QED BY <2>3, <2>4, <2>5, <1>c, <1>w, <1>i DEF TypeOK
<1>2. OneBufferPerSector'
  BY <1>i, <1>c DEF OneBufferPerSector
<1>3. OwnersExact'
  BY <1>i, <1>a, <1>f, <1>e DEF OwnersExact
<1>4. QueueSound'
  <2>1. \A c \in Bufs : (\E q \in Procs : Waiting(q) /\ cur[q] = c /\ ~Synced(c))'
          <=> \E q \in Procs : Waiting(q) /\ cur[q] = c /\ ~Synced(c)
    BY <1>w, <1>f DEF Waiting, InIderw
  <2>2. \A c \in Bufs : In(c, idequeue)' <=> In(c, idequeue)
    BY <1>c DEF In
  <2>3. drive # "idle" => Head(idequeue) \in Bufs
    BY <1>i, QueueParts, TailOld DEF TypeOK, QueueInv
  <2>4. (drive # "idle")' =>
          /\ (cmd.sector = sector[Head(idequeue)])'
          /\ (cmd.op = "write" <=> "B_DIRTY" \in flags[Head(idequeue)])'
          /\ (cmd.op = "write" => cmd.val = data[Head(idequeue)])'
    BY <2>3, <1>i, <1>c, <1>f, QueueParts DEF QueueInv
  <2> QED BY <2>1, <2>2, <2>4, <1>c, <1>i, QueueParts DEF QueueInv, Distinct
<1>5. AskInv'
  <2>1. ASSUME NEW q \in Procs, pc'[q] = "iderw"
        PROVE  ~Synced(cur[q])'
    <3>1. pc[q] = "iderw" /\ cur'[q] = cur[q] /\ cur[q] \in Bufs /\ ~Synced(cur[q])
      BY <2>1, <1>w, <1>i DEF AskInv, InIderw
    <3> QED BY <3>1, <1>s, <1>i, <2>1
  <2>2. ASSUME NEW q \in Procs
        PROVE  /\ pc'[q] \in {"bget", "bget_asleep"} => want'[q] \in Sectors
               /\ InIderw(q)' => cur'[q] \in Bufs
    BY <1>w, <1>i, <1>c DEF AskInv
  <2>3. \A q \in Procs, c \in Bufs : Owns(q, c)' => sector'[c] \in Sectors
    BY <1>i, <1>c, <1>e DEF AskInv
  <2>4. (drive # "idle" => cmd \in Cmds)'
    BY <1>i, <1>c DEF AskInv
  <2> QED BY <2>1, <2>2, <2>3, <2>4 DEF AskInv
<1> QED BY <1>1, <1>2, <1>3, <1>4, <1>5 DEF IInv, CacheExact

(* The killed process looks again at what it waits for. *)
LEMMA KillStep ==
  ASSUME IInv, NEW p \in Procs, Kill(p)
  PROVE  IInv'
<1> USE DEF At, Goto, bcache, ide
<1>i. TypeOK /\ OneBufferPerSector /\ OwnersExact /\ QueueSound /\ AskInv
  BY DEF IInv, CacheExact
<1>c. /\ UNCHANGED <<sector, data, idequeue, cmd, drive, disk, want, flags, lru, held, panicked>>
      /\ WakeAll({p})
  BY DEF Kill
<1>w. /\ pc' \in [Procs -> Pcs] /\ cur' \in [Procs -> Bufs \cup {NoBuf}]
      /\ \A q \in Procs :
           /\ InIderw(q) => cur'[q] = cur[q]
           /\ Waiting(q)' <=> Waiting(q)
           /\ InIderw(q)' <=> InIderw(q)
           /\ pc'[q] = "iderw" <=> pc[q] = "iderw"
           /\ pc'[q] \in {"bget", "bget_asleep"} <=> pc[q] \in {"bget", "bget_asleep"}
  BY <1>i, <1>c, WakeKeeps
<1>f. \A c \in Bufs : /\ Synced(c)' <=> Synced(c)
                      /\ Busy(c)' <=> Busy(c)
                      /\ "B_DIRTY" \in flags'[c] <=> "B_DIRTY" \in flags[c]
  BY <1>c DEF Synced, Busy
<1>s. \A c \in Bufs : Synced(c)' <=> Synced(c)
  BY <1>f
<1>e. \A q \in Procs, c \in Bufs : Owns(q, c)' <=> Owns(q, c)
  BY <1>c, <1>w DEF Owns
<1>1. TypeOK'
  BY <1>c, <1>w, <1>i DEF TypeOK
<1>2. OneBufferPerSector'
  BY <1>i, <1>c DEF OneBufferPerSector
<1>3. OwnersExact'
  BY <1>i, <1>f, <1>e DEF OwnersExact
<1>4. QueueSound'
  <2>1. \A c \in Bufs : (\E q \in Procs : Waiting(q) /\ cur[q] = c /\ ~Synced(c))'
          <=> \E q \in Procs : Waiting(q) /\ cur[q] = c /\ ~Synced(c)
    BY <1>w, <1>f DEF Waiting, InIderw
  <2>2. \A c \in Bufs : In(c, idequeue)' <=> In(c, idequeue)
    BY <1>c DEF In
  <2>3. drive # "idle" => Head(idequeue) \in Bufs
    BY <1>i, QueueParts, TailOld DEF TypeOK, QueueInv
  <2>4. (drive # "idle")' =>
          /\ (cmd.sector = sector[Head(idequeue)])'
          /\ (cmd.op = "write" <=> "B_DIRTY" \in flags[Head(idequeue)])'
          /\ (cmd.op = "write" => cmd.val = data[Head(idequeue)])'
    BY <2>3, <1>i, <1>c, <1>f, QueueParts DEF QueueInv
  <2> QED BY <2>1, <2>2, <2>4, <1>c, <1>i, QueueParts DEF QueueInv, Distinct
<1>5. AskInv'
  <2>1. ASSUME NEW q \in Procs, pc'[q] = "iderw"
        PROVE  ~Synced(cur[q])'
    <3>1. pc[q] = "iderw" /\ cur'[q] = cur[q] /\ cur[q] \in Bufs /\ ~Synced(cur[q])
      BY <2>1, <1>w, <1>i DEF AskInv, InIderw
    <3> QED BY <3>1, <1>s, <1>i, <2>1
  <2>2. ASSUME NEW q \in Procs
        PROVE  /\ pc'[q] \in {"bget", "bget_asleep"} => want'[q] \in Sectors
               /\ InIderw(q)' => cur'[q] \in Bufs
    BY <1>w, <1>i, <1>c DEF AskInv
  <2>3. \A q \in Procs, c \in Bufs : Owns(q, c)' => sector'[c] \in Sectors
    BY <1>i, <1>c, <1>e DEF AskInv
  <2>4. (drive # "idle" => cmd \in Cmds)'
    BY <1>i, <1>c DEF AskInv
  <2> QED BY <2>1, <2>2, <2>3, <2>4 DEF AskInv
<1> QED BY <1>1, <1>2, <1>3, <1>4, <1>5 DEF IInv, CacheExact

(* The request is a new one, at the end of the queue. *)
LEMMA IderwStep ==
  ASSUME IInv, NEW p \in Procs, Iderw(p)
  PROVE  IInv'
<1> USE DEF At, Goto, bcache, ide
<1>i. TypeOK /\ OneBufferPerSector /\ OwnersExact /\ QueueSound /\ AskInv
  BY DEF IInv, CacheExact
<1> DEFINE b == cur[p]
<1>a. /\ b \in Bufs /\ Owns(p, b) /\ ~Synced(b) /\ InIderw(p) /\ ~Waiting(p)
      /\ \A q \in Procs : Owns(q, b) => q = p
  BY <1>i DEF Iderw, OwnersExact, Owns, InIderw, Waiting, AskInv
<1>b. ~In(b, idequeue)
  BY <1>a, Owning
<1>c. /\ UNCHANGED <<sector, flags, data, lru, disk, want, cur, held>>
      /\ pc' = [pc EXCEPT ![p] = "ide_asleep"]
      /\ idequeue' = Append(idequeue, b)
      /\ panicked' \in BOOLEAN
      /\ IF idequeue = <<>> THEN Idestart(b) ELSE UNCHANGED <<cmd, drive>>
  BY DEF Iderw
<1>k. sector[b] \in Sectors /\ data[b] \in Vals
  BY <1>a, <1>i DEF AskInv, TypeOK
<1> HIDE DEF b
<1>q. /\ idequeue' \in Seq(Bufs) /\ idequeue' # <<>> /\ Distinct(idequeue)'
      /\ \A c : In(c, idequeue)' <=> In(c, idequeue) \/ c = b
      /\ Head(idequeue') = IF idequeue = <<>> THEN b ELSE Head(idequeue)
  <2>1. idequeue \in Seq(Bufs) /\ Distinct(idequeue)
    BY <1>i, QueueParts DEF TypeOK, QueueInv
  <2>2. /\ idequeue' \in Seq(Bufs) /\ idequeue' # <<>> /\ Distinct(idequeue')
        /\ \A c : In(c, idequeue') <=> In(c, idequeue) \/ c = b
        /\ Head(idequeue') = IF idequeue = <<>> THEN b ELSE Head(idequeue)
    BY <2>1, <1>a, <1>b, <1>c, AppendNew
  <2> QED BY <2>2 DEF In, Distinct
<1>w. \A q \in Procs : /\ InIderw(q)' <=> InIderw(q)
                       /\ Waiting(q)' <=> Waiting(q) \/ q = p
                       /\ pc'[q] = "iderw" => pc[q] = "iderw"
                       /\ pc'[q] \in {"bget", "bget_asleep"} => pc[q] \in {"bget", "bget_asleep"}
  BY <1>a, <1>c, <1>i DEF TypeOK, InIderw, Waiting
<1>s. \A c \in Bufs : (Synced(c)' <=> Synced(c)) /\ (Busy(c)' <=> Busy(c))
  BY <1>c DEF Synced, Busy
<1>e. \A q \in Procs, c \in Bufs : Owns(q, c)' <=> Owns(q, c)
  BY <1>c, <1>w DEF Owns
<1>d. /\ drive' # "idle" /\ drive' \in {"idle", "busy", "ok", "err"} /\ cmd' \in Cmds
      /\ cmd'.sector = sector[Head(idequeue')]
      /\ cmd'.op = "write" <=> "B_DIRTY" \in flags[Head(idequeue')]
      /\ cmd'.op = "write" => cmd'.val = data[Head(idequeue')]
  <2>1. CASE idequeue = <<>>
    BY <2>1, <1>c, <1>q, <1>k DEF Idestart, Cmds
  <2>2. CASE idequeue # <<>>
    BY <2>2, <1>c, <1>q, <1>i, QueueParts DEF QueueInv, AskInv, TypeOK
  <2> QED BY <2>1, <2>2
<1>1. TypeOK'
  <2>1. pc' \in [Procs -> Pcs]
    BY <1>i, <1>c DEF TypeOK, Pcs
  <2> QED BY <2>1, <1>c, <1>q, <1>d, <1>i DEF TypeOK
<1>2. OneBufferPerSector'
  BY <1>i, <1>c DEF OneBufferPerSector
<1>3. OwnersExact'
  BY <1>i, <1>s, <1>e DEF OwnersExact
<1>4. QueueSound'
  <2>1. ASSUME NEW c \in Bufs
        PROVE  In(c, idequeue)' <=> (\E q \in Procs : Waiting(q) /\ cur[q] = c /\ ~Synced(c))'
    <3>1. In(c, idequeue) <=> \E q \in Procs : Waiting(q) /\ cur[q] = c /\ ~Synced(c)
      BY <1>i, QueueParts DEF QueueInv
    <3>2. CASE c = b
      <4>1. Waiting(p)' /\ cur'[p] = c /\ ~Synced(c)'
        BY <3>2, <1>w, <1>c, <1>a, <1>s DEF b
      <4> QED BY <4>1, <3>2, <1>q
    <3>3. CASE c # b
      BY <3>1, <3>3, <1>q, <1>w, <1>s, <1>c DEF b
    <3> QED BY <3>2, <3>3
  <2> QED BY <2>1, <1>q, <1>d, <1>c, QueueParts DEF QueueInv
<1>5. AskInv'
  <2>1. ASSUME NEW q \in Procs, pc'[q] = "iderw"
        PROVE  ~Synced(cur[q])'
    <3>1. pc[q] = "iderw" /\ cur'[q] = cur[q] /\ cur[q] \in Bufs /\ ~Synced(cur[q])
      BY <2>1, <1>w, <1>c, <1>i DEF AskInv, InIderw
    <3> QED BY <3>1, <1>s, <1>i, <2>1
  <2>2. ASSUME NEW q \in Procs
        PROVE  /\ pc'[q] \in {"bget", "bget_asleep"} => want'[q] \in Sectors
               /\ InIderw(q)' => cur'[q] \in Bufs
    BY <1>w, <1>i, <1>c DEF AskInv
  <2>3. \A q \in Procs, c \in Bufs : Owns(q, c)' => sector'[c] \in Sectors
    BY <1>i, <1>c, <1>e DEF AskInv
  <2>4. (drive # "idle" => cmd \in Cmds)'
    BY <1>d
  <2> QED BY <2>1, <2>2, <2>3, <2>4 DEF AskInv
<1> QED BY <1>1, <1>2, <1>3, <1>4, <1>5 DEF IInv, CacheExact

(* The request is done, and the buffer becomes one from bread. *)
LEMMA IderwReturnsStep ==
  ASSUME IInv, NEW p \in Procs, IderwReturns(p)
  PROVE  IInv'
<1> USE DEF At, Goto, bcache, ide
<1>i. TypeOK /\ OneBufferPerSector /\ OwnersExact /\ QueueSound /\ AskInv
  BY DEF IInv, CacheExact
<1> DEFINE b == cur[p]
<1>a. b \in Bufs /\ Synced(b) /\ InIderw(p) /\ Waiting(p)
  BY <1>i DEF IderwReturns, InIderw, Waiting, AskInv
<1>c. /\ UNCHANGED <<sector, flags, data, lru, idequeue, cmd, drive, disk, want, panicked>>
      /\ pc' = [pc EXCEPT ![p] = "fs"]
      /\ cur' = [cur EXCEPT ![p] = NoBuf]
      /\ held' = [held EXCEPT ![p] = @ \cup {b}]
  BY DEF IderwReturns
<1> HIDE DEF b
<1>v. \A q \in Procs : /\ q # p => (InIderw(q)' <=> InIderw(q)) /\ (Waiting(q)' <=> Waiting(q)) /\ cur'[q] = cur[q]
                       /\ ~InIderw(p)' /\ ~Waiting(p)'
                       /\ pc'[q] = "iderw" => pc[q] = "iderw" /\ q # p
                       /\ pc'[q] \in {"bget", "bget_asleep"} => pc[q] \in {"bget", "bget_asleep"}
  BY <1>c, <1>i DEF TypeOK, InIderw, Waiting
<1>s. \A c \in Bufs : (Synced(c)' <=> Synced(c)) /\ (Busy(c)' <=> Busy(c))
  BY <1>c DEF Synced, Busy
<1>e. \A q \in Procs, c \in Bufs : Owns(q, c)' <=> Owns(q, c)
  <2>1. ASSUME NEW q \in Procs, NEW c \in Bufs, q # p
        PROVE  Owns(q, c)' <=> Owns(q, c)
    <3>1. held'[q] = held[q]
      BY <2>1, <1>c, <1>i DEF TypeOK
    <3> QED BY <3>1, <2>1, <1>v DEF Owns
  <2>2. ASSUME NEW c \in Bufs
        PROVE  Owns(p, c)' <=> Owns(p, c)
    <3>1. held'[p] = held[p] \cup {b}
      BY <1>c, <1>i DEF TypeOK
    <3> QED BY <3>1, <1>a, <1>v DEF Owns, b
  <2> QED BY <2>1, <2>2
<1>1. TypeOK'
  <2>1. pc' \in [Procs -> Pcs] /\ cur' \in [Procs -> Bufs \cup {NoBuf}]
    BY <1>i, <1>c DEF TypeOK, Pcs
  <2>2. held' \in [Procs -> SUBSET Bufs]
    BY <1>a, <1>i, <1>c DEF TypeOK
  <2> QED BY <2>1, <2>2, <1>c, <1>i DEF TypeOK
<1>2. OneBufferPerSector'
  BY <1>i, <1>c DEF OneBufferPerSector
<1>3. OwnersExact'
  BY <1>i, <1>s, <1>e DEF OwnersExact
<1>4. QueueSound'
  <2>1. ASSUME NEW c \in Bufs
        PROVE  (\E q \in Procs : Waiting(q) /\ cur[q] = c /\ ~Synced(c))'
                 <=> \E q \in Procs : Waiting(q) /\ cur[q] = c /\ ~Synced(c)
    <3>1. CASE c = b
      BY <3>1, <1>a, <1>s
    <3>2. CASE c # b
      BY <3>2, <1>v, <1>s DEF b
    <3> QED BY <3>1, <3>2
  <2>2. \A c \in Bufs : In(c, idequeue)' <=> In(c, idequeue)
    BY <1>c DEF In
  <2> QED BY <2>1, <2>2, <1>c, <1>i, QueueParts DEF QueueInv, Distinct
<1>5. AskInv'
  <2>1. ASSUME NEW q \in Procs, pc'[q] = "iderw"
        PROVE  ~Synced(cur[q])'
    <3>1. pc[q] = "iderw" /\ cur'[q] = cur[q] /\ cur[q] \in Bufs /\ ~Synced(cur[q])
      BY <2>1, <1>v, <1>i DEF AskInv, InIderw
    <3> QED BY <3>1, <1>s, <1>i, <2>1
  <2>2. ASSUME NEW q \in Procs
        PROVE  /\ pc'[q] \in {"bget", "bget_asleep"} => want'[q] \in Sectors
               /\ InIderw(q)' => cur'[q] \in Bufs
    BY <1>v, <1>i, <1>c DEF AskInv
  <2>3. \A q \in Procs, c \in Bufs : Owns(q, c)' => sector'[c] \in Sectors
    BY <1>i, <1>c, <1>e DEF AskInv
  <2>4. (drive # "idle" => cmd \in Cmds)'
    BY <1>i, <1>c DEF AskInv
  <2> QED BY <2>1, <2>2, <2>3, <2>4 DEF AskInv
<1> QED BY <1>1, <1>2, <1>3, <1>4, <1>5 DEF IInv, CacheExact

(* The head of the queue is in sync, and the drive gets the next request. *)
LEMMA IdeintrStep ==
  ASSUME IInv, Ideintr
  PROVE  IInv'
<1> USE DEF At, Goto, bcache, ide
<1>i. TypeOK /\ OneBufferPerSector /\ OwnersExact /\ QueueSound /\ AskInv
  BY DEF IInv, CacheExact
<1> DEFINE b == Head(idequeue)
<1>q. /\ idequeue # <<>> /\ b \in Bufs
      /\ Tail(idequeue) \in Seq(Bufs) /\ Distinct(Tail(idequeue)) /\ In(b, idequeue)
      /\ \A c : In(c, Tail(idequeue)) <=> In(c, idequeue) /\ c # b
      /\ Tail(idequeue) = <<>> <=> ~(Len(idequeue) > 1)
      /\ Len(idequeue) > 1 =>
           /\ Head(Tail(idequeue)) = idequeue[2] /\ In(idequeue[2], idequeue)
           /\ idequeue[2] # b /\ idequeue[2] \in Bufs
  BY <1>i, QueueParts, TailOld DEF Ideintr, TypeOK, QueueInv
<1>c. /\ UNCHANGED <<sector, lru, disk, want, held, panicked>>
      /\ data' \in [Bufs -> Vals] /\ flags' \in [Bufs -> SUBSET Flags]
      /\ \A c \in Bufs : c # b => data'[c] = data[c] /\ flags'[c] = flags[c]
      /\ flags'[b] = (flags[b] \cup {"B_VALID"}) \ {"B_DIRTY"}
      /\ WakeAll({q \in Procs : cur[q] = b})
      /\ idequeue' = Tail(idequeue)
      /\ IF Len(idequeue) > 1 THEN Idestart(idequeue[2]) ELSE drive' = "idle" /\ cmd' = NoCmd
  <2>1. drive # "idle"
    BY DEF Ideintr
  <2>2. cmd \in Cmds
    BY <2>1, <1>i DEF AskInv
  <2>3. disk[cmd.sector] \in Vals
    BY <2>2, <1>i DEF TypeOK, Cmds
  <2>4. data' = data \/ data' = [data EXCEPT ![b] = disk[cmd.sector]]
    BY DEF Ideintr
  <2>5. data' \in [Bufs -> Vals] /\ \A c \in Bufs : c # b => data'[c] = data[c]
    BY <2>3, <2>4, <1>i DEF TypeOK
  <2>6. flags' = [flags EXCEPT ![b] = (@ \cup {"B_VALID"}) \ {"B_DIRTY"}]
    BY DEF Ideintr
  <2>7. /\ flags' \in [Bufs -> SUBSET Flags] /\ \A c \in Bufs : c # b => flags'[c] = flags[c]
        /\ flags'[b] = (flags[b] \cup {"B_VALID"}) \ {"B_DIRTY"}
    BY <2>6, <1>q, <1>i DEF TypeOK, Flags
  <2> QED BY <2>5, <2>7 DEF Ideintr, Wakeup
<1> HIDE DEF b
<1>w. /\ pc' \in [Procs -> Pcs] /\ cur' \in [Procs -> Bufs \cup {NoBuf}]
      /\ \A q \in Procs :
           /\ InIderw(q) => cur'[q] = cur[q]
           /\ Waiting(q)' <=> Waiting(q)
           /\ InIderw(q)' <=> InIderw(q)
           /\ pc'[q] = "iderw" <=> pc[q] = "iderw"
           /\ pc'[q] \in {"bget", "bget_asleep"} <=> pc[q] \in {"bget", "bget_asleep"}
  BY <1>i, <1>c, WakeKeeps
<1>t. \A c \in Bufs : /\ Synced(c)' <=> Synced(c) \/ c = b
                      /\ Busy(c)' <=> Busy(c)
  <2>1. ASSUME NEW c \in Bufs, c # b
        PROVE  (Synced(c)' <=> Synced(c)) /\ (Busy(c)' <=> Busy(c))
    BY <2>1, <1>c DEF Synced, Busy
  <2>2. ASSUME NEW c \in Bufs, c = b
        PROVE  Synced(c)' /\ (Busy(c)' <=> Busy(c))
    BY <2>2, <1>c DEF Synced, Busy
  <2> QED BY <2>1, <2>2
<1>e. \A q \in Procs, c \in Bufs : Owns(q, c)' <=> Owns(q, c)
  BY <1>c, <1>w DEF Owns
<1>b. \A q \in Procs : pc[q] = "iderw" => cur[q] # b
  <2>1. PICK r \in Procs : Waiting(r) /\ cur[r] = b /\ Owns(r, b)
    BY <1>q, Owning
  <2>2. \A q \in Procs : Owns(q, b) => q = r
    BY <2>1, <1>q, <1>i DEF OwnersExact
  <2> QED BY <2>1, <2>2 DEF Owns, InIderw, Waiting
<1>k. Len(idequeue) > 1 => sector[idequeue[2]] \in Sectors /\ data[idequeue[2]] \in Vals
  <2>1. Len(idequeue) > 1 => sector[idequeue[2]] \in Sectors
    BY <1>q, <1>i, Owning DEF AskInv
  <2>2. Len(idequeue) > 1 => data[idequeue[2]] \in Vals
    BY <1>q, <1>i DEF TypeOK
  <2> QED BY <2>1, <2>2
<1>d. /\ drive' = "idle" <=> Tail(idequeue) = <<>>
      /\ drive' \in {"idle", "busy", "ok", "err"} /\ cmd' \in Cmds \cup {NoCmd}
      /\ drive' # "idle" =>
           /\ cmd' \in Cmds
           /\ cmd'.sector = sector'[Head(idequeue')]
           /\ cmd'.op = "write" <=> "B_DIRTY" \in flags'[Head(idequeue')]
           /\ cmd'.op = "write" => cmd'.val = data'[Head(idequeue')]
  <2>1. CASE Len(idequeue) > 1
    <3> DEFINE n == idequeue[2]
    <3>1. /\ cmd' = [op |-> IF "B_DIRTY" \in flags[n] THEN "write" ELSE "read",
                     sector |-> sector[n], val |-> data[n]]
          /\ drive' = "busy"
      BY <2>1, <1>c DEF Idestart
    <3>2. /\ Head(idequeue') = n /\ Tail(idequeue) # <<>>
          /\ sector'[n] = sector[n] /\ flags'[n] = flags[n] /\ data'[n] = data[n]
      BY <2>1, <1>c, <1>q
    <3>3. sector[n] \in Sectors /\ data[n] \in Vals
      BY <2>1, <1>k
    <3> HIDE DEF n
    <3> QED BY <3>1, <3>2, <3>3 DEF Cmds
  <2>2. CASE ~(Len(idequeue) > 1)
    BY <2>2, <1>c, <1>q
  <2> QED BY <2>1, <2>2
<1>1. TypeOK'
  BY <1>c, <1>q, <1>w, <1>d, <1>i DEF TypeOK
<1>2. OneBufferPerSector'
  BY <1>i, <1>c DEF OneBufferPerSector
<1>3. OwnersExact'
  BY <1>i, <1>t, <1>e DEF OwnersExact
<1>4. QueueSound'
  <2>1. ASSUME NEW c \in Bufs
        PROVE  In(c, idequeue)' <=> (\E q \in Procs : Waiting(q) /\ cur[q] = c /\ ~Synced(c))'
    <3>1. In(c, idequeue) <=> \E q \in Procs : Waiting(q) /\ cur[q] = c /\ ~Synced(c)
      BY <1>i, QueueParts DEF QueueInv
    <3>2. In(c, idequeue)' <=> In(c, idequeue) /\ c # b
      BY <1>c, <1>q DEF In
    <3>3. \A q \in Procs : /\ Waiting(q)' <=> Waiting(q)
                           /\ Waiting(q) => cur'[q] = cur[q]
      BY <1>w DEF Waiting, InIderw
    <3> QED BY <3>1, <3>2, <3>3, <1>t
  <2>2. Distinct(idequeue)'
    BY <1>c, <1>q DEF Distinct
  <2> QED BY <2>1, <2>2, <1>c, <1>d, QueueParts DEF QueueInv
<1>s. \A c \in Bufs : c # b => (Synced(c)' <=> Synced(c))
  BY <1>t
<1>5. AskInv'
  <2>1. ASSUME NEW q \in Procs, pc'[q] = "iderw"
        PROVE  ~Synced(cur[q])'
    <3>1. pc[q] = "iderw" /\ cur'[q] = cur[q] /\ cur[q] \in Bufs /\ ~Synced(cur[q])
      BY <2>1, <1>w, <1>i DEF AskInv, InIderw
    <3> QED BY <3>1, <1>s, <1>b, <2>1
  <2>2. ASSUME NEW q \in Procs
        PROVE  /\ pc'[q] \in {"bget", "bget_asleep"} => want'[q] \in Sectors
               /\ InIderw(q)' => cur'[q] \in Bufs
    BY <1>w, <1>i, <1>c DEF AskInv
  <2>3. \A q \in Procs, c \in Bufs : Owns(q, c)' => sector'[c] \in Sectors
    BY <1>i, <1>c, <1>e DEF AskInv
  <2>4. (drive # "idle" => cmd \in Cmds)'
    BY <1>d
  <2> QED BY <2>1, <2>2, <2>3, <2>4 DEF AskInv
<1> QED BY <1>1, <1>2, <1>3, <1>4, <1>5 DEF IInv, CacheExact

-----------------------------------------------------------------------------
(* A list of all buffers exists, so Init has one.                          *)
LEMMA ListExists == \E l \in [1 .. NBUF -> Bufs] : \A b \in Bufs : \E i \in 1 .. NBUF : l[i] = b
<1>1. ExistsBijection(1 .. NBUF, Bufs)
  BY ConstantAssumptions, FS_CardinalityType DEF NBUF
<1> QED BY <1>1 DEF ExistsBijection, Bijection, Surjection

(* Nobody has anything, nothing is asked for.                              *)
LEMMA InitIInv == Init => IInv
<1> SUFFICES ASSUME Init PROVE IInv
  OBVIOUS
<1>1. lru \in [1 .. NBUF -> Bufs] /\ \A b \in Bufs : \E i \in 1 .. NBUF : lru[i] = b
  BY ListExists DEF Init
<1>2. \A p \in Procs : /\ pc[p] = "fs" /\ held[p] = {} /\ ~InIderw(p) /\ ~Waiting(p)
                       /\ \A b \in Bufs : ~Owns(p, b)
  BY DEF Init, InIderw, Waiting, Owns
<1>3. TypeOK
  <2>1. disk \in [Sectors -> Vals]
    BY DEF Init
  <2>2. idequeue \in Seq(Bufs)
    BY DEF Init
  <2>3. /\ sector \in [Bufs -> Sectors \cup {NoSector}] /\ flags \in [Bufs -> SUBSET Flags]
        /\ data \in [Bufs -> Vals] /\ held \in [Procs -> SUBSET Bufs]
    BY ConstantAssumptions DEF Init
  <2>4. /\ pc \in [Procs -> Pcs] /\ want \in [Procs -> Sectors \cup {NoSector}]
        /\ cur \in [Procs -> Bufs \cup {NoBuf}]
    BY DEF Init, Pcs
  <2> QED BY <1>1, <2>1, <2>2, <2>3, <2>4 DEF Init, TypeOK
<1>4. OneBufferPerSector
  BY DEF Init, OneBufferPerSector
<1>5. OwnersExact
  BY <1>2 DEF Init, OwnersExact, Busy
<1>6. QueueSound
  <2>1. Distinct(idequeue) /\ \A b \in Bufs : ~In(b, idequeue)
    BY DEF Init, Distinct, In
  <2> QED BY <2>1, <1>2, QueueParts DEF Init, QueueInv
<1>7. AskInv
  BY <1>2 DEF Init, AskInv
<1> QED BY <1>3, <1>4, <1>5, <1>6, <1>7 DEF IInv, CacheExact

(* Nothing changes in a stuttering step.                                   *)
LEMMA StutterStep ==
  ASSUME IInv, UNCHANGED vars
  PROVE  IInv'
<1> USE DEF vars
<1>i. TypeOK /\ OneBufferPerSector /\ OwnersExact /\ QueueSound /\ AskInv
  BY DEF IInv, CacheExact
<1>1. TypeOK'
  BY <1>i DEF TypeOK
<1>2. OneBufferPerSector' /\ OwnersExact'
  BY <1>i DEF OneBufferPerSector, OwnersExact, Owns, Busy, InIderw
<1>3. QueueSound'
  BY <1>i DEF QueueSound, Synced
<1>4. AskInv'
  BY <1>i DEF AskInv, Owns, InIderw, Synced
<1> QED BY <1>1, <1>2, <1>3, <1>4 DEF IInv, CacheExact

(* Every step keeps the invariant.                                         *)
LEMMA Inductive == IInv /\ [Next]_vars => IInv'
<1> SUFFICES ASSUME IInv, [Next]_vars PROVE IInv'
  OBVIOUS
<1>1. ASSUME NEW p \in Procs, NEW s \in Sectors, Bread(p, s) PROVE IInv'
  BY <1>1, BreadStep
<1>2. ASSUME NEW p \in Procs, KernelStep(p) PROVE IInv'
  BY <1>2, BgetHitStep, BgetSleepStep, BgetRecycleStep, BgetPanicStep, IderwStep,
     IderwSleepStep, IderwReturnsStep DEF KernelStep
<1>3. ASSUME NEW p \in Procs, NEW b \in Bufs, NEW v \in Vals, Bwrite(p, b, v) PROVE IInv'
  BY <1>3, BwriteStep
<1>4. ASSUME NEW p \in Procs, NEW i \in 1 .. NBUF, Brelse(p, i) PROVE IInv'
  BY <1>4, BrelseStep
<1>5. ASSUME NEW p \in Procs, Kill(p) PROVE IInv'
  BY <1>5, KillStep
<1>6. CASE Drive \/ Ideintr
  BY <1>6, DriveStep, IdeintrStep
<1>7. CASE UNCHANGED vars
  BY <1>7, StutterStep
<1> QED BY <1>1, <1>2, <1>3, <1>4, <1>5, <1>6, <1>7 DEF Next

(* The invariant of every behaviour.                                       *)
LEMMA Invariance == Spec => []IInv
  BY InitIInv, Inductive, PTL DEF Spec

(* The variables keep their types; in particular brelse never loses a      *)
(* buffer from the list (bio.c:125).                                       *)
THEOREM TypeCorrect == Spec => []TypeOK
<1>1. IInv => TypeOK
  BY DEF IInv
<1> QED BY <1>1, Invariance, PTL

(* However many processes ask for, wait for, write and release however     *)
(* many buffers, and whatever kill interrupts: one buffer per sector, one  *)
(* owner per busy buffer, one request per waiting owner, and the drive     *)
(* works for the head of the queue.                                        *)
THEOREM CacheIsExact == Spec => []CacheExact
<1>1. IInv => CacheExact
  BY DEF IInv
<1> QED BY <1>1, Invariance, PTL

-----------------------------------------------------------------------------
(***************************************************************************)
(* With a drive that reports no errors: the cache, the queue and the drive *)
(* implement SectorStore.  DiskInv relates the buffers to the disk.        *)
(***************************************************************************)

(* A synced buffer is what the disk has; a buffer a process has is synced, *)
(* or dirty because the process is in bwrite, and no other buffer is       *)
(* dirty; and what the drive has written is on the disk.                   *)
DiskInv ==
  /\ drive # "err"
  /\ \A b \in Bufs : Synced(b) => sector[b] \in Sectors /\ data[b] = disk[sector[b]]
  /\ \A p \in Procs : \A b \in held[p] :
        Synced(b) \/ ("B_DIRTY" \in flags[b] /\ InIderw(p) /\ cur[p] = b)
  /\ \A b \in Bufs : "B_DIRTY" \in flags[b] => \E p \in Procs : InIderw(p) /\ cur[p] = b /\ b \in held[p]
  /\ drive = "ok" /\ cmd.op = "write" => disk[cmd.sector] = cmd.val

-----------------------------------------------------------------------------
(* Steps that touch neither buffers nor drive, nor who waits for what.     *)
LEMMA QuietStep ==
  ASSUME IInv, DiskInv, UNCHANGED <<flags, data, disk, cmd, drive, sector, held>>,
         \A q \in Procs : (InIderw(q)' <=> InIderw(q)) /\ (InIderw(q) => cur'[q] = cur[q])
  PROVE  DiskInv'
<1>1. /\ drive' # "err"
      /\ \A b \in Bufs : Synced(b)' => sector'[b] \in Sectors /\ data'[b] = disk'[sector'[b]]
      /\ (drive = "ok" /\ cmd.op = "write" => disk[cmd.sector] = cmd.val)'
  BY DEF DiskInv, Synced
<1>2. \A p \in Procs : \A b \in held'[p] :
        Synced(b)' \/ ("B_DIRTY" \in flags'[b] /\ InIderw(p)' /\ cur'[p] = b)
  BY DEF DiskInv, Synced
<1>3. \A b \in Bufs : "B_DIRTY" \in flags'[b] => \E p \in Procs : InIderw(p)' /\ cur'[p] = b /\ b \in held'[p]
  BY DEF DiskInv
<1> QED BY <1>1, <1>2, <1>3 DEF DiskInv

(* Bread, the sleeps, the panic and kill are quiet.                        *)
LEMMA QuietSteps ==
  ASSUME IInv, DiskInv, NEW p \in Procs,
         \/ \E s \in Sectors : Bread(p, s)
         \/ \E b \in Bufs : BgetSleep(p, b)
         \/ BgetPanic(p) \/ IderwSleep(p) \/ Kill(p)
  PROVE  /\ DiskInv'
         /\ UNCHANGED <<data, disk, sector, held>>
<1> USE DEF At, Goto, bcache, ide
<1>i. TypeOK
  BY DEF IInv
<1>1. CASE \/ \E s \in Sectors : Bread(p, s)
           \/ \E b \in Bufs : BgetSleep(p, b)
           \/ BgetPanic(p) \/ IderwSleep(p)
  <2>1. /\ UNCHANGED <<flags, data, disk, cmd, drive, sector, held>>
        /\ \A q \in Procs : (InIderw(q)' <=> InIderw(q)) /\ (InIderw(q) => cur'[q] = cur[q])
    BY <1>1, <1>i DEF TypeOK, InIderw, Bread, BgetSleep, BgetPanic, IderwSleep
  <2> QED BY <2>1, QuietStep
<1>2. CASE Kill(p)
  <2>1. UNCHANGED <<flags, data, disk, cmd, drive, sector, held>> /\ WakeAll({p})
    BY <1>2 DEF Kill
  <2>2. \A q \in Procs : (InIderw(q)' <=> InIderw(q)) /\ (InIderw(q) => cur'[q] = cur[q])
    BY <2>1, <1>i, WakeKeeps
  <2> QED BY <2>1, <2>2, QuietStep
<1> QED BY <1>1, <1>2

(* A buffer nobody has is not dirty; a process that gets it gets it synced *)
(* or has to wait for it.                                                  *)
LEMMA GotStep ==
  ASSUME IInv, DiskInv, NEW p \in Procs, NEW b \in Bufs, NEW nf,
         \A q \in Procs : ~Owns(q, b),
         ~InIderw(p), want[p] \in Sectors, "B_DIRTY" \notin nf,
         \/ Synced(b) /\ sector' = sector /\ nf = flags[b] \cup {"B_BUSY"}
         \/ "B_VALID" \notin nf /\ (sector' = sector \/ sector' = [sector EXCEPT ![b] = want[p]]),
         BgetReturns(p, b, nf), UNCHANGED panicked
  PROVE  /\ DiskInv' /\ UNCHANGED <<data, disk>>
         /\ \A c \in Bufs : c # b => sector'[c] = sector[c]
         /\ \/ held' = held
            \/ /\ Synced(b) /\ sector' = sector
               /\ held' = [held EXCEPT ![p] = @ \cup {b}]
<1> USE DEF Goto, ide
<1>i. TypeOK /\ OneBufferPerSector
  BY DEF IInv, CacheExact
<1>1. /\ UNCHANGED <<data, disk, cmd, drive>>
      /\ flags' = [flags EXCEPT ![b] = nf]
      /\ \A c \in Bufs : c # b => flags'[c] = flags[c] /\ sector'[c] = sector[c]
      /\ flags'[b] = nf
  BY <1>i DEF BgetReturns, TypeOK
<1>2. \/ /\ "B_VALID" \in nf /\ Synced(b) /\ sector' = sector /\ nf = flags[b] \cup {"B_BUSY"}
         /\ pc' = [pc EXCEPT ![p] = "fs"] /\ cur' = cur
         /\ held' = [held EXCEPT ![p] = @ \cup {b}]
      \/ /\ "B_VALID" \notin nf
         /\ cur' = [cur EXCEPT ![p] = b] /\ pc' = [pc EXCEPT ![p] = "iderw"] /\ held' = held
  <2>1. CASE Synced(b) /\ sector' = sector /\ nf = flags[b] \cup {"B_BUSY"}
    <3>1. "B_VALID" \in nf
      BY <2>1 DEF Synced
    <3> QED BY <2>1, <3>1 DEF BgetReturns
  <2>2. CASE "B_VALID" \notin nf
    BY <2>2 DEF BgetReturns
  <2> QED BY <2>1, <2>2
<1>3. \A c \in Bufs : Synced(c)' <=> (c # b /\ Synced(c)) \/ (c = b /\ "B_VALID" \in nf)
  <2>1. \A c \in Bufs : c # b => (Synced(c)' <=> Synced(c))
    BY <1>1 DEF Synced
  <2>2. \A c \in Bufs : c = b => (Synced(c)' <=> "B_VALID" \in nf)
    BY <1>1 DEF Synced
  <2> QED BY <2>1, <2>2
<1>4. \A q \in Procs : (InIderw(q) => InIderw(q)' /\ cur'[q] = cur[q])
  BY <1>2, <1>i DEF TypeOK, InIderw
<1>5. /\ drive' # "err"
      /\ (drive = "ok" /\ cmd.op = "write" => disk[cmd.sector] = cmd.val)'
  BY <1>1 DEF DiskInv
<1>6. \A c \in Bufs : Synced(c)' => sector'[c] \in Sectors /\ data'[c] = disk'[sector'[c]]
  BY <1>1, <1>2, <1>3 DEF DiskInv
<1>7. ASSUME NEW q \in Procs, NEW c \in held'[q]
      PROVE  Synced(c)' \/ ("B_DIRTY" \in flags'[c] /\ InIderw(q)' /\ cur'[q] = c)
  <2>1. CASE c \in held[q]
    <3>1. c # b /\ c \in Bufs
      BY <2>1, <1>i DEF Owns, TypeOK
    <3>2. Synced(c) \/ ("B_DIRTY" \in flags[c] /\ InIderw(q) /\ cur[q] = c)
      BY <2>1 DEF DiskInv
    <3> QED BY <3>1, <3>2, <1>1, <1>3, <1>4
  <2>2. CASE c \notin held[q]
    BY <2>2, <1>2, <1>3, <1>7, <1>i DEF TypeOK
  <2> QED BY <2>1, <2>2
<1>8. ASSUME NEW c \in Bufs, "B_DIRTY" \in flags'[c]
      PROVE  \E q \in Procs : InIderw(q)' /\ cur'[q] = c /\ c \in held'[q]
  <2>1. c # b /\ "B_DIRTY" \in flags[c]
    BY <1>8, <1>1
  <2>2. PICK q \in Procs : InIderw(q) /\ cur[q] = c /\ c \in held[q]
    BY <2>1 DEF DiskInv
  <2>3. held'[q] = held[q] \/ held'[q] = held[q] \cup {b}
    BY <1>2, <1>i DEF TypeOK
  <2> QED BY <2>2, <2>3, <1>4
<1> QED BY <1>1, <1>2, <1>5, <1>6, <1>7, <1>8 DEF DiskInv

(* bwrite dirties a buffer that was on the disk.                           *)
LEMMA WroteStep ==
  ASSUME IInv, DiskInv, NEW p \in Procs, NEW b \in Bufs, NEW v \in Vals, Bwrite(p, b, v)
  PROVE  /\ DiskInv' /\ UNCHANGED <<disk, sector, held>>
         /\ Synced(b) /\ sector[b] \in Sectors /\ b \in held[p]
         /\ data' = [data EXCEPT ![b] = v]
<1> USE DEF At, Goto, bcache, ide
<1>i. TypeOK /\ OwnersExact
  BY DEF IInv, CacheExact
<1>1. /\ UNCHANGED <<disk, sector, held, cmd, drive>> /\ b \in held[p]
      /\ data' = [data EXCEPT ![b] = v] /\ pc[p] = "fs" /\ ~InIderw(p)
      /\ \A c \in Bufs : c # b => flags'[c] = flags[c] /\ data'[c] = data[c]
      /\ "B_DIRTY" \in flags'[b]
      /\ \A q \in Procs : q # p => (InIderw(q)' <=> InIderw(q)) /\ cur'[q] = cur[q]
      /\ InIderw(p)' /\ cur'[p] = b
  BY <1>i DEF Bwrite, TypeOK, InIderw
<1>2. Synced(b) /\ sector[b] \in Sectors
  BY <1>1 DEF DiskInv
<1>3. \A c \in Bufs : Synced(c)' <=> Synced(c) /\ c # b
  BY <1>1 DEF Synced
<1>4. \A c \in Bufs : Synced(c)' => sector'[c] \in Sectors /\ data'[c] = disk'[sector'[c]]
  BY <1>1, <1>3 DEF DiskInv
<1>5. ASSUME NEW q \in Procs, NEW c \in held'[q]
      PROVE  Synced(c)' \/ ("B_DIRTY" \in flags'[c] /\ InIderw(q)' /\ cur'[q] = c)
  <2>1. c \in Bufs /\ c \in held[q]
    BY <1>1, <1>i DEF TypeOK
  <2>2. CASE c = b
    <3>1. q = p
      BY <2>1, <2>2, <1>1, <1>i DEF OwnersExact, Owns
    <3> QED BY <3>1, <2>2, <1>1
  <2>3. CASE c # b
    <3>1. Synced(c) \/ ("B_DIRTY" \in flags[c] /\ InIderw(q) /\ cur[q] = c)
      BY <2>1 DEF DiskInv
    <3> QED BY <3>1, <2>1, <2>3, <1>1, <1>3
  <2> QED BY <2>2, <2>3
<1>6. ASSUME NEW c \in Bufs, "B_DIRTY" \in flags'[c]
      PROVE  \E q \in Procs : InIderw(q)' /\ cur'[q] = c /\ c \in held'[q]
  <2>1. CASE c = b
    BY <2>1, <1>1
  <2>2. CASE c # b
    <3>1. PICK q \in Procs : InIderw(q) /\ cur[q] = c /\ c \in held[q]
      BY <2>2, <1>6, <1>1 DEF DiskInv
    <3> QED BY <3>1, <1>1
  <2> QED BY <2>1, <2>2
<1>7. /\ drive' # "err"
      /\ (drive = "ok" /\ cmd.op = "write" => disk[cmd.sector] = cmd.val)'
  BY <1>1 DEF DiskInv
<1> QED BY <1>1, <1>2, <1>4, <1>5, <1>6, <1>7 DEF DiskInv

(* What is released is on the disk.                                        *)
LEMMA ReleasedStep ==
  ASSUME IInv, DiskInv, NEW p \in Procs, NEW i \in 1 .. NBUF, Brelse(p, i)
  PROVE  /\ DiskInv' /\ UNCHANGED <<disk, sector, data>>
         /\ lru[i] \in Bufs /\ lru[i] \in held[p] /\ Synced(lru[i])
         /\ held' = [held EXCEPT ![p] = @ \ {lru[i]}]
<1> DEFINE b == lru[i]
<1>i. TypeOK
  BY DEF IInv
<1>1. /\ UNCHANGED <<disk, sector, data, cmd, drive>>
      /\ b \in Bufs /\ b \in held[p] /\ pc[p] = "fs" /\ ~InIderw(p)
      /\ flags' = [flags EXCEPT ![b] = @ \ {"B_BUSY"}]
      /\ held' = [held EXCEPT ![p] = @ \ {b}]
      /\ WakeAll({q \in Procs : cur[q] = b})
  BY <1>i DEF Brelse, Wakeup, TypeOK, At, InIderw, ide
<1> HIDE DEF b
<1>2. Synced(b)
  BY <1>1 DEF DiskInv
<1>3. \A c \in Bufs : /\ Synced(c)' <=> Synced(c)
                      /\ "B_DIRTY" \in flags'[c] <=> "B_DIRTY" \in flags[c]
  BY <1>1, <1>i DEF TypeOK, Synced
<1>4. \A q \in Procs : (InIderw(q)' <=> InIderw(q)) /\ (InIderw(q) => cur'[q] = cur[q])
  BY <1>1, <1>i, WakeKeeps
<1>5. \A q \in Procs : held'[q] \subseteq held[q] /\ (q # p => held'[q] = held[q])
  BY <1>1, <1>i DEF TypeOK
<1>6. \A c \in Bufs : Synced(c)' => sector'[c] \in Sectors /\ data'[c] = disk'[sector'[c]]
  BY <1>1, <1>3 DEF DiskInv
<1>7. ASSUME NEW q \in Procs, NEW c \in held'[q]
      PROVE  Synced(c)' \/ ("B_DIRTY" \in flags'[c] /\ InIderw(q)' /\ cur'[q] = c)
  <2>1. c \in held[q] /\ c \in Bufs
    BY <1>5, <1>i DEF TypeOK
  <2>2. Synced(c) \/ ("B_DIRTY" \in flags[c] /\ InIderw(q) /\ cur[q] = c)
    BY <2>1 DEF DiskInv
  <2> QED BY <2>1, <2>2, <1>3, <1>4
<1>8. ASSUME NEW c \in Bufs, "B_DIRTY" \in flags'[c]
      PROVE  \E q \in Procs : InIderw(q)' /\ cur'[q] = c /\ c \in held'[q]
  <2>1. PICK q \in Procs : InIderw(q) /\ cur[q] = c /\ c \in held[q]
    BY <1>8, <1>3 DEF DiskInv
  <2>2. q # p
    BY <2>1, <1>1
  <2> QED BY <2>1, <2>2, <1>4, <1>5
<1>9. /\ drive' # "err"
      /\ (drive = "ok" /\ cmd.op = "write" => disk[cmd.sector] = cmd.val)'
  BY <1>1 DEF DiskInv
<1> QED BY <1>1, <1>2, <1>6, <1>7, <1>8, <1>9 DEF DiskInv, b

(* A request changes no buffer.                                            *)
LEMMA RequestStep ==
  ASSUME IInv, DiskInv, NEW p \in Procs, Iderw(p)
  PROVE  DiskInv' /\ UNCHANGED <<disk, sector, data, held>>
<1>i. TypeOK
  BY DEF IInv
<1>1. /\ UNCHANGED <<flags, disk, sector, data, held, cur>>
      /\ drive' = "busy" \/ (cmd' = cmd /\ drive' = drive)
      /\ pc' = [pc EXCEPT ![p] = "ide_asleep"] /\ pc[p] = "iderw"
  BY DEF Iderw, Idestart, At, Goto, bcache
<1>2. \A q \in Procs : InIderw(q)' <=> InIderw(q)
  BY <1>1, <1>i DEF TypeOK, InIderw
<1>3. \A c \in Bufs : Synced(c)' <=> Synced(c)
  BY <1>1 DEF Synced
<1>4. /\ drive' # "err"
      /\ (drive = "ok" /\ cmd.op = "write" => disk[cmd.sector] = cmd.val)'
  BY <1>1 DEF DiskInv
<1>5. \A c \in Bufs : Synced(c)' => sector'[c] \in Sectors /\ data'[c] = disk'[sector'[c]]
  BY <1>1, <1>3 DEF DiskInv
<1>6. \A q \in Procs : \A c \in held'[q] :
        Synced(c)' \/ ("B_DIRTY" \in flags'[c] /\ InIderw(q)' /\ cur'[q] = c)
  BY <1>1, <1>2 DEF DiskInv, Synced
<1>7. \A c \in Bufs : "B_DIRTY" \in flags'[c] => \E q \in Procs : InIderw(q)' /\ cur'[q] = c /\ c \in held'[q]
  BY <1>1, <1>2 DEF DiskInv
<1> QED BY <1>1, <1>4, <1>5, <1>6, <1>7 DEF DiskInv

(* A process returns with a synced buffer: the one it had (bwrite), or one *)
(* more (bread).                                                           *)
LEMMA ReturnedStep ==
  ASSUME IInv, DiskInv, NEW p \in Procs, IderwReturns(p)
  PROVE  /\ DiskInv' /\ UNCHANGED <<disk, sector, data>>
         /\ cur[p] \in Bufs /\ Synced(cur[p]) /\ Owns(p, cur[p])
         /\ held' = [held EXCEPT ![p] = @ \cup {cur[p]}]
<1>i. TypeOK /\ AskInv
  BY DEF IInv
<1> DEFINE b == cur[p]
<1>1. /\ UNCHANGED <<flags, disk, sector, data, cmd, drive>>
      /\ held' = [held EXCEPT ![p] = @ \cup {b}]
      /\ b \in Bufs /\ Synced(b) /\ Owns(p, b) /\ InIderw(p)
      /\ \A q \in Procs : q # p => (InIderw(q)' <=> InIderw(q)) /\ cur'[q] = cur[q]
  BY <1>i DEF IderwReturns, At, Goto, bcache, ide, InIderw, AskInv, TypeOK, Owns
<1> HIDE DEF b
<1>2. \A c \in Bufs : Synced(c)' <=> Synced(c)
  BY <1>1 DEF Synced
<1>3. \A q \in Procs : held[q] \subseteq held'[q] /\ (q # p => held'[q] = held[q])
                       /\ held'[q] \subseteq held[q] \cup {b}
  BY <1>1, <1>i DEF TypeOK
<1>4. /\ drive' # "err"
      /\ (drive = "ok" /\ cmd.op = "write" => disk[cmd.sector] = cmd.val)'
  BY <1>1 DEF DiskInv
<1>5. \A c \in Bufs : Synced(c)' => sector'[c] \in Sectors /\ data'[c] = disk'[sector'[c]]
  BY <1>1, <1>2 DEF DiskInv
<1>6. ASSUME NEW q \in Procs, NEW c \in held'[q]
      PROVE  Synced(c)' \/ ("B_DIRTY" \in flags'[c] /\ InIderw(q)' /\ cur'[q] = c)
  <2>1. CASE c = b
    BY <2>1, <1>1, <1>2
  <2>2. CASE c # b
    <3>1. c \in held[q] /\ c \in Bufs
      BY <2>2, <1>3, <1>i DEF TypeOK
    <3>2. Synced(c) \/ ("B_DIRTY" \in flags[c] /\ InIderw(q) /\ cur[q] = c)
      BY <3>1 DEF DiskInv
    <3> QED BY <3>1, <3>2, <2>2, <1>1, <1>2 DEF b
  <2> QED BY <2>1, <2>2
<1>7. ASSUME NEW c \in Bufs, "B_DIRTY" \in flags'[c]
      PROVE  \E q \in Procs : InIderw(q)' /\ cur'[q] = c /\ c \in held'[q]
  <2>1. PICK q \in Procs : InIderw(q) /\ cur[q] = c /\ c \in held[q]
    BY <1>7, <1>1 DEF DiskInv
  <2>2. c # b
    BY <1>1, <1>7 DEF Synced
  <2>3. q # p
    BY <2>1, <2>2 DEF b
  <2> QED BY <2>1, <2>3, <1>1, <1>3
<1> QED BY <1>1, <1>4, <1>5, <1>6, <1>7 DEF DiskInv, b

(* The drive reads, or it writes what a process has put into a buffer it   *)
(* has.                                                                    *)
LEMMA DroveStep ==
  ASSUME IInv, DiskInv, ~ReadErrors, Drive
  PROVE  /\ DiskInv' /\ UNCHANGED <<sector, data, held>>
         /\ \/ disk' = disk
            \/ \E p \in Procs : \E b \in held[p] :
                  /\ b \in Bufs /\ sector[b] \in Sectors
                  /\ disk' = [disk EXCEPT ![sector[b]] = data[b]]
<1>i. TypeOK /\ OneBufferPerSector /\ AskInv
  BY DEF IInv, CacheExact
<1>1. /\ UNCHANGED <<flags, sector, data, held, cmd, pc, cur>>
      /\ drive # "idle" /\ drive' = "ok" /\ cmd \in Cmds
      /\ disk' = IF cmd.op = "write" THEN [disk EXCEPT ![cmd.sector] = cmd.val] ELSE disk
  BY <1>i DEF Drive, AskInv, bcache
<1> DEFINE h == Head(idequeue)
<1>2. /\ h \in Bufs /\ ~Synced(h) /\ cmd.sector = sector[h] /\ cmd.sector \in Sectors
      /\ cmd.op = "write" => cmd.val = data[h] /\ \E p \in Procs : h \in held[p]
  <2>1. QueueInv
    BY QueueParts DEF IInv, CacheExact
  <2>2. /\ cmd.sector = sector[h] /\ idequeue # <<>>
        /\ cmd.op = "write" => cmd.val = data[h] /\ "B_DIRTY" \in flags[h]
    BY <2>1, <1>1 DEF QueueInv
  <2>3. h \in Bufs /\ In(h, idequeue)
    BY <2>1, <2>2, <1>i, TailOld DEF TypeOK, QueueInv
  <2>4. ~Synced(h)
    BY <2>1, <2>3 DEF QueueInv
  <2>5. cmd.sector \in Sectors
    BY <1>1 DEF Cmds
  <2> QED BY <2>2, <2>3, <2>4, <2>5 DEF DiskInv
<1> HIDE DEF h
<1>3. \A c \in Bufs : Synced(c)' <=> Synced(c)
  BY <1>1 DEF Synced
<1>4. ASSUME NEW c \in Bufs, Synced(c)'
      PROVE  sector'[c] \in Sectors /\ data'[c] = disk'[sector'[c]]
  <2>1. sector[c] \in Sectors /\ data[c] = disk[sector[c]]
    BY <1>3, <1>4 DEF DiskInv
  <2>2. sector[c] # sector[h]
    BY <2>1, <1>2, <1>3, <1>4, <1>i, ConstantAssumptions DEF OneBufferPerSector
  <2>3. disk'[sector[c]] = disk[sector[c]]
    BY <2>1, <2>2, <1>1, <1>2, <1>i DEF TypeOK
  <2> QED BY <2>1, <2>3, <1>1
<1>5. /\ drive' # "err"
      /\ (drive = "ok" /\ cmd.op = "write" => disk[cmd.sector] = cmd.val)'
  BY <1>1, <1>2, <1>i DEF TypeOK
<1>6. \A q \in Procs : \A c \in held'[q] :
        Synced(c)' \/ ("B_DIRTY" \in flags'[c] /\ InIderw(q)' /\ cur'[q] = c)
  BY <1>1 DEF DiskInv, Synced, InIderw
<1>7. \A c \in Bufs : "B_DIRTY" \in flags'[c] => \E q \in Procs : InIderw(q)' /\ cur'[q] = c /\ c \in held'[q]
  BY <1>1 DEF DiskInv, InIderw
<1> QED BY <1>1, <1>2, <1>4, <1>5, <1>6, <1>7 DEF DiskInv

(* The interrupt syncs the buffer with the disk; one a process has keeps   *)
(* its data.                                                               *)
LEMMA InterruptedStep ==
  ASSUME IInv, DiskInv, Ideintr
  PROVE  /\ DiskInv' /\ UNCHANGED <<disk, sector, held>>
         /\ \A p \in Procs : \A b \in held[p] : data'[b] = data[b]
<1> DEFINE h == Head(idequeue)
<1>i. TypeOK /\ OwnersExact /\ AskInv
  BY DEF IInv, CacheExact
<1>1. QueueInv
  BY QueueParts DEF IInv, CacheExact
<1>2. /\ UNCHANGED <<disk, sector, held>> /\ drive = "ok"
      /\ data' = IF "B_DIRTY" \notin flags[h] THEN [data EXCEPT ![h] = disk[cmd.sector]] ELSE data
      /\ flags' = [flags EXCEPT ![h] = (@ \cup {"B_VALID"}) \ {"B_DIRTY"}]
      /\ WakeAll({q \in Procs : cur[q] = h})
      /\ drive' \in {"idle", "busy"}
  BY DEF Ideintr, DiskInv, Wakeup, Idestart, bcache
<1>3. /\ h \in Bufs /\ In(h, idequeue) /\ cmd.sector = sector[h]
      /\ cmd.op = "write" <=> "B_DIRTY" \in flags[h]
      /\ cmd.op = "write" => cmd.val = data[h]
  <2>1. idequeue # <<>>
    BY <1>1, <1>2 DEF QueueInv
  <2> QED BY <2>1, <1>1, <1>2, <1>i, TailOld DEF TypeOK, QueueInv
<1>o. PICK r \in Procs : InIderw(r) /\ cur[r] = h /\ \A q \in Procs : Owns(q, h) => q = r
  <2>1. PICK r \in Procs : Waiting(r) /\ cur[r] = h /\ Owns(r, h)
    BY <1>3, Owning
  <2> QED BY <2>1, <1>3, <1>i DEF OwnersExact, InIderw, Waiting
<1>n. ~Synced(h)
  BY <1>1, <1>3 DEF QueueInv
<1>4. sector[h] \in Sectors
  BY <1>o, <1>3, <1>i DEF AskInv, Owns
<1> HIDE DEF h
<1>5. /\ \A c \in Bufs : c # h => flags'[c] = flags[c] /\ data'[c] = data[c]
      /\ "B_DIRTY" \notin flags'[h] /\ "B_VALID" \in flags'[h]
      /\ data'[h] = disk[sector[h]]
      /\ "B_DIRTY" \in flags[h] => data'[h] = data[h]
  <2>1. "B_DIRTY" \in flags[h] => data[h] = disk[sector[h]]
    BY <1>2, <1>3 DEF DiskInv
  <2> QED BY <2>1, <1>2, <1>3, <1>i DEF TypeOK
<1>6. \A c \in Bufs : Synced(c)' <=> Synced(c) \/ c = h
  <2>1. \A c \in Bufs : c # h => (Synced(c)' <=> Synced(c))
    BY <1>5 DEF Synced
  <2>2. \A c \in Bufs : c = h => Synced(c)'
    BY <1>5 DEF Synced
  <2> QED BY <2>1, <2>2
<1>7. \A q \in Procs : (InIderw(q)' <=> InIderw(q)) /\ (InIderw(q) => cur'[q] = cur[q])
  BY <1>2, <1>i, WakeKeeps
<1>8. ASSUME NEW q \in Procs, NEW c \in held[q]
      PROVE  /\ data'[c] = data[c]
             /\ Synced(c)' \/ ("B_DIRTY" \in flags'[c] /\ InIderw(q)' /\ cur'[q] = c)
  <2>1. c \in Bufs /\ (Synced(c) \/ ("B_DIRTY" \in flags[c] /\ InIderw(q) /\ cur[q] = c))
    BY <1>i DEF DiskInv, TypeOK
  <2>2. CASE c = h
    BY <2>1, <2>2, <1>5, <1>6, <1>n
  <2>3. CASE c # h
    BY <2>1, <2>3, <1>5, <1>6, <1>7
  <2> QED BY <2>2, <2>3
<1>9. \A c \in Bufs : Synced(c)' => sector'[c] \in Sectors /\ data'[c] = disk'[sector'[c]]
  BY <1>2, <1>4, <1>5, <1>6 DEF DiskInv
<1>10. ASSUME NEW c \in Bufs, "B_DIRTY" \in flags'[c]
       PROVE  \E q \in Procs : InIderw(q)' /\ cur'[q] = c /\ c \in held'[q]
  <2>1. c # h /\ "B_DIRTY" \in flags[c]
    BY <1>10, <1>5
  <2> QED BY <2>1, <1>2, <1>7 DEF DiskInv
<1>11. /\ drive' # "err"
       /\ (drive = "ok" /\ cmd.op = "write" => disk[cmd.sector] = cmd.val)'
  BY <1>2
<1> QED BY <1>2, <1>8, <1>9, <1>10, <1>11 DEF DiskInv

-----------------------------------------------------------------------------
(***************************************************************************)
(* What a process sees: the data of its buffers, by their sectors.         *)
(***************************************************************************)
View(h, sec, dat) == [s \in {sec[b] : b \in h} |-> dat[CHOOSE b \in h : sec[b] = s]]
Put(f, s, v) == [t \in DOMAIN f \cup {s} |-> IF t = s THEN v ELSE f[t]]
Cut(f, s)    == [t \in DOMAIN f \ {s} |-> f[t]]
OneToOne(h, sec)  == \A b, c \in h : sec[b] = sec[c] => b = c

LEMMA ViewAt ==
  ASSUME NEW h, NEW sec, NEW dat, OneToOne(h, sec), NEW b \in h
  PROVE  sec[b] \in DOMAIN View(h, sec, dat) /\ View(h, sec, dat)[sec[b]] = dat[b]
<1>1. (CHOOSE c \in h : sec[c] = sec[b]) = b
  BY DEF OneToOne
<1> QED BY <1>1 DEF View

(* The same buffers with the same sectors and data give the same view.     *)
LEMMA ViewSame ==
  ASSUME NEW h, NEW sec, NEW dat, NEW sec2, NEW dat2, OneToOne(h, sec),
         \A b \in h : sec2[b] = sec[b] /\ dat2[b] = dat[b]
  PROVE  View(h, sec2, dat2) = View(h, sec, dat)
<1>1. {sec2[b] : b \in h} = {sec[b] : b \in h}
  OBVIOUS
<1>2. OneToOne(h, sec2)
  BY DEF OneToOne
<1>3. ASSUME NEW s \in {sec[b] : b \in h}
      PROVE  View(h, sec2, dat2)[s] = View(h, sec, dat)[s]
  <2>1. PICK b \in h : sec[b] = s
    OBVIOUS
  <2>2. View(h, sec, dat)[sec[b]] = dat[b] /\ View(h, sec2, dat2)[sec2[b]] = dat2[b]
    BY <1>2, ViewAt
  <2> QED BY <2>1, <2>2
<1> QED BY <1>1, <1>3 DEF View

(* One buffer more, whose data may be new.                                 *)
LEMMA ViewPut ==
  ASSUME NEW h, NEW sec, NEW dat, NEW dat2, NEW b, OneToOne(h \cup {b}, sec),
         \A c \in h : c # b => dat2[c] = dat[c]
  PROVE  View(h \cup {b}, sec, dat2) = Put(View(h, sec, dat), sec[b], dat2[b])
<1> DEFINE g == h \cup {b}
           R == Put(View(h, sec, dat), sec[b], dat2[b])
<1> USE DEF Put
<1>1. OneToOne(h, sec)
  BY DEF OneToOne
<1>2. DOMAIN View(h, sec, dat) = {sec[c] : c \in h} /\ DOMAIN View(g, sec, dat2) = {sec[c] : c \in g}
  BY DEF View
<1>3. DOMAIN R = {sec[c] : c \in g}
  BY <1>2
<1>4. ASSUME NEW s \in {sec[c] : c \in g}
      PROVE  View(g, sec, dat2)[s] = R[s]
  <2>1. PICK c \in g : sec[c] = s
    OBVIOUS
  <2>2. View(g, sec, dat2)[sec[c]] = dat2[c]
    BY ViewAt
  <2>3. CASE c = b
    BY <2>1, <2>2, <2>3
  <2>4. CASE c # b
    <3>1. c \in h /\ sec[c] # sec[b]
      BY <2>4 DEF OneToOne
    <3>2. View(h, sec, dat)[sec[c]] = dat[c]
      BY <3>1, <1>1, ViewAt
    <3>3. R[s] = View(h, sec, dat)[s]
      BY <1>3, <2>1, <3>1
    <3> QED BY <3>1, <3>2, <3>3, <2>1, <2>2, <2>4
  <2> QED BY <2>3, <2>4
<1>5. View(g, sec, dat2) = [s \in {sec[c] : c \in g} |-> View(g, sec, dat2)[s]]
  BY DEF View
<1>6. R = [s \in {sec[c] : c \in g} |-> R[s]]
  BY <1>3
<1> HIDE DEF R
<1>7. View(g, sec, dat2) = R
  BY <1>4, <1>5, <1>6
<1> QED BY <1>7 DEF R

(* One buffer less.                                                        *)
LEMMA ViewDrop ==
  ASSUME NEW h, NEW sec, NEW dat, NEW b \in h, OneToOne(h, sec)
  PROVE  View(h \ {b}, sec, dat) = Cut(View(h, sec, dat), sec[b])
<1> DEFINE g == h \ {b}
<1>1. OneToOne(g, sec) /\ \A c \in g : sec[c] # sec[b]
  BY DEF OneToOne
<1>2. {sec[c] : c \in g} = {sec[c] : c \in h} \ {sec[b]}
  BY <1>1
<1>3. DOMAIN View(h, sec, dat) = {sec[c] : c \in h}
  BY DEF View
<1>4. ASSUME NEW s \in {sec[c] : c \in g}
      PROVE  View(g, sec, dat)[s] = View(h, sec, dat)[s]
  <2>1. PICK c \in g : sec[c] = s
    OBVIOUS
  <2>2. View(g, sec, dat)[sec[c]] = dat[c] /\ View(h, sec, dat)[sec[c]] = dat[c]
    BY <1>1, ViewAt
  <2> QED BY <2>1, <2>2
<1>5. View(g, sec, dat) = [s \in {sec[c] : c \in g} |-> View(g, sec, dat)[s]]
  BY DEF View
<1>6. View(g, sec, dat) = [s \in {sec[c] : c \in h} \ {sec[b]} |-> View(h, sec, dat)[s]]
  BY <1>2, <1>4, <1>5
<1> QED BY <1>3, <1>6 DEF Cut

-----------------------------------------------------------------------------
(***************************************************************************)
(* The step simulation.                                                    *)
(***************************************************************************)
Views == [p \in Procs |-> View(held[p], sector, data)]

(* The state that Store sees.                                              *)
LEMMA Seen == Views = [p \in Procs |->
    [s \in {sector[b] : b \in held[p]} |->
       data[CHOOSE b \in held[p] : sector[b] = s]]]
  BY DEF Views, View

(* The buffers that processes have, of one or of several, have different   *)
(* sectors.                                                                *)
LEMMA HeldApart ==
  ASSUME IInv
  PROVE  /\ \A p \in Procs : OneToOne(held[p], sector) /\ held[p] \subseteq Bufs
         /\ \A p \in Procs : \A b \in held[p] : sector[b] \in Sectors /\ Owns(p, b)
         /\ \A p \in Procs, b \in Bufs : Owns(p, b) => sector[b] \in Sectors
         /\ \A b, c \in Bufs : sector[b] \in Sectors /\ sector[b] = sector[c] => b = c
<1>1. TypeOK /\ OneBufferPerSector /\ AskInv
  BY DEF IInv, CacheExact
<1>2. \A p \in Procs : \A b \in held[p] : b \in Bufs /\ Owns(p, b)
  BY Owning
<1>3. \A b, c \in Bufs : sector[b] \in Sectors /\ sector[b] = sector[c] => b = c
  BY <1>1, ConstantAssumptions DEF OneBufferPerSector
<1>4. \A p \in Procs, b \in Bufs : Owns(p, b) => sector[b] \in Sectors
  BY <1>1 DEF AskInv
<1> QED BY <1>2, <1>3, <1>4 DEF OneToOne

(* Nothing a process sees changes.                                         *)
LEMMA SeenSame ==
  ASSUME IInv, UNCHANGED held,
         \A p \in Procs : \A b \in held[p] : sector'[b] = sector[b] /\ data'[b] = data[b]
  PROVE  Views' = Views
<1>1. \A p \in Procs : View(held[p], sector', data') = View(held[p], sector, data)
  BY HeldApart, ViewSame
<1> QED BY <1>1 DEF Views

(* A buffer that nobody else has, and whose sector is on the disk, becomes *)
(* one of the process's.                                                   *)
LEMMA SeenMore ==
  ASSUME IInv, NEW p \in Procs, NEW b \in Bufs, sector[b] \in Sectors,
         \A q \in Procs : Owns(q, b) => q = p,
         data[b] = disk[sector[b]], b \notin held[p],
         UNCHANGED <<disk, sector, data>>, held' = [held EXCEPT ![p] = @ \cup {b}]
  PROVE  /\ disk' = disk
         /\ \A q \in Procs : sector[b] \notin DOMAIN Views[q]
         /\ Views' = [Views EXCEPT ![p] = Put(@, sector[b], disk[sector[b]])]
<1>1. \A q \in Procs : b \notin held[q]
  BY DEF Owns
<1>2. \A q \in Procs : DOMAIN Views[q] = {sector[c] : c \in held[q]}
  BY DEF Views, View
<1>3. \A q \in Procs : sector[b] \notin DOMAIN Views[q]
  BY <1>1, <1>2, HeldApart
<1>4. OneToOne(held[p] \cup {b}, sector)
  BY HeldApart DEF OneToOne
<1>5. View(held[p] \cup {b}, sector, data) = Put(View(held[p], sector, data), sector[b], data[b])
  BY <1>4, ViewPut
<1>6. held \in [Procs -> SUBSET Bufs]
  BY DEF IInv, TypeOK
<1> QED BY <1>3, <1>5, <1>6 DEF Views
(* The steps of Store in terms of Views.                                   *)
LEMMA StoreAcquire ==
  ASSUME NEW p \in Procs, NEW s \in Sectors,
         \A q \in Procs : s \notin DOMAIN Views[q],
         Views' = [Views EXCEPT ![p] = Put(@, s, disk[s])], disk' = disk
  PROVE  Store!Next
<1>1. Store!Acquire(p, s)
  BY DEF Store!Acquire, Store!Holds, Store!Set, Views, View, Put
<1> QED BY <1>1 DEF Store!Next

LEMMA StoreChange ==
  ASSUME NEW p \in Procs, NEW s \in Sectors, NEW v \in Vals,
         s \in DOMAIN Views[p], Views[p][s] = disk[s],
         Views' = [Views EXCEPT ![p] = Put(@, s, v)], disk' = disk
  PROVE  Store!Next
<1>1. Store!Change(p, s, v)
  BY DEF Store!Change, Store!Holds, Store!Set, Views, View, Put
<1> QED BY <1>1 DEF Store!Next

LEMMA StoreCommit ==
  ASSUME NEW p \in Procs, NEW s \in Sectors,
         s \in DOMAIN Views[p], disk' = [disk EXCEPT ![s] = Views[p][s]], Views' = Views
  PROVE  Store!Next
<1>1. Store!Commit(p, s)
  BY DEF Store!Commit, Store!Holds, Views, View
<1> QED BY <1>1 DEF Store!Next

LEMMA StoreRelease ==
  ASSUME NEW p \in Procs, NEW s \in Sectors,
         s \in DOMAIN Views[p], Views[p][s] = disk[s],
         Views' = [Views EXCEPT ![p] = Cut(@, s)], disk' = disk
  PROVE  Store!Next
<1>1. Store!Release(p, s)
  BY DEF Store!Release, Store!Holds, Views, View, Cut
<1> QED BY <1>1 DEF Store!Next

LEMMA StoreStutter == (disk' = disk /\ Views' = Views) => UNCHANGED Store!vars
  BY DEF Store!vars, Views, View

(* Getting a buffer is a step of Acquire, or nothing Store sees.           *)
LEMMA GotRefines ==
  ASSUME IInv, DiskInv, NEW p \in Procs,
         (\E b \in Bufs : BgetHit(p, b)) \/ (\E i \in 1 .. NBUF : BgetRecycle(p, i))
  PROVE  DiskInv' /\ [Store!Next]_(Store!vars)
<1>1. PICK b \in Bufs, nf \in SUBSET Flags :
        /\ \A q \in Procs : ~Owns(q, b)
        /\ ~InIderw(p) /\ want[p] \in Sectors /\ "B_DIRTY" \notin nf
        /\ \/ Synced(b) /\ sector' = sector /\ nf = flags[b] \cup {"B_BUSY"}
           \/ "B_VALID" \notin nf /\ (sector' = sector \/ sector' = [sector EXCEPT ![b] = want[p]])
        /\ BgetReturns(p, b, nf) /\ UNCHANGED panicked
  <2>i. OwnersExact /\ AskInv /\ TypeOK
    BY DEF IInv, CacheExact
  <2>0. pc[p] = "bget"
    BY DEF BgetHit, BgetRecycle, At
  <2>1. ~InIderw(p) /\ want[p] \in Sectors
    BY <2>0, <2>i DEF InIderw, AskInv
  <2>2. ASSUME NEW b \in Bufs, ~Busy(b)
        PROVE  (\A q \in Procs : ~Owns(q, b)) /\ "B_DIRTY" \notin flags[b]
    <3>1. \A q \in Procs : ~Owns(q, b)
      BY <2>2, <2>i DEF OwnersExact
    <3>2. "B_DIRTY" \notin flags[b]
      BY <3>1 DEF DiskInv, Owns
    <3> QED BY <3>1, <3>2
  <2>3. ASSUME NEW b \in Bufs, BgetHit(p, b)
        PROVE  /\ ~Busy(b) /\ sector' = sector /\ UNCHANGED panicked
               /\ BgetReturns(p, b, flags[b] \cup {"B_BUSY"})
    BY <2>3 DEF BgetHit, BgetReturns
  <2>4. ASSUME NEW i \in 1 .. NBUF, BgetRecycle(p, i)
        PROVE  /\ lru[i] \in Bufs /\ ~Busy(lru[i]) /\ UNCHANGED panicked
               /\ sector' = [sector EXCEPT ![lru[i]] = want[p]]
               /\ BgetReturns(p, lru[i], {"B_BUSY"})
    BY <2>4, <2>i DEF BgetRecycle, BgetReturns, TypeOK
  <2>5. CASE \E b \in Bufs : BgetHit(p, b)
    <3>1. PICK b \in Bufs : BgetHit(p, b)
      BY <2>5
    <3>2. Synced(b) \/ "B_VALID" \notin flags[b] \cup {"B_BUSY"}
      BY <3>1, <2>2, <2>3 DEF Synced
    <3>3. "B_DIRTY" \notin flags[b] \cup {"B_BUSY"}
      BY <3>1, <2>2, <2>3
    <3>4. flags[b] \cup {"B_BUSY"} \in SUBSET Flags
      BY <2>i DEF TypeOK, Flags
    <3> QED BY <3>1, <3>2, <3>3, <3>4, <2>1, <2>2, <2>3
  <2>6. CASE \E i \in 1 .. NBUF : BgetRecycle(p, i)
    <3>1. PICK i \in 1 .. NBUF : BgetRecycle(p, i)
      BY <2>6
    <3>2. "B_VALID" \notin {"B_BUSY"} /\ "B_DIRTY" \notin {"B_BUSY"} /\ {"B_BUSY"} \in SUBSET Flags
      BY DEF Flags
    <3> QED BY <3>1, <3>2, <2>1, <2>2, <2>4
  <2> QED BY <2>5, <2>6
<1>2. /\ DiskInv' /\ UNCHANGED <<data, disk>>
      /\ \A c \in Bufs : c # b => sector'[c] = sector[c]
      /\ \/ held' = held
         \/ Synced(b) /\ sector' = sector /\ held' = [held EXCEPT ![p] = @ \cup {b}]
  BY <1>1, GotStep
<1>3. \A q \in Procs : b \notin held[q]
  BY <1>1 DEF Owns
<1>4. CASE held' = held
  <2>1. \A q \in Procs : \A c \in held[q] : sector'[c] = sector[c] /\ data'[c] = data[c]
    BY <1>2, <1>3, HeldApart
  <2>2. Views' = Views
    BY <2>1, <1>4, SeenSame
  <2> QED BY <2>2, <1>2, StoreStutter
<1>5. CASE Synced(b) /\ sector' = sector /\ held' = [held EXCEPT ![p] = @ \cup {b}]
  <2>1. sector[b] \in Sectors /\ data[b] = disk[sector[b]]
    BY <1>5 DEF DiskInv
  <2>2. /\ disk' = disk
        /\ \A q \in Procs : sector[b] \notin DOMAIN Views[q]
        /\ Views' = [Views EXCEPT ![p] = Put(@, sector[b], disk[sector[b]])]
    BY <2>1, <1>1, <1>2, <1>3, <1>5, SeenMore
  <2>3. Store!Next
    BY <2>1, <2>2, StoreAcquire
  <2> QED BY <2>3, <1>2
<1> QED BY <1>2, <1>4, <1>5

(* Returning from iderw is Acquire for bread, and nothing for bwrite.      *)
LEMMA ReturnedRefines ==
  ASSUME IInv, DiskInv, NEW p \in Procs, IderwReturns(p)
  PROVE  DiskInv' /\ [Store!Next]_(Store!vars)
<1> DEFINE b == cur[p]
<1>1. /\ DiskInv' /\ UNCHANGED <<disk, sector, data>>
      /\ b \in Bufs /\ Synced(b) /\ Owns(p, b)
      /\ held' = [held EXCEPT ![p] = @ \cup {b}]
  BY ReturnedStep
<1> HIDE DEF b
<1>2. sector[b] \in Sectors /\ data[b] = disk[sector[b]]
  BY <1>1 DEF DiskInv
<1>3. held \in [Procs -> SUBSET Bufs] /\ OwnersExact
  BY DEF IInv, TypeOK, CacheExact
<1>4. CASE b \in held[p]
  <2>1. held[p] \cup {b} = held[p]
    BY <1>4
  <2>2. held' = held
    BY <2>1, <1>1, <1>3
  <2>3. Views' = Views
    BY <2>2, <1>1, SeenSame
  <2> QED BY <2>3, <1>1, StoreStutter
<1>5. CASE b \notin held[p]
  <2>1. \A q \in Procs : Owns(q, b) => q = p
    BY <1>1, <1>3 DEF OwnersExact
  <2>2. /\ disk' = disk
        /\ \A q \in Procs : sector[b] \notin DOMAIN Views[q]
        /\ Views' = [Views EXCEPT ![p] = Put(@, sector[b], disk[sector[b]])]
    BY <2>1, <1>1, <1>2, <1>5, SeenMore
  <2>3. Store!Next
    BY <2>2, <1>2, StoreAcquire
  <2> QED BY <2>3, <1>1
<1> QED BY <1>4, <1>5

(* bwrite is Change.                                                       *)
LEMMA WroteRefines ==
  ASSUME IInv, DiskInv, NEW p \in Procs, NEW b \in Bufs, NEW v \in Vals, Bwrite(p, b, v)
  PROVE  DiskInv' /\ [Store!Next]_(Store!vars)
<1>1. /\ DiskInv' /\ UNCHANGED <<disk, sector, held>>
      /\ Synced(b) /\ sector[b] \in Sectors /\ b \in held[p]
      /\ data' = [data EXCEPT ![b] = v]
  BY WroteStep
<1>2. data[b] = disk[sector[b]] /\ data \in [Bufs -> Vals] /\ OwnersExact
  BY <1>1 DEF DiskInv, IInv, TypeOK, CacheExact
<1>3. \A q \in Procs : q # p => b \notin held[q]
  BY <1>1, <1>2 DEF OwnersExact, Owns
<1>4. View(held[p], sector, data)[sector[b]] = data[b] /\ sector[b] \in DOMAIN View(held[p], sector, data)
  BY <1>1, HeldApart, ViewAt
<1>5. \A c \in Bufs : data'[c] = IF c = b THEN v ELSE data[c]
  BY <1>1, <1>2
<1>6. View(held[p], sector, data') = Put(View(held[p], sector, data), sector[b], v)
  <2>1. held[p] \cup {b} = held[p]
    BY <1>1
  <2>4. OneToOne(held[p] \cup {b}, sector)
    BY <2>1, HeldApart
  <2>2. \A c \in held[p] : c # b => data'[c] = data[c]
    BY <1>5, HeldApart
  <2>3. View(held[p] \cup {b}, sector, data') = Put(View(held[p], sector, data), sector[b], data'[b])
    <3>1. \A h, d2 : OneToOne(h \cup {b}, sector) /\ (\A c \in h : c # b => d2[c] = data[c]) =>
            View(h \cup {b}, sector, d2) = Put(View(h, sector, data), sector[b], d2[b])
      BY ViewPut
    <3> QED BY <3>1, <2>2, <2>4
  <2> QED BY <2>1, <2>3, <1>5
<1>7. ASSUME NEW q \in Procs, q # p
      PROVE  View(held[q], sector, data') = View(held[q], sector, data)
  <2>1. \A c \in held[q] : data'[c] = data[c] /\ sector[c] = sector[c]
    BY <1>3, <1>5, <1>7, HeldApart
  <2> QED BY <2>1, HeldApart, ViewSame
<1>8. Views' = [Views EXCEPT ![p] = Put(@, sector[b], v)]
  BY <1>1, <1>6, <1>7 DEF Views
<1>9. Store!Next
  <2>1. sector[b] \in DOMAIN Views[p] /\ Views[p][sector[b]] = disk[sector[b]]
    BY <1>2, <1>4 DEF Views
  <2> QED BY <2>1, <1>1, <1>8, StoreChange
<1> QED BY <1>1, <1>9

(* brelse is Release.                                                      *)
LEMMA ReleasedRefines ==
  ASSUME IInv, DiskInv, NEW p \in Procs, NEW i \in 1 .. NBUF, Brelse(p, i)
  PROVE  DiskInv' /\ [Store!Next]_(Store!vars)
<1> DEFINE b == lru[i]
<1>1. /\ DiskInv' /\ UNCHANGED <<disk, sector, data>>
      /\ b \in Bufs /\ b \in held[p] /\ Synced(b)
      /\ held' = [held EXCEPT ![p] = @ \ {b}]
  BY ReleasedStep
<1> HIDE DEF b
<1>2. sector[b] \in Sectors /\ data[b] = disk[sector[b]] /\ held \in [Procs -> SUBSET Bufs]
  BY <1>1 DEF DiskInv, IInv, TypeOK
<1>3. View(held[p], sector, data)[sector[b]] = data[b] /\ sector[b] \in DOMAIN View(held[p], sector, data)
  BY <1>1, HeldApart, ViewAt
<1>4. View(held[p] \ {b}, sector, data) = Cut(View(held[p], sector, data), sector[b])
  <2>1. OneToOne(held[p], sector)
    BY HeldApart
  <2> QED BY <2>1, <1>1, ViewDrop
<1>5. Views' = [Views EXCEPT ![p] = Cut(@, sector[b])]
  BY <1>1, <1>2, <1>4 DEF Views
<1>6. Store!Next
  <2>1. sector[b] \in DOMAIN Views[p] /\ Views[p][sector[b]] = disk[sector[b]]
    BY <1>2, <1>3 DEF Views
  <2> QED BY <2>1, <1>1, <1>2, <1>5, StoreRelease
<1> QED BY <1>1, <1>6

(* The drive is Commit when it writes.                                     *)
LEMMA DroveRefines ==
  ASSUME IInv, DiskInv, ~ReadErrors, Drive
  PROVE  DiskInv' /\ [Store!Next]_(Store!vars)
<1>1. /\ DiskInv' /\ UNCHANGED <<sector, data, held>>
      /\ \/ disk' = disk
         \/ \E p \in Procs : \E b \in held[p] :
               /\ b \in Bufs /\ sector[b] \in Sectors
               /\ disk' = [disk EXCEPT ![sector[b]] = data[b]]
  BY DroveStep
<1>2. Views' = Views
  BY <1>1 DEF Views
<1>3. CASE disk' = disk
  BY <1>1, <1>2, <1>3, StoreStutter
<1>4. ASSUME NEW p \in Procs, NEW b \in held[p], sector[b] \in Sectors,
             disk' = [disk EXCEPT ![sector[b]] = data[b]]
      PROVE  Store!Next
  <2>1. View(held[p], sector, data)[sector[b]] = data[b] /\ sector[b] \in DOMAIN View(held[p], sector, data)
    BY HeldApart, ViewAt
  <2>2. sector[b] \in DOMAIN Views[p] /\ Views[p][sector[b]] = data[b]
    BY <2>1 DEF Views
  <2> QED BY <2>2, <1>2, <1>4, StoreCommit
<1> QED BY <1>1, <1>3, <1>4

(* Every step of the cache is a step of Store, or none.                    *)
LEMMA StepRefines ==
  ASSUME IInv, DiskInv, ~ReadErrors, [Next]_vars
  PROVE  DiskInv' /\ [Store!Next]_(Store!vars)
<1>1. ASSUME NEW p \in Procs,
             \/ \E s \in Sectors : Bread(p, s)
             \/ \E b \in Bufs : BgetSleep(p, b)
             \/ BgetPanic(p) \/ IderwSleep(p) \/ Kill(p)
      PROVE  DiskInv' /\ [Store!Next]_(Store!vars)
  <2>1. DiskInv' /\ UNCHANGED <<data, disk, sector, held>>
    BY <1>1, QuietSteps
  <2> QED BY <2>1, SeenSame, StoreStutter
<1>2. ASSUME NEW p \in Procs, Iderw(p)
      PROVE  DiskInv' /\ [Store!Next]_(Store!vars)
  <2>1. DiskInv' /\ UNCHANGED <<data, disk, sector, held>>
    BY <1>2, RequestStep
  <2> QED BY <2>1, SeenSame, StoreStutter
<1>3. CASE Ideintr
  <2>1. /\ DiskInv' /\ UNCHANGED <<disk, sector, held>>
        /\ \A p \in Procs : \A b \in held[p] : data'[b] = data[b]
    BY <1>3, InterruptedStep
  <2>2. \A p \in Procs : \A b \in held[p] : sector'[b] = sector[b] /\ data'[b] = data[b]
    BY <2>1
  <2> QED BY <2>1, <2>2, SeenSame, StoreStutter
<1>4. CASE UNCHANGED vars
  <2>1. UNCHANGED <<flags, data, disk, cmd, drive, sector, held, pc, cur>>
    BY <1>4 DEF vars
  <2>2. \A q \in Procs : (InIderw(q)' <=> InIderw(q)) /\ (InIderw(q) => cur'[q] = cur[q])
    BY <2>1 DEF InIderw
  <2>3. DiskInv'
    BY <2>1, <2>2, QuietStep
  <2> QED BY <2>1, <2>3, SeenSame, StoreStutter
<1>5. ASSUME NEW p \in Procs, KernelStep(p)
      PROVE  DiskInv' /\ [Store!Next]_(Store!vars)
  <2>1. \/ \E b \in Bufs : BgetSleep(p, b)
        \/ BgetPanic(p) \/ IderwSleep(p)
        \/ Iderw(p) \/ IderwReturns(p)
        \/ (\E b \in Bufs : BgetHit(p, b)) \/ (\E i \in 1 .. NBUF : BgetRecycle(p, i))
    BY <1>5 DEF KernelStep
  <2> QED BY <2>1, <1>1, <1>2, GotRefines, ReturnedRefines
<1> QED BY <1>1, <1>2, <1>3, <1>4, <1>5, WroteRefines, ReleasedRefines, DroveRefines DEF Next

(* At first no process has a buffer, and no buffer is synced.              *)
LEMMA InitRefines == Init => DiskInv /\ Store!Init
<1> SUFFICES ASSUME Init PROVE DiskInv /\ Store!Init
  OBVIOUS
<1>1. DiskInv
  BY DEF Init, DiskInv, Synced
<1>2. disk \in [Sectors -> Vals]
  BY DEF Init
<1>3. \A p \in Procs : held[p] = {}
  BY DEF Init
<1>4. Views = [p \in Procs |-> [s \in {} |-> s]]
  <2>1. \A p \in Procs : View(held[p], sector, data) = [s \in {} |-> s]
    BY <1>3 DEF View
  <2> QED BY <2>1 DEF Views
<1>5. Store!Init <=> disk \in [Sectors -> Vals] /\ Views = [p \in Procs |-> [s \in {} |-> s]]
  BY DEF Store!Init, Views, View
<1> QED BY <1>1, <1>2, <1>4, <1>5

(* However many buffers, processes and sectors: unless the drive reports   *)
(* an error, bget, the request queue and the drive behave like sectors     *)
(* that one process at a time holds and that are on the disk when they are *)
(* given back (bio.c:1-22).                                                *)
THEOREM CacheImplementsStore ==
  ASSUME ~ReadErrors
  PROVE  Spec => ImplementsSectorStore
<1>1. Init => IInv /\ DiskInv /\ Store!Init
  BY InitIInv, InitRefines
<1>2. IInv /\ DiskInv /\ [Next]_vars => IInv' /\ DiskInv' /\ [Store!Next]_(Store!vars)
  BY Inductive, StepRefines
<1> QED BY <1>1, <1>2, PTL DEF Spec, ImplementsSectorStore, Store!Spec

(* What bread returns has the contents of the disk, however many processes *)
(* and buffers there are ("the contents of the indicated disk sector",     *)
(* bio.c:95).                                                              *)
THEOREM HeldOnDisk ==
  ASSUME ~ReadErrors
  PROVE  Spec => []HeldIsOnDisk
<1>1. Init => IInv /\ DiskInv
  BY InitIInv, InitRefines
<1>2. IInv /\ DiskInv /\ [Next]_vars => IInv' /\ DiskInv'
  BY Inductive, StepRefines
<1>3. IInv /\ DiskInv => HeldIsOnDisk
  BY HeldApart DEF HeldIsOnDisk, DiskInv, InIderw
<1> QED BY <1>1, <1>2, <1>3, PTL DEF Spec
=============================================================================
