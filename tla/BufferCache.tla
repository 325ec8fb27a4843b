---------------------------- MODULE BufferCache ----------------------------
(***************************************************************************)
(* The buffer cache and the disk driver of the P5 kernel: kernel/bio.c     *)
(* (bget, bread, bwrite, brelse) over kernel/ide.c (iderw, idestart,       *)
(* ideintr) and the drive.                                                 *)
(*                                                                         *)
(* The steps are the critical sections of bcache.lock and idelock.  sleep  *)
(* ends one, and since it takes ptable.lock before it lets go of the lock, *)
(* the test before it and the going to sleep are one step.  A buffer is    *)
(* the channel of two kinds of sleepers: who wants it (bget) and who waits *)
(* for its request (iderw).  Outside these calls a process is the code of  *)
(* kernel/fs.c: it holds at most two buffers, the second one (Shared) a    *)
(* block that balloc or bfree reads while bmap or itrunc holds the first:  *)
(* the superblock, the bitmap, a block of the file itself.  It never       *)
(* changes a buffer without calling bwrite.  There is one disk.            *)
(***************************************************************************)
EXTENDS Integers, Sequences, FiniteSets

CONSTANTS
  Procs,      \* processes that run file system code
  Bufs,       \* bcache.buf: NBUF buffers
  Sectors,    \* sectors of the disk
  Shared,     \* the sectors asked for while another one is held
  Written,    \* the sectors that are ever written (the superblock is not)
  NoSector,   \* b->dev = -1
  NoBuf,      \* no buffer
  NoCmd,      \* the drive has nothing to do
  Vals,       \* contents of a sector
  Zeroes,     \* zeroes, which is what all buffers hold at first
  ReadErrors  \* the drive may report errors (IDE_DF, IDE_ERR)

NBUF == Cardinality(Bufs)
Cmds == [op : {"read", "write"}, sector : Sectors, val : Vals]

ASSUME ConstantAssumptions ==
  /\ IsFiniteSet(Bufs) /\ Bufs # {} /\ IsFiniteSet(Procs)
  /\ Shared \subseteq Sectors /\ Written \subseteq Sectors
  /\ NoSector \notin Sectors /\ NoBuf \notin Bufs /\ NoCmd \notin Cmds
  /\ Zeroes \in Vals /\ ReadErrors \in BOOLEAN

VARIABLES
  sector,    \* b->sector
  flags,     \* b->flags
  data,      \* b->data
  lru,       \* the list from bcache.head.next on: most recently used first
  idequeue,  \* requests; the head is the one the drive works on
  cmd,       \* the last command given to the drive
  drive,     \* "idle", "busy" with cmd, or done with it: "ok" or "err"
  disk,      \* contents of the sectors
  pc, want,  \* where a process is, and the sector it asks bget for
  cur,       \* the buffer it asks iderw for or sleeps on
  held,      \* the buffers it has from bread
  panicked

bcache == <<sector, lru>>
ide    == <<idequeue, cmd, drive, disk>>
vars   == <<sector, flags, data, lru, idequeue, cmd, drive, disk, pc, want, cur, held, panicked>>

Flags == {"B_BUSY", "B_VALID", "B_DIRTY"}
Pcs   == {"fs", "bget", "bget_asleep", "iderw", "ide_asleep", "ide_awake"}

-----------------------------------------------------------------------------
At(p, l)   == pc[p] = l /\ ~panicked
Goto(p, l) == pc' = [pc EXCEPT ![p] = l]

Busy(b) == "B_BUSY" \in flags[b]
Synced(b) == flags[b] \cap {"B_VALID", "B_DIRTY"} = {"B_VALID"}

(* Where wakeup sends a process that sleeps in bget or in iderw.  Back in  *)
(* bget a process looks for its buffer again.                              *)
Awake(l) == CASE l = "bget_asleep" -> "bget" [] l = "ide_asleep" -> "ide_awake" [] OTHER -> l
WakeAll(S) ==
  /\ pc' = [p \in Procs |-> IF p \in S THEN Awake(pc[p]) ELSE pc[p]]
  /\ cur' = [p \in Procs |-> IF p \in S /\ pc[p] = "bget_asleep" THEN NoBuf ELSE cur[p]]
Wakeup(b) == WakeAll({p \in Procs : cur[p] = b})

\* Mutant: one buffer too few moves down.
MoveToFrontShort(i) ==
  [k \in 1 .. NBUF |-> IF k = 1 THEN lru[i] ELSE IF k < i THEN lru[k - 1] ELSE lru[k]]

(* The buffer at position i of the list becomes the most recently used.    *)
MoveToFront(i) ==
  [k \in 1 .. NBUF |-> IF k = 1 THEN lru[i] ELSE IF k <= i THEN lru[k - 1] ELSE lru[k]]

-----------------------------------------------------------------------------
(***************************************************************************)
(* bread: bget finds the buffer of the sector, or sleeps until it is       *)
(* released and looks again, or recycles the least recently used buffer    *)
(* that is not busy.  Nothing else is needed of that buffer: bwrite has    *)
(* written whatever was changed.                                           *)
(***************************************************************************)
Bread(p, s) ==
  /\ At(p, "fs")
  /\ \/ held[p] = {}
     \/ s \in Shared /\ \E b \in Bufs : held[p] = {b} /\ sector[b] \notin Shared
  /\ want' = [want EXCEPT ![p] = s]
  /\ Goto(p, "bget")
  /\ UNCHANGED <<bcache, flags, data, ide, cur, held, panicked>>

(* bget returns b; bread goes on to iderw unless b is valid.               *)
BgetReturns(p, b, newFlags) ==
  /\ flags' = [flags EXCEPT ![b] = newFlags]
  /\ want' = [want EXCEPT ![p] = NoSector]
  /\ IF "B_VALID" \in newFlags
     THEN held' = [held EXCEPT ![p] = @ \cup {b}] /\ Goto(p, "fs") /\ UNCHANGED cur
     ELSE cur' = [cur EXCEPT ![p] = b] /\ Goto(p, "iderw") /\ UNCHANGED held
  /\ UNCHANGED <<data, lru, ide, panicked>>

\* Mutant: B_BUSY is not set.
BgetHitUnlocked(p, b) ==
  /\ At(p, "bget") /\ sector[b] = want[p] /\ ~Busy(b)
  /\ BgetReturns(p, b, flags[b])
  /\ UNCHANGED sector

BgetHit(p, b) ==
  /\ At(p, "bget") /\ sector[b] = want[p] /\ ~Busy(b)
  /\ BgetReturns(p, b, flags[b] \cup {"B_BUSY"})
  /\ UNCHANGED sector

BgetSleep(p, b) ==
  /\ At(p, "bget") /\ sector[b] = want[p] /\ Busy(b)
  /\ cur' = [cur EXCEPT ![p] = b]
  /\ Goto(p, "bget_asleep")
  /\ UNCHANGED <<bcache, flags, data, ide, want, held, panicked>>

Cached(s) == \E b \in Bufs : sector[b] = s

BgetRecycle(p, i) ==
  /\ At(p, "bget") /\ ~Cached(want[p])
  /\ ~Busy(lru[i]) /\ \A k \in i + 1 .. NBUF : Busy(lru[k])
  /\ sector' = [sector EXCEPT ![lru[i]] = want[p]]
  /\ BgetReturns(p, lru[i], {"B_BUSY"})

BgetPanic(p) ==
  /\ At(p, "bget") /\ ~Cached(want[p])
  /\ \A b \in Bufs : Busy(b)
  /\ panicked' = TRUE
  /\ UNCHANGED <<bcache, flags, data, ide, pc, want, cur, held>>

(* A buffer is changed and written; bwrite and brelse panic if it is not   *)
(* locked.                                                                 *)
Bwrite(p, b, v) ==
  /\ At(p, "fs") /\ b \in held[p] /\ sector[b] \in Written
  /\ panicked' = ~Busy(b)
  /\ data' = [data EXCEPT ![b] = v]
  /\ flags' = [flags EXCEPT ![b] = @ \cup {"B_DIRTY"}]
  /\ cur' = [cur EXCEPT ![p] = b]
  /\ Goto(p, "iderw")
  /\ UNCHANGED <<bcache, ide, want, held>>

Brelse(p, i) ==
  /\ At(p, "fs") /\ lru[i] \in held[p]
  /\ panicked' = ~Busy(lru[i])
  /\ lru' = MoveToFront(i)
  /\ flags' = [flags EXCEPT ![lru[i]] = @ \ {"B_BUSY"}]
  /\ held' = [held EXCEPT ![p] = @ \ {lru[i]}]
  /\ Wakeup(lru[i])
  /\ UNCHANGED <<sector, data, ide, want>>

-----------------------------------------------------------------------------
(***************************************************************************)
(* iderw: the request goes to the end of the queue, the drive is started   *)
(* if it was idle, and the process sleeps until its buffer is in sync.     *)
(***************************************************************************)
(* idestart: a dirty buffer is written, any other one is read.             *)
Idestart(b) ==
  /\ cmd' = [op |-> IF "B_DIRTY" \in flags[b] THEN "write" ELSE "read",
             sector |-> sector[b], val |-> data[b]]
  /\ drive' = "busy"

Iderw(p) ==
  /\ At(p, "iderw")
  /\ panicked' = (~Busy(cur[p]) \/ Synced(cur[p]))
  /\ idequeue' = Append(idequeue, cur[p])
  /\ IF idequeue = <<>> THEN Idestart(cur[p]) ELSE UNCHANGED <<cmd, drive>>
  /\ Goto(p, "ide_asleep")
  /\ UNCHANGED <<bcache, flags, data, disk, want, cur, held>>

IderwSleep(p) ==
  /\ At(p, "ide_awake") /\ ~Synced(cur[p])
  /\ Goto(p, "ide_asleep")
  /\ UNCHANGED <<bcache, flags, data, ide, want, cur, held, panicked>>

\* Mutant: a process woken by kill goes on although its request is queued.
IderwReturnsKilled(p) ==
  /\ At(p, "ide_awake")
  /\ held' = [held EXCEPT ![p] = @ \cup {cur[p]}]
  /\ cur' = [cur EXCEPT ![p] = NoBuf]
  /\ Goto(p, "fs")
  /\ UNCHANGED <<bcache, flags, data, ide, want, panicked>>

IderwReturns(p) ==
  /\ At(p, "ide_awake") /\ Synced(cur[p])
  /\ held' = [held EXCEPT ![p] = @ \cup {cur[p]}]
  /\ cur' = [cur EXCEPT ![p] = NoBuf]
  /\ Goto(p, "fs")
  /\ UNCHANGED <<bcache, flags, data, ide, want, panicked>>

(***************************************************************************)
(* The drive carries out its command and interrupts; ideintr completes the *)
(* head of the queue, with the data of a read unless the drive reports an  *)
(* error, and starts the next request.                                     *)
(***************************************************************************)
Drive ==
  /\ ~panicked /\ drive = "busy"
  /\ drive' \in {"ok"} \cup (IF ReadErrors /\ cmd.op = "read" THEN {"err"} ELSE {})
  /\ disk' = IF cmd.op = "write" THEN [disk EXCEPT ![cmd.sector] = cmd.val] ELSE disk
  /\ UNCHANGED <<bcache, flags, data, idequeue, cmd, pc, want, cur, held, panicked>>

\* Mutant: the drive is not started on the next request.
IdeintrStops ==
  /\ ~panicked /\ drive \in {"ok", "err"}
  /\ LET b == Head(idequeue) IN
     /\ data' = IF "B_DIRTY" \notin flags[b] /\ drive = "ok"
                THEN [data EXCEPT ![b] = disk[cmd.sector]] ELSE data
     /\ flags' = [flags EXCEPT ![b] = (@ \cup {"B_VALID"}) \ {"B_DIRTY"}]
     /\ Wakeup(b)
  /\ idequeue' = Tail(idequeue)
  /\ drive' = "idle" /\ cmd' = NoCmd
  /\ UNCHANGED <<bcache, disk, want, held, panicked>>

Ideintr ==
  /\ ~panicked /\ drive \in {"ok", "err"}
  /\ LET b == Head(idequeue) IN
     /\ data' = IF "B_DIRTY" \notin flags[b] /\ drive = "ok"
                THEN [data EXCEPT ![b] = disk[cmd.sector]] ELSE data
     /\ flags' = [flags EXCEPT ![b] = (@ \cup {"B_VALID"}) \ {"B_DIRTY"}]
     /\ Wakeup(b)
  /\ idequeue' = Tail(idequeue)
  /\ IF Len(idequeue) > 1 THEN Idestart(idequeue[2]) ELSE drive' = "idle" /\ cmd' = NoCmd
  /\ UNCHANGED <<bcache, disk, want, held, panicked>>

(* kill wakes a process from either sleep.                                 *)
Kill(p) ==
  /\ ~panicked /\ pc[p] \in {"bget_asleep", "ide_asleep"}
  /\ WakeAll({p})
  /\ UNCHANGED <<bcache, flags, data, ide, want, held, panicked>>

-----------------------------------------------------------------------------
(* binit and ideinit have run.                                             *)
Init ==
  /\ sector = [b \in Bufs |-> NoSector]
  /\ flags = [b \in Bufs |-> {}]
  /\ data = [b \in Bufs |-> Zeroes]
  /\ lru = CHOOSE l \in [1 .. NBUF -> Bufs] : \A b \in Bufs : \E i \in 1 .. NBUF : l[i] = b
  /\ idequeue = <<>>
  /\ cmd = NoCmd /\ drive = "idle"
  /\ \E v \in Vals : disk = [s \in Sectors |-> v]
  /\ pc = [p \in Procs |-> "fs"]
  /\ want = [p \in Procs |-> NoSector]
  /\ cur = [p \in Procs |-> NoBuf]
  /\ held = [p \in Procs |-> {}]
  /\ panicked = FALSE

KernelStep(p) ==
  \/ \E b \in Bufs : BgetHit(p, b) \/ BgetSleep(p, b)
  \/ \E i \in 1 .. NBUF : BgetRecycle(p, i)
  \/ BgetPanic(p)
  \/ Iderw(p) \/ IderwSleep(p) \/ IderwReturns(p)

Next ==
  \/ \E p \in Procs :
       \/ \E s \in Sectors : Bread(p, s)
       \/ KernelStep(p)
       \/ \E b \in Bufs, v \in Vals : Bwrite(p, b, v)
       \/ \E i \in 1 .. NBUF : Brelse(p, i)
       \/ Kill(p)
  \/ Drive
  \/ Ideintr

Spec == Init /\ [][Next]_vars

(* The scheduler runs every process again and again, the drive answers and *)
(* interrupts, and every function of fs.c comes to the brelse of each      *)
(* buffer it has read, whatever it reads, writes and releases before.      *)
FairSpec ==
  /\ Spec
  /\ \A p \in Procs : WF_vars(KernelStep(p))
  /\ \A p \in Procs, b \in Bufs : SF_vars(\E i \in 1 .. NBUF : lru[i] = b /\ Brelse(p, i))
  /\ WF_vars(Drive) /\ WF_vars(Ideintr)

-----------------------------------------------------------------------------
(***************************************************************************)
(* Properties.                                                             *)
(***************************************************************************)
\* Types of all variables; the list has every buffer.
TypeOK ==
  /\ sector \in [Bufs -> Sectors \cup {NoSector}]
  /\ flags \in [Bufs -> SUBSET Flags]
  /\ data \in [Bufs -> Vals]
  /\ lru \in [1 .. NBUF -> Bufs] /\ \A b \in Bufs : \E i \in 1 .. NBUF : lru[i] = b
  /\ idequeue \in Seq(Bufs)
  /\ cmd \in Cmds \cup {NoCmd} /\ drive \in {"idle", "busy", "ok", "err"}
  /\ disk \in [Sectors -> Vals]
  /\ pc \in [Procs -> Pcs]
  /\ want \in [Procs -> Sectors \cup {NoSector}]
  /\ cur \in [Procs -> Bufs \cup {NoBuf}]
  /\ held \in [Procs -> SUBSET Bufs]
  /\ panicked \in BOOLEAN

(* The buffers a process has locked: those it got from bread and the one   *)
(* whose request it waits for.                                             *)
InIderw(p) == pc[p] \in {"iderw", "ide_asleep", "ide_awake"}
Owns(p, b) == b \in held[p] \/ (InIderw(p) /\ cur[p] = b)

\* No sector is in two buffers.
OneBufferPerSector ==
  \A b, c \in Bufs : sector[b] = sector[c] /\ sector[b] # NoSector => b = c

\* B_BUSY is a lock that is neither lost nor shared: it is set on exactly the
\* buffers some process has, and one process has it.  So "bget: no buffers"
\* (bio.c:92) means that NBUF buffers really are in use at once.
OwnersExact ==
  /\ \A b \in Bufs : Busy(b) <=> \E p \in Procs : Owns(p, b)
  /\ \A p, q \in Procs, b \in Bufs : Owns(p, b) /\ Owns(q, b) => p = q

\* The request queue and the drive: a buffer is queued exactly while its
\* process waits for it and it is not in sync, once, and the drive works on
\* the head of the queue with that buffer's sector, direction and data.
QueueSound ==
  /\ \A i, k \in 1 .. Len(idequeue) : idequeue[i] = idequeue[k] => i = k
  /\ \A b \in Bufs : (\E i \in 1 .. Len(idequeue) : idequeue[i] = b) <=>
       \E p \in Procs :
          pc[p] \in {"ide_asleep", "ide_awake"} /\ cur[p] = b /\ ~Synced(b)
  /\ drive = "idle" <=> idequeue = <<>>
  /\ drive # "idle" =>
       LET b == Head(idequeue) IN
       /\ cmd.sector = sector[b] /\ (cmd.op = "write" <=> "B_DIRTY" \in flags[b])
       /\ cmd.op = "write" => cmd.val = data[b]

\* The cache is exact: a sector has one buffer, a busy buffer one owner, a
\* waiting owner one request.
CacheExact == OneBufferPerSector /\ OwnersExact /\ QueueSound

\* A process that bread has given a buffer sees what is on the disk
\* ("Return a B_BUSY buf with the contents of the indicated disk sector",
\* bio.c:95), and what it has written is there.
HeldIsOnDisk ==
  \A p \in Procs : pc[p] = "fs" => \A b \in held[p] : data[b] = disk[sector[b]]

\* The cache, the queue and the drive implement sectors held by one process
\* at a time and written before they are given back.
Store == INSTANCE SectorStore WITH
  held <- [p \in Procs |->
    [s \in {sector[b] : b \in held[p]} |->
       data[CHOOSE b \in held[p] : sector[b] = s]]]
ImplementsSectorStore == Store!Spec

\* Every request completes, in the presence of kills.
IoCompletes == \A p \in Procs : InIderw(p) ~> pc[p] = "fs" \/ panicked

\* Whoever sleeps for a buffer is woken, though its holder may itself sleep for
\* another one: there is no deadlock between the two buffers a process holds.
BgetWakes == \A p \in Procs : pc[p] = "bget_asleep" ~> pc[p] # "bget_asleep" \/ panicked

\* Every process that waits in the cache goes on (bio.c:77, ide.c:150).
WaitsEnd == IoCompletes /\ BgetWakes
=============================================================================
