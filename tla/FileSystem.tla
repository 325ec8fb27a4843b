----------------------------- MODULE FileSystem -----------------------------
(***************************************************************************)
(* The file system of the P5 kernel: inodes, blocks and directories        *)
(* (kernel/fs.c) under the system calls that use names (kernel/sysfile.c), *)
(* and what a crash leaves of them: there is no log, and the order of the  *)
(* writes is all there is.                                                 *)
(*                                                                         *)
(* A process inside a call has a list of operations to do, `todo`; one     *)
(* step does the first of them, and may put others in its place.  Each     *)
(* operation is one critical section of icache.lock or one access to one   *)
(* sector: BufferCache shows that a sector belongs to one process from     *)
(* bread to brelse, and is on the disk when bwrite returns.  What a        *)
(* process does in memory while it has an inode locked (I_BUSY) goes with  *)
(* the next such operation.                                                *)
(*                                                                         *)
(* A file or directory has at most one block, a directory NSLOTS entries;  *)
(* the in-core inode of a number is unique (iget), so that the cache is    *)
(* indexed by inode numbers.                                               *)
(***************************************************************************)
EXTENDS Integers, Sequences, FiniteSets

CONSTANTS
  Procs,
  Calls,      \* the system calls user programs make
  Images,     \* disks to start from
  NINODES,    \* inodes on the disk: 1 .. NINODES
  NBLOCKS,    \* data blocks on the disk: 1 .. NBLOCKS
  NSLOTS,     \* directory entries in a block
  NOFILE,     \* descriptors of a process
  MaxCalls,   \* bound on the calls made
  MaxCrashes  \* bound on the crashes

Inums == 1 .. NINODES
ROOTINO == 1
Blocks == 1 .. NBLOCKS
NoEntry == [name |-> "", inum |-> 0]
ZeroBlock == [dir |-> [k \in 1 .. NSLOTS |-> NoEntry], data |-> FALSE]
FreeInode == [type |-> "free", nlink |-> 0, size |-> 0, addr |-> 0]

ASSUME ConstantAssumptions ==
  /\ NINODES \in Nat \ {0} /\ NBLOCKS \in Nat \ {0} /\ NSLOTS \in Nat /\ NOFILE \in Nat
  /\ MaxCalls \in Nat /\ MaxCrashes \in Nat

VARIABLES
  dinode,    \* inodes on the disk
  used,      \* the bitmap on the disk
  block,     \* data blocks on the disk
  ref, busy, valid,  \* icache: ip->ref, I_BUSY and I_VALID of ip->flags
  inode,     \* icache: the copy of the disk inode
  cwd,       \* proc->cwd
  ofile,     \* proc->ofile: inodes of open files, 0 for none
  todo,      \* what each process still has to do in its call
  res,       \* the inode that namex found, 0 if none
  panicked,  \* "no", "full" (out of inodes or blocks), or "bug"
  calls, crashes

icache == <<ref, busy, valid, inode>>
disk   == <<dinode, used, block>>
files  == <<cwd, ofile>>
bounds == <<calls, crashes>>
vars   == <<dinode, used, block, ref, busy, valid, inode, cwd, ofile, todo, res, panicked,
            calls, crashes>>

-----------------------------------------------------------------------------
(* Operations, and how a process goes through them.                        *)
Op(o, i)   == [op |-> o, ip |-> i]
IunlockPut(i) == <<Op("iunlock", i), Op("iput", i)>>
Find(path, parent) == [op |-> "namex", path |-> path, parent |-> parent]

At(p, o) == panicked = "no" /\ todo[p] # <<>> /\ Head(todo[p]).op = o
Top(p)   == Head(todo[p])
Then(p, ops) == todo' = [todo EXCEPT ![p] = ops \o Tail(@)]
Panic(b) == panicked' = IF b THEN "bug" ELSE panicked

-----------------------------------------------------------------------------
(***************************************************************************)
(* The inode cache.                                                        *)
(***************************************************************************)
(* iget and idup: an entry that is not in use starts without I_VALID.      *)
Iget(i) ==
  /\ ref' = [ref EXCEPT ![i] = @ + 1]
  /\ valid' = IF ref[i] = 0 THEN [valid EXCEPT ![i] = FALSE] ELSE valid
  /\ busy' = IF ref[i] = 0 THEN [busy EXCEPT ![i] = FALSE] ELSE busy
  /\ UNCHANGED inode

(* ilock waits for I_BUSY and reads the inode if the cache does not have   *)
(* it; nobody else changes the disk inode of a locked one.                 *)
Ilock(p) ==
  /\ At(p, "ilock")
  /\ LET i == Top(p).ip IN
     /\ ~busy[i]
     /\ busy' = [busy EXCEPT ![i] = TRUE]
     /\ valid' = [valid EXCEPT ![i] = TRUE]
     /\ inode' = IF valid[i] THEN inode ELSE [inode EXCEPT ![i] = dinode[i]]
     /\ Panic(ref[i] < 1 \/ (~valid[i] /\ dinode[i].type = "free"))
  /\ Then(p, <<>>)
  /\ UNCHANGED <<disk, ref, files, res, bounds>>

Iunlock(p) ==
  /\ At(p, "iunlock")
  /\ LET i == Top(p).ip IN
     /\ busy' = [busy EXCEPT ![i] = FALSE]
     /\ Panic(~busy[i] \/ ref[i] < 1)
  /\ Then(p, <<>>)
  /\ UNCHANGED <<disk, ref, valid, inode, files, res, bounds>>

(* The last reference to an inode without names: iput locks it, frees its  *)
(* block (bfree: zeroes first, then the bitmap), and writes it twice,      *)
(* empty and then free.                                                    *)
FreeOps(i) ==
  (IF inode[i].addr # 0 THEN <<Op("bzero", i), Op("bfree", i)>> ELSE <<>>)
    \o <<Op("truncated", i), Op("freed", i), Op("forget", i)>>

Iput(p) ==
  /\ At(p, "iput")
  /\ LET i == Top(p).ip IN
     IF ref[i] = 1 /\ valid[i] /\ inode[i].nlink = 0
     THEN /\ Panic(busy[i])
          /\ busy' = [busy EXCEPT ![i] = TRUE]
          /\ Then(p, FreeOps(i))
          /\ UNCHANGED ref
     ELSE /\ ref' = [ref EXCEPT ![i] = @ - 1]
          /\ Then(p, <<>>)
          /\ UNCHANGED <<busy, panicked>>
  /\ UNCHANGED <<disk, valid, inode, files, res, bounds>>

Bzero(p) ==
  /\ At(p, "bzero")
  /\ block' = [block EXCEPT ![inode[Top(p).ip].addr] = ZeroBlock]
  /\ Then(p, <<>>)
  /\ UNCHANGED <<dinode, used, icache, files, res, panicked, bounds>>

Bfree(p) ==
  /\ At(p, "bfree")
  /\ LET b == inode[Top(p).ip].addr IN used' = used \ {b} /\ Panic(b \notin used)
  /\ Then(p, <<>>)
  /\ UNCHANGED <<dinode, block, icache, files, res, bounds>>

(* iupdate: the in-core inode, changed to n, is written.                   *)
Iupdate(i, n) ==
  /\ inode' = [inode EXCEPT ![i] = n]
  /\ dinode' = [dinode EXCEPT ![i] = n]

Truncated(p) ==
  /\ At(p, "truncated")
  /\ LET i == Top(p).ip IN Iupdate(i, [inode[i] EXCEPT !.size = 0, !.addr = 0])
  /\ Then(p, <<>>)
  /\ UNCHANGED <<used, block, ref, busy, valid, files, res, panicked, bounds>>

Freed(p) ==
  /\ At(p, "freed")
  /\ LET i == Top(p).ip IN Iupdate(i, [inode[i] EXCEPT !.type = "free"])
  /\ Then(p, <<>>)
  /\ UNCHANGED <<used, block, ref, busy, valid, files, res, panicked, bounds>>

\* Mutant: the cache keeps the freed inode as valid.
ForgetNothing(p) ==
  /\ At(p, "forget")
  /\ LET i == Top(p).ip IN
     /\ busy' = [busy EXCEPT ![i] = FALSE]
     /\ ref' = [ref EXCEPT ![i] = @ - 1]
  /\ Then(p, <<>>)
  /\ UNCHANGED <<disk, valid, inode, files, res, panicked, bounds>>

Forget(p) ==
  /\ At(p, "forget")
  /\ LET i == Top(p).ip IN
     /\ busy' = [busy EXCEPT ![i] = FALSE]
     /\ valid' = [valid EXCEPT ![i] = FALSE]
     /\ ref' = [ref EXCEPT ![i] = @ - 1]
  /\ Then(p, <<>>)
  /\ UNCHANGED <<disk, inode, files, res, panicked, bounds>>

(* ip->nlink is changed by d and the inode is written.                     *)
AddLink(i, d) == [op |-> "addlink", ip |-> i, d |-> d]
DoAddLink(p) ==
  /\ At(p, "addlink")
  /\ LET i == Top(p).ip IN Iupdate(i, [inode[i] EXCEPT !.nlink = @ + Top(p).d])
  /\ Then(p, <<>>)
  /\ UNCHANGED <<used, block, ref, busy, valid, files, res, panicked, bounds>>

-----------------------------------------------------------------------------
(***************************************************************************)
(* Blocks: writei allocates a block when the file has none (in the bitmap  *)
(* on disk, and in the in-core inode only), writes the data, and writes    *)
(* the inode if the file has grown.                                        *)
(***************************************************************************)
Lowest(S) == CHOOSE n \in S : \A m \in S : n <= m

\* Mutant: the bitmap is not written.
BallocUnmarked(p) ==
  /\ At(p, "balloc")
  /\ LET i == Top(p).ip
         b == Lowest(Blocks \ used)
     IN IF Blocks \subseteq used
        THEN panicked' = "full" /\ UNCHANGED <<inode, todo>>
        ELSE inode' = [inode EXCEPT ![i].addr = b] /\ Then(p, <<>>) /\ UNCHANGED panicked
  /\ UNCHANGED <<disk, ref, busy, valid, files, res, bounds>>

Balloc(p) ==
  /\ At(p, "balloc")
  /\ LET i == Top(p).ip
         b == Lowest(Blocks \ used)
     IN IF Blocks \subseteq used
        THEN panicked' = "full" /\ UNCHANGED <<used, inode, todo>>
        ELSE /\ used' = used \cup {b}
             /\ inode' = [inode EXCEPT ![i].addr = b]
             /\ Then(p, <<>>)
             /\ UNCHANGED panicked
  /\ UNCHANGED <<dinode, block, ref, busy, valid, files, res, bounds>>

WriteEntry(i, k, e) == [op |-> "writeentry", ip |-> i, slot |-> k, entry |-> e]
DoWriteEntry(p) ==
  /\ At(p, "writeentry")
  /\ block' = [block EXCEPT ![inode[Top(p).ip].addr].dir[Top(p).slot] = Top(p).entry]
  /\ Then(p, <<>>)
  /\ UNCHANGED <<dinode, used, icache, files, res, panicked, bounds>>

WriteData(p) ==
  /\ At(p, "writedata")
  /\ block' = [block EXCEPT ![inode[Top(p).ip].addr].data = TRUE]
  /\ Then(p, <<>>)
  /\ UNCHANGED <<dinode, used, icache, files, res, panicked, bounds>>

Grow(i, n) == [op |-> "grow", ip |-> i, size |-> n]
DoGrow(p) ==
  /\ At(p, "grow")
  /\ LET i == Top(p).ip IN Iupdate(i, [inode[i] EXCEPT !.size = Top(p).size])
  /\ Then(p, <<>>)
  /\ UNCHANGED <<used, block, ref, busy, valid, files, res, panicked, bounds>>

(* writei of `write`, which ends at size n.                                *)
WriteiOps(i, write, n) ==
  (IF inode[i].addr = 0 THEN <<Op("balloc", i)>> ELSE <<>>) \o <<write>>
    \o (IF n > inode[i].size THEN <<Grow(i, n)>> ELSE <<>>)

-----------------------------------------------------------------------------
(***************************************************************************)
(* Directories.  dirlookup looks at the whole block, dirlink and           *)
(* isdirempty only at the part inside dp->size.                            *)
(***************************************************************************)
Entries(i) == IF inode[i].size = 0 \/ inode[i].addr = 0 THEN <<>> ELSE block[inode[i].addr].dir
InUse(d)   == {k \in DOMAIN d : d[k].inum # 0}
Slots(i, name) == {k \in InUse(Entries(i)) : Entries(i)[k].name = name}
Dirlookup(i, name) ==
  IF Slots(i, name) = {} THEN 0 ELSE Entries(i)[Lowest(Slots(i, name))].inum

IsDirEmpty(i) == \A k \in InUse(Entries(i)) : k \in 1 .. 2 \/ k > inode[i].size

(* dirlink: `bad` is what is left to do when the name is present.          *)
Dirlink(i, name, inum, bad) ==
  [op |-> "dirlink", ip |-> i, name |-> name, inum |-> inum, bad |-> bad]
FirstSlot(i) ==
  Lowest({k \in 1 .. inode[i].size : k \notin InUse(Entries(i))} \cup {inode[i].size + 1})

DoDirlink(p) ==
  /\ At(p, "dirlink")
  /\ LET dp    == Top(p).ip
         found == Dirlookup(dp, Top(p).name)
         k     == FirstSlot(dp)
     IN IF found = 0
        THEN /\ Then(p, WriteiOps(dp,
                  WriteEntry(dp, k, [name |-> Top(p).name, inum |-> Top(p).inum]), k))
             /\ UNCHANGED <<icache, panicked>>
        ELSE /\ Iget(found)
             /\ todo' = [todo EXCEPT ![p] = <<Op("iput", found)>> \o Top(p).bad]
             /\ Panic(Top(p).bad = <<>>)
  /\ UNCHANGED <<disk, files, res, bounds>>

(***************************************************************************)
(* namex: from the root or the current directory, one element after the    *)
(* other; nameiparent stops one element early.                             *)
(***************************************************************************)
Element(names, parent) == [op |-> "element", names |-> names, parent |-> parent]

Namex(p) ==
  /\ At(p, "namex")
  /\ LET start == IF Top(p).path.rel THEN cwd[p] ELSE ROOTINO IN
     /\ Iget(start)
     /\ res' = [res EXCEPT ![p] = start]
     /\ Then(p, IF Top(p).path.names = <<>> THEN <<>>
                ELSE <<Op("ilock", start), Element(Top(p).path.names, Top(p).parent)>>)
  /\ UNCHANGED <<disk, files, panicked, bounds>>

DoElement(p) ==
  /\ At(p, "element")
  /\ LET ip    == res[p]
         names == Top(p).names
         next  == IF inode[ip].type = "dir" THEN Dirlookup(ip, Head(names)) ELSE 0
     IN IF inode[ip].type = "dir" /\ Top(p).parent /\ Len(names) = 1
        THEN /\ Then(p, <<Op("iunlock", ip)>>)
             /\ UNCHANGED <<icache, res>>
        ELSE /\ IF next = 0 THEN UNCHANGED icache ELSE Iget(next)
             /\ res' = [res EXCEPT ![p] = next]
             /\ Then(p, IunlockPut(ip) \o
                  (IF next = 0 \/ Len(names) = 1 THEN <<>>
                   ELSE <<Op("ilock", next), Element(Tail(names), Top(p).parent)>>))
  /\ UNCHANGED <<disk, files, panicked, bounds>>

(* What a call does with the result of namex: `ops` if there is one.       *)
IfFound(p, ops) == Then(p, IF res[p] = 0 THEN <<>> ELSE ops)
Handles(p, o) ==
  /\ At(p, o)
  /\ UNCHANGED <<disk, icache, files, res, panicked, bounds>>

-----------------------------------------------------------------------------
(***************************************************************************)
(* sys_link: the count goes up before the name exists, and down again if   *)
(* it cannot be made.                                                      *)
(***************************************************************************)
Last(s) == s[Len(s)]

Link(p) ==
  /\ Handles(p, "link")
  /\ IfFound(p, <<Op("ilock", res[p]), [op |-> "link_file", ip |-> res[p], new |-> Top(p).new]>>)

\* Mutant: the file stays locked while the new name is looked up.
LinkFileLocked(p) ==
  /\ Handles(p, "link_file")
  /\ LET ip == Top(p).ip IN
     Then(p, IF inode[ip].type = "dir" THEN IunlockPut(ip)
             ELSE <<AddLink(ip, 1), Find(Top(p).new, TRUE), Op("iunlock", ip),
                    [op |-> "link_name", ip |-> ip, name |-> Last(Top(p).new.names)]>>)

LinkFile(p) ==
  /\ Handles(p, "link_file")
  /\ LET ip == Top(p).ip IN
     Then(p, IF inode[ip].type = "dir" THEN IunlockPut(ip)
             ELSE <<AddLink(ip, 1), Op("iunlock", ip), Find(Top(p).new, TRUE),
                    [op |-> "link_name", ip |-> ip, name |-> Last(Top(p).new.names)]>>)

LinkName(p) ==
  /\ Handles(p, "link_name")
  /\ LET ip  == Top(p).ip
         dp  == res[p]
         bad == <<Op("ilock", ip), AddLink(ip, -1)>> \o IunlockPut(ip)
     IN Then(p, IF dp = 0 THEN bad
                ELSE <<Op("ilock", dp), Dirlink(dp, Top(p).name, ip, IunlockPut(dp) \o bad)>>
                       \o IunlockPut(dp) \o <<Op("iput", ip)>>)

(***************************************************************************)
(* sys_unlink: the entry is erased before the counts go down.              *)
(***************************************************************************)
Unlink(p) ==
  /\ Handles(p, "unlink")
  /\ IfFound(p, <<Op("ilock", res[p]), [op |-> "unlink_find", ip |-> res[p], name |-> Top(p).name]>>)

UnlinkFind(p) ==
  /\ At(p, "unlink_find")
  /\ LET dp == Top(p).ip
         ip == IF Top(p).name \in {".", ".."} THEN 0 ELSE Dirlookup(dp, Top(p).name)
     IN IF ip = 0
        THEN Then(p, IunlockPut(dp)) /\ UNCHANGED icache
        ELSE /\ Iget(ip)
             /\ Then(p, <<Op("ilock", ip),
                  [op |-> "unlink_file", dp |-> dp, ip |-> ip,
                   slot |-> Lowest(Slots(dp, Top(p).name))]>>)
  /\ UNCHANGED <<disk, files, res, panicked, bounds>>

(* The entry may be the one after dp->size, left by a crash in a dirlink    *)
(* that did not get to its iupdate: erasing it makes the directory grow.   *)
UnlinkOps(dp, ip, k) ==
  WriteiOps(dp, WriteEntry(dp, k, NoEntry), k)
    \o (IF inode[ip].type = "dir" THEN <<AddLink(dp, -1)>> ELSE <<>>)
    \o IunlockPut(dp) \o <<AddLink(ip, -1)>> \o IunlockPut(ip)

UnlinkFile(p) ==
  /\ At(p, "unlink_file")
  /\ LET dp == Top(p).dp
         ip == Top(p).ip
         stays == inode[ip].type = "dir" /\ ~IsDirEmpty(ip)
     IN /\ Then(p, IF stays THEN IunlockPut(ip) \o IunlockPut(dp) ELSE UnlinkOps(dp, ip, Top(p).slot))
        /\ Panic(inode[ip].nlink < 1 \/ (~stays /\ Top(p).slot > inode[dp].size + 1))
  /\ UNCHANGED <<disk, icache, files, res, bounds>>

(***************************************************************************)
(* create, for sys_open with O_CREATE (type "file") and sys_mkdir ("dir"): *)
(* an existing file is opened, a new inode is marked allocated on disk,    *)
(* given its link, its dots, and at last its name.                         *)
(***************************************************************************)
Create(p) ==
  /\ Handles(p, "create")
  /\ IfFound(p, <<Op("ilock", res[p]),
                  [op |-> "create_find", ip |-> res[p], name |-> Top(p).name, type |-> Top(p).type]>>)

CreateFind(p) ==
  /\ At(p, "create_find")
  /\ LET dp == Top(p).ip
         ip == Dirlookup(dp, Top(p).name)
     IN IF ip = 0
        THEN Then(p, <<[Top(p) EXCEPT !.op = "ialloc"]>>) /\ UNCHANGED icache
        ELSE /\ Iget(ip)
             /\ Then(p, IunlockPut(dp) \o
                  <<Op("ilock", ip), [op |-> "create_found", ip |-> ip, type |-> Top(p).type]>>)
  /\ UNCHANGED <<disk, files, res, panicked, bounds>>

CreateFound(p) ==
  /\ Handles(p, "create_found")
  /\ LET ip == Top(p).ip IN
     Then(p, IF Top(p).type = "file" /\ inode[ip].type = "file"
             THEN <<Op("opened", ip)>> ELSE IunlockPut(ip))

(* ialloc takes an inode that is free when its sector is looked at (the    *)
(* ones before it were not when theirs were).                              *)
Ialloc(p) ==
  /\ At(p, "ialloc")
  /\ \/ \E i \in Inums :
          /\ dinode[i].type = "free"
          /\ dinode' = [dinode EXCEPT ![i] = [FreeInode EXCEPT !.type = Top(p).type]]
          /\ Then(p, <<[op |-> "ialloc_iget", dp |-> Top(p).ip, ip |-> i,
                        name |-> Top(p).name, type |-> Top(p).type]>>)
          /\ UNCHANGED panicked
     \/ /\ \A i \in Inums : dinode[i].type # "free"
        /\ panicked' = "full"
        /\ UNCHANGED <<dinode, todo>>
  /\ UNCHANGED <<used, block, icache, files, res, bounds>>

IallocIget(p) ==
  /\ At(p, "ialloc_iget")
  /\ Iget(Top(p).ip)
  /\ Then(p, <<Op("ilock", Top(p).ip), [Top(p) EXCEPT !.op = "create_init"]>>)
  /\ UNCHANGED <<disk, files, res, panicked, bounds>>

CreateInit(p) ==
  /\ At(p, "create_init")
  /\ LET dp == Top(p).dp
         ip == Top(p).ip
     IN /\ Iupdate(ip, [inode[ip] EXCEPT !.nlink = 1])
        /\ Then(p,
             (IF Top(p).type = "dir"
              THEN <<AddLink(dp, 1), Dirlink(ip, ".", ip, <<>>), Dirlink(ip, "..", dp, <<>>)>>
              ELSE <<>>)
             \o <<Dirlink(dp, Top(p).name, ip, <<>>)>> \o IunlockPut(dp)
             \o (IF Top(p).type = "dir" THEN IunlockPut(ip) ELSE <<Op("opened", ip)>>))
  /\ UNCHANGED <<used, block, ref, busy, valid, files, res, panicked, bounds>>

-----------------------------------------------------------------------------
(* sys_open without O_CREATE, and its end: filealloc and fdalloc.          *)
Open(p) ==
  /\ Handles(p, "open")
  /\ IfFound(p, <<Op("ilock", res[p]), Op("opened", res[p])>>)

Opened(p) ==
  /\ At(p, "opened")
  /\ LET free == {fd \in 1 .. NOFILE : ofile[p][fd] = 0} IN
     IF free = {}
     THEN Then(p, IunlockPut(Top(p).ip)) /\ UNCHANGED ofile
     ELSE /\ ofile' = [ofile EXCEPT ![p][Lowest(free)] = Top(p).ip]
          /\ Then(p, <<Op("iunlock", Top(p).ip)>>)
  /\ UNCHANGED <<disk, icache, cwd, res, panicked, bounds>>

Chdir(p) ==
  /\ Handles(p, "chdir")
  /\ IfFound(p, <<Op("ilock", res[p]), Op("chdir_dir", res[p])>>)

ChdirDir(p) ==
  /\ Handles(p, "chdir_dir")
  /\ LET ip == Top(p).ip IN
     Then(p, IF inode[ip].type # "dir" THEN IunlockPut(ip)
             ELSE <<Op("iunlock", ip), Op("iput", cwd[p]), Op("chdir_set", ip)>>)

ChdirSet(p) ==
  /\ At(p, "chdir_set")
  /\ cwd' = [cwd EXCEPT ![p] = Top(p).ip]
  /\ Then(p, <<>>)
  /\ UNCHANGED <<disk, icache, ofile, res, panicked, bounds>>

(* filewrite of a file opened for writing.                                 *)
Write(p) ==
  /\ Handles(p, "write")
  /\ Then(p, WriteiOps(Top(p).ip, Op("writedata", Top(p).ip), 1))

-----------------------------------------------------------------------------
(***************************************************************************)
(* The calls of user programs.  A call is a record of a name and its       *)
(* arguments.                                                              *)
(***************************************************************************)
OpsOf(c) ==
  CASE c.call = "open"   -> <<Find(c.path, FALSE), [op |-> "open"]>>
    [] c.call = "chdir"  -> <<Find(c.path, FALSE), [op |-> "chdir"]>>
    [] c.call = "link"   -> <<Find(c.path, FALSE), [op |-> "link", new |-> c.new]>>
    [] c.call = "unlink" -> <<Find(c.path, TRUE), [op |-> "unlink", name |-> Last(c.path.names)]>>
    [] c.call \in {"creat", "mkdir"} ->
         <<Find(c.path, TRUE),
           [op |-> "create", name |-> Last(c.path.names),
            type |-> IF c.call = "mkdir" THEN "dir" ELSE "file"]>>

Returned(p) == todo[p] = <<>>
Enter(p, ops) ==
  /\ panicked = "no" /\ Returned(p) /\ calls < MaxCalls
  /\ calls' = calls + 1
  /\ todo' = [todo EXCEPT ![p] = ops]
  /\ UNCHANGED <<disk, icache, cwd, res, panicked, crashes>>

Syscall(p, c) == Enter(p, OpsOf(c)) /\ UNCHANGED ofile

SysWrite(p, fd) ==
  /\ ofile[p][fd] # 0 /\ dinode[ofile[p][fd]].type = "file"
  /\ Enter(p, <<Op("ilock", ofile[p][fd]), Op("write", ofile[p][fd]), Op("iunlock", ofile[p][fd])>>)
  /\ UNCHANGED ofile

SysClose(p, fd) ==
  /\ ofile[p][fd] # 0
  /\ Enter(p, <<Op("iput", ofile[p][fd])>>)
  /\ ofile' = [ofile EXCEPT ![p][fd] = 0]

(* At boot the cache is empty but for the root, where all processes are,   *)
(* and nothing is open.                                                    *)
BootRefs == [i \in Inums |-> IF i = ROOTINO THEN Cardinality(Procs) ELSE 0]
BootFlag == [i \in Inums |-> FALSE]
BootInodes == [i \in Inums |-> FreeInode]
NoFiles == [p \in Procs |-> [fd \in 1 .. NOFILE |-> 0]]

Init ==
  /\ \E d \in Images : dinode = d.dinode /\ used = d.used /\ block = d.block
  /\ ref = BootRefs /\ busy = BootFlag /\ valid = BootFlag /\ inode = BootInodes
  /\ cwd = [p \in Procs |-> ROOTINO] /\ ofile = NoFiles
  /\ todo = [p \in Procs |-> <<>>] /\ res = [p \in Procs |-> 0]
  /\ panicked = "no"
  /\ calls = 0 /\ crashes = 0

(* Power fails, or the machine is switched off after a panic.              *)
Crash ==
  /\ crashes < MaxCrashes
  /\ crashes' = crashes + 1
  /\ ref' = BootRefs /\ busy' = BootFlag /\ valid' = BootFlag /\ inode' = BootInodes
  /\ cwd' = [p \in Procs |-> ROOTINO] /\ ofile' = NoFiles
  /\ todo' = [p \in Procs |-> <<>>] /\ res' = [p \in Procs |-> 0]
  /\ panicked' = "no"
  /\ UNCHANGED <<disk, calls>>

Step(p) ==
  \/ Ilock(p) \/ Iunlock(p) \/ Iput(p)
  \/ Bzero(p) \/ Bfree(p) \/ Truncated(p) \/ Freed(p) \/ Forget(p)
  \/ DoAddLink(p) \/ Balloc(p) \/ DoWriteEntry(p) \/ WriteData(p) \/ DoGrow(p)
  \/ DoDirlink(p) \/ Namex(p) \/ DoElement(p)
  \/ Link(p) \/ LinkFile(p) \/ LinkName(p)
  \/ Unlink(p) \/ UnlinkFind(p) \/ UnlinkFile(p)
  \/ Create(p) \/ CreateFind(p) \/ CreateFound(p) \/ Ialloc(p) \/ IallocIget(p) \/ CreateInit(p)
  \/ Open(p) \/ Opened(p) \/ Chdir(p) \/ ChdirDir(p) \/ ChdirSet(p) \/ Write(p)

Next ==
  \/ \E p \in Procs :
       \/ Step(p)
       \/ \E c \in Calls : Syscall(p, c)
       \/ \E fd \in 1 .. NOFILE : SysWrite(p, fd) \/ SysClose(p, fd)
  \/ Crash

Spec == Init /\ [][Next]_vars

-----------------------------------------------------------------------------
(***************************************************************************)
(* Properties.                                                             *)
(***************************************************************************)
\* Types of all variables but `todo`, whose operations are of many kinds.
Dinodes == [type : {"free", "file", "dir"}, nlink : Int, size : 0 .. NSLOTS, addr : {0} \cup Blocks]
TypeOK ==
  /\ dinode \in [Inums -> Dinodes] /\ inode \in [Inums -> Dinodes]
  /\ used \subseteq Blocks
  /\ DOMAIN block = Blocks
  /\ ref \in [Inums -> Nat]
  /\ busy \in [Inums -> BOOLEAN] /\ valid \in [Inums -> BOOLEAN]
  /\ cwd \in [Procs -> Inums]
  /\ ofile \in [Procs -> [1 .. NOFILE -> {0} \cup Inums]]
  /\ res \in [Procs -> {0} \cup Inums]
  /\ panicked \in {"no", "full", "bug"}

(* The tree on the disk: entries of a directory other than its dots, and   *)
(* the inodes that can be reached from the root through entries.           *)
DiskEntries(i) ==
  LET n == dinode[i] IN
  IF n.type # "dir" \/ n.size = 0 \/ n.addr = 0 THEN {}
  ELSE {k \in InUse(block[n.addr].dir) : block[n.addr].dir[k].name \notin {".", ".."}}
Child(i, k) == block[dinode[i].addr].dir[k].inum
Children(S) == UNION {{Child(i, k) : k \in DiskEntries(i)} : i \in S}
Within[n \in 0 .. NINODES] == IF n = 0 THEN {ROOTINO} ELSE Within[n - 1] \cup Children(Within[n - 1])
Reachable == Within[NINODES]
NamesOf(j) == {<<i, k>> \in Reachable \X (1 .. NSLOTS) : k \in DiskEntries(i) /\ Child(i, k) = j}

\* At every instant, and so after a crash at any instant, every name on the
\* disk leads to an allocated inode whose link count is not below the number
\* of its names: an inode is never freed while it has a name
\* (sysfile.c:125, 199, 239, fs.c:351).
NamesCounted ==
  \A j \in Reachable \ {ROOTINO} :
    dinode[j].type # "free" /\ dinode[j].nlink >= Cardinality(NamesOf(j))

\* The inodes in use - with a name on the disk, or open, or somebody's
\* current directory - have blocks of their own that the bitmap knows of.
InUseNow == Reachable \cup {cwd[p] : p \in Procs} \cup
            (UNION {{ofile[p][fd] : fd \in 1 .. NOFILE} : p \in Procs} \ {0})
BlocksOwned ==
  \A i \in InUseNow : dinode[i].addr # 0 =>
    /\ dinode[i].addr \in used
    /\ \A j \in InUseNow : dinode[j].addr = dinode[i].addr => i = j

\* An inode that is open or a current directory is not freed, whatever
\* happens to its names.
HeldAllocated ==
  \A p \in Procs :
    /\ \A fd \in 1 .. NOFILE : ofile[p][fd] # 0 => dinode[ofile[p][fd]].type # "free"
    /\ Head(todo[p] \o <<Op("none", 0)>>).op # "chdir_set" => dinode[cwd[p]].type # "free"

\* balloc hands out blocks as they are, and dirlookup looks at all entries of
\* a block: a block is free on the disk only if it is full of zeroes.
FreeBlocksZero == \A b \in Blocks \ used : block[b] = ZeroBlock

\* What a crash at any instant leaves on the disk is a consistent file system.
DiskConsistent == NamesCounted /\ BlocksOwned /\ FreeBlocksZero

\* No call loses or keeps a reference or a lock: when no call runs, the
\* references are those of descriptors and current directories.
HeldBy(i) ==
  Cardinality({p \in Procs : cwd[p] = i}) +
  Cardinality({<<p, fd>> \in Procs \X (1 .. NOFILE) : ofile[p][fd] = i})
NothingKept ==
  panicked = "no" /\ (\A p \in Procs : Returned(p)) =>
    \A i \in Inums : ref[i] = HeldBy(i) /\ ~busy[i]

\* A cached inode that nobody has locked is the one on the disk.
CacheCoherent == \A i \in Inums : ref[i] > 0 /\ valid[i] /\ ~busy[i] => inode[i] = dinode[i]

\* The inode cache is true to the descriptors and to the disk, whatever calls
\* race with an iput that frees an inode (fs.c:282) and an ialloc that takes it
\* again (fs.c:147, 192).
CacheSound == HeldAllocated /\ NothingKept /\ CacheCoherent

\* The kernel's own assertions hold (ilock, iunlock, iput, bfree, unlink,
\* create), before and after a crash.
NoPanic == panicked # "bug"

\* The locks of inodes cannot deadlock: some process inside a call can go on.
\* (ilock is the only operation that waits, and the calls have no loops, so
\* that every call returns.)
Waits(p) == Top(p).op = "ilock" /\ busy[Top(p).ip]
NoDeadlock ==
  panicked = "no" /\ (\E p \in Procs : ~Returned(p)) => \E p \in Procs : ~Returned(p) /\ ~Waits(p)

\* What the calls rely on between any two of their steps: the inode cache is
\* right, and none of the kernel's assertions fails (fs.c:182, 212, 285; sysfile.c:201).
CallsSound == TypeOK /\ CacheSound /\ NoPanic
=============================================================================
