# A verification project for CS537_SP23_Operating_Systems

The repository holds the eight projects of an operating systems course: three
variants of the xv6 kernel (P2 system calls, P4 stride scheduling, P5
copy-on-write fork) and user-level programs (P1 option and file parsing, P3 a
shell, P6 a parallel sort, P7 an ext2 image scanner, P8 an RPC client and
server over UDP).  The three kernels share almost all of their code; P5 is the
one modelled here, and P4 only where it differs.

`PROJECT.json` maps every definition to the lines it models and lists the
components, runs, mutants, hazards, findings and theorems.

## Inventory

Line numbers are those of `src/P5_XV6_CoW_Fork` unless another project is
named.

| Component | State | Operations | Interacts with | What makes it correct | Module |
|---|---|---|---|---|---|
| Physical pages (`kernel/kalloc.c`) | freelist, `free_pages`, `ref_cnt[]`, under `kmem.lock` | kalloc, kfree, inc/dec/get_ref_cnt, getFreePagesCount | everything that owns a page | a page is free exactly when nothing refers to it; the counts are exact | CowMemory |
| Address spaces, CoW (`kernel/vm.c`) | page tables, `proc->sz` | setupkvm, allocuvm, deallocuvm, freevm, cowuvm, pgfltintr | fork, sbrk, exec, wait; page faults with interrupts off | a process sees only its own stores; writable means unshared; `sz` tells what is mapped | CowMemory |
| exec (`kernel/exec.c`) | old and new page table | exec | address spaces, inodes | all or nothing | CowMemory |
| Process table (`kernel/proc.c`) | state, pid, parent, killed, chan, kstack, under `ptable.lock`; `cpu->proc` | allocproc, fork, exit, wait, scheduler, sched, yield, sleep, wakeup, kill | swtch, timer, every sleeper | one CPU per process, no lost wakeup, no orphan, a killed process exits | ProcTable |
| Traps, ticks (`kernel/trap.c`, `kernel/sysproc.c`) | `ticks` under `tickslock` | system call, timer, page fault, sys_sleep | process table | lock order, sleep ends | ProcTable, CowMemory |
| Spin locks (`kernel/spinlock.c`) | `locked`, `cpu`; `ncli`, `intena` and the interrupt flag of each CPU | acquire, release, pushcli, popcli; sched's `intena` | all | exclusive, also across swtch; interrupts off inside, and back as they were | SpinLock |
| Pipes (`kernel/pipe.c`) | ring buffer, counters, two open flags | pipealloc, pipewrite, piperead, pipeclose | sleep/wakeup, kill, kalloc, files | byte stream, end of file, nobody stuck | Pipe, ByteStream, OpenFiles |
| Buffer cache, IDE (`kernel/bio.c`, `kernel/ide.c`) | B_BUSY/VALID/DIRTY, LRU list, request queue, the drive | bget, bread, bwrite, brelse, iderw, idestart, ideintr | sleep/wakeup, kill, disk | one buffer per sector, one owner, every request completes | BufferCache, SectorStore |
| Inodes, directories (`kernel/fs.c`, `kernel/sysfile.c`) | ref, I_BUSY, I_VALID, nlink, bitmap, directories | iget, iput, ilock, ialloc, itrunc, dirlookup, dirlink, namex; open, close, link, unlink, mkdir, chdir, write | buffer cache, crashes | counts exact, no block in two files, what a crash may leave (there is no log) | FileSystem |
| Bytes of files (`kernel/fs.c`) | direct and indirect pointers, size, bitmap | bmap, readi, writei, itrunc | buffer cache, crashes | a file has the bytes written to it; blocks have one owner | FileBlocks |
| Open files (`kernel/file.c`, `kernel/sysfile.c`) | ftable, `proc->ofile` | filealloc, filedup, fileclose; dup, close, open, pipe, fork, exit | pipes, inodes | counts exact, whatever fails half way | OpenFiles |
| Console (`kernel/console.c`) | input ring with r/w/e indices | consoleintr, consoleread, consolewrite, panic | sleep/wakeup, kill, the inode's lock | lines arrive whole and in order | Console, LineInput |
| malloc (`user/umalloc.c`) | circular free list | malloc, free, morecore | sbrk | every header in one block, free neighbours joined | Umalloc |
| Stride scheduler (`P4_XV6_Stride_Scheduling/kernel/proc.c`) | `pstat`, `curr_pstat_idx`: pass, stride, tickets | scheduler, settickets, fork, exit, wait, yield, sleep | process table | the entry used is the current process's; tickets are those asked for | StrideScheduler |
| RPC (`P8_Distributed_Systems`) | client seq/retry; server table, store, threads, packet buffer | RPC_idle/get/put; serve | lossy, reordering datagrams | at most once, the answer belongs to the request | RpcService, RemoteCall |
| Parallel sort (`P6_Parallel_Sort/psort.c`) | keys, temp, segments | merge_sort, merge, the join | threads | no two threads share a record; sorted | ParallelSort |
| Shell (`P3_Unix_Shell/smash.c`) | pipes, child count, loop count | launch, close, wait, loop | POSIX pipes, fork, wait | every program gets its end of file, the prompt returns | SmashPipeline |
| ext2 scanner (`P7_File_Systems/runscan.c`) | inode tables, directories, block pointers | scan, names, top_secret, copy | the image | every picture recovered, byte for byte | Ext2Scan, Ext2Copy |
| System call arguments, boot, devices, mkfs, `user/sh.c`, P1, P2's two calls | | | | | see Not modelled |

The hard behaviours are: preemption inside system calls (interrupts are on,
`trap.c:23`), page faults of several CPUs racing on one reference count, memory,
files, blocks and entries running out at any allocation, locks handed over
across `swtch`, sleep/wakeup and kill, crashes between two disk writes without a
log, and in P8 lost, delayed and repeated datagrams with threads.  Each one is
listed, at its line, under `hazards`.

## Modules

### CowMemory: pages, page tables, copy-on-write

`free`, `free_pages` and `ref_cnt` are `kmem`; `pgdir`, `sz`, `kstack` are the
fields of `struct proc`; `ptpages` are the pages a page table itself is made
of.  `npgdir`/`nptpages` are the page table under construction in fork and exec,
or being torn down in freevm.  `pc` is the position of a process inside a call.

One step is one critical section of `kmem.lock` with the private work around
it, so fork, sbrk, exec and freevm are preempted between any two pages. cowuvm
maps and then counts in two steps (`ForkMap`, `ForkInc`).  pgfltintr reads the
count and allocates in one step (`PageFaultCopy`) and drops its reference in
another (`PageFaultDone`); `PageFaultOwner` is the branch that only sets PTE_W.
Reading the count, kalloc and memmove form one step: on several CPUs the count
can also change between get_ref_cnt and kalloc, but the branch taken depends
only on the value read and neither kalloc nor the copy reads the count, so
these steps can be moved together.  A fault at an address without a page table is
a panic (`PageFaultUnmapped`); one at a page that is not present changes nothing
and repeats (`PageFaultAgain`).  With interrupts off (page fault, wait under
ptable.lock) another process moves only if it has a CPU of its own (`CanStep`).

Running out of memory is modelled everywhere: `SetupKvm` forgets the pages it
has (they go to `lost`), `GrowPage` undoes, fork and exec fail, and the page
fault copies over virtual address 0 and maps physical page 0 as the code does.

Properties: `MemoryExact` (types, `RefCountsExact`, `WritableExclusive`,
`FreePagesExact`, `SizeMapped`), `SharingSafe` (`NoUseAfterFree` and
`WritableExclusive`, which hold with racing faults too), `ForkCopies`, and
`IsolationFromUserStores`, the promise of copy-on-write.  It exempts what is
known to break it: the kernel's stores through a read-only mapping
(`WriteThrough`), a page fault that finds no page (`OomFault`), and what a
process reads at a page that such a fault has mapped to physical page 0.
`Isolation` is the same promise without these exceptions; it does not hold (see
Known deviations).  `IInv` is the invariant the proofs use.

### ProcTable: process table and scheduling

`ptlock` and `tickslock` hold the CPU that owns the lock; `proc[c]` is
`cpu->proc`, `scan[c]` the loop pointer of scheduler(), `irq[c]` the CPU inside
the timer interrupt.  `pc[p]` is where the thread of p is: it only names places
where the code can be stopped (a lock it waits for, an interrupt, a switch).
A critical section that neither waits nor switches is one step; a section that
ends in sched() leaves `ptlock` held and the scheduler thread, or the thread
that resumes in yield/sleep/forkret, goes on with it.  `ticks` is represented by
the ticks each sys_sleep still has to wait (`left`), which keeps it finite
without a bound on time.

The timer may arrive in user mode, in fork (between allocproc and the end) and
in the scheduler.  The other labels outside of a lock (`sysret`, `wait`, `exit`,
`sleep_reacquire`, `trap_kill`) are places where a thread is about to take a
lock or to test `killed`; an interrupt there only delays that step, which the
interleaving of the CPUs does as well.

Not in the module: memory (CowMemory), the open files that fork duplicates and
exit closes (OpenFiles), and channels other than `&ticks` and wait()'s.
init never exits and is never killed: `kill(1)` leads to the panic "init
exiting" by design.

Properties: `SchedSafe` (one CPU per process, no freed kernel stack in use,
sched()'s assertions), `NoLostWakeup`, `ParentAlive`; `ProcessesGoOn` (killed
processes exit, orphans are reaped, sleep(n) returns).

### SpinLock: acquire and release under interrupts

ProcTable and Pipe take a critical section for granted; SpinLock is why they
may.  What a thread or a CPU's scheduler has to do is a sequence of operations
on locks (`code`), as the kernel's functions have them: yield, sleep, exit,
forkret, the timer with its tick, the page fault with kalloc's lock.  One step
is one of pushcli, the exchange, the note of the owner, its removal, the
unlocking with popcli.  A timer interrupt arrives wherever the CPU's flag is on,
also between any two operations of a system call.  sched() saves `intena` in the
thread's frame, and the thread goes on wherever it is dispatched next.

Properties: `LocksSound` (`LocksExact`: the CPU between acquire and release is
alone and has interrupts off, and `ncli` counts its locks; `NoPanic`: none of the
panics of acquire, release, popcli and sched; `InterruptFlag`: a thread has its
flag again after sched()); `SpinsEnd`.  The module ends with the invariant `IInv`
that proves `LocksSound` (see Proofs).

### Pipe: pipe.c, and the calls that reach it

`lock` is the owner of `p->lock`; `data`, `nread`, `nwrite`, `readopen`,
`writeopen` are the fields of `struct pipe` and `freed` says that pipeclose has
given the page back.  `fds[p]` are the ends process p holds (the references
fork and dup leave in several descriptors of one process are one), `pc[p]` is
where it is inside read, write or close, `todo` the bytes its call still has to
move (n - i), `got` the byte its read stored last.

Each process has a CPU of its own.  Under `p->lock` one test or one byte is one
step, because kill takes only `ptable.lock` and may come between any two of
them.  wakeup and the start of sleep are critical sections of `ptable.lock`
inside one of `p->lock`; they are part of the step that releases `p->lock`,
which no other process can tell from two steps: whoever is woken has to acquire
`p->lock` first.  The counters wrap at `Wrap`, which stands for 2^32.  pipealloc
with its error path, and fork, which hands out references, are in OpenFiles.

`ByteStream` is what a pipe promises: a sequence of at most `Capacity` bytes,
with Begin, Put, Take, End, CloseRead, CloseWrite and Kill.  End says when a
call may stop: it has moved everything, or it is a read of an empty stream that
has something to return or nothing to expect, or a write into a full stream
nobody can empty, or its process has been killed.  `Pipe!ImplementsStream` maps
`stream` to the bytes in the ring from `nread` to `nwrite` (`Contents`) and
`call` to the kind of call a process is in.

Properties: `ImplementsStream`, `NoUseAfterFree`, `NoLostWakeup`, `EndsReturn`
(a read of a pipe without writers and a write to one without readers return).
`NoLostWakeup` says when p->lock is free: a writer sleeps only over a full pipe with
a reader open, a reader only over an empty one with a writer open.  One
exception is the code's: a killed writer that finds the pipe full gives up without
a wakeup (`pipe.c:83-86`).  The history variable `missed` keeps it as narrow as it
is: the readers asleep at that moment, until wakeup is next called for readers.
Readers that begin to sleep later, and readers of a pipe where others were killed
in other places, are not excused;
`SleepsOnlyIfEmpty` and `KilledAwake` do not hold (see Known deviations).

### OpenFiles: the table of open files

`ref` and `type` are the fields of `struct file`, `ofile` the descriptors,
`open` the two flags of each pipe's page, `iref` the references to the one inode
that stands for all.  A step is one critical section of `ftable.lock`, `p->lock`,
`ptable.lock` or the inode cache, with the private code up to the next one:
fileclose drops the count in one step and closes the pipe or the inode in
another (`last` is its copy `ff`); open and pipe take the entry, the page and
the descriptors in steps of their own and give them back when one is missing;
fork copies descriptor by descriptor; exit closes them one by one.

Properties: `FilesSound` (`RefsExact`, `EndsExact`, `DescriptorsSound`), which is
proved for any instance with `IInv` (see Proofs), and `EndsClose`.

### BufferCache and SectorStore: blocks of the disk

The steps are the critical sections of `bcache.lock` and `idelock`; a buffer is
the channel of who wants it (bget) and of who waits for its request (iderw).
`lru` is the list that brelse reorders, `idequeue` the request queue, `cmd` and
`drive` the drive.  Outside the calls a process is the code of fs.c: it holds at
most two buffers, the second one of `Shared` (superblock, bitmap), never changes
a buffer without bwrite, and asks for no sector it already holds.

`SectorStore` is the promise of `bio.c:1-22`: a sector is held by one process at
a time, with the contents of the disk, and what is changed is on the disk before
it is given back.  Properties: `CacheExact` (`OneBufferPerSector`,
`OwnersExact`, `QueueSound`), `ImplementsSectorStore`, `WaitsEnd`.

### FileSystem: names and inodes, with crashes

A process inside a call has a list of operations (`todo`); a step does the first
and may put others in its place, as namex goes from element to element.  Each
operation is one critical section of `icache.lock` or one access to a sector,
which BufferCache shows to be exclusive and on the disk when bwrite returns.
`dinode`, `used`, `block` are the disk; `ref`, `busy`, `valid`, `inode` the
inode cache; `cwd` and `ofile` the processes'.  A crash may come between any two
steps: memory is lost, the disk stays, and a new kernel starts.  Files have one
block here, directories one block of NSLOTS entries.

dirlink and unlink write an entry with writei (`WriteiOps`), which is two writes to
the disk when the entry is at the end of the directory: the entry, then the size
(`fs.c:446-448`).  dirlookup reads the whole block, so that after a crash between
the two it finds the entry all the same, and unlink of that name makes the
directory longer, with a crash point of its own.  An entry further behind the end
would make writei fail and unlink panic ("unlink: writei"); none ever is, which
is part of `CallsSound`.

Properties: `DiskConsistent` (at every instant, so after every crash: names lead
to allocated inodes with enough links, blocks in use have one owner and are
marked, free blocks are zero); `CallsSound` (types; open inodes are allocated,
no reference or lock is left over, cached inodes are those of the disk; no
assertion of the kernel fails); `NoDeadlock`.

### FileBlocks: the bytes of a file

bmap, readi, writei and itrunc over direct pointers and the indirect block, one
disk access a step, on several files that share the bitmap, with the disk
filling up and a crash between any two writes.  `contents` is what the file had
when the call began.  `BSIZE` counts cells, which are bytes or pointers.  The
places of pointers (`Places`) are numbered in the order in which itrunc frees what
they point to: the direct ones, the entries of the indirect block, that block
itself; `left` is what it has still to free, each block at its place.

Properties: `BlocksSound` (the bytes on disk and in what readi returns are those
written, blocks have one owner, a free block is zero, which the code relies on
because balloc does not clear) and `WriteExact`.

### Console and LineInput

`buf`, `r`, `w`, `e` are `input`; consoleintr is one step per character under
`input.lock`; consoleread gives up the inode's lock, takes `input.lock`, tests,
sleeps, copies; consolewrite gives up the inode's lock and prints.  The indices
wrap at `Wrap`, for 2^32.  `LineInput` is a line being typed and a sequence of
complete lines.  Properties: `InputSound` (`NoLostWakeup`, `NeverStuck`),
`ImplementsLineInput`, `WritesEnd`.

### Umalloc

Memory is counted in headers; address 0 is the static header.  `ptr` and `size`
are header fields, reset to 0 where no block begins any more, so that states
differ only by what the code can read.  The two search loops are steps
(`search`, `free`); morecore calls sbrk, which fails past `Top`, and free.  The
program frees any block it has at any time, and may move the break itself, so
that what morecore gets need not touch what malloc has.  Properties: `HeapSound`
(`BlocksExact`, `ListSound`), `FailsOnlyIfNone`, and its share of `ProgramsEnd`.
`IInv` is what the proofs of the first two rest on.

### StrideScheduler

P4's `ptable.pstat` and the global `curr_pstat_idx` beside the process table,
on the one CPU of the Makefile; each step is a critical section, or a part of
fork outside of one, in the middle of which the timer may switch.  Ticks, which
nothing reads, are left out.  `last` and `asked` are history.  `StrideSound`:
every process that can run has its one entry, the index is that of the process
dispatched last, tickets and strides are those asked for or inherited.

### RpcService and RemoteCall

Datagrams are a set that grows by sends: each may be received at any later time
or never.  The client sends again on a timeout, up to RETRY_COUNT, and starts
counting anew at an acknowledgement; the server gets requests twice because the
client repeats them.  `packet` is main's packet; with `SlowThreads` main may
receive over it before an idle request's thread has read it.  A thread's accesses to
the table are steps of their own, as no lock protects them.  `RemoteCall` is at
most once execution: a call takes effect at one moment between start and return.
Properties: `ServerSound` (`OneEntryPerClient`, `NeverOld`,
`FinalRepliesExact`), `ImplementsRemoteCall`, `CallEnds`.

### ParallelSort, SmashPipeline, Ext2Scan, Ext2Copy

ParallelSort: threads are stacks of calls of merge_sort and merge on the shared
arrays, a step is a call or one record; main joins and merges.  `RaceFree` is
about all records a thread may still touch, `EndsSorted` about the result, equal
keys included.

SmashPipeline: pipes, forks that may fail, children that plumb themselves and
run a filter or cannot execute, the shell's closing and waiting, loop rounds.
The programs copy some of what they read, or stop early; they and the pipes
behave as POSIX has it.  `RoundsClean`, `PlumbingExact`; `ChildInv` says where
each child stands and which ends it has, `Closed` which the shell has.

Ext2Scan: the scan of the inode tables and the two ways of naming, over three
layouts of four inodes with all small directories; Ext2Copy: the three nested kinds of pointers, over every file size.
`Recovered`, `CopyExact`.  An image is a choice of inodes and directory entries in
which a directory has a name once (`NamesDiffer`: ext2 allows no second entry of
a name; deleted entries have the inode number 0 here).  `Recovered`: without an
entry top_secret every picture is recovered; with one, exactly the pictures that the
entries read for the last such entry name (`OnlyRecovered`).  These are the entries
of that directory if read_inode finds its inode (`Reached`).  It does not if the
inode is the last of its group, where the code is wrong (`Ext2Secret.cfg`, Known
deviations), nor if the entry is stale or no directory.  What
it then reads as entries (`ReadDir`: nothing, or those of any directory) is left open,
not what becomes of them.  The `IInv` of each says
what the scan, or the copy, has done so far.

### MCKernelParts, MCKernelLive, MCPrograms

Parts of the kernels that share no state in these models, and the user
programs, are instantiated side by side: a behaviour picks a part, which moves
alone, while the variables of the others stay at their initial values.  So the
states are the sum of the parts' states, not their product, and nothing is left
out, since no step of one part reads what another changes.  `StrideSound`,
`LocksSound` and so on are the parts' own properties under the condition that
the part moves.  MCKernelLive numbers the fairness conditions of its parts and
lets one condition stand for one of each part; in a behaviour of a part the
others' disjuncts are disabled, and the condition is the part's.

### Proof modules

ProcTableProofs, CowMemoryProofs, PipeProofs, BufferCacheProofs,
RpcServiceProofs, KernelPartsProofs, FileBlocksProofs (which extends it) and
ProgramsProofs, see Proofs.  Rings has the definitions about ring buffers that
PipeProofs and KernelPartsProofs share.

## Runs

| Run | Expect | Instance | Shows |
|---|---|---|---|
| `cow_memory` | pass | 2 processes, 6 pages, 1 CPU, 2 user pages of 2 bytes, sbrk(1), sbrk(-2) | exact counts, isolation, fork, `sz`; out of memory at every allocation |
| `cow_race` | pass | 3 processes, 7 pages, 2 CPUs, 1 user page | no use after free and no shared writable page with racing faults |
| `cow_leak` | violation | as `cow_race` | two racing faults leak the shared page |
| `proc_table` | pass | 3 slots, 2 CPUs, pids to 4, kill(0), kill(2), sleep(0), sleep(1) | the safety properties of the process table |
| `pipe` | pass | 2 processes, bytes a and b, PIPESIZE 2, counters modulo 4, requests of 1 and 3 bytes | implements the byte stream; no lost wakeup; calls return after the other end is closed |
| `buffer_cache` | pass | 2 processes, 2 buffers, 3 sectors, 2 contents | implements the sector store; nobody waits for ever |
| `file_system` | pass | 2 symmetric processes, 3 inodes, 3 blocks, directories of 4 entries, 3 calls of 8 kinds, 1 crash, 3 images | what any crash leaves; references; no panic; no deadlock |
| `rpc` | pass | 2 clients (two calls and one), 2 threads, 1 key, 2 table entries, 2 tries | at most once, right answers, calls end |
| `rpc_race` | violation | 2 clients, one idle and one put, slow threads | a reply says done and carries no result |
| `kernel_parts` | pass | five parts, below | their safety properties, LineInput |
| `kernel_live` | pass | four parts, below | what must happen in the end |
| `programs` | pass | five programs, below | their results, and that they end |

Bounds.  In CowMemory two processes and six pages are the smallest instance in
which one process is complete (stack, directory, two pages), a second can be
forked with one page shared, and the next allocation fails; a `sz` of 1 to 4
bytes with pages of 2 reaches partly used pages.  Three processes with one page
each are needed for two sharers to race while a third reference exists.
`UserTop`, `PGSIZE`, `KvmPages`, `ExecPages` bound sizes only.  Pages are
symmetric: the free list holds only junk pages and no property names one.
`MaxPid` bounds how many processes are ever made; 4 lets a slot be reused and a
third process be orphaned.

A pipe of two bytes with requests of three fills and empties in one call, and
`Wrap` = 4, twice PIPESIZE, makes the counters wrap while the ring holds
anything.  Two byte values tell an order from another.

In BufferCache two buffers for three sectors make every sector recyclable; both
processes can hold one and want the other's, or the shared one.  In FileSystem
three calls by two processes let a create, an unlink and a third call meet on one
inode number; one crash is enough, as the disk after it is one the run checks at
every instant.  Processes are symmetric there.  Two tries and a limit of two and
one calls let an old reply, an old request and an acknowledgement be in the
network beside the current ones; two threads let main serve one client while an
idle request of another sleeps.

`kernel_parts`: stride with 3 entries, max_stride 2, settickets(0) and (2), 4
pids and passes up to 6; 2 CPUs and 2 threads for the locks; 2 readers of a ring
of 2 with indices modulo 4, reads of 0 and 2; 2 slots, 3 files, 2 descriptors
and 1 pipe page; 2 files on 5 blocks of 2 cells with 1 direct pointer, reads and writes of
1 and 4 bytes, 3 calls, 1 crash.  Each resource is one short of what the calls
could use, so that every failure happens, and a ring or block holds more than
one thing.

`kernel_live`: 3 slots on 1 CPU, kill(2), sleep(1), 3 pids; 2 CPUs and 1 thread;
a ring of 1; 2 slots with 2 files.  Smaller, because temporal properties cost
more.

`programs`: 8 headers of 2 bytes, morecore of 3, malloc(0), (3), (6), a gap of 1;
0, 2 and 5 records with keys 1 and 2 for up to 3 threads (remainders, more
threads than records); 4 stages, 2 rounds, 2 bytes, pipes of 1 byte; images of 2
groups of 2 inodes in three layouts with all directories of up to two entries;
files of every size up to one block more than the pointers reach, with blocks of
3 bytes, 2 direct pointers and 3 in a block.

Deadlock is checked in the CowMemory and ProcTable runs; after a panic the
system stands still by design (`Halted`).  In the others processes that have
closed everything, programs that are done and bounds that are used up do stop.

Fairness.  ProcTable: every CPU executes its thread, gets a spin lock that is
free again and again, and keeps receiving timer interrupts: strong fairness of
the kernel's steps, of the end of a fork, of the timer with its wakeup, per
CPU.  The lock is a plain xchg loop (`spinlock.c:31`) that promises no order, so
this is an assumption about the hardware's arbitration, not about the code.
User code is not fair, except that init comes back to wait(), as `user/init.c`
does.  SpinLock has the same in parts: weak fairness of each CPU's steps, strong
of its exchange.  Pipe and Console: strong fairness of a process's steps inside
the kernel, which get a lock that is free again and again.  Nothing makes a
process call, close, kill or type.  OpenFiles: weak fairness of a process inside
a call.  BufferCache: weak fairness of each process's steps, of the drive and
its interrupt, and strong fairness of the release of each buffer, because every
function of fs.c comes to its brelse.  RPC: the receive's timer and the threads
(weak); nothing is asked of the network.  The user programs, the shell's
children included, run on (weak).

Every property has a mutant in `PROJECT.json`, a change of one definition as a
plausible bug would make it, under which TLC finds the property violated.

## Findings

1. `pgfltintr` (`vm.c:412-416`) reads the count and decrements it in separate
   critical sections: on two CPUs two sharers both copy, and the page's count
   reaches 0 without the page being freed (`cow_leak`).
2. The P8 server gives a thread the address of main's packet (`server.c:117`)
   and, for idle requests, receives the next one into it: a put is then served
   twice, and the second reply says done before there is a result (`rpc_race`).

### Known deviations

The following are further disagreements between the code and what one expects of
it.  Each is shown by TLC with a configuration that is kept here but is not one
of the runs:

| Configuration | Module | Violated | What happens |
|---|---|---|---|
| `CowIsolation.cfg` | MCCowMemory | `Isolation` | the kernel's own stores ignore copy-on-write: `vmenable` (`vm.c:159`) sets CR0_PG and not CR0_WP, so a read() into a shared page shows in the other process |
| `ProcBorn.cfg` | ProcTable | `BornAlive` | kill (`proc.c:397`) matches slots that are not in use, allocproc does not clear `killed`: a process is born killed |
| `PipeKill.cfg` | MCPipe | `KilledAwake` | a kill between piperead's test of `killed` and sleep (`pipe.c:104`) wakes nobody |
| `PipeFull.cfg` | MCPipe | `SleepsOnlyIfEmpty` | a killed writer gives up on a full pipe without waking readers (`pipe.c:83-86`) |
| `BufferError.cfg` | MCBufferCache | `HeldIsOnDisk` | after a disk error ideintr marks a buffer valid that has no data (`ide.c:105`) |
| `FileSystemDotdot.cfg` | MCFileSystem | `NoPanic` | `..` is no reference: after unlink of the parent's name a walk up reaches a free inode, and ilock panics |
| `Ext2Secret.cfg` | MCPrograms | `SecretRecovered` | a top_secret directory whose inode is the last of its group is looked up in the wrong place (`runscan.c:194`), against the comment of line 76 |

`ProcLiveSmp.cfg` (ProcTable) and `PipeSharers.cfg` (MCPipe) are larger
instances that pass: liveness on two CPUs, and three processes at one pipe.

Seen while reading, outside of the models: settickets above max_stride gives
stride 0, and `pass` overflows; the 101st RPC client finds no table entry and
index -1 is used (`server.c:33`); key = NUMKEYS passes the server's test;
create works in a current directory that has been removed; a crash between the
data of a new directory entry and the size of the directory leaves the entry
invisible; a pipe() that fails in smash leaves descriptors unset; runscan reads
one place past `inode_is_jpg`; a malloc request near 2^32 wraps.

## Proofs

All theorems hold for every value of the constants that satisfies the module's
`ConstantAssumptions`.  In each module there is one lemma per action, and in it
one step per part of the invariant the action can disturb.

`ProcTableProofs` proves, for any number of slots and CPUs, any pids and arguments:

- `TypeCorrect`: `Spec => []TypeOK`;
- `MutualExclusion`, `StackSafe`, `SchedNeverPanics`: one CPU per process, the
  kernel stack in use is allocated, sched()'s assertions;
- `SchedulingSafe`: `Spec => []SchedSafe`, their conjunction;
- `Inductive`: `IInv /\ [Next]_vars => IInv'`, from which these follow;
- `ParentsLive`: `Spec => []ParentAlive`, and `WakeupsArrive`:
  `Spec => []NoLostWakeup`.

None of the safety properties is inductive.  That a CPU does not run a
process another CPU runs depends on who holds `ptable.lock` while a process is
RUNNABLE but still on its CPU (`CpuInv`), on what a process off the CPUs looks
like (`OffCpuInv`: it has a stack and resumes where it switched away), on no
slot being handed out twice by fork (`ForkInv`), and on which lock a CPU holds
besides (`TicksInv`).  `IInv` is the conjunction.

The last two need more, `WaitInv`.  A parent stays alive because exit hands
the children over before it becomes a ZOMBIE, in the same critical section, and
because wait frees only a ZOMBIE, which has no child left (`FamilyInv`; initproc
has no parent and never exits).  A process in wait() sleeps, with its own
address as the channel, only without a ZOMBIE child; and one sleeping on ticks
whose time is up is paired with a tick whose wakeup is still to come
(`WakeInv`): the property looks at moments when `ptable.lock` is free, the
invariant says what holds while exit or the timer holds it.

`CowMemoryProofs` proves, for any processes, pages, page size, limits and, but
for `Exact`, any number of CPUs:

- `Safe`: `Spec => []SharingSafe`, and `Exact`: `Spec /\ NCPU = 1 => []MemoryExact`;
- `Isolated`: `Spec => IsolationFromUserStores`;
- `Copied`: `Spec => ForkCopies`;
- `Inductive`: `Spec => []IInv`, from which these follow.

`IInv` says of every page (`PageInv`): one that the kernel holds (a stack, a page
table, a page a fault or allocuvm has just got) is held once, mapped nowhere and
has count 1; of any other the count is the number of its mappings, in the page
tables in use and in those fork and exec are building, less the references that
cowuvm has mapped and not counted yet (`Uncounted`); a free page is mapped
nowhere, and a writable mapping is the only one.  That a decrement frees a page
only when its last mapping is gone follows because a process between mapping and
counting has the page mapped itself, so that a page with a mapping has a count
of at least 1 (`UncountedBound`, `MappedPage`).  `SlotInv` says that fork and
wait work on slots of their own, and `SizeInv` which pages are mapped at each
place inside sbrk, fork, exec and a page fault, which is where `sz` and the page
table disagree.  `FaultInv`, that a page to be copied is still shared when
pgfltintr decrements its count, holds only where no other fault can come in
between: the hypothesis `NCPU = 1` of `Exact` cannot be dropped, `cow_leak`
violates `RefCountsExact` with two CPUs.  Nothing else needs it.  Sums over the
page tables are counts of pairs (process, page): a step changes the pairs of one
page by one (the count lemmas at the head of the module) or gives a whole table
to another process (`Exchange`).  `Copied` uses `SizeInv`, by which the child's
table has at its end the frames of the parent's, and `OtherInv`: a process names
a slot only during its own fork or wait, so the parent of the child that becomes
runnable is the process whose fork makes it so.

`Rings` defines what the pipe and the console share: a buffer of P places and
indices that wrap at W, a multiple of P.  The lemmas about it are at the head of
`PipeProofs` and before the console in `KernelPartsProofs`, which needs more of them.  A part of it is a `Slice`; an element
put behind the last appends and overwrites none (`SliceAppend`, from
`ModDistinct`: indices less than P apart have different remainders), one taken
leaves the tail (`SliceTail`), two parts that follow each other are concatenated
(`SliceJoin`), and the wrap of an index does not show (`SliceWrap`, because P
divides W).  `Distance` gives the unsigned difference of two indices.

`PipeProofs` proves, for any processes, bytes, lengths and
sizes (PIPESIZE divides Wrap and is smaller, as 512 and 2^32):

- `TypeCorrect`: `Spec => []TypeOK`;
- `FreedUnused`: `Spec => []NoUseAfterFree`, from `IInv`: who holds `p->lock`
  (`LockInv`), that a process inside read or write has the end open and a closed
  end is open nowhere (`EndsInv`), and that one process at most closes an end,
  after the last reference is gone (`CloseInv`);
- `NeverLost`: `Spec => []NoLostWakeup`.  The property speaks of states in which
  the lock is free; between the byte a reader takes and the wakeup at its end
  writers do sleep over a pipe with room.  `WakeInv` says who may be the cause
  of that: a reader that copies, or, for sleeping readers, a writer that copies or
  goes to sleep, or one that was killed and gave up when they were asleep
  (`missed`; `MissedInv`: only after somebody was killed is anybody in it);
- `Refinement`: `Spec => ImplementsStream`.  `Contents` is the slice of the ring
  from nread to nwrite, and `Counting` says that Empty and Full compare their
  distance with 0 and PIPESIZE.  Two more invariants are needed: `RingInv`, the
  distance stays within PIPESIZE, and `CopyInv`, a reader that copies has
  something to return, which holds because it keeps `p->lock` from its test on.
  Each action of Pipe then maps to one action of ByteStream (`BeginMaps`,
  `TakeMaps`, `PutMaps`, `EndMaps`, `CloseMaps`, `KillMaps`) or to a stutter
  (`Silent`).

`BufferCacheProofs` proves, for any processes, buffers, sectors and contents:

- `TypeCorrect`: `Spec => []TypeOK`;
- `CacheIsExact`: `Spec => []CacheExact`, read errors included.  The queue is
  exact only because whoever calls iderw has a buffer that is not in sync, and
  whoever is in bget looks for a sector: `AskInv`.  Queues are treated through
  `In` and `Distinct` (`AppendNew`, `TailOld`);
- `CacheImplementsStore`: `~ReadErrors` implies `Spec => ImplementsSectorStore`.
  `DiskInv` relates buffers to the disk: one in sync has its sector's contents,
  one that a process has is in sync or dirty in that process's bwrite, no other
  is dirty, and what the drive has written is there.  The abstract `held` is a
  function with a domain that changes; `ViewPut` and `ViewDrop` say how a step on
  one buffer changes it, which needs that a sector is in one buffer only;
- `HeldOnDisk`: `~ReadErrors` implies `Spec => []HeldIsOnDisk`, which
  `BufferError.cfg` shows to be false with errors.

`RpcServiceProofs` proves, for any clients, calls, server threads, keys, table
size and number of retries:

- `ServerCorrect`: `Spec /\ ~SlowThreads => []ServerSound`;
- `Refinement`: `Spec /\ ~SlowThreads => ImplementsRemoteCall`;
- `Inductive`: `IInv /\ [Next]_vars => IInv'`.

The hypothesis is that a thread reads its packet before main receives the next
one.  It cannot be dropped: run `rpc_race` violates `FinalRepliesExact` without
it.  Under it one thread at most works on the packet besides those that idle
(`MainInv`), which is what keeps the unlocked table consistent: what a thread has
found in its entry is still there when it uses it (`ThreadOk`), and no two
threads execute requests of one client (`ThreadInv`).  `TableInv` and `AnswerInv`
tie the table to the history of executions: no call is skipped, none executed
before it is made, and an entry that says done has the result, but for a `result`
still to be written by a thread that main waits for.  Requests in the network are
of the client's current call or of earlier ones (`Sent`), which is why late ones
are harmless.  The abstract call of a client takes effect in the step that
enters its answer into the history: `Execute`, or `IdleDone` for idle
(`EffectRefines`); `Return` finds that answer in the reply (`FinalReply`), a
client that dies gives up (`ResendRefines`), everything else is a stutter.

`KernelPartsProofs` and, for the blocks of files, `FileBlocksProofs` prove, about the
specification that puts five parts of the kernels side by side and for every value
of their constants:

- `StrideExact`: `Spec => []StrideSound`.  P4 finds the entry of a process by an
  index (of the process that ran last) and by pid, and fork fills the entry of the
  child with a stretch in between where the timer may run other processes.  `PidInv`
  says that pids of used slots differ and lie below nextpid, `ForkInv` that a
  process whose fork has been interrupted owns its child, which nobody else
  touches or runs, and `EntryInv` that entries in use and processes that have
  got theirs correspond one to one.  `RunsAlone` follows from `CurrIsLast`: one CPU
  runs one process, and the index is its.  That fork's search
  finds a free entry (`SearchFinds`) needs the least element of a set (`Least`,
  by well-founded induction);
- `InputExact`: `Spec => []InputSound`.  `LockInv` and `SleepInv` say who holds
  input.lock and that who is about to sleep still has its reason; `LineInv`, that
  the line being typed has no end in it, is what makes C-U stop exactly at w
  (`KillLineMoves`).  The two parts of the ring are `Whole`, from r to w, and
  `Typed`, from w to e; each action changes these two lengths (`TypeMoves`,
  `BackspaceMoves`, `KillLineMoves`, `CharMoves`), and the comparison of e+1 with
  r+INPUT_BUF in unsigned arithmetic is that their sum is the size;
- `InputRefinement`: `Spec => ImplementsLineInput`.  The two slices are LineInput's
  `ready` and `line`.  A character that completes its line joins them
  (`TypeMaps`), C-U empties one (`KillLineMaps`), a read takes the head of the
  other, and an end of file that a read has to leave for the next is a stutter
  (`CharMaps`, with `CallInv`: a call has got what it asked for less what it has yet
  to get).

- `FilesExact`: `Spec => []FilesSound`.  `IInv` adds to the checked parts what a
  process has at each place of a call (`CallInv`), that a file which a call is
  still building is its own and is of nothing yet (`FreshInv`), and how far a
  child's descriptors have come while fork copies them (`ForkInv`).  The
  references to a file, to an end of a pipe and to the inode are counted over
  places (a descriptor of a process, a file that a process has dropped, an entry
  of the table); a step sets one place, empties one, or swaps what two hold, and
  the count then grows by one, shrinks by one or stays (`CountGains`,
  `CountLoses`, `CountSwap`).  `FilecloseCounts` does this once for the calls of
  fileclose, which close, exit and the error paths of open and pipe share.
- `SpinLocksExact`: `Spec => []LocksSound`, for any number of CPUs and threads.
  The program counter of this part is the rest of a path, a sequence.  `CodeInv`
  says that each rest is one the kernel's functions could have left: `Follows`
  names, for each kind of step, what may come behind it, and `Fine` asks that of
  every step of a path.  That the functions keep to it is proved once for each
  (`TimerQuiet`, `SleepQuiet`, `CallsQuiet`, ...).  `RunInv` says that a thread which
  no CPU runs is behind its swtch in sched() or new, `OwnerInv` that the note of the
  owner is right but for the steps next to the exchange, and `FlagInv` relates the
  interrupt flag, `intena` and what sched() has saved to whether the thread was
  interrupted.  A step concerns one lock of one CPU: the views of the other locks and
  CPUs stay (`OthersSame`), and the invariant follows from the few facts of that
  CPU (`StepDone`).  `ncli` is the cardinality of `Cleared`, the locks whose
  pushcli has no popcli yet.  swtch is the exception: the holder of ptable.lock
  becomes another path on the same CPU (`ThreadLeaves`, `DispatchKeepsLocks`), and what
  that path sees of its lock is the same (`KeeperSame`).
- `BlocksExact`: `Spec => []BlocksSound`, and `WritesExact`: `Spec => WriteExact`, for
  blocks, disks and files of any size and any numbers of crashes.  `OwnerInv` gives
  each used block to one file at most (`Had`): the blocks that its pointers reach,
  one that bmap has taken but not yet written the pointer of, or, in itrunc,
  those it has still to free.  A step of one file can then hand over blocks only
  between that file and the free ones (`Trades`), and whatever it writes, the
  pointers and bytes of the others stay (`SamePtrs`, `SameBytes`).  `InodeInv` says that
  the inode on the disk lacks no pointer below the size; this is why a crash
  leaves the contents from before, why a read never allocates (`HoleIsNew`), and
  why writei need not write the inode when the file has not grown.  `WriteInv` and
  `ReadInv` say which bytes are done; that a step does exactly the next ones of
  one block is division with remainder (`BlockOfByte`, `SameBlock`, `BytesAfter`).
  A new indirect block has no pointers because free blocks are zero (`PtrAdded`, with
  `FreeIsZero`, which is part of the invariant).  An invariant of one file is
  stated as a predicate of its part of the state (`FileOk`, `HadOf`), so that the proof
  of an action speaks of one inode and one call before and after.

`ProgramsProofs` proves, about the specification that puts the user programs
side by side and for every value of their constants:

- `PipelineExact`: `Spec => []ShellSound`.  A child is where `ChildInv` says, with
  the ends of pipes that belong to that place, whoever of its neighbours has
  failed.  That the shell waits for exactly its children is a count: those not
  yet waited for (`UnreapedForked`, `UnreapedReaped`) are as many as the calls of
  wait that are left, so no call of wait fails and none is left over;
- `SortExact`: `Spec => []SortSound`, for any number of records and threads,
  more threads than records included.  `StackOk` says of an actor's calls that the
  ranges of two of them are apart or one is a half of the other's, and that each
  half a merge is to read is sorted by now, or there is a call above it on the
  stack with exactly that range (`Prepared`).  A call that splits hands its range on
  (`StackSplit`), one that works changes its range only (`StackTop`), and one that
  returns leaves it sorted, which is what its caller waited for (`StackPop`).
  merge itself is `MergeMoves`, `MergeMoved`, `MergeCopies`: what is in temp
  precedes what is left in both halves (`NextPrecedes`, where equal keys are taken
  from the left).  The segments follow each other without overlap (`Segments`), so
  that nobody's step matters to another thread (`StackElsewhere`), and main's merges
  begin from a stack in which each merge sorts the left half of the next
  (`MainMerges`).

- `PicturesExact`: `Spec => []PicturesRecovered`, for any number of groups and of
  inodes in them, any names, files of any size and any numbers of pointers in a
  block: `Recovered` with its cases and `CopyExact`.  Of the image it is assumed that no
  directory has a name twice (`NamesDiffer`).
  The scan goes over the inode tables, then over the directories, once or, when
  a directory top_secret was found, over that one: `ScanInv` says
  which pictures have a file by then, `NamesInv` which names it has (`CalledSoFar`),
  `SecretInv` which of the files are still there.  The copy is exact because the
  blocks it has written are the first ones of the file (`InOrder`) and its three
  pointers are at the next (`AtNext`), which is arithmetic of the three nested
  ranges (`BlocksOf`, `PlacesInOrder`).

- `HeapExact`: `Spec => []HeapSound`, and `FailsExact`: `Spec => FailsOnlyIfNone`,
  for memory of any size, any header size and any order of calls.  Both properties
  speak of the list that free and malloc walk, and a walk is a poor thing to do
  induction over; `IInv` does without it.  A block begins where a size is, and the
  blocks so found lie one after another and make up what came from sbrk (`Packed`,
  kept by `Joined`, `Split` and `Grown`); the free ones are those that neither the
  program nor free has (`Idle`).  On these the next fields are one circle in the order
  of addresses (`Ring`), from which a block is taken (`RingDrop`) or to which one is
  added (`RingAdd`).  The last step of free joins bp with both neighbours at once:
  its proof goes through the state between the two joins (`Linked`), in which only p
  and bp may still touch.  That the walk meets all of `Idle` and comes back to base is
  `WalkReaches`, from least and greatest counterexamples.  malloc fails only for a
  reason because a search has passed the blocks between freep and p on the circle,
  which are all too small (`Passed`, kept by `SearchGoesOn`); when it is back at
  freep, that is every block (`SearchEnds`).

Model-checked only: the liveness properties (`ENABLED` and fairness are outside
of what the prover handles), the two runs that expect a violation, and
everything about FileSystem: what is on the disk after a crash anywhere in a call
(`DiskConsistent`), what its calls leave behind (`CallsSound`), and `NoDeadlock`.
`CallsSound` does not hold for all constants, `FileSystemDotdot.cfg` breaks it with
paths through `..`: a theorem would need an assumption on the paths that programs
use, next to an invariant of calls that hold several inodes at once, and that is
not attempted.

## Not modelled

- Boot, interrupt controllers, serial port and keyboard registers
  (`kernel/bootmain.c`, `mp.c`, `lapic.c`, `ioapic.c`, ...): hardware programming
  by one CPU, without a protocol among actors.
- System call arguments (`kernel/syscall.c`): sequential tests of bounds against
  `proc->sz`, whose meaning `SizeMapped` states.
- ELF parsing and the argument stack in exec, loaduvm and copyout: they write
  pages only the caller has.
- Devices (mknod, readi and writei of a device), a full inode cache, path
  parsing character by character.
- `cgaputc`, number formatting, procdump: output.
- `tools/mkfs.c`: off line; the images FileSystem starts from have its form.
- `user/sh.c` and the test programs: users of the calls modelled here.
- The copies of P5's code in P2 and P4, P4's getpinfo, and P2's getnextpid and
  getprocstate: the same code, or read-only.
- P1: option and file parsing of one process.
- P3's parser and its cd and pwd; P6's mapping of files; P7's super block, group
  descriptors, the layout of directory entries and the details files: conversions
  of data without states that matter to the properties.
