----------------------------- MODULE OpenFiles -----------------------------
(***************************************************************************)
(* Open files of the P5 kernel: the table of kernel/file.c (filealloc,     *)
(* filedup, fileclose) under the calls that share its entries among        *)
(* processes: dup, close, open and pipe (kernel/sysfile.c, with pipealloc  *)
(* and pipeclose of kernel/pipe.c), fork and exit (kernel/proc.c).         *)
(*                                                                         *)
(* A step is one critical section of ftable.lock, p->lock, ptable.lock or  *)
(* the inode cache, with the code up to the next one, which touches only   *)
(* what is the process's own: its descriptors, a file nobody else refers   *)
(* to yet, a child that does not run yet.                                  *)
(* The bytes in a pipe are in Pipe, the inodes in FileSystem; here one     *)
(* inode stands for all, and what counts is who refers to it.              *)
(***************************************************************************)
EXTENDS Naturals, FiniteSets

CONSTANTS
  Procs,     \* slots of the process table
  InitProc,  \* the process that never exits
  NoProc,    \* no child
  Files,     \* ftable.file: NFILE entries
  NoFile,    \* a null struct file pointer
  NOFILE,    \* descriptors of a process
  Pipes      \* pages that pipes may get

ConstantAssumptions ==
  /\ InitProc \in Procs /\ NoProc \notin Procs /\ NoFile \notin Files
  /\ IsFiniteSet(Files) /\ IsFiniteSet(Procs) /\ NOFILE \in Nat

VARIABLES
  ref,     \* f->ref
  type,    \* f->type with what the file is of: Nothing, Inode, an end of a pipe
  ofile,   \* p->ofile
  state,   \* p->state: "UNUSED", "EMBRYO", "LIVE" or "ZOMBIE"
  open,    \* readopen and writeopen of each pipe, as a set of ends
  iref,    \* references to the inode
  pc,      \* where a process is in its call
  next,    \* the descriptor that the loop of fork is at
  child,   \* the child that fork makes
  rf, wf,  \* local pointers of open (f) and pipe (rf, wf)
  last,    \* the copy ff of the file that a call has closed
  panicked

local == <<next, child, rf, wf, last>>
vars  == <<ref, type, ofile, state, open, iref, pc, next, child, rf, wf, last, panicked>>

Nothing     == <<"FD_NONE">>
Inode       == <<"FD_INODE">>
End(r, e)   == <<"FD_PIPE", r, e>>
Ends        == {"r", "w"}
Types       == {Nothing, Inode} \cup {End(r, e) : r \in Pipes, e \in Ends}
Descriptors == 0 .. NOFILE - 1
Pcs         == {"user", "drop", "open", "open_bad", "pipe_file", "pipe_page", "bad_rf",
                "bad_wf", "drop_rf", "fork_mem", "fork_files", "exit", "exit_drop", "exit_end"}

-----------------------------------------------------------------------------
At(p, l)   == pc[p] = l /\ state[p] = "LIVE" /\ ~panicked
Goto(p, l) == pc' = [pc EXCEPT ![p] = l]

FreeFds(p) == {fd \in Descriptors : ofile[p][fd] = NoFile}
OpenFds(p) == Descriptors \ FreeFds(p)
Lowest(S)  == CHOOSE fd \in S : \A other \in S : fd <= other

(* filealloc finds an entry, or none.                                      *)
Filealloc(f) ==
  /\ ref[f] = 0
  /\ ref' = [ref EXCEPT ![f] = 1]
TableFull == \A f \in Files : ref[f] # 0

Filedup(f) ==
  /\ panicked' = (ref[f] < 1)
  /\ ref' = [ref EXCEPT ![f] = @ + 1]

(***************************************************************************)
(* fileclose up to the end of its critical section: the last reference     *)
(* frees the entry and, when the file is of something, drops that next.    *)
(***************************************************************************)
Fileclose(p, f, returns, drops) ==
  /\ panicked' = (ref[f] < 1)
  /\ IF ref[f] > 1
     THEN ref' = [ref EXCEPT ![f] = @ - 1] /\ Goto(p, returns) /\ UNCHANGED <<type, last>>
     ELSE /\ ref' = [ref EXCEPT ![f] = 0]
          /\ type' = [type EXCEPT ![f] = Nothing]
          /\ last' = [last EXCEPT ![p] = type[f]]
          /\ Goto(p, IF type[f] = Nothing THEN returns ELSE drops)

\* Mutant: the writer's end is not closed.
DroppedSwapped(t) ==
  IF t = Inode THEN iref' = iref - 1 /\ UNCHANGED open
  ELSE /\ open' = [open EXCEPT ![t[2]] = IF t[3] = "w" THEN @ ELSE @ \ {t[3]}]
       /\ UNCHANGED iref

(* The rest of fileclose: iput, or pipeclose, which frees the page when    *)
(* neither end is open any more.                                           *)
Dropped(t) ==
  IF t = Inode THEN iref' = iref - 1 /\ UNCHANGED open
  ELSE open' = [open EXCEPT ![t[2]] = @ \ {t[3]}] /\ UNCHANGED iref

Drop(p) ==
  /\ \/ At(p, "drop") /\ Goto(p, "user")
     \/ At(p, "drop_rf") /\ Goto(p, "bad_wf")
     \/ At(p, "exit_drop") /\ Goto(p, "exit")
  /\ Dropped(last[p])
  /\ last' = [last EXCEPT ![p] = Nothing]
  /\ UNCHANGED <<ref, type, ofile, state, next, child, rf, wf, panicked>>

-----------------------------------------------------------------------------
(* dup: the new descriptor, then the reference.                            *)
Dup(p) ==
  \E fd \in OpenFds(p) :
  /\ At(p, "user") /\ FreeFds(p) # {}
  /\ ofile' = [ofile EXCEPT ![p][Lowest(FreeFds(p))] = ofile[p][fd]]
  /\ Filedup(ofile[p][fd])
  /\ UNCHANGED <<type, state, open, iref, pc, local>>

(* close: the descriptor is freed before the file.                         *)
Close(p) ==
  \E fd \in OpenFds(p) :
  /\ At(p, "user")
  /\ ofile' = [ofile EXCEPT ![p][fd] = NoFile]
  /\ Fileclose(p, ofile[p][fd], "user", "drop")
  /\ UNCHANGED <<state, open, iref, next, child, rf, wf>>

-----------------------------------------------------------------------------
(***************************************************************************)
(* open: create or namei give it a reference to the inode, then it needs   *)
(* an entry and a descriptor, or puts back what it has.                    *)
(***************************************************************************)
Open(p) ==
  /\ At(p, "user")
  /\ iref' = iref + 1
  /\ Goto(p, "open")
  /\ UNCHANGED <<ref, type, ofile, state, open, local, panicked>>

OpenFile(p) ==
  \E f \in Files :
  /\ At(p, "open") /\ FreeFds(p) # {}
  /\ Filealloc(f)
  /\ type' = [type EXCEPT ![f] = Inode]
  /\ ofile' = [ofile EXCEPT ![p][Lowest(FreeFds(p))] = f]
  /\ Goto(p, "user")
  /\ UNCHANGED <<state, open, iref, local, panicked>>

OpenNoFile(p) ==
  /\ At(p, "open") /\ TableFull
  /\ Goto(p, "drop")
  /\ last' = [last EXCEPT ![p] = Inode]
  /\ UNCHANGED <<ref, type, ofile, state, open, iref, next, child, rf, wf, panicked>>

(* No descriptor: the entry is closed again, then iunlockput.              *)
OpenNoFd(p) ==
  \E f \in Files :
  /\ At(p, "open") /\ FreeFds(p) = {}
  /\ Filealloc(f)
  /\ rf' = [rf EXCEPT ![p] = f]
  /\ Goto(p, "open_bad")
  /\ UNCHANGED <<type, ofile, state, open, iref, next, child, wf, last, panicked>>

OpenBad(p) ==
  /\ At(p, "open_bad")
  /\ panicked' = (ref[rf[p]] < 1)
  /\ ref' = [ref EXCEPT ![rf[p]] = 0]
  /\ rf' = [rf EXCEPT ![p] = NoFile]
  /\ last' = [last EXCEPT ![p] = Inode]
  /\ Goto(p, "drop")
  /\ UNCHANGED <<type, ofile, state, open, iref, next, child, wf>>

-----------------------------------------------------------------------------
(***************************************************************************)
(* pipe: an entry for each end and a page, or what there is of them is put *)
(* back.  A step for each of filealloc, filealloc and kalloc.              *)
(***************************************************************************)
PipeRead(p) ==
  \E f \in Files :
  /\ At(p, "user")
  /\ Filealloc(f)
  /\ rf' = [rf EXCEPT ![p] = f]
  /\ Goto(p, "pipe_file")
  /\ UNCHANGED <<type, ofile, state, open, iref, next, child, wf, last, panicked>>

PipeWrite(p) ==
  \E f \in Files :
  /\ At(p, "pipe_file")
  /\ Filealloc(f)
  /\ wf' = [wf EXCEPT ![p] = f]
  /\ Goto(p, "pipe_page")
  /\ UNCHANGED <<type, ofile, state, open, iref, next, child, rf, last, panicked>>

PipeNoFile(p) ==
  /\ At(p, "pipe_file") /\ TableFull
  /\ Goto(p, "bad_rf")
  /\ UNCHANGED <<ref, type, ofile, state, open, iref, local, panicked>>

PipeNoPage(p) ==
  /\ At(p, "pipe_page")
  /\ Goto(p, "bad_rf")
  /\ UNCHANGED <<ref, type, ofile, state, open, iref, local, panicked>>

(* A page: the files become the ends of a pipe, and get descriptors when   *)
(* there are two.                                                          *)
PipePage(p) ==
  \E r \in Pipes :
  /\ At(p, "pipe_page") /\ open[r] = {}
  /\ open' = [open EXCEPT ![r] = Ends]
  /\ type' = [type EXCEPT ![rf[p]] = End(r, "r"), ![wf[p]] = End(r, "w")]
  /\ IF Cardinality(FreeFds(p)) < 2
     THEN Goto(p, "bad_rf") /\ UNCHANGED <<ofile, rf, wf>>
     ELSE LET fd0 == Lowest(FreeFds(p))
              fd1 == Lowest(FreeFds(p) \ {fd0})
          IN /\ ofile' = [ofile EXCEPT ![p] = [@ EXCEPT ![fd0] = rf[p], ![fd1] = wf[p]]]
             /\ rf' = [rf EXCEPT ![p] = NoFile]
             /\ wf' = [wf EXCEPT ![p] = NoFile]
             /\ Goto(p, "user")
  /\ UNCHANGED <<ref, state, iref, next, child, last, panicked>>

\* Mutant: the entry of the writer's end is not closed.
BadRfOnly(p) ==
  /\ At(p, "bad_rf")
  /\ Fileclose(p, rf[p], "user", "drop")
  /\ rf' = [rf EXCEPT ![p] = NoFile]
  /\ wf' = [wf EXCEPT ![p] = NoFile]
  /\ UNCHANGED <<ofile, state, open, iref, next, child>>

(* fileclose(rf), then fileclose(wf) if there is one.                      *)
BadRf(p) ==
  /\ At(p, "bad_rf")
  /\ Fileclose(p, rf[p], IF wf[p] = NoFile THEN "user" ELSE "bad_wf", "drop_rf")
  /\ rf' = [rf EXCEPT ![p] = NoFile]
  /\ UNCHANGED <<ofile, state, open, iref, next, child, wf>>

BadWf(p) ==
  /\ At(p, "bad_wf")
  /\ Fileclose(p, wf[p], "user", "drop")
  /\ wf' = [wf EXCEPT ![p] = NoFile]
  /\ UNCHANGED <<ofile, state, open, iref, next, child, rf>>

-----------------------------------------------------------------------------
(***************************************************************************)
(* fork: allocproc takes a slot; without memory it is given back.  Then a  *)
(* filedup for every open descriptor, and idup for the working directory.  *)
(***************************************************************************)
Fork(p) ==
  \E c \in Procs :
  /\ At(p, "user") /\ state[c] = "UNUSED"
  /\ state' = [state EXCEPT ![c] = "EMBRYO"]
  /\ child' = [child EXCEPT ![p] = c]
  /\ Goto(p, "fork_mem")
  /\ UNCHANGED <<ref, type, ofile, open, iref, next, rf, wf, last, panicked>>

ForkMemory(p) ==
  /\ At(p, "fork_mem")
  /\ Goto(p, "fork_files")
  /\ UNCHANGED <<ref, type, ofile, state, open, iref, local, panicked>>

ForkNoMemory(p) ==
  /\ At(p, "fork_mem")
  /\ state' = [state EXCEPT ![child[p]] = "UNUSED"]
  /\ child' = [child EXCEPT ![p] = NoProc]
  /\ Goto(p, "user")
  /\ UNCHANGED <<ref, type, ofile, open, iref, next, rf, wf, last, panicked>>

ToCopy(p) == {fd \in OpenFds(p) : fd >= next[p]}

ForkFile(p) ==
  /\ At(p, "fork_files") /\ ToCopy(p) # {}
  /\ LET fd == Lowest(ToCopy(p)) IN
     /\ Filedup(ofile[p][fd])
     /\ ofile' = [ofile EXCEPT ![child[p]][fd] = ofile[p][fd]]
     /\ next' = [next EXCEPT ![p] = fd + 1]
  /\ UNCHANGED <<type, state, open, iref, pc, child, rf, wf, last>>

ForkDone(p) ==
  /\ At(p, "fork_files") /\ ToCopy(p) = {}
  /\ iref' = iref + 1
  /\ state' = [state EXCEPT ![child[p]] = "LIVE"]
  /\ child' = [child EXCEPT ![p] = NoProc]
  /\ next' = [next EXCEPT ![p] = 0]
  /\ Goto(p, "user")
  /\ UNCHANGED <<ref, type, ofile, open, rf, wf, last, panicked>>

(***************************************************************************)
(* exit, by a process that asks for it or has been killed: it closes what  *)
(* is open, puts its working directory, and is a ZOMBIE until it is        *)
(* waited for.                                                             *)
(***************************************************************************)
Exit(p) ==
  /\ At(p, "user") /\ p # InitProc
  /\ Goto(p, "exit")
  /\ UNCHANGED <<ref, type, ofile, state, open, iref, local, panicked>>

ExitClose(p) ==
  /\ At(p, "exit") /\ OpenFds(p) # {}
  /\ LET fd == Lowest(OpenFds(p)) IN
     /\ Fileclose(p, ofile[p][fd], "exit", "exit_drop")
     /\ ofile' = [ofile EXCEPT ![p][fd] = NoFile]
  /\ UNCHANGED <<state, open, iref, next, child, rf, wf>>

ExitCwd(p) ==
  /\ At(p, "exit") /\ OpenFds(p) = {}
  /\ iref' = iref - 1
  /\ Goto(p, "exit_end")
  /\ UNCHANGED <<ref, type, ofile, state, open, local, panicked>>

ExitDone(p) ==
  /\ At(p, "exit_end")
  /\ state' = [state EXCEPT ![p] = "ZOMBIE"]
  /\ Goto(p, "user")
  /\ UNCHANGED <<ref, type, ofile, open, iref, local, panicked>>

(* wait, by the parent: the slot is free again.  The descriptors are left  *)
(* as they are.                                                            *)
Wait(p) ==
  /\ state[p] = "ZOMBIE" /\ ~panicked
  /\ state' = [state EXCEPT ![p] = "UNUSED"]
  /\ UNCHANGED <<ref, type, ofile, open, iref, pc, local, panicked>>

-----------------------------------------------------------------------------
Init ==
  /\ ref = [f \in Files |-> 0]
  /\ type = [f \in Files |-> Nothing]
  /\ ofile = [p \in Procs |-> [fd \in Descriptors |-> NoFile]]
  /\ state = [p \in Procs |-> IF p = InitProc THEN "LIVE" ELSE "UNUSED"]
  /\ open = [r \in Pipes |-> {}]
  /\ iref = 1
  /\ pc = [p \in Procs |-> "user"]
  /\ next = [p \in Procs |-> 0]
  /\ child = [p \in Procs |-> NoProc]
  /\ rf = [p \in Procs |-> NoFile]
  /\ wf = [p \in Procs |-> NoFile]
  /\ last = [p \in Procs |-> Nothing]
  /\ panicked = FALSE

(* What a process does on its way out of a call, without a choice left to  *)
(* the program it runs.                                                    *)
Kernel(p) ==
  \/ Drop(p) \/ OpenFile(p) \/ OpenNoFile(p) \/ OpenNoFd(p) \/ OpenBad(p)
  \/ PipeWrite(p) \/ PipeNoFile(p) \/ PipeNoPage(p) \/ PipePage(p)
  \/ BadRf(p) \/ BadWf(p)
  \/ ForkMemory(p) \/ ForkNoMemory(p) \/ ForkFile(p) \/ ForkDone(p)
  \/ ExitClose(p) \/ ExitCwd(p) \/ ExitDone(p)

Next == \E p \in Procs :
  \/ Dup(p) \/ Close(p) \/ Open(p) \/ PipeRead(p) \/ Fork(p) \/ Exit(p) \/ Wait(p)
  \/ Kernel(p)

Spec == Init /\ [][Next]_vars

(* A process in the kernel is scheduled.                                   *)
FairSpec == Spec /\ \A p \in Procs : WF_vars(Kernel(p))

-----------------------------------------------------------------------------
TypeOK ==
  /\ ref \in [Files -> Nat] /\ type \in [Files -> Types]
  /\ ofile \in [Procs -> [Descriptors -> Files \cup {NoFile}]]
  /\ state \in [Procs -> {"UNUSED", "EMBRYO", "LIVE", "ZOMBIE"}]
  /\ open \in [Pipes -> SUBSET Ends] /\ iref \in Nat
  /\ pc \in [Procs -> Pcs]
  /\ next \in [Procs -> 0 .. NOFILE] /\ child \in [Procs -> Procs \cup {NoProc}]
  /\ rf \in [Procs -> Files \cup {NoFile}] /\ wf \in [Procs -> Files \cup {NoFile}]
  /\ last \in [Procs -> Types]
  /\ panicked \in BOOLEAN

(* The references to a file: descriptors, also those of a child in the     *)
(* making, and the pointers of a running open or pipe.                     *)
Holders(f) ==
  {h \in Procs \X {"ofile"} \X Descriptors : ofile[h[1]][h[3]] = f} \cup
  {h \in Procs \X {"rf"} \X {0} : rf[h[1]] = f} \cup
  {h \in Procs \X {"wf"} \X {0} : wf[h[1]] = f}

(* The references to the inode: files, working directories (a process has  *)
(* one from the end of fork to the last steps of exit), calls to open under way   *)
(* and closed files whose iput is to come.                                 *)
InodeHolders ==
  {h \in {"file"} \X Files : type[h[2]] = Inode} \cup
  {h \in {"cwd"} \X Procs : state[h[2]] = "LIVE" /\ pc[h[2]] # "exit_end"} \cup
  {h \in {"call"} \X Procs : pc[h[2]] \in {"open", "open_bad"} \/ last[h[2]] = Inode}

\* What an open end of a pipe rests on: a file, or a close that will drop it.
EndHolders(r, e) ==
  {h \in {"file"} \X Files : type[h[2]] = End(r, e)} \cup
  {h \in {"call"} \X Procs : last[h[2]] = End(r, e)}

\* f->ref is what filedup and fileclose take it for: as many as there are
\* pointers to f.  So an entry is in use exactly while something refers to
\* it, no open file is given out twice, and "filedup" and "fileclose"
\* (file.c:43, file.c:58) do not panic.
RefsExact ==
  /\ ~panicked
  /\ \A f \in Files : ref[f] = Cardinality(Holders(f))
  /\ iref = Cardinality(InodeHolders)

\* An end of a pipe is open exactly while one file, or the close of one, is
\* left of it; so pipeclose clears each end once and the page of a pipe is
\* freed by the later of the two (pipe.c:68), whichever calls fail half way.
EndsExact == \A r \in Pipes, e \in Ends :
  /\ e \in open[r] <=> EndHolders(r, e) # {}
  /\ Cardinality(EndHolders(r, e)) <= 1

\* read, write and fstat of an open descriptor find a file of something
\* ("fileread", file.c:104), and an unused slot has no descriptors left over:
\* allocproc does not clear them and fork copies only those in use.
DescriptorsSound == \A p \in Procs :
  /\ \A fd \in OpenFds(p) : type[ofile[p][fd]] # Nothing
  /\ state[p] \in {"UNUSED", "ZOMBIE"} => OpenFds(p) = {}

(***************************************************************************)
(* The inductive invariant: what a process has at each place of a call,    *)
(* that a file that a call still builds is nobody else's, and how far the  *)
(* descriptors of a child in the making have come.                         *)
(***************************************************************************)
CallInv == \A p \in Procs :
  /\ state[p] # "LIVE" => pc[p] = "user"
  /\ rf[p] # NoFile <=> pc[p] \in {"open_bad", "pipe_file", "pipe_page", "bad_rf"}
  /\ wf[p] # NoFile => pc[p] \in {"pipe_page", "bad_rf", "drop_rf", "bad_wf"}
  /\ pc[p] \in {"pipe_page", "drop_rf", "bad_wf"} => wf[p] # NoFile
  /\ last[p] # Nothing <=> pc[p] \in {"drop", "drop_rf", "exit_drop"}
  /\ child[p] # NoProc <=> pc[p] \in {"fork_mem", "fork_files"}
  /\ next[p] # 0 => pc[p] = "fork_files"
  /\ pc[p] = "exit_end" => OpenFds(p) = {}

FreshInv ==
  /\ \A f \in Files : ref[f] = 0 => type[f] = Nothing
  /\ \A p \in Procs :
       /\ rf[p] # NoFile => ref[rf[p]] = 1
       /\ wf[p] # NoFile => ref[wf[p]] = 1
       /\ rf[p] # NoFile /\ (pc[p] # "bad_rf" \/ wf[p] = NoFile) => type[rf[p]] = Nothing
       /\ pc[p] = "pipe_page" => type[wf[p]] = Nothing

ForkInv == \A p \in Procs : child[p] # NoProc =>
  /\ state[child[p]] = "EMBRYO"
  /\ \A q \in Procs : child[q] = child[p] => q = p
  /\ \A fd \in Descriptors : fd >= next[p] => ofile[child[p]][fd] = NoFile

IInv == TypeOK /\ RefsExact /\ EndsExact /\ DescriptorsSound /\ CallInv /\ FreshInv /\ ForkInv

\* End of file arrives: an end no descriptor refers to any more is closed,
\* or opened anew by the next pipe (piperead returns when writeopen is 0,
\* pipe.c:103).
Referred(r, e) == \E p \in Procs : \E fd \in OpenFds(p) : type[ofile[p][fd]] = End(r, e)
EndsClose == \A r \in Pipes, e \in Ends :
  e \in open[r] /\ ~Referred(r, e) ~> e \notin open[r] \/ Referred(r, e)
=============================================================================
