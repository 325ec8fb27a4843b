--------------------------- MODULE SmashPipeline ---------------------------
(***************************************************************************)
(* The P3 shell (smash.c) running a pipeline: it makes the pipes, forks a  *)
(* child for each stage, closes its own ends and waits for the children it *)
(* counted, once for each round of `loop`.  A child puts its ends of the   *)
(* pipes in place of its standard input and output, closes the others and  *)
(* executes its program.                                                   *)
(*                                                                         *)
(* The programs are not part of the shell: they are filters, which copy    *)
(* some of what they read until the end of file and then exit, or stop     *)
(* earlier; the first stage makes up to MaxBytes bytes.  Pipes behave as   *)
(* POSIX has it: a read of an empty pipe returns end of file, and a write  *)
(* kills the writer, once nobody has the other end.  pipe() does not fail. *)
(***************************************************************************)
EXTENDS Naturals, FiniteSets

CONSTANTS
  MaxStages,  \* stages of a pipeline
  MaxLoops,   \* rounds of a loop command
  MaxBytes,   \* bytes that the first stage makes
  PipeBytes   \* bytes a pipe holds

ConstantAssumptions ==
  {MaxStages, MaxLoops, MaxBytes, PipeBytes} \subseteq Nat \ {0}

VARIABLES
  sh,          \* where the shell is
  num_pipes,   \* pipes of this command
  loop_cnt,    \* rounds left
  idx,         \* pipe_cmd_idx
  cnt,         \* child_process_cnt
  child,       \* the child of each stage
  pipefds,     \* ends that the shell and the children have in pipefds
  in, out,     \* standard input and output of the children
  bytes,       \* bytes in each pipe
  todo         \* bytes a program has yet to write

shell == <<sh, num_pipes, loop_cnt, idx, cnt>>
io    == <<pipefds, in, out>>
vars  == <<sh, num_pipes, loop_cnt, idx, cnt, child, pipefds, in, out, bytes, todo>>

Stages  == 0 .. MaxStages - 1
Pipes   == 0 .. MaxStages - 2
Shell   == MaxStages
R(i)    == <<i, "r">>
W(i)    == <<i, "w">>
Ends(n) == {R(i) : i \in 0 .. n - 1} \cup {W(i) : i \in 0 .. n - 1}
Std     == <<MaxStages, "std">>   \* the terminal
File    == <<MaxStages, "file">>  \* where output is redirected to

Alive == {"forked", "placed", "closed", "running"}

-----------------------------------------------------------------------------
Holds(x, e) == e \in pipefds[x] \/ (x \in Stages /\ (in[x] = e \/ out[x] = e))
Held(e)     == \E x \in Stages \cup {Shell} : Holds(x, e)

(* A process that exits has nothing open any more; it can be waited for.   *)
Exited(k) ==
  /\ child' = [child EXCEPT ![k] = "zombie"]
  /\ pipefds' = [pipefds EXCEPT ![k] = {}]
  /\ in' = [in EXCEPT ![k] = Std]
  /\ out' = [out EXCEPT ![k] = Std]
  /\ todo' = [todo EXCEPT ![k] = 0]

-----------------------------------------------------------------------------
(* getline and the split by ';': a command with its loop count and stages, *)
(* or "exit" and the end of the input.                                     *)
ReadCommand ==
  \E n \in 0 .. MaxStages - 1, rounds \in 1 .. MaxLoops :
  /\ sh = "prompt"
  /\ sh' = "round"
  /\ num_pipes' = n
  /\ loop_cnt' = rounds
  /\ UNCHANGED <<idx, cnt, child, io, bytes, todo>>

Exit ==
  /\ sh = "prompt"
  /\ sh' = "exited"
  /\ UNCHANGED <<num_pipes, loop_cnt, idx, cnt, child, io, bytes, todo>>

(* A round of the command: the pipes, nothing launched yet.                *)
MakePipes ==
  /\ sh = "round" /\ loop_cnt > 0
  /\ loop_cnt' = loop_cnt - 1
  /\ pipefds' = [pipefds EXCEPT ![Shell] = Ends(num_pipes)]
  /\ bytes' = [i \in Pipes |-> 0]
  /\ idx' = 0 /\ cnt' = 0
  /\ sh' = "launch"
  /\ UNCHANGED <<num_pipes, child, in, out, todo>>

CommandDone ==
  /\ sh = "round" /\ loop_cnt = 0
  /\ sh' = "prompt"
  /\ UNCHANGED <<num_pipes, loop_cnt, idx, cnt, child, io, bytes, todo>>

(* The next stage is forked.                                               *)
Fork ==
  /\ sh = "launch" /\ idx <= num_pipes
  /\ child' = [child EXCEPT ![idx] = "forked"]
  /\ pipefds' = [pipefds EXCEPT ![idx] = pipefds[Shell]]
  /\ cnt' = cnt + 1
  /\ idx' = idx + 1
  /\ UNCHANGED <<sh, num_pipes, loop_cnt, in, out, bytes, todo>>

\* Mutant: a child that could not be forked is counted.
ForkFailsCounted ==
  /\ sh = "launch" /\ idx <= num_pipes
  /\ idx' = idx + 1
  /\ cnt' = cnt + 1
  /\ UNCHANGED <<sh, num_pipes, loop_cnt, child, io, bytes, todo>>

(* fork fails: the other stages are launched all the same.                 *)
ForkFails ==
  /\ sh = "launch" /\ idx <= num_pipes
  /\ idx' = idx + 1
  /\ UNCHANGED <<sh, num_pipes, loop_cnt, cnt, child, io, bytes, todo>>

(* The program does not exist or its redirection is malformed: this stage  *)
(* and those after it are not launched.                                    *)
LaunchBreaks ==
  /\ sh = "launch" /\ idx <= num_pipes
  /\ sh' = "close"
  /\ UNCHANGED <<num_pipes, loop_cnt, idx, cnt, child, io, bytes, todo>>

LaunchDone ==
  /\ sh = "launch" /\ idx > num_pipes
  /\ sh' = "close"
  /\ UNCHANGED <<num_pipes, loop_cnt, idx, cnt, child, io, bytes, todo>>

ClosePipes ==
  /\ sh = "close"
  /\ pipefds' = [pipefds EXCEPT ![Shell] = {}]
  /\ sh' = "wait"
  /\ UNCHANGED <<num_pipes, loop_cnt, idx, cnt, child, in, out, bytes, todo>>

(* wait(NULL): any child, or an error when there is none.                  *)
Wait ==
  /\ sh = "wait" /\ cnt > 0
  /\ \/ \E k \in Stages : child[k] = "zombie" /\ child' = [child EXCEPT ![k] = "none"]
     \/ (\A k \in Stages : child[k] = "none") /\ UNCHANGED child
  /\ cnt' = cnt - 1
  /\ UNCHANGED <<sh, num_pipes, loop_cnt, idx, io, bytes, todo>>

RoundDone ==
  /\ sh = "wait" /\ cnt = 0
  /\ sh' = "round"
  /\ UNCHANGED <<num_pipes, loop_cnt, idx, cnt, child, io, bytes, todo>>

-----------------------------------------------------------------------------
(* The child of stage k: dup2 of the end it writes and of the one it reads.*)
Place(k) ==
  /\ child[k] = "forked"
  /\ out' = [out EXCEPT ![k] = IF k # num_pipes THEN W(k) ELSE @]
  /\ in' = [in EXCEPT ![k] = IF k # 0 THEN R(k - 1) ELSE @]
  /\ child' = [child EXCEPT ![k] = "placed"]
  /\ UNCHANGED <<shell, pipefds, bytes, todo>>

\* Mutant: only the ends of its own pipes are closed.
CloseOwn(k) ==
  /\ child[k] = "placed"
  /\ pipefds' = [pipefds EXCEPT ![k] = @ \ {in[k], out[k]}]
  /\ child' = [child EXCEPT ![k] = "closed"]
  /\ UNCHANGED <<shell, in, out, bytes, todo>>

CloseEnds(k) ==
  /\ child[k] = "placed"
  /\ pipefds' = [pipefds EXCEPT ![k] = {}]
  /\ child' = [child EXCEPT ![k] = "closed"]
  /\ UNCHANGED <<shell, in, out, bytes, todo>>

(* Output is redirected, if asked for, and the program executed.           *)
Exec(k) ==
  /\ child[k] = "closed"
  /\ \/ UNCHANGED out
     \/ out' = [out EXCEPT ![k] = File]
  /\ child' = [child EXCEPT ![k] = "running"]
  /\ IF k = 0 THEN \E n \in 0 .. MaxBytes : todo' = [todo EXCEPT ![k] = n] ELSE UNCHANGED todo
  /\ UNCHANGED <<shell, pipefds, in, bytes>>

(* dup2, open or execv fails: exit(1).                                     *)
ChildFails(k) ==
  /\ child[k] \in {"forked", "placed", "closed"}
  /\ Exited(k)
  /\ UNCHANGED <<shell, bytes>>

-----------------------------------------------------------------------------
(* The programs.  A byte that is read is copied or dropped.                *)
Read(k) ==
  \E i \in Pipes, n \in {0, 1} :
  /\ child[k] = "running" /\ todo[k] = 0 /\ in[k] = R(i) /\ bytes[i] > 0
  /\ bytes' = [bytes EXCEPT ![i] = @ - 1]
  /\ todo' = [todo EXCEPT ![k] = n]
  /\ UNCHANGED <<shell, child, io>>

Write(k) ==
  /\ child[k] = "running" /\ todo[k] > 0
  /\ \/ out[k] \in {Std, File} /\ UNCHANGED bytes
     \/ \E i \in Pipes : /\ out[k] = W(i) /\ bytes[i] < PipeBytes /\ Held(R(i))
                         /\ bytes' = [bytes EXCEPT ![i] = @ + 1]
  /\ todo' = [todo EXCEPT ![k] = @ - 1]
  /\ UNCHANGED <<shell, child, io>>

AtEnd(k) ==
  /\ todo[k] = 0
  /\ \A i \in Pipes : in[k] = R(i) => bytes[i] = 0 /\ ~Held(W(i))
Broken(k) == todo[k] > 0 /\ \E i \in Pipes : out[k] = W(i) /\ ~Held(R(i))

(* At the end of its input, or when nobody reads what it writes.           *)
Finish(k) ==
  /\ child[k] = "running" /\ (AtEnd(k) \/ Broken(k))
  /\ Exited(k)
  /\ UNCHANGED <<shell, bytes>>

(* Or earlier, as head does.                                               *)
Quits(k) ==
  /\ child[k] = "running"
  /\ Exited(k)
  /\ UNCHANGED <<shell, bytes>>

-----------------------------------------------------------------------------
Init ==
  /\ sh = "prompt" /\ num_pipes = 0 /\ loop_cnt = 0 /\ idx = 0 /\ cnt = 0
  /\ child = [k \in Stages |-> "none"]
  /\ pipefds = [x \in Stages \cup {Shell} |-> {}]
  /\ in = [k \in Stages |-> Std]
  /\ out = [k \in Stages |-> Std]
  /\ bytes = [i \in Pipes |-> 0]
  /\ todo = [k \in Stages |-> 0]

Launch == Fork \/ ForkFails \/ LaunchBreaks \/ LaunchDone
ShellStep == MakePipes \/ CommandDone \/ Launch \/ ClosePipes \/ Wait \/ RoundDone
ChildStep(k) == Place(k) \/ CloseEnds(k) \/ Exec(k)
Program(k) == Read(k) \/ Write(k) \/ Finish(k)

Next ==
  \/ ReadCommand \/ Exit \/ ShellStep
  \/ \E k \in Stages : ChildStep(k) \/ ChildFails(k) \/ Program(k) \/ Quits(k)

Spec == Init /\ [][Next]_vars

(* Every process runs; the programs are filters that go on reading.        *)
FairSpec ==
  /\ Spec /\ WF_vars(ShellStep)
  /\ \A k \in Stages : WF_vars(ChildStep(k)) /\ WF_vars(Program(k))

-----------------------------------------------------------------------------
TypeOK ==
  /\ sh \in {"prompt", "round", "launch", "close", "wait", "exited"}
  /\ num_pipes \in 0 .. MaxStages - 1 /\ loop_cnt \in 0 .. MaxLoops
  /\ idx \in 0 .. MaxStages /\ cnt \in 0 .. MaxStages
  /\ child \in [Stages -> Alive \cup {"none", "zombie"}]
  /\ pipefds \in [Stages \cup {Shell} -> SUBSET Ends(MaxStages - 1)]
  /\ in \in [Stages -> Ends(MaxStages - 1) \cup {Std}]
  /\ out \in [Stages -> Ends(MaxStages - 1) \cup {Std, File}]
  /\ bytes \in [Pipes -> 0 .. PipeBytes] /\ todo \in [Stages -> 0 .. MaxBytes]

Unreaped == {k \in Stages : child[k] # "none"}

\* The shell waits for exactly the children it has: none is left as a ZOMBIE
\* or running when it prompts again or starts the next round, wait does not
\* fail, and no pipe stays open in the shell, whichever stages were not
\* launched (smash.c:428).
RoundsClean ==
  /\ sh \in {"launch", "close", "wait"} => cnt = Cardinality(Unreaped)
  /\ sh \in {"prompt", "round", "exited"} => Unreaped = {} /\ pipefds[Shell] = {}

\* When a program starts, the only ends it has are the one it reads and the
\* one it writes: those of its neighbours' pipes on its side ("close not used
\* pipe ends", smash.c:386).
PlumbingExact == \A k \in Stages : child[k] = "running" =>
  /\ pipefds[k] = {}
  /\ in[k] = (IF k = 0 THEN Std ELSE R(k - 1))
  /\ out[k] \in {File, IF k = num_pipes THEN Std ELSE W(k)}

(***************************************************************************)
(* The inductive invariant: only stages of this command that have been     *)
(* launched have children, and what ends a child has at each of its steps. *)
(***************************************************************************)
Input(k)  == IF k = 0 THEN Std ELSE R(k - 1)
Output(k) == IF k = num_pipes THEN Std ELSE W(k)

ChildInv == \A k \in Stages :
  /\ child[k] # "none" => k <= num_pipes /\ (sh = "launch" => k < idx)
  /\ child[k] \notin {"forked", "placed"} => pipefds[k] = {}
  /\ child[k] \in {"none", "forked", "zombie"} => in[k] = Std /\ out[k] = Std
  /\ child[k] \in {"placed", "closed", "running"} => in[k] = Input(k)
  /\ child[k] \in {"placed", "closed"} => out[k] = Output(k)
  /\ child[k] = "running" => out[k] \in {File, Output(k)}

Closed == sh = "wait" => pipefds[Shell] = {}

IInv == TypeOK /\ RoundsClean /\ ChildInv /\ Closed

=============================================================================
