--------------------------- MODULE ProgramsProofs ---------------------------
(***************************************************************************)
(* Proofs about the user programs that MCPrograms puts side by side, for   *)
(* every value of their constants: smash's pipelines (P3), malloc and free *)
(* (P5), psort (P6) and the two parts of runscan (P7).                     *)
(***************************************************************************)
EXTENDS MCPrograms, FiniteSets, FiniteSetTheorems, WellFoundedInduction, TLAPS

-----------------------------------------------------------------------------
(***************************************************************************)
(* smash.                                                                  *)
(***************************************************************************)
LEMMA ShellConstants ==
  /\ MaxStages \in Nat \ {0} /\ MaxLoops \in Nat \ {0}
  /\ MaxBytes \in Nat \ {0} /\ PipeBytes \in Nat \ {0}
BY ProgramsAssumptions DEF Shell!ConstantAssumptions

LEMMA ShellCardinality == \A S : Shell!Cardinality(S) = Cardinality(S)
BY DEF Shell!Cardinality, Cardinality

LEMMA StagesFinite ==
  \A S \in SUBSET Shell!Stages : IsFiniteSet(S) /\ Cardinality(S) \in 0 .. MaxStages
<1>1. IsFiniteSet(Shell!Stages) /\ Cardinality(Shell!Stages) = MaxStages
  BY ShellConstants, FS_Interval DEF Shell!Stages
<1> QED
  BY <1>1, FS_Subset, FS_CardinalityType, ShellConstants

\* Who has a child, after one more is forked, one is reaped, or neither.
LEMMA UnreapedSame ==
  ASSUME \A kk \in Shell!Stages : child'[kk] = "none" <=> child[kk] = "none"
  PROVE  Shell!Unreaped' = Shell!Unreaped
BY DEF Shell!Unreaped, Shell!Stages

LEMMA UnreapedForked ==
  ASSUME NEW kk \in Shell!Stages, child \in [Shell!Stages -> Shell!Alive \cup {"none", "zombie"}], child[kk] = "none",
         child' = [child EXCEPT ![kk] = "forked"]
  PROVE  Shell!Cardinality(Shell!Unreaped') = Shell!Cardinality(Shell!Unreaped) + 1
<1>1. Shell!Unreaped' = Shell!Unreaped \cup {kk} /\ kk \notin Shell!Unreaped
  BY DEF Shell!Unreaped, Shell!Stages
<1>2. IsFiniteSet(Shell!Unreaped)
  BY StagesFinite DEF Shell!Unreaped
<1> QED BY <1>1, <1>2, FS_AddElement, ShellCardinality

LEMMA UnreapedReaped ==
  ASSUME NEW kk \in Shell!Stages, child \in [Shell!Stages -> Shell!Alive \cup {"none", "zombie"}], child[kk] = "zombie",
         child' = [child EXCEPT ![kk] = "none"]
  PROVE  Shell!Cardinality(Shell!Unreaped') = Shell!Cardinality(Shell!Unreaped) - 1
<1>1. Shell!Unreaped' = Shell!Unreaped \ {kk} /\ kk \in Shell!Unreaped
  BY DEF Shell!Unreaped, Shell!Stages
<1>2. IsFiniteSet(Shell!Unreaped)
  BY StagesFinite DEF Shell!Unreaped
<1> QED BY <1>1, <1>2, FS_RemoveElement, ShellCardinality

LEMMA NobodyUnreaped ==
  /\ Shell!Cardinality(Shell!Unreaped) \in 0 .. MaxStages
  /\ Shell!Cardinality(Shell!Unreaped) = 0 <=> Shell!Unreaped = {}
BY StagesFinite, FS_EmptySet, ShellCardinality DEF Shell!Unreaped
\* One process moves and has a child's state before and after: what has to be
\* shown is about this process.
LEMMA ChildMoves ==
  ASSUME Shell!IInv, Shell!TypeOK', UNCHANGED Shell!shell, NEW kk \in Shell!Stages,
         child[kk] # "none", child'[kk] # "none", pipefds'[MaxStages] = pipefds[MaxStages],
         \A m \in Shell!Stages \ {kk} : /\ child'[m] = child[m] /\ pipefds'[m] = pipefds[m]
                                        /\ in'[m] = in[m] /\ out'[m] = out[m],
         child'[kk] \notin {"forked", "placed"} => pipefds'[kk] = {},
         child'[kk] \in {"forked", "zombie"} => in'[kk] = Shell!Std /\ out'[kk] = Shell!Std,
         child'[kk] \in {"placed", "closed", "running"} => in'[kk] = Shell!Input(kk),
         child'[kk] \in {"placed", "closed"} => out'[kk] = Shell!Output(kk),
         child'[kk] = "running" => out'[kk] \in {Shell!File, Shell!Output(kk)}
  PROVE  Shell!IInv'
<1>1. Shell!RoundsClean'
  BY UnreapedSame DEF Shell!IInv, Shell!RoundsClean, Shell!shell, Shell!Shell
<1>2. ASSUME NEW m \in Shell!Stages
      PROVE  Shell!Input(m)' = Shell!Input(m) /\ Shell!Output(m)' = Shell!Output(m)
  BY DEF Shell!Input, Shell!Output, Shell!shell
<1>3. Shell!ChildInv'
  BY <1>2 DEF Shell!IInv, Shell!ChildInv, Shell!shell
<1>4. Shell!Closed'
  BY DEF Shell!IInv, Shell!Closed, Shell!shell, Shell!Shell
<1> QED BY <1>1, <1>3, <1>4 DEF Shell!IInv

\* The ends that a stage of this command uses are ends of pipes.
LEMMA EndsOfStage ==
  ASSUME Shell!IInv, NEW kk \in Shell!Stages, child[kk] # "none"
  PROVE  /\ Shell!Input(kk) \in Shell!Ends(MaxStages - 1) \cup {Shell!Std}
         /\ Shell!Output(kk) \in Shell!Ends(MaxStages - 1) \cup {Shell!Std, Shell!File}
<1>1. kk \in 0 .. num_pipes /\ num_pipes \in 0 .. MaxStages - 1
  BY DEF Shell!IInv, Shell!TypeOK, Shell!ChildInv, Shell!Stages
<1>2. Shell!Input(kk) \in Shell!Ends(MaxStages - 1) \cup {Shell!Std}
  BY <1>1, ShellConstants DEF Shell!Input, Shell!Ends, Shell!R
<1>3. kk # num_pipes => kk \in 0 .. MaxStages - 1 - 1
  BY <1>1, ShellConstants
<1> QED BY <1>2, <1>3 DEF Shell!Output, Shell!Ends, Shell!W

\* The shell moves and no child does.
LEMMA ShellMoves ==
  ASSUME Shell!IInv, Shell!TypeOK', Shell!RoundsClean', Shell!Closed', UNCHANGED <<child, in, out, num_pipes>>,
         \A m \in Shell!Stages : pipefds'[m] = pipefds[m],
         sh' = "launch" => Shell!Unreaped = {} \/ (sh = "launch" /\ idx' >= idx)
  PROVE  Shell!IInv'
<1> USE DEF Shell!IInv
<1>1. ASSUME NEW m \in Shell!Stages
      PROVE  Shell!Input(m)' = Shell!Input(m) /\ Shell!Output(m)' = Shell!Output(m)
  BY DEF Shell!Input, Shell!Output
<1>2. ASSUME NEW m \in Shell!Stages, child[m] # "none", sh' = "launch" PROVE m < idx'
  <2>1. m \in Shell!Unreaped
    BY <1>2 DEF Shell!Unreaped
  <2>2. m < idx /\ idx' >= idx /\ {m, idx, idx'} \subseteq Nat
    BY <1>2, <2>1, ShellConstants DEF Shell!ChildInv, Shell!TypeOK, Shell!Stages
  <2> QED BY <2>2
<1>3. Shell!ChildInv'
  BY <1>1, <1>2 DEF Shell!ChildInv
<1> QED BY <1>3

\* The shell moves on without making or taking a child.
LEMMA ShellQuiet ==
  ASSUME Shell!IInv, Shell!TypeOK', UNCHANGED <<child, in, out, cnt, num_pipes, pipefds>>,
         sh' \in {"launch", "close", "wait"} => sh \in {"launch", "close", "wait"},
         sh' \in {"prompt", "round", "exited"} =>
           sh \in {"prompt", "round", "exited"} \/ (Shell!Unreaped = {} /\ pipefds[MaxStages] = {}),
         sh' = "wait" => sh = "wait", sh' = "launch" => sh = "launch" /\ idx' >= idx
  PROVE  Shell!IInv'
<1>1. Shell!Unreaped' = Shell!Unreaped
  BY UnreapedSame
<1>2. Shell!RoundsClean'
  BY <1>1 DEF Shell!IInv, Shell!RoundsClean, Shell!Shell
<1>3. Shell!Closed'
  BY DEF Shell!IInv, Shell!Closed, Shell!Shell
<1> QED BY <1>2, <1>3, ShellMoves

LEMMA ShellInit == Shell!Init => Shell!IInv
<1> SUFFICES ASSUME Shell!Init PROVE Shell!IInv
  OBVIOUS
<1> USE DEF Shell!Init
<1>1. Shell!TypeOK
  BY ShellConstants DEF Shell!TypeOK, Shell!Stages, Shell!Pipes, Shell!Shell
<1>2. Shell!RoundsClean
  BY DEF Shell!RoundsClean, Shell!Unreaped, Shell!Stages, Shell!Shell
<1>3. Shell!ChildInv
  BY DEF Shell!ChildInv, Shell!Stages
<1>4. Shell!Closed
  BY DEF Shell!Closed
<1> QED BY <1>1, <1>2, <1>3, <1>4 DEF Shell!IInv

-----------------------------------------------------------------------------
LEMMA ShellReads == Shell!IInv /\ (Shell!ReadCommand \/ Shell!Exit) => Shell!IInv'
<1> SUFFICES ASSUME Shell!IInv, Shell!ReadCommand \/ Shell!Exit PROVE Shell!IInv'
  OBVIOUS
<1>1. CASE Shell!Exit
  <2>1. Shell!TypeOK'
    BY <1>1 DEF Shell!Exit, Shell!io, Shell!IInv, Shell!TypeOK
  <2> QED BY <1>1, <2>1, ShellQuiet DEF Shell!Exit, Shell!io
<1>2. CASE Shell!ReadCommand
  <2>1. /\ sh = "prompt" /\ sh' = "round" /\ num_pipes' \in 0 .. MaxStages - 1
        /\ loop_cnt' \in 0 .. MaxLoops
        /\ UNCHANGED <<idx, cnt, child, pipefds, in, out, bytes, toWrite>>
    BY <1>2, ShellConstants DEF Shell!ReadCommand, Shell!io
  <2>2. Shell!TypeOK'
    BY <2>1 DEF Shell!IInv, Shell!TypeOK
  <2>3. Shell!Unreaped = {} /\ pipefds[Shell!Shell] = {} /\ Shell!Unreaped' = Shell!Unreaped
    BY <2>1, UnreapedSame DEF Shell!IInv, Shell!RoundsClean
  <2>4. Shell!RoundsClean'
    BY <2>1, <2>3 DEF Shell!RoundsClean, Shell!Shell
  <2>5. \A m \in Shell!Stages : child[m] = "none"
    BY <2>3 DEF Shell!Unreaped
  <2>6. Shell!ChildInv'
    BY <2>1, <2>5 DEF Shell!ChildInv, Shell!IInv
  <2> QED BY <2>1, <2>2, <2>4, <2>6 DEF Shell!IInv, Shell!Closed
<1> QED BY <1>1, <1>2

LEMMA ShellRound == Shell!IInv /\ (Shell!MakePipes \/ Shell!CommandDone) => Shell!IInv'
<1> SUFFICES ASSUME Shell!IInv, Shell!MakePipes \/ Shell!CommandDone PROVE Shell!IInv'
  OBVIOUS
<1>1. CASE Shell!CommandDone
  <2>1. Shell!TypeOK'
    BY <1>1 DEF Shell!CommandDone, Shell!io, Shell!IInv, Shell!TypeOK
  <2> QED BY <1>1, <2>1, ShellQuiet DEF Shell!CommandDone, Shell!io
<1>2. CASE Shell!MakePipes
  <2> USE <1>2 DEF Shell!MakePipes
  <2>1. Shell!Ends(num_pipes) \subseteq Shell!Ends(MaxStages - 1)
    BY ShellConstants DEF Shell!Ends, Shell!IInv, Shell!TypeOK
  <2>2. pipefds' \in [Shell!Stages \cup {Shell!Shell} -> SUBSET Shell!Ends(MaxStages - 1)]
    BY <2>1 DEF Shell!IInv, Shell!TypeOK
  <2>3. bytes' \in [Shell!Pipes -> 0 .. PipeBytes]
    BY ShellConstants DEF Shell!Pipes
  <2>4. Shell!TypeOK'
    BY <2>2, <2>3, ShellConstants DEF Shell!IInv, Shell!TypeOK
  <2>5. Shell!Unreaped = {} /\ Shell!Unreaped' = Shell!Unreaped
    BY UnreapedSame DEF Shell!IInv, Shell!RoundsClean
  <2>6. Shell!Cardinality(Shell!Unreaped)' = 0
    BY <2>5, FS_EmptySet, ShellCardinality
  <2>7. Shell!RoundsClean'
    BY <2>5, <2>6 DEF Shell!RoundsClean
  <2>8. \A m \in Shell!Stages : pipefds'[m] = pipefds[m]
    BY DEF Shell!IInv, Shell!TypeOK, Shell!Shell, Shell!Stages
  <2> QED BY <2>4, <2>5, <2>7, <2>8, ShellMoves DEF Shell!Closed
<1> QED BY <1>1, <1>2

LEMMA ShellLaunches == Shell!IInv /\ Shell!Launch => Shell!IInv'
<1> SUFFICES ASSUME Shell!IInv, Shell!Launch PROVE Shell!IInv'
  OBVIOUS
<1>1. CASE Shell!Fork
  <2> USE <1>1 DEF Shell!Fork
  <2>1. idx \in Shell!Stages /\ child[idx] = "none" /\ idx # Shell!Shell /\ idx + 1 \in 0 .. MaxStages
    BY ShellConstants DEF Shell!IInv, Shell!TypeOK, Shell!ChildInv, Shell!Stages, Shell!Shell
  <2>2. Shell!Cardinality(Shell!Unreaped') = Shell!Cardinality(Shell!Unreaped) + 1
    BY <2>1, UnreapedForked DEF Shell!IInv, Shell!TypeOK
  <2>3. cnt' = Shell!Cardinality(Shell!Unreaped')
    BY <2>2 DEF Shell!IInv, Shell!RoundsClean
  <2>4. cnt' \in 0 .. MaxStages
    BY <2>3, StagesFinite, ShellCardinality DEF Shell!Unreaped
  <2>5. child' \in [Shell!Stages -> Shell!Alive \cup {"none", "zombie"}]
    BY DEF Shell!IInv, Shell!TypeOK, Shell!Alive
  <2>6. pipefds' \in [Shell!Stages \cup {Shell!Shell} -> SUBSET Shell!Ends(MaxStages - 1)]
    BY DEF Shell!IInv, Shell!TypeOK
  <2>7. Shell!TypeOK'
    BY <2>1, <2>4, <2>5, <2>6 DEF Shell!IInv, Shell!TypeOK
  <2>8. Shell!RoundsClean'
    BY <2>3 DEF Shell!RoundsClean
  <2>9. ASSUME NEW m \in Shell!Stages
        PROVE  Shell!Input(m)' = Shell!Input(m) /\ Shell!Output(m)' = Shell!Output(m)
    BY DEF Shell!Input, Shell!Output
  <2>10. \A m \in Shell!Stages \ {idx} : child'[m] = child[m] /\ pipefds'[m] = pipefds[m]
    BY DEF Shell!IInv, Shell!TypeOK
  <2>11. child'[idx] = "forked" /\ idx <= num_pipes /\ idx' = idx + 1
    BY <2>1 DEF Shell!IInv, Shell!TypeOK
  <2>12. \A m \in Shell!Stages : m < idx => m < idx'
    BY <2>11 DEF Shell!IInv, Shell!TypeOK, Shell!Stages
  <2>13. Shell!ChildInv'
    BY <2>1, <2>9, <2>10, <2>11, <2>12 DEF Shell!IInv, Shell!TypeOK, Shell!ChildInv
  <2> QED BY <2>7, <2>8, <2>13 DEF Shell!IInv, Shell!Closed
<1>2. CASE Shell!ForkFails
  <2>1. Shell!TypeOK' /\ idx' >= idx
    BY <1>2, ShellConstants DEF Shell!ForkFails, Shell!io, Shell!IInv, Shell!TypeOK
  <2> QED BY <1>2, <2>1, ShellQuiet DEF Shell!ForkFails, Shell!io
<1>3. CASE Shell!LaunchBreaks \/ Shell!LaunchDone
  <2>1. Shell!TypeOK'
    BY <1>3 DEF Shell!LaunchBreaks, Shell!LaunchDone, Shell!io, Shell!IInv, Shell!TypeOK
  <2> QED BY <1>3, <2>1, ShellQuiet DEF Shell!LaunchBreaks, Shell!LaunchDone, Shell!io
<1> QED BY <1>1, <1>2, <1>3 DEF Shell!Launch

LEMMA ShellWaits ==
  Shell!IInv /\ (Shell!ClosePipes \/ Shell!Wait \/ Shell!RoundDone) => Shell!IInv'
<1> SUFFICES ASSUME Shell!IInv, Shell!ClosePipes \/ Shell!Wait \/ Shell!RoundDone PROVE Shell!IInv'
  OBVIOUS
<1>1. CASE Shell!ClosePipes
  <2> USE <1>1 DEF Shell!ClosePipes
  <2>1. pipefds' \in [Shell!Stages \cup {Shell!Shell} -> SUBSET Shell!Ends(MaxStages - 1)]
    BY DEF Shell!IInv, Shell!TypeOK
  <2>2. Shell!TypeOK'
    BY <2>1 DEF Shell!IInv, Shell!TypeOK
  <2>3. Shell!Unreaped' = Shell!Unreaped
    BY UnreapedSame
  <2>4. Shell!RoundsClean'
    BY <2>3 DEF Shell!IInv, Shell!RoundsClean
  <2>5. \A m \in Shell!Stages : pipefds'[m] = pipefds[m]
    BY DEF Shell!IInv, Shell!TypeOK, Shell!Shell, Shell!Stages
  <2>6. Shell!Closed'
    BY DEF Shell!IInv, Shell!TypeOK, Shell!Closed, Shell!Shell
  <2> QED BY <2>2, <2>4, <2>5, <2>6, ShellMoves
<1>2. CASE Shell!RoundDone
  <2>1. Shell!TypeOK'
    BY <1>2 DEF Shell!RoundDone, Shell!io, Shell!IInv, Shell!TypeOK
  <2>2. Shell!Unreaped = {} /\ pipefds[MaxStages] = {}
    BY <1>2, NobodyUnreaped
    DEF Shell!RoundDone, Shell!IInv, Shell!RoundsClean, Shell!Closed, Shell!Shell
  <2> QED BY <1>2, <2>1, <2>2, ShellQuiet DEF Shell!RoundDone, Shell!io
<1>3. CASE Shell!Wait
  <2> USE <1>3 DEF Shell!Wait, Shell!io
  <2>1. PICK kk \in Shell!Stages : child[kk] = "zombie" /\ child' = [child EXCEPT ![kk] = "none"]
    <3>1. cnt = Shell!Cardinality(Shell!Unreaped) /\ cnt # 0
      BY DEF Shell!IInv, Shell!RoundsClean
    <3> QED BY <3>1, NobodyUnreaped DEF Shell!Unreaped
  <2>2. Shell!Cardinality(Shell!Unreaped') = Shell!Cardinality(Shell!Unreaped) - 1
    BY <2>1, UnreapedReaped DEF Shell!IInv, Shell!TypeOK
  <2>3. cnt' = Shell!Cardinality(Shell!Unreaped')
    BY <2>2 DEF Shell!IInv, Shell!RoundsClean
  <2>4. cnt' \in 0 .. MaxStages
    BY <2>3, StagesFinite, ShellCardinality DEF Shell!Unreaped
  <2>5. child' \in [Shell!Stages -> Shell!Alive \cup {"none", "zombie"}]
    BY <2>1 DEF Shell!IInv, Shell!TypeOK
  <2>6. Shell!TypeOK'
    BY <2>4, <2>5 DEF Shell!IInv, Shell!TypeOK
  <2>7. Shell!RoundsClean'
    BY <2>3 DEF Shell!RoundsClean
  <2>8. ASSUME NEW m \in Shell!Stages
        PROVE  Shell!Input(m)' = Shell!Input(m) /\ Shell!Output(m)' = Shell!Output(m)
    BY DEF Shell!Input, Shell!Output
  <2>9. \A m \in Shell!Stages : child'[m] = IF m = kk THEN "none" ELSE child[m]
    BY <2>1 DEF Shell!IInv, Shell!TypeOK
  <2>10. Shell!ChildInv'
    BY <2>1, <2>8, <2>9 DEF Shell!IInv, Shell!ChildInv
  <2>11. Shell!Closed'
    BY DEF Shell!IInv, Shell!Closed
  <2> QED BY <2>6, <2>7, <2>10, <2>11 DEF Shell!IInv
<1> QED BY <1>1, <1>2, <1>3
-----------------------------------------------------------------------------
\* A stage that has a child: what the invariant says of it.
LEMMA ChildOf ==
  ASSUME Shell!IInv, NEW kk \in Shell!Stages, child[kk] \notin {"none", "zombie"}
  PROVE  /\ child[kk] \notin {"forked", "placed"} => pipefds[kk] = {}
         /\ child[kk] = "forked" => in[kk] = Shell!Std /\ out[kk] = Shell!Std
         /\ child[kk] \in {"placed", "closed", "running"} => in[kk] = Shell!Input(kk)
         /\ child[kk] \in {"placed", "closed"} => out[kk] = Shell!Output(kk)
         /\ child[kk] = "running" => out[kk] \in {Shell!File, Shell!Output(kk)}
         /\ child[kk] # "none" /\ kk # MaxStages
BY ShellConstants DEF Shell!IInv, Shell!ChildInv, Shell!Stages

LEMMA ChildExits ==
  ASSUME Shell!IInv, NEW kk \in Shell!Stages, child[kk] \notin {"none", "zombie"},
         Shell!Exited(kk), UNCHANGED <<Shell!shell, bytes>>
  PROVE  Shell!IInv'
<1> USE DEF Shell!Exited, Shell!IInv, Shell!TypeOK
<1>1. pipefds' \in [Shell!Stages \cup {Shell!Shell} -> SUBSET Shell!Ends(MaxStages - 1)]
  OBVIOUS
<1>2. child' \in [Shell!Stages -> Shell!Alive \cup {"none", "zombie"}]
  OBVIOUS
<1>3. /\ in' \in [Shell!Stages -> Shell!Ends(MaxStages - 1) \cup {Shell!Std}]
      /\ out' \in [Shell!Stages -> Shell!Ends(MaxStages - 1) \cup {Shell!Std, Shell!File}]
      /\ toWrite' \in [Shell!Stages -> 0 .. MaxBytes]
  BY ShellConstants
<1>4. Shell!TypeOK'
  BY <1>1, <1>2, <1>3 DEF Shell!shell
<1>5. /\ child'[kk] = "zombie" /\ pipefds'[kk] = {} /\ in'[kk] = Shell!Std /\ out'[kk] = Shell!Std
      /\ pipefds'[MaxStages] = pipefds[MaxStages]
  BY ChildOf DEF Shell!Shell
<1>6. \A m \in Shell!Stages \ {kk} : /\ child'[m] = child[m] /\ pipefds'[m] = pipefds[m]
                                     /\ in'[m] = in[m] /\ out'[m] = out[m]
  OBVIOUS
<1> HIDE DEF Shell!Exited, Shell!IInv, Shell!TypeOK
<1> QED BY <1>4, <1>5, <1>6, ChildMoves

LEMMA ChildSteps ==
  ASSUME Shell!IInv, NEW kk \in Shell!Stages, Shell!ChildStep(kk)
  PROVE  Shell!IInv'
<1>1. CASE Shell!Place(kk)
  <2> USE <1>1 DEF Shell!Place
  <2>1. child[kk] = "forked" /\ in[kk] = Shell!Std /\ out[kk] = Shell!Std
    BY ChildOf
  <2>2. in' = [in EXCEPT ![kk] = Shell!Input(kk)] /\ out' = [out EXCEPT ![kk] = Shell!Output(kk)]
    BY <2>1 DEF Shell!Input, Shell!Output, Shell!IInv, Shell!TypeOK
  <2>3. /\ in' \in [Shell!Stages -> Shell!Ends(MaxStages - 1) \cup {Shell!Std}]
        /\ out' \in [Shell!Stages -> Shell!Ends(MaxStages - 1) \cup {Shell!Std, Shell!File}]
    BY <2>1, <2>2, EndsOfStage DEF Shell!IInv, Shell!TypeOK
  <2>4. child' \in [Shell!Stages -> Shell!Alive \cup {"none", "zombie"}]
    BY DEF Shell!IInv, Shell!TypeOK, Shell!Alive
  <2>5. Shell!TypeOK'
    BY <2>3, <2>4 DEF Shell!IInv, Shell!TypeOK, Shell!shell
  <2>6. child'[kk] = "placed" /\ in'[kk] = Shell!Input(kk) /\ out'[kk] = Shell!Output(kk)
    BY <2>2 DEF Shell!IInv, Shell!TypeOK
  <2>7. \A m \in Shell!Stages \ {kk} : child'[m] = child[m] /\ in'[m] = in[m] /\ out'[m] = out[m]
    BY <2>2 DEF Shell!IInv, Shell!TypeOK
  <2> QED BY <2>1, <2>5, <2>6, <2>7, ChildMoves
<1>2. CASE Shell!CloseEnds(kk)
  <2> USE <1>2 DEF Shell!CloseEnds
  <2>1. pipefds' \in [Shell!Stages \cup {Shell!Shell} -> SUBSET Shell!Ends(MaxStages - 1)]
    BY DEF Shell!IInv, Shell!TypeOK
  <2>2. child' \in [Shell!Stages -> Shell!Alive \cup {"none", "zombie"}]
    BY DEF Shell!IInv, Shell!TypeOK, Shell!Alive
  <2>3. Shell!TypeOK'
    BY <2>1, <2>2 DEF Shell!IInv, Shell!TypeOK, Shell!shell
  <2>4. /\ child'[kk] = "closed" /\ pipefds'[kk] = {}
        /\ pipefds'[MaxStages] = pipefds[MaxStages]
    BY ChildOf DEF Shell!IInv, Shell!TypeOK, Shell!Shell
  <2>5. \A m \in Shell!Stages \ {kk} : child'[m] = child[m] /\ pipefds'[m] = pipefds[m]
    BY DEF Shell!IInv, Shell!TypeOK
  <2>6. in[kk] = Shell!Input(kk) /\ out[kk] = Shell!Output(kk)
    BY ChildOf
  <2> QED BY <2>3, <2>4, <2>5, <2>6, ChildMoves
<1>3. CASE Shell!Exec(kk)
  <2> USE <1>3 DEF Shell!Exec
  <2>1. /\ child[kk] = "closed" /\ pipefds[kk] = {} /\ in[kk] = Shell!Input(kk)
        /\ out[kk] = Shell!Output(kk)
    BY ChildOf
  <2>2. /\ out' \in [Shell!Stages -> Shell!Ends(MaxStages - 1) \cup {Shell!Std, Shell!File}]
        /\ out'[kk] \in {Shell!File, Shell!Output(kk)}
        /\ \A m \in Shell!Stages \ {kk} : out'[m] = out[m]
    BY <2>1 DEF Shell!IInv, Shell!TypeOK
  <2>3. /\ child' \in [Shell!Stages -> Shell!Alive \cup {"none", "zombie"}]
        /\ child'[kk] = "running" /\ \A m \in Shell!Stages \ {kk} : child'[m] = child[m]
    BY DEF Shell!IInv, Shell!TypeOK, Shell!Alive
  <2>4. toWrite' \in [Shell!Stages -> 0 .. MaxBytes]
    BY DEF Shell!IInv, Shell!TypeOK
  <2>5. Shell!TypeOK'
    BY <2>2, <2>3, <2>4 DEF Shell!IInv, Shell!TypeOK, Shell!shell
  <2> QED BY <2>1, <2>2, <2>3, <2>5, ChildMoves
<1> QED BY <1>1, <1>2, <1>3 DEF Shell!ChildStep

\* Bytes go through the pipes; no process and no end changes.
LEMMA BytesMove ==
  ASSUME Shell!IInv, UNCHANGED <<Shell!shell, child, Shell!io>>,
         bytes' \in [Shell!Pipes -> 0 .. PipeBytes], toWrite' \in [Shell!Stages -> 0 .. MaxBytes]
  PROVE  Shell!IInv'
<1>1. Shell!TypeOK'
  BY DEF Shell!IInv, Shell!TypeOK, Shell!shell, Shell!io
<1> QED BY <1>1, ShellQuiet DEF Shell!shell, Shell!io, Shell!IInv, Shell!TypeOK

LEMMA ProgramSteps ==
  ASSUME Shell!IInv, NEW kk \in Shell!Stages, Shell!Program(kk)
  PROVE  Shell!IInv'
<1>1. CASE Shell!Read(kk)
  <2>1. PICK ii \in Shell!Pipes, nn \in {0, 1} :
          /\ bytes[ii] > 0 /\ bytes' = [bytes EXCEPT ![ii] = @ - 1]
          /\ toWrite' = [toWrite EXCEPT ![kk] = nn]
          /\ UNCHANGED <<Shell!shell, child, Shell!io>>
    BY <1>1 DEF Shell!Read
  <2>2. bytes' \in [Shell!Pipes -> 0 .. PipeBytes] /\ toWrite' \in [Shell!Stages -> 0 .. MaxBytes]
    BY <2>1, ShellConstants DEF Shell!IInv, Shell!TypeOK
  <2> QED BY <2>1, <2>2, BytesMove
<1>2. CASE Shell!Write(kk)
  <2> USE <1>2 DEF Shell!Write
  <2>1. bytes' \in [Shell!Pipes -> 0 .. PipeBytes]
    BY ShellConstants DEF Shell!IInv, Shell!TypeOK
  <2>2. toWrite' \in [Shell!Stages -> 0 .. MaxBytes]
    BY ShellConstants DEF Shell!IInv, Shell!TypeOK
  <2> QED BY <2>1, <2>2, BytesMove
<1>3. CASE Shell!Finish(kk)
  BY <1>3, ChildExits DEF Shell!Finish
<1> QED BY <1>1, <1>2, <1>3 DEF Shell!Program

LEMMA ShellStep == Shell!IInv /\ Shell!Next => Shell!IInv'
<1> SUFFICES ASSUME Shell!IInv, Shell!Next PROVE Shell!IInv'
  OBVIOUS
<1>1. CASE Shell!ReadCommand \/ Shell!Exit
  BY <1>1, ShellReads
<1>2. CASE Shell!ShellStep
  BY <1>2, ShellRound, ShellLaunches, ShellWaits DEF Shell!ShellStep
<1>3. ASSUME NEW kk \in Shell!Stages, Shell!ChildStep(kk) \/ Shell!Program(kk)
      PROVE  Shell!IInv'
  BY <1>3, ChildSteps, ProgramSteps
<1>4. ASSUME NEW kk \in Shell!Stages, Shell!ChildFails(kk) \/ Shell!Quits(kk)
      PROVE  Shell!IInv'
  BY <1>4, ChildExits DEF Shell!ChildFails, Shell!Quits
<1> QED BY <1>1, <1>2, <1>3, <1>4 DEF Shell!Next

LEMMA ShellSame == Shell!IInv /\ UNCHANGED shellVars => Shell!IInv'
<1> SUFFICES ASSUME Shell!IInv, UNCHANGED shellVars PROVE Shell!IInv'
  OBVIOUS
<1>1. bytes' \in [Shell!Pipes -> 0 .. PipeBytes] /\ toWrite' \in [Shell!Stages -> 0 .. MaxBytes]
  BY DEF shellVars, Shell!IInv, Shell!TypeOK
<1> QED BY <1>1, BytesMove DEF shellVars, Shell!shell, Shell!io

(* smash has as many children as it waits for, none when it prompts, and a *)
(* program starts with the one end it reads and the one it writes, whatever*)
(* stages fail or quit, for any number of stages and rounds.               *)
THEOREM PipelineExact == Spec => []ShellSound
<1> DEFINE I == program = "smash" => Shell!IInv
<1>1. Init => I
  BY ShellInit DEF Init
<1>2. I /\ [Next]_vars => I'
  <2> SUFFICES ASSUME I, [Next]_vars PROVE I'
    OBVIOUS
  <2>1. CASE UNCHANGED <<program, shellVars>>
    BY <2>1, ShellSame
  <2>2. CASE OnlyShell /\ Shell!Next
    BY <2>2, ShellStep DEF OnlyShell
  <2> QED BY <2>1, <2>2
    DEF Next, vars, OnlyHeap, OnlySort, OnlyScan, OnlyCopy
<1>3. I => ShellSound
  <2> SUFFICES ASSUME Shell!IInv PROVE Shell!TypeOK /\ Shell!RoundsClean /\ Shell!PlumbingExact
    BY DEF ShellSound
  <2> QED BY DEF Shell!IInv, Shell!ChildInv, Shell!PlumbingExact, Shell!Input, Shell!Output
<1> QED BY <1>1, <1>2, <1>3, PTL DEF Spec
-----------------------------------------------------------------------------
(***************************************************************************)
(* psort.                                                                  *)
(***************************************************************************)
LEMMA SortConstants == Sizes \subseteq Nat /\ Counts \subseteq Nat \ {0} /\ KeyValues \subseteq Int
BY ProgramsAssumptions DEF Sort!ConstantAssumptions

\* The threads' segments follow each other and fill the array.
LEMMA Segments ==
  ASSUME NEW nn \in Nat, NEW tt \in Nat \ {0}
  PROVE  /\ \A aa \in 0 .. tt - 1 :
              /\ Sort!Start(aa, nn, tt) \in Nat /\ Sort!End(aa, nn, tt) \in 0 .. nn
              /\ Sort!Start(aa, nn, tt) <= Sort!End(aa, nn, tt)
              /\ aa < tt - 1 => Sort!End(aa, nn, tt) = Sort!Start(aa + 1, nn, tt)
         /\ \A aa, bb \in 0 .. tt - 1 : aa < bb => Sort!End(aa, nn, tt) <= Sort!Start(bb, nn, tt)
         /\ Sort!Start(0, nn, tt) = 0 /\ Sort!End(tt - 1, nn, tt) = nn
<1>1. PICK qq \in Nat : qq = nn \div tt /\ qq * tt <= nn
  OBVIOUS
<1>2. \A aa, bb \in Nat : aa <= bb => aa * qq <= bb * qq /\ aa * qq \in Nat
  OBVIOUS
<1>3. \A aa \in 0 .. tt - 1 :
        /\ Sort!Start(aa, nn, tt) = aa * qq
        /\ Sort!End(aa, nn, tt) = IF aa = tt - 1 THEN nn ELSE (aa + 1) * qq
  BY <1>1 DEF Sort!Start, Sort!End
<1>4. tt * qq <= nn
  BY <1>1
<1>5. \A aa \in 0 .. tt - 1 :
        aa * qq \in Nat /\ (aa + 1) * qq \in Nat /\ aa * qq <= (aa + 1) * qq /\ (aa + 1) * qq <= nn
  BY <1>2, <1>4
<1>6. ASSUME NEW aa \in 0 .. tt - 1
      PROVE  /\ Sort!Start(aa, nn, tt) \in Nat /\ Sort!End(aa, nn, tt) \in 0 .. nn
             /\ Sort!Start(aa, nn, tt) <= Sort!End(aa, nn, tt)
  BY <1>3, <1>5
<1>7. ASSUME NEW aa \in 0 .. tt - 1, aa < tt - 1
      PROVE  Sort!End(aa, nn, tt) = Sort!Start(aa + 1, nn, tt)
  BY <1>3, <1>7
<1>8. ASSUME NEW aa \in 0 .. tt - 1, NEW bb \in 0 .. tt - 1, aa < bb
      PROVE  Sort!End(aa, nn, tt) <= Sort!Start(bb, nn, tt)
  BY <1>2, <1>3, <1>8
<1>9. Sort!Start(0, nn, tt) = 0 /\ Sort!End(tt - 1, nn, tt) = nn
  BY <1>1 DEF Sort!Start, Sort!End
<1> QED BY <1>6, <1>7, <1>8, <1>9

LEMMA PrecedesTransitive ==
  \A a1, b1, c1 \in Sort!Records :
    Sort!Precedes(a1, b1) /\ Sort!Precedes(b1, c1) => Sort!Precedes(a1, c1)
BY DEF Sort!Records, Sort!Precedes

\* What a step puts in the place of the call on top of a stack.
LEMMA PutBack ==
  ASSUME NEW Ty, NEW S \in Seq(Ty), S # <<>>
  PROVE  /\ Head(S) = S[1] /\ Len(S) \in Nat \ {0} /\ \A mm \in 1 .. Len(S) : S[mm] \in Ty
         /\ \A cc \in Ty : LET T == <<cc>> \o Tail(S) IN
              /\ T \in Seq(Ty) /\ Len(T) = Len(S) /\ T[1] = cc
              /\ \A mm \in 2 .. Len(S) : T[mm] = S[mm]
         /\ LET T == <<>> \o Tail(S) IN
              /\ T \in Seq(Ty) /\ Len(T) = Len(S) - 1
              /\ \A mm \in 1 .. Len(S) - 1 : T[mm] = S[mm + 1]
         /\ \A c1, c2, c3 \in Ty : LET T == <<c1, c2, c3>> \o Tail(S) IN
              /\ T \in Seq(Ty) /\ Len(T) = Len(S) + 2 /\ T[1] = c1 /\ T[2] = c2 /\ T[3] = c3
              /\ \A mm \in 4 .. Len(S) + 2 : T[mm] = S[mm - 2]
<1>1. /\ Head(S) = S[1] /\ Len(S) \in Nat \ {0} /\ \A mm \in 1 .. Len(S) : S[mm] \in Ty
      /\ Tail(S) \in Seq(Ty) /\ Len(Tail(S)) = Len(S) - 1
      /\ \A mm \in 1 .. Len(S) - 1 : Tail(S)[mm] = S[mm + 1]
  OBVIOUS
<1> DEFINE R == Tail(S)
<1> HIDE DEF R
<1>2. \A cc \in Ty : LET T == <<cc>> \o R IN
         /\ T \in Seq(Ty) /\ Len(T) = Len(R) + 1 /\ T[1] = cc
         /\ \A mm \in 2 .. Len(R) + 1 : T[mm] = R[mm - 1]
  BY <1>1 DEF R
<1>3. LET T == <<>> \o R IN T = R
  BY <1>1 DEF R
<1>4. \A c1, c2, c3 \in Ty : LET T == <<c1, c2, c3>> \o R IN
         /\ T \in Seq(Ty) /\ Len(T) = Len(R) + 3 /\ T[1] = c1 /\ T[2] = c2 /\ T[3] = c3
         /\ \A mm \in 4 .. Len(R) + 3 : T[mm] = R[mm - 3]
  BY <1>1 DEF R
<1> QED BY <1>1, <1>2, <1>3, <1>4 DEF R
-----------------------------------------------------------------------------
(* Stacks of calls.                                                        *)
LEMMA StackSame ==
  ASSUME UNCHANGED <<keys, temp>>, NEW S, NEW lo, NEW hi, Sort!StackOk(S, lo, hi)
  PROVE  Sort!StackOk(S, lo, hi)'
BY DEF Sort!StackOk, Sort!CallOk, Sort!Untouched, Sort!Merging, Sort!Copying, Sort!SortedOn,
       Sort!Prepared, Sort!Within, Sort!Apart, Sort!Nested, Sort!Precedes

\* What is said of the calls on a stack.
LEMMA CallOnStack ==
  ASSUME NEW lo \in Nat, NEW hi \in Nat, NEW S \in Seq(Sort!Calls), Sort!StackOk(S, lo, hi),
         NEW mm \in 1 .. Len(S)
  PROVE  /\ S[mm] \in Sort!Calls /\ Sort!CallOk(S[mm])
         /\ S[mm].start \in Nat /\ S[mm].mid \in Nat /\ S[mm].end \in Nat
         /\ S[mm].i \in Nat /\ S[mm].j \in Nat /\ S[mm].k \in Nat
         /\ lo <= S[mm].start /\ S[mm].start <= S[mm].mid
         /\ S[mm].mid <= S[mm].end /\ S[mm].end <= hi
<1>1. S[mm] \in Sort!Calls
  OBVIOUS
<1>2. Sort!CallOk(S[mm]) /\ Sort!Within(S[mm], lo, hi)
  BY DEF Sort!StackOk
<1> QED BY <1>1, <1>2 DEF Sort!Calls, Sort!CallOk, Sort!Within

\* A merge that has not begun: nothing is said of the arrays.
LEMMA FreshMerge ==
  ASSUME NEW cc \in Sort!Calls, cc.start <= cc.mid, cc.mid <= cc.end,
         cc.i = cc.start, cc.j = cc.mid, cc.k = cc.start
  PROVE  Sort!Merging(cc) /\ Sort!Merging(cc)'
<1>1. {cc.start, cc.mid, cc.end} \subseteq Nat
  BY DEF Sort!Calls
<1>2. /\ (cc.start .. cc.i - 1) \cup (cc.mid .. cc.j - 1) = {} /\ cc.start .. cc.k - 1 = {}
      /\ cc.k = cc.i + cc.j - cc.mid
  BY <1>1
<1> QED BY <1>1, <1>2 DEF Sort!Merging

\* A stack whose top call works on: only its range changes.
LEMMA PreparedKept ==
  ASSUME NEW lo \in Nat, NEW hi \in Nat, NEW S \in Seq(Sort!Calls), NEW T \in Seq(Sort!Calls),
         S # <<>>, Sort!StackOk(S, lo, hi), Len(T) = Len(S),
         \A mm \in 2 .. Len(S) : T[mm] = S[mm],
         T[1].start = S[1].start, T[1].end = S[1].end,
         \A xx \in lo .. hi - 1 : keys'[xx] = keys[xx] \/ xx \in S[1].start .. S[1].end - 1,
         NEW nn \in 2 .. Len(S) + 1, NEW ss \in Nat, NEW ee \in Nat, lo <= ss, ee <= hi,
         Sort!Prepared(S, nn, ss, ee)
  PROVE  Sort!Prepared(T, nn, ss, ee)'
<1>1. ASSUME NEW mm \in 1 .. nn - 1
      PROVE  T[mm].start = S[mm].start /\ T[mm].end = S[mm].end
  <2>1. Len(S) \in Nat /\ (mm = 1 \/ mm \in 2 .. Len(S))
    OBVIOUS
  <2> QED BY <2>1
<1>2. CASE \E mm \in 1 .. nn - 1 : S[mm].start = ss /\ S[mm].end = ee
  BY <1>1, <1>2 DEF Sort!Prepared
<1>3. CASE Sort!SortedOn(keys, ss, ee) /\ \A mm \in 1 .. nn - 1 : Sort!Apart(S[mm], ss, ee)
  <2>1. 1 \in 1 .. Len(S) /\ 1 \in 1 .. nn - 1
    OBVIOUS
  <2>2. S[1].start \in Nat /\ S[1].end \in Nat /\ Sort!Apart(S[1], ss, ee)
    BY <1>3, <2>1, CallOnStack
  <2>3. \A xx \in ss .. ee - 1 : keys'[xx] = keys[xx]
    <3>1. PICK s1 \in Nat, e1 \in Nat : s1 = S[1].start /\ e1 = S[1].end
      BY <2>2
    <3>2. e1 <= ss \/ s1 >= ee
      BY <2>2, <3>1 DEF Sort!Apart
    <3>3. \A xx \in ss .. ee - 1 : xx \in lo .. hi - 1 /\ xx \notin s1 .. e1 - 1
      BY <3>2
    <3> QED BY <3>1, <3>3
  <2>4. Sort!SortedOn(keys, ss, ee)'
    <3>1. \A xx \in ss .. ee - 1 : keys'[xx].index \in ss .. ee - 1
      BY <1>3, <2>3 DEF Sort!SortedOn
    <3>2. \A zz \in ss .. ee - 1 : \E xx \in ss .. ee - 1 : keys'[xx].index = zz
      BY <1>3, <2>3 DEF Sort!SortedOn
    <3>3. \A xx, yy \in ss .. ee - 1 : xx < yy => Sort!Precedes(keys'[xx], keys'[yy])
      BY <1>3, <2>3 DEF Sort!SortedOn
    <3> QED BY <3>1, <3>2, <3>3 DEF Sort!SortedOn, Sort!Precedes
  <2>5. \A mm \in 1 .. nn - 1 : Sort!Apart(T[mm], ss, ee)
    BY <1>1, <1>3 DEF Sort!Apart
  <2>6. (\A mm \in 1 .. nn - 1 : Sort!Apart(T[mm], ss, ee))'
    BY <2>5 DEF Sort!Apart
  <2> QED BY <2>4, <2>6 DEF Sort!Prepared
<1> QED BY <1>2, <1>3 DEF Sort!Prepared

LEMMA StackTop ==
  ASSUME NEW lo \in Nat, NEW hi \in Nat, NEW S \in Seq(Sort!Calls), NEW T \in Seq(Sort!Calls),
         S # <<>>, Sort!StackOk(S, lo, hi), Len(T) = Len(S),
         \A mm \in 2 .. Len(S) : T[mm] = S[mm],
         T[1].start = S[1].start, T[1].mid = S[1].mid, T[1].end = S[1].end,
         T[1].op = "merge" => S[1].op = "merge" /\ keys' = keys,
         Sort!CallOk(T[1])',
         \A xx \in lo .. hi - 1 : keys'[xx] = keys[xx] \/ xx \in S[1].start .. S[1].end - 1
  PROVE  Sort!StackOk(T, lo, hi)'
<1>1. 1 \in 1 .. Len(S) /\ Len(S) \in Nat
  OBVIOUS
<1>2. \A mm \in 1 .. Len(T) : T[mm].start = S[mm].start /\ T[mm].mid = S[mm].mid
                              /\ T[mm].end = S[mm].end
  OBVIOUS
<1>3. ASSUME NEW nn \in 2 .. Len(S)
      PROVE  /\ T[nn].op # "copy" /\ T[nn].k = T[nn].start /\ T[nn].j = T[nn].mid
             /\ T[nn].i = T[nn].start \/ T[nn].op = "sort"
  <2>1. nn \in 1 .. Len(S) /\ T[nn] = S[nn]
    BY <1>1
  <2>2. T[nn].op # "copy" /\ T[nn].k = T[nn].start /\ T[nn].j = T[nn].mid
    BY <2>1 DEF Sort!StackOk
  <2>3. S[nn] \in Sort!Calls /\ Sort!CallOk(S[nn])
    BY <2>1, CallOnStack
  <2>4. /\ T[nn].start \in Nat /\ T[nn].mid \in Nat /\ T[nn].i \in Nat
        /\ T[nn].op \in {"sort", "merge", "copy"}
    BY <2>1, <2>3 DEF Sort!Calls
  <2>5. T[nn].op = "merge" => T[nn].k = T[nn].i + T[nn].j - T[nn].mid
    BY <2>1, <2>3 DEF Sort!CallOk, Sort!Merging
  <2> QED BY <2>2, <2>4, <2>5
<1>4. \A mm \in 2 .. Len(S) : S[1].end <= S[mm].start \/ S[1].start >= S[mm].end \/ S[mm].op = "merge"
  BY <1>1 DEF Sort!StackOk, Sort!Nested, Sort!Apart
<1>5. ASSUME NEW nn \in 1 .. Len(T) PROVE Sort!CallOk(T[nn])' /\ Sort!Within(T[nn], lo, hi)'
  <2>1. S[nn] \in Sort!Calls /\ Sort!CallOk(S[nn]) /\ Sort!Within(S[nn], lo, hi)
    BY CallOnStack DEF Sort!Within
  <2>2. Sort!Within(T[nn], lo, hi)'
    BY <1>2, <2>1 DEF Sort!Within
  <2>3. CASE nn = 1
    BY <2>2, <2>3
  <2>4. CASE nn # 1
    <3>1. nn \in 2 .. Len(S) /\ T[nn] = S[nn]
      BY <2>4, <1>1
    <3>2. S[1].start \in Nat /\ S[1].end \in Nat /\ S[nn].start \in Nat /\ S[nn].mid \in Nat /\ S[nn].end \in Nat
          /\ lo <= S[nn].start /\ S[nn].end <= hi
      BY <1>1, <3>1, CallOnStack
    <3>3. CASE S[nn].op = "sort"
      <4>1. ASSUME NEW xx \in S[nn].start .. S[nn].end - 1 PROVE keys'[xx] = keys[xx]
        <5>1. S[1].end <= S[nn].start \/ S[1].start >= S[nn].end
          BY <3>1, <3>3, <1>4
        <5>2. xx \in lo .. hi - 1 /\ xx \notin S[1].start .. S[1].end - 1
          <6>1. PICK s1 \in Nat, e1 \in Nat, s2 \in Nat, e2 \in Nat :
                  s1 = S[1].start /\ e1 = S[1].end /\ s2 = S[nn].start /\ e2 = S[nn].end
            BY <3>2
          <6>2. (e1 <= s2 \/ s1 >= e2) /\ lo <= s2 /\ e2 <= hi /\ xx \in s2 .. e2 - 1
            BY <3>2, <5>1, <6>1
          <6>3. xx \in lo .. hi - 1 /\ xx \notin s1 .. e1 - 1
            BY <6>2
          <6> QED BY <6>1, <6>3
        <5> QED BY <5>2
      <4> QED BY <2>1, <2>2, <3>1, <3>3, <4>1 DEF Sort!CallOk, Sort!Untouched
    <3>4. CASE S[nn].op = "merge"
      <4>1. Sort!Merging(T[nn])'
        BY <3>1, <3>4, <1>3, <2>1, FreshMerge DEF Sort!CallOk
      <4> QED BY <2>1, <2>2, <3>1, <3>4, <4>1 DEF Sort!CallOk
    <3> QED BY <3>1, <3>3, <3>4, <1>3, <2>1 DEF Sort!Calls
  <2> QED BY <2>3, <2>4
<1>6. \A nn \in 1 .. Len(T) : \A mm \in 1 .. nn - 1 : Sort!Nested(T[mm], T[nn])'
  <2> SUFFICES ASSUME NEW nn \in 1 .. Len(T), NEW mm \in 1 .. nn - 1
               PROVE  Sort!Nested(T[mm], T[nn])'
    OBVIOUS
  <2>1. nn \in 1 .. Len(S) /\ mm \in 1 .. Len(S) /\ T[nn] = S[nn] /\ Sort!Nested(S[mm], S[nn])
    BY DEF Sort!StackOk
  <2> QED BY <1>2, <2>1 DEF Sort!Nested, Sort!Within, Sort!Apart
<1>7. ASSUME NEW nn \in 1 .. Len(T), T[nn].op = "merge"
      PROVE  Sort!Prepared(T, nn, T[nn].start, T[nn].mid)' /\ Sort!Prepared(T, nn, T[nn].mid, T[nn].end)'
  <2>1. S[nn].op = "merge"
    BY <1>7
  <2>2. Sort!Prepared(S, nn, T[nn].start, T[nn].mid) /\ Sort!Prepared(S, nn, T[nn].mid, T[nn].end)
    BY <1>2, <2>1 DEF Sort!StackOk
  <2>3. CASE nn = 1
    <3>1. 1 .. nn - 1 = {} /\ keys' = keys
      BY <2>3, <1>7
    <3> QED BY <2>2, <3>1 DEF Sort!Prepared, Sort!SortedOn, Sort!Precedes
  <2>4. CASE nn # 1
    <3>1. nn \in 2 .. Len(S) + 1 /\ T[nn].start \in Nat /\ T[nn].mid \in Nat /\ T[nn].end \in Nat
          /\ lo <= T[nn].start /\ T[nn].start <= T[nn].mid
          /\ T[nn].mid <= T[nn].end /\ T[nn].end <= hi
      BY <2>4, <1>2, CallOnStack
    <3>2. lo <= T[nn].mid /\ T[nn].mid <= hi
      BY <3>1
    <3> QED BY <2>2, <3>1, <3>2, PreparedKept
  <2> QED BY <2>3, <2>4
<1>8. Sort!Prepared(T, Len(T) + 1, lo, hi)'
  <2>1. Sort!Prepared(S, Len(S) + 1, lo, hi)
    BY DEF Sort!StackOk
  <2>2. Len(S) + 1 \in 2 .. Len(S) + 1 /\ lo <= lo /\ hi <= hi
    BY <1>1
  <2>3. Sort!Prepared(T, Len(S) + 1, lo, hi)'
    BY <2>1, <2>2, PreparedKept
  <2> QED BY <2>3
<1>9. \A nn \in 2 .. Len(T) : T[nn].op # "copy" /\ T[nn].k = T[nn].start /\ T[nn].j = T[nn].mid
  BY <1>3
<1> QED BY <1>5, <1>6, <1>7, <1>8, <1>9 DEF Sort!StackOk

\* The call on top is done: its range is sorted, and nobody comes back to it
\* before a caller that has been told so.
LEMMA StackPop ==
  ASSUME NEW lo \in Nat, NEW hi \in Nat, NEW S \in Seq(Sort!Calls), NEW T \in Seq(Sort!Calls),
         S # <<>>, Sort!StackOk(S, lo, hi), Len(T) = Len(S) - 1,
         \A mm \in 1 .. Len(S) - 1 : T[mm] = S[mm + 1],
         Sort!SortedOn(keys, S[1].start, S[1].end)
  PROVE  Sort!StackOk(T, lo, hi)
<1>1. /\ 1 \in 1 .. Len(S) /\ Len(S) \in Nat /\ Len(T) \in Nat
      /\ \A mm \in 1 .. Len(T) : mm + 1 \in 2 .. Len(S) /\ T[mm] = S[mm + 1]
  OBVIOUS
<1>2. ASSUME NEW nn \in 1 .. Len(S), NEW ss \in Nat, NEW ee \in Nat,
             Sort!Prepared(S, nn + 1, ss, ee),
             \A mm \in 2 .. nn : Sort!Nested(S[1], S[mm]) /\
               (Sort!Apart(S[mm], ss, ee) \/ Sort!Within(S[mm], ss, ee))
      PROVE  Sort!Prepared(T, nn, ss, ee)
  <2>1. CASE \E mm \in 2 .. nn : S[mm].start = ss /\ S[mm].end = ee
    <3>1. PICK mm \in 2 .. nn : S[mm].start = ss /\ S[mm].end = ee
      BY <2>1
    <3>2. mm - 1 \in 1 .. nn - 1 /\ T[mm - 1] = S[mm]
      BY <1>1
    <3> QED BY <3>1, <3>2 DEF Sort!Prepared
  <2>2. CASE ~ \E mm \in 2 .. nn : S[mm].start = ss /\ S[mm].end = ee
    <3>1. Sort!SortedOn(keys, ss, ee) /\ \A mm \in 2 .. nn : Sort!Apart(S[mm], ss, ee)
      <4>1. CASE S[1].start = ss /\ S[1].end = ee
        <5>1. ASSUME NEW mm \in 2 .. nn PROVE Sort!Apart(S[mm], ss, ee)
          <6>1. mm \in 1 .. Len(S) /\ ~(S[mm].start = ss /\ S[mm].end = ee)
            BY <2>2
          <6>2. S[mm].start \in Nat /\ S[mm].mid \in Nat /\ S[mm].end \in Nat
                /\ S[mm].start <= S[mm].mid /\ S[mm].mid <= S[mm].end
            BY <6>1, CallOnStack
          <6>3. Sort!Nested(S[1], S[mm])
                /\ (Sort!Apart(S[mm], ss, ee) \/ Sort!Within(S[mm], ss, ee))
            BY <1>2
          <6>4. PICK s1 \in Nat, m1 \in Nat, e1 \in Nat :
                  s1 = S[mm].start /\ m1 = S[mm].mid /\ e1 = S[mm].end
            BY <6>2
          <6>5. s1 <= m1 /\ m1 <= e1 /\ ~(s1 = ss /\ e1 = ee)
            BY <6>1, <6>2, <6>4
          <6>6. ee <= s1 \/ ss >= e1 \/ (s1 <= ss /\ ee <= m1) \/ (m1 <= ss /\ ee <= e1)
            BY <4>1, <6>3, <6>4 DEF Sort!Nested, Sort!Apart, Sort!Within
          <6>7. (e1 <= ss \/ s1 >= ee) \/ (ss <= s1 /\ e1 <= ee)
            BY <6>3, <6>4 DEF Sort!Apart, Sort!Within
          <6>8. e1 <= ss \/ s1 >= ee
            BY <6>5, <6>6, <6>7
          <6> QED BY <6>4, <6>8 DEF Sort!Apart
        <5> QED BY <4>1, <5>1
      <4>2. CASE ~(S[1].start = ss /\ S[1].end = ee)
        <5>1. \A mm \in 1 .. nn + 1 - 1 : ~(S[mm].start = ss /\ S[mm].end = ee)
          BY <2>2, <4>2
        <5>2. Sort!SortedOn(keys, ss, ee) /\ \A mm \in 1 .. nn + 1 - 1 : Sort!Apart(S[mm], ss, ee)
          BY <1>2, <5>1 DEF Sort!Prepared
        <5> QED BY <5>2
      <4> QED BY <4>1, <4>2
    <3>2. ASSUME NEW mm \in 1 .. nn - 1 PROVE Sort!Apart(T[mm], ss, ee)
      <4>1. mm \in 1 .. Len(T) /\ mm + 1 \in 2 .. nn
        BY <1>1
      <4> QED BY <1>1, <3>1, <4>1
    <3> QED BY <3>1, <3>2 DEF Sort!Prepared
  <2> QED BY <2>1, <2>2
<1>3. ASSUME NEW nn \in 1 .. Len(T) PROVE Sort!CallOk(T[nn]) /\ Sort!Within(T[nn], lo, hi)
  <2>1. nn + 1 \in 1 .. Len(S) /\ T[nn] = S[nn + 1]
    BY <1>1
  <2> QED BY <2>1 DEF Sort!StackOk
<1>4. ASSUME NEW nn \in 2 .. Len(T)
      PROVE  T[nn].op # "copy" /\ T[nn].k = T[nn].start /\ T[nn].j = T[nn].mid
  <2>1. nn + 1 \in 2 .. Len(S) /\ T[nn] = S[nn + 1]
    BY <1>1
  <2> QED BY <2>1 DEF Sort!StackOk
<1>5. ASSUME NEW nn \in 1 .. Len(T), NEW mm \in 1 .. nn - 1 PROVE Sort!Nested(T[mm], T[nn])
  <2>0. mm \in 1 .. Len(T) /\ nn + 1 \in 1 .. Len(S) /\ mm + 1 \in 1 .. (nn + 1) - 1
    BY <1>1
  <2>1. T[nn] = S[nn + 1] /\ T[mm] = S[mm + 1] /\ nn + 1 \in 1 .. Len(S)
        /\ mm + 1 \in 1 .. (nn + 1) - 1
    BY <1>1, <2>0
  <2> QED BY <2>1 DEF Sort!StackOk
<1>6. ASSUME NEW nn \in 1 .. Len(T), T[nn].op = "merge"
      PROVE  Sort!Prepared(T, nn, T[nn].start, T[nn].mid) /\ Sort!Prepared(T, nn, T[nn].mid, T[nn].end)
  <2>1. nn + 1 \in 1 .. Len(S) /\ T[nn] = S[nn + 1] /\ nn \in 1 .. Len(S)
    BY <1>1
  <2>2. T[nn].start \in Nat /\ T[nn].mid \in Nat /\ T[nn].end \in Nat
        /\ T[nn].start <= T[nn].mid /\ T[nn].mid <= T[nn].end
    <3>1. PICK kk \in 1 .. Len(S) : T[nn] = S[kk]
      BY <2>1
    <3>2. /\ S[kk].start \in Nat /\ S[kk].mid \in Nat /\ S[kk].end \in Nat
          /\ S[kk].start <= S[kk].mid /\ S[kk].mid <= S[kk].end
      BY CallOnStack
    <3> QED BY <3>1, <3>2
  <2>3. ASSUME NEW mm \in 2 .. nn
        PROVE  /\ Sort!Nested(S[1], S[mm])
               /\ Sort!Apart(S[mm], T[nn].start, T[nn].mid) \/ Sort!Within(S[mm], T[nn].start, T[nn].mid)
               /\ Sort!Apart(S[mm], T[nn].mid, T[nn].end) \/ Sort!Within(S[mm], T[nn].mid, T[nn].end)
    <3>1. mm \in 1 .. Len(S) /\ 1 \in 1 .. mm - 1 /\ mm \in 1 .. (nn + 1) - 1
      BY <2>1
    <3>2. Sort!Nested(S[1], S[mm]) /\ Sort!Nested(S[mm], T[nn])
      BY <2>1, <3>1 DEF Sort!StackOk
    <3>3. S[mm].start \in Nat /\ S[mm].end \in Nat
      BY <3>1, CallOnStack
    <3>4. PICK s2 \in Nat, e2 \in Nat, ss \in Nat, tt \in Nat, ee \in Nat :
            /\ s2 = S[mm].start /\ e2 = S[mm].end
            /\ ss = T[nn].start /\ tt = T[nn].mid /\ ee = T[nn].end
      BY <2>2, <3>3
    <3>5. ss <= tt /\ tt <= ee
      BY <2>2, <3>4
    <3>6. \/ e2 <= ss \/ s2 >= ee
          \/ ss <= s2 /\ e2 <= tt
          \/ tt <= s2 /\ e2 <= ee
      BY <3>2, <3>4 DEF Sort!Nested, Sort!Apart, Sort!Within
    <3>7. /\ (e2 <= ss \/ s2 >= tt) \/ (ss <= s2 /\ e2 <= tt)
          /\ (e2 <= tt \/ s2 >= ee) \/ (tt <= s2 /\ e2 <= ee)
      BY <3>5, <3>6
    <3> QED BY <3>2, <3>4, <3>7 DEF Sort!Apart, Sort!Within
  <2>4. Sort!Prepared(S, nn + 1, T[nn].start, T[nn].mid) /\ Sort!Prepared(S, nn + 1, T[nn].mid, T[nn].end)
    BY <2>1, <1>6 DEF Sort!StackOk
  <2> QED BY <2>1, <2>2, <2>3, <2>4, <1>2
<1>7. Sort!Prepared(T, Len(T) + 1, lo, hi)
  <2>1. Len(S) \in 1 .. Len(S) /\ Len(T) + 1 = Len(S)
    BY <1>1
  <2>2. \A mm \in 2 .. Len(S) : Sort!Nested(S[1], S[mm]) /\ Sort!Within(S[mm], lo, hi)
    BY <1>1 DEF Sort!StackOk
  <2>3. Sort!Prepared(S, Len(S) + 1, lo, hi)
    BY DEF Sort!StackOk
  <2> QED BY <2>1, <2>2, <2>3, <1>2
<1> QED BY <1>3, <1>4, <1>5, <1>6, <1>7 DEF Sort!StackOk
\* A call of merge_sort with more than one record becomes two calls and a merge.
LEMMA StackSplit ==
  ASSUME NEW lo \in Nat, NEW hi \in Nat, NEW S \in Seq(Sort!Calls), NEW T \in Seq(Sort!Calls),
         S # <<>>, Sort!StackOk(S, lo, hi), Len(T) = Len(S) + 2, S[1].op = "sort",
         NEW mid \in Nat, S[1].start < mid, mid < S[1].end,
         T[1] = Sort!Sort(S[1].start, mid), T[2] = Sort!Sort(mid, S[1].end),
         T[3] = Sort!Merge(S[1].start, mid, S[1].end),
         \A mm \in 4 .. Len(S) + 2 : T[mm] = S[mm - 2]
  PROVE  Sort!StackOk(T, lo, hi)
<1> DEFINE s1 == S[1].start
           e1 == S[1].end
<1>1. /\ 1 \in 1 .. Len(S) /\ Len(S) \in Nat
      /\ \A mm \in 4 .. Len(T) : mm - 2 \in 2 .. Len(S) /\ T[mm] = S[mm - 2]
      /\ \A mm \in 1 .. Len(T) : mm \in {1, 2, 3} \/ mm \in 4 .. Len(T)
  <2>1. 1 \in 1 .. Len(S) /\ Len(S) \in Nat
    OBVIOUS
  <2>2. PICK len \in Nat : len = Len(S) /\ Len(T) = len + 2
    BY <2>1
  <2>3. \A mm \in 4 .. len + 2 : mm - 2 \in 2 .. len
    BY <2>2
  <2>4. \A mm \in 1 .. len + 2 : mm \in {1, 2, 3} \/ mm \in 4 .. len + 2
    BY <2>2
  <2> QED BY <2>1, <2>2, <2>3, <2>4
<1>2. s1 \in Nat /\ e1 \in Nat /\ lo <= s1 /\ e1 <= hi /\ Sort!Untouched(s1, e1)
  BY <1>1, CallOnStack DEF Sort!CallOk
<1>3. /\ T[1].op = "sort" /\ T[1].start = s1 /\ T[1].mid = s1 /\ T[1].end = mid
      /\ T[2].op = "sort" /\ T[2].start = mid /\ T[2].mid = mid /\ T[2].end = e1
      /\ T[2].k = mid /\ T[2].j = mid
      /\ T[3].op = "merge" /\ T[3].start = s1 /\ T[3].mid = mid /\ T[3].end = e1
      /\ T[3].i = s1 /\ T[3].j = mid /\ T[3].k = s1
  BY DEF Sort!Sort, Sort!Merge
<1>4. ASSUME NEW nn \in 1 .. Len(T) PROVE Sort!CallOk(T[nn]) /\ Sort!Within(T[nn], lo, hi)
  <2>1. CASE nn = 1 \/ nn = 2
    <3>1. \A xx \in s1 .. mid - 1 : xx \in s1 .. e1 - 1
      BY <1>2
    <3>2. \A xx \in mid .. e1 - 1 : xx \in s1 .. e1 - 1
      BY <1>2
    <3>3. Sort!Untouched(s1, mid) /\ Sort!Untouched(mid, e1)
      BY <1>2, <3>1, <3>2 DEF Sort!Untouched
    <3>4. Sort!CallOk(T[1]) /\ Sort!Within(T[1], lo, hi)
      BY <3>3, <1>2, <1>3 DEF Sort!CallOk, Sort!Within
    <3>5. Sort!CallOk(T[2]) /\ Sort!Within(T[2], lo, hi)
      BY <3>3, <1>2, <1>3 DEF Sort!CallOk, Sort!Within
    <3> QED BY <2>1, <3>4, <3>5
  <2>2. CASE nn = 3
    <3>1. T[3] \in Sort!Calls
      BY <2>2
    <3>2. Sort!Merging(T[3])
      <4>1. /\ T[3].start <= T[3].mid /\ T[3].mid <= T[3].end
            /\ T[3].i = T[3].start /\ T[3].j = T[3].mid /\ T[3].k = T[3].start
        BY <1>2, <1>3
      <4> QED BY <3>1, <4>1, FreshMerge
    <3> QED BY <2>2, <3>2, <1>2, <1>3 DEF Sort!CallOk, Sort!Within
  <2>3. CASE nn \in 4 .. Len(T)
    <3>1. nn - 2 \in 1 .. Len(S) /\ T[nn] = S[nn - 2]
      BY <1>1, <2>3
    <3> QED BY <3>1 DEF Sort!StackOk
  <2> QED BY <1>1, <2>1, <2>2, <2>3
<1>5. ASSUME NEW nn \in 2 .. Len(T)
      PROVE  T[nn].op # "copy" /\ T[nn].k = T[nn].start /\ T[nn].j = T[nn].mid
  <2>1. CASE nn \in 4 .. Len(T)
    <3>1. nn - 2 \in 2 .. Len(S) /\ T[nn] = S[nn - 2]
      BY <1>1, <2>1
    <3> QED BY <3>1 DEF Sort!StackOk
  <2>2. CASE nn \in {2, 3}
    BY <2>2, <1>3
  <2> QED BY <1>1, <2>1, <2>2
\* the three calls are parts of the one they replace
<1>6. ASSUME NEW mm \in {1, 2, 3}
      PROVE  T[mm].start \in Nat /\ T[mm].end \in Nat /\ s1 <= T[mm].start /\ T[mm].end <= e1
             /\ T[mm].start <= T[mm].end
  <2>1. PICK aa \in Nat, bb \in Nat : aa = s1 /\ bb = e1
    BY <1>2
  <2>2. aa < mid /\ mid < bb
    BY <2>1
  <2>3. /\ T[1].start = aa /\ T[1].end = mid /\ T[2].start = mid /\ T[2].end = bb
        /\ T[3].start = aa /\ T[3].end = bb
    BY <1>3, <2>1
  <2>4. aa <= mid /\ mid <= bb /\ aa <= bb
    BY <2>2
  <2> HIDE DEF s1, e1
  <2> QED BY <2>1, <2>3, <2>4
<1>7. ASSUME NEW mm \in {1, 2, 3}, NEW ss \in Nat, NEW ee \in Nat, Sort!Apart(S[1], ss, ee)
      PROVE  Sort!Apart(T[mm], ss, ee)
  <2>1. T[mm].start \in Nat /\ T[mm].end \in Nat /\ s1 <= T[mm].start /\ T[mm].end <= e1
    BY <1>6
  <2>2. e1 <= ss \/ s1 >= ee
    BY <1>7 DEF Sort!Apart
  <2>3. PICK aa \in Nat, bb \in Nat, cc \in Nat, dd \in Nat :
          aa = s1 /\ bb = e1 /\ cc = T[mm].start /\ dd = T[mm].end
    BY <2>1, <1>2
  <2>4. aa <= cc /\ dd <= bb /\ (bb <= ss \/ aa >= ee)
    BY <2>1, <2>2, <2>3
  <2>5. dd <= ss \/ cc >= ee
    BY <2>4
  <2> QED BY <2>3, <2>5 DEF Sort!Apart
<1>8. ASSUME NEW nn \in 1 .. Len(T), NEW mm \in 1 .. nn - 1 PROVE Sort!Nested(T[mm], T[nn])
  <2>1. CASE nn \in 4 .. Len(T) /\ mm \in 4 .. Len(T)
    <3>1. /\ nn - 2 \in 1 .. Len(S) /\ mm - 2 \in 1 .. (nn - 2) - 1
          /\ T[nn] = S[nn - 2] /\ T[mm] = S[mm - 2]
      BY <1>1, <2>1
    <3> QED BY <3>1 DEF Sort!StackOk
  <2>2. CASE nn \in 4 .. Len(T) /\ mm \in {1, 2, 3}
    <3>1. nn - 2 \in 1 .. Len(S) /\ 1 \in 1 .. (nn - 2) - 1 /\ T[nn] = S[nn - 2]
      BY <1>1, <2>2
    <3>2. Sort!Nested(S[1], T[nn])
      BY <3>1 DEF Sort!StackOk
    <3>3. T[nn].start \in Nat /\ T[nn].mid \in Nat /\ T[nn].end \in Nat
      <4>1. PICK kk \in 1 .. Len(S) : T[nn] = S[kk]
        BY <3>1
      <4>2. S[kk].start \in Nat /\ S[kk].mid \in Nat /\ S[kk].end \in Nat
        BY CallOnStack
      <4> QED BY <4>1, <4>2
    <3>4. Sort!Apart(S[1], T[nn].start, T[nn].end) => Sort!Apart(T[mm], T[nn].start, T[nn].end)
      BY <2>2, <3>3, <1>7
    <3>5. T[mm].start \in Nat /\ T[mm].end \in Nat /\ s1 <= T[mm].start /\ T[mm].end <= e1
      BY <2>2, <1>6
    <3>6. /\ Sort!Within(S[1], T[nn].start, T[nn].mid) => Sort!Within(T[mm], T[nn].start, T[nn].mid)
          /\ Sort!Within(S[1], T[nn].mid, T[nn].end) => Sort!Within(T[mm], T[nn].mid, T[nn].end)
      <4>1. PICK aa \in Nat, bb \in Nat, cc \in Nat, dd \in Nat :
              aa = s1 /\ bb = e1 /\ cc = T[mm].start /\ dd = T[mm].end
        BY <3>5, <1>2
      <4>2. aa <= cc /\ dd <= bb
        BY <3>5, <4>1
      <4>3. \A ss, ee \in Nat : ss <= aa /\ bb <= ee => ss <= cc /\ dd <= ee
        BY <4>2
      <4> QED BY <3>3, <4>1, <4>3 DEF Sort!Within
    <3> QED BY <3>2, <3>4, <3>6 DEF Sort!Nested
  <2>3. CASE nn \in {1, 2, 3}
    <3>1. (mm = 1 /\ nn = 2) \/ (mm = 1 /\ nn = 3) \/ (mm = 2 /\ nn = 3)
      BY <2>3
    <3> QED BY <3>1, <1>2, <1>3 DEF Sort!Nested, Sort!Apart, Sort!Within
  <2>4. mm \in 1 .. Len(T) /\ mm < nn
    BY <1>1
  <2> QED BY <1>1, <2>1, <2>2, <2>3, <2>4
<1>9. ASSUME NEW nn \in 2 .. Len(S) + 1, NEW ss \in Nat, NEW ee \in Nat, Sort!Prepared(S, nn, ss, ee)
      PROVE  Sort!Prepared(T, nn + 2, ss, ee)
  <2>1. CASE \E mm \in 1 .. nn - 1 : S[mm].start = ss /\ S[mm].end = ee
    <3>1. PICK mm \in 1 .. nn - 1 : S[mm].start = ss /\ S[mm].end = ee
      BY <2>1
    <3>2. CASE mm = 1
      <4>1. 3 \in 1 .. (nn + 2) - 1
        OBVIOUS
      <4> QED BY <3>1, <3>2, <4>1, <1>3 DEF Sort!Prepared
    <3>3. CASE mm # 1
      <4>1. mm + 2 \in 1 .. (nn + 2) - 1 /\ mm + 2 \in 4 .. Len(T) /\ (mm + 2) - 2 = mm
        BY <1>1, <3>3
      <4> QED BY <3>1, <4>1, <1>1 DEF Sort!Prepared
    <3> QED BY <3>2, <3>3
  <2>2. CASE Sort!SortedOn(keys, ss, ee) /\ \A mm \in 1 .. nn - 1 : Sort!Apart(S[mm], ss, ee)
    <3>1. ASSUME NEW mm \in 1 .. (nn + 2) - 1 PROVE Sort!Apart(T[mm], ss, ee)
      <4>1. CASE mm \in {1, 2, 3}
        <5>1. 1 \in 1 .. nn - 1
          OBVIOUS
        <5> QED BY <2>2, <4>1, <5>1, <1>7
      <4>2. CASE mm \in 4 .. Len(T)
        <5>1. mm - 2 \in 1 .. nn - 1 /\ T[mm] = S[mm - 2]
          BY <1>1, <4>2
        <5> QED BY <2>2, <5>1
      <4>3. mm \in 1 .. Len(T)
        <5>1. PICK ls \in Nat : ls = Len(S) /\ Len(T) = ls + 2
          BY <1>1
        <5>2. mm \in 1 .. ls + 2
          BY <5>1
        <5> QED BY <5>1, <5>2
      <4> QED BY <1>1, <4>1, <4>2, <4>3
    <3> QED BY <2>2, <3>1 DEF Sort!Prepared
  <2> QED BY <1>9, <2>1, <2>2 DEF Sort!Prepared
<1>10. ASSUME NEW nn \in 1 .. Len(T), T[nn].op = "merge"
       PROVE  Sort!Prepared(T, nn, T[nn].start, T[nn].mid) /\ Sort!Prepared(T, nn, T[nn].mid, T[nn].end)
  <2>1. CASE nn = 3
    <3>1. 1 \in 1 .. nn - 1 /\ 2 \in 1 .. nn - 1
      BY <2>1
    <3> QED BY <2>1, <3>1, <1>3 DEF Sort!Prepared
  <2>2. CASE nn \in 4 .. Len(T)
    <3>1. nn - 2 \in 2 .. Len(S) + 1 /\ nn - 2 \in 1 .. Len(S) /\ T[nn] = S[nn - 2] /\ (nn - 2) + 2 = nn
      BY <1>1, <2>2
    <3>2. T[nn].start \in Nat /\ T[nn].mid \in Nat /\ T[nn].end \in Nat
      <4>1. PICK kk \in 1 .. Len(S) : T[nn] = S[kk]
        BY <3>1
      <4>2. S[kk].start \in Nat /\ S[kk].mid \in Nat /\ S[kk].end \in Nat
        BY CallOnStack
      <4> QED BY <4>1, <4>2
    <3>3. Sort!Prepared(S, nn - 2, T[nn].start, T[nn].mid) /\ Sort!Prepared(S, nn - 2, T[nn].mid, T[nn].end)
      BY <3>1, <1>10 DEF Sort!StackOk
    <3>4. Sort!Prepared(T, (nn - 2) + 2, T[nn].start, T[nn].mid)
          /\ Sort!Prepared(T, (nn - 2) + 2, T[nn].mid, T[nn].end)
      BY <3>1, <3>2, <3>3, <1>9
    <3> QED BY <3>1, <3>4
  <2> QED BY <1>1, <1>3, <1>10, <2>1, <2>2
<1>11. Sort!Prepared(T, Len(T) + 1, lo, hi)
  <2>1. Sort!Prepared(S, Len(S) + 1, lo, hi)
    BY DEF Sort!StackOk
  <2>2. Len(S) + 1 \in 2 .. Len(S) + 1 /\ (Len(S) + 1) + 2 = Len(T) + 1
    BY <1>1
  <2>3. Sort!Prepared(T, (Len(S) + 1) + 2, lo, hi)
    BY <2>1, <2>2, <1>9
  <2> QED BY <2>2, <2>3
<1> QED BY <1>4, <1>5, <1>8, <1>10, <1>11 DEF Sort!StackOk

\* What happens in other segments does not matter.
LEMMA StackElsewhere ==
  ASSUME NEW lo \in Nat, NEW hi \in Nat, NEW S \in Seq(Sort!Calls), Sort!StackOk(S, lo, hi),
         \A xx \in lo .. hi - 1 : keys'[xx] = keys[xx] /\ temp'[xx] = temp[xx]
  PROVE  Sort!StackOk(S, lo, hi)'
<1>1. ASSUME NEW f, NEW g, NEW ss \in Nat, NEW ee \in Nat, lo <= ss, ee <= hi,
             \A xx \in lo .. hi - 1 : g[xx] = f[xx], Sort!SortedOn(f, ss, ee)
      PROVE  Sort!SortedOn(g, ss, ee)
  <2>1. \A xx \in ss .. ee - 1 : g[xx] = f[xx]
    BY <1>1
  <2>2. \A xx \in ss .. ee - 1 : g[xx].index \in ss .. ee - 1
    BY <1>1, <2>1 DEF Sort!SortedOn
  <2>3. \A zz \in ss .. ee - 1 : \E xx \in ss .. ee - 1 : g[xx].index = zz
    BY <1>1, <2>1 DEF Sort!SortedOn
  <2>4. \A xx, yy \in ss .. ee - 1 : xx < yy => Sort!Precedes(g[xx], g[yy])
    BY <1>1, <2>1 DEF Sort!SortedOn
  <2> QED BY <2>2, <2>3, <2>4 DEF Sort!SortedOn
<1>2. ASSUME NEW nn \in 1 .. Len(S) PROVE Sort!CallOk(S[nn])' /\ Sort!Within(S[nn], lo, hi)'
  <2>1. /\ S[nn] \in Sort!Calls /\ Sort!CallOk(S[nn])
        /\ lo <= S[nn].start /\ S[nn].start <= S[nn].mid
        /\ S[nn].mid <= S[nn].end /\ S[nn].end <= hi
    BY CallOnStack
  <2>2. /\ S[nn].start \in Nat /\ S[nn].mid \in Nat /\ S[nn].end \in Nat
        /\ S[nn].i \in Nat /\ S[nn].j \in Nat /\ S[nn].k \in Nat
    BY <2>1 DEF Sort!Calls
  <2>3. \A xx \in S[nn].start .. S[nn].end - 1 : keys'[xx] = keys[xx] /\ temp'[xx] = temp[xx]
    <3>1. PICK ss \in Nat, ee \in Nat : ss = S[nn].start /\ ee = S[nn].end
      BY <2>2
    <3>2. lo <= ss /\ ee <= hi
      BY <2>1, <3>1
    <3>3. \A xx \in ss .. ee - 1 : xx \in lo .. hi - 1
      BY <3>2
    <3> QED BY <3>1, <3>3
  <2>4. S[nn].op = "sort" => Sort!Untouched(S[nn].start, S[nn].end)'
    BY <2>1, <2>3 DEF Sort!CallOk, Sort!Untouched
  <2>5. ASSUME S[nn].op = "merge" PROVE Sort!Merging(S[nn])'
    <3> DEFINE gone == (S[nn].start .. S[nn].i - 1) \cup (S[nn].mid .. S[nn].j - 1)
               left == (S[nn].i .. S[nn].mid - 1) \cup (S[nn].j .. S[nn].end - 1)
               done == S[nn].start .. S[nn].k - 1
    <3>1. Sort!Merging(S[nn])
      BY <2>1, <2>5 DEF Sort!CallOk
    <3>2. /\ S[nn].start <= S[nn].i /\ S[nn].i <= S[nn].mid
          /\ S[nn].mid <= S[nn].j /\ S[nn].j <= S[nn].end
          /\ S[nn].k = S[nn].i + S[nn].j - S[nn].mid
      BY <3>1 DEF Sort!Merging
    <3>3. /\ \A xx \in gone : keys'[xx] = keys[xx]
          /\ \A xx \in left : keys'[xx] = keys[xx]
          /\ \A xx \in done : temp'[xx] = temp[xx]
      <4>1. PICK aa \in Nat, bb \in Nat, cc \in Nat, ii \in Nat, jj \in Nat, kk \in Nat :
              /\ aa = S[nn].start /\ bb = S[nn].mid /\ cc = S[nn].end
              /\ ii = S[nn].i /\ jj = S[nn].j /\ kk = S[nn].k
        BY <2>2
      <4>2. aa <= ii /\ ii <= bb /\ bb <= jj /\ jj <= cc /\ kk = ii + jj - bb
        BY <3>2, <4>1
      <4>3. /\ \A xx \in (aa .. ii - 1) \cup (bb .. jj - 1) : xx \in aa .. cc - 1
            /\ \A xx \in (ii .. bb - 1) \cup (jj .. cc - 1) : xx \in aa .. cc - 1
            /\ \A xx \in aa .. kk - 1 : xx \in aa .. cc - 1
        BY <4>2
      <4> QED BY <2>3, <4>1, <4>3
    <3>4. /\ \A xx \in done : \E yy \in gone : temp[xx] = keys[yy]
          /\ \A yy \in gone : \E xx \in done : temp[xx] = keys[yy]
          /\ \A xx, yy \in done : xx < yy => Sort!Precedes(temp[xx], temp[yy])
          /\ \A xx \in done, yy \in left : Sort!Precedes(temp[xx], keys[yy])
      BY <3>1 DEF Sort!Merging
    <3> HIDE DEF gone, left, done
    <3>5. /\ \A xx \in done : \E yy \in gone : temp'[xx] = keys'[yy]
          /\ \A yy \in gone : \E xx \in done : temp'[xx] = keys'[yy]
          /\ \A xx, yy \in done : xx < yy => Sort!Precedes(temp'[xx], temp'[yy])
          /\ \A xx \in done, yy \in left : Sort!Precedes(temp'[xx], keys'[yy])
      BY <3>3, <3>4
    <3> QED BY <3>2, <3>5 DEF Sort!Merging, Sort!Precedes, gone, left, done
  <2>6. ASSUME S[nn].op = "copy" PROVE Sort!Copying(S[nn])'
    <3>1. Sort!Copying(S[nn])
      BY <2>1, <2>6 DEF Sort!CallOk
    <3>2. Sort!SortedOn(temp', S[nn].start, S[nn].end)
      BY <1>1, <2>1, <2>2, <3>1 DEF Sort!Copying
    <3> QED BY <2>2, <2>3, <3>1, <3>2 DEF Sort!Copying, Sort!SortedOn, Sort!Precedes
  <2> QED BY <2>1, <2>4, <2>5, <2>6 DEF Sort!CallOk, Sort!Within
<1>3. ASSUME NEW nn, NEW ss \in Nat, NEW ee \in Nat, lo <= ss, ee <= hi, Sort!Prepared(S, nn, ss, ee)
      PROVE  Sort!Prepared(S, nn, ss, ee)'
  <2>1. ASSUME Sort!SortedOn(keys, ss, ee) PROVE Sort!SortedOn(keys, ss, ee)'
    <3>1. PICK f, g : f = keys /\ g = keys'
      OBVIOUS
    <3>2. Sort!SortedOn(g, ss, ee)
      BY <1>1, <1>3, <2>1, <3>1
    <3> QED BY <3>1, <3>2 DEF Sort!SortedOn, Sort!Precedes
  <2> QED BY <1>3, <2>1 DEF Sort!Prepared, Sort!Apart
<1>4. ASSUME NEW nn \in 1 .. Len(S), S[nn].op = "merge"
      PROVE  Sort!Prepared(S, nn, S[nn].start, S[nn].mid)' /\ Sort!Prepared(S, nn, S[nn].mid, S[nn].end)'
  <2>1. /\ S[nn].start \in Nat /\ S[nn].mid \in Nat /\ S[nn].end \in Nat
        /\ lo <= S[nn].start /\ lo <= S[nn].mid /\ S[nn].mid <= hi /\ S[nn].end <= hi
    <3>1. /\ S[nn].start \in Nat /\ S[nn].mid \in Nat /\ S[nn].end \in Nat
          /\ lo <= S[nn].start /\ S[nn].start <= S[nn].mid
          /\ S[nn].mid <= S[nn].end /\ S[nn].end <= hi
      BY CallOnStack
    <3>2. PICK ss \in Nat, tt \in Nat, ee \in Nat :
            ss = S[nn].start /\ tt = S[nn].mid /\ ee = S[nn].end
      BY <3>1
    <3>3. lo <= ss /\ ss <= tt /\ tt <= ee /\ ee <= hi
      BY <3>1, <3>2
    <3>4. lo <= tt /\ tt <= hi
      BY <3>2, <3>3
    <3> QED BY <3>1, <3>2, <3>4
  <2>2. Sort!Prepared(S, nn, S[nn].start, S[nn].mid) /\ Sort!Prepared(S, nn, S[nn].mid, S[nn].end)
    BY <1>4 DEF Sort!StackOk
  <2> QED BY <2>1, <2>2, <1>3
<1>5. Sort!Prepared(S, Len(S) + 1, lo, hi)'
  BY <1>3 DEF Sort!StackOk
<1>6. (\A nn \in 1 .. Len(S) : \A mm \in 1 .. nn - 1 : Sort!Nested(S[mm], S[nn]))'
  BY DEF Sort!StackOk, Sort!Nested, Sort!Apart, Sort!Within
<1> QED BY <1>2, <1>4, <1>5, <1>6 DEF Sort!StackOk
-----------------------------------------------------------------------------
(* One call of merge.                                                      *)
(* The next record precedes what is left: nothing there is smaller, and of *)
(* equal keys the left half's index is.                                    *)
LEMMA NextPrecedes ==
  ASSUME NEW ss \in Nat, NEW mm \in Nat, NEW ee \in Nat, ss <= mm, mm <= ee,
         \A xx \in ss .. ee - 1 : keys[xx] \in Sort!Records,
         Sort!SortedOn(keys, ss, mm), Sort!SortedOn(keys, mm, ee),
         NEW ii \in ss .. mm, NEW jj \in mm .. ee
  PROVE  /\ ii < mm /\ (jj < ee => keys[ii].key <= keys[jj].key)
              => /\ \A yy \in ii + 1 .. mm - 1 : Sort!Precedes(keys[ii], keys[yy])
                 /\ \A yy \in jj .. ee - 1 : Sort!Precedes(keys[ii], keys[yy])
         /\ jj < ee /\ (ii < mm => ~ (keys[ii].key <= keys[jj].key))
              => /\ \A yy \in ii .. mm - 1 : Sort!Precedes(keys[jj], keys[yy])
                 /\ \A yy \in jj + 1 .. ee - 1 : Sort!Precedes(keys[jj], keys[yy])
<1>0. \A xx \in ss .. ee - 1 : keys[xx] \in Sort!Records
  OBVIOUS
<1>1. \A xx \in ss .. ee - 1 : keys[xx].key \in Int /\ keys[xx].index \in Int
  BY <1>0 DEF Sort!Records
<1>2. /\ \A xx, yy \in ss .. mm - 1 : xx < yy => Sort!Precedes(keys[xx], keys[yy])
      /\ \A xx \in ss .. mm - 1 : keys[xx].index \in ss .. mm - 1
      /\ \A xx, yy \in mm .. ee - 1 : xx < yy => Sort!Precedes(keys[xx], keys[yy])
      /\ \A xx \in mm .. ee - 1 : keys[xx].index \in mm .. ee - 1
  BY DEF Sort!SortedOn
<1>3. ASSUME ii < mm, jj < ee => keys[ii].key <= keys[jj].key
      PROVE  /\ \A yy \in ii + 1 .. mm - 1 : Sort!Precedes(keys[ii], keys[yy])
             /\ \A yy \in jj .. ee - 1 : Sort!Precedes(keys[ii], keys[yy])
  <2>1. ASSUME NEW yy \in ii + 1 .. mm - 1 PROVE Sort!Precedes(keys[ii], keys[yy])
    <3>1. ii \in ss .. mm - 1 /\ yy \in ss .. mm - 1 /\ ii < yy
      BY <1>3
    <3> QED BY <3>1, <1>2, <1>3
  <2>2. ASSUME NEW yy \in jj .. ee - 1 PROVE Sort!Precedes(keys[ii], keys[yy])
    <3>1. /\ jj < ee /\ ii \in ss .. mm - 1 /\ jj \in mm .. ee - 1 /\ yy \in mm .. ee - 1
          /\ jj = yy \/ jj < yy
          /\ ii \in ss .. ee - 1 /\ jj \in ss .. ee - 1 /\ yy \in ss .. ee - 1
      BY <1>3
    <3>2. keys[ii].index < keys[jj].index
      BY <1>2, <3>1
    <3>3. Sort!Precedes(keys[ii], keys[jj])
      BY <1>1, <1>3, <3>1, <3>2 DEF Sort!Precedes
    <3>4. jj = yy \/ Sort!Precedes(keys[jj], keys[yy])
      BY <1>2, <3>1
    <3> QED BY <1>0, <1>3, <3>1, <3>3, <3>4, PrecedesTransitive
  <2> QED BY <2>1, <2>2
<1>4. ASSUME jj < ee, ii < mm => ~ (keys[ii].key <= keys[jj].key)
      PROVE  /\ \A yy \in ii .. mm - 1 : Sort!Precedes(keys[jj], keys[yy])
             /\ \A yy \in jj + 1 .. ee - 1 : Sort!Precedes(keys[jj], keys[yy])
  <2>1. ASSUME NEW yy \in jj + 1 .. ee - 1 PROVE Sort!Precedes(keys[jj], keys[yy])
    <3>1. jj \in mm .. ee - 1 /\ yy \in mm .. ee - 1 /\ jj < yy
      BY <1>4
    <3> QED BY <3>1, <1>2, <1>4
  <2>2. ASSUME NEW yy \in ii .. mm - 1 PROVE Sort!Precedes(keys[jj], keys[yy])
    <3>1. /\ ii < mm /\ ii \in ss .. mm - 1 /\ yy \in ss .. mm - 1
          /\ ii = yy \/ ii < yy
          /\ ii \in ss .. ee - 1 /\ jj \in ss .. ee - 1 /\ yy \in ss .. ee - 1
      BY <1>4
    <3>2. keys[ii].key \in Int /\ keys[jj].key \in Int /\ ~ (keys[ii].key <= keys[jj].key)
      BY <1>1, <1>4, <3>1
    <3>3. Sort!Precedes(keys[jj], keys[ii])
      BY <3>2 DEF Sort!Precedes
    <3>4. ii = yy \/ Sort!Precedes(keys[ii], keys[yy])
      BY <1>2, <3>1
    <3> QED BY <1>0, <1>4, <3>1, <3>3, <3>4, PrecedesTransitive
  <2> QED BY <2>1, <2>2
<1> QED BY <1>3, <1>4

\* merge moves a record.
LEMMA MergeMoves ==
  ASSUME NEW nn \in Nat, keys \in [0 .. nn - 1 -> Sort!Records],
         temp \in [0 .. nn - 1 -> Sort!Records],
         NEW cc \in Sort!Calls, NEW dd \in Sort!Calls, cc.start <= cc.mid, cc.mid <= cc.end,
         cc.end <= nn, Sort!SortedOn(keys, cc.start, cc.mid), Sort!SortedOn(keys, cc.mid, cc.end),
         Sort!Merging(cc), NEW src \in Nat,
         \/ /\ cc.i < cc.mid /\ (cc.j < cc.end => keys[cc.i].key <= keys[cc.j].key)
            /\ src = cc.i /\ dd.i = cc.i + 1 /\ dd.j = cc.j
         \/ /\ cc.j < cc.end /\ (cc.i < cc.mid => ~ (keys[cc.i].key <= keys[cc.j].key))
            /\ src = cc.j /\ dd.i = cc.i /\ dd.j = cc.j + 1,
         dd.k = cc.k + 1, dd.start = cc.start, dd.mid = cc.mid, dd.end = cc.end,
         keys' = keys, temp' = [temp EXCEPT ![cc.k] = keys[src]]
  PROVE  Sort!Merging(dd)' /\ cc.k \in cc.start .. cc.end - 1 /\ src \in 0 .. nn - 1
<1>1. PICK ss \in Nat, mm \in Nat, ee \in Nat, ii \in Nat, jj \in Nat, kk \in Nat,
           i2 \in Nat, j2 \in Nat, k2 \in Nat :
        /\ ss = cc.start /\ mm = cc.mid /\ ee = cc.end /\ ii = cc.i /\ jj = cc.j /\ kk = cc.k
        /\ i2 = dd.i /\ j2 = dd.j /\ k2 = dd.k
  BY DEF Sort!Calls
<1>2. /\ ss <= ii /\ ii <= mm /\ mm <= jj /\ jj <= ee /\ kk = ii + jj - mm /\ k2 = kk + 1 /\ ee <= nn
      /\ \/ /\ ii < mm /\ (jj < ee => keys[ii].key <= keys[jj].key)
            /\ src = ii /\ i2 = ii + 1 /\ j2 = jj
         \/ /\ jj < ee /\ (ii < mm => ~ (keys[ii].key <= keys[jj].key))
            /\ src = jj /\ i2 = ii /\ j2 = jj + 1
  BY <1>1 DEF Sort!Merging
<1> DEFINE gone  == (ss .. ii - 1) \cup (mm .. jj - 1)
           left  == (ii .. mm - 1) \cup (jj .. ee - 1)
           done  == ss .. kk - 1
           gone2 == (ss .. i2 - 1) \cup (mm .. j2 - 1)
           left2 == (i2 .. mm - 1) \cup (j2 .. ee - 1)
           done2 == ss .. k2 - 1
<1>3. /\ \A xx \in done : \E yy \in gone : temp[xx] = keys[yy]
      /\ \A yy \in gone : \E xx \in done : temp[xx] = keys[yy]
      /\ \A xx, yy \in done : xx < yy => Sort!Precedes(temp[xx], temp[yy])
      /\ \A xx \in done, yy \in left : Sort!Precedes(temp[xx], keys[yy])
  BY <1>1 DEF Sort!Merging
<1>4. /\ kk \in ss .. ee - 1 /\ kk \in 0 .. nn - 1 /\ src \in 0 .. nn - 1 /\ src \in left
      /\ gone2 = gone \cup {src} /\ left2 \subseteq left /\ done2 = done \cup {kk}
      /\ \A xx \in done : xx # kk /\ xx < kk /\ xx \in 0 .. nn - 1
      /\ ss <= i2 /\ i2 <= mm /\ mm <= j2 /\ j2 <= ee /\ k2 = i2 + j2 - mm
  <2>1. /\ kk \in ss .. ee - 1 /\ kk \in 0 .. nn - 1 /\ src \in 0 .. nn - 1
        /\ \A xx \in done : xx # kk /\ xx < kk /\ xx \in 0 .. nn - 1
        /\ ss <= i2 /\ i2 <= mm /\ mm <= j2 /\ j2 <= ee /\ k2 = i2 + j2 - mm
    BY <1>2
  <2>2. src \in left /\ left2 \subseteq left
    BY <1>2
  <2>3. gone2 = gone \cup {src}
    BY <1>2
  <2>4. done2 = done \cup {kk}
    <3>1. k2 = kk + 1 /\ ss <= kk
      BY <1>2
    <3> QED BY <3>1
  <2> QED BY <2>1, <2>2, <2>3, <2>4
<1>5. \A yy \in left2 : Sort!Precedes(keys[src], keys[yy])
  <2>1. /\ Sort!SortedOn(keys, ss, mm) /\ Sort!SortedOn(keys, mm, ee) /\ ss <= mm /\ mm <= ee
        /\ ii \in ss .. mm /\ jj \in mm .. ee
    BY <1>1, <1>2
  <2>0. \A xx \in ss .. ee - 1 : keys[xx] \in Sort!Records
    BY <1>2
  <2>2. /\ ii < mm /\ (jj < ee => keys[ii].key <= keys[jj].key)
             => /\ \A yy \in ii + 1 .. mm - 1 : Sort!Precedes(keys[ii], keys[yy])
                /\ \A yy \in jj .. ee - 1 : Sort!Precedes(keys[ii], keys[yy])
        /\ jj < ee /\ (ii < mm => ~ (keys[ii].key <= keys[jj].key))
             => /\ \A yy \in ii .. mm - 1 : Sort!Precedes(keys[jj], keys[yy])
                /\ \A yy \in jj + 1 .. ee - 1 : Sort!Precedes(keys[jj], keys[yy])
    BY <2>0, <2>1, NextPrecedes
  <2> QED BY <1>2, <2>2
<1>6. temp'[kk] = keys[src] /\ \A xx \in done : temp'[xx] = temp[xx]
  BY <1>1, <1>4
<1> HIDE DEF gone, left, done, gone2, left2, done2
<1>7. \A xx \in done2 : \E yy \in gone2 : temp'[xx] = keys[yy]
  BY <1>3, <1>4, <1>6
<1>8. \A yy \in gone2 : \E xx \in done2 : temp'[xx] = keys[yy]
  <2> SUFFICES ASSUME NEW yy \in gone2 PROVE \E xx \in done2 : temp'[xx] = keys[yy]
    OBVIOUS
  <2>1. CASE yy = src
    BY <1>4, <1>6, <2>1
  <2>2. CASE yy \in gone
    <3>1. PICK xx \in done : temp[xx] = keys[yy]
      BY <1>3, <2>2
    <3>2. xx \in done2 /\ temp'[xx] = temp[xx]
      BY <1>4, <1>6
    <3> QED BY <3>1, <3>2
  <2> QED BY <1>4, <2>1, <2>2
<1>9. \A xx, yy \in done2 : xx < yy => Sort!Precedes(temp'[xx], temp'[yy])
  <2> SUFFICES ASSUME NEW xx \in done2, NEW yy \in done2, xx < yy
               PROVE  Sort!Precedes(temp'[xx], temp'[yy])
    OBVIOUS
  <2>1. xx \in done
    <3>1. xx \in ss .. kk /\ yy \in ss .. kk /\ xx < yy
      BY <1>2 DEF done2
    <3> QED BY <3>1 DEF done
  <2> QED BY <2>1, <1>3, <1>4, <1>6
<1>10. \A xx \in done2, yy \in left2 : Sort!Precedes(temp'[xx], keys[yy])
  BY <1>3, <1>4, <1>5, <1>6
<1>11. Sort!Merging(dd)'
  <2>1. ss = dd.start /\ mm = dd.mid /\ ee = dd.end /\ i2 = dd.i /\ j2 = dd.j /\ k2 = dd.k
    BY <1>1
  <2>2. dd.start <= dd.i /\ dd.i <= dd.mid /\ dd.mid <= dd.j /\ dd.j <= dd.end
        /\ dd.k = dd.i + dd.j - dd.mid
    BY <1>4, <2>1
  <2>3. /\ \A xx \in done2 : \E yy \in gone2 : temp'[xx] = keys'[yy]
        /\ \A yy \in gone2 : \E xx \in done2 : temp'[xx] = keys'[yy]
        /\ \A xx \in done2, yy \in left2 : Sort!Precedes(temp'[xx], keys'[yy])
    BY <1>7, <1>8, <1>10
  <2>4. /\ gone2 = (dd.start .. dd.i - 1) \cup (dd.mid .. dd.j - 1)
        /\ left2 = (dd.i .. dd.mid - 1) \cup (dd.j .. dd.end - 1)
        /\ done2 = dd.start .. dd.k - 1
    BY <2>1 DEF gone2, left2, done2
  <2> HIDE DEF gone2, left2, done2
  <2> QED BY <1>9, <2>2, <2>3, <2>4 DEF Sort!Merging, Sort!Precedes
<1> QED BY <1>1, <1>4, <1>11

\* merge has moved every record.
LEMMA MergeMoved ==
  ASSUME NEW cc \in Sort!Calls, cc.start <= cc.mid, cc.mid <= cc.end,
         Sort!SortedOn(keys, cc.start, cc.mid), Sort!SortedOn(keys, cc.mid, cc.end),
         Sort!Merging(cc), cc.i >= cc.mid, cc.j >= cc.end
  PROVE  Sort!SortedOn(temp, cc.start, cc.end)
<1>1. PICK ss \in Nat, mm \in Nat, ee \in Nat, ii \in Nat, jj \in Nat, kk \in Nat :
        /\ ss = cc.start /\ mm = cc.mid /\ ee = cc.end /\ ii = cc.i /\ jj = cc.j /\ kk = cc.k
  BY DEF Sort!Calls
<1>2. ss <= mm /\ mm <= ee /\ ii = mm /\ jj = ee /\ kk = ee
  <2>1. ii <= mm /\ jj <= ee /\ ii >= mm /\ jj >= ee /\ kk = ii + jj - mm
    BY <1>1 DEF Sort!Merging
  <2> QED BY <1>1, <2>1
<1>3. /\ \A xx \in ss .. ee - 1 : \E yy \in (ss .. mm - 1) \cup (mm .. ee - 1) : temp[xx] = keys[yy]
      /\ \A yy \in (ss .. mm - 1) \cup (mm .. ee - 1) : \E xx \in ss .. ee - 1 : temp[xx] = keys[yy]
      /\ \A xx, yy \in ss .. ee - 1 : xx < yy => Sort!Precedes(temp[xx], temp[yy])
  BY <1>1, <1>2 DEF Sort!Merging
<1>4. /\ \A xx \in ss .. mm - 1 : keys[xx].index \in ss .. mm - 1
      /\ \A zz \in ss .. mm - 1 : \E xx \in ss .. mm - 1 : keys[xx].index = zz
      /\ \A xx \in mm .. ee - 1 : keys[xx].index \in mm .. ee - 1
      /\ \A zz \in mm .. ee - 1 : \E xx \in mm .. ee - 1 : keys[xx].index = zz
  BY <1>1 DEF Sort!SortedOn
<1>5. \A xx : xx \in ss .. ee - 1 <=> xx \in ss .. mm - 1 \/ xx \in mm .. ee - 1
  BY <1>2
<1>6. \A xx \in ss .. ee - 1 : temp[xx].index \in ss .. ee - 1
  BY <1>3, <1>4, <1>5
<1>7. ASSUME NEW zz \in ss .. ee - 1
      PROVE  \E xx \in ss .. ee - 1 : temp[xx].index = zz
  <2>1. PICK yy \in (ss .. mm - 1) \cup (mm .. ee - 1) : keys[yy].index = zz
    BY <1>4, <1>5
  <2>2. PICK xx \in ss .. ee - 1 : temp[xx] = keys[yy]
    BY <1>3
  <2> QED BY <2>1, <2>2
<1> QED BY <1>1, <1>3, <1>6, <1>7 DEF Sort!SortedOn

\* merge copies a record back, and the last of them.
LEMMA MergeCopies ==
  ASSUME NEW nn \in Nat, keys \in [0 .. nn - 1 -> Sort!Records],
         NEW cc \in Sort!Calls, NEW dd \in Sort!Calls, cc.end <= nn, Sort!Copying(cc),
         cc.i < cc.end, dd.start = cc.start, dd.end = cc.end, dd.i = cc.i + 1,
         temp' = temp, keys' = [keys EXCEPT ![cc.i] = temp[cc.i]]
  PROVE  Sort!Copying(dd)' /\ cc.i \in cc.start .. cc.end - 1
<1>1. PICK ss \in Nat, ee \in Nat, ii \in Nat : ss = cc.start /\ ee = cc.end /\ ii = cc.i
  BY DEF Sort!Calls
<1>2. ss <= ii /\ ii < ee /\ ee <= nn /\ \A xx \in ss .. ii - 1 : keys[xx] = temp[xx]
  BY <1>1 DEF Sort!Copying
<1>3. ii \in 0 .. nn - 1 /\ ii \in ss .. ee - 1 /\ ss <= ii + 1 /\ ii + 1 <= ee
  BY <1>2
<1>4. \A xx \in ss .. (ii + 1) - 1 : xx = ii \/ (xx # ii /\ xx \in ss .. ii - 1 /\ xx \in 0 .. nn - 1)
  BY <1>2
<1>5. \A xx \in ss .. (ii + 1) - 1 : keys'[xx] = temp'[xx]
  BY <1>1, <1>2, <1>3, <1>4
<1>6. Sort!SortedOn(temp, cc.start, cc.end)'
  BY DEF Sort!Copying, Sort!SortedOn, Sort!Precedes
<1> QED BY <1>1, <1>3, <1>5, <1>6 DEF Sort!Copying, Sort!SortedOn, Sort!Precedes

LEMMA MergeCopied ==
  ASSUME NEW cc \in Sort!Calls, Sort!Copying(cc), cc.i >= cc.end
  PROVE  Sort!SortedOn(keys, cc.start, cc.end)
<1>1. PICK ss \in Nat, ee \in Nat, ii \in Nat : ss = cc.start /\ ee = cc.end /\ ii = cc.i
  BY DEF Sort!Calls
<1>2. ii = ee
  BY <1>1 DEF Sort!Copying
<1>3. \A xx \in ss .. ee - 1 : keys[xx] = temp[xx]
  BY <1>1, <1>2 DEF Sort!Copying
<1> QED BY <1>1, <1>3 DEF Sort!Copying, Sort!SortedOn
-----------------------------------------------------------------------------
(* The steps of an actor, in its segment lo .. hi - 1.                     *)
OnlyOwn(aa, lo, hi) ==
  /\ keys' \in [0 .. numRecords - 1 -> Sort!Records]
  /\ temp' \in [0 .. numRecords - 1 -> Sort!Records]
  /\ \A xx \in (0 .. numRecords - 1) \ (lo .. hi - 1) : keys'[xx] = keys[xx] /\ temp'[xx] = temp[xx]
  /\ todo' \in [0 .. numThreads -> Seq(Sort!Calls)]
  /\ \A bb \in 0 .. numThreads : bb # aa => todo'[bb] = todo[bb]
  /\ UNCHANGED <<numRecords, numThreads, created, joined>>

LEMMA SortTypes == Sort!TypeOK => numRecords \in Nat /\ numThreads \in Nat \ {0}
BY SortConstants DEF Sort!TypeOK

LEMMA TopCall ==
  ASSUME Sort!TypeOK, NEW aa \in 0 .. numThreads, NEW lo \in Nat, NEW hi \in Nat,
         Sort!StackOk(todo[aa], lo, hi), todo[aa] # <<>>,
         NEW S, S = todo[aa], NEW cc, cc = Head(S)
  PROVE  /\ S \in Seq(Sort!Calls) /\ 1 \in 1 .. Len(S) /\ cc = S[1] /\ cc \in Sort!Calls
         /\ Sort!StackOk(S, lo, hi) /\ Sort!CallOk(cc)
         /\ cc.start \in Nat /\ cc.mid \in Nat /\ cc.end \in Nat
         /\ cc.i \in Nat /\ cc.j \in Nat /\ cc.k \in Nat
         /\ lo <= cc.start /\ cc.start <= cc.mid /\ cc.mid <= cc.end /\ cc.end <= hi
         /\ cc.op = "merge" => /\ Sort!SortedOn(keys, cc.start, cc.mid)
                               /\ Sort!SortedOn(keys, cc.mid, cc.end)
<1>1. S \in Seq(Sort!Calls) /\ S # <<>>
  BY DEF Sort!TypeOK
<1>2. 1 \in 1 .. Len(S) /\ cc = S[1] /\ cc \in Sort!Calls
  BY <1>1, PutBack
<1>3. Sort!StackOk(S, lo, hi)
  OBVIOUS
<1>4. /\ Sort!CallOk(cc)
      /\ cc.start \in Nat /\ cc.mid \in Nat /\ cc.end \in Nat
      /\ cc.i \in Nat /\ cc.j \in Nat /\ cc.k \in Nat
      /\ lo <= cc.start /\ cc.start <= cc.mid /\ cc.mid <= cc.end /\ cc.end <= hi
  <2>1. /\ S[1] \in Sort!Calls /\ Sort!CallOk(S[1])
        /\ lo <= S[1].start /\ S[1].start <= S[1].mid /\ S[1].mid <= S[1].end /\ S[1].end <= hi
    BY <1>1, <1>2, <1>3, CallOnStack
  <2>2. /\ cc.start \in Nat /\ cc.mid \in Nat /\ cc.end \in Nat
        /\ cc.i \in Nat /\ cc.j \in Nat /\ cc.k \in Nat
    BY <1>2 DEF Sort!Calls
  <2> QED BY <1>2, <2>1, <2>2
<1>5. ASSUME cc.op = "merge"
      PROVE  Sort!SortedOn(keys, cc.start, cc.mid) /\ Sort!SortedOn(keys, cc.mid, cc.end)
  <2>1. Sort!Prepared(S, 1, cc.start, cc.mid) /\ Sort!Prepared(S, 1, cc.mid, cc.end)
    BY <1>2, <1>3, <1>5 DEF Sort!StackOk
  <2> QED BY <2>1 DEF Sort!Prepared
<1> QED BY <1>1, <1>2, <1>3, <1>4, <1>5

\* An untouched range of at most one record is sorted.
LEMMA OneSorted ==
  ASSUME NEW ss \in Nat, NEW ee \in Nat, ee - ss < 2, Sort!Untouched(ss, ee)
  PROVE  Sort!SortedOn(keys, ss, ee)
<1>1. \A xx, yy \in ss .. ee - 1 : ~ (xx < yy)
  OBVIOUS
<1> QED BY <1>1 DEF Sort!SortedOn, Sort!Untouched

LEMMA Halfway ==
  \A ss, ee \in Nat : ee - ss >= 2 =>
    LET mid == ss + (ee - ss) \div 2 IN mid \in Nat /\ ss < mid /\ mid < ee
<1> SUFFICES ASSUME NEW ss \in Nat, NEW ee \in Nat, ee - ss >= 2
             PROVE  LET mid == ss + (ee - ss) \div 2 IN mid \in Nat /\ ss < mid /\ mid < ee
  OBVIOUS
<1>1. PICK dd \in Nat : dd = ee - ss /\ dd >= 2
  OBVIOUS
<1>2. dd \div 2 \in Nat /\ 0 < dd \div 2 /\ dd \div 2 < dd
  BY <1>1
<1> QED BY <1>1, <1>2

LEMMA SortCalled ==
  ASSUME Sort!TypeOK, NEW aa \in 0 .. numThreads, NEW lo \in Nat, NEW hi \in Nat,
         Sort!StackOk(todo[aa], lo, hi), Sort!MergeSort(aa)
  PROVE  OnlyOwn(aa, lo, hi) /\ Sort!StackOk(todo[aa], lo, hi)'
<1>1. PICK S, cc : S = todo[aa] /\ cc = Head(S)
  OBVIOUS
<1>2. S # <<>> /\ cc.op = "sort"
  BY <1>1 DEF Sort!MergeSort, Sort!Does
<1>3. /\ S \in Seq(Sort!Calls) /\ cc = S[1] /\ cc \in Sort!Calls /\ Sort!StackOk(S, lo, hi)
      /\ cc.start \in Nat /\ cc.end \in Nat /\ Sort!CallOk(cc)
  BY <1>1, <1>2, TopCall
<1>4. /\ keys' = keys /\ temp' = temp
      /\ UNCHANGED <<numRecords, numThreads, created, joined>>
      /\ todo' = [todo EXCEPT ![aa] =
           (IF cc.end - cc.start < 2 THEN <<>>
            ELSE <<Sort!Sort(cc.start, cc.start + (cc.end - cc.start) \div 2),
                   Sort!Sort(cc.start + (cc.end - cc.start) \div 2, cc.end),
                   Sort!Merge(cc.start, cc.start + (cc.end - cc.start) \div 2, cc.end)>>) \o Tail(S)]
  BY <1>1 DEF Sort!MergeSort, Sort!Continue
<1>5. todo \in [0 .. numThreads -> Seq(Sort!Calls)]
      /\ keys \in [0 .. numRecords - 1 -> Sort!Records] /\ temp \in [0 .. numRecords - 1 -> Sort!Records]
  BY DEF Sort!TypeOK
<1>6. PICK T : T = (IF cc.end - cc.start < 2 THEN <<>>
            ELSE <<Sort!Sort(cc.start, cc.start + (cc.end - cc.start) \div 2),
                   Sort!Sort(cc.start + (cc.end - cc.start) \div 2, cc.end),
                   Sort!Merge(cc.start, cc.start + (cc.end - cc.start) \div 2, cc.end)>>) \o Tail(S)
  OBVIOUS
<1>7. T \in Seq(Sort!Calls) /\ Sort!StackOk(T, lo, hi)
  <2>1. CASE cc.end - cc.start < 2
    <3>1. /\ T \in Seq(Sort!Calls) /\ Len(T) = Len(S) - 1
          /\ \A mm \in 1 .. Len(S) - 1 : T[mm] = S[mm + 1]
      BY <2>1, <1>2, <1>3, <1>6, PutBack
    <3>2. Sort!SortedOn(keys, S[1].start, S[1].end)
      BY <2>1, <1>2, <1>3, OneSorted DEF Sort!CallOk
    <3> QED BY <3>1, <3>2, <1>2, <1>3, StackPop
  <2>2. CASE ~ (cc.end - cc.start < 2)
    <3>1. PICK mid : mid = cc.start + (cc.end - cc.start) \div 2
      OBVIOUS
    <3>2. mid \in Nat /\ cc.start < mid /\ mid < cc.end
      <4>1. PICK ss \in Nat, ee \in Nat : ss = cc.start /\ ee = cc.end
        BY <1>3
      <4>2. ee - ss >= 2 /\ mid = ss + (ee - ss) \div 2
        BY <3>1, <4>1, <2>2
      <4> QED BY <4>1, <4>2, Halfway
    <3>3. /\ Sort!Sort(cc.start, mid) \in Sort!Calls /\ Sort!Sort(mid, cc.end) \in Sort!Calls
          /\ Sort!Merge(cc.start, mid, cc.end) \in Sort!Calls
      BY <3>2, <1>3 DEF Sort!Sort, Sort!Merge, Sort!Calls
    <3>4. T = <<Sort!Sort(cc.start, mid), Sort!Sort(mid, cc.end),
                Sort!Merge(cc.start, mid, cc.end)>> \o Tail(S)
      BY <3>1, <2>2, <1>6
    <3>5. PICK c1 \in Sort!Calls, c2 \in Sort!Calls, c3 \in Sort!Calls :
            /\ c1 = Sort!Sort(cc.start, mid) /\ c2 = Sort!Sort(mid, cc.end)
            /\ c3 = Sort!Merge(cc.start, mid, cc.end)
      BY <3>3
    <3>6. T = <<c1, c2, c3>> \o Tail(S)
      BY <3>4, <3>5
    <3>7. /\ T \in Seq(Sort!Calls) /\ Len(T) = Len(S) + 2 /\ T[1] = c1 /\ T[2] = c2 /\ T[3] = c3
          /\ \A mm \in 4 .. Len(S) + 2 : T[mm] = S[mm - 2]
      BY <3>6, <1>2, <1>3, PutBack
    <3>8. /\ T[1] = Sort!Sort(S[1].start, mid) /\ T[2] = Sort!Sort(mid, S[1].end)
          /\ T[3] = Sort!Merge(S[1].start, mid, S[1].end)
          /\ S[1].op = "sort" /\ S[1].start < mid /\ mid < S[1].end
      BY <3>2, <3>5, <3>7, <1>2, <1>3
    <3> QED BY <3>2, <3>7, <3>8, <1>2, <1>3, StackSplit
  <2> QED BY <2>1, <2>2
<1>8. todo' = [todo EXCEPT ![aa] = T]
  BY <1>4, <1>6
<1>9. OnlyOwn(aa, lo, hi)
  BY <1>4, <1>5, <1>7, <1>8 DEF OnlyOwn
<1>10. Sort!StackOk(T, lo, hi)'
  BY <1>4, <1>7, StackSame
<1>11. T = todo'[aa]
  BY <1>5, <1>8
<1> QED BY <1>9, <1>10, <1>11

\* The call on top goes on as dd.
LEMMA TopGoesOn ==
  ASSUME Sort!TypeOK, NEW aa \in 0 .. numThreads, NEW lo \in Nat, NEW hi \in Nat, hi <= numRecords,
         NEW S \in Seq(Sort!Calls), S = todo[aa], Sort!StackOk(S, lo, hi), S # <<>>,
         NEW cc, cc = S[1], NEW dd \in Sort!Calls, cc.start \in Nat, cc.end \in Nat,
         lo <= cc.start, cc.end <= hi,
         todo' = [todo EXCEPT ![aa] = <<dd>> \o Tail(S)],
         dd.start = cc.start, dd.mid = cc.mid, dd.end = cc.end,
         dd.op = "merge" => cc.op = "merge" /\ keys' = keys,
         Sort!CallOk(dd)',
         keys' \in [0 .. numRecords - 1 -> Sort!Records],
         temp' \in [0 .. numRecords - 1 -> Sort!Records],
         \A xx \in 0 .. numRecords - 1 :
           xx \notin cc.start .. cc.end - 1 => keys'[xx] = keys[xx] /\ temp'[xx] = temp[xx],
         UNCHANGED <<numRecords, numThreads, created, joined>>
  PROVE  OnlyOwn(aa, lo, hi) /\ Sort!StackOk(todo[aa], lo, hi)'
<1>1. PICK T : T = <<dd>> \o Tail(S)
  OBVIOUS
<1>2. T \in Seq(Sort!Calls) /\ Len(T) = Len(S) /\ T[1] = dd /\ \A mm \in 2 .. Len(S) : T[mm] = S[mm]
  BY <1>1, PutBack
<1>3. \A xx \in lo .. hi - 1 : xx \in 0 .. numRecords - 1
  BY SortTypes
<1>4. \A xx \in lo .. hi - 1 : keys'[xx] = keys[xx] \/ xx \in S[1].start .. S[1].end - 1
  BY <1>3
<1>5. Sort!CallOk(T[1])'
  BY <1>2
<1>6. Sort!StackOk(T, lo, hi)'
  BY <1>2, <1>4, <1>5, StackTop
<1>7. \A xx \in cc.start .. cc.end - 1 : xx \in lo .. hi - 1
  OBVIOUS
<1>8. todo \in [0 .. numThreads -> Seq(Sort!Calls)] /\ todo' = [todo EXCEPT ![aa] = T]
  BY <1>1 DEF Sort!TypeOK
<1>9. OnlyOwn(aa, lo, hi) /\ T = todo'[aa]
  BY <1>2, <1>7, <1>8 DEF OnlyOwn
<1> QED BY <1>6, <1>9

LEMMA SortMoves ==
  ASSUME Sort!TypeOK, NEW aa \in 0 .. numThreads, NEW lo \in Nat, NEW hi \in Nat, hi <= numRecords,
         Sort!StackOk(todo[aa], lo, hi), Sort!Move(aa)
  PROVE  OnlyOwn(aa, lo, hi) /\ Sort!StackOk(todo[aa], lo, hi)'
<1>1. PICK S, cc : S = todo[aa] /\ cc = Head(S)
  OBVIOUS
<1>2. S # <<>> /\ cc.op = "merge"
  BY <1>1 DEF Sort!Move, Sort!Does
<1>3. /\ S \in Seq(Sort!Calls) /\ cc = S[1] /\ cc \in Sort!Calls /\ Sort!StackOk(S, lo, hi)
      /\ cc.start \in Nat /\ cc.mid \in Nat /\ cc.end \in Nat
      /\ cc.i \in Nat /\ cc.j \in Nat /\ cc.k \in Nat
      /\ lo <= cc.start /\ cc.start <= cc.mid /\ cc.mid <= cc.end /\ cc.end <= hi
      /\ Sort!SortedOn(keys, cc.start, cc.mid) /\ Sort!SortedOn(keys, cc.mid, cc.end)
  BY <1>1, <1>2, TopCall
<1>4. Sort!Merging(cc)
  BY <1>1, <1>2, TopCall DEF Sort!CallOk
<1>5. /\ keys \in [0 .. numRecords - 1 -> Sort!Records] /\ temp \in [0 .. numRecords - 1 -> Sort!Records]
      /\ numRecords \in Nat
  BY SortTypes DEF Sort!TypeOK
<1>6. cc.end <= numRecords
  BY <1>3, <1>5
<1>7. PICK src, dd :
        /\ src = IF Sort!TakesLeft(cc) THEN cc.i ELSE cc.j
        /\ dd = IF Sort!TakesLeft(cc) THEN [cc EXCEPT !.i = @ + 1, !.k = @ + 1]
                                      ELSE [cc EXCEPT !.j = @ + 1, !.k = @ + 1]
  OBVIOUS
<1>8. /\ keys' = keys /\ UNCHANGED <<numRecords, numThreads, created, joined>>
      /\ temp' = [temp EXCEPT ![cc.k] = keys[src]]
      /\ todo' = [todo EXCEPT ![aa] = <<dd>> \o Tail(S)]
      /\ cc.i < cc.mid \/ cc.j < cc.end
  BY <1>1, <1>7 DEF Sort!Move, Sort!Continue
<1>9. /\ dd \in Sort!Calls /\ src \in Nat
      /\ dd.start = cc.start /\ dd.mid = cc.mid /\ dd.end = cc.end /\ dd.op = "merge" /\ dd.k = cc.k + 1
      /\ \/ /\ Sort!TakesLeft(cc) /\ src = cc.i /\ dd.i = cc.i + 1 /\ dd.j = cc.j
         \/ /\ ~ Sort!TakesLeft(cc) /\ src = cc.j /\ dd.i = cc.i /\ dd.j = cc.j + 1
  <2>0. \A xx \in Nat : xx + 1 \in Nat
    OBVIOUS
  <2>1. cc.i + 1 \in Nat /\ cc.j + 1 \in Nat /\ cc.k + 1 \in Nat
    BY <1>3, <2>0
  <2> QED BY <1>2, <1>3, <1>7, <2>1 DEF Sort!Calls
<1>10. \/ /\ cc.i < cc.mid /\ (cc.j < cc.end => keys[cc.i].key <= keys[cc.j].key)
          /\ src = cc.i /\ dd.i = cc.i + 1 /\ dd.j = cc.j
       \/ /\ cc.j < cc.end /\ (cc.i < cc.mid => ~ (keys[cc.i].key <= keys[cc.j].key))
          /\ src = cc.j /\ dd.i = cc.i /\ dd.j = cc.j + 1
  BY <1>8, <1>9 DEF Sort!TakesLeft
<1>11. Sort!Merging(dd)' /\ cc.k \in cc.start .. cc.end - 1 /\ src \in 0 .. numRecords - 1
  <2>1. PICK nn \in Nat : nn = numRecords
    BY <1>5
  <2>2. Sort!Merging(dd)' /\ cc.k \in cc.start .. cc.end - 1 /\ src \in 0 .. nn - 1
    <3>1. /\ keys \in [0 .. nn - 1 -> Sort!Records] /\ temp \in [0 .. nn - 1 -> Sort!Records]
          /\ cc.end <= nn
      BY <1>5, <1>6, <2>1
    <3>2. /\ cc \in Sort!Calls /\ cc.start <= cc.mid /\ cc.mid <= cc.end
          /\ Sort!SortedOn(keys, cc.start, cc.mid) /\ Sort!SortedOn(keys, cc.mid, cc.end)
      BY <1>3
    <3>3. /\ dd \in Sort!Calls /\ src \in Nat /\ dd.k = cc.k + 1
          /\ dd.start = cc.start /\ dd.mid = cc.mid /\ dd.end = cc.end
      BY <1>9
    <3>4. keys' = keys /\ temp' = [temp EXCEPT ![cc.k] = keys[src]]
      BY <1>8
    <3> QED BY <1>4, <1>10, <3>1, <3>2, <3>3, <3>4, MergeMoves
  <2> QED BY <2>1, <2>2
<1>12. Sort!CallOk(dd)'
  BY <1>3, <1>9, <1>11 DEF Sort!CallOk
<1>13. /\ temp' \in [0 .. numRecords - 1 -> Sort!Records]
       /\ \A xx \in 0 .. numRecords - 1 :
            xx \notin cc.start .. cc.end - 1 => keys'[xx] = keys[xx] /\ temp'[xx] = temp[xx]
  BY <1>5, <1>8, <1>11
<1> QED BY <1>1, <1>2, <1>3, <1>5, <1>8, <1>9, <1>12, <1>13, TopGoesOn

LEMMA SortMoved ==
  ASSUME Sort!TypeOK, NEW aa \in 0 .. numThreads, NEW lo \in Nat, NEW hi \in Nat, hi <= numRecords,
         Sort!StackOk(todo[aa], lo, hi), Sort!Moved(aa)
  PROVE  OnlyOwn(aa, lo, hi) /\ Sort!StackOk(todo[aa], lo, hi)'
<1>1. PICK S, cc : S = todo[aa] /\ cc = Head(S)
  OBVIOUS
<1>2. S # <<>> /\ cc.op = "merge" /\ cc.i >= cc.mid /\ cc.j >= cc.end
  BY <1>1 DEF Sort!Moved, Sort!Does
<1>3. /\ S \in Seq(Sort!Calls) /\ cc = S[1] /\ cc \in Sort!Calls /\ Sort!StackOk(S, lo, hi)
      /\ cc.start \in Nat /\ cc.mid \in Nat /\ cc.end \in Nat
      /\ lo <= cc.start /\ cc.start <= cc.mid /\ cc.mid <= cc.end /\ cc.end <= hi
      /\ Sort!SortedOn(keys, cc.start, cc.mid) /\ Sort!SortedOn(keys, cc.mid, cc.end)
  BY <1>1, <1>2, TopCall
<1>4. Sort!Merging(cc)
  BY <1>1, <1>2, TopCall DEF Sort!CallOk
<1>5. keys \in [0 .. numRecords - 1 -> Sort!Records] /\ temp \in [0 .. numRecords - 1 -> Sort!Records]
  BY DEF Sort!TypeOK
<1>6. PICK dd : dd = [cc EXCEPT !.op = "copy", !.i = cc.start]
  OBVIOUS
<1>7. /\ keys' = keys /\ temp' = temp /\ UNCHANGED <<numRecords, numThreads, created, joined>>
      /\ todo' = [todo EXCEPT ![aa] = <<dd>> \o Tail(S)]
  BY <1>1, <1>6 DEF Sort!Moved, Sort!Continue
<1>8. /\ dd \in Sort!Calls /\ dd.start = cc.start /\ dd.mid = cc.mid /\ dd.end = cc.end
      /\ dd.op = "copy" /\ dd.i = cc.start
  BY <1>3, <1>6 DEF Sort!Calls
<1>9. Sort!SortedOn(temp, cc.start, cc.end)
  BY <1>2, <1>3, <1>4, MergeMoved
<1>10. Sort!CallOk(dd)'
  <2>1. Sort!SortedOn(temp, cc.start, cc.end)'
    BY <1>7, <1>9 DEF Sort!SortedOn, Sort!Precedes
  <2>2. cc.start .. cc.start - 1 = {}
    BY <1>3
  <2>3. cc.start <= cc.start /\ cc.start <= cc.end
    BY <1>3
  <2>4. Sort!Copying(dd)'
    BY <1>8, <2>1, <2>2, <2>3 DEF Sort!Copying
  <2> QED BY <1>3, <1>8, <2>4 DEF Sort!CallOk
<1> QED BY <1>1, <1>2, <1>3, <1>5, <1>7, <1>8, <1>10, TopGoesOn

LEMMA SortCopies ==
  ASSUME Sort!TypeOK, NEW aa \in 0 .. numThreads, NEW lo \in Nat, NEW hi \in Nat, hi <= numRecords,
         Sort!StackOk(todo[aa], lo, hi), Sort!CopyBack(aa)
  PROVE  OnlyOwn(aa, lo, hi) /\ Sort!StackOk(todo[aa], lo, hi)'
<1>1. PICK S, cc : S = todo[aa] /\ cc = Head(S)
  OBVIOUS
<1>2. S # <<>> /\ cc.op = "copy" /\ cc.i < cc.end
  BY <1>1 DEF Sort!CopyBack, Sort!Does
<1>3. /\ S \in Seq(Sort!Calls) /\ cc = S[1] /\ cc \in Sort!Calls /\ Sort!StackOk(S, lo, hi)
      /\ cc.start \in Nat /\ cc.mid \in Nat /\ cc.end \in Nat /\ cc.i \in Nat
      /\ lo <= cc.start /\ cc.start <= cc.mid /\ cc.mid <= cc.end /\ cc.end <= hi
  BY <1>1, <1>2, TopCall
<1>4. Sort!Copying(cc)
  BY <1>1, <1>2, TopCall DEF Sort!CallOk
<1>5. /\ keys \in [0 .. numRecords - 1 -> Sort!Records] /\ temp \in [0 .. numRecords - 1 -> Sort!Records]
      /\ numRecords \in Nat
  BY SortTypes DEF Sort!TypeOK
<1>6. cc.end <= numRecords
  BY <1>3, <1>5
<1>7. PICK dd : dd = [cc EXCEPT !.i = @ + 1]
  OBVIOUS
<1>8. /\ temp' = temp /\ UNCHANGED <<numRecords, numThreads, created, joined>>
      /\ keys' = [keys EXCEPT ![cc.i] = temp[cc.i]]
      /\ todo' = [todo EXCEPT ![aa] = <<dd>> \o Tail(S)]
  BY <1>1, <1>7 DEF Sort!CopyBack, Sort!Continue
<1>9. /\ dd \in Sort!Calls /\ dd.start = cc.start /\ dd.mid = cc.mid /\ dd.end = cc.end
      /\ dd.op = "copy" /\ dd.i = cc.i + 1
  <2>1. cc.i + 1 \in Nat
    BY <1>3
  <2> QED BY <1>2, <1>3, <1>7, <2>1 DEF Sort!Calls
<1>10. Sort!Copying(dd)' /\ cc.i \in cc.start .. cc.end - 1
  <2>1. PICK nn \in Nat : nn = numRecords
    BY <1>5
  <2> QED BY <1>2, <1>3, <1>4, <1>5, <1>6, <1>8, <1>9, <2>1, MergeCopies
<1>11. Sort!CallOk(dd)'
  BY <1>3, <1>9, <1>10 DEF Sort!CallOk
<1>12. /\ keys' \in [0 .. numRecords - 1 -> Sort!Records]
       /\ \A xx \in 0 .. numRecords - 1 :
            xx \notin cc.start .. cc.end - 1 => keys'[xx] = keys[xx] /\ temp'[xx] = temp[xx]
  <2>1. cc.i \in 0 .. numRecords - 1
    BY <1>3, <1>5, <1>6, <1>10
  <2> QED BY <1>5, <1>8, <1>10, <2>1
<1> QED BY <1>1, <1>2, <1>3, <1>5, <1>8, <1>9, <1>11, <1>12, TopGoesOn

LEMMA SortReturns ==
  ASSUME Sort!TypeOK, NEW aa \in 0 .. numThreads, NEW lo \in Nat, NEW hi \in Nat,
         Sort!StackOk(todo[aa], lo, hi), Sort!MergeReturns(aa)
  PROVE  OnlyOwn(aa, lo, hi) /\ Sort!StackOk(todo[aa], lo, hi)'
<1>1. PICK S, cc : S = todo[aa] /\ cc = Head(S)
  OBVIOUS
<1>2. S # <<>> /\ cc.op = "copy" /\ cc.i >= cc.end
  BY <1>1 DEF Sort!MergeReturns, Sort!Does
<1>3. /\ S \in Seq(Sort!Calls) /\ cc = S[1] /\ cc \in Sort!Calls /\ Sort!StackOk(S, lo, hi)
  BY <1>1, <1>2, TopCall
<1>4. Sort!Copying(cc)
  BY <1>1, <1>2, TopCall DEF Sort!CallOk
<1>5. /\ keys \in [0 .. numRecords - 1 -> Sort!Records] /\ temp \in [0 .. numRecords - 1 -> Sort!Records]
      /\ todo \in [0 .. numThreads -> Seq(Sort!Calls)]
  BY DEF Sort!TypeOK
<1>6. PICK T : T = <<>> \o Tail(S)
  OBVIOUS
<1>7. /\ keys' = keys /\ temp' = temp /\ UNCHANGED <<numRecords, numThreads, created, joined>>
      /\ todo' = [todo EXCEPT ![aa] = T]
  BY <1>1, <1>6 DEF Sort!MergeReturns, Sort!Continue
<1>8. /\ T \in Seq(Sort!Calls) /\ Len(T) = Len(S) - 1
      /\ \A mm \in 1 .. Len(S) - 1 : T[mm] = S[mm + 1]
  BY <1>2, <1>3, <1>6, PutBack
<1>9. Sort!SortedOn(keys, S[1].start, S[1].end)
  BY <1>2, <1>3, <1>4, MergeCopied
<1>10. Sort!StackOk(T, lo, hi)
  BY <1>2, <1>3, <1>8, <1>9, StackPop
<1>11. Sort!StackOk(T, lo, hi)'
  BY <1>7, <1>10, StackSame
<1>12. OnlyOwn(aa, lo, hi) /\ T = todo'[aa]
  BY <1>5, <1>7, <1>8 DEF OnlyOwn
<1> QED BY <1>11, <1>12
-----------------------------------------------------------------------------
(* All the actors.                                                         *)
LEMMA SegmentsHere ==
  ASSUME Sort!TypeOK, NEW aa \in Sort!Threads, NEW lo, NEW hi,
         lo = Sort!Start(aa, numRecords, numThreads), hi = Sort!End(aa, numRecords, numThreads)
  PROVE  /\ lo \in Nat /\ hi \in Nat /\ lo <= hi /\ hi <= numRecords
         /\ aa \in 0 .. numThreads /\ aa # Sort!main
         /\ \A bb \in Sort!Threads : bb # aa =>
              \/ Sort!End(bb, numRecords, numThreads) <= lo
              \/ hi <= Sort!Start(bb, numRecords, numThreads)
<1>1. PICK nn \in Nat, tt \in Nat \ {0} : nn = numRecords /\ tt = numThreads
  BY SortTypes
<1>2. aa \in 0 .. tt - 1 /\ Sort!Threads = 0 .. tt - 1 /\ Sort!main = tt
  BY <1>1 DEF Sort!Threads, Sort!main
<1>3. lo \in Nat /\ hi \in 0 .. nn /\ lo <= hi
  BY <1>1, <1>2, Segments
<1>4. ASSUME NEW bb \in 0 .. tt - 1, bb # aa
      PROVE  Sort!End(bb, nn, tt) <= Sort!Start(aa, nn, tt) \/ Sort!End(aa, nn, tt) <= Sort!Start(bb, nn, tt)
  <2>1. bb < aa \/ aa < bb
    BY <1>2, <1>4
  <2> QED BY <1>2, <2>1, Segments
<1> QED BY <1>1, <1>2, <1>3, <1>4

LEMMA SortInit == Sort!Init => Sort!IInv
<1> SUFFICES ASSUME Sort!Init PROVE Sort!IInv
  OBVIOUS
<1>1. numRecords \in Sizes /\ numRecords \in Nat /\ numThreads \in Counts /\ numThreads \in Nat \ {0}
  BY SortConstants DEF Sort!Init
<1>2. PICK ff \in [0 .. numRecords - 1 -> KeyValues] :
        keys = [xx \in 0 .. numRecords - 1 |-> [key |-> ff[xx], index |-> xx]]
  BY DEF Sort!Init
<1>3. keys \in [0 .. numRecords - 1 -> Sort!Records]
      /\ \A xx \in 0 .. numRecords - 1 : keys[xx].index = xx
  <2>1. ASSUME NEW xx \in 0 .. numRecords - 1
        PROVE  [key |-> ff[xx], index |-> xx] \in Sort!Records
    <3>1. ff[xx] \in KeyValues
      BY <1>2
    <3>2. ff[xx] \in Int
      BY <3>1, SortConstants
    <3> QED BY <3>2 DEF Sort!Records
  <2> QED BY <1>2, <2>1
<1>4. temp \in [0 .. numRecords - 1 -> Sort!Records]
  BY <1>1 DEF Sort!Init, Sort!Records
<1>5. todo = [aa \in 0 .. numThreads |-> <<>>] /\ <<>> \in Seq(Sort!Calls)
  BY DEF Sort!Init
<1>6. created = 0 /\ joined = FALSE
  BY DEF Sort!Init
<1>7. Sort!TypeOK
  <2>1. created \in 0 .. numThreads
    BY <1>1, <1>6
  <2>3. joined \in BOOLEAN
    BY <1>6
  <2>2. todo \in [0 .. numThreads -> Seq(Sort!Calls)]
    BY <1>5
  <2> QED BY <1>1, <1>3, <1>4, <2>1, <2>2, <2>3 DEF Sort!TypeOK
<1>8. ASSUME NEW aa \in Sort!Threads PROVE Sort!SegmentOk(aa)
  <2>1. PICK lo, hi : lo = Sort!Start(aa, numRecords, numThreads)
                      /\ hi = Sort!End(aa, numRecords, numThreads)
    OBVIOUS
  <2>2. lo \in Nat /\ hi \in Nat /\ hi <= numRecords /\ aa \in 0 .. numThreads
    BY <1>7, <2>1, SegmentsHere
  <2>3. \A xx \in lo .. hi - 1 : xx \in 0 .. numRecords - 1
    BY <1>1, <2>2
  <2>4. ~ (aa < created)
    BY <1>1, <1>6 DEF Sort!Threads
  <2> QED BY <1>3, <1>5, <2>1, <2>2, <2>3, <2>4 DEF Sort!SegmentOk, Sort!Untouched
<1> QED BY <1>1, <1>5, <1>6, <1>7, <1>8 DEF Sort!IInv, Sort!main

\* A thread begins with one call of merge_sort.
LEMMA FreshSort ==
  ASSUME NEW lo \in Nat, NEW hi \in Nat, lo <= hi, Sort!Untouched(lo, hi),
         NEW S, S = <<Sort!Sort(lo, hi)>>
  PROVE  S \in Seq(Sort!Calls) /\ Sort!StackOk(S, lo, hi)
<1>1. PICK cc : cc = Sort!Sort(lo, hi)
  OBVIOUS
<1>2. cc \in Sort!Calls /\ cc.op = "sort" /\ cc.start = lo /\ cc.mid = lo /\ cc.end = hi
  BY <1>1 DEF Sort!Sort, Sort!Calls
<1>3. S = <<cc>> /\ Len(S) = 1 /\ S[1] = cc /\ S \in Seq(Sort!Calls)
  BY <1>1, <1>2
<1>4. Sort!CallOk(cc) /\ Sort!Within(cc, lo, hi)
  BY <1>2 DEF Sort!CallOk, Sort!Within
<1>5. Sort!Prepared(S, 2, lo, hi)
  <2>1. 1 \in 1 .. 2 - 1
    OBVIOUS
  <2> QED BY <1>2, <1>3, <2>1 DEF Sort!Prepared
<1>6. Len(S) + 1 = 2 /\ \A nn \in 1 .. Len(S) : nn = 1
  BY <1>3
<1>7. (2 .. Len(S)) = {} /\ \A nn \in 1 .. Len(S) : (1 .. nn - 1) = {}
  BY <1>3
<1> QED BY <1>2, <1>3, <1>4, <1>5, <1>6, <1>7 DEF Sort!StackOk

\* main's merges: each finds its left half sorted by the one before.
LEMMA MainMerges ==
  ASSUME NEW nn \in Nat, NEW tt \in Nat \ {0},
         \A aa \in 0 .. tt - 1 : Sort!SortedOn(keys, Sort!Start(aa, nn, tt), Sort!End(aa, nn, tt)),
         NEW S, S = [mm \in 1 .. tt |->
                       Sort!Merge(0, Sort!Start(mm - 1, nn, tt), Sort!End(mm - 1, nn, tt))]
  PROVE  S \in Seq(Sort!Calls) /\ Sort!StackOk(S, 0, nn)
<1> DEFINE st(mm) == Sort!Start(mm - 1, nn, tt)
           en(mm) == Sort!End(mm - 1, nn, tt)
<1>1. ASSUME NEW mm \in 1 .. tt
      PROVE  /\ st(mm) \in Nat /\ en(mm) \in Nat /\ en(mm) <= nn /\ st(mm) <= en(mm)
             /\ Sort!SortedOn(keys, st(mm), en(mm))
  <2>1. PICK aa : aa = mm - 1
    OBVIOUS
  <2>2. aa \in 0 .. tt - 1
    BY <2>1
  <2>3. /\ Sort!Start(aa, nn, tt) \in Nat /\ Sort!End(aa, nn, tt) \in 0 .. nn
        /\ Sort!Start(aa, nn, tt) <= Sort!End(aa, nn, tt)
        /\ Sort!SortedOn(keys, Sort!Start(aa, nn, tt), Sort!End(aa, nn, tt))
    BY <2>2, Segments
  <2> QED BY <2>1, <2>3
<1>2. ASSUME NEW mm \in 1 .. tt, NEW kk \in 1 .. mm - 1
      PROVE  kk \in 1 .. tt /\ en(kk) <= st(mm) /\ (kk = mm - 1 => en(kk) = st(mm))
  <2>1. PICK aa, bb : aa = mm - 1 /\ bb = kk - 1
    OBVIOUS
  <2>2. /\ kk \in 1 .. tt /\ aa \in 0 .. tt - 1 /\ bb \in 0 .. tt - 1 /\ bb < aa
        /\ kk = mm - 1 => bb < tt - 1 /\ bb + 1 = aa
    BY <2>1
  <2>3. /\ Sort!End(bb, nn, tt) <= Sort!Start(aa, nn, tt)
        /\ bb < tt - 1 => Sort!End(bb, nn, tt) = Sort!Start(bb + 1, nn, tt)
    BY <2>2, Segments
  <2> QED BY <2>1, <2>2, <2>3
<1>3. st(1) = 0 /\ en(tt) = nn
  BY Segments
<1> HIDE DEF st, en
<1>4. S = [mm \in 1 .. tt |-> Sort!Merge(0, st(mm), en(mm))]
  BY DEF st, en
<1>5. ASSUME NEW mm \in 1 .. tt
      PROVE  /\ S[mm] \in Sort!Calls /\ S[mm].op = "merge" /\ S[mm].start = 0
             /\ S[mm].mid = st(mm) /\ S[mm].end = en(mm)
             /\ S[mm].i = 0 /\ S[mm].j = st(mm) /\ S[mm].k = 0
  <2>1. S[mm] = Sort!Merge(0, st(mm), en(mm))
    BY <1>4
  <2> QED BY <1>1, <2>1 DEF Sort!Merge, Sort!Calls
<1>6. S \in Seq(Sort!Calls) /\ Len(S) = tt
  <2>1. S \in [1 .. tt -> Sort!Calls]
    BY <1>4, <1>5
  <2>2. \A Ty : \A gg \in [1 .. tt -> Ty] : gg \in Seq(Ty) /\ Len(gg) = tt
    OBVIOUS
  <2> QED BY <2>1, <2>2
<1>7. ASSUME NEW mm \in 1 .. tt PROVE Sort!CallOk(S[mm]) /\ Sort!Within(S[mm], 0, nn)
  <2>1. 0 <= st(mm) /\ st(mm) <= en(mm) /\ en(mm) <= nn
    BY <1>1
  <2>2. Sort!Merging(S[mm])
    BY <1>5, <2>1, FreshMerge
  <2> QED BY <1>5, <2>1, <2>2 DEF Sort!CallOk, Sort!Within
<1>8. ASSUME NEW mm \in 1 .. tt, NEW kk \in 1 .. mm - 1
      PROVE  Sort!Nested(S[kk], S[mm]) /\ Sort!Apart(S[kk], st(mm), en(mm))
  <2>1. kk \in 1 .. tt /\ en(kk) <= st(mm) /\ 0 <= 0
    BY <1>2
  <2>2. S[kk].start = 0 /\ S[kk].end = en(kk)
    BY <1>5, <2>1
  <2>3. S[mm].op = "merge" /\ S[mm].start = 0 /\ S[mm].mid = st(mm)
    BY <1>5
  <2> QED BY <2>1, <2>2, <2>3 DEF Sort!Nested, Sort!Apart, Sort!Within
<1>9. ASSUME NEW mm \in 1 .. tt PROVE Sort!Prepared(S, mm, 0, st(mm))
  <2>1. CASE mm = 1
    <3>1. st(mm) = 0 /\ 0 .. 0 - 1 = {} /\ 1 .. mm - 1 = {}
      BY <1>3, <2>1
    <3>2. Sort!SortedOn(keys, 0, 0)
      BY <3>1 DEF Sort!SortedOn
    <3> QED BY <3>1, <3>2 DEF Sort!Prepared
  <2>2. CASE mm # 1
    <3>1. mm - 1 \in 1 .. mm - 1
      BY <2>2
    <3>2. en(mm - 1) = st(mm) /\ mm - 1 \in 1 .. tt
      BY <1>2, <3>1
    <3> QED BY <1>5, <3>1, <3>2 DEF Sort!Prepared
  <2> QED BY <2>1, <2>2
<1>10. ASSUME NEW mm \in 1 .. tt PROVE Sort!Prepared(S, mm, st(mm), en(mm))
  BY <1>1, <1>8 DEF Sort!Prepared
<1>11. Sort!Prepared(S, Len(S) + 1, 0, nn)
  <2>1. tt \in 1 .. (Len(S) + 1) - 1 /\ tt \in 1 .. tt
    BY <1>6
  <2> QED BY <1>3, <1>5, <2>1 DEF Sort!Prepared
<1>12. /\ \A mm \in 1 .. Len(S) : mm \in 1 .. tt
       /\ \A mm \in 2 .. Len(S) : mm \in 1 .. tt
  BY <1>6
<1>13. \A mm \in 2 .. Len(S) : S[mm].op # "copy" /\ S[mm].k = S[mm].start /\ S[mm].j = S[mm].mid
  BY <1>5, <1>12
<1>14. \A mm \in 1 .. Len(S) : \A kk \in 1 .. mm - 1 : Sort!Nested(S[kk], S[mm])
  BY <1>8, <1>12
<1>15. \A mm \in 1 .. Len(S) :
         Sort!Prepared(S, mm, S[mm].start, S[mm].mid) /\ Sort!Prepared(S, mm, S[mm].mid, S[mm].end)
  BY <1>5, <1>9, <1>10, <1>12
<1> QED BY <1>6, <1>7, <1>11, <1>12, <1>13, <1>14, <1>15 DEF Sort!StackOk

\* The segment of a thread that does nothing, as others leave theirs.
LEMMA OthersSegments ==
  ASSUME Sort!TypeOK, NEW aa \in Sort!Threads, NEW bb \in Sort!Threads, aa # bb,
         OnlyOwn(aa, Sort!Start(aa, numRecords, numThreads), Sort!End(aa, numRecords, numThreads)),
         Sort!SegmentOk(bb)
  PROVE  Sort!SegmentOk(bb)'
<1>1. PICK la, ha, lb, hb :
        /\ la = Sort!Start(aa, numRecords, numThreads) /\ ha = Sort!End(aa, numRecords, numThreads)
        /\ lb = Sort!Start(bb, numRecords, numThreads) /\ hb = Sort!End(bb, numRecords, numThreads)
  OBVIOUS
<1>2. la \in Nat /\ ha \in Nat /\ (hb <= la \/ ha <= lb)
  BY <1>1, SegmentsHere
<1>3. lb \in Nat /\ hb \in Nat /\ hb <= numRecords /\ bb \in 0 .. numThreads
  BY <1>1, SegmentsHere
<1>4. \A xx \in lb .. hb - 1 : xx \in (0 .. numRecords - 1) \ (la .. ha - 1)
  <2>1. numRecords \in Nat
    BY SortTypes
  <2> QED BY <1>2, <1>3, <2>1
<1>5. \A xx \in lb .. hb - 1 : keys'[xx] = keys[xx] /\ temp'[xx] = temp[xx]
  BY <1>1, <1>4 DEF OnlyOwn
<1>6. /\ todo'[bb] = todo[bb] /\ created' = created
      /\ numRecords' = numRecords /\ numThreads' = numThreads
  BY <1>3 DEF OnlyOwn
<1>7. PICK S : S = todo[bb]
  OBVIOUS
<1>8. S \in Seq(Sort!Calls)
  BY <1>3, <1>7 DEF Sort!TypeOK
<1>9. CASE bb < created
  <2>1. Sort!StackOk(S, lb, hb)
    BY <1>1, <1>7, <1>9 DEF Sort!SegmentOk
  <2>2. Sort!StackOk(S, lb, hb)'
    BY <1>3, <1>5, <1>8, <2>1, StackElsewhere
  <2>3. Sort!StackOk(todo[bb], lb, hb)'
    BY <1>6, <1>7, <2>2
  <2>4. lb = Sort!Start(bb, numRecords', numThreads') /\ hb = Sort!End(bb, numRecords', numThreads')
    BY <1>1, <1>6
  <2> QED BY <1>6, <1>9, <2>3, <2>4 DEF Sort!SegmentOk, Sort!Start, Sort!End
<1>10. CASE ~ (bb < created)
  <2>1. todo[bb] = <<>> /\ Sort!Untouched(lb, hb)
    BY <1>1, <1>10 DEF Sort!SegmentOk
  <2>2. Sort!Untouched(lb, hb)'
    BY <1>5, <2>1 DEF Sort!Untouched
  <2>3. lb = Sort!Start(bb, numRecords', numThreads') /\ hb = Sort!End(bb, numRecords', numThreads')
    BY <1>1, <1>6
  <2> QED BY <1>6, <1>10, <2>1, <2>2, <2>3 DEF Sort!SegmentOk, Sort!Start, Sort!End
<1> QED BY <1>9, <1>10

LEMMA SortTypesKept ==
  ASSUME Sort!TypeOK, NEW aa, NEW lo, NEW hi, OnlyOwn(aa, lo, hi)
  PROVE  Sort!TypeOK'
BY DEF Sort!TypeOK, OnlyOwn

LEMMA SortCreate == Sort!IInv /\ Sort!Create => Sort!IInv'
<1> SUFFICES ASSUME Sort!IInv, Sort!Create PROVE Sort!IInv'
  OBVIOUS
<1>1. /\ Sort!TypeOK /\ ~ joined /\ todo[Sort!main] = <<>>
      /\ \A bb \in Sort!Threads : Sort!SegmentOk(bb)
      /\ created < numThreads
  BY SortTypes DEF Sort!IInv, Sort!Create
<1>2. PICK aa \in Sort!Threads : aa = created
  <2>1. created \in 0 .. numThreads /\ numThreads \in Nat
    BY <1>1, SortTypes DEF Sort!TypeOK
  <2> QED BY <1>1, <2>1 DEF Sort!Threads
<1>3. PICK lo, hi : lo = Sort!Start(aa, numRecords, numThreads)
                    /\ hi = Sort!End(aa, numRecords, numThreads)
  OBVIOUS
<1>4. lo \in Nat /\ hi \in Nat /\ lo <= hi /\ aa \in 0 .. numThreads /\ aa # Sort!main
  BY <1>1, <1>3, SegmentsHere
<1>5. /\ todo' = [todo EXCEPT ![aa] = <<Sort!Sort(lo, hi)>>] /\ created' = created + 1
      /\ keys' = keys /\ temp' = temp /\ UNCHANGED <<numRecords, numThreads, joined>>
  BY <1>2, <1>3 DEF Sort!Create
<1>6. Sort!Untouched(lo, hi)
  <2>1. created \in Nat
    BY <1>1, SortTypes DEF Sort!TypeOK
  <2> QED BY <1>1, <1>2, <1>3, <2>1 DEF Sort!SegmentOk
<1>7. PICK S : S = <<Sort!Sort(lo, hi)>>
  OBVIOUS
<1>8. S \in Seq(Sort!Calls) /\ Sort!StackOk(S, lo, hi)
  BY <1>4, <1>6, <1>7, FreshSort
<1>9. /\ todo \in [0 .. numThreads -> Seq(Sort!Calls)] /\ todo' = [todo EXCEPT ![aa] = S]
      /\ created \in Nat /\ numThreads \in Nat
  BY <1>1, <1>5, <1>7, SortTypes DEF Sort!TypeOK
<1>10. Sort!TypeOK'
  <2>1. created + 1 \in 0 .. numThreads
    BY <1>1, <1>9
  <2>2. todo' \in [0 .. numThreads -> Seq(Sort!Calls)]
    BY <1>8, <1>9
  <2> QED BY <1>1, <1>5, <2>1, <2>2 DEF Sort!TypeOK
<1>11. /\ todo'[aa] = S /\ \A bb \in 0 .. numThreads : bb # aa => todo'[bb] = todo[bb]
       /\ todo'[Sort!main] = <<>> /\ Sort!main' = Sort!main /\ Sort!Threads' = Sort!Threads
  BY <1>1, <1>4, <1>5, <1>9 DEF Sort!main, Sort!Threads
<1>12. ASSUME NEW bb \in Sort!Threads PROVE Sort!SegmentOk(bb)'
  <2>0. bb \in 0 .. numThreads /\ bb \in Nat
    BY <1>9 DEF Sort!Threads
  <2>1. CASE bb = aa
    <3>1. Sort!StackOk(S, lo, hi)'
      BY <1>5, <1>8, StackSame
    <3>2. Sort!StackOk(todo[bb], lo, hi)'
      BY <1>11, <2>1, <3>1
    <3>3. /\ lo = Sort!Start(bb, numRecords', numThreads')
          /\ hi = Sort!End(bb, numRecords', numThreads')
          /\ bb < created'
      BY <1>2, <1>3, <1>5, <1>9, <2>1
    <3> QED BY <3>2, <3>3 DEF Sort!SegmentOk, Sort!Start, Sort!End
  <2>2. CASE bb # aa
    <3>1. PICK lb, hb, S2 : /\ lb = Sort!Start(bb, numRecords, numThreads)
                            /\ hb = Sort!End(bb, numRecords, numThreads) /\ S2 = todo[bb]
      OBVIOUS
    <3>2. IF bb < created THEN Sort!StackOk(S2, lb, hb) ELSE S2 = <<>> /\ Sort!Untouched(lb, hb)
      BY <1>1, <3>1 DEF Sort!SegmentOk
    <3>3. bb < created' <=> bb < created
      BY <1>2, <1>5, <1>9, <2>0, <2>2
    <3>4. IF bb < created' THEN Sort!StackOk(S2, lb, hb)' ELSE S2 = <<>> /\ Sort!Untouched(lb, hb)'
      BY <1>5, <3>2, <3>3, StackSame DEF Sort!Untouched
    <3>5. /\ S2 = todo'[bb] /\ lb = Sort!Start(bb, numRecords', numThreads')
          /\ hb = Sort!End(bb, numRecords', numThreads')
      BY <1>5, <1>11, <2>0, <2>2, <3>1
    <3> QED BY <3>4, <3>5 DEF Sort!SegmentOk, Sort!Start, Sort!End
  <2> QED BY <2>1, <2>2
<1> QED BY <1>1, <1>5, <1>10, <1>11, <1>12 DEF Sort!IInv

LEMMA SortJoin == Sort!IInv /\ Sort!Join => Sort!IInv'
<1> SUFFICES ASSUME Sort!IInv, Sort!Join PROVE Sort!IInv'
  OBVIOUS
<1>1. /\ Sort!TypeOK /\ ~ joined /\ todo[Sort!main] = <<>>
      /\ \A bb \in Sort!Threads : Sort!SegmentOk(bb) /\ todo[bb] = <<>>
      /\ created = numThreads
  BY DEF Sort!IInv, Sort!Join, Sort!AllJoined
<1>2. PICK nn \in Nat, tt \in Nat \ {0} : nn = numRecords /\ tt = numThreads
  BY <1>1, SortTypes
<1>3. ASSUME NEW bb \in 0 .. tt - 1
      PROVE  Sort!SortedOn(keys, Sort!Start(bb, nn, tt), Sort!End(bb, nn, tt))
  <2>1. PICK lo, hi, S : lo = Sort!Start(bb, nn, tt) /\ hi = Sort!End(bb, nn, tt) /\ S = <<>>
    OBVIOUS
  <2>2. bb \in Sort!Threads /\ bb < created
    BY <1>1, <1>2 DEF Sort!Threads
  <2>3. Sort!StackOk(S, lo, hi)
    BY <1>1, <1>2, <2>1, <2>2 DEF Sort!SegmentOk
  <2>4. Sort!Prepared(S, 1, lo, hi)
    BY <2>1, <2>3 DEF Sort!StackOk
  <2> QED BY <2>1, <2>4 DEF Sort!Prepared
<1>4. PICK S : S = [mm \in 1 .. tt |->
                      Sort!Merge(0, Sort!Start(mm - 1, nn, tt), Sort!End(mm - 1, nn, tt))]
  OBVIOUS
<1>5. S \in Seq(Sort!Calls) /\ Sort!StackOk(S, 0, nn)
  BY <1>3, <1>4, MainMerges
<1>6. /\ todo' = [todo EXCEPT ![Sort!main] = S] /\ joined' = TRUE
      /\ keys' = keys /\ temp' = temp /\ UNCHANGED <<numRecords, numThreads, created>>
  BY <1>2, <1>4 DEF Sort!Join
<1>7. todo \in [0 .. numThreads -> Seq(Sort!Calls)] /\ Sort!main \in 0 .. numThreads
      /\ \A bb \in Sort!Threads : bb # Sort!main /\ bb \in 0 .. numThreads
  BY <1>1, <1>2 DEF Sort!TypeOK, Sort!main, Sort!Threads
<1>8. Sort!TypeOK'
  <2>1. todo' \in [0 .. numThreads -> Seq(Sort!Calls)]
    BY <1>5, <1>6, <1>7
  <2>2. joined' \in BOOLEAN
    BY <1>6
  <2> QED BY <1>1, <1>6, <2>1, <2>2 DEF Sort!TypeOK
<1>9. /\ todo'[Sort!main] = S /\ Sort!main' = Sort!main /\ Sort!Threads' = Sort!Threads
      /\ \A bb \in Sort!Threads : todo'[bb] = <<>>
  BY <1>1, <1>6, <1>7 DEF Sort!main, Sort!Threads
<1>10. Sort!StackOk(S, 0, nn)'
  BY <1>5, <1>6, StackSame
<1>11. S = todo'[Sort!main'] /\ nn = numRecords'
  BY <1>2, <1>6, <1>9
<1>12. Sort!StackOk(todo[Sort!main], 0, numRecords)'
  BY <1>10, <1>11
<1> QED BY <1>1, <1>6, <1>8, <1>9, <1>12 DEF Sort!IInv

LEMMA ActorRuns ==
  ASSUME Sort!TypeOK, NEW aa \in 0 .. numThreads, NEW lo \in Nat, NEW hi \in Nat, hi <= numRecords,
         Sort!StackOk(todo[aa], lo, hi),
         \/ Sort!MergeSort(aa) \/ Sort!Move(aa) \/ Sort!Moved(aa)
         \/ Sort!CopyBack(aa) \/ Sort!MergeReturns(aa)
  PROVE  OnlyOwn(aa, lo, hi) /\ Sort!StackOk(todo[aa], lo, hi)'
BY SortCalled, SortMoves, SortMoved, SortCopies, SortReturns

LEMMA SortStep == Sort!IInv /\ Sort!Next => Sort!IInv'
<1> SUFFICES ASSUME Sort!IInv, Sort!Next PROVE Sort!IInv'
  OBVIOUS
<1>1. Sort!TypeOK
  BY DEF Sort!IInv
<1>2. CASE Sort!Create
  BY <1>2, SortCreate
<1>3. CASE Sort!Join
  BY <1>3, SortJoin
<1>4. CASE ~ Sort!Create /\ ~ Sort!Join
  <2>1. PICK aa \in 0 .. numThreads :
          \/ Sort!MergeSort(aa) \/ Sort!Move(aa) \/ Sort!Moved(aa)
          \/ Sort!CopyBack(aa) \/ Sort!MergeReturns(aa)
    BY <1>4 DEF Sort!Next
  <2>2. todo[aa] # <<>>
    BY <2>1 DEF Sort!MergeSort, Sort!Move, Sort!Moved, Sort!CopyBack, Sort!MergeReturns, Sort!Does
  <2>3. numThreads \in Nat \ {0} /\ numRecords \in Nat /\ (aa \in Sort!Threads \/ aa = Sort!main)
    <3>1. numThreads \in Nat \ {0} /\ numRecords \in Nat
      BY <1>1, SortTypes
    <3> QED BY <3>1 DEF Sort!Threads, Sort!main
  <2>4. CASE joined
    <3>1. /\ created = numThreads /\ Sort!StackOk(todo[Sort!main], 0, numRecords)
          /\ \A bb \in Sort!Threads : todo[bb] = <<>>
      BY <2>4 DEF Sort!IInv
    <3>2. aa = Sort!main
      BY <2>2, <2>3, <3>1
    <3>3. PICK nn \in Nat : nn = numRecords
      BY <2>3
    <3>4. 0 \in Nat /\ nn <= numRecords /\ Sort!StackOk(todo[aa], 0, nn)
      BY <2>3, <3>1, <3>2, <3>3
    <3>5. OnlyOwn(aa, 0, nn) /\ Sort!StackOk(todo[aa], 0, nn)'
      BY <1>1, <2>1, <3>4, ActorRuns
    <3>6. Sort!TypeOK'
      BY <1>1, <3>5, SortTypesKept
    <3>7. /\ joined' = joined /\ created' = numThreads' /\ numRecords' = nn
          /\ Sort!main' = Sort!main /\ Sort!Threads' = Sort!Threads
          /\ \A bb \in Sort!Threads : todo'[bb] = <<>>
      <4>1. \A bb \in Sort!Threads : bb # aa /\ bb \in 0 .. numThreads
        BY <2>3, <3>2 DEF Sort!Threads, Sort!main
      <4> QED BY <3>1, <3>3, <3>5, <4>1 DEF OnlyOwn, Sort!main, Sort!Threads
    <3>8. Sort!StackOk(todo[Sort!main], 0, numRecords)'
      BY <3>2, <3>5, <3>7
    <3> QED BY <2>4, <3>6, <3>7, <3>8 DEF Sort!IInv
  <2>5. CASE ~ joined
    <3>1. todo[Sort!main] = <<>> /\ \A bb \in Sort!Threads : Sort!SegmentOk(bb)
      BY <2>5 DEF Sort!IInv
    <3>2. aa \in Sort!Threads
      BY <2>2, <2>3, <3>1
    <3>3. PICK lo, hi : lo = Sort!Start(aa, numRecords, numThreads)
                        /\ hi = Sort!End(aa, numRecords, numThreads)
      OBVIOUS
    <3>4. lo \in Nat /\ hi \in Nat /\ hi <= numRecords /\ aa # Sort!main
      BY <1>1, <3>2, <3>3, SegmentsHere
    <3>5. aa < created /\ Sort!StackOk(todo[aa], lo, hi)
      BY <2>2, <3>1, <3>2, <3>3 DEF Sort!SegmentOk
    <3>6. OnlyOwn(aa, lo, hi) /\ Sort!StackOk(todo[aa], lo, hi)'
      BY <1>1, <2>1, <3>4, <3>5, ActorRuns
    <3>7. Sort!TypeOK'
      BY <1>1, <3>6, SortTypesKept
    <3>8. ASSUME NEW bb \in Sort!Threads PROVE Sort!SegmentOk(bb)'
      <4>1. CASE bb = aa
        <5>1. /\ created' = created /\ lo = Sort!Start(aa, numRecords', numThreads')
              /\ hi = Sort!End(aa, numRecords', numThreads')
          BY <3>3, <3>6 DEF OnlyOwn
        <5> QED BY <3>5, <3>6, <4>1, <5>1 DEF Sort!SegmentOk, Sort!Start, Sort!End
      <4>2. CASE bb # aa
        BY <1>1, <3>1, <3>2, <3>3, <3>6, <4>2, OthersSegments
      <4> QED BY <4>1, <4>2
    <3>9. /\ joined' = joined /\ Sort!main' = Sort!main /\ Sort!Threads' = Sort!Threads
          /\ todo'[Sort!main] = <<>>
      <4>1. Sort!main \in 0 .. numThreads
        BY <2>3 DEF Sort!main
      <4> QED BY <3>1, <3>4, <3>6, <4>1 DEF OnlyOwn, Sort!main, Sort!Threads
    <3> QED BY <2>5, <3>7, <3>8, <3>9 DEF Sort!IInv
  <2> QED BY <2>4, <2>5
<1> QED BY <1>2, <1>3, <1>4

LEMMA SortSame == Sort!IInv /\ UNCHANGED sortVars => Sort!IInv'
<1> SUFFICES ASSUME Sort!IInv, UNCHANGED sortVars PROVE Sort!IInv'
  OBVIOUS
<1>1. keys' = keys /\ temp' = temp /\ UNCHANGED <<numRecords, numThreads, created, joined, todo>>
  BY DEF sortVars
<1>2. Sort!TypeOK'
  BY <1>1 DEF Sort!IInv, Sort!TypeOK
<1>3. ASSUME NEW S, NEW lo, NEW hi, Sort!StackOk(S, lo, hi) PROVE Sort!StackOk(S, lo, hi)'
  BY <1>1, <1>3, StackSame
<1>4. ASSUME NEW aa \in Sort!Threads, Sort!SegmentOk(aa) PROVE Sort!SegmentOk(aa)'
  <2>1. PICK lo, hi, S : /\ lo = Sort!Start(aa, numRecords, numThreads)
                         /\ hi = Sort!End(aa, numRecords, numThreads) /\ S = todo[aa]
    OBVIOUS
  <2>2. IF aa < created THEN Sort!StackOk(S, lo, hi) ELSE S = <<>> /\ Sort!Untouched(lo, hi)
    BY <1>4, <2>1 DEF Sort!SegmentOk
  <2>3. IF aa < created THEN Sort!StackOk(S, lo, hi)' ELSE S = <<>> /\ Sort!Untouched(lo, hi)'
    BY <1>1, <1>3, <2>2 DEF Sort!Untouched
  <2>4. /\ S = todo'[aa] /\ lo = Sort!Start(aa, numRecords', numThreads')
        /\ hi = Sort!End(aa, numRecords', numThreads')
    BY <1>1, <2>1
  <2> QED BY <1>1, <2>3, <2>4 DEF Sort!SegmentOk, Sort!Start, Sort!End
<1>5. joined => Sort!StackOk(todo[Sort!main], 0, numRecords)'
  <2>1. PICK S, nn : S = todo[Sort!main] /\ nn = numRecords
    OBVIOUS
  <2>2. joined => Sort!StackOk(S, 0, nn)'
    BY <1>3, <2>1 DEF Sort!IInv
  <2>3. S = todo'[Sort!main'] /\ nn = numRecords'
    BY <1>1, <2>1 DEF Sort!main
  <2> QED BY <2>2, <2>3
<1>6. Sort!main' = Sort!main /\ Sort!Threads' = Sort!Threads
  BY <1>1 DEF Sort!main, Sort!Threads
<1> QED BY <1>1, <1>2, <1>4, <1>5, <1>6 DEF Sort!IInv
-----------------------------------------------------------------------------
\* What an actor touches lies in its segment.
LEMMA RegionInside ==
  ASSUME Sort!TypeOK, NEW aa \in 0 .. numThreads, NEW lo \in Nat, NEW hi \in Nat,
         Sort!StackOk(todo[aa], lo, hi)
  PROVE  Sort!Region(aa) \subseteq lo .. hi - 1
<1>1. PICK S : S = todo[aa]
  OBVIOUS
<1>2. S \in Seq(Sort!Calls) /\ DOMAIN S = 1 .. Len(S)
  BY <1>1 DEF Sort!TypeOK
<1>3. ASSUME NEW mm \in 1 .. Len(S), NEW xx \in S[mm].start .. S[mm].end - 1
      PROVE  xx \in lo .. hi - 1
  <2>1. Sort!StackOk(S, lo, hi)
    BY <1>1
  <2>2. S[mm].start \in Nat /\ S[mm].mid \in Nat /\ S[mm].end \in Nat /\ lo <= S[mm].start /\ S[mm].end <= hi
    BY <1>2, <2>1, CallOnStack
  <2>3. PICK ss \in Nat, ee \in Nat : ss = S[mm].start /\ ee = S[mm].end
    BY <2>2
  <2>4. xx \in ss .. ee - 1 /\ lo <= ss /\ ee <= hi
    BY <2>2, <2>3
  <2> QED BY <2>4
<1> QED BY <1>1, <1>2, <1>3 DEF Sort!Region

LEMMA IdleRegion == \A aa : todo[aa] = <<>> => Sort!Region(aa) = {}
BY DEF Sort!Region

LEMMA SortIsSound == Sort!IInv => Sort!RaceFree /\ Sort!EndsSorted
<1> SUFFICES ASSUME Sort!IInv PROVE Sort!RaceFree /\ Sort!EndsSorted
  OBVIOUS
<1>1. Sort!TypeOK
  BY DEF Sort!IInv
<1>2. PICK nn \in Nat, tt \in Nat \ {0} : nn = numRecords /\ tt = numThreads
  BY <1>1, SortTypes
<1>3. Sort!Threads = 0 .. tt - 1 /\ Sort!main = tt
  BY <1>2 DEF Sort!Threads, Sort!main
<1>4. \A aa \in 0 .. numThreads : aa \in Sort!Threads \/ aa = Sort!main
  BY <1>2, <1>3
<1>5. ASSUME NEW aa \in 0 .. numThreads, NEW bb \in 0 .. numThreads, aa # bb
      PROVE  Sort!Region(aa) \cap Sort!Region(bb) = {}
  <2>1. CASE joined
    <3>1. \A cc \in Sort!Threads : Sort!Region(cc) = {}
      BY <2>1, IdleRegion DEF Sort!IInv
    <3> QED BY <1>4, <1>5, <3>1
  <2>2. CASE ~ joined
    <3>1. Sort!Region(Sort!main) = {}
      BY <2>2, IdleRegion DEF Sort!IInv
    <3>2. ASSUME NEW cc \in Sort!Threads
          PROVE  Sort!Region(cc) \subseteq
                   Sort!Start(cc, numRecords, numThreads) .. Sort!End(cc, numRecords, numThreads) - 1
      <4>1. PICK lo, hi : lo = Sort!Start(cc, numRecords, numThreads)
                          /\ hi = Sort!End(cc, numRecords, numThreads)
        OBVIOUS
      <4>2. lo \in Nat /\ hi \in Nat /\ cc \in 0 .. numThreads
        BY <1>1, <4>1, SegmentsHere
      <4>3. Sort!SegmentOk(cc)
        BY <2>2 DEF Sort!IInv
      <4>4. CASE cc < created
        <5>1. Sort!StackOk(todo[cc], lo, hi)
          BY <4>1, <4>3, <4>4 DEF Sort!SegmentOk
        <5> QED BY <1>1, <4>1, <4>2, <5>1, RegionInside
      <4>5. CASE ~ (cc < created)
        BY <4>3, <4>5, IdleRegion DEF Sort!SegmentOk
      <4> QED BY <4>4, <4>5
    <3>3. CASE aa \in Sort!Threads /\ bb \in Sort!Threads
      <4>1. PICK la, ha, lb, hb :
              /\ la = Sort!Start(aa, numRecords, numThreads) /\ ha = Sort!End(aa, numRecords, numThreads)
              /\ lb = Sort!Start(bb, numRecords, numThreads) /\ hb = Sort!End(bb, numRecords, numThreads)
        OBVIOUS
      <4>2. /\ la \in Nat /\ ha \in Nat /\ lb \in Nat /\ hb \in Nat
            /\ hb <= la \/ ha <= lb
        BY <1>1, <1>5, <3>3, <4>1, SegmentsHere
      <4>3. \A xx : ~ (xx \in la .. ha - 1 /\ xx \in lb .. hb - 1)
        BY <4>2
      <4>4. Sort!Region(aa) \subseteq la .. ha - 1 /\ Sort!Region(bb) \subseteq lb .. hb - 1
        BY <3>2, <3>3, <4>1
      <4> QED BY <4>3, <4>4
    <3> QED BY <1>4, <3>1, <3>3
  <2> QED BY <2>1, <2>2
<1>6. ASSUME Sort!Done PROVE Sort!Sorted
  <2>1. PICK S : S = <<>>
    OBVIOUS
  <2>2. Sort!StackOk(S, 0, nn)
    BY <1>2, <1>6, <2>1 DEF Sort!IInv, Sort!Done
  <2>3. Sort!Prepared(S, 1, 0, nn)
    BY <2>1, <2>2 DEF Sort!StackOk
  <2>4. Sort!SortedOn(keys, 0, nn)
    BY <2>1, <2>3 DEF Sort!Prepared
  <2>5. DOMAIN keys = 0 .. nn - 1
    BY <1>1, <1>2 DEF Sort!TypeOK
  <2> QED BY <2>4, <2>5 DEF Sort!SortedOn, Sort!Sorted
<1> QED BY <1>5, <1>6 DEF Sort!RaceFree, Sort!EndsSorted

\* psort's threads never share a record and the whole ends sorted, equal keys
\* in the order of the input, for any number of records and threads and any
\* keys (psort.c:113-125, 167-170).
THEOREM SortExact == Spec => []SortSound
<1> DEFINE I == program = "psort" => Sort!IInv
<1>1. Init => I
  BY SortInit DEF Init
<1>2. I /\ [Next]_vars => I'
  <2> SUFFICES ASSUME I, [Next]_vars PROVE I'
    OBVIOUS
  <2>1. CASE UNCHANGED <<program, sortVars>>
    BY <2>1, SortSame
  <2>2. CASE OnlySort /\ Sort!Next
    BY <2>2, SortStep DEF OnlySort
  <2> QED BY <2>1, <2>2
    DEF Next, vars, OnlyHeap, OnlyShell, OnlyScan, OnlyCopy
<1>3. I => SortSound
  BY SortIsSound DEF SortSound
<1> QED BY <1>1, <1>2, <1>3, PTL DEF Spec
-----------------------------------------------------------------------------
(***************************************************************************)
(* runscan: the copy of a file.                                            *)
(***************************************************************************)
LEMMA CopyConstants ==
  BlockSize \in Nat /\ BlockSize >= 1 /\ NDIR \in Nat /\ NDIR >= 1 /\ PTRS \in Nat /\ PTRS >= 1
BY ProgramsAssumptions DEF Copy!ConstantAssumptions

\* Quotients and remainders of sizes.
LEMMA Quotient ==
  ASSUME NEW bs \in Nat, bs >= 1, NEW nn \in Nat, NEW qq \in Nat,
         qq * bs <= nn, nn < (qq + 1) * bs
  PROVE  nn \div bs = qq /\ nn % bs = nn - qq * bs
<1>1. PICK q2 \in Nat, rr \in Nat : q2 = nn \div bs /\ rr = nn % bs /\ rr < bs /\ nn = q2 * bs + rr
  OBVIOUS
<1>2. \A x1, x2 \in Nat : x1 <= x2 => x1 * bs <= x2 * bs
  OBVIOUS
<1>3. (q2 + 1) * bs = q2 * bs + bs /\ (qq + 1) * bs = qq * bs + bs
  OBVIOUS
<1>4. q2 * bs \in Nat /\ qq * bs \in Nat
  OBVIOUS
<1>5. ~ (q2 + 1 <= qq)
  <2> SUFFICES ASSUME q2 + 1 <= qq PROVE FALSE
    OBVIOUS
  <2>1. (q2 + 1) * bs <= qq * bs
    BY <1>2
  <2> QED BY <2>1, <1>1, <1>3, <1>4
<1>6. ~ (qq + 1 <= q2)
  <2> SUFFICES ASSUME qq + 1 <= q2 PROVE FALSE
    OBVIOUS
  <2>1. (qq + 1) * bs <= q2 * bs
    BY <1>2
  <2> QED BY <2>1, <1>1, <1>3, <1>4
<1>7. q2 = qq
  BY <1>5, <1>6
<1> QED BY <1>1, <1>4, <1>7

LEMMA PlacesIs ==
  /\ Copy!Places \in Nat /\ Copy!Places = NDIR + PTRS + PTRS * PTRS
  /\ PTRS * PTRS \in Nat /\ Copy!Limit = BlockSize * Copy!Places /\ Copy!Limit \in Nat
  /\ Copy!NotData = Copy!Places
BY CopyConstants DEF Copy!Places, Copy!Limit, Copy!NotData

\* The blocks of a file of ss bytes, when nn blocks are just enough.
LEMMA BlocksOf ==
  ASSUME NEW ss \in Nat, NEW nn \in Nat, ss <= nn * BlockSize,
         nn = 0 \/ (nn - 1) * BlockSize < ss
  PROVE  Copy!Blocks(ss) = nn
<1>1. BlockSize \in Nat /\ BlockSize >= 1
  BY CopyConstants
<1>2. nn * BlockSize \in Nat /\ (nn + 1) * BlockSize = nn * BlockSize + BlockSize
      /\ (nn - 1) * BlockSize = nn * BlockSize - BlockSize
  BY <1>1
<1>3. PICK xx \in Nat : xx = ss + BlockSize - 1
  BY <1>1
<1>4. nn * BlockSize <= xx /\ xx < (nn + 1) * BlockSize
  <2>1. CASE nn = 0
    BY <1>1, <1>2, <1>3, <2>1
  <2>2. CASE nn # 0
    BY <1>1, <1>2, <1>3, <2>2
  <2> QED BY <2>1, <2>2
<1>5. xx \div BlockSize = nn
  BY <1>1, <1>4, Quotient
<1> QED BY <1>3, <1>5 DEF Copy!Blocks

\* How the pointers' places follow each other.
LEMMA PlacesInOrder ==
  \A oo \in 0 .. PTRS - 1 :
    /\ oo * PTRS \in Nat /\ (oo + 1) * PTRS = oo * PTRS + PTRS
    /\ oo * PTRS + PTRS <= PTRS * PTRS
<1> SUFFICES ASSUME NEW oo \in 0 .. PTRS - 1
             PROVE  /\ oo * PTRS \in Nat /\ (oo + 1) * PTRS = oo * PTRS + PTRS
                    /\ oo * PTRS + PTRS <= PTRS * PTRS
  OBVIOUS
<1>1. PTRS \in Nat /\ oo \in Nat /\ oo + 1 <= PTRS
  BY CopyConstants
<1>2. \A x1, x2 \in Nat : x1 <= x2 => x1 * PTRS <= x2 * PTRS
  BY <1>1
<1>3. (oo + 1) * PTRS <= PTRS * PTRS
  BY <1>1, <1>2
<1> QED BY <1>1, <1>3

LEMMA CopyInit == Copy!Init => Copy!IInv
<1> SUFFICES ASSUME Copy!Init PROVE Copy!IInv
  OBVIOUS
<1>1. /\ fileSize \in 0 .. Copy!Limit + BlockSize /\ copyPc = "direct" /\ buffer = Copy!Direct(0)
      /\ copied = 0 /\ block_idx = 0 /\ outer = 0 /\ copyOut = <<>> /\ Len(copyOut) = 0
  BY DEF Copy!Init
<1>2. fileSize \in Nat /\ 0 * BlockSize = 0
  BY <1>1, CopyConstants, PlacesIs
<1>3. Copy!TypeOK
  <2>1. buffer \in 0 .. Copy!Places
    BY <1>1, CopyConstants, PlacesIs DEF Copy!Direct
  <2>2. outer \in 0 .. PTRS /\ copied \in 0 .. fileSize /\ block_idx \in Nat
    BY <1>1, <1>2, CopyConstants
  <2>3. copyOut \in Seq((0 .. Copy!Places) \X Nat)
    BY <1>1
  <2> QED BY <1>1, <2>1, <2>2, <2>3 DEF Copy!TypeOK
<1>4. Copy!InOrder
  BY <1>1 DEF Copy!InOrder
<1>5. Copy!NextBlock = 0
  BY <1>1 DEF Copy!NextBlock
<1>6. IF Copy!Left THEN copied = Copy!NextBlock * BlockSize /\ Copy!AtNext
      ELSE fileSize <= Copy!NextBlock * BlockSize
           /\ (Copy!NextBlock = 0 \/ (Copy!NextBlock - 1) * BlockSize < fileSize)
  BY <1>1, <1>2, <1>5, CopyConstants DEF Copy!Left, Copy!AtNext
<1> QED BY <1>3, <1>4, <1>5, <1>6, PlacesIs DEF Copy!IInv

\* One block is written: the next of the file.
LEMMA BlockWritten ==
  ASSUME Copy!IInv, Copy!Left, NEW following, Copy!WriteBlock(following),
         buffer = Copy!NextBlock, Copy!NextBlock < Copy!Places, fileSize' = fileSize
  PROVE  /\ copyOut' \in Seq((0 .. Copy!Places) \X Nat) /\ Copy!InOrder'
         /\ Copy!NextBlock' = Copy!NextBlock + 1 /\ Copy!NextBlock' <= Copy!Places
         /\ copied' \in 0 .. fileSize
         /\ IF Copy!Left'
            THEN copied' = Copy!NextBlock' * BlockSize /\ block_idx' = block_idx + 1 /\ buffer' = following
            ELSE /\ fileSize <= Copy!NextBlock' * BlockSize
                 /\ Copy!NextBlock' = 0 \/ (Copy!NextBlock' - 1) * BlockSize < fileSize
                 /\ \/ block_idx' = block_idx + 1 /\ buffer' = following
                    \/ block_idx' = block_idx /\ buffer' = buffer
<1>1. PICK nn, ww, bs, ss :
        nn = Copy!NextBlock /\ ww = Copy!WriteLen /\ bs = BlockSize /\ ss = fileSize
  OBVIOUS
<1>2. /\ nn \in Nat /\ nn = Len(copyOut) /\ bs \in Nat /\ bs >= 1 /\ ss \in Nat /\ nn < Copy!Places
      /\ copyOut \in Seq((0 .. Copy!Places) \X Nat) /\ copied = nn * bs /\ nn * bs < ss
      /\ Copy!Places \in Nat
  <2>1. copyOut \in Seq((0 .. Copy!Places) \X Nat) /\ fileSize \in 0 .. Copy!Limit + BlockSize
    BY DEF Copy!IInv, Copy!TypeOK
  <2>2. copied = nn * bs /\ copied < ss
    BY <1>1 DEF Copy!IInv, Copy!Left
  <2> QED BY <1>1, <2>1, <2>2, CopyConstants, PlacesIs DEF Copy!NextBlock
<1>3. PICK a1 \in Nat, a2 \in Nat :
        /\ a1 = nn * bs /\ a2 = (nn + 1) * bs /\ ((nn + 1) - 1) * bs = a1
        /\ a2 = a1 + bs /\ a1 < ss /\ bs >= 1
  BY <1>2
<1>15. a2 = a1 + bs /\ a1 < ss /\ bs >= 1 /\ ss \in Nat /\ bs \in Nat
  BY <1>2, <1>3
<1>4. ww = (IF a2 > ss THEN ss - a1 ELSE bs) /\ ww \in Nat
  BY <1>1, <1>2, <1>3 DEF Copy!WriteLen
<1>5. ww = IF (nn + 1) * bs <= ss THEN bs ELSE ss % bs
  <2>1. CASE a2 <= ss
    BY <1>2, <1>3, <1>4, <2>1
  <2>2. CASE ~ (a2 <= ss)
    <3>1. a1 <= ss /\ ss < a2
      BY <1>2, <1>3, <2>2
    <3>2. nn * bs <= ss /\ ss < (nn + 1) * bs
      BY <1>3, <3>1
    <3>3. ss % bs = ss - nn * bs
      BY <1>2, <3>2, Quotient
    <3> QED BY <1>2, <1>3, <1>4, <2>2, <3>3
  <2> QED BY <2>1, <2>2
<1>6. /\ copyOut' = Append(copyOut, <<nn, ww>>) /\ copied' = a1 + ww
      /\ IF ww = bs THEN block_idx' = block_idx + 1 /\ buffer' = following
         ELSE block_idx' = block_idx /\ buffer' = buffer
  BY <1>1, <1>2, <1>3 DEF Copy!WriteBlock
<1>7. <<nn, ww>> \in (0 .. Copy!Places) \X Nat
  BY <1>2, <1>4
<1>8. /\ copyOut' \in Seq((0 .. Copy!Places) \X Nat) /\ Len(copyOut') = nn + 1
      /\ copyOut'[nn + 1] = <<nn, ww>>
      /\ \A bb \in 1 .. nn : copyOut'[bb] = copyOut[bb]
  <2>1. /\ copyOut \in Seq((0 .. Copy!Places) \X Nat) /\ Len(copyOut) = nn
        /\ copyOut' = Append(copyOut, <<nn, ww>>)
    BY <1>2, <1>6
  <2> QED BY <1>7, <2>1
<1>9. Copy!InOrder'
  <2>1. ASSUME NEW bb \in 1 .. nn + 1
        PROVE  copyOut'[bb] = <<bb - 1, IF bb * bs <= ss THEN bs ELSE ss % bs>>
    <3>1. CASE bb = nn + 1
      BY <1>2, <1>5, <1>8, <3>1
    <3>2. CASE bb # nn + 1
      <4>1. bb \in 1 .. nn
        BY <1>2, <3>2
      <4>2. \A b2 \in 1 .. nn :
              copyOut[b2] = <<b2 - 1, IF b2 * bs <= ss THEN bs ELSE ss % bs>>
        BY <1>1, <1>2 DEF Copy!IInv, Copy!InOrder
      <4> QED BY <1>8, <4>1, <4>2
    <3> QED BY <3>1, <3>2
  <2> QED BY <1>1, <1>8, <2>1 DEF Copy!InOrder
<1>10. Copy!NextBlock' = nn + 1 /\ nn + 1 <= Copy!Places
  BY <1>2, <1>8 DEF Copy!NextBlock
<1>11. a1 + ww \in 0 .. ss
  BY <1>4, <1>15
<1>12. Copy!Left' <=> a1 + ww < ss
  BY <1>1, <1>6 DEF Copy!Left
<1>13. CASE a1 + ww < ss
  <2>1. ww = bs /\ a1 + ww = a2
    BY <1>4, <1>13, <1>15
  <2>2. copied' = (nn + 1) * bs /\ block_idx' = block_idx + 1 /\ buffer' = following
    BY <1>3, <1>6, <2>1
  <2> QED BY <1>1, <1>6, <1>8, <1>9, <1>10, <1>11, <1>12, <1>13, <2>2
<1>14. CASE ~ (a1 + ww < ss)
  <2>1. ss <= a2 /\ a1 < ss
    BY <1>4, <1>14, <1>15
  <2>2. ss <= (nn + 1) * bs /\ ((nn + 1) - 1) * bs < ss
    BY <1>3, <2>1
  <2> QED BY <1>1, <1>6, <1>8, <1>9, <1>10, <1>11, <1>12, <1>14, <2>2
<1> QED BY <1>13, <1>14

LEMMA CopyTypes ==
  Copy!IInv =>
    /\ fileSize \in Nat /\ copied \in Nat /\ block_idx \in Nat /\ outer \in 0 .. PTRS
    /\ copyOut \in Seq((0 .. Copy!Places) \X Nat)
    /\ Copy!NextBlock \in Nat /\ Copy!NextBlock = Len(copyOut) /\ Copy!NextBlock <= Copy!Places
<1> SUFFICES ASSUME Copy!IInv
             PROVE  /\ fileSize \in Nat /\ copied \in Nat /\ block_idx \in Nat /\ outer \in 0 .. PTRS
                    /\ copyOut \in Seq((0 .. Copy!Places) \X Nat)
                    /\ Copy!NextBlock \in Nat /\ Copy!NextBlock = Len(copyOut)
                    /\ Copy!NextBlock <= Copy!Places
  OBVIOUS
<1>1. /\ fileSize \in 0 .. Copy!Limit + BlockSize /\ copied \in 0 .. fileSize
      /\ block_idx \in Nat /\ outer \in 0 .. PTRS
      /\ copyOut \in Seq((0 .. Copy!Places) \X Nat)
  BY DEF Copy!IInv, Copy!TypeOK
<1>2. fileSize \in Nat /\ copied \in Nat
  BY <1>1, CopyConstants, PlacesIs
<1>3. Copy!NextBlock = Len(copyOut)
  BY DEF Copy!NextBlock
<1>4. Copy!NextBlock <= Copy!Places
  BY DEF Copy!IInv
<1> QED BY <1>1, <1>2, <1>3, <1>4

\* The loop goes on with the pointer after the one whose block was written.
LEMMA CopyOne ==
  ASSUME Copy!IInv, Copy!Left, NEW following \in 0 .. Copy!Places, Copy!WriteBlock(following),
         buffer = Copy!NextBlock, Copy!NextBlock < Copy!Places,
         UNCHANGED <<fileSize, copyPc, outer>>,
         (block_idx' = block_idx + 1 /\ buffer' = following
          /\ Copy!NextBlock' = Copy!NextBlock + 1) => Copy!AtNext'
  PROVE  Copy!IInv'
<1>1. /\ copyOut' \in Seq((0 .. Copy!Places) \X Nat) /\ Copy!InOrder'
      /\ Copy!NextBlock' = Copy!NextBlock + 1 /\ Copy!NextBlock' <= Copy!Places
      /\ copied' \in 0 .. fileSize
      /\ IF Copy!Left'
         THEN copied' = Copy!NextBlock' * BlockSize /\ block_idx' = block_idx + 1 /\ buffer' = following
         ELSE /\ fileSize <= Copy!NextBlock' * BlockSize
              /\ Copy!NextBlock' = 0 \/ (Copy!NextBlock' - 1) * BlockSize < fileSize
              /\ \/ block_idx' = block_idx + 1 /\ buffer' = following
                 \/ block_idx' = block_idx /\ buffer' = buffer
  BY BlockWritten
<1>2. block_idx' \in Nat /\ buffer' \in 0 .. Copy!Places
  <2>1. block_idx \in Nat /\ buffer \in 0 .. Copy!Places
    BY DEF Copy!IInv, Copy!TypeOK
  <2> QED BY <1>1, <2>1
<1>3. Copy!TypeOK'
  BY <1>1, <1>2 DEF Copy!IInv, Copy!TypeOK
<1>4. IF Copy!Left' THEN copied' = Copy!NextBlock' * BlockSize /\ Copy!AtNext'
      ELSE fileSize' <= Copy!NextBlock' * BlockSize
           /\ (Copy!NextBlock' = 0 \/ (Copy!NextBlock' - 1) * BlockSize < fileSize')
  BY <1>1
<1> QED BY <1>1, <1>3, <1>4 DEF Copy!IInv

\* A step that writes nothing, when it leaves the pointers at the next block.
LEMMA CopyControl ==
  ASSUME Copy!IInv, UNCHANGED <<fileSize, copied, copyOut>>,
         copyPc' \in {"direct", "indirect", "outer", "double", "done"},
         buffer' \in 0 .. Copy!Places, block_idx' \in Nat, outer' \in 0 .. PTRS,
         Copy!Left => Copy!AtNext'
  PROVE  Copy!IInv'
<1>1. Copy!TypeOK'
  BY DEF Copy!IInv, Copy!TypeOK
<1>2. Copy!InOrder'
  BY DEF Copy!IInv, Copy!InOrder
<1>3. Copy!NextBlock' = Copy!NextBlock /\ (Copy!Left' <=> Copy!Left)
  BY DEF Copy!NextBlock, Copy!Left
<1>4. CASE Copy!Left
  <2>1. copied = Copy!NextBlock * BlockSize /\ Copy!NextBlock <= Copy!Places
    BY <1>4 DEF Copy!IInv
  <2> QED BY <1>1, <1>2, <1>3, <1>4, <2>1 DEF Copy!IInv
<1>5. CASE ~ Copy!Left
  <2>1. /\ fileSize <= Copy!NextBlock * BlockSize /\ Copy!NextBlock <= Copy!Places
        /\ Copy!NextBlock = 0 \/ (Copy!NextBlock - 1) * BlockSize < fileSize
    BY <1>5 DEF Copy!IInv
  <2> QED BY <1>1, <1>2, <1>3, <1>5, <2>1 DEF Copy!IInv
<1> QED BY <1>4, <1>5

LEMMA CopyAt == Copy!IInv /\ Copy!Left => Copy!AtNext
BY DEF Copy!IInv

\* Where the pointers lead is a place, or no data.
LEMMA PointersLead ==
  /\ \A bb \in Nat : Copy!Direct(bb) \in 0 .. Copy!Places /\ Copy!Indirect(bb) \in 0 .. Copy!Places
  /\ \A oo \in 0 .. PTRS - 1, bb \in Nat :
       /\ Copy!Double(oo, bb) \in 0 .. Copy!Places
       /\ bb < PTRS => NDIR + PTRS + oo * PTRS + bb < Copy!Places
<1>1. ASSUME NEW bb \in Nat
      PROVE  Copy!Direct(bb) \in 0 .. Copy!Places /\ Copy!Indirect(bb) \in 0 .. Copy!Places
  <2>1. PICK dd \in Nat, pp \in Nat, qq \in Nat, ll \in Nat :
          dd = NDIR /\ pp = PTRS /\ qq = PTRS * PTRS /\ ll = Copy!Places /\ ll = dd + pp + qq
    BY CopyConstants, PlacesIs
  <2>2. Copy!Direct(bb) = IF bb < dd THEN bb ELSE ll
    BY <2>1, PlacesIs DEF Copy!Direct
  <2>3. Copy!Indirect(bb) = IF bb < pp THEN dd + bb ELSE ll
    BY <2>1, PlacesIs DEF Copy!Indirect
  <2>4. Copy!Direct(bb) \in 0 .. ll
    BY <2>1, <2>2
  <2>5. Copy!Indirect(bb) \in 0 .. ll
    BY <2>1, <2>3
  <2> QED BY <2>1, <2>4, <2>5
<1>2. ASSUME NEW oo \in 0 .. PTRS - 1, NEW bb \in Nat
      PROVE  /\ Copy!Double(oo, bb) \in 0 .. Copy!Places
             /\ bb < PTRS => NDIR + PTRS + oo * PTRS + bb < Copy!Places
  <2>1. PICK dd \in Nat, pp \in Nat, qq \in Nat, ll \in Nat, op \in Nat :
          /\ dd = NDIR /\ pp = PTRS /\ qq = PTRS * PTRS /\ ll = Copy!Places /\ ll = dd + pp + qq
          /\ op = oo * PTRS /\ op + pp <= qq
    BY CopyConstants, PlacesIs, PlacesInOrder
  <2>2. Copy!Double(oo, bb) = IF bb < pp THEN dd + pp + op + bb ELSE ll
    BY <2>1, PlacesIs DEF Copy!Double
  <2>3. bb < pp => dd + pp + op + bb < ll
    BY <2>1
  <2>4. Copy!Double(oo, bb) \in 0 .. ll
    BY <2>1, <2>2, <2>3
  <2> QED BY <2>1, <2>3, <2>4
<1> QED BY <1>1, <1>2

LEMMA CopyDirectStep == Copy!IInv /\ Copy!CopyDirect => Copy!IInv'
<1> SUFFICES ASSUME Copy!IInv, Copy!CopyDirect PROVE Copy!IInv'
  OBVIOUS
<1>1. /\ copyPc = "direct" /\ Copy!Left /\ block_idx < NDIR
      /\ Copy!WriteBlock(Copy!Direct(block_idx + 1)) /\ UNCHANGED <<fileSize, copyPc, outer>>
  BY DEF Copy!CopyDirect
<1>2. block_idx \in Nat /\ block_idx + 1 \in Nat /\ block_idx + 1 <= NDIR /\ NDIR <= Copy!Places
  BY <1>1, CopyTypes, CopyConstants, PlacesIs
<1>3. Copy!NextBlock = block_idx /\ buffer = Copy!Direct(block_idx)
  BY <1>1, CopyAt DEF Copy!AtNext
<1>4. buffer = Copy!NextBlock /\ Copy!NextBlock < Copy!Places
  BY <1>1, <1>2, <1>3, CopyConstants, PlacesIs DEF Copy!Direct
<1>5. Copy!Direct(block_idx + 1) \in 0 .. Copy!Places
  BY <1>2, PointersLead
<1>6. ASSUME block_idx' = block_idx + 1 /\ buffer' = Copy!Direct(block_idx + 1)
             /\ Copy!NextBlock' = Copy!NextBlock + 1
      PROVE  Copy!AtNext'
  BY <1>1, <1>2, <1>3, <1>6 DEF Copy!AtNext, Copy!Direct, Copy!NotData, Copy!Places
<1>8. PICK ff \in 0 .. Copy!Places : ff = Copy!Direct(block_idx + 1)
  BY <1>5
<1>9. (block_idx' = block_idx + 1 /\ buffer' = ff /\ Copy!NextBlock' = Copy!NextBlock + 1)
        => Copy!AtNext'
  BY <1>8, <1>6
<1>10. Copy!WriteBlock(ff) /\ Copy!Left /\ UNCHANGED <<fileSize, copyPc, outer>>
  BY <1>1, <1>8
<1> QED BY <1>4, <1>9, <1>10, CopyOne

LEMMA CopyIndirectStep == Copy!IInv /\ Copy!CopyIndirect => Copy!IInv'
<1> SUFFICES ASSUME Copy!IInv, Copy!CopyIndirect PROVE Copy!IInv'
  OBVIOUS
<1>1. /\ copyPc = "indirect" /\ Copy!Left /\ block_idx < PTRS
      /\ Copy!WriteBlock(Copy!Indirect(block_idx + 1)) /\ UNCHANGED <<fileSize, copyPc, outer>>
  BY DEF Copy!CopyIndirect
<1>2. block_idx \in Nat /\ block_idx + 1 \in Nat /\ block_idx + 1 <= PTRS
      /\ NDIR + block_idx < Copy!Places
  <2>1. PICK dd \in Nat, pp \in Nat, qq \in Nat :
          dd = NDIR /\ pp = PTRS /\ qq = PTRS * PTRS /\ Copy!Places = dd + pp + qq
    BY CopyConstants, PlacesIs
  <2>2. block_idx \in Nat /\ block_idx < pp
    BY <1>1, <2>1, CopyTypes
  <2>3. block_idx + 1 <= pp /\ dd + block_idx < dd + pp + qq
    BY <2>1, <2>2
  <2> QED BY <2>1, <2>2, <2>3
<1>3. Copy!NextBlock = NDIR + block_idx /\ buffer = Copy!Indirect(block_idx)
  BY <1>1, CopyAt DEF Copy!AtNext
<1>4. buffer = Copy!NextBlock /\ Copy!NextBlock < Copy!Places
  BY <1>1, <1>2, <1>3 DEF Copy!Indirect
<1>5. Copy!Indirect(block_idx + 1) \in 0 .. Copy!Places
  BY <1>2, PointersLead
<1>6. ASSUME block_idx' = block_idx + 1 /\ buffer' = Copy!Indirect(block_idx + 1)
             /\ Copy!NextBlock' = Copy!NextBlock + 1
      PROVE  Copy!AtNext'
  <2>1. Copy!NextBlock' = NDIR + (block_idx + 1)
    BY <1>2, <1>3, <1>6, CopyConstants
  <2> QED BY <1>1, <1>2, <1>6, <2>1 DEF Copy!AtNext, Copy!Indirect, Copy!NotData, Copy!Places
<1>8. PICK ff \in 0 .. Copy!Places : ff = Copy!Indirect(block_idx + 1)
  BY <1>5
<1>9. (block_idx' = block_idx + 1 /\ buffer' = ff /\ Copy!NextBlock' = Copy!NextBlock + 1)
        => Copy!AtNext'
  BY <1>8, <1>6
<1>10. Copy!WriteBlock(ff) /\ Copy!Left /\ UNCHANGED <<fileSize, copyPc, outer>>
  BY <1>1, <1>8
<1> QED BY <1>4, <1>9, <1>10, CopyOne

LEMMA CopyDoubleStep == Copy!IInv /\ Copy!CopyDouble => Copy!IInv'
<1> SUFFICES ASSUME Copy!IInv, Copy!CopyDouble PROVE Copy!IInv'
  OBVIOUS
<1>0. PICK oo : oo = outer - 1
  OBVIOUS
<1>1. /\ copyPc = "double" /\ Copy!Left /\ block_idx < PTRS
      /\ Copy!WriteBlock(Copy!Double(oo, block_idx + 1)) /\ UNCHANGED <<fileSize, copyPc, outer>>
  BY <1>0 DEF Copy!CopyDouble
<1>2. /\ outer >= 1 /\ Copy!NextBlock = NDIR + PTRS + oo * PTRS + block_idx
      /\ buffer = Copy!Double(oo, block_idx)
  BY <1>0, <1>1, CopyAt DEF Copy!AtNext
<1>3. block_idx \in Nat /\ block_idx + 1 \in Nat /\ block_idx + 1 <= PTRS /\ oo \in 0 .. PTRS - 1
  <2>1. PICK pp \in Nat : pp = PTRS
    BY CopyConstants
  <2>2. block_idx \in Nat /\ block_idx < pp /\ outer \in 0 .. pp /\ outer >= 1
    BY <1>1, <1>2, <2>1, CopyTypes
  <2>3. block_idx + 1 <= pp /\ outer - 1 \in 0 .. pp - 1
    BY <2>2
  <2> QED BY <1>0, <2>1, <2>2, <2>3
<1>4. NDIR + PTRS + oo * PTRS + block_idx < Copy!Places
  BY <1>1, <1>3, PointersLead
<1>5. buffer = Copy!NextBlock /\ Copy!NextBlock < Copy!Places
  BY <1>1, <1>2, <1>4 DEF Copy!Double
<1>6. Copy!Double(oo, block_idx + 1) \in 0 .. Copy!Places
  BY <1>3, PointersLead
<1>7. ASSUME block_idx' = block_idx + 1 /\ buffer' = Copy!Double(oo, block_idx + 1)
             /\ Copy!NextBlock' = Copy!NextBlock + 1
      PROVE  Copy!AtNext'
  <2>1. PICK base \in Nat : base = NDIR + PTRS + oo * PTRS
    BY <1>3, PlacesInOrder, CopyConstants
  <2>2. Copy!NextBlock' = NDIR + PTRS + oo * PTRS + (block_idx + 1)
    BY <1>2, <1>3, <1>7, <2>1
  <2>3. copyPc' = "double" /\ outer' = outer /\ outer' - 1 = oo
    BY <1>0, <1>1
  <2> QED BY <1>2, <1>3, <1>7, <2>2, <2>3 DEF Copy!AtNext, Copy!Double, Copy!NotData, Copy!Places
<1>8. PICK ff \in 0 .. Copy!Places : ff = Copy!Double(oo, block_idx + 1)
  BY <1>6
<1>9. (block_idx' = block_idx + 1 /\ buffer' = ff /\ Copy!NextBlock' = Copy!NextBlock + 1)
        => Copy!AtNext'
  BY <1>8, <1>7
<1>10. Copy!WriteBlock(ff) /\ Copy!Left /\ UNCHANGED <<fileSize, copyPc, outer>>
  BY <1>1, <1>8
<1> QED BY <1>5, <1>9, <1>10, CopyOne

LEMMA CopyTurns ==
  Copy!IInv /\ (Copy!ToIndirect \/ Copy!ToDouble \/ Copy!NextOuter \/ Copy!EndDouble \/ Copy!Close)
    => Copy!IInv'
<1> SUFFICES ASSUME Copy!IInv PROVE
      (Copy!ToIndirect \/ Copy!ToDouble \/ Copy!NextOuter \/ Copy!EndDouble \/ Copy!Close)
        => Copy!IInv'
  OBVIOUS
<1>0. /\ block_idx \in Nat /\ outer \in 0 .. PTRS /\ buffer \in 0 .. Copy!Places
      /\ 0 \in 0 .. PTRS /\ 0 \in Nat
  BY CopyTypes, CopyConstants DEF Copy!IInv, Copy!TypeOK
<1>1. CASE Copy!ToIndirect
  <2>1. /\ copyPc = "direct" /\ Copy!Left /\ block_idx >= NDIR /\ copyPc' = "indirect"
        /\ buffer' = Copy!Indirect(0) /\ block_idx' = 0
        /\ UNCHANGED <<fileSize, copied, outer, copyOut>>
    BY <1>1 DEF Copy!ToIndirect
  <2>2. block_idx <= NDIR /\ Copy!NextBlock = block_idx
    BY <2>1, CopyAt DEF Copy!AtNext
  <2>3. Copy!NextBlock' = NDIR + 0 /\ 0 <= PTRS
    BY <1>0, <2>1, <2>2, CopyConstants DEF Copy!NextBlock
  <2>4. Copy!AtNext'
    BY <2>1, <2>3 DEF Copy!AtNext, Copy!Indirect, Copy!NotData, Copy!Places
  <2>5. buffer' \in 0 .. Copy!Places
    BY <1>0, <2>1, PointersLead
  <2> QED BY <1>0, <2>1, <2>4, <2>5, CopyControl
<1>2. CASE Copy!ToDouble
  <2>1. /\ copyPc = "indirect" /\ Copy!Left /\ block_idx >= PTRS /\ copyPc' = "outer" /\ outer' = 0
        /\ UNCHANGED <<fileSize, buffer, copied, block_idx, copyOut>>
    BY <1>2 DEF Copy!ToDouble
  <2>2. block_idx <= PTRS /\ Copy!NextBlock = NDIR + block_idx
    BY <2>1, CopyAt DEF Copy!AtNext
  <2>3. Copy!NextBlock' = NDIR + PTRS + 0 * PTRS
    BY <1>0, <2>1, <2>2, CopyConstants DEF Copy!NextBlock
  <2>4. Copy!AtNext'
    BY <2>1, <2>3 DEF Copy!AtNext
  <2> QED BY <1>0, <2>1, <2>4, CopyControl
<1>3. CASE Copy!NextOuter
  <2>1. /\ copyPc = "outer" /\ Copy!Left /\ outer < PTRS /\ copyPc' = "double"
        /\ buffer' = Copy!Double(outer, 0) /\ block_idx' = 0 /\ outer' = outer + 1
        /\ UNCHANGED <<fileSize, copied, copyOut>>
    BY <1>3 DEF Copy!NextOuter
  <2>2. outer \in 0 .. PTRS - 1 /\ outer' \in 0 .. PTRS /\ outer' >= 1 /\ outer' - 1 = outer
    BY <1>0, <2>1, CopyConstants
  <2>3. PICK op \in Nat : op = outer * PTRS
    BY <2>2, PlacesInOrder
  <2>4. Copy!NextBlock = NDIR + PTRS + op
    BY <2>1, <2>3, CopyAt DEF Copy!AtNext
  <2>5. Copy!NextBlock' = NDIR + PTRS + op + 0 /\ 0 <= PTRS
    BY <2>1, <2>3, <2>4, CopyConstants DEF Copy!NextBlock
  <2>6. Copy!AtNext'
    BY <2>1, <2>2, <2>3, <2>5 DEF Copy!AtNext, Copy!Double, Copy!NotData, Copy!Places
  <2>7. buffer' \in 0 .. Copy!Places
    BY <1>0, <2>1, <2>2, PointersLead
  <2> QED BY <1>0, <2>1, <2>2, <2>6, <2>7, CopyControl
<1>4. CASE Copy!EndDouble
  <2>1. /\ copyPc = "double" /\ Copy!Left /\ block_idx >= PTRS /\ copyPc' = "outer"
        /\ UNCHANGED <<fileSize, buffer, copied, block_idx, outer, copyOut>>
    BY <1>4 DEF Copy!EndDouble
  <2>2. /\ outer >= 1 /\ block_idx <= PTRS
        /\ Copy!NextBlock = NDIR + PTRS + (outer - 1) * PTRS + block_idx
    BY <2>1, CopyAt DEF Copy!AtNext
  <2>3. outer - 1 \in 0 .. PTRS - 1 /\ block_idx = PTRS
    BY <1>0, <2>1, <2>2, CopyConstants
  <2>4. PICK op \in Nat : op = (outer - 1) * PTRS /\ ((outer - 1) + 1) * PTRS = op + PTRS
    BY <2>3, PlacesInOrder
  <2>5. (outer - 1) + 1 = outer
    BY <1>0, CopyConstants
  <2>6. Copy!NextBlock = NDIR + PTRS + outer * PTRS
    BY <2>2, <2>3, <2>4, <2>5, CopyConstants
  <2>7. Copy!AtNext'
    BY <2>1, <2>6 DEF Copy!AtNext, Copy!NextBlock
  <2> QED BY <1>0, <2>1, <2>7, CopyControl
<1>5. CASE Copy!Close
  <2>1. /\ Copy!Left => copyPc = "outer" /\ outer >= PTRS
        /\ copyPc' = "done" /\ UNCHANGED <<fileSize, buffer, copied, block_idx, outer, copyOut>>
    BY <1>5 DEF Copy!Close
  <2>2. ASSUME Copy!Left PROVE Copy!AtNext'
    <3>1. outer = PTRS /\ Copy!NextBlock = NDIR + PTRS + outer * PTRS
      BY <1>0, <2>1, <2>2, CopyAt, CopyConstants DEF Copy!AtNext
    <3>2. Copy!NextBlock = Copy!Places
      BY <3>1 DEF Copy!Places
    <3>3. Copy!NextBlock' = Copy!Places
      BY <2>1, <3>2 DEF Copy!NextBlock
    <3> QED BY <2>1, <3>3 DEF Copy!AtNext
  <2> QED BY <1>0, <2>1, <2>2, CopyControl
<1> QED BY <1>1, <1>2, <1>3, <1>4, <1>5

LEMMA CopySteps == Copy!IInv /\ Copy!Next => Copy!IInv'
BY CopyDirectStep, CopyIndirectStep, CopyDoubleStep, CopyTurns DEF Copy!Next

LEMMA FileOfIs ==
  ASSUME NEW ss \in Nat
  PROVE  /\ Copy!Blocks(ss) \in Nat /\ Copy!FileOf(ss) \in Seq(Nat \X Nat)
         /\ Len(Copy!FileOf(ss)) = Copy!Blocks(ss)
         /\ \A bb \in 1 .. Copy!Blocks(ss) : Copy!FileOf(ss)[bb]
              = <<bb - 1, IF bb * BlockSize <= ss THEN BlockSize ELSE ss % BlockSize>>
<1>1. PICK bs \in Nat : bs = BlockSize /\ bs >= 1
  BY CopyConstants
<1>2. PICK xx \in Nat : xx = ss + bs - 1
  BY <1>1
<1>3. PICK nn \in Nat : nn = Copy!Blocks(ss)
  <2>1. xx \div bs \in Nat
    BY <1>1
  <2> QED BY <1>1, <1>2, <2>1 DEF Copy!Blocks
<1>4. PICK ff : ff = Copy!FileOf(ss)
  OBVIOUS
<1>5. ff = [bb \in 1 .. nn |-> <<bb - 1, IF bb * bs <= ss THEN bs ELSE ss % bs>>]
  BY <1>1, <1>3, <1>4 DEF Copy!FileOf
<1>6. ASSUME NEW bb \in 1 .. nn PROVE ff[bb] \in Nat \X Nat
  <2>1. bb - 1 \in Nat /\ bs \in Nat /\ ss % bs \in Nat
    BY <1>1
  <2>2. ff[bb] = <<bb - 1, IF bb * bs <= ss THEN bs ELSE ss % bs>>
    BY <1>5
  <2> QED BY <2>1, <2>2
<1>7. ff \in [1 .. nn -> Nat \X Nat]
  BY <1>5, <1>6
<1>8. ff \in Seq(Nat \X Nat) /\ Len(ff) = nn
  BY <1>7
<1> QED BY <1>1, <1>3, <1>4, <1>5, <1>8

LEMMA SameSeq ==
  ASSUME NEW SS, NEW s1 \in Seq(SS), NEW s2 \in Seq(SS), Len(s1) = Len(s2),
         \A xx \in 1 .. Len(s1) : s1[xx] = s2[xx]
  PROVE  s1 = s2
OBVIOUS

LEMMA OutIsSeq == Copy!IInv => copyOut \in Seq(Nat \X Nat)
<1> SUFFICES ASSUME Copy!IInv PROVE copyOut \in Seq(Nat \X Nat)
  OBVIOUS
<1>1. copyOut \in Seq((0 .. Copy!Places) \X Nat)
  BY CopyTypes
<1>2. (0 .. Copy!Places) \X Nat \subseteq Nat \X Nat
  BY PlacesIs
<1> QED BY <1>1, <1>2

\* What the blocks written come to, in a file of tt bytes they fill.
LEMMA AllBlocks ==
  ASSUME Copy!IInv, NEW tt \in Nat, Copy!Blocks(tt) = Copy!NextBlock,
         tt = fileSize \/ (tt <= fileSize /\ tt = Copy!NextBlock * BlockSize)
  PROVE  copyOut = Copy!FileOf(tt)
<1>1. PICK nn \in Nat, bs \in Nat, ss \in Nat :
        nn = Len(copyOut) /\ nn = Copy!NextBlock /\ bs = BlockSize /\ bs >= 1 /\ ss = fileSize
  BY CopyTypes, CopyConstants
<1>2. \A bb \in 1 .. nn : copyOut[bb] = <<bb - 1, IF bb * bs <= ss THEN bs ELSE ss % bs>>
  BY <1>1 DEF Copy!IInv, Copy!InOrder
<1>3. PICK ff \in Seq(Nat \X Nat) : ff = Copy!FileOf(tt) /\ Len(ff) = nn
  BY <1>1, FileOfIs
<1>4. \A bb \in 1 .. nn : ff[bb] = <<bb - 1, IF bb * bs <= tt THEN bs ELSE tt % bs>>
  BY <1>1, <1>3, FileOfIs
<1>5. ASSUME NEW bb \in 1 .. nn PROVE copyOut[bb] = ff[bb]
  <2>1. CASE tt = ss
    BY <1>2, <1>4, <2>1
  <2>2. CASE tt <= ss /\ tt = nn * bs
    <3>1. \A x1, x2 \in Nat : x1 <= x2 => x1 * bs <= x2 * bs
      BY <1>1
    <3>2. bb * bs <= nn * bs /\ bb * bs \in Nat
      BY <1>1, <3>1
    <3>0. tt <= ss
      BY <2>2
    <3>4. PICK b1 \in Nat : b1 = bb * bs /\ b1 <= tt
      BY <2>2, <3>2
    <3>5. b1 <= tt /\ b1 <= ss
      BY <3>0, <3>4
    <3>3. bb * bs <= tt /\ bb * bs <= ss
      BY <3>4, <3>5
    <3> QED BY <1>2, <1>4, <3>3
  <2> QED BY <1>1, <2>1, <2>2
<1>6. copyOut \in Seq(Nat \X Nat)
  BY OutIsSeq
<1> QED BY <1>1, <1>3, <1>5, <1>6, SameSeq

LEMMA CopyIsExact == Copy!IInv => Copy!TypeOK /\ Copy!CopyExact
<1> SUFFICES ASSUME Copy!IInv PROVE Copy!TypeOK /\ Copy!CopyExact
  OBVIOUS
<1>1. PICK nn \in Nat, bs \in Nat, ss \in Nat :
        nn = Len(copyOut) /\ nn = Copy!NextBlock /\ bs = BlockSize /\ bs >= 1 /\ ss = fileSize
  BY CopyTypes, CopyConstants
<1>2. \A x1, x2 \in Nat : x1 <= x2 => x1 * bs <= x2 * bs
  BY <1>1
<1>3. PICK pp \in Nat, ll \in Nat :
        pp = Copy!Places /\ ll = Copy!Limit /\ ll = pp * bs /\ nn <= pp /\ nn * bs <= ll
  BY <1>1, <1>2, CopyTypes, PlacesIs
<1>4. nn <= Copy!Blocks(ss)
  <2>1. CASE Copy!Left
    <3>1. nn * bs < ss
      BY <1>1, <2>1 DEF Copy!IInv, Copy!Left
    <3>2. PICK xx \in Nat, qq \in Nat, rr \in Nat :
            xx = ss + bs - 1 /\ qq = Copy!Blocks(ss) /\ xx = qq * bs + rr /\ rr < bs
      BY <1>1 DEF Copy!Blocks
    <3>3. (qq + 1) * bs = qq * bs + bs /\ nn * bs \in Nat /\ qq * bs \in Nat
      BY <1>1
    <3>4. ~ (qq + 1 <= nn)
      <4> SUFFICES ASSUME qq + 1 <= nn PROVE FALSE
        OBVIOUS
      <4>1. (qq + 1) * bs <= nn * bs
        BY <1>2
      <4> QED BY <1>1, <3>1, <3>2, <3>3, <4>1
    <3> QED BY <3>2, <3>4
  <2>2. CASE ~ Copy!Left
    BY <1>1, <2>2, BlocksOf DEF Copy!IInv
  <2> QED BY <2>1, <2>2
<1>5. copyOut = SubSeq(Copy!FileOf(ss), 1, nn)
  <2>1. PICK ff \in Seq(Nat \X Nat) : ff = Copy!FileOf(ss) /\ nn <= Len(ff)
    BY <1>4, FileOfIs
  <2>2. \A bb \in 1 .. nn : ff[bb] = <<bb - 1, IF bb * bs <= ss THEN bs ELSE ss % bs>>
    <3>1. PICK bl \in Nat : bl = Copy!Blocks(ss) /\ nn <= bl
      BY <1>4, FileOfIs
    <3>2. \A bb \in 1 .. bl : ff[bb] = <<bb - 1, IF bb * bs <= ss THEN bs ELSE ss % bs>>
      BY <1>1, <2>1, <3>1, FileOfIs
    <3>3. \A bb \in 1 .. nn : bb \in 1 .. bl
      BY <3>1
    <3> QED BY <3>2, <3>3
  <2>3. \A bb \in 1 .. nn : copyOut[bb] = <<bb - 1, IF bb * bs <= ss THEN bs ELSE ss % bs>>
    BY <1>1 DEF Copy!IInv, Copy!InOrder
  <2>4. copyOut \in Seq(Nat \X Nat)
    BY OutIsSeq
  <2>5. \A bb \in 1 .. nn : copyOut[bb] = ff[bb]
    BY <2>2, <2>3
  <2>6. SubSeq(ff, 1, nn) \in Seq(Nat \X Nat) /\ Len(SubSeq(ff, 1, nn)) = nn
        /\ \A bb \in 1 .. nn : SubSeq(ff, 1, nn)[bb] = ff[bb]
    BY <2>1
  <2>7. PICK sub \in Seq(Nat \X Nat) : sub = SubSeq(ff, 1, nn)
          /\ Len(sub) = nn /\ \A bb \in 1 .. nn : sub[bb] = copyOut[bb]
    BY <2>5, <2>6
  <2>8. copyOut = sub
    BY <1>1, <2>4, <2>7, SameSeq
  <2> QED BY <2>1, <2>7, <2>8
<1>6. copyPc = "done" => copyOut = Copy!FileOf(IF fileSize > Copy!Limit THEN Copy!Limit ELSE fileSize)
  <2>1. CASE Copy!Left /\ copyPc = "done"
    <3>1. nn = pp /\ nn * bs < ss
      BY <1>1, <1>3, <2>1 DEF Copy!IInv, Copy!Left, Copy!AtNext
    <3>2. ll = nn * bs /\ ll < ss /\ (nn - 1) * bs = nn * bs - bs
      BY <1>1, <1>3, <3>1
    <3>3. (nn - 1) * bs < ll
      BY <1>1, <3>2
    <3>4. Copy!Blocks(ll) = nn
      BY <1>1, <3>2, <3>3, BlocksOf
    <3>5. copyOut = Copy!FileOf(ll)
      BY <1>1, <3>2, <3>4, AllBlocks
    <3> QED BY <1>1, <1>3, <3>2, <3>5
  <2>2. CASE ~ Copy!Left
    <3>1. ss <= nn * bs /\ (nn = 0 \/ (nn - 1) * bs < ss)
      BY <1>1, <2>2 DEF Copy!IInv
    <3>2. Copy!Blocks(ss) = nn
      BY <1>1, <3>1, BlocksOf
    <3>3. copyOut = Copy!FileOf(ss)
      BY <1>1, <3>2, AllBlocks
    <3>4. ~ (ss > ll)
      BY <1>3, <3>1
    <3> QED BY <1>1, <1>3, <3>3, <3>4
  <2> QED BY <2>1, <2>2
<1>7. Copy!CopyExact
  BY <1>1, <1>5, <1>6 DEF Copy!CopyExact
<1> QED BY <1>7 DEF Copy!IInv

LEMMA CopySame == Copy!IInv /\ UNCHANGED copyVars => Copy!IInv'
BY DEF copyVars, Copy!IInv, Copy!TypeOK, Copy!InOrder, Copy!NextBlock, Copy!AtNext, Copy!Left

-----------------------------------------------------------------------------
(***************************************************************************)
(* runscan: what it recovers.                                              *)
(***************************************************************************)
\* A set of numbers has a least one.
LEMMA Least ==
  ASSUME NEW T \in SUBSET Nat, T # {}
  PROVE  \E x \in T : \A y \in T : x <= y
<1> DEFINE R == {ss \in Nat \X Nat : ss[1] < ss[2]}
<1>1. IsWellFoundedOn(R, Nat)
  BY NatLessThanWellFounded DEF OpToRel
<1>2. PICK x \in T : \A y \in T : ~(<<y, x>> \in R)
  BY <1>1, WFMin
<1>3. \A y \in T : ~(y < x)
  BY <1>2
<1> QED BY <1>3

LEMMA ScanConstants ==
  \E nn \in Nat : /\ nn = num_groups * inodes_per_group /\ Scan!Inums = 1 .. nn
                  /\ num_groups \in Nat /\ inodes_per_group \in Nat /\ inodes_per_group >= 1
                  /\ TopSecret \in Names
BY ProgramsAssumptions DEF Scan!ConstantAssumptions, Scan!Inums

Nums    == Scan!Inums
Entries == Seq((Nums \cup {0}) \X Names)

LEMMA ImageIs ==
  image \in Images =>
    /\ Scan!kind \in [Nums -> Scan!Kinds] /\ Scan!entries \in [Nums -> Entries]
    /\ \A dd \in Nums : Scan!kind[dd] = "dir" => Scan!NamesDiffer(Scan!entries[dd])
BY ProgramsAssumptions DEF Scan!ConstantAssumptions, Scan!kind, Scan!entries, Nums, Entries

LEMMA NoZero == 0 \notin Nums
BY ScanConstants DEF Nums

\* An entry of a directory.
LEMMA EntryIs ==
  ASSUME NEW es \in Entries, NEW ee \in 1 .. Len(es)
  PROVE  es[ee] \in (Nums \cup {0}) \X Names /\ es[ee][1] \in Nums \cup {0} /\ es[ee][2] \in Names
         /\ es[ee] = <<es[ee][1], es[ee][2]>>
<1>1. es[ee] \in (Nums \cup {0}) \X Names
  BY DEF Entries
<1> QED BY <1>1

LEMMA LastIs ==
  ASSUME NEW mm \in Nat, NEW S \in SUBSET (1 .. mm), S # {}
  PROVE  Scan!LastOf(S) \in S
<1> DEFINE T == {xx \in 0 .. mm : mm - xx \in S}
<1>0. PICK e0 \in S : TRUE
  OBVIOUS
<1>1. T \in SUBSET Nat /\ T # {}
  <2>1. e0 \in 1 .. mm
    OBVIOUS
  <2>2. mm - e0 \in 0 .. mm /\ mm - (mm - e0) = e0
    BY <2>1
  <2>3. mm - e0 \in T
    BY <2>2
  <2> QED BY <2>3
<1>2. PICK tt \in T : \A uu \in T : tt <= uu
  BY <1>1, Least
<1>3. mm - tt \in S /\ tt \in 0 .. mm
  OBVIOUS
<1>4. ASSUME NEW oo \in S PROVE oo <= mm - tt
  <2>1. oo \in 1 .. mm
    OBVIOUS
  <2>2. mm - oo \in 0 .. mm /\ mm - (mm - oo) = oo
    BY <2>1
  <2>3. mm - oo \in T
    BY <2>2
  <2>4. tt <= mm - oo
    BY <1>2, <2>3
  <2> QED BY <1>3, <2>1, <2>4
<1> HIDE DEF T
<1>5. PICK ll : ll \in S /\ \A oo \in S : oo <= ll
  BY <1>3, <1>4
<1> QED BY <1>5 DEF Scan!LastOf

\* The directory of top_secret is where read_inode looks for it.
LEMMA Located ==
  ASSUME NEW nn \in Nums, nn % inodes_per_group # 0
  PROVE  Scan!Located(nn) = nn
<1>1. PICK bs \in Nat : bs = inodes_per_group /\ bs >= 1
  BY ScanConstants
<1>2. nn \in Nat
  BY ScanConstants DEF Nums
<1>3. PICK qq \in Nat, rr \in Nat : qq = nn \div bs /\ rr = nn % bs /\ nn = qq * bs + rr
  BY <1>1, <1>2
<1> QED BY <1>1, <1>3 DEF Scan!Located

-----------------------------------------------------------------------------
ScanI == Scan!IInv /\ image \in Images

LEMMA ScanTypes ==
  ScanI =>
    /\ Scan!kind \in [Nums -> Scan!Kinds] /\ Scan!entries \in [Nums -> Entries]
    /\ i \in Nat /\ k \in Nat /\ k >= 1
    /\ inode_is_jpg \subseteq Nums /\ have_top_secret \in BOOLEAN /\ secret \in Nums \cup {0}
    /\ files \subseteq Nums /\ named \in [Names -> Nums \cup {0}] /\ list \in Entries
BY ImageIs DEF ScanI, Scan!IInv, Scan!TypeOK, Nums, Entries

LEMMA ScanInit == Scan!Init => ScanI
<1> SUFFICES ASSUME Scan!Init PROVE ScanI
  OBVIOUS
<1>1. /\ image \in Images /\ scanPc = "scan" /\ i = 1 /\ k = 1
      /\ inode_is_jpg = {} /\ have_top_secret = FALSE /\ secret = 0 /\ list = <<>>
      /\ files = {} /\ named = [x \in Names |-> 0]
  BY DEF Scan!Init
<1>2. Scan!kind \in [Scan!Inums -> Scan!Kinds]
  BY <1>1, ImageIs DEF Nums
<1>3. Scan!TypeOK
  <2>1. named \in [Names -> Scan!Inums \cup {0}]
    BY <1>1
  <2>2. /\ i \in Nat /\ k \in Nat \ {0} /\ secret \in Scan!Inums \cup {0}
        /\ inode_is_jpg \subseteq Scan!Inums /\ files \subseteq Scan!Inums
    BY <1>1
  <2>3. have_top_secret \in BOOLEAN
    BY <1>1, Zenon
  <2> QED BY <1>1, <1>2, <2>1, <2>2, <2>3 DEF Scan!TypeOK
<1>4. list \in Seq((Scan!Inums \cup {0}) \X Names)
  BY <1>1
<1>5. Scan!ScanInv
  <2>1. PICK nn \in Nat : nn = num_groups * inodes_per_group /\ Scan!Inums = 1 .. nn
    BY ScanConstants
  <2>2. i \in 1 .. num_groups * inodes_per_group + 1
    BY <1>1, <2>1
  <2>3. {n \in Scan!Jpgs : n < i} = {}
    BY <1>1, <2>1 DEF Scan!Jpgs
  <2>4. Scan!SecretOf({d \in Scan!SecretDirs : d < i})
    BY <1>1, <2>1 DEF Scan!SecretOf, Scan!SecretDirs
  <2> QED BY <1>1, <2>2, <2>3, <2>4 DEF Scan!ScanInv
<1> QED BY <1>1, <1>3, <1>4, <1>5 DEF ScanI, Scan!IInv, Scan!Recovered

\* The directories with a top_secret, and the entry found among some.
LEMMA SecretDirsSame ==
  ASSUME image' = image
  PROVE  /\ Scan!SecretDirs' = Scan!SecretDirs /\ Scan!entries' = Scan!entries
         /\ \A d : Scan!Secrets(d)' = Scan!Secrets(d)
<1>1. Scan!kind' = Scan!kind /\ Scan!entries' = Scan!entries
  BY DEF Scan!kind, Scan!entries
<1>2. \A d : Scan!Secrets(d)' = Scan!Secrets(d)
  BY <1>1 DEF Scan!Secrets
<1> QED BY <1>1, <1>2 DEF Scan!SecretDirs

LEMMA SecretKept ==
  ASSUME image' = image, UNCHANGED <<have_top_secret, secret>>, Scan!SecretOf(Scan!SecretDirs)
  PROVE  Scan!SecretOf(Scan!SecretDirs)'
<1>1. \A d : Scan!LastOf(Scan!Secrets(d))' = Scan!LastOf(Scan!Secrets(d))
  BY SecretDirsSame DEF Scan!LastOf
<1> QED BY <1>1, SecretDirsSame DEF Scan!SecretOf

\* Once a directory is scanned, its entry is the one that counts.
LEMMA SecretSoFar ==
  ASSUME ScanI, Scan!ScanJpg \/ Scan!ScanDir \/ Scan!ScanOther,
         Scan!SecretOf({d \in Scan!SecretDirs : d < i})
  PROVE  Scan!SecretOf({d \in Scan!SecretDirs : d < i})'
<1>1. PICK nn \in Nat : Scan!Inums = 1 .. nn
  BY ScanConstants
<1>2. i \in 1 .. nn /\ i' = i + 1 /\ image' = image
  BY <1>1 DEF Scan!ScanJpg, Scan!ScanDir, Scan!ScanOther
<1> DEFINE S == {d \in Scan!SecretDirs : d < i}
<1>3. S \subseteq 1 .. nn /\ \A d \in S : d < i
  BY <1>1 DEF Scan!SecretDirs
<1>4. {d \in Scan!SecretDirs : d < i}' = S \cup (IF i \in Scan!SecretDirs THEN {i} ELSE {})
  <2>1. \A d \in 1 .. nn : d < i + 1 <=> d < i \/ d = i
    BY <1>2
  <2> QED BY <1>1, <1>2, <2>1, SecretDirsSame DEF Scan!SecretDirs
<1>5. \A d : Scan!LastOf(Scan!Secrets(d))' = Scan!LastOf(Scan!Secrets(d))
  BY <1>2, SecretDirsSame DEF Scan!LastOf
<1>6. Scan!entries' = Scan!entries
  BY <1>2, SecretDirsSame
<1> HIDE DEF S
<1>7. CASE i \in Scan!SecretDirs
  <2>1. /\ have_top_secret' = TRUE
        /\ secret' = Scan!entries[i][Scan!LastOf(Scan!Secrets(i))][1]
    BY <1>7 DEF Scan!SecretDirs, Scan!ScanJpg, Scan!ScanDir, Scan!ScanOther
  <2>2. \A other \in S \cup {i} : other <= i
    BY <1>2, <1>3
  <2> QED BY <1>4, <1>5, <1>6, <1>7, <2>1, <2>2 DEF Scan!SecretOf
<1>8. CASE i \notin Scan!SecretDirs
  <2>1. UNCHANGED <<have_top_secret, secret>>
    BY <1>1, <1>2, <1>8 DEF Scan!SecretDirs, Scan!ScanJpg, Scan!ScanDir, Scan!ScanOther
  <2>2. Scan!SecretOf(S)
    BY DEF S
  <2> QED BY <1>4, <1>5, <1>6, <1>8, <2>1, <2>2 DEF Scan!SecretOf
<1> QED BY <1>7, <1>8

LEMMA ScanGoesOn ==
  ASSUME ScanI, Scan!ScanJpg \/ Scan!ScanDir \/ Scan!ScanOther
  PROVE  ScanI'
<1>1. PICK nn \in Nat : nn = num_groups * inodes_per_group /\ Nums = 1 .. nn /\ Scan!Inums = Nums
  BY ScanConstants DEF Nums
<1>2. /\ scanPc = "scan" /\ i \in Nums /\ i' = i + 1
      /\ UNCHANGED <<image, scanPc, k, list, named>>
  BY <1>1 DEF Scan!ScanJpg, Scan!ScanDir, Scan!ScanOther
<1>3. /\ inode_is_jpg = {n \in Scan!Jpgs : n < i} /\ files = inode_is_jpg
      /\ named = [x \in Names |-> 0] /\ Scan!SecretOf({d \in Scan!SecretDirs : d < i})
  BY <1>2 DEF ScanI, Scan!IInv, Scan!ScanInv
<1>4. /\ Scan!kind' = Scan!kind /\ Scan!entries' = Scan!entries /\ Scan!Jpgs' = Scan!Jpgs
      /\ image' \in Images
  BY <1>2 DEF Scan!kind, Scan!entries, Scan!Jpgs, ScanI
<1>5. /\ inode_is_jpg' = inode_is_jpg \cup (IF Scan!kind[i] = "jpg" THEN {i} ELSE {})
      /\ files' = inode_is_jpg'
  BY <1>2, <1>3 DEF Scan!ScanJpg, Scan!ScanDir, Scan!ScanOther
<1>6. inode_is_jpg' = {n \in Scan!Jpgs' : n < i'}
  <2>1. \A n \in Nums : n < i + 1 <=> (n < i \/ n = i)
    BY <1>1, <1>2
  <2>2. Scan!Jpgs = {n \in Nums : Scan!kind[n] = "jpg"}
    BY <1>1 DEF Scan!Jpgs
  <2>3. inode_is_jpg' = {n \in Scan!Jpgs : n < i + 1}
    BY <1>2, <1>3, <1>5, <2>1, <2>2
  <2> QED BY <1>2, <1>4, <2>3
<1>7. i' \in 1 .. nn + 1
  BY <1>1, <1>2
<1>8. Scan!ScanInv'
  <2>1. Scan!SecretOf({d \in Scan!SecretDirs : d < i})'
    BY <1>3, SecretSoFar
  <2> QED BY <1>1, <1>2, <1>3, <1>5, <1>6, <1>7, <2>1 DEF Scan!ScanInv
<1>9. have_top_secret' \in BOOLEAN /\ secret' \in Nums \cup {0}
  <2>1. have_top_secret \in BOOLEAN /\ secret \in Nums \cup {0} /\ Scan!entries[i] \in Entries
    BY <1>2, ScanTypes
  <2>2. CASE UNCHANGED <<have_top_secret, secret>>
    BY <2>1, <2>2
  <2>3. CASE /\ Scan!ScanDir /\ Scan!Secrets(i) # {}
             /\ have_top_secret' = TRUE
             /\ secret' = Scan!entries[i][Scan!LastOf(Scan!Secrets(i))][1]
    <3>1. Scan!Secrets(i) \in SUBSET (1 .. Len(Scan!entries[i])) /\ Len(Scan!entries[i]) \in Nat
      BY <2>1 DEF Scan!Secrets, Entries
    <3>2. Scan!LastOf(Scan!Secrets(i)) \in 1 .. Len(Scan!entries[i])
      BY <2>3, <3>1, LastIs
    <3> QED BY <2>1, <2>3, <3>2, EntryIs
  <2> QED BY <2>2, <2>3 DEF Scan!ScanJpg, Scan!ScanDir, Scan!ScanOther
<1>10. Scan!TypeOK'
  <2>1. i' \in Nat /\ inode_is_jpg' \subseteq Scan!Inums /\ files' \subseteq Scan!Inums
    BY <1>1, <1>5, <1>6, <1>7 DEF Scan!Jpgs
  <2> QED BY <1>1, <1>2, <1>4, <1>9, <2>1 DEF ScanI, Scan!IInv, Scan!TypeOK
<1>11. list' \in Seq((Scan!Inums \cup {0}) \X Names)
  BY <1>2 DEF ScanI, Scan!IInv
<1> QED BY <1>2, <1>4, <1>8, <1>10, <1>11 DEF ScanI, Scan!IInv, Scan!Recovered

\* All inodes are scanned, and every picture among them copied.
LEMMA ScanEnd ==
  ASSUME ScanI, scanPc = "scan", i \notin Scan!Inums
  PROVE  /\ files = Scan!Jpgs /\ inode_is_jpg = Scan!Jpgs /\ named = [x \in Names |-> 0]
         /\ Scan!SecretOf(Scan!SecretDirs)
<1>1. PICK nn \in Nat : nn = num_groups * inodes_per_group /\ Scan!Inums = 1 .. nn
  BY ScanConstants
<1>2. /\ inode_is_jpg = {n \in Scan!Jpgs : n < i} /\ files = inode_is_jpg
      /\ named = [x \in Names |-> 0] /\ i \in 1 .. nn + 1
      /\ Scan!SecretOf({d \in Scan!SecretDirs : d < i})
  BY <1>1 DEF ScanI, Scan!IInv, Scan!ScanInv
<1>3. \A n \in Scan!Inums : n < i
  BY <1>1, <1>2
<1>4. {n \in Scan!Jpgs : n < i} = Scan!Jpgs
  BY <1>3 DEF Scan!Jpgs
<1>5. {d \in Scan!SecretDirs : d < i} = Scan!SecretDirs
  BY <1>3 DEF Scan!SecretDirs
<1> QED BY <1>2, <1>4, <1>5

LEMMA SecretRead == ASSUME ScanI, Scan!ReadSecret PROVE ScanI'
<1>1. /\ scanPc = "scan" /\ i \notin Scan!Inums /\ have_top_secret
      /\ list' \in Scan!ReadDir(Scan!Located(secret)) /\ k' = 1 /\ scanPc' = "secret"
      /\ UNCHANGED <<image, i, inode_is_jpg, have_top_secret, secret, files, named>>
  BY DEF Scan!ReadSecret
<1>2. /\ files = Scan!Jpgs /\ inode_is_jpg = Scan!Jpgs /\ named = [x \in Names |-> 0]
      /\ Scan!SecretOf(Scan!SecretDirs)'
  BY <1>1, ScanEnd, SecretKept
<1>3. /\ Scan!kind' = Scan!kind /\ Scan!entries' = Scan!entries /\ Scan!Jpgs' = Scan!Jpgs
      /\ image' \in Images /\ (Scan!Reached' <=> Scan!Reached)
  BY <1>1 DEF Scan!kind, Scan!entries, Scan!Jpgs, Scan!Reached, ScanI
<1>4. list' \in Entries
  <2>1. \A dd \in Nums : Scan!entries[dd] \in Entries
    BY ScanTypes
  <2>2. <<>> \in Entries
    BY DEF Entries
  <2> QED BY <1>1, <2>1, <2>2 DEF Scan!ReadDir, Nums
<1>5. Len(list') \in Nat
  BY <1>4 DEF Entries
<1>6. Scan!Reached => list' = Scan!entries[secret]
  <2> SUFFICES ASSUME Scan!Reached PROVE list' = Scan!entries[secret]
    OBVIOUS
  <2>1. secret \in Nums /\ secret % inodes_per_group # 0 /\ Scan!kind[secret] = "dir"
    BY ScanTypes DEF Scan!Reached
  <2>2. Scan!Located(secret) = secret
    BY <2>1, Located
  <2> QED BY <1>1, <2>1, <2>2 DEF Scan!ReadDir, Nums
<1>7. Scan!SecretInv'
  <2>1. k' <= Len(list') + 1 /\ 1 .. k' - 1 = {}
    BY <1>1, <1>5
  <2>2. /\ inode_is_jpg' = {n \in Scan!Jpgs' : \A e \in 1 .. k' - 1 : list'[e][1] # n}
        /\ \A x \in Names : named'[x] = 0
        /\ Scan!Jpgs' \ inode_is_jpg' = {}
    BY <1>1, <1>2, <1>3, <2>1
  <2>3. Scan!Reached' => list' = Scan!entries'[secret']
    BY <1>1, <1>3, <1>6
  <2> QED BY <1>1, <1>2, <1>3, <2>1, <2>2, <2>3 DEF Scan!SecretInv
<1>8. Scan!TypeOK'
  <2>1. k' \in Nat \ {0}
    BY <1>1
  <2> QED BY <1>1, <1>3, <2>1 DEF ScanI, Scan!IInv, Scan!TypeOK
<1> QED BY <1>1, <1>2, <1>3, <1>4, <1>7, <1>8 DEF ScanI, Scan!IInv, Scan!Recovered, Entries, Nums

LEMMA SecretNamed == ASSUME ScanI, Scan!NameSecret PROVE ScanI'
<1>1. /\ scanPc = "secret" /\ k <= Len(list) /\ k' = k + 1
      /\ UNCHANGED <<image, scanPc, i, have_top_secret, secret, list, files>>
  BY DEF Scan!NameSecret
<1>2. PICK nn, xx : nn = list[k][1] /\ xx = list[k][2]
  OBVIOUS
<1>3. /\ list \in Entries /\ Len(list) \in Nat /\ k \in 1 .. Len(list)
      /\ list[k] = <<nn, xx>> /\ nn \in Nums \cup {0} /\ xx \in Names
      /\ k + 1 \in Nat \ {0} /\ k + 1 <= Len(list) + 1 /\ (k + 1) - 1 = k
      /\ 1 .. k = (1 .. k - 1) \cup {k} /\ \A e \in 1 .. k - 1 : e \in 1 .. Len(list) /\ e # k
  <2>1. list \in Entries /\ k \in Nat /\ k >= 1
    BY ScanTypes
  <2>2. PICK ll \in Nat : ll = Len(list)
    BY <2>1 DEF Entries
  <2>3. /\ k \in 1 .. ll /\ k + 1 \in Nat \ {0} /\ k + 1 <= ll + 1 /\ (k + 1) - 1 = k
        /\ 1 .. k = (1 .. k - 1) \cup {k} /\ \A e \in 1 .. k - 1 : e \in 1 .. ll /\ e # k
    BY <1>1, <2>1, <2>2
  <2>4. list[k] = <<nn, xx>> /\ nn \in Nums \cup {0} /\ xx \in Names
    BY <1>2, <2>1, <2>2, <2>3, EntryIs
  <2> QED BY <2>1, <2>2, <2>3, <2>4
<1>4. IF nn \in inode_is_jpg
      THEN named' = [named EXCEPT ![xx] = nn] /\ inode_is_jpg' = inode_is_jpg \ {nn}
      ELSE named' = named /\ inode_is_jpg' = inode_is_jpg
  BY <1>2 DEF Scan!NameSecret
<1>5. /\ Scan!kind' = Scan!kind /\ Scan!entries' = Scan!entries /\ Scan!Jpgs' = Scan!Jpgs
      /\ image' \in Images /\ (Scan!Reached' <=> Scan!Reached)
  BY <1>1 DEF Scan!kind, Scan!entries, Scan!Jpgs, Scan!Reached, ScanI
<1>6. inode_is_jpg \subseteq Nums /\ named \in [Names -> Nums \cup {0}]
  BY ScanTypes
<1>7. inode_is_jpg' \subseteq Nums /\ named' \in [Names -> Nums \cup {0}]
  BY <1>3, <1>4, <1>6
<1>8. Scan!TypeOK'
  BY <1>1, <1>3, <1>5, <1>7 DEF ScanI, Scan!IInv, Scan!TypeOK, Nums
<1>9. /\ have_top_secret /\ files = Scan!Jpgs /\ (Scan!Reached => list = Scan!entries[secret])
      /\ Scan!SecretOf(Scan!SecretDirs)'
  BY <1>1, SecretKept DEF ScanI, Scan!IInv, Scan!SecretInv
<1>10. /\ inode_is_jpg' = {n \in Scan!Jpgs : \A e \in 1 .. k : list[e][1] # n}
       /\ \A x \in Names : named'[x] # 0 => \E e \in 1 .. k : list[e] = <<named'[x], x>>
       /\ Scan!NamesDiffer(list) =>
            \A n \in Scan!Jpgs \ inode_is_jpg' : \E x \in Names : named'[x] = n
  <2>1. /\ inode_is_jpg = {n \in Scan!Jpgs : \A e \in 1 .. k - 1 : list[e][1] # n}
        /\ \A x \in Names : named[x] # 0 => \E e \in 1 .. k - 1 : list[e] = <<named[x], x>>
        /\ Scan!NamesDiffer(list) =>
             \A n \in Scan!Jpgs \ inode_is_jpg : \E x \in Names : named[x] = n
    BY <1>1 DEF ScanI, Scan!IInv, Scan!SecretInv
  <2>3. inode_is_jpg' = {n \in Scan!Jpgs : \A e \in 1 .. k : list[e][1] # n}
    <3>1. \A n \in Scan!Jpgs : (\A e \in 1 .. k : list[e][1] # n)
            <=> (\A e \in 1 .. k - 1 : list[e][1] # n) /\ n # nn
      BY <1>2, <1>3
    <3>2. inode_is_jpg' = inode_is_jpg \ {nn}
      BY <1>4
    <3> QED BY <2>1, <3>1, <3>2
  <2>4. ASSUME NEW x \in Names, named'[x] # 0
        PROVE  \E e \in 1 .. k : list[e] = <<named'[x], x>>
    <3>1. CASE nn \in inode_is_jpg /\ x = xx
      <4>1. named'[x] = nn /\ k \in 1 .. k
        BY <1>3, <1>4, <1>6, <3>1
      <4> QED BY <1>3, <3>1, <4>1
    <3>2. CASE ~ (nn \in inode_is_jpg /\ x = xx)
      <4>1. named'[x] = named[x]
        BY <1>4, <1>6, <3>2
      <4>2. PICK e \in 1 .. k - 1 : list[e] = <<named[x], x>>
        BY <2>1, <2>4, <4>1
      <4> QED BY <1>3, <4>1, <4>2
    <3> QED BY <3>1, <3>2
  <2>5. ASSUME Scan!NamesDiffer(list), NEW n \in Scan!Jpgs \ inode_is_jpg'
        PROVE  \E x \in Names : named'[x] = n
    <3>1. CASE n \in inode_is_jpg
      <4>1. n = nn /\ named'[xx] = nn
        BY <1>3, <1>4, <1>6, <2>5, <3>1
      <4> QED BY <1>3, <4>1
    <3>2. CASE n \notin inode_is_jpg
      <4>1. PICK x \in Names : named[x] = n
        BY <2>1, <2>5, <3>2
      <4>2. CASE named'[x] = named[x]
        BY <4>1, <4>2
      <4>3. CASE nn \in inode_is_jpg /\ x = xx
        <5>1. n \in Nums /\ n # 0 /\ nn # 0
          BY <1>6, <4>3, NoZero DEF Scan!Jpgs, Nums
        <5>2. PICK e \in 1 .. k - 1 : list[e] = <<n, xx>>
          BY <2>1, <4>1, <4>3, <5>1
        <5>3. e \in 1 .. Len(list) /\ e # k /\ k \in 1 .. Len(list)
              /\ list[e][2] = list[k][2] /\ list[e][1] = n /\ list[k][1] = nn
          BY <1>3, <5>2
        <5> QED BY <2>5, <5>1, <5>3 DEF Scan!NamesDiffer
      <4> QED BY <1>4, <1>6, <4>2, <4>3
    <3> QED BY <3>1, <3>2
  <2> QED BY <2>1, <2>3, <2>4, <2>5
<1>11. Scan!SecretInv'
  <2>1. k' <= Len(list') + 1 /\ 1 .. k' - 1 = 1 .. k
    BY <1>1, <1>3
  <2>2. Scan!NamesDiffer(list)' <=> Scan!NamesDiffer(list)
    BY <1>1 DEF Scan!NamesDiffer
  <2> QED BY <1>1, <1>5, <1>9, <1>10, <2>1, <2>2 DEF Scan!SecretInv
<1>12. list' \in Seq((Scan!Inums \cup {0}) \X Names)
  BY <1>1 DEF ScanI, Scan!IInv
<1> QED BY <1>1, <1>5, <1>8, <1>9, <1>11, <1>12 DEF ScanI, Scan!IInv, Scan!Recovered

\* When the others are removed, what top_secret names is left.
LEMMA OthersRemoved == ASSUME ScanI, Scan!RemoveOthers PROVE ScanI'
<1>1. /\ scanPc = "secret" /\ k > Len(list) /\ files' = files \ inode_is_jpg /\ scanPc' = "done"
      /\ UNCHANGED <<image, i, k, inode_is_jpg, have_top_secret, secret, list, named>>
  BY DEF Scan!RemoveOthers
<1>2. /\ Scan!kind' = Scan!kind /\ Scan!entries' = Scan!entries /\ image' \in Images
  BY <1>1 DEF Scan!kind, Scan!entries, ScanI
<1>3. have_top_secret /\ files = Scan!Jpgs /\ k <= Len(list) + 1
  BY <1>1 DEF ScanI, Scan!IInv, Scan!SecretInv
<1>4. PICK ll \in Nat : ll = Len(list) /\ list \in Entries /\ k - 1 = ll
  <2>1. list \in Entries /\ k \in Nat
    BY ScanTypes
  <2>2. Len(list) \in Nat
    BY <2>1 DEF Entries
  <2> QED BY <1>1, <1>3, <2>1, <2>2
<1>5. Scan!TypeOK'
  <2>1. files' \subseteq Scan!Inums
    BY <1>1, ScanTypes DEF Nums
  <2> QED BY <1>1, <1>2, <2>1 DEF ScanI, Scan!IInv, Scan!TypeOK
<1>6. Scan!OnlyRecovered(list)'
  <2>1. /\ inode_is_jpg = {n \in Scan!Jpgs : \A e \in 1 .. ll : list[e][1] # n}
        /\ \A x \in Names : named[x] # 0 => \E e \in 1 .. ll : list[e] = <<named[x], x>>
        /\ Scan!NamesDiffer(list) =>
             \A n \in Scan!Jpgs \ inode_is_jpg : \E x \in Names : named[x] = n
    BY <1>1, <1>4 DEF ScanI, Scan!IInv, Scan!SecretInv
  <2>2. Scan!Jpgs' = Scan!Jpgs /\ named' = named /\ list' = list
        /\ (Scan!NamesDiffer(list)' <=> Scan!NamesDiffer(list))
    BY <1>1, <1>2 DEF Scan!Jpgs, Scan!NamesDiffer
  <2>3. Scan!Listed(list)' = Scan!Jpgs \ inode_is_jpg
    BY <1>4, <2>1, <2>2 DEF Scan!Listed
  <2>4. files' = Scan!Listed(list)'
    BY <1>1, <1>3, <2>3
  <2>5. \A x \in Names : named'[x] # 0 => \E e \in 1 .. Len(list') : list'[e] = <<named'[x], x>>
    BY <1>4, <2>1, <2>2
  <2>6. Scan!NamesDiffer(list)' => \A n \in Scan!Listed(list)' : \E x \in Names : named'[x] = n
    BY <2>1, <2>2, <2>3
  <2> QED BY <2>4, <2>5, <2>6 DEF Scan!OnlyRecovered
<1>7. Scan!SecretOf(Scan!SecretDirs)' /\ Scan!Recovered'
  <2>1. have_top_secret' /\ (Scan!Reached' => list' = Scan!entries'[secret'])
    BY <1>1, <1>2, <1>3 DEF Scan!Reached, ScanI, Scan!IInv, Scan!SecretInv
  <2>2. Scan!SecretOf(Scan!SecretDirs)'
    BY <1>1, SecretKept DEF ScanI, Scan!IInv
  <2> QED BY <1>6, <2>1, <2>2 DEF Scan!Recovered
<1>8. list' \in Seq((Scan!Inums \cup {0}) \X Names)
  BY <1>1 DEF ScanI, Scan!IInv
<1> QED BY <1>1, <1>2, <1>5, <1>7, <1>8 DEF ScanI, Scan!IInv

-----------------------------------------------------------------------------
(* Without top_secret: what the directories up to the entry before the     *)
(* kk-th of the ii-th inode call xx.                                       *)
Called(xx, ii, kk) == {n \in Scan!Jpgs : \E d \in Nums : Scan!kind[d] = "dir" /\
  \E e \in 1 .. Len(Scan!entries[d]) : Scan!entries[d][e] = <<n, xx>> /\ (d < ii \/ (d = ii /\ e < kk))}

LEMMA CalledIs ==
  ASSUME image' = image, NEW xx
  PROVE  /\ Scan!CalledSoFar(xx) = Called(xx, i, k) /\ Scan!CalledSoFar(xx)' = Called(xx, i', k')
         /\ Scan!Jpgs' = Scan!Jpgs /\ Scan!kind' = Scan!kind /\ Scan!entries' = Scan!entries
<1>1. Scan!Jpgs' = Scan!Jpgs /\ Scan!kind' = Scan!kind /\ Scan!entries' = Scan!entries
  BY DEF Scan!Jpgs, Scan!kind, Scan!entries
<1>2. Scan!CalledSoFar(xx) = Called(xx, i, k)
  BY DEF Scan!CalledSoFar, Called, Nums
<1>3. Scan!CalledSoFar(xx)' = Called(xx, i', k')
  BY <1>1 DEF Scan!CalledSoFar, Called, Nums
<1> QED BY <1>1, <1>2, <1>3

\* The next phase's invariant, from what it says of each name.
LEMMA NamesKept ==
  ASSUME ScanI, image' = image, scanPc' = "names", ~have_top_secret, have_top_secret' = have_top_secret, files' = Scan!Jpgs,
         inode_is_jpg' = Scan!Jpgs, list' = list, secret' = secret,
         Scan!SecretOf(Scan!SecretDirs),
         i' \in 1 .. num_groups * inodes_per_group + 1, k' \in Nat, k' >= 1,
         named' \in [Names -> Nums \cup {0}],
         \A x \in Names : IF Called(x, i', k') = {} THEN named'[x] = 0
                          ELSE named'[x] \in Called(x, i', k')
  PROVE  ScanI'
<1>1. Scan!Jpgs' = Scan!Jpgs /\ Scan!kind' = Scan!kind /\ Scan!entries' = Scan!entries /\ image' \in Images
  BY DEF Scan!Jpgs, Scan!kind, Scan!entries, ScanI
<1>2. \A x \in Names : IF Scan!CalledSoFar(x)' = {} THEN named'[x] = 0
                       ELSE named'[x] \in Scan!CalledSoFar(x)'
  BY CalledIs
<1>3. Scan!NamesInv'
  BY <1>1, <1>2 DEF Scan!NamesInv
<1>4. Scan!TypeOK'
  <2>1. Scan!Jpgs \subseteq Scan!Inums
    BY DEF Scan!Jpgs
  <2>2. i' \in Nat /\ k' \in Nat \ {0}
    BY ScanConstants
  <2>3. have_top_secret' \in BOOLEAN
    BY ScanTypes
  <2> QED BY <1>1, <2>1, <2>2, <2>3 DEF ScanI, Scan!IInv, Scan!TypeOK, Nums
<1>5. list' \in Seq((Scan!Inums \cup {0}) \X Names)
  BY DEF ScanI, Scan!IInv
<1>6. Scan!SecretOf(Scan!SecretDirs)'
  BY SecretKept
<1> QED BY <1>1, <1>3, <1>4, <1>5, <1>6 DEF ScanI, Scan!IInv, Scan!Recovered

LEMMA NamesStart == ASSUME ScanI, Scan!StartNames PROVE ScanI'
<1>1. /\ scanPc = "scan" /\ i \notin Scan!Inums /\ ~have_top_secret
      /\ i' = 1 /\ k' = 1 /\ scanPc' = "names"
      /\ UNCHANGED <<image, inode_is_jpg, have_top_secret, secret, list, files, named>>
  BY DEF Scan!StartNames
<1>2. /\ files = Scan!Jpgs /\ inode_is_jpg = Scan!Jpgs /\ named = [x \in Names |-> 0]
      /\ Scan!SecretOf(Scan!SecretDirs)
  BY <1>1, ScanEnd
<1>3. ASSUME NEW x \in Names PROVE Called(x, i', k') = {} /\ named'[x] = 0
  <2>1. PICK nn \in Nat : Nums = 1 .. nn
    BY ScanConstants DEF Nums
  <2>2. \A d \in Nums, e \in Nat : ~ (e >= 1 /\ (d < 1 \/ (d = 1 /\ e < 1)))
    BY <2>1
  <2>3. \A d \in Nums : Len(Scan!entries[d]) \in Nat
    BY ScanTypes DEF Entries
  <2>4. \A d \in Nums : \A e \in 1 .. Len(Scan!entries[d]) : ~ (d < 1 \/ (d = 1 /\ e < 1))
    BY <2>2, <2>3
  <2>5. Called(x, 1, 1) = {}
    BY <2>4 DEF Called
  <2> QED BY <1>1, <1>2, <2>5
<1>4. i' \in 1 .. num_groups * inodes_per_group + 1 /\ k' \in Nat /\ k' >= 1
  BY <1>1, ScanConstants
<1>5. named' \in [Names -> Nums \cup {0}]
  BY <1>1, ScanTypes
<1> QED BY <1>1, <1>2, <1>3, <1>4, <1>5, NamesKept

LEMMA NamesFacts ==
  ASSUME ScanI, scanPc = "names", image' = image
  PROVE  /\ ~have_top_secret /\ files = Scan!Jpgs /\ inode_is_jpg = Scan!Jpgs
         /\ i \in 1 .. num_groups * inodes_per_group + 1
         /\ \A x \in Names : IF Called(x, i, k) = {} THEN named[x] = 0
                             ELSE named[x] \in Called(x, i, k)
         /\ Scan!SecretOf(Scan!SecretDirs)
<1>1. Scan!NamesInv /\ Scan!SecretOf(Scan!SecretDirs)
  BY DEF ScanI, Scan!IInv
<1> QED BY <1>1, CalledIs DEF Scan!NamesInv

\* One more entry is seen.
LEMMA CalledMore ==
  ASSUME NEW ii \in Nums, NEW kk \in Nat, Scan!kind[ii] = "dir",
         kk \in 1 .. Len(Scan!entries[ii]), NEW x \in Names,
         Scan!entries \in [Nums -> Entries], ii \in Nat
  PROVE  Called(x, ii, kk + 1) = Called(x, ii, kk) \cup
           {n \in Scan!Jpgs : Scan!entries[ii][kk] = <<n, x>>}
<1>1. \A d \in Nums : \A e \in 1 .. Len(Scan!entries[d]) :
        (d < ii \/ (d = ii /\ e < kk + 1)) <=> (d < ii \/ (d = ii /\ e < kk)) \/ (d = ii /\ e = kk)
  <2>1. \A d \in Nums : Len(Scan!entries[d]) \in Nat
    BY DEF Entries
  <2>2. \A e \in Nat : e < kk + 1 <=> e < kk \/ e = kk
    OBVIOUS
  <2> QED BY <2>1, <2>2
<1>2. ASSUME NEW n
      PROVE  n \in Called(x, ii, kk + 1) <=>
               n \in Called(x, ii, kk) \/ (n \in Scan!Jpgs /\ Scan!entries[ii][kk] = <<n, x>>)
  BY <1>1 DEF Called
<1> QED BY <1>2

LEMMA EntryNamed == ASSUME ScanI, Scan!Name PROVE ScanI'
<1>1. /\ scanPc = "names" /\ Scan!InDir /\ k' = k + 1
      /\ UNCHANGED <<image, scanPc, i, inode_is_jpg, have_top_secret, secret, list, files>>
  BY DEF Scan!Name
<1>2. /\ i \in Nums /\ i \in Nat /\ Scan!kind[i] = "dir" /\ k \in Nat /\ k >= 1
      /\ k \in 1 .. Len(Scan!entries[i]) /\ Scan!entries[i] \in Entries
      /\ Scan!entries \in [Nums -> Entries]
  <2>1. i \in Nums /\ Scan!kind[i] = "dir" /\ k <= Len(Scan!entries[i])
    BY <1>1 DEF Scan!InDir, Nums
  <2>2. i \in Nat /\ k \in Nat /\ k >= 1 /\ Scan!entries[i] \in Entries /\ Scan!entries \in [Nums -> Entries]
    BY <2>1, ScanTypes
  <2>3. Len(Scan!entries[i]) \in Nat
    BY <2>2 DEF Entries
  <2> QED BY <2>1, <2>2, <2>3
<1>3. PICK nn, xx : nn = Scan!entries[i][k][1] /\ xx = Scan!entries[i][k][2]
  OBVIOUS
<1>4. nn \in Nums \cup {0} /\ xx \in Names /\ Scan!entries[i][k] = <<nn, xx>>
  BY <1>2, <1>3, EntryIs
<1>5. /\ ~have_top_secret /\ files = Scan!Jpgs /\ inode_is_jpg = Scan!Jpgs
      /\ i \in 1 .. num_groups * inodes_per_group + 1
      /\ \A x \in Names : IF Called(x, i, k) = {} THEN named[x] = 0
                          ELSE named[x] \in Called(x, i, k)
      /\ Scan!SecretOf(Scan!SecretDirs)
  BY <1>1, NamesFacts
<1>6. IF nn \in Scan!Jpgs THEN named' = [named EXCEPT ![xx] = nn] ELSE named' = named
  BY <1>3, <1>5 DEF Scan!Name
<1>7. named \in [Names -> Nums \cup {0}]
  BY ScanTypes
<1>8. named' \in [Names -> Nums \cup {0}]
  BY <1>4, <1>6, <1>7
<1>9. ASSUME NEW x \in Names
      PROVE  IF Called(x, i', k') = {} THEN named'[x] = 0 ELSE named'[x] \in Called(x, i', k')
  <2>1. Called(x, i', k') = Called(x, i, k) \cup {n \in Scan!Jpgs : Scan!entries[i][k] = <<n, x>>}
    BY <1>1, <1>2, CalledMore
  <2>2. CASE nn \in Scan!Jpgs /\ x = xx
    <3>1. named'[x] = nn /\ nn \in Called(x, i', k')
      BY <1>4, <1>6, <1>7, <2>1, <2>2
    <3> QED BY <3>1
  <2>3. CASE ~ (nn \in Scan!Jpgs /\ x = xx)
    <3>1. {n \in Scan!Jpgs : Scan!entries[i][k] = <<n, x>>} = {}
      BY <1>4, <2>3
    <3>2. named'[x] = named[x]
      BY <1>6, <1>7, <2>3
    <3> QED BY <1>5, <2>1, <3>1, <3>2
  <2> QED BY <2>2, <2>3
<1>10. i' \in 1 .. num_groups * inodes_per_group + 1 /\ k' \in Nat /\ k' >= 1
  <2>1. k + 1 \in Nat /\ k + 1 >= 1
    BY <1>2
  <2> QED BY <1>1, <1>5, <2>1
<1> QED BY <1>1, <1>5, <1>8, <1>9, <1>10, NamesKept

LEMMA InodeNext == ASSUME ScanI, Scan!NextInode PROVE ScanI'
<1>1. /\ scanPc = "names" /\ i \in Scan!Inums /\ ~Scan!InDir /\ i' = i + 1 /\ k' = 1
      /\ UNCHANGED <<image, scanPc, inode_is_jpg, have_top_secret, secret, list, files, named>>
  BY DEF Scan!NextInode
<1>2. PICK nn \in Nat : nn = num_groups * inodes_per_group /\ Nums = 1 .. nn /\ Scan!Inums = Nums
  BY ScanConstants DEF Nums
<1>3. /\ ~have_top_secret /\ files = Scan!Jpgs /\ inode_is_jpg = Scan!Jpgs
      /\ \A x \in Names : IF Called(x, i, k) = {} THEN named[x] = 0
                          ELSE named[x] \in Called(x, i, k)
      /\ Scan!SecretOf(Scan!SecretDirs)
  BY <1>1, NamesFacts
<1>4. i \in 1 .. nn /\ k \in Nat /\ named \in [Names -> Nums \cup {0}]
      /\ \A d \in Nums : Len(Scan!entries[d]) \in Nat
  BY <1>1, <1>2, ScanTypes DEF Entries
<1>5. \A d \in Nums : \A e \in 1 .. Len(Scan!entries[d]) : Scan!kind[d] = "dir" =>
        ((d < i + 1 \/ (d = i + 1 /\ e < 1)) <=> (d < i \/ (d = i /\ e < k)))
  <2> SUFFICES ASSUME NEW d \in Nums, NEW e \in 1 .. Len(Scan!entries[d]), Scan!kind[d] = "dir"
               PROVE  (d < i + 1 \/ (d = i + 1 /\ e < 1)) <=> (d < i \/ (d = i /\ e < k))
    OBVIOUS
  <2>1. PICK dd \in Nat, ee \in Nat, ii \in Nat, kk \in Nat :
          dd = d /\ ee = e /\ ii = i /\ kk = k /\ ee >= 1
    BY <1>2, <1>4
  <2>2. d = i => e < k
    <3>1. d = i => ~ (k <= Len(Scan!entries[d]))
      BY <1>1 DEF Scan!InDir
    <3>2. PICK ll \in Nat : ll = Len(Scan!entries[d]) /\ ee <= ll
      BY <1>4, <2>1
    <3> QED BY <2>1, <3>1, <3>2
  <2>3. (dd < ii + 1 \/ (dd = ii + 1 /\ ee < 1)) <=> (dd < ii \/ dd = ii)
    BY <2>1
  <2> QED BY <2>1, <2>2, <2>3
<1>6. ASSUME NEW x \in Names PROVE Called(x, i', k') = Called(x, i, k)
  <2>1. \A n : n \in Called(x, i + 1, 1) <=> n \in Called(x, i, k)
    BY <1>5 DEF Called
  <2> QED BY <1>1, <2>1
<1>7. i' \in 1 .. nn + 1 /\ k' \in Nat /\ k' >= 1
  BY <1>1, <1>4
<1> QED BY <1>1, <1>2, <1>3, <1>4, <1>6, <1>7, NamesKept

\* All directories have been seen.
LEMMA NamesEnd == ASSUME ScanI, Scan!NamesDone PROVE ScanI'
<1>1. /\ scanPc = "names" /\ i \notin Scan!Inums /\ scanPc' = "done"
      /\ UNCHANGED <<image, i, k, inode_is_jpg, have_top_secret, secret, list, files, named>>
  BY DEF Scan!NamesDone
<1>2. PICK nn \in Nat : nn = num_groups * inodes_per_group /\ Nums = 1 .. nn /\ Scan!Inums = Nums
  BY ScanConstants DEF Nums
<1>3. /\ ~have_top_secret /\ files = Scan!Jpgs /\ i \in 1 .. nn + 1
      /\ \A x \in Names : IF Called(x, i, k) = {} THEN named[x] = 0
                          ELSE named[x] \in Called(x, i, k)
  BY <1>1, <1>2, NamesFacts
<1>4. \A d \in Nums : d < i
  BY <1>1, <1>2, <1>3
<1>5. /\ Scan!Jpgs' = Scan!Jpgs /\ Scan!kind' = Scan!kind /\ Scan!entries' = Scan!entries
      /\ image' \in Images
  BY <1>1 DEF Scan!Jpgs, Scan!kind, Scan!entries, ScanI
<1>6. ASSUME NEW x
      PROVE  Called(x, i, k) = {n \in Scan!Jpgs : \E d \in Scan!Inums :
                                  Scan!kind[d] = "dir" /\ <<n, x>> \in Scan!Links(d)}
  <2>1. \A d \in Nums, n \in Scan!Jpgs : <<n, x>> \in Scan!Links(d)
          <=> \E e \in 1 .. Len(Scan!entries[d]) : Scan!entries[d][e] = <<n, x>>
    BY DEF Scan!Links
  <2>2. ASSUME NEW n \in Scan!Jpgs, NEW d \in Nums
        PROVE  (\E e \in 1 .. Len(Scan!entries[d]) :
                  Scan!entries[d][e] = <<n, x>> /\ (d < i \/ (d = i /\ e < k)))
               <=> <<n, x>> \in Scan!Links(d)
    BY <1>4, <2>1
  <2> QED BY <1>2, <2>2 DEF Called
<1>7. Scan!AllRecovered'
  <2>1. Scan!AllRecovered
    BY <1>3, <1>6 DEF Scan!AllRecovered
  <2>2. \A d : Scan!Links(d)' = Scan!Links(d)
    BY <1>5 DEF Scan!Links
  <2>3. PICK cc : cc = [x \in Names |-> {n \in Scan!Jpgs : \E d \in Scan!Inums :
                            Scan!kind[d] = "dir" /\ <<n, x>> \in Scan!Links(d)}]
    OBVIOUS
  <2>4. \A x \in Names : cc[x] = {n \in Scan!Jpgs' : \E d \in Scan!Inums :
                            Scan!kind'[d] = "dir" /\ <<n, x>> \in Scan!Links(d)'}
    BY <1>5, <2>2, <2>3
  <2>5. \A x \in Names : IF cc[x] = {} THEN named[x] = 0 ELSE named[x] \in cc[x]
    BY <2>1, <2>3 DEF Scan!AllRecovered
  <2>6. \A x \in Names : IF cc[x] = {} THEN named'[x] = 0 ELSE named'[x] \in cc[x]
    BY <1>1, <2>5
  <2>7. files' = Scan!Jpgs'
    BY <1>1, <1>3, <1>5
  <2> QED BY <2>4, <2>6, <2>7 DEF Scan!AllRecovered
<1>8. Scan!SecretOf(Scan!SecretDirs)' /\ Scan!Recovered'
  <2>1. Scan!SecretOf(Scan!SecretDirs)'
    BY <1>1, NamesFacts, SecretKept
  <2> QED BY <1>1, <1>3, <1>7, <2>1 DEF Scan!Recovered
<1>9. Scan!TypeOK'
  BY <1>1, <1>5 DEF ScanI, Scan!IInv, Scan!TypeOK
<1>10. list' \in Seq((Scan!Inums \cup {0}) \X Names)
  BY <1>1 DEF ScanI, Scan!IInv
<1> QED BY <1>1, <1>5, <1>8, <1>9, <1>10 DEF ScanI, Scan!IInv

LEMMA ScanSteps == ScanI /\ Scan!Next => ScanI'
BY ScanGoesOn, SecretRead, SecretNamed, OthersRemoved, NamesStart, EntryNamed, InodeNext, NamesEnd
  DEF Scan!Next

LEMMA ScanSame == ScanI /\ UNCHANGED scanVars => ScanI'
<1> SUFFICES ASSUME ScanI, UNCHANGED scanVars PROVE ScanI'
  OBVIOUS
<1>1. UNCHANGED <<image, scanPc, i, k, inode_is_jpg, have_top_secret, secret, list, files, named>>
  BY DEF scanVars
<1>2. /\ Scan!kind' = Scan!kind /\ Scan!entries' = Scan!entries /\ Scan!Jpgs' = Scan!Jpgs
      /\ \A d : Scan!Links(d)' = Scan!Links(d) /\ (Scan!Reached' <=> Scan!Reached)
  BY <1>1 DEF Scan!kind, Scan!entries, Scan!Jpgs, Scan!Links, Scan!Reached
<1>3. Scan!TypeOK'
  BY <1>1, <1>2 DEF ScanI, Scan!IInv, Scan!TypeOK
<1>a. /\ \A d : Scan!LastOf(Scan!Secrets(d))' = Scan!LastOf(Scan!Secrets(d))
      /\ Scan!SecretDirs' = Scan!SecretDirs
  BY <1>1, SecretDirsSame DEF Scan!LastOf
<1>b. Scan!NamesDiffer(list)' <=> Scan!NamesDiffer(list)
  BY <1>1 DEF Scan!NamesDiffer
<1>4. Scan!ScanInv => Scan!ScanInv'
  BY <1>1, <1>2, <1>a DEF Scan!ScanInv, Scan!SecretOf
<1>5. Scan!SecretInv => Scan!SecretInv'
  BY <1>1, <1>2, <1>b DEF Scan!SecretInv
<1>6. Scan!NamesInv => Scan!NamesInv'
  BY <1>1, <1>2, CalledIs DEF Scan!NamesInv
<1>7. Scan!Recovered => Scan!Recovered'
  <2>1. /\ Scan!OnlyRecovered(list) => Scan!OnlyRecovered(list)'
        /\ Scan!AllRecovered => Scan!AllRecovered'
    BY <1>1, <1>2, <1>b DEF Scan!AllRecovered, Scan!OnlyRecovered, Scan!Listed
  <2>2. Scan!SecretOf(Scan!SecretDirs) => Scan!SecretOf(Scan!SecretDirs)'
    BY <1>1, SecretKept
  <2> QED BY <1>1, <1>2, <2>1, <2>2 DEF Scan!Recovered
<1>8. image' \in Images /\ list' \in Seq((Scan!Inums \cup {0}) \X Names)
  BY <1>1 DEF ScanI, Scan!IInv
<1>9. Scan!SecretOf(Scan!SecretDirs) => Scan!SecretOf(Scan!SecretDirs)'
  BY <1>1, SecretKept
<1> QED BY <1>1, <1>3, <1>4, <1>5, <1>6, <1>7, <1>8, <1>9 DEF ScanI, Scan!IInv

\* Without an entry top_secret runscan recovers every picture of an image;
\* with one, exactly the pictures named by the entries it reads for the last
\* such entry, which are those of the directory top_secret unless that is the
\* last inode of its group, not a directory or a stale entry (runscan.c:194).
\* And it copies a file exactly, for any size and any numbers of pointers
\* (runscan.c:106, 211).
THEOREM PicturesExact == Spec => []PicturesRecovered
<1> DEFINE I == (program = "scan" => ScanI) /\ (program = "copy" => Copy!IInv)
<1>1. Init => I
  BY ScanInit, CopyInit DEF Init
<1>2. I /\ [Next]_vars => I'
  <2> SUFFICES ASSUME I, [Next]_vars PROVE I'
    OBVIOUS
  <2>1. CASE UNCHANGED <<program, scanVars, copyVars>>
    BY <2>1, ScanSame, CopySame
  <2>2. CASE OnlyScan /\ Scan!Next
    BY <2>2, ScanSteps DEF OnlyScan
  <2>3. CASE OnlyCopy /\ Copy!Next
    BY <2>3, CopySteps DEF OnlyCopy
  <2> QED BY <2>1, <2>2, <2>3
    DEF Next, vars, OnlyHeap, OnlySort, OnlyShell, OnlyScan, OnlyCopy
<1>3. I => PicturesRecovered
  BY CopyIsExact DEF PicturesRecovered, ScanI, Scan!IInv
<1> QED BY <1>1, <1>2, <1>3, PTL DEF Spec

-----------------------------------------------------------------------------
(***************************************************************************)
(* malloc and free.                                                        *)
(***************************************************************************)
\* What Umalloc assumes of its constants.
LEMMA HeapConstants ==
  /\ Top \in Nat /\ HeaderSize \in Nat \ {0} /\ MoreUnits \in Nat \ {0}
  /\ Lens \subseteq Nat /\ Gaps \subseteq Nat \ {0} /\ Null \notin Nat
  /\ Heap!Addrs = 0 .. Top /\ Heap!base = 0
BY ProgramsAssumptions DEF Heap!ConstantAssumptions, Heap!Addrs, Heap!base

\* A block of nunits headers has room for what was asked behind its own.
LEMMA EnoughUnits ==
  ASSUME nbytes \in Nat
  PROVE  Heap!nunits \in Nat \ {0} /\ (Heap!nunits - 1) * HeaderSize >= nbytes
<1> DEFINE q == (nbytes + HeaderSize - 1) \div HeaderSize
<1>1. nbytes + HeaderSize - 1 \in Nat /\ HeaderSize \in Nat \ {0}
  BY HeapConstants
<1>2. \A nn \in Nat, dd \in Nat \ {0} : nn \div dd \in Nat /\ nn < (nn \div dd) * dd + dd
  OBVIOUS
<1>3. q \in Nat /\ nbytes + HeaderSize - 1 < q * HeaderSize + HeaderSize
  BY <1>1, <1>2
<1>4. Heap!nunits = q + 1
  BY DEF Heap!nunits
<1> HIDE DEF q
<1>5. q * HeaderSize \in Nat
  BY <1>1, <1>3
<1> QED BY <1>1, <1>3, <1>4, <1>5

(* Blocks of sizes sz, one after another without overlap, that make up tk. *)
Begin(sz) == {aa \in Heap!Addrs : sz[aa] > 0}

Packed(sz, tk, bk) ==
  /\ sz \in [Heap!Addrs -> Heap!Addrs] /\ bk \in 1 .. Top + 1
  /\ Heap!base \notin Begin(sz)
  /\ \A aa \in Begin(sz) : aa + sz[aa] <= bk
  /\ \A aa, bb \in Begin(sz) : aa < bb => aa + sz[aa] <= bb
  /\ \A hh : hh \in tk <=> \E aa \in Begin(sz) : hh \in aa .. aa + sz[aa] - 1

(* aa is joined with bb behind it; aa gives its last nn headers as bb.      *)
Joins(sz, aa, bb, sy) ==
  /\ aa \in Begin(sz) /\ bb \in Begin(sz) /\ aa + sz[aa] = bb
  /\ sy = [sz EXCEPT ![aa] = sz[aa] + sz[bb], ![bb] = 0]

Splits(sz, aa, nn, bb, sy) ==
  /\ aa \in Begin(sz) /\ nn \in Nat \ {0} /\ nn < sz[aa] /\ bb = aa + (sz[aa] - nn)
  /\ sy = [sz EXCEPT ![aa] = sz[aa] - nn, ![bb] = nn]

\* The addresses, as a set of numbers.
LEMMA HeapAddrs == Top \in Nat /\ Heap!Addrs = 0 .. Top /\ Heap!base = 0
BY HeapConstants

\* The same, one address at a time.
LEMMA HeapTop == Top \in Nat /\ \A aa : aa \in Heap!Addrs <=> aa \in 0 .. Top
BY HeapConstants

\* Of two blocks that touch the first takes in the second (umalloc.c:33, 38).
LEMMA Joined ==
  ASSUME NEW sz, NEW tk, NEW bk, Packed(sz, tk, bk), NEW aa, NEW bb, NEW sy, Joins(sz, aa, bb, sy)
  PROVE  /\ Packed(sy, tk, bk) /\ Begin(sy) = Begin(sz) \ {bb} /\ bb # aa
         /\ sy[aa] = sz[aa] + sz[bb] /\ \A xx \in Heap!Addrs : xx # aa /\ xx # bb => sy[xx] = sz[xx]
<1> aa \in Begin(sz) /\ bb \in Begin(sz) /\ aa + sz[aa] = bb
  BY DEF Joins
<1>j. sy = [sz EXCEPT ![aa] = sz[aa] + sz[bb], ![bb] = 0]
  BY DEF Joins
<1>0. /\ sz \in [Heap!Addrs -> Heap!Addrs] /\ aa \in Heap!Addrs /\ bb \in Heap!Addrs
      /\ aa # Heap!base /\ sz[aa] > 0 /\ sz[bb] > 0
  BY DEF Packed, Begin
<1>1. /\ Top \in Nat /\ aa \in 0 .. Top /\ bb \in 0 .. Top /\ sz[aa] \in 1 .. Top /\ sz[bb] \in 1 .. Top
      /\ aa # 0 /\ aa < bb /\ bb + sz[bb] <= bk /\ bk \in 1 .. Top + 1
  <2>0. aa \in Heap!Addrs /\ bb \in Heap!Addrs /\ aa # 0 /\ sz[aa] > 0 /\ sz[bb] > 0
    BY <1>0, HeapAddrs
  <2>1. sz[aa] \in Heap!Addrs /\ sz[bb] \in Heap!Addrs
    BY <1>0
  <2>2. bk \in 1 .. Top + 1 /\ bb + sz[bb] <= bk
    BY DEF Packed
  <2> QED BY <2>0, <2>1, <2>2, HeapTop
<1>2. sz[aa] + sz[bb] \in 1 .. Top
  BY <1>1
<1>3. /\ sy \in [Heap!Addrs -> Heap!Addrs]
      /\ sy[aa] = sz[aa] + sz[bb] /\ sy[bb] = 0
      /\ \A xx \in Heap!Addrs : xx # aa /\ xx # bb => sy[xx] = sz[xx]
  <2>1. sz[aa] + sz[bb] \in Heap!Addrs /\ 0 \in Heap!Addrs
    BY <1>1, <1>2, HeapTop
  <2>2. aa # bb
    BY <1>1
  <2> QED BY <1>0, <1>j, <2>1, <2>2
<1>3a. sy[aa] = sz[aa] + sz[bb] /\ sy[bb] = 0
  BY <1>3
<1>4. Begin(sy) = Begin(sz) \ {bb}
  <2>1. sy[aa] > 0 /\ ~(sy[bb] > 0) /\ sz[aa] > 0 /\ aa # bb
    BY <1>1, <1>2, <1>3
  <2> QED BY <1>0, <1>3, <2>1 DEF Begin
<1>4c. aa \in Begin(sy) /\ aa # bb
  <2>1. aa # bb
    BY <1>1
  <2> QED BY <2>1, <1>4
<1>4a. \A xx \in Begin(sz) : xx \in 0 .. Top /\ sz[xx] \in 1 .. Top
  <2> TAKE xx \in Begin(sz)
  <2>1. xx \in Heap!Addrs /\ sz[xx] \in Heap!Addrs /\ sz[xx] > 0
    BY <1>0 DEF Begin
  <2> QED BY <2>1, HeapTop
<1>4b. \A xx \in Begin(sy) : xx \in Begin(sz) /\ xx # bb /\ (xx # aa => sy[xx] = sz[xx])
  BY <1>3, <1>4 DEF Begin
<1>5. \A xx \in Begin(sy) : xx + sy[xx] <= bk
  <2> TAKE xx \in Begin(sy)
  <2>1. xx + sz[xx] <= bk
    BY <1>4b DEF Packed
  <2>2. CASE xx = aa
    <3>1. xx + sy[xx] = bb + sz[bb]
      BY <2>2, <1>1, <1>3a
    <3> QED BY <3>1, <1>1
  <2>3. CASE xx # aa
    BY <2>1, <2>3, <1>4b
  <2> QED BY <2>2, <2>3
<1>6. \A xx, yy \in Begin(sy) : xx < yy => xx + sy[xx] <= yy
  <2> SUFFICES ASSUME NEW xx \in Begin(sy), NEW yy \in Begin(sy), xx < yy
               PROVE  xx + sy[xx] <= yy
    OBVIOUS
  <2>1. xx \in Begin(sz) /\ yy \in Begin(sz) /\ xx \in 0 .. Top /\ yy \in 0 .. Top /\ xx # bb /\ yy # bb
    BY <1>4a, <1>4b
  <2>2. CASE xx # aa
    BY <2>1, <2>2, <1>4b DEF Packed
  <2>3. CASE xx = aa
    <3>1. aa + sz[aa] <= yy
      BY <2>1, <2>3 DEF Packed
    <3>2. bb < yy
      BY <3>1, <2>1, <1>1
    <3>3. bb + sz[bb] <= yy
      BY <3>2, <2>1 DEF Packed
    <3> QED BY <3>3, <2>3, <1>1, <1>3
  <2> QED BY <2>2, <2>3
<1>7. \A hh : hh \in tk <=> \E xx \in Begin(sy) : hh \in xx .. xx + sy[xx] - 1
  <2> TAKE hh
  <2>1. hh \in tk <=> \E xx \in Begin(sz) : hh \in xx .. xx + sz[xx] - 1
    BY DEF Packed
  <2>2. ASSUME NEW xx \in Begin(sz), hh \in xx .. xx + sz[xx] - 1
        PROVE  \E yy \in Begin(sy) : hh \in yy .. yy + sy[yy] - 1
    <3>1. CASE xx # aa /\ xx # bb
      <4>1. xx \in Begin(sy) /\ sy[xx] = sz[xx]
        BY <3>1, <1>4, <1>4b
      <4> QED BY <4>1, <2>2
    <3>2. CASE xx = aa \/ xx = bb
      <4>1. aa \in Begin(sy)
        BY <1>4c
      <4>2. hh \in aa .. aa + sy[aa] - 1
        BY <3>2, <2>2, <1>1, <1>3
      <4> QED BY <4>1, <4>2
    <3> QED BY <3>1, <3>2
  <2>3. ASSUME NEW xx \in Begin(sy), hh \in xx .. xx + sy[xx] - 1
        PROVE  \E yy \in Begin(sz) : hh \in yy .. yy + sz[yy] - 1
    <3>1. CASE xx # aa
      <4>1. xx \in Begin(sz) /\ sy[xx] = sz[xx]
        BY <3>1, <1>4b
      <4> QED BY <4>1, <2>3
    <3>2. CASE xx = aa
      <4>1. hh \in aa .. aa + sz[aa] - 1 \/ hh \in bb .. bb + sz[bb] - 1
        BY <3>2, <2>3, <1>1, <1>3
      <4> QED BY <4>1
    <3> QED BY <3>1, <3>2
  <2> QED BY <2>1, <2>2, <2>3
<1>8. Heap!base \notin Begin(sy) /\ bk \in 1 .. Top + 1
  BY <1>4c, <1>4b DEF Packed
<1> QED BY <1>3, <1>4, <1>4c, <1>5, <1>6, <1>7, <1>8 DEF Packed

\* A block gives its last nn headers away (umalloc.c:78-80).
LEMMA Split ==
  ASSUME NEW sz, NEW tk, NEW bk, Packed(sz, tk, bk), NEW aa, NEW nn, NEW bb, NEW sy, Splits(sz, aa, nn, bb, sy)
  PROVE  Packed(sy, tk, bk) /\ Begin(sy) = Begin(sz) \cup {bb} /\ bb \in Heap!Addrs \ Begin(sz)
<1> aa \in Begin(sz) /\ nn \in Nat \ {0} /\ nn < sz[aa] /\ bb = aa + (sz[aa] - nn)
  BY DEF Splits
<1>j. sy = [sz EXCEPT ![aa] = sz[aa] - nn, ![bb] = nn]
  BY DEF Splits
<1>0. /\ sz \in [Heap!Addrs -> Heap!Addrs] /\ aa \in Heap!Addrs
      /\ aa # Heap!base /\ sz[aa] > 0
  BY DEF Packed, Begin
<1>1. /\ Top \in Nat /\ aa \in 0 .. Top /\ sz[aa] \in 1 .. Top
      /\ aa # 0 /\ aa + sz[aa] <= bk /\ bk \in 1 .. Top + 1
  <2>0. aa \in Heap!Addrs /\ aa # 0 /\ sz[aa] > 0
    BY <1>0, HeapAddrs
  <2>1. sz[aa] \in Heap!Addrs
    BY <1>0
  <2>2. bk \in 1 .. Top + 1 /\ aa + sz[aa] <= bk
    BY DEF Packed
  <2> QED BY <2>0, <2>1, <2>2, HeapTop
<1>2. bb \in 0 .. Top /\ aa < bb /\ bb < aa + sz[aa] /\ nn \in 1 .. Top /\ sz[aa] - nn \in 1 .. Top
  BY <1>1
<1>0a. Heap!base # bb
  <2>1. bb # 0
    BY <1>1, <1>2
  <2> QED BY <2>1, HeapAddrs
<1>3. bb \notin Begin(sz)
  BY <1>1, <1>2 DEF Packed
<1>4. /\ sy \in [Heap!Addrs -> Heap!Addrs] /\ bb \in Heap!Addrs
      /\ sy[aa] = sz[aa] - nn /\ sy[bb] = nn
      /\ \A xx \in Heap!Addrs : xx # aa /\ xx # bb => sy[xx] = sz[xx]
  <2>1. sz[aa] - nn \in Heap!Addrs /\ nn \in Heap!Addrs /\ bb \in Heap!Addrs
    BY <1>1, <1>2, HeapTop
  <2>2. aa # bb
    BY <1>1, <1>2
  <2> QED BY <1>0, <1>j, <2>1, <2>2
<1>5. Begin(sy) = Begin(sz) \cup {bb}
  <2>1. sy[aa] > 0 /\ sy[bb] > 0 /\ sz[aa] > 0
    BY <1>1, <1>2, <1>4
  <2>2. \A xx \in Heap!Addrs : xx # aa /\ xx # bb => (sy[xx] > 0 <=> sz[xx] > 0)
    BY <1>4
  <2>3. aa \in Heap!Addrs /\ bb \in Heap!Addrs
    BY <1>0, <1>4
  <2> QED BY <2>1, <2>2, <2>3 DEF Begin
<1>6. /\ aa + sy[aa] = bb /\ bb + sy[bb] = aa + sz[aa]
      /\ \A xx \in Begin(sz) : xx # aa => sy[xx] = sz[xx]
      /\ \A xx \in Begin(sy) : xx \in 0 .. Top
      /\ \A xx \in Begin(sz) : sz[xx] \in 1 .. Top
  <2>1. aa + sy[aa] = bb /\ bb + sy[bb] = aa + sz[aa]
    BY <1>1, <1>2, <1>4
  <2>2. \A xx \in Begin(sz) : xx # aa => sy[xx] = sz[xx]
    BY <1>3, <1>4 DEF Begin
  <2>3. \A xx \in Begin(sy) : xx \in 0 .. Top
    BY HeapTop DEF Begin
  <2>4. \A xx \in Begin(sz) : sz[xx] \in 1 .. Top
    <3> TAKE xx \in Begin(sz)
    <3>1. sz[xx] \in Heap!Addrs /\ sz[xx] > 0
      BY <1>0 DEF Begin
    <3> QED BY <3>1, HeapTop
  <2> QED BY <2>1, <2>2, <2>3, <2>4
<1>6a. sy[aa] = sz[aa] - nn /\ sy[bb] = nn
  BY <1>4
<1>7. \A xx \in Begin(sy) : xx + sy[xx] <= bk
  <2> TAKE xx \in Begin(sy)
  <2>1. CASE xx \in Begin(sz) /\ xx # aa
    <3>1. xx + sz[xx] <= bk
      BY <2>1 DEF Packed
    <3> QED BY <3>1, <2>1, <1>6
  <2>2. CASE xx = aa
    <3>1. xx + sy[xx] = bb
      BY <2>2, <1>1, <1>6a
    <3> QED BY <3>1, <1>1, <1>2
  <2>3. CASE xx = bb
    <3>1. xx + sy[xx] = aa + sz[aa]
      BY <2>3, <1>1, <1>6a
    <3> QED BY <3>1, <1>1
  <2> QED BY <2>1, <2>2, <2>3, <1>5
<1>8. \A xx, yy \in Begin(sy) : xx < yy => xx + sy[xx] <= yy
  <2> SUFFICES ASSUME NEW xx \in Begin(sy), NEW yy \in Begin(sy), xx < yy
               PROVE  xx + sy[xx] <= yy
    OBVIOUS
  <2>1. CASE xx = bb
    <3>0. yy \in Begin(sy) /\ bb < yy /\ yy \in 0 .. Top
      BY <2>1, <1>6
    <3>1. yy \in Begin(sz) /\ aa < yy
      <4>1. aa < yy /\ yy # bb
        BY <3>0, <1>1, <1>2
      <4> QED BY <4>1, <3>0, <1>5
    <3>2. aa + sz[aa] <= yy
      BY <3>1 DEF Packed
    <3> QED BY <2>1, <3>2, <1>6
  <2>2. CASE xx # bb /\ yy # bb
    <3>1. xx \in Begin(sz) /\ yy \in Begin(sz)
      BY <2>2, <1>5
    <3>2. xx + sz[xx] <= yy
      BY <3>1 DEF Packed
    <3>3. xx = aa \/ sy[xx] = sz[xx]
      BY <3>1, <1>6
    <3>4. CASE xx = aa
      <4>1. xx + sy[xx] = bb /\ bb < aa + sz[aa] /\ aa + sz[aa] <= yy
        BY <3>2, <3>4, <1>1, <1>2, <1>6a
      <4>2. yy \in 0 .. Top
        BY <1>6
      <4> QED BY <4>1, <4>2, <1>1, <1>2
    <3> QED BY <3>2, <3>3, <3>4
  <2>3. CASE xx # bb /\ yy = bb
    <3>1. xx \in Begin(sz)
      BY <2>3, <1>5
    <3>2. CASE xx = aa
      BY <3>2, <2>3, <1>6
    <3>3. CASE xx # aa
      <4>1. xx < aa
        <5>1. ~(aa < xx)
          <6> SUFFICES ASSUME aa < xx PROVE FALSE
            OBVIOUS
          <6>1. aa + sz[aa] <= xx
            BY <3>1 DEF Packed
          <6> QED BY <6>1, <2>3, <1>1, <1>2, <1>6
        <5> QED BY <5>1, <3>3, <1>1, <1>6
      <4>2. xx + sz[xx] <= aa
        BY <4>1, <3>1 DEF Packed
      <4>3. sy[xx] = sz[xx] /\ sz[xx] \in 1 .. Top /\ xx \in 0 .. Top
        BY <3>1, <3>3, <1>6
      <4> QED BY <4>2, <4>3, <2>3, <1>1, <1>2
    <3> QED BY <3>2, <3>3
  <2> QED BY <2>1, <2>2, <2>3
<1>9. \A hh : hh \in tk <=> \E xx \in Begin(sy) : hh \in xx .. xx + sy[xx] - 1
  <2> TAKE hh
  <2>1. hh \in tk <=> \E xx \in Begin(sz) : hh \in xx .. xx + sz[xx] - 1
    BY DEF Packed
  <2>2. ASSUME NEW xx \in Begin(sz), hh \in xx .. xx + sz[xx] - 1
        PROVE  \E yy \in Begin(sy) : hh \in yy .. yy + sy[yy] - 1
    <3>1. CASE xx # aa
      BY <3>1, <2>2, <1>5, <1>6
    <3>2. CASE xx = aa
      <4>1. hh \in aa .. aa + sy[aa] - 1 \/ hh \in bb .. bb + sy[bb] - 1
        BY <3>2, <2>2, <1>1, <1>2, <1>4
      <4> QED BY <4>1, <1>5
    <3> QED BY <3>1, <3>2
  <2>3. ASSUME NEW xx \in Begin(sy), hh \in xx .. xx + sy[xx] - 1
        PROVE  \E yy \in Begin(sz) : hh \in yy .. yy + sz[yy] - 1
    <3>1. CASE xx # aa /\ xx # bb
      BY <3>1, <2>3, <1>5, <1>6
    <3>2. CASE xx = aa \/ xx = bb
      <4>1. hh \in aa .. aa + sz[aa] - 1
        <5>1. CASE xx = aa
          <6>1. hh \in aa .. bb - 1
            BY <5>1, <2>3, <1>1, <1>6a
          <6> QED BY <6>1, <1>1, <1>2
        <5>2. CASE xx = bb
          <6>1. hh \in bb .. aa + sz[aa] - 1
            BY <5>2, <2>3, <1>1, <1>6a
          <6> QED BY <6>1, <1>1, <1>2
        <5> QED BY <3>2, <5>1, <5>2
      <4> QED BY <4>1
    <3> QED BY <3>1, <3>2
  <2> QED BY <2>1, <2>2, <2>3
<1>10. Heap!base \notin Begin(sy) /\ bk \in 1 .. Top + 1
  BY <1>2, <1>5, <1>0a DEF Packed
<1> QED BY <1>3, <1>4, <1>5, <1>7, <1>8, <1>9, <1>10 DEF Packed

\* morecore's block begins at the break (umalloc.c:53-58).
LEMMA Grown ==
  ASSUME NEW sz, NEW tk, NEW bk, Packed(sz, tk, bk),
         NEW nn \in Nat \ {0}, bk + nn - 1 <= Top,
         NEW sy, sy = [sz EXCEPT ![bk] = nn]
  PROVE  /\ Packed(sy, tk \cup (bk .. bk + nn - 1), bk + nn)
         /\ Begin(sy) = Begin(sz) \cup {bk} /\ bk \in Heap!Addrs \ Begin(sz)
<1>0. sz \in [Heap!Addrs -> Heap!Addrs] /\ bk \in 1 .. Top + 1
  BY DEF Packed
<1>1. Top \in Nat /\ bk \in 1 .. Top /\ nn \in 1 .. Top /\ bk + nn \in 1 .. Top + 1
  BY <1>0, HeapTop
<1>2. \A xx \in Begin(sz) : xx \in 0 .. Top /\ sz[xx] \in 1 .. Top /\ xx + sz[xx] <= bk
  <2> TAKE xx \in Begin(sz)
  <2>1. xx \in Heap!Addrs /\ sz[xx] \in Heap!Addrs /\ sz[xx] > 0
    BY <1>0 DEF Begin
  <2>2. xx + sz[xx] <= bk
    BY DEF Packed
  <2> QED BY <2>1, <2>2, HeapTop
<1>0a. Heap!base # bk
  <2>1. bk # 0
    BY <1>1
  <2> QED BY <2>1, HeapAddrs
<1>3. bk \notin Begin(sz)
  BY <1>1, <1>2
<1>4. /\ sy \in [Heap!Addrs -> Heap!Addrs] /\ sy[bk] = nn /\ bk \in Heap!Addrs
      /\ \A xx \in Heap!Addrs : xx # bk => sy[xx] = sz[xx]
  <2>1. bk \in Heap!Addrs /\ nn \in Heap!Addrs
    BY <1>1, HeapTop
  <2> QED BY <1>0, <2>1
<1>5. Begin(sy) = Begin(sz) \cup {bk} /\ \A xx \in Begin(sz) : xx # bk /\ sy[xx] = sz[xx]
  <2>1. sy[bk] > 0
    BY <1>1, <1>4
  <2> QED BY <2>1, <1>3, <1>4 DEF Begin
<1>6. \A xx \in Begin(sy) : xx + sy[xx] <= bk + nn
  <2> TAKE xx \in Begin(sy)
  <2>1. CASE xx = bk
    BY <2>1, <1>1, <1>4
  <2>2. CASE xx \in Begin(sz)
    BY <2>2, <1>1, <1>2, <1>5
  <2> QED BY <2>1, <2>2, <1>5
<1>7. \A xx, yy \in Begin(sy) : xx < yy => xx + sy[xx] <= yy
  <2> SUFFICES ASSUME NEW xx \in Begin(sy), NEW yy \in Begin(sy), xx < yy
               PROVE  xx + sy[xx] <= yy
    OBVIOUS
  <2>1. CASE xx = bk
    <3>1. yy \in Begin(sz) \/ yy = bk
      BY <1>5
    <3> QED BY <3>1, <2>1, <1>1, <1>2
  <2>2. CASE xx \in Begin(sz) /\ yy \in Begin(sz)
    BY <2>2, <1>5 DEF Packed
  <2>3. CASE xx \in Begin(sz) /\ yy = bk
    BY <2>3, <1>2, <1>5
  <2> QED BY <2>1, <2>2, <2>3, <1>5
<1>8. \A hh : hh \in tk \cup (bk .. bk + nn - 1) <=> \E xx \in Begin(sy) : hh \in xx .. xx + sy[xx] - 1
  <2> TAKE hh
  <2>1. hh \in tk <=> \E xx \in Begin(sz) : hh \in xx .. xx + sz[xx] - 1
    BY DEF Packed
  <2>2. (\E xx \in Begin(sz) : hh \in xx .. xx + sz[xx] - 1) <=> (\E xx \in Begin(sz) : hh \in xx .. xx + sy[xx] - 1)
    BY <1>5
  <2> QED BY <2>1, <2>2, <1>4, <1>5
<1>9. Heap!base \notin Begin(sy)
  BY <1>0a, <1>5 DEF Packed
<1> QED BY <1>1, <1>3, <1>4, <1>5, <1>6, <1>7, <1>8, <1>9 DEF Packed

(* The circle through S along pt.                                          *)
Ring(S, pt) ==
  /\ S \subseteq Heap!Addrs /\ Heap!base \in S
  /\ \A aa \in S : pt[aa] \in S /\ Heap!Successor(S, aa, pt[aa])

\* What follows a block on the circle: the next address, or base at the end.
LEMMA RingView ==
  ASSUME NEW S, NEW pt, Ring(S, pt), NEW aa \in S
  PROVE  /\ aa \in 0 .. Top /\ pt[aa] \in 0 .. Top /\ pt[aa] \in S /\ 0 \in S /\ Top \in Nat
         /\ \A xx \in S : xx \in 0 .. Top
         /\ \/ aa < pt[aa] /\ \A xx \in S : xx <= aa \/ pt[aa] <= xx
            \/ pt[aa] = 0 /\ \A xx \in S : xx <= aa
<1>1. \A xx \in S : xx \in 0 .. Top
  BY HeapTop DEF Ring
<1>2. pt[aa] \in S /\ Heap!Successor(S, aa, pt[aa])
  BY DEF Ring
<1>3. 0 \in S
  BY HeapAddrs DEF Ring
<1> QED BY <1>1, <1>2, <1>3, HeapAddrs DEF Heap!Successor

\* Two blocks do not lead to the same one, and none to itself.
LEMMA RingOnce ==
  ASSUME NEW S, NEW pt, Ring(S, pt), NEW aa \in S, NEW bb \in S, pt[aa] = pt[bb], pt[aa] # 0
  PROVE  aa = bb /\ pt[aa] # aa
<1>1. /\ aa \in 0 .. Top /\ bb \in 0 .. Top /\ pt[aa] \in 0 .. Top
      /\ aa < pt[aa] /\ bb < pt[aa]
      /\ \A xx \in S : xx <= aa \/ pt[aa] <= xx
      /\ \A xx \in S : xx <= bb \/ pt[aa] <= xx
  BY RingView
<1>2. aa <= bb /\ bb <= aa
  BY <1>1
<1> QED BY <1>1, <1>2

Drops(S, pt, aa, bb, qt) ==
  /\ aa \in S /\ pt[aa] = bb /\ bb # 0
  /\ qt[aa] = pt[bb] /\ \A xx \in S : xx # aa /\ xx # bb => qt[xx] = pt[xx]

\* The block behind aa is taken from the circle (umalloc.c:76, 34, 39).
LEMMA RingDrop ==
  ASSUME NEW S, NEW pt, Ring(S, pt), NEW aa, NEW bb, NEW qt, Drops(S, pt, aa, bb, qt)
  PROVE  Ring(S \ {bb}, qt) /\ aa # bb
<1> /\ aa \in S /\ bb = pt[aa] /\ bb # 0
    /\ qt[aa] = pt[bb] /\ \A xx \in S : xx # aa /\ xx # bb => qt[xx] = pt[xx]
  BY DEF Drops
<1>1. /\ aa \in 0 .. Top /\ bb \in 0 .. Top /\ bb \in S /\ aa < bb
      /\ \A xx \in S : xx \in 0 .. Top
      /\ \A xx \in S : xx <= aa \/ bb <= xx
  BY RingView
<1>2. /\ pt[bb] \in 0 .. Top /\ pt[bb] \in S
      /\ \/ bb < pt[bb] /\ \A xx \in S : xx <= bb \/ pt[bb] <= xx
         \/ pt[bb] = 0 /\ \A xx \in S : xx <= bb
  BY <1>1, RingView
<1>3. qt[aa] \in S \ {bb} /\ Heap!Successor(S \ {bb}, aa, qt[aa])
  <2>1. CASE bb < pt[bb] /\ \A xx \in S : xx <= bb \/ pt[bb] <= xx
    <3>1. aa < pt[bb] /\ pt[bb] # bb
      BY <2>1, <1>1, <1>2
    <3>2. \A xx \in S \ {bb} : xx <= aa \/ pt[bb] <= xx
      BY <2>1, <1>1, <1>2
    <3> QED BY <3>1, <3>2, <1>2 DEF Heap!Successor
  <2>2. CASE pt[bb] = 0 /\ \A xx \in S : xx <= bb
    <3>1. \A xx \in S \ {bb} : xx <= aa
      BY <2>2, <1>1
    <3> QED BY <2>2, <3>1, <1>2, HeapAddrs DEF Heap!Successor
  <2> QED BY <1>2, <2>1, <2>2
<1>4. ASSUME NEW xx \in S \ {bb}, xx # aa
      PROVE  qt[xx] \in S \ {bb} /\ Heap!Successor(S \ {bb}, xx, qt[xx])
  <2>1. qt[xx] = pt[xx] /\ pt[xx] \in S /\ Heap!Successor(S, xx, pt[xx])
    BY <1>4 DEF Ring
  <2>2. pt[xx] # bb
    BY <1>4, RingOnce
  <2> QED BY <2>1, <2>2 DEF Heap!Successor
<1>5. S \ {bb} \subseteq Heap!Addrs /\ Heap!base \in S \ {bb}
  BY HeapAddrs DEF Ring
<1>6. aa # bb
  BY <1>1
<1> QED BY <1>3, <1>4, <1>5, <1>6 DEF Ring

Inserts(S, pt, aa, cc, qt) ==
  /\ aa \in S /\ cc \in Heap!Addrs /\ aa < cc /\ (cc < pt[aa] \/ pt[aa] = 0)
  /\ qt[aa] = cc /\ qt[cc] = pt[aa] /\ \A xx \in S : xx # aa => qt[xx] = pt[xx]

\* A block is put between aa and the one behind it (umalloc.c:30-42).
LEMMA RingAdd ==
  ASSUME NEW S, NEW pt, Ring(S, pt), NEW aa, NEW cc, NEW qt, Inserts(S, pt, aa, cc, qt)
  PROVE  Ring(S \cup {cc}, qt) /\ cc \notin S
<1> /\ aa \in S /\ cc \in Heap!Addrs /\ aa < cc /\ (cc < pt[aa] \/ pt[aa] = 0)
    /\ qt[aa] = cc /\ qt[cc] = pt[aa] /\ \A xx \in S : xx # aa => qt[xx] = pt[xx]
  BY DEF Inserts
<1>1. /\ aa \in 0 .. Top /\ cc \in 0 .. Top /\ pt[aa] \in 0 .. Top /\ pt[aa] \in S
      /\ \A xx \in S : xx \in 0 .. Top
      /\ \/ aa < pt[aa] /\ \A xx \in S : xx <= aa \/ pt[aa] <= xx
         \/ pt[aa] = 0 /\ \A xx \in S : xx <= aa
  BY RingView, HeapTop
<1>2. \A xx \in S : xx <= aa \/ cc < xx
  BY <1>1
<1>3. cc \notin S
  BY <1>1, <1>2
<1>4. Heap!Successor(S \cup {cc}, aa, cc)
  BY <1>1, <1>2 DEF Heap!Successor
<1>5. Heap!Successor(S \cup {cc}, cc, pt[aa])
  <2>1. CASE cc < pt[aa]
    BY <2>1, <1>1 DEF Heap!Successor
  <2>2. CASE pt[aa] = 0
    <3>1. \A xx \in S \cup {cc} : xx <= cc
      BY <2>2, <1>1
    <3> QED BY <2>2, <3>1, HeapAddrs DEF Heap!Successor
  <2> QED BY <2>1, <2>2
<1>6. ASSUME NEW xx \in S, xx # aa
      PROVE  Heap!Successor(S \cup {cc}, xx, pt[xx]) /\ pt[xx] \in S
  <2>1. /\ xx \in 0 .. Top /\ pt[xx] \in 0 .. Top /\ pt[xx] \in S
        /\ \/ xx < pt[xx] /\ \A yy \in S : yy <= xx \/ pt[xx] <= yy
           \/ pt[xx] = 0 /\ \A yy \in S : yy <= xx
    BY RingView
  <2>2. CASE xx < pt[xx] /\ \A yy \in S : yy <= xx \/ pt[xx] <= yy
    <3>1. cc <= xx \/ pt[xx] <= cc
      BY <2>1, <2>2, <1>1, <1>2, <1>6
    <3> QED BY <2>1, <2>2, <3>1 DEF Heap!Successor
  <2>3. CASE pt[xx] = 0 /\ \A yy \in S : yy <= xx
    <3>1. aa <= xx /\ aa # xx
      BY <2>3, <1>6
    <3>2. cc <= xx
      BY <3>1, <2>1, <1>1, <1>2
    <3> QED BY <2>1, <2>3, <3>2, HeapAddrs DEF Heap!Successor
  <2> QED BY <2>1, <2>2, <2>3
<1>7. \A xx \in S \cup {cc} : qt[xx] \in S \cup {cc} /\ Heap!Successor(S \cup {cc}, xx, qt[xx])
  BY <1>1, <1>3, <1>4, <1>5, <1>6
<1> QED BY <1>3, <1>7 DEF Ring

\* The next fields matter only in S.
LEMMA RingSame ==
  ASSUME NEW S, NEW pt, Ring(S, pt), NEW qt, \A xx \in S : qt[xx] = pt[xx]
  PROVE  Ring(S, qt)
BY DEF Ring

(* A walk of mm steps along the next fields.                               *)
IsWalk(w, mm) == w = [nn \in 0 .. mm |-> IF nn = 0 THEN Heap!base ELSE ptr[w[nn - 1]]]

\* A walk of every length exists: there is no shortest that does not.
LEMMA WalkExists == \A mm \in Nat : \E w : IsWalk(w, mm)
<1> SUFFICES ASSUME \E mm \in Nat : ~\E w : IsWalk(w, mm) PROVE FALSE
  OBVIOUS
<1> DEFINE Bad == {mm \in Nat : ~\E w : IsWalk(w, mm)}
<1>1. PICK mm \in Bad : \A m2 \in Bad : mm <= m2
  <2>1. Bad \in SUBSET Nat /\ Bad # {}
    OBVIOUS
  <2> HIDE DEF Bad
  <2> QED BY <2>1, Least
<1>2. mm # 0
  <2>1. IsWalk([nn \in 0 .. 0 |-> Heap!base], 0)
    <3>1. \A nn \in 0 .. 0 : nn = 0
      OBVIOUS
    <3> QED BY <3>1 DEF IsWalk
  <2> QED BY <2>1, <1>1
<1>3. mm - 1 \in Nat /\ mm - 1 \notin Bad
  BY <1>1, <1>2
<1>4. PICK v : IsWalk(v, mm - 1)
  BY <1>3
<1> DEFINE w == [nn \in 0 .. mm |-> IF nn = mm THEN ptr[v[mm - 1]] ELSE v[nn]]
<1>5. /\ \A nn \in 0 .. mm - 1 : w[nn] = v[nn] /\ v[nn] = (IF nn = 0 THEN Heap!base ELSE ptr[v[nn - 1]])
      /\ w[mm] = ptr[v[mm - 1]]
  BY <1>1, <1>4 DEF IsWalk
<1>6. \A nn \in 0 .. mm : w[nn] = IF nn = 0 THEN Heap!base ELSE ptr[w[nn - 1]]
  <2> TAKE nn \in 0 .. mm
  <2>1. CASE nn = mm
    <3>1. mm - 1 \in 0 .. mm - 1
      BY <1>1, <1>2
    <3>2. w[mm - 1] = v[mm - 1]
      BY <3>1, <1>5
    <3> HIDE DEF w
    <3> QED BY <2>1, <3>2, <1>2, <1>5
  <2>2. CASE nn # mm /\ nn # 0
    <3>1. nn \in 0 .. mm - 1 /\ nn - 1 \in 0 .. mm - 1
      BY <2>2, <1>1
    <3> HIDE DEF w
    <3> QED BY <2>2, <3>1, <1>5
  <2>3. CASE nn # mm /\ nn = 0
    <3>1. 0 \in 0 .. mm - 1
      BY <1>3
    <3> HIDE DEF w
    <3> QED BY <2>3, <3>1, <1>5
  <2> QED BY <2>1, <2>2, <2>3
<1>7. IsWalk(w, mm)
  <2>1. w = [nn \in 0 .. mm |-> w[nn]]
    OBVIOUS
  <2> HIDE DEF w
  <2> QED BY <2>1, <1>6 DEF IsWalk
<1> HIDE DEF w
<1> QED BY <1>1, <1>7

\* Umalloc's walk is one, so its elements can be computed one by one.
LEMMA WalkIs ==
  \A nn \in 0 .. Top + 1 : Heap!walk[nn] = IF nn = 0 THEN Heap!base ELSE ptr[Heap!walk[nn - 1]]
<1>1. Heap!walk = CHOOSE w : w = [nn \in 0 .. Top + 1 |-> IF nn = 0 THEN Heap!base ELSE ptr[w[nn - 1]]]
  BY DEF Heap!walk
<1>2. \E w : w = [nn \in 0 .. Top + 1 |-> IF nn = 0 THEN Heap!base ELSE ptr[w[nn - 1]]]
  <2>1. Top + 1 \in Nat
    BY HeapTop
  <2> QED BY <2>1, WalkExists DEF IsWalk
<1>3. Heap!walk = [nn \in 0 .. Top + 1 |-> IF nn = 0 THEN Heap!base ELSE ptr[Heap!walk[nn - 1]]]
  BY <1>1, <1>2
<1> QED BY <1>3

\* A set of numbers that is bounded has a greatest.
LEMMA Greatest ==
  ASSUME NEW T, NEW mm \in Nat, T \subseteq 0 .. mm, T # {}
  PROVE  \E x \in T : \A y \in T : y <= x
<1> DEFINE U == {nn \in 0 .. mm : mm - nn \in T}
<1>1. U \in SUBSET Nat
  OBVIOUS
<1>2. \A x \in T : x \in 0 .. mm /\ mm - x \in 0 .. mm /\ mm - (mm - x) = x
  OBVIOUS
<1>3. \A x \in T : mm - x \in U
  BY <1>2
<1>4. \A nn \in U : nn \in 0 .. mm /\ mm - nn \in T
  OBVIOUS
<1> HIDE DEF U
<1>5. PICK nn \in U : \A n2 \in U : nn <= n2
  BY <1>1, <1>3, Least
<1>6. \A y \in T : y <= mm - nn
  <2> TAKE y \in T
  <2>1. nn <= mm - y
    BY <1>3, <1>5
  <2> QED BY <2>1, <1>2, <1>4
<1> QED BY <1>4, <1>6

\* free's and malloc's list has all the free blocks: the walk reaches each of
\* them in as many steps as its address, and then base again.
LEMMA WalkReaches ==
  ASSUME NEW S, Ring(S, ptr)
  PROVE  /\ {Heap!walk[nn] : nn \in 0 .. Top + 1} = S
         /\ \E nn \in 1 .. Top + 1 : Heap!walk[nn] = Heap!base
<1>0. Top \in Nat /\ 0 \in S /\ Heap!base = 0 /\ \A xx \in S : xx \in 0 .. Top
  BY HeapAddrs DEF Ring
<1>1. \A nn \in 0 .. Top + 1 : Heap!walk[nn] \in S
  <2> DEFINE Bad == {nn \in 0 .. Top + 1 : Heap!walk[nn] \notin S}
  <2> SUFFICES ASSUME Bad # {} PROVE FALSE
    OBVIOUS
  <2>1. Bad \in SUBSET Nat
    BY <1>0
  <2>2. PICK nn \in Bad : \A n2 \in Bad : nn <= n2
    <3> HIDE DEF Bad
    <3> QED BY <2>1, Least
  <2>3. nn # 0
    <3>1. 0 \in 0 .. Top + 1
      BY <1>0
    <3> QED BY <3>1, <1>0, <2>2, WalkIs
  <2>4. nn - 1 \in 0 .. Top + 1 /\ nn - 1 \notin Bad
    BY <1>0, <2>2, <2>3
  <2>5. Heap!walk[nn - 1] \in S
    BY <2>4
  <2>6. Heap!walk[nn] = ptr[Heap!walk[nn - 1]]
    BY <2>2, <2>3, WalkIs
  <2> QED BY <2>2, <2>5, <2>6 DEF Ring
<1>2. \A aa \in S : \E nn \in 0 .. aa : Heap!walk[nn] = aa
  <2> DEFINE Bad == {aa \in S : ~\E nn \in 0 .. aa : Heap!walk[nn] = aa}
  <2> SUFFICES ASSUME Bad # {} PROVE FALSE
    OBVIOUS
  <2>1. Bad \in SUBSET Nat
    BY <1>0
  <2>2. PICK aa \in Bad : \A a2 \in Bad : aa <= a2
    <3> HIDE DEF Bad
    <3> QED BY <2>1, Least
  <2>3. aa \in S /\ aa \in 0 .. Top /\ ~\E nn \in 0 .. aa : Heap!walk[nn] = aa
    BY <2>2, <1>0
  <2>4. aa # 0
    <3>1. 0 \in 0 .. Top + 1 /\ 0 \in 0 .. 0
      BY <1>0
    <3> QED BY <3>1, <2>3, <1>0, WalkIs
  <2> DEFINE Below == {xx \in S : xx < aa}
  <2>5. PICK bb \in Below : \A xx \in Below : xx <= bb
    <3>1. Below \subseteq 0 .. Top
      BY <1>0
    <3>2. 0 < aa
      BY <1>0, <2>3, <2>4
    <3>3. 0 \in Below
      BY <3>2, <1>0
    <3> HIDE DEF Below
    <3> QED BY <3>1, <3>3, <1>0, Greatest
  <2>6. bb \in S /\ bb < aa /\ bb \in 0 .. Top /\ \A xx \in S : xx < aa => xx <= bb
    BY <2>5, <1>0
  <2>7. ptr[bb] = aa
    <3>1. /\ ptr[bb] \in 0 .. Top /\ ptr[bb] \in S
          /\ \/ bb < ptr[bb] /\ \A xx \in S : xx <= bb \/ ptr[bb] <= xx
             \/ ptr[bb] = 0 /\ \A xx \in S : xx <= bb
      BY <2>6, RingView
    <3>2. bb < ptr[bb] /\ ptr[bb] <= aa
      BY <3>1, <2>3, <2>6
    <3>3. ~(ptr[bb] < aa)
      BY <3>1, <3>2, <2>6
    <3> QED BY <3>1, <3>2, <3>3, <2>3
  <2>8. bb \notin Bad
    BY <2>2, <2>3, <2>6
  <2>9. PICK nn \in 0 .. bb : Heap!walk[nn] = bb
    BY <2>6, <2>8
  <2>10. nn + 1 \in 0 .. Top + 1 /\ nn + 1 \in 0 .. aa /\ nn + 1 # 0 /\ (nn + 1) - 1 = nn
    BY <1>0, <2>3, <2>6
  <2>11. Heap!walk[nn + 1] = aa
    BY <2>7, <2>9, <2>10, WalkIs
  <2> QED BY <2>3, <2>10, <2>11
<1>3. S \subseteq {Heap!walk[nn] : nn \in 0 .. Top + 1}
  <2> SUFFICES ASSUME NEW aa \in S PROVE \E nn \in 0 .. Top + 1 : Heap!walk[nn] = aa
    OBVIOUS
  <2>1. PICK nn \in 0 .. aa : Heap!walk[nn] = aa
    BY <1>2
  <2>2. nn \in 0 .. Top + 1
    BY <1>0
  <2> QED BY <2>1, <2>2
<1>4. \E nn \in 1 .. Top + 1 : Heap!walk[nn] = Heap!base
  <2>1. PICK aa \in S : \A xx \in S : xx <= aa
    <3>1. S \subseteq 0 .. Top
      BY <1>0
    <3> QED BY <3>1, <1>0, Greatest
  <2>2. ptr[aa] = 0
    <3>1. /\ ptr[aa] \in 0 .. Top /\ ptr[aa] \in S /\ aa \in 0 .. Top
          /\ aa < ptr[aa] \/ ptr[aa] = 0
      BY RingView
    <3> QED BY <2>1, <3>1
  <2>3. PICK nn \in 0 .. aa : Heap!walk[nn] = aa
    BY <1>2
  <2>4. nn + 1 \in 1 .. Top + 1 /\ nn + 1 \in 0 .. Top + 1 /\ nn + 1 # 0 /\ (nn + 1) - 1 = nn
    BY <1>0
  <2>5. Heap!walk[nn + 1] = 0
    BY <2>2, <2>3, <2>4, WalkIs
  <2> QED BY <2>4, <2>5, <1>0
<1> QED BY <1>1, <1>3, <1>4

(* What a search from ff has passed when it is at qq.                      *)
PassedBy(ff, qq, aa) == IF ff < qq THEN ff < aa /\ aa < qq ELSE ff < aa \/ aa < qq

\* A search begins behind freep with nothing passed (umalloc.c:74).
LEMMA SearchBegins ==
  ASSUME NEW S, NEW pt, Ring(S, pt), NEW ff \in S
  PROVE  \A aa \in S : ~PassedBy(ff, pt[ff], aa)
<1>1. /\ ff \in 0 .. Top /\ pt[ff] \in 0 .. Top /\ \A xx \in S : xx \in 0 .. Top
      /\ \/ ff < pt[ff] /\ \A xx \in S : xx <= ff \/ pt[ff] <= xx
         \/ pt[ff] = 0 /\ \A xx \in S : xx <= ff
  BY RingView
<1> QED BY <1>1 DEF PassedBy

\* It passes one block at a time (umalloc.c:74).
LEMMA SearchGoesOn ==
  ASSUME NEW S, NEW pt, Ring(S, pt), NEW ff \in S, NEW qq \in S, ff # qq
  PROVE  \A aa \in S : PassedBy(ff, pt[qq], aa) => aa = qq \/ PassedBy(ff, qq, aa)
<1>1. /\ qq \in 0 .. Top /\ pt[qq] \in 0 .. Top /\ \A xx \in S : xx \in 0 .. Top
      /\ \/ qq < pt[qq] /\ \A xx \in S : xx <= qq \/ pt[qq] <= xx
         \/ pt[qq] = 0 /\ \A xx \in S : xx <= qq
  BY RingView
<1> SUFFICES ASSUME NEW aa \in S, PassedBy(ff, pt[qq], aa), aa # qq PROVE PassedBy(ff, qq, aa)
  OBVIOUS
<1>2. ff \in 0 .. Top /\ aa \in 0 .. Top
  BY <1>1
<1>3. CASE ff < qq
  BY <1>1, <1>2, <1>3 DEF PassedBy
<1>4. CASE qq < ff
  BY <1>1, <1>2, <1>4 DEF PassedBy
<1> QED BY <1>1, <1>2, <1>3, <1>4

\* Back at freep it has passed every other block.
LEMMA SearchEnds ==
  ASSUME NEW ff \in Nat, NEW aa \in Nat, aa # ff
  PROVE  PassedBy(ff, ff, aa)
BY DEF PassedBy

(* Who has a block, and that free blocks do not touch.                     *)
Owned ==
  /\ Heap!Had \subseteq Heap!Begins
  /\ pc = "free" => \A bb \in live : bb.at # bp
  /\ \A bb, cc \in live : bb.at = cc.at => bb = cc
  /\ \A bb \in live : size[bb.at] = bb.units /\ (bb.units - 1) * HeaderSize >= bb.nbytes

Apart(S, sz) == \A aa, bb \in S \ {0} : aa + sz[aa] # bb

\* The invariant, taken apart as the lemmas above need it.
LEMMA HeapFacts ==
  ASSUME Heap!IInv
  PROVE  /\ Packed(size, taken, brk) /\ Begin(size) = Heap!Begins /\ Owned
         /\ freep # Null => Ring(Heap!Idle, ptr)
         /\ Apart(Heap!Idle, size)
         /\ Heap!Idle \subseteq Heap!Addrs /\ 0 \in Heap!Idle /\ 0 \in Heap!Addrs
         /\ size \in [Heap!Addrs -> Heap!Addrs] /\ ptr \in [Heap!Addrs -> Heap!Addrs]
         /\ p \in Heap!Addrs /\ prevp \in Heap!Addrs /\ bp \in Heap!Addrs
         /\ \A bb \in live : bb.at \in Heap!Addrs
<1>1. Begin(size) = Heap!Begins
  BY DEF Begin, Heap!Begins
<1>2. size \in [Heap!Addrs -> Heap!Addrs] /\ ptr \in [Heap!Addrs -> Heap!Addrs]
  <2>1. \A aa \in 0 .. Top : aa \in Heap!Addrs
    BY HeapTop
  <2> QED BY <2>1 DEF Heap!IInv, Heap!TypeOK
<1>3. \A hh : hh \in taken <=> \E aa \in Begin(size) : hh \in aa .. aa + size[aa] - 1
  BY <1>1 DEF Heap!IInv, Heap!BlocksInv, Heap!Block
<1>4. brk \in 1 .. Top + 1
  BY DEF Heap!IInv, Heap!TypeOK
<1>5. Packed(size, taken, brk)
  BY <1>1, <1>2, <1>3, <1>4 DEF Heap!IInv, Heap!BlocksInv, Packed
<1>6. Owned
  BY DEF Heap!IInv, Heap!BlocksInv, Owned
<1>7. 0 \in Heap!Addrs
  BY HeapTop
<1>8. Heap!Idle \subseteq Heap!Addrs /\ 0 \in Heap!Idle
  BY <1>7, HeapAddrs DEF Heap!Idle, Heap!Begins
<1>9. freep # Null => Ring(Heap!Idle, ptr)
  BY <1>8, HeapAddrs DEF Heap!IInv, Heap!RingInv, Ring
<1>10. Apart(Heap!Idle, size)
  BY HeapAddrs DEF Heap!IInv, Heap!RingInv, Apart
<1>11. p \in Heap!Addrs /\ prevp \in Heap!Addrs /\ bp \in Heap!Addrs
  BY DEF Heap!IInv, Heap!TypeOK
<1>12. \A bb \in live : bb.at \in Heap!Addrs
  BY DEF Heap!IInv, Heap!TypeOK
<1> QED BY <1>1, <1>2, <1>5, <1>6, <1>7, <1>8, <1>9, <1>10, <1>11, <1>12

\* The invariant, put together again after a step.
LEMMA HeapInvFrom ==
  ASSUME Heap!TypeOK', Packed(size', taken', brk'), Owned',
         freep' # Null => Ring(Heap!Idle', ptr'), Apart(Heap!Idle', size'), Heap!CallInv'
  PROVE  Heap!IInv'
<1>1. Begin(size') = Heap!Begins'
  BY DEF Begin, Heap!Begins
<1>2. taken' = UNION {Heap!Block(aa, size'[aa]) : aa \in Heap!Begins'}
  BY <1>1 DEF Packed, Heap!Block
<1>3. Heap!BlocksInv'
  BY <1>1, <1>2 DEF Packed, Owned, Heap!BlocksInv
<1>4. Heap!RingInv'
  BY HeapAddrs DEF Ring, Apart, Heap!RingInv
<1> QED BY <1>3, <1>4 DEF Heap!IInv

\* The blocks stay what they are, and so do those that somebody has.
LEMMA BlocksStill ==
  ASSUME Heap!IInv, size' = size, taken' = taken, brk' \in brk .. Top + 1, Heap!Had' = Heap!Had,
         Owned', freep' # Null => Ring(Heap!Idle, ptr'), Heap!TypeOK', Heap!CallInv'
  PROVE  Heap!IInv'
<1>1. Heap!Begins' = Heap!Begins
  BY DEF Heap!Begins
<1>2. Heap!Idle' = Heap!Idle
  BY <1>1 DEF Heap!Idle
<1>3. Packed(size', taken', brk')
  <2>1. Packed(size, taken, brk)
    BY HeapFacts
  <2>2. brk \in 1 .. Top + 1 /\ brk' \in 1 .. Top + 1 /\ brk <= brk' /\ Top \in Nat
    BY <2>1, HeapTop DEF Packed
  <2>3. \A aa \in Begin(size) : aa \in 0 .. Top /\ size[aa] \in 0 .. Top /\ aa + size[aa] <= brk
    <3> TAKE aa \in Begin(size)
    <3>1. aa \in Heap!Addrs /\ size[aa] \in Heap!Addrs
      BY <2>1 DEF Packed, Begin
    <3> QED BY <3>1, <2>1, HeapTop DEF Packed
  <2>4. \A aa \in Begin(size) : aa + size[aa] <= brk'
    BY <2>2, <2>3
  <2> QED BY <2>1, <2>2, <2>4 DEF Packed
<1>4. Apart(Heap!Idle', size')
  BY <1>2, HeapFacts
<1> QED BY <1>2, <1>3, <1>4, HeapInvFrom

\* malloc before its search.
LEMMA MallocKeeps ==
  ASSUME Heap!IInv, NEW n \in Lens, Heap!Malloc(n)
  PROVE  Heap!IInv'
<1>1. /\ pc = "idle" /\ pc' = "search" /\ nbytes' = n /\ prevp' = freep' /\ p' = ptr'[freep']
      /\ UNCHANGED <<size, brk, live, taken, bp, caller>>
  BY DEF Heap!Malloc
<1>2. Heap!Had' = Heap!Had /\ Heap!Begins' = Heap!Begins
  BY <1>1 DEF Heap!Had, Heap!Begins
<1>3. Heap!Idle' = Heap!Idle
  BY <1>2 DEF Heap!Idle
<1>4. ptr' \in [Heap!Addrs -> Heap!Addrs] /\ freep' \in Heap!Idle /\ freep' # Null /\ Ring(Heap!Idle, ptr')
  <2>1. CASE freep = Null
    <3>1. freep' = 0 /\ ptr' = [ptr EXCEPT ![0] = 0]
      BY <2>1, HeapAddrs DEF Heap!Malloc
    <3>2. Heap!Idle = {0}
      BY <2>1, HeapAddrs DEF Heap!IInv, Heap!CallInv, Heap!Idle
    <3>3. ptr' \in [Heap!Addrs -> Heap!Addrs] /\ ptr'[0] = 0
      BY <3>1, HeapFacts
    <3>4. Ring({0}, ptr')
      <4>1. Heap!Successor({0}, 0, 0)
        BY HeapAddrs DEF Heap!Successor
      <4> QED BY <4>1, <3>3, HeapAddrs, HeapFacts DEF Ring
    <3>5. 0 # Null
      BY HeapConstants
    <3> QED BY <3>1, <3>2, <3>3, <3>4, <3>5
  <2>2. CASE freep # Null
    <3>1. UNCHANGED <<ptr, freep>>
      BY <2>2 DEF Heap!Malloc
    <3> QED BY <3>1, <2>2, HeapFacts DEF Heap!IInv, Heap!CallInv
  <2> QED BY <2>1, <2>2
<1>5. p' \in Heap!Idle /\ p' = ptr'[freep'] /\ prevp' \in Heap!Idle
  BY <1>1, <1>4 DEF Ring
<1>6. Heap!TypeOK'
  <2>1. Heap!Idle \subseteq Heap!Addrs
    BY HeapFacts
  <2>2. nbytes' \in Nat
    BY <1>1, HeapConstants
  <2> QED BY <1>1, <1>4, <1>5, <2>1, <2>2 DEF Heap!IInv, Heap!TypeOK
<1>7. Owned'
  <2>1. Owned
    BY HeapFacts
  <2> QED BY <1>1, <1>2, <2>1 DEF Owned
<1>8. Heap!CallInv'
  <2>1. \A aa \in Heap!Idle : ~PassedBy(freep', p', aa)
    BY <1>4, <1>5, SearchBegins
  <2>2. \A aa \in Heap!Idle' : ~Heap!Passed(aa)'
    BY <1>3, <2>1 DEF Heap!Passed, PassedBy
  <2> QED BY <1>1, <1>3, <1>4, <1>5, <2>2 DEF Heap!CallInv
<1>9. brk' \in brk .. Top + 1
  BY <1>1, HeapTop DEF Heap!IInv, Heap!TypeOK
<1> QED BY <1>1, <1>2, <1>4, <1>6, <1>7, <1>8, <1>9, BlocksStill

\* One step along the list.
LEMMA NextBlockKeeps ==
  ASSUME Heap!IInv, Heap!NextBlock
  PROVE  Heap!IInv'
<1>1. /\ pc = "search" /\ size[p] < Heap!nunits /\ p # freep /\ prevp' = p /\ p' = ptr[p]
      /\ UNCHANGED <<ptr, size, freep, brk, live, taken, pc, nbytes, bp, caller>>
  BY DEF Heap!NextBlock, Heap!AtEnd
<1>2. Heap!Had' = Heap!Had /\ Heap!Begins' = Heap!Begins
  BY <1>1 DEF Heap!Had, Heap!Begins
<1>3. Heap!Idle' = Heap!Idle
  BY <1>2 DEF Heap!Idle
<1>4. freep # Null /\ freep \in Heap!Idle /\ p \in Heap!Idle
  BY <1>1 DEF Heap!IInv, Heap!CallInv
<1>5. Ring(Heap!Idle, ptr) /\ p' \in Heap!Idle
  BY <1>1, <1>4, HeapFacts DEF Ring
<1>6. Heap!TypeOK'
  <2>1. Heap!Idle \subseteq Heap!Addrs
    BY HeapFacts
  <2> QED BY <1>1, <1>4, <1>5, <2>1 DEF Heap!IInv, Heap!TypeOK
<1>7. Owned'
  <2>1. Owned
    BY HeapFacts
  <2> QED BY <1>1, <1>2, <2>1 DEF Owned
<1>8. Heap!CallInv'
  <2>1. \A aa \in Heap!Idle : PassedBy(freep, p', aa) => aa = p \/ PassedBy(freep, p, aa)
    BY <1>1, <1>4, <1>5, SearchGoesOn
  <2>2. Heap!nunits' = Heap!nunits
    BY <1>1 DEF Heap!nunits
  <2>3. \A aa \in Heap!Idle : PassedBy(freep, p, aa) => size[aa] < Heap!nunits
    BY <1>1 DEF Heap!IInv, Heap!CallInv, Heap!Passed, PassedBy
  <2>4. \A aa \in Heap!Idle' : Heap!Passed(aa)' => size'[aa] < Heap!nunits'
    BY <1>1, <1>3, <2>1, <2>2, <2>3 DEF Heap!Passed, PassedBy
  <2> QED BY <1>1, <1>3, <1>4, <1>5, <2>4 DEF Heap!IInv, Heap!CallInv
<1>9. brk' \in brk .. Top + 1
  BY <1>1, HeapTop DEF Heap!IInv, Heap!TypeOK
<1> QED BY <1>1, <1>2, <1>5, <1>6, <1>7, <1>8, <1>9, BlocksStill

\* malloc has not found a block and gets none from sbrk.
LEMMA NoMoreKeeps ==
  ASSUME Heap!IInv, Heap!NoMore
  PROVE  Heap!IInv'
<1>1. /\ pc = "search" /\ pc' = "idle" /\ nbytes' = 0 /\ caller' = "program"
      /\ p' = 0 /\ prevp' = 0 /\ bp' = 0
      /\ UNCHANGED <<ptr, size, freep, brk, live, taken>>
  BY HeapAddrs DEF Heap!NoMore, Heap!Leave
<1>2. Heap!Had' = Heap!Had /\ Heap!Begins' = Heap!Begins
  BY <1>1 DEF Heap!Had, Heap!Begins
<1>3. Heap!Idle' = Heap!Idle
  BY <1>2 DEF Heap!Idle
<1>4. freep # Null /\ freep \in Heap!Idle /\ Ring(Heap!Idle, ptr)
  BY <1>1, HeapFacts DEF Heap!IInv, Heap!CallInv
<1>5. Heap!TypeOK'
  BY <1>1, HeapFacts DEF Heap!IInv, Heap!TypeOK
<1>6. Owned'
  <2>1. Owned
    BY HeapFacts
  <2> QED BY <1>1, <1>2, <2>1 DEF Owned
<1>7. Heap!CallInv'
  BY <1>1, <1>3, <1>4 DEF Heap!CallInv
<1>8. brk' \in brk .. Top + 1
  BY <1>1, HeapTop DEF Heap!IInv, Heap!TypeOK
<1> QED BY <1>1, <1>2, <1>4, <1>5, <1>6, <1>7, <1>8, BlocksStill

\* The program gives a block back: it passes from the program to free.
LEMMA FreeKeeps ==
  ASSUME Heap!IInv, NEW bb \in live, Heap!Free(bb)
  PROVE  Heap!IInv'
<1>1. /\ pc = "idle" /\ pc' = "free" /\ live' = live \ {bb} /\ bp' = bb.at /\ p' = freep
      /\ UNCHANGED <<ptr, size, freep, brk, taken, nbytes, prevp, caller>>
  BY DEF Heap!Free
<1>2. Owned
  BY HeapFacts
<1>3. \A cc \in live : cc.at = bb.at => cc = bb
  BY <1>2 DEF Owned
<1>4. Heap!Had' = Heap!Had /\ Heap!Begins' = Heap!Begins
  BY <1>1, <1>3 DEF Heap!Had, Heap!Begins
<1>5. Heap!Idle' = Heap!Idle
  BY <1>4 DEF Heap!Idle
<1>6. freep # Null /\ freep \in Heap!Idle /\ Ring(Heap!Idle, ptr)
  BY HeapFacts DEF Heap!IInv, Heap!CallInv
<1>7. Heap!TypeOK'
  <2>1. freep \in Heap!Addrs /\ bb.at \in Heap!Addrs
    BY <1>6, HeapFacts
  <2> QED BY <1>1, <2>1 DEF Heap!IInv, Heap!TypeOK
<1>8. Owned'
  BY <1>1, <1>2, <1>3, <1>4 DEF Owned
<1>9. Heap!CallInv'
  BY <1>1, <1>5, <1>6 DEF Heap!IInv, Heap!CallInv
<1>10. brk' \in brk .. Top + 1
  BY <1>1, HeapTop DEF Heap!IInv, Heap!TypeOK
<1> QED BY <1>1, <1>4, <1>6, <1>7, <1>8, <1>9, <1>10, BlocksStill

\* One step of free towards the place of bp (umalloc.c:30-32).
LEMMA FreeNextKeeps ==
  ASSUME Heap!IInv, Heap!FreeNext
  PROVE  Heap!IInv'
<1>1. /\ pc = "free" /\ p' = ptr[p]
      /\ UNCHANGED <<ptr, size, freep, brk, live, taken, pc, nbytes, prevp, bp, caller>>
  BY DEF Heap!FreeNext
<1>2. Heap!Had' = Heap!Had /\ Heap!Begins' = Heap!Begins
  BY <1>1 DEF Heap!Had, Heap!Begins
<1>3. Heap!Idle' = Heap!Idle
  BY <1>2 DEF Heap!Idle
<1>4. freep # Null /\ freep \in Heap!Idle /\ p \in Heap!Idle
  BY <1>1 DEF Heap!IInv, Heap!CallInv
<1>5. Ring(Heap!Idle, ptr) /\ p' \in Heap!Idle
  BY <1>1, <1>4, HeapFacts DEF Ring
<1>6. Heap!TypeOK'
  <2>1. Heap!Idle \subseteq Heap!Addrs
    BY HeapFacts
  <2> QED BY <1>1, <1>5, <2>1 DEF Heap!IInv, Heap!TypeOK
<1>7. Owned'
  <2>1. Owned
    BY HeapFacts
  <2> QED BY <1>1, <1>2, <2>1 DEF Owned
<1>8. Heap!CallInv'
  BY <1>1, <1>3, <1>4, <1>5 DEF Heap!IInv, Heap!CallInv
<1>9. brk' \in brk .. Top + 1
  BY <1>1, HeapTop DEF Heap!IInv, Heap!TypeOK
<1> QED BY <1>1, <1>2, <1>5, <1>6, <1>7, <1>8, <1>9, BlocksStill

\* The program moves the break itself.
LEMMA SbrkKeeps ==
  ASSUME Heap!IInv, NEW n \in Gaps, Heap!Sbrk(n)
  PROVE  Heap!IInv'
<1>1. /\ pc = "idle" /\ brk + n <= Top /\ brk' = brk + n
      /\ UNCHANGED <<ptr, size, freep, live, taken, pc, nbytes, p, prevp, bp, caller>>
  BY DEF Heap!Sbrk
<1>2. brk \in 1 .. Top + 1 /\ n \in Nat \ {0}
  BY HeapConstants DEF Heap!IInv, Heap!TypeOK
<1>3. brk' \in brk .. Top + 1 /\ brk' \in 1 .. Top + 1
  BY <1>1, <1>2, HeapTop
<1>4. Heap!Had' = Heap!Had /\ Heap!Begins' = Heap!Begins
  BY <1>1 DEF Heap!Had, Heap!Begins
<1>5. Heap!Idle' = Heap!Idle
  BY <1>4 DEF Heap!Idle
<1>6. Heap!TypeOK'
  BY <1>1, <1>3 DEF Heap!IInv, Heap!TypeOK
<1>7. Owned'
  <2>1. Owned
    BY HeapFacts
  <2> QED BY <1>1, <1>4, <2>1 DEF Owned
<1>8. Heap!CallInv'
  BY <1>1, <1>4, <1>5 DEF Heap!IInv, Heap!CallInv
<1>9. freep' # Null => Ring(Heap!Idle, ptr')
  BY <1>1, HeapFacts
<1> QED BY <1>1, <1>3, <1>4, <1>6, <1>7, <1>8, <1>9, BlocksStill

\* A search has a block before it, and one that is large enough is no base.
LEMMA InSearch ==
  ASSUME Heap!IInv, pc = "search"
  PROVE  /\ freep # Null /\ freep \in Heap!Idle /\ p \in Heap!Idle
         /\ prevp \in Heap!Idle /\ ptr[prevp] = p /\ Ring(Heap!Idle, ptr)
         /\ Heap!nunits \in Nat \ {0} /\ (Heap!nunits - 1) * HeaderSize >= nbytes /\ nbytes \in Lens
         /\ Heap!Had = {bb.at : bb \in live}
         /\ size[p] \in 0 .. Top
         /\ size[p] >= Heap!nunits => p # 0 /\ p \in Heap!Begins /\ p \notin Heap!Had /\ Heap!nunits \in 1 .. Top
<1>1. /\ freep # Null /\ freep \in Heap!Idle /\ p \in Heap!Idle
      /\ prevp \in Heap!Idle /\ ptr[prevp] = p /\ Ring(Heap!Idle, ptr) /\ nbytes \in Lens
  BY HeapFacts DEF Heap!IInv, Heap!CallInv
<1>2. Heap!nunits \in Nat \ {0} /\ (Heap!nunits - 1) * HeaderSize >= nbytes
  BY EnoughUnits DEF Heap!IInv, Heap!TypeOK
<1>3. Heap!Had = {bb.at : bb \in live}
  BY DEF Heap!Had
<1>4. size[p] \in 0 .. Top /\ Top \in Nat
  BY HeapFacts, HeapTop
<1>5. ASSUME size[p] >= Heap!nunits
      PROVE  p # 0 /\ p \in Heap!Begins /\ p \notin Heap!Had /\ Heap!nunits \in 1 .. Top
  <2>1. size[p] > 0 /\ Heap!nunits \in 1 .. Top
    BY <1>2, <1>4, <1>5
  <2>2. p \in Heap!Begins
    BY <2>1, HeapFacts DEF Heap!Begins
  <2>3. p # 0
    BY <2>2, HeapAddrs DEF Heap!IInv, Heap!BlocksInv
  <2> QED BY <1>1, <2>1, <2>2, <2>3, HeapAddrs DEF Heap!Idle
<1> QED BY <1>1, <1>2, <1>3, <1>4, <1>5

\* One more block is somebody's.
LEMMA HadGrows ==
  ASSUME NEW aa, NEW rr, rr.at = aa, pc = "search", pc' = "idle", live' = live \cup {rr}
  PROVE  Heap!Had' = Heap!Had \cup {aa}
<1>1. Heap!Had = {bb.at : bb \in live} /\ Heap!Had' = {bb.at : bb \in live'}
  BY DEF Heap!Had
<1>2. \A bb \in live' : bb \in live \/ bb = rr
  OBVIOUS
<1>3. {bb.at : bb \in live'} = {bb.at : bb \in live} \cup {aa}
  BY <1>2
<1> QED BY <1>1, <1>3

\* The block malloc returns is now the program's.
LEMMA HadReturned ==
  ASSUME NEW aa, pc = "search", Heap!Returned(aa), Heap!Leave
  PROVE  Heap!Had' = Heap!Had \cup {aa}
<1> DEFINE rr == [at |-> aa, units |-> Heap!nunits, nbytes |-> nbytes]
<1>1. rr.at = aa
  OBVIOUS
<1>2. live' = live \cup {rr} /\ pc' = "idle"
  BY DEF Heap!Returned, Heap!Leave
<1> HIDE DEF rr
<1> QED BY <1>1, <1>2, HadGrows

\* The program gets a block that begins at aa.
LEMMA Returns ==
  ASSUME Heap!IInv, pc = "search", NEW aa \in Heap!Addrs, aa \notin Heap!Had, Heap!Returned(aa),
         Heap!Leave, Heap!nunits \in 1 .. Top, size' \in [Heap!Addrs -> Heap!Addrs],
         size'[aa] = Heap!nunits, \A xx \in Heap!Had : size'[xx] = size[xx],
         Heap!Begins \cup {aa} \subseteq Heap!Begins',
         freep' \in Heap!Idle', freep' # Null, taken' = taken, brk' = brk, ptr' \in [Heap!Addrs -> Heap!Addrs]
  PROVE  Heap!Had' = Heap!Had \cup {aa} /\ Owned' /\ Heap!TypeOK' /\ Heap!CallInv'
<1>1. /\ pc' = "idle" /\ nbytes' = 0 /\ caller' = "program" /\ p' = 0 /\ prevp' = 0 /\ bp' = 0
      /\ live' = live \cup {[at |-> aa, units |-> Heap!nunits, nbytes |-> nbytes]}
  BY HeapAddrs DEF Heap!Leave, Heap!Returned
<1>2. Heap!Had = {bb.at : bb \in live} /\ nbytes \in Lens /\ (Heap!nunits - 1) * HeaderSize >= nbytes
  BY InSearch
<1>3. Heap!Had' = Heap!Had \cup {aa}
  BY HadReturned
<1>4. Owned'
  <2> DEFINE rr == [at |-> aa, units |-> Heap!nunits, nbytes |-> nbytes]
  <2>1. rr.at = aa /\ rr.units = Heap!nunits /\ rr.nbytes = nbytes /\ live' = live \cup {rr}
    BY <1>1
  <2>2. Owned
    BY HeapFacts
  <2> HIDE DEF rr
  <2>3. Heap!Had' \subseteq Heap!Begins'
    BY <1>3, <2>2 DEF Owned
  <2>4. \A bb, cc \in live' : bb.at = cc.at => bb = cc
    BY <1>2, <2>1, <2>2 DEF Owned
  <2>5. \A bb \in live' : size'[bb.at] = bb.units /\ (bb.units - 1) * HeaderSize >= bb.nbytes
    <3> SUFFICES ASSUME NEW bb \in live'
                 PROVE  size'[bb.at] = bb.units /\ (bb.units - 1) * HeaderSize >= bb.nbytes
      OBVIOUS
    <3>1. CASE bb \in live
      BY <3>1, <1>2, <2>2 DEF Owned
    <3>2. CASE bb = rr
      BY <3>2, <1>2, <2>1
    <3> QED BY <3>1, <3>2, <2>1
  <2> QED BY <1>1, <2>3, <2>4, <2>5 DEF Owned
<1>5. Heap!TypeOK'
  <2>1. live' \subseteq [at : Heap!Addrs, units : 1 .. Top, nbytes : Lens]
    BY <1>1, <1>2 DEF Heap!IInv, Heap!TypeOK
  <2>2. size' \in [Heap!Addrs -> 0 .. Top]
    BY HeapTop
  <2>3. freep' \in Heap!Addrs
    BY HeapAddrs, HeapFacts DEF Heap!Idle, Heap!Begins
  <2> QED BY <1>1, <2>1, <2>2, <2>3, HeapFacts DEF Heap!IInv, Heap!TypeOK
<1>6. Heap!CallInv'
  BY <1>1 DEF Heap!CallInv
<1> QED BY <1>3, <1>4, <1>5, <1>6

\* malloc gives a whole block.
LEMMA TakeWholeKeeps ==
  ASSUME Heap!IInv, Heap!TakeWhole
  PROVE  Heap!IInv'
<1>1. /\ pc = "search" /\ size[p] = Heap!nunits /\ ptr' = [ptr EXCEPT ![prevp] = ptr[p], ![p] = 0]
      /\ freep' = prevp /\ Heap!Returned(p) /\ Heap!Leave /\ UNCHANGED <<size, brk, taken>>
  BY HeapAddrs DEF Heap!TakeWhole
<1>2. /\ p \in Heap!Idle /\ prevp \in Heap!Idle /\ ptr[prevp] = p /\ Ring(Heap!Idle, ptr)
      /\ Heap!nunits \in 1 .. Top /\ p # 0 /\ p \in Heap!Begins /\ p \notin Heap!Had
  <2>1. size[p] >= Heap!nunits
    BY <1>1, InSearch
  <2> QED BY <1>1, <2>1, InSearch
<1>3. p # prevp /\ ptr' \in [Heap!Addrs -> Heap!Addrs] /\ Ring(Heap!Idle \ {p}, ptr')
  <2>1. p # prevp
    BY <1>2, RingOnce
  <2>2. p \in Heap!Addrs /\ prevp \in Heap!Addrs /\ ptr \in [Heap!Addrs -> Heap!Addrs] /\ 0 \in Heap!Addrs
    BY HeapFacts
  <2>3. ptr' \in [Heap!Addrs -> Heap!Addrs] /\ ptr'[prevp] = ptr[p]
    BY <1>1, <2>1, <2>2
  <2>4. \A xx \in Heap!Idle : xx # prevp /\ xx # p => ptr'[xx] = ptr[xx]
    BY <1>1, <2>2, HeapFacts
  <2>5. Drops(Heap!Idle, ptr, prevp, p, ptr')
    BY <1>2, <2>3, <2>4 DEF Drops
  <2> QED BY <1>2, <2>1, <2>3, <2>5, RingDrop
<1>4. Heap!Begins' = Heap!Begins
  BY <1>1 DEF Heap!Begins
<1>5. Heap!Had' = Heap!Had \cup {p} => Heap!Idle' = Heap!Idle \ {p}
  BY <1>2, <1>4, HeapAddrs DEF Heap!Idle
<1>6. Heap!Had' = Heap!Had \cup {p}
  BY <1>1, HadReturned
<1>7. freep' \in Heap!Idle' /\ freep' # Null
  <2>1. prevp # Null
    BY HeapFacts, HeapTop, HeapConstants
  <2> QED BY <1>1, <1>2, <1>3, <1>5, <1>6, <2>1
<1>8. Owned' /\ Heap!TypeOK' /\ Heap!CallInv'
  BY <1>1, <1>2, <1>3, <1>4, <1>7, HeapFacts, Returns
<1>9. Packed(size', taken', brk')
  BY <1>1, HeapFacts
<1>10. Apart(Heap!Idle', size')
  <2>1. Apart(Heap!Idle, size)
    BY HeapFacts
  <2> QED BY <1>1, <1>5, <1>6, <2>1 DEF Apart
<1> QED BY <1>3, <1>5, <1>6, <1>8, <1>9, <1>10, HeapInvFrom

\* malloc gives the tail of a larger block.
LEMMA TakeTailKeeps ==
  ASSUME Heap!IInv, Heap!TakeTail
  PROVE  Heap!IInv'
<1> DEFINE tail == p + (size[p] - Heap!nunits)
<1>1. /\ pc = "search" /\ size[p] > Heap!nunits
      /\ size' = [size EXCEPT ![p] = size[p] - Heap!nunits, ![tail] = Heap!nunits]
      /\ freep' = prevp /\ Heap!Returned(tail) /\ Heap!Leave /\ UNCHANGED <<ptr, brk, taken>>
  BY DEF Heap!TakeTail
<1>2. /\ p \in Heap!Idle /\ prevp \in Heap!Idle /\ Ring(Heap!Idle, ptr)
      /\ Heap!nunits \in 1 .. Top /\ p # 0 /\ p \in Heap!Begins /\ p \notin Heap!Had
      /\ Heap!nunits \in Nat \ {0} /\ size[p] \in 0 .. Top
  <2>1. size[p] >= Heap!nunits
    BY <1>1, InSearch
  <2> QED BY <1>1, <2>1, InSearch
<1>3. /\ Packed(size, taken, brk) /\ Begin(size) = Heap!Begins /\ size \in [Heap!Addrs -> Heap!Addrs]
      /\ Owned /\ p \in Heap!Addrs /\ Apart(Heap!Idle, size)
  BY HeapFacts
<1> HIDE DEF tail
<1>4. /\ Packed(size', taken, brk) /\ Begin(size') = Begin(size) \cup {tail}
      /\ tail \in Heap!Addrs \ Begin(size)
  <2>1. Heap!nunits < size[p]
    BY <1>1, <1>2
  <2>2. p \in Begin(size)
    BY <1>2, <1>3
  <2>3. tail = p + (size[p] - Heap!nunits)
    BY DEF tail
  <2>4. PICK nn \in Nat \ {0} : nn = Heap!nunits
    BY <1>2
  <2>5. /\ size' = [size EXCEPT ![p] = size[p] - nn, ![tail] = nn] /\ tail = p + (size[p] - nn) /\ nn < size[p]
    BY <1>1, <2>1, <2>3, <2>4
  <2>6. Packed(size, taken, brk) /\ Splits(size, p, nn, tail, size')
    BY <1>3, <2>2, <2>5 DEF Splits
  <2> QED BY <2>6, Split
<1>5. Heap!Begins' = Heap!Begins \cup {tail} /\ tail \notin Heap!Begins /\ tail \in Heap!Addrs
  BY <1>3, <1>4 DEF Begin, Heap!Begins
<1>6. tail \notin Heap!Had /\ tail # p
  BY <1>2, <1>3, <1>5 DEF Owned
<1>7. /\ size'[tail] = Heap!nunits /\ size'[p] = size[p] - Heap!nunits
      /\ \A xx \in Heap!Addrs : xx # p /\ xx # tail => size'[xx] = size[xx]
  BY <1>1, <1>3, <1>5, <1>6
<1>8. Heap!Had' = Heap!Had \cup {tail}
  BY <1>1, HadReturned
<1>9. Heap!Idle' = Heap!Idle
  BY <1>5, <1>6, <1>8, HeapAddrs, HeapFacts DEF Heap!Idle
<1>10. freep' \in Heap!Idle' /\ freep' # Null
  <2>1. prevp # Null
    BY HeapFacts, HeapTop, HeapConstants
  <2> QED BY <1>1, <1>2, <1>9, <2>1
<1>11. Owned' /\ Heap!TypeOK' /\ Heap!CallInv'
  <2>1. \A xx \in Heap!Had : size'[xx] = size[xx]
    BY <1>2, <1>3, <1>6, <1>7 DEF Owned, Heap!Begins
  <2>2. size' \in [Heap!Addrs -> Heap!Addrs] /\ ptr' \in [Heap!Addrs -> Heap!Addrs]
    BY <1>1, <1>4, HeapFacts DEF Packed
  <2> QED BY <1>1, <1>2, <1>5, <1>6, <1>7, <1>10, <2>1, <2>2, Returns
<1>12. Apart(Heap!Idle', size')
  <2> SUFFICES ASSUME NEW aa \in Heap!Idle, NEW bb \in Heap!Idle, aa # 0, bb # 0
               PROVE  aa + size'[aa] # bb
    BY <1>9 DEF Apart
  <2>1. tail \notin Heap!Idle
    <3>1. tail # 0
      <4>1. p \in 0 .. Top /\ size[p] - Heap!nunits > 0 /\ size[p] - Heap!nunits \in Int
        BY <1>1, <1>2, <1>3, HeapTop
      <4> QED BY <4>1 DEF tail
    <3> QED BY <3>1, <1>5, HeapAddrs DEF Heap!Idle
  <2>2. CASE aa = p
    <3>1. p + size'[p] = tail
      BY <1>7 DEF tail
    <3> QED BY <3>1, <2>1, <2>2
  <2>3. CASE aa # p
    <3>1. size'[aa] = size[aa]
      BY <2>1, <2>3, <1>7, HeapFacts
    <3> QED BY <3>1, <1>3 DEF Apart
  <2> QED BY <2>2, <2>3
<1>13. Packed(size', taken', brk') /\ Ring(Heap!Idle', ptr')
  BY <1>1, <1>2, <1>4, <1>9
<1> QED BY <1>11, <1>12, <1>13, HeapInvFrom

\* sbrk has given morecore a block, which free is to put on the list.
LEMMA MorecoreKeeps ==
  ASSUME Heap!IInv, Heap!Morecore
  PROVE  Heap!IInv'
<1>1. /\ pc = "search" /\ pc' = "free" /\ brk + Heap!nu - 1 <= Top
      /\ brk' = brk + Heap!nu /\ taken' = taken \cup (brk .. brk + Heap!nu - 1)
      /\ size' = [size EXCEPT ![brk] = Heap!nu] /\ bp' = brk /\ caller' = "malloc" /\ p' = freep
      /\ UNCHANGED <<ptr, freep, live, nbytes, prevp>>
  BY DEF Heap!Morecore
<1>2. Heap!nu \in Nat \ {0}
  BY <1>1, InSearch, HeapConstants DEF Heap!nu
<1>3. /\ freep # Null /\ freep \in Heap!Idle /\ Ring(Heap!Idle, ptr) /\ nbytes \in Lens
      /\ Heap!Had = {bb.at : bb \in live}
  BY <1>1, InSearch
<1>4. /\ Packed(size, taken, brk) /\ Begin(size) = Heap!Begins /\ size \in [Heap!Addrs -> Heap!Addrs]
      /\ Owned /\ Apart(Heap!Idle, size) /\ Heap!Idle \subseteq Heap!Addrs
  BY HeapFacts
<1>5. /\ Packed(size', taken', brk') /\ Begin(size') = Begin(size) \cup {brk}
      /\ brk \in Heap!Addrs \ Begin(size)
  BY <1>1, <1>2, <1>4, Grown
<1>6. Heap!Begins' = Heap!Begins \cup {brk} /\ brk \notin Heap!Begins /\ brk \in Heap!Addrs /\ brk # 0
  <2>1. brk # 0
    BY <1>4 DEF Packed
  <2> QED BY <1>4, <1>5, <2>1 DEF Begin, Heap!Begins
<1>7. Heap!Had' = Heap!Had \cup {brk} /\ brk \notin Heap!Had
  <2>1. brk \notin Heap!Had
    BY <1>4, <1>6 DEF Owned
  <2> QED BY <1>1, <1>3, <2>1 DEF Heap!Had
<1>8. Heap!Idle' = Heap!Idle /\ brk \notin Heap!Idle
  BY <1>4, <1>6, <1>7, HeapAddrs DEF Heap!Idle
<1>9. \A xx \in Heap!Addrs : xx # brk => size'[xx] = size[xx]
  BY <1>1, <1>4
<1>10. Owned'
  <2>1. Heap!Had' \subseteq Heap!Begins'
    BY <1>4, <1>6, <1>7 DEF Owned
  <2>2. \A bb \in live' : bb.at # bp' /\ size'[bb.at] = size[bb.at]
    BY <1>1, <1>3, <1>7, <1>9, HeapFacts
  <2> QED BY <1>1, <1>4, <2>1, <2>2 DEF Owned
<1>11. Heap!TypeOK'
  <2>1. size' \in [Heap!Addrs -> 0 .. Top]
    BY <1>5, HeapTop DEF Packed
  <2>2. taken' \subseteq Heap!Addrs
    <3>1. brk .. brk + Heap!nu - 1 \subseteq Heap!Addrs
      <4>1. brk \in 1 .. Top + 1
        BY <1>4 DEF Packed
      <4> QED BY <4>1, <1>1, <1>2, HeapTop
    <3> QED BY <3>1, <1>1 DEF Heap!IInv, Heap!TypeOK
  <2>3. brk' \in 1 .. Top + 1
    BY <1>5 DEF Packed
  <2>4. freep \in Heap!Addrs
    BY <1>3, <1>4
  <2> QED BY <1>1, <1>6, <2>1, <2>2, <2>3, <2>4 DEF Heap!IInv, Heap!TypeOK
<1>12. Heap!CallInv'
  BY <1>1, <1>3, <1>8 DEF Heap!CallInv
<1>13. Apart(Heap!Idle', size')
  BY <1>4, <1>8, <1>9 DEF Apart
<1> QED BY <1>1, <1>3, <1>5, <1>8, <1>10, <1>11, <1>12, <1>13, HeapInvFrom

LiveAts == {bb.at : bb \in live}

\* free has found the block before bp (umalloc.c:30-32).
LEMMA InFree ==
  ASSUME Heap!IInv, Heap!FreeLink
  PROVE  /\ pc = "free" /\ freep # Null /\ Ring(Heap!Idle, ptr) /\ p \in Heap!Idle
         /\ bp \in Heap!Begins /\ bp \notin Heap!Idle /\ bp \notin LiveAts /\ bp # 0
         /\ p < bp /\ (bp < ptr[p] \/ ptr[p] = 0)
         /\ Heap!Begins = LiveAts \cup ((Heap!Idle \cup {bp}) \ {0})
         /\ LiveAts \cap (Heap!Idle \cup {bp}) = {} /\ LiveAts \subseteq Heap!Begins
<1>1. pc = "free"
  BY DEF Heap!FreeLink
<1>2. freep # Null /\ Ring(Heap!Idle, ptr) /\ p \in Heap!Idle
  BY <1>1, HeapFacts DEF Heap!IInv, Heap!CallInv
<1>3. Heap!Had = LiveAts \cup {bp} /\ Heap!Had \subseteq Heap!Begins /\ bp \notin LiveAts /\ 0 \notin Heap!Begins
  BY <1>1, HeapFacts, HeapAddrs DEF Heap!Had, LiveAts, Owned, Heap!IInv, Heap!BlocksInv
<1>4. p < bp /\ (bp < ptr[p] \/ ptr[p] = 0)
  <2>1. /\ p \in 0 .. Top /\ ptr[p] \in 0 .. Top /\ 0 \in Heap!Idle
        /\ \/ p < ptr[p] /\ \A xx \in Heap!Idle : xx <= p \/ ptr[p] <= xx
           \/ ptr[p] = 0 /\ \A xx \in Heap!Idle : xx <= p
    BY <1>2, RingView
  <2>2. bp \in 0 .. Top /\ Top \in Nat
    BY HeapFacts, HeapTop
  <2>3. CASE Heap!Between
    BY <2>3 DEF Heap!Between
  <2>4. CASE Heap!Outside
    BY <2>1, <2>2, <2>4 DEF Heap!Outside
  <2> QED BY <2>3, <2>4 DEF Heap!FreeLink
<1>5. Heap!Idle = {0} \cup (Heap!Begins \ Heap!Had)
  BY HeapAddrs DEF Heap!Idle
<1> QED BY <1>1, <1>2, <1>3, <1>4, <1>5

(* Halfway: bp is on the circle S with sizes s1; of the fields q1 only p's *)
(* is still to be set as on the circle, and only p may touch bp.           *)
Linked(S, s1, q1, qs) ==
  /\ Packed(s1, taken, brk) /\ Begin(s1) = LiveAts \cup (S \ {0})
  /\ Ring(S, qs) /\ p \in S /\ bp \in S /\ qs[p] = bp
  /\ q1 \in [Heap!Addrs -> Heap!Addrs] /\ \A xx \in S : xx # p => q1[xx] = qs[xx]
  /\ \A xx \in LiveAts : xx \notin S /\ s1[xx] = size[xx]
  /\ \A aa, bb \in S \ {0} : aa + s1[aa] = bb => aa = p /\ bb = bp

\* bp is on the circle.
LEMMA Inserted ==
  ASSUME Heap!IInv, Heap!FreeLink,
         NEW qs, qs = [ptr EXCEPT ![p] = bp, ![bp] = ptr[p]]
  PROVE  /\ Ring(Heap!Idle \cup {bp}, qs) /\ qs[p] = bp /\ qs[bp] = ptr[p]
         /\ \A xx \in Heap!Addrs : xx # p /\ xx # bp => qs[xx] = ptr[xx]
<1>1. bp \in Heap!Addrs /\ p \in Heap!Addrs /\ p # bp /\ ptr \in [Heap!Addrs -> Heap!Addrs]
  BY InFree, HeapFacts
<1>2. /\ qs[p] = bp /\ qs[bp] = ptr[p]
      /\ \A xx \in Heap!Addrs : xx # p /\ xx # bp => qs[xx] = ptr[xx]
  BY <1>1
<1>3. \A xx \in Heap!Idle : xx # p => qs[xx] = ptr[xx]
  BY <1>2, InFree, HeapFacts
<1>4. Ring(Heap!Idle, ptr) /\ p \in Heap!Idle /\ p < bp /\ (bp < ptr[p] \/ ptr[p] = 0)
  BY InFree
<1>5. Ring(Heap!Idle \cup {bp}, qs)
  <2>1. Inserts(Heap!Idle, ptr, p, bp, qs)
    BY <1>1, <1>2, <1>3, <1>4 DEF Inserts
  <2> QED BY <2>1, <1>4, RingAdd
<1> QED BY <1>2, <1>5

\* Which free blocks touch bp.
LEMMA Touching ==
  ASSUME Heap!IInv, Heap!FreeLink, NEW aa \in Heap!Idle, aa # 0
  PROVE  /\ aa + size[aa] = bp => aa = p
         /\ bp + size[bp] = aa => aa = ptr[p]
<1>1. /\ p \in 0 .. Top /\ ptr[p] \in 0 .. Top /\ Top \in Nat /\ aa \in 0 .. Top
      /\ \A xx \in Heap!Idle : xx <= p \/ (ptr[p] # 0 /\ ptr[p] <= xx)
      /\ ptr[p] \in Heap!Idle
  BY InFree, RingView
<1>2. bp \in 0 .. Top /\ size[bp] \in 0 .. Top /\ size[bp] > 0 /\ size[aa] \in 0 .. Top
  BY InFree, HeapFacts, HeapTop DEF Heap!Begins
<1>3. p < bp /\ (bp < ptr[p] \/ ptr[p] = 0)
  BY InFree
<1>4. /\ bp \in Begin(size) /\ aa \in Begin(size) /\ (p # 0 => p \in Begin(size))
      /\ (ptr[p] # 0 => ptr[p] \in Begin(size))
  BY <1>1, InFree, HeapFacts, HeapAddrs DEF Heap!Idle
<1>5. \A xx, yy \in Begin(size) : xx < yy => xx + size[xx] <= yy
  BY HeapFacts DEF Packed
<1>6. ASSUME aa + size[aa] = bp PROVE aa = p
  <2>1. aa <= p
    BY <1>1, <1>2, <1>3, <1>6
  <2>2. aa < p => aa + size[aa] <= p
    BY <1>1, <1>4, <1>5, <2>1
  <2> QED BY <2>1, <2>2, <1>1, <1>2, <1>3, <1>6
<1>7. ASSUME bp + size[bp] = aa PROVE aa = ptr[p]
  <2>1. ptr[p] # 0 /\ ptr[p] <= aa
    BY <1>1, <1>2, <1>3, <1>7
  <2>2. bp + size[bp] <= ptr[p]
    BY <2>1, <1>3, <1>4, <1>5
  <2> QED BY <2>1, <2>2, <1>1, <1>2, <1>7
<1> QED BY <1>6, <1>7

\* bp and the block above it (umalloc.c:33-37).
LEMMA UpperLinked ==
  ASSUME Heap!IInv, Heap!FreeLink
  PROVE  \E S, s1, q1, qs :
           /\ Heap!JoinUpper([size |-> size, ptr |-> ptr]) = [size |-> s1, ptr |-> q1]
           /\ Linked(S, s1, q1, qs)
<1> DEFINE u == ptr[p]
           S0 == Heap!Idle \cup {bp}
           q0 == [ptr EXCEPT ![p] = bp, ![bp] = u]
<1>1. /\ Ring(S0, q0) /\ q0[p] = bp /\ q0[bp] = u
      /\ \A xx \in Heap!Addrs : xx # p /\ xx # bp => q0[xx] = ptr[xx]
  BY Inserted
<1>2. /\ p \in Heap!Idle /\ u \in Heap!Idle /\ p # bp /\ u # bp /\ bp # 0 /\ bp \notin Heap!Idle
      /\ S0 \subseteq Heap!Addrs /\ u \in Heap!Addrs /\ p \in Heap!Addrs /\ bp \in Heap!Addrs
      /\ (u # 0 => u # p)
      /\ ptr \in [Heap!Addrs -> Heap!Addrs] /\ size \in [Heap!Addrs -> Heap!Addrs] /\ 0 \in Heap!Addrs
  <2>1. p \in Heap!Idle /\ bp \notin Heap!Idle /\ bp # 0 /\ Ring(Heap!Idle, ptr)
    BY InFree
  <2>2. u \in Heap!Idle /\ (u # 0 => u # p)
    BY <2>1, RingOnce DEF Ring
  <2> QED BY <2>1, <2>2, HeapFacts
<1>3. /\ Packed(size, taken, brk) /\ Apart(Heap!Idle, size) /\ Begin(size) = LiveAts \cup (S0 \ {0})
      /\ LiveAts \cap S0 = {}
  BY InFree, HeapFacts
<1> DEFINE q1 == [ptr EXCEPT ![bp] = u]
<1>4. CASE bp + size[bp] # u
  <2>1. Heap!JoinUpper([size |-> size, ptr |-> ptr]) = [size |-> size, ptr |-> q1]
    BY <1>4 DEF Heap!JoinUpper
  <2>2. q1 \in [Heap!Addrs -> Heap!Addrs] /\ q1[bp] = u /\ \A xx \in Heap!Addrs : xx # bp => q1[xx] = ptr[xx]
    BY <1>2
  <2>3. \A xx \in S0 : xx # p => q1[xx] = q0[xx]
    BY <1>1, <1>2, <2>2
  <2>4. \A aa, bb \in S0 \ {0} : aa + size[aa] = bb => aa = p /\ bb = bp
    <3> SUFFICES ASSUME NEW aa \in S0 \ {0}, NEW bb \in S0 \ {0}, aa + size[aa] = bb PROVE aa = p /\ bb = bp
      OBVIOUS
    <3>1. ~(aa \in Heap!Idle /\ bb \in Heap!Idle)
      BY <1>3 DEF Apart
    <3>2. CASE aa = bp
      <4>1. bp + size[bp] # bp
        <5>1. bp \in 0 .. Top /\ size[bp] \in 0 .. Top /\ size[bp] > 0
          BY <1>2, InFree, HeapTop DEF Heap!Begins
        <5> QED BY <5>1
      <4>2. bb \in Heap!Idle /\ bb # 0
        BY <3>2, <4>1
      <4> QED BY <3>2, <4>2, <1>4, Touching
    <3>3. CASE aa \in Heap!Idle /\ bb = bp
      BY <3>3, Touching
    <3> QED BY <3>1, <3>2, <3>3
  <2>5. p \in S0 /\ bp \in S0 /\ \A xx \in LiveAts : xx \notin S0 /\ size[xx] = size[xx]
    BY <1>2, <1>3
  <2> HIDE DEF q0, q1, S0, u
  <2>6. Linked(S0, size, q1, q0)
    BY <1>1, <1>3, <2>2, <2>3, <2>4, <2>5 DEF Linked
  <2> QED BY <2>1, <2>6
<1>5. CASE bp + size[bp] = u
  <2> DEFINE s1 == [size EXCEPT ![bp] = size[bp] + size[u], ![u] = 0]
             q2 == [ptr EXCEPT ![bp] = ptr[u], ![u] = 0]
             qs == [q0 EXCEPT ![bp] = ptr[u]]
             S1 == S0 \ {u}
  <2>1. Heap!JoinUpper([size |-> size, ptr |-> ptr]) = [size |-> s1, ptr |-> q2]
    BY <1>5, HeapAddrs DEF Heap!JoinUpper
  <2>2. u # 0 /\ u # p
    <3>1. bp \in 0 .. Top /\ size[bp] \in 0 .. Top /\ bp # 0
      BY <1>2, HeapTop
    <3>2. bp + size[bp] # 0
      BY <3>1
    <3> QED BY <3>2, <1>2, <1>5
  <2>3. bp \in Begin(size) /\ u \in Begin(size) /\ p \in S1 /\ bp \in S1
    BY <1>2, <1>3, <2>2
  <2>4. /\ Packed(s1, taken, brk) /\ Begin(s1) = Begin(size) \ {u}
        /\ s1[bp] = size[bp] + size[u] /\ \A xx \in Heap!Addrs : xx # bp /\ xx # u => s1[xx] = size[xx]
    <3>1. Joins(size, bp, u, s1)
      BY <1>5, <2>3 DEF Joins
    <3> HIDE DEF s1
    <3> QED BY <3>1, <1>3, Joined
  <2>5. ptr[u] \in Heap!Addrs
    BY <1>2
  <2>6. /\ q2 \in [Heap!Addrs -> Heap!Addrs] /\ q2[bp] = ptr[u]
        /\ \A xx \in Heap!Addrs : xx # bp /\ xx # u => q2[xx] = ptr[xx]
    BY <1>2, <2>5
  <2>7. qs[bp] = q0[u] /\ \A xx \in S0 : xx # bp /\ xx # u => qs[xx] = q0[xx]
    BY <1>1, <1>2, <2>2
  <2>8. Ring(S1, qs)
    <3> HIDE DEF qs, q0, S0
    <3>1. bp \in S0 /\ u = q0[bp] /\ u # 0
      BY <1>1, <2>2, <2>3
    <3>2. Drops(S0, q0, bp, u, qs)
      BY <3>1, <2>7 DEF Drops
    <3> QED BY <3>2, <1>1, RingDrop
  <2>9. qs[p] = bp /\ \A xx \in S1 : xx # p => q2[xx] = qs[xx]
    <3>1. qs[bp] = ptr[u] /\ \A xx \in Heap!Addrs : xx # bp => qs[xx] = q0[xx]
      BY <1>2
    <3> HIDE DEF qs, q0, q2
    <3> QED BY <3>1, <1>1, <1>2, <2>6
  <2>10. \A aa, bb \in S1 \ {0} : aa + s1[aa] = bb => aa = p /\ bb = bp
    <3> SUFFICES ASSUME NEW aa \in S1 \ {0}, NEW bb \in S1 \ {0}, aa + s1[aa] = bb PROVE aa = p /\ bb = bp
      OBVIOUS
    <3>1. CASE aa = bp
      <4>1. bb = u + size[u]
        <5>1. size[bp] \in 0 .. Top /\ size[u] \in 0 .. Top /\ bp \in 0 .. Top
          BY <1>2, HeapTop
        <5>2. bb = bp + (size[bp] + size[u])
          BY <3>1, <2>4
        <5> HIDE DEF s1
        <5> QED BY <5>1, <5>2, <1>5
      <4>2. u # bb
        BY DEF S1
      <4>3. bb # bp
        <5>1. bp < u /\ size[u] \in 0 .. Top /\ bp \in 0 .. Top /\ u \in 0 .. Top
          BY <1>2, <2>2, InFree, HeapTop
        <5> HIDE DEF u
        <5> QED BY <4>1, <5>1
      <4> QED BY <4>1, <4>3, <2>2, <1>2, <1>3 DEF Apart
    <3>2. CASE aa # bp
      <4>1. s1[aa] = size[aa] /\ aa \in Heap!Idle
        BY <3>2, <2>4, <1>2
      <4>2. CASE bb = bp
        BY <4>1, <4>2, Touching
      <4>3. CASE bb # bp
        BY <4>1, <4>3, <1>3 DEF Apart
      <4> QED BY <4>2, <4>3
    <3> QED BY <3>1, <3>2
  <2>11. \A xx \in LiveAts : xx \notin S1 /\ s1[xx] = size[xx]
    <3>1. \A xx \in LiveAts : xx \in Heap!Addrs /\ xx # bp /\ xx # u
      BY <1>2, <1>3, HeapFacts DEF LiveAts
    <3> QED BY <3>1, <1>3, <2>4
  <2>12. Begin(s1) = LiveAts \cup (S1 \ {0})
    <3> HIDE DEF s1
    <3> QED BY <1>2, <1>3, <2>4
  <2> HIDE DEF q0, S0, u, s1, q2, qs, S1
  <2>13. Linked(S1, s1, q2, qs)
    BY <2>3, <2>4, <2>6, <2>8, <2>9, <2>10, <2>11, <2>12 DEF Linked
  <2> QED BY <2>1, <2>13
<1> QED BY <1>4, <1>5

\* free puts bp on the list and joins it with its neighbours.
LEMMA LowerLinked ==
  ASSUME Heap!IInv, Heap!FreeLink
  PROVE  \E S : /\ Packed(size', taken, brk) /\ Begin(size') = LiveAts \cup (S \ {0})
                /\ Ring(S, ptr') /\ p \in S /\ Apart(S, size')
                /\ ptr' \in [Heap!Addrs -> Heap!Addrs]
                /\ \A xx \in LiveAts : xx \notin S /\ size'[xx] = size[xx]
<1>1. PICK S, s1, q1, qs :
           /\ Heap!JoinUpper([size |-> size, ptr |-> ptr]) = [size |-> s1, ptr |-> q1]
           /\ Linked(S, s1, q1, qs)
  BY UpperLinked
<1>2. /\ size' = Heap!JoinLower([size |-> s1, ptr |-> q1]).size
      /\ ptr' = Heap!JoinLower([size |-> s1, ptr |-> q1]).ptr
  BY <1>1 DEF Heap!FreeLink
<1>3. /\ Packed(s1, taken, brk) /\ Begin(s1) = LiveAts \cup (S \ {0})
      /\ Ring(S, qs) /\ p \in S /\ bp \in S /\ qs[p] = bp
      /\ q1 \in [Heap!Addrs -> Heap!Addrs] /\ \A xx \in S : xx # p => q1[xx] = qs[xx]
      /\ \A xx \in LiveAts : xx \notin S /\ s1[xx] = size[xx]
      /\ \A aa, bb \in S \ {0} : aa + s1[aa] = bb => aa = p /\ bb = bp
  BY <1>1 DEF Linked
<1>4. /\ p < bp /\ p # bp /\ bp # 0 /\ p \in 0 .. Top /\ bp \in 0 .. Top /\ p \in Heap!Addrs /\ bp \in Heap!Addrs
      /\ S \subseteq Heap!Addrs /\ 0 \in Heap!Addrs
  BY <1>3, InFree, HeapFacts, HeapTop DEF Ring
<1>5. s1 \in [Heap!Addrs -> Heap!Addrs] /\ bp \in Begin(s1) /\ (p # 0 => p \in Begin(s1))
  BY <1>3, <1>4 DEF Packed
<1>6. CASE p + s1[p] # bp
  <2>1. size' = s1 /\ ptr' = [q1 EXCEPT ![p] = bp]
    BY <1>2, <1>6 DEF Heap!JoinLower
  <2>2. ptr' \in [Heap!Addrs -> Heap!Addrs] /\ \A xx \in S : ptr'[xx] = qs[xx]
    BY <2>1, <1>3, <1>4
  <2>3. Ring(S, ptr')
    BY <2>2, <1>3, RingSame
  <2>4. Apart(S, s1)
    BY <1>3, <1>6 DEF Apart
  <2> QED BY <2>1, <2>2, <2>3, <2>4, <1>3
<1>7. CASE p + s1[p] = bp
  <2>1. size' = [s1 EXCEPT ![p] = s1[p] + s1[bp], ![bp] = 0] /\ ptr' = [q1 EXCEPT ![p] = q1[bp], ![bp] = 0]
    BY <1>2, <1>7, HeapAddrs DEF Heap!JoinLower
  <2>2. p # 0
    <3>1. 0 \notin Begin(s1)
      BY <1>3, HeapAddrs DEF Packed
    <3>2. s1[0] \in 0 .. Top /\ ~(s1[0] > 0)
      BY <3>1, <1>4, <1>5, HeapTop DEF Begin
    <3>3. 0 + s1[0] = 0
      BY <3>2
    <3> QED BY <3>3, <1>4, <1>7
  <2>3. Joins(s1, p, bp, size')
    BY <2>1, <2>2, <1>5, <1>7 DEF Joins
  <2>4. /\ Packed(size', taken, brk) /\ Begin(size') = Begin(s1) \ {bp}
        /\ size'[p] = s1[p] + s1[bp] /\ \A xx \in Heap!Addrs : xx # p /\ xx # bp => size'[xx] = s1[xx]
    BY <2>3, <1>3, Joined
  <2>5. q1[bp] = qs[bp] /\ q1[bp] \in Heap!Addrs
    BY <1>3, <1>4
  <2>6. /\ ptr' \in [Heap!Addrs -> Heap!Addrs] /\ ptr'[p] = qs[bp]
        /\ \A xx \in S : xx # p /\ xx # bp => ptr'[xx] = qs[xx]
    <3>1. q1 \in [Heap!Addrs -> Heap!Addrs] /\ p \in Heap!Addrs /\ bp \in Heap!Addrs /\ p # bp
          /\ 0 \in Heap!Addrs /\ q1[bp] \in Heap!Addrs
      BY <2>5, <1>3, <1>4
    <3>2. /\ ptr' \in [Heap!Addrs -> Heap!Addrs] /\ ptr'[p] = q1[bp]
          /\ \A xx \in Heap!Addrs : xx # p /\ xx # bp => ptr'[xx] = q1[xx]
      BY <2>1, <3>1
    <3> QED BY <3>2, <2>5, <1>3, <1>4
  <2>7. Ring(S \ {bp}, ptr')
    <3>1. Drops(S, qs, p, bp, ptr')
      BY <2>6, <1>3, <1>4 DEF Drops
    <3> QED BY <3>1, <1>3, RingDrop
  <2>8. Apart(S \ {bp}, size')
    <3> SUFFICES ASSUME NEW aa \in S \ {bp}, NEW bb \in S \ {bp}, aa # 0, bb # 0
                 PROVE  aa + size'[aa] # bb
      BY DEF Apart
    <3>1. CASE aa = p
      <4>1. s1[p] \in 0 .. Top /\ s1[bp] \in 0 .. Top
        BY <1>4, <1>5, HeapTop
      <4>2. p + size'[p] = bp + s1[bp]
        BY <4>1, <2>4, <1>4, <1>7
      <4>3. bp + s1[bp] # bb
        BY <1>3, <1>4
      <4> QED BY <3>1, <4>2, <4>3
    <3>2. CASE aa # p
      <4>1. size'[aa] = s1[aa]
        BY <3>2, <2>4, <1>4
      <4> QED BY <3>2, <4>1, <1>3
    <3> QED BY <3>1, <3>2
  <2>9. \A xx \in LiveAts : xx \notin S \ {bp} /\ size'[xx] = size[xx]
    <3> TAKE xx \in LiveAts
    <3>1. xx \in Heap!Addrs /\ xx # p /\ xx # bp
      BY <1>3, HeapFacts DEF LiveAts
    <3> QED BY <3>1, <2>4, <1>3
  <2>10. Begin(size') = LiveAts \cup ((S \ {bp}) \ {0}) /\ p \in S \ {bp}
    BY <2>4, <1>3, <1>4
  <2> QED BY <2>4, <2>6, <2>7, <2>8, <2>9, <2>10
<1> QED BY <1>6, <1>7

\* The last step of free, back in the program or in malloc (umalloc.c:33-43).
LEMMA FreeLinkKeeps ==
  ASSUME Heap!IInv, Heap!FreeLink
  PROVE  Heap!IInv'
<1>1. PICK S : /\ Packed(size', taken, brk) /\ Begin(size') = LiveAts \cup (S \ {0})
                /\ Ring(S, ptr') /\ p \in S /\ Apart(S, size')
                /\ ptr' \in [Heap!Addrs -> Heap!Addrs]
                /\ \A xx \in LiveAts : xx \notin S /\ size'[xx] = size[xx]
  BY LowerLinked
<1>2. /\ pc = "free" /\ pc' \in {"idle", "search"} /\ freep' = p /\ UNCHANGED <<brk, live, taken>>
      /\ (pc' = "search" => prevp' = p /\ p' = ptr'[p] /\ caller = "malloc" /\ UNCHANGED <<nbytes, bp, caller>>)
      /\ (pc' = "idle" => nbytes' = 0 /\ caller' = "program" /\ p' = 0 /\ prevp' = 0 /\ bp' = 0)
  <2>1. pc = "free" /\ freep' = p /\ UNCHANGED <<brk, live, taken>>
    BY DEF Heap!FreeLink
  <2>2. CASE caller = "program"
    <3>1. Heap!Leave
      BY <2>2 DEF Heap!FreeLink
    <3> QED BY <2>1, <3>1, HeapAddrs DEF Heap!Leave
  <2>3. CASE caller # "program"
    <3>1. caller = "malloc"
      BY <2>3 DEF Heap!IInv, Heap!TypeOK
    <3>2. pc' = "search" /\ prevp' = freep' /\ p' = ptr'[freep'] /\ UNCHANGED <<nbytes, bp, caller>>
      BY <2>3 DEF Heap!FreeLink
    <3> QED BY <2>1, <3>1, <3>2
  <2> QED BY <2>2, <2>3
<1>3. Heap!Begins' = Begin(size') /\ Heap!Had' = LiveAts
  BY <1>2 DEF Begin, Heap!Begins, Heap!Had, LiveAts
<1>4. Heap!Idle' = S
  <2>1. 0 \in S
    BY <1>1, HeapAddrs DEF Ring
  <2> QED BY <2>1, <1>1, <1>3, HeapAddrs DEF Heap!Idle
<1>5. Owned'
  <2>1. \A bb \in live : bb.at \in LiveAts
    BY DEF LiveAts
  <2> QED BY <2>1, <1>1, <1>2, <1>3, HeapFacts DEF Owned
<1>6. freep' # Null /\ p \in Heap!Addrs /\ ptr'[p] \in S /\ ptr'[p] \in Heap!Addrs
  <2>1. p \in Heap!Addrs
    BY HeapFacts
  <2> QED BY <2>1, <1>1, <1>2, HeapTop, HeapConstants DEF Ring
<1>7. Heap!TypeOK'
  <2>1. size' \in [Heap!Addrs -> 0 .. Top]
    BY <1>1, HeapTop DEF Packed
  <2>2. /\ {p', prevp', bp'} \subseteq Heap!Addrs /\ nbytes' \in Nat /\ caller' \in {"program", "malloc"}
    BY <1>2, <1>6, HeapFacts DEF Heap!IInv, Heap!TypeOK
  <2> QED BY <2>1, <2>2, <1>1, <1>2, <1>6 DEF Heap!IInv, Heap!TypeOK
<1>8. Heap!CallInv'
  <2>1. CASE pc' = "idle"
    BY <2>1, <1>1, <1>2, <1>4, <1>6 DEF Heap!CallInv
  <2>2. CASE pc' = "search"
    <3>1. \A aa \in S : ~PassedBy(p, ptr'[p], aa)
      BY <1>1, SearchBegins
    <3>2. \A aa \in Heap!Idle' : ~Heap!Passed(aa)'
      BY <2>2, <1>2, <1>4, <3>1 DEF Heap!Passed, PassedBy
    <3>3. nbytes' \in Lens
      BY <2>2, <1>2 DEF Heap!IInv, Heap!CallInv
    <3> QED BY <2>2, <3>2, <3>3, <1>1, <1>2, <1>4, <1>6 DEF Heap!CallInv
  <2> QED BY <2>1, <2>2, <1>2
<1> QED BY <1>1, <1>2, <1>4, <1>5, <1>7, <1>8, HeapInvFrom

\* Before the first call there is no block at all.
LEMMA HeapInit == Heap!Init => Heap!IInv
<1> SUFFICES ASSUME Heap!Init PROVE Heap!IInv
  OBVIOUS
<1>1. /\ ptr = [aa \in Heap!Addrs |-> 0] /\ size = [aa \in Heap!Addrs |-> 0]
      /\ freep = Null /\ brk = 1 /\ live = {} /\ taken = {}
      /\ pc = "idle" /\ nbytes = 0 /\ p = 0 /\ prevp = 0 /\ bp = 0 /\ caller = "program"
  BY HeapAddrs DEF Heap!Init
<1>2. Top \in Nat /\ 0 \in Heap!Addrs /\ 0 \in 0 .. Top /\ 1 \in 1 .. Top + 1
  BY HeapTop
<1>3. Heap!Begins = {} /\ Heap!Had = {} /\ Heap!Idle = {0}
  BY <1>1, HeapAddrs DEF Heap!Begins, Heap!Had, Heap!Idle
<1>4. Heap!TypeOK
  BY <1>1, <1>2 DEF Heap!TypeOK
<1>5. Heap!BlocksInv
  BY <1>1, <1>3 DEF Heap!BlocksInv
<1>6. Heap!RingInv
  BY <1>1, <1>3, HeapAddrs DEF Heap!RingInv
<1>7. Heap!CallInv
  BY <1>1, <1>3 DEF Heap!CallInv
<1> QED BY <1>4, <1>5, <1>6, <1>7 DEF Heap!IInv

\* Every step of malloc, of free and of the program keeps the invariant.
LEMMA HeapSteps ==
  ASSUME Heap!IInv, Heap!Next
  PROVE  Heap!IInv'
BY MallocKeeps, FreeKeeps, SbrkKeeps, TakeWholeKeeps, TakeTailKeeps, NextBlockKeeps, MorecoreKeeps,
   NoMoreKeeps, FreeNextKeeps, FreeLinkKeeps DEF Heap!Next, Heap!Call, Heap!Step

\* So does a step of another program.
LEMMA HeapSame ==
  ASSUME Heap!IInv, UNCHANGED heapVars
  PROVE  Heap!IInv'
<1>1. UNCHANGED <<ptr, size, freep, brk, live, taken, pc, nbytes, p, prevp, bp, caller>>
  BY DEF heapVars
<1>2. Heap!Begins' = Heap!Begins /\ Heap!Had' = Heap!Had
  BY <1>1 DEF Heap!Begins, Heap!Had
<1>3. Heap!Idle' = Heap!Idle
  BY <1>2 DEF Heap!Idle
<1>4. Heap!TypeOK'
  BY <1>1 DEF Heap!IInv, Heap!TypeOK
<1>5. Heap!BlocksInv'
  BY <1>1, <1>2 DEF Heap!IInv, Heap!BlocksInv
<1>6. Heap!RingInv'
  BY <1>1, <1>3 DEF Heap!IInv, Heap!RingInv
<1>7. Heap!CallInv'
  BY <1>1, <1>2, <1>3 DEF Heap!IInv, Heap!CallInv, Heap!Passed, Heap!nunits
<1> QED BY <1>4, <1>5, <1>6, <1>7 DEF Heap!IInv

\* The list that free and malloc walk has the blocks that nobody has.
LEMMA OnListIsIdle ==
  ASSUME Heap!IInv
  PROVE  /\ freep # Null => Heap!OnList = Heap!Idle /\ \E nn \in 1 .. Top + 1 : Heap!walk[nn] = Heap!base
         /\ Heap!OnList \ {0} = Heap!Idle \ {0} /\ Heap!OnList \subseteq Heap!Idle
<1>1. CASE freep = Null
  <2>1. Heap!OnList = {} /\ Heap!Idle = {0}
    BY <1>1, HeapAddrs DEF Heap!OnList, Heap!Idle, Heap!IInv, Heap!CallInv
  <2> QED BY <1>1, <2>1
<1>2. CASE freep # Null
  BY <1>2, HeapFacts, WalkReaches DEF Heap!OnList
<1> QED BY <1>1, <1>2

\* The list is sorted, closed and joined.
LEMMA HeapListSound ==
  ASSUME Heap!IInv
  PROVE  Heap!ListSound
<1> SUFFICES ASSUME freep # Null PROVE Heap!ListSound
  BY DEF Heap!ListSound
<1>1. Heap!OnList = Heap!Idle /\ \E nn \in 1 .. Top + 1 : Heap!walk[nn] = Heap!base
  BY OnListIsIdle
<1>2. freep \in Heap!Idle
  BY DEF Heap!IInv, Heap!CallInv
<1>3. ASSUME NEW aa \in Heap!Idle
      PROVE  LET after == {bb \in Heap!Idle : bb > aa}
             IN IF after = {} THEN ptr[aa] = Heap!base
                ELSE ptr[aa] \in after /\ \A bb \in after : ptr[aa] <= bb
  <2>1. /\ aa \in 0 .. Top /\ ptr[aa] \in 0 .. Top /\ ptr[aa] \in Heap!Idle
        /\ \A xx \in Heap!Idle : xx \in 0 .. Top
        /\ \/ aa < ptr[aa] /\ \A xx \in Heap!Idle : xx <= aa \/ ptr[aa] <= xx
           \/ ptr[aa] = 0 /\ \A xx \in Heap!Idle : xx <= aa
    BY HeapFacts, RingView
  <2>2. CASE aa < ptr[aa] /\ \A xx \in Heap!Idle : xx <= aa \/ ptr[aa] <= xx
    <3>1. ptr[aa] \in {bb \in Heap!Idle : bb > aa}
      BY <2>1, <2>2
    <3>2. \A bb \in {xx \in Heap!Idle : xx > aa} : ptr[aa] <= bb
      BY <2>1, <2>2
    <3> QED BY <3>1, <3>2
  <2>3. CASE ptr[aa] = 0 /\ \A xx \in Heap!Idle : xx <= aa
    <3>1. \A bb \in Heap!Idle : ~(bb > aa)
      BY <2>1, <2>3, HeapTop
    <3>2. {bb \in Heap!Idle : bb > aa} = {}
      BY <3>1
    <3> QED BY <3>2, <2>3, HeapAddrs
  <2> QED BY <2>1, <2>2, <2>3
<1>4. \A aa, bb \in Heap!Idle \ {Heap!base} : aa + size[aa] # bb
  BY DEF Heap!IInv, Heap!RingInv
<1> QED BY <1>1, <1>2, <1>3, <1>4 DEF Heap!ListSound

\* Every header is in one block: on the list, in free's hands or the program's.
LEMMA HeapBlocksExact ==
  ASSUME Heap!IInv
  PROVE  Heap!BlocksExact
<1> DEFINE Of(A) == {Heap!Block(aa, size[aa]) : aa \in A}
           hand  == IF pc = "free" THEN {bp} ELSE {}
<1>1. /\ Owned /\ Packed(size, taken, brk) /\ Begin(size) = Heap!Begins /\ 0 \notin Heap!Begins
  BY HeapFacts, HeapAddrs DEF Packed
<1>2. Heap!Listed = Of(Heap!Idle \ {0})
  BY OnListIsIdle, HeapAddrs DEF Heap!Listed
<1>3. Heap!InHand = Of(hand)
  BY DEF Heap!InHand
<1>4. Heap!Given = Of(LiveAts)
  BY <1>1 DEF Heap!Given, Owned, LiveAts
<1>5. /\ Heap!Begins = (Heap!Idle \ {0}) \cup hand \cup LiveAts
      /\ (Heap!Idle \ {0}) \cap hand = {} /\ (Heap!Idle \ {0}) \cap LiveAts = {} /\ hand \cap LiveAts = {}
  <2>1. Heap!Had = LiveAts \cup hand
    BY DEF Heap!Had, LiveAts
  <2>2. hand \cap LiveAts = {}
    BY <1>1 DEF Owned, LiveAts
  <2> HIDE DEF hand
  <2> QED BY <2>1, <2>2, <1>1, HeapAddrs DEF Heap!Idle, Owned
<1>6. \A aa, bb \in Heap!Begins : aa # bb => Heap!Block(aa, size[aa]) \cap Heap!Block(bb, size[bb]) = {}
  <2> SUFFICES ASSUME NEW aa \in Heap!Begins, NEW bb \in Heap!Begins, aa < bb
               PROVE  Heap!Block(aa, size[aa]) \cap Heap!Block(bb, size[bb]) = {}
    <3>1. \A aa \in Heap!Begins : aa \in 0 .. Top
      BY HeapTop DEF Heap!Begins
    <3>2. \A aa, bb \in Heap!Begins : aa # bb => aa < bb \/ bb < aa
      BY <3>1, HeapTop
    <3> QED BY <3>2
  <2>1. aa + size[aa] <= bb
    BY <1>1 DEF Packed
  <2>2. aa \in 0 .. Top /\ bb \in 0 .. Top /\ size[aa] \in 0 .. Top /\ size[bb] \in 0 .. Top /\ Top \in Nat
    BY HeapFacts, HeapTop DEF Heap!Begins
  <2> QED BY <2>1, <2>2 DEF Heap!Block
<1>7. \A aa \in Heap!Begins : Heap!Block(aa, size[aa]) # {}
  <2> TAKE aa \in Heap!Begins
  <2>1. aa \in 0 .. Top /\ size[aa] \in 0 .. Top /\ size[aa] > 0 /\ Top \in Nat
    BY HeapFacts, HeapTop DEF Heap!Begins
  <2>2. aa \in Heap!Block(aa, size[aa])
    BY <2>1 DEF Heap!Block
  <2> QED BY <2>2
<1>8. \A aa, bb \in Heap!Begins : Heap!Block(aa, size[aa]) = Heap!Block(bb, size[bb]) => aa = bb
  BY <1>6, <1>7
<1>9. taken = UNION Of(Heap!Begins)
  BY DEF Heap!IInv, Heap!BlocksInv
<1>10. Of(Heap!Begins) = Heap!Listed \cup Heap!InHand \cup Heap!Given
  <2> HIDE DEF hand
  <2> QED BY <1>2, <1>3, <1>4, <1>5
<1>11. /\ Heap!Listed \cap Heap!InHand = {} /\ Heap!Listed \cap Heap!Given = {}
       /\ Heap!InHand \cap Heap!Given = {}
  <2> HIDE DEF hand
  <2>1. \A A, B : A \subseteq Heap!Begins /\ B \subseteq Heap!Begins /\ A \cap B = {} => Of(A) \cap Of(B) = {}
    <3> SUFFICES ASSUME NEW A \in SUBSET Heap!Begins, NEW B \in SUBSET Heap!Begins, A \cap B = {},
                        NEW X \in Of(A) \cap Of(B)
                 PROVE  FALSE
      OBVIOUS
    <3>1. PICK aa \in A : X = Heap!Block(aa, size[aa])
      OBVIOUS
    <3>2. PICK bb \in B : X = Heap!Block(bb, size[bb])
      OBVIOUS
    <3> QED BY <3>1, <3>2, <1>8
  <2> HIDE DEF Of
  <2> QED BY <2>1, <1>2, <1>3, <1>4, <1>5
<1>12. \A B, C \in Of(Heap!Begins) : B # C => B \cap C = {}
  BY <1>6
<1> HIDE DEF Of, hand
<1> QED BY <1>1, <1>9, <1>10, <1>11, <1>12 DEF Heap!BlocksExact, Owned

\* The invariant holds in every state of every run.
LEMMA HeapInductive == Spec => [](program = "malloc" => Heap!IInv)
<1>1. Init => (program = "malloc" => Heap!IInv)
  BY HeapInit DEF Init
<1>2. (program = "malloc" => Heap!IInv) /\ [Next]_vars => (program = "malloc" => Heap!IInv)'
  <2> SUFFICES ASSUME program = "malloc" => Heap!IInv, [Next]_vars, program' = "malloc"
               PROVE  Heap!IInv'
    OBVIOUS
  <2>1. program' = program
    BY DEF Next, vars, OnlyHeap, OnlySort, OnlyShell, OnlyScan, OnlyCopy
  <2>2. CASE Heap!Next
    BY <2>1, <2>2, HeapSteps
  <2>3. CASE UNCHANGED heapVars
    BY <2>1, <2>3, HeapSame
  <2> QED BY <2>2, <2>3 DEF Next, vars, OnlyHeap, OnlySort, OnlyShell, OnlyScan, OnlyCopy
<1> QED BY <1>1, <1>2, PTL DEF Spec

\* Each header that came from sbrk is in one block, on the list, in free's
\* hands or the program's, and the list of the free blocks is sorted, closed
\* and joined, for memory of any size, any headers and lengths, and however
\* malloc, free and the program's own sbrk follow each other (umalloc.c:24-88).
THEOREM HeapExact == Spec => []HeapSound
<1>1. (program = "malloc" => Heap!IInv) => HeapSound
  BY HeapBlocksExact, HeapListSound DEF HeapSound, Heap!IInv
<1> QED BY <1>1, HeapInductive, PTL

\* malloc returns 0 only when no free block is large enough, wherever its
\* search began (umalloc.c:74, 86-88).
THEOREM FailsExact == Spec => FailsOnlyIfNone
<1> DEFINE I == program = "malloc" => Heap!IInv
<1>1. I /\ [Next]_vars => [Heap!NoMore => \A a \in Heap!OnList : size[a] < Heap!nunits]_(Heap!vars)
  <2> SUFFICES ASSUME I, [Next]_vars, Heap!NoMore, ~UNCHANGED Heap!vars, NEW aa \in Heap!OnList
               PROVE  size[aa] < Heap!nunits
    OBVIOUS
  <2>1. program = "malloc"
    BY DEF Next, vars, OnlyHeap, OnlySort, OnlyShell, OnlyScan, OnlyCopy, Heap!vars, heapVars
  <2>2. Heap!IInv
    BY <2>1
  <2>3. pc = "search" /\ size[p] < Heap!nunits /\ p = freep
    BY DEF Heap!NoMore, Heap!AtEnd
  <2>4. aa \in Heap!Idle
    BY <2>2, OnListIsIdle
  <2>5. CASE aa = p
    BY <2>3, <2>5
  <2>6. CASE aa # p
    <3>1. aa \in Nat /\ freep \in Nat
      BY <2>2, <2>3, <2>4, HeapFacts, HeapTop
    <3>2. PassedBy(freep, p, aa)
      BY <2>3, <2>6, <3>1, SearchEnds
    <3> QED BY <2>2, <2>3, <2>4, <3>2 DEF Heap!IInv, Heap!CallInv, Heap!Passed, PassedBy
  <2> QED BY <2>5, <2>6
<1>2. Spec => [][Heap!NoMore => \A a \in Heap!OnList : size[a] < Heap!nunits]_(Heap!vars)
  BY <1>1, HeapInductive, PTL DEF Spec
<1>3. Spec => Heap!FailsOnlyIfNone
  BY <1>2, PTL DEF Heap!FailsOnlyIfNone
<1> QED BY <1>3, PTL DEF FailsOnlyIfNone
=============================================================================
