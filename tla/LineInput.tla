----------------------------- MODULE LineInput -----------------------------
(***************************************************************************)
(* What the console promises its readers: characters can be taken back     *)
(* until their line is complete, complete lines are given out in order,    *)
(* each character once, and an end of file ends one read that has got      *)
(* nothing.                                                                *)
(***************************************************************************)
EXTENDS Naturals, Sequences

CONSTANTS Procs, Chars, Newline, EndOfFile, NoChar, Size

VARIABLES
  line,   \* the line being typed
  ready,  \* complete lines
  given,  \* characters given to the running read of each process
  got     \* the last of them

vars == <<line, ready, given, got>>

Init ==
  /\ line = <<>> /\ ready = <<>>
  /\ given = [p \in Procs |-> 0] /\ got = [p \in Procs |-> NoChar]

Room == Len(ready) + Len(line) < Size

(* A line is complete with its end or when it fills the buffer.            *)
Type(c) ==
  /\ Room
  /\ IF c \in {Newline, EndOfFile} \/ Len(ready) + Len(line) + 1 = Size
     THEN ready' = ready \o Append(line, c) /\ line' = <<>>
     ELSE line' = Append(line, c) /\ UNCHANGED ready
  /\ UNCHANGED <<given, got>>

Erase ==
  /\ line # <<>>
  /\ line' = SubSeq(line, 1, Len(line) - 1)
  /\ UNCHANGED <<ready, given, got>>

KillLine == line' = <<>> /\ UNCHANGED <<ready, given, got>>

Give(p) ==
  /\ ready # <<>> /\ Head(ready) # EndOfFile
  /\ ready' = Tail(ready)
  /\ got' = [got EXCEPT ![p] = Head(ready)]
  /\ given' = [given EXCEPT ![p] = @ + 1]
  /\ UNCHANGED line

GiveEnd(p) ==
  /\ ready # <<>> /\ Head(ready) = EndOfFile /\ given[p] = 0
  /\ ready' = Tail(ready)
  /\ UNCHANGED <<line, given, got>>

Return(p) ==
  /\ given' = [given EXCEPT ![p] = 0]
  /\ got' = [got EXCEPT ![p] = NoChar]
  /\ UNCHANGED <<line, ready>>

Next ==
  \/ \E c \in Chars : Type(c)
  \/ Erase \/ KillLine
  \/ \E p \in Procs : Give(p) \/ GiveEnd(p) \/ Return(p)

Spec == Init /\ [][Next]_vars
=============================================================================
