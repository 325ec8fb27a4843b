----------------------------- MODULE ByteStream -----------------------------
(***************************************************************************)
(* What a pipe promises: a bounded stream of bytes between the processes   *)
(* that hold its ends.  Bytes leave in the order they entered, each to one *)
(* reader.  A call stops short only where it could not go on: a read of an *)
(* empty stream that has something to return, or nothing to expect; a      *)
(* write into a full stream that nobody can empty; either of a process     *)
(* that has been killed.                                                   *)
(***************************************************************************)
EXTENDS Naturals, Sequences

CONSTANTS
  Procs,     \* processes that hold the pipe
  Bytes,     \* values of a byte
  NoByte,    \* nothing read yet
  Lens,      \* lengths that processes ask for
  Capacity   \* bytes the pipe can hold

VARIABLES
  stream,    \* the bytes in the pipe
  readopen,  \* somebody may still read
  writeopen, \* somebody may still write
  call,      \* what each process is doing: "none", "read", "write"
  todo,      \* bytes its call still has to move
  got,       \* the byte its read delivered last
  killed     \* it has been killed

vars == <<stream, readopen, writeopen, call, todo, got, killed>>

Begin(p, c, n) ==
  /\ call[p] = "none" /\ ~killed[p]
  /\ (c = "read" /\ readopen) \/ (c = "write" /\ writeopen)
  /\ call' = [call EXCEPT ![p] = c]
  /\ todo' = [todo EXCEPT ![p] = n]
  /\ UNCHANGED <<stream, readopen, writeopen, got, killed>>

Put(p, b) ==
  /\ call[p] = "write" /\ todo[p] > 0 /\ Len(stream) < Capacity
  /\ stream' = Append(stream, b)
  /\ todo' = [todo EXCEPT ![p] = @ - 1]
  /\ UNCHANGED <<readopen, writeopen, call, got, killed>>

Take(p) ==
  /\ call[p] = "read" /\ todo[p] > 0 /\ stream # <<>>
  /\ stream' = Tail(stream)
  /\ got' = [got EXCEPT ![p] = Head(stream)]
  /\ todo' = [todo EXCEPT ![p] = @ - 1]
  /\ UNCHANGED <<readopen, writeopen, call, killed>>

End(p) ==
  /\ \/ call[p] # "none" /\ todo[p] = 0
     \/ call[p] = "read" /\ stream = <<>> /\ (got[p] # NoByte \/ ~writeopen \/ killed[p])
     \/ call[p] = "write" /\ Len(stream) = Capacity /\ (~readopen \/ killed[p])
  /\ call' = [call EXCEPT ![p] = "none"]
  /\ todo' = [todo EXCEPT ![p] = 0]
  /\ got' = [got EXCEPT ![p] = NoByte]
  /\ UNCHANGED <<stream, readopen, writeopen, killed>>

CloseRead  == readopen' = FALSE /\ UNCHANGED <<stream, writeopen, call, todo, got, killed>>
CloseWrite == writeopen' = FALSE /\ UNCHANGED <<stream, readopen, call, todo, got, killed>>

Kill(p) ==
  /\ killed' = [killed EXCEPT ![p] = TRUE]
  /\ UNCHANGED <<stream, readopen, writeopen, call, todo, got>>

Init ==
  /\ stream = <<>> /\ readopen = TRUE /\ writeopen = TRUE
  /\ call = [p \in Procs |-> "none"]
  /\ todo = [p \in Procs |-> 0]
  /\ got = [p \in Procs |-> NoByte]
  /\ killed = [p \in Procs |-> FALSE]

Next ==
  \/ \E p \in Procs : \/ \E c \in {"read", "write"}, n \in Lens : Begin(p, c, n)
                      \/ \E b \in Bytes : Put(p, b)
                      \/ Take(p) \/ End(p) \/ Kill(p)
  \/ CloseRead \/ CloseWrite

Spec == Init /\ [][Next]_vars
=============================================================================
