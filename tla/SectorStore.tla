---------------------------- MODULE SectorStore ----------------------------
(***************************************************************************)
(* What the buffer cache promises to the file system (kernel/bio.c:1-22):  *)
(* bread hands out a sector with its contents on the disk to one process   *)
(* at a time; a change is on the disk when bwrite returns, and the sector  *)
(* cannot be given back before.                                            *)
(***************************************************************************)
EXTENDS Naturals

CONSTANTS Procs, Sectors, Vals

VARIABLES
  disk,  \* contents of the sectors, which survive everything
  held   \* per process: the sectors it holds, with the contents it sees

vars == <<disk, held>>

Holds(p, s) == s \in DOMAIN held[p]
Set(p, s, v) == [held EXCEPT ![p] = [t \in DOMAIN @ \cup {s} |-> IF t = s THEN v ELSE @[t]]]

Init == disk \in [Sectors -> Vals] /\ held = [p \in Procs |-> [s \in {} |-> s]]

Acquire(p, s) ==
  /\ \A q \in Procs : ~Holds(q, s)
  /\ held' = Set(p, s, disk[s])
  /\ UNCHANGED disk

Change(p, s, v) ==
  /\ Holds(p, s) /\ held[p][s] = disk[s]
  /\ held' = Set(p, s, v)
  /\ UNCHANGED disk

Commit(p, s) ==
  /\ Holds(p, s)
  /\ disk' = [disk EXCEPT ![s] = held[p][s]]
  /\ UNCHANGED held

Release(p, s) ==
  /\ Holds(p, s) /\ held[p][s] = disk[s]
  /\ held' = [held EXCEPT ![p] = [t \in DOMAIN @ \ {s} |-> @[t]]]
  /\ UNCHANGED disk

Next == \E p \in Procs, s \in Sectors :
  \/ Acquire(p, s)
  \/ \E v \in Vals : Change(p, s, v)
  \/ Commit(p, s)
  \/ Release(p, s)

Spec == Init /\ [][Next]_vars
=============================================================================
