------------------------------- MODULE MCPipe -------------------------------
(***************************************************************************)
(* Pipe for TLC.  Processes are alike: invariants are checked up to a      *)
(* renaming of them (not sound for the liveness properties).               *)
(***************************************************************************)
EXTENDS Pipe, TLC

ProcSymmetry == Permutations(Procs)
=============================================================================
