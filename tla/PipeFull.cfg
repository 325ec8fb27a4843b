SPECIFICATION Spec
CONSTANTS
  Procs = {p0, p1, p2}
  NoProc = NoProc
  Bytes = {a}
  NoByte = NoByte
  Lens = {3}
  PIPESIZE = 2
  Wrap = 4
INVARIANT SleepsOnlyIfEmpty
SYMMETRY ProcSymmetry
CHECK_DEADLOCK FALSE
