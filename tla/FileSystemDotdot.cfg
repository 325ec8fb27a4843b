SPECIFICATION Spec
CONSTANTS
  Procs = {p0, p1}
  Calls <- DotdotCalls
  Images <- NestedImage
  NINODES = 3
  NBLOCKS = 3
  NSLOTS = 4
  NOFILE = 1
  MaxCalls = 4
  MaxCrashes = 0
INVARIANT NoPanic
SYMMETRY ProcSymmetry
CHECK_DEADLOCK FALSE
