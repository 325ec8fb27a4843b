SPECIFICATION Spec
CONSTANTS
  Procs = {p0, p1}
  Calls <- ManyCalls
  Images <- FewImages
  NINODES = 3
  NBLOCKS = 3
  NSLOTS = 4
  NOFILE = 1
  MaxCalls = 3
  MaxCrashes = 1
INVARIANTS DiskConsistent CallsSound NoDeadlock
SYMMETRY ProcSymmetry
CHECK_DEADLOCK FALSE
