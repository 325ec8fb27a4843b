SPECIFICATION Spec
CONSTANTS
  Procs = {p0, p1}
  Bufs = {b1, b2}
  Sectors = {s1, s2, m}
  Shared = {m}
  Written = {s1}
  NoSector = NoSector
  NoBuf = NoBuf
  NoCmd = NoCmd
  Vals = {v0, v1}
  Zeroes = v0
  ReadErrors = TRUE
INVARIANT HeldIsOnDisk
CHECK_DEADLOCK FALSE
