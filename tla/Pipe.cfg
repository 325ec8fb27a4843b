SPECIFICATION FairSpec
CONSTANTS
  Procs = {p0, p1}
  NoProc = NoProc
  Bytes = {a, b}
  NoByte = NoByte
  Lens = {1, 3}
  PIPESIZE = 2
  Wrap = 4
INVARIANTS TypeOK NoUseAfterFree NoLostWakeup
PROPERTIES ImplementsStream EndsReturn
CHECK_DEADLOCK FALSE
