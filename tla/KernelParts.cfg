CONSTANTS
  NPROC = 3
  max_stride = 2
  Numbers = {0, 2}
  MaxPid = 4
  MaxPass = 6
  CPUs = {"c0", "c1"}
  BootCpu = "c0"
  Threads = {"t1", "t2"}
  NoThread = "none"
  Readers = {"p1", "p2"}
  NoReader = "none"
  Letters = {"a"}
  NoChar = "-"
  ReadLens = {0, 2}
  INPUT_BUF = 2
  Wrap = 4
  Procs = {"init", "p1"}
  InitProc = "init"
  NoProc = "none"
  FileTable = {"f1", "f2", "f3"}
  NoFile = "none"
  NOFILE = 2
  Pipes = {"r1"}
  Inodes = {"f", "g"}
  BSIZE = 2
  NDIRECT = 1
  NBLOCKS = 5
  Bytes = {1, 2}
  Lens = {1, 4}
  MaxCalls = 3
  MaxCrashes = 1
SPECIFICATION Spec
INVARIANTS StrideSound LocksSound InputSound FilesSound BlocksSound
PROPERTIES ImplementsLineInput WriteExact
CHECK_DEADLOCK FALSE
