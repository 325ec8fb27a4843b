SPECIFICATION Spec
CONSTANTS
  NPROC = 3
  NCPU = 2
  MaxPid = 4
  KillArgs = {0, 2}
  SleepArgs = {0, 1}
INVARIANTS TypeOK SchedSafe NoLostWakeup ParentAlive
