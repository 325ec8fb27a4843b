SPECIFICATION Spec
CONSTANTS
  NPROC = 2
  NCPU = 1
  MaxPid = 3
  KillArgs = {0, 2}
  SleepArgs = {1}
PROPERTY BornAlive
