SPECIFICATION FairSpec
CONSTANTS
  NPROC = 2
  NCPU = 2
  MaxPid = 2
  KillArgs = {2}
  SleepArgs = {1}
PROPERTIES KilledExits SleepEnds
