SPECIFICATION Spec
CONSTANTS
  c0 = c0
  c1 = c1
  Clients = {c0, c1}
  Nobody = Nobody
  Threads = {t0, t1}
  Calls <- IdlePut
  NoCall = NoCall
  NUMKEYS = 1
  NENTRIES = 3
  RETRY_COUNT = 2
  MaxSeq <- OneEach
  SlowThreads = TRUE
INVARIANT FinalRepliesExact
CHECK_DEADLOCK FALSE
