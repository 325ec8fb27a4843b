SPECIFICATION FairSpec
CONSTANTS
  c0 = c0
  c1 = c1
  Clients = {c0, c1}
  Nobody = Nobody
  Threads = {t0, t1}
  Calls <- ReadersWriter
  NoCall = NoCall
  NUMKEYS = 1
  NENTRIES = 2
  RETRY_COUNT = 2
  MaxSeq <- TwoAndOne
  SlowThreads = FALSE
INVARIANT ServerSound
PROPERTIES ImplementsRemoteCall CallEnds
CHECK_DEADLOCK FALSE
