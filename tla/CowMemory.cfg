SPECIFICATION Spec
CONSTANTS
  Procs = {p0, p1}
  InitProc = p0
  Pages = {m1, m2, m3, m4, m5, m6}
  Page0 = Page0
  NoPage = NoPage
  NoProc = NoProc
  UserTop = 2
  PGSIZE = 2
  KvmPages = 1
  ExecPages = 1
  SbrkArgs <- GrowAndShrink
  Stores = {A}
  Zero = Zero
  Junk = Junk
  Image = Image
  NCPU = 1
INVARIANT MemoryExact
PROPERTIES IsolationFromUserStores ForkCopies
SYMMETRY PageSymmetry
