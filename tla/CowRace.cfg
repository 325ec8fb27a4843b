SPECIFICATION Spec
CONSTANTS
  Procs = {p0, p1, p2}
  InitProc = p0
  Pages = {m1, m2, m3, m4, m5, m6, m7}
  Page0 = Page0
  NoPage = NoPage
  NoProc = NoProc
  UserTop = 1
  PGSIZE = 2
  KvmPages = 1
  ExecPages = 1
  SbrkArgs = {}
  Stores = {}
  Zero = Zero
  Junk = Junk
  Image = Image
  NCPU = 2
INVARIANTS SharingSafe
SYMMETRY PageSymmetry
