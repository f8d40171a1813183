SPECIFICATION FairSpec
CONSTANTS
  Harts = {h1, h2}
  Addrs = {a1, a2}
  None = None
  LrSameReg = FALSE
INVARIANT AmoAtomicAmongAtomics
PROPERTIES MutexReleased Linearizable
