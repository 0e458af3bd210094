SPECIFICATION Spec
CONSTANTS
  Procs = {p1, p2}
  Blocks = {b1, b2, b3, b4}
  Vals = {v0, v1}
  InitVal = v0
  None = None
  NBUF = 3
  MAXPINS = 1
SYMMETRY BcacheSymmetry
INVARIANTS OneBufferPerBlock NoPanic 
PROPERTY CacheIsStore
