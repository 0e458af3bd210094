SPECIFICATION Spec
CONSTANTS
  Procs = {p1, p2}
  Names = {n1}
  NINUM = 2
  NINODE = 2
  NBLOCKS = 1
  NoProc = NoProc
SYMMETRY Symmetry
INVARIANT NoOrphans
