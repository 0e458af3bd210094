SPECIFICATION Spec
CONSTANTS
  Writers = {w1, w2}
  Readers = {r1}
  Vals = {0, 1}
  PIPESIZE = 2
  UINTMOD = 4
  MAXN = 3
  NoProc = NoProc
SYMMETRY PipeSymmetry
CHECK_DEADLOCK FALSE
INVARIANTS FreedUnused NoStuckSleeper 
PROPERTY PipeIsFifo
