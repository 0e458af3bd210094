SPECIFICATION FairSpec
CONSTANTS
  Procs = {p1, p2}
  Blocks = {b1, b2}
  Vals = {v0, v1}
  InitVal = v0
  NoVal = NoVal
  Torn = Torn
  MAXOPBLOCKS = 3
  OPBLOCKS = 2
  LOGBLOCKS = 7
INVARIANTS TypeOK CommitsAlone PinsMatchLog SpaceInv NoPanic
PROPERTY CrashAtomic 
