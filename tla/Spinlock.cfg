SPECIFICATION FairSpec
CONSTANTS
  Cpus = {c1, c2}
  NLOCKS = 2
  NoCpu = NoCpu
INVARIANTS MutualExclusion NoPanic HolderUninterrupted 
PROPERTY LocksReleased
