SPECIFICATION FairSpec
CONSTANTS
  NPROC = 4
  MAXPID = 4
  KillPids = {0, 2, 4}
INVARIANTS ParentAlive StackInUse NoMissedExit
PROPERTY InitReaps
