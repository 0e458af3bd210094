SPECIFICATION FairSpec
CONSTANTS
  Cpus = {c1, c2}
  NPROC = 2
  NoCpu = NoCpu
INVARIANTS  OneHart NoMissedWakeup
PROPERTIES RunnableRuns
