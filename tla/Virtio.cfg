SPECIFICATION FairSpec
CONSTANTS
  Procs = {p1, p2, p3}
  NUM = 7
  RING = 2
  IDXMOD = 4
  NoProc = NoProc
INVARIANTS DescriptorsPartitioned DeviceSeesOwnRequest
PROPERTY ReturnMeansServed RequestReturns
