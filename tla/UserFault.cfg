SPECIFICATION FSpec
CONSTANTS
  NPROC = 2
  NPAGES = 22
  Growth = {1}
  Shrink = {1}
  Images = {1}
  USERSTACK = 1
  KINFOS = 0
PROPERTY BadAccessKills
