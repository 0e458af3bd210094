SPECIFICATION Spec
CONSTANTS
  NPROC = 3
  NPAGES = 22
  Growth = {1, 3}
  Shrink = {1, 3}
  Images = {1, 3}
  USERSTACK = 1
  KINFOS = 1
INVARIANTS PagesAccounted NoPanic 
