CONSTANTS
  PAGE_SIZE = 8
  HDR = 1
  SLACK = 1
  ALIGN = 4
  KHEAP_START = 8
  Word = 64
  Capacity = 3
  Requests = {0, 2, 4, 8}
  Counts = {2}
SPECIFICATION Spec
INVARIANTS Tiled HoldersServed
PROPERTIES HeldBlocksStable
