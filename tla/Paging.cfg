\* 11 bits of bitmap, 10 frames of memory, the kernel in the first 2.
CONSTANTS
  BITMAP_BITS = 11
  MemPages = 10
  StartPage = 2
  DirSize = 2
  TabSize = 2
SPECIFICATION PagingSpec
INVARIANTS FramesConserved AccountingExact SpacesSound
PROPERTIES ImplementsPool SpacesIndependent
