\* A tick between the load and the store of count.
CONSTANTS
  PIPE_BUFFER_SIZE = 2
  Word = 16
  MaxSize = 2
  MaxSent = 4
  MaxCloses = 0
SPECIFICATION PreemptSpec
INVARIANTS NothingLost
