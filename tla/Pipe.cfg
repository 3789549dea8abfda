\* Three bytes of buffer and ten to send: writes block, positions wrap.
CONSTANTS
  PIPE_BUFFER_SIZE = 3
  Word = 16
  MaxSize = 4
  MaxSent = 10
  MaxCloses = 1
SPECIFICATION FairSpec
INVARIANTS BytesInOrder
PROPERTIES ImplementsQueue  NotBothStuck
