\* Three slots hold two characters: five keys overflow the ring and wrap around it.
CONSTANTS
  KB_BUFFER_SIZE = 3
  Keys = {"shift", "ctrl", "unused", "c", "x"}
  MaxKeys = 5
SPECIFICATION FairSpec
INVARIANTS TypeOK
PROPERTIES ImplementsQueue DropsOnlyWhenFull KeyDelivered
