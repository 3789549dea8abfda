\* The master takes 28-bit addresses, the slave 48-bit ones.
CONSTANTS
  Attached = {0, 1}
  Lba48 = {1}
  DiskSectors = {0, 1}
  Data = {"x", "y"}
SPECIFICATION AtaSpec
PROPERTIES WritesConfined
