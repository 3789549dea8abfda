\* Two descriptors over two of the ramdisk, three entries, pages of two bytes.
CONSTANTS
  RAMDISK_MAX_FILES = 3
  RD_FDS = 2
  RdPage = 2
  StdDirs <- MCStdDirs
  VFS_MAX_OPEN = 2
  MAX_MOUNTS = 2
  Paths <- MCPaths
  NewPaths <- MCNewPaths
  ProcPath <- MCProcPath
  ProcFiles <- MCProcFiles
  Writes <- MCWrites
  MaxWrites = 2
SPECIFICATION CarefulSpec
INVARIANTS DescriptorsSound FilesSound
 
