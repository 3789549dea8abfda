\* The drives of the disk take 28-bit addresses; the mouse answers a reset with one byte.
CONSTANTS
  Peers = {"A", "B"}
  Macs <- MCMacs
  ARP_CACHE_SIZE = 2
  NET_MAX_SOCKETS = 1
  Ports = {1024, 1025}
  VGA_WIDTH = 4
  VGA_HEIGHT = 3
  MouseBits = 2
  ResetReply = 1
  Reports <- MCReports
  Sleepers = {p1, p2}
  Ms = {0, 25, 40}
  TickBits = 13
  TickWrap = 3
  MaxSleeps = 4
  Attached = {0, 1}
  Lba48 = {}
  DiskSectors = {0, 1}
  Data = {"x", "y"}
  Clusters = {2, 3, 4}
  SectorsPerCluster = 2
  EntryAt <- MCEntryAt
  FatNames = {"a", "b"}
  ListRoom = 2
  MaxSeen = 7
  TERM_MAX_LINES = 3
  TERM_LINE_LEN = 3
  TERM_INPUT_LEN = 3
  TermChars = {"c", "e", "t"}
  Clears <- MCClears
  Welcome <- MCWelcome
  Hint <- MCHint
  Output <- MCOutput
  TeSize = 7
  TeChars = {"k"}
  TeSample <- MCSample
  TeVisible = 3
  CalcDigits = 4
  CalcResults <- MCResults
  TextWidth = 5
  TextHeight = 2
  TabStop = 2
  ShellInput = 3
  Prompt <- MCPrompt
  BootText <- MCBootText
  ShellChars <- MCShellChars
  ClearLine <- MCClearLine
  RebootLine <- MCRebootLine
  ShellPrints <- MCShellPrints
  MaxScrolled = 1
  IntBits = 5
  ByteBits = 2
  NameLen = 2
  ExtLen = 2
  HostLen = 3
  PathLen = 4
  MemSize = 5
  LibStrings <- MCStrings
  LibFormats <- MCFormats
  LibSegments <- MCSegments
  LibNames <- MCNames
  LibUrls <- MCUrls
  LibInts <- MCInts
SPECIFICATION PartsSpec
INVARIANTS NetSound    
PROPERTIES   WritesConfined HistoryKept ReadEnds
