SPECIFICATION MCSpec
CONSTANTS
  LbaLimit = 3
  MaxSectors = 2
  PollLimit = 2
  FlushPollLimit = 3
  SectorWords = 256
  Values = {x, y}
  Drives <- AllDrives
  SectorSize = 3
  DiskBytes = 9
  IntMax = 8
  MaxCalls = 2
  Byte <- MCByte
  Old <- MCOld
  Data <- MCData
SYMMETRY Symmetry
INVARIANTS
  OnlySafeCommands
  ExactlyTheBytes
PROPERTIES
  ImplementsSectorDisk
  CallsReturn
