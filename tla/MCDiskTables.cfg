CONSTANTS
  Ports = {0, 1, 2}
  Attached <- AllSata
  Unit = 2
  Buffers <- AllBuffers
  Slots <- MCSlots
  Sectors <- MCSectors
  NoBuffer = NoBuffer
  Frames = {1, 5}
  Low = 4
  MaxEntries = 1
  OwnPage <- AllOwnPages
  Images <- EmptyDrives
  PageSectors = 2
  NoEntry = NoEntry
  Wild = Wild
  Indices = {1, 2}
  Partitions = {0}
  Lbas = {1}
  Counts = {3}
  MaxCalls = 0
SPECIFICATION Spec
INVARIANTS
  TablesFit
CHECK_DEADLOCK FALSE
