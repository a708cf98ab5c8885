CONSTANTS
  Ports = {0, 3, 5}
  Attached <- MCAttached
  Unit = 2
  Buffers <- MCBuffers
  Slots <- MCSlots
  Sectors <- MCSectors
  NoBuffer = NoBuffer
  Frames = {1, 5}
  Low = 4
  MaxEntries = 1
  OwnPage <- MCOwnPage
  Images <- MCImages
  PageSectors = 2
  NoEntry = NoEntry
  Wild = Wild
  Indices = {1, 2}
  Partitions = {0, 1}
  Lbas = {0}
  Counts = {3}
  MaxCalls = 1
SPECIFICATION Spec
INVARIANTS
  TypeOK
  DoneMeansDone
  NumbersNameDrives
  ScanRegisters
PROPERTIES
  NoStrayDma
  BootEnds
\* The machine stops in a panic or with a fault.
CHECK_DEADLOCK FALSE
