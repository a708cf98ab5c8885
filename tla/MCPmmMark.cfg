CONSTANTS
  Frames <- MCFrames
  Counts <- MCCounts
  MemoryMaps <- MCMemoryMaps
  MaxTags = 4
SPECIFICATION Spec
PROPERTIES
  MarksOnlyTheBlock
CHECK_DEADLOCK FALSE
