CONSTANTS
  Frames <- MCFrames
  Counts <- MCCounts
  MemoryMaps <- MCMemoryMaps
  MaxTags = 4
SPECIFICATION Spec
PROPERTIES
  OutOfMemoryIsReal
CHECK_DEADLOCK FALSE
