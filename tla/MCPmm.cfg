CONSTANTS
  Frames <- MCFrames
  Counts <- MCCounts
  MemoryMaps <- MCMemoryMaps
  MaxTags = 4
SPECIFICATION Spec
INVARIANTS
  TypeOK
  TagsDisjoint
  HeldNotFree
  FreeIsUsable
  IdleIsNormal
PROPERTIES
  AllocatorSpec
  FixEnds
\* A panic halts the machine.
CHECK_DEADLOCK FALSE
