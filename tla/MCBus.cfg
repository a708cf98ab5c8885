CONSTANTS
  NULL = NULL
  BusCount = 2
  SlotCount = 2
  FunctionCount = 2
  RegionMod = 3
  Machines <- MCMachines
  Constructors <- MCConstructors
  Searches <- MCSearches
SPECIFICATION Spec
INVARIANTS
  ScanFinds
  DriverFits
  NamesInside
  SearchCounts
\* A panic, a fault or an answer ends the behaviour.
CHECK_DEADLOCK FALSE
